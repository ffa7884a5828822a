--------------------------- MODULE AccountProofs ---------------------------
(***************************************************************************)
(* Proofs about the account Relay.tla composes (Accounts.tla): SignedOut   *)
(* and StaysWithdrawn, for any number of requests, cookies, apps, grants   *)
(* and token pairs. SessionInv adds to SignedOut what each request that    *)
(* may still make a cookie remembers of the account; GrantInv adds to      *)
(* StaysWithdrawn that an approval is on one row and, once a request has   *)
(* read it, either still there or withdrawn. Types are those of            *)
(* RelayProofs.tla.                                                        *)
(***************************************************************************)
EXTENDS RelayProofs

(* Requests that hold what they read of the account, and of a grant.       *)
Holder == {"signin", "page", "signoutall", "password", "rename", "answer"}
GrantOp == {"exchange", "refresh", "revoke"}

LEMMA Away ==
  ASSUME TypeOK, NEW r \in Request, NEW t, NEW S, Becomes(r, t), t.op \notin S
  PROVE  \A q \in Request : task'[q] = task[q] \/ task'[q].op \notin S
BY Moves

(* A request that ends, and the answer of profile_update, hold no grant;   *)
(* one that works on a grant holds nothing of the account.                 *)
LEMMA EndsAway ==
  ASSUME TypeOK, NEW r \in Request, Ends(r)
  PROVE  \A q \in Request : task'[q] = task[q] \/ task'[q].op \notin Holder \cup GrantOp
<1>1. Idle.op = "none" /\ "none" \notin Holder \cup GrantOp
  BY DEF Idle, Holder, GrantOp
<1>. QED BY <1>1, Away DEF Ends

LEMMA LoadsAway ==
  ASSUME TypeOK, NEW r \in Request, NEW i \in Approval,
         ExchangeLoads(r, i) \/ RefreshLoads(r, i) \/ RevokeLoads(r, i)
  PROVE  \A q \in Request : task'[q] = task[q] \/ task'[q].op \notin Holder
<1>1. PICK op \in GrantOp : Loads(r, op, i)
  BY DEF ExchangeLoads, RefreshLoads, RevokeLoads, GrantOp
<1>2. Becomes(r, [Idle EXCEPT !.op = op, !.id = i, !.what = grant[i].approval])
  BY <1>1 DEF Loads
<1>3. [Idle EXCEPT !.op = op, !.id = i, !.what = grant[i].approval].op = op
  BY DEF Idle
<1>. QED BY <1>2, <1>3, Away DEF GrantOp, Holder

(* The REST API and its keys do neither.                                   *)
LEMMA RelayAway ==
  ASSUME TypeInv, RelayStep
  PROVE  \A q \in Request : task'[q] = task[q] \/ task'[q].op \notin Holder \cup GrantOp
<1>. DEFINE Keeps == \A q \in Request : task'[q] = task[q] \/ task'[q].op \notin Holder \cup GrantOp
<1>0. TypeOK
  BY DEF TypeInv
<1>1. ASSUME NEW r \in Request, NEW t, Becomes(r, t), t.op \in {"hash", "look", "insert", "call", "settle", "polled"}
      PROVE  Keeps
  BY <1>0, <1>1, Away DEF Holder, GrantOp
<1>2. ASSUME NEW r \in Request, Ends(r) PROVE Keeps
  BY <1>0, <1>2, EndsAway
<1>3. ASSUME task' = task PROVE Keeps
  BY <1>3
<1>4. ASSUME Restart PROVE Keeps
  <2>1. \A q \in Request : task'[q] = Idle
    BY <1>4 DEF Restart
  <2>. QED BY <2>1 DEF Idle, Holder, GrantOp
<1>. HIDE DEF Keeps
<1>5. ASSUME NEW r \in Request, InsertKey(r) PROVE Keeps
  <2>1. PICK id : Becomes(r, [Idle EXCEPT !.op = "hash", !.id = id])
    BY <1>5 DEF InsertKey
  <2>2. [Idle EXCEPT !.op = "hash", !.id = id].op = "hash"
    BY DEF Idle
  <2>. QED BY <1>1, <2>1, <2>2
<1>6. ASSUME NEW r \in Request, NEW i, NEW k, NEW p, Submit(r, i, k, p) PROVE Keeps
  <2>1. Becomes(r, [Idle EXCEPT !.op = "look", !.what = key[i].hash, !.id = k, !.seen = p])
    BY <1>6 DEF Submit
  <2>2. [Idle EXCEPT !.op = "look", !.what = key[i].hash, !.id = k, !.seen = p].op = "look"
    BY DEF Idle
  <2>. QED BY <1>1, <2>1, <2>2
<1>7. ASSUME NEW r \in Request, Look(r) PROVE Keeps
  <2>1. task[r] \in Task
    BY <1>0, TaskType
  <2>2. [task[r] EXCEPT !.op = "insert"].op = "insert"
    BY <2>1 DEF Task
  <2>3. Ends(r) \/ Becomes(r, [task[r] EXCEPT !.op = "insert"])
    BY <1>7 DEF Look
  <2>. QED BY <1>1, <1>2, <2>2, <2>3
<1>8. ASSUME NEW r \in Request, Insert(r) PROVE Keeps
  <2>1. Ends(r) \/ Becomes(r, [Idle EXCEPT !.op = "call", !.id = Len(operation) + 1])
    BY <1>8 DEF Insert
  <2>2. [Idle EXCEPT !.op = "call", !.id = Len(operation) + 1].op = "call"
    BY DEF Idle
  <2>. QED BY <1>1, <1>2, <2>1, <2>2
<1>9. ASSUME NEW r \in Request, NEW outcome, NEW arrives, Call(r, outcome, arrives) PROVE Keeps
  <2>1. Becomes(r, [Idle EXCEPT !.op = "settle", !.id = task[r].id, !.saw = outcome])
    BY <1>9 DEF Call
  <2>2. [Idle EXCEPT !.op = "settle", !.id = task[r].id, !.saw = outcome].op = "settle"
    BY DEF Idle
  <2>. QED BY <1>1, <2>1, <2>2
<1>10. ASSUME NEW r \in Request, NEW i, NEW n, Poll(r, i, n) PROVE Keeps
  <2>1. Becomes(r, [Idle EXCEPT !.op = "polled", !.id = n, !.saw = worker[n]])
    BY <1>10 DEF Poll
  <2>2. [Idle EXCEPT !.op = "polled", !.id = n, !.saw = worker[n]].op = "polled"
    BY DEF Idle
  <2>. QED BY <1>1, <2>1, <2>2
<1>11. ASSUME NEW r \in Request, HashKey(r) \/ Settle(r) \/ PollCommits(r) PROVE Keeps
  BY <1>2, <1>11 DEF HashKey, Settle, PollCommits
<1>12. ASSUME NEW r \in Request, NEW i \in KeyId, ToggleKey(r, i) \/ DeleteKey(r, i) PROVE Keeps
  BY <1>3, <1>12 DEF ToggleKey, DeleteKey
<1>13. ASSUME NEW n \in 1..MaxOperations, WorkerMoves(n) PROVE Keeps
  BY <1>3, <1>13 DEF WorkerMoves
<1>14. Keeps
  BY <1>4, <1>5, <1>6, <1>7, <1>8, <1>9, <1>10, <1>11, <1>12, <1>13 DEF RelayStep
<1>. QED BY <1>14 DEF Keeps

-----------------------------------------------------------------------------
(* Sessions *)

(* A cookie with this version and epoch is let in only if it is of now.    *)
Fresh(sv, born) == sv <= account.sv /\ (sv = account.sv => born = account.epoch)

(* Unless a request that writes to the account was under way when it was   *)
(* signed out everywhere: cookies are fresh, and so are those a sign-in or *)
(* a page would make; a request that may write to the account has read it  *)
(* as it is, and an answer carries a cookie of now.                        *)
SessionInv ==
  \/ overlap
  \/ /\ \A s \in jar : Fresh(s.sv, s.born)
     /\ \A r \in Request :
          /\ task[r].op \in {"signin", "page"} => Fresh(task[r].seen, task[r].born)
          /\ task[r].op \in {"signoutall", "password", "rename"} =>
               task[r].seen = account.sv /\ task[r].born = account.epoch
          /\ task[r].op = "answer" => task[r].born = account.epoch

LEMMA SessionFrame ==
  ASSUME SessionInv, account'.sv = account.sv, account'.epoch = account.epoch,
         UNCHANGED <<jar, overlap>>,
         \A q \in Request : task'[q] = task[q] \/ task'[q].op \notin Holder
  PROVE  SessionInv'
BY DEF SessionInv, Fresh, Holder

(* The account as a session that is let in finds it.                       *)
LEMMA OpensSession ==
  ASSUME TypeInv, SessionInv, NEW r \in Request, NEW op \in SessionOp \ {"answer"}, Opens(r, op)
  PROVE  SessionInv'
<1>1. PICK s \in jar : /\ Valid(s) /\ SessionsUnchanged
                       /\ Becomes(r, [Idle EXCEPT !.op = op, !.seen = account.sv, !.born = s.born])
  BY DEF Opens
<1>. DEFINE t == [Idle EXCEPT !.op = op, !.seen = account.sv, !.born = s.born]
<1>2. t.op = op /\ t.seen = account.sv /\ t.born = s.born
  BY DEF Idle
<1>3. task'[r] = t /\ \A q \in Request \ {r} : task'[q] = task[q]
  BY <1>1, Moves DEF TypeInv
<1>. HIDE DEF t
<1>4. account.sv \in Nat
  BY DEF TypeInv, TypeOK, AccountTypeOK
<1>5. ~overlap => s.born = account.epoch
  BY <1>1 DEF SessionInv, Fresh, Valid
<1>. QED BY <1>1, <1>2, <1>3, <1>4, <1>5 DEF SessionInv, SessionsUnchanged, Fresh

LEMMA SignInLoadsSession ==
  ASSUME TypeInv, SessionInv, NEW r \in Request, SignInLoads(r)
  PROVE  SessionInv'
<1>. DEFINE t == [Idle EXCEPT !.op = "signin", !.seen = account.sv, !.born = account.epoch]
<1>1. Becomes(r, t) /\ SessionsUnchanged
  BY DEF SignInLoads
<1>2. t.op = "signin" /\ t.seen = account.sv /\ t.born = account.epoch
  BY DEF Idle
<1>3. task'[r] = t /\ \A q \in Request \ {r} : task'[q] = task[q]
  BY <1>1, Moves DEF TypeInv
<1>. HIDE DEF t
<1>4. account.sv \in Nat
  BY DEF TypeInv, TypeOK, AccountTypeOK
<1>. QED BY <1>1, <1>2, <1>3, <1>4 DEF SessionInv, SessionsUnchanged, Fresh

(* A cookie is made: fresh, because what it is made from was.              *)
LEMMA CookieSession ==
  ASSUME TypeInv, SessionInv, NEW r \in Request, SignsIn(r) \/ Renews(r) \/ ProfileAnswers(r)
  PROVE  SessionInv'
<1>. DEFINE k == IF task[r].op = "answer" THEN CookieFresh(r) ELSE Cookie(r)
<1>1. jar' = jar \cup {k} /\ Ends(r) /\ UNCHANGED <<account, overlap>>
  BY DEF SignsIn, Renews, ProfileAnswers, Goes
<1>2. account.sv \in Nat
  BY DEF TypeInv, TypeOK, AccountTypeOK
<1>3. ~overlap => Fresh(k.sv, k.born)
  BY <1>2 DEF SignsIn, Renews, ProfileAnswers, Goes, SessionInv, Cookie, CookieFresh, Fresh
<1>. HIDE DEF k
<1>4. \A q \in Request : task'[q] = task[q] \/ task'[q].op \notin Holder
  BY <1>1, EndsAway DEF TypeInv
<1>. QED BY <1>1, <1>3, <1>4 DEF SessionInv, Fresh, Holder

LEMMA RenameSession ==
  ASSUME TypeInv, SessionInv, NEW r \in Request, Rename(r)
  PROVE  SessionInv'
<1>. DEFINE t == [task[r] EXCEPT !.op = "answer"]
<1>1. Becomes(r, t) /\ SessionsUnchanged /\ task[r].op = "rename" /\ task[r] \in Task
  BY TaskType DEF Rename, Goes, TypeInv
<1>2. t.op = "answer" /\ t.born = task[r].born
  BY <1>1 DEF Task
<1>3. task'[r] = t /\ \A q \in Request \ {r} : task'[q] = task[q]
  BY <1>1, Moves DEF TypeInv
<1>. HIDE DEF t
<1>. QED BY <1>1, <1>2, <1>3 DEF SessionInv, SessionsUnchanged, Fresh

(* Signing out everywhere leaves every cookie, and every cookie yet to be  *)
(* made from an earlier read, one version behind.                          *)
LEMMA BumpsSession ==
  ASSUME TypeInv, SessionInv, NEW r \in Request, Bumps(r), UNCHANGED jar,
         task[r].op \in {"signoutall", "password"},
         NEW t, Becomes(r, t), t.op \in {"none", "answer"},
         t.op = "answer" => t.born = account.epoch + 1
  PROVE  SessionInv'
<1>. SUFFICES ASSUME ~overlap' PROVE SessionInv'
  BY DEF SessionInv
<1>1. ~overlap /\ \A q \in Request \ {r} :
                     task[q].op \notin {"password", "rename", "signoutall", "answer"}
  BY DEF Bumps
<1>2. account \in [active : BOOLEAN, sv : 0..MaxVersion, epoch : 0..MaxVersion]
  BY DEF TypeInv, TypeOK, AccountTypeOK
<1>3. account.sv \in Nat /\ account'.sv = account.sv + 1 /\ account'.epoch = account.epoch + 1
  BY <1>1, <1>2 DEF Bumps, SessionInv
<1>4. task'[r] = t /\ \A q \in Request \ {r} : task'[q] = task[q]
  BY Moves DEF TypeInv
<1>5. \A s \in jar' : s.sv < account'.sv
  <2>1. \A s \in jar : s.sv \in Nat /\ s.sv <= account.sv
    BY <1>1 DEF SessionInv, Fresh, TypeInv, TypeOK, AccountTypeOK
  <2>. QED BY <1>3, <2>1
<1>6. \A q \in Request \ {r} : task[q].op \in {"signin", "page"} => task[q].seen < account'.sv
  <2>1. \A q \in Request : task[q].seen \in Nat
    BY TaskType DEF TypeInv
  <2>. QED BY <1>1, <1>3, <2>1 DEF SessionInv, Fresh
<1>7. \A s \in jar' : s.sv \in Nat
  BY DEF TypeInv, TypeOK, AccountTypeOK
<1>8. \A q \in Request : task[q].seen \in Nat
  BY TaskType DEF TypeInv
<1>9. \A m, n \in Nat : m < n => m <= n /\ m # n
  OBVIOUS
<1>10. \A s \in jar' : Fresh(s.sv, s.born)'
  BY <1>3, <1>5, <1>7, <1>9 DEF Fresh
<1>11. \A q \in Request \ {r} : task[q].op \in {"signin", "page"} => Fresh(task[q].seen, task[q].born)'
  <2>. SUFFICES ASSUME NEW q \in Request \ {r}, task[q].op \in {"signin", "page"}
                PROVE  task'[q].seen <= account'.sv /\ task'[q].seen # account'.sv
    BY <1>4 DEF Fresh
  <2>. QED BY <1>3, <1>4, <1>6, <1>8, <1>9
<1>. QED BY <1>1, <1>3, <1>4, <1>10, <1>11 DEF SessionInv

LEMMA SignOutSession ==
  ASSUME TypeInv, SessionInv, NEW r \in Request, SignOutEverywhere(r) \/ ChangePassword(r)
  PROVE  SessionInv'
<1>1. CASE SignOutEverywhere(r)
  <2>1. Becomes(r, Idle)
    BY <1>1 DEF SignOutEverywhere, Ends
  <2>2. Idle.op = "none"
    BY DEF Idle
  <2>3. Bumps(r) /\ UNCHANGED jar /\ task[r].op \in {"signoutall", "password"}
    BY <1>1 DEF SignOutEverywhere, Goes
  <2>. QED BY <2>1, <2>2, <2>3, BumpsSession
<1>2. CASE ChangePassword(r)
  <2>. DEFINE t == [Idle EXCEPT !.op = "answer", !.born = account.epoch + 1]
  <2>1. Becomes(r, t) /\ t.op = "answer" /\ t.born = account.epoch + 1
    BY <1>2 DEF ChangePassword, Idle
  <2>. HIDE DEF t
  <2>. QED BY <1>2, <2>1, BumpsSession DEF ChangePassword, Goes
<1>. QED BY <1>1, <1>2

LEMMA NextSession ==
  ASSUME TypeInv, SessionInv, [Next]_vars
  PROVE  SessionInv'
<1>0. TypeOK
  BY DEF TypeInv
<1>1. ASSUME NEW r \in Request, Ends(r), UNCHANGED <<account, jar, overlap>>
      PROVE  SessionInv'
  BY <1>0, <1>1, EndsAway, SessionFrame DEF Holder
<1>2. CASE AccountStep
  <2>1. CASE ToggleUserActive
    <3>1. account'.sv = account.sv /\ account'.epoch = account.epoch /\ UNCHANGED <<jar, overlap, task>>
      BY <1>0, <2>1 DEF ToggleUserActive, TypeOK, AccountTypeOK
    <3>. QED BY <3>1, SessionFrame
  <2>2. ASSUME NEW i \in Approval, CodeExpires(i) PROVE SessionInv'
    BY <2>2, SessionFrame DEF CodeExpires, SessionsUnchanged
  <2>3. ASSUME NEW r \in Request, NEW op \in {"page", "signoutall", "password", "rename", "allow"},
               Opens(r, op)
        PROVE  SessionInv'
    BY <2>3, OpensSession DEF SessionOp
  <2>4. ASSUME NEW r \in Request,
               \/ RowGone(r) \/ Revoke(r) \/ \E c \in 1..Clients : Allow(r, c)
               \/ \E op \in {"exchange", "refresh"} : IssueTokens(r, op)
        PROVE  SessionInv'
    BY <1>1, <2>4 DEF RowGone, Revoke, Allow, IssueTokens, SessionsUnchanged
  <2>5. ASSUME NEW r \in Request, NEW i \in Approval,
               ExchangeLoads(r, i) \/ RefreshLoads(r, i) \/ RevokeLoads(r, i)
        PROVE  SessionInv'
    <3>1. UNCHANGED <<account, jar, overlap>>
      BY <2>5 DEF ExchangeLoads, RefreshLoads, RevokeLoads, Loads, SessionsUnchanged
    <3>. QED BY <1>0, <2>5, <3>1, LoadsAway, SessionFrame
  <2>6. ASSUME NEW r \in Request,
               \/ SignInLoads(r) \/ SignsIn(r) \/ Renews(r) \/ SignOutEverywhere(r)
               \/ ChangePassword(r) \/ Rename(r) \/ ProfileAnswers(r)
        PROVE  SessionInv'
    BY <2>6, SignInLoadsSession, CookieSession, SignOutSession, RenameSession
  <2>. QED BY <1>2, <2>1, <2>2, <2>3, <2>4, <2>5, <2>6 DEF AccountStep
<1>3. CASE \E r \in Request : Opens(r, "newkey")
  BY <1>3, OpensSession DEF SessionOp
<1>4. CASE RelayStep /\ UNCHANGED accountVars
  <2>1. \A q \in Request : task'[q] = task[q] \/ task'[q].op \notin Holder
    BY <1>4, RelayAway
  <2>. QED BY <1>4, <2>1, SessionFrame DEF accountVars
<1>5. CASE UNCHANGED vars
  BY <1>5, SessionFrame DEF vars, accountVars
<1>. QED BY <1>2, <1>3, <1>4, <1>5 DEF Next

(* A session that is let in comes from a sign-in, or a password change,    *)
(* made since the account was last signed out everywhere, however many     *)
(* sign-ins, renewals and pages were under way (auth.py, main.py).         *)
THEOREM SignedOutAlways == Spec => []SignedOut
<1>1. Init => SessionInv
  <2>. SUFFICES ASSUME Init PROVE SessionInv
    OBVIOUS
  <2>1. jar = {} /\ \A r \in Request : task[r].op = "none"
    BY DEF Init, AccountInit, Idle
  <2>. QED BY <2>1 DEF SessionInv
<1>2. IndInv /\ SessionInv /\ [Next]_vars => SessionInv'
  BY NextSession DEF IndInv
<1>3. SessionInv => SignedOut
  BY DEF SessionInv, SignedOut, Fresh
<1>. QED BY <1>1, <1>2, <1>3, IndInvAlways, PTL DEF Spec

-----------------------------------------------------------------------------
(* Grants *)

Live(i) == grant[i] # NoGrant

(* An approval is recorded by one row at most and never comes back; what a *)
(* request has read is there still or has been withdrawn; and the pair of  *)
(* a row nobody wrote to in error was issued for its approval.             *)
GrantInv ==
  /\ \A i \in Approval : Live(i) =>
       /\ grant[i].approval \notin withdrawn
       /\ grant[i].pair <= Len(origin)
       /\ ~grant[i].crossed /\ grant[i].pair # 0 => origin[grant[i].pair] = grant[i].approval
  /\ \A i, j \in Approval : Live(i) /\ Live(j) /\ grant[i].approval = grant[j].approval => i = j
  /\ \A r \in Request : task[r].op \in GrantOp =>
       task[r].what \in withdrawn \/ task[r].what = grant[task[r].id].approval

LEMMA GrantType ==
  ASSUME TypeInv
  PROVE  /\ grant \in [Approval -> Grant \cup {NoGrant}] /\ origin \in Seq(Approval)
         /\ withdrawn \subseteq Approval /\ Len(origin) \in Nat /\ Len(origin) <= MaxPairs
         /\ MaxPairs \in Nat /\ MaxApprovals \in Nat
         /\ \A i \in Approval : Live(i) => grant[i] \in Grant
         /\ \A i \in Approval : grant[i].pair \in Nat /\ grant[i].approval \in 0..MaxApprovals
BY AccountsAssumption DEF TypeInv, TypeOK, AccountTypeOK, Live, Grant, NoGrant, Approval

LEMMA GrantFrame ==
  ASSUME GrantInv, GrantsUnchanged,
         \A q \in Request : task'[q] = task[q] \/ task'[q].op \notin GrantOp
  PROVE  GrantInv'
BY DEF GrantInv, GrantsUnchanged, Live

(* A request reads a row as it is.                                         *)
LEMMA LoadsGrant ==
  ASSUME TypeInv, GrantInv, NEW r \in Request, NEW op, NEW i \in Approval, Loads(r, op, i)
  PROVE  GrantInv'
<1>. DEFINE t == [Idle EXCEPT !.op = op, !.id = i, !.what = grant[i].approval]
<1>1. Becomes(r, t) /\ GrantsUnchanged
  BY DEF Loads
<1>2. t.id = i /\ t.what = grant[i].approval
  BY DEF Idle
<1>3. task'[r] = t /\ \A q \in Request \ {r} : task'[q] = task[q]
  BY <1>1, Moves DEF TypeInv
<1>. HIDE DEF t
<1>. QED BY <1>1, <1>2, <1>3 DEF GrantInv, GrantsUnchanged, Live

(* A code runs out: nothing the invariant reads.                           *)
LEMMA CodeExpiresGrant ==
  ASSUME TypeInv, GrantInv, NEW i \in Approval, CodeExpires(i)
  PROVE  GrantInv'
<1>1. /\ grant' = [grant EXCEPT ![i].code = "expired"] /\ grant[i].code = "live"
      /\ UNCHANGED <<origin, withdrawn, task>>
  BY DEF CodeExpires
<1>2. Live(i) /\ grant[i] \in Grant
  BY <1>1, GrantType DEF Live, NoGrant
<1>3. \A j \in Approval : /\ Live(j)' => Live(j)
                          /\ grant'[j].approval = grant[j].approval
                          /\ grant'[j].pair = grant[j].pair /\ grant'[j].crossed = grant[j].crossed
  BY <1>1, <1>2, GrantType DEF Live, Grant
<1>4. \A r \in Request : task[r].op \in GrantOp => task[r].id \in Approval
  BY DEF TypeInv, TaskInv, GrantOp
<1>. QED BY <1>1, <1>3, <1>4 DEF GrantInv

(* A row is deleted: what it recorded, and what the request had read, is   *)
(* withdrawn; the latter was on that row or had been withdrawn before.     *)
LEMMA RevokeGrant ==
  ASSUME TypeInv, GrantInv, NEW r \in Request, Revoke(r)
  PROVE  GrantInv'
<1>. DEFINE i == task[r].id
<1>1. /\ task[r].op = "revoke" /\ Row(r) # NoGrant /\ Ends(r) /\ UNCHANGED origin
      /\ withdrawn' = withdrawn \cup {task[r].what, Row(r).approval}
      /\ grant' = [grant EXCEPT ![i] = NoGrant]
  BY DEF Revoke, Goes
<1>2. i \in Approval /\ Live(i) /\ Row(r) = grant[i]
  BY <1>1 DEF TypeInv, TaskInv, Row, Live
<1>3. task[r].what \in withdrawn \/ task[r].what = grant[i].approval
  BY <1>1 DEF GrantInv, GrantOp
<1>4. \A j \in Approval : Live(j)' => j # i /\ Live(j) /\ grant'[j] = grant[j]
  BY <1>1, <1>2, GrantType DEF Live
<1>5. \A j \in Approval : j # i => grant'[j] = grant[j]
  BY <1>1, <1>2, GrantType
<1>6. \A q \in Request : task'[q] = task[q] \/ task'[q].op \notin GrantOp
  BY <1>1, EndsAway DEF TypeInv
<1>7. \A q \in Request : task[q].op \in GrantOp => task[q].id \in Approval
  BY DEF TypeInv, TaskInv, GrantOp
<1>8. \A j \in Approval : Live(j)' =>
        /\ grant'[j].approval \notin withdrawn'
        /\ grant'[j].pair <= Len(origin')
        /\ ~grant'[j].crossed /\ grant'[j].pair # 0 => origin'[grant'[j].pair] = grant'[j].approval
  BY <1>1, <1>2, <1>3, <1>4 DEF GrantInv
<1>9. \A j, k \in Approval : Live(j)' /\ Live(k)' /\ grant'[j].approval = grant'[k].approval => j = k
  BY <1>4 DEF GrantInv
<1>10. \A q \in Request : task'[q].op \in GrantOp =>
         task'[q].what \in withdrawn' \/ task'[q].what = grant'[task'[q].id].approval
  <2>. SUFFICES ASSUME NEW q \in Request, task'[q].op \in GrantOp
                PROVE  task[q].what \in withdrawn' \/ task[q].what = grant'[task[q].id].approval
    BY <1>6
  <2>1. task[q].op \in GrantOp /\ task[q].id \in Approval
    BY <1>6, <1>7
  <2>. QED BY <1>1, <1>2, <1>5, <2>1 DEF GrantInv
<1>. QED BY <1>8, <1>9, <1>10 DEF GrantInv

(* Tokens are issued to the row the request had read, or that has its id.  *)
LEMMA IssueTokensGrant ==
  ASSUME TypeInv, GrantInv, NEW r \in Request, NEW op \in {"exchange", "refresh"}, IssueTokens(r, op)
  PROVE  GrantInv'
<1>. DEFINE i == task[r].id
            n == Len(origin) + 1
            new == [Row(r) EXCEPT !.code = IF op = "exchange" THEN "used" ELSE @,
                                  !.pair = n, !.crossed = @ \/ Row(r).approval # task[r].what]
<1>1. /\ task[r].op \in GrantOp /\ Row(r) # NoGrant /\ Ends(r) /\ UNCHANGED withdrawn
      /\ origin' = Append(origin, task[r].what) /\ grant' = [grant EXCEPT ![i] = new]
  BY DEF IssueTokens, Goes, GrantOp
<1>2. /\ i \in Approval /\ task[r].what \in Approval /\ Live(i) /\ Row(r) = grant[i]
      /\ grant[i] \in Grant /\ n \in Nat
  BY <1>1, GrantType DEF TypeInv, TaskInv, Row, Live, GrantOp
<1>3. /\ new.approval = grant[i].approval /\ new.pair = n
      /\ ~new.crossed => grant[i].approval = task[r].what
  BY <1>2 DEF Grant
<1>. HIDE DEF new
<1>4. /\ grant'[i] = new /\ \A j \in Approval : j # i => grant'[j] = grant[j]
      /\ \A j \in Approval : grant'[j].approval = grant[j].approval /\ (Live(j)' => Live(j))
  BY <1>1, <1>2, <1>3, GrantType DEF Live
<1>5. /\ Len(origin') = n /\ origin'[n] = task[r].what
      /\ \A m \in 1..Len(origin) : origin'[m] = origin[m]
  BY <1>1, <1>2, GrantType
<1>6. \A q \in Request : task'[q] = task[q] \/ task'[q].op \notin GrantOp
  BY <1>1, EndsAway DEF TypeInv
<1>7. \A q \in Request : task[q].op \in GrantOp => task[q].id \in Approval
  BY DEF TypeInv, TaskInv, GrantOp
<1>8. ASSUME NEW j \in Approval, Live(j)'
      PROVE  /\ grant'[j].approval \notin withdrawn'
             /\ grant'[j].pair <= Len(origin')
             /\ ~grant'[j].crossed /\ grant'[j].pair # 0 => origin'[grant'[j].pair] = grant'[j].approval
  <2>1. grant'[j].approval \notin withdrawn'
    BY <1>1, <1>4, <1>8 DEF GrantInv
  <2>2. CASE j = i
    BY <1>2, <1>3, <1>4, <1>5, <2>1, <2>2
  <2>3. CASE j # i
    <3>1. /\ grant'[j] = grant[j] /\ Live(j) /\ grant[j].pair \in Nat /\ grant[j].pair <= Len(origin)
          /\ Len(origin) \in Nat
      BY <1>4, <1>8, <2>3, GrantType DEF GrantInv
    <3>2. grant[j].pair # 0 => grant[j].pair \in 1..Len(origin)
      BY <3>1
    <3>. QED BY <1>5, <2>1, <3>1, <3>2 DEF GrantInv
  <2>. QED BY <2>2, <2>3
<1>9. \A j, k \in Approval : Live(j)' /\ Live(k)' /\ grant'[j].approval = grant'[k].approval => j = k
  BY <1>4 DEF GrantInv
<1>10. \A q \in Request : task'[q].op \in GrantOp =>
         task'[q].what \in withdrawn' \/ task'[q].what = grant'[task'[q].id].approval
  BY <1>1, <1>4, <1>6, <1>7 DEF GrantInv
<1>. QED BY <1>8, <1>9, <1>10 DEF GrantInv

(* The app is allowed anew: the approval is a new one, and those it        *)
(* replaces are withdrawn.                                                 *)
LEMMA AllowGrant ==
  ASSUME TypeInv, GrantInv, NEW r \in Request, NEW c \in 1..Clients, Allow(r, c)
  PROVE  GrantInv'
<1>. DEFINE kept == {i \in Approval : grant[i] # NoGrant} \ Replaced(c)
            gone == {grant[i].approval : i \in Replaced(c)} \ {0}
            id == Max({0} \cup kept) + 1
            used == {0} \cup withdrawn \cup {grant[i].approval : i \in Approval}
            approval == Max(used) + 1
            new == [NoGrant EXCEPT !.client = c, !.approval = approval, !.code = "live"]
<1>1. /\ withdrawn' = withdrawn \cup gone /\ Ends(r) /\ UNCHANGED origin
      /\ grant' = [i \in Approval |-> IF i = id THEN new ELSE IF i \in kept THEN grant[i] ELSE NoGrant]
  BY DEF Allow
<1>2. new.approval = approval /\ new.pair = 0
  BY DEF NoGrant
<1>3. \A x \in used : approval > x
  <2>1. used \subseteq 0..MaxApprovals /\ used # {}
    <3>1. withdrawn \subseteq 0..MaxApprovals /\ 0 \in 0..MaxApprovals
      BY GrantType DEF Approval
    <3>2. {grant[i].approval : i \in Approval} \subseteq 0..MaxApprovals
      BY GrantType
    <3>. QED BY <3>1, <3>2
  <2>. HIDE DEF used
  <2>2. Max(used) \in 0..MaxApprovals /\ \A x \in used : Max(used) >= x /\ x \in 0..MaxApprovals
    BY <2>1, MaxIs, GrantType
  <2>. QED BY <2>2, GrantType
<1>4. /\ approval \notin withdrawn /\ approval \notin gone
      /\ \A i \in Approval : grant[i].approval # approval /\ approval # 0
  <2>1. \A i \in Approval : grant[i].approval \in used /\ grant[i].approval \in Nat
    BY GrantType
  <2>2. withdrawn \subseteq used /\ 0 \in used /\ gone \subseteq used
    BY DEF Replaced
  <2>3. \A x \in used : x \in Nat
    BY GrantType DEF Approval
  <2>. HIDE DEF used, approval, gone
  <2>4. approval \notin used
    BY <1>3, <2>3 DEF approval
  <2>. QED BY <2>1, <2>2, <2>4
<1>5. id \notin kept
  <2>1. {0} \cup kept \subseteq 0..MaxApprovals /\ {0} \cup kept # {}
    BY GrantType DEF Approval
  <2>. DEFINE ids == {0} \cup kept
  <2>. HIDE DEF ids
  <2>2. Max(ids) \in 0..MaxApprovals /\ \A x \in ids : Max(ids) >= x
    BY <2>1, MaxIs, GrantType DEF ids
  <2>3. Max(ids) + 1 \notin ids
    BY <2>2, GrantType
  <2>. QED BY <2>3 DEF ids
<1>. HIDE DEF approval, new, id
<1>6. \A j \in Approval : Live(j)' => \/ j = id /\ grant'[j] = new
                                      \/ j # id /\ j \in kept /\ Live(j) /\ grant'[j] = grant[j]
  BY <1>1 DEF Live
<1>7. \A j \in kept : grant[j].approval \notin gone
  BY DEF GrantInv, Live, Replaced, NoGrant
<1>8. \A q \in Request : task'[q] = task[q] \/ task'[q].op \notin GrantOp
  BY <1>1, EndsAway DEF TypeInv
<1>9. \A q \in Request : task[q].op \in GrantOp => task[q].id \in Approval
  BY DEF TypeInv, TaskInv, GrantOp
<1>10. ASSUME NEW j \in Approval, Live(j)'
      PROVE  /\ grant'[j].approval \notin withdrawn'
             /\ grant'[j].pair <= Len(origin')
             /\ ~grant'[j].crossed /\ grant'[j].pair # 0 => origin'[grant'[j].pair] = grant'[j].approval
  <2>1. CASE j = id /\ grant'[j] = new
    <3>1. 0 <= Len(origin)
      BY GrantType
    <3>. QED BY <1>1, <1>2, <1>4, <2>1, <3>1
  <2>2. CASE j \in kept /\ Live(j) /\ grant'[j] = grant[j]
    BY <1>1, <1>7, <2>2 DEF GrantInv
  <2>. QED BY <1>6, <1>10, <2>1, <2>2
<1>11. ASSUME NEW j \in Approval, NEW k \in Approval,
              Live(j)', Live(k)', grant'[j].approval = grant'[k].approval
       PROVE  j = k
  BY <1>2, <1>4, <1>6, <1>11 DEF GrantInv
<1>12. ASSUME NEW q \in Request, task'[q].op \in GrantOp
       PROVE  task'[q].what \in withdrawn' \/ task'[q].what = grant'[task'[q].id].approval
  <2>. DEFINE j == task[q].id
  <2>1. /\ task'[q] = task[q] /\ j \in Approval
        /\ task[q].what \in withdrawn \/ task[q].what = grant[j].approval
    BY <1>8, <1>9, <1>12 DEF GrantInv
  <2>2. CASE task[q].what \in withdrawn
    BY <1>1, <2>1, <2>2
  <2>3. CASE task[q].what = grant[j].approval /\ j \in kept
    BY <1>1, <1>5, <2>1, <2>3
  <2>4. CASE task[q].what = grant[j].approval /\ j \notin kept
    <3>1. grant[j].approval # 0
      BY <1>8, <1>12, <2>4 DEF TypeInv, TaskInv, GrantOp, Approval
    <3>2. j \in Replaced(c)
      BY <2>1, <2>4, <3>1 DEF NoGrant
    <3>3. grant[j].approval \in gone
      BY <3>1, <3>2
    <3>. QED BY <1>1, <2>1, <2>4, <3>3
  <2>. QED BY <2>1, <2>2, <2>3, <2>4
<1>. QED BY <1>10, <1>11, <1>12 DEF GrantInv

LEMMA NextGrant ==
  ASSUME TypeInv, GrantInv, [Next]_vars
  PROVE  GrantInv'
<1>0. TypeOK
  BY DEF TypeInv
<1>1. ASSUME NEW r \in Request, Ends(r), GrantsUnchanged
      PROVE  GrantInv'
  BY <1>0, <1>1, EndsAway, GrantFrame
<1>2. ASSUME NEW r \in Request, NEW op \in SessionOp, Opens(r, op) \/ SignInLoads(r)
      PROVE  GrantInv'
  <2>1. PICK t : Becomes(r, t) /\ t.op \in SessionOp /\ GrantsUnchanged
    <3>1. CASE SignInLoads(r)
      <4>1. [Idle EXCEPT !.op = "signin", !.seen = account.sv, !.born = account.epoch].op = "signin"
        BY DEF Idle
      <4>. QED BY <3>1, <4>1 DEF SignInLoads, SessionOp
    <3>2. CASE Opens(r, op)
      <4>1. PICK s \in jar : /\ GrantsUnchanged
                             /\ Becomes(r, [Idle EXCEPT !.op = op, !.seen = account.sv, !.born = s.born])
        BY <3>2 DEF Opens
      <4>2. [Idle EXCEPT !.op = op, !.seen = account.sv, !.born = s.born].op = op
        BY DEF Idle
      <4>. QED BY <4>1, <4>2
    <3>. QED BY <1>2, <3>1, <3>2
  <2>2. t.op \notin GrantOp
    BY <2>1 DEF SessionOp, GrantOp
  <2>. QED BY <1>0, <2>1, <2>2, Away, GrantFrame
<1>3. CASE AccountStep
  <2>1. CASE ToggleUserActive
    BY <2>1, GrantFrame DEF ToggleUserActive
  <2>2. ASSUME NEW i \in Approval, CodeExpires(i) PROVE GrantInv'
    BY <2>2, CodeExpiresGrant
  <2>3. ASSUME NEW r \in Request, NEW op \in {"page", "signoutall", "password", "rename", "allow"},
               Opens(r, op)
        PROVE  GrantInv'
    BY <1>2, <2>3 DEF SessionOp
  <2>4. ASSUME NEW r \in Request, SignInLoads(r) PROVE GrantInv'
    BY <1>2, <2>4 DEF SessionOp
  <2>5. ASSUME NEW r \in Request,
               \/ SignsIn(r) \/ Renews(r) \/ SignOutEverywhere(r) \/ ProfileAnswers(r) \/ RowGone(r)
        PROVE  GrantInv'
    BY <1>1, <2>5 DEF SignsIn, Renews, SignOutEverywhere, ProfileAnswers, RowGone
  <2>6. ASSUME NEW r \in Request, ChangePassword(r) \/ Rename(r) PROVE GrantInv'
    <3>1. PICK t : Becomes(r, t) /\ t.op = "answer" /\ GrantsUnchanged
      <4>1. [Idle EXCEPT !.op = "answer", !.born = account.epoch + 1].op = "answer"
        BY DEF Idle
      <4>2. [task[r] EXCEPT !.op = "answer"].op = "answer"
        BY <1>0, TaskType DEF Task
      <4>. QED BY <2>6, <4>1, <4>2 DEF ChangePassword, Rename
    <3>. QED BY <1>0, <3>1, Away, GrantFrame DEF GrantOp
  <2>7. ASSUME NEW r \in Request,
               \/ Revoke(r) \/ \E c \in 1..Clients : Allow(r, c)
               \/ \E op \in {"exchange", "refresh"} : IssueTokens(r, op)
        PROVE  GrantInv'
    BY <2>7, RevokeGrant, AllowGrant, IssueTokensGrant
  <2>8. ASSUME NEW r \in Request, NEW i \in Approval,
               ExchangeLoads(r, i) \/ RefreshLoads(r, i) \/ RevokeLoads(r, i)
        PROVE  GrantInv'
    BY <2>8, LoadsGrant DEF ExchangeLoads, RefreshLoads, RevokeLoads
  <2>. QED BY <1>3, <2>1, <2>2, <2>3, <2>4, <2>5, <2>6, <2>7, <2>8 DEF AccountStep
<1>4. CASE \E r \in Request : Opens(r, "newkey")
  BY <1>2, <1>4 DEF SessionOp
<1>5. CASE RelayStep /\ UNCHANGED accountVars
  <2>1. \A q \in Request : task'[q] = task[q] \/ task'[q].op \notin GrantOp
    BY <1>5, RelayAway
  <2>. QED BY <1>5, <2>1, GrantFrame DEF accountVars, GrantsUnchanged
<1>6. CASE UNCHANGED vars
  BY <1>6, GrantFrame DEF vars, accountVars, GrantsUnchanged
<1>. QED BY <1>3, <1>4, <1>5, <1>6 DEF Next

(* A token that is let in was issued for the approval its connection       *)
(* records, which has not been withdrawn, whatever exchanges, refreshes,   *)
(* revocations and approvals were under way (oauth.py); except on a row a  *)
(* request wrote to because it had the id of the one it had read.          *)
THEOREM StaysWithdrawnAlways == Spec => []StaysWithdrawn
<1>1. Init => GrantInv
  <2>. SUFFICES ASSUME Init PROVE GrantInv
    OBVIOUS
  <2>1. (\A i \in Approval : grant[i] = NoGrant) /\ \A r \in Request : task[r].op = "none"
    BY DEF Init, AccountInit, Idle
  <2>. QED BY <2>1 DEF GrantInv, GrantOp, Live
<1>2. IndInv /\ GrantInv /\ [Next]_vars => GrantInv'
  BY NextGrant DEF IndInv
<1>3. GrantInv => StaysWithdrawn
  <2>1. \A i \in Approval, p \in 1..MaxPairs : Accepts(i, p) => Live(i) /\ grant[i].pair = p /\ p # 0
    BY DEF Accepts, Live, NoGrant
  <2>. QED BY <2>1 DEF GrantInv, StaysWithdrawn
<1>. QED BY <1>1, <1>2, <1>3, IndInvAlways, PTL DEF Spec
=============================================================================

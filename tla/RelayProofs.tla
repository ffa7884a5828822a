---------------------------- MODULE RelayProofs ----------------------------
(***************************************************************************)
(* Proofs about Relay.tla and the account it composes (Accounts.tla), for  *)
(* any number of requests, sign-ins, apps, tokens, API keys, callers and   *)
(* operations. TypeInv is TypeOK with what a request may remember in each  *)
(* of its phases (VersionInv, TaskInv); OperationInv says which request    *)
(* owns an operation and what it knows of the worker.                      *)
(***************************************************************************)
EXTENDS Relay, WellFoundedInduction, TLAPS

(* Max of a bounded set of naturals is its largest member.                 *)
LEMMA MaxIs ==
  ASSUME NEW N \in Nat, NEW S \in SUBSET (0..N), S # {}
  PROVE  Max(S) \in S /\ \A x \in S : Max(S) >= x
<1>. DEFINE T == {n \in 0..N : N - n \in S}
<1>0. \A x \in S : x \in Int /\ 0 <= x /\ x <= N
  OBVIOUS
<1>1. \A x \in S : N - x \in 0..N /\ N - (N - x) = x
  BY <1>0
<1>2. T \subseteq Nat /\ T # {}
  <2>1. PICK x \in S : TRUE
    OBVIOUS
  <2>2. N - x \in T
    BY <1>1
  <2>3. T \subseteq 0..N
    OBVIOUS
  <2>. QED BY <2>2, <2>3
<1>3. PICK n \in T : \A m \in T : ~ (<<m, n>> \in OpToRel(<, Nat))
  BY <1>2, NatLessThanWellFounded, WFMin
<1>4. \A m \in T : ~ (m < n)
  BY <1>2, <1>3 DEF OpToRel
<1>5. \A x \in S : N - n >= x
  <2>. SUFFICES ASSUME NEW x \in S PROVE N - n >= x
    OBVIOUS
  <2>1. N - x \in T
    BY <1>1
  <2>2. N - x \in Nat /\ n \in Nat /\ x \in Int
    BY <1>0, <1>1, <1>2
  <2>. QED BY <1>4, <2>1, <2>2
<1>6. \E z \in S : \A y \in S : z >= y
  BY <1>5
<1>. QED BY <1>6 DEF Max

-----------------------------------------------------------------------------
(* Types *)

SessionOp == {"signin", "page", "signoutall", "password", "rename", "answer", "allow", "newkey"}

(* What a request has read of the account, and what a cookie says, is not  *)
(* ahead of it.                                                            *)
VersionInv ==
  /\ account.sv <= account.epoch
  /\ \A s \in jar : s.born <= account.epoch
  /\ \A r \in Request :
       task[r].op \in SessionOp => task[r].seen <= account.epoch /\ task[r].born <= account.epoch

(* Requests that write to the operation they name.                         *)
TaskInv ==
  \A r \in Request :
    /\ task[r].op \in {"exchange", "refresh", "revoke"} => task[r].id \in Approval /\ task[r].what \in Approval
    /\ task[r].op \in {"look", "insert"} =>
         task[r].what \in KeyId /\ task[r].id \in 1..Callers /\ task[r].seen \in 1..Payloads
    /\ task[r].op \in {"call", "settle", "polled"} => task[r].id \in DOMAIN operation
    /\ task[r].op = "polled" => task[r].saw \in Status

LEMMA TaskType ==
  ASSUME TypeOK, NEW r \in Request
  PROVE  /\ task[r] \in Task /\ Idle \in Task
         /\ task[r].seen \in Nat /\ task[r].born \in Nat /\ task[r].id \in Nat
         /\ task[r].what \in Nat /\ task[r].saw \in Seen
         /\ \A t \in Task : Becomes(r, t) => task' \in [Request -> Task]
         /\ Ends(r) => task' \in [Request -> Task]
<1>1. Idle \in Task
  BY DEF Idle, Task, Op, Seen
<1>2. task \in [Request -> Task]
  BY DEF TypeOK, AccountTypeOK
<1>3. task[r] \in Task
  BY <1>2
<1>4. /\ task[r].seen \in Nat /\ task[r].born \in Nat /\ task[r].id \in Nat
      /\ task[r].what \in Nat /\ task[r].saw \in Seen
  BY <1>3 DEF Task
<1>. QED BY <1>1, <1>2, <1>3, <1>4 DEF Becomes, Ends

LEMMA Moves ==
  ASSUME TypeOK, NEW r \in Request, NEW t, Becomes(r, t)
  PROVE  task'[r] = t /\ \A q \in Request \ {r} : task'[q] = task[q]
BY DEF Becomes, TypeOK, AccountTypeOK

LEMMA OpsType ==
  ASSUME TypeOK, NEW r, NEW op, Starts(r) \/ Goes(r, op)
  PROVE  ops' \in 0..MaxOps
BY AccountsAssumption DEF Starts, Goes, TypeOK, AccountTypeOK

LEMMA VersionFrame ==
  ASSUME VersionInv, account' = account, jar' = jar,
         \A q \in Request : task'[q] = task[q] \/ task'[q].op \notin SessionOp
  PROVE  VersionInv'
BY DEF VersionInv

LEMMA TaskFrame ==
  ASSUME TaskInv, DOMAIN operation \subseteq DOMAIN operation',
         \A q \in Request : \/ task'[q] = task[q]
                            \/ task'[q].op \in SessionOp \cup {"none", "hash"}
  PROVE  TaskInv'
BY DEF TaskInv, SessionOp

TypeInv == TypeOK /\ VersionInv /\ TaskInv

(* Steps that change a request alone.                                      *)
LEMMA RequestOnly ==
  ASSUME TypeOK, UNCHANGED <<account, jar, overlap, grant, origin, withdrawn, relayVars>>,
         task' \in [Request -> Task], ops' \in 0..MaxOps
  PROVE  TypeOK'
BY DEF TypeOK, AccountTypeOK, relayVars

LEMMA SignInLoadsType ==
  ASSUME TypeInv, NEW r \in Request, SignInLoads(r), UNCHANGED relayVars
  PROVE  TypeInv'
<1>. DEFINE t == [Idle EXCEPT !.op = "signin", !.seen = account.sv, !.born = account.epoch]
<1>0. TypeOK /\ VersionInv /\ TaskInv /\ account.sv \in Nat /\ account.epoch \in Nat
  BY DEF TypeInv, TypeOK, AccountTypeOK
<1>1. /\ t \in Task /\ t.op = "signin" /\ t.seen = account.sv /\ t.born = account.epoch
  BY <1>0 DEF Idle, Task, Op, Seen
<1>2. Becomes(r, t) /\ Starts(r) /\ UNCHANGED <<account, jar, overlap, grant, origin, withdrawn>>
  BY DEF SignInLoads, SessionsUnchanged, GrantsUnchanged
<1>. HIDE DEF t
<1>3. TypeOK'
  BY <1>0, <1>1, <1>2, RequestOnly, TaskType, OpsType
<1>4. task'[r] = t /\ \A q \in Request \ {r} : task'[q] = task[q]
  BY <1>0, <1>2, Moves
<1>5. VersionInv'
  BY <1>0, <1>1, <1>2, <1>4 DEF VersionInv
<1>6. TaskInv'
  BY <1>0, <1>1, <1>4, TaskFrame DEF SessionOp, relayVars
<1>. QED BY <1>3, <1>5, <1>6 DEF TypeInv

LEMMA OpensType ==
  ASSUME TypeInv, NEW r \in Request, NEW op \in SessionOp, Opens(r, op), UNCHANGED relayVars
  PROVE  TypeInv'
<1>1. PICK s \in jar : /\ Starts(r) /\ Valid(s)
                       /\ Becomes(r, [Idle EXCEPT !.op = op, !.seen = account.sv, !.born = s.born])
                       /\ SessionsUnchanged /\ GrantsUnchanged
  BY DEF Opens
<1>. DEFINE t == [Idle EXCEPT !.op = op, !.seen = account.sv, !.born = s.born]
<1>0. /\ TypeOK /\ VersionInv /\ TaskInv /\ account.sv \in Nat /\ account.epoch \in Nat
      /\ s.born \in Nat /\ s.born <= account.epoch
  BY <1>1 DEF TypeInv, TypeOK, AccountTypeOK, VersionInv
<1>2. /\ t \in Task /\ t.op = op /\ t.seen = account.sv /\ t.born = s.born
  BY <1>0 DEF Idle, Task, Op, Seen, SessionOp
<1>3. Becomes(r, t) /\ Starts(r) /\ UNCHANGED <<account, jar, overlap, grant, origin, withdrawn>>
  BY <1>1 DEF SessionsUnchanged, GrantsUnchanged
<1>. HIDE DEF t
<1>4. TypeOK'
  BY <1>0, <1>2, <1>3, RequestOnly, TaskType, OpsType
<1>5. task'[r] = t /\ \A q \in Request \ {r} : task'[q] = task[q]
  BY <1>0, <1>3, Moves
<1>6. VersionInv'
  BY <1>0, <1>2, <1>3, <1>5 DEF VersionInv
<1>7. TaskInv'
  BY <1>0, <1>2, <1>5, TaskFrame DEF relayVars
<1>. QED BY <1>4, <1>6, <1>7 DEF TypeInv

(* A cookie is added.                                                      *)
LEMMA CookieType ==
  ASSUME TypeInv, NEW r \in Request, NEW k, jar' = jar \cup {k}, Ends(r),
         UNCHANGED <<account, overlap, grant, origin, withdrawn, relayVars, ops>>,
         k \in [sv : 0..MaxVersion, born : 0..MaxVersion], k.born <= account.epoch
  PROVE  TypeInv'
<1>0. TypeOK /\ VersionInv /\ TaskInv
  BY DEF TypeInv
<1>1. task' \in [Request -> Task] /\ task'[r] = Idle /\ \A q \in Request \ {r} : task'[q] = task[q]
  BY <1>0, Moves, TaskType DEF Ends
<1>2. TypeOK'
  BY <1>0, <1>1 DEF TypeOK, AccountTypeOK, relayVars
<1>3. VersionInv'
  BY <1>0, <1>1 DEF VersionInv, Idle, SessionOp
<1>4. TaskInv'
  BY <1>0, <1>1, TaskFrame DEF relayVars, Idle
<1>. QED BY <1>2, <1>3, <1>4 DEF TypeInv

LEMMA SignsInType ==
  ASSUME TypeInv, NEW r \in Request, SignsIn(r) \/ Renews(r), UNCHANGED relayVars
  PROVE  TypeInv'
<1>1. /\ task[r].seen \in Nat /\ task[r].born \in Nat
      /\ task[r].seen <= account.epoch /\ task[r].born <= account.epoch
  BY TaskType DEF SignsIn, Renews, Goes, SessionOp, TypeInv, VersionInv
<1>2. account.epoch \in 0..MaxVersion
  BY DEF TypeInv, TypeOK, AccountTypeOK
<1>3. /\ Cookie(r) \in [sv : 0..MaxVersion, born : 0..MaxVersion]
      /\ Cookie(r).born <= account.epoch
  BY <1>1, <1>2, AccountsAssumption DEF Cookie
<1>. QED BY <1>3, CookieType DEF SignsIn, Renews, Goes, GrantsUnchanged

LEMMA ProfileAnswersType ==
  ASSUME TypeInv, NEW r \in Request, ProfileAnswers(r), UNCHANGED relayVars
  PROVE  TypeInv'
<1>1. /\ task[r].born \in Nat /\ task[r].born <= account.epoch
  BY TaskType DEF ProfileAnswers, Goes, SessionOp, TypeInv, VersionInv
<1>2. account.epoch \in 0..MaxVersion /\ account.sv \in 0..MaxVersion
  BY DEF TypeInv, TypeOK, AccountTypeOK
<1>3. /\ CookieFresh(r) \in [sv : 0..MaxVersion, born : 0..MaxVersion]
      /\ CookieFresh(r).born <= account.epoch
  BY <1>1, <1>2, AccountsAssumption DEF CookieFresh
<1>. QED BY <1>3, CookieType DEF ProfileAnswers, Goes, GrantsUnchanged

(* The account is signed out everywhere.                                   *)
LEMMA BumpsType ==
  ASSUME TypeInv, NEW r \in Request, Bumps(r), UNCHANGED <<jar, ops, relayVars>>, GrantsUnchanged,
         task[r].op \in {"signoutall", "password"},
         NEW t \in Task, Becomes(r, t), t.op \in {"none", "answer"}, t.seen = 0,
         t.born <= account.epoch + 1
  PROVE  TypeInv'
<1>0. TypeOK /\ VersionInv /\ TaskInv
  BY DEF TypeInv
<1>1. /\ account \in [active : BOOLEAN, sv : 0..MaxVersion, epoch : 0..MaxVersion]
      /\ task[r].seen \in Nat /\ task[r].seen <= account.epoch /\ account.epoch < MaxVersion
      /\ MaxVersion \in Nat
  BY <1>0, TaskType, AccountsAssumption DEF TypeOK, AccountTypeOK, VersionInv, SessionOp, Bumps
<1>2. /\ account' \in [active : BOOLEAN, sv : 0..MaxVersion, epoch : 0..MaxVersion]
      /\ account'.sv = task[r].seen + 1 /\ account'.epoch = account.epoch + 1
  <2>1. task[r].seen + 1 \in 0..MaxVersion /\ account.epoch + 1 \in 0..MaxVersion
    BY <1>1
  <2>2. account' = [account EXCEPT !.sv = task[r].seen + 1, !.epoch = account.epoch + 1]
    BY DEF Bumps
  <2>. QED BY <1>1, <2>1, <2>2
<1>3. overlap' \in BOOLEAN
  BY <1>0 DEF Bumps, TypeOK, AccountTypeOK
<1>4. /\ task' \in [Request -> Task] /\ task'[r] = t
      /\ \A q \in Request \ {r} : task'[q] = task[q]
  BY <1>0, Moves, TaskType
<1>5. TypeOK'
  BY <1>0, <1>2, <1>3, <1>4 DEF TypeOK, AccountTypeOK, relayVars, GrantsUnchanged
<1>6. VersionInv'
  <2>1. account'.sv <= account'.epoch
    BY <1>1, <1>2
  <2>2. \A s \in jar' : s.born <= account'.epoch
    <3>1. \A s \in jar : s.born \in Nat /\ s.born <= account.epoch
      BY <1>0 DEF TypeOK, AccountTypeOK, VersionInv
    <3>. QED BY <1>1, <1>2, <3>1
  <2>3. ASSUME NEW q \in Request, task'[q].op \in SessionOp
        PROVE  task'[q].seen <= account'.epoch /\ task'[q].born <= account'.epoch
    <3>1. CASE q = r
      BY <1>1, <1>2, <1>4, <3>1
    <3>2. CASE q # r
      <4>1. /\ task[q].seen \in Nat /\ task[q].born \in Nat
            /\ task[q].seen <= account.epoch /\ task[q].born <= account.epoch
        BY <1>0, <1>4, <2>3, <3>2, TaskType DEF VersionInv
      <4>. QED BY <1>1, <1>2, <1>4, <3>2, <4>1
    <3>. QED BY <3>1, <3>2
  <2>. QED BY <2>1, <2>2, <2>3 DEF VersionInv
<1>7. TaskInv'
  BY <1>0, <1>4, TaskFrame DEF relayVars, SessionOp
<1>. QED BY <1>5, <1>6, <1>7 DEF TypeInv

LEMMA SignOutType ==
  ASSUME TypeInv, NEW r \in Request, SignOutEverywhere(r) \/ ChangePassword(r), UNCHANGED relayVars
  PROVE  TypeInv'
<1>0. account.epoch \in Nat /\ Idle \in Task
  BY TaskType DEF TypeInv, TypeOK, AccountTypeOK
<1>1. CASE SignOutEverywhere(r)
  <2>1. Becomes(r, Idle) /\ Idle.op = "none" /\ Idle.seen = 0 /\ Idle.born <= account.epoch + 1
    BY <1>0, <1>1 DEF SignOutEverywhere, Ends, Idle
  <2>. QED BY <1>0, <1>1, <2>1, BumpsType DEF SignOutEverywhere, Goes
<1>2. CASE ChangePassword(r)
  <2>. DEFINE t == [Idle EXCEPT !.op = "answer", !.born = account.epoch + 1]
  <2>0. account.epoch + 1 \in Nat
    BY <1>0
  <2>1. t \in Task /\ t.op = "answer" /\ t.seen = 0 /\ t.born = account.epoch + 1
    BY <2>0 DEF Idle, Task, Op, Seen
  <2>2. Becomes(r, t)
    BY <1>2 DEF ChangePassword
  <2>. HIDE DEF t
  <2>3. t.born <= account.epoch + 1
    BY <1>0, <2>1
  <2>. QED BY <1>2, <2>1, <2>2, <2>3, BumpsType DEF ChangePassword, Goes
<1>. QED BY <1>1, <1>2

LEMMA RenameType ==
  ASSUME TypeInv, NEW r \in Request, Rename(r), UNCHANGED relayVars
  PROVE  TypeInv'
<1>. DEFINE t == [task[r] EXCEPT !.op = "answer"]
<1>0. TypeOK /\ VersionInv /\ TaskInv /\ task[r] \in Task /\ task[r].op = "rename"
  BY TaskType DEF TypeInv, Rename, Goes
<1>1. t \in Task /\ t.op = "answer" /\ t.seen = task[r].seen /\ t.born = task[r].born
  BY <1>0 DEF Task, Op
<1>2. Becomes(r, t) /\ UNCHANGED <<ops, account, jar, overlap, grant, origin, withdrawn>>
  BY DEF Rename, Goes, SessionsUnchanged, GrantsUnchanged
<1>. HIDE DEF t
<1>3. TypeOK'
  BY <1>0, <1>1, <1>2, RequestOnly, TaskType DEF TypeOK, AccountTypeOK
<1>4. task'[r] = t /\ \A q \in Request \ {r} : task'[q] = task[q]
  BY <1>0, <1>2, Moves
<1>5. VersionInv'
  BY <1>0, <1>1, <1>2, <1>4 DEF VersionInv, SessionOp
<1>6. TaskInv'
  BY <1>0, <1>1, <1>4, TaskFrame DEF SessionOp, relayVars
<1>. QED BY <1>3, <1>5, <1>6 DEF TypeInv

(* A request ends, or one that cannot go on does.                          *)
LEMMA EndsType ==
  ASSUME TypeInv, NEW r \in Request, Ends(r), UNCHANGED <<account, jar>>,
         DOMAIN operation \subseteq DOMAIN operation'
  PROVE  /\ task' \in [Request -> Task] /\ VersionInv' /\ TaskInv'
         /\ \A q \in Request : task'[q] = task[q] \/ task'[q] = Idle
<1>0. TypeOK /\ VersionInv /\ TaskInv /\ Becomes(r, Idle) /\ Idle.op = "none"
  BY DEF TypeInv, Ends, Idle
<1>1. task'[r] = Idle /\ \A q \in Request \ {r} : task'[q] = task[q]
  BY <1>0, Moves
<1>2. \A q \in Request : task'[q] = task[q] \/ task'[q] = Idle
  BY <1>1
<1>3. VersionInv'
  BY <1>0, <1>2, VersionFrame DEF SessionOp
<1>4. TaskInv'
  BY <1>0, <1>2, TaskFrame
<1>. QED BY <1>0, <1>2, <1>3, <1>4, TaskType

LEMMA AllowType ==
  ASSUME TypeInv, NEW r \in Request, NEW c \in 1..Clients, Allow(r, c), UNCHANGED relayVars
  PROVE  TypeInv'
<1>. DEFINE kept == {i \in Approval : grant[i] # NoGrant} \ Replaced(c)
            used == {0} \cup withdrawn \cup {grant[i].approval : i \in Approval}
            approval == Max(used) + 1
            id == Max({0} \cup kept) + 1
            new == [NoGrant EXCEPT !.client = c, !.approval = approval, !.code = "live"]
<1>0. /\ TypeOK /\ grant \in [Approval -> Grant \cup {NoGrant}] /\ withdrawn \subseteq Approval
      /\ MaxApprovals \in Nat
  BY AccountsAssumption DEF TypeInv, TypeOK, AccountTypeOK
<1>1. approval \in Approval
  <2>1. \A i \in Approval : grant[i].approval \in 0..MaxApprovals
    BY <1>0 DEF Grant, NoGrant, Approval
  <2>2. used \subseteq 0..MaxApprovals /\ 0 \in used
    <3>1. withdrawn \subseteq 0..MaxApprovals /\ 0 \in 0..MaxApprovals
      BY <1>0 DEF Approval
    <3>. QED BY <2>1, <3>1
  <2>. HIDE DEF used
  <2>3. Max(used) \in 0..MaxApprovals
    BY <1>0, <2>2, MaxIs
  <2>4. approval <= MaxApprovals
    BY DEF Allow, used
  <2>. QED BY <1>0, <2>3, <2>4 DEF Approval
<1>. HIDE DEF approval
<1>2. new \in Grant
  <2>1. 0 \in 0..MaxPairs
    BY AccountsAssumption
  <2>. QED BY <1>1, <2>1 DEF NoGrant, Grant
<1>3. grant' = [i \in Approval |-> IF i = id THEN new ELSE IF i \in kept THEN grant[i] ELSE NoGrant]
  BY DEF Allow, approval
<1>. HIDE DEF new, kept, id
<1>4. grant' \in [Approval -> Grant \cup {NoGrant}]
  BY <1>0, <1>2, <1>3
<1>5. withdrawn' \subseteq Approval
  <2>1. {grant[i].approval : i \in Replaced(c)} \ {0} \subseteq Approval
    <3>1. \A i \in Approval : grant[i].approval \in Approval \cup {0}
      BY <1>0 DEF Grant, NoGrant
    <3>. QED BY <3>1 DEF Replaced
  <2>. QED BY <1>0, <2>1 DEF Allow
<1>6. UNCHANGED <<account, jar, overlap, origin, ops, key, made, operation, worker>> /\ Ends(r)
  BY DEF Allow, SessionsUnchanged, relayVars, Goes
<1>7. task' \in [Request -> Task] /\ VersionInv' /\ TaskInv'
  BY <1>6, EndsType
<1>8. TypeOK'
  BY <1>0, <1>4, <1>5, <1>6, <1>7 DEF TypeOK, AccountTypeOK
<1>. QED BY <1>7, <1>8 DEF TypeInv

LEMMA CodeExpiresType ==
  ASSUME TypeInv, NEW i \in Approval, CodeExpires(i), UNCHANGED relayVars
  PROVE  TypeInv'
<1>0. TypeOK /\ VersionInv /\ TaskInv /\ grant \in [Approval -> Grant \cup {NoGrant}]
  BY DEF TypeInv, TypeOK, AccountTypeOK
<1>1. [grant[i] EXCEPT !.code = "expired"] \in Grant
  <2>1. grant[i] \in Grant
    BY <1>0 DEF CodeExpires, NoGrant
  <2>. QED BY <2>1 DEF Grant
<1>2. grant' \in [Approval -> Grant \cup {NoGrant}]
  BY <1>0, <1>1 DEF CodeExpires
<1>3. UNCHANGED <<account, jar, overlap, origin, withdrawn, task, ops, key, made, operation, worker>>
  BY DEF CodeExpires, SessionsUnchanged, relayVars
<1>4. TypeOK'
  BY <1>0, <1>2, <1>3 DEF TypeOK, AccountTypeOK
<1>5. VersionInv' /\ TaskInv'
  BY <1>0, <1>3, VersionFrame, TaskFrame
<1>. QED BY <1>4, <1>5 DEF TypeInv

LEMMA LoadsType ==
  ASSUME TypeInv, NEW r \in Request, NEW op \in {"exchange", "refresh", "revoke"},
         NEW i \in Approval, Loads(r, op, i), UNCHANGED relayVars
  PROVE  TypeInv'
<1>. DEFINE t == [Idle EXCEPT !.op = op, !.id = i, !.what = grant[i].approval]
<1>0. TypeOK /\ VersionInv /\ TaskInv /\ grant[i] \in Grant
  BY DEF TypeInv, TypeOK, AccountTypeOK, Loads
<1>1. t \in Task /\ t.op = op /\ t.id = i /\ t.what \in Approval
  <2>1. i \in Nat /\ grant[i].approval \in Approval /\ grant[i].approval \in Nat
    BY <1>0 DEF Grant, Approval
  <2>. QED BY <2>1 DEF Idle, Task, Op, Seen
<1>2. Becomes(r, t) /\ Starts(r) /\ UNCHANGED <<account, jar, overlap, grant, origin, withdrawn>>
  BY DEF Loads, SessionsUnchanged, GrantsUnchanged
<1>. HIDE DEF t
<1>3. TypeOK'
  BY <1>0, <1>1, <1>2, RequestOnly, TaskType, OpsType
<1>4. task'[r] = t /\ \A q \in Request \ {r} : task'[q] = task[q]
  BY <1>0, <1>2, Moves
<1>5. VersionInv'
  BY <1>0, <1>1, <1>2, <1>4, VersionFrame DEF SessionOp
<1>6. TaskInv'
  BY <1>0, <1>1, <1>4 DEF TaskInv, relayVars
<1>. QED BY <1>3, <1>5, <1>6 DEF TypeInv

LEMMA IssueTokensType ==
  ASSUME TypeInv, NEW r \in Request, NEW op \in {"exchange", "refresh"}, IssueTokens(r, op),
         UNCHANGED relayVars
  PROVE  TypeInv'
<1>0. /\ TypeOK /\ TaskInv /\ grant \in [Approval -> Grant \cup {NoGrant}] /\ task[r].op = op
      /\ origin \in Seq(Approval) /\ Len(origin) <= MaxPairs /\ MaxPairs \in Nat
  BY AccountsAssumption DEF TypeInv, TypeOK, AccountTypeOK, IssueTokens, Goes
<1>1. task[r].id \in Approval /\ task[r].what \in Approval
  BY <1>0 DEF TaskInv
<1>2. origin' \in Seq(Approval) /\ Len(origin') <= MaxPairs /\ Len(origin) + 1 \in 0..MaxPairs
  BY <1>0, <1>1 DEF IssueTokens
<1>3. Row(r) \in Grant
  BY <1>0, <1>1 DEF IssueTokens, Row
<1>4. ASSUME NEW code \in {"live", "expired", "used"}, NEW pair \in 0..MaxPairs, NEW b \in BOOLEAN
      PROVE  [Row(r) EXCEPT !.code = code, !.pair = pair, !.crossed = b] \in Grant
  BY <1>3 DEF Grant
<1>. DEFINE code == IF op = "exchange" THEN "used" ELSE Row(r).code
            b == Row(r).crossed \/ Row(r).approval # task[r].what
<1>5. code \in {"live", "expired", "used"} /\ b \in BOOLEAN
  BY <1>3 DEF Grant
<1>6. grant' = [grant EXCEPT ![task[r].id] = [Row(r) EXCEPT !.code = code, !.pair = Len(origin) + 1, !.crossed = b]]
  BY DEF IssueTokens
<1>. HIDE DEF code, b
<1>7. grant' \in [Approval -> Grant \cup {NoGrant}]
  BY <1>0, <1>1, <1>2, <1>4, <1>5, <1>6
<1>8. UNCHANGED <<account, jar, overlap, withdrawn, ops, key, made, operation, worker>> /\ Ends(r)
  BY DEF IssueTokens, SessionsUnchanged, relayVars, Goes
<1>9. task' \in [Request -> Task] /\ VersionInv' /\ TaskInv'
  BY <1>8, EndsType
<1>10. TypeOK'
  BY <1>0, <1>2, <1>7, <1>8, <1>9 DEF TypeOK, AccountTypeOK
<1>. QED BY <1>9, <1>10 DEF TypeInv

LEMMA RevokeType ==
  ASSUME TypeInv, NEW r \in Request, Revoke(r) \/ RowGone(r), UNCHANGED relayVars
  PROVE  TypeInv'
<1>0. TypeOK /\ TaskInv /\ grant \in [Approval -> Grant \cup {NoGrant}] /\ withdrawn \subseteq Approval
  BY DEF TypeInv, TypeOK, AccountTypeOK
<1>1. grant' \in [Approval -> Grant \cup {NoGrant}]
  BY <1>0 DEF Revoke, RowGone, GrantsUnchanged
<1>2. withdrawn' \subseteq Approval
  <2>1. CASE Revoke(r)
    <3>1. task[r].id \in Approval /\ task[r].what \in Approval /\ Row(r) # NoGrant
      BY <1>0, <2>1 DEF Revoke, Goes, TaskInv
    <3>2. Row(r).approval \in Approval
      BY <1>0, <3>1 DEF Row, Grant
    <3>. QED BY <1>0, <2>1, <3>1, <3>2 DEF Revoke
  <2>2. CASE RowGone(r)
    BY <1>0, <2>2 DEF RowGone, GrantsUnchanged
  <2>. QED BY <2>1, <2>2
<1>3. UNCHANGED <<account, jar, overlap, origin, ops, key, made, operation, worker>> /\ Ends(r)
  BY DEF Revoke, RowGone, SessionsUnchanged, GrantsUnchanged, relayVars, Goes
<1>4. task' \in [Request -> Task] /\ VersionInv' /\ TaskInv'
  BY <1>3, EndsType
<1>5. TypeOK'
  BY <1>0, <1>1, <1>2, <1>3, <1>4 DEF TypeOK, AccountTypeOK
<1>. QED BY <1>4, <1>5 DEF TypeInv

(* The steps of the API.                                                   *)
LEMMA KeysType ==
  ASSUME TypeInv, NEW r \in Request, UNCHANGED accountVars,
         \/ InsertKey(r) \/ HashKey(r) \/ \E i \in KeyId : ToggleKey(r, i) \/ DeleteKey(r, i)
  PROVE  TypeInv'
<1>. DEFINE KeyRow == [hash : 0..MaxKeys, active : BOOLEAN, live : BOOLEAN]
<1>0. /\ TypeOK /\ VersionInv /\ TaskInv /\ key \in [KeyId -> KeyRow] /\ made \in 0..MaxKeys
      /\ MaxKeys \in Nat
  BY RelayAssumption DEF TypeInv, TypeOK
<1>1. key' \in [KeyId -> KeyRow] /\ made' \in 0..MaxKeys
  <2>1. CASE InsertKey(r)
    <3>1. [hash |-> 0, active |-> TRUE, live |-> TRUE] \in KeyRow
      BY <1>0
    <3>. QED BY <1>0, <2>1, <3>1 DEF InsertKey
  <2>2. CASE HashKey(r)
    <3>1. CASE made' = made
      BY <1>0, <2>2, <3>1 DEF HashKey
    <3>2. CASE made' # made
      <4>1. /\ made + 1 \in 0..MaxKeys /\ made' = made + 1
            /\ key' = [key EXCEPT ![task[r].id].hash = made + 1]
        BY <1>0, <2>2, <3>2 DEF HashKey
      <4>. QED BY <1>0, <4>1
    <3>. QED BY <3>1, <3>2
  <2>3. ASSUME NEW i \in KeyId, ToggleKey(r, i) \/ DeleteKey(r, i)
        PROVE  key' \in [KeyId -> KeyRow] /\ made' \in 0..MaxKeys
    <3>1. NoKey \in KeyRow
      BY <1>0 DEF NoKey
    <3>2. [key[i] EXCEPT !.active = ~@] \in KeyRow
      <4>1. key[i] \in KeyRow /\ (~key[i].active) \in BOOLEAN
        BY <1>0
      <4>. QED BY <4>1
    <3>. QED BY <1>0, <2>3, <3>1, <3>2 DEF ToggleKey, DeleteKey
  <2>. QED BY <2>1, <2>2, <2>3
<1>2. task' \in [Request -> Task] /\ \A q \in Request : \/ task'[q] = task[q]
                                                        \/ task'[q].op \in {"none", "hash"}
  <2>1. CASE InsertKey(r)
    <3>. DEFINE id == Max({0} \cup {i \in KeyId : key[i].live}) + 1
                t == [Idle EXCEPT !.op = "hash", !.id = id]
    <3>1. id \in KeyId /\ Becomes(r, t)
      BY <2>1 DEF InsertKey
    <3>. HIDE DEF id
    <3>2. id \in Nat
      BY <3>1 DEF KeyId
    <3>3. t \in Task /\ t.op = "hash"
      BY <3>2 DEF Idle, Task, Op, Seen
    <3>. QED BY <1>0, <3>1, <3>3, Moves, TaskType
  <2>2. CASE HashKey(r)
    <3>1. Becomes(r, Idle) /\ Idle.op = "none"
      BY <2>2 DEF HashKey, Ends, Idle
    <3>. QED BY <1>0, <3>1, Moves, TaskType
  <2>3. CASE UNCHANGED task
    BY <1>0, <2>3 DEF TypeOK, AccountTypeOK
  <2>. QED BY <2>1, <2>2, <2>3 DEF ToggleKey, DeleteKey
<1>3. ops' \in 0..MaxOps
  BY <1>0, OpsType DEF InsertKey, HashKey, ToggleKey, DeleteKey
<1>4. UNCHANGED <<account, jar, grant, origin, withdrawn, overlap, operation, worker>>
  BY DEF accountVars, InsertKey, HashKey, ToggleKey, DeleteKey
<1>5. TypeOK'
  BY <1>0, <1>1, <1>2, <1>3, <1>4 DEF TypeOK, AccountTypeOK
<1>6. VersionInv' /\ TaskInv'
  <2>1. \A q \in Request : task'[q] = task[q] \/ task'[q].op \notin SessionOp
    BY <1>2 DEF SessionOp
  <2>. QED BY <1>0, <1>2, <1>4, <2>1, VersionFrame, TaskFrame
<1>. QED BY <1>5, <1>6 DEF TypeInv

-----------------------------------------------------------------------------
(* Operations: which requests hold one, and what they know of it.          *)

Holds(r) == task[r].op \in {"call", "settle"}

HeldInv ==
  /\ \A r \in Request : Holds(r) => /\ operation[task[r].id].status = "submitting"
                                    /\ ~operation[task[r].id].accepted
                                    /\ task[r].op = "call" => operation[task[r].id].calls = 0
  /\ \A q, r \in Request : q # r /\ Holds(q) /\ Holds(r) => task[q].id # task[r].id

HeardInv ==
  \A r \in Request :
    /\ task[r].op = "settle" =>
         /\ task[r].saw \in {"accepted", "refused", "lost"}
         /\ task[r].saw = "accepted" => worker[task[r].id] \in Status
         /\ task[r].saw = "refused" => worker[task[r].id] = "none"
    /\ task[r].op = "polled" =>
         /\ operation[task[r].id].accepted
         /\ task[r].saw = "sent" => worker[task[r].id] = "sent"

OperationInv == OneSubmission /\ Truthful /\ HeldInv /\ HeardInv

LEMMA OperationFrame ==
  ASSUME OperationInv, UNCHANGED <<operation, worker>>,
         \A q \in Request : task'[q] = task[q] \/ task'[q].op \notin {"call", "settle", "polled"}
  PROVE  OperationInv'
BY DEF OperationInv, OneSubmission, Truthful, HeldInv, HeardInv, Holds

(* A request asks: a submission, its look-up, or a poll.                   *)
LEMMA AskType ==
  ASSUME TypeInv, OperationInv, NEW r \in Request, NEW t \in Task, Becomes(r, t),
         UNCHANGED <<accountVars, relayVars>>, ops' \in 0..MaxOps,
         t.op \in {"none", "look", "insert", "polled"},
         t.op \in {"look", "insert"} => t.what \in KeyId /\ t.id \in 1..Callers /\ t.seen \in 1..Payloads,
         t.op = "polled" => /\ t.id \in DOMAIN operation /\ t.saw \in Status
                            /\ operation[t.id].accepted /\ (t.saw = "sent" => worker[t.id] = "sent")
  PROVE  TypeInv' /\ OperationInv'
<1>0. TypeOK /\ VersionInv /\ TaskInv
  BY DEF TypeInv
<1>1. /\ task' \in [Request -> Task] /\ task'[r] = t
      /\ \A q \in Request \ {r} : task'[q] = task[q]
  BY <1>0, Moves, TaskType
<1>2. TypeOK'
  BY <1>0, <1>1, RequestOnly DEF accountVars
<1>3. VersionInv'
  BY <1>0, <1>1, VersionFrame DEF accountVars, SessionOp
<1>4. TaskInv'
  BY <1>0, <1>1 DEF TaskInv, relayVars
<1>5. OperationInv'
  <2>1. OneSubmission' /\ Truthful'
    BY DEF OperationInv, OneSubmission, Truthful, relayVars
  <2>2. \A q \in Request : Holds(q)' => Holds(q) /\ task'[q] = task[q]
    BY <1>1 DEF Holds
  <2>3. HeldInv'
    BY <2>2 DEF OperationInv, HeldInv, relayVars, Holds
  <2>4. HeardInv'
    BY <1>1 DEF OperationInv, HeardInv, relayVars
  <2>. QED BY <2>1, <2>3, <2>4 DEF OperationInv
<1>. QED BY <1>2, <1>3, <1>4, <1>5 DEF TypeInv

LEMMA SubmitStep ==
  ASSUME TypeInv, OperationInv, NEW r \in Request, NEW i \in KeyId, NEW k \in 1..Callers,
         NEW p \in 1..Payloads, Submit(r, i, k, p), UNCHANGED accountVars
  PROVE  TypeInv' /\ OperationInv'
<1>. DEFINE t == [Idle EXCEPT !.op = "look", !.what = key[i].hash, !.id = k, !.seen = p]
<1>1. key[i].hash \in KeyId /\ key[i].hash \in Nat /\ TypeOK /\ k \in Nat /\ p \in Nat
  BY RelayAssumption DEF Submit, Authenticates, TypeInv, TypeOK, KeyId
<1>2. t \in Task /\ t.op = "look" /\ t.what = key[i].hash /\ t.id = k /\ t.seen = p
  BY <1>1 DEF Idle, Task, Op, Seen
<1>3. Becomes(r, t) /\ Starts(r) /\ UNCHANGED relayVars
  BY DEF Submit
<1>. HIDE DEF t
<1>. QED BY <1>1, <1>2, <1>3, AskType, OpsType

LEMMA LookStep ==
  ASSUME TypeInv, OperationInv, NEW r \in Request, Look(r), UNCHANGED accountVars
  PROVE  TypeInv' /\ OperationInv'
<1>0. TypeOK /\ TaskInv /\ task[r] \in Task /\ Idle \in Task /\ task[r].op = "look" /\ ops' \in 0..MaxOps
  BY TaskType, OpsType DEF TypeInv, Look, Goes
<1>1. CASE Known(r)
  <2>1. Becomes(r, Idle) /\ Idle.op = "none"
    BY <1>1 DEF Look, Ends, Idle
  <2>. QED BY <1>0, <2>1, AskType DEF Look
<1>2. CASE ~Known(r)
  <2>. DEFINE t == [task[r] EXCEPT !.op = "insert"]
  <2>1. /\ t \in Task /\ t.op = "insert" /\ t.what = task[r].what /\ t.id = task[r].id
        /\ t.seen = task[r].seen
    BY <1>0 DEF Task, Op
  <2>2. Becomes(r, t) /\ UNCHANGED relayVars
    BY <1>2 DEF Look
  <2>. HIDE DEF t
  <2>3. t.what \in KeyId /\ t.id \in 1..Callers /\ t.seen \in 1..Payloads
    BY <1>0, <2>1 DEF TaskInv
  <2>. QED BY <1>0, <2>1, <2>2, <2>3, AskType
<1>. QED BY <1>1, <1>2

LEMMA PollStep ==
  ASSUME TypeInv, OperationInv, NEW r \in Request, NEW i \in KeyId, NEW n \in DOMAIN operation,
         Poll(r, i, n), UNCHANGED accountVars
  PROVE  TypeInv' /\ OperationInv'
<1>. DEFINE t == [Idle EXCEPT !.op = "polled", !.id = n, !.saw = worker[n]]
<1>1. TypeOK /\ n \in Nat
  BY DEF TypeInv, TypeOK
<1>2. worker[n] \in Status /\ operation[n].accepted
  BY DEF Poll, OperationInv, Truthful
<1>3. t \in Task /\ t.op = "polled" /\ t.id = n /\ t.saw = worker[n]
  BY <1>1, <1>2 DEF Idle, Task, Op, Seen, Status
<1>4. Becomes(r, t) /\ Starts(r) /\ UNCHANGED relayVars
  BY DEF Poll
<1>. HIDE DEF t
<1>. QED BY <1>1, <1>2, <1>3, <1>4, AskType, OpsType

LEMMA InsertStep ==
  ASSUME TypeInv, OperationInv, NEW r \in Request, Insert(r), UNCHANGED accountVars
  PROVE  TypeInv' /\ OperationInv'
<1>0. /\ TypeOK /\ VersionInv /\ TaskInv /\ task[r].op = "insert" /\ UNCHANGED <<ops, key, made, worker>>
      /\ operation \in Seq(Operation) /\ Len(operation) <= MaxOperations /\ MaxOperations \in Nat
  BY RelayAssumption DEF TypeInv, TypeOK, Insert, Goes
<1>1. CASE ~Unique(r)
  <2>1. Becomes(r, Idle) /\ Idle.op = "none" /\ UNCHANGED relayVars
    BY <1>1 DEF Insert, Ends, Idle, relayVars
  <2>. QED BY <1>0, <2>1, AskType, TaskType DEF TypeOK, AccountTypeOK
<1>2. CASE Unique(r)
  <2>. DEFINE new == [secret |-> task[r].what, caller |-> task[r].id, payload |-> task[r].seen,
                      accepted |-> FALSE, calls |-> 0, status |-> "submitting"]
              t == [Idle EXCEPT !.op = "call", !.id = Len(operation) + 1]
  <2>1. /\ Len(operation) < MaxOperations /\ operation' = Append(operation, new) /\ Becomes(r, t)
    BY <1>2 DEF Insert
  <2>2. new \in Operation
    BY <1>0 DEF TaskInv, Operation
  <2>3. t \in Task /\ t.op = "call" /\ t.id = Len(operation) + 1
    <3>1. Len(operation) + 1 \in Nat
      BY <1>0
    <3>. QED BY <3>1 DEF Idle, Task, Op, Seen
  <2>4. /\ new.status = "submitting" /\ ~new.accepted /\ new.calls = 0
        /\ new.secret = task[r].what /\ new.caller = task[r].id
    OBVIOUS
  <2>. HIDE DEF new, t
  <2>5. /\ operation' \in Seq(Operation) /\ Len(operation') = Len(operation) + 1
        /\ Len(operation') <= MaxOperations /\ DOMAIN operation \subseteq DOMAIN operation'
        /\ \A n \in DOMAIN operation : operation'[n] = operation[n]
        /\ operation'[Len(operation) + 1] = new
        /\ \A n \in DOMAIN operation' : n \in DOMAIN operation \/ n = Len(operation) + 1
    BY <1>0, <2>1, <2>2
  <2>6. /\ task' \in [Request -> Task] /\ task'[r] = t
        /\ \A q \in Request \ {r} : task'[q] = task[q]
    BY <1>0, <2>1, <2>3, Moves, TaskType
  <2>7. TypeOK'
    BY <1>0, <2>5, <2>6 DEF TypeOK, AccountTypeOK, accountVars
  <2>8. VersionInv'
    BY <1>0, <2>3, <2>6, VersionFrame DEF accountVars, SessionOp
  <2>9. TaskInv'
    BY <1>0, <2>3, <2>5, <2>6 DEF TaskInv
  <2>10. Len(operation) + 1 \notin DOMAIN operation
    BY <1>0
  <2>11. \A q \in Request : Holds(q) \/ task[q].op = "polled" => task[q].id \in DOMAIN operation
    BY <1>0 DEF TaskInv, Holds
  <2>12. OneSubmission'
    <3>1. \A n \in DOMAIN operation :
            <<operation[n].secret, operation[n].caller>> # <<new.secret, new.caller>>
      BY <1>2, <2>4 DEF Unique, Known, Same
    <3>. QED BY <2>4, <2>5, <2>10, <3>1 DEF OperationInv, OneSubmission
  <2>13. Truthful'
    BY <1>0, <2>4, <2>5 DEF OperationInv, Truthful
  <2>14. OperationInv'
    <3>1. \A q \in Request : q # r /\ Holds(q)' => Holds(q) /\ task[q].id # t.id
      BY <2>3, <2>6, <2>10, <2>11 DEF Holds
    <3>2. HeldInv'
      BY <2>3, <2>4, <2>5, <2>6, <2>11, <3>1 DEF OperationInv, HeldInv, Holds
    <3>3. HeardInv'
      BY <1>0, <2>3, <2>5, <2>6, <2>11 DEF OperationInv, HeardInv
    <3>. QED BY <2>12, <2>13, <3>2, <3>3 DEF OperationInv
  <2>. QED BY <2>7, <2>8, <2>9, <2>14 DEF TypeInv
<1>. QED BY <1>1, <1>2

LEMMA CallStep ==
  ASSUME TypeInv, OperationInv, NEW r \in Request, NEW outcome \in {"accepted", "refused", "lost"},
         NEW arrives \in {"none", "flying", "pending"}, Call(r, outcome, arrives), UNCHANGED accountVars
  PROVE  TypeInv' /\ OperationInv'
<1>. DEFINE n == task[r].id
            t == [Idle EXCEPT !.op = "settle", !.id = n, !.saw = outcome]
<1>0. /\ TypeOK /\ VersionInv /\ TaskInv /\ task[r].op = "call" /\ n \in DOMAIN operation /\ n \in Nat
      /\ operation \in Seq(Operation) /\ Len(operation) <= MaxOperations /\ MaxOperations \in Nat
      /\ UNCHANGED <<ops, key, made>> /\ Becomes(r, t)
      /\ operation' = [operation EXCEPT ![n].calls = @ + 1]
      /\ worker' = [worker EXCEPT ![n] = arrives]
      /\ outcome = "accepted" => arrives = "pending"
      /\ outcome = "refused" => arrives = "none"
  BY RelayAssumption DEF TypeInv, TypeOK, Call, Goes, TaskInv
<1>1. t \in Task /\ t.op = "settle" /\ t.id = n /\ t.saw = outcome
  BY <1>0 DEF Idle, Task, Op, Seen
<1>2. /\ operation[n] \in Operation /\ operation[n].calls = 0
      /\ operation[n].status = "submitting" /\ ~operation[n].accepted
      /\ \A q \in Request \ {r} : Holds(q) => task[q].id # n
  <2>1. Holds(r)
    BY <1>0 DEF Holds
  <2>2. operation[n] \in Operation
    BY <1>0
  <2>3. operation[n].status = "submitting" /\ ~operation[n].accepted /\ operation[n].calls = 0
    <3>1. HeldInv /\ task[r].op = "call"
      BY <1>0 DEF OperationInv
    <3>. QED BY <2>1, <3>1 DEF HeldInv
  <2>4. \A q \in Request \ {r} : Holds(q) => task[q].id # n
    BY <2>1 DEF OperationInv, HeldInv
  <2>. QED BY <2>2, <2>3, <2>4
<1>. HIDE DEF t, n
<1>3. /\ operation' \in Seq(Operation) /\ DOMAIN operation' = DOMAIN operation /\ Len(operation') = Len(operation)
      /\ \A m \in DOMAIN operation : m # n => operation'[m] = operation[m]
      /\ operation'[n].calls = 1 /\ operation'[n].status = operation[n].status
      /\ operation'[n].accepted = operation[n].accepted
      /\ operation'[n].secret = operation[n].secret /\ operation'[n].caller = operation[n].caller
  <2>. DEFINE rec == [operation[n] EXCEPT !.calls = @ + 1]
  <2>1. /\ rec \in Operation /\ rec.calls = 1 /\ rec.status = operation[n].status
        /\ rec.accepted = operation[n].accepted /\ rec.secret = operation[n].secret
        /\ rec.caller = operation[n].caller
    BY <1>2 DEF Operation
  <2>2. operation' = [operation EXCEPT ![n] = rec]
    BY <1>0
  <2>. HIDE DEF rec
  <2>3. operation' \in Seq(Operation) /\ DOMAIN operation' = DOMAIN operation /\ Len(operation') = Len(operation)
    <3>1. n \in DOMAIN operation /\ operation \in Seq(Operation) /\ rec \in Operation
      BY <1>0, <2>1
    <3>. QED BY <2>2, <3>1
  <2>4. \A m \in DOMAIN operation : operation'[m] = IF m = n THEN rec ELSE operation[m]
    BY <1>0, <2>2
  <2>. QED BY <1>0, <2>1, <2>3, <2>4
<1>4. /\ worker' \in [1..MaxOperations -> Status \cup {"none", "flying"}]
      /\ \A m \in DOMAIN operation : m # n => worker'[m] = worker[m]
      /\ worker'[n] = arrives
  BY <1>0 DEF TypeOK, Status
<1>5. /\ task' \in [Request -> Task] /\ task'[r] = t
      /\ \A q \in Request \ {r} : task'[q] = task[q]
  BY <1>0, <1>1, Moves, TaskType
<1>6. TypeOK'
  BY <1>0, <1>3, <1>4, <1>5 DEF TypeOK, AccountTypeOK, accountVars
<1>7. VersionInv'
  BY <1>0, <1>1, <1>5, VersionFrame DEF accountVars, SessionOp
<1>8. TaskInv'
  BY <1>0, <1>1, <1>3, <1>5 DEF TaskInv
<1>9. OneSubmission'
  <2>1. \A m \in DOMAIN operation : /\ operation'[m].secret = operation[m].secret
                                    /\ operation'[m].caller = operation[m].caller
    BY <1>3
  <2>2. \A m \in DOMAIN operation : operation'[m].calls <= 1
    BY <1>3 DEF OperationInv, OneSubmission
  <2>. QED BY <1>3, <2>1, <2>2 DEF OperationInv, OneSubmission
<1>10. Truthful'
  BY <1>0, <1>2, <1>3, <1>4 DEF OperationInv, Truthful
<1>11. \A q \in Request \ {r} : task[q].op = "polled" => task[q].id \in DOMAIN operation /\ task[q].id # n
  BY <1>0, <1>2 DEF TaskInv, OperationInv, HeardInv
<1>12. \A q \in Request \ {r} : Holds(q) => task[q].id \in DOMAIN operation
  BY <1>0 DEF TaskInv, Holds
<1>13. OperationInv'
  <2>1. HeldInv'
    <3>1. \A q \in Request \ {r} : Holds(q)' => Holds(q) /\ task'[q].id \in DOMAIN operation /\ task'[q].id # n
      BY <1>2, <1>5, <1>12 DEF Holds
    <3>2. \A q \in Request : Holds(q)' => /\ operation'[task'[q].id].status = "submitting"
                                          /\ ~operation'[task'[q].id].accepted
                                          /\ task'[q].op = "call" => operation'[task'[q].id].calls = 0
      <4>1. ASSUME NEW q \in Request \ {r}, Holds(q)'
            PROVE  /\ operation'[task'[q].id].status = "submitting"
                   /\ ~operation'[task'[q].id].accepted
                   /\ task'[q].op = "call" => operation'[task'[q].id].calls = 0
        <5>1. /\ HeldInv /\ Holds(q) /\ task'[q] = task[q]
              /\ operation'[task'[q].id] = operation[task[q].id]
          BY <1>3, <1>5, <3>1, <4>1 DEF OperationInv
        <5>. QED BY <5>1 DEF HeldInv
      <4>2. /\ operation'[task'[r].id].status = "submitting" /\ ~operation'[task'[r].id].accepted
            /\ task'[r].op # "call"
        BY <1>1, <1>2, <1>3, <1>5
      <4>. QED BY <4>1, <4>2
    <3>3. \A p, q \in Request : p # q /\ Holds(p)' /\ Holds(q)' => task'[p].id # task'[q].id
      BY <1>1, <1>5, <3>1 DEF OperationInv, HeldInv
    <3>. QED BY <3>2, <3>3 DEF HeldInv
  <2>2. HeardInv'
    BY <1>0, <1>1, <1>2, <1>3, <1>4, <1>5, <1>11, <1>12 DEF OperationInv, HeardInv, Holds, Status
  <2>. QED BY <1>9, <1>10, <2>1, <2>2 DEF OperationInv
<1>. QED BY <1>6, <1>7, <1>8, <1>13 DEF TypeInv

(* The outcome of a call, or of a poll, is written to its operation.       *)
LEMMA SettleStep ==
  ASSUME TypeInv, OperationInv, NEW r \in Request, Settle(r), UNCHANGED accountVars
  PROVE  TypeInv' /\ OperationInv'
<1>. DEFINE n == task[r].id
            status == Outcome(task[r].saw)
            ok == task[r].saw = "accepted"
            rec == [operation[n] EXCEPT !.status = status, !.accepted = ok]
<1>0. /\ TypeOK /\ VersionInv /\ TaskInv /\ task[r].op = "settle" /\ n \in DOMAIN operation
      /\ operation \in Seq(Operation) /\ UNCHANGED <<ops, key, made, worker>> /\ Ends(r)
  BY DEF TypeInv, TypeOK, Settle, Goes, TaskInv
<1>1. operation' = [operation EXCEPT ![n] = rec]
  BY DEF Settle
<1>2. /\ operation[n] \in Operation /\ ~operation[n].accepted
      /\ \A q \in Request \ {r} : Holds(q) => task[q].id # n
      /\ task[r].saw \in {"accepted", "refused", "lost"}
      /\ ok => worker[n] \in Status
      /\ task[r].saw = "refused" => worker[n] = "none"
  <2>1. Holds(r) /\ HeldInv /\ HeardInv /\ operation[n] \in Operation
    BY <1>0 DEF Holds, OperationInv
  <2>. QED BY <1>0, <2>1 DEF HeldInv, HeardInv
<1>3. /\ status \in {"queued", "failed", "unknown"}
      /\ status = "queued" => ok
      /\ status = "failed" => worker[n] = "none"
  BY <1>2 DEF Outcome
<1>4. /\ rec \in Operation /\ rec.status = status /\ rec.accepted = ok
      /\ rec.secret = operation[n].secret /\ rec.caller = operation[n].caller /\ rec.calls = operation[n].calls
  <2>1. ok \in BOOLEAN
    OBVIOUS
  <2>. HIDE DEF ok, status
  <2>. QED BY <1>2, <1>3, <2>1 DEF Operation, Status
<1>. HIDE DEF n, status, ok, rec
<1>5. /\ operation' \in Seq(Operation) /\ DOMAIN operation' = DOMAIN operation /\ Len(operation') = Len(operation)
      /\ \A m \in DOMAIN operation : operation'[m] = IF m = n THEN rec ELSE operation[m]
  <2>1. n \in DOMAIN operation /\ operation \in Seq(Operation) /\ rec \in Operation
    BY <1>0, <1>4
  <2>. QED BY <1>1, <2>1
<1>6. task' \in [Request -> Task] /\ VersionInv' /\ TaskInv'
  BY <1>0, <1>5, EndsType DEF accountVars
<1>7. task'[r] = Idle /\ Idle.op = "none" /\ \A q \in Request \ {r} : task'[q] = task[q]
  BY <1>0, Moves DEF Ends, Idle
<1>8. TypeOK'
  BY <1>0, <1>5, <1>6 DEF TypeOK, AccountTypeOK, accountVars
<1>9. OneSubmission'
  <2>1. \A m \in DOMAIN operation : /\ operation'[m].secret = operation[m].secret
                                    /\ operation'[m].caller = operation[m].caller
                                    /\ operation'[m].calls = operation[m].calls
    BY <1>4, <1>5
  <2>. QED BY <1>5, <2>1 DEF OperationInv, OneSubmission
<1>10. Truthful'
  <2>1. /\ rec.accepted => worker[n] \in Status
        /\ rec.status = "failed" /\ ~rec.accepted => worker[n] = "none"
        /\ rec.status \in {"queued", "processing", "sent"} => rec.accepted
        /\ rec.status # "sent"
    BY <1>2, <1>3, <1>4
  <2>. QED BY <1>0, <1>5, <2>1 DEF OperationInv, Truthful
<1>11. \A q \in Request : Holds(q)' => Holds(q) /\ task'[q] = task[q] /\ task[q].id # n /\ task[q].id \in DOMAIN operation
  BY <1>0, <1>2, <1>7 DEF Holds, TaskInv
<1>12. HeldInv'
  <2>1. \A q \in Request : Holds(q)' => operation'[task'[q].id] = operation[task[q].id]
    BY <1>5, <1>11
  <2>. QED BY <1>11, <2>1 DEF OperationInv, HeldInv
<1>13. HeardInv'
  <2>1. ASSUME NEW q \in Request, task'[q].op = "settle"
        PROVE  /\ task'[q].saw \in {"accepted", "refused", "lost"}
               /\ task'[q].saw = "accepted" => worker'[task'[q].id] \in Status
               /\ task'[q].saw = "refused" => worker'[task'[q].id] = "none"
    BY <1>0, <1>7, <2>1 DEF OperationInv, HeardInv
  <2>2. ASSUME NEW q \in Request, task'[q].op = "polled"
        PROVE  /\ operation'[task'[q].id].accepted
               /\ task'[q].saw = "sent" => worker'[task'[q].id] = "sent"
    <3>1. task[q].op = "polled" /\ task'[q] = task[q] /\ task[q].id \in DOMAIN operation
      BY <1>0, <1>7, <2>2 DEF TaskInv
    <3>2. operation[task[q].id].accepted /\ (task[q].saw = "sent" => worker[task[q].id] = "sent")
      BY <3>1 DEF OperationInv, HeardInv
    <3>3. task[q].id # n
      BY <1>2, <3>2
    <3>. QED BY <1>0, <1>5, <3>1, <3>2, <3>3
  <2>. QED BY <2>1, <2>2 DEF HeardInv
<1>. QED BY <1>6, <1>8, <1>9, <1>10, <1>12, <1>13 DEF TypeInv, OperationInv

LEMMA PollCommitsStep ==
  ASSUME TypeInv, OperationInv, NEW r \in Request, PollCommits(r), UNCHANGED accountVars
  PROVE  TypeInv' /\ OperationInv'
<1>. DEFINE n == task[r].id
            rec == [operation[n] EXCEPT !.status = Told(task[r].saw)]
<1>0. /\ TypeOK /\ VersionInv /\ TaskInv /\ task[r].op = "polled" /\ n \in DOMAIN operation
      /\ task[r].saw \in Status
      /\ operation \in Seq(Operation) /\ UNCHANGED <<ops, key, made, worker>> /\ Ends(r)
  BY DEF TypeInv, TypeOK, PollCommits, Goes, TaskInv
<1>1. CASE UNCHANGED operation
  <2>1. Becomes(r, Idle) /\ Idle.op = "none" /\ UNCHANGED relayVars
    BY <1>0, <1>1 DEF Ends, Idle, relayVars
  <2>. QED BY <1>0, <2>1, AskType, TaskType DEF TypeOK, AccountTypeOK
<1>2. CASE operation' # operation
  <2>1. operation' = [operation EXCEPT ![n] = rec]
    BY <1>2 DEF PollCommits
  <2>2. /\ operation[n] \in Operation /\ operation[n].accepted
        /\ task[r].saw = "sent" => worker[n] = "sent"
    BY <1>0 DEF OperationInv, HeardInv
  <2>3. /\ rec \in Operation /\ rec.status = Told(task[r].saw) /\ rec.accepted = operation[n].accepted
        /\ rec.secret = operation[n].secret /\ rec.caller = operation[n].caller /\ rec.calls = operation[n].calls
        /\ rec.status = "sent" => task[r].saw = "sent"
    BY <1>0, <2>2 DEF Operation, Told, Status
  <2>. HIDE DEF n, rec
  <2>4. /\ operation' \in Seq(Operation) /\ DOMAIN operation' = DOMAIN operation
        /\ Len(operation') = Len(operation)
        /\ \A m \in DOMAIN operation : operation'[m] = IF m = n THEN rec ELSE operation[m]
    <3>1. n \in DOMAIN operation /\ operation \in Seq(Operation) /\ rec \in Operation
      BY <1>0, <2>3
    <3>. QED BY <2>1, <3>1
  <2>5. task' \in [Request -> Task] /\ VersionInv' /\ TaskInv'
    BY <1>0, <2>4, EndsType DEF accountVars
  <2>6. task'[r] = Idle /\ Idle.op = "none" /\ \A q \in Request \ {r} : task'[q] = task[q]
    BY <1>0, Moves DEF Ends, Idle
  <2>7. TypeOK'
    BY <1>0, <2>4, <2>5 DEF TypeOK, AccountTypeOK, accountVars
  <2>8. \A m \in DOMAIN operation : /\ operation'[m].secret = operation[m].secret
                                    /\ operation'[m].caller = operation[m].caller
                                    /\ operation'[m].calls = operation[m].calls
                                    /\ operation'[m].accepted = operation[m].accepted
    BY <2>3, <2>4
  <2>9. OneSubmission'
    BY <2>4, <2>8 DEF OperationInv, OneSubmission
  <2>10. Truthful'
    BY <1>0, <2>2, <2>3, <2>4 DEF OperationInv, Truthful
  <2>11. \A q \in Request : Holds(q)' => Holds(q) /\ task'[q] = task[q] /\ task[q].id \in DOMAIN operation
    BY <1>0, <2>6 DEF Holds, TaskInv
  <2>12. HeldInv'
    <3>1. \A q \in Request : Holds(q) => task[q].id # n
      BY <2>2 DEF OperationInv, HeldInv
    <3>2. \A q \in Request : Holds(q)' => operation'[task'[q].id] = operation[task[q].id]
      BY <2>4, <2>11, <3>1
    <3>. QED BY <2>11, <3>2 DEF OperationInv, HeldInv
  <2>13. HeardInv'
    <3>1. \A q \in Request : task'[q].op = "polled" => task[q].op = "polled" /\ task'[q] = task[q]
                                                       /\ task[q].id \in DOMAIN operation
      BY <1>0, <2>6 DEF TaskInv
    <3>2. \A q \in Request : task'[q].op = "settle" => task[q].op = "settle" /\ task'[q] = task[q]
      BY <2>6
    <3>. QED BY <1>0, <2>8, <3>1, <3>2 DEF OperationInv, HeardInv
  <2>. QED BY <2>5, <2>7, <2>9, <2>10, <2>12, <2>13 DEF TypeInv, OperationInv
<1>. QED BY <1>1, <1>2

LEMMA WorkerMovesStep ==
  ASSUME TypeInv, OperationInv, NEW n \in 1..MaxOperations, WorkerMoves(n), UNCHANGED accountVars
  PROVE  TypeInv' /\ OperationInv'
<1>0. /\ TypeOK /\ VersionInv /\ TaskInv /\ worker \in [1..MaxOperations -> Status \cup {"none", "flying"}]
      /\ UNCHANGED <<key, made, operation, task, ops>>
  BY DEF TypeInv, TypeOK, WorkerMoves
<1>1. PICK s \in MovesTo(worker[n]) : worker' = [worker EXCEPT ![n] = s]
  BY DEF WorkerMoves
<1>2. /\ s \in Status \cup {"none", "flying"}
      /\ worker[n] \in Status => s \in Status
      /\ worker[n] # "none" /\ worker[n] # "sent"
  BY <1>0, <1>1 DEF MovesTo, Onward, Status
<1>3. /\ worker' \in [1..MaxOperations -> Status \cup {"none", "flying"}]
      /\ \A m : /\ worker[m] = "none" => worker'[m] = "none"
                /\ worker[m] = "sent" => worker'[m] = "sent"
                /\ m \in 1..MaxOperations /\ worker[m] \in Status => worker'[m] \in Status
  <2>1. worker' \in [1..MaxOperations -> Status \cup {"none", "flying"}]
    BY <1>0, <1>1, <1>2
  <2>2. DOMAIN worker' = DOMAIN worker
    BY <1>1
  <2>. QED BY <1>0, <1>1, <1>2, <2>1

<1>4. TypeOK'
  BY <1>0, <1>3 DEF TypeOK, AccountTypeOK, accountVars
<1>5. VersionInv' /\ TaskInv'
  BY <1>0, VersionFrame, TaskFrame DEF accountVars
<1>6. OneSubmission' /\ HeldInv'
  BY <1>0 DEF OperationInv, OneSubmission, HeldInv, Holds
<1>7. \A m \in DOMAIN operation : m \in 1..MaxOperations
  BY <1>0, RelayAssumption DEF TypeOK
<1>8. Truthful'
  BY <1>0, <1>3, <1>7 DEF OperationInv, Truthful
<1>9. HeardInv'
  <2>1. \A q \in Request : task[q].op = "settle" => task[q].id \in 1..MaxOperations
    BY <1>0, <1>7 DEF TaskInv
  <2>. QED BY <1>0, <1>3, <2>1 DEF OperationInv, HeardInv
<1>. QED BY <1>4, <1>5, <1>6, <1>8, <1>9 DEF TypeInv, OperationInv

LEMMA RestartStep ==
  ASSUME TypeInv, OperationInv, Restart, UNCHANGED accountVars
  PROVE  TypeInv' /\ OperationInv'
<1>1. /\ TypeOK /\ VersionInv /\ TaskInv /\ ops' \in 0..MaxOps /\ Idle \in Task /\ Idle.op = "none"
      /\ task' = [q \in Request |-> Idle] /\ UNCHANGED relayVars
  BY AccountsAssumption DEF TypeInv, Restart, TypeOK, AccountTypeOK, Idle, Task, Op, Seen
<1>2. task' \in [Request -> Task] /\ \A q \in Request : task'[q].op = "none"
  BY <1>1
<1>3. TypeOK'
  BY <1>1, <1>2, RequestOnly DEF accountVars
<1>4. VersionInv' /\ TaskInv'
  BY <1>1, <1>2, VersionFrame, TaskFrame DEF accountVars, relayVars, SessionOp
<1>5. OperationInv'
  BY <1>1, <1>2, OperationFrame DEF relayVars
<1>. QED BY <1>3, <1>4, <1>5 DEF TypeInv

LEMMA ToggleUserType ==
  ASSUME TypeInv, ToggleUserActive, UNCHANGED relayVars
  PROVE  TypeInv'
<1>0. /\ TypeOK /\ VersionInv /\ TaskInv /\ ops' \in 0..MaxOps
      /\ UNCHANGED <<jar, overlap, task, grant, origin, withdrawn>>
      /\ account' = [account EXCEPT !.active = ~@]
  BY AccountsAssumption DEF TypeInv, ToggleUserActive, TypeOK, AccountTypeOK, GrantsUnchanged
<1>1. /\ account' \in [active : BOOLEAN, sv : 0..MaxVersion, epoch : 0..MaxVersion]
      /\ account'.sv = account.sv /\ account'.epoch = account.epoch
  <2>1. account \in [active : BOOLEAN, sv : 0..MaxVersion, epoch : 0..MaxVersion]
    BY <1>0 DEF TypeOK, AccountTypeOK
  <2>2. (~account.active) \in BOOLEAN
    OBVIOUS
  <2>. QED BY <1>0, <2>1, <2>2
<1>2. TypeOK'
  BY <1>0, <1>1 DEF TypeOK, AccountTypeOK, relayVars
<1>3. VersionInv' /\ TaskInv'
  BY <1>0, <1>1 DEF VersionInv, TaskInv, relayVars
<1>. QED BY <1>2, <1>3 DEF TypeInv

-----------------------------------------------------------------------------
(* Every step keeps the invariant.                                         *)
IndInv == TypeInv /\ OperationInv

LEMMA AccountTypes ==
  ASSUME TypeInv, AccountStep, UNCHANGED relayVars
  PROVE  TypeInv'
<1>1. CASE ToggleUserActive
  BY <1>1, ToggleUserType
<1>2. CASE \E i \in Approval : CodeExpires(i)
  BY <1>2, CodeExpiresType
<1>3. CASE \E r \in Request :
             \/ \E op \in {"page", "signoutall", "password", "rename", "allow"} : Opens(r, op)
             \/ SignInLoads(r) \/ SignsIn(r) \/ Renews(r) \/ SignOutEverywhere(r) \/ ChangePassword(r)
             \/ Rename(r) \/ ProfileAnswers(r) \/ RowGone(r) \/ Revoke(r)
             \/ \E c \in 1..Clients : Allow(r, c)
             \/ \E op \in {"exchange", "refresh"} : IssueTokens(r, op)
             \/ \E i \in Approval : ExchangeLoads(r, i) \/ RefreshLoads(r, i) \/ RevokeLoads(r, i)
  <2>1. ASSUME NEW r \in Request, NEW op \in {"page", "signoutall", "password", "rename", "allow"},
               Opens(r, op)
        PROVE  TypeInv'
    BY <2>1, OpensType DEF SessionOp
  <2>2. ASSUME NEW r \in Request, NEW i \in Approval,
               ExchangeLoads(r, i) \/ RefreshLoads(r, i) \/ RevokeLoads(r, i)
        PROVE  TypeInv'
    BY <2>2, LoadsType DEF ExchangeLoads, RefreshLoads, RevokeLoads
  <2>. QED BY <1>3, <2>1, <2>2, SignInLoadsType, SignsInType, SignOutType, RenameType,
              ProfileAnswersType, RevokeType, AllowType, IssueTokensType
<1>. QED BY <1>1, <1>2, <1>3 DEF AccountStep

LEMMA AccountOps ==
  ASSUME TypeInv, NEW q \in Request,
         AccountStep \/ \E r \in Request : Opens(r, "newkey")
  PROVE  task'[q] = task[q] \/ task'[q].op \notin {"call", "settle", "polled"}
<1>. DEFINE Keeps == task'[q] = task[q] \/ task'[q].op \notin {"call", "settle", "polled"}
<1>0. TypeOK
  BY DEF TypeInv
<1>1. ASSUME NEW r \in Request, NEW t, Becomes(r, t), t.op \notin {"call", "settle", "polled"}
      PROVE  Keeps
  BY <1>0, <1>1, Moves
<1>2. Idle.op = "none" /\ \A r \in Request : Ends(r) => Becomes(r, Idle)
  BY DEF Idle, Ends
<1>3. ASSUME NEW r \in Request, Ends(r) PROVE Keeps
  BY <1>1, <1>2, <1>3
<1>4. ASSUME task' = task PROVE Keeps
  BY <1>4
<1>. HIDE DEF Keeps
<1>5. ASSUME NEW r \in Request, NEW op \in SessionOp, Opens(r, op) PROVE Keeps
  <2>1. PICK s \in jar : Becomes(r, [Idle EXCEPT !.op = op, !.seen = account.sv, !.born = s.born])
    BY <1>5 DEF Opens
  <2>2. [Idle EXCEPT !.op = op, !.seen = account.sv, !.born = s.born].op = op
    BY DEF Idle
  <2>. QED BY <1>1, <2>1, <2>2 DEF SessionOp
<1>6. ASSUME NEW r \in Request, SignInLoads(r) PROVE Keeps
  <2>1. Becomes(r, [Idle EXCEPT !.op = "signin", !.seen = account.sv, !.born = account.epoch])
    BY <1>6 DEF SignInLoads
  <2>2. [Idle EXCEPT !.op = "signin", !.seen = account.sv, !.born = account.epoch].op = "signin"
    BY DEF Idle
  <2>. QED BY <1>1, <2>1, <2>2
<1>7. ASSUME NEW r \in Request, ChangePassword(r) PROVE Keeps
  <2>1. Becomes(r, [Idle EXCEPT !.op = "answer", !.born = account.epoch + 1])
    BY <1>7 DEF ChangePassword
  <2>2. [Idle EXCEPT !.op = "answer", !.born = account.epoch + 1].op = "answer"
    BY DEF Idle
  <2>. QED BY <1>1, <2>1, <2>2
<1>8. ASSUME NEW r \in Request, Rename(r) PROVE Keeps
  <2>1. Becomes(r, [task[r] EXCEPT !.op = "answer"]) /\ task[r] \in Task
    BY <1>0, <1>8, TaskType DEF Rename
  <2>2. [task[r] EXCEPT !.op = "answer"].op = "answer"
    BY <2>1 DEF Task
  <2>. QED BY <1>1, <2>1, <2>2
<1>9. ASSUME NEW r \in Request, NEW i \in Approval,
             ExchangeLoads(r, i) \/ RefreshLoads(r, i) \/ RevokeLoads(r, i)
      PROVE  Keeps
  <2>1. PICK op \in {"exchange", "refresh", "revoke"} : Loads(r, op, i)
    BY <1>9 DEF ExchangeLoads, RefreshLoads, RevokeLoads
  <2>2. Becomes(r, [Idle EXCEPT !.op = op, !.id = i, !.what = grant[i].approval])
    BY <2>1 DEF Loads
  <2>3. [Idle EXCEPT !.op = op, !.id = i, !.what = grant[i].approval].op = op
    BY DEF Idle
  <2>. QED BY <1>1, <2>2, <2>3
<1>10. ASSUME NEW r \in Request,
              SignsIn(r) \/ Renews(r) \/ SignOutEverywhere(r) \/ ProfileAnswers(r) \/ RowGone(r) \/ Revoke(r)
       PROVE  Keeps
  BY <1>3, <1>10 DEF SignsIn, Renews, SignOutEverywhere, ProfileAnswers, RowGone, Revoke
<1>11. ASSUME NEW r \in Request, NEW c \in 1..Clients, Allow(r, c) PROVE Keeps
  BY <1>3, <1>11 DEF Allow
<1>12. ASSUME NEW r \in Request, NEW op \in {"exchange", "refresh"}, IssueTokens(r, op) PROVE Keeps
  BY <1>3, <1>12 DEF IssueTokens
<1>13. ASSUME ToggleUserActive \/ \E i \in Approval : CodeExpires(i) PROVE Keeps
  BY <1>4, <1>13 DEF ToggleUserActive, CodeExpires
<1>14. ASSUME NEW r \in Request, NEW op \in {"page", "signoutall", "password", "rename", "allow", "newkey"},
              Opens(r, op)
       PROVE  Keeps
  BY <1>5, <1>14 DEF SessionOp
<1>15. Keeps
  BY <1>6, <1>7, <1>8, <1>9, <1>10, <1>11, <1>12, <1>13, <1>14 DEF AccountStep
<1>. QED BY <1>15 DEF Keeps

LEMMA NextInv ==
  ASSUME IndInv, [Next]_vars
  PROVE  IndInv'
<1>0. TypeInv /\ OperationInv
  BY DEF IndInv
<1>1. CASE (AccountStep \/ \E r \in Request : Opens(r, "newkey")) /\ UNCHANGED relayVars
  <2>1. TypeInv'
    BY <1>0, <1>1, AccountTypes, OpensType DEF SessionOp
  <2>2. OperationInv'
    BY <1>0, <1>1, AccountOps, OperationFrame DEF relayVars
  <2>. QED BY <2>1, <2>2 DEF IndInv
<1>2. CASE RelayStep /\ UNCHANGED accountVars
  <2>1. ASSUME NEW r \in Request,
               \/ InsertKey(r) \/ HashKey(r) \/ \E i \in KeyId : ToggleKey(r, i) \/ DeleteKey(r, i)
        PROVE  IndInv'
    <3>1. TypeInv'
      BY <1>0, <1>2, <2>1, KeysType
    <3>2. UNCHANGED <<operation, worker>>
      BY <2>1 DEF InsertKey, HashKey, ToggleKey, DeleteKey
    <3>3. \A q \in Request : task'[q] = task[q] \/ task'[q].op \notin {"call", "settle", "polled"}
      <4>1. TypeOK /\ Idle.op = "none"
        BY <1>0 DEF TypeInv, Idle
      <4>2. CASE task' = task
        BY <4>2
      <4>3. CASE Becomes(r, Idle)
        BY <4>1, <4>3, Moves
      <4>4. CASE InsertKey(r)
        <5>1. PICK id : Becomes(r, [Idle EXCEPT !.op = "hash", !.id = id])
          BY <4>4 DEF InsertKey
        <5>2. [Idle EXCEPT !.op = "hash", !.id = id].op = "hash"
          BY DEF Idle
        <5>. QED BY <4>1, <5>1, <5>2, Moves
      <4>. QED BY <2>1, <4>2, <4>3, <4>4 DEF HashKey, Ends, ToggleKey, DeleteKey
    <3>. QED BY <1>0, <3>1, <3>2, <3>3, OperationFrame DEF IndInv
  <2>2. CASE Restart
    BY <1>0, <1>2, <2>2, RestartStep DEF IndInv
  <2>3. CASE \E n \in 1..MaxOperations : WorkerMoves(n)
    BY <1>0, <1>2, <2>3, WorkerMovesStep DEF IndInv
  <2>4. ASSUME NEW r \in Request, Look(r) \/ Insert(r) \/ Settle(r) \/ PollCommits(r)
        PROVE  IndInv'
    BY <1>0, <1>2, <2>4, LookStep, InsertStep, SettleStep, PollCommitsStep DEF IndInv
  <2>5. ASSUME NEW r \in Request, NEW i \in KeyId, NEW k \in 1..Callers, NEW p \in 1..Payloads,
               Submit(r, i, k, p)
        PROVE  IndInv'
    BY <1>0, <1>2, <2>5, SubmitStep DEF IndInv
  <2>6. ASSUME NEW r \in Request, NEW i \in KeyId, NEW n \in DOMAIN operation, Poll(r, i, n)
        PROVE  IndInv'
    BY <1>0, <1>2, <2>6, PollStep DEF IndInv
  <2>7. ASSUME NEW r \in Request, NEW outcome \in {"accepted", "refused", "lost"},
               NEW arrives \in {"none", "flying", "pending"}, Call(r, outcome, arrives)
        PROVE  IndInv'
    BY <1>0, <1>2, <2>7, CallStep DEF IndInv
  <2>. QED BY <1>2, <2>1, <2>2, <2>3, <2>4, <2>5, <2>6, <2>7 DEF RelayStep
<1>3. CASE UNCHANGED vars
  <2>1. UNCHANGED <<account, jar, grant, origin, withdrawn, overlap, task, ops, key, made, operation, worker>>
    BY <1>3 DEF vars, accountVars, relayVars
  <2>2. TypeOK'
    BY <1>0, <2>1 DEF TypeInv, TypeOK, AccountTypeOK
  <2>3. VersionInv' /\ TaskInv'
    BY <1>0, <2>1, VersionFrame, TaskFrame DEF TypeInv
  <2>4. OperationInv'
    BY <1>0, <2>1, OperationFrame
  <2>. QED BY <2>2, <2>3, <2>4 DEF IndInv, TypeInv
<1>. QED BY <1>1, <1>2, <1>3 DEF Next

LEMMA InitInv == Init => IndInv
<1>. SUFFICES ASSUME Init PROVE IndInv
  OBVIOUS
<1>0. /\ account = [active |-> TRUE, sv |-> 0, epoch |-> 0] /\ jar = {} /\ origin = <<>>
      /\ grant = [i \in Approval |-> NoGrant] /\ withdrawn = {} /\ overlap = FALSE /\ ops = 0
      /\ task = [r \in Request |-> Idle] /\ key = [i \in KeyId |-> NoKey] /\ made = 0
      /\ operation = <<>> /\ worker = [n \in 1..MaxOperations |-> "none"]
  BY DEF Init, AccountInit
<1>1. \A r \in Request : task[r] = Idle /\ Idle.op = "none" /\ Idle \in Task
  BY <1>0 DEF Idle, Task, Op, Seen
<1>2. AccountTypeOK
  <2>1. 0 \in 0..MaxVersion /\ 0 \in 0..MaxOps /\ 0 <= MaxPairs
    BY AccountsAssumption
  <2>2. account \in [active : BOOLEAN, sv : 0..MaxVersion, epoch : 0..MaxVersion]
    BY <1>0, <2>1
  <2>3. grant \in [Approval -> Grant \cup {NoGrant}] /\ task \in [Request -> Task]
    BY <1>0, <1>1
  <2>4. origin \in Seq(Approval) /\ Len(origin) <= MaxPairs
    BY <1>0, <2>1
  <2>. QED BY <1>0, <2>1, <2>2, <2>3, <2>4 DEF AccountTypeOK
<1>3. TypeOK
  <2>1. 0 \in 0..MaxKeys /\ 0 <= MaxOperations
    BY RelayAssumption
  <2>2. NoKey \in [hash : 0..MaxKeys, active : BOOLEAN, live : BOOLEAN]
    BY <2>1 DEF NoKey
  <2>3. operation \in Seq(Operation) /\ Len(operation) <= MaxOperations
    BY <1>0, <2>1
  <2>. QED BY <1>0, <1>2, <2>1, <2>2, <2>3 DEF TypeOK
<1>4. VersionInv
  BY <1>0, <1>1 DEF VersionInv, SessionOp
<1>5. TaskInv
  BY <1>1 DEF TaskInv
<1>6. DOMAIN operation = {}
  BY <1>0
<1>7. OperationInv
  BY <1>1, <1>6 DEF OperationInv, OneSubmission, Truthful, HeldInv, HeardInv, Holds
<1>. QED BY <1>3, <1>4, <1>5, <1>7 DEF IndInv, TypeInv

LEMMA IndInvAlways == Spec => []IndInv
<1>1. IndInv /\ [Next]_vars => IndInv'
  BY NextInv
<1>. QED BY InitInv, <1>1, PTL DEF Spec

-----------------------------------------------------------------------------
(* Every variable of the account, its requests, keys and operations stays  *)
(* within its type: among other things, that a poll never writes a status  *)
(* the API has no word for ("pending" is told as "queued"), and that no    *)
(* row id or version leaves its range.                                     *)
THEOREM TypeCorrect == Spec => []TypeOK
<1>1. IndInv => TypeOK
  BY DEF IndInv, TypeInv
<1>. QED BY <1>1, IndInvAlways, PTL

(* However many requests carry the same idempotency key, in whatever       *)
(* order, across restarts and deleted credentials, the worker is called    *)
(* once for it.                                                            *)
THEOREM OneSubmissionAlways == Spec => []OneSubmission
<1>1. IndInv => OneSubmission
  BY DEF IndInv, OperationInv
<1>. QED BY <1>1, IndInvAlways, PTL

(* The status the API reports agrees with what the worker has, whatever    *)
(* became of the call, its answer and the polls under way.                 *)
THEOREM TruthfulAlways == Spec => []Truthful
<1>1. IndInv => Truthful
  BY DEF IndInv, OperationInv
<1>. QED BY <1>1, IndInvAlways, PTL

(* An operation reported as sent or failed stays so.                       *)
THEOREM SettledStaysAlways == Spec => SettledStays
<1>. DEFINE Stays == \A n \in DOMAIN operation :
                       operation[n].status \in Final => operation'[n].status = operation[n].status
<1>1. IndInv /\ [Next]_vars => [Stays]_vars
  <2>. SUFFICES ASSUME IndInv, Next PROVE Stays
    BY DEF Stays
  <2>0. /\ TypeOK /\ TaskInv /\ HeldInv /\ operation \in Seq(Operation)
        /\ \A n \in DOMAIN operation : operation[n] \in Operation
    BY DEF IndInv, TypeInv, OperationInv, TypeOK
  <2>1. CASE UNCHANGED operation
    BY <2>1
  <2>2. ASSUME NEW r \in Request, Insert(r) PROVE Stays
    <3>1. CASE Unique(r)
      <4>1. PICK new : operation' = Append(operation, new)
        BY <2>2, <3>1 DEF Insert
      <4>2. \A n \in DOMAIN operation : operation'[n] = operation[n]
        BY <2>0, <4>1
      <4>. QED BY <4>2
    <3>. QED BY <2>1, <2>2, <3>1 DEF Insert
  <2>3. ASSUME NEW r \in Request, NEW outcome, NEW arrives, Call(r, outcome, arrives) PROVE Stays
    <3>1. operation' = [operation EXCEPT ![task[r].id].calls = @ + 1] /\ task[r].id \in DOMAIN operation
      BY <2>0, <2>3 DEF Call, Goes, TaskInv
    <3>2. operation'[task[r].id].status = operation[task[r].id].status
      BY <2>0, <3>1 DEF Operation
    <3>. QED BY <3>1, <3>2
  <2>4. ASSUME NEW r \in Request, Settle(r) PROVE Stays
    <3>1. task[r].id \in DOMAIN operation /\ operation[task[r].id].status = "submitting"
      BY <2>0, <2>4 DEF Settle, Goes, TaskInv, HeldInv, Holds
    <3>2. \A n \in DOMAIN operation : n # task[r].id => operation'[n] = operation[n]
      BY <2>4 DEF Settle
    <3>. QED BY <3>1, <3>2 DEF Final
  <2>5. ASSUME NEW r \in Request, PollCommits(r) PROVE Stays
    BY <2>5 DEF PollCommits, Open
  <2>6. CASE RelayStep
    BY <2>1, <2>2, <2>3, <2>4, <2>5, <2>6
       DEF RelayStep, Restart, WorkerMoves, InsertKey, HashKey, Look, ToggleKey, DeleteKey,
           Submit, Poll, relayVars
  <2>7. UNCHANGED operation \/ RelayStep
    BY DEF Next, relayVars
  <2>. QED BY <2>1, <2>6, <2>7
<1>. QED BY <1>1, IndInvAlways, PTL DEF SettledStays, Spec
=============================================================================

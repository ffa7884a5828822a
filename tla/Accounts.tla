------------------------------ MODULE Accounts ------------------------------
(***************************************************************************)
(* One account: its sessions (app/routers/auth.py, the guard of main.py,   *)
(* admin.py) and the apps connected to it over OAuth (services/oauth.py,   *)
(* routers/oauth.py, the entry of routers/mcp.py). Relay.tla adds the      *)
(* account's API keys and composes both.                                   *)
(*                                                                         *)
(* A session is a signed cookie: nothing about it is stored but the        *)
(* account's session version, which every request compares with the        *)
(* cookie's; a renewed cookie is a copy. A request is a coroutine with     *)
(* awaits between its reads and its commit; its guard and the handler's    *)
(* first read are one step here. SQLite gives a new row the identifier     *)
(* after the largest in use, so that of a deleted grant comes back.        *)
(*                                                                         *)
(* A definition named like its successor with a word added is a slip the   *)
(* properties must notice; no action uses it.                              *)
(***************************************************************************)
EXTENDS Integers, Sequences, FiniteSetsExt

CONSTANTS Request,       \* coroutines handling requests
          Clients,       \* number of apps registered for OAuth
          MaxVersion,    \* bound: sign-outs everywhere
          MaxApprovals,  \* bound: times an app is allowed
          MaxPairs,      \* bound: token pairs issued
          MaxOps         \* bound: requests

ASSUME AccountsAssumption ==
  /\ Clients \in Nat /\ MaxVersion \in Nat /\ MaxApprovals \in Nat
  /\ MaxPairs \in Nat /\ MaxOps \in Nat

VARIABLES
  account,    \* is_active, session_version; epoch: times it was signed out everywhere
  jar,        \* cookies in browsers: session version, and the epoch of the sign-in they come from
  grant,      \* the grants' rows by id
  origin,     \* the approval each token pair came from
  withdrawn,  \* approvals replaced, revoked, disconnected or abandoned
  overlap,    \* a request that had read the account was under way when it was signed out everywhere
  task,       \* requests under way
  ops

accountVars == <<account, jar, grant, origin, withdrawn, overlap>>

(* A grant: its app, the approval it records, its code, its last token     *)
(* pair (0: none), and whether a request that had loaded an earlier row of *)
(* this id wrote to it.                                                    *)
Approval == 1..MaxApprovals
NoGrant == [client |-> 0, approval |-> 0, code |-> "used", pair |-> 0, crossed |-> FALSE]
Grant == [client : 1..Clients, approval : Approval, code : {"live", "expired", "used"},
          pair : 0..MaxPairs, crossed : BOOLEAN]

(* What a request remembers: the session version, epoch and row it read.   *)
Op == {"none", "signin", "page", "signoutall", "password", "rename", "answer", "allow", "newkey",
       "exchange", "refresh", "revoke", "hash", "look", "insert", "call", "settle", "polled"}
Seen == {"none", "flying", "pending", "processing", "sent", "failed", "unknown",
         "accepted", "refused", "lost"}
Task == [op : Op, seen : Nat, born : Nat, id : Nat, what : Nat, saw : Seen]
Idle == [op |-> "none", seen |-> 0, born |-> 0, id |-> 0, what |-> 0, saw |-> "none"]

AccountTypeOK ==
  /\ account \in [active : BOOLEAN, sv : 0..MaxVersion, epoch : 0..MaxVersion]
  /\ jar \subseteq [sv : 0..MaxVersion, born : 0..MaxVersion]
  /\ grant \in [Approval -> Grant \cup {NoGrant}]
  /\ origin \in Seq(Approval) /\ Len(origin) <= MaxPairs
  /\ withdrawn \subseteq Approval /\ overlap \in BOOLEAN
  /\ task \in [Request -> Task] /\ ops \in 0..MaxOps

Starts(r) == task[r].op = "none" /\ ops < MaxOps /\ ops' = ops + 1
Goes(r, op) == task[r].op = op /\ UNCHANGED ops
Becomes(r, state) == task' = [task EXCEPT ![r] = state]
Ends(r) == Becomes(r, Idle)
GrantsUnchanged == UNCHANGED <<grant, origin, withdrawn>>
SessionsUnchanged == UNCHANGED <<account, jar, overlap>>

-----------------------------------------------------------------------------
(* signin: the password is verified against the row just read.             *)
SignInLoads(r) ==
  /\ Starts(r) /\ account.active
  /\ Becomes(r, [Idle EXCEPT !.op = "signin", !.seen = account.sv, !.born = account.epoch])
  /\ SessionsUnchanged /\ GrantsUnchanged

(* active_account_guard, then the handler's own read of the account.       *)
Valid(s) == account.active /\ s.sv = account.sv
Opens(r, op) ==
  \E s \in jar : /\ Starts(r) /\ Valid(s)
                 /\ Becomes(r, [Idle EXCEPT !.op = op, !.seen = account.sv, !.born = s.born])
                 /\ SessionsUnchanged /\ GrantsUnchanged

(* Cookies: of a sign-in, and the renewal of one past half its lifetime,   *)
(* which copies the payload (as the timezone and language pages do).       *)
CookieFresh(r) == [sv |-> account.sv, born |-> task[r].born]
Cookie(r) == [sv |-> task[r].seen, born |-> task[r].born]
SignsIn(r) ==
  /\ Goes(r, "signin") /\ jar' = jar \cup {Cookie(r)} /\ Ends(r)
  /\ UNCHANGED <<account, overlap>> /\ GrantsUnchanged
Renews(r) ==
  /\ Goes(r, "page") /\ jar' = jar \cup {Cookie(r)} /\ Ends(r)
  /\ UNCHANGED <<account, overlap>> /\ GrantsUnchanged

(* The session version is written as the one read plus one.                *)
Bumps(r) ==
  /\ account.epoch < MaxVersion
  /\ account' = [account EXCEPT !.sv = task[r].seen + 1, !.epoch = @ + 1]
  /\ overlap' = (overlap \/ \E q \in Request \ {r} :
                              task[q].op \in {"password", "rename", "signoutall", "answer"})

SignOutEverywhere(r) ==
  /\ Goes(r, "signoutall") /\ Bumps(r) /\ Ends(r) /\ UNCHANGED jar /\ GrantsUnchanged

(* profile_update: a new password signs out every other device. The new    *)
(* cookie is made from the account as read once more after the commit.     *)
ChangePassword(r) ==
  /\ Goes(r, "password") /\ Bumps(r) /\ UNCHANGED jar /\ GrantsUnchanged
  /\ Becomes(r, [Idle EXCEPT !.op = "answer", !.born = account.epoch + 1])
Rename(r) ==
  /\ Goes(r, "rename") /\ Becomes(r, [task[r] EXCEPT !.op = "answer"])
  /\ SessionsUnchanged /\ GrantsUnchanged
ProfileAnswers(r) ==
  /\ Goes(r, "answer") /\ jar' = jar \cup {CookieFresh(r)} /\ Ends(r)
  /\ UNCHANGED <<account, overlap>> /\ GrantsUnchanged

(* toggle_user_active, by the administrator.                               *)
ToggleUserActive ==
  /\ ops < MaxOps /\ ops' = ops + 1 /\ account' = [account EXCEPT !.active = ~@]
  /\ UNCHANGED <<jar, overlap, task>> /\ GrantsUnchanged

-----------------------------------------------------------------------------
RowRemembered(r) ==
  IF grant[task[r].id] # NoGrant THEN grant[task[r].id]
  ELSE [NoGrant EXCEPT !.client = 1, !.approval = task[r].what]
Row(r) == grant[task[r].id]

(* authorize_decision: one transaction deletes the app's earlier grant and *)
(* codes that ran out unused, and inserts the new one.                     *)
Replaced(c) == {i \in Approval : \/ grant[i].client = c
                                 \/ grant[i].code = "expired" /\ grant[i].pair = 0}
Allow(r, c) ==
  LET kept == {i \in Approval : grant[i] # NoGrant} \ Replaced(c)
      gone == {grant[i].approval : i \in Replaced(c)} \ {0}
      id == Max({0} \cup kept) + 1
      approval == Max({0} \cup withdrawn \cup {grant[i].approval : i \in Approval}) + 1
  IN /\ Goes(r, "allow") /\ approval <= MaxApprovals
     /\ grant' = [i \in Approval |->
                    IF i = id THEN [NoGrant EXCEPT !.client = c, !.approval = approval, !.code = "live"]
                    ELSE IF i \in kept THEN grant[i] ELSE NoGrant]
     /\ withdrawn' = withdrawn \cup gone /\ Ends(r)
     /\ UNCHANGED origin /\ SessionsUnchanged

CodeExpires(i) ==
  /\ grant[i].code = "live" /\ grant' = [grant EXCEPT ![i].code = "expired"]
  /\ UNCHANGED <<origin, withdrawn, task, ops>> /\ SessionsUnchanged

Loads(r, op, i) ==
  /\ Starts(r) /\ grant[i] # NoGrant
  /\ Becomes(r, [Idle EXCEPT !.op = op, !.id = i, !.what = grant[i].approval])
  /\ SessionsUnchanged /\ GrantsUnchanged

(* exchange_code and refresh, both by way of issue_tokens: an UPDATE of    *)
(* the row loaded, which fails when it has gone.                           *)
ExchangeLoads(r, i) == grant[i].code = "live" /\ Loads(r, "exchange", i)
RefreshLoads(r, i) == grant[i].pair # 0 /\ account.active /\ Loads(r, "refresh", i)
IssueTokens(r, op) ==
  /\ Goes(r, op) /\ Row(r) # NoGrant /\ Len(origin) < MaxPairs
  /\ origin' = Append(origin, task[r].what)
  /\ grant' = [grant EXCEPT ![task[r].id] =
                 [Row(r) EXCEPT !.code = IF op = "exchange" THEN "used" ELSE @,
                                !.pair = Len(origin) + 1,
                                !.crossed = @ \/ Row(r).approval # task[r].what]]
  /\ Ends(r) /\ UNCHANGED withdrawn /\ SessionsUnchanged
RowGone(r) ==
  /\ \E op \in {"exchange", "refresh", "revoke"} : Goes(r, op)
  /\ Row(r) = NoGrant /\ Ends(r) /\ SessionsUnchanged /\ GrantsUnchanged

(* revoke_token by the app, and disconnect by the user from the page that  *)
(* lists the row: a DELETE by id.                                          *)
RevokeLoads(r, i) == grant[i].pair # 0 /\ Loads(r, "revoke", i)
Revoke(r) ==
  /\ Goes(r, "revoke") /\ Row(r) # NoGrant
  /\ withdrawn' = withdrawn \cup {task[r].what, Row(r).approval}
  /\ grant' = [grant EXCEPT ![task[r].id] = NoGrant]
  /\ Ends(r) /\ UNCHANGED origin /\ SessionsUnchanged

(* user_for_access_token: what mcp() lets in.                              *)
Accepts(i, p) == account.active /\ grant[i].pair = p /\ p # 0

-----------------------------------------------------------------------------
AccountInit ==
  /\ account = [active |-> TRUE, sv |-> 0, epoch |-> 0] /\ jar = {}
  /\ grant = [i \in Approval |-> NoGrant] /\ origin = <<>> /\ withdrawn = {} /\ overlap = FALSE
  /\ task = [r \in Request |-> Idle] /\ ops = 0

AccountStep ==
  \/ ToggleUserActive
  \/ \E i \in Approval : CodeExpires(i)
  \/ \E r \in Request :
       \/ \E op \in {"page", "signoutall", "password", "rename", "allow"} : Opens(r, op)
       \/ SignInLoads(r) \/ SignsIn(r) \/ Renews(r) \/ SignOutEverywhere(r) \/ ChangePassword(r)
       \/ Rename(r) \/ ProfileAnswers(r) \/ RowGone(r) \/ Revoke(r)
       \/ \E c \in 1..Clients : Allow(r, c)
       \/ \E op \in {"exchange", "refresh"} : IssueTokens(r, op)
       \/ \E i \in Approval : ExchangeLoads(r, i) \/ RefreshLoads(r, i) \/ RevokeLoads(r, i)

-----------------------------------------------------------------------------
(* A session that is let in comes from a sign-in, or a password change,    *)
(* made since the account was last signed out everywhere. (Except when     *)
(* another request that writes to the account was under way then.)         *)
SignedOut == overlap \/ \A s \in jar : s.sv = account.sv => s.born = account.epoch

(* A token that is let in was issued for the approval its connection       *)
(* records, and that approval has not been withdrawn or replaced, whatever *)
(* exchanges and refreshes were under way. (Except where a request wrote   *)
(* to a later row with the id it had read.)                                *)
StaysWithdrawn ==
  \A i \in Approval, p \in 1..MaxPairs :
    Accepts(i, p) /\ ~grant[i].crossed =>
      origin[p] = grant[i].approval /\ origin[p] \notin withdrawn
=============================================================================

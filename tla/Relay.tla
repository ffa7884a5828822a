------------------------------- MODULE Relay -------------------------------
(***************************************************************************)
(* The REST API: API keys (app/routers/api_keys.py, api.py) and the        *)
(* operations submitted with them to the WhatsApp worker                   *)
(* (services/native_api.py), composed with the account they belong to      *)
(* (Accounts.tla). The caller chooses an idempotency key and may send it   *)
(* again at any time, in parallel too; the answer of the worker may be     *)
(* lost, and a request that timed out may still arrive.                    *)
(***************************************************************************)
EXTENDS Accounts, Delivery

CONSTANTS MaxKeys,        \* bound: API keys ever made
          Callers,        \* number of idempotency keys callers choose
          Payloads,       \* number of message bodies
          MaxOperations   \* bound: operations

ASSUME RelayAssumption ==
  MaxKeys \in Nat /\ Callers \in Nat /\ Payloads \in Nat /\ MaxOperations \in Nat

VARIABLES
  key,        \* the API keys' rows by id: hash (0: "pending"), is_active
  made,       \* secrets made
  operation,  \* relay_operations, oldest first
  worker      \* what the worker has of each operation

relayVars == <<key, made, operation, worker>>
vars == <<accountVars, task, ops, relayVars>>

KeyId == 1..MaxKeys
NoKey == [hash |-> 0, active |-> FALSE, live |-> FALSE]
Final == {"sent", "failed"}
Operation == [secret : KeyId, caller : 1..Callers, payload : 1..Payloads, accepted : BOOLEAN,
              calls : Nat, status : {"submitting", "queued"} \cup (Status \ {"pending"})]

TypeOK ==
  /\ AccountTypeOK
  /\ key \in [KeyId -> [hash : 0..MaxKeys, active : BOOLEAN, live : BOOLEAN]] /\ made \in 0..MaxKeys
  /\ operation \in Seq(Operation) /\ Len(operation) <= MaxOperations
  /\ worker \in [1..MaxOperations -> Status \cup {"none", "flying"}]

-----------------------------------------------------------------------------
(* create_api_key commits a row whose hash is not known yet, then the      *)
(* secret with the row's id in it. The id may be one used before.          *)
InsertKey(r) ==
  LET id == Max({0} \cup {i \in KeyId : key[i].live}) + 1
  IN /\ Goes(r, "newkey") /\ id \in KeyId
     /\ key' = [key EXCEPT ![id] = [hash |-> 0, active |-> TRUE, live |-> TRUE]]
     /\ Becomes(r, [Idle EXCEPT !.op = "hash", !.id = id])
     /\ UNCHANGED <<made, operation, worker>>
HashKey(r) ==
  /\ Goes(r, "hash") /\ Ends(r) /\ made < MaxKeys
  /\ IF key[task[r].id].live
     THEN key' = [key EXCEPT ![task[r].id].hash = made + 1] /\ made' = made + 1
     ELSE UNCHANGED <<key, made>>
  /\ UNCHANGED <<operation, worker>>

SomeSession == \E s \in jar : Valid(s)
ToggleKey(r, i) ==
  /\ Starts(r) /\ SomeSession /\ key[i].live /\ key' = [key EXCEPT ![i].active = ~@]
  /\ UNCHANGED <<made, operation, worker, task>>
DeleteKey(r, i) ==
  /\ Starts(r) /\ SomeSession /\ key[i].live /\ key' = [key EXCEPT ![i] = NoKey]
  /\ UNCHANGED <<made, operation, worker, task>>

(* get_api_key_user                                                        *)
Authenticates(i) == account.active /\ key[i].live /\ key[i].active /\ key[i].hash # 0

-----------------------------------------------------------------------------
(* submit_native: look for the operation, insert it, and only then call    *)
(* the worker. (seen: payload, id: caller's key, what: credential.)        *)
Submit(r, i, k, p) ==
  /\ Starts(r) /\ Authenticates(i)
  /\ Becomes(r, [Idle EXCEPT !.op = "look", !.what = key[i].hash, !.id = k, !.seen = p])
  /\ UNCHANGED relayVars

Same(n, r) == operation[n].secret = task[r].what /\ operation[n].caller = task[r].id
Known(r) == \E n \in DOMAIN operation : Same(n, r)
Look(r) ==
  /\ Goes(r, "look") /\ UNCHANGED relayVars
  /\ IF Known(r) THEN Ends(r) ELSE Becomes(r, [task[r] EXCEPT !.op = "insert"])

(* The row is unique, so an insertion that comes second is a replay too.   *)
UniqueAnyway(r) == TRUE
Unique(r) == ~Known(r)
Insert(r) ==
  /\ Goes(r, "insert") /\ UNCHANGED <<key, made, worker>>
  /\ IF ~Unique(r) THEN Ends(r) /\ UNCHANGED operation
     ELSE /\ Len(operation) < MaxOperations
          /\ operation' = Append(operation, [secret |-> task[r].what, caller |-> task[r].id,
                payload |-> task[r].seen, accepted |-> FALSE, calls |-> 0, status |-> "submitting"])
          /\ Becomes(r, [Idle EXCEPT !.op = "call", !.id = Len(operation) + 1])

(* The call: accepted or refused by the worker, or nothing is heard of it  *)
(* and it may have arrived, or may still.                                  *)
Call(r, outcome, arrives) ==
  LET n == task[r].id
  IN /\ Goes(r, "call")
     /\ outcome = "accepted" => arrives = "pending"
     /\ outcome = "refused" => arrives = "none"
     /\ operation' = [operation EXCEPT ![n].calls = @ + 1]
     /\ worker' = [worker EXCEPT ![n] = arrives]
     /\ Becomes(r, [Idle EXCEPT !.op = "settle", !.id = n, !.saw = outcome])
     /\ UNCHANGED <<key, made>>

OutcomeGuessed(saw) == IF saw = "accepted" THEN "queued" ELSE "failed"
Outcome(saw) == CASE saw = "accepted" -> "queued" [] saw = "refused" -> "failed" [] OTHER -> "unknown"
Settle(r) ==
  /\ Goes(r, "settle") /\ Ends(r) /\ UNCHANGED <<key, made, worker>>
  /\ operation' = [operation EXCEPT ![task[r].id].status = Outcome(task[r].saw),
                                    ![task[r].id].accepted = (task[r].saw = "accepted")]

(* api_operation asks the worker, and writes what it said unless the       *)
(* operation has been settled in between.                                  *)
Poll(r, i, n) ==
  /\ Starts(r) /\ Authenticates(i) /\ operation[n].secret = key[i].hash
  /\ operation[n].accepted /\ operation[n].status \notin Final
  /\ Becomes(r, [Idle EXCEPT !.op = "polled", !.id = n, !.saw = worker[n]])
  /\ UNCHANGED relayVars

ToldAsIs(saw) == saw
Told(saw) == IF saw = "pending" THEN "queued" ELSE saw
OpenAlways(n) == TRUE
Open(n) == operation[n].status \notin Final
PollCommits(r) ==
  LET n == task[r].id
  IN /\ Goes(r, "polled") /\ Ends(r) /\ UNCHANGED <<key, made, worker>>
     /\ IF ~Open(n) THEN UNCHANGED operation
        ELSE operation' = [operation EXCEPT ![n].status =
                             Told(task[r].saw)]

(* The worker: a call in flight arrives, or an operation moves on.         *)
MovesTo(s) == IF s = "flying" THEN {"pending", "none"} ELSE Onward(s)
WorkerMoves(n) ==
  /\ \E s \in MovesTo(worker[n]) : worker' = [worker EXCEPT ![n] = s]
  /\ UNCHANGED <<key, made, operation, task, ops>>

(* The application restarts: its requests are cut off.                     *)
Restart ==
  /\ ops < MaxOps /\ ops' = ops + 1 /\ task' = [r \in Request |-> Idle]
  /\ UNCHANGED relayVars

-----------------------------------------------------------------------------
Init ==
  /\ AccountInit /\ key = [i \in KeyId |-> NoKey] /\ made = 0 /\ operation = <<>>
  /\ worker = [n \in 1..MaxOperations |-> "none"]

RelayStep ==
  \/ Restart
  \/ \E n \in 1..MaxOperations : WorkerMoves(n)
  \/ \E r \in Request :
       \/ InsertKey(r) \/ HashKey(r) \/ Look(r) \/ Insert(r) \/ Settle(r) \/ PollCommits(r)
       \/ \E i \in KeyId : ToggleKey(r, i) \/ DeleteKey(r, i)
       \/ \E i \in KeyId, k \in 1..Callers, p \in 1..Payloads : Submit(r, i, k, p)
       \/ \E i \in KeyId, n \in DOMAIN operation : Poll(r, i, n)
       \/ \E outcome \in {"accepted", "refused", "lost"}, arrives \in {"none", "flying", "pending"} :
            Call(r, outcome, arrives)

Next ==
  \/ AccountStep /\ UNCHANGED relayVars
  \/ (\E r \in Request : Opens(r, "newkey")) /\ UNCHANGED relayVars
  \/ RelayStep /\ UNCHANGED accountVars

Spec == Init /\ [][Next]_vars

-----------------------------------------------------------------------------
(* A caller's key is submitted to the worker at most once for each         *)
(* credential, however often and from wherever it is sent again, across    *)
(* restarts and deleted credentials whose row id is used again.            *)
OneSubmission ==
  /\ \A n \in DOMAIN operation : operation[n].calls <= 1
  /\ \A m, n \in DOMAIN operation :
       m # n => <<operation[m].secret, operation[m].caller>> # <<operation[n].secret, operation[n].caller>>

(* What the API reports is so: a submission reported as failed was never   *)
(* accepted (one that is lost may still arrive), and one reported as       *)
(* queued or sent was.                                                     *)
Truthful ==
  \A n \in DOMAIN operation :
    /\ operation[n].accepted => worker[n] \in Status
    /\ operation[n].status = "failed" /\ ~operation[n].accepted => worker[n] = "none"
    /\ operation[n].status \in {"queued", "processing", "sent"} => operation[n].accepted
    /\ operation[n].status = "sent" => worker[n] = "sent"

(* An operation reported as sent or failed stays so: a poll that was       *)
(* overtaken by another does not take it back.                             *)
SettledStays ==
  [][\A n \in DOMAIN operation :
       operation[n].status \in Final => operation'[n].status = operation[n].status]_vars
=============================================================================

------------------------------ MODULE Attempts ------------------------------
(***************************************************************************)
(* What the rows of delivery attempts promise, with no coroutine, session  *)
(* or poll in sight:                                                       *)
(*   - an attempt is begun once and never submitted again;                 *)
(*   - a message id, once there, stays, and the outcome of an attempt that *)
(*     has one is final as soon as it is sent or failed;                   *)
(*   - an attempt that is uncertain stays so unless its id can be asked.   *)
(* An answer without an id is not final: two minutes after the submission  *)
(* a poll that had loaded the row before it may still write "unknown".     *)
(* NativeJobs.tla and Series.tla implement this module (AttemptsSpec).     *)
(***************************************************************************)

CONSTANT Name   \* attempts
VARIABLE row    \* their status, and is relay_message_id set?

Row == [status : {"none", "submitting", "queued", "sent", "failed", "unknown"}, id : BOOLEAN]
Unwritten == [status |-> "none", id |-> FALSE]
Fresh == [status |-> "submitting", id |-> FALSE]

Begun(old, new) == old = Unwritten /\ new = Fresh
Answered(old, new) ==
  /\ old = Fresh
  /\ \/ new = [status |-> "queued", id |-> TRUE]
     \/ new.status \in {"sent", "failed", "unknown"} /\ ~new.id
Resolved(old, new) ==
  /\ old.id /\ old.status \in {"queued", "unknown"}
  /\ new.id /\ new.status \in {"sent", "failed", "unknown"}
GivenUp(old, new) ==
  /\ ~old.id /\ old.status # "none"
  /\ ~new.id /\ new.status = "unknown"

Init == row = [a \in Name |-> Unwritten]
Next ==
  /\ row' \in [Name -> Row]
  /\ \A a \in Name :
       \/ row'[a] = row[a]
       \/ Begun(row[a], row'[a]) \/ Answered(row[a], row'[a])
       \/ Resolved(row[a], row'[a]) \/ GivenUp(row[a], row'[a])
Spec == Init /\ [][Next]_row
=============================================================================

------------------------------- MODULE Outbox -------------------------------
(***************************************************************************)
(* What the WhatsApp worker promises about the messages it has accepted,   *)
(* with no connection, no queue runner and no process in sight:            *)
(*   - an idempotency key names one operation, for good;                   *)
(*   - operations leave the outbox in the order they were accepted, each   *)
(*     at most once;                                                       *)
(*   - a failure reported for an operation that has not left the outbox is *)
(*     final, and so is every "sent".                                      *)
(* Worker.tla implements this module (Worker!OutboxSpec).                  *)
(***************************************************************************)
EXTENDS Naturals, Sequences, Delivery

CONSTANTS Key,        \* idempotency keys callers choose
          Payload     \* message bodies

VARIABLES journal,    \* accepted operations, oldest first
          wire        \* positions in journal handed to WhatsApp, oldest first

vars == <<journal, wire>>

Operation == [key : Key, payload : Payload, status : Status]

Left(i) == \E n \in DOMAIN wire : wire[n] = i

Init == journal = <<>> /\ wire = <<>>

Accept(k, p) ==
  /\ \A i \in DOMAIN journal : journal[i].key # k
  /\ journal' = Append(journal, [key |-> k, payload |-> p, status |-> "pending"])
  /\ UNCHANGED wire

(* The status an operation may take next. Only an operation that has left  *)
(* the outbox can be acknowledged or rejected after it was settled.        *)
MayBecome(i, new) ==
  LET old == journal[i].status
  IN \/ new = old
     \/ old = "pending" /\ new = "failed"
     \/ /\ old = "pending" /\ new = "processing"
        /\ \A j \in 1..(i - 1) : journal[j].status # "pending"
        /\ \A n \in DOMAIN wire : wire[n] < i
     \/ old = "processing" /\ new = "unknown"
     \/ Left(i) /\ old \notin {"pending", "sent"} /\ new \in {"sent", "failed", "unknown"}

Progress ==
  /\ Len(journal') = Len(journal)
  /\ \A i \in DOMAIN journal :
       /\ journal'[i].key = journal[i].key
       /\ journal'[i].payload = journal[i].payload
       /\ MayBecome(i, journal'[i].status)
  /\ UNCHANGED wire

Leave(i) ==
  /\ journal[i].status \in {"processing", "unknown"}
  /\ \A n \in DOMAIN wire : wire[n] < i
  /\ wire' = Append(wire, i)
  /\ UNCHANGED journal

Next ==
  \/ \E k \in Key, p \in Payload : Accept(k, p)
  \/ Progress
  \/ \E i \in DOMAIN journal : Leave(i)

Spec == Init /\ [][Next]_vars
=============================================================================

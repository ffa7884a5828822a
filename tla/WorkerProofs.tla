---------------------------- MODULE WorkerProofs ----------------------------
(***************************************************************************)
(* Theorems about Worker.tla for every set of keys and payloads and every  *)
(* bound, with their proofs.                                               *)
(***************************************************************************)
EXTENDS Worker, SequenceTheorems, TLAPS

-----------------------------------------------------------------------------
(* Lemmas about the journal *)

(* Changing one status keeps the journal's type, length, keys and payloads. *)
LEMMA WithStatusFacts ==
  ASSUME NEW j \in Seq(Operation), NEW i \in DOMAIN j, NEW new \in Status
  PROVE  /\ WithStatus(j, i, new) \in Seq(Operation)
         /\ Len(WithStatus(j, i, new)) = Len(j)
         /\ DOMAIN WithStatus(j, i, new) = DOMAIN j
         /\ WithStatus(j, i, new)[i].status = new
         /\ WithStatus(j, i, new)[i].key = j[i].key
         /\ WithStatus(j, i, new)[i].payload = j[i].payload
         /\ \A n \in DOMAIN j : n # i => WithStatus(j, i, new)[n] = j[n]
<1>0. j[i] \in Operation
  OBVIOUS
<1>1. [j[i] EXCEPT !.status = new] \in Operation
  BY <1>0 DEF Operation
<1>2. WithStatus(j, i, new) = [j EXCEPT ![i] = [j[i] EXCEPT !.status = new]]
  BY DEF WithStatus
<1>3. /\ [j[i] EXCEPT !.status = new].status = new
      /\ [j[i] EXCEPT !.status = new].key = j[i].key
      /\ [j[i] EXCEPT !.status = new].payload = j[i].payload
  BY <1>0 DEF Operation
<1>4. /\ WithStatus(j, i, new) \in Seq(Operation)
      /\ Len(WithStatus(j, i, new)) = Len(j)
      /\ DOMAIN WithStatus(j, i, new) = DOMAIN j
      /\ WithStatus(j, i, new)[i] = [j[i] EXCEPT !.status = new]
      /\ \A n \in DOMAIN j : n # i => WithStatus(j, i, new)[n] = j[n]
  BY <1>1, <1>2, ExceptSeq
<1>. QED BY <1>3, <1>4

(* A map that only changes statuses keeps the journal's type and length. *)
LEMMA InterruptedFacts ==
  ASSUME NEW j \in Seq(Operation)
  PROVE  /\ Interrupted(j) \in Seq(Operation)
         /\ DOMAIN Interrupted(j) = DOMAIN j
         /\ Len(Interrupted(j)) = Len(j)
         /\ \A n \in DOMAIN j :
              /\ Interrupted(j)[n].key = j[n].key
              /\ Interrupted(j)[n].payload = j[n].payload
              /\ Interrupted(j)[n].status =
                   IF j[n].status = "processing" THEN "unknown" ELSE j[n].status
<1>1. \A n \in DOMAIN j : j[n] \in Operation
  OBVIOUS
<1>2. \A n \in DOMAIN j : Interrupted(j)[n] \in Operation
  BY <1>1 DEF Interrupted, Operation, Status
<1>3. DOMAIN Interrupted(j) = 1..Len(j) /\ Len(j) \in Nat
  BY DEF Interrupted
<1>4. Interrupted(j) \in [1..Len(j) -> Operation]
  BY <1>2, <1>3 DEF Interrupted
<1>. QED BY <1>1, <1>3, <1>4 DEF Interrupted, Operation

LEMMA LoggedOutFacts ==
  ASSUME NEW j \in Seq(Operation)
  PROVE  /\ LoggedOut(j) \in Seq(Operation)
         /\ DOMAIN LoggedOut(j) = DOMAIN j
         /\ Len(LoggedOut(j)) = Len(j)
         /\ \A n \in DOMAIN j :
              /\ LoggedOut(j)[n].key = j[n].key
              /\ LoggedOut(j)[n].payload = j[n].payload
              /\ LoggedOut(j)[n].status =
                   IF j[n].status = "pending" THEN "failed" ELSE j[n].status
<1>1. \A n \in DOMAIN j : j[n] \in Operation
  OBVIOUS
<1>2. \A n \in DOMAIN j : LoggedOut(j)[n] \in Operation
  BY <1>1 DEF LoggedOut, Operation, Status
<1>3. DOMAIN LoggedOut(j) = 1..Len(j) /\ Len(j) \in Nat
  BY DEF LoggedOut
<1>4. LoggedOut(j) \in [1..Len(j) -> Operation]
  BY <1>2, <1>3 DEF LoggedOut
<1>. QED BY <1>1, <1>3, <1>4 DEF LoggedOut, Operation

(* Whatever the position, changing a status keeps the journal's type.      *)
LEMMA WithStatusType ==
  ASSUME NEW j \in Seq(Operation), NEW i, NEW new \in Status
  PROVE  WithStatus(j, i, new) \in Seq(Operation)
<1>1. CASE i \in DOMAIN j
  BY <1>1, WithStatusFacts
<1>2. CASE i \notin DOMAIN j
  <2>1. WithStatus(j, i, new) = [n \in DOMAIN j |-> j[n]]
    BY <1>2 DEF WithStatus
  <2>2. j = [n \in DOMAIN j |-> j[n]]
    BY LenProperties
  <2>. QED BY <2>1, <2>2
<1>. QED BY <1>1, <1>2

-----------------------------------------------------------------------------
(* Types *)

LEMMA IdleType == Idle \in DrainPoint
BY BoundsAssumption DEF Idle, DrainPoint, Generation

LEMMA DrainOnType ==
  ASSUME TypeOK, NEW j \in Seq(Operation), NEW i \in Nat, NEW limit \in Nat,
         NEW st, NEW sk \in Generation, DrainOn(j, i, limit, st, sk)
  PROVE  /\ drain' \in DrainPoint /\ immediate' \in BOOLEAN
<1>1. ASSUME NEW n \in (i + 1)..limit,
             drain' = [phase |-> "resolving", at |-> n, limit |-> limit, socket |-> sk]
      PROVE  drain' \in DrainPoint
  BY <1>1 DEF DrainPoint
<1>2. ASSUME drain' = Idle PROVE drain' \in DrainPoint
  BY <1>2, IdleType
<1>3. drain' \in DrainPoint
  BY <1>1, <1>2 DEF DrainOn, FinishDrain
<1>4. immediate' \in BOOLEAN
  BY DEF DrainOn, FinishDrain, TypeOK
<1>. QED BY <1>3, <1>4

LEMMA InitType == Init => TypeOK
<1>1. 0 \in Generation /\ 0 \in 0..MaxCrashes
  BY BoundsAssumption DEF Generation
<1>2. <<>> \in Seq(Operation) /\ <<>> \in Seq(Nat)
  OBVIOUS
<1>. QED BY <1>1, <1>2, IdleType DEF Init, TypeOK, State

LEMMA DrainType == TypeOK /\ Drain => TypeOK'
<1>. SUFFICES ASSUME TypeOK, Drain PROVE TypeOK'
  OBVIOUS
<1>0. 0 \in Generation /\ drain.at \in Nat /\ drain.limit \in Nat /\ socket \in Generation
  BY BoundsAssumption DEF Generation, TypeOK, DrainPoint
<1>1. CASE RunImmediate
  <2>1. Len(journal) \in Nat /\ \A n \in Pending(journal) : n \in Nat
    BY DEF TypeOK, Pending
  <2>2. drain' \in DrainPoint
    BY <1>0, <1>1, <2>1 DEF RunImmediate, TypeOK, DrainPoint
  <2>. QED BY <1>1, <2>2 DEF RunImmediate, TypeOK, mail, auth, conn, ghost
<1>2. CASE Resolved
  <2>1. WithStatus(journal, drain.at, "processing") \in Seq(Operation)
    BY WithStatusType DEF TypeOK, Status
  <2>2. [drain EXCEPT !.phase = "sending"] \in DrainPoint
    BY DEF TypeOK, DrainPoint
  <2>3. drain' \in DrainPoint /\ immediate' \in BOOLEAN
    BY <1>2, <2>2, IdleType DEF Resolved, FinishDrain, TypeOK
  <2>4. journal' \in Seq(Operation) /\ disk' \in Seq(Operation) /\ stored' \in BOOLEAN
    BY <1>2, <2>1 DEF Resolved, SaveJournal, TypeOK, mail
  <2>. QED BY <1>2, <2>3, <2>4 DEF Resolved, TypeOK, auth, conn, ghost
<1>3. CASE NotResolved
  <2>1. WithStatus(journal, drain.at, "failed") \in Seq(Operation)
    BY WithStatusType DEF TypeOK, Status
  <2>2. /\ drain' \in DrainPoint /\ immediate' \in BOOLEAN
    BY <1>0, <1>3, <2>1, DrainOnType DEF NotResolved
  <2>. QED BY <1>3, <2>1, <2>2 DEF NotResolved, SaveJournal, TypeOK, auth, conn, ghost
<1>4. CASE SendReturns
  <2>1. PICK j \in {journal, WithStatus(journal, drain.at, "sent")} :
          SaveJournal(j) /\ DrainOn(j, drain.at, drain.limit, state, socket)
    BY <1>4 DEF SendReturns
  <2>2. j \in Seq(Operation)
    BY <2>1, WithStatusType DEF TypeOK, Status
  <2>3. /\ drain' \in DrainPoint /\ immediate' \in BOOLEAN
    BY <1>0, <2>1, <2>2, DrainOnType
  <2>. QED BY <1>4, <2>1, <2>2, <2>3 DEF SendReturns, SaveJournal, TypeOK, auth, conn, ghost
<1>5. CASE SendThrows
  <2>1. PICK j \in {journal, WithStatus(journal, drain.at, "unknown")} :
          SaveJournal(j) /\ DrainOn(j, drain.at, drain.limit, state, socket)
    BY <1>5 DEF SendThrows
  <2>2. j \in Seq(Operation)
    BY <2>1, WithStatusType DEF TypeOK, Status
  <2>3. /\ drain' \in DrainPoint /\ immediate' \in BOOLEAN
    BY <1>0, <2>1, <2>2, DrainOnType
  <2>. QED BY <1>5, <2>1, <2>2, <2>3 DEF SendThrows, SaveJournal, TypeOK, auth, conn, ghost
<1>. QED BY <1>1, <1>2, <1>3, <1>4, <1>5 DEF Drain

LEMMA OpenType == TypeOK /\ Open => TypeOK'
<1>. SUFFICES ASSUME TypeOK, Open PROVE TypeOK'
  OBVIOUS
<1>1. generation + 1 \in Generation
  BY BoundsAssumption DEF TypeOK, Open, Generation
<1>. QED BY <1>1 DEF Open, TypeOK, State, mail, auth, loop, ghost

LEMMA DisconnectType ==
  ASSUME TypeOK, NEW gone \in BOOLEAN, Disconnect(gone)
  PROVE  /\ journal' \in Seq(Operation) /\ disk' \in Seq(Operation)
         /\ stored' \in BOOLEAN /\ present' \in BOOLEAN /\ paired' \in BOOLEAN
         /\ qr' \in BOOLEAN /\ state' \in State /\ socket' \in Generation
         /\ live' \subseteq Generation /\ closing' \subseteq Generation
<1>1. LoggedOut(journal) \in Seq(Operation) /\ <<>> \in Seq(Operation) /\ 0 \in Generation
  BY LoggedOutFacts, BoundsAssumption DEF TypeOK, Generation
<1>. QED BY <1>1 DEF Disconnect, TypeOK, State

LEMMA RequestType == TypeOK /\ Request => TypeOK'
<1>. SUFFICES ASSUME TypeOK, Request PROVE TypeOK'
  OBVIOUS
<1>1. ASSUME NEW k \in Key, NEW p \in Payload, Enqueue(k, p) PROVE TypeOK'
  <2>1. [key |-> k, payload |-> p, status |-> "pending"] \in Operation
    BY DEF Operation, Status
  <2>2. Append(journal, [key |-> k, payload |-> p, status |-> "pending"]) \in Seq(Operation)
    BY <2>1, AppendProperties DEF TypeOK
  <2>. QED BY <1>1, <2>2 DEF Enqueue, SaveJournal, TypeOK, auth, conn
<1>2. ASSUME NEW i \in DOMAIN journal, MessageOverdue(i) PROVE TypeOK'
  <2>1. WithStatus(journal, i, "unknown") \in Seq(Operation)
    BY WithStatusType DEF TypeOK, Status
  <2>. QED BY <1>2, <2>1 DEF MessageOverdue, SaveJournal, TypeOK, auth, conn, loop, ghost
<1>3. CASE Connect
  BY <1>3, OpenType DEF Connect
<1>4. ASSUME NEW why \in {"logout", "remove"}, Leave(why) PROVE TypeOK'
  <2>1. generation + 1 \in Generation
    BY <1>4, BoundsAssumption DEF TypeOK, Leave, Generation
  <2>2. CASE socket # 0 /\ paired
    BY <1>4, <2>1, <2>2 DEF Leave, TypeOK, mail, auth, loop, ghost
  <2>3. CASE ~(socket # 0 /\ paired)
    <3>1. Disconnect(why = "remove") /\ UNCHANGED leaving
      BY <1>4, <2>3 DEF Leave
    <3>2. (why = "remove") \in BOOLEAN
      OBVIOUS
    <3>. QED BY <1>4, <2>1, <3>1, <3>2, DisconnectType DEF Leave, TypeOK, loop, ghost
  <2>. QED BY <2>2, <2>3
<1>. QED BY <1>1, <1>2, <1>3, <1>4 DEF Request

LEMMA SocketEventType == TypeOK /\ SocketEvent => TypeOK'
<1>. SUFFICES ASSUME TypeOK, SocketEvent PROVE TypeOK'
  OBVIOUS
<1>1. ASSUME NEW i \in DOMAIN journal, NEW ok \in BOOLEAN, Acknowledge(i, ok) PROVE TypeOK'
  <2>1. WithStatus(journal, i, IF ok THEN "sent" ELSE "failed") \in Seq(Operation)
    BY WithStatusType DEF TypeOK, Status
  <2>. QED BY <1>1, <2>1 DEF Acknowledge, SaveJournal, TypeOK, auth, conn, loop, ghost
<1>2. ASSUME NEW g \in Generation, QrOffered(g) PROVE TypeOK'
  BY <1>2 DEF QrOffered, TypeOK, mail, auth, loop, ghost
<1>3. CASE Paired
  BY <1>3 DEF Paired, TypeOK, mail, conn, loop, ghost
<1>4. CASE Opened
  <2>1. drain' \in DrainPoint /\ immediate' \in BOOLEAN
    <3>1. CASE drain.phase = "idle"
      <4>1. Len(journal) \in Nat /\ 0 \in Nat /\ socket \in Generation
        BY DEF TypeOK
      <4>. QED BY <1>4, <3>1, <4>1, DrainOnType DEF Opened, TypeOK
    <3>2. CASE drain.phase # "idle"
      BY <1>4, <3>2 DEF Opened, TypeOK, loop
    <3>. QED BY <3>1, <3>2
  <2>. QED BY <1>4, <2>1 DEF Opened, TypeOK, State, mail, auth, ghost
<1>5. ASSUME NEW g \in Generation, NEW reason \in CloseReason, Closed(g, reason)
      PROVE  TypeOK'
  <2>1. 0 \in Generation
    BY BoundsAssumption DEF Generation
  <2>2. /\ stopped' \in BOOLEAN /\ timer' \in BOOLEAN /\ paired' \in BOOLEAN /\ qr' \in BOOLEAN
        /\ state' \in State /\ socket' \in Generation
    BY <1>5, <2>1 DEF Closed, TypeOK, State
  <2>. QED BY <1>5, <2>2 DEF Closed, TypeOK, mail, loop, ghost
<1>. QED BY <1>1, <1>2, <1>3, <1>4, <1>5 DEF SocketEvent

LEMMA RestartType == TypeOK /\ Restart => TypeOK'
<1>. SUFFICES ASSUME TypeOK, Restart PROVE TypeOK'
  OBVIOUS
<1>1. Interrupted(disk) \in Seq(Operation)
  BY InterruptedFacts DEF TypeOK
<1>2. 0 \in Generation /\ 1 \in Generation /\ crashes + 1 \in 0..MaxCrashes
  BY BoundsAssumption DEF Restart, TypeOK, Generation
<1>. QED BY <1>1, <1>2, IdleType DEF Restart, TypeOK, State, auth

LEMMA NextType == TypeOK /\ [Next]_vars => TypeOK'
<1>. SUFFICES ASSUME TypeOK, [Next]_vars PROVE TypeOK'
  OBVIOUS
<1>1. CASE Drain \/ Request \/ SocketEvent \/ Restart
  BY <1>1, DrainType, RequestType, SocketEventType, RestartType
<1>2. CASE Transmit
  <2>1. Append(wire, drain.at) \in Seq(Nat)
    BY AppendProperties DEF TypeOK, DrainPoint
  <2>2. [drain EXCEPT !.phase = "transmitted"] \in DrainPoint
    BY DEF TypeOK, DrainPoint
  <2>. QED BY <1>2, <2>1, <2>2 DEF Transmit, TypeOK, mail, auth, conn
<1>3. CASE TimerFires
  <2>1. CASE stopped \/ Attached
    BY <1>3, <2>1 DEF TimerFires, TypeOK, mail, auth, loop, ghost
  <2>2. CASE ~(stopped \/ Attached)
    BY <1>3, <2>2, OpenType DEF TimerFires
  <2>. QED BY <2>1, <2>2
<1>4. CASE QrExpires
  BY <1>4 DEF QrExpires, TypeOK, State, mail, auth, loop, ghost
<1>5. ASSUME NEW g \in Generation, QrShown(g) \/ QrFails(g) PROVE TypeOK'
  <2>1. state' \in State /\ qr' \in BOOLEAN /\ rendering' \subseteq Generation
    BY <1>5 DEF QrShown, QrFails, TypeOK, State
  <2>. QED BY <1>5, <2>1 DEF QrShown, QrFails, TypeOK, mail, auth, loop, ghost
<1>6. ASSUME NEW ok \in BOOLEAN, Left(ok) PROVE TypeOK'
  <2>1. (leaving = "remove" /\ ok) \in BOOLEAN
    OBVIOUS
  <2>. QED BY <1>6, <2>1, DisconnectType DEF Left, TypeOK, loop, ghost
<1>7. CASE UNCHANGED vars
  BY <1>7 DEF TypeOK, vars, mail, auth, conn, loop, ghost
<1>. QED BY <1>1, <1>2, <1>3, <1>4, <1>5, <1>6, <1>7 DEF Next

(* Type correctness of the worker's session, for every instance.           *)
THEOREM TypeCorrect == Spec => []TypeOK
BY InitType, NextType, PTL DEF Spec

-----------------------------------------------------------------------------
(* Sockets and the reconnect timer *)

(* Inductive: every open socket is s.socket, none is newer than the        *)
(* generation, an event can only come from a current socket while s.socket *)
(* still names it, and the timer runs only when that socket is gone.       *)
ConnectionInv ==
  /\ OneLiveSocket
  /\ ConnectedHasSocket
  /\ StoppedIsDown
  /\ socket <= generation
  /\ live \cup closing \subseteq 1..generation
  /\ generation \in live \cup closing => socket \in {0, generation}
  /\ timer => ~stopped /\ generation \notin live \cup closing

LEMMA ConnectionFrame ==
  TypeOK /\ ConnectionInv /\ UNCHANGED conn => ConnectionInv'
BY DEF ConnectionInv, conn, OneLiveSocket, ConnectedHasSocket, StoppedIsDown

LEMMA OpenConnection == TypeOK /\ ConnectionInv /\ Open => ConnectionInv'
<1>. SUFFICES ASSUME TypeOK, ConnectionInv, Open PROVE ConnectionInv'
  OBVIOUS
<1>1. live \subseteq {socket} /\ generation \in Nat /\ socket \in Nat
  BY DEF ConnectionInv, OneLiveSocket, TypeOK, Generation
<1>2. live' = {generation'} /\ socket' = generation' /\ generation' \in Nat
  <2>1. live \ {socket} = {}
    BY <1>1
  <2>2. /\ generation' = generation + 1 /\ socket' = generation + 1
        /\ live' = (live \ {socket}) \cup {generation + 1}
    BY DEF Open
  <2>3. live' = {generation + 1}
    BY <2>1, <2>2
  <2>4. generation + 1 \in Nat
    BY <1>1
  <2>. QED BY <2>2, <2>3, <2>4
<1>3. closing' \subseteq 1..generation
  BY <1>1 DEF Open, ConnectionInv
<1>4. generation' = generation + 1 /\ generation' # 0 /\ timer' = FALSE /\ stopped' = FALSE
  BY <1>1 DEF Open
<1>5. state' # "connected"
  BY DEF Open
<1>. QED BY <1>1, <1>2, <1>3, <1>4, <1>5
     DEF ConnectionInv, OneLiveSocket, ConnectedHasSocket, StoppedIsDown

LEMMA DisconnectConnection ==
  ASSUME TypeOK, ConnectionInv, NEW gone \in BOOLEAN, Disconnect(gone),
         generation' \in {generation, generation + 1},
         timer' => timer /\ ~stopped' /\ generation' = generation
  PROVE  ConnectionInv'
<1>1. live \subseteq {socket} /\ generation \in Nat /\ socket \in Nat
  BY DEF ConnectionInv, OneLiveSocket, TypeOK, Generation
<1>2. live' = {} /\ socket' = 0 /\ state' = "disconnected"
  BY <1>1 DEF Disconnect
<1>3. closing' \subseteq live \cup closing
  BY DEF Disconnect
<1>4. closing' \subseteq 1..generation'
  BY <1>1, <1>3 DEF ConnectionInv
<1>5. timer' => generation' \notin live' \cup closing'
  BY <1>2, <1>3 DEF ConnectionInv
<1>. QED BY <1>1, <1>2, <1>4, <1>5
     DEF ConnectionInv, OneLiveSocket, ConnectedHasSocket, StoppedIsDown

LEMMA ClosedConnection ==
  ASSUME TypeOK, ConnectionInv, NEW g \in Generation, NEW reason \in CloseReason,
         Closed(g, reason)
  PROVE  ConnectionInv'
<1>1. live \subseteq {socket} /\ generation \in Nat /\ socket \in Nat
  BY DEF ConnectionInv, OneLiveSocket, TypeOK, Generation
<1>2. /\ live' = live \ {g} /\ closing' = closing \ {g}
      /\ UNCHANGED <<generation, leaving>>
  BY DEF Closed
<1>3. CASE g # generation
  <2>1. UNCHANGED <<socket, state, stopped, timer>>
    BY <1>3 DEF Closed
  <2>. QED BY <1>1, <1>2, <2>1
       DEF ConnectionInv, OneLiveSocket, ConnectedHasSocket, StoppedIsDown
<1>4. CASE g = generation
  <2>1. socket' = 0 /\ state' # "connected"
    BY <1>4 DEF Closed
  <2>2. socket \in {0, generation}
    BY <1>4 DEF ConnectionInv, Closed
  <2>3. live' = {}
    BY <1>1, <1>2, <1>4, <2>2 DEF ConnectionInv, OneLiveSocket
  <2>4. generation \notin live' \cup closing'
    BY <1>2, <1>4
  <2>5. ~timer
    BY <1>4 DEF ConnectionInv, Closed
  <2>6. timer' => ~stopped'
    BY <1>4, <2>5 DEF Closed
  <2>. QED BY <1>1, <1>2, <2>1, <2>3, <2>4, <2>5, <2>6
       DEF ConnectionInv, OneLiveSocket, ConnectedHasSocket, StoppedIsDown
<1>. QED BY <1>3, <1>4

LEMMA NextConnection == TypeOK /\ ConnectionInv /\ [Next]_vars => ConnectionInv'
<1>. SUFFICES ASSUME TypeOK, ConnectionInv, [Next]_vars PROVE ConnectionInv'
  OBVIOUS
<1>1. CASE Drain
  BY <1>1, ConnectionFrame
  DEF Drain, RunImmediate, Resolved, NotResolved, SendReturns, SendThrows
<1>2. CASE Request
  <2>1. ASSUME NEW k \in Key, NEW p \in Payload, Enqueue(k, p) PROVE ConnectionInv'
    BY <2>1, ConnectionFrame DEF Enqueue
  <2>2. ASSUME NEW i \in DOMAIN journal, MessageOverdue(i) PROVE ConnectionInv'
    BY <2>2, ConnectionFrame DEF MessageOverdue
  <2>3. CASE Connect
    BY <2>3, OpenConnection DEF Connect
  <2>4. ASSUME NEW why \in {"logout", "remove"}, Leave(why) PROVE ConnectionInv'
    <3>1. generation' = generation + 1 /\ timer' = FALSE /\ stopped' = TRUE
      BY <2>4 DEF Leave
    <3>2. CASE socket # 0 /\ paired
      <4>1. leaving' # "no" /\ UNCHANGED <<state, socket, live, closing>>
        BY <2>4, <3>2 DEF Leave
      <4>2. generation \in Nat /\ socket \in Nat
        BY DEF TypeOK, Generation
      <4>3. generation + 1 \notin live \cup closing
        BY <4>2 DEF ConnectionInv
      <4>4. live \cup closing \subseteq 1..(generation + 1)
        BY <4>2 DEF ConnectionInv
      <4>5. OneLiveSocket' /\ ConnectedHasSocket' /\ StoppedIsDown'
        BY <3>1, <4>1 DEF ConnectionInv, OneLiveSocket, ConnectedHasSocket, StoppedIsDown
      <4>. QED BY <3>1, <4>1, <4>2, <4>3, <4>4, <4>5 DEF ConnectionInv
    <3>3. CASE ~(socket # 0 /\ paired)
      <4>1. Disconnect(why = "remove") /\ (why = "remove") \in BOOLEAN
        BY <2>4, <3>3 DEF Leave
      <4>. QED BY <3>1, <4>1, DisconnectConnection
    <3>. QED BY <3>2, <3>3
  <2>. QED BY <1>2, <2>1, <2>2, <2>3, <2>4 DEF Request
<1>3. CASE SocketEvent
  <2>1. ASSUME NEW i \in DOMAIN journal, NEW ok \in BOOLEAN, Acknowledge(i, ok)
        PROVE  ConnectionInv'
    BY <2>1, ConnectionFrame DEF Acknowledge
  <2>2. ASSUME NEW g \in Generation, QrOffered(g) PROVE ConnectionInv'
    BY <2>2 DEF QrOffered, ConnectionInv, OneLiveSocket, ConnectedHasSocket, StoppedIsDown
  <2>3. CASE Paired
    BY <2>3, ConnectionFrame DEF Paired
  <2>4. CASE Opened
    BY <2>4 DEF Opened, ConnectionInv, OneLiveSocket, ConnectedHasSocket, StoppedIsDown
  <2>5. ASSUME NEW g \in Generation, NEW reason \in CloseReason, Closed(g, reason)
        PROVE  ConnectionInv'
    BY <2>5, ClosedConnection
  <2>. QED BY <1>3, <2>1, <2>2, <2>3, <2>4, <2>5 DEF SocketEvent
<1>4. CASE Transmit
  BY <1>4, ConnectionFrame DEF Transmit
<1>5. CASE TimerFires
  <2>1. CASE stopped \/ Attached
    BY <1>5, <2>1
    DEF TimerFires, ConnectionInv, OneLiveSocket, ConnectedHasSocket, StoppedIsDown
  <2>2. CASE ~(stopped \/ Attached)
    BY <1>5, <2>2, OpenConnection DEF TimerFires
  <2>. QED BY <2>1, <2>2
<1>6. CASE QrExpires
  BY <1>6 DEF QrExpires, ConnectionInv, OneLiveSocket, ConnectedHasSocket, StoppedIsDown
<1>7. ASSUME NEW g \in Generation, QrShown(g) \/ QrFails(g) PROVE ConnectionInv'
  BY <1>7 DEF QrShown, QrFails, ConnectionInv, OneLiveSocket, ConnectedHasSocket, StoppedIsDown
<1>8. ASSUME NEW ok \in BOOLEAN, Left(ok) PROVE ConnectionInv'
  <2>1. Disconnect(leaving = "remove" /\ ok) /\ (leaving = "remove" /\ ok) \in BOOLEAN
    BY <1>8 DEF Left
  <2>2. UNCHANGED <<generation, stopped, timer>>
    BY <1>8 DEF Left
  <2>3. timer => ~stopped
    BY DEF ConnectionInv
  <2>. QED BY <2>1, <2>2, <2>3, DisconnectConnection
<1>9. CASE Restart
  BY <1>9 DEF Restart, ConnectionInv, OneLiveSocket, ConnectedHasSocket, StoppedIsDown
<1>10. CASE UNCHANGED vars
  BY <1>10, ConnectionFrame DEF vars
<1>. QED BY <1>1, <1>2, <1>3, <1>4, <1>5, <1>6, <1>7, <1>8, <1>9, <1>10 DEF Next

LEMMA InitConnection == Init => ConnectionInv
BY DEF Init, ConnectionInv, OneLiveSocket, ConnectedHasSocket, StoppedIsDown

LEMMA ConnectionAlways == Spec => []ConnectionInv
<1>1. TypeOK /\ ConnectionInv /\ [Next]_vars => ConnectionInv'
  BY NextConnection
<1>. QED BY <1>1, InitConnection, TypeCorrect, PTL DEF Spec

(* Two sockets never hold the same credentials, for any number of          *)
(* reconnects, logouts and restarts (open() and the generation guards).    *)
THEOREM OneSocketAlways == Spec => []OneLiveSocket
<1>1. ConnectionInv => OneLiveSocket
  BY DEF ConnectionInv
<1>. QED BY <1>1, ConnectionAlways, PTL

(* Whenever the state says connected there is a socket for the drain loop  *)
(* to read s.socket.user from.                                             *)
THEOREM ConnectedHasSocketAlways == Spec => []ConnectedHasSocket
<1>1. ConnectionInv => ConnectedHasSocket
  BY DEF ConnectionInv
<1>. QED BY <1>1, ConnectionAlways, PTL

(* A session that was stopped stays down: no socket is open and no timer   *)
(* would open one, until somebody pairs it again.                          *)
THEOREM StoppedStaysDown == Spec => []StoppedIsDown
<1>1. ConnectionInv => StoppedIsDown
  BY DEF ConnectionInv
<1>. QED BY <1>1, ConnectionAlways, PTL

(* A connected session stays connected while its socket is open: no stale  *)
(* event of an earlier socket, of its QR code or of the reconnect timer    *)
(* takes it down.                                                          *)
THEOREM ConnectionKeptAlways == Spec => ConnectionKept
<1>1. ASSUME TypeOK, ConnectionInv, [Next]_vars,
             state = "connected", socket \in live, socket \in live', crashes' = crashes
      PROVE  state' \in {"connected", "failed"}
  <2>0. /\ generation \in Nat /\ socket \in Nat /\ socket <= generation /\ live = {socket}
        /\ socket # 0 /\ crashes \in Nat
    <3>1. generation \in Nat /\ socket \in Nat /\ crashes \in Nat
      BY <1>1, BoundsAssumption DEF TypeOK, Generation
    <3>2. socket <= generation /\ live \subseteq {socket} \ {0}
      BY <1>1 DEF ConnectionInv, OneLiveSocket
    <3>3. live = {socket} /\ socket # 0
      BY <1>1, <3>2
    <3>. QED BY <3>1, <3>2, <3>3
  <2>1. CASE Open
    <3>1. live' = {generation + 1}
      BY <2>0, <2>1 DEF Open
    <3>. QED BY <1>1, <2>0, <3>1
  <2>2. ASSUME NEW gone \in BOOLEAN, Disconnect(gone) PROVE FALSE
    BY <1>1, <2>0, <2>2 DEF Disconnect
  <2>3. CASE Drain
    BY <1>1, <2>3 DEF Drain, RunImmediate, Resolved, NotResolved, SendReturns, SendThrows, conn
  <2>4. CASE Request
    BY <1>1, <2>1, <2>2, <2>4 DEF Request, Enqueue, MessageOverdue, Connect, Leave, conn
  <2>5. CASE SocketEvent
    <3>1. ASSUME NEW g \in Generation, NEW reason \in CloseReason, Closed(g, reason)
          PROVE  state' = "connected"
      <4>1. CASE g = generation
        <5>1. socket = generation
          BY <1>1, <2>0, <3>1, <4>1 DEF Closed, ConnectionInv
        <5>. QED BY <1>1, <2>0, <3>1, <4>1, <5>1 DEF Closed
      <4>2. CASE g # generation
        BY <1>1, <3>1, <4>2 DEF Closed
      <4>. QED BY <4>1, <4>2
    <3>. QED BY <1>1, <2>5, <3>1 DEF SocketEvent, Acknowledge, QrOffered, Paired, Opened, conn
  <2>6. CASE Transmit
    BY <1>1, <2>6 DEF Transmit, conn
  <2>7. CASE TimerFires
    BY <1>1, <2>1, <2>7 DEF TimerFires
  <2>8. CASE QrExpires
    BY <1>1, <2>8 DEF QrExpires
  <2>9. ASSUME NEW g \in Generation, QrShown(g) \/ QrFails(g)
        PROVE  state' \in {"connected", "failed"}
    BY <1>1, <2>9 DEF QrShown, QrFails
  <2>10. ASSUME NEW ok \in BOOLEAN, Left(ok) PROVE FALSE
    BY <2>2, <2>10 DEF Left
  <2>11. CASE Restart
    BY <1>1, <2>0, <2>11 DEF Restart
  <2>12. CASE UNCHANGED vars
    BY <1>1, <2>12 DEF vars, conn
  <2>. QED BY <1>1, <2>3, <2>4, <2>5, <2>6, <2>7, <2>8, <2>9, <2>10, <2>11, <2>12 DEF Next
<1>2. TypeOK /\ ConnectionInv /\ [Next]_vars =>
        [state = "connected" /\ socket \in live /\ socket \in live' /\ crashes' = crashes
           => state' \in {"connected", "failed"}]_vars
  BY <1>1
<1>. QED BY <1>2, TypeCorrect, ConnectionAlways, PTL DEF Spec, ConnectionKept

-----------------------------------------------------------------------------
(* The drain loop and the wire *)

(* The drain loop works through the journal from the front, and while it   *)
(* waits for a recipient on the current socket the operation stays         *)
(* pending: a logout that settles it also takes the socket away.           *)
DrainInv ==
  drain.phase # "idle" =>
    /\ drain.at \in 1..drain.limit /\ drain.limit <= Len(journal)
    /\ drain.socket \in 1..generation
    /\ \A m \in 1..(drain.at - 1) : journal[m].status # "pending"
    /\ drain.phase = "resolving" /\ socket = drain.socket => journal[drain.at].status = "pending"
    /\ drain.phase \in {"sending", "transmitted"} => journal[drain.at].status # "pending"

(* What went out lies in front of everything pending and of the loop.      *)
WireInv ==
  /\ SentOnceInOrder
  /\ \A n \in DOMAIN wire :
       /\ wire[n] \in DOMAIN journal
       /\ journal[wire[n]].status # "pending"
       /\ \A i \in Pending(journal) : wire[n] < i
       /\ drain.phase \in {"resolving", "sending"} => wire[n] < drain.at
       /\ drain.phase = "transmitted" => wire[n] <= drain.at

(* The file mirrors the journal.                                           *)
DiskInv == present => stored /\ disk = journal

MailInv == DrainInv /\ WireInv /\ DiskInv

(* Statuses may change in place as long as nothing becomes pending, and    *)
(* nothing the loop is about to send stops being pending under it.         *)
LEMMA SettleKeepsMail ==
  ASSUME TypeOK, MailInv, UNCHANGED <<drain, wire>>, generation' \in Nat,
         generation' >= generation, socket' \in {socket, 0} \/ socket' > generation,
         Len(journal') = Len(journal), journal' \in Seq(Operation),
         \A i \in DOMAIN journal : journal'[i].status = "pending" => journal[i].status = "pending",
         socket' = drain.socket /\ drain.phase = "resolving"
           /\ journal[drain.at].status = "pending" => journal'[drain.at].status = "pending"
  PROVE  DrainInv' /\ WireInv'
<1>1. DOMAIN journal' = DOMAIN journal /\ DOMAIN journal = 1..Len(journal)
  BY DEF TypeOK
<1>2. generation \in Nat /\ socket \in Nat /\ drain \in DrainPoint /\ Len(journal) \in Nat
  BY DEF TypeOK, Generation
<1>3. DrainInv'
  <2>. SUFFICES ASSUME drain.phase # "idle"
       PROVE  /\ drain.at \in 1..drain.limit /\ drain.limit <= Len(journal')
              /\ drain.socket \in 1..generation'
              /\ \A m \in 1..(drain.at - 1) : journal'[m].status # "pending"
              /\ drain.phase = "resolving" /\ socket' = drain.socket
                   => journal'[drain.at].status = "pending"
              /\ drain.phase \in {"sending", "transmitted"} => journal'[drain.at].status # "pending"
    BY DEF DrainInv
  <2>1. /\ drain.at \in 1..drain.limit /\ drain.limit <= Len(journal)
        /\ drain.socket \in 1..generation
        /\ \A m \in 1..(drain.at - 1) : journal[m].status # "pending"
        /\ drain.phase = "resolving" /\ socket = drain.socket
             => journal[drain.at].status = "pending"
        /\ drain.phase \in {"sending", "transmitted"} => journal[drain.at].status # "pending"
    BY DEF MailInv, DrainInv
  <2>2. drain.at \in DOMAIN journal /\ \A m \in 1..(drain.at - 1) : m \in DOMAIN journal
    BY <1>1, <1>2, <2>1 DEF DrainPoint
  <2>3. socket' = drain.socket => socket = drain.socket
    BY <1>2, <2>1
  <2>. QED BY <1>2, <2>1, <2>2, <2>3
<1>4. WireInv'
  <2>1. Pending(journal') \subseteq Pending(journal)
    BY <1>1 DEF Pending
  <2>. QED BY <1>1, <2>1 DEF MailInv, WireInv, SentOnceInOrder
<1>. QED BY <1>3, <1>4

(* The loop moves on past an operation that is settled.                    *)
LEMMA DrainOnKeepsMail ==
  ASSUME TypeOK, ConnectionInv, MailInv, NEW i \in Nat, NEW limit \in Nat, NEW st,
         journal' \in Seq(Operation), Len(journal') = Len(journal),
         \A n \in DOMAIN journal : journal'[n].status = "pending" => journal[n].status = "pending",
         limit <= Len(journal), i <= limit,
         \A m \in 1..i : journal'[m].status # "pending",
         \A n \in DOMAIN wire : wire[n] <= i,
         st = "connected" => socket # 0,
         UNCHANGED <<wire, socket, generation>>,
         DrainOn(journal', i, limit, st, socket)
  PROVE  DrainInv' /\ WireInv'
<1>1. DOMAIN journal' = DOMAIN journal /\ DOMAIN journal = 1..Len(journal)
  BY DEF TypeOK
<1>2. generation \in Nat /\ socket \in Nat /\ Len(journal) \in Nat
      /\ \A n \in DOMAIN wire : wire[n] \in Nat
  BY DEF TypeOK, Generation
<1>3. Pending(journal') \subseteq Pending(journal)
  BY <1>1 DEF Pending
<1>4. SentOnceInOrder' /\ \A n \in DOMAIN wire : /\ wire[n] \in DOMAIN journal'
                                                  /\ journal'[wire[n]].status # "pending"
                                                  /\ \A m \in Pending(journal') : wire[n] < m
  BY <1>1, <1>3 DEF MailInv, WireInv, SentOnceInOrder
<1>5. CASE drain' = Idle
  BY <1>4, <1>5 DEF Idle, DrainInv, WireInv
<1>6. ASSUME NEW n \in (i + 1)..limit, st = "connected",
             journal'[n].status = "pending",
             \A m \in (i + 1)..(n - 1) : journal'[m].status # "pending",
             drain' = [phase |-> "resolving", at |-> n, limit |-> limit, socket |-> socket]
      PROVE  DrainInv' /\ WireInv'
  <2>1. \A m \in 1..(n - 1) : journal'[m].status # "pending"
    <3>1. \A m \in 1..(n - 1) : m \in 1..i \/ m \in (i + 1)..(n - 1)
      BY <1>6
    <3>. QED BY <1>6, <3>1
  <2>2. socket \in 1..generation
    BY <1>2, <1>6 DEF ConnectionInv
  <2>3. n \in 1..limit
    BY <1>6
  <2>4. DrainInv'
    BY <1>6, <2>1, <2>2, <2>3 DEF DrainInv
  <2>5. \A m \in DOMAIN wire : wire[m] < n
    BY <1>2, <1>6
  <2>6. WireInv'
    BY <1>4, <1>6, <2>5 DEF WireInv
  <2>. QED BY <2>4, <2>6
<1>. QED BY <1>5, <1>6 DEF DrainOn, FinishDrain

LEMMA MailFrame ==
  MailInv /\ UNCHANGED <<mail, present, drain, wire, socket, generation>> => MailInv'
BY DEF MailInv, DrainInv, WireInv, DiskInv, SentOnceInOrder, Pending, mail

LEMMA DrainMail == TypeOK /\ ConnectionInv /\ MailInv /\ Drain => MailInv'
<1>. SUFFICES ASSUME TypeOK, ConnectionInv, MailInv, Drain PROVE MailInv'
  OBVIOUS
<1>0. /\ DOMAIN journal = 1..Len(journal) /\ Len(journal) \in Nat /\ generation \in Nat
      /\ socket \in Nat /\ drain \in DrainPoint /\ \A n \in DOMAIN wire : wire[n] \in Nat
  BY DEF TypeOK, Generation
<1>1. CASE RunImmediate
  <2>1. UNCHANGED <<journal, disk, stored, present, socket, generation, wire>>
    BY <1>1 DEF RunImmediate, mail, auth, conn, ghost
  <2>2. CASE UNCHANGED drain
    BY <2>1, <2>2, MailFrame DEF mail
  <2>3. ASSUME NEW n \in Pending(journal), state = "connected",
               \A m \in 1..(n - 1) : journal[m].status # "pending",
               drain' = [phase |-> "resolving", at |-> n, limit |-> Len(journal),
                         socket |-> socket]
        PROVE  MailInv'
    <3>1. n \in 1..Len(journal) /\ journal[n].status = "pending"
      BY <1>0, <2>3 DEF Pending
    <3>2. socket \in 1..generation
      BY <1>0, <2>3 DEF ConnectionInv, ConnectedHasSocket
    <3>3. DrainInv'
      BY <1>0, <2>1, <2>3, <3>1, <3>2 DEF DrainInv
    <3>4. WireInv'
      BY <2>1, <2>3 DEF MailInv, WireInv, SentOnceInOrder, Pending
    <3>. QED BY <2>1, <3>3, <3>4 DEF MailInv, DiskInv
  <2>. QED BY <1>1, <2>2, <2>3 DEF RunImmediate
<1>2. CASE Resolved
  <2>1. UNCHANGED <<present, socket, generation, wire, state>>
    BY <1>2 DEF Resolved, auth, conn, ghost
  <2>2. CASE state # "connected" \/ socket # drain.socket
    <3>1. UNCHANGED <<journal, disk, stored>> /\ drain' = Idle
      BY <1>2, <2>2 DEF Resolved, FinishDrain, mail
    <3>. QED BY <2>1, <3>1 DEF MailInv, DrainInv, WireInv, DiskInv, SentOnceInOrder, Pending, Idle
  <2>3. CASE state = "connected" /\ socket = drain.socket
    <3>1. /\ SaveJournal(WithStatus(journal, drain.at, "processing"))
          /\ drain' = [drain EXCEPT !.phase = "sending"]
          /\ drain.phase = "resolving"
      BY <1>2, <2>3 DEF Resolved
    <3>2. /\ drain.at \in 1..drain.limit /\ drain.limit <= Len(journal)
          /\ drain.socket \in 1..generation
          /\ \A m \in 1..(drain.at - 1) : journal[m].status # "pending"
          /\ \A n \in DOMAIN wire : wire[n] < drain.at
      BY <3>1 DEF MailInv, DrainInv, WireInv
    <3>3. drain.at \in DOMAIN journal /\ drain.at \in Nat
      BY <1>0, <3>2 DEF DrainPoint
    <3>4. /\ Len(journal') = Len(journal) /\ DOMAIN journal' = DOMAIN journal
          /\ journal'[drain.at].status # "pending"
          /\ \A n \in DOMAIN journal : n # drain.at => journal'[n] = journal[n]
      <4>1. journal \in Seq(Operation) /\ "processing" \in Status
        BY DEF TypeOK, Status
      <4>2. journal' = WithStatus(journal, drain.at, "processing")
        BY <3>1 DEF SaveJournal
      <4>3. Len(journal') = Len(journal) /\ DOMAIN journal' = DOMAIN journal
        BY <3>3, <4>1, <4>2, WithStatusFacts
      <4>4. journal'[drain.at].status = "processing"
        BY <3>3, <4>1, <4>2, WithStatusFacts
      <4>5. \A n \in DOMAIN journal : n # drain.at => journal'[n] = journal[n]
        BY <3>3, <4>1, <4>2, WithStatusFacts
      <4>. QED BY <4>3, <4>4, <4>5
    <3>5. drain'.phase = "sending" /\ drain'.at = drain.at /\ drain'.limit = drain.limit
          /\ drain'.socket = drain.socket
      BY <1>0, <3>1 DEF DrainPoint
    <3>6. DrainInv'
      BY <1>0, <2>1, <3>2, <3>3, <3>4, <3>5 DEF DrainInv
    <3>7. Pending(journal') \subseteq Pending(journal)
      BY <3>4 DEF Pending
    <3>8. \A n \in DOMAIN wire : wire[n] < drain.at /\ wire[n] \in DOMAIN journal'
            /\ journal'[wire[n]].status # "pending"
      BY <1>0, <3>2, <3>3, <3>4 DEF MailInv, WireInv
    <3>9. WireInv'
      BY <2>1, <3>5, <3>7, <3>8 DEF MailInv, WireInv, SentOnceInOrder
    <3>. QED BY <3>1, <3>6, <3>9 DEF MailInv, DiskInv, SaveJournal
  <2>. QED BY <2>2, <2>3
<1>3. ASSUME NotResolved \/ SendReturns \/ SendThrows PROVE MailInv'
  <2>1. PICK new, j :
          /\ new \in {"failed", "sent", "unknown"}
          /\ j = journal \/ j = WithStatus(journal, drain.at, new)
          /\ drain.phase # "idle"
          /\ drain.phase = "resolving" => j = WithStatus(journal, drain.at, new)
          /\ SaveJournal(j) /\ DrainOn(j, drain.at, drain.limit, state, socket)
          /\ UNCHANGED <<auth, conn, ghost>>
    BY <1>3 DEF NotResolved, SendReturns, SendThrows
  <2>2. /\ drain.at \in 1..drain.limit /\ drain.limit <= Len(journal)
        /\ \A m \in 1..(drain.at - 1) : journal[m].status # "pending"
        /\ drain.phase \in {"sending", "transmitted"} => journal[drain.at].status # "pending"
        /\ \A n \in DOMAIN wire : wire[n] <= drain.at
    <3>1. drain.phase \in {"resolving", "sending", "transmitted"}
      BY <1>0, <2>1 DEF DrainPoint
    <3>. QED BY <1>0, <2>1, <3>1 DEF MailInv, DrainInv, WireInv, DrainPoint
  <2>3. drain.at \in DOMAIN journal /\ drain.at \in Nat /\ drain.limit \in Nat
    BY <1>0, <2>2 DEF DrainPoint
  <2>4. journal' = j /\ UNCHANGED <<wire, socket, generation, present>>
    BY <2>1 DEF SaveJournal, auth, conn, ghost
  <2>5. /\ j \in Seq(Operation) /\ Len(j) = Len(journal)
        /\ j[drain.at].status # "pending"
        /\ \A n \in DOMAIN journal : n # drain.at => j[n] = journal[n]
    <3>1. journal \in Seq(Operation) /\ new \in Status /\ new # "pending"
      BY <2>1 DEF TypeOK, Status
    <3>2. CASE j = WithStatus(journal, drain.at, new)
      <4>1. j \in Seq(Operation) /\ Len(j) = Len(journal)
        BY <2>3, <3>1, <3>2, WithStatusFacts
      <4>2. j[drain.at].status = new
        BY <2>3, <3>1, <3>2, WithStatusFacts
      <4>3. \A n \in DOMAIN journal : n # drain.at => j[n] = journal[n]
        BY <2>3, <3>1, <3>2, WithStatusFacts
      <4>. QED BY <3>1, <4>1, <4>2, <4>3
    <3>3. CASE j = journal /\ j # WithStatus(journal, drain.at, new)
      <4>1. drain.phase \in {"resolving", "sending", "transmitted"}
        BY <1>0, <2>1 DEF DrainPoint
      <4>. QED BY <2>1, <2>2, <3>1, <3>3, <4>1
    <3>. QED BY <2>1, <3>2, <3>3
  <2>6. \A m \in 1..drain.at : j[m].status # "pending"
    <3>1. \A m \in 1..drain.at : m = drain.at \/ (m \in 1..(drain.at - 1) /\ m \in DOMAIN journal)
      BY <1>0, <2>2, <2>3
    <3>. QED BY <2>2, <2>5, <3>1
  <2>7. \A n \in DOMAIN journal : j[n].status = "pending" => journal[n].status = "pending"
    BY <2>5
  <2>8. state = "connected" => socket # 0
    BY DEF ConnectionInv, ConnectedHasSocket
  <2>9. drain.at <= drain.limit
    BY <2>2, <2>3
  <2>10. DrainInv' /\ WireInv'
    BY <2>1, <2>2, <2>3, <2>4, <2>5, <2>6, <2>7, <2>8, <2>9, DrainOnKeepsMail
  <2>. QED BY <2>1, <2>10 DEF MailInv, DiskInv, SaveJournal
<1>. QED BY <1>1, <1>2, <1>3 DEF Drain

(* A status that was settled changes, and the journal is saved.            *)
LEMMA SettleOneKeepsMail ==
  ASSUME TypeOK, MailInv, NEW i \in DOMAIN journal, journal[i].status # "pending",
         NEW new \in Status \ {"pending"}, SaveJournal(WithStatus(journal, i, new)),
         UNCHANGED <<drain, wire, socket, generation, present>>
  PROVE  MailInv'
<1>1. journal \in Seq(Operation) /\ generation \in Nat /\ drain \in DrainPoint
  BY DEF TypeOK, Generation
<1>2. /\ journal' \in Seq(Operation) /\ Len(journal') = Len(journal)
      /\ journal'[i].status = new
      /\ \A n \in DOMAIN journal : n # i => journal'[n] = journal[n]
  BY <1>1, WithStatusFacts DEF SaveJournal
<1>3. \A n \in DOMAIN journal : journal'[n].status = "pending" => journal[n].status = "pending"
  BY <1>2
<1>4. drain.phase = "resolving" => drain.at \in DOMAIN journal
  BY <1>1 DEF MailInv, DrainInv, DrainPoint
<1>5. drain.phase = "resolving" /\ journal[drain.at].status = "pending"
        => journal'[drain.at].status = "pending"
  BY <1>2, <1>4
<1>6. DrainInv' /\ WireInv'
  BY <1>1, <1>2, <1>3, <1>5, SettleKeepsMail
<1>. QED BY <1>6 DEF MailInv, DiskInv, SaveJournal

(* The connection changes around an untouched journal.                     *)
LEMMA ReconnectKeepsMail ==
  ASSUME TypeOK, MailInv, UNCHANGED <<mail, present, drain, wire>>,
         generation' \in {generation, generation + 1},
         socket' \in {socket, 0} \/ socket' > generation
  PROVE  MailInv'
<1>1. UNCHANGED <<journal, disk, stored>> /\ journal \in Seq(Operation)
      /\ generation' \in Nat /\ generation' >= generation
  BY DEF TypeOK, Generation, mail
<1>2. DrainInv' /\ WireInv'
  BY <1>1, SettleKeepsMail
<1>. QED BY <1>1, <1>2 DEF MailInv, DiskInv

LEMMA DisconnectKeepsMail ==
  ASSUME TypeOK, MailInv, NEW gone \in BOOLEAN, Disconnect(gone), UNCHANGED <<drain, wire>>,
         generation' \in {generation, generation + 1}
  PROVE  MailInv'
<1>1. journal \in Seq(Operation) /\ generation' \in Nat /\ generation' >= generation
      /\ generation \in Nat /\ drain \in DrainPoint
  BY DEF TypeOK, Generation
<1>2. journal' = LoggedOut(journal) /\ socket' = 0
  BY DEF Disconnect
<1>3. /\ journal' \in Seq(Operation) /\ Len(journal') = Len(journal)
      /\ \A n \in DOMAIN journal :
           journal'[n].status = "pending" => journal[n].status = "pending"
  BY <1>1, <1>2, LoggedOutFacts
<1>4. drain.phase = "resolving" => drain.socket # 0
  BY <1>1 DEF MailInv, DrainInv
<1>5. DrainInv' /\ WireInv'
  BY <1>1, <1>2, <1>3, <1>4, SettleKeepsMail
<1>6. DiskInv'
  BY DEF Disconnect, DiskInv
<1>. QED BY <1>5, <1>6 DEF MailInv

LEMMA EnqueueKeepsMail ==
  ASSUME TypeOK, MailInv, NEW k \in Key, NEW p \in Payload, Enqueue(k, p)
  PROVE  MailInv'
<1>1. /\ journal \in Seq(Operation) /\ DOMAIN journal = 1..Len(journal) /\ Len(journal) \in Nat
      /\ drain \in DrainPoint /\ \A n \in DOMAIN wire : wire[n] \in Nat
  BY DEF TypeOK
<1>. DEFINE new == [key |-> k, payload |-> p, status |-> "pending"]
<1>2. new \in Operation
  BY DEF Operation, Status
<1>3. /\ journal' = Append(journal, new) /\ disk' = journal' /\ stored' = TRUE
      /\ UNCHANGED <<present, socket, generation, drain, wire>>
  BY DEF Enqueue, SaveJournal, auth, conn
<1>. HIDE DEF new
<1>4. /\ DOMAIN journal' = 1..(Len(journal) + 1) /\ Len(journal') = Len(journal) + 1
      /\ \A n \in DOMAIN journal : journal'[n] = journal[n]
  BY <1>1, <1>2, <1>3, AppendProperties
<1>5. DrainInv'
  <2>. SUFFICES ASSUME drain.phase # "idle" PROVE DrainInv'
    BY <1>3 DEF DrainInv
  <2>1. /\ drain.at \in 1..drain.limit /\ drain.limit <= Len(journal)
        /\ drain.socket \in 1..generation
        /\ \A m \in 1..(drain.at - 1) : journal[m].status # "pending"
        /\ drain.phase = "resolving" /\ socket = drain.socket
             => journal[drain.at].status = "pending"
        /\ drain.phase \in {"sending", "transmitted"} => journal[drain.at].status # "pending"
    BY DEF MailInv, DrainInv
  <2>2. drain.at \in DOMAIN journal /\ \A m \in 1..(drain.at - 1) : m \in DOMAIN journal
    BY <1>1, <2>1 DEF DrainPoint
  <2>3. drain.limit <= Len(journal')
    BY <1>1, <1>4, <2>1 DEF DrainPoint
  <2>. QED BY <1>3, <1>4, <2>1, <2>2, <2>3 DEF DrainInv
<1>6. WireInv'
  <2>1. \A i \in Pending(journal') : i \in Pending(journal) \/ i = Len(journal) + 1
    BY <1>1, <1>4 DEF Pending
  <2>2. \A n \in DOMAIN wire : wire[n] \in DOMAIN journal /\ wire[n] < Len(journal) + 1
    BY <1>1 DEF MailInv, WireInv
  <2>3. \A n \in DOMAIN wire : \A i \in Pending(journal') : wire[n] < i
    BY <2>1, <2>2 DEF MailInv, WireInv
  <2>4. \A n \in DOMAIN wire : wire[n] \in DOMAIN journal' /\ journal'[wire[n]].status # "pending"
    BY <1>1, <1>4, <2>2 DEF MailInv, WireInv
  <2>. QED BY <1>3, <2>3, <2>4 DEF MailInv, WireInv, SentOnceInOrder
<1>. QED BY <1>3, <1>5, <1>6 DEF MailInv, DiskInv

LEMMA TransmitKeepsMail == TypeOK /\ MailInv /\ Transmit => MailInv'
<1>. SUFFICES ASSUME TypeOK, MailInv, Transmit PROVE MailInv'
  OBVIOUS
<1>1. /\ DOMAIN journal = 1..Len(journal) /\ Len(journal) \in Nat /\ drain \in DrainPoint
      /\ wire \in Seq(Nat)
  BY DEF TypeOK
<1>2. /\ drain.phase = "sending" /\ wire' = Append(wire, drain.at)
      /\ drain' = [drain EXCEPT !.phase = "transmitted"]
      /\ UNCHANGED <<journal, disk, stored, present, socket, generation>>
  BY DEF Transmit, mail, auth, conn
<1>3. /\ drain.at \in DOMAIN journal /\ drain.at \in Nat
      /\ \A m \in 1..(drain.at - 1) : journal[m].status # "pending"
      /\ journal[drain.at].status # "pending"
  BY <1>1, <1>2 DEF MailInv, DrainInv, DrainPoint
<1>4. \A n \in DOMAIN wire : wire[n] \in Nat /\ wire[n] < drain.at
  BY <1>1, <1>2, <1>3 DEF MailInv, WireInv
<1>5. /\ Len(wire) \in Nat /\ DOMAIN wire = 1..Len(wire)
      /\ DOMAIN wire' = 1..(Len(wire) + 1) /\ wire'[Len(wire) + 1] = drain.at
      /\ \A n \in DOMAIN wire : wire'[n] = wire[n]
  BY <1>1, <1>2, <1>3, AppendProperties
<1>6. SentOnceInOrder'
  BY <1>4, <1>5 DEF MailInv, WireInv, SentOnceInOrder
<1>7. \A i \in Pending(journal) : drain.at < i
  BY <1>1, <1>3 DEF Pending
<1>8. \A n \in DOMAIN wire' : (n \in DOMAIN wire /\ wire'[n] = wire[n]) \/ wire'[n] = drain.at
  BY <1>5
<1>9. \A n \in DOMAIN wire' :
        /\ wire'[n] \in DOMAIN journal /\ journal[wire'[n]].status # "pending"
        /\ \A i \in Pending(journal) : wire'[n] < i
        /\ wire'[n] <= drain.at
  BY <1>3, <1>4, <1>7, <1>8 DEF MailInv, WireInv
<1>10. /\ drain'.phase = "transmitted" /\ drain'.at = drain.at /\ drain'.limit = drain.limit
       /\ drain'.socket = drain.socket
  BY <1>1, <1>2 DEF DrainPoint
<1>11. WireInv'
  BY <1>2, <1>6, <1>9, <1>10 DEF WireInv, Pending
<1>12. DrainInv'
  BY <1>2, <1>10 DEF MailInv, DrainInv
<1>. QED BY <1>2, <1>11, <1>12 DEF MailInv, DiskInv

LEMMA OpenKeepsMail == TypeOK /\ MailInv /\ Open => MailInv'
<1>. SUFFICES ASSUME TypeOK, MailInv, Open PROVE MailInv'
  OBVIOUS
<1>1. /\ UNCHANGED <<mail, present, drain, wire>> /\ generation \in Nat
      /\ generation' = generation + 1 /\ socket' = generation + 1
  BY DEF Open, auth, loop, ghost, TypeOK, Generation
<1>. QED BY <1>1, ReconnectKeepsMail

(* connection.update "open" starts the loop at the front of the journal.   *)
LEMMA OpenedKeepsMail == TypeOK /\ ConnectionInv /\ MailInv /\ Opened => MailInv'
<1>. SUFFICES ASSUME TypeOK, ConnectionInv, MailInv, Opened PROVE MailInv'
  OBVIOUS
<1>1. UNCHANGED <<journal, disk, stored, present, socket, generation, wire>>
  BY DEF Opened, mail, auth, ghost
<1>2. CASE UNCHANGED drain
  BY <1>1, <1>2, MailFrame DEF mail
<1>3. CASE drain' = Idle
  BY <1>1, <1>3 DEF MailInv, DrainInv, WireInv, DiskInv, SentOnceInOrder, Pending, Idle
<1>4. ASSUME NEW n \in 1..Len(journal), journal[n].status = "pending",
             \A m \in 1..(n - 1) : journal[m].status # "pending",
             drain' = [phase |-> "resolving", at |-> n, limit |-> Len(journal),
                       socket |-> socket]
      PROVE  MailInv'
  <2>1. DOMAIN journal = 1..Len(journal) /\ Len(journal) \in Nat /\ generation \in Nat
    BY DEF TypeOK, Generation
  <2>2. socket \in 1..generation
    BY <2>1 DEF Opened, ConnectionInv, OneLiveSocket
  <2>3. DrainInv'
    BY <1>1, <1>4, <2>1, <2>2 DEF DrainInv
  <2>4. n \in Pending(journal)
    BY <1>4, <2>1 DEF Pending
  <2>5. WireInv'
    BY <1>1, <1>4, <2>4 DEF MailInv, WireInv, SentOnceInOrder, Pending
  <2>. QED BY <1>1, <2>3, <2>5 DEF MailInv, DiskInv
<1>5. CASE DrainOn(journal, 0, Len(journal), "connected", socket)
  <2>1. \A n \in (0 + 1)..Len(journal) : n \in 1..Len(journal)
    OBVIOUS
  <2>2. \A n \in 1..Len(journal) : (0 + 1)..(n - 1) = 1..(n - 1)
    OBVIOUS
  <2>. QED BY <1>3, <1>4, <1>5, <2>1, <2>2 DEF DrainOn, FinishDrain
<1>. QED BY <1>2, <1>5 DEF Opened, loop

(* A new process starts from the file, with no loop running.               *)
LEMMA RestartKeepsMail == TypeOK /\ MailInv /\ Restart => MailInv'
<1>. SUFFICES ASSUME TypeOK, MailInv, Restart PROVE MailInv'
  OBVIOUS
<1>1. /\ journal \in Seq(Operation) /\ journal' = Interrupted(journal) /\ disk' = journal'
      /\ stored /\ UNCHANGED <<stored, present, wire>> /\ drain' = Idle
  BY DEF Restart, TypeOK, MailInv, DiskInv, auth
<1>2. /\ DOMAIN journal' = DOMAIN journal
      /\ \A n \in DOMAIN journal : journal'[n].status = "pending" <=> journal[n].status = "pending"
  BY <1>1, InterruptedFacts
<1>3. Pending(journal') = Pending(journal)
  BY <1>2 DEF Pending
<1>4. DrainInv' /\ WireInv'
  BY <1>1, <1>2, <1>3 DEF MailInv, DrainInv, WireInv, SentOnceInOrder, Idle
<1>. QED BY <1>1, <1>4 DEF MailInv, DiskInv

LEMMA NextMail == TypeOK /\ ConnectionInv /\ MailInv /\ [Next]_vars => MailInv'
<1>. SUFFICES ASSUME TypeOK, ConnectionInv, MailInv, [Next]_vars PROVE MailInv'
  OBVIOUS
<1>1. CASE Drain
  BY <1>1, DrainMail
<1>2. CASE Request
  <2>1. ASSUME NEW k \in Key, NEW p \in Payload, Enqueue(k, p) PROVE MailInv'
    BY <2>1, EnqueueKeepsMail
  <2>2. ASSUME NEW i \in DOMAIN journal, MessageOverdue(i) PROVE MailInv'
    <3>1. journal[i].status # "pending" /\ "unknown" \in Status \ {"pending"}
      BY <2>2 DEF MessageOverdue, Status
    <3>2. /\ SaveJournal(WithStatus(journal, i, "unknown"))
          /\ UNCHANGED <<drain, wire, socket, generation, present>>
      BY <2>2 DEF MessageOverdue, auth, conn, loop, ghost
    <3>. QED BY <3>1, <3>2, SettleOneKeepsMail
  <2>3. CASE Connect
    BY <2>3, OpenKeepsMail DEF Connect
  <2>4. ASSUME NEW why \in {"logout", "remove"}, Leave(why) PROVE MailInv'
    <3>1. UNCHANGED <<drain, wire>> /\ generation' = generation + 1
      BY <2>4 DEF Leave, loop, ghost
    <3>2. CASE UNCHANGED <<mail, auth, socket>>
      BY <3>1, <3>2, ReconnectKeepsMail DEF auth
    <3>3. CASE Disconnect(why = "remove")
      BY <3>1, <3>3, DisconnectKeepsMail
    <3>. QED BY <2>4, <3>2, <3>3 DEF Leave
  <2>. QED BY <1>2, <2>1, <2>2, <2>3, <2>4 DEF Request
<1>3. CASE SocketEvent
  <2>1. ASSUME NEW i \in DOMAIN journal, NEW ok \in BOOLEAN, Acknowledge(i, ok) PROVE MailInv'
    <3>1. journal[i].status # "pending"
      BY <2>1 DEF Acknowledge, HandedOver, MailInv, WireInv
    <3>2. PICK new \in Status \ {"pending"} : SaveJournal(WithStatus(journal, i, new))
      <4>1. (IF ok THEN "sent" ELSE "failed") \in Status \ {"pending"}
        BY DEF Status
      <4>. QED BY <2>1, <4>1 DEF Acknowledge
    <3>3. UNCHANGED <<drain, wire, socket, generation, present>>
      BY <2>1 DEF Acknowledge, auth, conn, loop, ghost
    <3>. QED BY <3>1, <3>2, <3>3, SettleOneKeepsMail
  <2>2. ASSUME NEW g \in Generation, QrOffered(g) PROVE MailInv'
    BY <2>2, MailFrame DEF QrOffered, auth, loop, ghost
  <2>3. CASE Paired
    BY <2>3, MailFrame DEF Paired, conn, loop, ghost
  <2>4. CASE Opened
    BY <2>4, OpenedKeepsMail
  <2>5. ASSUME NEW g \in Generation, NEW reason \in CloseReason, Closed(g, reason)
        PROVE  MailInv'
    <3>1. UNCHANGED <<mail, present, drain, wire, generation>> /\ socket' \in {socket, 0}
      BY <2>5 DEF Closed, loop, ghost
    <3>. QED BY <3>1, ReconnectKeepsMail
  <2>. QED BY <1>3, <2>1, <2>2, <2>3, <2>4, <2>5 DEF SocketEvent
<1>4. CASE Transmit
  BY <1>4, TransmitKeepsMail
<1>5. CASE TimerFires
  <2>1. CASE Open
    BY <2>1, OpenKeepsMail
  <2>2. CASE ~Open
    BY <1>5, <2>2, MailFrame DEF TimerFires, auth, loop, ghost
  <2>. QED BY <2>1, <2>2
<1>6. CASE QrExpires
  BY <1>6, MailFrame DEF QrExpires, auth, loop, ghost
<1>7. ASSUME NEW g \in Generation, QrShown(g) \/ QrFails(g) PROVE MailInv'
  BY <1>7, MailFrame DEF QrShown, QrFails, auth, loop, ghost
<1>8. ASSUME NEW ok \in BOOLEAN, Left(ok) PROVE MailInv'
  <2>1. /\ Disconnect(leaving = "remove" /\ ok) /\ (leaving = "remove" /\ ok) \in BOOLEAN
        /\ UNCHANGED <<drain, wire, generation>>
    BY <1>8 DEF Left, loop, ghost
  <2>. QED BY <2>1, DisconnectKeepsMail
<1>9. CASE Restart
  BY <1>9, RestartKeepsMail
<1>10. CASE UNCHANGED vars
  BY <1>10, MailFrame DEF vars, auth, conn, loop, ghost
<1>. QED BY <1>1, <1>2, <1>3, <1>4, <1>5, <1>6, <1>7, <1>8, <1>9, <1>10 DEF Next

LEMMA InitMail == Init => MailInv
BY DEF Init, MailInv, DrainInv, WireInv, DiskInv, SentOnceInOrder, Idle, Pending

LEMMA MailAlways == Spec => []MailInv
<1>1. TypeOK /\ ConnectionInv /\ MailInv /\ [Next]_vars => MailInv'
  BY NextMail
<1>. QED BY <1>1, InitMail, TypeCorrect, ConnectionAlways, PTL DEF Spec

(* Nothing is handed to WhatsApp twice or out of order, for any number of  *)
(* messages, reconnects, logouts and restarts.                             *)
THEOREM NothingSentTwice == Spec => []SentOnceInOrder
<1>1. MailInv => SentOnceInOrder
  BY DEF MailInv, WireInv
<1>. QED BY <1>1, MailAlways, PTL

-----------------------------------------------------------------------------
(* Worker.tla implements Outbox.tla and keeps what it accepted. The        *)
(* argument sorts the steps of the worker by what they do to the journal:  *)
(* they settle operations in place, mark the next one for sending, hand it *)
(* over, or accept one.                                                    *)

(* What the loop waits for and what the journal says of it agree: only the *)
(* loop marks an operation, and until it is handed over nothing but a      *)
(* logout or the two-minute limit can settle it.                           *)
StageInv ==
  /\ drain.phase = "resolving" => journal[drain.at].status \in {"pending", "failed"}
  /\ drain.phase = "sending" => journal[drain.at].status \in {"processing", "unknown"}
  /\ drain.phase = "transmitted" => HandedOver(drain.at)

KeysDistinct ==
  \A h, i \in DOMAIN journal : journal[h].key = journal[i].key => h = i

AcceptedKept ==
  \A a \in accepted : \E i \in DOMAIN journal : <<journal[i].key, journal[i].payload>> = a

OutboxInv == TypeOK /\ ConnectionInv /\ MailInv /\ StageInv

-----------------------------------------------------------------------------
(* Kinds of steps *)

SettlesAt(i) ==
  LET old == journal[i].status
      new == journal'[i].status
  IN \/ new = old
     \/ old = "pending" /\ new = "failed"
     \/ old = "processing" /\ new = "unknown"
     \/ HandedOver(i) /\ old \notin {"pending", "sent"} /\ new \in {"sent", "failed", "unknown"}

Settles ==
  /\ journal' \in Seq(Operation) /\ Len(journal') = Len(journal)
  /\ DOMAIN journal' = DOMAIN journal
  /\ \A i \in DOMAIN journal : /\ journal'[i].key = journal[i].key
                               /\ journal'[i].payload = journal[i].payload
                               /\ SettlesAt(i)
  /\ UNCHANGED <<wire, accepted>>
  /\ \/ UNCHANGED drain
     \/ drain' = Idle
     \/ drain'.phase = "resolving" /\ drain'.socket = socket'

Marks ==
  /\ drain.phase = "resolving" /\ socket = drain.socket
  /\ journal' = WithStatus(journal, drain.at, "processing")
  /\ drain' = [drain EXCEPT !.phase = "sending"]
  /\ UNCHANGED <<wire, accepted>>

LEMMA JournalFacts ==
  ASSUME TypeOK
  PROVE  /\ journal \in Seq(Operation) /\ Len(journal) \in Nat
         /\ DOMAIN journal = 1..Len(journal)
         /\ drain \in DrainPoint /\ wire \in Seq(Nat) /\ socket \in Nat /\ generation \in Nat
BY DEF TypeOK, Generation

LEMMA UntouchedSettles ==
  ASSUME TypeOK, UNCHANGED <<journal, drain, wire, accepted>>
  PROVE  Settles
BY JournalFacts DEF Settles, SettlesAt

LEMMA OneSettles ==
  ASSUME TypeOK, NEW i \in DOMAIN journal, NEW new \in Status,
         journal' = WithStatus(journal, i, new), SettlesAt(i),
         UNCHANGED <<wire, accepted>>,
         \/ UNCHANGED drain
         \/ drain' = Idle
         \/ drain'.phase = "resolving" /\ drain'.socket = socket'
  PROVE  Settles
<1>1. journal \in Seq(Operation)
  BY JournalFacts
<1>2. /\ journal' \in Seq(Operation) /\ Len(journal') = Len(journal)
      /\ DOMAIN journal' = DOMAIN journal
      /\ journal'[i].key = journal[i].key /\ journal'[i].payload = journal[i].payload
      /\ \A n \in DOMAIN journal : n # i => journal'[n] = journal[n]
  BY <1>1, WithStatusFacts
<1>3. \A n \in DOMAIN journal : n # i => SettlesAt(n)
  BY <1>2 DEF SettlesAt
<1>. QED BY <1>2, <1>3 DEF Settles

LEMMA DisconnectSettles ==
  ASSUME TypeOK, NEW gone \in BOOLEAN, Disconnect(gone), UNCHANGED <<drain, wire, accepted>>
  PROVE  Settles
<1>1. journal \in Seq(Operation) /\ journal' = LoggedOut(journal)
  BY JournalFacts DEF Disconnect
<1>. QED BY <1>1, LoggedOutFacts DEF Settles, SettlesAt

LEMMA RestartSettles ==
  ASSUME TypeOK, MailInv, Restart
  PROVE  Settles
<1>1. /\ journal \in Seq(Operation) /\ journal' = Interrupted(journal)
      /\ drain' = Idle /\ UNCHANGED <<wire, accepted>>
  BY JournalFacts DEF Restart, MailInv, DiskInv
<1>. QED BY <1>1, InterruptedFacts DEF Settles, SettlesAt

LEMMA DrainOnMoves ==
  ASSUME NEW j, NEW i, NEW limit, NEW st, DrainOn(j, i, limit, st, socket), UNCHANGED socket
  PROVE  drain' = Idle \/ (drain'.phase = "resolving" /\ drain'.socket = socket')
BY DEF DrainOn, FinishDrain

(* Where the loop waits, it waits at an operation of the journal.          *)
LEMMA DrainAt ==
  ASSUME TypeOK, MailInv, drain.phase # "idle"
  PROVE  drain.at \in DOMAIN journal /\ drain.at \in Nat
         /\ drain.phase \in {"resolving", "sending", "transmitted"}
BY JournalFacts DEF MailInv, DrainInv, DrainPoint

LEMMA DrainKinds == OutboxInv /\ Drain => Settles \/ Marks
<1>. SUFFICES ASSUME OutboxInv, Drain PROVE Settles \/ Marks
  OBVIOUS
<1>0. TypeOK /\ MailInv /\ StageInv
  BY DEF OutboxInv
<1>1. CASE RunImmediate
  <2>1. UNCHANGED <<journal, wire, accepted, socket>>
    BY <1>1 DEF RunImmediate, mail, conn, ghost
  <2>2. UNCHANGED drain \/ (drain'.phase = "resolving" /\ drain'.socket = socket')
    BY <1>1, <2>1 DEF RunImmediate
  <2>. QED BY <1>0, <2>1, <2>2, JournalFacts DEF Settles, SettlesAt
<1>2. CASE Resolved
  <2>1. CASE state # "connected" \/ socket # drain.socket
    <3>1. drain' = Idle /\ UNCHANGED <<journal, wire, accepted>>
      BY <1>2, <2>1 DEF Resolved, FinishDrain, mail, ghost
    <3>. QED BY <1>0, <3>1, JournalFacts DEF Settles, SettlesAt
  <2>2. CASE state = "connected" /\ socket = drain.socket
    BY <1>2, <2>2 DEF Resolved, Marks, SaveJournal, ghost
  <2>. QED BY <2>1, <2>2
<1>3. CASE NotResolved
  <2>1. /\ journal' = WithStatus(journal, drain.at, "failed")
        /\ drain.phase = "resolving"
        /\ DrainOn(journal', drain.at, drain.limit, state, socket)
        /\ UNCHANGED <<wire, accepted, socket>>
    BY <1>3 DEF NotResolved, SaveJournal, conn, ghost
  <2>2. drain' = Idle \/ (drain'.phase = "resolving" /\ drain'.socket = socket')
    BY <2>1, DrainOnMoves
  <2>3. drain.at \in DOMAIN journal /\ journal \in Seq(Operation) /\ "failed" \in Status
    BY <1>0, <2>1, DrainAt, JournalFacts DEF Status
  <2>4. journal'[drain.at].status = "failed"
    BY <2>1, <2>3, WithStatusFacts
  <2>5. SettlesAt(drain.at)
    BY <1>0, <2>1, <2>4 DEF StageInv, SettlesAt
  <2>. QED BY <1>0, <2>1, <2>2, <2>3, <2>5, OneSettles
<1>4. CASE SendReturns
  <2>1. /\ journal' = journal \/ journal' = WithStatus(journal, drain.at, "sent")
        /\ drain.phase = "transmitted" /\ HandedOver(drain.at)
        /\ DrainOn(journal', drain.at, drain.limit, state, socket)
        /\ UNCHANGED <<wire, accepted, socket>>
    BY <1>0, <1>4 DEF SendReturns, StageInv, SaveJournal, conn, ghost
  <2>2. drain' = Idle \/ (drain'.phase = "resolving" /\ drain'.socket = socket')
    BY <2>1, DrainOnMoves
  <2>3. drain.at \in DOMAIN journal /\ journal \in Seq(Operation) /\ "sent" \in Status
    BY <1>0, <2>1, DrainAt, JournalFacts DEF Status
  <2>4. CASE journal' = journal
    BY <1>0, <2>1, <2>2, <2>4, JournalFacts DEF Settles, SettlesAt
  <2>5. CASE journal' = WithStatus(journal, drain.at, "sent")
    <3>1. journal'[drain.at].status = "sent"
      BY <2>3, <2>5, WithStatusFacts
    <3>2. journal[drain.at].status # "pending"
      BY <1>0, <2>1 DEF MailInv, DrainInv
    <3>3. SettlesAt(drain.at)
      BY <2>1, <3>1, <3>2 DEF SettlesAt
    <3>. QED BY <1>0, <2>1, <2>2, <2>3, <2>5, <3>3, OneSettles
  <2>. QED BY <2>1, <2>4, <2>5
<1>5. CASE SendThrows
  <2>1. /\ IF journal[drain.at].status # "sent"
           THEN journal' = WithStatus(journal, drain.at, "unknown") ELSE journal' = journal
        /\ drain.phase \in {"sending", "transmitted"}
        /\ DrainOn(journal', drain.at, drain.limit, state, socket)
        /\ UNCHANGED <<wire, accepted, socket>>
    BY <1>5 DEF SendThrows, SaveJournal, conn, ghost
  <2>2. drain' = Idle \/ (drain'.phase = "resolving" /\ drain'.socket = socket')
    BY <2>1, DrainOnMoves
  <2>3. drain.at \in DOMAIN journal /\ journal \in Seq(Operation) /\ "unknown" \in Status
    BY <1>0, <2>1, DrainAt, JournalFacts DEF Status
  <2>4. CASE journal[drain.at].status = "sent"
    BY <1>0, <2>1, <2>2, <2>4, JournalFacts DEF Settles, SettlesAt
  <2>5. CASE journal[drain.at].status # "sent"
    <3>1. journal'[drain.at].status = "unknown"
      BY <2>1, <2>3, <2>5, WithStatusFacts
    <3>2. journal[drain.at].status # "pending"
      BY <1>0, <2>1 DEF MailInv, DrainInv
    <3>3. HandedOver(drain.at) \/ journal[drain.at].status \in {"processing", "unknown"}
      BY <1>0, <2>1 DEF StageInv
    <3>4. SettlesAt(drain.at)
      BY <2>5, <3>1, <3>2, <3>3 DEF SettlesAt
    <3>. QED BY <1>0, <2>1, <2>2, <2>3, <2>5, <3>4, OneSettles
  <2>. QED BY <2>4, <2>5
<1>. QED BY <1>1, <1>2, <1>3, <1>4, <1>5 DEF Drain

LEMMA NextKinds ==
  OutboxInv /\ [Next]_vars =>
    \/ Settles
    \/ Marks
    \/ \E k \in Key, p \in Payload : Enqueue(k, p)
    \/ Transmit
<1>. SUFFICES ASSUME OutboxInv, [Next]_vars,
                     ~Marks, ~(\E k \in Key, p \in Payload : Enqueue(k, p)), ~Transmit
              PROVE  Settles
  OBVIOUS
<1>0. TypeOK /\ MailInv /\ StageInv
  BY DEF OutboxInv
<1>1. CASE Drain
  BY <1>1, DrainKinds
<1>2. CASE Request
  <2>1. ASSUME NEW i \in DOMAIN journal, MessageOverdue(i) PROVE Settles
    <3>1. /\ journal' = WithStatus(journal, i, "unknown") /\ journal[i].status = "processing"
          /\ UNCHANGED <<drain, wire, accepted>>
      BY <2>1 DEF MessageOverdue, SaveJournal, loop, ghost
    <3>2. journal \in Seq(Operation) /\ "unknown" \in Status
      BY <1>0, JournalFacts DEF Status
    <3>3. journal'[i].status = "unknown"
      BY <3>1, <3>2, WithStatusFacts
    <3>4. SettlesAt(i)
      BY <3>1, <3>3 DEF SettlesAt
    <3>. QED BY <1>0, <3>1, <3>2, <3>4, OneSettles
  <2>2. CASE Connect
    BY <1>0, <2>2, UntouchedSettles DEF Connect, Open, mail, loop, ghost
  <2>3. ASSUME NEW why \in {"logout", "remove"}, Leave(why) PROVE Settles
    <3>1. UNCHANGED <<drain, wire, accepted>>
      BY <2>3 DEF Leave, loop, ghost
    <3>2. CASE UNCHANGED mail
      BY <1>0, <3>1, <3>2, UntouchedSettles DEF mail
    <3>3. CASE Disconnect(why = "remove")
      BY <1>0, <3>1, <3>3, DisconnectSettles
    <3>. QED BY <2>3, <3>2, <3>3 DEF Leave
  <2>. QED BY <1>2, <2>1, <2>2, <2>3 DEF Request
<1>3. CASE SocketEvent
  <2>1. ASSUME NEW i \in DOMAIN journal, NEW ok \in BOOLEAN, Acknowledge(i, ok) PROVE Settles
    <3>1. PICK new \in {"sent", "failed"} : journal' = WithStatus(journal, i, new)
      BY <2>1 DEF Acknowledge, SaveJournal
    <3>2. /\ HandedOver(i) /\ journal[i].status # "sent"
          /\ UNCHANGED <<drain, wire, accepted>>
      BY <2>1 DEF Acknowledge, loop, ghost
    <3>3. journal[i].status # "pending"
      BY <1>0, <3>2 DEF HandedOver, MailInv, WireInv
    <3>4. journal \in Seq(Operation) /\ new \in Status
      BY <1>0, JournalFacts DEF Status
    <3>5. journal'[i].status = new
      BY <3>1, <3>4, WithStatusFacts
    <3>6. SettlesAt(i)
      BY <3>2, <3>3, <3>5 DEF SettlesAt
    <3>. QED BY <1>0, <3>1, <3>2, <3>4, <3>6, OneSettles
  <2>2. ASSUME NEW g \in Generation, QrOffered(g) PROVE Settles
    BY <1>0, <2>2, UntouchedSettles DEF QrOffered, mail, loop, ghost
  <2>3. CASE Paired
    BY <1>0, <2>3, UntouchedSettles DEF Paired, mail, loop, ghost
  <2>4. CASE Opened
    <3>1. UNCHANGED <<journal, wire, accepted, socket>>
      BY <2>4 DEF Opened, mail, ghost
    <3>2. \/ UNCHANGED drain
          \/ drain' = Idle
          \/ drain'.phase = "resolving" /\ drain'.socket = socket'
      BY <2>4, <3>1, DrainOnMoves DEF Opened, loop
    <3>. QED BY <1>0, <3>1, <3>2, JournalFacts DEF Settles, SettlesAt
  <2>5. ASSUME NEW g \in Generation, NEW reason \in CloseReason, Closed(g, reason)
        PROVE  Settles
    BY <1>0, <2>5, UntouchedSettles DEF Closed, mail, loop, ghost
  <2>. QED BY <1>3, <2>1, <2>2, <2>3, <2>4, <2>5 DEF SocketEvent
<1>4. CASE TimerFires
  BY <1>0, <1>4, UntouchedSettles DEF TimerFires, Open, mail, loop, ghost
<1>5. CASE QrExpires
  BY <1>0, <1>5, UntouchedSettles DEF QrExpires, mail, loop, ghost
<1>6. ASSUME NEW g \in Generation, QrShown(g) \/ QrFails(g) PROVE Settles
  BY <1>0, <1>6, UntouchedSettles DEF QrShown, QrFails, mail, loop, ghost
<1>7. ASSUME NEW ok \in BOOLEAN, Left(ok) PROVE Settles
  <2>1. /\ Disconnect(leaving = "remove" /\ ok) /\ (leaving = "remove" /\ ok) \in BOOLEAN
        /\ UNCHANGED <<drain, wire, accepted>>
    BY <1>7 DEF Left, loop, ghost
  <2>. QED BY <1>0, <2>1, DisconnectSettles
<1>8. CASE Restart
  BY <1>0, <1>8, RestartSettles
<1>9. CASE UNCHANGED vars
  BY <1>0, <1>9, UntouchedSettles DEF vars, mail, loop, ghost
<1>. QED BY <1>1, <1>2, <1>3, <1>4, <1>5, <1>6, <1>7, <1>8, <1>9 DEF Next, Request

-----------------------------------------------------------------------------
(* The loop and the journal agree *)

LEMMA NextStage == OutboxInv /\ MailInv' /\ [Next]_vars => StageInv'
<1>. SUFFICES ASSUME OutboxInv, MailInv', [Next]_vars PROVE StageInv'
  OBVIOUS
<1>0. TypeOK /\ MailInv /\ StageInv
  BY DEF OutboxInv
<1>1. CASE Settles
  <2>1. CASE UNCHANGED drain
    <3>1. CASE drain.phase = "idle"
      BY <2>1, <3>1 DEF StageInv
    <3>2. CASE drain.phase # "idle"
      <4>1. drain.at \in DOMAIN journal
        BY <1>0, <3>2, DrainAt
      <4>2. SettlesAt(drain.at) /\ UNCHANGED wire
        BY <1>1, <4>1 DEF Settles
      <4>3. drain.phase \in {"resolving", "sending"} => ~HandedOver(drain.at)
        BY <1>0, <4>1, JournalFacts DEF HandedOver, MailInv, WireInv
      <4>. QED BY <1>0, <2>1, <4>2, <4>3 DEF StageInv, SettlesAt, HandedOver
    <3>. QED BY <3>1, <3>2
  <2>2. CASE drain' = Idle
    BY <2>2 DEF StageInv, Idle
  <2>3. CASE drain'.phase = "resolving" /\ drain'.socket = socket'
    BY <2>3 DEF StageInv, MailInv, DrainInv
  <2>. QED BY <1>1, <2>1, <2>2, <2>3 DEF Settles
<1>2. CASE Marks
  <2>1. drain.at \in DOMAIN journal /\ journal \in Seq(Operation) /\ "processing" \in Status
    BY <1>0, <1>2, DrainAt, JournalFacts DEF Marks, Status
  <2>2. journal'[drain.at].status = "processing"
    BY <1>2, <2>1, WithStatusFacts DEF Marks
  <2>3. drain'.phase = "sending" /\ drain'.at = drain.at
    BY <1>0, <1>2, JournalFacts DEF Marks, DrainPoint
  <2>. QED BY <2>2, <2>3 DEF StageInv
<1>3. ASSUME NEW k \in Key, NEW p \in Payload, Enqueue(k, p) PROVE StageInv'
  <2>. DEFINE new == [key |-> k, payload |-> p, status |-> "pending"]
  <2>1. journal' = Append(journal, new) /\ UNCHANGED <<drain, wire>>
    BY <1>3 DEF Enqueue, SaveJournal
  <2>2. new \in Operation
    BY DEF Operation, Status
  <2>. HIDE DEF new
  <2>3. \A i \in DOMAIN journal : journal'[i] = journal[i]
    BY <1>0, <2>1, <2>2, JournalFacts, AppendProperties
  <2>4. drain.phase # "idle" => journal'[drain.at] = journal[drain.at]
    BY <1>0, <2>3, DrainAt
  <2>. QED BY <1>0, <2>1, <2>4 DEF StageInv, HandedOver
<1>4. CASE Transmit
  <2>1. /\ drain.phase = "sending" /\ wire' = Append(wire, drain.at)
        /\ drain' = [drain EXCEPT !.phase = "transmitted"]
    BY <1>4 DEF Transmit
  <2>2. wire \in Seq(Nat) /\ drain.at \in Nat
    BY <1>0, <2>1, JournalFacts, DrainAt
  <2>3. drain'.phase = "transmitted" /\ drain'.at = drain.at
    BY <1>0, <2>1, JournalFacts DEF DrainPoint
  <2>4. HandedOver(drain.at)'
    BY <2>1, <2>2, <2>3, AppendProperties DEF HandedOver
  <2>. QED BY <2>3, <2>4 DEF StageInv
<1>. QED BY <1>1, <1>2, <1>3, <1>4, NextKinds

LEMMA OutboxAlways == Spec => []OutboxInv
<1>1. Init => StageInv
  BY DEF Init, StageInv, Idle
<1>2. OutboxInv /\ MailInv' /\ [Next]_vars => StageInv'
  BY NextStage
<1>3. OutboxInv <=> TypeOK /\ ConnectionInv /\ MailInv /\ StageInv
  BY DEF OutboxInv
<1>. QED BY <1>1, <1>2, <1>3, TypeCorrect, ConnectionAlways, MailAlways, PTL DEF Spec

-----------------------------------------------------------------------------
(* Refinement *)

LEMMA SettlesIsProgress == TypeOK /\ Settles => OutboxOf!Progress
BY DEF Settles, SettlesAt, HandedOver, OutboxOf!Progress, OutboxOf!MayBecome, OutboxOf!Left

LEMMA MarksIsProgress == TypeOK /\ MailInv /\ Marks => OutboxOf!Progress
<1>. SUFFICES ASSUME TypeOK, MailInv, Marks PROVE OutboxOf!Progress
  OBVIOUS
<1>1. /\ drain.phase = "resolving" /\ socket = drain.socket
      /\ journal' = WithStatus(journal, drain.at, "processing") /\ UNCHANGED wire
  BY DEF Marks
<1>2. /\ drain.at \in DOMAIN journal /\ journal \in Seq(Operation)
      /\ "processing" \in Status
  BY <1>1, DrainAt, JournalFacts DEF Status
<1>3. /\ Len(journal') = Len(journal)
      /\ journal'[drain.at].status = "processing"
      /\ journal'[drain.at].key = journal[drain.at].key
      /\ journal'[drain.at].payload = journal[drain.at].payload
      /\ \A n \in DOMAIN journal : n # drain.at => journal'[n] = journal[n]
  BY <1>1, <1>2, WithStatusFacts
<1>4. /\ journal[drain.at].status = "pending"
      /\ \A j \in 1..(drain.at - 1) : journal[j].status # "pending"
      /\ \A n \in DOMAIN wire : wire[n] < drain.at
  BY <1>1 DEF MailInv, DrainInv, WireInv
<1>5. OutboxOf!MayBecome(drain.at, journal'[drain.at].status)
  BY <1>3, <1>4 DEF OutboxOf!MayBecome
<1>6. \A n \in DOMAIN journal : n # drain.at => OutboxOf!MayBecome(n, journal'[n].status)
  BY <1>3 DEF OutboxOf!MayBecome
<1>. QED BY <1>1, <1>3, <1>5, <1>6 DEF OutboxOf!Progress

LEMMA TransmitIsLeave ==
  OutboxInv /\ Transmit => \E i \in DOMAIN journal : OutboxOf!Leave(i)
<1>. SUFFICES ASSUME OutboxInv, Transmit PROVE OutboxOf!Leave(drain.at) /\ drain.at \in DOMAIN journal
  OBVIOUS
<1>1. TypeOK /\ MailInv /\ StageInv
  BY DEF OutboxInv
<1>2. /\ drain.phase = "sending"
      /\ wire' = Append(wire, drain.at) /\ UNCHANGED journal
  BY DEF Transmit, mail
<1>3. drain.at \in DOMAIN journal /\ drain.at \in Nat
  BY <1>1, <1>2, DrainAt
<1>4. journal[drain.at].status \in {"processing", "unknown"}
  BY <1>1, <1>2 DEF StageInv
<1>5. \A n \in DOMAIN wire : wire[n] < drain.at
  BY <1>1, <1>2 DEF MailInv, WireInv
<1>. QED BY <1>2, <1>3, <1>4, <1>5 DEF OutboxOf!Leave

LEMMA EnqueueIsAccept ==
  ASSUME NEW k \in Key, NEW p \in Payload, Enqueue(k, p)
  PROVE  OutboxOf!Accept(k, p)
BY DEF Enqueue, SaveJournal, OutboxOf!Accept

LEMMA StepImplements == OutboxInv /\ [Next]_vars => [OutboxOf!Next]_(OutboxOf!vars)
<1>. SUFFICES ASSUME OutboxInv, [Next]_vars PROVE OutboxOf!Next
  OBVIOUS
<1>0. TypeOK /\ MailInv
  BY DEF OutboxInv
<1>1. CASE Settles
  BY <1>0, <1>1, SettlesIsProgress DEF OutboxOf!Next
<1>2. CASE Marks
  BY <1>0, <1>2, MarksIsProgress DEF OutboxOf!Next
<1>3. CASE \E k \in Key, p \in Payload : Enqueue(k, p)
  BY <1>3, EnqueueIsAccept DEF OutboxOf!Next
<1>4. CASE Transmit
  BY <1>4, TransmitIsLeave DEF OutboxOf!Next
<1>. QED BY <1>1, <1>2, <1>3, <1>4, NextKinds

(* The worker, with its connection, its queue runner and its crashes,      *)
(* implements the outbox: an idempotency key names one operation for good, *)
(* operations go out once and in order, and a settled one stays settled    *)
(* except where WhatsApp itself corrects it.                               *)
THEOREM ImplementsOutbox == Spec => OutboxSpec
<1>1. Init => OutboxOf!Init
  BY DEF Init, OutboxOf!Init
<1>. QED BY <1>1, StepImplements, OutboxAlways, PTL DEF Spec, OutboxSpec, OutboxOf!Spec

(* The other way round, what the application's models assume of the worker *)
(* is so: it keeps a message under its key with its payload, and its       *)
(* status only moves onward (Delivery.tla), in every turn of the process   *)
(* and across its restarts.                                                *)
OnwardStep ==
  \A i \in DOMAIN journal :
    /\ i \in DOMAIN journal'
    /\ journal'[i].key = journal[i].key /\ journal'[i].payload = journal[i].payload
    /\ journal'[i].status \in {journal[i].status} \cup Onward(journal[i].status)

LEMMA OutboxMovesOnward ==
  ASSUME TypeOK, TypeOK', [OutboxOf!Next]_(OutboxOf!vars)
  PROVE  OnwardStep
<1>1. journal \in Seq(Operation) /\ Len(journal) \in Nat /\ DOMAIN journal = 1..Len(journal)
  BY JournalFacts
<1>2. ASSUME NEW k \in Key, NEW p \in Payload, OutboxOf!Accept(k, p)
      PROVE  OnwardStep
  <2>. DEFINE new == [key |-> k, payload |-> p, status |-> "pending"]
  <2>1. journal' = Append(journal, new) /\ new \in Operation
    BY <1>2 DEF OutboxOf!Accept, Operation, Status
  <2>. HIDE DEF new
  <2>2. DOMAIN journal' = 1..(Len(journal) + 1) /\ \A i \in DOMAIN journal : journal'[i] = journal[i]
    BY <1>1, <2>1, AppendProperties
  <2>. QED BY <1>1, <2>2 DEF OnwardStep
<1>3. CASE OutboxOf!Progress
  <2>1. ASSUME NEW i \in DOMAIN journal
        PROVE  /\ journal'[i].key = journal[i].key /\ journal'[i].payload = journal[i].payload
               /\ OutboxOf!MayBecome(i, journal'[i].status)
    BY <1>3 DEF OutboxOf!Progress
  <2>2. ASSUME NEW i \in DOMAIN journal
        PROVE  journal'[i].status \in {journal[i].status} \cup Onward(journal[i].status)
    <3>1. journal[i] \in Operation
      BY <1>1
    <3>2. journal[i].status \in Status
      BY <3>1 DEF Operation
    <3>. QED BY <2>1, <3>2 DEF OutboxOf!MayBecome, Onward, Status
  <2>3. DOMAIN journal' = DOMAIN journal
    <3>1. journal' \in Seq(Operation)
      BY DEF TypeOK
    <3>2. Len(journal') = Len(journal)
      BY <1>3 DEF OutboxOf!Progress
    <3>. QED BY <1>1, <3>1, <3>2
  <2>. QED BY <2>1, <2>2, <2>3 DEF OnwardStep
<1>4. CASE UNCHANGED journal
  BY <1>4 DEF OnwardStep
<1>. QED BY <1>2, <1>3, <1>4 DEF OutboxOf!Next, OutboxOf!Leave, OutboxOf!vars

THEOREM MovesOnward == Spec => [][OnwardStep]_vars
<1>1. OutboxInv /\ OutboxInv' /\ [Next]_vars => OnwardStep
  BY StepImplements, OutboxMovesOnward DEF OutboxInv
<1>. QED BY <1>1, OutboxAlways, PTL DEF Spec

-----------------------------------------------------------------------------
(* What was accepted is kept *)

LEMMA NextKept ==
  OutboxInv /\ KeysDistinct /\ AcceptedKept /\ [Next]_vars => KeysDistinct' /\ AcceptedKept'
<1>. SUFFICES ASSUME OutboxInv, KeysDistinct, AcceptedKept, [Next]_vars
              PROVE  KeysDistinct' /\ AcceptedKept'
  OBVIOUS
<1>0. TypeOK /\ MailInv
  BY DEF OutboxInv
<1>1. ASSUME DOMAIN journal' = DOMAIN journal, UNCHANGED accepted,
             \A i \in DOMAIN journal : /\ journal'[i].key = journal[i].key
                                       /\ journal'[i].payload = journal[i].payload
      PROVE  KeysDistinct' /\ AcceptedKept'
  BY <1>1 DEF KeysDistinct, AcceptedKept
<1>2. CASE Settles
  BY <1>1, <1>2 DEF Settles
<1>3. CASE Marks
  <2>1. /\ drain.at \in DOMAIN journal /\ journal \in Seq(Operation)
        /\ "processing" \in Status
        /\ journal' = WithStatus(journal, drain.at, "processing") /\ UNCHANGED accepted
    BY <1>0, <1>3, DrainAt, JournalFacts DEF Marks, Status
  <2>2. /\ DOMAIN journal' = DOMAIN journal
        /\ journal'[drain.at].key = journal[drain.at].key
        /\ journal'[drain.at].payload = journal[drain.at].payload
        /\ \A n \in DOMAIN journal : n # drain.at => journal'[n] = journal[n]
    BY <2>1, WithStatusFacts
  <2>. QED BY <1>1, <2>1, <2>2
<1>4. ASSUME NEW k \in Key, NEW p \in Payload, Enqueue(k, p)
      PROVE  KeysDistinct' /\ AcceptedKept'
  <2>. DEFINE new == [key |-> k, payload |-> p, status |-> "pending"]
  <2>1. /\ journal' = Append(journal, new) /\ accepted' = accepted \cup {<<k, p>>}
        /\ \A i \in DOMAIN journal : journal[i].key # k
    BY <1>4 DEF Enqueue, SaveJournal
  <2>2. new \in Operation /\ new.key = k /\ new.payload = p
    BY DEF Operation, Status
  <2>. HIDE DEF new
  <2>3. /\ journal \in Seq(Operation) /\ Len(journal) \in Nat /\ DOMAIN journal = 1..Len(journal)
    BY <1>0, JournalFacts
  <2>4. /\ DOMAIN journal' = 1..(Len(journal) + 1) /\ journal'[Len(journal) + 1] = new
        /\ \A i \in DOMAIN journal : journal'[i] = journal[i]
    BY <2>1, <2>2, <2>3, AppendProperties
  <2>5. /\ \A i \in DOMAIN journal' : i \in DOMAIN journal \/ i = Len(journal) + 1
        /\ DOMAIN journal \subseteq DOMAIN journal' /\ Len(journal) + 1 \in DOMAIN journal'
    BY <2>3, <2>4
  <2>6. KeysDistinct'
    BY <2>1, <2>2, <2>4, <2>5 DEF KeysDistinct
  <2>7. AcceptedKept'
    BY <2>1, <2>2, <2>4, <2>5 DEF AcceptedKept
  <2>. QED BY <2>6, <2>7
<1>5. CASE Transmit
  BY <1>1, <1>5 DEF Transmit, mail
<1>. QED BY <1>2, <1>3, <1>4, <1>5, NextKinds

(* Every message answered 202 stays in the journal, the only one under its *)
(* key, through every crash and restart.                                   *)
THEOREM AcceptedNeverLost == Spec => []AcceptedSurvives
<1>1. Init => KeysDistinct /\ AcceptedKept
  BY DEF Init, KeysDistinct, AcceptedKept
<1>2. OutboxInv /\ KeysDistinct /\ AcceptedKept /\ [Next]_vars => KeysDistinct' /\ AcceptedKept'
  BY NextKept
<1>3. KeysDistinct /\ AcceptedKept => AcceptedSurvives
  <2>. SUFFICES ASSUME KeysDistinct, AcceptedKept, NEW a \in accepted
                PROVE  \E i \in DOMAIN journal :
                         /\ <<journal[i].key, journal[i].payload>> = a
                         /\ \A h \in DOMAIN journal : journal[h].key = a[1] => h = i
    BY DEF AcceptedSurvives
  <2>1. PICK i \in DOMAIN journal : <<journal[i].key, journal[i].payload>> = a
    BY DEF AcceptedKept
  <2>2. a[1] = journal[i].key
    BY <2>1
  <2>. QED BY <2>1, <2>2 DEF KeysDistinct
<1>. QED BY <1>1, <1>2, <1>3, OutboxAlways, PTL DEF Spec
=============================================================================

------------------------------- MODULE Worker -------------------------------
(***************************************************************************)
(* One saved connection of the WhatsApp worker (whatsapp-worker/           *)
(* manager.mjs): its journal of accepted messages in memory and on disk,   *)
(* its socket and reconnect timer, the drain loop that sends pending       *)
(* messages, acknowledgements, logout, removal, and restarts of the        *)
(* process. JavaScript runs one turn at a time, so an action is one turn:  *)
(* everything a handler does between two awaits. Crashes may fall between  *)
(* any two turns.                                                          *)
(*                                                                         *)
(* Sockets are named by the generation that created them, 0 meaning none.  *)
(* The definitions named ...Unchecked, ...Leaking and the like, in front   *)
(* of the one they vary, are slips the properties must notice; no action   *)
(* uses them.                                                              *)
(* The other end (Baileys and WhatsApp) is external: it may close a        *)
(* socket, delay, drop or reorder acknowledgements, and hang or fail any   *)
(* call.                                                                   *)
(***************************************************************************)
EXTENDS Naturals, Sequences, Delivery

CONSTANTS Key,            \* idempotency keys callers use
          Payload,        \* message bodies (compared by hash only)
          MaxGeneration,  \* bound: sockets and logouts of one process
          MaxCrashes,     \* bound: restarts of the process
          MaxMessages     \* bound: accepted messages

ASSUME BoundsAssumption ==
  /\ MaxGeneration \in Nat \ {0}
  /\ MaxCrashes \in Nat
  /\ MaxMessages \in Nat

VARIABLES
  journal,     \* s.journal: operations in insertion order
  disk,        \* messages.enc
  stored,      \* does the session directory exist?
  present,     \* is the session object in manager.sessions?
  state,       \* s.state
  socket,      \* s.socket
  live,        \* sockets created and neither ended nor closed
  closing,     \* sockets ended by us, their close event still to come
  generation,  \* s.generation
  stopped,     \* s.stopped
  timer,       \* is s.reconnectTimer armed?
  paired,      \* s.auth.creds.me (saved with every change)
  qr,          \* is s.qr set?
  rendering,   \* sockets whose QR image is being rendered
  leaving,     \* a logout or remove waiting for socket.logout()
  drain,       \* the drain loop: where it waits, at which operation, on which socket
  immediate,   \* is a drain scheduled with setImmediate?
  wire,        \* history: operations handed to WhatsApp, in order
  accepted,    \* history: <<key, payload>> answered 202
  crashes

mail == <<journal, disk, stored>>
auth == <<paired, present>>
conn == <<state, socket, live, closing, generation, stopped, timer, qr, rendering, leaving>>
loop == <<drain, immediate>>
ghost == <<wire, accepted, crashes>>
vars == <<mail, auth, conn, loop, ghost>>

Generation == 0..MaxGeneration
Operation == [key : Key, payload : Payload, status : Status]
State == {"disconnected", "connecting", "reconnecting", "qr_required", "connected", "failed"}

DrainPoint ==
  [phase : {"idle", "resolving", "sending", "transmitted"}, at : Nat, limit : Nat,
   socket : Generation]
Idle == [phase |-> "idle", at |-> 0, limit |-> 0, socket |-> 0]

TypeOK ==
  /\ journal \in Seq(Operation) /\ disk \in Seq(Operation)
  /\ stored \in BOOLEAN /\ present \in BOOLEAN
  /\ state \in State
  /\ socket \in Generation /\ generation \in Generation
  /\ live \subseteq Generation /\ closing \subseteq Generation /\ rendering \subseteq Generation
  /\ stopped \in BOOLEAN /\ timer \in BOOLEAN /\ paired \in BOOLEAN /\ qr \in BOOLEAN
  /\ leaving \in {"no", "logout", "remove"}
  /\ drain \in DrainPoint
  /\ immediate \in BOOLEAN
  /\ wire \in Seq(Nat)
  /\ accepted \subseteq Key \X Payload
  /\ crashes \in 0..MaxCrashes

-----------------------------------------------------------------------------
(* Journal *)

(* saveJournal: written to a temporary file and renamed, in the same turn. *)
(* It recreates the directory if it is gone.                               *)
SaveJournal(j) == journal' = j /\ disk' = j /\ stored' = TRUE

WithStatus(j, i, new) == [j EXCEPT ![i].status = new]

Pending(j) == {i \in DOMAIN j : j[i].status = "pending"}

(* session(): a send the previous process may have handed over is never    *)
(* replayed.                                                               *)
InterruptedRetried(j) ==
  [i \in DOMAIN j |-> IF j[i].status = "processing"
                      THEN [j[i] EXCEPT !.status = "pending"] ELSE j[i]]
Interrupted(j) ==
  [i \in DOMAIN j |-> IF j[i].status = "processing"
                      THEN [j[i] EXCEPT !.status = "unknown"] ELSE j[i]]

LoggedOut(j) ==
  [i \in DOMAIN j |-> IF j[i].status = "pending"
                      THEN [j[i] EXCEPT !.status = "failed"] ELSE j[i]]

-----------------------------------------------------------------------------
(* The drain loop *)

(* finally: the loop ends, and starts again if it left something pending.  *)
FinishDrainNoRetry(j, st) == drain' = Idle /\ UNCHANGED immediate
FinishDrain(j, st) ==
  /\ drain' = Idle
  /\ immediate' = (immediate \/ (st = "connected" /\ Pending(j) # {}))

(* The loop goes on from position i to the next pending operation of its   *)
(* snapshot and starts resolving its recipient, or ends.                   *)
DrainOn(j, i, limit, st, sk) ==
  \/ /\ st = "connected"
     /\ \E n \in (i + 1)..limit :
          /\ j[n].status = "pending"
          /\ \A m \in (i + 1)..(n - 1) : j[m].status # "pending"
          /\ drain' = [phase |-> "resolving", at |-> n, limit |-> limit, socket |-> sk]
     /\ UNCHANGED immediate
  \/ /\ st # "connected" \/ \A n \in (i + 1)..limit : j[n].status # "pending"
     /\ FinishDrain(j, st)

RunImmediate ==
  /\ immediate /\ immediate' = FALSE
  /\ IF drain.phase # "idle" \/ state # "connected" \/ Pending(journal) = {}
     THEN UNCHANGED drain
     ELSE \E n \in Pending(journal) :
            /\ \A m \in 1..(n - 1) : journal[m].status # "pending"
            /\ drain' = [phase |-> "resolving", at |-> n, limit |-> Len(journal),
                         socket |-> socket]
  /\ UNCHANGED <<mail, auth, conn, ghost>>

(* The recipient is resolved. The connection is looked at again before the *)
(* operation is marked, saved, and handed to sendMessage.                  *)
ResolvedUnchecked ==
  /\ drain.phase = "resolving"
  /\ IF state # "connected"
     THEN FinishDrain(journal, state) /\ UNCHANGED mail
     ELSE /\ SaveJournal(WithStatus(journal, drain.at, "processing"))
          /\ drain' = [drain EXCEPT !.phase = "sending"]
          /\ UNCHANGED immediate
  /\ UNCHANGED <<auth, conn, ghost>>
Resolved ==
  /\ drain.phase = "resolving"
  /\ IF state # "connected" \/ socket # drain.socket
     THEN FinishDrain(journal, state) /\ UNCHANGED mail
     ELSE /\ SaveJournal(WithStatus(journal, drain.at, "processing"))
          /\ drain' = [drain EXCEPT !.phase = "sending"]
          /\ UNCHANGED immediate
  /\ UNCHANGED <<auth, conn, ghost>>

NotResolved ==
  /\ drain.phase = "resolving"
  /\ LET j == WithStatus(journal, drain.at, "failed")
     IN SaveJournal(j) /\ DrainOn(j, drain.at, drain.limit, state, socket)
  /\ UNCHANGED <<auth, conn, ghost>>

HandedOver(i) == \E n \in DOMAIN wire : wire[n] = i

(* External: somewhere inside sendMessage the stanza goes out.             *)
Transmit ==
  /\ drain.phase = "sending" /\ drain' = [drain EXCEPT !.phase = "transmitted"]
  /\ wire' = Append(wire, drain.at)
  /\ UNCHANGED <<mail, auth, conn, immediate, accepted, crashes>>

(* sendMessage resolves. Its response is normally PENDING and only an      *)
(* acknowledgement settles the operation.                                  *)
SendReturns ==
  /\ drain.phase = "transmitted"
  /\ \E j \in {journal, WithStatus(journal, drain.at, "sent")} :
       SaveJournal(j) /\ DrainOn(j, drain.at, drain.limit, state, socket)
  /\ UNCHANGED <<auth, conn, ghost>>

SendThrows ==
  /\ drain.phase \in {"sending", "transmitted"}
  /\ LET j == IF journal[drain.at].status # "sent"
              THEN WithStatus(journal, drain.at, "unknown") ELSE journal
     IN SaveJournal(j) /\ DrainOn(j, drain.at, drain.limit, state, socket)
  /\ UNCHANGED <<auth, conn, ghost>>

-----------------------------------------------------------------------------
(* Requests and acknowledgements *)

(* POST messages. Repeating a key with its payload answers 202 again;      *)
(* another payload, or a connection that is not up, answers 409: neither   *)
(* changes anything.                                                       *)
EnqueueUnsaved(k, p) ==
  /\ present /\ state = "connected"
  /\ Len(journal) < MaxMessages
  /\ \A i \in DOMAIN journal : journal[i].key # k
  /\ journal' = Append(journal, [key |-> k, payload |-> p, status |-> "pending"])
  /\ immediate' = TRUE
  /\ accepted' = accepted \cup {<<k, p>>}
  /\ UNCHANGED <<disk, stored, auth, conn, drain, wire, crashes>>
Enqueue(k, p) ==
  /\ present /\ state = "connected"
  /\ Len(journal) < MaxMessages
  /\ \A i \in DOMAIN journal : journal[i].key # k
  /\ SaveJournal(Append(journal, [key |-> k, payload |-> p, status |-> "pending"]))
  /\ immediate' = TRUE
  /\ accepted' = accepted \cup {<<k, p>>}
  /\ UNCHANGED <<auth, conn, drain, wire, crashes>>

(* GET messages/<id> more than two minutes after the attempt.              *)
MessageOverdue(i) ==
  /\ present /\ journal[i].status = "processing"
  /\ SaveJournal(WithStatus(journal, i, "unknown"))
  /\ UNCHANGED <<auth, conn, loop, ghost>>

(* CB:ack and messages.update, from the current socket only: a positive    *)
(* server acknowledgement is final, a rejection is not.                    *)
AcknowledgeRaw(i, ok) ==
  /\ generation \in live /\ HandedOver(i)
  /\ journal[i].status # "sent"
  /\ SaveJournal(WithStatus(journal, i, IF ok THEN "sent" ELSE "error"))
  /\ UNCHANGED <<auth, conn, loop, ghost>>
Acknowledge(i, ok) ==
  /\ generation \in live /\ HandedOver(i)
  /\ journal[i].status # "sent"
  /\ SaveJournal(WithStatus(journal, i, IF ok THEN "sent" ELSE "failed"))
  /\ UNCHANGED <<auth, conn, loop, ghost>>

-----------------------------------------------------------------------------
(* Connection *)

(* open(): a new socket replaces the current one.                          *)
OpenLeaking ==
  /\ generation < MaxGeneration
  /\ generation' = generation + 1 /\ socket' = generation + 1
  /\ live' = live \cup {generation + 1}
  /\ state' = IF paired THEN "reconnecting" ELSE "connecting"
  /\ stopped' = FALSE /\ timer' = FALSE
  /\ UNCHANGED <<mail, auth, closing, qr, rendering, leaving, loop, ghost>>
Open ==
  /\ generation < MaxGeneration
  /\ generation' = generation + 1 /\ socket' = generation + 1
  /\ live' = (live \ {socket}) \cup {generation + 1}
  /\ closing' = closing \cup (live \cap {socket})
  /\ state' = IF paired THEN "reconnecting" ELSE "connecting"
  /\ stopped' = FALSE /\ timer' = FALSE
  /\ UNCHANGED <<mail, auth, qr, rendering, leaving, loop, ghost>>

Attached == socket # 0 /\ state \in {"connected", "connecting", "qr_required", "reconnecting"}

(* POST connect.                                                           *)
Connect == present /\ ~Attached /\ Open

TimerFires ==
  /\ timer /\ present
  /\ IF stopped \/ Attached
     THEN timer' = FALSE
          /\ UNCHANGED <<mail, auth, state, socket, live, closing, generation, stopped, qr,
                         rendering, leaving, loop, ghost>>
     ELSE Open

(* connection.update with a QR code: rendering the image is awaited.       *)
QrOffered(g) ==
  /\ g \in live /\ g = generation /\ ~paired /\ state # "connected"
  /\ rendering' = rendering \cup {g}
  /\ UNCHANGED <<mail, auth, state, socket, live, closing, generation, stopped, timer, qr,
                 leaving, loop, ghost>>

QrShownUnchecked(g) ==
  /\ g \in rendering /\ rendering' = rendering \ {g}
  /\ IF g # generation
     THEN UNCHANGED <<state, qr>>
     ELSE state' = "qr_required" /\ qr' = TRUE
  /\ UNCHANGED <<mail, auth, socket, live, closing, generation, stopped, timer, leaving, loop,
                 ghost>>
QrShown(g) ==
  /\ g \in rendering /\ rendering' = rendering \ {g}
  /\ IF g # generation \/ state = "connected" \/ stopped
     THEN UNCHANGED <<state, qr>>
     ELSE state' = "qr_required" /\ qr' = TRUE
  /\ UNCHANGED <<mail, auth, socket, live, closing, generation, stopped, timer, leaving, loop,
                 ghost>>

QrFails(g) ==
  /\ g \in rendering /\ rendering' = rendering \ {g}
  /\ IF g = generation
     THEN state' = "failed" /\ qr' = FALSE
     ELSE UNCHANGED <<state, qr>>
  /\ UNCHANGED <<mail, auth, socket, live, closing, generation, stopped, timer, leaving, loop,
                 ghost>>

(* status(): a QR code shown for 45 seconds has expired.                   *)
QrExpires ==
  /\ present /\ qr /\ qr' = FALSE
  /\ state' = IF state = "qr_required" THEN "connecting" ELSE state
  /\ UNCHANGED <<mail, auth, socket, live, closing, generation, stopped, timer, rendering,
                 leaving, loop, ghost>>

(* creds.update after the phone scanned the code.                          *)
Paired ==
  /\ generation \in live /\ ~paired /\ paired' = TRUE
  /\ UNCHANGED <<mail, present, conn, loop, ghost>>

(* connection.update "open": the drain starts in the same turn.            *)
Opened ==
  /\ generation \in live /\ paired /\ state # "connected"
  /\ state' = "connected" /\ qr' = FALSE
  /\ IF drain.phase = "idle"
     THEN DrainOn(journal, 0, Len(journal), "connected", socket)
     ELSE UNCHANGED loop
  /\ UNCHANGED <<mail, auth, socket, live, closing, generation, stopped, timer, rendering,
                 leaving, ghost>>

(* connection.update "close" from socket g. Of a socket that has been      *)
(* replaced or logged out nothing more is heard.                           *)
CloseReason == {"loggedOut", "connectionReplaced", "other"}
ClosedAnyGeneration(g, reason) ==
  /\ g \in live \cup closing
  /\ live' = live \ {g} /\ closing' = closing \ {g}
  /\ socket' = 0 /\ qr' = FALSE
  /\ state' = IF stopped \/ reason # "other" THEN "disconnected" ELSE "reconnecting"
  /\ stopped' = (stopped \/ reason # "other")
  /\ timer' = (timer \/ (~stopped /\ reason = "other"))
  /\ paired' = (paired /\ (stopped \/ reason # "loggedOut"))
  /\ UNCHANGED <<mail, present, generation, rendering, leaving, loop, ghost>>
Closed(g, reason) ==
  /\ g \in live \cup closing
  /\ live' = live \ {g} /\ closing' = closing \ {g}
  /\ IF g # generation
     THEN UNCHANGED <<socket, qr, state, stopped, timer, paired>>
     ELSE /\ socket' = 0 /\ qr' = FALSE
          /\ state' = IF stopped \/ reason # "other" THEN "disconnected" ELSE "reconnecting"
          /\ stopped' = (stopped \/ reason # "other")
          /\ timer' = (timer \/ (~stopped /\ reason = "other"))
          /\ paired' = (paired /\ (stopped \/ reason # "loggedOut"))
  /\ UNCHANGED <<mail, present, generation, rendering, leaving, loop, ghost>>

-----------------------------------------------------------------------------
(* Logout, removal, restart *)

(* What is left of logout() after its await, and of remove() after that.   *)
(* A removed object stays reachable from a drain in flight.                *)
DisconnectKeepingSocket(gone) ==
  /\ socket' = 0 /\ qr' = FALSE /\ state' = "disconnected" /\ paired' = FALSE
  /\ journal' = LoggedOut(journal)
  /\ disk' = IF gone THEN <<>> ELSE LoggedOut(journal)
  /\ stored' = ~gone /\ present' = ~gone
  /\ UNCHANGED <<live, closing>>
Disconnect(gone) ==
  /\ live' = live \ {socket} /\ closing' = closing \cup (live \cap {socket})
  /\ socket' = 0 /\ qr' = FALSE /\ state' = "disconnected" /\ paired' = FALSE
  /\ journal' = LoggedOut(journal)
  /\ disk' = IF gone THEN <<>> ELSE LoggedOut(journal)
  /\ stored' = ~gone /\ present' = ~gone

(* logout() and remove(): the socket's events are ignored from here on. A  *)
(* paired socket is asked to log out, and the answer is awaited.           *)
Leave(why) ==
  /\ present /\ leaving = "no" /\ generation < MaxGeneration
  /\ stopped' = TRUE /\ timer' = FALSE /\ generation' = generation + 1
  /\ IF socket # 0 /\ paired
     THEN leaving' = why /\ UNCHANGED <<mail, auth, state, socket, live, closing, qr>>
     ELSE UNCHANGED leaving /\ Disconnect(why = "remove")
  /\ UNCHANGED <<rendering, loop, ghost>>

(* The await settles. If socket.logout() threw, remove() goes no further.  *)
Left(ok) ==
  /\ leaving # "no" /\ leaving' = "no"
  /\ Disconnect(leaving = "remove" /\ ok)
  /\ UNCHANGED <<generation, stopped, timer, rendering, loop, ghost>>

(* The process dies, or close() runs on SIGTERM, and a new one restores    *)
(* the session from its files and reconnects it if it is paired.           *)
Restart ==
  /\ present /\ crashes < MaxCrashes /\ crashes' = crashes + 1
  /\ journal' = Interrupted(disk) /\ disk' = Interrupted(disk)
  /\ generation' = IF paired THEN 1 ELSE 0
  /\ socket' = IF paired THEN 1 ELSE 0
  /\ live' = IF paired THEN {1} ELSE {}
  /\ state' = IF paired THEN "reconnecting" ELSE "disconnected"
  /\ closing' = {} /\ stopped' = FALSE /\ timer' = FALSE /\ qr' = FALSE /\ rendering' = {}
  /\ leaving' = "no" /\ drain' = Idle /\ immediate' = FALSE
  /\ UNCHANGED <<stored, auth, wire, accepted>>

-----------------------------------------------------------------------------
Init ==
  /\ journal = <<>> /\ disk = <<>> /\ stored = TRUE /\ present = TRUE
  /\ state = "disconnected" /\ socket = 0 /\ live = {} /\ closing = {} /\ generation = 0
  /\ stopped = FALSE /\ timer = FALSE /\ paired = FALSE /\ qr = FALSE /\ rendering = {}
  /\ leaving = "no" /\ drain = Idle /\ immediate = FALSE
  /\ wire = <<>> /\ accepted = {} /\ crashes = 0

Drain == RunImmediate \/ Resolved \/ NotResolved \/ SendReturns \/ SendThrows

Request ==
  \/ \E k \in Key, p \in Payload : Enqueue(k, p)
  \/ \E i \in DOMAIN journal : MessageOverdue(i)
  \/ Connect
  \/ \E why \in {"logout", "remove"} : Leave(why)

SocketEvent ==
  \/ \E i \in DOMAIN journal, ok \in BOOLEAN : Acknowledge(i, ok)
  \/ \E g \in Generation : QrOffered(g)
  \/ Paired
  \/ Opened
  \/ \E g \in Generation, reason \in CloseReason : Closed(g, reason)

Next ==
  \/ Drain \/ Request \/ SocketEvent
  \/ Transmit
  \/ TimerFires
  \/ QrExpires
  \/ \E g \in Generation : QrShown(g) \/ QrFails(g)
  \/ \E ok \in BOOLEAN : Left(ok)
  \/ Restart

Spec == Init /\ [][Next]_vars

(* Scheduled callbacks run, and awaited library calls settle: Baileys ends *)
(* every query with a timeout.                                             *)
FairSpec ==
  /\ Spec
  /\ WF_vars(RunImmediate)
  /\ WF_vars(Resolved \/ NotResolved)
  /\ WF_vars(SendReturns \/ SendThrows)

-----------------------------------------------------------------------------
(* Properties *)

(* No operation is handed to WhatsApp twice, whatever crashes, reconnects  *)
(* and retries happen, and operations go out in the order they were        *)
(* accepted (the journal write before sendMessage, manager.mjs:291-299).   *)
SentOnceInOrder == \A m, n \in DOMAIN wire : m < n => wire[m] < wire[n]

(* A message answered 202 stays in the journal, under its key and with its *)
(* payload, across restarts, until the connection is removed.              *)
AcceptedSurvives ==
  present => \A a \in accepted : \E i \in DOMAIN journal :
                /\ <<journal[i].key, journal[i].payload>> = a
                /\ \A h \in DOMAIN journal : journal[h].key = a[1] => h = i

(* Two sockets never hold the same credentials at once: only s.socket can  *)
(* be open (open(), logout() and the generation guards).                   *)
OneLiveSocket == live \subseteq {socket} \ {0}

(* While the state says connected there is a socket: the drain loop reads  *)
(* s.socket.user without checking.                                         *)
ConnectedHasSocket == state = "connected" => socket # 0

(* After a logout, or a close that WhatsApp made final, no socket is open  *)
(* and nothing is scheduled that would open one.                           *)
StoppedIsDown == stopped /\ leaving = "no" => live = {} /\ ~timer

(* A connected session stays connected while its socket is open: no late   *)
(* QR image or QR expiry, no close event of a socket it replaced and no    *)
(* reconnect timer takes it down (the re-checks at manager.mjs:99, 108,    *)
(* 125 and 128). Only a QR image that cannot be rendered reports "failed". *)
ConnectionKept ==
  [][state = "connected" /\ socket \in live /\ socket \in live' /\ crashes' = crashes
       => state' \in {"connected", "failed"}]_vars

(* The worker implements the outbox its callers rely on.                   *)
OutboxOf == INSTANCE Outbox WITH Key <- Key, Payload <- Payload, journal <- journal, wire <- wire
OutboxSpec == OutboxOf!Spec

(* While the connection stays up, every pending message is eventually      *)
(* attempted or settled: no enqueue is lost to a drain already running.    *)
PendingMoves ==
  \A n \in 1..MaxMessages :
    (n \in DOMAIN journal /\ journal[n].status = "pending")
      ~> ~(state = "connected" /\ n \in DOMAIN journal /\ journal[n].status = "pending")

(* "Deleting a connection also logs it out and removes its local session   *)
(* data" (docs/whatsapp.md:12): once removed, no file of it is left.       *)
RemovedDataGone == ~present => ~stored
=============================================================================

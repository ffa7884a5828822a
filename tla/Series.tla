------------------------------- MODULE Series -------------------------------
(***************************************************************************)
(* A message series: one part of the plan per occurrence of its schedule   *)
(* (app/services/series.py, with the job actions of routers/jobs.py, the   *)
(* poll of native_jobs.py and the restart of scheduler.py). A run claims   *)
(* the next position in the database, commits it with one attempt for      *)
(* every piece of the part, sends the pieces one by one, and is finished   *)
(* by whoever sees the last attempt settled.                               *)
(*                                                                         *)
(* The end of a run refreshes the job under the database's write lock, so  *)
(* only attempts can be seen stale: a session keeps those it has loaded.   *)
(* A run is named by its position. Skips, the misfire grace and deletion   *)
(* are left to Campaign and Library.                                       *)
(*                                                                         *)
(* A definition named like its successor with a word added is a slip the   *)
(* properties must notice; no action uses it.                              *)
(***************************************************************************)
EXTENDS Integers, Sequences, FiniteSets

CONSTANTS Caller,     \* coroutines that run send_job
          Total,      \* parts of the plan
          Pieces,     \* attempts of each part: recipients times message and files
          Kinds,      \* kinds of schedule
          Dates,      \* picked dates of a "dates" schedule
          MaxEdits,   \* bound: edits
          MaxAsks,    \* bound: stops and edits together
          MaxCrashes  \* bound: restarts

ASSUME SeriesAssumption ==
  /\ Total \in Nat \ {0} /\ Pieces \in [1..Total -> Nat \ {0}] /\ Dates \in Nat \ {0}
  /\ Kinds \subseteq {"cron", "dates", "trigger"}
  /\ MaxAsks \in Nat /\ MaxEdits \in Nat /\ MaxCrashes \in Nat

VARIABLES
  job,        \* the row: status, kind, series_cursor, series_active_run (0: none)
  provider,   \* of its connection
  scheduled,  \* is its timer in the scheduler?
  datesLeft,  \* picked dates still to come
  entry,      \* status of each part
  attempt,    \* status of each piece of each part; is its relay_message_id set?
  active,     \* ACTIVE_RUNS
  caller,     \* coroutines in submit_series
  poll,       \* poll_deliveries: the attempts its session has loaded
  plan,       \* version of the plan
  of,         \* version each claimed part was taken from
  tried,      \* provider calls made for each piece
  straddled,  \* has a poll or a restart come between a run's last piece and its end,
              \* or a poll between a piece and its outcome?
  stops, edits, crashes

rows == <<job, entry, attempt>>
fixed == <<provider, plan, edits>>
vars == <<rows, fixed, scheduled, datesLeft, active, caller, poll, of, tried, straddled,
          stops, crashes>>

Part == 1..Total
Piece(p) == 1..Pieces[p]
Status == {"active", "trigger", "queued", "paused", "cancelled", "completed", "failed", "unknown"}
Job == [status : Status, kind : {"cron", "dates", "trigger"}, cursor : 0..Total, run : 0..Total]
Row == [status : {"none", "submitting", "queued", "sent", "failed", "unknown"}, id : BOOLEAN]
PENDING == {"submitting", "queued"}
Claimable == {"active", "trigger"}

Coroutine == [phase : {"idle", "loaded", "sending", "closing"}, view : Job, plan : 0..MaxEdits,
              part : 0..Total, own : Seq(Row)]
Asleep == [phase |-> "idle", plan |-> 0, part |-> 0, own |-> <<>>,
           view |-> [status |-> "active", kind |-> "cron", cursor |-> 0, run |-> 0]]
NoRow == [status |-> "none", id |-> FALSE]
NoRows == [p \in Part |-> [k \in Piece(p) |-> NoRow]]
NoPoll == [part |-> 0, view |-> <<>>]

TypeOK ==
  /\ job \in Job /\ provider \in {"native", "whatsapp"} /\ scheduled \in BOOLEAN
  /\ datesLeft \in 0..Dates
  /\ entry \in [Part -> {"pending", "submitting", "queued", "sent", "failed", "unknown"}]
  /\ (\A p \in Part : attempt[p] \in [Piece(p) -> Row]) /\ active \subseteq Part
  /\ caller \in [Caller -> Coroutine] /\ \A c \in Caller : caller[c].part # 0 => Len(caller[c].own) <= Pieces[caller[c].part]
  /\ poll \in [part : 0..Total, view : Seq(Row)]
  /\ plan \in 0..MaxEdits /\ of \in [Part -> 0..MaxEdits] 
  /\ \A p \in Part : tried[p] \in [Piece(p) -> Nat]
  /\ straddled \in BOOLEAN
  /\ stops \in 0..MaxAsks /\ edits \in 0..MaxEdits /\ crashes \in 0..MaxCrashes

-----------------------------------------------------------------------------
(* finish_series_run *)

Terminal(statuses) ==
  IF "unknown" \in statuses THEN "unknown" ELSE
  IF "failed" \in statuses THEN "failed" ELSE "sent"

SeriesResultRaw(entries) == Terminal({entries[p] : p \in Part})
SeriesResultOfLast(entries) ==
  IF entries[Total] \in {"failed", "unknown"} THEN entries[Total] ELSE "completed"
SeriesResult(entries) ==
  LET statuses == {entries[p] : p \in Part}
  IN IF "unknown" \in statuses THEN "unknown" ELSE
     IF "failed" \in statuses THEN "failed" ELSE "completed"

Ended(j, left) == j.cursor >= Total \/ (j.kind = "dates" /\ left = 0)

(* The job once run p is over.                                             *)
ReleasedAnyway(j, p, entries, left) ==
  LET free == [j EXCEPT !.run = IF @ = p THEN 0 ELSE @]
  IN IF free.run # 0 THEN free
     ELSE [free EXCEPT !.status = IF Ended(free, left) THEN SeriesResult(entries)
                                  ELSE IF j.kind = "trigger" THEN "trigger" ELSE "active"]
Released(j, p, entries, left) ==
  LET free == [j EXCEPT !.run = IF @ = p THEN 0 ELSE @]
  IN IF free.run # 0 \/ free.status = "cancelled" THEN free
     ELSE [free EXCEPT !.status = IF Ended(free, left) THEN SeriesResult(entries)
                                  ELSE IF @ = "paused" THEN @
                                  ELSE IF j.kind = "trigger" THEN "trigger" ELSE "active"]

SettledIfAccepted(seen) == \A k \in DOMAIN seen : seen[k] # "queued"
Settled(seen) == \A k \in DOMAIN seen : seen[k] \notin PENDING

(* The session sees these statuses of the part's attempts; entries are the *)
(* parts as it leaves them otherwise.                                      *)
FinishSeriesRun(p, seen, entries) ==
  IF ~Settled(seen)
  THEN entry' = entries /\ UNCHANGED <<job, scheduled>>
  ELSE LET closed == [entries EXCEPT ![p] = Terminal({seen[k] : k \in Piece(p)})]
           after == Released(job, p, closed, datesLeft)
       IN /\ entry' = closed /\ job' = after
          /\ scheduled' = (scheduled /\ ~(after.run = 0 /\ after.status # "cancelled"
                                          /\ Ended(after, datesLeft)))

-----------------------------------------------------------------------------
(* send_job and submit_series *)

Loads(c) ==
  /\ caller[c].phase = "idle"
  /\ caller' = [caller EXCEPT ![c] = [Asleep EXCEPT !.phase = "loaded", !.view = job,
                                                    !.plan = plan]]
  /\ UNCHANGED <<rows, fixed, active, poll, of, tried, straddled, stops, crashes>>

TimerFires(c) ==
  /\ scheduled /\ Loads(c)
  /\ IF job.kind = "dates"
     THEN datesLeft' = datesLeft - 1 /\ scheduled' = (datesLeft' > 0)
     ELSE UNCHANGED <<scheduled, datesLeft>>

SendNow(c) ==
  /\ job.status \in Claimable /\ job.run = 0 /\ job.cursor < Total
  /\ Loads(c) /\ UNCHANGED <<scheduled, datesLeft>>

(* The conditions of the claiming UPDATE, on the row as it is now.         *)
MayClaimAnyCursor(view) == job.run = 0 /\ job.status \in Claimable
MayClaimSeen(view) == job.cursor = view.cursor /\ job.run = 0
MayClaim(view) == job.cursor = view.cursor /\ job.run = 0 /\ job.status \in Claimable

VersionSeen(c) == caller[c].plan
Version(c) == plan

(* Claim, cursor, part and attempts are committed together, or nothing is. *)
Claim(c) ==
  /\ caller[c].phase = "loaded"
  /\ LET view == caller[c].view
         p == view.cursor + 1
     IN IF /\ view.run = 0 /\ view.status \in Claimable
           /\ MayClaim(view) /\ p <= Total
        THEN /\ job' = [job EXCEPT !.status = "queued", !.cursor = p, !.run = p]
             /\ entry' = [entry EXCEPT ![p] = "submitting"]
             /\ attempt' = [attempt EXCEPT
                              ![p] = [k \in Piece(p) |-> [status |-> "submitting", id |-> FALSE]]]
             /\ of' = [of EXCEPT ![p] = Version(c)] /\ active' = active \cup {p}
             /\ caller' = [caller EXCEPT ![c] = [@ EXCEPT !.phase = "sending", !.part = p]]
        ELSE caller' = [caller EXCEPT ![c] = Asleep] /\ UNCHANGED <<rows, of, active>>
  /\ UNCHANGED <<fixed, scheduled, datesLeft, poll, tried, straddled, stops, crashes>>

(* What may be recorded of a piece: accepted by the worker or sent by the  *)
(* cloud provider, refused (also by the checks before the call), or        *)
(* uncertain: 408, 409, 429, 5xx, timeouts and broken connections.         *)
Outcomes == {[status |-> IF provider = "native" THEN "queued" ELSE "sent",
              id |-> provider = "native"],
             [status |-> "failed", id |-> FALSE], [status |-> "unknown", id |-> FALSE]}

SendPiece(c, outcome) ==
  /\ caller[c].phase = "sending"
  /\ LET p == caller[c].part
         k == Len(caller[c].own) + 1
     IN /\ attempt' = [attempt EXCEPT ![p][k] = outcome]
        /\ tried' = [tried EXCEPT ![p][k] = @ + 1]
        /\ caller' = [caller EXCEPT ![c].own = Append(@, outcome),
                                    ![c].phase = IF k = Pieces[p] THEN "closing" ELSE @]
        /\ active' = IF k = Pieces[p] THEN active \ {p} ELSE active
  /\ UNCHANGED <<job, entry, fixed, scheduled, datesLeft, poll, of, straddled, stops, crashes>>

(* The end of submit_series, on the attempts as its own session wrote them *)
Close(c) ==
  /\ caller[c].phase = "closing"
  /\ LET own == [k \in Piece(caller[c].part) |-> caller[c].own[k].status]
     IN FinishSeriesRun(caller[c].part, own,
                        [entry EXCEPT ![caller[c].part] = IF Settled(own) THEN @ ELSE "queued"])
  /\ caller' = [caller EXCEPT ![c] = Asleep]
  /\ UNCHANGED <<attempt, fixed, datesLeft, active, poll, of, tried, straddled, stops, crashes>>

-----------------------------------------------------------------------------
(* poll_deliveries loads the open attempts, those of a series whatever its *)
(* provider, asks the worker about the accepted ones, gives up those whose *)
(* submission was interrupted, and finishes the run. One part at a time:   *)
(* the attempts of the others are as if the worker had not answered.       *)

FollowedNative == provider = "native"
Followed == TRUE

Open(p) == {k \in Piece(p) : Followed /\ (\/ attempt[p][k].status \in PENDING
                                          \/ attempt[p][k].status = "unknown" /\ attempt[p][k].id)}

PollLoads(p) ==
  /\ poll = NoPoll /\ Open(p) # {}
  /\ poll' = [part |-> p, view |-> [k \in Piece(p) |-> IF k \in Open(p) THEN attempt[p][k] ELSE NoRow]]
  /\ UNCHANGED <<rows, fixed, scheduled, datesLeft, active, caller, of, tried, straddled, stops,
                 crashes>>

(* What a loaded attempt may become; its age is external.                  *)
Looked(row) ==
  CASE row.status = "submitting" -> IF poll.part \in active THEN {"submitting"}
                                    ELSE {"submitting", "unknown"}
    [] row.status = "queued" -> {"queued", "sent", "failed", "unknown"}
    [] row.status = "unknown" -> {"unknown", "sent", "failed"}
    [] OTHER -> {"none"}

PollEnds(p, new) ==
  /\ poll.part = p /\ poll' = NoPoll
  /\ \A k \in Piece(p) : new[k] \in Looked(poll.view[k])
  /\ LET seen == [k \in Piece(p) |-> IF new[k] = "none" THEN attempt[p][k].status ELSE new[k]]
         moved == {k \in Piece(p) : new[k] # poll.view[k].status}
         resolved == \E k \in moved : new[k] \notin PENDING
     IN /\ attempt' = [attempt EXCEPT ![p] = [k \in Piece(p) |-> IF k \in moved
                                              THEN [@[k] EXCEPT !.status = new[k]] ELSE @[k]]]
        /\ IF resolved THEN FinishSeriesRun(p, seen, entry) ELSE UNCHANGED <<job, entry, scheduled>>
        /\ straddled' = (straddled \/ (resolved /\ \E c \in Caller :
                           caller[c].phase = "closing" /\ caller[c].part = p)
                      \/ \E k \in moved : attempt[p][k] # poll.view[k])
  /\ UNCHANGED <<fixed, datesLeft, active, caller, of, tried, stops, crashes>>

-----------------------------------------------------------------------------
(* register_job for a series: the row and its timer.                       *)
Registered(j, timer, left) ==
  CASE j.cursor >= Total /\ j.run = 0 -> [job |-> [j EXCEPT !.status = SeriesResult(entry)], timer |-> FALSE]
    [] (j.cursor < Total \/ j.run # 0) /\ (j.status \notin {"active", "queued"} \/ j.kind = "trigger") ->
         [job |-> j, timer |-> timer]
    [] OTHER -> IF j.kind = "dates" /\ left = 0
                THEN [job |-> [j EXCEPT !.status = SeriesResult(entry)], timer |-> FALSE]
                ELSE [job |-> [j EXCEPT !.status = IF j.run = 0 THEN "active" ELSE "queued"],
                      timer |-> TRUE]

Stops(from, to) ==
  /\ stops + edits < MaxAsks /\ job.status \in from
  /\ job' = [job EXCEPT !.status = to] /\ scheduled' = FALSE /\ stops' = stops + 1
  /\ UNCHANGED <<entry, attempt, fixed, datesLeft, active, caller, poll, of, tried, straddled,
                 crashes>>
Pause == Stops({"active", "queued"}, "paused")
Cancel == Stops({"active", "trigger", "queued"}, "cancelled")

Resume ==
  /\ job.status = "paused"
  /\ LET back == Registered([job EXCEPT !.status = IF job.kind = "trigger" THEN "trigger" ELSE "active"],
                            scheduled, datesLeft)
     IN job' = back.job /\ scheduled' = back.timer
  /\ UNCHANGED <<entry, attempt, fixed, datesLeft, active, caller, poll, of, tried, straddled,
                 stops, crashes>>

(* Edit takes a claim of its own: only a plan that has not started.        *)
Editable == job.cursor = 0 /\ job.run = 0
Edit(kind) ==
  /\ edits < MaxEdits /\ stops + edits < MaxAsks /\ Editable
  /\ LET new == Registered([status |-> IF kind = "trigger" THEN "trigger" ELSE "active",
                            kind |-> kind, cursor |-> 0, run |-> 0], FALSE, Dates)
     IN job' = new.job /\ scheduled' = new.timer
  /\ datesLeft' = Dates /\ entry' = [p \in Part |-> "pending"]
  /\ plan' = plan + 1 /\ edits' = edits + 1
  /\ UNCHANGED <<attempt, provider, active, caller, poll, of, tried, straddled, stops, crashes>>

(* A restart: load_all_jobs registers what was scheduled or under way; the *)
(* pieces not yet sent are not sent again.                                 *)
Restart ==
  /\ crashes < MaxCrashes /\ crashes' = crashes + 1
  /\ tried' = [p \in Part |-> [k \in Piece(p) |-> tried[p][k] +
       IF \E c \in Caller : caller[c].phase = "sending" /\ caller[c].part = p
                            /\ k = Len(caller[c].own) + 1 THEN 1 ELSE 0]]
  /\ \E left \in 0..datesLeft :
       LET back == IF job.status \in {"active", "queued"} THEN Registered(job, FALSE, left)
                   ELSE [job |-> job, timer |-> FALSE]
       IN datesLeft' = left /\ job' = back.job /\ scheduled' = back.timer
  /\ caller' = [c \in Caller |-> Asleep] /\ active' = {} /\ poll' = NoPoll
  /\ straddled' = (straddled \/ \E c \in Caller : caller[c].phase = "closing")
  /\ UNCHANGED <<entry, attempt, fixed, of, stops>>

-----------------------------------------------------------------------------
Init ==
  /\ provider \in {"native", "whatsapp"} /\ plan = 0 /\ datesLeft = Dates
  /\ \E kind \in Kinds :
       /\ job = [status |-> IF kind = "trigger" THEN "trigger" ELSE "active", kind |-> kind,
                 cursor |-> 0, run |-> 0]
       /\ scheduled = (kind # "trigger")
  /\ entry = [p \in Part |-> "pending"] /\ attempt = NoRows /\ active = {}
  /\ caller = [c \in Caller |-> Asleep] /\ poll = NoPoll
  /\ of = [p \in Part |-> 0] /\ tried = [p \in Part |-> [k \in Piece(p) |-> 0]] /\ straddled = FALSE
  /\ stops = 0 /\ edits = 0 /\ crashes = 0

News(p) == IF poll.part # p THEN {}
           ELSE [Piece(p) -> UNION {Looked(poll.view[k]) : k \in Piece(p)}]
Runs(c) == \/ Claim(c) \/ Close(c)
           \/ \E outcome \in Outcomes : SendPiece(c, outcome)

Next ==
  \/ \E c \in Caller : TimerFires(c) \/ SendNow(c) \/ Runs(c)
  \/ \E p \in Part : PollLoads(p) \/ \E new \in News(p) : PollEnds(p, new)
  \/ Pause \/ Cancel \/ Resume \/ Restart
  \/ \E kind \in Kinds : Edit(kind)

Spec == Init /\ [][Next]_vars

-----------------------------------------------------------------------------
(* No piece of a part is handed to a provider twice, whatever was          *)
(* uncertain, overlapped, paused or restarted ("never replay uncertain     *)
(* sends", series.py:1).                                                   *)
NeverReplayed == \A p \in Part : \A k \in Piece(p) : tried[p][k] <= 1

(* Parts go out strictly one after the other: no part is begun while a     *)
(* piece of an earlier one is open, and the part being sent owns the job.  *)
OnePartAtATime ==
  /\ \A p \in Part : \A k \in Piece(p) :
       p < job.cursor => attempt[p][k].status \notin PENDING
  /\ \A c \in Caller : caller[c].phase = "sending" => job.run = caller[c].part

(* What is sent is the plan as it stands: an edit that is accepted while a *)
(* run has loaded the job replaces what the run sends.                     *)
PlanCurrent == \A p \in 1..job.cursor : of[p] = plan

(* A series shown as completed was delivered whole (unless its dates ran   *)
(* out first, or the poll came between a run's last piece and its end).      *)
CompletedDelivered ==
  (job.status = "completed" /\ job.kind # "dates" /\ ~straddled)
     => \A p \in Part : \A k \in Piece(p) : attempt[p][k].status = "sent"

(* The rows of the pieces live as Attempts.tla says.                       *)
PieceName == UNION {{<<p, k>> : k \in Piece(p)} : p \in Part}
AttemptRows == INSTANCE Attempts WITH Name <- PieceName,
                                      row <- [n \in PieceName |-> attempt[n[1]][n[2]]]
AttemptsSpec == AttemptRows!Spec

(* A paused or cancelled series claims nothing, and only an edit brings a  *)
(* cancelled one back, though runs and polls end around it.                *)
StopHolds ==
  [][job.status \in {"paused", "cancelled"} =>
       /\ job'.cursor = job.cursor
       /\ job'.status # job.status => (job.status = "paused" \/ edits' # edits)]_vars

(* A run through the cloud provider never blocks the next part for good:   *)
(* while it is under way a coroutine is at it or the poll has an attempt   *)
(* to give up, also after a restart cut it off between two pieces. (After  *)
(* the last piece a restart leaves nothing for the poll to follow.)        *)
RunFollowed ==
  (provider = "whatsapp" /\ job.run # 0 /\ ~straddled)
     => \/ Open(job.run) # {}
        \/ \E c \in Caller : caller[c].phase # "idle" /\ caller[c].part = job.run
=============================================================================

---------------------------- MODULE SeriesProofs ----------------------------
(***************************************************************************)
(* Proofs about Series.tla, for any number of coroutines, parts and pieces *)
(***************************************************************************)
EXTENDS Series, SequenceTheorems, TLAPS

Busy(c) == caller[c].phase \in {"sending", "closing"}

(* What a coroutine and the poll hold, and when a timer of picked dates    *)
(* has one to come.                                                        *)
Holds(t) ==
  /\ t.phase \in {"idle", "loaded"} => t.part = 0 /\ t.own = <<>>
  /\ t.phase = "sending" => t.part \in Part /\ Len(t.own) < Pieces[t.part]
  /\ t.phase = "closing" => t.part \in Part /\ Len(t.own) = Pieces[t.part]
ShapeInv ==
  /\ attempt = [p \in Part |-> attempt[p]] /\ tried = [p \in Part |-> tried[p]]
  /\ \A c \in Caller : Holds(caller[c])
  /\ poll.part = 0 => poll = NoPoll
  /\ poll.part # 0 => DOMAIN poll.view = Piece(poll.part)
  /\ scheduled /\ job.kind = "dates" => datesLeft > 0
TypeInv == TypeOK /\ ShapeInv

Attempts == {"submitting", "queued", "sent", "failed", "unknown"}
Entries == {"pending"} \cup Attempts

(* The parts of the type invariant, for the steps that keep the others.    *)
JobType == job \in Job /\ (scheduled /\ job.kind = "dates" => datesLeft > 0)
           /\ scheduled \in BOOLEAN /\ datesLeft \in 0..Dates
           /\ entry \in [Part -> Entries]
RowType == /\ attempt = [p \in Part |-> attempt[p]] /\ tried = [p \in Part |-> tried[p]]
           /\ \A p \in Part : attempt[p] \in [Piece(p) -> Row] /\ tried[p] \in [Piece(p) -> Nat]
CallerType == /\ caller \in [Caller -> Coroutine] /\ active \subseteq Part
              /\ \A c \in Caller : Holds(caller[c])
PollType == /\ poll \in [part : 0..Total, view : Seq(Row)]
            /\ poll.part = 0 => poll = NoPoll
            /\ poll.part # 0 => DOMAIN poll.view = Piece(poll.part)
RestType == /\ provider \in {"native", "whatsapp"}
            /\ plan \in 0..MaxEdits /\ of \in [Part -> 0..MaxEdits] /\ straddled \in BOOLEAN
            /\ stops \in 0..MaxAsks /\ edits \in 0..MaxEdits /\ crashes \in 0..MaxCrashes
            /\ plan = edits

LEMMA PartsOf ==
  /\ Total \in Nat /\ Total >= 1
  /\ \A p \in Part : p \in Nat /\ p \in 0..Total /\ Pieces[p] \in Nat /\ Pieces[p] >= 1
                     /\ Piece(p) = 1..Pieces[p]
BY SeriesAssumption DEF Part, Piece

LEMMA TypeParts ==
  TypeInv /\ plan = edits <=> JobType /\ RowType /\ CallerType /\ PollType /\ RestType
<1>1. ASSUME CallerType PROVE \A c \in Caller : caller[c].part # 0 => Len(caller[c].own) <= Pieces[caller[c].part]
  <2>. SUFFICES ASSUME NEW c \in Caller, caller[c].part # 0
                PROVE  Len(caller[c].own) <= Pieces[caller[c].part]
    OBVIOUS
  <2>1. Holds(caller[c]) /\ caller[c].phase \in {"idle", "loaded", "sending", "closing"}
    BY <1>1 DEF CallerType, Coroutine
  <2>2. caller[c].own \in Seq(Row)
    BY <1>1 DEF CallerType, Coroutine
  <2>3. Len(caller[c].own) \in Nat
    BY <2>2
  <2>. QED BY <2>1, <2>3, PartsOf DEF Holds
<1>. QED BY <1>1 DEF TypeInv, TypeOK, ShapeInv, JobType, RowType, CallerType, PollType, RestType,
                     Entries, Attempts

Results == {"unknown", "failed", "completed"}

LEMMA ResultType ==
  /\ \A entries : SeriesResult(entries) \in Results
  /\ \A statuses : Terminal(statuses) \in {"unknown", "failed", "sent"}
BY DEF SeriesResult, Terminal, Results

(* What the end of a run makes of the job.                                 *)
LEMMA ReleasedIs ==
  ASSUME NEW j \in Job, NEW p \in Part, NEW entries, NEW left
  PROVE  LET after == Released(j, p, entries, left)
         IN /\ after \in Job /\ after.kind = j.kind /\ after.cursor = j.cursor
            /\ after.run = IF j.run = p THEN 0 ELSE j.run
            /\ after.run # 0 \/ j.status = "cancelled" => after.status = j.status
            /\ after.status \in {j.status, "active", "trigger"} \cup Results
            /\ j.status = "paused" => after.status \in {"paused"} \cup Results
            /\ after.status = "completed" =>
                 \/ j.status = "completed" /\ after.run # 0
                 \/ after.run = 0 /\ Ended(j, left) /\ SeriesResult(entries) = "completed"
<1>. DEFINE run == IF j.run = p THEN 0 ELSE j.run
            free == [j EXCEPT !.run = run]
            status == IF Ended(free, left) THEN SeriesResult(entries)
                      ELSE IF j.status = "paused" THEN "paused"
                      ELSE IF j.kind = "trigger" THEN "trigger" ELSE "active"
            after == Released(j, p, entries, left)
<1>1. run \in 0..Total
  BY PartsOf DEF Job
<1>2. /\ free \in Job /\ free.run = run /\ free.kind = j.kind /\ free.cursor = j.cursor
      /\ free.status = j.status
  BY <1>1 DEF Job
<1>3. Ended(free, left) <=> Ended(j, left)
  BY <1>2 DEF Ended
<1>4. status \in {"active", "trigger", "paused"} \cup Results /\ status \in Status
  BY ResultType DEF Status, Results
<1>5. after = IF run # 0 \/ j.status = "cancelled" THEN free ELSE [free EXCEPT !.status = status]
  BY <1>2 DEF Released
<1>. HIDE DEF free, run, after
<1>6. /\ after \in Job /\ after.kind = j.kind /\ after.cursor = j.cursor /\ after.run = run
      /\ after.run # 0 \/ j.status = "cancelled" => after.status = j.status
      /\ ~ (after.run # 0 \/ j.status = "cancelled") => after.status = status
  <2>1. CASE run # 0 \/ j.status = "cancelled"
    <3>1. after = free
      BY <1>5, <2>1
    <3>. HIDE DEF status
    <3>. QED BY <1>2, <2>1, <3>1
  <2>2. CASE ~ (run # 0 \/ j.status = "cancelled")
    <3>1. after = [free EXCEPT !.status = status]
      BY <1>5, <2>2
    <3>2. status \in Status
      BY <1>4
    <3>. HIDE DEF status
    <3>3. after \in Job
      BY <1>2, <3>1, <3>2 DEF Job
    <3>4. after.kind = j.kind /\ after.cursor = j.cursor /\ after.run = run /\ after.status = status
      BY <1>2, <3>1 DEF Job
    <3>. QED BY <2>2, <3>3, <3>4
  <2>. QED BY <2>1, <2>2
<1>7. /\ status = "completed" => Ended(j, left) /\ SeriesResult(entries) = "completed"
      /\ j.status = "paused" => status \in {"paused"} \cup Results
      /\ status \in {j.status, "active", "trigger"} \cup Results
  <2>1. CASE Ended(free, left)
    BY <1>3, <2>1, ResultType
  <2>2. CASE ~ Ended(free, left) /\ j.status = "paused"
    BY <2>2
  <2>3. CASE ~ Ended(free, left) /\ j.status # "paused"
    BY <2>3
  <2>. QED BY <2>1, <2>2, <2>3
<1>. HIDE DEF status
<1>8. /\ after \in Job /\ after.kind = j.kind /\ after.cursor = j.cursor
      /\ after.run = run
      /\ after.run # 0 \/ j.status = "cancelled" => after.status = j.status
      /\ after.status \in {j.status, "active", "trigger"} \cup Results
      /\ j.status = "paused" => after.status \in {"paused"} \cup Results
      /\ after.status = "completed" =>
           \/ j.status = "completed" /\ after.run # 0
           \/ after.run = 0 /\ Ended(j, left) /\ SeriesResult(entries) = "completed"
  BY <1>6, <1>7
<1>. QED BY <1>8 DEF after, run

(* What register_job makes of the job and its timer.                       *)
LEMMA RegisteredIs ==
  ASSUME NEW j \in Job, NEW timer \in BOOLEAN, NEW left \in Nat, timer /\ j.kind = "dates" => left > 0
  PROVE  LET back == Registered(j, timer, left)
         IN /\ back.job \in Job /\ back.job.kind = j.kind /\ back.job.cursor = j.cursor
            /\ back.job.run = j.run /\ back.timer \in BOOLEAN
            /\ back.timer /\ j.kind = "dates" => left > 0
            /\ back.job.status \in {j.status, "active", "queued"} \cup Results
            /\ back.job.status = "completed" =>
                 \/ j.status = "completed"
                 \/ j.cursor >= Total /\ j.run = 0 /\ SeriesResult(entry) = "completed"
                 \/ j.kind = "dates"
<1>. DEFINE back == Registered(j, timer, left)
            Is(status, t) == back = [job |-> [j EXCEPT !.status = status], timer |-> t]
            Good == /\ back.job \in Job /\ back.job.kind = j.kind /\ back.job.cursor = j.cursor
                    /\ back.job.run = j.run /\ back.timer \in BOOLEAN
                    /\ back.timer /\ j.kind = "dates" => left > 0
                    /\ back.job.status \in {j.status, "active", "queued"} \cup Results
                    /\ back.job.status = "completed" =>
                         \/ j.status = "completed"
                         \/ j.cursor >= Total /\ j.run = 0 /\ SeriesResult(entry) = "completed"
                         \/ j.kind = "dates"
            Late == j.cursor < Total \/ j.run # 0
            Quiet == j.status \notin {"active", "queued"} \/ j.kind = "trigger"
<1>0. j.cursor \in Nat /\ j.run \in Nat /\ Total \in Nat
  BY PartsOf DEF Job
<1>1. ASSUME NEW status \in Status, NEW t \in BOOLEAN, Is(status, t)
      PROVE  /\ back.job \in Job /\ back.job.kind = j.kind /\ back.job.cursor = j.cursor
             /\ back.job.run = j.run /\ back.timer = t /\ back.job.status = status
  <2>1. back.job = [j EXCEPT !.status = status] /\ back.timer = t
    BY <1>1
  <2>. HIDE DEF back
  <2>. QED BY <2>1 DEF Job
<1>2. SeriesResult(entry) \in Results /\ SeriesResult(entry) \in Status /\ j.status \in Status
      /\ "active" \in Status /\ "queued" \in Status
  BY ResultType DEF Results, Status, Job
<1>3. ASSUME j.cursor >= Total /\ j.run = 0 PROVE Good
  <2>1. Is(SeriesResult(entry), FALSE)
    BY <1>0, <1>3 DEF Registered
  <2>. HIDE DEF back, Is
  <2>. QED BY <1>1, <1>2, <1>3, <2>1
<1>4. ASSUME Late, Quiet PROVE Good
  <2>1. back = [job |-> j, timer |-> timer]
    BY <1>0, <1>4 DEF Registered
  <2>2. back.job = j /\ back.timer = timer
    BY <2>1
  <2>. HIDE DEF back
  <2>. QED BY <2>2
<1>5. ASSUME Late, ~ Quiet PROVE Good
  <2>1. back = IF j.kind = "dates" /\ left = 0
               THEN [job |-> [j EXCEPT !.status = SeriesResult(entry)], timer |-> FALSE]
               ELSE [job |-> [j EXCEPT !.status = IF j.run = 0 THEN "active" ELSE "queued"],
                     timer |-> TRUE]
    BY <1>0, <1>5 DEF Registered
  <2>2. CASE j.kind = "dates" /\ left = 0
    <3>1. Is(SeriesResult(entry), FALSE)
      BY <2>1, <2>2
    <3>. HIDE DEF back, Is
    <3>. QED BY <1>1, <1>2, <2>2, <3>1
  <2>3. CASE ~ (j.kind = "dates" /\ left = 0)
    <3>1. PICK status \in {"active", "queued"} : Is(status, TRUE)
      BY <2>1, <2>3
    <3>2. status \in Status
      BY DEF Status
    <3>. HIDE DEF back, Is
    <3>3. /\ back.job \in Job /\ back.job.kind = j.kind /\ back.job.cursor = j.cursor
          /\ back.job.run = j.run /\ back.timer = TRUE /\ back.job.status = status
      BY <1>1, <3>1, <3>2
    <3>4. j.kind = "dates" => left > 0
      BY <2>3
    <3>. QED BY <3>3, <3>4
  <2>. QED BY <2>2, <2>3
<1>6. Late \/ (j.cursor >= Total /\ j.run = 0)
  BY <1>0
<1>7. Good
  BY <1>3, <1>4, <1>5, <1>6
<1>. QED BY <1>7

(* The end of a run: nothing happens to the job while an attempt is seen   *)
(* open; otherwise the run is over and its part gets its result.           *)
Finished(p, seen, entries) ==
  /\ JobType' /\ job'.kind = job.kind /\ job'.cursor = job.cursor
  /\ job'.run = IF Settled(seen) /\ job.run = p THEN 0 ELSE job.run
  /\ job.status = "cancelled" => job'.status = job.status
  /\ job.status = "paused" => job'.status \in {"paused"} \cup Results
  /\ job'.status \in {job.status, "active", "trigger"} \cup Results
  /\ job'.status = "completed" =>
       \/ job.status = "completed" /\ (job'.run # 0 \/ ~ Settled(seen))
       \/ job'.run = 0 /\ Ended(job, datesLeft) /\ SeriesResult(entry') = "completed"
  /\ ~ Settled(seen) => entry' = entries /\ job' = job /\ scheduled' = scheduled
  /\ Settled(seen) => entry' = [entries EXCEPT ![p] = Terminal({seen[k] : k \in Piece(p)})]
  /\ scheduled' => scheduled

LEMMA FinishIs ==
  ASSUME JobType, NEW p \in Part, NEW seen, NEW entries \in [Part -> Entries],
         FinishSeriesRun(p, seen, entries), datesLeft' = datesLeft
  PROVE  Finished(p, seen, entries)
<1>1. job \in Job /\ entry \in [Part -> Entries]
  BY DEF JobType
<1>2. CASE ~ Settled(seen)
  <2>1. entry' = entries /\ job' = job /\ scheduled' = scheduled
    BY <1>2 DEF FinishSeriesRun
  <2>. QED BY <1>2, <2>1 DEF JobType, Finished
<1>3. CASE Settled(seen)
  <2>. DEFINE closed == [entries EXCEPT ![p] = Terminal({seen[k] : k \in Piece(p)})]
              after == Released(job, p, closed, datesLeft)
  <2>1. entry' = closed /\ job' = after /\ (scheduled' => scheduled) /\ scheduled' \in BOOLEAN
    BY <1>3 DEF FinishSeriesRun, JobType
  <2>2. closed \in [Part -> Entries]
    BY ResultType DEF Entries, Attempts
  <2>. HIDE DEF closed
  <2>3. /\ after \in Job /\ after.kind = job.kind /\ after.cursor = job.cursor
        /\ after.run = IF job.run = p THEN 0 ELSE job.run
        /\ after.run # 0 \/ job.status = "cancelled" => after.status = job.status
        /\ after.status \in {job.status, "active", "trigger"} \cup Results
        /\ job.status = "paused" => after.status \in {"paused"} \cup Results
        /\ after.status = "completed" =>
             \/ job.status = "completed" /\ after.run # 0
             \/ after.run = 0 /\ Ended(job, datesLeft) /\ SeriesResult(closed) = "completed"
    BY <1>1, ReleasedIs
  <2>. HIDE DEF after
  <2>4. JobType'
    BY <2>1, <2>2, <2>3 DEF JobType
  <2>5. SeriesResult(closed) = SeriesResult(entry')
    BY <2>1
  <2>6. entry' = [entries EXCEPT ![p] = Terminal({seen[k] : k \in Piece(p)})]
    BY <2>1 DEF closed
  <2>. QED BY <1>3, <2>1, <2>3, <2>4, <2>5, <2>6 DEF Finished
<1>. QED BY <1>2, <1>3

LEMMA AsleepType == Asleep \in Coroutine /\ Holds(Asleep) /\ Asleep.phase = "idle"
                    /\ Asleep.part = 0 /\ Asleep.own = <<>>
BY PartsOf, SeriesAssumption DEF Asleep, Coroutine, Holds, Job, Status

LEMMA CallerMoves ==
  ASSUME CallerType, NEW c \in Caller, NEW t, caller' = [caller EXCEPT ![c] = t]
  PROVE  /\ caller'[c] = t /\ \A d \in Caller \ {c} : caller'[d] = caller[d]
         /\ t \in Coroutine /\ Holds(t) /\ active' \subseteq Part => CallerType'
BY DEF CallerType

(* All of them together: the inductive type invariant.                     *)
Typed == JobType /\ RowType /\ CallerType /\ PollType /\ RestType

LEMMA LoadsType ==
  ASSUME Typed, NEW c \in Caller, TimerFires(c) \/ SendNow(c)
  PROVE  Typed'
<1>. DEFINE t == [Asleep EXCEPT !.phase = "loaded", !.view = job, !.plan = plan]
<1>0. JobType /\ RowType /\ CallerType /\ PollType /\ RestType
  BY DEF Typed
<1>1. /\ caller' = [caller EXCEPT ![c] = t]
      /\ UNCHANGED <<job, entry, attempt, provider, plan, edits, active, poll, of, tried,
                     straddled, stops, crashes>>
  BY DEF TimerFires, SendNow, Loads, rows, fixed
<1>2. t \in Coroutine
  BY <1>0, AsleepType DEF Coroutine, JobType, RestType
<1>3. t.phase = "loaded" /\ t.part = 0 /\ t.own = <<>>
  BY AsleepType DEF Asleep
<1>. HIDE DEF t
<1>4. CallerType'
  <2>1. Holds(t)
    BY <1>3 DEF Holds
  <2>2. active' \subseteq Part
    BY <1>0, <1>1 DEF CallerType
  <2>. QED BY <1>0, <1>1, <1>2, <2>1, <2>2, CallerMoves
<1>5. JobType'
  <2>1. CASE TimerFires(c) /\ job.kind = "dates"
    <3>1. datesLeft' = datesLeft - 1 /\ scheduled' = (datesLeft' > 0) /\ scheduled
      BY <2>1 DEF TimerFires
    <3>2. datesLeft \in 0..Dates /\ datesLeft > 0 /\ Dates \in Nat
      BY <1>0, <2>1, <3>1, SeriesAssumption DEF JobType
    <3>3. datesLeft' \in 0..Dates
      BY <3>1, <3>2
    <3>4. scheduled' \in BOOLEAN /\ (scheduled' => datesLeft' > 0)
      <4>1. (datesLeft' > 0) \in BOOLEAN
        OBVIOUS
      <4>2. scheduled' \in BOOLEAN
        BY <3>1, <4>1, Zenon
      <4>3. scheduled' => datesLeft' > 0
        BY <3>1, Zenon
      <4>. QED BY <4>2, <4>3
    <3>. QED BY <1>0, <1>1, <3>3, <3>4 DEF JobType
  <2>2. CASE ~ (TimerFires(c) /\ job.kind = "dates")
    <3>1. UNCHANGED <<scheduled, datesLeft>>
      BY <2>2 DEF TimerFires, SendNow
    <3>. QED BY <1>0, <1>1, <3>1 DEF JobType
  <2>. QED BY <2>1, <2>2
<1>6. RowType' /\ PollType' /\ RestType'
  BY <1>0, <1>1 DEF RowType, PollType, RestType
<1>. QED BY <1>4, <1>5, <1>6 DEF Typed

Submitting == [status |-> "submitting", id |-> FALSE]

(* A claim that succeeds takes the next position.                          *)
Claims(c) ==
  /\ caller[c].phase = "loaded" /\ caller[c].view.cursor + 1 = job.cursor + 1
  /\ job.run = 0 /\ job.status \in Claimable /\ job.cursor + 1 \in Part
  /\ job' = [job EXCEPT !.status = "queued", !.cursor = job.cursor + 1, !.run = job.cursor + 1]
  /\ entry' = [entry EXCEPT ![job.cursor + 1] = "submitting"]
  /\ attempt' = [attempt EXCEPT ![job.cursor + 1] = [k \in Piece(job.cursor + 1) |-> Submitting]]
  /\ of' = [of EXCEPT ![job.cursor + 1] = plan] /\ active' = active \cup {job.cursor + 1}
  /\ caller' = [caller EXCEPT ![c] = [@ EXCEPT !.phase = "sending", !.part = job.cursor + 1]]
GivesUp(c) ==
  /\ caller[c].phase = "loaded" /\ caller' = [caller EXCEPT ![c] = Asleep]
  /\ UNCHANGED <<job, entry, attempt, of, active>>

LEMMA ClaimIs ==
  ASSUME Typed, NEW c \in Caller, Claim(c)
  PROVE  /\ Claims(c) \/ GivesUp(c)
         /\ UNCHANGED <<provider, plan, edits, scheduled, datesLeft, poll, tried, straddled, stops,
                        crashes>>
<1>. DEFINE p == caller[c].view.cursor + 1
            view == caller[c].view
            may == view.run = 0 /\ view.status \in Claimable /\ MayClaim(view) /\ p <= Total
<1>1. job \in Job /\ view \in Job
  BY DEF Typed, JobType, CallerType, Coroutine
<1>2. CASE may
  <2>1. view.cursor = job.cursor /\ p = job.cursor + 1 /\ job.run = 0 /\ job.status \in Claimable
        /\ p <= Total /\ p \in Part
    BY <1>1, <1>2, PartsOf DEF MayClaim, Job, Part
  <2>. QED BY <1>2, <2>1 DEF Claim, Claims, Version, Submitting, fixed
<1>3. CASE ~ may
  BY <1>3 DEF Claim, GivesUp, rows, fixed
<1>. QED BY <1>2, <1>3

LEMMA ClaimType ==
  ASSUME Typed, NEW c \in Caller, Claim(c)
  PROVE  Typed'
<1>0. JobType /\ RowType /\ CallerType /\ PollType /\ RestType
  BY DEF Typed
<1>1. UNCHANGED <<provider, plan, edits, scheduled, datesLeft, poll, tried, straddled, stops,
                  crashes>>
  BY ClaimIs
<1>2. PollType'
  BY <1>0, <1>1 DEF PollType
<1>3. CASE Claims(c)
  <2>. DEFINE p == job.cursor + 1
              t == [caller[c] EXCEPT !.phase = "sending", !.part = p]
  <2>1. p \in Part /\ caller[c].phase = "loaded" /\ p \in 0..Total
    BY <1>3, PartsOf DEF Claims
  <2>2. caller' = [caller EXCEPT ![c] = t] /\ active' = active \cup {p}
    BY <1>3 DEF Claims
  <2>3. caller[c] \in Coroutine /\ caller[c].own = <<>>
    BY <1>0, <2>1 DEF CallerType, Holds
  <2>4. t \in Coroutine
    BY <2>1, <2>3 DEF Coroutine
  <2>5. t.phase = "sending" /\ t.part = p /\ t.own = <<>>
    BY <2>3 DEF Coroutine
  <2>6. job' = [job EXCEPT !.status = "queued", !.cursor = p, !.run = p]
        /\ entry' = [entry EXCEPT ![p] = "submitting"]
        /\ attempt' = [attempt EXCEPT ![p] = [k \in Piece(p) |-> Submitting]]
        /\ of' = [of EXCEPT ![p] = plan]
    BY <1>3 DEF Claims
  <2>. HIDE DEF t, p
  <2>7. CallerType'
    <3>1. Holds(t)
      BY <2>1, <2>5, PartsOf DEF Holds
    <3>2. active' \subseteq Part
      BY <1>0, <2>1, <2>2 DEF CallerType
    <3>. QED BY <1>0, <2>2, <2>4, <3>1, <3>2, CallerMoves
  <2>8. JobType'
    <3>1. job' \in Job /\ job'.kind = job.kind
      BY <1>0, <2>1, <2>6 DEF JobType, Job, Status
    <3>2. entry' \in [Part -> Entries]
      BY <1>0, <2>1, <2>6 DEF JobType, Entries, Attempts
    <3>. QED BY <1>0, <1>1, <3>1, <3>2 DEF JobType
  <2>9. RowType'
    <3>1. [k \in Piece(p) |-> Submitting] \in [Piece(p) -> Row]
      BY DEF Submitting, Row
    <3>2. \A q \in Part : attempt'[q] \in [Piece(q) -> Row]
      BY <1>0, <2>1, <2>6, <3>1 DEF RowType
    <3>3. attempt' = [q \in Part |-> attempt'[q]]
      BY <1>0, <2>6 DEF RowType
    <3>. QED BY <1>0, <1>1, <3>2, <3>3 DEF RowType
  <2>10. RestType'
    BY <1>0, <1>1, <2>1, <2>6 DEF RestType
  <2>. QED BY <1>2, <2>7, <2>8, <2>9, <2>10 DEF Typed
<1>4. CASE GivesUp(c)
  <2>1. caller' = [caller EXCEPT ![c] = Asleep] /\ UNCHANGED <<job, entry, attempt, of, active>>
    BY <1>4 DEF GivesUp
  <2>2. active' \subseteq Part
    BY <1>0, <2>1 DEF CallerType
  <2>3. CallerType'
    BY <1>0, <2>1, <2>2, AsleepType, CallerMoves
  <2>4. JobType' /\ RowType' /\ RestType'
    BY <1>0, <1>1, <2>1 DEF JobType, RowType, RestType
  <2>. QED BY <1>2, <2>3, <2>4 DEF Typed
<1>. QED BY <1>3, <1>4, ClaimIs

LEMMA OutcomeType ==
  \A outcome \in Outcomes : outcome \in Row /\ outcome.status \in {"queued", "sent", "failed", "unknown"}
<1>. DEFINE R(status, id) == [status |-> status, id |-> id]
<1>1. \A outcome \in Outcomes : \E s \in {"queued", "sent", "failed", "unknown"}, id \in BOOLEAN :
        outcome = R(s, id)
  <2>1. (IF provider = "native" THEN "queued" ELSE "sent") \in {"queued", "sent"}
        /\ (provider = "native") \in BOOLEAN
    OBVIOUS
  <2>. QED BY <2>1, Zenon DEF Outcomes
<1>2. \A s \in {"queued", "sent", "failed", "unknown"}, id \in BOOLEAN : R(s, id) \in Row /\ R(s, id).status = s
  BY DEF Row
<1>. HIDE DEF R
<1>. QED BY <1>1, <1>2

(* One piece sent: the coroutine's place, and what it writes.              *)
Sends(c, outcome, p, k) ==
  /\ p \in Part /\ k \in Piece(p) /\ k \in Nat /\ caller[c].phase = "sending"
  /\ p = caller[c].part /\ k = Len(caller[c].own) + 1 /\ caller[c].own \in Seq(Row)
  /\ attempt' = [attempt EXCEPT ![p][k] = outcome]
  /\ attempt'[p][k] = outcome
  /\ \A q \in Part : \A l \in Piece(q) : q # p \/ l # k => attempt'[q][l] = attempt[q][l]
  /\ tried' = [tried EXCEPT ![p][k] = tried[p][k] + 1]
  /\ tried'[p][k] = tried[p][k] + 1
  /\ \A q \in Part : \A l \in Piece(q) : q # p \/ l # k => tried'[q][l] = tried[q][l]
  /\ caller'[c].part = p /\ caller'[c].own = Append(caller[c].own, outcome)
  /\ k = Pieces[p] => caller'[c].phase = "closing" /\ active' = active \ {p}
  /\ k # Pieces[p] => caller'[c].phase = "sending" /\ active' = active
  /\ \A d \in Caller \ {c} : caller'[d] = caller[d]
  /\ CallerType'
  /\ UNCHANGED <<job, entry, provider, plan, edits, scheduled, datesLeft, poll, of,
                 straddled, stops, crashes>>

LEMMA SendIs ==
  ASSUME Typed, NEW c \in Caller, NEW outcome \in Outcomes, SendPiece(c, outcome)
  PROVE  Sends(c, outcome, caller[c].part, Len(caller[c].own) + 1)
<1>. SUFFICES ASSUME NEW p, NEW k, p = caller[c].part, k = Len(caller[c].own) + 1
              PROVE  Sends(c, outcome, p, k)
  OBVIOUS
<1>. DEFINE phase == IF k = Pieces[p] THEN "closing" ELSE "sending"
            t == [caller[c] EXCEPT !.own = Append(@, outcome), !.phase = phase]
<1>0. JobType /\ RowType /\ CallerType /\ PollType /\ RestType
  BY DEF Typed
<1>1. /\ caller[c].phase = "sending" /\ attempt' = [attempt EXCEPT ![p][k] = outcome]
      /\ tried' = [tried EXCEPT ![p][k] = tried[p][k] + 1]
      /\ k = Pieces[p] => active' = active \ {p}
      /\ k # Pieces[p] => active' = active
      /\ UNCHANGED <<job, entry, provider, plan, edits, scheduled, datesLeft, poll, of,
                     straddled, stops, crashes>>
  BY DEF SendPiece, fixed
<1>2. caller' = [caller EXCEPT ![c] = t]
  BY <1>0, <1>1 DEF SendPiece, CallerType, Coroutine
<1>3. caller[c] \in Coroutine /\ Holds(caller[c]) /\ caller[c].own \in Seq(Row)
  BY <1>0 DEF CallerType, Coroutine
<1>4. p \in Part /\ Len(caller[c].own) < Pieces[p]
  BY <1>1, <1>3 DEF Holds
<1>5. k \in Nat /\ k <= Pieces[p] /\ k \in Piece(p) /\ Len(caller[c].own) \in Nat
  BY <1>3, <1>4, PartsOf
<1>6. Append(caller[c].own, outcome) \in Seq(Row) /\ Len(Append(caller[c].own, outcome)) = k
  BY <1>3, OutcomeType
<1>7. /\ t \in Coroutine /\ t.part = p /\ t.own = Append(caller[c].own, outcome)
      /\ k = Pieces[p] => t.phase = "closing"
      /\ k # Pieces[p] => t.phase = "sending"
  BY <1>3, <1>6 DEF Coroutine
<1>. HIDE DEF t
<1>8. Holds(t)
  <2>1. CASE k = Pieces[p]
    BY <1>4, <1>6, <1>7, <2>1 DEF Holds
  <2>2. CASE k # Pieces[p]
    BY <1>4, <1>5, <1>6, <1>7, <2>2, PartsOf DEF Holds
  <2>. QED BY <2>1, <2>2
<1>9. /\ caller'[c] = t /\ \A d \in Caller \ {c} : caller'[d] = caller[d]
      /\ CallerType'
  <2>1. active' \subseteq Part
    BY <1>0, <1>1 DEF CallerType
  <2>. QED BY <1>0, <1>2, <1>7, <1>8, <2>1, CallerMoves
<1>10. /\ attempt'[p][k] = outcome
       /\ \A q \in Part : \A l \in Piece(q) : q # p \/ l # k => attempt'[q][l] = attempt[q][l]
  BY <1>0, <1>1, <1>4, <1>5 DEF RowType
<1>11. /\ tried'[p][k] = tried[p][k] + 1
       /\ \A q \in Part : \A l \in Piece(q) : q # p \/ l # k => tried'[q][l] = tried[q][l]
  BY <1>0, <1>1, <1>4, <1>5 DEF RowType
<1>12. /\ caller'[c].part = p /\ caller'[c].own = Append(caller[c].own, outcome)
       /\ k = Pieces[p] => caller'[c].phase = "closing"
       /\ k # Pieces[p] => caller'[c].phase = "sending"
  BY <1>7, <1>9
<1>. QED BY <1>1, <1>3, <1>4, <1>5, <1>9, <1>10, <1>11, <1>12 DEF Sends

LEMMA SendType ==
  ASSUME Typed, NEW c \in Caller, NEW outcome \in Outcomes, SendPiece(c, outcome)
  PROVE  Typed'
<1>. SUFFICES ASSUME NEW p, NEW k, p = caller[c].part, k = Len(caller[c].own) + 1
              PROVE  Typed'
  OBVIOUS
<1>0. JobType /\ RowType /\ CallerType /\ PollType /\ RestType
  BY DEF Typed
<1>1. /\ p \in Part /\ k \in Piece(p) /\ CallerType'
      /\ attempt' = [attempt EXCEPT ![p][k] = outcome]
      /\ tried' = [tried EXCEPT ![p][k] = tried[p][k] + 1]
      /\ UNCHANGED <<job, entry, provider, plan, edits, scheduled, datesLeft, poll, of,
                     straddled, stops, crashes>>
  <2>1. Sends(c, outcome, p, k)
    BY SendIs
  <2>. QED BY <2>1 DEF Sends
<1>2. outcome \in Row
  BY OutcomeType
<1>3. tried[p][k] \in Nat
  BY <1>0, <1>1 DEF RowType
<1>4. \A q \in Part : attempt'[q] \in [Piece(q) -> Row]
  BY <1>0, <1>1, <1>2 DEF RowType
<1>5. \A q \in Part : tried'[q] \in [Piece(q) -> Nat]
  BY <1>0, <1>1, <1>3 DEF RowType
<1>6. attempt' = [q \in Part |-> attempt'[q]] /\ tried' = [q \in Part |-> tried'[q]]
  BY <1>0, <1>1 DEF RowType
<1>7. JobType' /\ PollType' /\ RestType'
  BY <1>0, <1>1 DEF JobType, PollType, RestType
<1>. QED BY <1>1, <1>4, <1>5, <1>6, <1>7 DEF Typed, RowType

(* A run closed by its own coroutine.                                      *)
Owned(c) == [k \in Piece(caller[c].part) |-> caller[c].own[k].status]
Closes(c, p, own) ==
  /\ caller[c].phase = "closing" /\ p \in Part /\ p = caller[c].part /\ own = Owned(c)
  /\ caller[c].own \in Seq(Row) /\ Len(caller[c].own) = Pieces[p]
  /\ Finished(p, own, [entry EXCEPT ![p] = IF Settled(own) THEN @ ELSE "queued"])
  /\ caller' = [caller EXCEPT ![c] = Asleep] /\ CallerType'
  /\ UNCHANGED <<attempt, provider, plan, edits, datesLeft, active, poll, of, tried, straddled,
                 stops, crashes>>

LEMMA CloseIs ==
  ASSUME Typed, NEW c \in Caller, Close(c)
  PROVE  Closes(c, caller[c].part, Owned(c))
<1>. DEFINE p == caller[c].part
            own == Owned(c)
            entries == [entry EXCEPT ![p] = IF Settled(own) THEN @ ELSE "queued"]
<1>0. JobType /\ RowType /\ CallerType /\ PollType /\ RestType
  BY DEF Typed
<1>1. /\ caller[c].phase = "closing" /\ FinishSeriesRun(p, own, entries)
      /\ caller' = [caller EXCEPT ![c] = Asleep]
      /\ UNCHANGED <<attempt, provider, plan, edits, datesLeft, active, poll, of, tried, straddled,
                     stops, crashes>>
  BY DEF Close, Owned, fixed
<1>2. p \in Part /\ caller[c].own \in Seq(Row) /\ Len(caller[c].own) = Pieces[p]
  BY <1>0, <1>1 DEF CallerType, Holds, Coroutine
<1>3. entries \in [Part -> Entries]
  BY <1>0, <1>2 DEF JobType, Entries, Attempts
<1>4. CallerType'
  BY <1>0, <1>1, AsleepType, CallerMoves DEF CallerType
<1>. HIDE DEF own, p
<1>5. Finished(p, own, entries)
  BY <1>0, <1>1, <1>2, <1>3, FinishIs
<1>6. Closes(c, p, own)
  BY <1>1, <1>2, <1>4, <1>5 DEF Closes, own, p
<1>. QED BY <1>6 DEF own, p

LEMMA CloseType ==
  ASSUME Typed, NEW c \in Caller, Close(c)
  PROVE  Typed'
<1>0. JobType /\ RowType /\ CallerType /\ PollType /\ RestType
  BY DEF Typed
<1>1. Closes(c, caller[c].part, Owned(c))
  BY CloseIs
<1>2. JobType' /\ CallerType'
  BY <1>1 DEF Closes, Finished
<1>3. UNCHANGED <<attempt, provider, plan, edits, poll, of, tried, straddled, stops, crashes>>
  BY <1>1 DEF Closes
<1>. QED BY <1>0, <1>2, <1>3 DEF Typed, RowType, PollType, RestType

(* What the poll loads and what it leaves.                                 *)
LEMMA PollLoadsType ==
  ASSUME Typed, NEW p \in Part, PollLoads(p)
  PROVE  Typed'
<1>0. JobType /\ RowType /\ CallerType /\ PollType /\ RestType
  BY DEF Typed
<1>. DEFINE view == [k \in Piece(p) |-> IF k \in Open(p) THEN attempt[p][k] ELSE NoRow]
<1>1. /\ poll' = [part |-> p, view |-> view]
      /\ UNCHANGED <<job, entry, attempt, provider, plan, edits, scheduled, datesLeft, active,
                     caller, of, tried, straddled, stops, crashes>>
  BY DEF PollLoads, rows, fixed
<1>2. \A k \in Piece(p) : (IF k \in Open(p) THEN attempt[p][k] ELSE NoRow) \in Row
  BY <1>0 DEF RowType, NoRow, Row
<1>3. view \in Seq(Row) /\ DOMAIN view = Piece(p)
  <2>1. Piece(p) = 1..Pieces[p] /\ Pieces[p] \in Nat
    BY PartsOf
  <2>. QED BY <1>2, <2>1, SeqDef
<1>. HIDE DEF view
<1>4. PollType'
  <2>1. poll'.part = p /\ poll'.view = view /\ p \in 0..Total /\ p # 0
    BY <1>1, PartsOf DEF Part
  <2>2. poll' \in [part : 0..Total, view : Seq(Row)]
    BY <1>1, <1>3, <2>1
  <2>. QED BY <1>3, <2>1, <2>2 DEF PollType
<1>5. JobType' /\ RowType' /\ CallerType' /\ RestType'
  BY <1>0, <1>1 DEF JobType, RowType, CallerType, RestType
<1>. QED BY <1>4, <1>5 DEF Typed

(* What the end of a poll sees of the part, what it changes, and whether   *)
(* it tries to finish the run.                                             *)
Seen(p, new) == [k \in Piece(p) |-> IF new[k] = "none" THEN attempt[p][k].status ELSE new[k]]
Moved(p, new) == {k \in Piece(p) : new[k] # poll.view[k].status}
Resolved(p, new) == \E k \in Moved(p, new) : new[k] \notin PENDING
Statuses == {"none"} \cup Attempts
Ends(p, new) ==
  /\ poll.part = p /\ poll' = NoPoll /\ DOMAIN poll.view = Piece(p)
  /\ \A k \in Piece(p) : poll.view[k] \in Row /\ new[k] \in Looked(poll.view[k])
                         /\ new[k] \in Statuses
  /\ attempt' = [attempt EXCEPT ![p] = attempt'[p]]
  /\ attempt'[p] \in [Piece(p) -> Row]
  /\ \A k \in Piece(p) :
       /\ k \in Moved(p, new) => attempt'[p][k] = [attempt[p][k] EXCEPT !.status = new[k]]
       /\ k \notin Moved(p, new) => attempt'[p][k] = attempt[p][k]
  /\ Resolved(p, new) => Finished(p, Seen(p, new), entry)
  /\ ~ Resolved(p, new) => UNCHANGED <<job, entry, scheduled>>
  /\ straddled' \in BOOLEAN
  /\ straddled' <=> \/ straddled
                    \/ Resolved(p, new) /\ \E c \in Caller :
                                             caller[c].phase = "closing" /\ caller[c].part = p
                    \/ \E k \in Moved(p, new) : attempt[p][k] # poll.view[k]
  /\ UNCHANGED <<provider, plan, edits, datesLeft, active, caller, of, tried, stops, crashes>>

LEMMA LookedType ==
  ASSUME NEW row \in Row
  PROVE  Looked(row) \subseteq Statuses
BY DEF Row, Looked, Statuses, Attempts

LEMMA PollEndsIs ==
  ASSUME Typed, NEW p \in Part, NEW new, PollEnds(p, new)
  PROVE  Ends(p, new)
<1>. DEFINE seen == Seen(p, new)
            moved == Moved(p, new)
            resolved == Resolved(p, new)
            marks == \/ straddled
                     \/ resolved /\ \E c \in Caller :
                                      caller[c].phase = "closing" /\ caller[c].part = p
                     \/ \E k \in moved : attempt[p][k] # poll.view[k]
            piece == [k \in Piece(p) |-> IF k \in moved THEN [attempt[p][k] EXCEPT !.status = new[k]]
                                         ELSE attempt[p][k]]
<1>0. JobType /\ RowType /\ CallerType /\ PollType /\ RestType
  BY DEF Typed
<1>1. /\ poll.part = p /\ poll' = NoPoll /\ \A k \in Piece(p) : new[k] \in Looked(poll.view[k])
      /\ attempt' = [attempt EXCEPT ![p] = piece]
      /\ resolved => FinishSeriesRun(p, seen, entry)
      /\ ~ resolved => UNCHANGED <<job, entry, scheduled>>
      /\ UNCHANGED <<provider, plan, edits, datesLeft, active, caller, of, tried, stops, crashes>>
  BY <1>0 DEF PollEnds, Seen, Moved, Resolved, fixed, RowType
<1>2. straddled' = (\/ straddled
                    \/ resolved /\ \E c \in Caller :
                                     caller[c].phase = "closing" /\ caller[c].part = p
                    \/ \E k \in moved : attempt[p][k] # poll.view[k])
  BY DEF PollEnds, Moved, Resolved
<1>3. marks \in BOOLEAN
  BY <1>0 DEF RestType
<1>4. straddled' = marks
  BY <1>2
<1>5. DOMAIN poll.view = Piece(p)
  BY <1>0, <1>1, PartsOf DEF PollType, Part
<1>6. \A k \in Piece(p) : poll.view[k] \in Row
  <2>1. poll.view \in Seq(Row)
    BY <1>0 DEF PollType
  <2>. QED BY <1>5, <2>1
<1>7. \A k \in Piece(p) : new[k] \in Statuses
  BY <1>1, <1>6, LookedType
<1>. HIDE DEF marks, moved, resolved, seen
<1>8. straddled' \in BOOLEAN /\ (straddled' <=> marks)
  BY <1>3, <1>4, Zenon
<1>9. piece \in [Piece(p) -> Row]
  <2>1. ASSUME NEW k \in Piece(p)
        PROVE  [attempt[p][k] EXCEPT !.status = new[k]] \in Row /\ attempt[p][k] \in Row
    <3>1. attempt[p][k] \in Row /\ new[k] \in Statuses
      BY <1>0, <1>7 DEF RowType
    <3>. QED BY <3>1 DEF Row, Statuses, Attempts
  <2>. QED BY <2>1
<1>10. attempt'[p] = piece
  BY <1>0, <1>1 DEF RowType
<1>11. resolved => Finished(p, seen, entry)
  BY <1>0, <1>1, FinishIs DEF JobType
<1>12. \A k \in Piece(p) :
         /\ k \in moved => attempt'[p][k] = [attempt[p][k] EXCEPT !.status = new[k]]
         /\ k \notin moved => attempt'[p][k] = attempt[p][k]
  BY <1>10
<1>13. attempt' = [attempt EXCEPT ![p] = attempt'[p]] /\ attempt'[p] \in [Piece(p) -> Row]
  BY <1>1, <1>9, <1>10
<1>. HIDE DEF piece
<1>. QED BY <1>1, <1>5, <1>6, <1>7, <1>8, <1>11, <1>12, <1>13
         DEF Ends, marks, moved, resolved, seen

LEMMA PollEndsType ==
  ASSUME Typed, NEW p \in Part, NEW new, PollEnds(p, new)
  PROVE  Typed'
<1>0. JobType /\ RowType /\ CallerType /\ PollType /\ RestType
  BY DEF Typed
<1>1. Ends(p, new)
  BY PollEndsIs
<1>2. JobType'
  <2>1. CASE Resolved(p, new)
    BY <1>1, <2>1 DEF Ends, Finished
  <2>2. CASE ~ Resolved(p, new)
    BY <1>0, <1>1, <2>2 DEF Ends, JobType
  <2>. QED BY <2>1, <2>2
<1>3. CallerType' /\ RestType'
  BY <1>0, <1>1 DEF Ends, CallerType, RestType
<1>4. PollType'
  <2>1. poll' = [part |-> 0, view |-> <<>>]
    BY <1>1 DEF Ends, NoPoll
  <2>2. <<>> \in Seq(Row)
    OBVIOUS
  <2>3. 0 \in 0..Total
    BY PartsOf
  <2>. QED BY <2>1, <2>2, <2>3 DEF PollType, NoPoll
<1>5. RowType'
  BY <1>0, <1>1 DEF Ends, RowType
<1>. QED BY <1>2, <1>3, <1>4, <1>5 DEF Typed

(* Stops, resumption and edits.                                            *)
LEMMA StopsType ==
  ASSUME Typed, Pause \/ Cancel
  PROVE  Typed'
<1>0. JobType /\ RowType /\ CallerType /\ PollType /\ RestType
  BY DEF Typed
<1>1. PICK to \in {"paused", "cancelled"} : job' = [job EXCEPT !.status = to]
  BY DEF Pause, Cancel, Stops
<1>2. /\ scheduled' = FALSE /\ stops' = stops + 1 /\ stops + edits < MaxAsks
      /\ UNCHANGED <<entry, attempt, provider, plan, edits, datesLeft, active, caller, poll, of,
                     tried, straddled, crashes>>
  BY DEF Pause, Cancel, Stops, fixed
<1>3. job' \in Job
  BY <1>0, <1>1 DEF JobType, Job, Status
<1>4. JobType'
  BY <1>0, <1>2, <1>3 DEF JobType
<1>5. stops' \in 0..MaxAsks
  BY <1>0, <1>2, SeriesAssumption DEF RestType
<1>6. RowType' /\ CallerType' /\ PollType' /\ RestType'
  BY <1>0, <1>2, <1>5 DEF RowType, CallerType, PollType, RestType
<1>. QED BY <1>4, <1>6 DEF Typed

(* The job a resumption registers.                                         *)
Back == [job EXCEPT !.status = IF job.kind = "trigger" THEN "trigger" ELSE "active"]
LEMMA BackType ==
  ASSUME job \in Job
  PROVE  Back \in Job /\ Back.kind = job.kind /\ Back.cursor = job.cursor /\ Back.run = job.run
         /\ Back.status \in Claimable
BY DEF Back, Job, Status, Claimable

LEMMA ResumeIs ==
  ASSUME Typed, Resume
  PROVE  /\ job.status = "paused"
         /\ job' = Registered(Back, scheduled, datesLeft).job
         /\ scheduled' = Registered(Back, scheduled, datesLeft).timer
         /\ JobType' /\ job'.kind = job.kind /\ job'.cursor = job.cursor /\ job'.run = job.run
         /\ job'.status = "completed" =>
              \/ job.cursor >= Total /\ job.run = 0 /\ SeriesResult(entry) = "completed"
              \/ job.kind = "dates"
         /\ UNCHANGED <<entry, attempt, provider, plan, edits, datesLeft, active, caller, poll, of,
                        tried, straddled, stops, crashes>>
<1>0. JobType
  BY DEF Typed
<1>1. /\ job.status = "paused"
      /\ job' = Registered(Back, scheduled, datesLeft).job
      /\ scheduled' = Registered(Back, scheduled, datesLeft).timer
      /\ UNCHANGED <<entry, attempt, provider, plan, edits, datesLeft, active, caller, poll, of,
                     tried, straddled, stops, crashes>>
  BY DEF Resume, Back, fixed
<1>2. job \in Job /\ scheduled \in BOOLEAN /\ datesLeft \in Nat
      /\ (scheduled /\ job.kind = "dates" => datesLeft > 0)
  BY <1>0, SeriesAssumption DEF JobType
<1>3. Back \in Job /\ Back.kind = job.kind /\ Back.cursor = job.cursor /\ Back.run = job.run
      /\ Back.status # "completed"
  BY <1>2, BackType DEF Claimable
<1>. DEFINE back == Registered(Back, scheduled, datesLeft)
<1>4. /\ back.job \in Job /\ back.job.kind = Back.kind /\ back.job.cursor = Back.cursor
      /\ back.job.run = Back.run /\ back.timer \in BOOLEAN
      /\ back.timer /\ Back.kind = "dates" => datesLeft > 0
      /\ back.job.status = "completed" =>
           \/ Back.status = "completed"
           \/ Back.cursor >= Total /\ Back.run = 0 /\ SeriesResult(entry) = "completed"
           \/ Back.kind = "dates"
  BY <1>2, <1>3, RegisteredIs
<1>. HIDE DEF back
<1>5. job' = back.job /\ scheduled' = back.timer
  BY <1>1 DEF back
<1>6. JobType'
  BY <1>0, <1>1, <1>3, <1>4, <1>5 DEF JobType
<1>. QED BY <1>1, <1>3, <1>4, <1>5, <1>6

LEMMA ResumeType ==
  ASSUME Typed, Resume
  PROVE  Typed'
BY ResumeIs DEF Typed, RowType, CallerType, PollType, RestType

(* The job an edit registers.                                              *)
Fresh(kind) == [status |-> IF kind = "trigger" THEN "trigger" ELSE "active",
                kind |-> kind, cursor |-> 0, run |-> 0]
LEMMA FreshType ==
  ASSUME NEW kind \in Kinds
  PROVE  Fresh(kind) \in Job /\ Fresh(kind).kind = kind /\ Fresh(kind).cursor = 0
         /\ Fresh(kind).run = 0 /\ Fresh(kind).status \in Claimable
<1>1. kind \in {"cron", "dates", "trigger"} /\ 0 \in 0..Total
  BY SeriesAssumption, PartsOf
<1>. QED BY <1>1 DEF Fresh, Job, Status, Claimable

LEMMA EditIs ==
  ASSUME Typed, NEW kind \in Kinds, Edit(kind)
  PROVE  /\ job.cursor = 0 /\ job.run = 0 /\ job'.cursor = 0 /\ job'.run = 0 /\ job'.kind = kind
         /\ JobType'
         /\ job'.status = "completed" => kind = "dates"
         /\ plan' = plan + 1 /\ edits' = edits + 1 /\ edits < MaxEdits
         /\ UNCHANGED <<attempt, provider, active, caller, poll, of, tried, straddled, stops,
                        crashes>>
<1>. DEFINE new == Registered(Fresh(kind), FALSE, Dates)
<1>1. /\ job.cursor = 0 /\ job.run = 0 /\ edits < MaxEdits
      /\ job' = new.job /\ scheduled' = new.timer /\ datesLeft' = Dates
      /\ entry' = [p \in Part |-> "pending"]
      /\ plan' = plan + 1 /\ edits' = edits + 1
      /\ UNCHANGED <<attempt, provider, active, caller, poll, of, tried, straddled, stops, crashes>>
  BY DEF Edit, Editable, Fresh
<1>2. Fresh(kind) \in Job /\ Fresh(kind).kind = kind /\ Fresh(kind).cursor = 0
      /\ Fresh(kind).run = 0 /\ Fresh(kind).status # "completed"
  BY FreshType DEF Claimable
<1>3. Dates \in Nat /\ Dates > 0 /\ FALSE \in BOOLEAN
  BY SeriesAssumption
<1>4. /\ new.job \in Job /\ new.job.kind = Fresh(kind).kind
      /\ new.job.cursor = Fresh(kind).cursor /\ new.job.run = Fresh(kind).run
      /\ new.timer \in BOOLEAN
      /\ new.job.status = "completed" =>
           \/ Fresh(kind).status = "completed"
           \/ Fresh(kind).cursor >= Total /\ Fresh(kind).run = 0 /\ SeriesResult(entry) = "completed"
           \/ Fresh(kind).kind = "dates"
  BY <1>2, <1>3, RegisteredIs
<1>. HIDE DEF new
<1>5. ~ (0 >= Total)
  BY PartsOf
<1>6. entry' \in [Part -> Entries]
  BY <1>1 DEF Entries
<1>7. JobType'
  BY <1>1, <1>3, <1>4, <1>6 DEF JobType
<1>. QED BY <1>1, <1>2, <1>4, <1>5, <1>7

LEMMA EditType ==
  ASSUME Typed, NEW kind \in Kinds, Edit(kind)
  PROVE  Typed'
<1>0. JobType /\ RowType /\ CallerType /\ PollType /\ RestType
  BY DEF Typed
<1>1. /\ JobType' /\ plan' = plan + 1 /\ edits' = edits + 1 /\ edits < MaxEdits
      /\ UNCHANGED <<attempt, provider, active, caller, poll, of, tried, straddled, stops, crashes>>
  BY EditIs
<1>2. plan' \in 0..MaxEdits /\ edits' \in 0..MaxEdits /\ plan' = edits'
  BY <1>0, <1>1, SeriesAssumption DEF RestType
<1>3. RestType'
  BY <1>0, <1>1, <1>2 DEF RestType
<1>. QED BY <1>0, <1>1, <1>3 DEF Typed, RowType, CallerType, PollType

(* A restart: only a piece that was being sent may have gone out.          *)
AtPiece(p, k) == \E c \in Caller : caller[c].phase = "sending" /\ caller[c].part = p
                                   /\ k = Len(caller[c].own) + 1
LEMMA RestartIs ==
  ASSUME Typed, Restart
  PROVE  /\ JobType' /\ job'.kind = job.kind /\ job'.cursor = job.cursor /\ job'.run = job.run
         /\ job.status \notin {"active", "queued"} => job'.status = job.status
         /\ job'.status = "completed" =>
              \/ job.status = "completed"
              \/ job.cursor >= Total /\ job.run = 0 /\ SeriesResult(entry) = "completed"
              \/ job.kind = "dates"
         /\ tried' = [p \in Part |-> [k \in Piece(p) |-> tried'[p][k]]]
         /\ \A p \in Part : \A k \in Piece(p) :
              /\ AtPiece(p, k) => tried'[p][k] = tried[p][k] + 1
              /\ ~ AtPiece(p, k) => tried'[p][k] = tried[p][k]
         /\ caller' = [c \in Caller |-> Asleep] /\ active' = {} /\ poll' = NoPoll
         /\ straddled' \in BOOLEAN /\ (straddled => straddled')
         /\ (\E c \in Caller : caller[c].phase = "closing") => straddled'
         /\ crashes < MaxCrashes /\ crashes' = crashes + 1
         /\ UNCHANGED <<entry, attempt, provider, plan, edits, of, stops>>
<1>0. JobType /\ RowType /\ CallerType /\ PollType /\ RestType
  BY DEF Typed
<1>1. /\ caller' = [c \in Caller |-> Asleep] /\ active' = {} /\ poll' = NoPoll
      /\ crashes < MaxCrashes /\ crashes' = crashes + 1
      /\ UNCHANGED <<entry, attempt, provider, plan, edits, of, stops>>
  BY DEF Restart, fixed
<1>2. PICK left \in 0..datesLeft :
        LET back == IF job.status \in {"active", "queued"} THEN Registered(job, FALSE, left)
                    ELSE [job |-> job, timer |-> FALSE]
        IN datesLeft' = left /\ job' = back.job /\ scheduled' = back.timer
  BY DEF Restart
<1>3. job \in Job /\ left \in Nat /\ FALSE \in BOOLEAN /\ datesLeft' \in 0..Dates
  BY <1>0, <1>2, SeriesAssumption DEF JobType
<1>4. /\ JobType' /\ job'.kind = job.kind /\ job'.cursor = job.cursor /\ job'.run = job.run
      /\ job.status \notin {"active", "queued"} => job'.status = job.status
      /\ job'.status = "completed" =>
           \/ job.status = "completed"
           \/ job.cursor >= Total /\ job.run = 0 /\ SeriesResult(entry) = "completed"
           \/ job.kind = "dates"
  <2>1. CASE job.status \in {"active", "queued"}
    <3>. DEFINE back == Registered(job, FALSE, left)
    <3>1. /\ back.job \in Job /\ back.job.kind = job.kind
          /\ back.job.cursor = job.cursor /\ back.job.run = job.run
          /\ back.timer \in BOOLEAN
          /\ back.timer /\ job.kind = "dates" => left > 0
          /\ back.job.status = "completed" =>
               \/ job.status = "completed"
               \/ job.cursor >= Total /\ job.run = 0 /\ SeriesResult(entry) = "completed"
               \/ job.kind = "dates"
      BY <1>3, RegisteredIs
    <3>2. datesLeft' = left /\ job' = back.job /\ scheduled' = back.timer
      BY <1>2, <2>1
    <3>. HIDE DEF back
    <3>3. JobType'
      BY <1>0, <1>1, <1>3, <3>1, <3>2 DEF JobType
    <3>. QED BY <2>1, <3>1, <3>2, <3>3
  <2>2. CASE job.status \notin {"active", "queued"}
    <3>1. job' = job /\ scheduled' = FALSE
      BY <1>2, <2>2
    <3>. QED BY <1>0, <1>1, <1>3, <2>2, <3>1 DEF JobType
  <2>. QED BY <2>1, <2>2
<1>5. tried' = [p \in Part |-> [k \in Piece(p) |-> tried[p][k] + IF AtPiece(p, k) THEN 1 ELSE 0]]
  BY DEF Restart, AtPiece
<1>6. /\ tried' = [p \in Part |-> [k \in Piece(p) |-> tried'[p][k]]]
      /\ \A p \in Part : \A k \in Piece(p) :
           /\ AtPiece(p, k) => tried'[p][k] = tried[p][k] + 1
           /\ ~ AtPiece(p, k) => tried'[p][k] = tried[p][k]
  <2>1. \A p \in Part : \A k \in Piece(p) : tried[p][k] \in Nat
    BY <1>0 DEF RowType
  <2>. QED BY <1>5, <2>1
<1>7. /\ straddled' \in BOOLEAN /\ (straddled => straddled')
      /\ (\E c \in Caller : caller[c].phase = "closing") => straddled'
  <2>. DEFINE marks == straddled \/ \E c \in Caller : caller[c].phase = "closing"
  <2>1. straddled' = marks /\ marks \in BOOLEAN
    BY <1>0 DEF Restart, RestType
  <2>2. /\ straddled => marks
        /\ (\E c \in Caller : caller[c].phase = "closing") => marks
    OBVIOUS
  <2>. HIDE DEF marks
  <2>. QED BY <2>1, <2>2, Zenon
<1>. QED BY <1>1, <1>4, <1>6, <1>7

LEMMA RestartType ==
  ASSUME Typed, Restart
  PROVE  Typed'
<1>0. JobType /\ RowType /\ CallerType /\ PollType /\ RestType
  BY DEF Typed
<1>1. /\ JobType'
      /\ tried' = [p \in Part |-> [k \in Piece(p) |-> tried'[p][k]]]
      /\ \A p \in Part : \A k \in Piece(p) :
           /\ AtPiece(p, k) => tried'[p][k] = tried[p][k] + 1
           /\ ~ AtPiece(p, k) => tried'[p][k] = tried[p][k]
      /\ caller' = [c \in Caller |-> Asleep] /\ active' = {} /\ poll' = NoPoll
      /\ straddled' \in BOOLEAN /\ crashes < MaxCrashes /\ crashes' = crashes + 1
      /\ UNCHANGED <<entry, attempt, provider, plan, edits, of, stops>>
  BY RestartIs
<1>2. RowType'
  <2>1. \A p \in Part : tried'[p] = [k \in Piece(p) |-> tried'[p][k]]
    BY <1>1, Zenon
  <2>2. \A p \in Part : \A k \in Piece(p) : tried'[p][k] \in Nat
    BY <1>0, <1>1 DEF RowType
  <2>3. \A p \in Part : tried'[p] \in [Piece(p) -> Nat]
    BY <2>1, <2>2
  <2>4. tried' = [p \in Part |-> tried'[p]]
    BY <1>1
  <2>. QED BY <1>0, <1>1, <2>3, <2>4 DEF RowType
<1>3. CallerType'
  <2>1. \A c \in Caller : caller'[c] = Asleep
    BY <1>1
  <2>2. caller' \in [Caller -> Coroutine]
    BY <1>1, AsleepType
  <2>. QED BY <1>1, <2>1, <2>2, AsleepType DEF CallerType
<1>4. PollType'
  <2>1. poll' = [part |-> 0, view |-> <<>>]
    BY <1>1 DEF NoPoll
  <2>2. 0 \in 0..Total /\ <<>> \in Seq(Row)
    BY PartsOf
  <2>. QED BY <2>1, <2>2 DEF PollType, NoPoll
<1>5. crashes' \in 0..MaxCrashes
  BY <1>0, <1>1, SeriesAssumption DEF RestType
<1>6. RestType'
  BY <1>0, <1>1, <1>5 DEF RestType
<1>. QED BY <1>1, <1>2, <1>3, <1>4, <1>6 DEF Typed

LEMMA InitType == Init => Typed
<1>. SUFFICES ASSUME Init PROVE Typed
  OBVIOUS
<1>1. PICK kind \in Kinds : job = Fresh(kind) /\ scheduled = (kind # "trigger")
  BY DEF Init, Fresh
<1>2. job \in Job
  BY <1>1, FreshType
<1>3. JobType
  <2>1. (kind # "trigger") \in BOOLEAN
    OBVIOUS
  <2>2. scheduled \in BOOLEAN
    BY <1>1, <2>1, Zenon
  <2>3. datesLeft = Dates /\ Dates \in Nat /\ Dates > 0
    BY SeriesAssumption DEF Init
  <2>4. entry \in [Part -> Entries]
    BY DEF Init, Entries
  <2>. QED BY <1>2, <2>2, <2>3, <2>4 DEF JobType
<1>4. RowType
  <2>1. attempt = [p \in Part |-> [k \in Piece(p) |-> NoRow]]
        /\ tried = [p \in Part |-> [k \in Piece(p) |-> 0]]
    BY DEF Init, NoRows
  <2>2. NoRow \in Row
    BY DEF NoRow, Row
  <2>. QED BY <2>1, <2>2 DEF RowType
<1>5. CallerType
  <2>1. caller = [c \in Caller |-> Asleep] /\ active = {}
    BY DEF Init
  <2>. QED BY <2>1, AsleepType DEF CallerType
<1>6. PollType
  <2>1. poll = [part |-> 0, view |-> <<>>]
    BY DEF Init, NoPoll
  <2>2. 0 \in 0..Total /\ <<>> \in Seq(Row)
    BY PartsOf
  <2>. QED BY <2>1, <2>2 DEF PollType, NoPoll
<1>7. RestType
  <2>1. 0 \in 0..MaxEdits /\ 0 \in 0..MaxAsks /\ 0 \in 0..MaxCrashes
    BY SeriesAssumption
  <2>2. /\ provider \in {"native", "whatsapp"} /\ plan = 0 /\ edits = 0 /\ stops = 0 /\ crashes = 0
        /\ straddled = FALSE /\ of = [p \in Part |-> 0]
    BY DEF Init
  <2>3. straddled \in BOOLEAN /\ plan = edits
    BY <2>2
  <2>4. of \in [Part -> 0..MaxEdits]
    BY <2>1, <2>2
  <2>. QED BY <2>1, <2>2, <2>3, <2>4 DEF RestType
<1>. QED BY <1>3, <1>4, <1>5, <1>6, <1>7 DEF Typed

LEMMA NextType ==
  ASSUME Typed, [Next]_vars
  PROVE  Typed'
<1>1. ASSUME NEW c \in Caller, TimerFires(c) \/ SendNow(c)
      PROVE  Typed'
  BY <1>1, LoadsType
<1>2. ASSUME NEW c \in Caller, Runs(c)
      PROVE  Typed'
  BY <1>2, ClaimType, CloseType, SendType DEF Runs
<1>3. ASSUME NEW p \in Part, PollLoads(p)
      PROVE  Typed'
  BY <1>3, PollLoadsType
<1>4. ASSUME NEW p \in Part, NEW new \in News(p), PollEnds(p, new)
      PROVE  Typed'
  BY <1>4, PollEndsType
<1>5. CASE Pause \/ Cancel
  BY <1>5, StopsType
<1>6. CASE Resume
  BY <1>6, ResumeType
<1>7. CASE Restart
  BY <1>7, RestartType
<1>8. ASSUME NEW kind \in Kinds, Edit(kind)
      PROVE  Typed'
  BY <1>8, EditType
<1>9. CASE UNCHANGED vars
  BY <1>9 DEF vars, rows, fixed, Typed, JobType, RowType, CallerType, PollType, RestType
<1>. QED BY <1>1, <1>2, <1>3, <1>4, <1>5, <1>6, <1>7, <1>8, <1>9 DEF Next

(* The state keeps its types: no coroutine sends beyond the last piece of  *)
(* its part, and the timer of picked dates always has one to come.         *)
THEOREM TypeCorrect == Spec => []TypeOK
<1>1. Init => Typed
  BY InitType
<1>2. Typed /\ [Next]_vars => Typed'
  BY NextType
<1>3. Typed => TypeOK
  BY TypeParts DEF Typed, TypeInv
<1>. QED BY <1>1, <1>2, <1>3, PTL DEF Spec

(* A stopped series claims nothing, and what ends around it brings none    *)
(* back to life (StopHolds).                                               *)
LEMMA StopStep ==
  ASSUME Typed, [Next]_vars, job.status \in {"paused", "cancelled"}
  PROVE  /\ job'.cursor = job.cursor
         /\ job'.status # job.status => (job.status = "paused" \/ edits' # edits)
<1>0. JobType
  BY DEF Typed
<1>1. ASSUME NEW c \in Caller, TimerFires(c) \/ SendNow(c)
      PROVE  job' = job
  BY <1>1 DEF TimerFires, SendNow, Loads, rows
<1>2. ASSUME NEW c \in Caller, Claim(c)
      PROVE  job' = job
  <2>1. GivesUp(c)
    BY <1>2, ClaimIs DEF Claims, Claimable
  <2>. QED BY <2>1 DEF GivesUp
<1>3. ASSUME NEW c \in Caller, Close(c)
      PROVE  job'.cursor = job.cursor /\ (job'.status # job.status => job.status = "paused")
  <2>1. Closes(c, caller[c].part, Owned(c))
    BY <1>3, CloseIs
  <2>. QED BY <2>1 DEF Closes, Finished
<1>4. ASSUME NEW c \in Caller, NEW outcome \in Outcomes, SendPiece(c, outcome)
      PROVE  job' = job
  BY <1>4 DEF SendPiece
<1>5. ASSUME NEW p \in Part, PollLoads(p)
      PROVE  job' = job
  BY <1>5 DEF PollLoads, rows
<1>6. ASSUME NEW p \in Part, NEW new \in News(p), PollEnds(p, new)
      PROVE  job'.cursor = job.cursor /\ (job'.status # job.status => job.status = "paused")
  <2>1. Ends(p, new)
    BY <1>6, PollEndsIs
  <2>. QED BY <2>1 DEF Ends, Finished
<1>7. CASE Pause \/ Cancel
  BY <1>0, <1>7 DEF Pause, Cancel, Stops, JobType, Job
<1>8. CASE Resume
  BY <1>8, ResumeIs
<1>9. CASE Restart
  BY <1>9, RestartIs
<1>10. ASSUME NEW kind \in Kinds, Edit(kind)
       PROVE  job'.cursor = job.cursor /\ edits' # edits
  <2>1. job.cursor = 0 /\ job'.cursor = 0 /\ edits' = edits + 1 /\ edits \in Nat
    BY <1>10, EditIs, SeriesAssumption DEF Typed, RestType
  <2>. QED BY <2>1
<1>11. CASE UNCHANGED vars
  BY <1>11 DEF vars, rows
<1>. QED BY <1>1, <1>2, <1>3, <1>4, <1>5, <1>6, <1>7, <1>8, <1>9, <1>10, <1>11 DEF Next, Runs

(* A paused or cancelled series takes no further part of its plan, and     *)
(* only an edit brings a cancelled one back, whatever runs, polls and      *)
(* restarts end around it (send_job, finish_series_run, register_job).     *)
THEOREM StopAlwaysHolds == Spec => StopHolds
<1>1. Init => Typed
  BY InitType
<1>2. Typed /\ [Next]_vars => Typed'
  BY NextType
<1>3. Typed /\ [Next]_vars =>
        [job.status \in {"paused", "cancelled"} =>
           /\ job'.cursor = job.cursor
           /\ job'.status # job.status => (job.status = "paused" \/ edits' # edits)]_vars
  BY StopStep
<1>. QED BY <1>1, <1>2, <1>3, PTL DEF Spec, StopHolds

-----------------------------------------------------------------------------
(* What is sent is the plan as it stands.                                  *)
LEMMA PlanStep ==
  ASSUME Typed, PlanCurrent, [Next]_vars
  PROVE  PlanCurrent'
<1>0. JobType /\ RestType
  BY DEF Typed
<1>1. ASSUME job'.cursor = job.cursor, UNCHANGED <<of, plan>>
      PROVE  PlanCurrent'
  BY <1>1 DEF PlanCurrent
<1>2. ASSUME NEW c \in Caller, TimerFires(c) \/ SendNow(c)
      PROVE  PlanCurrent'
  BY <1>1, <1>2 DEF TimerFires, SendNow, Loads, rows, fixed
<1>3. ASSUME NEW c \in Caller, Claim(c)
      PROVE  PlanCurrent'
  <2>1. plan' = plan
    BY <1>3, ClaimIs
  <2>2. CASE GivesUp(c)
    BY <1>1, <2>1, <2>2 DEF GivesUp
  <2>3. CASE Claims(c)
    <3>1. job'.cursor = job.cursor + 1 /\ job.cursor \in Nat
      BY <1>0, <2>3, PartsOf DEF Claims, JobType, Job
    <3>2. of' = [of EXCEPT ![job.cursor + 1] = plan] /\ of \in [Part -> 0..MaxEdits]
          /\ job.cursor + 1 \in Part
      BY <1>0, <2>3 DEF Claims, RestType
    <3>3. ASSUME NEW p \in 1..(job.cursor + 1) PROVE of'[p] = plan
      <4>1. CASE p = job.cursor + 1
        BY <3>2, <4>1
      <4>2. CASE p # job.cursor + 1
        BY <3>1, <3>2, <4>2 DEF PlanCurrent, Part
      <4>. QED BY <4>1, <4>2
    <3>. QED BY <2>1, <3>1, <3>3 DEF PlanCurrent
  <2>. QED BY <1>3, <2>2, <2>3, ClaimIs
<1>4. ASSUME NEW c \in Caller, Close(c)
      PROVE  PlanCurrent'
  <2>1. Closes(c, caller[c].part, Owned(c))
    BY <1>4, CloseIs
  <2>. QED BY <1>1, <2>1 DEF Closes, Finished
<1>5. ASSUME NEW c \in Caller, NEW outcome \in Outcomes, SendPiece(c, outcome)
      PROVE  PlanCurrent'
  BY <1>1, <1>5 DEF SendPiece, fixed
<1>6. ASSUME NEW p \in Part, PollLoads(p)
      PROVE  PlanCurrent'
  BY <1>1, <1>6 DEF PollLoads, rows, fixed
<1>7. ASSUME NEW p \in Part, NEW new \in News(p), PollEnds(p, new)
      PROVE  PlanCurrent'
  <2>1. Ends(p, new)
    BY <1>7, PollEndsIs
  <2>. QED BY <1>1, <2>1 DEF Ends, Finished
<1>8. CASE Pause \/ Cancel
  BY <1>0, <1>1, <1>8 DEF Pause, Cancel, Stops, fixed, JobType, Job
<1>9. CASE Resume
  BY <1>1, <1>9, ResumeIs
<1>10. CASE Restart
  BY <1>1, <1>10, RestartIs
<1>11. ASSUME NEW kind \in Kinds, Edit(kind)
       PROVE  PlanCurrent'
  BY <1>11, EditIs DEF PlanCurrent
<1>12. CASE UNCHANGED vars
  BY <1>1, <1>12 DEF vars, rows, fixed
<1>. QED BY <1>2, <1>3, <1>4, <1>5, <1>6, <1>7, <1>8, <1>9, <1>10, <1>11, <1>12 DEF Next, Runs

(* Every part that was begun was taken from the plan as it stands: an edit *)
(* between a run's reading of the job and its claim is what the run sends  *)
(* (submit_series, edit_job).                                              *)
THEOREM PlanAlwaysCurrent == Spec => []PlanCurrent
<1>1. Init => Typed /\ PlanCurrent
  <2>1. Init => job.cursor = 0
    BY DEF Init
  <2>. QED BY <2>1, InitType DEF PlanCurrent
<1>2. Typed /\ PlanCurrent /\ [Next]_vars => Typed' /\ PlanCurrent'
  BY NextType, PlanStep
<1>. QED BY <1>1, <1>2, PTL DEF Spec

-----------------------------------------------------------------------------
(* Why nothing is sent twice and parts do not overlap. The run belongs to  *)
(* the last part begun, and to the one coroutine that sends it; a part     *)
(* that is over has no open attempt; the pieces a coroutine has not come   *)
(* to are untouched, also by a poll that has loaded them; and what a poll  *)
(* will leave as it is, is what it has loaded.                             *)
Begun == 1..job.cursor
Over == {p \in Begun : p # job.run}
RunInv ==
  /\ job.run \in {0, job.cursor}
  /\ \A c \in Caller : Busy(c) => caller[c].part <= job.cursor
  /\ \A c \in Caller : caller[c].phase = "sending" =>
       job.run = caller[c].part /\ caller[c].part \in active
  /\ \A c, d \in Caller : Busy(c) /\ Busy(d) /\ c # d => caller[c].part # caller[d].part
  /\ poll.part <= job.cursor
PieceInv ==
  \A p \in Part : \A k \in Piece(p) :
    /\ p > job.cursor => attempt[p][k] = NoRow /\ tried[p][k] = 0
    /\ p \in Over => attempt[p][k].status \notin PENDING
    /\ tried[p][k] <= 1
Waiting(p, k) ==
  /\ attempt[p][k] = Submitting /\ tried[p][k] = 0
  /\ poll.part = p => poll.view[k].status \in {"none", "submitting"}
Follows(c, k) ==
  /\ k > Len(caller[c].own) => Waiting(caller[c].part, k)
  /\ k <= Len(caller[c].own) /\ attempt[caller[c].part][k].status \in PENDING =>
       caller[c].own[k].status \in PENDING
SendInv == \A c \in Caller : Busy(c) => \A k \in Piece(caller[c].part) : Follows(c, k)
PollInv ==
  poll.part # 0 => \A k \in Piece(poll.part) :
    /\ poll.view[k].status \in {"none", "submitting", "queued", "unknown"}
    /\ poll.view[k].status = "unknown" => attempt[poll.part][k] = poll.view[k]
CoreInv == RunInv /\ PieceInv /\ SendInv /\ PollInv

(* Steps that leave runs, attempts and polls alone.                        *)
LEMMA QuietCore ==
  ASSUME CoreInv, UNCHANGED <<attempt, tried, poll, active>>,
         job'.cursor = job.cursor, job'.run = job.run,
         \A c \in Caller : caller'[c] = caller[c] \/ ~ (Busy(c))'
  PROVE  CoreInv'
<1>1. Begun' = Begun /\ Over' = Over
  BY DEF Begun, Over
<1>2. \A c \in Caller : (Busy(c))' => Busy(c) /\ caller'[c] = caller[c]
  BY DEF Busy
<1>3. \A c \in Caller : caller'[c].phase = "sending" => caller'[c] = caller[c]
  BY DEF Busy
<1>4. RunInv'
  BY <1>2, <1>3 DEF CoreInv, RunInv
<1>5. PieceInv'
  BY <1>1 DEF CoreInv, PieceInv
<1>6. SendInv'
  BY <1>2 DEF CoreInv, SendInv, Follows, Waiting
<1>7. PollInv'
  BY DEF CoreInv, PollInv
<1>. QED BY <1>4, <1>5, <1>6, <1>7 DEF CoreInv

LEMMA NoneBusy ==
  ASSUME caller' = [c \in Caller |-> Asleep]
  PROVE  \A c \in Caller : ~ (Busy(c))' /\ caller'[c].phase # "sending"
BY AsleepType DEF Busy

LEMMA ClaimCore ==
  ASSUME Typed, CoreInv, NEW c \in Caller, Claim(c)
  PROVE  CoreInv'
<1>0. JobType /\ RowType /\ CallerType /\ PollType /\ RestType
  BY DEF Typed
<1>1. UNCHANGED <<poll, tried>>
  BY ClaimIs
<1>2. CASE GivesUp(c)
  <2>1. caller' = [caller EXCEPT ![c] = Asleep] /\ UNCHANGED <<job, attempt, active>>
    BY <1>2 DEF GivesUp
  <2>2. \A d \in Caller : caller'[d] = caller[d] \/ ~ (Busy(d))'
    BY <1>0, <2>1, AsleepType DEF CallerType, Busy
  <2>. QED BY <1>1, <2>1, <2>2, QuietCore
<1>3. CASE Claims(c)
  <2>. DEFINE p == job.cursor + 1
              t == [caller[c] EXCEPT !.phase = "sending", !.part = p]
  <2>1. /\ p \in Part /\ caller[c].phase = "loaded" /\ job.cursor \in Nat /\ job.run = 0
        /\ p = job.cursor + 1 /\ p \in Nat
    BY <1>0, <1>3, PartsOf DEF Claims, JobType, Job
  <2>2. caller[c] \in Coroutine /\ caller[c].own = <<>>
    BY <1>0, <2>1 DEF CallerType, Holds
  <2>3. caller' = [caller EXCEPT ![c] = t] /\ t.phase = "sending" /\ t.part = p /\ t.own = <<>>
    BY <1>3, <2>2 DEF Claims, Coroutine
  <2>4. /\ caller'[c].phase = "sending" /\ caller'[c].part = p /\ caller'[c].own = <<>>
        /\ \A d \in Caller \ {c} : caller'[d] = caller[d]
    BY <1>0, <2>3 DEF CallerType
  <2>5. job'.cursor = p /\ job'.run = p
    BY <1>0, <1>3 DEF Claims, JobType, Job
  <2>6. /\ active' = active \cup {p}
        /\ attempt' = [attempt EXCEPT ![p] = [k \in Piece(p) |-> Submitting]]
    BY <1>3 DEF Claims
  <2>. HIDE DEF t, p
  <2>7. /\ \A k \in Piece(p) : attempt'[p][k] = Submitting
        /\ \A q \in Part : q # p => attempt'[q] = attempt[q]
    BY <1>0, <2>1, <2>6 DEF RowType
  <2>8. \A d \in Caller : Busy(d) => d # c /\ caller[d].phase = "closing" /\ caller[d].part < p
                                     /\ caller[d].part \in Part /\ caller[d].part \in Nat
    <3>. SUFFICES ASSUME NEW d \in Caller, Busy(d)
                  PROVE  d # c /\ caller[d].phase = "closing" /\ caller[d].part < p
                         /\ caller[d].part \in Part /\ caller[d].part \in Nat
      OBVIOUS
    <3>1. Holds(caller[d])
      BY <1>0 DEF CallerType
    <3>2. caller[d].part \in Part /\ caller[d].part \in Nat /\ caller[d].part # 0
      BY <3>1, PartsOf DEF Holds, Busy, Part
    <3>3. caller[d].phase # "sending"
      BY <2>1, <3>2 DEF CoreInv, RunInv
    <3>4. caller[d].part <= job.cursor
      BY DEF CoreInv, RunInv
    <3>. QED BY <2>1, <3>2, <3>3, <3>4 DEF Busy
  <2>9. poll.part \in Nat /\ poll.part < p
    BY <1>0, <2>1, PartsOf DEF CoreInv, RunInv, PollType
  <2>10. \A d \in Caller : (Busy(d))' => d = c \/ Busy(d)
    BY <2>4 DEF Busy
  <2>11. RunInv'
    <3>1. \A d \in Caller : (Busy(d))' => caller'[d].part <= job'.cursor
      <4>. SUFFICES ASSUME NEW d \in Caller, (Busy(d))' PROVE caller'[d].part <= job'.cursor
        OBVIOUS
      <4>1. CASE d = c
        BY <2>1, <2>4, <2>5, <4>1
      <4>2. CASE d # c
        BY <2>1, <2>4, <2>5, <2>8, <2>10, <4>2
      <4>. QED BY <4>1, <4>2
    <3>2. \A d \in Caller : caller'[d].phase = "sending" =>
            job'.run = caller'[d].part /\ caller'[d].part \in active'
      BY <2>4, <2>5, <2>6, <2>8 DEF Busy
    <3>3. \A d, e \in Caller : (Busy(d))' /\ (Busy(e))' /\ d # e => caller'[d].part # caller'[e].part
      <4>. SUFFICES ASSUME NEW d \in Caller, NEW e \in Caller, (Busy(d))', (Busy(e))', d # e
                    PROVE  caller'[d].part # caller'[e].part
        OBVIOUS
      <4>1. CASE d = c
        BY <2>1, <2>4, <2>8, <2>10, <4>1
      <4>2. CASE e = c
        BY <2>1, <2>4, <2>8, <2>10, <4>2
      <4>3. CASE d # c /\ e # c
        BY <2>4, <2>10, <4>3 DEF CoreInv, RunInv
      <4>. QED BY <4>1, <4>2, <4>3
    <3>4. poll'.part <= job'.cursor
      BY <1>1, <2>1, <2>5, <2>9
    <3>. QED BY <2>5, <3>1, <3>2, <3>3, <3>4 DEF RunInv
  <2>12. PieceInv'
    <3>. SUFFICES ASSUME NEW q \in Part, NEW k \in Piece(q)
                  PROVE  /\ q > job'.cursor => attempt'[q][k] = NoRow /\ tried'[q][k] = 0
                         /\ q \in Over' => attempt'[q][k].status \notin PENDING
                         /\ tried'[q][k] <= 1
      BY DEF PieceInv
    <3>0. q \in Nat
      BY PartsOf
    <3>1. /\ q > job.cursor => attempt[q][k] = NoRow /\ tried[q][k] = 0
          /\ q \in Over => attempt[q][k].status \notin PENDING
          /\ tried[q][k] <= 1
      BY DEF CoreInv, PieceInv
    <3>2. q > job'.cursor => q > job.cursor /\ q # p
      BY <2>1, <2>5, <3>0
    <3>3. q \in Over' => q \in Over /\ q # p
      BY <2>1, <2>5, <3>0, PartsOf DEF Over, Begun, Part
    <3>. QED BY <1>1, <2>7, <3>1, <3>2, <3>3
  <2>13. SendInv'
    <3>. SUFFICES ASSUME NEW d \in Caller, (Busy(d))', NEW k \in Piece(caller'[d].part)
                  PROVE  Follows(d, k)'
      BY DEF SendInv
    <3>1. CASE d = c
      <4>1. tried[p][k] = 0 /\ k \in Piece(p)
        BY <2>1, <2>4, <3>1 DEF CoreInv, PieceInv
      <4>2. attempt'[p][k] = Submitting /\ poll.part # p
        BY <2>1, <2>7, <2>9, <4>1
      <4>3. Len(caller'[c].own) = 0 /\ k \in Nat /\ k > 0
        BY <2>1, <2>4, <4>1, PartsOf
      <4>. QED BY <1>1, <2>4, <3>1, <4>1, <4>2, <4>3 DEF Follows, Waiting
    <3>2. CASE d # c
      <4>1. caller'[d] = caller[d] /\ Busy(d) /\ caller[d].part \in Part /\ caller[d].part # p
        BY <2>1, <2>4, <2>8, <2>10, <3>2
      <4>2. attempt'[caller[d].part] = attempt[caller[d].part]
        BY <2>7, <4>1
      <4>. QED BY <1>1, <4>1, <4>2 DEF CoreInv, SendInv, Follows, Waiting
    <3>. QED BY <3>1, <3>2
  <2>14. PollInv'
    <3>. SUFFICES ASSUME poll.part # 0
                  PROVE  PollInv'
      BY <1>1 DEF PollInv
    <3>1. poll.part \in Part /\ poll.part # p
      BY <1>0, <2>1, <2>9, PartsOf DEF PollType, Part
    <3>2. attempt'[poll.part] = attempt[poll.part]
      BY <2>7, <3>1
    <3>. QED BY <1>1, <3>2 DEF CoreInv, PollInv
  <2>. QED BY <2>11, <2>12, <2>13, <2>14 DEF CoreInv
<1>. QED BY <1>2, <1>3, ClaimIs

LEMMA BusyPart ==
  ASSUME CallerType, NEW c \in Caller, Busy(c)
  PROVE  caller[c].part \in Part /\ caller[c].part # 0 /\ caller[c].part \in Nat
         /\ Holds(caller[c]) /\ caller[c].own \in Seq(Row) /\ Len(caller[c].own) \in Nat
<1>1. Holds(caller[c]) /\ caller[c].own \in Seq(Row)
  BY DEF CallerType, Coroutine
<1>2. caller[c].part \in Part
  BY <1>1 DEF Holds, Busy
<1>. QED BY <1>1, <1>2, PartsOf DEF Part

LEMMA SendCore ==
  ASSUME Typed, CoreInv, NEW c \in Caller, NEW outcome \in Outcomes, SendPiece(c, outcome)
  PROVE  CoreInv'
<1>. SUFFICES ASSUME NEW p, NEW k, p = caller[c].part, k = Len(caller[c].own) + 1
              PROVE  CoreInv'
  OBVIOUS
<1>0. RowType /\ CallerType /\ PollType
  BY DEF Typed
<1>1. Sends(c, outcome, p, k)
  BY SendIs
<1>2. /\ p \in Part /\ k \in Piece(p) /\ k \in Nat /\ caller[c].phase = "sending" /\ Busy(c)
      /\ caller[c].own \in Seq(Row) /\ Len(caller[c].own) \in Nat
      /\ attempt'[p][k] = outcome /\ tried'[p][k] = tried[p][k] + 1
      /\ \A q \in Part : \A l \in Piece(q) : q # p \/ l # k =>
           attempt'[q][l] = attempt[q][l] /\ tried'[q][l] = tried[q][l]
      /\ caller'[c].part = p /\ caller'[c].own = Append(caller[c].own, outcome)
      /\ \A d \in Caller \ {c} : caller'[d] = caller[d]
      /\ UNCHANGED <<job, poll>>
  BY <1>1 DEF Sends, Busy
<1>3. /\ Len(caller'[c].own) = k /\ caller'[c].own[k] = outcome
      /\ \A l \in 1..Len(caller[c].own) : caller'[c].own[l] = caller[c].own[l]
  BY <1>2, OutcomeType
<1>4. /\ \A d \in Caller : (Busy(d))' => Busy(d) /\ caller'[d].part = caller[d].part
      /\ \A d \in Caller : caller'[d].phase = "sending" => caller[d].phase = "sending"
      /\ caller'[c].phase = "sending" => active' = active
      /\ active' = active \/ active' = active \ {p}
  BY <1>1, <1>2 DEF Sends, Busy
<1>5. job.run = p /\ p \in active /\ Waiting(p, k)
  BY <1>2 DEF CoreInv, RunInv, SendInv, Follows
<1>6. \A d \in Caller \ {c} : Busy(d) => caller[d].part # p
  BY <1>2 DEF CoreInv, RunInv
<1>7. RunInv'
  <2>1. \A d \in Caller : caller'[d].phase = "sending" =>
          job'.run = caller'[d].part /\ caller'[d].part \in active'
    <3>. SUFFICES ASSUME NEW d \in Caller, caller'[d].phase = "sending"
                  PROVE  job'.run = caller'[d].part /\ caller'[d].part \in active'
      OBVIOUS
    <3>1. CASE d = c
      BY <1>2, <1>4, <1>5, <3>1
    <3>2. CASE d # c
      BY <1>2, <1>4, <1>6, <3>2 DEF CoreInv, RunInv, Busy
    <3>. QED BY <3>1, <3>2
  <2>. QED BY <1>2, <1>4, <2>1 DEF CoreInv, RunInv
<1>8. PieceInv'
  <2>. SUFFICES ASSUME NEW q \in Part, NEW l \in Piece(q)
                PROVE  /\ q > job'.cursor => attempt'[q][l] = NoRow /\ tried'[q][l] = 0
                       /\ q \in Over' => attempt'[q][l].status \notin PENDING
                       /\ tried'[q][l] <= 1
    BY DEF PieceInv
  <2>1. Over' = Over
    BY <1>2 DEF Over, Begun
  <2>2. CASE q = p /\ l = k
    <3>1. p <= job.cursor /\ p \in Nat
      BY <1>2, <1>5, PartsOf DEF CoreInv, RunInv
    <3>2. job.cursor \in Nat
      BY PartsOf DEF Typed, JobType, Job
    <3>3. p \notin Over
      BY <1>5 DEF Over
    <3>4. tried'[p][k] = 1
      BY <1>2, <1>5 DEF Waiting
    <3>. QED BY <1>2, <2>1, <2>2, <3>1, <3>2, <3>3, <3>4
  <2>3. CASE ~ (q = p /\ l = k)
    <3>1. attempt'[q][l] = attempt[q][l] /\ tried'[q][l] = tried[q][l] /\ job' = job
      BY <1>2, <2>3
    <3>2. /\ q > job.cursor => attempt[q][l] = NoRow /\ tried[q][l] = 0
          /\ q \in Over => attempt[q][l].status \notin PENDING
          /\ tried[q][l] <= 1
      BY DEF CoreInv, PieceInv
    <3>. QED BY <2>1, <3>1, <3>2
  <2>. QED BY <2>2, <2>3
<1>9. SendInv'
  <2>. SUFFICES ASSUME NEW d \in Caller, (Busy(d))', NEW l \in Piece(caller'[d].part)
                PROVE  Follows(d, l)'
    BY DEF SendInv
  <2>1. Busy(d) /\ caller'[d].part = caller[d].part /\ l \in Piece(caller[d].part)
        /\ caller[d].part \in Part
    BY <1>0, <1>4, BusyPart
  <2>2. Follows(d, l) /\ l \in Nat
    BY <2>1, PartsOf DEF CoreInv, SendInv
  <2>3. CASE d = c /\ l = k
    BY <1>2, <1>3, <2>3 DEF Follows
  <2>4. CASE d = c /\ l # k
    <3>1. attempt'[p][l] = attempt[p][l] /\ tried'[p][l] = tried[p][l]
      BY <1>2, <2>1, <2>4
    <3>2. l > Len(caller'[c].own) => l > Len(caller[c].own)
      BY <1>2, <1>3, <2>2
    <3>3. l <= Len(caller'[c].own) => l <= Len(caller[c].own) /\ caller'[c].own[l] = caller[c].own[l]
      <4>1. l >= 1
        BY <2>1, PartsOf
      <4>. QED BY <1>2, <1>3, <2>2, <2>4, <4>1
    <3>. QED BY <1>2, <2>2, <2>4, <3>1, <3>2, <3>3 DEF Follows, Waiting
  <2>5. CASE d # c
    <3>1. caller'[d] = caller[d] /\ caller[d].part # p
      BY <1>2, <1>6, <2>1, <2>5
    <3>2. attempt'[caller[d].part][l] = attempt[caller[d].part][l]
          /\ tried'[caller[d].part][l] = tried[caller[d].part][l]
      BY <1>2, <2>1, <3>1
    <3>. QED BY <1>2, <2>2, <3>1, <3>2 DEF Follows, Waiting
  <2>. QED BY <2>3, <2>4, <2>5
<1>10. PollInv'
  <2>. SUFFICES ASSUME poll.part # 0, NEW l \in Piece(poll.part)
                PROVE  /\ poll.view[l].status \in {"none", "submitting", "queued", "unknown"}
                       /\ poll.view[l].status = "unknown" => attempt'[poll.part][l] = poll.view[l]
    BY <1>2 DEF PollInv
  <2>1. poll.part \in Part
    BY <1>0, PartsOf DEF PollType, Part
  <2>2. CASE poll.part = p /\ l = k
    BY <1>5, <2>2 DEF Waiting
  <2>3. CASE ~ (poll.part = p /\ l = k)
    BY <1>2, <2>1, <2>3 DEF CoreInv, PollInv
  <2>. QED BY <2>2, <2>3
<1>. QED BY <1>7, <1>8, <1>9, <1>10 DEF CoreInv

LEMMA CloseCore ==
  ASSUME Typed, CoreInv, NEW c \in Caller, Close(c)
  PROVE  CoreInv'
<1>. DEFINE p == caller[c].part
            own == Owned(c)
<1>0. CallerType /\ JobType
  BY DEF Typed
<1>1. Closes(c, p, own)
  BY CloseIs
<1>2. /\ caller[c].phase = "closing" /\ Busy(c) /\ p \in Part /\ Len(caller[c].own) = Pieces[p]
      /\ caller' = [caller EXCEPT ![c] = Asleep]
      /\ job'.cursor = job.cursor /\ job'.run = IF Settled(own) /\ job.run = p THEN 0 ELSE job.run
      /\ UNCHANGED <<attempt, active, poll, tried>>
      /\ own = [k \in Piece(p) |-> caller[c].own[k].status]
  BY <1>1 DEF Closes, Finished, Busy, Owned
<1>. HIDE DEF own
<1>3. /\ \A d \in Caller \ {c} : caller'[d] = caller[d]
      /\ \A d \in Caller : (Busy(d))' => d # c /\ Busy(d)
      /\ \A d \in Caller : caller'[d].phase = "sending" => (Busy(d))'
  BY <1>0, <1>2, AsleepType DEF CallerType, Busy
<1>4. \A d \in Caller \ {c} : Busy(d) => caller[d].part # p
  BY <1>2 DEF CoreInv, RunInv
<1>5. RunInv'
  <2>1. job'.run \in {0, job'.cursor}
    BY <1>2 DEF CoreInv, RunInv
  <2>2. \A d \in Caller : caller'[d].phase = "sending" =>
          job'.run = caller'[d].part /\ caller'[d].part \in active'
    BY <1>2, <1>3, <1>4 DEF CoreInv, RunInv
  <2>3. /\ \A d \in Caller : (Busy(d))' => caller'[d].part <= job'.cursor
        /\ \A d, e \in Caller : (Busy(d))' /\ (Busy(e))' /\ d # e => caller'[d].part # caller'[e].part
    BY <1>2, <1>3 DEF CoreInv, RunInv
  <2>4. poll'.part <= job'.cursor
    BY <1>2 DEF CoreInv, RunInv
  <2>. QED BY <2>1, <2>2, <2>3, <2>4 DEF RunInv
<1>6. PieceInv'
  <2>. SUFFICES ASSUME NEW q \in Part, NEW k \in Piece(q)
                PROVE  /\ q > job'.cursor => attempt'[q][k] = NoRow /\ tried'[q][k] = 0
                       /\ q \in Over' => attempt'[q][k].status \notin PENDING
                       /\ tried'[q][k] <= 1
    BY DEF PieceInv
  <2>1. q \in Over' => q \in Over \/ (q = p /\ Settled(own))
    BY <1>2 DEF Over, Begun
  <2>2. q = p /\ Settled(own) => attempt[q][k].status \notin PENDING
    <3>. SUFFICES ASSUME q = p, Settled(own) PROVE attempt[q][k].status \notin PENDING
      OBVIOUS
    <3>1. Follows(c, k) /\ k \in Nat /\ k <= Pieces[p]
      BY <1>2, PartsOf DEF CoreInv, SendInv
    <3>2. caller[c].own[k].status \notin PENDING
      BY <1>2 DEF Settled
    <3>. QED BY <1>2, <3>1, <3>2 DEF Follows
  <2>. QED BY <1>2, <2>1, <2>2 DEF CoreInv, PieceInv
<1>7. SendInv'
  BY <1>2, <1>3 DEF CoreInv, SendInv, Follows, Waiting
<1>8. PollInv'
  BY <1>2 DEF CoreInv, PollInv
<1>. QED BY <1>5, <1>6, <1>7, <1>8 DEF CoreInv

LEMMA PollLoadsCore ==
  ASSUME Typed, CoreInv, NEW p \in Part, PollLoads(p)
  PROVE  CoreInv'
<1>0. CallerType /\ JobType /\ RowType
  BY DEF Typed
<1>1. /\ poll' = [part |-> p, view |-> [k \in Piece(p) |-> IF k \in Open(p) THEN attempt[p][k] ELSE NoRow]]
      /\ Open(p) # {} /\ UNCHANGED <<job, attempt, active, caller, tried>>
  BY DEF PollLoads, rows
<1>2. poll'.part = p
  BY <1>1
<1>3. \A k \in Piece(p) : poll'.view[k] = attempt[p][k] \/ poll'.view[k] = NoRow
  BY <1>1
<1>4. \A k \in Piece(p) : poll'.view[k].status \in {"none", "submitting", "queued", "unknown"}
  BY <1>1 DEF Open, PENDING, NoRow
<1>5. NoRow.status = "none" /\ Submitting.status = "submitting"
  BY DEF NoRow, Submitting
<1>6. p <= job.cursor
  <2>1. PICK k \in Piece(p) : attempt[p][k].status \in PENDING \cup {"unknown"}
    BY <1>1 DEF Open
  <2>2. attempt[p][k] # NoRow
    BY <2>1 DEF NoRow, PENDING
  <2>3. p \in Nat /\ job.cursor \in Nat
    BY <1>0, PartsOf DEF JobType, Job
  <2>. QED BY <2>1, <2>2, <2>3 DEF CoreInv, PieceInv
<1>7. RunInv'
  BY <1>1, <1>2, <1>6 DEF CoreInv, RunInv, Busy
<1>8. PieceInv'
  BY <1>1 DEF CoreInv, PieceInv, Over, Begun
<1>9. SendInv'
  <2>. SUFFICES ASSUME NEW d \in Caller, Busy(d), NEW k \in Piece(caller[d].part)
                PROVE  Follows(d, k)'
    BY <1>1 DEF SendInv, Busy
  <2>1. Follows(d, k)
    BY DEF CoreInv, SendInv
  <2>2. k > Len(caller[d].own) => Waiting(caller[d].part, k)'
    BY <1>1, <1>2, <1>3, <1>5, <2>1 DEF Follows, Waiting
  <2>. QED BY <1>1, <2>1, <2>2 DEF Follows
<1>10. PollInv'
  BY <1>1, <1>2, <1>3, <1>4, <1>5 DEF PollInv
<1>. QED BY <1>7, <1>8, <1>9, <1>10 DEF CoreInv

(* What the end of a poll does to an attempt.                              *)
Polled(p, new, k) ==
  /\ k \in Moved(p, new) =>
       /\ attempt'[p][k] = [attempt[p][k] EXCEPT !.status = new[k]]
       /\ attempt'[p][k].status = new[k] /\ attempt'[p][k].id = attempt[p][k].id
       /\ new[k] \in {"unknown", "sent", "failed"}
  /\ k \notin Moved(p, new) => attempt'[p][k] = attempt[p][k]
  /\ poll.view[k].status = "none" => k \notin Moved(p, new) /\ new[k] = "none"
  /\ poll.view[k].status = "submitting" /\ p \in active =>
       k \notin Moved(p, new) /\ new[k] = "submitting"
  /\ new[k] = "none" => poll.view[k].status = "none"
  /\ Settled(Seen(p, new)) =>
       attempt'[p][k].status \notin PENDING /\ Seen(p, new)[k] = attempt'[p][k].status
  /\ poll.part = p

LEMMA PollPiece ==
  ASSUME Typed, CoreInv, NEW p \in Part, NEW new, Ends(p, new)
  PROVE  \A k \in Piece(p) : Polled(p, new, k)
<1>. SUFFICES ASSUME NEW k \in Piece(p)
              PROVE  Polled(p, new, k)
  OBVIOUS
<1>1. /\ poll.part = p /\ poll.view[k] \in Row /\ new[k] \in Looked(poll.view[k])
      /\ k \in Moved(p, new) => attempt'[p][k] = [attempt[p][k] EXCEPT !.status = new[k]]
      /\ k \notin Moved(p, new) => attempt'[p][k] = attempt[p][k]
  BY DEF Ends
<1>2. attempt[p][k] \in Row
  BY DEF Typed, RowType
<1>3. poll.view[k].status \in {"none", "submitting", "queued", "unknown"}
      /\ (poll.view[k].status = "unknown" => attempt[p][k] = poll.view[k])
  BY <1>1 DEF CoreInv, PollInv, Part
<1>4. k \in Moved(p, new) <=> new[k] # poll.view[k].status
  BY DEF Moved
<1>5. /\ poll.view[k].status = "none" => new[k] = "none"
      /\ poll.view[k].status = "submitting" => new[k] \in {"submitting", "unknown"}
      /\ poll.view[k].status = "submitting" /\ p \in active => new[k] = "submitting"
      /\ poll.view[k].status = "queued" => new[k] \in {"queued", "sent", "failed", "unknown"}
      /\ poll.view[k].status = "unknown" => new[k] \in {"unknown", "sent", "failed"}
  BY <1>1, <1>3 DEF Looked
<1>6. k \in Moved(p, new) => new[k] \in {"unknown", "sent", "failed"}
  BY <1>3, <1>4, <1>5
<1>7. k \in Moved(p, new) => attempt'[p][k].status = new[k] /\ attempt'[p][k].id = attempt[p][k].id
  BY <1>1, <1>2 DEF Row
<1>9. new[k] = "none" => poll.view[k].status = "none"
  BY <1>3, <1>5
<1>8. ASSUME Settled(Seen(p, new))
      PROVE  attempt'[p][k].status \notin PENDING /\ Seen(p, new)[k] = attempt'[p][k].status
  <2>1. Seen(p, new)[k] \notin PENDING
        /\ Seen(p, new)[k] = IF new[k] = "none" THEN attempt[p][k].status ELSE new[k]
    BY <1>8 DEF Settled, Seen
  <2>2. CASE k \in Moved(p, new)
    <3>1. Seen(p, new)[k] = new[k] /\ attempt'[p][k].status = new[k]
      BY <1>6, <1>7, <2>1, <2>2
    <3>. QED BY <2>1, <3>1
  <2>3. CASE k \notin Moved(p, new)
    <3>1. Seen(p, new)[k] = attempt[p][k].status
      BY <1>3, <1>4, <2>1, <2>3 DEF PENDING
    <3>. QED BY <1>1, <2>1, <2>3, <3>1
  <2>. QED BY <2>2, <2>3
<1>. QED BY <1>1, <1>4, <1>5, <1>6, <1>7, <1>8, <1>9 DEF Polled

(* No poll ends a run that is still being sent.                            *)
LEMMA PollWaits ==
  ASSUME Typed, CoreInv, NEW p \in Part, NEW new, Ends(p, new),
         NEW c \in Caller, caller[c].phase = "sending", caller[c].part = p
  PROVE  ~ Settled(Seen(p, new))
<1>. SUFFICES ASSUME NEW k, k = Len(caller[c].own) + 1
              PROVE  ~ Settled(Seen(p, new))
  OBVIOUS
<1>1. Busy(c) /\ Holds(caller[c]) /\ Len(caller[c].own) \in Nat /\ Len(caller[c].own) < Pieces[p]
  BY BusyPart DEF Typed, Busy, Holds
<1>2. k \in Piece(p) /\ k > Len(caller[c].own)
  BY <1>1, PartsOf
<1>3. attempt[p][k] = Submitting /\ poll.part = p
      /\ poll.view[k].status \in {"none", "submitting"} /\ p \in active
  <2>1. Waiting(p, k) /\ p \in active
    BY <1>1, <1>2 DEF CoreInv, SendInv, Follows, RunInv
  <2>2. poll.part = p
    BY DEF Ends
  <2>. QED BY <2>1, <2>2 DEF Waiting
<1>4. Polled(p, new, k)
  BY <1>2, PollPiece
<1>5. Seen(p, new)[k] \in PENDING /\ k \in DOMAIN Seen(p, new)
  BY <1>2, <1>3, <1>4 DEF Polled, Seen, Submitting, PENDING
<1>. QED BY <1>5 DEF Settled

LEMMA PollEndsCore ==
  ASSUME Typed, CoreInv, NEW p \in Part, NEW new, PollEnds(p, new)
  PROVE  CoreInv'
<1>0. CallerType /\ JobType /\ RowType
  BY DEF Typed
<1>1. Ends(p, new)
  BY PollEndsIs
<1>2. /\ poll.part = p /\ poll' = NoPoll /\ attempt' = [attempt EXCEPT ![p] = attempt'[p]]
      /\ \A q \in Part \ {p} : attempt'[q] = attempt[q]
      /\ UNCHANGED <<active, caller, tried>>
  BY <1>0, <1>1 DEF Ends, RowType
<1>3. /\ job'.cursor = job.cursor /\ job'.run \in {0, job.run}
      /\ job'.run # job.run => job.run = p /\ Settled(Seen(p, new))
  <2>1. CASE Resolved(p, new)
    BY <1>1, <2>1 DEF Ends, Finished
  <2>2. CASE ~ Resolved(p, new)
    BY <1>1, <2>2 DEF Ends
  <2>. QED BY <2>1, <2>2
<1>9. \A k \in Piece(p) : Polled(p, new, k)
  BY <1>1, PollPiece
<1>4. poll'.part = 0 /\ job.cursor \in Nat
  BY <1>0, <1>2, PartsOf DEF NoPoll, JobType, Job
<1>5. RunInv'
  <2>1. job'.run \in {0, job'.cursor}
    BY <1>3 DEF CoreInv, RunInv
  <2>2. \A d \in Caller : caller'[d].phase = "sending" =>
          job'.run = caller'[d].part /\ caller'[d].part \in active'
    BY <1>1, <1>2, <1>3, PollWaits DEF CoreInv, RunInv
  <2>3. /\ \A d \in Caller : (Busy(d))' => caller'[d].part <= job'.cursor
        /\ \A d, e \in Caller : (Busy(d))' /\ (Busy(e))' /\ d # e => caller'[d].part # caller'[e].part
    BY <1>2, <1>3 DEF CoreInv, RunInv, Busy
  <2>4. poll'.part <= job'.cursor
    BY <1>3, <1>4
  <2>. QED BY <2>1, <2>2, <2>3, <2>4 DEF RunInv
<1>6. PieceInv'
  <2>. SUFFICES ASSUME NEW q \in Part, NEW k \in Piece(q)
                PROVE  /\ q > job'.cursor => attempt'[q][k] = NoRow /\ tried'[q][k] = 0
                       /\ q \in Over' => attempt'[q][k].status \notin PENDING
                       /\ tried'[q][k] <= 1
    BY DEF PieceInv
  <2>1. /\ q > job.cursor => attempt[q][k] = NoRow /\ tried[q][k] = 0
        /\ q \in Over => attempt[q][k].status \notin PENDING
        /\ tried[q][k] <= 1
    BY DEF CoreInv, PieceInv
  <2>2. q \in Over' => q \in Over \/ (q = p /\ Settled(Seen(p, new)))
    BY <1>3 DEF Over, Begun
  <2>3. CASE q # p
    BY <1>2, <1>3, <2>1, <2>2, <2>3
  <2>4. CASE q = p
    <3>1. p <= job.cursor /\ p \in Nat
      BY <1>2, PartsOf DEF CoreInv, RunInv
    <3>2. q \in Over' => attempt'[q][k].status \notin PENDING
      <4>1. CASE k \in Moved(p, new)
        BY <1>9, <2>4, <4>1 DEF Polled, PENDING
      <4>2. CASE k \notin Moved(p, new)
        BY <1>9, <2>1, <2>2, <2>4, <4>2 DEF Polled
      <4>. QED BY <4>1, <4>2
    <3>. QED BY <1>2, <1>3, <1>4, <2>1, <2>4, <3>1, <3>2
  <2>. QED BY <2>3, <2>4
<1>7. SendInv'
  <2>. SUFFICES ASSUME NEW d \in Caller, Busy(d), NEW k \in Piece(caller[d].part)
                PROVE  Follows(d, k)'
    BY <1>2 DEF SendInv, Busy
  <2>1. Follows(d, k) /\ Holds(caller[d]) /\ caller[d].part \in Part /\ caller[d].part # 0
        /\ Len(caller[d].own) \in Nat /\ k \in Nat /\ k <= Pieces[caller[d].part]
    BY <1>0, BusyPart, PartsOf DEF CoreInv, SendInv
  <2>2. CASE caller[d].part # p
    BY <1>2, <1>4, <2>1, <2>2 DEF Follows, Waiting
  <2>3. CASE caller[d].part = p
    <3>1. ASSUME k > Len(caller[d].own) PROVE Waiting(p, k)'
      <4>1. caller[d].phase = "sending"
        BY <2>1, <2>3, <3>1, PartsOf DEF Holds, Busy
      <4>2. p \in active
        BY <2>3, <4>1 DEF CoreInv, RunInv
      <4>3. Waiting(p, k)
        BY <2>1, <2>3, <3>1 DEF Follows
      <4>4. attempt'[p][k] = attempt[p][k]
        BY <1>2, <1>9, <2>3, <4>2, <4>3 DEF Polled, Waiting
      <4>. QED BY <1>2, <1>4, <2>1, <2>3, <4>3, <4>4 DEF Waiting
    <3>2. attempt'[p][k].status \in PENDING => attempt'[p][k] = attempt[p][k]
      BY <1>9, <2>3 DEF Polled, PENDING
    <3>. QED BY <1>2, <2>1, <2>3, <3>1, <3>2 DEF Follows
  <2>. QED BY <2>2, <2>3
<1>8. PollInv'
  BY <1>4 DEF PollInv
<1>. QED BY <1>5, <1>6, <1>7, <1>8 DEF CoreInv

LEMMA RestartCore ==
  ASSUME Typed, CoreInv, Restart
  PROVE  CoreInv'
<1>0. CallerType /\ JobType /\ RowType
  BY DEF Typed
<1>1. /\ job'.cursor = job.cursor /\ job'.run = job.run
      /\ \A p \in Part : \A k \in Piece(p) :
           /\ AtPiece(p, k) => tried'[p][k] = tried[p][k] + 1
           /\ ~ AtPiece(p, k) => tried'[p][k] = tried[p][k]
      /\ caller' = [c \in Caller |-> Asleep] /\ poll' = NoPoll
      /\ UNCHANGED attempt
  BY RestartIs
<1>2. poll'.part = 0 /\ \A c \in Caller : ~ (Busy(c))' /\ caller'[c].phase # "sending"
  BY <1>1, NoneBusy DEF NoPoll
<1>3. job.cursor \in Nat
  BY <1>0, PartsOf DEF JobType, Job
<1>4. RunInv'
  BY <1>1, <1>2, <1>3 DEF CoreInv, RunInv
<1>5. PieceInv'
  <2>. SUFFICES ASSUME NEW q \in Part, NEW k \in Piece(q)
                PROVE  /\ q > job'.cursor => attempt'[q][k] = NoRow /\ tried'[q][k] = 0
                       /\ q \in Over' => attempt'[q][k].status \notin PENDING
                       /\ tried'[q][k] <= 1
    BY DEF PieceInv
  <2>1. /\ q > job.cursor => attempt[q][k] = NoRow /\ tried[q][k] = 0
        /\ q \in Over => attempt[q][k].status \notin PENDING
        /\ tried[q][k] <= 1 /\ Over' = Over
    BY <1>1 DEF CoreInv, PieceInv, Over, Begun
  <2>2. ASSUME AtPiece(q, k) PROVE tried[q][k] = 0 /\ q <= job.cursor
    <3>1. PICK c \in Caller : caller[c].phase = "sending" /\ caller[c].part = q
                              /\ k = Len(caller[c].own) + 1
      BY <2>2 DEF AtPiece
    <3>2. Busy(c) /\ Len(caller[c].own) \in Nat
      BY <1>0, <3>1, BusyPart DEF Busy
    <3>3. Follows(c, k) /\ k > Len(caller[c].own)
      BY <3>1, <3>2 DEF CoreInv, SendInv
    <3>. QED BY <3>1, <3>2, <3>3 DEF CoreInv, RunInv, Follows, Waiting
  <2>3. q \in Nat
    BY PartsOf
  <2>. QED BY <1>1, <1>3, <2>1, <2>2, <2>3
<1>6. SendInv' /\ PollInv'
  BY <1>2 DEF SendInv, PollInv
<1>. QED BY <1>4, <1>5, <1>6 DEF CoreInv

LEMMA CoreStep ==
  ASSUME Typed, CoreInv, [Next]_vars
  PROVE  CoreInv'
<1>0. CallerType /\ JobType
  BY DEF Typed
<1>1. ASSUME NEW c \in Caller, TimerFires(c) \/ SendNow(c)
      PROVE  CoreInv'
  <2>1. /\ caller' = [caller EXCEPT ![c] = [Asleep EXCEPT !.phase = "loaded", !.view = job,
                                                          !.plan = plan]]
        /\ UNCHANGED <<job, attempt, tried, poll, active>>
    BY <1>1 DEF TimerFires, SendNow, Loads, rows
  <2>2. caller'[c].phase = "loaded"
    BY <1>0, <2>1, AsleepType DEF CallerType, Asleep
  <2>3. \A d \in Caller : caller'[d] = caller[d] \/ ~ (Busy(d))'
    BY <1>0, <2>1, <2>2 DEF CallerType, Busy
  <2>. QED BY <2>1, <2>3, QuietCore
<1>2. ASSUME NEW c \in Caller, Runs(c)
      PROVE  CoreInv'
  BY <1>2, ClaimCore, CloseCore, SendCore DEF Runs
<1>3. ASSUME NEW p \in Part, PollLoads(p)
      PROVE  CoreInv'
  BY <1>3, PollLoadsCore
<1>4. ASSUME NEW p \in Part, NEW new \in News(p), PollEnds(p, new)
      PROVE  CoreInv'
  BY <1>4, PollEndsCore
<1>5. CASE Pause \/ Cancel
  <2>1. job'.cursor = job.cursor /\ job'.run = job.run
    BY <1>0, <1>5 DEF Pause, Cancel, Stops, JobType, Job
  <2>2. UNCHANGED <<attempt, tried, poll, active, caller>>
    BY <1>5 DEF Pause, Cancel, Stops
  <2>. QED BY <2>1, <2>2, QuietCore
<1>6. CASE Resume
  <2>1. job'.cursor = job.cursor /\ job'.run = job.run
        /\ UNCHANGED <<attempt, tried, poll, active, caller>>
    BY <1>6, ResumeIs
  <2>. QED BY <2>1, QuietCore
<1>7. CASE Restart
  BY <1>7, RestartCore
<1>8. ASSUME NEW kind \in Kinds, Edit(kind)
      PROVE  CoreInv'
  <2>1. job'.cursor = job.cursor /\ job'.run = job.run
        /\ UNCHANGED <<attempt, tried, poll, active, caller>>
    BY <1>8, EditIs
  <2>. QED BY <2>1, QuietCore
<1>9. CASE UNCHANGED vars
  <2>1. UNCHANGED <<job, attempt, tried, poll, active, caller>>
    BY <1>9 DEF vars, rows, fixed
  <2>. QED BY <2>1, QuietCore
<1>. QED BY <1>1, <1>2, <1>3, <1>4, <1>5, <1>6, <1>7, <1>8, <1>9 DEF Next

LEMMA InitCore == Init => CoreInv
<1>. SUFFICES ASSUME Init PROVE CoreInv
  OBVIOUS
<1>1. /\ job.cursor = 0 /\ job.run = 0 /\ caller = [c \in Caller |-> Asleep] /\ poll.part = 0
      /\ attempt = [p \in Part |-> [k \in Piece(p) |-> NoRow]]
      /\ tried = [p \in Part |-> [k \in Piece(p) |-> 0]]
  BY DEF Init, NoRows, NoPoll
<1>2. \A c \in Caller : ~ Busy(c) /\ caller[c].phase # "sending"
  BY <1>1, AsleepType DEF Busy
<1>3. RunInv /\ SendInv /\ PollInv
  BY <1>1, <1>2 DEF RunInv, SendInv, PollInv
<1>4. PieceInv
  BY <1>1 DEF PieceInv, Over, Begun
<1>. QED BY <1>3, <1>4 DEF CoreInv

(* No piece of a part goes to a provider twice, also where a poll, a pause *)
(* or a restart meets the run that sends it (series.py:1).                 *)
THEOREM NeverReplayedAlways == Spec => []NeverReplayed
<1>1. Init => Typed /\ CoreInv
  BY InitType, InitCore
<1>2. Typed /\ CoreInv /\ [Next]_vars => Typed' /\ CoreInv'
  BY NextType, CoreStep
<1>3. CoreInv => NeverReplayed
  BY DEF CoreInv, PieceInv, NeverReplayed
<1>. QED BY <1>1, <1>2, <1>3, PTL DEF Spec

(* Parts go out one after the other: none is begun while a piece of an     *)
(* earlier one is open, and the part being sent owns the job (the claiming *)
(* UPDATE of submit_series and finish_series_run).                         *)
THEOREM OnePartAlways == Spec => []OnePartAtATime
<1>1. Init => Typed /\ CoreInv
  BY InitType, InitCore
<1>2. Typed /\ CoreInv /\ [Next]_vars => Typed' /\ CoreInv'
  BY NextType, CoreStep
<1>3. Typed /\ CoreInv => OnePartAtATime
  <2>. SUFFICES ASSUME Typed, CoreInv PROVE OnePartAtATime
    OBVIOUS
  <2>1. ASSUME NEW p \in Part, NEW k \in Piece(p), p < job.cursor
        PROVE  attempt[p][k].status \notin PENDING
    <3>1. p \in Over
      BY <2>1, PartsOf DEF Over, Begun, Part, CoreInv, RunInv, Typed, JobType, Job
    <3>. QED BY <3>1 DEF CoreInv, PieceInv
  <2>. QED BY <2>1 DEF OnePartAtATime, CoreInv, RunInv
<1>. QED BY <1>1, <1>2, <1>3, PTL DEF Spec

-----------------------------------------------------------------------------
(* Why a run is always followed: through the cloud provider a run that no  *)
(* coroutine holds has an attempt the poll gives up, and what the poll has *)
(* loaded of it is exactly what is open.                                   *)
IdInv ==
  provider = "whatsapp" =>
    /\ \A p \in Part : \A k \in Piece(p) : attempt[p][k].id = FALSE /\ attempt[p][k].status # "queued"
    /\ \A c \in Caller : \A k \in 1..Len(caller[c].own) : caller[c].own[k].status \notin PENDING
Left == /\ provider = "whatsapp" /\ job.run # 0 /\ ~ straddled
        /\ \A c \in Caller : caller[c].part # job.run
Fresher(p, k) == poll.view[k] = IF attempt[p][k].status \in PENDING THEN attempt[p][k] ELSE NoRow
FollowInv ==
  Left => /\ \E k \in Piece(job.run) : attempt[job.run][k].status \in PENDING
          /\ poll.part = job.run => \A k \in Piece(job.run) : Fresher(job.run, k)

LEMMA OutcomeIs ==
  \A outcome \in Outcomes :
    /\ provider = "whatsapp" => outcome.status # "queued" /\ outcome.id = FALSE
    /\ outcome.status \notin PENDING => outcome.id = FALSE
<1>. DEFINE R(status, id) == [status |-> status, id |-> id]
<1>1. CASE provider = "native"
  <2>1. (provider = "native") = TRUE
    BY <1>1
  <2>2. \A outcome \in Outcomes : outcome \in {R("queued", TRUE), R("failed", FALSE), R("unknown", FALSE)}
    BY <1>1, <2>1 DEF Outcomes
  <2>. QED BY <1>1, <2>2 DEF PENDING
<1>2. CASE provider # "native"
  <2>1. (provider = "native") = FALSE
    BY <1>2
  <2>2. \A outcome \in Outcomes : outcome \in {R("sent", FALSE), R("failed", FALSE), R("unknown", FALSE)}
    BY <1>2, <2>1 DEF Outcomes
  <2>. QED BY <2>2 DEF PENDING
<1>. QED BY <1>1, <1>2

(* Steps that leave the attempts and the poll alone.                       *)
LEMMA QuietFollow ==
  ASSUME IdInv, FollowInv, UNCHANGED <<attempt, poll, provider, straddled>>, job'.run = job.run,
         \A c \in Caller : caller'[c].part = caller[c].part /\ caller'[c].own = caller[c].own
  PROVE  IdInv' /\ FollowInv'
<1>1. IdInv'
  BY DEF IdInv
<1>2. Left' => Left
  BY DEF Left
<1>3. FollowInv'
  BY <1>2 DEF FollowInv, Fresher
<1>. QED BY <1>1, <1>3

LEMMA ClaimFollow ==
  ASSUME Typed, CoreInv, IdInv, FollowInv, NEW c \in Caller, Claim(c)
  PROVE  IdInv' /\ FollowInv'
<1>0. JobType /\ RowType /\ CallerType
  BY DEF Typed
<1>1. UNCHANGED <<poll, provider, straddled>>
  BY ClaimIs
<1>2. caller[c].phase = "loaded" /\ caller[c].part = 0 /\ caller[c].own = <<>>
      /\ caller[c] \in Coroutine
  BY <1>0 DEF Claim, CallerType, Holds
<1>3. CASE GivesUp(c)
  <2>1. \A d \in Caller : caller'[d].part = caller[d].part /\ caller'[d].own = caller[d].own
    BY <1>0, <1>2, <1>3, AsleepType DEF GivesUp, CallerType
  <2>. QED BY <1>1, <1>3, <2>1, QuietFollow DEF GivesUp
<1>4. CASE Claims(c)
  <2>. DEFINE p == job.cursor + 1
              t == [caller[c] EXCEPT !.phase = "sending", !.part = p]
  <2>1. t.part = p /\ t.own = <<>> /\ p \in Part
    BY <1>2, <1>4 DEF Coroutine, Claims
  <2>2. caller' = [caller EXCEPT ![c] = t] /\ job'.run = p
        /\ attempt' = [attempt EXCEPT ![p] = [k \in Piece(p) |-> Submitting]]
    BY <1>0, <1>4 DEF Claims, JobType, Job
  <2>. HIDE DEF t, p
  <2>3. caller'[c] = t /\ \A d \in Caller \ {c} : caller'[d] = caller[d]
    BY <1>0, <2>2 DEF CallerType
  <2>4. FollowInv'
    BY <2>1, <2>2, <2>3 DEF FollowInv, Left
  <2>5. IdInv'
    <3>1. \A k \in Piece(p) : attempt'[p][k] = Submitting
      BY <1>0, <2>1, <2>2 DEF RowType
    <3>2. \A q \in Part : q # p => attempt'[q] = attempt[q]
      BY <1>0, <2>1, <2>2 DEF RowType
    <3>3. Submitting.id = FALSE /\ Submitting.status # "queued"
      BY DEF Submitting
    <3>4. Len(caller'[c].own) = 0
      BY <2>1, <2>3
    <3>. QED BY <1>1, <2>3, <3>1, <3>2, <3>3, <3>4 DEF IdInv
  <2>. QED BY <2>4, <2>5
<1>. QED BY <1>3, <1>4, ClaimIs

LEMMA SendFollow ==
  ASSUME Typed, CoreInv, IdInv, FollowInv, NEW c \in Caller, NEW outcome \in Outcomes,
         SendPiece(c, outcome)
  PROVE  IdInv' /\ FollowInv'
<1>. SUFFICES ASSUME NEW p, NEW k, p = caller[c].part, k = Len(caller[c].own) + 1
              PROVE  IdInv' /\ FollowInv'
  OBVIOUS
<1>1. Sends(c, outcome, p, k)
  BY SendIs
<1>2. /\ p \in Part /\ k \in Piece(p) /\ k \in Nat /\ caller[c].phase = "sending"
      /\ caller[c].own \in Seq(Row) /\ Len(caller[c].own) \in Nat
      /\ attempt'[p][k] = outcome
      /\ \A q \in Part : \A l \in Piece(q) : q # p \/ l # k => attempt'[q][l] = attempt[q][l]
      /\ caller'[c].part = p /\ caller'[c].own = Append(caller[c].own, outcome)
      /\ \A d \in Caller \ {c} : caller'[d] = caller[d]
      /\ UNCHANGED <<job, poll, provider>>
  BY <1>1 DEF Sends
<1>3. /\ Len(caller'[c].own) = k /\ caller'[c].own[k] = outcome
      /\ \A l \in 1..Len(caller[c].own) : caller'[c].own[l] = caller[c].own[l]
  BY <1>2, OutcomeType
<1>4. job.run = p
  BY <1>2 DEF CoreInv, RunInv
<1>5. FollowInv'
  BY <1>2, <1>4 DEF FollowInv, Left
<1>6. IdInv'
  <2>. SUFFICES ASSUME provider = "whatsapp" PROVE IdInv'
    BY <1>2 DEF IdInv
  <2>1. outcome.id = FALSE /\ outcome.status # "queued" /\ outcome.status \notin PENDING
    BY OutcomeIs, OutcomeType DEF PENDING
  <2>2. \A q \in Part : \A l \in Piece(q) : attempt'[q][l].id = FALSE /\ attempt'[q][l].status # "queued"
    BY <1>2, <2>1 DEF IdInv
  <2>3. \A l \in 1..Len(caller'[c].own) : caller'[c].own[l].status \notin PENDING
    <3>. SUFFICES ASSUME NEW l \in 1..Len(caller'[c].own)
                  PROVE  caller'[c].own[l].status \notin PENDING
      OBVIOUS
    <3>1. l = k \/ l \in 1..Len(caller[c].own)
      BY <1>2, <1>3
    <3>. QED BY <1>3, <2>1, <3>1 DEF IdInv
  <2>. QED BY <1>2, <2>2, <2>3 DEF IdInv
<1>. QED BY <1>5, <1>6

LEMMA CloseFollow ==
  ASSUME Typed, CoreInv, IdInv, FollowInv, NEW c \in Caller, Close(c)
  PROVE  IdInv' /\ FollowInv'
<1>. DEFINE p == caller[c].part
            own == Owned(c)
<1>0. CallerType
  BY DEF Typed
<1>1. Closes(c, p, own)
  BY CloseIs
<1>2. /\ caller[c].phase = "closing" /\ p \in Part /\ Len(caller[c].own) = Pieces[p]
      /\ caller' = [caller EXCEPT ![c] = Asleep]
      /\ job'.run = IF Settled(own) /\ job.run = p THEN 0 ELSE job.run
      /\ UNCHANGED <<attempt, poll, provider, straddled>>
      /\ own = [k \in Piece(p) |-> caller[c].own[k].status]
  BY <1>1 DEF Closes, Finished, Owned
<1>. HIDE DEF own
<1>3. /\ \A d \in Caller \ {c} : caller'[d] = caller[d]
      /\ caller'[c].own = <<>> /\ Len(caller'[c].own) = 0
  BY <1>0, <1>2, AsleepType DEF CallerType
<1>4. IdInv'
  BY <1>2, <1>3 DEF IdInv
<1>5. provider = "whatsapp" => Settled(own)
  BY <1>2, PartsOf DEF IdInv, Settled
<1>6. Left' => Left
  BY <1>2, <1>3, <1>5 DEF Left
<1>7. Left' => job'.run = job.run
  BY <1>2, <1>5 DEF Left
<1>8. FollowInv'
  BY <1>2, <1>6, <1>7 DEF FollowInv, Fresher
<1>. QED BY <1>4, <1>8

LEMMA PollLoadsFollow ==
  ASSUME Typed, CoreInv, IdInv, FollowInv, NEW p \in Part, PollLoads(p)
  PROVE  IdInv' /\ FollowInv'
<1>1. /\ poll' = [part |-> p, view |-> [k \in Piece(p) |-> IF k \in Open(p) THEN attempt[p][k] ELSE NoRow]]
      /\ UNCHANGED <<job, attempt, caller, provider, straddled>>
  BY DEF PollLoads, rows, fixed
<1>2. poll'.part = p /\ \A k \in Piece(p) : poll'.view[k] = IF k \in Open(p) THEN attempt[p][k] ELSE NoRow
  BY <1>1
<1>3. IdInv'
  BY <1>1 DEF IdInv
<1>4. provider = "whatsapp" => \A k \in Piece(p) : k \in Open(p) <=> attempt[p][k].status \in PENDING
  BY DEF IdInv, Open, Followed
<1>5. Left' => Left /\ provider = "whatsapp"
  BY <1>1 DEF Left
<1>6. FollowInv'
  BY <1>1, <1>2, <1>4, <1>5 DEF FollowInv, Fresher
<1>. QED BY <1>3, <1>6

LEMMA PollEndsFollow ==
  ASSUME Typed, CoreInv, IdInv, FollowInv, NEW p \in Part, NEW new, PollEnds(p, new)
  PROVE  IdInv' /\ FollowInv'
<1>0. RowType /\ JobType
  BY DEF Typed
<1>1. Ends(p, new)
  BY PollEndsIs
<1>2. \A k \in Piece(p) : Polled(p, new, k)
  BY <1>1, PollPiece
<1>3. /\ poll.part = p /\ poll'.part = 0
      /\ \A q \in Part \ {p} : attempt'[q] = attempt[q]
      /\ straddled' <=> \/ straddled
                        \/ Resolved(p, new) /\ \E c \in Caller :
                                                 caller[c].phase = "closing" /\ caller[c].part = p
                        \/ \E k \in Moved(p, new) : attempt[p][k] # poll.view[k]
      /\ UNCHANGED <<caller, provider>>
  BY <1>0, <1>1 DEF Ends, RowType, NoPoll
<1>4. IdInv'
  <2>. SUFFICES ASSUME provider = "whatsapp", NEW q \in Part, NEW k \in Piece(q)
                PROVE  attempt'[q][k].id = FALSE /\ attempt'[q][k].status # "queued"
    BY <1>3 DEF IdInv
  <2>1. attempt[q][k].id = FALSE /\ attempt[q][k].status # "queued"
    BY DEF IdInv
  <2>2. CASE q = p /\ k \in Moved(p, new)
    BY <1>2, <2>1, <2>2 DEF Polled
  <2>3. CASE q = p /\ k \notin Moved(p, new)
    <3>1. Polled(q, new, k)
      BY <1>2, <2>3
    <3>2. attempt'[q][k] = attempt[q][k]
      BY <2>3, <3>1 DEF Polled
    <3>. QED BY <2>1, <3>2
  <2>4. CASE q # p
    BY <1>3, <2>1, <2>4
  <2>. QED BY <2>2, <2>3, <2>4
<1>5. CASE ~ Left'
  BY <1>4, <1>5 DEF FollowInv
<1>6. CASE Left'
  <2>1. job'.run # 0 /\ ~ straddled' /\ provider = "whatsapp" /\ \A c \in Caller : caller[c].part # job'.run
    BY <1>3, <1>6 DEF Left
  <2>2. job'.run = job.run /\ (Resolved(p, new) /\ job.run = p => ~ Settled(Seen(p, new)))
    <3>1. CASE Resolved(p, new)
      BY <1>1, <2>1, <3>1 DEF Ends, Finished
    <3>2. CASE ~ Resolved(p, new)
      BY <1>1, <3>2 DEF Ends
    <3>. QED BY <3>1, <3>2
  <2>3. Left
    BY <1>3, <2>1, <2>2 DEF Left
  <2>4. job.run \in Part
    BY <1>0, <2>1, <2>2, PartsOf DEF JobType, Job, Part
  <2>5. \E k \in Piece(job.run) : attempt'[job.run][k].status \in PENDING
    <3>1. PICK k \in Piece(job.run) : attempt[job.run][k].status \in PENDING
      BY <2>3 DEF FollowInv
    <3>2. CASE job.run # p
      BY <1>3, <2>4, <3>1, <3>2
    <3>3. CASE job.run = p /\ ~ Resolved(p, new)
      <4>1. k \notin Moved(p, new)
        BY <1>2, <3>1, <3>3 DEF Resolved, Polled, PENDING
      <4>. QED BY <1>2, <3>1, <3>3, <4>1 DEF Polled
    <3>4. CASE job.run = p /\ Resolved(p, new)
      <4>1. ~ Settled(Seen(p, new))
        BY <2>2, <3>4
      <4>2. PICK l \in Piece(p) : Seen(p, new)[l] \in PENDING
        BY <4>1 DEF Settled, Seen
      <4>3. Seen(p, new)[l] = IF new[l] = "none" THEN attempt[p][l].status ELSE new[l]
        BY DEF Seen
      <4>4. Fresher(p, l) /\ Polled(p, new, l)
        BY <1>2, <1>3, <2>3, <3>4 DEF FollowInv
      <4>5. NoRow.status = "none"
        BY DEF NoRow
      <4>6. CASE new[l] = "none"
        <5>1. poll.view[l].status = "none" /\ attempt[p][l].status \in PENDING
          BY <4>2, <4>3, <4>4, <4>6 DEF Polled
        <5>. QED BY <4>4, <5>1 DEF Fresher, PENDING
      <4>7. CASE new[l] # "none"
        <5>1. new[l] \in PENDING
          BY <4>2, <4>3, <4>7
        <5>2. l \notin Moved(p, new)
          BY <4>4, <5>1 DEF Polled, PENDING
        <5>3. poll.view[l].status = new[l]
          BY <5>2 DEF Moved
        <5>4. attempt[p][l].status \in PENDING
          BY <4>4, <4>5, <4>7, <5>3 DEF Fresher
        <5>5. attempt'[p][l] = attempt[p][l]
          BY <4>4, <5>2 DEF Polled
        <5>. QED BY <3>4, <5>4, <5>5
      <4>. QED BY <4>6, <4>7
    <3>. QED BY <3>2, <3>3, <3>4
  <2>. QED BY <1>3, <1>4, <2>1, <2>2, <2>5 DEF FollowInv
<1>. QED BY <1>5, <1>6

LEMMA RestartFollow ==
  ASSUME Typed, CoreInv, IdInv, FollowInv, Restart
  PROVE  IdInv' /\ FollowInv'
<1>0. JobType /\ CallerType
  BY DEF Typed
<1>1. /\ job'.run = job.run
      /\ caller' = [c \in Caller |-> Asleep] /\ poll' = NoPoll
      /\ straddled => straddled'
      /\ (\E c \in Caller : caller[c].phase = "closing") => straddled'
      /\ UNCHANGED <<attempt, provider>>
  BY RestartIs
<1>2. poll'.part = 0 /\ \A c \in Caller : Len(caller'[c].own) = 0
  BY <1>1, AsleepType DEF NoPoll
<1>3. IdInv'
  BY <1>1, <1>2 DEF IdInv
<1>4. FollowInv'
  <2>. SUFFICES ASSUME Left'
                PROVE  \E k \in Piece(job.run) : attempt[job.run][k].status \in PENDING
    BY <1>1, <1>2 DEF FollowInv, Left
  <2>1. provider = "whatsapp" /\ job.run # 0 /\ ~ straddled /\ \A c \in Caller : caller[c].phase # "closing"
    BY <1>1 DEF Left
  <2>2. CASE Left
    BY <2>2 DEF FollowInv
  <2>3. CASE ~ Left
    <3>1. PICK c \in Caller : caller[c].part = job.run
      BY <2>1, <2>3 DEF Left
    <3>2. Holds(caller[c]) /\ caller[c].phase \in {"idle", "loaded", "sending", "closing"}
      BY <1>0 DEF CallerType, Coroutine
    <3>3. caller[c].phase = "sending" /\ Busy(c)
      BY <2>1, <3>1, <3>2 DEF Holds, Busy
    <3>. DEFINE k == Len(caller[c].own) + 1
    <3>4. Len(caller[c].own) \in Nat /\ Len(caller[c].own) < Pieces[job.run] /\ job.run \in Part
      BY <1>0, <3>1, <3>2, <3>3, BusyPart DEF Holds
    <3>5. k \in Piece(job.run) /\ k > Len(caller[c].own)
      BY <3>4, PartsOf
    <3>6. attempt[job.run][k] = Submitting
      BY <3>1, <3>3, <3>5 DEF CoreInv, SendInv, Follows, Waiting
    <3>. QED BY <3>5, <3>6 DEF Submitting, PENDING
  <2>. QED BY <2>2, <2>3
<1>. QED BY <1>3, <1>4

LEMMA FollowStep ==
  ASSUME Typed, CoreInv, IdInv, FollowInv, [Next]_vars
  PROVE  IdInv' /\ FollowInv'
<1>0. CallerType /\ JobType
  BY DEF Typed
<1>1. ASSUME NEW c \in Caller, TimerFires(c) \/ SendNow(c)
      PROVE  IdInv' /\ FollowInv'
  <2>. DEFINE t == [Asleep EXCEPT !.phase = "loaded", !.view = job, !.plan = plan]
  <2>1. /\ caller' = [caller EXCEPT ![c] = t] /\ caller[c].phase = "idle"
        /\ UNCHANGED <<job, attempt, poll, provider, straddled>>
    BY <1>1 DEF TimerFires, SendNow, Loads, rows, fixed
  <2>2. t.part = 0 /\ t.own = <<>>
    BY DEF Asleep
  <2>. HIDE DEF t
  <2>3. \A d \in Caller : caller'[d].part = caller[d].part /\ caller'[d].own = caller[d].own
    BY <1>0, <2>1, <2>2 DEF CallerType, Holds
  <2>. QED BY <2>1, <2>3, QuietFollow
<1>2. ASSUME NEW c \in Caller, Runs(c)
      PROVE  IdInv' /\ FollowInv'
  BY <1>2, ClaimFollow, CloseFollow, SendFollow DEF Runs
<1>3. ASSUME NEW p \in Part, PollLoads(p)
      PROVE  IdInv' /\ FollowInv'
  BY <1>3, PollLoadsFollow
<1>4. ASSUME NEW p \in Part, NEW new \in News(p), PollEnds(p, new)
      PROVE  IdInv' /\ FollowInv'
  BY <1>4, PollEndsFollow
<1>5. CASE Pause \/ Cancel
  <2>1. job'.run = job.run
    BY <1>0, <1>5 DEF Pause, Cancel, Stops, JobType, Job
  <2>2. UNCHANGED <<attempt, poll, provider, straddled, caller>>
    BY <1>5 DEF Pause, Cancel, Stops, fixed
  <2>. QED BY <2>1, <2>2, QuietFollow
<1>6. CASE Resume
  <2>1. job'.run = job.run /\ UNCHANGED <<attempt, poll, provider, straddled, caller>>
    BY <1>6, ResumeIs
  <2>. QED BY <2>1, QuietFollow
<1>7. CASE Restart
  BY <1>7, RestartFollow
<1>8. ASSUME NEW kind \in Kinds, Edit(kind)
      PROVE  IdInv' /\ FollowInv'
  <2>1. job'.run = job.run /\ UNCHANGED <<attempt, poll, provider, straddled, caller>>
    BY <1>8, EditIs
  <2>. QED BY <2>1, QuietFollow
<1>9. CASE UNCHANGED vars
  <2>1. UNCHANGED <<job, attempt, poll, provider, straddled, caller>>
    BY <1>9 DEF vars, rows, fixed
  <2>. QED BY <2>1, QuietFollow
<1>. QED BY <1>1, <1>2, <1>3, <1>4, <1>5, <1>6, <1>7, <1>8, <1>9 DEF Next

LEMMA InitFollow == Init => IdInv /\ FollowInv
<1>. SUFFICES ASSUME Init PROVE IdInv /\ FollowInv
  OBVIOUS
<1>1. /\ job.run = 0 /\ caller = [c \in Caller |-> Asleep]
      /\ attempt = [p \in Part |-> [k \in Piece(p) |-> NoRow]]
  BY DEF Init, NoRows
<1>2. NoRow.id = FALSE /\ NoRow.status # "queued"
  BY DEF NoRow
<1>3. \A c \in Caller : Len(caller[c].own) = 0
  BY <1>1, AsleepType
<1>. QED BY <1>1, <1>2, <1>3 DEF IdInv, FollowInv, Left

(* A run through the cloud provider is never left behind: a coroutine is   *)
(* at it or the poll finds an attempt of it to give up, also when a        *)
(* restart cut it off between two pieces (poll_deliveries).                *)
THEOREM RunAlwaysFollowed == Spec => []RunFollowed
<1>1. Init => Typed /\ CoreInv /\ IdInv /\ FollowInv
  BY InitType, InitCore, InitFollow
<1>2. Typed /\ CoreInv /\ IdInv /\ FollowInv /\ [Next]_vars =>
        Typed' /\ CoreInv' /\ IdInv' /\ FollowInv'
  BY NextType, CoreStep, FollowStep
<1>3. Typed /\ FollowInv => RunFollowed
  <2>. SUFFICES ASSUME Typed, FollowInv, provider = "whatsapp", job.run # 0, ~ straddled
                PROVE  \/ Open(job.run) # {}
                       \/ \E c \in Caller : caller[c].phase # "idle" /\ caller[c].part = job.run
    BY DEF RunFollowed
  <2>1. CASE Left
    BY <2>1 DEF FollowInv, Open, Followed
  <2>2. CASE ~ Left
    <3>1. PICK c \in Caller : caller[c].part = job.run
      BY <2>2 DEF Left
    <3>2. Holds(caller[c])
      BY DEF Typed, CallerType
    <3>. QED BY <3>1, <3>2 DEF Holds
  <2>. QED BY <2>1, <2>2
<1>. QED BY <1>1, <1>2, <1>3, PTL DEF Spec

-----------------------------------------------------------------------------
(* Why a completed series was delivered: until an answer is straddled, the *)
(* run a coroutine holds is the job's, what it noted of a piece is what    *)
(* the attempt says, the entry of a part that is over sums its attempts    *)
(* up, and what a poll holds of such a part is either fresh or from before *)
(* the provider's answers, and then nothing of it may be written unmarked. *)
OpenInv == \A p \in Part : \A k \in Piece(p) : p <= job.cursor => attempt[p][k].status # "none"
Summed(p) == {attempt[p][k].status : k \in Piece(p)}
Noted(c, k) ==
  caller[c].own[k].status \notin PENDING =>
    /\ attempt[caller[c].part][k] = caller[c].own[k] /\ caller[c].own[k].id = FALSE
    /\ poll.part = caller[c].part => poll.view[k].status \in {"none", "submitting"}
OwnInv ==
  ~ straddled => \A c \in Caller : Busy(c) =>
    /\ job.run = caller[c].part
    /\ \A k \in 1..Len(caller[c].own) : Noted(c, k)
EntryInv == ~ straddled => \A p \in Over : entry[p] = Terminal(Summed(p))
ViewInv ==
  ~ straddled /\ poll.part \in Over =>
    \/ \A k \in Piece(poll.part) : poll.view[k] \in {NoRow, attempt[poll.part][k]}
    \/ \A k \in Piece(poll.part) : poll.view[k].status \in {"none", "submitting"}
DoneInv ==
  job.status = "completed" /\ job.kind # "dates" =>
    /\ job.run = 0 /\ job.cursor >= Total
    /\ ~ straddled => SeriesResult(entry) = "completed"
EndInv == OpenInv /\ OwnInv /\ EntryInv /\ ViewInv /\ DoneInv

(* A completed series: every attempt was sent.                             *)
LEMMA DoneIsSent ==
  ASSUME Typed, CoreInv, EndInv, job.status = "completed", job.kind # "dates", ~ straddled
  PROVE  /\ job.run = 0 /\ job.cursor >= Total
         /\ \A p \in Part : p \in Over /\ \A k \in Piece(p) : attempt[p][k].status = "sent"
<1>1. job.run = 0 /\ job.cursor >= Total /\ SeriesResult(entry) = "completed" /\ job.cursor \in Nat
  BY PartsOf DEF EndInv, DoneInv, Typed, JobType, Job
<1>2. \A p \in Part : entry[p] \notin {"unknown", "failed"}
  BY <1>1 DEF SeriesResult
<1>3. \A p \in Part : p \in Over /\ p <= job.cursor
  BY <1>1, PartsOf DEF Over, Begun, Part
<1>4. ASSUME NEW p \in Part, NEW k \in Piece(p) PROVE attempt[p][k].status = "sent"
  <2>1. Terminal(Summed(p)) \notin {"unknown", "failed"}
    BY <1>2, <1>3 DEF EndInv, EntryInv
  <2>2. "unknown" \notin Summed(p) /\ "failed" \notin Summed(p)
    BY <2>1 DEF Terminal
  <2>3. attempt[p][k].status \notin {"unknown", "failed"}
    BY <2>2 DEF Summed
  <2>4. attempt[p][k].status \notin {"submitting", "queued", "none"}
    BY <1>3 DEF EndInv, OpenInv, CoreInv, PieceInv, PENDING
  <2>5. attempt[p][k] \in Row
    BY DEF Typed, RowType
  <2>. QED BY <2>3, <2>4, <2>5 DEF Row
<1>. QED BY <1>1, <1>3, <1>4

(* Steps that leave runs, attempts and polls alone.                        *)
LEMMA QuietEnd ==
  ASSUME EndInv, UNCHANGED <<attempt, poll, straddled, entry>>,
         job'.cursor = job.cursor, job'.run = job.run, job'.kind = job.kind,
         job'.status = "completed" =>
           \/ job.status = "completed"
           \/ job.cursor >= Total /\ job.run = 0 /\ SeriesResult(entry) = "completed"
           \/ job.kind = "dates",
         \A c \in Caller : caller'[c] = caller[c] \/ ~ (Busy(c))'
  PROVE  EndInv'
<1>1. Over' = Over
  BY DEF Begun, Over
<1>2. \A c \in Caller : (Busy(c))' => Busy(c) /\ caller'[c] = caller[c]
  BY DEF Busy
<1>3. OpenInv'
  BY DEF EndInv, OpenInv
<1>4. OwnInv'
  BY <1>2 DEF EndInv, OwnInv, Noted
<1>5. EntryInv'
  BY <1>1 DEF EndInv, EntryInv, Summed
<1>6. ViewInv'
  BY <1>1 DEF EndInv, ViewInv
<1>7. DoneInv'
  <2>1. (SeriesResult(entry))' = SeriesResult(entry)
    BY DEF SeriesResult
  <2>. QED BY <2>1 DEF EndInv, DoneInv
<1>. QED BY <1>3, <1>4, <1>5, <1>6, <1>7 DEF EndInv

LEMMA ClaimEnd ==
  ASSUME Typed, CoreInv, EndInv, NEW c \in Caller, Claim(c)
  PROVE  EndInv'
<1>0. JobType /\ RowType /\ CallerType /\ PollType
  BY DEF Typed
<1>1. UNCHANGED <<poll, straddled>>
  BY ClaimIs
<1>2. CASE GivesUp(c)
  <2>1. caller' = [caller EXCEPT ![c] = Asleep] /\ UNCHANGED <<job, attempt, entry>>
    BY <1>2 DEF GivesUp
  <2>2. \A d \in Caller : caller'[d] = caller[d] \/ ~ (Busy(d))'
    BY <1>0, <2>1, AsleepType DEF CallerType, Busy
  <2>. QED BY <1>1, <2>1, <2>2, QuietEnd
<1>3. CASE Claims(c)
  <2>. DEFINE p == job.cursor + 1
              t == [caller[c] EXCEPT !.phase = "sending", !.part = p]
  <2>1. /\ p \in Part /\ caller[c].phase = "loaded" /\ job.cursor \in Nat /\ job.run = 0
        /\ p = job.cursor + 1 /\ p \in Nat
    BY <1>0, <1>3, PartsOf DEF Claims, JobType, Job
  <2>2. caller[c] \in Coroutine /\ caller[c].own = <<>>
    BY <1>0, <2>1 DEF CallerType, Holds
  <2>3. caller' = [caller EXCEPT ![c] = t] /\ t.phase = "sending" /\ t.part = p /\ t.own = <<>>
    BY <1>3, <2>2 DEF Claims, Coroutine
  <2>4. /\ caller'[c].phase = "sending" /\ caller'[c].part = p /\ Len(caller'[c].own) = 0
        /\ \A d \in Caller \ {c} : caller'[d] = caller[d]
    BY <1>0, <2>3 DEF CallerType
  <2>5. job'.cursor = p /\ job'.run = p /\ job'.status = "queued"
    BY <1>0, <1>3 DEF Claims, JobType, Job
  <2>6. /\ entry' = [entry EXCEPT ![p] = "submitting"]
        /\ attempt' = [attempt EXCEPT ![p] = [k \in Piece(p) |-> Submitting]]
    BY <1>3 DEF Claims
  <2>. HIDE DEF t, p
  <2>7. /\ \A k \in Piece(p) : attempt'[p][k] = Submitting
        /\ \A q \in Part : q # p => attempt'[q] = attempt[q] /\ entry'[q] = entry[q]
    BY <1>0, <2>1, <2>6 DEF RowType, JobType
  <2>8. Over' = Over /\ p \notin Over /\ Over \subseteq Part
    BY <2>1, <2>5, PartsOf DEF Over, Begun, Part
  <2>9. OpenInv'
    <3>1. Submitting.status # "none"
      BY DEF Submitting
    <3>2. \A q \in Part : q <= p => q = p \/ q <= job.cursor
      BY <2>1, PartsOf
    <3>. QED BY <2>5, <2>7, <3>1, <3>2 DEF EndInv, OpenInv
  <2>10. ~ straddled => \A d \in Caller : ~ Busy(d)
    BY <1>0, <2>1, BusyPart DEF EndInv, OwnInv
  <2>11. OwnInv'
    BY <1>1, <2>4, <2>5, <2>10 DEF OwnInv, Busy
  <2>12. EntryInv'
    <3>1. \A q \in Over : attempt'[q] = attempt[q] /\ entry'[q] = entry[q]
      BY <2>7, <2>8
    <3>. QED BY <1>1, <2>8, <3>1 DEF EndInv, EntryInv, Summed
  <2>13. ViewInv'
    <3>1. poll.part \in Over => attempt'[poll.part] = attempt[poll.part]
      BY <2>7, <2>8
    <3>. QED BY <1>1, <2>8, <3>1 DEF EndInv, ViewInv
  <2>14. DoneInv'
    BY <2>5 DEF DoneInv
  <2>. QED BY <2>9, <2>11, <2>12, <2>13, <2>14 DEF EndInv
<1>. QED BY <1>2, <1>3, ClaimIs

LEMMA SendEnd ==
  ASSUME Typed, CoreInv, EndInv, NEW c \in Caller, NEW outcome \in Outcomes,
         SendPiece(c, outcome)
  PROVE  EndInv'
<1>. SUFFICES ASSUME NEW p, NEW k, p = caller[c].part, k = Len(caller[c].own) + 1
              PROVE  EndInv'
  OBVIOUS
<1>0. RowType /\ CallerType /\ PollType /\ JobType
  BY DEF Typed
<1>1. Sends(c, outcome, p, k)
  BY SendIs
<1>2. /\ p \in Part /\ k \in Piece(p) /\ k \in Nat /\ caller[c].phase = "sending" /\ Busy(c)
      /\ caller[c].own \in Seq(Row) /\ Len(caller[c].own) \in Nat
      /\ attempt'[p][k] = outcome
      /\ \A q \in Part : \A l \in Piece(q) : q # p \/ l # k => attempt'[q][l] = attempt[q][l]
      /\ caller'[c].part = p /\ caller'[c].own = Append(caller[c].own, outcome)
      /\ \A d \in Caller \ {c} : caller'[d] = caller[d]
      /\ UNCHANGED <<job, poll, entry, straddled>>
  BY <1>1 DEF Sends, Busy
<1>3. /\ Len(caller'[c].own) = k /\ caller'[c].own[k] = outcome
      /\ \A l \in 1..Len(caller[c].own) : caller'[c].own[l] = caller[c].own[l]
  BY <1>2, OutcomeType
<1>4. \A d \in Caller : (Busy(d))' => Busy(d) /\ caller'[d].part = caller[d].part
  BY <1>2 DEF Busy
<1>5. job.run = p /\ Waiting(p, k) /\ p # 0
  BY <1>0, <1>2, BusyPart DEF CoreInv, RunInv, SendInv, Follows
<1>6. Over' = Over /\ p \notin Over /\ Over \subseteq Part
  BY <1>0, <1>2, <1>5, PartsOf DEF Over, Begun, Part, JobType, Job
<1>7. OpenInv'
  <2>1. outcome.status # "none"
    BY OutcomeType
  <2>. QED BY <1>2, <2>1 DEF EndInv, OpenInv
<1>8. OwnInv'
  <2>. SUFFICES ASSUME ~ straddled, NEW d \in Caller, (Busy(d))'
                PROVE  /\ job'.run = caller'[d].part
                       /\ \A l \in 1..Len(caller'[d].own) : Noted(d, l)'
    BY <1>2 DEF OwnInv
  <2>1. job.run = caller[d].part /\ d = c
    <3>1. job.run = caller[d].part
      BY <1>4 DEF EndInv, OwnInv
    <3>. QED BY <1>2, <1>4, <1>5, <3>1 DEF CoreInv, RunInv
  <2>2. ASSUME NEW l \in 1..Len(caller'[c].own) PROVE Noted(c, l)'
    <3>1. CASE l = k
      <4>1. outcome.status \notin PENDING => outcome.id = FALSE
        BY OutcomeIs
      <4>. QED BY <1>2, <1>3, <1>5, <3>1, <4>1 DEF Noted, Waiting
    <3>2. CASE l # k
      <4>1. l \in 1..Len(caller[c].own) /\ l \in Piece(p)
        BY <1>2, <1>3, <3>2, PartsOf
      <4>2. Noted(c, l)
        BY <1>2, <4>1 DEF EndInv, OwnInv
      <4>3. attempt'[p][l] = attempt[p][l] /\ caller'[c].own[l] = caller[c].own[l]
        BY <1>2, <1>3, <3>2, <4>1
      <4>. QED BY <1>2, <4>2, <4>3 DEF Noted
    <3>. QED BY <3>1, <3>2
  <2>. QED BY <1>2, <1>5, <2>1, <2>2
<1>9. \A q \in Over : \A l \in Piece(q) : attempt'[q][l] = attempt[q][l]
  BY <1>2, <1>6
<1>10. EntryInv'
  <2>1. \A q \in Over : (Summed(q))' = Summed(q)
    BY <1>9 DEF Summed
  <2>. QED BY <1>2, <1>6, <2>1 DEF EndInv, EntryInv
<1>11. ViewInv'
  BY <1>2, <1>6, <1>9 DEF EndInv, ViewInv
<1>12. DoneInv'
  BY <1>2, <1>5 DEF EndInv, DoneInv
<1>. QED BY <1>7, <1>8, <1>10, <1>11, <1>12 DEF EndInv

LEMMA CloseEnd ==
  ASSUME Typed, CoreInv, EndInv, NEW c \in Caller, Close(c)
  PROVE  EndInv'
<1>. SUFFICES ASSUME NEW p, NEW own, p = caller[c].part, own = Owned(c)
              PROVE  EndInv'
  OBVIOUS
<1>. DEFINE entries == [entry EXCEPT ![p] = IF Settled(own) THEN @ ELSE "queued"]
<1>0. CallerType /\ JobType
  BY DEF Typed
<1>1. Closes(c, p, own)
  BY CloseIs
<1>2. /\ caller[c].phase = "closing" /\ Busy(c) /\ p \in Part /\ Len(caller[c].own) = Pieces[p]
      /\ caller' = [caller EXCEPT ![c] = Asleep]
      /\ UNCHANGED <<attempt, poll, straddled, datesLeft>>
      /\ own = [k \in Piece(p) |-> caller[c].own[k].status]
  BY <1>1 DEF Closes, Busy, Owned
<1>3. /\ job'.kind = job.kind /\ job'.cursor = job.cursor
      /\ job'.run = IF Settled(own) /\ job.run = p THEN 0 ELSE job.run
      /\ job'.status = "completed" =>
           \/ job.status = "completed" /\ (job'.run # 0 \/ ~ Settled(own))
           \/ job'.run = 0 /\ Ended(job, datesLeft) /\ SeriesResult(entry') = "completed"
      /\ ~ Settled(own) => entry' = entries
      /\ Settled(own) => entry' = [entries EXCEPT ![p] = Terminal({own[k] : k \in Piece(p)})]
  BY <1>1 DEF Closes, Finished
<1>4. /\ \A d \in Caller \ {c} : caller'[d] = caller[d]
      /\ \A d \in Caller : (Busy(d))' => d # c /\ Busy(d)
  BY <1>0, <1>2, AsleepType DEF CallerType, Busy
<1>5. \A d \in Caller \ {c} : Busy(d) => caller[d].part # p
  BY <1>2 DEF CoreInv, RunInv
<1>6. ~ straddled => job.run = p /\ \A k \in Piece(p) : Noted(c, k)
  BY <1>2, PartsOf DEF EndInv, OwnInv
<1>7. p # 0 /\ \A q \in Part : q # p => entry'[q] = entry[q]
  BY <1>0, <1>2, <1>3, PartsOf DEF JobType, Part
<1>8. OpenInv'
  BY <1>2, <1>3 DEF EndInv, OpenInv
<1>9. OwnInv'
  <2>. SUFFICES ASSUME ~ straddled, NEW d \in Caller, (Busy(d))'
                PROVE  /\ job'.run = caller'[d].part
                       /\ \A l \in 1..Len(caller'[d].own) : Noted(d, l)'
    BY <1>2 DEF OwnInv
  <2>1. d # c /\ Busy(d) /\ caller'[d] = caller[d] /\ caller[d].part # p
    BY <1>4, <1>5
  <2>2. job.run = caller[d].part
    BY <2>1 DEF EndInv, OwnInv
  <2>. QED BY <1>6, <2>1, <2>2
<1>10. Settled(own) =>
         \A k \in Piece(p) : caller[c].own[k].status \notin PENDING /\ own[k] = caller[c].own[k].status
  BY <1>2 DEF Settled
<1>11. EntryInv'
  <2>. SUFFICES ASSUME ~ straddled, NEW q \in Over'
                PROVE  entry'[q] = Terminal(Summed(q))
    BY <1>2 DEF EntryInv, Summed
  <2>1. q \in Part /\ (q \in Over \/ (q = p /\ Settled(own)))
    <3>1. q \in 1..job.cursor
      BY <1>3 DEF Over, Begun
    <3>2. job.cursor \in 0..Total
      BY <1>0 DEF JobType, Job
    <3>. QED BY <1>3, <3>1, <3>2, PartsOf DEF Over, Begun, Part
  <2>2. CASE q # p
    BY <1>7, <2>1, <2>2 DEF EndInv, EntryInv
  <2>3. CASE q = p
    <3>1. Settled(own)
      BY <1>6, <2>1, <2>3 DEF Over
    <3>2. \A k \in Piece(p) : own[k] = attempt[p][k].status
      BY <1>2, <1>6, <1>10, <3>1 DEF Noted
    <3>3. {own[k] : k \in Piece(p)} = Summed(p)
      BY <3>2 DEF Summed
    <3>4. entry'[p] = Terminal({own[k] : k \in Piece(p)})
      BY <1>0, <1>2, <1>3, <3>1 DEF JobType
    <3>. QED BY <2>3, <3>3, <3>4
  <2>. QED BY <2>2, <2>3
<1>12. ViewInv'
  <2>. SUFFICES ASSUME ~ straddled, poll.part \in Over'
                PROVE  \/ \A k \in Piece(poll.part) : poll.view[k] \in {NoRow, attempt[poll.part][k]}
                       \/ \A k \in Piece(poll.part) : poll.view[k].status \in {"none", "submitting"}
    BY <1>2 DEF ViewInv
  <2>1. poll.part \in Over \/ (poll.part = p /\ Settled(own))
    BY <1>3 DEF Over, Begun
  <2>2. CASE poll.part \in Over
    BY <2>2 DEF EndInv, ViewInv
  <2>3. CASE poll.part = p /\ Settled(own)
    BY <1>2, <1>6, <1>10, <2>3 DEF Noted
  <2>. QED BY <2>1, <2>2, <2>3
<1>13. DoneInv'
  <2>. SUFFICES ASSUME job'.status = "completed", job'.kind # "dates"
                PROVE  /\ job'.run = 0 /\ job'.cursor >= Total
                       /\ ~ straddled => SeriesResult(entry') = "completed"
    BY <1>2 DEF DoneInv, SeriesResult
  <2>1. CASE job'.run = 0 /\ Ended(job, datesLeft) /\ SeriesResult(entry') = "completed"
    BY <1>3, <2>1 DEF Ended
  <2>2. CASE job.status = "completed" /\ (job'.run # 0 \/ ~ Settled(own))
    <3>1. job.run = 0 /\ job.cursor >= Total
      BY <1>3, <2>2 DEF EndInv, DoneInv
    <3>. QED BY <1>3, <1>6, <1>7, <3>1
  <2>. QED BY <1>3, <2>1, <2>2
<1>. QED BY <1>8, <1>9, <1>11, <1>12, <1>13 DEF EndInv

LEMMA PollLoadsEnd ==
  ASSUME Typed, CoreInv, EndInv, NEW p \in Part, PollLoads(p)
  PROVE  EndInv'
<1>1. /\ poll' = [part |-> p, view |-> [k \in Piece(p) |-> IF k \in Open(p) THEN attempt[p][k] ELSE NoRow]]
      /\ UNCHANGED <<job, attempt, caller, entry, straddled>>
  BY DEF PollLoads, rows, fixed
<1>2. poll'.part = p /\ \A k \in Piece(p) : poll'.view[k] = IF k \in Open(p) THEN attempt[p][k] ELSE NoRow
  BY <1>1
<1>3. OpenInv'
  BY <1>1 DEF EndInv, OpenInv
<1>4. EntryInv'
  BY <1>1 DEF EndInv, EntryInv, Over, Begun, Summed
<1>5. DoneInv'
  BY <1>1 DEF EndInv, DoneInv, SeriesResult
<1>6. ViewInv'
  BY <1>1, <1>2 DEF ViewInv
<1>7. OwnInv'
  <2>. SUFFICES ASSUME ~ straddled, NEW c \in Caller, Busy(c), NEW k \in 1..Len(caller[c].own)
                PROVE  Noted(c, k)'
    BY <1>1 DEF EndInv, OwnInv, Busy
  <2>1. Noted(c, k)
    BY DEF EndInv, OwnInv
  <2>2. CASE caller[c].part = p /\ caller[c].own[k].status \notin PENDING
    <3>1. attempt[p][k].status \notin PENDING /\ attempt[p][k].id = FALSE
      BY <2>1, <2>2 DEF Noted
    <3>2. k \notin Open(p)
      BY <3>1 DEF Open
    <3>3. k \in Piece(p)
      <4>1. Holds(caller[c]) /\ Len(caller[c].own) \in Nat
        BY BusyPart DEF Typed
      <4>2. Len(caller[c].own) <= Pieces[p]
        BY <2>2, <4>1, PartsOf DEF Holds, Busy
      <4>. QED BY <4>1, <4>2, PartsOf
    <3>4. poll'.view[k].status = "none"
      BY <1>2, <3>2, <3>3 DEF NoRow
    <3>. QED BY <1>1, <2>1, <3>4 DEF Noted
  <2>3. CASE ~ (caller[c].part = p /\ caller[c].own[k].status \notin PENDING)
    BY <1>1, <1>2, <2>1, <2>3 DEF Noted
  <2>. QED BY <2>2, <2>3
<1>. QED BY <1>3, <1>4, <1>5, <1>6, <1>7 DEF EndInv

LEMMA PollEndsEnd ==
  ASSUME Typed, CoreInv, EndInv, NEW p \in Part, NEW new, PollEnds(p, new)
  PROVE  EndInv'
<1>0. RowType /\ JobType /\ CallerType
  BY DEF Typed
<1>1. Ends(p, new)
  BY PollEndsIs
<1>2. \A k \in Piece(p) : Polled(p, new, k)
  BY <1>1, PollPiece
<1>3. /\ poll.part = p /\ poll'.part = 0
      /\ \A q \in Part \ {p} : attempt'[q] = attempt[q]
      /\ straddled' <=> \/ straddled
                        \/ Resolved(p, new) /\ \E c \in Caller :
                                                 caller[c].phase = "closing" /\ caller[c].part = p
                        \/ \E k \in Moved(p, new) : attempt[p][k] # poll.view[k]
      /\ UNCHANGED <<caller, datesLeft>>
  BY <1>0, <1>1 DEF Ends, RowType, NoPoll
<1>4. /\ job'.kind = job.kind /\ job'.cursor = job.cursor
      /\ job'.run = IF Resolved(p, new) /\ Settled(Seen(p, new)) /\ job.run = p THEN 0 ELSE job.run
      /\ job'.status = "completed" =>
           \/ job.status = "completed"
           \/ job'.run = 0 /\ Ended(job, datesLeft) /\ SeriesResult(entry') = "completed"
      /\ Resolved(p, new) /\ Settled(Seen(p, new)) =>
           entry' = [entry EXCEPT ![p] = Terminal({Seen(p, new)[k] : k \in Piece(p)})]
      /\ ~ (Resolved(p, new) /\ Settled(Seen(p, new))) => entry' = entry
      /\ ~ Resolved(p, new) => job' = job
  <2>1. CASE Resolved(p, new)
    BY <1>1, <2>1 DEF Ends, Finished
  <2>2. CASE ~ Resolved(p, new)
    BY <1>1, <2>2 DEF Ends
  <2>. QED BY <2>1, <2>2
<1>5. ~ straddled' => /\ ~ straddled
                      /\ \A k \in Moved(p, new) : attempt[p][k] = poll.view[k]
                      /\ Resolved(p, new) => \A c \in Caller : ~ (caller[c].phase = "closing" /\ caller[c].part = p)
  BY <1>3
<1>6. ~ Resolved(p, new) => Moved(p, new) = {} /\ \A k \in Piece(p) : attempt'[p][k] = attempt[p][k]
  <2>. SUFFICES ASSUME ~ Resolved(p, new) PROVE \A k \in Piece(p) : k \notin Moved(p, new)
    BY <1>2 DEF Polled, Moved
  <2>. QED BY <1>2 DEF Polled, Resolved, PENDING
<1>7. OpenInv'
  <2>. SUFFICES ASSUME NEW q \in Part, NEW k \in Piece(q), q <= job.cursor
                PROVE  attempt'[q][k].status # "none"
    BY <1>4 DEF OpenInv
  <2>1. attempt[q][k].status # "none"
    BY DEF EndInv, OpenInv
  <2>2. CASE q = p
    <3>1. Polled(p, new, k)
      BY <1>2, <2>2
    <3>. QED BY <2>1, <2>2, <3>1 DEF Polled
  <2>3. CASE q # p
    BY <1>3, <2>1, <2>3
  <2>. QED BY <2>2, <2>3
<1>8. OwnInv'
  <2>. SUFFICES ASSUME ~ straddled', NEW c \in Caller, Busy(c)
                PROVE  /\ job'.run = caller[c].part
                       /\ \A k \in 1..Len(caller[c].own) : Noted(c, k)'
    BY <1>3 DEF OwnInv, Busy
  <2>1. job.run = caller[c].part /\ ~ straddled
    BY <1>5 DEF EndInv, OwnInv
  <2>2. job'.run = caller[c].part
    <3>1. ~ (Resolved(p, new) /\ Settled(Seen(p, new)) /\ caller[c].part = p)
      BY <1>1, <1>5, PollWaits DEF Busy
    <3>. QED BY <1>4, <2>1, <3>1
  <2>3. ASSUME NEW k \in 1..Len(caller[c].own) PROVE Noted(c, k)'
    <3>1. Noted(c, k)
      BY <2>1 DEF EndInv, OwnInv
    <3>2. caller[c].part \in Part /\ caller[c].part # 0 /\ k \in Piece(caller[c].part)
      <4>1. Holds(caller[c]) /\ Len(caller[c].own) \in Nat /\ caller[c].part \in Part /\ caller[c].part # 0
        BY <1>0, BusyPart
      <4>2. Len(caller[c].own) <= Pieces[caller[c].part]
        BY <4>1, PartsOf DEF Holds, Busy
      <4>. QED BY <4>1, <4>2, PartsOf
    <3>3. CASE caller[c].part # p
      BY <1>3, <3>1, <3>2, <3>3 DEF Noted
    <3>4. CASE caller[c].part = p /\ caller[c].own[k].status \notin PENDING
      <4>1. attempt[p][k] = caller[c].own[k] /\ poll.view[k].status \in {"none", "submitting"}
        BY <1>3, <3>1, <3>4 DEF Noted
      <4>2. Polled(p, new, k)
        BY <1>2, <3>2, <3>4
      <4>3. k \notin Moved(p, new)
        <5>1. CASE poll.view[k].status = "none"
          BY <4>2, <5>1 DEF Polled
        <5>2. CASE poll.view[k].status = "submitting"
          BY <1>5, <3>4, <4>1, <5>2 DEF PENDING
        <5>. QED BY <4>1, <5>1, <5>2
      <4>4. attempt'[p][k] = attempt[p][k]
        BY <4>2, <4>3 DEF Polled
      <4>. QED BY <1>3, <3>1, <3>2, <3>4, <4>4 DEF Noted
    <3>5. CASE caller[c].own[k].status \in PENDING
      BY <1>3, <3>5 DEF Noted
    <3>. QED BY <3>3, <3>4, <3>5
  <2>. QED BY <2>2, <2>3
<1>9. p \in Over /\ ~ straddled' =>
        /\ Resolved(p, new) => Settled(Seen(p, new))
        /\ ~ Resolved(p, new) => \A k \in Piece(p) : attempt'[p][k] = attempt[p][k]
  <2>. SUFFICES ASSUME p \in Over, ~ straddled', Resolved(p, new), ~ Settled(Seen(p, new))
                PROVE  FALSE
    BY <1>6
  <2>1. PICK m \in Piece(p) : m \in Moved(p, new)
    BY DEF Resolved, Moved
  <2>2. PICK k \in Piece(p) : Seen(p, new)[k] \in PENDING
    BY DEF Settled, Seen
  <2>3. attempt[p][m].status \notin PENDING /\ attempt[p][k].status \notin PENDING
    BY DEF CoreInv, PieceInv
  <2>4. attempt[p][m] = poll.view[m] /\ Polled(p, new, m) /\ Polled(p, new, k) /\ ~ straddled
    BY <1>2, <1>5, <2>1
  <2>5. poll.view[m].status \notin {"none", "submitting"}
    BY <2>1, <2>3, <2>4 DEF Polled, PENDING
  <2>6. poll.view[k] \in {NoRow, attempt[p][k]}
    BY <1>3, <2>4, <2>5 DEF EndInv, ViewInv
  <2>7. Seen(p, new)[k] = IF new[k] = "none" THEN attempt[p][k].status ELSE new[k]
    BY DEF Seen
  <2>8. new[k] \in PENDING
    BY <2>2, <2>3, <2>7
  <2>9. k \notin Moved(p, new)
    BY <2>4, <2>8 DEF Polled, PENDING
  <2>10. poll.view[k].status = new[k]
    BY <2>9 DEF Moved
  <2>11. NoRow.status = "none"
    BY DEF NoRow
  <2>. QED BY <2>3, <2>6, <2>8, <2>10, <2>11 DEF PENDING
<1>10. EntryInv'
  <2>. SUFFICES ASSUME ~ straddled', NEW q \in Over'
                PROVE  entry'[q] = Terminal((Summed(q))')
    BY DEF EntryInv
  <2>1. q \in Part /\ (q \in Over \/ (q = p /\ Resolved(p, new) /\ Settled(Seen(p, new))))
    <3>1. q \in 1..job.cursor
      BY <1>4 DEF Over, Begun
    <3>2. job.cursor \in 0..Total
      BY <1>0 DEF JobType, Job
    <3>. QED BY <1>4, <3>1, <3>2, PartsOf DEF Over, Begun, Part
  <2>2. CASE q # p
    <3>1. entry'[q] = entry[q] /\ (Summed(q))' = Summed(q) /\ q \in Over
      BY <1>0, <1>3, <1>4, <2>1, <2>2 DEF JobType, Summed
    <3>. QED BY <1>5, <3>1 DEF EndInv, EntryInv
  <2>3. CASE q = p /\ Resolved(p, new)
    <3>1. Settled(Seen(p, new))
      BY <1>9, <2>1, <2>3
    <3>2. \A k \in Piece(p) : Seen(p, new)[k] = attempt'[p][k].status
      BY <1>2, <3>1 DEF Polled
    <3>3. {Seen(p, new)[k] : k \in Piece(p)} = (Summed(p))'
      BY <3>2 DEF Summed
    <3>4. entry'[p] = Terminal({Seen(p, new)[k] : k \in Piece(p)})
      BY <1>0, <1>4, <2>1, <2>3, <3>1 DEF JobType
    <3>. QED BY <2>3, <3>3, <3>4
  <2>4. CASE q = p /\ ~ Resolved(p, new)
    <3>1. entry' = entry /\ q \in Over
      BY <1>4, <2>1, <2>4
    <3>2. (Summed(p))' = Summed(p)
      BY <1>6, <2>4 DEF Summed
    <3>. QED BY <1>5, <2>4, <3>1, <3>2 DEF EndInv, EntryInv
  <2>. QED BY <2>2, <2>3, <2>4
<1>11. ViewInv'
  BY <1>3 DEF ViewInv, Over, Begun
<1>12. DoneInv'
  <2>. SUFFICES ASSUME job'.status = "completed", job'.kind # "dates"
                PROVE  /\ job'.run = 0 /\ job'.cursor >= Total
                       /\ ~ straddled' => SeriesResult(entry') = "completed"
    BY DEF DoneInv, SeriesResult
  <2>1. CASE job'.run = 0 /\ Ended(job, datesLeft) /\ SeriesResult(entry') = "completed"
    BY <1>4, <2>1 DEF Ended
  <2>2. CASE job.status = "completed"
    <3>1. job.run = 0 /\ job.cursor >= Total /\ (~ straddled => SeriesResult(entry) = "completed")
      BY <1>4, <2>2 DEF EndInv, DoneInv
    <3>2. ASSUME ~ straddled' PROVE ~ Resolved(p, new)
      <4>1. ASSUME NEW k \in Moved(p, new) PROVE FALSE
        <5>1. k \in Piece(p) /\ attempt[p][k] = poll.view[k] /\ ~ straddled
          BY <1>5, <3>2, <4>1 DEF Moved
        <5>2. attempt[p][k].status = "sent"
          BY <1>4, <2>2, <5>1, DoneIsSent
        <5>3. poll.view[k].status \in {"none", "submitting", "queued", "unknown"}
          BY <1>3, <5>1 DEF CoreInv, PollInv, Part
        <5>. QED BY <5>1, <5>2, <5>3
      <4>. QED BY <4>1 DEF Resolved
    <3>3. ~ straddled' => entry' = entry /\ ~ straddled
      BY <1>4, <1>5, <3>2
    <3>. QED BY <1>4, <3>1, <3>3
  <2>. QED BY <1>4, <2>1, <2>2
<1>. QED BY <1>7, <1>8, <1>10, <1>11, <1>12 DEF EndInv

LEMMA RestartEnd ==
  ASSUME Typed, CoreInv, EndInv, Restart
  PROVE  EndInv'
<1>1. /\ job'.kind = job.kind /\ job'.cursor = job.cursor /\ job'.run = job.run
      /\ job'.status = "completed" =>
           \/ job.status = "completed"
           \/ job.cursor >= Total /\ job.run = 0 /\ SeriesResult(entry) = "completed"
           \/ job.kind = "dates"
      /\ caller' = [c \in Caller |-> Asleep] /\ poll' = NoPoll
      /\ straddled => straddled'
      /\ UNCHANGED <<attempt, entry>>
  BY RestartIs
<1>2. poll'.part = 0 /\ (\A c \in Caller : ~ (Busy(c))') /\ Over' = Over
  BY <1>1, NoneBusy DEF NoPoll, Over, Begun
<1>3. OpenInv'
  BY <1>1 DEF EndInv, OpenInv
<1>4. OwnInv'
  BY <1>2 DEF OwnInv
<1>5. EntryInv'
  BY <1>1, <1>2 DEF EndInv, EntryInv, Summed
<1>6. ViewInv'
  BY <1>2 DEF ViewInv, Over, Begun
<1>7. DoneInv'
  BY <1>1 DEF EndInv, DoneInv, SeriesResult
<1>. QED BY <1>3, <1>4, <1>5, <1>6, <1>7 DEF EndInv

LEMMA EditEnd ==
  ASSUME Typed, CoreInv, EndInv, NEW kind \in Kinds, Edit(kind)
  PROVE  EndInv'
<1>1. /\ job.cursor = 0 /\ job.run = 0 /\ job'.cursor = 0 /\ job'.run = 0 /\ job'.kind = kind
      /\ job'.status = "completed" => kind = "dates"
      /\ UNCHANGED <<attempt, caller, poll, straddled>>
  BY EditIs
<1>2. Over = {} /\ Over' = {}
  BY <1>1 DEF Over, Begun
<1>3. OpenInv'
  BY <1>1 DEF EndInv, OpenInv
<1>4. OwnInv'
  BY <1>1 DEF EndInv, OwnInv, Noted, Busy
<1>5. EntryInv' /\ ViewInv'
  BY <1>2 DEF EntryInv, ViewInv
<1>6. DoneInv'
  BY <1>1 DEF DoneInv
<1>. QED BY <1>3, <1>4, <1>5, <1>6 DEF EndInv

LEMMA EndStep ==
  ASSUME Typed, CoreInv, EndInv, [Next]_vars
  PROVE  EndInv'
<1>0. CallerType /\ JobType
  BY DEF Typed
<1>1. ASSUME NEW c \in Caller, TimerFires(c) \/ SendNow(c)
      PROVE  EndInv'
  <2>1. /\ caller' = [caller EXCEPT ![c] = [Asleep EXCEPT !.phase = "loaded", !.view = job,
                                                          !.plan = plan]]
        /\ UNCHANGED <<job, attempt, poll, straddled, entry>>
    BY <1>1 DEF TimerFires, SendNow, Loads, rows
  <2>2. caller'[c].phase = "loaded"
    BY <1>0, <2>1, AsleepType DEF CallerType, Asleep
  <2>3. \A d \in Caller : caller'[d] = caller[d] \/ ~ (Busy(d))'
    BY <1>0, <2>1, <2>2 DEF CallerType, Busy
  <2>. QED BY <2>1, <2>3, QuietEnd
<1>2. ASSUME NEW c \in Caller, Runs(c)
      PROVE  EndInv'
  BY <1>2, ClaimEnd, CloseEnd, SendEnd DEF Runs
<1>3. ASSUME NEW p \in Part, PollLoads(p)
      PROVE  EndInv'
  BY <1>3, PollLoadsEnd
<1>4. ASSUME NEW p \in Part, NEW new \in News(p), PollEnds(p, new)
      PROVE  EndInv'
  BY <1>4, PollEndsEnd
<1>5. CASE Pause \/ Cancel
  <2>1. job'.cursor = job.cursor /\ job'.run = job.run /\ job'.kind = job.kind
        /\ job'.status # "completed"
    BY <1>0, <1>5 DEF Pause, Cancel, Stops, JobType, Job
  <2>2. UNCHANGED <<attempt, poll, straddled, entry, caller>>
    BY <1>5 DEF Pause, Cancel, Stops
  <2>. QED BY <2>1, <2>2, QuietEnd
<1>6. CASE Resume
  <2>1. /\ job'.kind = job.kind /\ job'.cursor = job.cursor /\ job'.run = job.run
        /\ job'.status = "completed" =>
             \/ job.cursor >= Total /\ job.run = 0 /\ SeriesResult(entry) = "completed"
             \/ job.kind = "dates"
        /\ UNCHANGED <<attempt, poll, straddled, entry, caller>>
    BY <1>6, ResumeIs
  <2>. QED BY <2>1, QuietEnd
<1>7. CASE Restart
  BY <1>7, RestartEnd
<1>8. ASSUME NEW kind \in Kinds, Edit(kind)
      PROVE  EndInv'
  BY <1>8, EditEnd
<1>9. CASE UNCHANGED vars
  <2>1. UNCHANGED <<job, attempt, poll, straddled, entry, caller>>
    BY <1>9 DEF vars, rows, fixed
  <2>. QED BY <2>1, QuietEnd
<1>. QED BY <1>1, <1>2, <1>3, <1>4, <1>5, <1>6, <1>7, <1>8, <1>9 DEF Next

LEMMA InitEnd == Init => EndInv
<1>. SUFFICES ASSUME Init PROVE EndInv
  OBVIOUS
<1>1. /\ job.cursor = 0 /\ job.status # "completed" /\ caller = [c \in Caller |-> Asleep]
  BY DEF Init
<1>2. \A c \in Caller : ~ Busy(c)
  BY <1>1, AsleepType DEF Busy
<1>3. OpenInv
  BY <1>1, PartsOf DEF OpenInv, Part
<1>4. Over = {}
  BY <1>1 DEF Over, Begun
<1>. QED BY <1>1, <1>2, <1>3, <1>4 DEF EndInv, OwnInv, EntryInv, ViewInv, DoneInv

(* A series shown as completed was delivered whole, unless its dates ran   *)
(* out or a poll or a restart straddled an answer (finish_series_run,      *)
(* register_job).                                                          *)
THEOREM CompletedAlwaysDelivered == Spec => []CompletedDelivered
<1>1. Init => Typed /\ CoreInv /\ EndInv
  BY InitType, InitCore, InitEnd
<1>2. Typed /\ CoreInv /\ EndInv /\ [Next]_vars => Typed' /\ CoreInv' /\ EndInv'
  BY NextType, CoreStep, EndStep
<1>3. Typed /\ CoreInv /\ EndInv => CompletedDelivered
  BY DoneIsSent DEF CompletedDelivered
<1>. QED BY <1>1, <1>2, <1>3, PTL DEF Spec

-----------------------------------------------------------------------------
(* Why the rows live as Attempts.tla says. An accepted piece has its id    *)
(* from the step that answers it, and only the poll takes it further: of   *)
(* what a poll holds, nothing that has an id is final before it ends.      *)
Known(r) == (r.id => r.status # "submitting") /\ (r.status = "queued" => r.id)
Held(v, r) ==
  v.status # "none" =>
    /\ r.status # "none"
    /\ r.id => r.status \in {"queued", "unknown"}
    /\ v.status \in {"queued", "unknown"} => r.id
LifeInv ==
  \A p \in Part : \A k \in Piece(p) :
    Known(attempt[p][k]) /\ (poll.part = p => Held(poll.view[k], attempt[p][k]))

Advances(old, new) ==
  \/ new = old
  \/ AttemptRows!Begun(old, new) \/ AttemptRows!Answered(old, new)
  \/ AttemptRows!Resolved(old, new) \/ AttemptRows!GivenUp(old, new)
AllAdvance == \A p \in Part : \A k \in Piece(p) : Advances(attempt[p][k], attempt'[p][k])

LEMMA AnswerIs ==
  \A outcome \in Outcomes : Known(outcome) /\ AttemptRows!Answered(Submitting, outcome)
<1>. DEFINE R(status, id) == [status |-> status, id |-> id]
<1>1. \A outcome \in Outcomes :
        outcome \in {R("queued", TRUE), R("sent", FALSE), R("failed", FALSE), R("unknown", FALSE)}
  <2>1. CASE provider = "native"
    <3>1. (provider = "native") = TRUE
      BY <2>1
    <3>. QED BY <2>1, <3>1 DEF Outcomes
  <2>2. CASE provider # "native"
    <3>1. (provider = "native") = FALSE
      BY <2>2
    <3>. QED BY <2>2, <3>1 DEF Outcomes
  <2>. QED BY <2>1, <2>2
<1>. QED BY <1>1 DEF Known, AttemptRows!Answered, AttemptRows!Fresh, Submitting

(* Steps that leave the attempts alone, and keep or drop the poll.         *)
LEMMA QuietLife ==
  ASSUME LifeInv, UNCHANGED attempt, poll' = poll \/ poll' = NoPoll
  PROVE  LifeInv' /\ AllAdvance
<1>1. poll'.part # 0 => poll' = poll
  BY DEF NoPoll
<1>2. \A p \in Part : p # 0
  BY DEF Part
<1>3. LifeInv'
  BY <1>1, <1>2 DEF LifeInv
<1>. QED BY <1>3 DEF AllAdvance, Advances

LEMMA ClaimLife ==
  ASSUME Typed, CoreInv, LifeInv, NEW c \in Caller, Claim(c)
  PROVE  LifeInv' /\ AllAdvance
<1>0. JobType /\ RowType /\ PollType
  BY DEF Typed
<1>1. UNCHANGED poll
  BY ClaimIs
<1>2. CASE GivesUp(c)
  BY <1>1, <1>2, QuietLife DEF GivesUp
<1>3. CASE Claims(c)
  <2>. DEFINE p == job.cursor + 1
  <2>1. p \in Part /\ attempt' = [attempt EXCEPT ![p] = [k \in Piece(p) |-> Submitting]]
    BY <1>3 DEF Claims
  <2>2. p > job.cursor /\ poll.part # p
    BY <1>0, PartsOf DEF CoreInv, RunInv, JobType, Job, PollType
  <2>. HIDE DEF p
  <2>3. \A k \in Piece(p) : attempt'[p][k] = Submitting /\ attempt[p][k] = NoRow
    BY <1>0, <2>1, <2>2 DEF RowType, CoreInv, PieceInv
  <2>4. \A q \in Part : q # p => attempt'[q] = attempt[q]
    BY <1>0, <2>1 DEF RowType
  <2>5. Known(Submitting) /\ AttemptRows!Begun(NoRow, Submitting)
    BY DEF Known, Submitting, NoRow, AttemptRows!Begun, AttemptRows!Fresh, AttemptRows!Unwritten
  <2>6. LifeInv'
    BY <1>1, <2>2, <2>3, <2>4, <2>5 DEF LifeInv
  <2>7. AllAdvance
    BY <2>3, <2>4, <2>5 DEF AllAdvance, Advances
  <2>. QED BY <2>6, <2>7
<1>. QED BY <1>2, <1>3, ClaimIs

LEMMA SendLife ==
  ASSUME Typed, CoreInv, LifeInv, NEW c \in Caller, NEW outcome \in Outcomes,
         SendPiece(c, outcome)
  PROVE  LifeInv' /\ AllAdvance
<1>. SUFFICES ASSUME NEW p, NEW k, p = caller[c].part, k = Len(caller[c].own) + 1
              PROVE  LifeInv' /\ AllAdvance
  OBVIOUS
<1>1. /\ p \in Part /\ k \in Piece(p) /\ k \in Nat /\ caller[c].phase = "sending"
      /\ Len(caller[c].own) \in Nat /\ attempt'[p][k] = outcome
      /\ \A q \in Part : \A l \in Piece(q) : q # p \/ l # k => attempt'[q][l] = attempt[q][l]
      /\ UNCHANGED poll
  <2>1. Sends(c, outcome, p, k)
    BY SendIs
  <2>. QED BY <2>1 DEF Sends
<1>2. attempt[p][k] = Submitting /\ (poll.part = p => poll.view[k].status \in {"none", "submitting"})
  <2>1. Follows(c, k) /\ k > Len(caller[c].own)
    BY <1>1 DEF CoreInv, SendInv, Busy
  <2>. QED BY <2>1 DEF Follows, Waiting
<1>3. Known(outcome) /\ AttemptRows!Answered(attempt[p][k], attempt'[p][k])
  BY <1>1, <1>2, AnswerIs
<1>4. poll.part = p => Held(poll.view[k], attempt'[p][k])
  BY <1>2, <1>3 DEF Held, AttemptRows!Answered
<1>5. LifeInv'
  <2>. SUFFICES ASSUME NEW q \in Part, NEW l \in Piece(q)
                PROVE  Known(attempt'[q][l]) /\ (poll.part = q => Held(poll.view[l], attempt'[q][l]))
    BY <1>1 DEF LifeInv
  <2>1. CASE q = p /\ l = k
    BY <1>1, <1>3, <1>4, <2>1
  <2>2. CASE q # p \/ l # k
    BY <1>1, <2>2 DEF LifeInv
  <2>. QED BY <2>1, <2>2
<1>6. AllAdvance
  BY <1>1, <1>3 DEF AllAdvance, Advances
<1>. QED BY <1>5, <1>6

LEMMA PollLoadsLife ==
  ASSUME Typed, LifeInv, NEW p \in Part, PollLoads(p)
  PROVE  LifeInv' /\ AllAdvance
<1>1. /\ poll' = [part |-> p, view |-> [k \in Piece(p) |-> IF k \in Open(p) THEN attempt[p][k] ELSE NoRow]]
      /\ UNCHANGED attempt
  BY DEF PollLoads, rows
<1>2. poll'.part = p /\ \A k \in Piece(p) : poll'.view[k] = IF k \in Open(p) THEN attempt[p][k] ELSE NoRow
  BY <1>1
<1>3. ASSUME NEW k \in Piece(p) PROVE Held(poll'.view[k], attempt[p][k])
  <2>1. CASE k \in Open(p)
    <3>1. attempt[p][k].status \in PENDING \/ (attempt[p][k].status = "unknown" /\ attempt[p][k].id)
      BY <2>1 DEF Open
    <3>2. Known(attempt[p][k]) /\ poll'.view[k] = attempt[p][k]
      BY <1>2, <2>1 DEF LifeInv
    <3>. QED BY <3>1, <3>2 DEF Known, Held, PENDING
  <2>2. CASE k \notin Open(p)
    BY <1>2, <2>2 DEF Held, NoRow
  <2>. QED BY <2>1, <2>2
<1>4. LifeInv'
  BY <1>1, <1>2, <1>3 DEF LifeInv
<1>. QED BY <1>1, <1>4 DEF AllAdvance, Advances

LEMMA PollEndsLife ==
  ASSUME Typed, CoreInv, LifeInv, NEW p \in Part, NEW new, PollEnds(p, new)
  PROVE  LifeInv' /\ AllAdvance
<1>0. RowType
  BY DEF Typed
<1>1. Ends(p, new)
  BY PollEndsIs
<1>2. /\ poll.part = p /\ poll'.part = 0 /\ \A q \in Part \ {p} : attempt'[q] = attempt[q]
      /\ \A k \in Piece(p) : attempt'[p][k] \in Row
  BY <1>0, <1>1 DEF Ends, RowType, NoPoll
<1>3. ASSUME NEW k \in Piece(p)
      PROVE  Known(attempt'[p][k]) /\ Advances(attempt[p][k], attempt'[p][k])
  <2>. DEFINE old == attempt[p][k]
              row == attempt'[p][k]
  <2>1. Polled(p, new, k) /\ Known(old) /\ Held(poll.view[k], old)
    BY <1>1, <1>2, PollPiece DEF LifeInv
  <2>2. CASE k \notin Moved(p, new)
    BY <2>1, <2>2 DEF Polled, Advances
  <2>3. CASE k \in Moved(p, new)
    <3>1. row.id = old.id /\ row.status \in {"unknown", "sent", "failed"}
      BY <2>1, <2>3 DEF Polled
    <3>2. poll.view[k].status # "none"
      BY <2>1, <2>3 DEF Polled
    <3>3. old.status # "none" /\ (old.id => old.status \in {"queued", "unknown"})
      BY <2>1, <3>2 DEF Held
    <3>4. ~ old.id => row.status = "unknown"
      <4>1. poll.view[k].status \in {"submitting", "queued", "unknown"}
        BY <1>2, <3>2 DEF CoreInv, PollInv, Part
      <4>2. ~ old.id => poll.view[k].status = "submitting"
        BY <2>1, <4>1 DEF Held
      <4>3. row.status = new[k] /\ new[k] \in Looked(poll.view[k])
        BY <1>1, <2>1, <2>3 DEF Polled, Ends
      <4>4. poll.view[k].status = "submitting" => new[k] \in {"submitting", "unknown"}
        BY <4>3 DEF Looked
      <4>. QED BY <3>1, <4>2, <4>3, <4>4
    <3>5. row.id \in BOOLEAN
      BY <1>2 DEF Row
    <3>. HIDE DEF old, row
    <3>6. Known(row)
      BY <3>1 DEF Known
    <3>7. AttemptRows!Resolved(old, row) \/ AttemptRows!GivenUp(old, row)
      BY <3>1, <3>3, <3>4 DEF AttemptRows!Resolved, AttemptRows!GivenUp
    <3>8. Advances(old, row)
      BY <3>7 DEF Advances
    <3>. QED BY <3>6, <3>8 DEF old, row
  <2>. QED BY <2>2, <2>3
<1>4. LifeInv'
  <2>. SUFFICES ASSUME NEW q \in Part, NEW k \in Piece(q)
                PROVE  Known(attempt'[q][k])
    BY <1>2 DEF LifeInv, Part
  <2>. QED BY <1>2, <1>3 DEF LifeInv
<1>5. AllAdvance
  BY <1>2, <1>3 DEF AllAdvance, Advances
<1>. QED BY <1>4, <1>5

LEMMA LifeStep ==
  ASSUME Typed, CoreInv, LifeInv, [Next]_vars
  PROVE  LifeInv' /\ AllAdvance
<1>1. ASSUME NEW c \in Caller, TimerFires(c) \/ SendNow(c)
      PROVE  LifeInv' /\ AllAdvance
  BY <1>1, QuietLife DEF TimerFires, SendNow, Loads, rows
<1>2. ASSUME NEW c \in Caller, Claim(c)
      PROVE  LifeInv' /\ AllAdvance
  BY <1>2, ClaimLife
<1>3. ASSUME NEW c \in Caller, NEW outcome \in Outcomes, SendPiece(c, outcome)
      PROVE  LifeInv' /\ AllAdvance
  BY <1>3, SendLife
<1>4. ASSUME NEW c \in Caller, Close(c)
      PROVE  LifeInv' /\ AllAdvance
  BY <1>4, QuietLife DEF Close
<1>5. ASSUME NEW p \in Part, PollLoads(p)
      PROVE  LifeInv' /\ AllAdvance
  BY <1>5, PollLoadsLife
<1>6. ASSUME NEW p \in Part, NEW new \in News(p), PollEnds(p, new)
      PROVE  LifeInv' /\ AllAdvance
  BY <1>6, PollEndsLife
<1>7. CASE Pause \/ Cancel \/ Resume
  BY <1>7, QuietLife DEF Pause, Cancel, Stops, Resume
<1>8. CASE Restart
  BY <1>8, QuietLife DEF Restart
<1>9. ASSUME NEW kind \in Kinds, Edit(kind)
      PROVE  LifeInv' /\ AllAdvance
  BY <1>9, QuietLife DEF Edit
<1>10. CASE UNCHANGED vars
  BY <1>10, QuietLife DEF vars, rows
<1>. QED BY <1>1, <1>2, <1>3, <1>4, <1>5, <1>6, <1>7, <1>8, <1>9, <1>10 DEF Next, Runs

LEMMA PieceNames ==
  \A n \in PieceName : n[1] \in Part /\ n[2] \in Piece(n[1])
BY DEF PieceName

(* The rows of the pieces, with the runs that send them, a poll that may   *)
(* have loaded them long before and restarts between two pieces, implement *)
(* the abstract attempts: no piece is submitted again, an id stays, and an *)
(* outcome that was asked for is final (submit_series, poll_deliveries).   *)
THEOREM ImplementsAttempts == Spec => AttemptsSpec
<1>. DEFINE row == [n \in PieceName |-> attempt[n[1]][n[2]]]
<1>1. Init => Typed /\ CoreInv /\ LifeInv
  <2>1. Init => attempt = NoRows /\ poll = NoPoll
    BY DEF Init
  <2>2. attempt = NoRows /\ poll = NoPoll => LifeInv
    BY DEF NoRows, NoPoll, LifeInv, Known, NoRow, Part
  <2>. QED BY <2>1, <2>2, InitType, InitCore
<1>2. Typed /\ CoreInv /\ LifeInv /\ [Next]_vars => Typed' /\ CoreInv' /\ LifeInv'
  BY NextType, CoreStep, LifeStep
<1>3. Init => AttemptRows!Init
  <2>. SUFFICES ASSUME attempt = NoRows PROVE AttemptRows!Init
    BY DEF Init
  <2>1. \A n \in PieceName : attempt[n[1]][n[2]] = AttemptRows!Unwritten
    BY PieceNames DEF NoRows, NoRow, AttemptRows!Unwritten
  <2>. QED BY <2>1 DEF AttemptRows!Init
<1>4. Typed /\ Typed' /\ CoreInv /\ LifeInv /\ [Next]_vars => AttemptRows!Next
  <2>. SUFFICES ASSUME Typed, Typed', CoreInv, LifeInv, [Next]_vars PROVE AttemptRows!Next
    OBVIOUS
  <2>1. \A n \in PieceName : row'[n] \in AttemptRows!Row
    BY PieceNames DEF Typed, RowType, Row, AttemptRows!Row
  <2>2. \A n \in PieceName : Advances(row[n], row'[n])
    BY LifeStep, PieceNames DEF AllAdvance
  <2>3. row' \in [PieceName -> AttemptRows!Row]
    BY <2>1
  <2>. QED BY <2>2, <2>3 DEF AttemptRows!Next, Advances
<1>. QED BY <1>1, <1>2, <1>3, <1>4, PTL DEF Spec, AttemptsSpec, AttemptRows!Spec
=============================================================================

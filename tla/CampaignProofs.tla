--------------------------- MODULE CampaignProofs ---------------------------
(***************************************************************************)
(* Proofs about Campaign.tla, for any number of coroutines, recipients,    *)
(* ticks, retries, words and restarts: type correctness, that a stop taken *)
(* between two runs holds, that no word is passed over, that nobody who    *)
(* acknowledged a message is sent it again, that a completed one-time job  *)
(* reached everyone, and that neither a scheduled job nor the retry of a   *)
(* one-time job is forgotten.                                              *)
(***************************************************************************)
EXTENDS Campaign, FiniteSetTheorems, TLAPS

Timers == SUBSET (Time \cup {Anytime})

-----------------------------------------------------------------------------
(* Types of the operators *)

LEMMA RowType == ASSUME NEW j \in Job
  PROVE  /\ j.status \in Status /\ j.kind \in {"now", "date", "dates", "cron", "trigger"}
         /\ j.dates \subseteq Time /\ j.skip \in 0..MaxSkips /\ j.retries \in 0..MaxRetries
         /\ j.retryAt \in BOOLEAN /\ j.groups \subseteq Recipients
         /\ j.words \in {"none", "repeat", "stop"} /\ j.pos \in 0..WordTotal
BY DEF Job

LEMMA FreshType ==
  ASSUME NEW kind \in {"now", "date", "dates", "cron", "trigger"}, NEW dates \in SUBSET Time,
         NEW words \in {"none", "repeat", "stop"}
  PROVE  Fresh(kind, dates, words) \in Job
BY CampaignAssumption DEF Fresh, Job, Status

LEMMA ReplannedType ==
  ASSUME NEW now \in Time, NEW plan \in Plans(Edited, now), NEW shown \in 0..WordTotal
  PROVE  /\ Replanned(plan, shown) \in Job
         /\ Replanned(plan, shown).status = Planned(plan).status
<1>1. /\ plan.as[1] \in {"now", "date", "dates", "cron", "trigger"} /\ plan.dates \in SUBSET Time
      /\ plan.as[2] \in {"none", "repeat", "stop"}
  BY CampaignAssumption DEF Plans
<1>2. Planned(plan) \in Job
  BY <1>1, FreshType DEF Planned
<1>3. Position(plan.as[2], shown) \in 0..WordTotal
  BY CampaignAssumption DEF Position
<1>. QED BY <1>2, <1>3 DEF Replanned, Job

LEMMA BuildTriggerType ==
  ASSUME NEW j \in Job, NEW now \in Time
  PROVE  BuildTrigger(j, now) \in Timers
<1>1. j.dates \subseteq Time
  BY RowType
<1>2. RemainingDates(j, now - Grace) \subseteq Time
  BY <1>1 DEF RemainingDates
<1>3. {IF d < now THEN now ELSE d : d \in {e \in j.dates : e >= now - Grace}} \subseteq Time
  BY <1>1
<1>. QED BY <1>2, <1>3 DEF BuildTrigger, Timers

LEMMA RegisteredType ==
  ASSUME NEW j \in Job, NEW due \in Timers, NEW retry \in BOOLEAN, NEW now \in Time
  PROVE  LET done == Registered(j, due, retry, now)
         IN /\ done.job \in Job /\ done.timer \in Timers
            /\ done.retry \in BOOLEAN /\ done.raised \in BOOLEAN
<1>1. \A s \in Status : [j EXCEPT !.status = s] \in Job
  BY DEF Job
<1>2. j.status \in Status /\ {"active", "completed"} \subseteq Status
  BY RowType DEF Status
<1>3. [j EXCEPT !.status = IF @ = "retry_scheduled" THEN @ ELSE "completed"] \in Job
  BY <1>1, <1>2
<1>4. [j EXCEPT !.status = IF j.kind = "trigger" THEN @ ELSE "active"] \in Job
  BY <1>1, <1>2
<1>5. {} \in Timers /\ BuildTrigger(j, now) \in Timers
  BY BuildTriggerType DEF Timers
<1>. QED BY <1>3, <1>4, <1>5 DEF Registered

(* A commit leaves every column as it is in the row or as the run set it.  *)
LEMMA Committed ==
  ASSUME job \in Job, NEW view \in Job, NEW new \in Job, NEW always, Commit(view, new, always)
  PROVE  /\ job' \in Job
         /\ job'.status = job.status \/ (job'.status = new.status /\ new.status # view.status)
                                     \/ (job'.status = new.status /\ "status" \in always)
         /\ job'.pos = job.pos \/ job'.pos = new.pos
         /\ job'.words = job.words \/ job'.words = new.words
<1>1. CASE job.status = "deleted"
  BY <1>1 DEF Commit
<1>2. CASE job.status # "deleted"
  <2>1. DOMAIN job = {"status", "kind", "dates", "skip", "retries", "retryAt", "groups", "words", "pos"}
    BY DEF Job
  <2>2. job' = [f \in DOMAIN job |-> IF new[f] # view[f] \/ f \in always THEN new[f] ELSE job[f]]
    BY <1>2 DEF Commit
  <2>3. job' = [status |-> job'.status, kind |-> job'.kind, dates |-> job'.dates, skip |-> job'.skip,
                retries |-> job'.retries, retryAt |-> job'.retryAt, groups |-> job'.groups,
                words |-> job'.words, pos |-> job'.pos]
    BY <2>1, <2>2
  <2>4. \A f \in DOMAIN job : job'[f] = job[f] \/ job'[f] = new[f]
    BY <2>2
  <2>5. /\ job'.status \in Status /\ job'.kind \in {"now", "date", "dates", "cron", "trigger"}
        /\ job'.dates \in SUBSET Time /\ job'.skip \in 0..MaxSkips /\ job'.retries \in 0..MaxRetries
        /\ job'.retryAt \in BOOLEAN /\ job'.groups \in SUBSET Recipients
        /\ job'.words \in {"none", "repeat", "stop"} /\ job'.pos \in 0..WordTotal
    BY <2>1, <2>4, RowType
  <2>6. job' \in Job
    BY <2>3, <2>5 DEF Job
  <2>. QED BY <2>1, <2>2, <2>4, <2>6
<1>. QED BY <1>1, <1>2

LEMMA SkippedRowType ==
  ASSUME NEW v \in Job, v.skip > 0, NEW now \in Time
  PROVE  /\ SkippedRow(v, now) \in Job
         /\ SkippedRow(v, now).pos = v.pos /\ SkippedRow(v, now).words = v.words
         /\ SkippedRow(v, now).status \in {v.status, "completed"}
<1>1. v.skip - 1 \in 0..MaxSkips /\ 0 \in 0..MaxSkips
  BY CampaignAssumption DEF Job
<1>2. "completed" \in Status
  BY DEF Status
<1>. QED BY <1>1, <1>2 DEF SkippedRow, Job

(* The step of the next message, and where the list stands after it.       *)
LEMMA NextWord ==
  ASSUME NEW p \in 0..(WordTotal - 1)
  PROVE  (p + 1) % WordTotal = IF p + 1 = WordTotal THEN 0 ELSE p + 1
<1>1. WordTotal \in Nat /\ WordTotal > 0
  BY CampaignAssumption
<1>. QED BY <1>1

LEMMA AdvanceType ==
  ASSUME NEW j \in Job, ~WordsFinished(j), j.words = "repeat" => j.pos < WordTotal
  PROVE  /\ Advance(j) \in 0..WordTotal
         /\ j.words = "repeat" => Advance(j) < WordTotal
         /\ j.words # "none" => \A n \in 0..(Advance(j) - 1) : n < j.pos \/ n = j.pos
<1>1. /\ WordTotal \in Nat /\ WordTotal > 0
      /\ j.pos \in 0..WordTotal /\ j.words \in {"none", "repeat", "stop"}
  BY CampaignAssumption, RowType
<1>2. CASE j.words = "none"
  BY <1>1, <1>2 DEF Advance
<1>3. CASE j.words = "stop"
  BY <1>1, <1>3 DEF Advance, WordsFinished
<1>4. CASE j.words = "repeat"
  <2>1. j.pos \in 0..(WordTotal - 1)
    BY <1>1, <1>4
  <2>2. Advance(j) = IF j.pos + 1 = WordTotal THEN 0 ELSE j.pos + 1
    BY <1>4, <2>1, NextWord DEF Advance
  <2>. QED BY <1>1, <1>4, <2>1, <2>2
<1>. QED BY <1>1, <1>2, <1>3, <1>4

LEMMA AdvanceInRange ==
  ASSUME NEW j \in Job, ~WordsFinished(j)
  PROVE  Advance(j) \in 0..WordTotal
<1>1. /\ WordTotal \in Nat /\ WordTotal > 0
      /\ j.pos \in 0..WordTotal /\ j.words \in {"none", "repeat", "stop"}
  BY CampaignAssumption, RowType
<1>2. (j.pos + 1) % WordTotal \in 0..(WordTotal - 1)
  BY <1>1
<1>. QED BY <1>1, <1>2 DEF Advance, WordsFinished

LEMMA StepType ==
  ASSUME NEW j \in Job, NEW retry \in BOOLEAN
  PROVE  Step(j, retry) \in 0..WordTotal
<1>1. WordTotal \in Nat /\ WordTotal > 0 /\ j.pos \in 0..WordTotal
  BY CampaignAssumption, RowType
<1>2. (j.pos + WordTotal - 1) % WordTotal \in 0..(WordTotal - 1)
  BY <1>1
<1>. QED BY <1>1, <1>2 DEF Step

(* The row a run commits, in whichever way it ends.                        *)
Results(j) == {"active", "trigger", "completed", "failed", "retry_scheduled", j.status}

LEMMA SentType ==
  ASSUME NEW j \in Job, NEW now \in Time
  PROVE  /\ Sent(j, now) \in Job /\ Sent(j, now).pos = j.pos /\ Sent(j, now).words = j.words
         /\ Sent(j, now).status \in Results(j)
<1>1. SentStatus(j, now) \in {"active", "trigger", "completed"}
  BY DEF SentStatus
<1>2. {"active", "trigger", "completed"} \subseteq Status /\ 0 \in 0..MaxRetries
  BY CampaignAssumption DEF Status
<1>. QED BY <1>1, <1>2 DEF Sent, Job, Results

LEMMA RetriedType ==
  ASSUME NEW j \in Job, NEW failed \in SUBSET Recipients, NEW now \in Time
  PROVE  /\ Retried(j, failed, now) \in Job
         /\ Retried(j, failed, now).pos = j.pos /\ Retried(j, failed, now).words = j.words
         /\ Retried(j, failed, now).status \in Results(j)
<1>1. {"failed", "retry_scheduled"} \subseteq Status
  BY DEF Status
<1>2. CASE Exhausted(j)
  BY <1>1, <1>2 DEF Retried, GivenUp, Job, Results
<1>3. CASE ~Exhausted(j)
  <2>1. j.retries + 1 \in 0..MaxRetries
    BY <1>3, RowType, CampaignAssumption DEF Exhausted
  <2>. QED BY <1>1, <1>3, <2>1 DEF Retried, Job, Results
<1>. QED BY <1>2, <1>3

LEMMA FilledType ==
  ASSUME TypeOK, NEW c \in Caller, Sends(c)
  PROVE  /\ Filled(c) \in Job /\ Filled(c).words = caller[c].view.words
         /\ Filled(c).status = caller[c].view.status
         /\ Filled(c).pos = IF caller[c].by = "retry" THEN caller[c].view.pos ELSE Advance(caller[c].view)
<1>1. caller[c].view \in Job
  BY DEF TypeOK, Coroutine
<1>2. CASE caller[c].by = "retry"
  BY <1>1, <1>2 DEF Filled
<1>3. CASE caller[c].by # "retry"
  <2>1. Advance(caller[c].view) \in 0..WordTotal
    BY <1>1, <1>3, AdvanceInRange DEF Sends, WordsDone
  <2>. QED BY <1>1, <1>3, <2>1 DEF Filled, Job
<1>. QED BY <1>2, <1>3

(* The row a run commits after its sends.                                  *)
Answered(c, ok) ==
  LET failed == Targets(c) \ ok
  IN IF failed = {} THEN Sent(Filled(c), clock) ELSE Retried(Filled(c), failed, clock)

LEMMA AnsweredType ==
  ASSUME TypeOK, NEW c \in Caller, NEW ok, Sends(c)
  PROVE  /\ Answered(c, ok) \in Job
         /\ Answered(c, ok).words = caller[c].view.words
         /\ Answered(c, ok).pos = Filled(c).pos
         /\ Answered(c, ok).status \in Results(caller[c].view)
<1>1. /\ caller[c].view \in Job /\ Filled(c) \in Job
      /\ Filled(c).words = caller[c].view.words /\ Filled(c).status = caller[c].view.status
  BY FilledType DEF TypeOK, Coroutine
<1>2. Targets(c) \subseteq Recipients
  BY <1>1, RowType DEF Targets
<1>3. clock \in Time /\ Results(Filled(c)) = Results(caller[c].view)
  BY <1>1 DEF TypeOK, Results
<1>4. /\ Sent(Filled(c), clock) \in Job /\ Sent(Filled(c), clock).pos = Filled(c).pos
      /\ Sent(Filled(c), clock).words = Filled(c).words
      /\ Sent(Filled(c), clock).status \in Results(Filled(c))
  BY <1>1, <1>3, SentType
<1>5. /\ Retried(Filled(c), Targets(c) \ ok, clock) \in Job
      /\ Retried(Filled(c), Targets(c) \ ok, clock).pos = Filled(c).pos
      /\ Retried(Filled(c), Targets(c) \ ok, clock).words = Filled(c).words
      /\ Retried(Filled(c), Targets(c) \ ok, clock).status \in Results(Filled(c))
  <2>1. Targets(c) \ ok \in SUBSET Recipients
    BY <1>2
  <2>. QED BY <1>1, <1>3, <2>1, RetriedType
<1>. QED BY <1>1, <1>3, <1>4, <1>5 DEF Answered

LEMMA LoadedType ==
  ASSUME job \in Job, NEW now \in Time
  PROVE  /\ Loaded(now).job \in Job /\ Loaded(now).timer \in Timers /\ Loaded(now).retry \in BOOLEAN
<1>1. {} \in Timers /\ [job EXCEPT !.status = "failed"] \in Job
  BY DEF Timers, Job, Status
<1>2. LET done == Registered(job, {}, FALSE, now)
      IN done.job \in Job /\ done.timer \in Timers /\ done.raised \in BOOLEAN
  BY <1>1, RegisteredType
<1>3. \A row \in Job : RetryDue(row) \in BOOLEAN
  BY DEF RetryDue, Job
<1>. QED BY <1>1, <1>2, <1>3 DEF Loaded

-----------------------------------------------------------------------------
(* Type correctness *)

LEMMA InitType == Init => TypeOK
<1>. SUFFICES ASSUME Init PROVE TypeOK
  OBVIOUS
<1>1. PICK plan \in Plans(Created, 0) :
        LET done == Registered(Planned(plan), {}, FALSE, 0)
        IN job = done.job /\ timer = done.timer
  BY DEF Init
<1>2. /\ plan.as \in Created /\ plan.dates \in SUBSET Time
  BY DEF Plans
<1>3. Planned(plan) \in Job
  BY <1>2, FreshType, CampaignAssumption DEF Planned
<1>4. 0 \in Time /\ {} \in Timers
  BY CampaignAssumption DEF Time, Timers
<1>5. job \in Job /\ timer \in Timers
  BY <1>1, <1>3, <1>4, RegisteredType
<1>6. Asleep \in Coroutine
  BY FreshType DEF Asleep, Coroutine
<1>. QED BY <1>4, <1>5, <1>6 DEF Init, TypeOK, Timers

(* What the actions share: a coroutine that starts, ends or has loaded.    *)
LEMMA CallerType ==
  ASSUME TypeOK, NEW c \in Caller
  PROVE  /\ caller[c].view \in Job /\ caller[c].by \in {"timer", "retry", "user"}
         /\ \A by \in {"timer", "retry", "user"} : Calls(c, by) => caller' \in [Caller -> Coroutine]
         /\ Ends(c) => caller' \in [Caller -> Coroutine]
         /\ Begin(c) => caller' \in [Caller -> Coroutine]
<1>1. Asleep \in Coroutine /\ Asleep.view \in Job
  BY FreshType DEF Asleep, Coroutine
<1>2. \A by \in {"timer", "retry", "user"} : [Asleep EXCEPT !.phase = "called", !.by = by] \in Coroutine
  BY <1>1 DEF Asleep, Coroutine
<1>3. caller[c] \in Coroutine /\ job \in Job
  BY DEF TypeOK
<1>4. [caller[c] EXCEPT !.phase = "loaded", !.view = job] \in Coroutine
  BY <1>3 DEF Coroutine
<1>5. caller[c].view \in Job /\ caller[c].by \in {"timer", "retry", "user"}
  BY <1>3 DEF Coroutine
<1>. QED BY <1>1, <1>2, <1>4, <1>5 DEF Calls, Ends, Begin, TypeOK

LEMMA DeliverType ==
  ASSUME TypeOK, NEW c \in Caller, NEW ok \in SUBSET Recipients, Deliver(c, ok)
  PROVE  TypeOK'
<1>1. Sends(c) /\ caller[c].view \in Job /\ Answered(c, ok) \in Job
  BY AnsweredType, CallerType DEF Deliver
<1>2. \E always : Commit(caller[c].view, Answered(c, ok), always)
  BY DEF Deliver, Answered
<1>3. job' \in Job
  BY <1>1, <1>2, Committed DEF TypeOK
<1>4. caller' \in [Caller -> Coroutine]
  BY CallerType DEF Deliver
<1>5. Step(caller[c].view, caller[c].by = "retry") \in 0..WordTotal
  BY <1>1, StepType
<1>6. used' \subseteq 0..WordTotal
  BY <1>5 DEF Deliver, TypeOK
<1>7. got' \in [Recipients -> Nat] /\ firsts' \in Nat
  BY DEF Deliver, First, TypeOK
<1>8. retryTimer' \in BOOLEAN /\ timer' \in Timers
  BY DEF Deliver, TypeOK, Exhausted, Timers
<1>. QED BY <1>3, <1>4, <1>6, <1>7, <1>8 DEF Deliver, TypeOK, budget, Timers

LEMMA SkipRunType ==
  ASSUME TypeOK, NEW c \in Caller, SkipRun(c)
  PROVE  TypeOK'
<1>1. caller[c].view \in Job /\ caller[c].view.skip > 0 /\ clock \in Time
  BY CallerType DEF SkipRun, Skips, TypeOK
<1>2. SkippedRow(caller[c].view, clock) \in Job
  BY <1>1, SkippedRowType
<1>3. job' \in Job
  BY <1>1, <1>2, Committed DEF SkipRun, TypeOK
<1>4. caller' \in [Caller -> Coroutine]
  BY CallerType DEF SkipRun
<1>. QED BY <1>3, <1>4 DEF SkipRun, TypeOK, budget

LEMMA WordsRunOutType ==
  ASSUME TypeOK, NEW c \in Caller, WordsRunOut(c)
  PROVE  TypeOK'
<1>. DEFINE v == caller[c].view
<1>1. v \in Job
  BY CallerType
<1>2. [v EXCEPT !.status = IF @ \in {"active", "trigger"} THEN "completed" ELSE @] \in Job
  BY <1>1 DEF Job, Status
<1>3. job' \in Job
  BY <1>1, <1>2, Committed DEF WordsRunOut, TypeOK
<1>4. caller' \in [Caller -> Coroutine]
  BY CallerType DEF WordsRunOut
<1>. QED BY <1>3, <1>4 DEF WordsRunOut, TypeOK, budget, ghosts

LEMMA RunsType ==
  ASSUME TypeOK, NEW c \in Caller, Runs(c)
  PROVE  TypeOK'
<1>1. CASE Begin(c)
  BY <1>1, CallerType DEF Begin, TypeOK, ghosts, budget
<1>2. CASE NoRecipients(c)
  BY <1>2, CallerType DEF NoRecipients, TypeOK, ghosts, budget
<1>. QED BY <1>1, <1>2, DeliverType, SkipRunType, WordsRunOutType DEF Runs

LEMMA SendNowType ==
  ASSUME TypeOK, NEW c \in Caller, SendNow(c)
  PROVE  TypeOK'
<1>1. caller' \in [Caller -> Coroutine]
  BY CallerType DEF SendNow
<1>2. [job EXCEPT !.retries = 0, !.retryAt = FALSE, !.groups = {}] \in Job
  <2>1. 0 \in 0..MaxRetries /\ {} \in SUBSET Recipients /\ job \in Job
    BY CampaignAssumption DEF TypeOK
  <2>. QED BY <2>1 DEF Job
<1>. QED BY <1>1, <1>2 DEF SendNow, RemoveJob, TypeOK, ghosts, budget

LEMMA ResumeType ==
  ASSUME TypeOK, Resume
  PROVE  TypeOK'
<1>1. \A s \in Status : [job EXCEPT !.status = s] \in Job
  BY DEF TypeOK, Job
<1>2. {"retry_scheduled", "trigger", "active"} \subseteq Status
  BY DEF Status
<1>3. timer \in Timers /\ retryTimer \in BOOLEAN /\ clock \in Time /\ RetryDue(job) \in BOOLEAN
  BY DEF TypeOK, Timers, RetryDue, Job
<1>4. CASE job.retryAt /\ IsLastRun(job, clock)
  BY <1>1, <1>2, <1>3, <1>4 DEF Resume, TypeOK, ghosts, budget
<1>5. CASE ~(job.retryAt /\ IsLastRun(job, clock))
  <2>. DEFINE j == [job EXCEPT !.status = IF job.kind = "trigger" THEN "trigger" ELSE "active"]
              done == Registered(j, timer, retryTimer, clock)
  <2>1. j \in Job
    BY <1>1, <1>2
  <2>. HIDE DEF j
  <2>2. done.job \in Job /\ done.timer \in Timers /\ done.retry \in BOOLEAN
    BY <1>3, <2>1, RegisteredType
  <2>3. \/ UNCHANGED <<job, timer, retryTimer>>
        \/ job' = done.job /\ timer' = done.timer /\ retryTimer' = (done.retry \/ RetryDue(job))
    BY <1>5 DEF Resume, j
  <2>. QED BY <1>3, <2>2, <2>3 DEF Resume, TypeOK, ghosts, budget, Timers
<1>. QED BY <1>4, <1>5

LEMMA EditType ==
  ASSUME TypeOK, NEW plan \in Plans(Edited, clock), NEW shown \in 0..WordTotal, Edit(plan, shown)
  PROVE  TypeOK'
<1>1. Replanned(plan, shown) \in Job
  BY ReplannedType DEF TypeOK
<1>2. {} \in Timers /\ clock \in Time
  BY DEF Timers, TypeOK
<1>3. LET done == Registered(Replanned(plan, shown), {}, FALSE, clock) IN done.job \in Job /\ done.timer \in Timers
  BY <1>1, <1>2, RegisteredType
<1>4. /\ job' \in Job /\ timer' \in Timers /\ retryTimer' = FALSE
  BY <1>2, <1>3 DEF Edit, TypeOK
<1>5. edits' \in Nat
  BY DEF Edit, TypeOK
<1>6. UNCHANGED <<clock, caller, got, firsts, used, late, skipped, asks, crashes>>
  BY DEF Edit, ghosts
<1>. QED BY <1>4, <1>5, <1>6 DEF TypeOK, Timers

LEMMA RestartType ==
  ASSUME TypeOK, Restart
  PROVE  TypeOK'
<1>1. PICK reached \in [Cut -> SUBSET Recipients] :
        got' = [r \in Recipients |-> got[r] + Cardinality({c \in Cut : r \in reached[c]})]
  BY DEF Restart
<1>2. \A S \in SUBSET Caller : Cardinality(S) \in Nat
  BY FS_Subset, FS_CardinalityType, CampaignAssumption
<1>3. got' \in [Recipients -> Nat]
  <2>1. \A r \in Recipients : {c \in Cut : r \in reached[c]} \in SUBSET Caller
    BY DEF Cut
  <2>. QED BY <1>1, <1>2, <2>1 DEF TypeOK
<1>4. firsts' \in Nat
  <2>1. {c \in Cut : caller[c].by # "retry"} \in SUBSET Caller
    BY DEF Cut
  <2>. QED BY <1>2, <2>1 DEF Restart, TypeOK
<1>5. used' \subseteq 0..WordTotal
  <2>1. \A c \in Cut : Step(caller[c].view, caller[c].by = "retry") \in 0..WordTotal
    BY CallerType, StepType DEF Cut
  <2>. QED BY <2>1 DEF Restart, TypeOK
<1>6. PICK now \in clock..MaxTime : /\ clock' = now /\ job' = Loaded(now).job
                                    /\ timer' = Loaded(now).timer /\ retryTimer' = Loaded(now).retry
  BY DEF Restart
<1>7. now \in Time /\ job \in Job
  BY CampaignAssumption DEF TypeOK, Time
<1>8. job' \in Job /\ timer' \in Timers /\ retryTimer' \in BOOLEAN
  BY <1>6, <1>7, LoadedType
<1>9. caller' \in [Caller -> Coroutine]
  BY FreshType DEF Restart, Asleep, Coroutine
<1>10. /\ crashes' = crashes + 1 /\ late' = FALSE /\ UNCHANGED <<skipped, asks, edits>>
  BY DEF Restart
<1>11. clock' \in Time
  BY <1>6, <1>7
<1>12. crashes' \in Nat /\ asks' \in Nat /\ edits' \in Nat
  BY <1>10 DEF TypeOK
<1>13. late' \in BOOLEAN /\ skipped' \in BOOLEAN
  BY <1>10 DEF TypeOK
<1>. QED BY <1>3, <1>4, <1>5, <1>8, <1>9, <1>11, <1>12, <1>13 DEF TypeOK, Timers

LEMMA NextType == TypeOK /\ [Next]_vars => TypeOK'
<1>. SUFFICES ASSUME TypeOK, [Next]_vars PROVE TypeOK'
  OBVIOUS
<1>1. CASE Fire
  BY <1>1, CallerType DEF Fire, TypeOK, ghosts, budget
<1>2. CASE FireRetry
  BY <1>2, CallerType DEF FireRetry, TypeOK, ghosts, budget
<1>3. CASE Tick
  BY <1>3, CampaignAssumption DEF Tick, TypeOK, Time, ghosts, budget
<1>4. CASE Pause \/ Cancel \/ Delete
  <2>1. \A s \in Status : [job EXCEPT !.status = s] \in Job
    BY DEF TypeOK, Job
  <2>2. PICK to \in {"paused", "cancelled", "deleted"} : \E from : Stops(from, to)
    BY <1>4 DEF Pause, Cancel, Delete
  <2>3. to \in Status /\ Quiet \in BOOLEAN
    BY DEF Status, Quiet
  <2>4. job' = [job EXCEPT !.status = to]
    BY <2>2 DEF Stops
  <2>5. /\ timer' = {} /\ retryTimer' = FALSE /\ late' = ~Quiet /\ asks' = asks + 1
        /\ UNCHANGED <<clock, caller, got, firsts, used, skipped, edits, crashes>>
    BY <2>2 DEF Stops, RemoveJob
  <2>6. job' \in Job
    BY <2>1, <2>3, <2>4
  <2>7. asks' \in Nat
    BY <2>5 DEF TypeOK
  <2>8. timer' \subseteq Time \cup {Anytime} /\ retryTimer' \in BOOLEAN /\ late' \in BOOLEAN
    BY <2>3, <2>5
  <2>. QED BY <2>5, <2>6, <2>7, <2>8 DEF TypeOK
<1>5. CASE Skip
  <2>1. [job EXCEPT !.skip = @ + 1] \in Job
    BY <1>5, CampaignAssumption DEF Skip, TypeOK, Job
  <2>. QED BY <1>5, <2>1 DEF Skip, TypeOK, ghosts
<1>6. CASE SkipClear
  <2>1. [job EXCEPT !.skip = 0] \in Job
    BY CampaignAssumption DEF TypeOK, Job
  <2>. QED BY <1>6, <2>1 DEF SkipClear, TypeOK, ghosts, budget
<1>7. CASE UNCHANGED vars
  BY <1>7 DEF vars, TypeOK, ghosts, budget
<1>. QED BY <1>1, <1>2, <1>3, <1>4, <1>5, <1>6, <1>7, ResumeType, EditType, RestartType, RunsType,
            SendNowType DEF Next

(* Every reachable state is well typed, whatever the constants.            *)
THEOREM TypeCorrect == Spec => []TypeOK
BY InitType, NextType, PTL DEF Spec

-----------------------------------------------------------------------------
(* A stop between two runs holds. What a run writes is never a stop, so    *)
(* the row of a job that was not stopped does not become stopped by it.    *)

Stopped == {"paused", "cancelled", "deleted"}

LEMMA ResultsNotStops == \A j \in Job : \A s \in Results(j) : s \in Stopped => s = j.status
BY DEF Results, Stopped

LEMMA RunNeverStops ==
  ASSUME TypeOK, NEW c \in Caller, Runs(c), job'.status \in Stopped
  PROVE  job.status \in Stopped
<1>1. caller[c].view \in Job /\ job \in Job /\ clock \in Time
  BY CallerType DEF TypeOK
<1>2. CASE Begin(c) \/ NoRecipients(c)
  BY <1>2 DEF Begin, NoRecipients
<1>3. CASE SkipRun(c)
  <2>1. /\ SkippedRow(caller[c].view, clock) \in Job
        /\ SkippedRow(caller[c].view, clock).status \in {caller[c].view.status, "completed"}
    BY <1>1, <1>3, SkippedRowType DEF SkipRun, Skips
  <2>. QED BY <1>1, <1>3, <2>1, Committed DEF SkipRun, Stopped
<1>4. CASE WordsRunOut(c)
  <2>. DEFINE v == caller[c].view
              new == [v EXCEPT !.status = IF @ \in {"active", "trigger"} THEN "completed" ELSE @]
  <2>1. new \in Job /\ new.status \in {v.status, "completed"}
    BY <1>1 DEF Job, Status
  <2>2. Commit(v, new, {})
    BY <1>4 DEF WordsRunOut
  <2>. HIDE DEF new
  <2>. QED BY <1>1, <2>1, <2>2, Committed DEF Stopped
<1>5. ASSUME NEW ok \in SUBSET Recipients, Deliver(c, ok) PROVE job.status \in Stopped
  <2>1. Answered(c, ok) \in Job /\ Answered(c, ok).status \in Results(caller[c].view)
    BY <1>5, AnsweredType DEF Deliver
  <2>2. PICK always \in {{}, {"retryAt"}} : Commit(caller[c].view, Answered(c, ok), always)
    BY <1>5 DEF Deliver, Answered
  <2>. QED BY <1>1, <2>1, <2>2, Committed, ResultsNotStops DEF Stopped
<1>. QED BY <1>2, <1>3, <1>4, <1>5 DEF Runs

LEMMA RegisteredStatus ==
  ASSUME NEW j \in Job, j.status \notin Stopped, NEW due, NEW retry, NEW now
  PROVE  Registered(j, due, retry, now).job.status \notin Stopped
BY DEF Registered, Stopped, Job

LEMMA InitStop == Init => StopHolds
<1>. SUFFICES ASSUME Init PROVE job.status \notin Stopped
  BY DEF StopHolds, Stopped
<1>1. PICK plan \in Plans(Created, 0) : job = Registered(Planned(plan), {}, FALSE, 0).job
  BY DEF Init
<1>2. Planned(plan) \in Job /\ Planned(plan).status \notin Stopped
  BY FreshType, CampaignAssumption DEF Plans, Planned, Fresh, Stopped
<1>. QED BY <1>1, <1>2, RegisteredStatus

LEMMA NextStop == TypeOK /\ StopHolds /\ [Next]_vars => StopHolds'
<1>. SUFFICES ASSUME TypeOK, StopHolds, [Next]_vars, job'.status \in Stopped, ~late'
              PROVE  Quiet' /\ timer' = {} /\ ~retryTimer'
  BY DEF StopHolds, Stopped
<1>0. job.status \in Stopped /\ ~late => Quiet /\ timer = {} /\ ~retryTimer
  BY DEF StopHolds, Stopped
<1>1. CASE Fire \/ FireRetry \/ Tick
  BY <1>0, <1>1 DEF Fire, FireRetry, Tick, Due, Quiet, ghosts
<1>2. CASE Pause \/ Cancel \/ Delete
  <2>1. PICK from, to : Stops(from, to)
    BY <1>2 DEF Pause, Cancel, Delete
  <2>. QED BY <2>1 DEF Stops, RemoveJob, Quiet
<1>3. CASE Resume
  <2>1. \A s \in Status : [job EXCEPT !.status = s] \in Job /\ [job EXCEPT !.status = s].status = s
    BY DEF TypeOK, Job
  <2>2. {"retry_scheduled", "trigger", "active"} \subseteq Status
    BY DEF Status
  <2>3. CASE job' = job
    BY <1>0, <1>3, <2>3, <2>1, <2>2, RegisteredStatus DEF Resume, ghosts, Quiet, Stopped, Registered
  <2>4. CASE job' # job
    <3>. DEFINE j == [job EXCEPT !.status = IF job.kind = "trigger" THEN "trigger" ELSE "active"]
    <3>1. j \in Job /\ j.status \notin Stopped
      BY <2>1, <2>2 DEF Stopped
    <3>. HIDE DEF j
    <3>2. \/ job' = [job EXCEPT !.status = "retry_scheduled"]
          \/ job' = Registered(j, timer, retryTimer, clock).job
      BY <1>3, <2>4 DEF Resume, j
    <3>3. "retry_scheduled" \notin Stopped /\ [job EXCEPT !.status = "retry_scheduled"].status = "retry_scheduled"
      BY <2>1, <2>2 DEF Stopped
    <3>4. Registered(j, timer, retryTimer, clock).job.status \notin Stopped
      BY <3>1, RegisteredStatus
    <3>. QED BY <3>2, <3>3, <3>4
  <2>. QED BY <2>3, <2>4
<1>4. CASE Skip \/ SkipClear
  BY <1>0, <1>4 DEF Skip, SkipClear, ghosts, Quiet, TypeOK, Job
<1>5. ASSUME NEW plan \in Plans(Edited, clock), NEW shown \in 0..WordTotal, Edit(plan, shown)
      PROVE  Quiet' /\ timer' = {} /\ ~retryTimer'
  <2>1. Replanned(plan, shown) \in Job /\ Replanned(plan, shown).status \notin Stopped
    BY ReplannedType DEF Planned, Fresh, Stopped, TypeOK
  <2>2. Registered(Replanned(plan, shown), {}, FALSE, clock).job.status \notin Stopped
    BY <2>1, RegisteredStatus
  <2>. QED BY <1>0, <1>5, <2>2 DEF Edit, ghosts, Quiet
<1>6. CASE Restart
  <2>1. PICK now \in clock..MaxTime : /\ job' = Loaded(now).job /\ timer' = Loaded(now).timer
                                      /\ retryTimer' = Loaded(now).retry
    BY <1>6 DEF Restart
  <2>2. Quiet'
    BY <1>6 DEF Restart, Quiet, Asleep
  <2>3. job \in Job
    BY DEF TypeOK
  <2>4. CASE job.status \in Reloaded
    <3>1. job.status \notin Stopped
      BY <2>4 DEF Reloaded, Stopped
    <3>2. Registered(job, {}, FALSE, now).job.status \notin Stopped
      BY <2>3, <3>1, RegisteredStatus
    <3>3. [job EXCEPT !.status = "failed"].status \notin Stopped
      BY <2>3 DEF Job, Stopped
    <3>4. Loaded(now).job.status \notin Stopped
      BY <3>1, <3>2, <3>3 DEF Loaded
    <3>. QED BY <2>1, <3>4
  <2>5. CASE job.status \notin Reloaded
    BY <2>1, <2>2, <2>5 DEF Loaded
  <2>. QED BY <2>4, <2>5
<1>7. ASSUME NEW c \in Caller, Runs(c) PROVE Quiet' /\ timer' = {} /\ ~retryTimer'
  <2>1. job.status \in Stopped
    BY <1>7, RunNeverStops
  <2>2. late' = late
    BY <1>7 DEF Runs, Begin, SkipRun, WordsRunOut, NoRecipients, Deliver, ghosts
  <2>3. caller[c].phase # "idle"
    BY <1>7 DEF Runs, Begin, SkipRun, WordsRunOut, NoRecipients, Deliver, Sends
  <2>. QED BY <1>0, <2>1, <2>2, <2>3 DEF Quiet
<1>8. ASSUME NEW c \in Caller, SendNow(c) PROVE Quiet' /\ timer' = {} /\ ~retryTimer'
  BY <1>8 DEF SendNow, TypeOK, Job, Stopped
<1>9. CASE UNCHANGED vars
  BY <1>0, <1>9 DEF vars, ghosts, Quiet
<1>. QED BY <1>1, <1>2, <1>3, <1>4, <1>5, <1>6, <1>7, <1>8, <1>9 DEF Next

(* A job paused, cancelled or deleted while no run of it was in flight     *)
(* stays quiet: no timer, retry or restart will send it, for any number    *)
(* of recipients, retries, edits and restarts.                             *)
THEOREM StopAlwaysHolds == Spec => []StopHolds
BY InitStop, NextStop, TypeCorrect, PTL DEF Spec

-----------------------------------------------------------------------------
(* No word is passed over. Every position a row or a run knows of, be it   *)
(* stale, has all the steps before it in a message already.                *)

Said(j) ==
  /\ j.words = job.words
  /\ j.words = "repeat" => j.pos < WordTotal
  /\ j.words # "none" => 0..(j.pos - 1) \subseteq used

WordsInv ==
  edits = 0 => /\ Said(job)
               /\ \A c \in Caller : caller[c].phase = "loaded" => Said(caller[c].view)

(* Registering a job touches its status alone.                             *)
LEMMA RegisteredWords ==
  ASSUME NEW j \in Job, NEW due, NEW retry \in BOOLEAN, NEW now
  PROVE  /\ Registered(j, due, retry, now).job.pos = j.pos
         /\ Registered(j, due, retry, now).job.words = j.words
BY DEF Registered, Job

LEMMA LoadedWords ==
  ASSUME job \in Job, NEW now
  PROVE  Loaded(now).job.pos = job.pos /\ Loaded(now).job.words = job.words
<1>1. /\ [job EXCEPT !.status = "failed"].pos = job.pos
      /\ [job EXCEPT !.status = "failed"].words = job.words
  BY DEF Job
<1>2. /\ Registered(job, {}, FALSE, now).job.pos = job.pos
      /\ Registered(job, {}, FALSE, now).job.words = job.words
  BY DEF Registered, Job
<1>. QED BY <1>1, <1>2 DEF Loaded

(* A step that keeps the row's position and the views keeps the invariant. *)
LEMMA WordsFrame ==
  ASSUME TypeOK, WordsInv, edits' = 0 => edits = 0, used \subseteq used',
         job'.pos = job.pos, job'.words = job.words,
         \A c \in Caller : caller'[c].phase = "loaded" =>
           caller'[c] = caller[c] \/ caller'[c].view = job
  PROVE  WordsInv'
<1>. SUFFICES ASSUME edits' = 0
              PROVE  /\ Said(job)'
                     /\ \A c \in Caller : caller'[c].phase = "loaded" => Said(caller[c].view)'
  BY DEF WordsInv
<1>1. Said(job) /\ \A c \in Caller : caller[c].phase = "loaded" => Said(caller[c].view)
  BY DEF WordsInv
<1>2. Said(job)'
  BY <1>1 DEF Said
<1>3. ASSUME NEW c \in Caller, caller'[c].phase = "loaded" PROVE Said(caller[c].view)'
  <2>1. Said(caller'[c].view)
    BY <1>1, <1>3
  <2>. QED BY <2>1 DEF Said
<1>. QED BY <1>2, <1>3

(* A row committed by a run with its own or with the row's position.       *)
LEMMA CommitWords ==
  ASSUME TypeOK, WordsInv, NEW c \in Caller, caller[c].phase = "loaded", NEW new \in Job, NEW always,
         Commit(caller[c].view, new, always), new.words = caller[c].view.words,
         edits' = edits, Ends(c), used \subseteq used',
         edits = 0 => /\ new.words = "repeat" => new.pos < WordTotal
                      /\ new.words # "none" => 0..(new.pos - 1) \subseteq used'
  PROVE  WordsInv'
<1>. SUFFICES ASSUME edits = 0
              PROVE  /\ Said(job)'
                     /\ \A d \in Caller : caller'[d].phase = "loaded" => Said(caller[d].view)'
  BY DEF WordsInv
<1>1. Said(job) /\ \A d \in Caller : caller[d].phase = "loaded" => Said(caller[d].view)
  BY DEF WordsInv
<1>2. /\ caller[c].view \in Job /\ job \in Job
  BY CallerType DEF TypeOK
<1>3. /\ job'.pos = job.pos \/ job'.pos = new.pos
      /\ job'.words = job.words
  BY <1>1, <1>2, Committed DEF Said
<1>4. Said(job)'
  BY <1>1, <1>3 DEF Said
<1>5. ASSUME NEW d \in Caller, caller'[d].phase = "loaded" PROVE Said(caller[d].view)'
  <2>1. caller'[d] = caller[d]
    BY <1>5 DEF Ends, Asleep, TypeOK
  <2>2. Said(caller[d].view)
    BY <1>1, <1>5, <2>1
  <2>. QED BY <1>3, <2>1, <2>2 DEF Said
<1>. QED BY <1>4, <1>5

LEMMA DeliverWords ==
  ASSUME TypeOK, WordsInv, NEW c \in Caller, NEW ok \in SUBSET Recipients, Deliver(c, ok)
  PROVE  WordsInv'
<1>. DEFINE v == caller[c].view
            retry == caller[c].by = "retry"
            new == Answered(c, ok)
<1>1. /\ Sends(c) /\ caller[c].phase = "loaded" /\ v \in Job
  BY CallerType DEF Deliver, Sends
<1>2. /\ new \in Job /\ new.words = v.words
      /\ new.pos = IF retry THEN v.pos ELSE Advance(v)
  BY <1>1, AnsweredType, FilledType
<1>3. PICK always : Commit(v, new, always)
  BY DEF Deliver, Answered
<1>4. used' = used \cup {Step(v, retry)} /\ edits' = edits /\ Ends(c)
  BY DEF Deliver, budget
<1>5. ASSUME edits = 0
      PROVE  /\ new.words = "repeat" => new.pos < WordTotal
             /\ new.words # "none" => 0..(new.pos - 1) \subseteq used'
  <2>1. Said(v)
    BY <1>1, <1>5 DEF WordsInv
  <2>2. CASE retry
    BY <1>2, <1>4, <2>1, <2>2 DEF Said
  <2>3. CASE ~retry
    <3>1. ~WordsFinished(v)
      BY <1>1, <2>3 DEF Sends, WordsDone
    <3>2. /\ v.words = "repeat" => Advance(v) < WordTotal
          /\ v.words # "none" => \A n \in 0..(Advance(v) - 1) : n < v.pos \/ n = v.pos
      BY <1>1, <2>1, <3>1, AdvanceType DEF Said
    <3>3. Step(v, retry) = v.pos
      BY <2>3 DEF Step
    <3>4. v.pos \in Nat
      BY <1>1, RowType, CampaignAssumption
    <3>5. v.words # "none" => 0..(Advance(v) - 1) \subseteq used'
      BY <1>4, <2>1, <3>2, <3>3, <3>4 DEF Said
    <3>. QED BY <1>2, <2>3, <3>2, <3>5
  <2>. QED BY <2>2, <2>3
<1>. HIDE DEF new, v
<1>. QED BY <1>1, <1>2, <1>3, <1>4, <1>5, CommitWords DEF v

LEMMA InitWords == Init => WordsInv
<1>. SUFFICES ASSUME Init PROVE WordsInv
  OBVIOUS
<1>1. PICK plan \in Plans(Created, 0) : job = Registered(Planned(plan), {}, FALSE, 0).job
  BY DEF Init
<1>2. Planned(plan) \in Job /\ Planned(plan).pos = 0
  BY FreshType, CampaignAssumption DEF Plans, Planned, Fresh
<1>3. job.pos = 0
  <2>1. Registered(Planned(plan), {}, FALSE, 0).job.pos = Planned(plan).pos
    BY <1>2 DEF Registered, Job
  <2>. QED BY <1>1, <1>2, <2>1
<1>4. Said(job)
  BY <1>3, CampaignAssumption DEF Said
<1>. QED BY <1>4 DEF Init, WordsInv, Asleep

LEMMA NextWords == TypeOK /\ WordsInv /\ [Next]_vars => WordsInv'
<1>. SUFFICES ASSUME TypeOK, WordsInv, [Next]_vars PROVE WordsInv'
  OBVIOUS
<1>0. job \in Job /\ edits \in Nat /\ caller \in [Caller -> Coroutine]
  BY DEF TypeOK
<1>1. CASE Fire \/ FireRetry \/ Tick \/ Pause \/ Cancel \/ Delete \/ Skip \/ SkipClear
  <2>1. \A s \in Status : [job EXCEPT !.status = s].pos = job.pos /\ [job EXCEPT !.status = s].words = job.words
    BY <1>0 DEF Job
  <2>2. \A n : [job EXCEPT !.skip = n].pos = job.pos /\ [job EXCEPT !.skip = n].words = job.words
    BY <1>0 DEF Job
  <2>3. job'.pos = job.pos /\ job'.words = job.words
    <3>1. {"paused", "cancelled", "deleted"} \subseteq Status
      BY DEF Status
    <3>2. CASE Pause \/ Cancel \/ Delete
      <4>1. PICK to \in {"paused", "cancelled", "deleted"} : job' = [job EXCEPT !.status = to]
        BY <3>2 DEF Pause, Cancel, Delete, Stops
      <4>. QED BY <2>1, <3>1, <4>1
    <3>3. CASE Skip \/ SkipClear
      BY <2>2, <3>3 DEF Skip, SkipClear
    <3>. QED BY <1>1, <3>2, <3>3 DEF Fire, FireRetry, Tick
  <2>4. used' = used /\ edits' = edits
    BY <1>1 DEF Fire, FireRetry, Tick, Pause, Cancel, Delete, Stops, Skip, SkipClear, ghosts, budget
  <2>5. \A c \in Caller : caller'[c].phase = "loaded" => caller'[c] = caller[c]
    BY <1>0, <1>1 DEF Fire, FireRetry, Tick, Pause, Cancel, Delete, Stops, Skip, SkipClear, Calls, Asleep
  <2>. QED BY <2>3, <2>4, <2>5, WordsFrame
<1>2. CASE Resume
  <2>1. \A s \in Status : [job EXCEPT !.status = s] \in Job /\ [job EXCEPT !.status = s].pos = job.pos
                           /\ [job EXCEPT !.status = s].words = job.words
    BY <1>0 DEF Job
  <2>. DEFINE j == [job EXCEPT !.status = IF job.kind = "trigger" THEN "trigger" ELSE "active"]
  <2>2. j \in Job /\ j.pos = job.pos /\ j.words = job.words
    BY <2>1 DEF Status
  <2>. HIDE DEF j
  <2>3. \/ job' = job
        \/ job' = [job EXCEPT !.status = "retry_scheduled"]
        \/ job' = Registered(j, timer, retryTimer, clock).job
    BY <1>2 DEF Resume, j
  <2>4. job'.pos = job.pos /\ job'.words = job.words
    <3>1. "retry_scheduled" \in Status
      BY DEF Status
    <3>2. /\ Registered(j, timer, retryTimer, clock).job.pos = j.pos
          /\ Registered(j, timer, retryTimer, clock).job.words = j.words
      BY <2>2, RegisteredWords DEF TypeOK
    <3>. QED BY <2>1, <2>2, <2>3, <3>1, <3>2
  <2>. QED BY <1>2, <2>4, WordsFrame DEF Resume, ghosts, budget
<1>3. ASSUME NEW plan \in Plans(Edited, clock), NEW shown \in 0..WordTotal, Edit(plan, shown)
      PROVE  WordsInv'
  BY <1>0, <1>3 DEF Edit, WordsInv
<1>4. CASE Restart
  <2>1. job'.pos = job.pos /\ job'.words = job.words
    BY <1>0, <1>4, LoadedWords DEF Restart
  <2>2. used \subseteq used' /\ edits' = edits /\ \A c \in Caller : caller'[c].phase # "loaded"
    BY <1>4 DEF Restart, Asleep
  <2>. QED BY <2>1, <2>2, WordsFrame
<1>5. ASSUME NEW c \in Caller, Runs(c) PROVE WordsInv'
  <2>0. caller[c].view \in Job /\ clock \in Time
    BY CallerType DEF TypeOK
  <2>1. CASE Begin(c)
    BY <1>0, <2>1, WordsFrame DEF Begin, Asleep, ghosts, budget
  <2>2. CASE NoRecipients(c)
    BY <1>0, <2>2, WordsFrame DEF NoRecipients, Ends, Asleep, ghosts, budget
  <2>3. CASE SkipRun(c)
    <3>1. /\ SkippedRow(caller[c].view, clock) \in Job
          /\ SkippedRow(caller[c].view, clock).pos = caller[c].view.pos
          /\ SkippedRow(caller[c].view, clock).words = caller[c].view.words
      BY <2>0, <2>3, SkippedRowType DEF SkipRun, Skips
    <3>. QED BY <2>3, <3>1, CommitWords DEF SkipRun, WordsInv, Said, budget
  <2>4. CASE WordsRunOut(c)
    <3>. DEFINE v == caller[c].view
                new == [v EXCEPT !.status = IF @ \in {"active", "trigger"} THEN "completed" ELSE @]
    <3>1. new \in Job /\ new.pos = v.pos /\ new.words = v.words
      BY <2>0 DEF Job, Status
    <3>2. Commit(v, new, {}) /\ caller[c].phase = "loaded" /\ edits' = edits /\ Ends(c) /\ used' = used
      BY <2>4 DEF WordsRunOut, ghosts, budget
    <3>. HIDE DEF new
    <3>. QED BY <3>1, <3>2, CommitWords DEF WordsInv, Said
  <2>. QED BY <1>5, <2>1, <2>2, <2>3, <2>4, DeliverWords DEF Runs
<1>6. ASSUME NEW c \in Caller, SendNow(c) PROVE WordsInv'
  <2>1. job'.pos = job.pos /\ job'.words = job.words
    BY <1>0, <1>6 DEF SendNow, Job
  <2>2. used' = used /\ edits' = edits
    BY <1>6 DEF SendNow, ghosts, budget
  <2>3. \A d \in Caller : caller'[d].phase = "loaded" => caller'[d] = caller[d]
    BY <1>0, <1>6 DEF SendNow, Calls, Asleep
  <2>. QED BY <2>1, <2>2, <2>3, WordsFrame
<1>7. CASE UNCHANGED vars
  BY <1>7, WordsFrame DEF vars, ghosts, budget
<1>. QED BY <1>1, <1>2, <1>3, <1>4, <1>5, <1>6, <1>7 DEF Next

(* No word of a changing text is passed over: every step before the job's  *)
(* position has been in a message, though runs overlap, fail, are skipped, *)
(* retried and cut off by restarts, for a word list of any length.         *)
THEOREM NoWordSkipped == Spec => []WordsNotSkipped
<1>1. TypeOK /\ WordsInv => WordsNotSkipped
  BY DEF WordsInv, Said, WordsNotSkipped
<1>2. Spec => []WordsInv
  BY InitWords, NextWords, TypeCorrect, PTL DEF Spec
<1>. QED BY <1>1, <1>2, TypeCorrect, PTL

-----------------------------------------------------------------------------
(* What a step may do, seen from the columns and from the coroutines. Most *)
(* steps leave the recipients owed a retry alone; the others are a run     *)
(* that delivers, an edit and a restart.                                   *)

Retrying(c) == caller[c].phase # "idle" /\ caller[c].by = "retry"
SameAs(j) == j.kind = job.kind /\ j.dates = job.dates /\ j.words = job.words

(* A coroutine stays as it is, ends, is called, or loads the row.          *)
Moved(c) ==
  \/ caller'[c] = caller[c]
  \/ caller'[c].phase = "idle"
  \/ /\ caller[c].phase = "idle" /\ caller'[c].phase = "called"
     /\ caller'[c].by = "retry" => \A d \in Caller : ~Retrying(d)
     /\ \A d \in Caller \ {c} : caller'[d] = caller[d]
  \/ /\ caller[c].phase = "called" /\ caller'[c].phase = "loaded"
     /\ caller'[c].by = caller[c].by /\ caller'[c].view = job
     /\ job' = job /\ job.status # "deleted"

Plain ==
  /\ UNCHANGED <<got, firsts, crashes, edits>> /\ SameAs(job')
  /\ \/ job'.groups = job.groups /\ job'.retryAt = job.retryAt
     \/ /\ job'.groups = {} /\ job'.retryAt = FALSE
        /\ job.status = "trigger" /\ job'.status = "trigger"
  /\ job.status = "deleted" => job'.status = "deleted"

LEMMA CallsMoves ==
  ASSUME TypeOK, NEW c \in Caller, NEW by \in {"timer", "retry", "user"}, Calls(c, by),
         by = "retry" => ~InFlight("retry")
  PROVE  \A d \in Caller : Moved(d)
<1>1. /\ caller[c].phase = "idle" /\ caller' = [caller EXCEPT ![c] = [Asleep EXCEPT !.phase = "called", !.by = by]]
      /\ caller \in [Caller -> Coroutine]
  BY DEF Calls, TypeOK
<1>2. caller'[c].phase = "called" /\ caller'[c].by = by
  BY <1>1 DEF Asleep
<1>3. \A d \in Caller \ {c} : caller'[d] = caller[d]
  BY <1>1
<1>4. by = "retry" => \A d \in Caller : ~Retrying(d)
  BY DEF InFlight, Retrying
<1>. QED BY <1>1, <1>2, <1>3, <1>4 DEF Moved

LEMMA CallerMoves == TypeOK /\ [Next]_vars => \A c \in Caller : Moved(c)
<1>. SUFFICES ASSUME TypeOK, [Next]_vars PROVE \A c \in Caller : Moved(c)
  OBVIOUS
<1>1. caller' = caller => \A c \in Caller : Moved(c)
  BY DEF Moved
<1>2. \A c \in Caller : Ends(c) => \A d \in Caller : Moved(d)
  BY DEF Ends, Asleep, Moved, TypeOK
<1>3. CASE Fire
  BY <1>1, <1>3, CallsMoves DEF Fire
<1>4. CASE FireRetry
  BY <1>1, <1>4, CallsMoves DEF FireRetry
<1>5. CASE Tick \/ Pause \/ Cancel \/ Delete \/ Resume \/ Skip \/ SkipClear
  BY <1>1, <1>5 DEF Tick, Pause, Cancel, Delete, Stops, Resume, Skip, SkipClear
<1>6. ASSUME NEW plan, NEW shown, Edit(plan, shown) PROVE caller' = caller
  BY <1>6 DEF Edit
<1>7. CASE Restart
  BY <1>7 DEF Restart, Asleep, Moved
<1>8. ASSUME NEW c \in Caller, Runs(c) PROVE \A d \in Caller : Moved(d)
  <2>1. CASE Begin(c)
    <3>1. CASE job.status = "deleted"
      BY <1>2, <2>1, <3>1 DEF Begin, Ends
    <3>2. CASE job.status # "deleted"
      <4>1. /\ caller[c].phase = "called" /\ job' = job /\ caller \in [Caller -> Coroutine]
            /\ caller' = [caller EXCEPT ![c] = [caller[c] EXCEPT !.phase = "loaded", !.view = job]]
        BY <2>1, <3>2 DEF Begin, TypeOK
      <4>2. caller'[c].phase = "loaded" /\ caller'[c].by = caller[c].by /\ caller'[c].view = job
        BY <4>1 DEF Coroutine
      <4>3. \A d \in Caller \ {c} : caller'[d] = caller[d]
        BY <4>1
      <4>. QED BY <3>2, <4>1, <4>2, <4>3 DEF Moved
    <3>. QED BY <3>1, <3>2
  <2>2. CASE SkipRun(c) \/ WordsRunOut(c) \/ NoRecipients(c) \/ \E ok : Deliver(c, ok)
    BY <1>2, <2>2 DEF SkipRun, WordsRunOut, NoRecipients, Deliver
  <2>. QED BY <1>8, <2>1, <2>2 DEF Runs
<1>9. ASSUME NEW c \in Caller, SendNow(c) PROVE \A d \in Caller : Moved(d)
  BY <1>9, CallsMoves DEF SendNow
<1>10. CASE UNCHANGED vars
  BY <1>1, <1>10 DEF vars
<1>. QED BY <1>1, <1>3, <1>4, <1>5, <1>6, <1>7, <1>8, <1>9, <1>10 DEF Next

(* Each column of a committed row is the run's if the run changed it.      *)
LEMMA CommitColumns ==
  ASSUME job \in Job, NEW view \in Job, NEW new \in Job, NEW always, Commit(view, new, always)
  PROVE  /\ job.status = "deleted" => job' = job
         /\ job.status # "deleted" =>
              /\ job'.status = IF new.status # view.status \/ "status" \in always THEN new.status ELSE job.status
              /\ job'.kind = IF new.kind # view.kind \/ "kind" \in always THEN new.kind ELSE job.kind
              /\ job'.dates = IF new.dates # view.dates \/ "dates" \in always THEN new.dates ELSE job.dates
              /\ job'.words = IF new.words # view.words \/ "words" \in always THEN new.words ELSE job.words
              /\ job'.groups = IF new.groups # view.groups \/ "groups" \in always THEN new.groups ELSE job.groups
              /\ job'.retryAt = IF new.retryAt # view.retryAt \/ "retryAt" \in always
                                THEN new.retryAt ELSE job.retryAt
<1>1. DOMAIN job = {"status", "kind", "dates", "skip", "retries", "retryAt", "groups", "words", "pos"}
  BY DEF Job
<1>2. job.status # "deleted" =>
        \A f \in DOMAIN job : job'[f] = IF new[f] # view[f] \/ f \in always THEN new[f] ELSE job[f]
  BY DEF Commit
<1>3. job.status = "deleted" => job' = job
  BY DEF Commit
<1>. QED BY <1>1, <1>2, <1>3

SameColumns(j, k) == j.kind = k.kind /\ j.dates = k.dates /\ j.words = k.words
                     /\ j.groups = k.groups /\ j.retryAt = k.retryAt

(* What a run that ends writes, column by column.                          *)
LEMMA SkippedColumns ==
  ASSUME NEW v \in Job, NEW now
  PROVE  /\ SameColumns(SkippedRow(v, now), v)
         /\ SkippedRow(v, now).status = IF v.kind = "date" \/ (v.kind = "dates" /\ RemainingDates(v, now) = {})
                                        THEN "completed" ELSE v.status
BY DEF SkippedRow, Job, SameColumns

LEMMA AnsweredColumns ==
  ASSUME TypeOK, NEW c \in Caller, NEW ok, Sends(c)
  PROVE  LET a == Answered(c, ok)  j == Filled(c)  v == caller[c].view  failed == Targets(c) \ ok
         IN /\ a.kind = v.kind /\ a.dates = v.dates /\ a.words = v.words
            /\ failed = {} => a.groups = {} /\ a.retryAt = FALSE /\ a.status = SentStatus(j, clock)
            /\ failed # {} /\ Exhausted(j) => a.groups = {} /\ a.retryAt = FALSE /\ a.status = GivenUp(j, clock)
            /\ failed # {} /\ ~Exhausted(j) =>
                 /\ a.groups = failed /\ a.retryAt = TRUE
                 /\ a.status = IF IsLastRun(j, clock) THEN "retry_scheduled" ELSE j.status
<1>. DEFINE j == Filled(c)
<1>1. /\ j \in Job /\ j.status = caller[c].view.status
      /\ j.kind = caller[c].view.kind /\ j.dates = caller[c].view.dates /\ j.words = caller[c].view.words
  <2>1. caller[c].view \in Job
    BY CallerType
  <2>. QED BY <2>1, FilledType DEF Filled, Job
<1>. HIDE DEF j
<1>2. \A failed : /\ Sent(j, clock).kind = j.kind /\ Sent(j, clock).dates = j.dates /\ Sent(j, clock).words = j.words
                  /\ Sent(j, clock).groups = {} /\ Sent(j, clock).retryAt = FALSE
                  /\ Sent(j, clock).status = SentStatus(j, clock)
  BY <1>1 DEF Sent, Job
<1>3. \A failed : /\ Retried(j, failed, clock).kind = j.kind /\ Retried(j, failed, clock).dates = j.dates
                  /\ Retried(j, failed, clock).words = j.words
                  /\ Exhausted(j) => /\ Retried(j, failed, clock).groups = {}
                                     /\ Retried(j, failed, clock).retryAt = FALSE
                                     /\ Retried(j, failed, clock).status = GivenUp(j, clock)
                  /\ ~Exhausted(j) => /\ Retried(j, failed, clock).groups = failed
                                      /\ Retried(j, failed, clock).retryAt = TRUE
                                      /\ Retried(j, failed, clock).status =
                                           IF IsLastRun(j, clock) THEN "retry_scheduled" ELSE j.status
  BY <1>1 DEF Retried, Job
<1>. QED BY <1>1, <1>2, <1>3 DEF Answered, j

LEMMA RegisteredColumns ==
  ASSUME NEW j \in Job, NEW due, NEW retry, NEW now
  PROVE  SameColumns(Registered(j, due, retry, now).job, j)
BY DEF Registered, Job, SameColumns

LEMMA LoadedColumns ==
  ASSUME job \in Job, NEW now
  PROVE  SameColumns(Loaded(now).job, job)
<1>1. SameColumns([job EXCEPT !.status = "failed"], job)
  BY DEF Job, SameColumns
<1>2. SameColumns(Registered(job, {}, FALSE, now).job, job)
  BY RegisteredColumns
<1>. QED BY <1>1, <1>2 DEF Loaded, SameColumns

(* The runs that end without sending.                                      *)
LEMMA QuietEnds ==
  ASSUME TypeOK, NEW c \in Caller, SkipRun(c) \/ WordsRunOut(c) \/ NoRecipients(c)
  PROVE  Plain
<1>1. caller[c].view \in Job /\ job \in Job
  BY CallerType DEF TypeOK
<1>2. ASSUME NEW new \in Job, SameColumns(new, caller[c].view), Commit(caller[c].view, new, {})
      PROVE  SameColumns(job', job) /\ (job.status = "deleted" => job'.status = "deleted")
  BY <1>1, <1>2, CommitColumns DEF SameColumns
<1>3. CASE SkipRun(c)
  <2>1. SkippedRow(caller[c].view, clock) \in Job /\ SameColumns(SkippedRow(caller[c].view, clock), caller[c].view)
    BY <1>1, <1>3, SkippedRowType, SkippedColumns DEF SkipRun, Skips, TypeOK
  <2>. QED BY <1>2, <1>3, <2>1 DEF SkipRun, Plain, SameColumns, SameAs, budget
<1>4. CASE WordsRunOut(c)
  <2>. DEFINE v == caller[c].view
              new == [v EXCEPT !.status = IF @ \in {"active", "trigger"} THEN "completed" ELSE @]
  <2>1. new \in Job /\ SameColumns(new, v)
    BY <1>1 DEF Job, Status, SameColumns
  <2>2. Commit(v, new, {})
    BY <1>4 DEF WordsRunOut
  <2>. HIDE DEF new
  <2>. QED BY <1>2, <1>4, <2>1, <2>2 DEF WordsRunOut, Plain, SameColumns, SameAs, ghosts, budget
<1>5. CASE NoRecipients(c)
  BY <1>5 DEF NoRecipients, Plain, SameAs, ghosts, budget
<1>. QED BY <1>3, <1>4, <1>5

Delivers == \E c \in Caller, ok \in SUBSET Recipients : Deliver(c, ok)
Edits == \E plan \in Plans(Edited, clock), shown \in 0..WordTotal : Edit(plan, shown)

LEMMA StepKinds == TypeOK /\ [Next]_vars => Plain \/ Delivers \/ Edits \/ Restart
<1>. SUFFICES ASSUME TypeOK, [Next]_vars PROVE Plain \/ Delivers \/ Edits \/ Restart
  OBVIOUS
<1>0. job \in Job
  BY DEF TypeOK
<1>1. job' = job /\ UNCHANGED <<got, firsts, crashes, edits>> => Plain
  BY DEF Plain, SameAs
<1>2. CASE Fire \/ FireRetry \/ Tick \/ UNCHANGED vars
  BY <1>1, <1>2 DEF Fire, FireRetry, Tick, vars, ghosts, budget
<1>3. CASE Pause \/ Cancel \/ Delete
  <2>1. PICK from, to : /\ Stops(from, to) /\ to \in {"paused", "cancelled", "deleted"}
                        /\ job.status = "deleted" => to = "deleted"
    BY <1>3 DEF Pause, Cancel, Delete, Stops
  <2>2. job' = [job EXCEPT !.status = to] /\ UNCHANGED <<got, firsts, crashes, edits>>
    BY <2>1 DEF Stops
  <2>. QED BY <1>0, <2>1, <2>2 DEF Plain, SameAs, Job
<1>4. CASE Resume
  <2>. DEFINE j == [job EXCEPT !.status = IF job.kind = "trigger" THEN "trigger" ELSE "active"]
  <2>1. j \in Job /\ SameColumns(j, job)
    BY <1>0 DEF Job, Status, SameColumns
  <2>. HIDE DEF j
  <2>2. \/ job' = job
        \/ job' = [job EXCEPT !.status = "retry_scheduled"]
        \/ job' = Registered(j, timer, retryTimer, clock).job
    BY <1>4 DEF Resume, j
  <2>3. SameColumns([job EXCEPT !.status = "retry_scheduled"], job)
    BY <1>0 DEF Job, SameColumns
  <2>4. SameColumns(Registered(j, timer, retryTimer, clock).job, j)
    BY <2>1, RegisteredColumns
  <2>5. SameColumns(job', job)
    BY <2>1, <2>2, <2>3, <2>4 DEF SameColumns
  <2>. QED BY <1>4, <2>5 DEF Resume, Plain, SameColumns, SameAs, ghosts, budget
<1>5. CASE Skip \/ SkipClear
  BY <1>0, <1>5 DEF Skip, SkipClear, Plain, SameAs, Job, ghosts, budget
<1>6. ASSUME NEW c \in Caller, Runs(c) PROVE Plain \/ Delivers
  BY <1>1, <1>6, QuietEnds DEF Runs, Begin, Delivers, ghosts, budget
<1>7. ASSUME NEW c \in Caller, SendNow(c) PROVE Plain
  BY <1>0, <1>7 DEF SendNow, Plain, SameAs, Job, ghosts, budget
<1>. QED BY <1>2, <1>3, <1>4, <1>5, <1>6, <1>7 DEF Next, Edits

-----------------------------------------------------------------------------
(* Nobody who acknowledged a message is sent it again. A recipient still   *)
(* owed a retry, in the row or in the view of the one retry in flight, has *)
(* fewer messages than there were runs.                                    *)

OneRetry == \A c, d \in Caller : Retrying(c) /\ Retrying(d) => c = d
LoadedRetry(c) == caller[c].phase = "loaded" /\ caller[c].by = "retry"
Owed(groups) == \A r \in groups : got[r] < firsts + crashes

SlackInv ==
  /\ OneRetry
  /\ ConfirmedNotResent
  /\ job.status # "deleted" => Owed(job.groups)
  /\ \A c \in Caller : LoadedRetry(c) => Owed(caller[c].view.groups)

LEMMA RetryStaysOne == TypeOK /\ OneRetry /\ [Next]_vars => OneRetry'
<1>. SUFFICES ASSUME TypeOK, OneRetry, [Next]_vars, NEW c \in Caller, NEW d \in Caller,
                     Retrying(c)', Retrying(d)'
              PROVE  c = d
  BY DEF OneRetry
<1>1. Moved(c) /\ Moved(d)
  BY CallerMoves
<1>2. CASE Retrying(c) /\ Retrying(d)
  BY <1>2 DEF OneRetry
<1>3. CASE ~Retrying(c)
  BY <1>1, <1>3 DEF Moved, Retrying
<1>4. CASE ~Retrying(d)
  BY <1>1, <1>4 DEF Moved, Retrying
<1>. QED BY <1>2, <1>3, <1>4

(* A view that is loaded after a step was loaded before it, or is the row. *)
LEMMA ViewsMoved ==
  ASSUME TypeOK, [Next]_vars, NEW c \in Caller, caller'[c].phase = "loaded"
  PROVE  \/ caller'[c] = caller[c]
         \/ /\ caller'[c].view = job /\ job' = job /\ job.status # "deleted"
            /\ caller[c].phase = "called" /\ caller'[c].by = caller[c].by
BY CallerMoves DEF Moved

LEMMA DeliverSlack ==
  ASSUME TypeOK, SlackInv, [Next]_vars, NEW c \in Caller, NEW ok \in SUBSET Recipients, Deliver(c, ok)
  PROVE  /\ ConfirmedNotResent'
         /\ job'.status # "deleted" => Owed(job.groups)'
         /\ \A d \in Caller : LoadedRetry(d)' => Owed(caller[d].view.groups)'
<1>. DEFINE v == caller[c].view
            retry == caller[c].by = "retry"
            failed == Targets(c) \ ok
            a == Answered(c, ok)
<1>0. /\ v \in Job /\ job \in Job /\ a \in Job /\ Sends(c) /\ caller[c].phase = "loaded"
      /\ firsts \in Nat /\ crashes \in Nat /\ got \in [Recipients -> Nat]
      /\ ok \subseteq Targets(c)
  BY CallerType, AnsweredType DEF TypeOK, Deliver, Sends
<1>1. /\ firsts' = firsts + First(c) /\ crashes' = crashes
      /\ got' = [r \in Recipients |-> got[r] + IF r \in ok THEN 1 ELSE 0]
      /\ caller' = [caller EXCEPT ![c] = Asleep]
  BY DEF Deliver, Ends, budget
<1>2. PICK always \in {{}, {"retryAt"}} : Commit(v, a, always)
  BY DEF Deliver, Answered
<1>3. First(c) = IF retry THEN 0 ELSE 1
  BY DEF First
<1>4. retry => Targets(c) = v.groups /\ Owed(v.groups)
  BY <1>0 DEF Targets, SlackInv, LoadedRetry
<1>5. job.status # "deleted" => Owed(job.groups)
  BY DEF SlackInv
<1>6. Targets(c) \subseteq Recipients /\ job.groups \subseteq Recipients /\ v.groups \subseteq Recipients
  BY <1>0, RowType DEF Targets
<1>7. \A r \in Recipients : got'[r] <= firsts' + crashes'
  <2>1. \A r \in Recipients : got[r] <= firsts + crashes
    BY DEF SlackInv, ConfirmedNotResent
  <2>2. \A r \in ok : retry => got[r] < firsts + crashes
    BY <1>0, <1>4 DEF Owed
  <2>. QED BY <1>0, <1>1, <1>3, <2>1, <2>2
<1>8. \A r \in failed : got'[r] < firsts' + crashes'
  <2>. SUFFICES ASSUME NEW r \in failed PROVE got'[r] < firsts' + crashes'
    OBVIOUS
  <2>1. r \in Recipients /\ r \in Targets(c) /\ got'[r] = got[r] /\ got[r] <= firsts + crashes
    BY <1>0, <1>1, <1>6 DEF SlackInv, ConfirmedNotResent
  <2>2. retry => got[r] < firsts + crashes
    BY <1>4, <2>1 DEF Owed
  <2>. QED BY <1>0, <1>1, <1>3, <2>1, <2>2
<1>9. ~retry /\ job.status # "deleted" => \A r \in job.groups : got'[r] < firsts' + crashes'
  BY <1>0, <1>1, <1>3, <1>5, <1>6 DEF Owed
<1>10. a.groups = {} \/ a.groups = failed
  BY <1>0, AnsweredColumns
<1>11. job.status # "deleted" => job'.groups = IF a.groups # v.groups THEN a.groups ELSE job.groups
  BY <1>0, <1>2, CommitColumns
<1>12. retry /\ a.groups = v.groups => ok = {}
  <2>1. retry => v.groups # {} /\ failed = v.groups \ ok /\ ok \subseteq v.groups
    BY <1>0, <1>4 DEF Sends
  <2>. QED BY <1>10, <2>1
<1>13. retry /\ a.groups = v.groups /\ job.status # "deleted" => \A r \in job.groups : got'[r] < firsts' + crashes'
  BY <1>0, <1>1, <1>3, <1>5, <1>6, <1>12 DEF Owed
<1>14. job.status # "deleted" => \A r \in job'.groups : got'[r] < firsts' + crashes'
  BY <1>8, <1>9, <1>10, <1>11, <1>13
<1>15. job'.status # "deleted" => job.status # "deleted"
  BY <1>0, <1>2, CommitColumns
<1>16. ASSUME NEW d \in Caller, caller'[d].phase = "loaded", caller'[d].by = "retry"
       PROVE  \A r \in caller'[d].view.groups : got'[r] < firsts' + crashes'
  <2>1. d # c /\ caller'[d] = caller[d]
    BY <1>0, <1>1, <1>16 DEF TypeOK, Asleep
  <2>2. Owed(caller[d].view.groups) /\ caller[d].view.groups \subseteq Recipients
    <3>1. LoadedRetry(d) /\ caller[d].view \in Job
      BY <1>16, <2>1, CallerType DEF LoadedRetry
    <3>. QED BY <3>1, RowType DEF SlackInv
  <2>3. ~retry
    BY <1>0, <1>16, <2>1 DEF SlackInv, OneRetry, Retrying
  <2>. QED BY <1>0, <1>1, <1>3, <2>1, <2>2, <2>3 DEF Owed
<1>. QED BY <1>7, <1>14, <1>15, <1>16 DEF ConfirmedNotResent, Owed, LoadedRetry

(* At most one of the runs cut off by a restart was a retry.               *)
LEMMA CutCount ==
  ASSUME TypeOK, OneRetry, NEW S \in SUBSET Cut
  PROVE  /\ Cardinality({c \in Cut : caller[c].by # "retry"}) \in Nat /\ Cardinality(S) \in Nat
         /\ Cardinality(S) <= Cardinality({c \in Cut : caller[c].by # "retry"}) + 1
<1>. DEFINE F == {c \in Cut : caller[c].by # "retry"}
<1>1. IsFiniteSet(Cut) /\ IsFiniteSet(F) /\ IsFiniteSet(S)
  <2>1. Cut \in SUBSET Caller
    BY DEF Cut
  <2>2. IsFiniteSet(Cut)
    BY <2>1, FS_Subset, CampaignAssumption
  <2>3. F \in SUBSET Cut
    OBVIOUS
  <2>. QED BY <2>2, <2>3, FS_Subset
<1>2. Cardinality(F) \in Nat /\ Cardinality(S) \in Nat
  BY <1>1, FS_CardinalityType
<1>3. CASE \E x \in Cut : caller[x].by = "retry"
  <2>1. PICK x \in Cut : caller[x].by = "retry"
    BY <1>3
  <2>2. S \subseteq F \cup {x}
    <3>. SUFFICES ASSUME NEW y \in S, caller[y].by = "retry" PROVE y = x
      OBVIOUS
    <3>1. x \in Caller /\ y \in Caller /\ Retrying(x) /\ Retrying(y)
      BY <2>1 DEF Cut, Sends, Retrying
    <3>. QED BY <3>1 DEF OneRetry
  <2>3. IsFiniteSet(F \cup {x}) /\ Cardinality(F \cup {x}) <= Cardinality(F) + 1
    <3>. HIDE DEF F
    <3>1. /\ IsFiniteSet(F \cup {x})
          /\ Cardinality(F \cup {x}) = IF x \in F THEN Cardinality(F) ELSE Cardinality(F) + 1
      BY <1>1, FS_AddElement
    <3>. QED BY <1>2, <3>1
  <2>4. Cardinality(F \cup {x}) \in Nat
    BY <2>3, FS_CardinalityType
  <2>5. Cardinality(S) <= Cardinality(F \cup {x})
    BY <2>2, <2>3, FS_Subset
  <2>. QED BY <1>2, <2>3, <2>4, <2>5
<1>4. CASE ~\E x \in Cut : caller[x].by = "retry"
  <2>1. S \in SUBSET F
    BY <1>4
  <2>2. Cardinality(S) <= Cardinality(F)
    BY <1>1, <2>1, FS_Subset
  <2>. QED BY <1>2, <2>2
<1>. QED BY <1>2, <1>3, <1>4

LEMMA RestartSlack ==
  ASSUME TypeOK, SlackInv, Restart
  PROVE  /\ ConfirmedNotResent'
         /\ job'.status # "deleted" => Owed(job.groups)'
         /\ \A d \in Caller : LoadedRetry(d)' => Owed(caller[d].view.groups)'
<1>. DEFINE n == Cardinality({c \in Cut : caller[c].by # "retry"})
<1>1. PICK reached \in [Cut -> SUBSET Recipients] :
        got' = [r \in Recipients |-> got[r] + Cardinality({c \in Cut : r \in reached[c]})]
  BY DEF Restart
<1>2. /\ firsts' = firsts + n /\ crashes' = crashes + 1 /\ caller' = [c \in Caller |-> Asleep]
      /\ firsts \in Nat /\ crashes \in Nat /\ got \in [Recipients -> Nat]
  BY DEF Restart, TypeOK
<1>3. \A r \in Recipients : /\ Cardinality({c \in Cut : r \in reached[c]}) \in Nat
                            /\ Cardinality({c \in Cut : r \in reached[c]}) <= n + 1 /\ n \in Nat
  <2>1. \A r \in Recipients : {c \in Cut : r \in reached[c]} \in SUBSET Cut
    OBVIOUS
  <2>. QED BY <2>1, CutCount DEF SlackInv
<1>. HIDE DEF n
<1>4. \A r \in Recipients : got'[r] \in Int /\ got'[r] <= got[r] + n + 1 /\ n \in Nat
  BY <1>1, <1>2, <1>3
<1>5. \A r \in Recipients : got'[r] <= firsts' + crashes'
  BY <1>2, <1>4 DEF SlackInv, ConfirmedNotResent
<1>6. job \in Job /\ job.groups \subseteq Recipients
  BY RowType DEF TypeOK
<1>7. job'.groups = job.groups
  BY <1>6, LoadedColumns DEF Restart, SameColumns
<1>8. job'.status # "deleted" => job.status # "deleted"
  BY DEF Restart, Loaded, Reloaded
<1>9. job.status # "deleted" => \A r \in job'.groups : got'[r] < firsts' + crashes'
  BY <1>2, <1>4, <1>6, <1>7 DEF SlackInv, Owed
<1>10. \A d \in Caller : caller'[d].phase # "loaded"
  BY <1>2 DEF Asleep
<1>. QED BY <1>5, <1>8, <1>9, <1>10 DEF ConfirmedNotResent, Owed, LoadedRetry

LEMMA NextSlack == TypeOK /\ SlackInv /\ [Next]_vars => SlackInv'
<1>. SUFFICES ASSUME TypeOK, SlackInv, [Next]_vars PROVE SlackInv'
  OBVIOUS
<1>1. OneRetry'
  BY RetryStaysOne DEF SlackInv
<1>2. CASE Delivers
  BY <1>1, <1>2, DeliverSlack DEF Delivers, SlackInv
<1>3. CASE Restart
  BY <1>1, <1>3, RestartSlack DEF SlackInv
<1>4. CASE Plain \/ Edits
  <2>1. UNCHANGED <<got, firsts, crashes>>
    BY <1>4 DEF Plain, Edits, Edit, ghosts
  <2>2. job'.status # "deleted" => job.status # "deleted" /\ (job'.groups = job.groups \/ job'.groups = {})
    <3>1. CASE Plain
      BY <3>1 DEF Plain
    <3>2. ASSUME NEW plan \in Plans(Edited, clock), NEW shown \in 0..WordTotal, Edit(plan, shown)
          PROVE  job.status # "deleted" /\ (job'.groups = job.groups \/ job'.groups = {})
      <4>1. Replanned(plan, shown) \in Job /\ Replanned(plan, shown).groups = {}
        BY ReplannedType DEF TypeOK, Replanned, Planned, Fresh
      <4>2. Registered(Replanned(plan, shown), {}, FALSE, clock).job.groups = {}
        <5>1. SameColumns(Registered(Replanned(plan, shown), {}, FALSE, clock).job, Replanned(plan, shown))
          BY <4>1, RegisteredColumns
        <5>. QED BY <4>1, <5>1 DEF SameColumns
      <4>. QED BY <3>2, <4>2 DEF Edit
    <3>. QED BY <1>4, <3>1, <3>2 DEF Edits
  <2>3. \A r \in Recipients : got'[r] <= firsts' + crashes'
    BY <2>1 DEF SlackInv, ConfirmedNotResent
  <2>4. job'.status # "deleted" => \A r \in job'.groups : got'[r] < firsts' + crashes'
    BY <2>1, <2>2 DEF SlackInv, Owed
  <2>5. ASSUME NEW d \in Caller, caller'[d].phase = "loaded", caller'[d].by = "retry"
        PROVE  \A r \in caller'[d].view.groups : got'[r] < firsts' + crashes'
    <3>1. \/ caller'[d] = caller[d]
          \/ caller'[d].view = job /\ job.status # "deleted"
      BY <2>5, ViewsMoved
    <3>2. Owed(caller'[d].view.groups)
      BY <2>5, <3>1 DEF SlackInv, LoadedRetry
    <3>. QED BY <2>1, <3>2 DEF Owed
  <2>. QED BY <1>1, <2>3, <2>4, <2>5 DEF SlackInv, ConfirmedNotResent, Owed, LoadedRetry
<1>. QED BY <1>2, <1>3, <1>4, StepKinds

LEMMA InitSlack == Init => SlackInv
<1>. SUFFICES ASSUME Init PROVE SlackInv
  OBVIOUS
<1>1. PICK plan \in Plans(Created, 0) : job = Registered(Planned(plan), {}, FALSE, 0).job
  BY DEF Init
<1>2. Planned(plan) \in Job /\ Planned(plan).groups = {}
  BY FreshType, CampaignAssumption DEF Plans, Planned, Fresh
<1>3. job.groups = {}
  <2>1. SameColumns(Registered(Planned(plan), {}, FALSE, 0).job, Planned(plan))
    BY <1>2, RegisteredColumns
  <2>. QED BY <1>1, <1>2, <2>1 DEF SameColumns
<1>4. \A c \in Caller : caller[c].phase = "idle"
  BY DEF Init, Asleep
<1>5. \A r \in Recipients : got[r] <= firsts + crashes
  BY DEF Init
<1>. QED BY <1>3, <1>4, <1>5 DEF SlackInv, OneRetry, Retrying, LoadedRetry, Owed, ConfirmedNotResent

(* Apart from a restart in the middle of a run, nobody gets more messages  *)
(* than there were runs: a retry goes only to recipients that have not     *)
(* acknowledged one, whatever runs overlap it, for any number of them.     *)
THEOREM NeverResentAlways == Spec => []ConfirmedNotResent
<1>1. SlackInv => ConfirmedNotResent
  BY DEF SlackInv
<1>2. Spec => []SlackInv
  BY InitSlack, NextSlack, TypeCorrect, PTL DEF Spec
<1>. QED BY <1>1, <1>2, PTL

-----------------------------------------------------------------------------
(* A completed one-time job reached everyone. Whatever a retry leaves out, *)
(* in the row or in a view however old, has been served by an earlier run. *)

SameInv == edits = 0 => \A c \in Caller : caller[c].phase = "loaded" => SameAs(caller[c].view)
Served(groups) == groups # {} => \A r \in Recipients \ groups : got[r] >= 1
ServedInv == /\ Served(job.groups)
             /\ \A c \in Caller : caller[c].phase = "loaded" => Served(caller[c].view.groups)

(* Until the first edit the schedule, its dates and the kind of list stay. *)
LEMMA RowKept ==
  ASSUME TypeOK, SameInv, [Next]_vars, edits' = 0
  PROVE  edits = 0 /\ SameAs(job')
<1>0. job \in Job /\ edits \in Nat
  BY DEF TypeOK
<1>1. CASE Plain
  BY <1>1 DEF Plain
<1>2. ASSUME NEW c \in Caller, NEW ok \in SUBSET Recipients, Deliver(c, ok) PROVE edits = 0 /\ SameAs(job')
  <2>1. /\ caller[c].view \in Job /\ Answered(c, ok) \in Job /\ edits' = edits
        /\ SameAs(caller[c].view) /\ Sends(c)
    BY <1>2, AnsweredType, CallerType DEF Deliver, Sends, budget, SameInv
  <2>2. PICK always \in {{}, {"retryAt"}} : Commit(caller[c].view, Answered(c, ok), always)
    BY <1>2 DEF Deliver, Answered
  <2>3. /\ Answered(c, ok).kind = caller[c].view.kind /\ Answered(c, ok).dates = caller[c].view.dates
        /\ Answered(c, ok).words = caller[c].view.words
    BY <2>1, AnsweredColumns
  <2>. QED BY <1>0, <2>1, <2>2, <2>3, CommitColumns DEF SameAs
<1>3. CASE Edits
  BY <1>0, <1>3 DEF Edits, Edit
<1>4. CASE Restart
  BY <1>0, <1>4, LoadedColumns DEF Restart, SameColumns, SameAs
<1>. QED BY <1>1, <1>2, <1>3, <1>4, StepKinds DEF Delivers

LEMMA NextSame == TypeOK /\ SameInv /\ [Next]_vars => SameInv'
<1>. SUFFICES ASSUME TypeOK, SameInv, [Next]_vars, edits' = 0, NEW c \in Caller, caller'[c].phase = "loaded"
              PROVE  SameAs(caller[c].view)'
  BY DEF SameInv
<1>1. edits = 0 /\ SameAs(job')
  BY RowKept
<1>2. \/ caller'[c] = caller[c] \/ caller'[c].view = job
  BY ViewsMoved
<1>. QED BY <1>1, <1>2 DEF SameInv, SameAs

LEMMA GotGrows ==
  ASSUME TypeOK, [Next]_vars, NEW r \in Recipients, got[r] >= 1
  PROVE  got'[r] >= 1
<1>0. got \in [Recipients -> Nat]
  BY DEF TypeOK
<1>1. CASE Plain \/ Edits
  BY <1>1 DEF Plain, Edits, Edit, ghosts
<1>2. CASE Delivers
  BY <1>0, <1>2 DEF Delivers, Deliver
<1>3. CASE Restart
  <2>1. PICK reached \in [Cut -> SUBSET Recipients] :
          got' = [s \in Recipients |-> got[s] + Cardinality({c \in Cut : s \in reached[c]})]
    BY <1>3 DEF Restart
  <2>2. Cardinality({c \in Cut : r \in reached[c]}) \in Nat
    <3>1. {c \in Cut : r \in reached[c]} \in SUBSET Caller
      BY DEF Cut
    <3>. QED BY <3>1, FS_Subset, FS_CardinalityType, CampaignAssumption
  <2>. QED BY <1>0, <2>1, <2>2
<1>. QED BY <1>1, <1>2, <1>3, StepKinds

(* After a run, everyone but those it failed to reach has been served.     *)
LEMMA DeliverServes ==
  ASSUME TypeOK, ServedInv, NEW c \in Caller, NEW ok \in SUBSET Recipients, Deliver(c, ok)
  PROVE  \A r \in Recipients \ (Targets(c) \ ok) : got[r] >= 1 \/ r \in ok
<1>1. Sends(c) /\ caller[c].phase = "loaded"
  BY DEF Deliver, Sends
<1>2. CASE caller[c].by = "retry"
  <2>1. Targets(c) = caller[c].view.groups /\ Targets(c) # {} /\ Served(caller[c].view.groups)
    BY <1>1, <1>2 DEF Targets, Sends, ServedInv
  <2>. QED BY <2>1 DEF Served
<1>3. CASE caller[c].by # "retry"
  BY <1>3 DEF Targets
<1>. QED BY <1>2, <1>3

LEMMA NextServed == TypeOK /\ ServedInv /\ [Next]_vars => ServedInv'
<1>. SUFFICES ASSUME TypeOK, ServedInv, [Next]_vars PROVE ServedInv'
  OBVIOUS
<1>0. job \in Job /\ got \in [Recipients -> Nat]
  BY DEF TypeOK
<1>1. \A groups : Served(groups) => (groups # {} => \A r \in Recipients \ groups : got'[r] >= 1)
  BY GotGrows DEF Served
<1>2. \A c \in Caller : caller'[c].phase = "loaded" => Served(caller'[c].view.groups)
  <2>1. ASSUME NEW c \in Caller, caller'[c].phase = "loaded" PROVE Served(caller'[c].view.groups)
    BY <2>1, ViewsMoved DEF ServedInv
  <2>. QED BY <2>1
<1>3. job'.groups # {} => \A r \in Recipients \ job'.groups : got'[r] >= 1
  <2>1. CASE Plain
    BY <1>1, <2>1 DEF Plain, ServedInv
  <2>2. ASSUME NEW c \in Caller, NEW ok \in SUBSET Recipients, Deliver(c, ok),
               job'.groups # {}, NEW r \in Recipients \ job'.groups
        PROVE  got'[r] >= 1
    <3>1. /\ caller[c].view \in Job /\ Answered(c, ok) \in Job /\ Sends(c)
          /\ got' = [s \in Recipients |-> got[s] + IF s \in ok THEN 1 ELSE 0]
      BY <2>2, AnsweredType, CallerType DEF Deliver
    <3>2. PICK always \in {{}, {"retryAt"}} : Commit(caller[c].view, Answered(c, ok), always)
      BY <2>2 DEF Deliver, Answered
    <3>3. Answered(c, ok).groups = {} \/ Answered(c, ok).groups = Targets(c) \ ok
      BY <3>1, AnsweredColumns
    <3>4. job'.groups = job.groups \/ job'.groups = Answered(c, ok).groups
      BY <1>0, <3>1, <3>2, CommitColumns
    <3>5. CASE job'.groups = job.groups
      BY <1>1, <2>2, <3>5 DEF ServedInv
    <3>6. CASE job'.groups = Targets(c) \ ok
      BY <1>0, <2>2, <3>1, <3>6, DeliverServes
    <3>. QED BY <2>2, <3>3, <3>4, <3>5, <3>6
  <2>3. ASSUME NEW plan \in Plans(Edited, clock), NEW shown \in 0..WordTotal, Edit(plan, shown)
        PROVE  job'.groups = job.groups \/ job'.groups = {}
    <3>1. Replanned(plan, shown) \in Job /\ Replanned(plan, shown).groups = {}
      BY ReplannedType DEF TypeOK, Replanned, Planned, Fresh
    <3>2. SameColumns(Registered(Replanned(plan, shown), {}, FALSE, clock).job, Replanned(plan, shown))
      BY <3>1, RegisteredColumns
    <3>. QED BY <2>3, <3>1, <3>2 DEF Edit, SameColumns
  <2>4. CASE Restart
    BY <1>0, <1>1, <2>4, LoadedColumns DEF Restart, SameColumns, ServedInv
  <2>. QED BY <1>1, <2>1, <2>2, <2>3, <2>4, StepKinds DEF Delivers, Edits, ServedInv
<1>. QED BY <1>1, <1>2, <1>3 DEF ServedInv, Served

LEMMA InitViews == Init => SameInv /\ ServedInv
<1>. SUFFICES ASSUME Init PROVE SameInv /\ ServedInv
  OBVIOUS
<1>1. PICK plan \in Plans(Created, 0) : job = Registered(Planned(plan), {}, FALSE, 0).job
  BY DEF Init
<1>2. Planned(plan) \in Job /\ Planned(plan).groups = {}
  BY FreshType, CampaignAssumption DEF Plans, Planned, Fresh
<1>3. SameColumns(Registered(Planned(plan), {}, FALSE, 0).job, Planned(plan))
  BY <1>2, RegisteredColumns
<1>4. job.groups = {}
  BY <1>1, <1>2, <1>3 DEF SameColumns
<1>5. \A c \in Caller : caller[c].phase = "idle"
  BY DEF Init, Asleep
<1>. QED BY <1>4, <1>5 DEF SameInv, ServedInv, Served

(* Registering a job whose list does not stop completes it only when all   *)
(* its picked dates have passed.                                           *)
LEMMA RegisteredOpen ==
  ASSUME NEW j \in Job, j.words # "stop", NEW due, NEW retry, NEW now
  PROVE  Registered(j, due, retry, now).job.status =
           IF j.status \notin {"active", "retry_scheduled"} THEN j.status
           ELSE IF PassedDates(j, now) THEN (IF j.status = "retry_scheduled" THEN j.status ELSE "completed")
           ELSE IF j.kind = "trigger" THEN j.status ELSE "active"
BY DEF Registered, WordsFinished, Job

OneTime(j) == j.kind \in {"date", "now"}

LEMMA OneTimeRegistered ==
  ASSUME NEW j \in Job, j.words # "stop", OneTime(j), j.status # "completed", NEW due, NEW retry, NEW now
  PROVE  Registered(j, due, retry, now).job.status # "completed"
BY RegisteredOpen DEF PassedDates, OneTime

LEMMA NotCompletedByLoading ==
  ASSUME job \in Job, job.words # "stop", OneTime(job), job.status # "completed", NEW now
  PROVE  Loaded(now).job.status # "completed"
<1>1. Registered(job, {}, FALSE, now).job.status # "completed"
  BY OneTimeRegistered
<1>2. [job EXCEPT !.status = "failed"].status = "failed"
  BY DEF Job
<1>. QED BY <1>1, <1>2 DEF Loaded

LEMMA NotCompletedByResuming ==
  ASSUME TypeOK, job.words # "stop", OneTime(job), Resume
  PROVE  job'.status # "completed"
<1>0. job \in Job /\ job.status = "paused"
  BY DEF TypeOK, Resume
<1>. DEFINE j == [job EXCEPT !.status = IF job.kind = "trigger" THEN "trigger" ELSE "active"]
<1>1. j \in Job /\ SameColumns(j, job) /\ j.status # "completed"
  BY <1>0 DEF Job, Status, SameColumns
<1>. HIDE DEF j
<1>2. \/ job' = job
      \/ job' = [job EXCEPT !.status = "retry_scheduled"]
      \/ job' = Registered(j, timer, retryTimer, clock).job
  BY DEF Resume, j
<1>3. [job EXCEPT !.status = "retry_scheduled"].status = "retry_scheduled"
  BY <1>0 DEF Job
<1>4. j.kind \in {"date", "now"} /\ j.words # "stop"
  BY <1>1 DEF SameColumns, OneTime
<1>5. Registered(j, timer, retryTimer, clock).job.status # "completed"
  BY <1>1, <1>4, RegisteredOpen DEF PassedDates
<1>. QED BY <1>0, <1>2, <1>3, <1>5

LEMMA NextDelivered ==
  TypeOK /\ SameInv /\ ServedInv /\ CompletedDelivered /\ [Next]_vars => CompletedDelivered'
<1>. SUFFICES ASSUME TypeOK, SameInv, ServedInv, CompletedDelivered, [Next]_vars,
                     job'.kind \in {"date", "now"}, job'.status = "completed", job'.words # "stop",
                     edits' = 0, ~skipped'
              PROVE  \A r \in Recipients : got'[r] >= 1
  BY DEF CompletedDelivered
<1>0. edits = 0 /\ job'.kind = job.kind /\ job'.words = job.words /\ job \in Job /\ got \in [Recipients -> Nat]
  BY RowKept DEF SameAs, TypeOK
<1>1. ~skipped
  BY DEF Next, vars, ghosts, Fire, FireRetry, Tick, Pause, Cancel, Delete, Stops, Resume, Skip, SkipClear,
         Edit, Restart, Runs, Begin, SkipRun, WordsRunOut, NoRecipients, Deliver, SendNow
<1>2. CASE job.status = "completed"
  <2>1. \A r \in Recipients : got[r] >= 1
    BY <1>0, <1>1, <1>2 DEF CompletedDelivered
  <2>. QED BY <2>1, GotGrows
<1>3. CASE job.status # "completed"
  <2>1. ASSUME NEW c \in Caller, NEW ok \in SUBSET Recipients, Deliver(c, ok)
        PROVE  \A r \in Recipients : got'[r] >= 1
    <3>. DEFINE v == caller[c].view
                a == Answered(c, ok)
    <3>1. /\ v \in Job /\ a \in Job /\ Sends(c) /\ SameAs(v)
          /\ got' = [s \in Recipients |-> got[s] + IF s \in ok THEN 1 ELSE 0]
      BY <1>0, <2>1, AnsweredType, CallerType DEF Deliver, Sends, SameInv
    <3>2. PICK always \in {{}, {"retryAt"}} : Commit(v, a, always)
      BY <2>1 DEF Deliver, Answered
    <3>3. a.status = "completed" /\ a.status # v.status
      BY <1>0, <1>3, <3>1, <3>2, CommitColumns
    <3>4. v.kind \in {"date", "now"}
      BY <1>0, <3>1 DEF SameAs
    <3>5. IsLastRun(Filled(c), clock)
      BY <3>1, <3>4 DEF IsLastRun, Filled, Job
    <3>6. Targets(c) \ ok = {}
      BY <3>1, <3>3, <3>5, AnsweredColumns DEF GivenUp
    <3>. QED BY <1>0, <2>1, <3>1, <3>6, DeliverServes
  <2>2. CASE Restart
    BY <1>0, <1>3, <2>2, NotCompletedByLoading DEF Restart, OneTime
  <2>3. CASE Resume
    BY <1>0, <2>3, NotCompletedByResuming DEF OneTime
  <2>4. CASE Fire \/ FireRetry \/ Tick \/ UNCHANGED vars
    BY <1>3, <2>4 DEF Fire, FireRetry, Tick, vars
  <2>5. CASE Pause \/ Cancel \/ Delete
    BY <1>0, <2>5 DEF Pause, Cancel, Delete, Stops, Job
  <2>6. CASE Skip \/ SkipClear
    BY <1>0, <1>3, <2>6 DEF Skip, SkipClear, Job
  <2>7. ASSUME NEW c \in Caller, Runs(c) PROVE \A r \in Recipients : got'[r] >= 1
    <3>1. ~Begin(c) /\ ~NoRecipients(c) /\ ~SkipRun(c)
      BY <1>3 DEF Begin, NoRecipients, SkipRun
    <3>2. CASE WordsRunOut(c)
      <4>1. caller[c].view.words = "stop" /\ SameAs(caller[c].view)
        BY <1>0, <3>2 DEF WordsRunOut, WordsDone, WordsFinished, SameInv
      <4>. QED BY <1>0, <4>1 DEF SameAs
    <3>. QED BY <2>1, <2>7, <3>1, <3>2 DEF Runs
  <2>8. ASSUME NEW c \in Caller, SendNow(c) PROVE \A r \in Recipients : got'[r] >= 1
    BY <1>0, <1>3, <2>8 DEF SendNow, Job
  <2>9. ~Edits
    BY <1>0 DEF Edits, Edit
  <2>. QED BY <2>2, <2>3, <2>4, <2>5, <2>6, <2>7, <2>8, <2>9 DEF Next, Edits
<1>. QED BY <1>2, <1>3

LEMMA InitDelivered == Init => CompletedDelivered
<1>. SUFFICES ASSUME Init, OneTime(job), job.words # "stop" PROVE job.status # "completed"
  BY DEF CompletedDelivered, OneTime
<1>1. PICK plan \in Plans(Created, 0) : job = Registered(Planned(plan), {}, FALSE, 0).job
  BY DEF Init
<1>2. Planned(plan) \in Job /\ Planned(plan).status \in {"active", "trigger"}
  BY FreshType, CampaignAssumption DEF Plans, Planned, Fresh
<1>3. SameColumns(Registered(Planned(plan), {}, FALSE, 0).job, Planned(plan))
  BY <1>2, RegisteredColumns
<1>4. OneTime(Planned(plan)) /\ Planned(plan).words # "stop"
  BY <1>1, <1>3 DEF SameColumns, OneTime
<1>5. Registered(Planned(plan), {}, FALSE, 0).job.status # "completed"
  BY <1>2, <1>4, OneTimeRegistered
<1>. QED BY <1>1, <1>5

ViewsCorrect == SameInv /\ ServedInv

(* A one-time job that is shown as completed has reached every recipient,  *)
(* by whichever of its runs and retries, for any number of them in flight. *)
THEOREM CompletedAlwaysDelivered == Spec => []CompletedDelivered
<1>1. Spec => []ViewsCorrect
  <2>1. TypeOK /\ ViewsCorrect /\ [Next]_vars => ViewsCorrect'
    BY NextSame, NextServed DEF ViewsCorrect
  <2>2. Init => ViewsCorrect
    BY InitViews DEF ViewsCorrect
  <2>. QED BY <2>1, <2>2, TypeCorrect, PTL DEF Spec
<1>2. TypeOK /\ ViewsCorrect /\ CompletedDelivered /\ [Next]_vars => CompletedDelivered'
  BY NextDelivered DEF ViewsCorrect
<1>. QED BY <1>1, <1>2, InitDelivered, TypeCorrect, PTL DEF Spec

-----------------------------------------------------------------------------
(* A scheduled job is not forgotten. A status fits a schedule: a repeating *)
(* one is active until somebody stops it, picked dates are over when none  *)
(* of them is left. A stale view that is older than a change of the status *)
(* could undo it; while the job is active, every view has it active.       *)

Ended == {"completed", "failed", "retry_scheduled"}
Fits(s, j, now) ==
  /\ j.kind # "trigger" => s # "trigger"
  /\ j.words # "stop" =>
       /\ j.kind = "trigger" => s # "active"
       /\ j.kind = "cron" => s \in {"active"} \cup Stopped
       /\ j.kind = "dates" /\ s \in Ended => RemainingDates(j, now) = {}

StatusInv == edits = 0 => /\ Fits(job.status, job, clock)
                          /\ \A c \in Caller : caller[c].phase = "loaded" => Fits(caller[c].view.status, job, clock)
ViewInv == ~late => \A c \in Caller : caller[c].phase = "loaded" => caller[c].view.status \notin Stopped

LEMMA FitsLater ==
  ASSUME NEW s, NEW j \in Job, NEW now \in Int, NEW later \in Int, now <= later, Fits(s, j, now)
  PROVE  Fits(s, j, later)
<1>1. \A d \in j.dates : d \in Int
  BY CampaignAssumption DEF Job, Time
<1>2. RemainingDates(j, now) = {} => RemainingDates(j, later) = {}
  BY <1>1 DEF RemainingDates
<1>. QED BY <1>2 DEF Fits

LEMMA FitsSame ==
  ASSUME NEW s, NEW j, NEW k, j.kind = k.kind, j.dates = k.dates, j.words = k.words, NEW now, Fits(s, j, now)
  PROVE  Fits(s, k, now)
BY DEF Fits, RemainingDates

LEMMA LastRunIs ==
  ASSUME NEW j, j.words # "stop", NEW now
  PROVE  IsLastRun(j, now) <=> \/ j.kind = "dates" /\ RemainingDates(j, now) = {}
                               \/ OneTime(j)
BY DEF IsLastRun, WordsFinished, OneTime

(* Picked dates that passed more than the grace ago have passed.           *)
LEMMA GraceCovers ==
  ASSUME NEW j \in Job, NEW now \in Int
  PROVE  RemainingDates(j, now) \subseteq RemainingDates(j, now - Grace)
<1>1. \A d \in j.dates : d \in Int
  BY CampaignAssumption DEF Job, Time
<1>. QED BY <1>1, CampaignAssumption DEF RemainingDates

LEMMA AnsweredFits ==
  ASSUME TypeOK, NEW c \in Caller, NEW ok, Sends(c), Fits(caller[c].view.status, caller[c].view, clock)
  PROVE  Fits(Answered(c, ok).status, caller[c].view, clock)
<1>. DEFINE v == caller[c].view
            j == Filled(c)
            s == Answered(c, ok).status
<1>1. /\ v \in Job /\ j.kind = v.kind /\ j.dates = v.dates /\ j.words = v.words /\ j.status = v.status
  <2>1. v \in Job
    BY CallerType
  <2>. QED BY <2>1 DEF Filled, Job
<1>2. \/ s = SentStatus(j, clock)
      \/ s = GivenUp(j, clock)
      \/ s = IF IsLastRun(j, clock) THEN "retry_scheduled" ELSE j.status
  BY AnsweredColumns
<1>3. RemainingDates(j, clock) = RemainingDates(v, clock)
  BY <1>1 DEF RemainingDates
<1>. HIDE DEF j, s, v
<1>4. CASE v.words = "stop"
  <2>1. j.kind # "trigger" => SentStatus(j, clock) # "trigger"
    BY DEF SentStatus
  <2>. QED BY <1>1, <1>2, <1>4, <2>1 DEF Fits, GivenUp, v, s
<1>5. CASE v.words # "stop"
  <2>1. IsLastRun(j, clock) <=> \/ v.kind = "dates" /\ RemainingDates(v, clock) = {}
                                \/ v.kind \in {"date", "now"}
    BY <1>1, <1>3, <1>5, LastRunIs DEF OneTime
  <2>2. ~WordsFinished(j)
    BY <1>1, <1>5 DEF WordsFinished
  <2>3. SentStatus(j, clock) = CASE v.kind = "trigger" -> "trigger"
                                 [] v.kind = "cron" -> "active"
                                 [] OTHER -> IF IsLastRun(j, clock) THEN "completed" ELSE "active"
    BY <1>1, <2>2 DEF SentStatus
  <2>4. v.kind \in {"now", "date", "dates", "cron", "trigger"}
    BY <1>1, RowType
  <2>. QED BY <1>1, <1>2, <1>5, <2>1, <2>3, <2>4 DEF Fits, GivenUp, Ended, v, s
<1>. QED BY <1>4, <1>5

(* What register_job leaves behind when the list does not stop.            *)
LEMMA RegisteredFits ==
  ASSUME NEW j \in Job, NEW due, NEW retry, NEW now \in Int, Fits(j.status, j, now)
  PROVE  Fits(Registered(j, due, retry, now).job.status, j, now)
<1>1. CASE j.words # "stop"
  <2>1. PassedDates(j, now) => j.kind = "dates" /\ RemainingDates(j, now) = {}
    BY GraceCovers DEF PassedDates
  <2>. QED BY <1>1, <2>1, RegisteredOpen DEF Fits, Stopped, Ended
<1>2. CASE j.words = "stop"
  <2>1. Registered(j, due, retry, now).job.status \in {j.status, "active", "completed"}
    BY DEF Registered, Job
  <2>. QED BY <1>2, <2>1 DEF Fits
<1>. QED BY <1>1, <1>2

LEMMA RegisteredTimer ==
  ASSUME NEW j \in Job, NEW due, NEW retry, NEW now \in Int, j.words # "stop", j.kind # "trigger",
         j.status \in {"active", "retry_scheduled"},
         Registered(j, due, retry, now).job.status = "active",
         ~Registered(j, due, retry, now).raised
  PROVE  /\ Registered(j, due, retry, now).timer # {}
         /\ j.kind = "cron" => Anytime \in Registered(j, due, retry, now).timer
         /\ j.kind = "dates" => RemainingDates(j, now) \subseteq Registered(j, due, retry, now).timer
<1>1. ~WordsFinished(j)
  BY DEF WordsFinished
<1>2. ~PassedDates(j, now)
  BY <1>1, RegisteredOpen
<1>3. Registered(j, due, retry, now).timer = BuildTrigger(j, now) /\ BuildTrigger(j, now) # {}
  BY <1>1, <1>2 DEF Registered
<1>. QED BY <1>3, GraceCovers DEF BuildTrigger

LEMMA LoadedFits ==
  ASSUME TypeOK, NEW now \in Int, Fits(job.status, job, now)
  PROVE  Fits(Loaded(now).job.status, job, now)
<1>0. job \in Job
  BY DEF TypeOK
<1>1. SameColumns(Registered(job, {}, FALSE, now).job, job)
  BY <1>0, RegisteredColumns
<1>2. Fits(Registered(job, {}, FALSE, now).job.status, job, now)
  BY <1>0, RegisteredFits
<1>3. CASE Loaded(now).job = job \/ Loaded(now).job = Registered(job, {}, FALSE, now).job
  BY <1>2, <1>3
<1>4. CASE ~(Loaded(now).job = job \/ Loaded(now).job = Registered(job, {}, FALSE, now).job)
  <2>1. /\ Loaded(now).job.status = "failed" /\ job.status \in {"active", "retry_scheduled"}
        /\ Registered(job, {}, FALSE, now).raised
    BY <1>0, <1>4 DEF Loaded, Reloaded, Job
  <2>2. /\ job.kind # "trigger" /\ BuildTrigger(job, now) = {} /\ ~PassedDates(job, now)
    BY <1>0, <2>1 DEF Registered
  <2>3. job.kind \in {"date", "now"}
    BY <1>0, <2>2 DEF BuildTrigger, PassedDates, Job
  <2>. QED BY <2>1, <2>3 DEF Fits
<1>. QED BY <1>3, <1>4

LEMMA ResumeCases ==
  ASSUME TypeOK, Resume
  PROVE  LET j == [job EXCEPT !.status = IF job.kind = "trigger" THEN "trigger" ELSE "active"]
             done == Registered(j, timer, retryTimer, clock)
         IN /\ j \in Job /\ SameColumns(j, job)
            /\ j.status = IF job.kind = "trigger" THEN "trigger" ELSE "active"
            /\ \/ /\ job.retryAt /\ IsLastRun(job, clock) /\ job'.status = "retry_scheduled"
                  /\ retryTimer' = (retryTimer \/ RetryDue(job))
               \/ job' = job
               \/ job' = done.job /\ timer' = done.timer /\ ~done.raised
<1>0. job \in Job
  BY DEF TypeOK
<1>. DEFINE j == [job EXCEPT !.status = IF job.kind = "trigger" THEN "trigger" ELSE "active"]
<1>1. j \in Job /\ SameColumns(j, job) /\ j.status = IF job.kind = "trigger" THEN "trigger" ELSE "active"
  BY <1>0 DEF Job, Status, SameColumns
<1>2. [job EXCEPT !.status = "retry_scheduled"].status = "retry_scheduled"
  BY <1>0 DEF Job
<1>. HIDE DEF j
<1>3. CASE job.retryAt /\ IsLastRun(job, clock)
  BY <1>1, <1>2, <1>3 DEF Resume, j
<1>4. CASE ~(job.retryAt /\ IsLastRun(job, clock))
  BY <1>1, <1>4 DEF Resume, j
<1>. QED BY <1>1, <1>3, <1>4 DEF j

LEMMA ClockGrows ==
  ASSUME TypeOK, [Next]_vars
  PROVE  clock \in Int /\ clock' \in Int /\ clock <= clock'
<1>1. clock \in Time /\ clock' \in Time /\ Time \subseteq Int
  BY NextType, CampaignAssumption DEF TypeOK, Time
<1>2. clock' = clock \/ clock' = clock + 1 \/ clock' \in clock..MaxTime
  BY DEF Next, vars, ghosts, budget, Fire, FireRetry, Tick, Pause, Cancel, Delete, Stops, Resume, Skip,
         SkipClear, Edit, Restart, Runs, Begin, SkipRun, WordsRunOut, NoRecipients, Deliver, SendNow
<1>. QED BY <1>1, <1>2, CampaignAssumption

(* A status is replaced only by one that fits the schedule.                *)
LEMMA NewStatusFits ==
  ASSUME TypeOK, SameInv, StatusInv, [Next]_vars, edits' = 0
  PROVE  Fits(job'.status, job, clock')
<1>0. /\ edits = 0 /\ job \in Job /\ clock \in Int /\ clock' \in Int /\ clock <= clock'
      /\ Fits(job.status, job, clock)
  BY RowKept, ClockGrows DEF TypeOK, StatusInv
<1>1. \A s : Fits(s, job, clock) => Fits(s, job, clock')
  BY <1>0, FitsLater
<1>2. ASSUME NEW new \in Job, NEW always, NEW c \in Caller, caller[c].phase = "loaded",
             "status" \notin always, Commit(caller[c].view, new, always),
             Fits(caller[c].view.status, job, clock) => Fits(new.status, job, clock)
      PROVE  Fits(job'.status, job, clock)
  <2>1. Fits(caller[c].view.status, job, clock) /\ caller[c].view \in Job
    BY <1>0, <1>2, CallerType DEF StatusInv
  <2>2. job'.status = job.status \/ job'.status = new.status
    BY <1>0, <1>2, <2>1, CommitColumns
  <2>. QED BY <1>0, <1>2, <2>1, <2>2
<1>3. CASE Fire \/ FireRetry \/ Tick \/ Skip \/ SkipClear \/ UNCHANGED vars
  BY <1>0, <1>1, <1>3 DEF Fire, FireRetry, Tick, Skip, SkipClear, vars, Job
<1>4. CASE Pause \/ Cancel \/ Delete
  <2>1. job'.status \in Stopped
    BY <1>0, <1>4 DEF Pause, Cancel, Delete, Stops, Job, Stopped
  <2>. QED BY <2>1 DEF Fits, Stopped, Ended
<1>5. CASE Resume
  <2>. DEFINE j == [job EXCEPT !.status = IF job.kind = "trigger" THEN "trigger" ELSE "active"]
  <2>1. /\ j \in Job /\ SameColumns(j, job)
        /\ j.status = IF job.kind = "trigger" THEN "trigger" ELSE "active"
        /\ \/ IsLastRun(job, clock) /\ job'.status = "retry_scheduled"
           \/ job' = job
           \/ job' = Registered(j, timer, retryTimer, clock).job
    BY <1>5, ResumeCases
  <2>. HIDE DEF j
  <2>2. Fits(j.status, j, clock)
    BY <2>1 DEF Fits, Ended, SameColumns
  <2>3. Fits(Registered(j, timer, retryTimer, clock).job.status, j, clock)
    BY <1>0, <2>1, <2>2, RegisteredFits
  <2>4. Fits(Registered(j, timer, retryTimer, clock).job.status, job, clock)
    BY <2>1, <2>3, FitsSame DEF SameColumns
  <2>5. IsLastRun(job, clock) => Fits("retry_scheduled", job, clock)
    BY LastRunIs DEF Fits, OneTime, Ended
  <2>. QED BY <1>0, <1>1, <2>1, <2>4, <2>5
<1>6. CASE Edits
  BY <1>0, <1>6 DEF Edits, Edit
<1>7. CASE Restart
  <2>1. PICK now \in clock..MaxTime : clock' = now /\ job' = Loaded(now).job
    BY <1>7 DEF Restart
  <2>. QED BY <1>0, <1>1, <2>1, LoadedFits
<1>8. ASSUME NEW c \in Caller, Runs(c) PROVE Fits(job'.status, job, clock)
  <2>0. caller[c].view \in Job /\ (caller[c].phase = "loaded" => SameAs(caller[c].view))
    BY <1>0, CallerType DEF SameInv
  <2>1. CASE Begin(c) \/ NoRecipients(c)
    BY <1>0, <2>1 DEF Begin, NoRecipients
  <2>2. CASE SkipRun(c)
    <3>. DEFINE new == SkippedRow(caller[c].view, clock)
    <3>1. /\ new \in Job /\ caller[c].phase = "loaded" /\ Commit(caller[c].view, new, {})
          /\ new.status = IF \/ caller[c].view.kind = "date"
                             \/ caller[c].view.kind = "dates" /\ RemainingDates(caller[c].view, clock) = {}
                          THEN "completed" ELSE caller[c].view.status
      BY <2>0, <2>2, SkippedRowType, SkippedColumns DEF SkipRun, Skips, TypeOK
    <3>2. Fits(caller[c].view.status, job, clock) => Fits(new.status, job, clock)
      BY <2>0, <3>1 DEF Fits, SameAs, RemainingDates, Ended
    <3>. HIDE DEF new
    <3>. QED BY <1>2, <3>1, <3>2
  <2>3. CASE WordsRunOut(c)
    <3>. DEFINE v == caller[c].view
                new == [v EXCEPT !.status = IF @ \in {"active", "trigger"} THEN "completed" ELSE @]
    <3>1. new \in Job /\ new.status \in {v.status, "completed"} /\ v.words = "stop" /\ caller[c].phase = "loaded"
      BY <2>0, <2>3 DEF Job, Status, WordsRunOut, WordsDone, WordsFinished
    <3>2. Commit(v, new, {})
      BY <2>3 DEF WordsRunOut
    <3>. HIDE DEF new
    <3>3. Fits(v.status, job, clock) => Fits(new.status, job, clock)
      BY <2>0, <3>1 DEF Fits, SameAs
    <3>. QED BY <1>2, <3>1, <3>2, <3>3
  <2>4. ASSUME NEW ok \in SUBSET Recipients, Deliver(c, ok) PROVE Fits(job'.status, job, clock)
    <3>1. Sends(c) /\ caller[c].phase = "loaded" /\ Answered(c, ok) \in Job /\ SameAs(caller[c].view)
      BY <2>0, <2>4, AnsweredType DEF Deliver, Sends
    <3>2. PICK always \in {{}, {"retryAt"}} : Commit(caller[c].view, Answered(c, ok), always)
      BY <2>4 DEF Deliver, Answered
    <3>3. Fits(caller[c].view.status, job, clock) => Fits(Answered(c, ok).status, job, clock)
      BY <3>1, AnsweredFits, FitsSame DEF SameAs
    <3>. QED BY <1>2, <3>1, <3>2, <3>3
  <2>. QED BY <1>8, <2>1, <2>2, <2>3, <2>4 DEF Runs
<1>9. ASSUME NEW c \in Caller, SendNow(c) PROVE Fits(job'.status, job, clock)
  <2>1. job'.status = job.status
    BY <1>0, <1>9 DEF SendNow, Job
  <2>. QED BY <1>0, <2>1
<1>. QED BY <1>1, <1>3, <1>4, <1>5, <1>6, <1>7, <1>8, <1>9 DEF Next, Edits

LEMMA NextStatus == TypeOK /\ SameInv /\ StatusInv /\ [Next]_vars => StatusInv'
<1>. SUFFICES ASSUME TypeOK, SameInv, StatusInv, [Next]_vars, edits' = 0
              PROVE  /\ Fits(job'.status, job', clock')
                     /\ \A c \in Caller : caller'[c].phase = "loaded" => Fits(caller'[c].view.status, job', clock')
  BY DEF StatusInv
<1>0. /\ edits = 0 /\ job \in Job /\ clock \in Int /\ clock' \in Int /\ clock <= clock'
      /\ job'.kind = job.kind /\ job'.dates = job.dates /\ job'.words = job.words
  BY RowKept, ClockGrows DEF TypeOK, SameAs
<1>1. Fits(job'.status, job', clock')
  BY <1>0, NewStatusFits, FitsSame
<1>2. ASSUME NEW c \in Caller, caller'[c].phase = "loaded" PROVE Fits(caller'[c].view.status, job', clock')
  <2>1. Fits(caller'[c].view.status, job, clock)
    BY <1>0, <1>2, ViewsMoved DEF StatusInv
  <2>2. Fits(caller'[c].view.status, job, clock')
    BY <1>0, <2>1, FitsLater
  <2>. QED BY <1>0, <2>2, FitsSame
<1>. QED BY <1>1, <1>2

(* A stop that finds nobody at work, and a restart, are what clears late.  *)
LEMMA LateCleared ==
  ASSUME TypeOK, [Next]_vars, ~late'
  PROVE  ~late \/ (job'.status \in Stopped /\ Quiet /\ caller' = caller) \/ Restart
<1>1. CASE Pause \/ Cancel \/ Delete
  BY <1>1 DEF Pause, Cancel, Delete, Stops, Stopped, TypeOK, Job
<1>2. CASE ~(Pause \/ Cancel \/ Delete \/ Restart)
  BY <1>2 DEF Next, vars, ghosts, budget, Fire, FireRetry, Tick, Resume, Skip,
              SkipClear, Edit, Runs, Begin, SkipRun, WordsRunOut, NoRecipients, Deliver, SendNow
<1>. QED BY <1>1, <1>2

LEMMA NextView == TypeOK /\ StopHolds /\ ViewInv /\ [Next]_vars => ViewInv'
<1>. SUFFICES ASSUME TypeOK, StopHolds, ViewInv, [Next]_vars, ~late', NEW c \in Caller, caller'[c].phase = "loaded"
              PROVE  caller'[c].view.status \notin Stopped
  BY DEF ViewInv
<1>1. ~Restart
  BY DEF Restart, Asleep
<1>2. ~(Quiet /\ caller' = caller)
  BY DEF Quiet
<1>3. ~late
  BY <1>1, <1>2, LateCleared
<1>4. CASE caller'[c] = caller[c]
  BY <1>3, <1>4 DEF ViewInv
<1>5. CASE caller'[c] # caller[c]
  <2>1. caller'[c].view = job /\ caller[c].phase = "called"
    BY <1>5, ViewsMoved
  <2>2. ~Quiet
    BY <2>1 DEF Quiet
  <2>. QED BY <1>3, <2>1, <2>2 DEF StopHolds, Stopped
<1>. QED BY <1>4, <1>5

(* A run that is not a retry and will see the job active.                  *)
Awaits(c) == /\ caller[c].by # "retry"
             /\ \/ caller[c].phase = "called"
                \/ caller[c].phase = "loaded" /\ caller[c].view.status = "active"
Watched == /\ job.kind = "cron" => Anytime \in timer
           /\ job.kind = "dates" => RemainingDates(job, clock) \subseteq timer
           /\ timer # {} \/ \E c \in Caller : Awaits(c)
Scheduled == edits = 0 /\ ~late /\ job.words # "stop" /\ job.status = "active"

ActiveInv ==
  Scheduled => /\ \A c \in Caller : caller[c].phase = "loaded" => caller[c].view.status = "active"
               /\ Watched

(* The row is active again only after a resumption or a restart.           *)
LEMMA DeliverActive ==
  ASSUME TypeOK, SameInv, StatusInv, ViewInv, ActiveInv, NEW c \in Caller, NEW ok \in SUBSET Recipients,
         Deliver(c, ok), Scheduled'
  PROVE  /\ job.status = "active" /\ timer' = timer
         /\ job.kind = "cron" \/ (job.kind = "dates" /\ RemainingDates(job, clock) # {})
<1>. DEFINE v == caller[c].view
            a == Answered(c, ok)
            j == Filled(c)
<1>1. /\ v \in Job /\ a \in Job /\ Sends(c) /\ caller[c].phase = "loaded" /\ job \in Job
      /\ j.kind = v.kind /\ j.dates = v.dates /\ j.words = v.words /\ j.status = v.status
  <2>1. v \in Job /\ a \in Job /\ Sends(c) /\ caller[c].phase = "loaded" /\ job \in Job
    BY AnsweredType, CallerType DEF Deliver, Sends, TypeOK
  <2>. QED BY <2>1 DEF Filled, Job
<1>2. PICK always \in {{}, {"retryAt"}} : Commit(v, a, always)
  BY DEF Deliver, Answered
<1>3. edits = 0 /\ ~late /\ SameAs(v)
  BY <1>1 DEF Scheduled, Deliver, budget, SameInv
<1>4. job'.words = job.words /\ job'.status = "active"
  <2>1. a.words = v.words
    BY <1>1, AnsweredColumns
  <2>. QED BY <1>1, <1>2, <1>3, <2>1, CommitColumns DEF Scheduled, SameAs
<1>5. job.words # "stop" /\ v.words # "stop" /\ ~WordsFinished(j)
  BY <1>1, <1>3, <1>4 DEF Scheduled, SameAs, WordsFinished
<1>6. timer' = timer
  BY <1>5 DEF Deliver
<1>7. Fits(v.status, job, clock) /\ v.status \notin Stopped /\ v.status \in Status
  BY <1>1, <1>3, RowType DEF StatusInv, ViewInv
<1>8. RemainingDates(j, clock) = RemainingDates(job, clock) /\ j.kind = job.kind
  BY <1>1, <1>3 DEF SameAs, RemainingDates
<1>9. IsLastRun(j, clock) <=> (job.kind = "dates" /\ RemainingDates(job, clock) = {}) \/ job.kind \in {"date", "now"}
  BY <1>1, <1>5, <1>8, LastRunIs DEF OneTime
<1>10. IsLastRun(j, clock) => a.status \in Ended
  <2>1. IsLastRun(j, clock) => SentStatus(j, clock) = "completed"
    BY <1>5, <1>8, <1>9 DEF SentStatus
  <2>. QED BY <1>1, <2>1, AnsweredColumns DEF GivenUp, Ended
<1>11. ~IsLastRun(j, clock) => a.status \in {SentStatus(j, clock), v.status}
  <2>1. \/ a.status = SentStatus(j, clock)
        \/ a.status = GivenUp(j, clock)
        \/ a.status = IF IsLastRun(j, clock) THEN "retry_scheduled" ELSE j.status
    BY <1>1, AnsweredColumns
  <2>2. j.status = v.status
    BY <1>1
  <2>. HIDE DEF a, j, v
  <2>. QED BY <2>1, <2>2 DEF GivenUp
<1>12. SentStatus(j, clock) = CASE job.kind = "trigger" -> "trigger"
                                [] job.kind = "cron" -> "active"
                                [] OTHER -> IF IsLastRun(j, clock) THEN "completed" ELSE "active"
  BY <1>5, <1>8 DEF SentStatus
<1>13. job.status # "deleted" /\ job'.status = IF a.status # v.status THEN a.status ELSE job.status
  BY <1>1, <1>2, <1>4, CommitColumns
<1>. HIDE DEF v, a, j
<1>14. job.kind \in {"now", "date", "dates", "cron", "trigger"}
  BY <1>1, RowType
<1>15. CASE IsLastRun(j, clock)
  <2>1. a.status = v.status /\ job.status = "active"
    BY <1>4, <1>10, <1>13, <1>15 DEF Ended
  <2>2. v.status = "active"
    BY <1>1, <1>3, <1>5, <2>1 DEF ActiveInv, Scheduled, v
  <2>. QED BY <1>10, <1>15, <2>1, <2>2 DEF Ended
<1>16. CASE ~IsLastRun(j, clock)
  <2>1. job.kind = "cron" \/ job.kind = "trigger" \/ (job.kind = "dates" /\ RemainingDates(job, clock) # {})
    BY <1>9, <1>14, <1>16
  <2>2. CASE job.status = "active"
    <3>1. job.kind # "trigger"
      BY <1>3, <1>5, <2>2 DEF StatusInv, Fits
    <3>. QED BY <1>6, <2>1, <2>2, <3>1
  <2>3. CASE job.status # "active"
    <3>1. a.status = "active" /\ v.status # "active"
      BY <1>4, <1>13, <2>3
    <3>2. job.kind # "trigger"
      BY <1>11, <1>12, <1>16, <3>1
    <3>3. v.status \in Ended
      BY <1>5, <1>7, <3>1, <3>2 DEF Fits, Stopped, Status, Ended
    <3>. QED BY <1>5, <1>7, <2>1, <3>2, <3>3 DEF Fits, Stopped, Ended
  <2>. QED BY <2>2, <2>3
<1>. QED BY <1>15, <1>16

(* Coroutines that await the run are disturbed only when they themselves   *)
(* move on.                                                                *)
LEMMA AwaitsMoved ==
  ASSUME TypeOK, [Next]_vars, NEW c \in Caller, Awaits(c), job.status = "active",
         caller'[c].phase # "idle"
  PROVE  Awaits(c)'
<1>1. Moved(c)
  BY CallerMoves
<1>. QED BY <1>1 DEF Awaits, Moved

LEMMA FireActive ==
  ASSUME TypeOK, [Next]_vars, Scheduled, ActiveInv, Fire
  PROVE  Watched'
<1>0. /\ job' = job /\ clock' = clock /\ timer' = {t \in timer : t = Anytime \/ t > clock} /\ Watched
      /\ \A c \in Caller : caller[c].phase = "loaded" => caller[c].view.status = "active"
      /\ clock \in Int /\ caller \in [Caller -> Coroutine]
  BY ClockGrows DEF Fire, ActiveInv, TypeOK
<1>1. job'.kind = "cron" => Anytime \in timer'
  BY <1>0 DEF Watched
<1>2. job'.kind = "dates" => RemainingDates(job', clock') \subseteq timer'
  BY <1>0 DEF Watched, RemainingDates
<1>3. \E c \in Caller : Awaits(c)'
  <2>1. CASE InFlight("timer")
    <3>1. PICK c \in Caller : caller[c].phase # "idle" /\ caller[c].by = "timer"
      BY <2>1 DEF InFlight
    <3>2. caller' = caller /\ caller[c].phase \in {"idle", "called", "loaded"}
      BY <1>0, <2>1 DEF Fire, Coroutine
    <3>. QED BY <1>0, <3>1, <3>2 DEF Awaits
  <2>2. CASE ~InFlight("timer")
    <3>1. PICK c \in Caller : Calls(c, "timer")
      BY <2>2 DEF Fire
    <3>2. caller'[c].phase = "called" /\ caller'[c].by = "timer"
      BY <1>0, <3>1 DEF Calls, Asleep
    <3>. QED BY <3>2 DEF Awaits
  <2>. QED BY <2>1, <2>2
<1>. QED BY <1>1, <1>2, <1>3 DEF Watched

(* Steps that leave the row's schedule, its timer and every awaiting       *)
(* coroutine alone.                                                        *)
LEMMA WatchedKept ==
  ASSUME TypeOK, [Next]_vars, Scheduled, ActiveInv, job'.kind = job.kind, job'.dates = job.dates,
         timer' = timer,
         timer # {} \/ \A c \in Caller : Awaits(c) => caller'[c].phase # "idle"
  PROVE  Watched'
<1>0. Watched /\ job.status = "active"
  BY DEF ActiveInv, Scheduled
<1>1. job \in Job /\ clock \in Int /\ clock' \in Int /\ clock <= clock'
  BY ClockGrows DEF TypeOK
<1>2. \A d \in job.dates : d \in Int
  BY <1>1, CampaignAssumption DEF Job, Time
<1>3. RemainingDates(job', clock') \subseteq RemainingDates(job, clock)
  BY <1>1, <1>2 DEF RemainingDates
<1>4. timer' # {} \/ \E c \in Caller : Awaits(c)'
  BY <1>0, AwaitsMoved DEF Watched
<1>. QED BY <1>0, <1>3, <1>4 DEF Watched

LEMMA RunsActive ==
  ASSUME TypeOK, SameInv, StatusInv, ViewInv, ActiveInv, [Next]_vars, Scheduled', NEW c \in Caller, Runs(c)
  PROVE  Watched' /\ job.status = "active"
<1>0. /\ edits = 0 /\ ~late /\ job.words # "stop" /\ job'.kind = job.kind /\ job'.dates = job.dates
      /\ job \in Job /\ caller \in [Caller -> Coroutine]
  <2>1. edits = 0 /\ SameAs(job')
    BY RowKept DEF Scheduled
  <2>2. late' = late
    BY DEF Runs, Begin, SkipRun, WordsRunOut, NoRecipients, Deliver, ghosts
  <2>. QED BY <2>1, <2>2 DEF Scheduled, SameAs, TypeOK
<1>1. Ends(c) => \A d \in Caller : caller'[d].phase = "idle" /\ caller[d].phase # "idle" => d = c
  BY <1>0 DEF Ends
<1>2. CASE Begin(c)
  <2>1. job.status = "active" /\ Scheduled /\ timer' = timer
    BY <1>0, <1>2 DEF Begin, Scheduled
  <2>2. \A d \in Caller : Awaits(d) => caller'[d].phase # "idle"
    BY <1>0, <1>2, <2>1 DEF Begin, Awaits
  <2>. QED BY <1>0, <2>1, <2>2, WatchedKept
<1>3. CASE NoRecipients(c)
  <2>1. job.status = "active" /\ Scheduled /\ timer' = timer /\ Ends(c)
    BY <1>0, <1>3 DEF NoRecipients, Scheduled
  <2>2. caller[c].by = "retry"
    BY <1>3, CampaignAssumption DEF NoRecipients, Targets
  <2>3. \A d \in Caller : Awaits(d) => caller'[d].phase # "idle"
    BY <1>1, <2>1, <2>2 DEF Awaits
  <2>. QED BY <1>0, <2>1, <2>3, WatchedKept
<1>4. CASE SkipRun(c)
  <2>. DEFINE v == caller[c].view
              new == SkippedRow(v, clock)
  <2>1. /\ v \in Job /\ new \in Job /\ Commit(v, new, {}) /\ caller[c].phase = "loaded" /\ SameAs(v)
        /\ new.status = IF v.kind = "date" \/ (v.kind = "dates" /\ RemainingDates(v, clock) = {})
                        THEN "completed" ELSE v.status
        /\ v.kind \notin {"trigger", "now"} /\ timer' = timer /\ Ends(c)
    BY <1>0, <1>4, SkippedRowType, SkippedColumns, CallerType DEF SkipRun, Skips, TypeOK, SameInv
  <2>2. job'.status = "active"
    BY DEF Scheduled
  <2>. HIDE DEF new
  <2>3. job.status # "deleted" /\ job'.status = IF new.status # v.status THEN new.status ELSE job.status
    BY <1>0, <2>1, <2>2, CommitColumns
  <2>4. job.status = "active"
    BY <2>1, <2>2, <2>3
  <2>5. v.status = "active" /\ Watched /\ Scheduled
    BY <1>0, <2>1, <2>4 DEF ActiveInv, Scheduled
  <2>6. v.kind # "date" /\ ~(v.kind = "dates" /\ RemainingDates(v, clock) = {})
    BY <2>1, <2>2, <2>3, <2>5
  <2>7. job.kind = "cron" \/ (job.kind = "dates" /\ RemainingDates(job, clock) # {})
    <3>1. v.kind \in {"now", "date", "dates", "cron", "trigger"}
      BY <2>1, RowType
    <3>. QED BY <2>1, <2>6, <3>1 DEF SameAs, RemainingDates
  <2>8. timer # {}
    BY <2>5, <2>7 DEF Watched
  <2>. QED BY <1>0, <2>1, <2>4, <2>5, <2>8, WatchedKept
<1>5. CASE WordsRunOut(c)
  BY <1>0, <1>5 DEF WordsRunOut, WordsDone, WordsFinished, SameInv, SameAs
<1>6. ASSUME NEW ok \in SUBSET Recipients, Deliver(c, ok) PROVE Watched' /\ job.status = "active"
  <2>1. /\ job.status = "active" /\ timer' = timer
        /\ job.kind = "cron" \/ (job.kind = "dates" /\ RemainingDates(job, clock) # {})
    BY <1>6, DeliverActive
  <2>2. Scheduled /\ Watched
    BY <1>0, <2>1 DEF Scheduled, ActiveInv
  <2>3. timer # {}
    BY <2>1, <2>2 DEF Watched
  <2>. QED BY <1>0, <2>1, <2>2, <2>3, WatchedKept
<1>. QED BY <1>2, <1>3, <1>4, <1>5, <1>6 DEF Runs

LEMMA SendNowActive ==
  ASSUME TypeOK, ActiveInv, StatusInv, [Next]_vars, NEW c \in Caller, SendNow(c), Scheduled'
  PROVE  Watched' /\ job.status = "active"
<1>0. edits = 0 /\ ~late /\ job \in Job /\ clock' = clock /\ caller \in [Caller -> Coroutine]
  BY DEF SendNow, Scheduled, ghosts, budget, TypeOK
<1>1. job.status = "active" /\ job' = job /\ timer' = IF job.kind = "date" THEN {} ELSE timer
  BY <1>0 DEF SendNow, Scheduled, Job
<1>2. Watched
  BY <1>0, <1>1 DEF ActiveInv, Scheduled
<1>3. Awaits(c)'
  <2>1. caller'[c].phase = "called" /\ caller'[c].by = "user"
    BY <1>0 DEF SendNow, Calls, Asleep
  <2>. QED BY <2>1 DEF Awaits
<1>. QED BY <1>0, <1>1, <1>2, <1>3 DEF Watched

LEMMA LoadedTimer ==
  ASSUME TypeOK, NEW now \in Int, job.words # "stop", job.kind # "trigger", Loaded(now).job.status = "active"
  PROVE  /\ Loaded(now).timer # {}
         /\ job.kind = "cron" => Anytime \in Loaded(now).timer
         /\ job.kind = "dates" => RemainingDates(job, now) \subseteq Loaded(now).timer
<1>. DEFINE done == Registered(job, {}, FALSE, now)
<1>0. job \in Job /\ [job EXCEPT !.status = "failed"].status = "failed"
  BY DEF TypeOK, Job
<1>1. job.status \in Reloaded /\ ~(job.status = "retry_scheduled" /\ IsLastRun(job, now))
  BY DEF Loaded, Reloaded
<1>2. ~done.raised /\ done.job.status = "active"
  BY <1>0, <1>1 DEF Loaded
<1>3. Loaded(now).timer = done.timer
  BY <1>1, <1>2 DEF Loaded
<1>4. /\ done.timer # {}
      /\ job.kind = "cron" => Anytime \in done.timer
      /\ job.kind = "dates" => RemainingDates(job, now) \subseteq done.timer
  BY <1>0, <1>1, <1>2, RegisteredTimer DEF Reloaded
<1>. QED BY <1>3, <1>4

LEMMA RestartActive ==
  ASSUME TypeOK, SameInv, StatusInv, [Next]_vars, Restart, Scheduled'
  PROVE  Watched'
<1>1. PICK now \in clock..MaxTime : clock' = now /\ job' = Loaded(now).job /\ timer' = Loaded(now).timer
  BY DEF Restart
<1>2. /\ job \in Job /\ edits = 0 /\ job'.kind = job.kind /\ job'.dates = job.dates /\ job'.words = job.words
      /\ now \in Int /\ Fits(job'.status, job, clock')
  BY <1>1, RowKept, NewStatusFits, ClockGrows DEF Scheduled, SameAs, TypeOK
<1>3. job.words # "stop" /\ job.kind # "trigger" /\ Loaded(now).job.status = "active"
  BY <1>1, <1>2 DEF Scheduled, Fits
<1>. QED BY <1>1, <1>2, <1>3, LoadedTimer DEF Watched, RemainingDates

LEMMA ResumeActive ==
  ASSUME TypeOK, SameInv, StatusInv, StopHolds, [Next]_vars, Resume, Scheduled'
  PROVE  Watched' /\ \A c \in Caller : caller'[c].phase # "loaded"
<1>. DEFINE j == [job EXCEPT !.status = IF job.kind = "trigger" THEN "trigger" ELSE "active"]
            done == Registered(j, timer, retryTimer, clock)
<1>1. /\ j \in Job /\ SameColumns(j, job)
      /\ j.status = IF job.kind = "trigger" THEN "trigger" ELSE "active"
      /\ \/ job'.status = "retry_scheduled"
         \/ job' = job
         \/ job' = done.job /\ timer' = done.timer /\ ~done.raised
  BY ResumeCases
<1>. HIDE DEF j
<1>2. /\ job.status = "paused" /\ ~late /\ caller' = caller /\ clock' = clock /\ clock \in Int
      /\ job'.status = "active" /\ edits = 0 /\ job'.kind = job.kind /\ job'.dates = job.dates
      /\ job'.words = job.words /\ job.words # "stop"
  <2>1. edits = 0 /\ SameAs(job') /\ clock \in Int
    BY RowKept, ClockGrows DEF Scheduled
  <2>. QED BY <2>1 DEF Resume, Scheduled, ghosts, SameAs
<1>3. Quiet
  BY <1>2 DEF StopHolds
<1>4. done.job.status = "active" /\ timer' = done.timer /\ ~done.raised
  BY <1>1, <1>2
<1>5. j.words # "stop" /\ j.kind = job.kind /\ j.dates = job.dates
  BY <1>1, <1>2 DEF SameColumns
<1>6. j.kind # "trigger"
  <2>1. Fits(job'.status, job, clock')
    BY <1>2, NewStatusFits DEF Scheduled
  <2>. QED BY <1>2, <1>5, <2>1 DEF Fits
<1>7. /\ done.timer # {}
      /\ j.kind = "cron" => Anytime \in done.timer
      /\ j.kind = "dates" => RemainingDates(j, clock) \subseteq done.timer
  BY <1>1, <1>2, <1>4, <1>5, <1>6, RegisteredTimer
<1>. QED BY <1>2, <1>3, <1>4, <1>5, <1>7 DEF Watched, RemainingDates, Quiet

LEMMA NextActive ==
  TypeOK /\ StopHolds /\ SameInv /\ StatusInv /\ ViewInv /\ ActiveInv /\ [Next]_vars => ActiveInv'
<1>. SUFFICES ASSUME TypeOK, StopHolds, SameInv, StatusInv, ViewInv, ActiveInv, [Next]_vars, Scheduled'
              PROVE  /\ \A c \in Caller : caller'[c].phase = "loaded" => caller'[c].view.status = "active"
                     /\ Watched'
  BY DEF ActiveInv
<1>0. /\ edits = 0 /\ job'.kind = job.kind /\ job'.dates = job.dates /\ job'.words = job.words /\ job \in Job
      /\ job'.status = "active" /\ ~late' /\ edits' = 0
  BY RowKept DEF Scheduled, SameAs, TypeOK
<1>1. job.status = "active" /\ ~late => \A c \in Caller : caller'[c].phase = "loaded" => caller'[c].view.status = "active"
  <2>1. ASSUME job.status = "active", ~late, NEW c \in Caller, caller'[c].phase = "loaded"
        PROVE  caller'[c].view.status = "active"
    BY <1>0, <2>1, ViewsMoved DEF ActiveInv, Scheduled
  <2>. QED BY <2>1
<1>2. CASE Restart
  BY <1>2, RestartActive DEF Restart, Asleep
<1>3. CASE Resume
  BY <1>3, ResumeActive
<1>4. ASSUME NEW c \in Caller, Runs(c) \/ SendNow(c) PROVE Watched' /\ job.status = "active" /\ ~late
  <2>1. late' = late
    BY <1>4 DEF Runs, Begin, SkipRun, WordsRunOut, NoRecipients, Deliver, SendNow, ghosts
  <2>. QED BY <1>0, <1>4, <2>1, RunsActive, SendNowActive
<1>5. CASE Fire
  <2>1. Scheduled
    BY <1>0, <1>5 DEF Fire, Scheduled, ghosts
  <2>. QED BY <1>1, <1>5, <2>1, FireActive DEF Scheduled
<1>6. CASE FireRetry \/ Tick \/ Skip \/ SkipClear \/ UNCHANGED vars
  <2>1. Scheduled /\ timer' = timer
    BY <1>0, <1>6 DEF FireRetry, Tick, Skip, SkipClear, vars, Scheduled, ghosts, Job
  <2>2. \A c \in Caller : Awaits(c) => caller'[c].phase # "idle"
    BY <1>6 DEF FireRetry, Calls, Tick, Skip, SkipClear, vars, Awaits, Asleep, TypeOK
  <2>. QED BY <1>0, <1>1, <2>1, <2>2, WatchedKept DEF Scheduled
<1>7. ~(Pause \/ Cancel \/ Delete)
  BY <1>0 DEF Pause, Cancel, Delete, Stops, Job
<1>8. ~Edits
  BY <1>0 DEF Edits, Edit
<1>. QED BY <1>1, <1>2, <1>3, <1>4, <1>5, <1>6, <1>7, <1>8 DEF Next, Edits

(* The form accepts no plan whose moments have all passed.                 *)
LEMMA InitRegisters ==
  ASSUME NEW plan \in Plans(Created, 0), Planned(plan).kind \in {"date", "dates"}
  PROVE  ~Registered(Planned(plan), {}, FALSE, 0).raised
<1>. DEFINE p == Planned(plan)
<1>1. p.kind = plan.as[1] /\ p.dates = plan.dates /\ plan.dates \in SUBSET Time
  BY DEF Plans, Planned, Fresh
<1>2. plan.dates # {}
  <2>1. CASE plan.as[1] = "date"
    BY <2>1, FS_EmptySet DEF Plans
  <2>2. CASE plan.as[1] = "dates"
    BY <2>2 DEF Plans
  <2>. QED BY <1>1, <2>1, <2>2
<1>3. PICK d \in plan.dates : d \in Int /\ d >= 0
  BY <1>1, <1>2, CampaignAssumption DEF Time
<1>4. d >= 0 - Grace
  BY <1>3, CampaignAssumption
<1>5. p.kind = "date" => BuildTrigger(p, 0) # {}
  BY <1>1, <1>4 DEF BuildTrigger
<1>6. p.kind = "dates" => BuildTrigger(p, 0) # {} \/ PassedDates(p, 0)
  BY DEF BuildTrigger, PassedDates
<1>. HIDE DEF p
<1>. QED BY <1>5, <1>6 DEF Registered, p

LEMMA InitScheduled == Init => StatusInv /\ ViewInv /\ ActiveInv
<1>. SUFFICES ASSUME Init PROVE StatusInv /\ ViewInv /\ ActiveInv
  OBVIOUS
<1>1. PICK plan \in Plans(Created, 0) : LET done == Registered(Planned(plan), {}, FALSE, 0)
                                        IN job = done.job /\ timer = done.timer
  BY DEF Init
<1>. DEFINE p == Planned(plan)
<1>0. PICK now \in Int : now = 0
  OBVIOUS
<1>2. p \in Job /\ p.status = IF p.kind = "trigger" THEN "trigger" ELSE "active"
  BY FreshType, CampaignAssumption DEF Plans, Planned, Fresh
<1>. HIDE DEF p
<1>3. SameColumns(Registered(p, {}, FALSE, now).job, p)
  BY <1>2, RegisteredColumns
<1>4. Fits(p.status, p, now)
  BY <1>2 DEF Fits, Ended
<1>5. Fits(Registered(p, {}, FALSE, now).job.status, p, now)
  BY <1>2, <1>4, RegisteredFits
<1>6. clock = 0 /\ \A c \in Caller : caller[c].phase = "idle"
  BY DEF Init, Asleep
<1>7. job.kind = p.kind /\ job.dates = p.dates /\ job.words = p.words /\ Fits(job.status, p, now)
  BY <1>0, <1>1, <1>3, <1>5 DEF SameColumns, p
<1>8. StatusInv
  BY <1>0, <1>6, <1>7, FitsSame DEF StatusInv
<1>9. ViewInv
  BY <1>6 DEF ViewInv
<1>10. ASSUME Scheduled PROVE Watched
  <2>1. p.words # "stop" /\ p.kind # "trigger" /\ Registered(p, {}, FALSE, now).job.status = "active"
    BY <1>0, <1>1, <1>7, <1>10 DEF Scheduled, Fits, p
  <2>2. ~Registered(p, {}, FALSE, now).raised
    <3>1. CASE p.kind \in {"date", "dates"}
      BY <1>0, <1>2, <2>1, <3>1, InitRegisters DEF p
    <3>2. CASE p.kind \in {"cron", "now"}
      BY <3>2 DEF Registered, BuildTrigger
    <3>3. p.kind \in {"now", "date", "dates", "cron", "trigger"}
      BY <1>2, RowType
    <3>. QED BY <2>1, <3>1, <3>2, <3>3
  <2>3. p.status \in {"active", "retry_scheduled"}
    BY <1>2, <2>1
  <2>4. /\ Registered(p, {}, FALSE, now).timer # {}
        /\ p.kind = "cron" => Anytime \in Registered(p, {}, FALSE, now).timer
        /\ p.kind = "dates" => RemainingDates(p, now) \subseteq Registered(p, {}, FALSE, now).timer
    BY <1>2, <2>1, <2>2, <2>3, RegisteredTimer
  <2>. QED BY <1>0, <1>1, <1>6, <1>7, <2>4 DEF Watched, RemainingDates, p
<1>. QED BY <1>6, <1>8, <1>9, <1>10 DEF ActiveInv

ScheduleInv == SameInv /\ StatusInv /\ ViewInv /\ ActiveInv

(* A job that is shown as scheduled, and whose list does not stop, always  *)
(* has a timer or a run in flight, over skips, retries, pauses, restarts   *)
(* and any number of overlapping runs.                                     *)
THEOREM TimerAlwaysKept == Spec => []TimerKept
<1>1. TypeOK /\ StopHolds /\ ScheduleInv /\ [Next]_vars => ScheduleInv'
  BY NextSame, NextStatus, NextView, NextActive DEF ScheduleInv
<1>2. Init => ScheduleInv
  BY InitViews, InitScheduled DEF ScheduleInv
<1>3. ScheduleInv => TimerKept
  BY DEF ScheduleInv, ActiveInv, Scheduled, Watched, Awaits, TimerKept, Quiet
<1>. QED BY <1>1, <1>2, <1>3, StopAlwaysHolds, TypeCorrect, PTL DEF Spec

-----------------------------------------------------------------------------
(* A one-time job's retry is not lost. Before its first run nothing is     *)
(* owed; after it, until a second run, the row changes only by the one     *)
(* retry in flight, which knows what the row says.                         *)

Untried ==
  edits = 0 /\ firsts = 0 =>
    /\ job.groups = {} /\ ~job.retryAt /\ ~retryTimer /\ job.status # "retry_scheduled"
    /\ \A c \in Caller : ~Retrying(c)
    /\ \A c \in Caller : caller[c].phase = "loaded" => caller[c].view.groups = {} /\ ~caller[c].view.retryAt

Once == edits = 0 /\ firsts <= 1 /\ OneTime(job)
Over == {"completed", "failed", "deleted"}
Owing == /\ job.retryAt => job.groups # {}
         /\ job.status = "retry_scheduled" => job.retryAt
Knows(c) == /\ caller[c].view.groups = job.groups /\ caller[c].view.retryAt = job.retryAt
            /\ caller[c].view.status \in {"completed", "failed"} => job.status \in Over
Armed == (~late /\ job.status = "retry_scheduled") => (retryTimer \/ \E c \in Caller : Retrying(c))

RetryInv == Once => Owing /\ Armed /\ \A c \in Caller : LoadedRetry(c) => Knows(c)

LEMMA RetryCalled ==
  ASSUME TypeOK, [Next]_vars, NEW c \in Caller, Retrying(c)', ~Retrying(c)
  PROVE  FireRetry
<1>0. caller \in [Caller -> Coroutine]
  BY DEF TypeOK
<1>1. ~(Tick \/ Pause \/ Cancel \/ Delete \/ Resume \/ Skip \/ SkipClear \/ Edits \/ UNCHANGED vars)
  BY DEF Tick, Pause, Cancel, Delete, Stops, Resume, Skip, SkipClear, Edits, Edit, vars, Retrying
<1>2. ~Restart
  BY DEF Restart, Asleep, Retrying
<1>3. ~Fire
  BY <1>0 DEF Fire, Calls, Asleep, Retrying
<1>4. ASSUME NEW d \in Caller, Runs(d) \/ SendNow(d) PROVE FALSE
  <2>1. CASE Begin(d)
    <3>1. \/ caller' = [caller EXCEPT ![d] = Asleep]
          \/ caller' = [caller EXCEPT ![d] = [caller[d] EXCEPT !.phase = "loaded", !.view = job]]
      BY <2>1 DEF Begin
    <3>2. caller[d].phase = "called" /\ caller[d] \in Coroutine
      BY <1>0, <2>1 DEF Begin
    <3>3. \A e \in Caller \ {d} : caller'[e] = caller[e]
      BY <1>0, <3>1
    <3>4. caller'[d].phase = "idle" \/ caller'[d].by = caller[d].by
      BY <3>2, CallerMoves DEF Moved
    <3>. QED BY <3>2, <3>3, <3>4 DEF Retrying
  <2>2. CASE Ends(d)
    BY <1>0, <2>2 DEF Ends, Asleep, Retrying
  <2>3. CASE SendNow(d)
    <3>1. caller' = [caller EXCEPT ![d] = [Asleep EXCEPT !.phase = "called", !.by = "user"]]
      BY <2>3 DEF SendNow, Calls
    <3>. QED BY <1>0, <3>1 DEF Asleep, Retrying
  <2>. QED BY <1>4, <2>1, <2>2, <2>3 DEF Runs, SkipRun, WordsRunOut, NoRecipients, Deliver
<1>. QED BY <1>1, <1>2, <1>3, <1>4 DEF Next, Edits

LEMMA LoadedRetries ==
  ASSUME TypeOK, NEW now
  PROVE  /\ Loaded(now).job.status = "retry_scheduled" => job.status = "retry_scheduled"
         /\ Loaded(now).retry => job.retryAt
         /\ OneTime(job) /\ job.status = "retry_scheduled" => Loaded(now).retry = RetryDue(job)
<1>0. job \in Job /\ SameColumns(Loaded(now).job, job) /\ [job EXCEPT !.status = "failed"].status = "failed"
  BY LoadedColumns DEF TypeOK, Job
<1>1. Registered(job, {}, FALSE, now).job.status = "retry_scheduled" => job.status = "retry_scheduled"
  BY <1>0 DEF Registered, Job
<1>2. Loaded(now).job.status = "retry_scheduled" => job.status = "retry_scheduled"
  BY <1>0, <1>1 DEF Loaded
<1>3. Loaded(now).retry => RetryDue(Loaded(now).job)
  BY DEF Loaded
<1>4. OneTime(job) /\ job.status = "retry_scheduled" => Loaded(now).retry = RetryDue(job)
  BY <1>0 DEF Loaded, Reloaded, IsLastRun, OneTime, RetryDue, Job
<1>. QED BY <1>0, <1>2, <1>3, <1>4 DEF RetryDue, SameColumns

LEMMA FirstsGrow ==
  ASSUME TypeOK, [Next]_vars
  PROVE  firsts \in Nat /\ firsts' \in Nat /\ firsts <= firsts'
<1>0. firsts \in Nat
  BY DEF TypeOK
<1>1. CASE Plain \/ Edits
  <2>1. firsts' = firsts
    BY <1>1 DEF Plain, Edits, Edit, ghosts
  <2>. QED BY <1>0, <2>1
<1>2. CASE Delivers
  <2>1. PICK c \in Caller : firsts' = firsts + First(c)
    BY <1>2 DEF Delivers, Deliver
  <2>. QED BY <1>0, <2>1 DEF First
<1>3. CASE Restart
  <2>1. {c \in Cut : caller[c].by # "retry"} \in SUBSET Caller
    BY DEF Cut
  <2>2. Cardinality({c \in Cut : caller[c].by # "retry"}) \in Nat
    BY <2>1, FS_Subset, FS_CardinalityType, CampaignAssumption
  <2>. QED BY <1>0, <1>3, <2>2 DEF Restart
<1>. QED BY <1>1, <1>2, <1>3, StepKinds

(* The steps between runs: what they can make of a retry.                  *)
LEMMA PlainRetry ==
  ASSUME TypeOK, [Next]_vars, Plain, ~Delivers, ~Restart, ~Edits
  PROVE  /\ job'.status = "retry_scheduled" =>
              \/ job.status = "retry_scheduled"
              \/ job.retryAt /\ retryTimer' = (retryTimer \/ RetryDue(job))
         /\ job.status \in Over => job'.status \in Over
         /\ retryTimer' => retryTimer \/ job.retryAt
         /\ retryTimer /\ job'.status = "retry_scheduled" => retryTimer' \/ FireRetry \/ job.status # "retry_scheduled"
<1>0. job \in Job /\ retryTimer \in BOOLEAN
  BY DEF TypeOK
<1>1. CASE Fire \/ FireRetry \/ Tick \/ Skip \/ SkipClear \/ UNCHANGED vars
  BY <1>0, <1>1 DEF Fire, FireRetry, Tick, Skip, SkipClear, vars, Job
<1>2. CASE Pause \/ Cancel \/ Delete
  BY <1>0, <1>2 DEF Pause, Cancel, Delete, Stops, RemoveJob, Job, Over
<1>3. CASE Resume
  <2>. DEFINE j == [job EXCEPT !.status = IF job.kind = "trigger" THEN "trigger" ELSE "active"]
              done == Registered(j, timer, retryTimer, clock)
  <2>1. /\ j \in Job /\ j.status # "retry_scheduled"
        /\ \/ job.retryAt /\ retryTimer' = (retryTimer \/ RetryDue(job))
           \/ job' = job
           \/ job' = done.job
    BY <1>3, ResumeCases
  <2>. HIDE DEF j
  <2>2. done.job.status # "retry_scheduled" /\ (done.retry => retryTimer)
    BY <1>0, <2>1 DEF Registered, Job
  <2>3. retryTimer' => retryTimer \/ job.retryAt
    BY <2>2, <1>3 DEF Resume, RetryDue, j
  <2>4. job.status = "paused"
    BY <1>3 DEF Resume
  <2>. QED BY <2>1, <2>2, <2>3, <2>4 DEF Over
<1>4. ASSUME NEW c \in Caller, Runs(c)
      PROVE  /\ job'.status \in {job.status, "completed"} /\ retryTimer' = retryTimer
  <2>0. caller[c].view \in Job
    BY CallerType
  <2>1. CASE Begin(c) \/ NoRecipients(c)
    BY <2>1 DEF Begin, NoRecipients
  <2>2. CASE SkipRun(c)
    <3>1. /\ SkippedRow(caller[c].view, clock) \in Job
          /\ SkippedRow(caller[c].view, clock).status \in {caller[c].view.status, "completed"}
      BY <2>0, <2>2, SkippedRowType DEF SkipRun, Skips, TypeOK
    <3>. QED BY <1>0, <2>0, <2>2, <3>1, Committed DEF SkipRun
  <2>3. CASE WordsRunOut(c)
    <3>. DEFINE v == caller[c].view
                new == [v EXCEPT !.status = IF @ \in {"active", "trigger"} THEN "completed" ELSE @]
    <3>1. new \in Job /\ new.status \in {v.status, "completed"}
      BY <2>0 DEF Job, Status
    <3>2. Commit(v, new, {}) /\ retryTimer' = retryTimer
      BY <2>3 DEF WordsRunOut
    <3>. HIDE DEF new
    <3>. QED BY <1>0, <2>0, <3>1, <3>2, Committed
  <2>. QED BY <1>4, <2>1, <2>2, <2>3 DEF Runs, Delivers
<1>5. ASSUME NEW c \in Caller, SendNow(c)
      PROVE  job'.status = job.status /\ job.status # "retry_scheduled" /\ (retryTimer' => retryTimer)
  BY <1>0, <1>5 DEF SendNow, RemoveJob, Job
<1>. QED BY <1>1, <1>2, <1>3, <1>4, <1>5 DEF Next, Edits, Over

LEMMA NextUntried == TypeOK /\ SameInv /\ Untried /\ [Next]_vars => Untried'
<1>. SUFFICES ASSUME TypeOK, SameInv, Untried, [Next]_vars, edits' = 0, firsts' = 0 PROVE Untried'
  BY DEF Untried
<1>0. edits = 0 /\ firsts = 0 /\ job \in Job
  BY RowKept, FirstsGrow DEF TypeOK
<1>1. /\ job.groups = {} /\ ~job.retryAt /\ ~retryTimer /\ job.status # "retry_scheduled"
      /\ \A c \in Caller : ~Retrying(c)
      /\ \A c \in Caller : caller[c].phase = "loaded" => caller[c].view.groups = {} /\ ~caller[c].view.retryAt
  BY <1>0 DEF Untried
<1>2. \A c \in Caller : ~Retrying(c)'
  BY <1>1, RetryCalled DEF FireRetry
<1>3. \A c \in Caller : caller'[c].phase = "loaded" => caller'[c].view.groups = {} /\ ~caller'[c].view.retryAt
  BY <1>1, ViewsMoved
<1>4. ~Delivers
  <2>. SUFFICES ASSUME NEW c \in Caller, NEW ok, Deliver(c, ok) PROVE FALSE
    BY DEF Delivers
  <2>1. firsts' = firsts + First(c) /\ caller[c].by # "retry"
    BY <1>1 DEF Deliver, Sends, Retrying
  <2>. QED BY <1>0, <2>1 DEF First
<1>5. ~Edits
  BY <1>0 DEF Edits, Edit
<1>6. CASE Restart
  <2>1. PICK now : job' = Loaded(now).job /\ retryTimer' = Loaded(now).retry
    BY <1>6 DEF Restart
  <2>2. SameColumns(Loaded(now).job, job)
    BY <1>0, LoadedColumns
  <2>3. Loaded(now).job.status # "retry_scheduled" /\ ~Loaded(now).retry
    BY <1>1, LoadedRetries
  <2>4. retryTimer' \in BOOLEAN
    BY NextType DEF TypeOK
  <2>. QED BY <1>1, <1>2, <1>3, <2>1, <2>2, <2>3 DEF Untried, SameColumns
<1>7. CASE ~Restart
  <2>1. Plain
    BY <1>4, <1>5, <1>7, StepKinds
  <2>2. job'.status # "retry_scheduled" /\ ~retryTimer'
    BY <1>1, <1>4, <1>5, <1>7, <2>1, PlainRetry
  <2>3. job'.groups = {} /\ ~job'.retryAt
    BY <1>1, <2>1 DEF Plain
  <2>. QED BY <1>2, <1>3, <2>2, <2>3 DEF Untried
<1>. QED BY <1>6, <1>7

(* A retry in flight goes on until it delivers, while somebody is owed it. *)
LEMMA RetryStays ==
  ASSUME TypeOK, [Next]_vars, ~Delivers, ~Restart, job.status # "deleted", job.groups # {},
         NEW c \in Caller, Retrying(c), LoadedRetry(c) => Knows(c)
  PROVE  Retrying(c)'
<1>0. caller \in [Caller -> Coroutine]
  BY DEF TypeOK
<1>1. CASE UNCHANGED caller
  BY <1>1 DEF Retrying
<1>2. ASSUME NEW d \in Caller, NEW by, Calls(d, by) PROVE Retrying(c)'
  <2>1. c # d
    BY <1>2 DEF Calls, Retrying
  <2>. QED BY <1>0, <1>2, <2>1 DEF Calls, Retrying
<1>3. ASSUME NEW d \in Caller, Begin(d) PROVE Retrying(c)'
  <2>1. caller' = [caller EXCEPT ![d] = [caller[d] EXCEPT !.phase = "loaded", !.view = job]]
    BY <1>3 DEF Begin
  <2>2. caller'[d].phase = "loaded" /\ caller'[d].by = caller[d].by
    BY <1>0, <2>1 DEF Coroutine
  <2>3. c # d => caller'[c] = caller[c]
    BY <1>0, <2>1
  <2>. QED BY <2>2, <2>3 DEF Retrying
<1>4. ASSUME NEW d \in Caller, SkipRun(d) \/ WordsRunOut(d) \/ NoRecipients(d) PROVE Retrying(c)'
  <2>1. d # c
    <3>. SUFFICES ASSUME d = c PROVE FALSE
      OBVIOUS
    <3>1. NoRecipients(c) /\ LoadedRetry(c)
      BY <1>4 DEF SkipRun, Skips, WordsRunOut, WordsDone, Retrying, LoadedRetry, NoRecipients
    <3>2. caller[c].view.groups = {}
      BY <3>1 DEF NoRecipients, Targets, LoadedRetry
    <3>. QED BY <3>1, <3>2 DEF Knows
  <2>2. caller' = [caller EXCEPT ![d] = Asleep]
    BY <1>4 DEF SkipRun, WordsRunOut, NoRecipients, Ends
  <2>. QED BY <1>0, <2>1, <2>2 DEF Retrying
<1>5. CASE Fire \/ FireRetry
  BY <1>1, <1>2, <1>5 DEF Fire, FireRetry
<1>6. CASE Tick \/ Pause \/ Cancel \/ Delete \/ Resume \/ Skip \/ SkipClear \/ Edits \/ UNCHANGED vars
  BY <1>1, <1>6 DEF Tick, Pause, Cancel, Delete, Stops, Resume, Skip, SkipClear, Edits, Edit, vars
<1>7. ASSUME NEW d \in Caller, Runs(d) \/ SendNow(d) PROVE Retrying(c)'
  BY <1>2, <1>3, <1>4, <1>7 DEF Runs, SendNow, Delivers
<1>. QED BY <1>5, <1>6, <1>7 DEF Next, Edits

LEMMA RestartRetry ==
  ASSUME TypeOK, Owing, OneTime(job), Restart
  PROVE  Owing' /\ Armed' /\ \A c \in Caller : ~Retrying(c)'
<1>0. job \in Job
  BY DEF TypeOK
<1>1. PICK now : job' = Loaded(now).job /\ retryTimer' = Loaded(now).retry
  BY DEF Restart
<1>2. SameColumns(Loaded(now).job, job)
  BY <1>0, LoadedColumns
<1>3. /\ Loaded(now).job.status = "retry_scheduled" => job.status = "retry_scheduled"
      /\ OneTime(job) /\ job.status = "retry_scheduled" => Loaded(now).retry = RetryDue(job)
  BY LoadedRetries
<1>4. job.status = "retry_scheduled" => RetryDue(job)
  BY DEF Owing, RetryDue
<1>5. \A c \in Caller : ~Retrying(c)'
  BY DEF Restart, Asleep, Retrying
<1>. QED BY <1>1, <1>2, <1>3, <1>4, <1>5 DEF Owing, Armed, SameColumns

(* The first run of a one-time job, and its retry, leave behind what the   *)
(* row says: nobody owed, or a retry for exactly the recipients owed.      *)
LEMMA DeliverRetry ==
  ASSUME TypeOK, OneRetry, SameInv, Untried, RetryInv, [Next]_vars, edits = 0, OneTime(job), firsts' <= 1,
         NEW c \in Caller, NEW ok \in SUBSET Recipients, Deliver(c, ok)
  PROVE  Owing' /\ Armed' /\ \A d \in Caller : ~Retrying(d)'
<1>. DEFINE v == caller[c].view
            a == Answered(c, ok)
            failed == Targets(c) \ ok
            again == failed # {} /\ ~Exhausted(Filled(c))
<1>0. /\ v \in Job /\ job \in Job /\ a \in Job /\ Sends(c) /\ caller[c].phase = "loaded" /\ SameAs(v)
      /\ firsts \in Nat /\ caller \in [Caller -> Coroutine]
  BY CallerType, AnsweredType DEF TypeOK, Deliver, Sends, SameInv
<1>1. /\ firsts' = firsts + First(c) /\ caller' = [caller EXCEPT ![c] = Asleep]
      /\ retryTimer' = again
      /\ Commit(v, a, IF again THEN {"retryAt"} ELSE {})
  BY DEF Deliver, Ends, Answered
<1>2. IsLastRun(Filled(c), clock) /\ Filled(c).kind = v.kind /\ Filled(c).status = v.status
  <2>1. v.kind \in {"date", "now"}
    BY <1>0 DEF SameAs, OneTime
  <2>2. Filled(c).kind = v.kind /\ Filled(c).status = v.status
    BY <1>0 DEF Filled, Job
  <2>. QED BY <2>1, <2>2 DEF IsLastRun
<1>3. SentStatus(Filled(c), clock) = "completed" /\ GivenUp(Filled(c), clock) = "failed"
  <2>1. Filled(c).kind \in {"date", "now"}
    BY <1>0, <1>2 DEF SameAs, OneTime
  <2>. QED BY <1>2, <2>1 DEF SentStatus, GivenUp
<1>4. /\ again => a.groups = failed /\ a.retryAt = TRUE /\ failed # {}
      /\ ~again => a.groups = {} /\ a.retryAt = FALSE /\ a.status \in {"completed", "failed"}
  BY <1>0, <1>2, <1>3, AnsweredColumns
<1>5. /\ job.status = "deleted" => job' = job
      /\ job.status # "deleted" =>
           /\ job'.status = IF a.status # v.status THEN a.status ELSE job.status
           /\ job'.groups = IF a.groups # v.groups THEN a.groups ELSE job.groups
           /\ job'.retryAt = IF a.retryAt # v.retryAt \/ again THEN a.retryAt ELSE job.retryAt
  BY <1>0, <1>1, CommitColumns
<1>6. Owing /\ \A d \in Caller : LoadedRetry(d) => Knows(d)
  <2>1. firsts <= 1
    BY <1>0, FirstsGrow
  <2>. QED BY <2>1 DEF RetryInv, Once
<1>7. CASE caller[c].by = "retry"
  <2>1. Knows(c) /\ Retrying(c)
    BY <1>0, <1>6, <1>7 DEF LoadedRetry, Retrying
  <2>2. \A d \in Caller : ~Retrying(d)'
    BY <1>0, <1>1, <2>1 DEF OneRetry, Retrying, Asleep
  <2>3. job.status # "deleted" /\ again => job'.groups # {}
    BY <1>4, <1>5, <2>1 DEF Knows
  <2>4. job.status # "deleted" /\ ~again => ~job'.retryAt /\ job'.status # "retry_scheduled"
    BY <1>4, <1>5, <2>1 DEF Knows, Over
  <2>5. again => retryTimer'
    BY <1>1
  <2>6. job.status # "deleted" /\ again => job'.retryAt
    BY <1>4, <1>5
  <2>. HIDE DEF again
  <2>. QED BY <1>5, <1>6, <2>2, <2>3, <2>4, <2>5, <2>6 DEF Owing, Armed
<1>8. CASE caller[c].by # "retry"
  <2>1. firsts = 0
    BY <1>0, <1>1, <1>8 DEF First
  <2>2. /\ job.groups = {} /\ ~job.retryAt /\ job.status # "retry_scheduled"
        /\ \A d \in Caller : ~Retrying(d)
        /\ v.groups = {} /\ ~v.retryAt
    BY <1>0, <2>1 DEF Untried
  <2>3. \A d \in Caller : ~Retrying(d)'
    BY <1>0, <1>1, <2>2 DEF Retrying, Asleep
  <2>4. job.status # "deleted" /\ again => job'.groups # {}
    BY <1>4, <1>5, <2>2
  <2>5. job.status # "deleted" /\ ~again => ~job'.retryAt /\ job'.status # "retry_scheduled"
    BY <1>0, <1>4, <1>5, <2>2 DEF Job
  <2>6. again => retryTimer'
    BY <1>1
  <2>7. job.status # "deleted" /\ again => job'.retryAt
    BY <1>4, <1>5
  <2>. HIDE DEF again
  <2>. QED BY <1>5, <1>6, <2>3, <2>4, <2>5, <2>6, <2>7 DEF Owing, Armed
<1>. QED BY <1>7, <1>8

LEMMA NextRetry ==
  TypeOK /\ OneRetry /\ SameInv /\ StatusInv /\ Untried /\ RetryInv /\ [Next]_vars => RetryInv'
<1>. SUFFICES ASSUME TypeOK, OneRetry, SameInv, StatusInv, Untried, RetryInv, [Next]_vars,
                     edits' = 0, firsts' <= 1, OneTime(job')
              PROVE  Owing' /\ Armed' /\ \A c \in Caller : LoadedRetry(c)' => Knows(c)'
  BY DEF RetryInv, Once, OneTime
<1>0. edits = 0 /\ SameAs(job') /\ OneTime(job) /\ job \in Job /\ firsts <= 1
  BY RowKept, FirstsGrow DEF TypeOK, SameAs, OneTime
<1>1. Owing /\ Armed /\ \A c \in Caller : LoadedRetry(c) => Knows(c)
  BY <1>0 DEF RetryInv, Once
<1>2. \A c \in Caller : LoadedRetry(c)' => Retrying(c)'
  BY DEF LoadedRetry, Retrying
<1>3. CASE Restart
  BY <1>0, <1>1, <1>2, <1>3, RestartRetry
<1>4. CASE Delivers
  BY <1>0, <1>2, <1>4, DeliverRetry DEF Delivers
<1>5. CASE ~Restart /\ ~Delivers
  <2>1. ~Edits
    BY <1>0 DEF Edits, Edit
  <2>2. Plain
    BY <1>5, <2>1, StepKinds
  <2>3. job'.groups = job.groups /\ job'.retryAt = job.retryAt
    <3>1. job.status # "trigger"
      BY <1>0 DEF StatusInv, Fits, OneTime
    <3>. QED BY <2>2, <3>1 DEF Plain
  <2>4. /\ job'.status = "retry_scheduled" =>
             \/ job.status = "retry_scheduled"
             \/ job.retryAt /\ retryTimer' = (retryTimer \/ RetryDue(job))
        /\ job.status \in Over => job'.status \in Over
        /\ retryTimer /\ job'.status = "retry_scheduled" => retryTimer' \/ FireRetry \/ job.status # "retry_scheduled"
    BY <1>5, <2>1, <2>2, PlainRetry
  <2>5. Owing'
    BY <1>1, <2>3, <2>4 DEF Owing
  <2>6. ASSUME ~late', job'.status = "retry_scheduled"
        PROVE  retryTimer' \/ \E c \in Caller : Retrying(c)'
    <3>1. CASE job.status # "retry_scheduled"
      BY <1>1, <2>4, <2>6, <3>1 DEF Owing, RetryDue
    <3>2. CASE job.status = "retry_scheduled"
      <4>1. ~late
        BY <1>5, <2>6, LateCleared DEF Stopped
      <4>2. retryTimer \/ \E c \in Caller : Retrying(c)
        BY <1>1, <3>2, <4>1 DEF Armed
      <4>3. ASSUME NEW c \in Caller, Retrying(c) PROVE Retrying(c)'
        BY <1>1, <1>5, <3>2, <4>3, RetryStays DEF Owing
      <4>4. CASE FireRetry
        <5>1. CASE InFlight("retry")
          BY <4>3, <5>1 DEF InFlight, Retrying
        <5>2. CASE ~InFlight("retry")
          <6>1. PICK c \in Caller : Calls(c, "retry")
            BY <4>4, <5>2 DEF FireRetry
          <6>2. Retrying(c)'
            BY <6>1 DEF Calls, Asleep, Retrying, TypeOK
          <6>. QED BY <6>2
        <5>. QED BY <5>1, <5>2
      <4>. QED BY <2>4, <2>6, <3>2, <4>2, <4>3, <4>4
    <3>. QED BY <3>1, <3>2
  <2>7. ASSUME NEW c \in Caller, LoadedRetry(c)' PROVE Knows(c)'
    <3>1. CASE caller'[c] = caller[c]
      <4>1. Knows(c)
        BY <1>1, <2>7, <3>1 DEF LoadedRetry
      <4>. QED BY <2>3, <2>4, <3>1, <4>1 DEF Knows
    <3>2. CASE caller'[c].view = job /\ job' = job
      BY <3>2 DEF Knows, Over
    <3>. QED BY <2>7, <3>1, <3>2, ViewsMoved DEF LoadedRetry
  <2>8. Armed'
    BY <2>6 DEF Armed
  <2>. QED BY <2>5, <2>7, <2>8
<1>. QED BY <1>3, <1>4, <1>5

LEMMA InitRetry == Init => Untried /\ RetryInv
<1>. SUFFICES ASSUME Init PROVE Untried /\ RetryInv
  OBVIOUS
<1>1. PICK plan \in Plans(Created, 0) : job = Registered(Planned(plan), {}, FALSE, 0).job
  BY DEF Init
<1>2. /\ Planned(plan) \in Job /\ Planned(plan).groups = {} /\ Planned(plan).retryAt = FALSE
      /\ Planned(plan).status # "retry_scheduled"
  BY FreshType, CampaignAssumption DEF Plans, Planned, Fresh
<1>3. SameColumns(Registered(Planned(plan), {}, FALSE, 0).job, Planned(plan))
  BY <1>2, RegisteredColumns
<1>4. Registered(Planned(plan), {}, FALSE, 0).job.status # "retry_scheduled"
  BY <1>2 DEF Registered, Job
<1>5. \A c \in Caller : caller[c].phase = "idle"
  BY DEF Init, Asleep
<1>6. job.groups = {} /\ ~job.retryAt /\ job.status # "retry_scheduled"
  BY <1>1, <1>2, <1>3, <1>4 DEF SameColumns
<1>7. ~retryTimer
  BY DEF Init
<1>. QED BY <1>5, <1>6, <1>7 DEF Untried, RetryInv, Owing, Armed, LoadedRetry, Retrying

(* A one-time job that waits for its retry has it, due or in flight, over  *)
(* pauses, skips, further retries and restarts, until a second run begins. *)
THEOREM RetryAlwaysKept == Spec => []RetryKept
<1>. DEFINE Kept == OneRetry /\ SameInv /\ StatusInv /\ Untried /\ RetryInv
<1>1. TypeOK /\ Kept /\ [Next]_vars => Kept'
  BY RetryStaysOne, NextSame, NextStatus, NextUntried, NextRetry
<1>2. Init => Kept
  BY InitSlack, InitViews, InitScheduled, InitRetry DEF SlackInv
<1>3. Kept => RetryKept
  BY DEF RetryInv, Once, Owing, Armed, OneTime, Retrying, RetryKept, Quiet
<1>. HIDE DEF Kept
<1>. QED BY <1>1, <1>2, <1>3, TypeCorrect, PTL DEF Spec

(* A job shown as scheduled is never forgotten (send_job, _schedule_retry, *)
(* register_job, resume_job and load_all_jobs): its timer, its retry or a  *)
(* run in flight takes it up.                                              *)
THEOREM NeverForgotten == Spec => []NotForgotten
<1>1. TimerKept /\ RetryKept => NotForgotten
  BY DEF NotForgotten
<1>. QED BY <1>1, TimerAlwaysKept, RetryAlwaysKept, PTL
=============================================================================

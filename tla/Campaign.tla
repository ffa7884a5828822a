------------------------------ MODULE Campaign ------------------------------
(***************************************************************************)
(* One repeating or one-time message sent through the cloud provider:      *)
(* send_job of app/services/scheduler.py with its schedule timer, its      *)
(* retry timer and its restart, the words of word_list.py, the picked      *)
(* dates of schedule_dates.py, and the job actions of routers/jobs.py.     *)
(*                                                                         *)
(* A run loads the job into its own session, sends to the recipients one   *)
(* after the other and commits once, after the last (scheduler.py:221);    *)
(* only the columns it changed are written, over whatever other sessions   *)
(* have committed since. A user's action is one step. The event loop runs  *)
(* a timer before its due minute has passed (Tick), except over a restart. *)
(*                                                                         *)
(* A definition named like its successor with a word added is a slip the   *)
(* properties must notice; no action uses it.                              *)
(***************************************************************************)
EXTENDS Integers, FiniteSets

CONSTANTS Caller,      \* coroutines that run send_job
          Recipients,  \* the recipients of the job
          Created,     \* kinds of schedule, with what the words do when they run out
          Grace,       \* MISFIRE_GRACE_SECONDS, in ticks
          MaxRetries,  \* MAX_RETRIES
          WordTotal,   \* length of the longest word list
          MaxTime,     \* bound: the clock
          MaxFirsts,   \* bound: runs begun by a repeating schedule or by Send Now
          MaxSkips,    \* bound: skips asked for
          Edited,      \* what it may be edited to
          MaxUpsets,   \* bound: stops, skips and edits together
          MaxCrashes   \* bound: restarts

ASSUME CampaignAssumption ==
  /\ Recipients # {} /\ IsFiniteSet(Recipients) /\ IsFiniteSet(Caller)
  /\ Created \cup Edited \subseteq {"now", "date", "dates", "cron", "trigger"} \X {"none", "repeat", "stop"}
  /\ WordTotal \in Nat \ {0} /\ Grace \in Nat /\ MaxTime \in Nat /\ MaxFirsts \in Nat
  /\ MaxRetries \in Nat /\ MaxSkips \in Nat /\ MaxUpsets \in Nat /\ MaxCrashes \in Nat

VARIABLES
  job,         \* the job's row
  timer,       \* when its schedule is due in APScheduler (id str(job.id))
  retryTimer,  \* is "retry:<id>" in APScheduler?
  clock,
  caller,      \* coroutines in send_job, each with its session's view of the row
  got,         \* sends each recipient's provider call has acknowledged
  firsts,      \* runs that were not retries and began to send
  used,        \* word steps that have been put into a message
  late,        \* was a run in flight when the job was last stopped?
  skipped,     \* has a run been skipped?
  asks, edits, crashes

ghosts == <<got, firsts, used, late, skipped>>
budget == <<asks, edits, crashes>>
vars == <<job, timer, retryTimer, clock, caller, ghosts, budget>>

Time == 0..MaxTime
Anytime == -1                    \* the next tick of a cron schedule
Status == {"active", "trigger", "retry_scheduled", "paused", "cancelled",
           "completed", "failed", "deleted"}
Job == [status : Status, kind : {"now", "date", "dates", "cron", "trigger"},
        dates : SUBSET Time, skip : 0..MaxSkips,
        retries : 0..MaxRetries, retryAt : BOOLEAN, groups : SUBSET Recipients,
        words : {"none", "repeat", "stop"}, pos : 0..WordTotal]
Fresh(kind, dates, words) ==
  [status |-> IF kind = "trigger" THEN "trigger" ELSE "active", kind |-> kind, dates |-> dates,
   skip |-> 0, retries |-> 0, retryAt |-> FALSE, groups |-> {}, words |-> words, pos |-> 0]

Coroutine == [phase : {"idle", "called", "loaded"}, by : {"timer", "retry", "user"}, view : Job]
Asleep == [phase |-> "idle", by |-> "user", view |-> Fresh("trigger", {}, "none")]
Quiet == \A c \in Caller : caller[c].phase = "idle"
Calm == asks + edits < MaxUpsets
InFlight(by) == \E c \in Caller : caller[c].phase # "idle" /\ caller[c].by = by

TypeOK ==
  /\ job \in Job /\ timer \subseteq Time \cup {Anytime} /\ retryTimer \in BOOLEAN
  /\ clock \in Time /\ caller \in [Caller -> Coroutine]
  /\ got \in [Recipients -> Nat] /\ firsts \in Nat /\ used \subseteq 0..WordTotal
  /\ late \in BOOLEAN /\ skipped \in BOOLEAN
  /\ asks \in Nat /\ edits \in Nat /\ crashes \in Nat

-----------------------------------------------------------------------------
(* Words and dates *)

WordsFinished(j) == j.words = "stop" /\ j.pos >= WordTotal
Advance(j) ==
  CASE j.words = "none" -> j.pos
    [] j.words = "stop" -> j.pos + 1
    [] j.words = "repeat" -> (j.pos + 1) % WordTotal

(* The step whose items fill the message; a retry reuses the last one.     *)
Step(j, retry) ==
  CASE ~retry -> j.pos
    [] retry /\ j.words = "stop" -> IF j.pos = 0 THEN 0 ELSE j.pos - 1
    [] OTHER -> (j.pos + WordTotal - 1) % WordTotal

RemainingDates(j, from) == {d \in j.dates : d > from}
IsLastRunInGrace(j, now) ==
  \/ WordsFinished(j)
  \/ j.kind = "dates" /\ RemainingDates(j, now - Grace) = {}
  \/ j.kind \in {"date", "now"}
IsLastRun(j, now) ==
  \/ WordsFinished(j)
  \/ j.kind = "dates" /\ RemainingDates(j, now) = {}
  \/ j.kind \in {"date", "now"}

-----------------------------------------------------------------------------
(* register_job and register_retry *)

(* build_trigger: the times at which the schedule is due, none when the    *)
(* one-time date is too far in the past (ValueError).                      *)
BuildTrigger(j, now) ==
  CASE j.kind = "cron" -> {Anytime}
    [] j.kind = "now" -> {now}
    [] j.kind = "dates" -> RemainingDates(j, now - Grace)
    [] j.kind = "date" -> {IF d < now THEN now ELSE d : d \in {e \in j.dates : e >= now - Grace}}
    [] OTHER -> {}

PassedDates(j, now) == j.kind = "dates" /\ RemainingDates(j, now - Grace) = {}

(* The row and both timers register_job leaves behind, or raised.          *)
Registered(j, due, retry, now) ==
  IF j.status \notin {"active", "retry_scheduled"}
  THEN [job |-> j, timer |-> due, retry |-> retry, raised |-> FALSE]
  ELSE IF \/ WordsFinished(j) /\ j.status # "retry_scheduled"
          \/ PassedDates(j, now)
  THEN [job |-> [j EXCEPT !.status = IF @ = "retry_scheduled" THEN @ ELSE "completed"],
        timer |-> {}, retry |-> FALSE, raised |-> FALSE]
  ELSE [job |-> [j EXCEPT !.status = IF j.kind = "trigger" THEN @ ELSE "active"],
        timer |-> IF j.kind = "trigger" THEN due ELSE BuildTrigger(j, now), retry |-> retry,
        raised |-> j.kind # "trigger" /\ BuildTrigger(j, now) = {}]

RemoveTimerOnly == timer' = {} /\ UNCHANGED retryTimer
RemoveJob == timer' = {} /\ retryTimer' = FALSE

(* Does register_retry put the retry timer back?                           *)
RetryDue(j) == j.retryAt /\ j.groups # {}

-----------------------------------------------------------------------------
(* The scheduler: a due timer starts send_job unless a run of the same     *)
(* timer is still in flight, when the run is dropped (max_instances).      *)

Due == Anytime \in timer \/ \E t \in timer : t <= clock

Calls(c, by) ==
  /\ caller[c].phase = "idle"
  /\ caller' = [caller EXCEPT ![c] = [Asleep EXCEPT !.phase = "called", !.by = by]]

Fire ==
  /\ Due /\ (job.kind \in {"cron", "dates"} => firsts < MaxFirsts)
  /\ timer' = {t \in timer : t = Anytime \/ t > clock}
  /\ IF InFlight("timer") THEN UNCHANGED caller ELSE \E c \in Caller : Calls(c, "timer")
  /\ UNCHANGED <<job, retryTimer, clock, ghosts, budget>>

FireRetry ==
  /\ retryTimer /\ retryTimer' = FALSE
  /\ IF InFlight("retry") THEN UNCHANGED caller ELSE \E c \in Caller : Calls(c, "retry")
  /\ UNCHANGED <<job, timer, clock, ghosts, budget>>

Tick ==
  /\ clock < MaxTime /\ ~\E t \in timer : t \in Time /\ t <= clock
  /\ clock' = clock + 1
  /\ UNCHANGED <<job, timer, retryTimer, caller, ghosts, budget>>

-----------------------------------------------------------------------------
(* send_job *)

Begin(c) ==
  /\ caller[c].phase = "called"
  /\ caller' = [caller EXCEPT ![c] = IF job.status = "deleted" THEN Asleep
                                     ELSE [@ EXCEPT !.phase = "loaded", !.view = job]]
  /\ UNCHANGED <<job, timer, retryTimer, clock, ghosts, budget>>

(* Committing a session: the columns that differ from what it loaded, and  *)
(* those it always sets to a new value. A deleted row takes no writes.     *)
Commit(view, new, always) ==
  job' = IF job.status = "deleted" THEN job
         ELSE [f \in DOMAIN job |-> IF new[f] # view[f] \/ f \in always THEN new[f] ELSE job[f]]

Skips(c) == caller[c].by = "timer" /\ caller[c].view.skip > 0
            /\ caller[c].view.kind \notin {"trigger", "now"}
WordsDone(c) == caller[c].by # "retry" /\ WordsFinished(caller[c].view)
TargetsAll(c) == Recipients
Targets(c) == IF caller[c].by = "retry" THEN caller[c].view.groups ELSE Recipients

Ends(c) == caller' = [caller EXCEPT ![c] = Asleep]

(* A skipped run uses up a skip and no word.                               *)
SkippedRowUsingWord(v, now) ==
  [v EXCEPT !.skip = IF v.kind = "date" THEN 0 ELSE @ - 1, !.pos = Advance(v),
            !.status = IF v.kind = "date" THEN "completed" ELSE @]
SkippedRow(v, now) ==
  [v EXCEPT !.skip = IF v.kind = "date" THEN 0 ELSE @ - 1,
            !.status = IF v.kind = "date" \/ (v.kind = "dates" /\ RemainingDates(v, now) = {})
                       THEN "completed" ELSE @]
SkipRun(c) ==
  /\ caller[c].phase = "loaded" /\ Skips(c)
  /\ Commit(caller[c].view, SkippedRow(caller[c].view, clock), {})
  /\ Ends(c) /\ skipped' = TRUE
  /\ UNCHANGED <<timer, retryTimer, clock, got, firsts, used, late, budget>>

WordsRunOut(c) ==
  /\ caller[c].phase = "loaded" /\ ~Skips(c) /\ WordsDone(c)
  /\ LET v == caller[c].view
     IN Commit(v, [v EXCEPT !.status = IF @ \in {"active", "trigger"} THEN "completed" ELSE @], {})
  /\ Ends(c) /\ timer' = {}
  /\ UNCHANGED <<retryTimer, clock, ghosts, budget>>

NoRecipients(c) ==
  /\ caller[c].phase = "loaded" /\ Targets(c) = {} /\ Ends(c)
  /\ UNCHANGED <<job, timer, retryTimer, clock, ghosts, budget>>

Sends(c) == /\ caller[c].phase = "loaded" /\ ~Skips(c) /\ ~WordsDone(c) /\ Targets(c) # {}
First(c) == IF caller[c].by = "retry" THEN 0 ELSE 1

(* The row a run works on once it has filled the message.                  *)
Filled(c) == IF caller[c].by = "retry" THEN caller[c].view
             ELSE [caller[c].view EXCEPT !.pos = Advance(caller[c].view)]

(* _schedule_retry: the row after a run in which these recipients failed.  *)
ExhaustedLate(j) == j.retries > MaxRetries
Exhausted(j) == j.retries >= MaxRetries
GivenUpForgiving(j, now) == IF IsLastRun(j, now) THEN "completed" ELSE j.status
GivenUp(j, now) == IF IsLastRun(j, now) THEN "failed" ELSE j.status
Retried(j, failed, now) ==
  IF Exhausted(j)
  THEN [j EXCEPT !.retryAt = FALSE, !.groups = {}, !.status = GivenUp(j, now)]
  ELSE [j EXCEPT !.retries = @ + 1, !.retryAt = TRUE, !.groups = failed,
                 !.status = IF IsLastRun(j, now) THEN "retry_scheduled" ELSE @]

SentStatus(j, now) ==
  CASE WordsFinished(j) -> "completed"
    [] ~WordsFinished(j) /\ j.kind = "trigger" -> "trigger"
    [] ~WordsFinished(j) /\ j.kind = "cron" -> "active"
    [] OTHER -> IF IsLastRun(j, now) THEN "completed" ELSE "active"
Sent(j, now) ==
  [j EXCEPT !.retries = 0, !.retryAt = FALSE, !.groups = {}, !.status = SentStatus(j, now)]

(* The provider acknowledged the recipients in ok; then the one commit.    *)
Deliver(c, ok) ==
  /\ Sends(c) /\ ok \subseteq Targets(c)
  /\ LET v == caller[c].view
         j == Filled(c)
         failed == Targets(c) \ ok
         again == failed # {} /\ ~Exhausted(j)
     IN /\ Commit(v, IF failed = {} THEN Sent(j, clock) ELSE Retried(j, failed, clock),
                  IF again THEN {"retryAt"} ELSE {})
        /\ retryTimer' = again
        /\ timer' = IF failed = {} /\ WordsFinished(j) THEN {} ELSE timer
        /\ used' = used \cup {Step(v, caller[c].by = "retry")}
  /\ got' = [r \in Recipients |-> got[r] + IF r \in ok THEN 1 ELSE 0]
  /\ firsts' = firsts + First(c) /\ Ends(c)
  /\ UNCHANGED <<clock, late, skipped, budget>>

-----------------------------------------------------------------------------
(* Job actions *)

SendNow(c) ==
  /\ firsts < MaxFirsts /\ Calls(c, "user")
  /\ \/ /\ job.status = "trigger"
        /\ job' = [job EXCEPT !.retries = 0, !.retryAt = FALSE, !.groups = {}]
        /\ RemoveJob
     \/ /\ job.kind \in {"date", "cron", "dates"} /\ job.status = "active"
        /\ timer' = IF job.kind = "date" THEN {} ELSE timer
        /\ retryTimer' = (retryTimer /\ job.kind # "date")
        /\ UNCHANGED job
  /\ UNCHANGED <<clock, ghosts, budget>>

(* Pause, cancel and delete: remove_job, then the status.                  *)
Stops(from, to) ==
  /\ Calm /\ job.status \in from /\ RemoveJob
  /\ job' = [job EXCEPT !.status = to]
  /\ late' = ~Quiet /\ asks' = asks + 1
  /\ UNCHANGED <<clock, caller, got, firsts, used, skipped, edits, crashes>>

Pause == Stops({"active", "retry_scheduled"}, "paused")
Cancel == Stops({"active", "trigger", "retry_scheduled"}, "cancelled")
Delete == Stops(Status \ {"deleted"}, "deleted")

Resume ==
  /\ job.status = "paused"
  /\ IF job.retryAt /\ IsLastRun(job, clock)
     THEN /\ job' = [job EXCEPT !.status = "retry_scheduled"]
          /\ retryTimer' = (retryTimer \/ RetryDue(job)) /\ UNCHANGED timer
     ELSE LET j == [job EXCEPT !.status = IF job.kind = "trigger" THEN "trigger" ELSE "active"]
              done == Registered(j, timer, retryTimer, clock)
          IN IF done.raised THEN UNCHANGED <<job, timer, retryTimer>>
             ELSE /\ job' = done.job /\ timer' = done.timer
                  /\ retryTimer' = (done.retry \/ RetryDue(job))
  /\ UNCHANGED <<clock, caller, ghosts, budget>>

Skip ==
  /\ Calm /\ job.status = "active" /\ job.skip < MaxSkips
  /\ job' = [job EXCEPT !.skip = @ + 1] /\ asks' = asks + 1
  /\ UNCHANGED <<timer, retryTimer, clock, caller, ghosts, edits, crashes>>

SkipClear ==
  /\ job.skip > 0 /\ job.status # "deleted" /\ job' = [job EXCEPT !.skip = 0]
  /\ UNCHANGED <<timer, retryTimer, clock, caller, ghosts, budget>>

(* The form accepts dates that are still to come, but any one-time moment. *)
Plans(forms, now) == {p \in [as : forms, dates : SUBSET Time] :
                        CASE p.as[1] = "date" -> Cardinality(p.dates) = 1
                          [] p.as[1] = "dates" -> p.dates # {} /\ \A d \in p.dates : d > now
                          [] OTHER -> p.dates = {}}
Planned(p) == Fresh(p.as[1], p.dates, p.as[2])

(* The position an edited word list goes on from: the one its form showed, *)
(* or the last step of a list that had run out.                            *)
Position(words, shown) ==
  IF words = "none" THEN 0 ELSE IF shown < WordTotal THEN shown ELSE WordTotal - 1
Replanned(p, shown) == [Planned(p) EXCEPT !.pos = Position(p.as[2], shown)]

(* An edit starts the job over; when register_job raises, the timers are   *)
(* gone and the row keeps its old values (the session is rolled back).     *)
Edit(plan, shown) ==
  /\ Calm /\ job.status # "deleted"
  /\ LET done == Registered(Replanned(plan, shown), {}, FALSE, clock)
     IN IF done.raised THEN timer' = {} /\ UNCHANGED job
        ELSE job' = done.job /\ timer' = done.timer
  /\ retryTimer' = FALSE /\ edits' = edits + 1
  /\ UNCHANGED <<clock, caller, ghosts, asks, crashes>>

-----------------------------------------------------------------------------
(* A restart: the timers and the runs are gone, some recipients of a run   *)
(* in flight may have their message; load_all_jobs puts the timers back.   *)

Reloaded == {"active", "retry_scheduled"}

Loaded(now) ==
  LET known == job.status \in Reloaded
      waits == job.status = "retry_scheduled" /\ IsLastRun(job, now)
      done == IF known /\ ~waits THEN Registered(job, {}, FALSE, now)
              ELSE [job |-> job, timer |-> {}, retry |-> FALSE, raised |-> FALSE]
      row == IF done.raised THEN [job EXCEPT !.status = "failed"] ELSE done.job
  IN [job |-> row, timer |-> IF done.raised THEN {} ELSE done.timer,
      retry |-> known /\ RetryDue(row)
                /\ (waits \/ (row.kind \in {"cron", "dates"} /\ row.status # "retry_scheduled"))]

(* Runs cut off while they were sending.                                   *)
Cut == {c \in Caller : Sends(c)}
Restart ==
  /\ crashes < MaxCrashes /\ crashes' = crashes + 1
  /\ \E reached \in [Cut -> SUBSET Recipients] :
       /\ \A c \in Cut : reached[c] \subseteq Targets(c)
       /\ got' = [r \in Recipients |-> got[r] + Cardinality({c \in Cut : r \in reached[c]})]
  /\ firsts' = firsts + Cardinality({c \in Cut : caller[c].by # "retry"})
  /\ used' = used \cup {Step(caller[c].view, caller[c].by = "retry") : c \in Cut}
  /\ \E now \in clock..MaxTime :
       /\ clock' = now /\ job' = Loaded(now).job
       /\ timer' = Loaded(now).timer /\ retryTimer' = Loaded(now).retry
  /\ caller' = [c \in Caller |-> Asleep] /\ late' = FALSE
  /\ UNCHANGED <<skipped, asks, edits>>

-----------------------------------------------------------------------------
Init ==
  /\ clock = 0
  /\ \E plan \in Plans(Created, 0) :
       LET done == Registered(Planned(plan), {}, FALSE, 0)
       IN job = done.job /\ timer = done.timer
  /\ retryTimer = FALSE /\ caller = [c \in Caller |-> Asleep]
  /\ got = [r \in Recipients |-> 0] /\ firsts = 0 /\ used = {} /\ late = FALSE /\ skipped = FALSE
  /\ asks = 0 /\ edits = 0 /\ crashes = 0

Runs(c) ==
  \/ Begin(c) \/ SkipRun(c) \/ WordsRunOut(c) \/ NoRecipients(c)
  \/ \E ok \in SUBSET Recipients : Deliver(c, ok)

Next ==
  \/ Fire \/ FireRetry \/ Tick \/ Pause \/ Cancel \/ Delete \/ Resume \/ Skip \/ SkipClear
  \/ \E plan \in Plans(Edited, clock), shown \in 0..WordTotal : Edit(plan, shown)
  \/ Restart
  \/ \E c \in Caller : Runs(c) \/ SendNow(c)

Spec == Init /\ [][Next]_vars

-----------------------------------------------------------------------------
(* A recipient that acknowledged a message is not sent the same one again: *)
(* apart from a restart in the middle of a run, whose outcomes were not    *)
(* yet committed, nobody gets more messages than there were runs. (Retries *)
(* go to those that failed, whatever other runs overlap.)                  *)
ConfirmedNotResent == \A r \in Recipients : got[r] <= firsts + crashes

(* A job paused, cancelled or deleted while no run was in flight stays     *)
(* quiet: no timer, retry or restart sends it.                             *)
StopHolds ==
  (job.status \in {"paused", "cancelled", "deleted"} /\ ~late)
     => (Quiet /\ timer = {} /\ ~retryTimer)

(* No word is passed over: every step before the job's position has been   *)
(* in a message, though runs overlap, fail, are skipped and are cut off.   *)
WordsNotSkipped == (edits = 0 /\ job.words # "none") => 0..(job.pos - 1) \subseteq used

(* A one-time job shown as completed reached every recipient, whichever of *)
(* its runs and retries did. (Of a list that stops at its end, four runs   *)
(* that overlap can leave a position that reads as completed.)             *)
CompletedDelivered ==
  (/\ job.kind \in {"date", "now"} /\ job.status = "completed" /\ job.words # "stop"
   /\ edits = 0 /\ ~skipped)
     => \A r \in Recipients : got[r] >= 1

(* A job that is shown as scheduled keeps a timer or a run in flight that  *)
(* will take it up, over skips, retries, restarts and overlapping runs     *)
(* alike. (An older run can take the position of a list that stops back,   *)
(* and a job stopped during a run gets its status written back.)           *)
TimerKept ==
  (edits = 0 /\ ~late /\ job.words # "stop" /\ job.status = "active")
     => (timer # {} \/ ~Quiet)

(* The recipients a one-time job did not reach are not given up while it   *)
(* is shown as waiting for a retry: the retry is due or in flight, over    *)
(* pauses, further retries and restarts, unless a second run of it began.  *)
RetryKept ==
  (/\ edits = 0 /\ ~late /\ firsts <= 1
   /\ job.kind \in {"date", "now"} /\ job.status = "retry_scheduled")
     => (retryTimer \/ ~Quiet)

(* No job is forgotten while the pages show it as scheduled: what its      *)
(* status promises, the next run or the retry, will come.                  *)
NotForgotten == TimerKept /\ RetryKept
=============================================================================

----------------------------- MODULE NativeJobs -----------------------------
(***************************************************************************)
(* One job sent through the WhatsApp worker (app/services/native_jobs.py   *)
(* with send_job of scheduler.py and the job actions of routers/jobs.py):  *)
(* the schedule and Send Now start runs, a run submits one attempt per     *)
(* recipient, and a poll every ten seconds follows the accepted ones.      *)
(*                                                                         *)
(* Coroutines interleave at every await. Each works on its own database    *)
(* session, and a session keeps the rows it has loaded as they were (the   *)
(* identity map with expire_on_commit=False, app/database.py:18): the      *)
(* views below. A column is written back only if the session changed it.   *)
(*                                                                         *)
(* Attempts are numbered in the order they are inserted, Recipients to a   *)
(* run. The worker and the age of an attempt are external.                 *)
(*                                                                         *)
(* A definition named like its successor with a word added (Unclaimed,     *)
(* Raw, Early and the like) is a slip the properties must notice; no       *)
(* action uses it.                                                         *)
(***************************************************************************)
EXTENDS Integers, Sequences, FiniteSets, Delivery

CONSTANTS Caller,      \* coroutines that run send_job
          Recipients,  \* recipients of the job
          BatchLimit,  \* attempts one poll looks at (200 in the code)
          FirstKind,   \* kinds of schedule the job is created with
          EditKind,    \* kinds it may be edited to
          MaxRuns,     \* bound: runs
          MaxEdits,    \* bound: edits of the job
          MaxCrashes   \* bound: restarts of the application

ASSUME NativeAssumption ==
  /\ Recipients \in Nat \ {0} /\ BatchLimit \in Nat \ {0}
  /\ MaxRuns \in Nat /\ MaxEdits \in Nat /\ MaxCrashes \in Nat
  /\ FirstKind \subseteq {"once", "cron", "trigger"}
  /\ EditKind \subseteq {"once", "cron", "trigger"}

VARIABLES
  job,        \* the job's row: status and kind of schedule
  scheduled,  \* is its timer in the scheduler?
  runs,       \* runs started so far
  attempt,    \* the delivery attempts' rows: status, and is relay_message_id set?
  active,     \* ACTIVE_RUNS
  cursor,     \* POLL_CURSOR
  caller,     \* the coroutines running send_job, with their session's view
  poll,       \* poll_deliveries, with its session's view
  mail,       \* external: what the worker has made of each attempt
  edits, crashes

vars == <<job, scheduled, runs, attempt, active, cursor, caller, poll, mail, edits, crashes>>

Kind == {"once", "cron", "trigger"}
JobStatus == {"active", "trigger", "queued", "paused", "cancelled",
              "completed", "failed", "unknown"}
Job == [status : JobStatus, kind : Kind]

Run == 1..MaxRuns
Attempt == 1..(MaxRuns * Recipients)
RunOf(a) == (a - 1) \div Recipients + 1
AttemptsOf(r) == {a \in Attempt : RunOf(a) = r}

PENDING == {"submitting", "queued"}      \* "processing" is shown as "queued"
Row == [status : {"none", "submitting", "queued", "sent", "failed", "unknown"}, id : BOOLEAN]
Outcome == {"queued", "failed", "unknown"}
Mail == {"none", "open", "sent", "failed", "unknown"}

Unwritten == [status |-> "none", id |-> FALSE]

(* A coroutine in send_job: its session's view of the job, its run, and    *)
(* the outcomes it has recorded.                                           *)
Coroutine == [phase : {"idle", "loaded", "sending", "closing"}, by : {"timer", "user"},
              view : Job, run : 0..MaxRuns, own : Seq(Outcome)]
Asleep == [phase |-> "idle", by |-> "user", view |-> [status |-> "active", kind |-> "once"],
           run |-> 0, own |-> <<>>]

(* poll_deliveries: the rows its session holds (batch, view), those still  *)
(* to be looked at and those changed, the runs to finish, and, once it has *)
(* awaited anything, the job as it was then.                               *)
PollState == [busy : BOOLEAN, waited : BOOLEAN, batch : SUBSET Attempt, todo : SUBSET Attempt,
              view : [Attempt -> Row], changed : SUBSET Attempt, job : Job, done : SUBSET Run]
NoPoll == [busy |-> FALSE, waited |-> FALSE, batch |-> {}, todo |-> {},
           view |-> [a \in Attempt |-> Unwritten], changed |-> {}, job |-> Asleep.view,
           done |-> {}]

TypeOK ==
  /\ job \in Job /\ scheduled \in BOOLEAN
  /\ runs \in 0..MaxRuns
  /\ attempt \in [Attempt -> Row] /\ mail \in [Attempt -> Mail]
  /\ active \subseteq Run
  /\ cursor \in 0..(MaxRuns * Recipients)
  /\ caller \in [Caller -> Coroutine] /\ \A c \in Caller : Len(caller[c].own) <= Recipients
  /\ poll \in PollState
  /\ edits \in 0..MaxEdits /\ crashes \in 0..MaxCrashes

-----------------------------------------------------------------------------
(* finish_run *)

Terminal(statuses) ==
  IF "unknown" \in statuses THEN "unknown" ELSE
  IF "failed" \in statuses THEN "failed" ELSE "sent"

(* The status finish_run leaves in the view of a session that sees these   *)
(* attempt statuses and this job.                                          *)
FinishedStatusRaw(view, statuses) ==
  CASE view.status \in {"cancelled", "paused"} -> view.status
    [] view.kind = "cron" -> "active"
    [] view.kind = "trigger" -> "trigger"
    [] OTHER -> Terminal(statuses)
FinishedStatus(view, statuses) ==
  CASE view.status \in {"cancelled", "paused"} -> view.status
    [] view.kind = "cron" -> "active"
    [] view.kind = "trigger" -> "trigger"
    [] OTHER -> IF Terminal(statuses) = "sent" THEN "completed" ELSE Terminal(statuses)

(* Committing a view: only a changed status is written.                    *)
WriteStatus(view, new) ==
  job' = IF new = view.status THEN job ELSE [job EXCEPT !.status = new]

-----------------------------------------------------------------------------
(* send_job and submit_job *)

Load(c, by) ==
  /\ caller[c].phase = "idle" /\ runs < MaxRuns
  /\ caller' = [caller EXCEPT ![c] = [Asleep EXCEPT !.phase = "loaded", !.by = by, !.view = job]]
  /\ UNCHANGED <<job, runs, attempt, active, cursor, poll, mail, edits, crashes>>

(* The scheduler runs one instance of a job's timer at a time.             *)
TimerFires(c) ==
  /\ scheduled /\ \A d \in Caller : caller[d].phase = "idle" \/ caller[d].by # "timer"
  /\ Load(c, "timer") /\ scheduled' = (job.kind = "cron")

SendNow(c) ==
  /\ job.status = "trigger" \/ (job.kind # "trigger" /\ job.status = "active")
  /\ Load(c, "user") /\ scheduled' = (scheduled /\ job.kind = "cron")

Refused(status) == status \in {"queued", "completed", "cancelled", "paused"}
Claimable(status) == status \in {"active", "trigger"}

(* The status check, the claim and the attempts, committed together; the   *)
(* run joins ACTIVE_RUNS. A repeating schedule needs no claim.             *)
StartRun(c, view) ==
  /\ runs' = runs + 1 /\ active' = active \cup {runs + 1}
  /\ attempt' = [a \in Attempt |-> IF RunOf(a) = runs + 1
                                   THEN [status |-> "submitting", id |-> FALSE]
                                   ELSE attempt[a]]
  /\ caller' = [caller EXCEPT ![c] = [@ EXCEPT !.phase = "sending", !.run = runs + 1,
                                               !.view = view]]

SubmitUnclaimed(c) ==
  /\ caller[c].phase = "loaded"
  /\ LET view == caller[c].view
     IN IF Refused(view.status)
        THEN /\ caller' = [caller EXCEPT ![c] = Asleep]
             /\ UNCHANGED <<job, runs, attempt, active>>
        ELSE /\ runs < MaxRuns
             /\ job' = [job EXCEPT !.status = IF view.kind = "cron" THEN @ ELSE "queued"]
             /\ StartRun(c, [view EXCEPT !.status = IF view.kind = "cron" THEN @ ELSE "queued"])
  /\ UNCHANGED <<scheduled, cursor, poll, mail, edits, crashes>>
Submit(c) ==
  /\ caller[c].phase = "loaded"
  /\ LET view == caller[c].view
     IN IF Refused(view.status) \/ (view.kind # "cron" /\ ~Claimable(job.status))
        THEN /\ caller' = [caller EXCEPT ![c] = Asleep]
             /\ UNCHANGED <<job, runs, attempt, active>>
        ELSE /\ runs < MaxRuns
             /\ job' = [job EXCEPT !.status = IF view.kind = "cron" THEN @ ELSE "queued"]
             /\ StartRun(c, [view EXCEPT !.status = IF view.kind = "cron" THEN @ ELSE "queued"])
  /\ UNCHANGED <<scheduled, cursor, poll, mail, edits, crashes>>

Current(c) == (caller[c].run - 1) * Recipients + Len(caller[c].own) + 1

(* One recipient's outcome. After the last one the run leaves ACTIVE_RUNS. *)
Record(c, outcome) ==
  /\ attempt' = [attempt EXCEPT ![Current(c)] = [status |-> outcome, id |-> outcome = "queued"]]
  /\ LET own == Append(caller[c].own, outcome)
     IN IF Len(own) < Recipients
        THEN caller' = [caller EXCEPT ![c].own = own] /\ UNCHANGED active
        ELSE /\ caller' = [caller EXCEPT ![c] = [@ EXCEPT !.own = own, !.phase = "closing"]]
             /\ active' = active \ {caller[c].run}
  /\ UNCHANGED <<job, scheduled, runs, cursor, poll, edits, crashes>>

(* What comes back from the worker: 202 with or without a message id, a    *)
(* refusal (a 4xx status, or the payload failed validation before any      *)
(* request), 409 not_connected, any other 409 or 408, and everything else: *)
(* 5xx, timeouts, broken connections. Reaches says what the worker has     *)
(* then made of the message (external), OutcomeOf what is recorded.        *)
Answer == {"accepted", "malformed", "refused", "not_connected", "conflict", "lost"}
Reaches(answer) ==
  CASE answer \in {"accepted", "malformed"} -> {"open"}
    [] answer \in {"refused", "not_connected"} -> {"none"}
    [] OTHER -> {"none", "open"}

OutcomeOfAnyClientError(answer) ==
  CASE answer = "accepted" -> "queued"
    [] answer \in {"refused", "not_connected", "conflict"} -> "failed"
    [] OTHER -> "unknown"
OutcomeOf(answer) ==
  CASE answer = "accepted" -> "queued"
    [] answer \in {"refused", "not_connected"} -> "failed"
    [] OTHER -> "unknown"

Enqueue(c, answer) ==
  /\ caller[c].phase = "sending"
  /\ \E got \in Reaches(answer) : mail' = [mail EXCEPT ![Current(c)] = got]
  /\ Record(c, OutcomeOf(answer))

(* finish_run at the end of the run reads the attempts as its own session  *)
(* wrote them.                                                             *)
Finish(c) ==
  /\ caller[c].phase = "closing"
  /\ LET own == {caller[c].own[n] : n \in DOMAIN caller[c].own}
     IN IF own \cap PENDING # {}
        THEN UNCHANGED job
        ELSE WriteStatus(caller[c].view, FinishedStatus(caller[c].view, own))
  /\ caller' = [caller EXCEPT ![c] = Asleep]
  /\ UNCHANGED <<scheduled, runs, attempt, active, cursor, poll, mail, edits, crashes>>

-----------------------------------------------------------------------------
(* poll_deliveries *)

(* The batch: open and unknown attempts after the cursor, or from the      *)
(* start again when there are none. The rows are loaded here.              *)
PolledAccepted == {a \in Attempt : attempt[a].status \in {"queued", "unknown"}}
Polled == {a \in Attempt : attempt[a].status \in PENDING \cup {"unknown"}}
Batch(from) ==
  {a \in Polled : a > from /\ Cardinality({b \in Polled : from < b /\ b < a}) < BatchLimit}

BeginPoll(batch) ==
  /\ ~poll.busy
  /\ \/ batch = {} /\ cursor' = 0 /\ poll' = NoPoll
     \/ \E last \in batch :
          /\ \A a \in batch : a <= last
          /\ cursor' = last
          /\ poll' = [NoPoll EXCEPT !.busy = TRUE, !.batch = batch, !.todo = batch,
                        !.view = [a \in Attempt |-> IF a \in batch THEN attempt[a] ELSE Unwritten]]
  /\ UNCHANGED <<job, scheduled, runs, attempt, active, caller, mail, edits, crashes>>
PollStartsNoCursor == BeginPoll(Batch(0))
PollStarts == BeginPoll(IF Batch(cursor) # {} THEN Batch(cursor) ELSE Batch(0))

At(a) == poll.busy /\ a \in poll.todo /\ \A b \in poll.todo : a <= b
PollElse == UNCHANGED <<job, scheduled, runs, attempt, active, cursor, caller, mail, edits, crashes>>

(* continue: nothing was learnt. An attempt without a message id cannot be *)
(* asked for, one that is being submitted or is younger than two minutes   *)
(* may still be answered, and a failed request says nothing. Loading the   *)
(* job comes before the request.                                           *)
PollSkips(a) ==
  /\ At(a)
  /\ poll' = [poll EXCEPT !.todo = @ \ {a},
                          !.waited = @ \/ poll.view[a].id,
                          !.job = IF poll.view[a].id /\ ~poll.waited THEN job ELSE @]
  /\ PollElse

Learn(a, status) ==
  poll' = [poll EXCEPT !.todo = @ \ {a},
                       !.waited = @ \/ poll.view[a].id,
                       !.view[a].status = status,
                       !.changed = IF status = poll.view[a].status THEN @ ELSE @ \cup {a},
                       !.job = IF poll.view[a].id /\ ~poll.waited THEN job ELSE @,
                       !.done = IF status \in PENDING THEN @ ELSE @ \cup {RunOf(a)}]

(* A submission no coroutine works on any more, two minutes old. The row   *)
(* may be out of date once the loop has awaited a request.                 *)
PollInterrupted(a) ==
  /\ At(a) /\ poll.view[a].status = "submitting"
  /\ RunOf(a) \notin active
  /\ poll.waited \/ attempt[a] = poll.view[a]
  /\ Learn(a, "unknown") /\ PollElse

(* The connection was removed, switched off or replaced.                   *)
PollDisconnected(a) ==
  /\ At(a) /\ poll.view[a].status = "queued"
  /\ Learn(a, "unknown") /\ PollElse

(* The worker answers with what it has made of the message by now. An      *)
(* unknown attempt can only be resolved.                                   *)
Settles(m) == IF m = "open" THEN {"open", "sent", "failed", "unknown"} ELSE {m} \cup Onward(m)

PollAnsweredAnyway(a) ==
  /\ At(a) /\ poll.view[a].id /\ poll.view[a].status \in {"queued", "unknown"}
  /\ \E m \in Settles(mail[a]) :
       mail' = [mail EXCEPT ![a] = m] /\ Learn(a, IF m = "open" THEN "queued" ELSE m)
  /\ UNCHANGED <<job, scheduled, runs, attempt, active, cursor, caller, edits, crashes>>
PollAnsweredEarly(a) ==
  /\ At(a) /\ poll.view[a].id /\ poll.view[a].status \in {"queued", "unknown"}
  /\ \E m \in Settles(mail[a]) :
       /\ poll.view[a].status = "unknown" => m \in {"sent", "failed"}
       /\ mail' = [mail EXCEPT ![a] = m] /\ Learn(a, IF m = "open" THEN "sent" ELSE m)
  /\ UNCHANGED <<job, scheduled, runs, attempt, active, cursor, caller, edits, crashes>>
PollAnswered(a) ==
  /\ At(a) /\ poll.view[a].id /\ poll.view[a].status \in {"queued", "unknown"}
  /\ \E m \in Settles(mail[a]) :
       /\ poll.view[a].status = "unknown" => m \in {"sent", "failed"}
       /\ mail' = [mail EXCEPT ![a] = m] /\ Learn(a, IF m = "open" THEN "queued" ELSE m)
  /\ UNCHANGED <<job, scheduled, runs, attempt, active, cursor, caller, edits, crashes>>

(* Flush, finish_run for every run with a newly settled attempt, commit.   *)
(* finish_run sees the batch's rows as this session has them.              *)
PollCommits ==
  /\ poll.busy /\ poll.todo = {}
  /\ attempt' = [a \in Attempt |-> IF a \in poll.changed
                                   THEN [attempt[a] EXCEPT !.status = poll.view[a].status]
                                   ELSE attempt[a]]
  /\ LET seen(a) == IF a \in poll.batch THEN poll.view[a].status ELSE attempt[a].status
         statuses(r) == {seen(a) : a \in AttemptsOf(r)}
         finished == {r \in poll.done : statuses(r) \cap PENDING = {}}
         view == IF poll.waited THEN poll.job ELSE job
     IN IF finished = {}
        THEN UNCHANGED job
        ELSE \E r \in finished : WriteStatus(view, FinishedStatus(view, statuses(r)))
  /\ poll' = NoPoll
  /\ UNCHANGED <<scheduled, runs, active, cursor, caller, mail, edits, crashes>>

-----------------------------------------------------------------------------
(* The user's actions on the job, each one transaction *)

Uninvolved == UNCHANGED <<runs, attempt, active, cursor, caller, poll, mail, crashes>>

Pause ==
  /\ job.status = "active" /\ job' = [job EXCEPT !.status = "paused"]
  /\ scheduled' = FALSE /\ UNCHANGED edits /\ Uninvolved

Resume ==
  /\ job.status = "paused"
  /\ job' = [job EXCEPT !.status = IF job.kind = "trigger" THEN "trigger" ELSE "active"]
  /\ scheduled' = (job.kind # "trigger") /\ UNCHANGED edits /\ Uninvolved

Cancel ==
  /\ job.status \in {"active", "trigger"} /\ job' = [job EXCEPT !.status = "cancelled"]
  /\ scheduled' = FALSE /\ UNCHANGED edits /\ Uninvolved

(* Saving the edit form schedules the job anew, whatever its status.       *)
Edit(kind) ==
  /\ edits < MaxEdits /\ edits' = edits + 1
  /\ job' = [status |-> IF kind = "trigger" THEN "trigger" ELSE "active", kind |-> kind]
  /\ scheduled' = (kind # "trigger") /\ Uninvolved

(* The application stops and starts again. The request in flight may have  *)
(* reached the worker. load_all_jobs schedules active jobs, and fails one  *)
(* whose time passed more than ten minutes ago.                            *)
Restart ==
  /\ crashes < MaxCrashes /\ crashes' = crashes + 1
  /\ \E reached \in SUBSET {c \in Caller : caller[c].phase = "sending"} :
       mail' = [a \in Attempt |-> IF \E c \in reached : a = Current(c) THEN "open" ELSE mail[a]]
  /\ active' = {} /\ cursor' = 0 /\ poll' = NoPoll
  /\ caller' = [c \in Caller |-> Asleep]
  /\ \/ /\ scheduled' = (job.status = "active" /\ job.kind # "trigger")
        /\ UNCHANGED job
     \/ /\ job.status = "active" /\ job.kind = "once"
        /\ job' = [job EXCEPT !.status = "failed"] /\ scheduled' = FALSE
  /\ UNCHANGED <<runs, attempt, edits>>

-----------------------------------------------------------------------------
Init ==
  /\ job \in {[status |-> "active", kind |-> k] : k \in FirstKind \ {"trigger"}}
             \cup {[status |-> "trigger", kind |-> k] : k \in FirstKind \cap {"trigger"}}
  /\ scheduled = (job.kind # "trigger")
  /\ runs = 0 /\ active = {} /\ cursor = 0
  /\ attempt = [a \in Attempt |-> Unwritten]
  /\ mail = [a \in Attempt |-> "none"]
  /\ caller = [c \in Caller |-> Asleep] /\ poll = NoPoll
  /\ edits = 0 /\ crashes = 0

Sending(c) ==
  \/ TimerFires(c) \/ SendNow(c) \/ Submit(c)
  \/ \E answer \in Answer : Enqueue(c, answer)
  \/ Finish(c)

Polling ==
  \/ PollStarts \/ PollCommits
  \/ \E a \in Attempt : PollSkips(a) \/ PollInterrupted(a) \/ PollDisconnected(a) \/ PollAnswered(a)

Next ==
  \/ \E c \in Caller : Sending(c)
  \/ Polling
  \/ Pause \/ Resume \/ Cancel
  \/ \E kind \in EditKind : Edit(kind)
  \/ Restart

Spec == Init /\ [][Next]_vars

(* Coroutines run on, and the poll is an interval timer. Every attempt     *)
(* grows old, and a worker that is asked again and again reports an        *)
(* outcome in the end: a message it attempted is unknown after two         *)
(* minutes, one it did not is attempted once the connection is up again    *)
(* (Worker!PendingMoves).                                                  *)
FairSpec ==
  /\ Spec
  /\ \A c \in Caller : WF_vars(Submit(c) \/ (\E answer \in Answer : Enqueue(c, answer)) \/ Finish(c))
  /\ WF_vars(Polling)
  /\ \A a \in Attempt : /\ SF_vars(PollInterrupted(a))
                        /\ SF_vars(PollAnswered(a) /\ mail'[a] # "open")

-----------------------------------------------------------------------------
(* Properties *)

(* "failed" without a message id is a promise that nothing was accepted:   *)
(* the user may send again (native_jobs.py:108-117).                       *)
FailedNotAccepted ==
  \A a \in Attempt : attempt[a].status = "failed" /\ ~attempt[a].id => mail[a] = "none"

(* "sent" is only ever reported for a message WhatsApp acknowledged, in    *)
(* the row and in every session's view of it.                              *)
SentConfirmed ==
  /\ \A a \in Attempt : attempt[a].status = "sent" => mail[a] = "sent"
  /\ \A a \in poll.batch : poll.view[a].status = "sent" => mail[a] = "sent"

(* However coroutines, poll and restarts overtake each other, the rows     *)
(* live as Attempts.tla says: nothing is submitted again, an uncertain     *)
(* attempt can only be resolved, and an outcome asked for is final.        *)
AttemptRows == INSTANCE Attempts WITH Name <- Attempt, row <- attempt
AttemptsSpec == AttemptRows!Spec

(* A one-time job that was not edited runs once, however often the timer,  *)
(* Send Now, late acknowledgements and restarts meet (native_jobs.py:59).  *)
OneTimeRunsOnce == job.kind = "once" /\ edits = 0 => runs <= 1

(* Every attempt gets an answer: an interrupted submission becomes         *)
(* unknown, never left "submitting".                                       *)
SubmissionSettles ==
  \A a \in Attempt : attempt[a].status = "submitting" ~> attempt[a].status # "submitting"

(* However many attempts wait, and whatever older unknown ones fill the    *)
(* batch, the outcome of an accepted message is fetched in the end (the    *)
(* cursor, native_jobs.py:131-141).                                        *)
OutcomeFetched ==
  \A a \in Attempt : attempt[a].status = "queued" ~> attempt[a].status # "queued"

(* Nothing is in flight and every attempt of every run has its final       *)
(* outcome.                                                                *)
Quiet ==
  /\ ~poll.busy /\ \A c \in Caller : caller[c].phase = "idle"
  /\ \A a \in Attempt : attempt[a].status \in {"none", "sent", "failed"}

(* A run ends with "Updates job status (completed for one-time, stays      *)
(* active for cron, remains "trigger" for trigger-type)"                   *)
(* (docs/architecture.md:195): once all is settled no job is left queued.  *)
QuietJobReleased == Quiet => job.status # "queued"

(* "concurrent button presses cannot resubmit" (native_jobs.py:59): an     *)
(* on-demand job has one run submitting at a time.                         *)
OneRunAtATime ==
  job.kind = "trigger" /\ edits = 0 =>
    \A c, d \in Caller : caller[c].phase = "sending" /\ caller[d].phase = "sending" => c = d

(* "Stop a job for good" (routers/jobs.py:866): with no run in progress,   *)
(* only editing the job brings a cancelled one back.                       *)
CancelledForGood ==
  [][job.status = "cancelled" /\ edits' = edits /\ (\A c \in Caller : caller[c].phase = "idle")
       => job'.status = "cancelled"]_vars
=============================================================================

---------------------------- MODULE NativeProofs ----------------------------
(***************************************************************************)
(* Theorems about NativeJobs.tla for any number of coroutines, recipients, *)
(* runs, edits and restarts and any batch limit, with their proofs.        *)
(***************************************************************************)
EXTENDS NativeJobs, TLAPS

-----------------------------------------------------------------------------
(* Lemmas about the numbering of the attempts *)

(* Runs own consecutive blocks of Recipients attempts.                     *)
LEMMA DivFacts ==
  ASSUME NEW q \in Nat, NEW k \in Nat, NEW n \in Nat \ {0}, k < n
  PROVE  (q * n + k) \div n = q
<1>1. q * n + k \in Nat /\ q * n \in Nat
  OBVIOUS
<1>. DEFINE d == (q * n + k) \div n
             m == (q * n + k) % n
<1>2. d \in Int /\ m \in 0..(n - 1) /\ q * n + k = n * d + m
  BY <1>1
<1>3. n * (d - q) = k - m
  BY <1>2
<1>4. d - q < 1
  <2>. SUFFICES ASSUME d - q >= 1 PROVE FALSE
    BY <1>2
  <2>1. n * (d - q) >= n
    BY <1>2
  <2>. QED BY <2>1, <1>2, <1>3
<1>5. d - q > -1
  <2>. SUFFICES ASSUME q - d >= 1 PROVE FALSE
    BY <1>2
  <2>1. n * (q - d) >= n
    BY <1>2
  <2>2. n * (q - d) = m - k
    BY <1>2
  <2>. QED BY <2>1, <2>2, <1>2
<1>. QED BY <1>2, <1>4, <1>5

LEMMA RunOfFacts ==
  ASSUME NEW a \in Attempt
  PROVE  RunOf(a) \in Run
<1>. USE NativeAssumption DEF Attempt
<1>. DEFINE d == (a - 1) \div Recipients
             m == (a - 1) % Recipients
<1>1. a - 1 \in Nat /\ a - 1 < MaxRuns * Recipients
  OBVIOUS
<1>2. d \in Int /\ m \in 0..(Recipients - 1) /\ a - 1 = Recipients * d + m
  BY <1>1
<1>3. d >= 0
  <2>. SUFFICES ASSUME d <= -1 PROVE FALSE
    BY <1>2
  <2>1. Recipients * d <= -Recipients
    BY <1>2
  <2>. QED BY <2>1, <1>1, <1>2
<1>4. d < MaxRuns
  <2>. SUFFICES ASSUME d >= MaxRuns PROVE FALSE
    BY <1>2
  <2>1. Recipients * d >= Recipients * MaxRuns
    BY <1>2
  <2>. QED BY <2>1, <1>1, <1>2
<1>. QED BY <1>2, <1>3, <1>4 DEF RunOf, Run

LEMMA PlaceFacts ==
  ASSUME NEW r \in Run, NEW k \in Nat, k < Recipients
  PROVE  /\ (r - 1) * Recipients + k + 1 \in Attempt
         /\ RunOf((r - 1) * Recipients + k + 1) = r
<1>. USE NativeAssumption
<1>. DEFINE x == (r - 1) * Recipients + k
<1>1. r \in Nat /\ r - 1 \in Nat /\ r - 1 <= MaxRuns - 1 /\ MaxRuns \in Nat
  BY DEF Run
<1>2. (r - 1) * Recipients \in Nat /\ (r - 1) * Recipients <= (MaxRuns - 1) * Recipients
  BY <1>1
<1>3. (MaxRuns - 1) * Recipients + Recipients = MaxRuns * Recipients
  BY <1>1
<1>4. x + 1 \in Attempt /\ x \in Nat
  BY <1>2, <1>3 DEF Attempt
<1>5. x \div Recipients = r - 1
  BY <1>1, DivFacts
<1>. HIDE DEF x
<1>6. (x + 1) - 1 = x
  BY <1>4
<1>7. RunOf(x + 1) = r
  BY <1>1, <1>5, <1>6 DEF RunOf
<1>. QED BY <1>4, <1>7 DEF x
-----------------------------------------------------------------------------
(* The inductive invariant *)

(* Rows exist only for runs that started; a queued one has a message id,   *)
(* and an id says that the worker knows the message.                       *)
RowInv ==
  \A a \in Attempt :
    /\ attempt[a].status # "none" => RunOf(a) <= runs
    /\ attempt[a].status = "queued" => attempt[a].id
    /\ attempt[a].id => mail[a] # "none"

(* The poll never changes a row of a run that has not started, believes in *)
(* no message id that is not there, and changes a row only to an outcome.  *)
PollInv ==
  /\ poll.todo \subseteq poll.batch /\ poll.changed \subseteq poll.batch
  /\ \A a \in poll.batch :
       /\ RunOf(a) <= runs
       /\ poll.view[a].id => attempt[a].id
       /\ poll.view[a].status \in {"queued", "sent", "failed"} => poll.view[a].id
  /\ \A a \in poll.changed : poll.view[a].status \in {"unknown", "sent", "failed"}

(* A coroutine that submits owns its run: the attempts still to be made    *)
(* are as it inserted them, in the rows and in the poll's view of them.    *)
Fresh == [status |-> "submitting", id |-> FALSE]
Owns(c) ==
  /\ caller[c].run \in active /\ caller[c].run \in 1..runs
  /\ Len(caller[c].own) < Recipients
  /\ \A a \in Attempt : RunOf(a) = caller[c].run /\ a >= Current(c) =>
       /\ attempt[a] = Fresh
       /\ a \in poll.batch => poll.view[a] = Fresh /\ a \notin poll.changed
SendInv ==
  /\ \A c \in Caller : caller[c].phase = "loaded" => caller[c].own = <<>>
  /\ \A c \in Caller : caller[c].phase = "sending" => Owns(c)
  /\ \A c, d \in Caller :
       caller[c].phase = "sending" /\ caller[d].phase = "sending"
         /\ caller[c].run = caller[d].run => c = d

(* Until the job is edited every session sees its real kind, and once a    *)
(* one-time job has run its status admits no other run.                    *)
OnceInv ==
  edits = 0 =>
    /\ \A c \in Caller : caller[c].phase # "idle" => caller[c].view.kind = job.kind
    /\ poll.waited => poll.job.kind = job.kind
    /\ job.kind = "once" /\ runs >= 1 =>
         runs = 1 /\ job.status \in {"queued", "completed", "failed", "unknown"}

IInv ==
  /\ TypeOK /\ RowInv /\ PollInv /\ SendInv /\ OnceInv
  /\ FailedNotAccepted /\ SentConfirmed

-----------------------------------------------------------------------------
(* The initial states, and steps of the timer and of the user *)

LEMMA AsleepType == Asleep \in Coroutine /\ Asleep.own = <<>> /\ Asleep.view \in Job
  BY NativeAssumption DEF Asleep, Coroutine, Job, JobStatus, Kind, Outcome

LEMMA NoPollType == NoPoll \in PollState
  BY AsleepType DEF NoPoll, PollState, Unwritten, Row

LEMMA InitInv == Init => IInv
<1>. SUFFICES ASSUME Init PROVE IInv
  OBVIOUS
<1>. USE NativeAssumption DEF Init
<1>1. TypeOK
  <2>1. job \in Job
    BY DEF Job, JobStatus, Kind
  <2>2. attempt \in [Attempt -> Row] /\ mail \in [Attempt -> Mail]
    BY DEF Unwritten, Row, Mail
  <2>3. caller \in [Caller -> Coroutine] /\ \A c \in Caller : Len(caller[c].own) <= Recipients
    BY AsleepType
  <2>4. runs \in 0..MaxRuns /\ cursor \in 0..(MaxRuns * Recipients)
    OBVIOUS
  <2>. QED BY <2>1, <2>2, <2>3, <2>4, NoPollType DEF TypeOK
<1>2. RowInv /\ FailedNotAccepted
  BY DEF RowInv, FailedNotAccepted, Unwritten
<1>3. PollInv /\ SentConfirmed
  BY DEF PollInv, SentConfirmed, NoPoll, Unwritten
<1>4. SendInv /\ OnceInv
  BY DEF SendInv, OnceInv, Asleep, NoPoll
<1>. QED BY <1>1, <1>2, <1>3, <1>4 DEF IInv

(* Steps that leave the rows, the runs and the poll alone and wake or put  *)
(* to sleep a coroutine that is not in the middle of a submission.         *)
LEMMA RowsUntouched ==
  ASSUME IInv, UNCHANGED <<runs, attempt, mail, poll>>
  PROVE  RowInv' /\ PollInv' /\ FailedNotAccepted' /\ SentConfirmed'
  BY DEF IInv, RowInv, PollInv, FailedNotAccepted, SentConfirmed

LEMMA LoadInv ==
  ASSUME IInv, NEW c \in Caller, NEW by \in {"timer", "user"}, Load(c, by),
         scheduled' \in BOOLEAN
  PROVE  IInv'
<1>. USE DEF Load
<1>. DEFINE new == [Asleep EXCEPT !.phase = "loaded", !.by = by, !.view = job]
<1>1. new \in Coroutine /\ new.own = <<>>
  <2>1. job \in Job
    BY DEF IInv, TypeOK
  <2>2. new \in Coroutine
    BY <2>1, AsleepType DEF Coroutine
  <2>3. new.own = Asleep.own
    BY AsleepType DEF Coroutine
  <2>. QED BY <2>2, <2>3, AsleepType
<1>2. TypeOK'
  BY <1>1, NativeAssumption DEF IInv, TypeOK
<1>3. \A d \in Caller : caller'[d] = IF d = c THEN new ELSE caller[d]
  BY DEF IInv, TypeOK
<1>4. new.phase = "loaded" /\ new.view = job
  BY DEF Asleep
<1>5. SendInv'
  <2>. HIDE DEF new
  <2>1. \A d \in Caller : caller'[d].phase = "loaded" => caller'[d].own = <<>>
    BY <1>1, <1>3 DEF IInv, SendInv
  <2>2. \A d \in Caller : caller'[d].phase = "sending" =>
          d # c /\ caller'[d] = caller[d] /\ Owns(d)
    BY <1>3, <1>4 DEF IInv, SendInv
  <2>3. \A d \in Caller : caller'[d].phase = "sending" => Owns(d)'
    BY <2>2 DEF Owns, Current
  <2>. QED BY <2>1, <2>2, <2>3 DEF IInv, SendInv
<1>6. OnceInv'
  BY <1>3, <1>4 DEF IInv, OnceInv
<1>. QED BY <1>2, <1>5, <1>6, RowsUntouched DEF IInv

LEMMA UserInv ==
  ASSUME IInv, Pause \/ Resume \/ Cancel
  PROVE  IInv'
<1>. USE DEF Pause, Resume, Cancel, Uninvolved
<1>1. TypeOK'
  BY DEF IInv, TypeOK, Job, JobStatus, Kind
<1>2. SendInv'
  BY DEF IInv, SendInv, Owns, Current
<1>3. OnceInv'
  BY DEF IInv, OnceInv, TypeOK, Job
<1>. QED BY <1>1, <1>2, <1>3, RowsUntouched DEF IInv

LEMMA EditInv ==
  ASSUME IInv, NEW kind \in EditKind, Edit(kind)
  PROVE  IInv'
<1>. USE NativeAssumption DEF Edit, Uninvolved
<1>1. TypeOK'
  BY DEF IInv, TypeOK, Job, JobStatus, Kind
<1>2. SendInv'
  BY DEF IInv, SendInv, Owns, Current
<1>3. OnceInv'
  BY DEF IInv, OnceInv, TypeOK
<1>. QED BY <1>1, <1>2, <1>3, RowsUntouched DEF IInv

(* The recipient a submitting coroutine is at is its own, and untouched.   *)
LEMMA CurrentFacts ==
  ASSUME IInv, NEW c \in Caller, caller[c].phase = "sending"
  PROVE  /\ Current(c) \in Attempt /\ RunOf(Current(c)) = caller[c].run
         /\ attempt[Current(c)] = Fresh
         /\ Current(c) \in poll.batch => poll.view[Current(c)] = Fresh
         /\ Current(c) \notin poll.changed
<1>1. Owns(c)
  BY DEF IInv, SendInv
<1>2. caller[c].run \in Run /\ Len(caller[c].own) \in Nat /\ Len(caller[c].own) < Recipients
  BY <1>1 DEF Owns, IInv, TypeOK, Coroutine, Run
<1>3. Current(c) \in Attempt /\ RunOf(Current(c)) = caller[c].run
  BY <1>2, PlaceFacts DEF Current
<1>4. Current(c) \in Int
  BY <1>3 DEF Attempt
<1>. QED BY <1>1, <1>3, <1>4 DEF Owns, IInv, PollInv

(* A restart forgets every coroutine and the poll. A message it may have   *)
(* left with the worker belongs to a row still "submitting".               *)
LEMMA RestartInv ==
  ASSUME IInv, Restart
  PROVE  IInv'
<1>. USE NativeAssumption DEF Restart
<1>1. \A c \in Caller : caller[c].phase = "sending" =>
        /\ Current(c) \in Attempt /\ attempt[Current(c)] = Fresh
  BY CurrentFacts
<1>2. PICK reached \in SUBSET {c \in Caller : caller[c].phase = "sending"} :
        mail' = [a \in Attempt |-> IF \E c \in reached : a = Current(c) THEN "open" ELSE mail[a]]
  OBVIOUS
<1>3. \A a \in Attempt : mail'[a] = mail[a] \/ (mail'[a] = "open" /\ attempt[a] = Fresh)
  BY <1>1, <1>2
<1>4. TypeOK'
  <2>1. mail' \in [Attempt -> Mail]
    BY <1>2 DEF IInv, TypeOK, Mail
  <2>2. job' \in Job /\ scheduled' \in BOOLEAN
    BY DEF IInv, TypeOK, Job, JobStatus, Kind
  <2>3. caller' \in [Caller -> Coroutine] /\ \A c \in Caller : Len(caller'[c].own) <= Recipients
    BY AsleepType
  <2>4. poll' \in PollState /\ cursor' \in 0..(MaxRuns * Recipients)
    BY NoPollType
  <2>. QED BY <2>1, <2>2, <2>3, <2>4 DEF IInv, TypeOK
<1>5. RowInv' /\ FailedNotAccepted'
  BY <1>3 DEF IInv, RowInv, FailedNotAccepted, Fresh
<1>6. PollInv'
  BY DEF PollInv, NoPoll
<1>7. SentConfirmed'
  BY <1>3 DEF IInv, SentConfirmed, NoPoll, Fresh
<1>8. SendInv'
  BY DEF SendInv, Asleep
<1>9. OnceInv'
  BY DEF IInv, OnceInv, TypeOK, Job, Asleep, NoPoll
<1>. QED BY <1>4, <1>5, <1>6, <1>7, <1>8, <1>9 DEF IInv

-----------------------------------------------------------------------------
(* Steps of send_job *)

LEMMA SubmitInv ==
  ASSUME IInv, NEW c \in Caller, Submit(c)
  PROVE  IInv'
<1>. USE NativeAssumption
<1>. DEFINE view == caller[c].view
<1>0. /\ caller[c].phase = "loaded" /\ view \in Job /\ runs \in Nat
      /\ UNCHANGED <<scheduled, cursor, poll, mail, edits, crashes>>
      /\ job \in Job
  BY DEF Submit, IInv, TypeOK, Coroutine
<1>1. CASE Refused(view.status) \/ (view.kind # "cron" /\ ~Claimable(job.status))
  <2>1. /\ caller' = [caller EXCEPT ![c] = Asleep]
        /\ UNCHANGED <<job, runs, attempt, active>>
    BY <1>1 DEF Submit
  <2>2. \A d \in Caller : caller'[d] = IF d = c THEN Asleep ELSE caller[d]
    BY <2>1 DEF IInv, TypeOK
  <2>3. TypeOK'
    BY <1>0, <2>1, AsleepType DEF IInv, TypeOK
  <2>4. SendInv'
    BY <1>0, <2>1, <2>2 DEF IInv, SendInv, Owns, Current, Asleep
  <2>5. OnceInv'
    BY <1>0, <2>1, <2>2 DEF IInv, OnceInv, Asleep
  <2>. QED BY <1>0, <2>1, <2>3, <2>4, <2>5, RowsUntouched DEF IInv
<1>2. CASE ~(Refused(view.status) \/ (view.kind # "cron" /\ ~Claimable(job.status)))
  <2>. DEFINE claimed == [view EXCEPT !.status = IF view.kind = "cron" THEN @ ELSE "queued"]
              new == [caller[c] EXCEPT !.phase = "sending", !.run = runs + 1, !.view = claimed]
  <2>1. /\ runs < MaxRuns
        /\ job' = [job EXCEPT !.status = IF view.kind = "cron" THEN @ ELSE "queued"]
        /\ runs' = runs + 1 /\ active' = active \cup {runs + 1}
        /\ attempt' = [a \in Attempt |-> IF RunOf(a) = runs + 1
                                         THEN [status |-> "submitting", id |-> FALSE]
                                         ELSE attempt[a]]
        /\ caller' = [caller EXCEPT ![c] = new]
    BY <1>2 DEF Submit, StartRun
  <2>2. \A a \in Attempt : attempt'[a] = IF RunOf(a) = runs + 1 THEN Fresh ELSE attempt[a]
    BY <2>1 DEF Fresh
  <2>3. \A a \in Attempt : RunOf(a) \in Nat
    BY RunOfFacts DEF Run
  <2>4. claimed \in Job /\ job' \in Job /\ claimed.kind = view.kind /\ job'.kind = job.kind
    BY <1>0, <2>1 DEF Job, JobStatus
  <2>5. /\ new \in Coroutine /\ new.own = caller[c].own
        /\ new.run = runs + 1 /\ new.view = claimed /\ new.phase = "sending"
    <3>1. caller[c] \in Coroutine /\ runs + 1 \in 0..MaxRuns
      BY <1>0, <2>1 DEF IInv, TypeOK
    <3>. HIDE DEF claimed
    <3>. QED BY <2>4, <3>1 DEF Coroutine
  <2>6. \A d \in Caller : caller'[d] = IF d = c THEN new ELSE caller[d]
    BY <2>1 DEF IInv, TypeOK
  <2>7. TypeOK'
    <3>1. attempt' \in [Attempt -> Row]
      BY <2>1 DEF IInv, TypeOK, Row
    <3>2. caller' \in [Caller -> Coroutine] /\ \A d \in Caller : Len(caller'[d].own) <= Recipients
      BY <2>1, <2>5, <2>6 DEF IInv, TypeOK
    <3>3. runs' \in 0..MaxRuns /\ active' \subseteq Run
      BY <1>0, <2>1 DEF IInv, TypeOK, Run
    <3>. QED BY <1>0, <2>4, <3>1, <3>2, <3>3 DEF IInv, TypeOK
  <2>8. RowInv'
    BY <1>0, <2>1, <2>2, <2>3 DEF IInv, RowInv, Fresh
  <2>9. PollInv'
    BY <1>0, <2>1, <2>2, <2>3 DEF IInv, PollInv, TypeOK, PollState
  <2>10. FailedNotAccepted' /\ SentConfirmed'
    BY <1>0, <2>2 DEF IInv, FailedNotAccepted, SentConfirmed, Fresh
  <2>11. SendInv'
    <3>1. ASSUME NEW d \in Caller, d # c, caller[d].phase = "sending"
          PROVE  Owns(d)' /\ caller[d].run # runs + 1
      <4>1. Owns(d)
        BY <3>1 DEF IInv, SendInv
      <4>. QED BY <1>0, <2>1, <2>2, <2>6, <3>1, <4>1 DEF Owns, Current
    <3>2. Owns(c)'
      <4>1. \A a \in Attempt : RunOf(a) = runs + 1 => a \notin poll.batch
        BY <1>0 DEF IInv, PollInv
      <4>2. Len(new.own) < Recipients
        BY <1>0, <2>5 DEF IInv, SendInv
      <4>. HIDE DEF new
      <4>. QED BY <1>0, <2>1, <2>2, <2>5, <2>6, <4>1, <4>2 DEF Owns, Current
    <3>. HIDE DEF new
    <3>. QED BY <2>5, <2>6, <3>1, <3>2 DEF IInv, SendInv
  <2>12. OnceInv'
    <3>. HIDE DEF new, claimed
    <3>1. edits = 0 => view.kind = job.kind
      BY <1>0 DEF IInv, OnceInv
    <3>2. edits = 0 /\ job.kind = "once" => runs = 0 /\ job'.status = "queued"
      BY <1>0, <1>2, <2>1, <3>1 DEF IInv, OnceInv, Claimable, Job
    <3>. QED BY <1>0, <2>1, <2>4, <2>5, <2>6, <3>1, <3>2 DEF IInv, OnceInv
  <2>. QED BY <2>7, <2>8, <2>9, <2>10, <2>11, <2>12 DEF IInv
<1>. QED BY <1>1, <1>2

LEMMA EnqueueInv ==
  ASSUME IInv, NEW c \in Caller, NEW answer \in Answer, Enqueue(c, answer)
  PROVE  IInv'
<1>. USE NativeAssumption
<1>. DEFINE k == Current(c)
            outcome == OutcomeOf(answer)
            own == Append(caller[c].own, outcome)
            kept == [caller[c] EXCEPT !.own = own]
            closed == [caller[c] EXCEPT !.own = own, !.phase = "closing"]
<1>1. /\ caller[c].phase = "sending"
      /\ attempt' = [attempt EXCEPT ![k] = [status |-> outcome, id |-> outcome = "queued"]]
      /\ UNCHANGED <<job, scheduled, runs, cursor, poll, edits, crashes>>
  BY DEF Enqueue, Record
<1>2. PICK got \in Reaches(answer) : mail' = [mail EXCEPT ![k] = got]
  BY DEF Enqueue
<1>3. /\ outcome \in Outcome /\ got \in {"none", "open"}
      /\ outcome = "queued" => got = "open"
      /\ outcome = "failed" => got = "none"
  BY <1>2 DEF Answer, OutcomeOf, Reaches, Outcome
<1>4. /\ k \in Attempt /\ RunOf(k) = caller[c].run /\ attempt[k] = Fresh
      /\ k \in poll.batch => poll.view[k] = Fresh
      /\ k \notin poll.changed
  BY <1>1, CurrentFacts
<1>5. Owns(c)
  BY <1>1 DEF IInv, SendInv
<1>6. /\ attempt'[k] = [status |-> outcome, id |-> outcome = "queued"] /\ mail'[k] = got
      /\ \A a \in Attempt : a # k => attempt'[a] = attempt[a] /\ mail'[a] = mail[a]
  BY <1>1, <1>2, <1>4 DEF IInv, TypeOK
<1>7. /\ caller[c] \in Coroutine /\ own \in Seq(Outcome)
      /\ Len(own) = Len(caller[c].own) + 1 /\ Len(caller[c].own) \in Nat
  BY <1>3 DEF IInv, TypeOK, Coroutine
<1>. HIDE DEF k, outcome, own
<1>8. /\ kept \in Coroutine /\ kept.own = own /\ kept.phase = caller[c].phase
      /\ kept.run = caller[c].run /\ kept.view = caller[c].view
      /\ closed \in Coroutine /\ closed.own = own /\ closed.phase = "closing"
      /\ closed.view = caller[c].view
  BY <1>7 DEF Coroutine
<1>. HIDE DEF kept, closed
<1>9. \/ /\ Len(own) < Recipients /\ active' = active
         /\ \A d \in Caller : caller'[d] = IF d = c THEN kept ELSE caller[d]
         /\ caller' \in [Caller -> Coroutine]
      \/ /\ Len(own) >= Recipients /\ active' = active \ {caller[c].run}
         /\ \A d \in Caller : caller'[d] = IF d = c THEN closed ELSE caller[d]
         /\ caller' \in [Caller -> Coroutine]
  <2>1. IF Len(own) < Recipients
        THEN caller' = [caller EXCEPT ![c] = kept] /\ UNCHANGED active
        ELSE caller' = [caller EXCEPT ![c] = closed] /\ active' = active \ {caller[c].run}
    BY DEF Enqueue, Record, own, outcome, kept, closed
  <2>. QED BY <2>1, <1>7, <1>8 DEF IInv, TypeOK
<1>10. TypeOK'
  <2>1. attempt' \in [Attempt -> Row] /\ mail' \in [Attempt -> Mail]
    BY <1>1, <1>2, <1>3 DEF IInv, TypeOK, Row, Mail, Outcome
  <2>2. active' \subseteq Run
    BY <1>9 DEF IInv, TypeOK
  <2>3. \A d \in Caller : Len(caller'[d].own) <= Recipients
    BY <1>5, <1>7, <1>8, <1>9 DEF IInv, TypeOK, Owns
  <2>. QED BY <1>1, <1>9, <2>1, <2>2, <2>3 DEF IInv, TypeOK
<1>11. RowInv' /\ FailedNotAccepted'
  <2>1. RunOf(k) <= runs
    BY <1>4, <1>5 DEF Owns, IInv, TypeOK
  <2>2. attempt'[k].status = outcome /\ (attempt'[k].id <=> outcome = "queued")
    <3>1. ASSUME outcome = "queued" PROVE attempt'[k] = [status |-> outcome, id |-> TRUE]
      BY <1>6, <3>1
    <3>2. ASSUME outcome # "queued" PROVE attempt'[k] = [status |-> outcome, id |-> FALSE]
      BY <1>6, <3>2
    <3>. QED BY <3>1, <3>2
  <2>. QED BY <1>1, <1>3, <1>4, <1>6, <2>1, <2>2 DEF IInv, RowInv, FailedNotAccepted
<1>12. PollInv' /\ SentConfirmed'
  BY <1>1, <1>3, <1>4, <1>6 DEF IInv, PollInv, SentConfirmed, Outcome, Fresh, TypeOK, PollState
<1>13. SendInv'
  <2>1. ASSUME NEW d \in Caller, d # c, caller[d].phase = "sending"
        PROVE  Owns(d)'
    <3>1. Owns(d) /\ caller[d].run # caller[c].run /\ caller'[d] = caller[d]
      BY <1>1, <1>9, <2>1 DEF IInv, SendInv
    <3>. QED BY <1>1, <1>4, <1>6, <1>9, <3>1 DEF Owns, Current
  <2>2. ASSUME Len(own) < Recipients
        PROVE  Owns(c)'
    <3>1. caller'[c] = kept /\ active' = active
      BY <1>7, <1>9, <2>2
    <3>2. Current(c)' = k + 1 /\ k \in Int
      <4>1. k = (caller[c].run - 1) * Recipients + Len(caller[c].own) + 1 /\ k \in Int
        BY <1>4 DEF Current, k, Attempt
      <4>2. Current(c)' = (caller[c].run - 1) * Recipients + Len(own) + 1
        BY <1>8, <3>1 DEF Current
      <4>3. (caller[c].run - 1) * Recipients \in Int
        BY <1>7 DEF Coroutine
      <4>. QED BY <1>7, <4>1, <4>2, <4>3
    <3>3. \A a \in Attempt : a >= k + 1 => a >= k /\ a # k
      BY <3>2 DEF Attempt
    <3>4. \A a \in Attempt : RunOf(a) = caller[c].run /\ a >= k =>
            /\ attempt[a] = Fresh
            /\ a \in poll.batch => poll.view[a] = Fresh /\ a \notin poll.changed
      BY <1>5 DEF Owns, k
    <3>. QED BY <1>1, <1>5, <1>6, <1>8, <2>2, <3>1, <3>2, <3>3, <3>4 DEF Owns
  <2>3. \A d \in Caller : caller'[d].phase = "sending" =>
          caller[d].phase = "sending" /\ caller'[d].run = caller[d].run
    BY <1>1, <1>8, <1>9
  <2>4. \A d \in Caller : caller'[d].phase = "loaded" => caller'[d].own = <<>>
    BY <1>1, <1>8, <1>9 DEF IInv, SendInv
  <2>5. caller'[c].phase = "sending" => Len(own) < Recipients
    BY <1>8, <1>9
  <2>. QED BY <2>1, <2>2, <2>3, <2>4, <2>5 DEF IInv, SendInv
<1>14. OnceInv'
  BY <1>1, <1>8, <1>9 DEF IInv, OnceInv
<1>. QED BY <1>10, <1>11, <1>12, <1>13, <1>14 DEF IInv

(* What finish_run writes through a session's view is a final status, or   *)
(* for a repeating schedule its resting one.                               *)
LEMMA WriteStatusFacts ==
  ASSUME NEW view \in Job, NEW statuses, job \in Job,
         WriteStatus(view, FinishedStatus(view, statuses))
  PROVE  /\ job' \in Job /\ job'.kind = job.kind
         /\ view.kind = "once" =>
              job'.status = job.status \/ job'.status \in {"completed", "failed", "unknown"}
<1>1. FinishedStatus(view, statuses) \in JobStatus
  BY DEF FinishedStatus, Terminal, Job, JobStatus
<1>2. view.kind = "once" /\ FinishedStatus(view, statuses) # view.status =>
        FinishedStatus(view, statuses) \in {"completed", "failed", "unknown"}
  BY DEF FinishedStatus, Terminal
<1>. QED BY <1>1, <1>2 DEF WriteStatus, Job

LEMMA FinishInv ==
  ASSUME IInv, NEW c \in Caller, Finish(c)
  PROVE  IInv'
<1>. USE NativeAssumption
<1>1. /\ caller[c].phase = "closing" /\ caller[c].view \in Job /\ job \in Job
      /\ UNCHANGED <<scheduled, runs, attempt, active, cursor, poll, mail, edits, crashes>>
      /\ caller' = [caller EXCEPT ![c] = Asleep]
  BY DEF Finish, IInv, TypeOK, Coroutine
<1>2. \A d \in Caller : caller'[d] = IF d = c THEN Asleep ELSE caller[d]
  BY <1>1 DEF IInv, TypeOK
<1>3. /\ job' \in Job /\ job'.kind = job.kind
      /\ caller[c].view.kind = "once" =>
           job'.status = job.status \/ job'.status \in {"completed", "failed", "unknown"}
  BY <1>1, WriteStatusFacts DEF Finish
<1>4. TypeOK'
  BY <1>1, <1>3, AsleepType DEF IInv, TypeOK
<1>5. SendInv'
  BY <1>1, <1>2 DEF IInv, SendInv, Owns, Current, Asleep
<1>6. OnceInv'
  BY <1>1, <1>2, <1>3 DEF IInv, OnceInv, Asleep
<1>. QED BY <1>1, <1>4, <1>5, <1>6, RowsUntouched DEF IInv

-----------------------------------------------------------------------------
(* Steps of poll_deliveries *)

LEMMA PollStartsInv ==
  ASSUME IInv, PollStarts
  PROVE  IInv'
<1>. USE NativeAssumption
<1>. DEFINE b == IF Batch(cursor) # {} THEN Batch(cursor) ELSE Batch(0)
<1>1. /\ b \subseteq Attempt
      /\ \A a \in b : attempt[a].status \in {"submitting", "queued", "unknown"}
  BY DEF Batch, Polled, PENDING
<1>2. BeginPoll(b)
  BY DEF PollStarts
<1>. HIDE DEF b
<1>3. UNCHANGED <<job, scheduled, runs, attempt, active, caller, mail, edits, crashes>>
  BY <1>2 DEF BeginPoll
<1>4. CASE cursor' = 0 /\ poll' = NoPoll
  <2>1. TypeOK'
    BY <1>3, <1>4, NoPollType DEF IInv, TypeOK
  <2>2. RowInv' /\ FailedNotAccepted' /\ PollInv' /\ SentConfirmed'
    BY <1>3, <1>4 DEF IInv, RowInv, FailedNotAccepted, PollInv, SentConfirmed, NoPoll
  <2>3. SendInv'
    BY <1>3, <1>4 DEF IInv, SendInv, Owns, Current, NoPoll
  <2>4. OnceInv'
    BY <1>3, <1>4 DEF IInv, OnceInv, NoPoll
  <2>. QED BY <2>1, <2>2, <2>3, <2>4 DEF IInv
<1>5. CASE \E last \in b :
             /\ cursor' = last
             /\ poll' = [NoPoll EXCEPT !.busy = TRUE, !.batch = b, !.todo = b,
                           !.view = [a \in Attempt |-> IF a \in b THEN attempt[a] ELSE Unwritten]]
  <2>. DEFINE seen == [a \in Attempt |-> IF a \in b THEN attempt[a] ELSE Unwritten]
  <2>1. cursor' \in 0..(MaxRuns * Recipients)
    BY <1>1, <1>5 DEF Attempt
  <2>2. seen \in [Attempt -> Row] /\ \A a \in b : seen[a] = attempt[a]
    BY <1>1 DEF IInv, TypeOK, Row, Unwritten
  <2>. HIDE DEF seen
  <2>3. poll' = [NoPoll EXCEPT !.busy = TRUE, !.batch = b, !.todo = b, !.view = seen]
    BY <1>5 DEF seen
  <2>4. /\ poll' \in PollState /\ poll'.batch = b /\ poll'.todo = b /\ poll'.view = seen
        /\ poll'.changed = NoPoll.changed /\ poll'.waited = NoPoll.waited
    BY <1>1, <2>2, <2>3, NoPollType DEF PollState
  <2>5. poll'.changed = {} /\ poll'.waited = FALSE
    BY <2>4 DEF NoPoll
  <2>6. TypeOK'
    BY <1>3, <2>1, <2>4 DEF IInv, TypeOK
  <2>7. RowInv' /\ FailedNotAccepted'
    BY <1>3 DEF IInv, RowInv, FailedNotAccepted
  <2>8. PollInv' /\ SentConfirmed'
    BY <1>1, <1>3, <2>2, <2>4, <2>5 DEF IInv, RowInv, PollInv, SentConfirmed
  <2>9. SendInv'
    BY <1>3, <2>2, <2>4, <2>5 DEF IInv, SendInv, Owns, Current
  <2>10. OnceInv'
    BY <1>3, <2>5 DEF IInv, OnceInv
  <2>. QED BY <2>6, <2>7, <2>8, <2>9, <2>10 DEF IInv
<1>. QED BY <1>2, <1>4, <1>5 DEF BeginPoll

LEMMA PollSkipsInv ==
  ASSUME IInv, NEW a \in Attempt, PollSkips(a)
  PROVE  IInv'
<1>. USE NativeAssumption
<1>1. UNCHANGED <<job, scheduled, runs, attempt, active, cursor, caller, mail, edits, crashes>>
  BY DEF PollSkips, PollElse
<1>2. poll \in PollState /\ job \in Job /\ poll.view[a].id \in BOOLEAN
  BY DEF IInv, TypeOK, PollState, Row
<1>3. /\ poll' \in PollState /\ poll'.batch = poll.batch /\ poll'.todo \subseteq poll.todo
      /\ poll'.view = poll.view /\ poll'.changed = poll.changed
      /\ poll'.waited => poll'.job = job \/ (poll.waited /\ poll'.job = poll.job)
  BY <1>2 DEF PollSkips, PollState
<1>4. TypeOK'
  BY <1>1, <1>3 DEF IInv, TypeOK
<1>5. RowInv' /\ FailedNotAccepted' /\ PollInv' /\ SentConfirmed'
  BY <1>1, <1>3 DEF IInv, RowInv, FailedNotAccepted, PollInv, SentConfirmed
<1>6. SendInv'
  BY <1>1, <1>3 DEF IInv, SendInv, Owns, Current
<1>7. OnceInv'
  BY <1>1, <1>3 DEF IInv, OnceInv
<1>. QED BY <1>4, <1>5, <1>6, <1>7 DEF IInv

(* Learning a status changes the poll's view of that attempt alone.        *)
LEMMA LearnFacts ==
  ASSUME IInv, NEW a \in Attempt, At(a),
         NEW status \in {"none", "queued", "sent", "failed", "unknown"}, Learn(a, status)
  PROVE  /\ poll' \in PollState /\ poll'.batch = poll.batch /\ poll'.todo \subseteq poll.todo
         /\ poll'.view[a].status = status /\ poll'.view[a].id = poll.view[a].id
         /\ \A b \in Attempt : b # a => poll'.view[b] = poll.view[b]
         /\ poll'.changed = IF status = poll.view[a].status
                            THEN poll.changed ELSE poll.changed \cup {a}
         /\ poll'.waited => poll'.job = job \/ (poll.waited /\ poll'.job = poll.job)
<1>. DEFINE row == [poll.view[a] EXCEPT !.status = status]
            view == [poll.view EXCEPT ![a] = row]
            waited == poll.waited \/ poll.view[a].id
            changed == IF status = poll.view[a].status THEN poll.changed
                       ELSE poll.changed \cup {a}
            seen == IF poll.view[a].id /\ ~poll.waited THEN job ELSE poll.job
            done == IF status \in PENDING THEN poll.done ELSE poll.done \cup {RunOf(a)}
<1>1. /\ poll \in PollState /\ job \in Job /\ poll.view[a] \in Row
      /\ poll.view \in [Attempt -> Row] /\ poll.waited \in BOOLEAN
  BY DEF IInv, TypeOK, PollState
<1>2. row \in Row /\ row.status = status /\ row.id = poll.view[a].id
  BY <1>1 DEF Row
<1>. HIDE DEF row
<1>3. view \in [Attempt -> Row] /\ view[a] = row /\ \A b \in Attempt : b # a => view[b] = poll.view[b]
  BY <1>1, <1>2
<1>4. waited \in BOOLEAN /\ seen \in Job
  BY <1>1 DEF PollState, Row
<1>5. changed \in SUBSET Attempt /\ done \in SUBSET Run
  BY <1>1, RunOfFacts DEF PollState
<1>6. poll' = [poll EXCEPT !.todo = @ \ {a}, !.waited = waited, !.view = view,
                           !.changed = changed, !.job = seen, !.done = done]
  BY <1>1 DEF Learn, row, PollState
<1>7. waited => seen = job \/ (poll.waited /\ seen = poll.job)
  OBVIOUS
<1>8. changed = IF status = poll.view[a].status THEN poll.changed ELSE poll.changed \cup {a}
  OBVIOUS
<1>. HIDE DEF view, waited, changed, seen, done
<1>9. /\ poll' \in PollState /\ poll'.batch = poll.batch /\ poll'.todo \subseteq poll.todo
      /\ poll'.view = view /\ poll'.changed = changed /\ poll'.waited = waited
      /\ poll'.job = seen
  BY <1>1, <1>3, <1>4, <1>5, <1>6 DEF PollState
<1>. QED BY <1>2, <1>3, <1>7, <1>8, <1>9

(* What the poll learns of an attempt it may take down, provided it is not *)
(* one a coroutine is still to submit, it knows the message id of whatever *)
(* it calls accepted or settled, and the worker said "sent".               *)
LEMMA LearnInv ==
  ASSUME IInv, NEW a \in Attempt, At(a),
         NEW status \in {"none", "queued", "sent", "failed", "unknown"}, Learn(a, status),
         UNCHANGED <<job, scheduled, runs, attempt, active, cursor, caller, edits, crashes>>,
         status = poll.view[a].status \/ status \in {"unknown", "sent", "failed"},
         poll.view[a] = Fresh => RunOf(a) \notin active,
         status \in {"queued", "sent", "failed"} => poll.view[a].id,
         status = "sent" => mail'[a] = "sent",
         mail' \in [Attempt -> Mail],
         \A b \in Attempt : \/ mail'[b] = mail[b]
                            \/ /\ mail'[b] # "none" /\ mail[b] # "sent" /\ attempt[b].id
  PROVE  IInv'
<1>. USE NativeAssumption
<1>1. /\ poll' \in PollState /\ poll'.batch = poll.batch /\ poll'.todo \subseteq poll.todo
      /\ poll'.view[a].status = status /\ poll'.view[a].id = poll.view[a].id
      /\ \A b \in Attempt : b # a => poll'.view[b] = poll.view[b]
      /\ poll'.changed = IF status = poll.view[a].status
                         THEN poll.changed ELSE poll.changed \cup {a}
      /\ poll'.waited => poll'.job = job \/ (poll.waited /\ poll'.job = poll.job)
  BY LearnFacts
<1>2. a \in poll.batch /\ poll.batch \subseteq Attempt /\ poll.changed \subseteq poll.batch
  BY DEF At, IInv, PollInv, TypeOK, PollState
<1>3. TypeOK'
  BY <1>1 DEF IInv, TypeOK
<1>4. RowInv' /\ FailedNotAccepted'
  BY DEF IInv, RowInv, FailedNotAccepted
<1>5. PollInv'
  BY <1>1, <1>2 DEF IInv, PollInv
<1>6. SentConfirmed'
  BY <1>1, <1>2 DEF IInv, SentConfirmed
<1>7. SendInv'
  <2>1. ASSUME NEW c \in Caller, caller[c].phase = "sending"
        PROVE  Owns(c)'
    <3>1. Owns(c)
      BY <2>1 DEF IInv, SendInv
    <3>2. ASSUME NEW b \in Attempt, RunOf(b) = caller[c].run, b >= Current(c), b \in poll.batch
          PROVE  b # a /\ poll'.view[b] = Fresh /\ b \notin poll'.changed
      BY <1>1, <1>2, <3>1, <3>2 DEF Owns
    <3>3. ASSUME NEW b \in Attempt, RunOf(b) = caller[c].run, b >= Current(c)
          PROVE  attempt'[b] = Fresh
      BY <3>1, <3>3 DEF Owns
    <3>. QED BY <1>1, <3>1, <3>2, <3>3 DEF Owns, Current
  <2>. QED BY <2>1 DEF IInv, SendInv
<1>8. OnceInv'
  BY <1>1 DEF IInv, OnceInv
<1>. QED BY <1>3, <1>4, <1>5, <1>6, <1>7, <1>8 DEF IInv

LEMMA PollLearnsInv ==
  ASSUME IInv, NEW a \in Attempt,
         PollInterrupted(a) \/ PollDisconnected(a) \/ PollAnswered(a)
  PROVE  IInv'
<1>0. mail \in [Attempt -> Mail]
  BY DEF IInv, TypeOK
<1>1. CASE PollInterrupted(a)
  BY <1>0, <1>1, LearnInv DEF PollInterrupted, PollElse
<1>2. CASE PollDisconnected(a)
  BY <1>0, <1>2, LearnInv DEF PollDisconnected, PollElse, Fresh
<1>3. CASE PollAnswered(a)
  <2>1. PICK m \in Settles(mail[a]) :
          /\ poll.view[a].status = "unknown" => m \in {"sent", "failed"}
          /\ mail' = [mail EXCEPT ![a] = m] /\ Learn(a, IF m = "open" THEN "queued" ELSE m)
    BY <1>3 DEF PollAnswered
  <2>. DEFINE status == IF m = "open" THEN "queued" ELSE m
  <2>2. /\ At(a) /\ poll.view[a].id /\ poll.view[a].status \in {"queued", "unknown"}
        /\ UNCHANGED <<job, scheduled, runs, attempt, active, cursor, caller, edits, crashes>>
    BY <1>3 DEF PollAnswered
  <2>3. attempt[a].id /\ mail[a] # "none" /\ mail[a] \in Mail
    BY <1>0, <2>2 DEF At, IInv, PollInv, RowInv
  <2>4. m \in {"open", "sent", "failed", "unknown"} /\ (mail[a] = "sent" => m = "sent")
    BY <2>1, <2>3 DEF Settles, Onward, Mail
  <2>5. mail' \in [Attempt -> Mail] /\ mail'[a] = m /\ \A b \in Attempt : b # a => mail'[b] = mail[b]
    BY <1>0, <2>1, <2>4 DEF Mail
  <2>6. /\ status \in {"none", "queued", "sent", "failed", "unknown"}
        /\ status = poll.view[a].status \/ status \in {"unknown", "sent", "failed"}
        /\ poll.view[a] # Fresh
        /\ status = "sent" => mail'[a] = "sent"
    BY <2>1, <2>2, <2>4, <2>5 DEF Fresh
  <2>7. Learn(a, status)
    BY <2>1
  <2>8. \A b \in Attempt : \/ mail'[b] = mail[b]
                           \/ /\ mail'[b] # "none" /\ mail[b] # "sent" /\ attempt[b].id
    BY <2>3, <2>4, <2>5
  <2>. HIDE DEF status
  <2>. QED BY <2>2, <2>5, <2>6, <2>7, <2>8, LearnInv
<1>. QED BY <1>1, <1>2, <1>3

LEMMA PollCommitsInv ==
  ASSUME IInv, PollCommits
  PROVE  IInv'
<1>. USE NativeAssumption
<1>. DEFINE view == IF poll.waited THEN poll.job ELSE job
<1>1. /\ UNCHANGED <<scheduled, runs, active, cursor, caller, mail, edits, crashes>>
      /\ poll' = NoPoll
      /\ attempt' = [a \in Attempt |-> IF a \in poll.changed
                                       THEN [attempt[a] EXCEPT !.status = poll.view[a].status]
                                       ELSE attempt[a]]
  BY DEF PollCommits
<1>2. view \in Job /\ job \in Job
  BY DEF IInv, TypeOK, PollState
<1>3. job' = job \/ \E statuses : WriteStatus(view, FinishedStatus(view, statuses))
  BY DEF PollCommits
<1>. HIDE DEF view
<1>4. /\ job' \in Job /\ job'.kind = job.kind
      /\ view.kind = "once" =>
           job'.status = job.status \/ job'.status \in {"completed", "failed", "unknown"}
  BY <1>2, <1>3, WriteStatusFacts
<1>5. \A a \in Attempt :
        /\ attempt'[a] \in Row /\ attempt'[a].id = attempt[a].id
        /\ a \notin poll.changed => attempt'[a] = attempt[a]
        /\ a \in poll.changed => /\ attempt'[a].status = poll.view[a].status
                                 /\ a \in poll.batch
  BY <1>1 DEF IInv, TypeOK, Row, PollState, PollInv
<1>6. poll'.batch = {} /\ poll'.todo = {} /\ poll'.changed = {} /\ poll'.waited = FALSE
  BY <1>1 DEF NoPoll
<1>7. TypeOK'
  BY <1>1, <1>4, <1>5, NoPollType DEF IInv, TypeOK
<1>8. RowInv' /\ FailedNotAccepted'
  BY <1>1, <1>5 DEF IInv, RowInv, PollInv, FailedNotAccepted
<1>9. PollInv' /\ SentConfirmed'
  BY <1>1, <1>5, <1>6 DEF IInv, PollInv, SentConfirmed
<1>10. SendInv'
  <2>1. ASSUME NEW c \in Caller, caller[c].phase = "sending"
        PROVE  Owns(c)'
    <3>1. Owns(c)
      BY <2>1 DEF IInv, SendInv
    <3>2. \A a \in Attempt : a \in poll.changed => a \in poll.batch
      BY <1>5
    <3>. QED BY <1>1, <1>5, <1>6, <3>1, <3>2 DEF Owns, Current
  <2>. QED BY <1>1, <2>1 DEF IInv, SendInv
<1>11. OnceInv'
  <2>1. edits = 0 => view.kind = job.kind
    BY DEF view, IInv, OnceInv
  <2>. QED BY <1>1, <1>4, <1>6, <2>1 DEF IInv, OnceInv
<1>. QED BY <1>7, <1>8, <1>9, <1>10, <1>11 DEF IInv

LEMMA StutterInv ==
  ASSUME IInv, UNCHANGED vars
  PROVE  IInv'
<1>. USE DEF vars
<1>1. TypeOK'
  BY DEF IInv, TypeOK
<1>2. SendInv' /\ OnceInv'
  BY DEF IInv, SendInv, Owns, Current, OnceInv
<1>. QED BY <1>1, <1>2, RowsUntouched DEF IInv

-----------------------------------------------------------------------------
(* The theorems *)

LEMMA NextInv == IInv /\ [Next]_vars => IInv'
<1>. SUFFICES ASSUME IInv, [Next]_vars PROVE IInv'
  OBVIOUS
<1>1. ASSUME NEW c \in Caller, Sending(c) PROVE IInv'
  <2>1. CASE TimerFires(c)
    BY <2>1, LoadInv DEF TimerFires
  <2>2. CASE SendNow(c)
    BY <2>2, LoadInv DEF SendNow, IInv, TypeOK
  <2>3. CASE Submit(c)
    BY <2>3, SubmitInv
  <2>4. CASE \E answer \in Answer : Enqueue(c, answer)
    BY <2>4, EnqueueInv
  <2>5. CASE Finish(c)
    BY <2>5, FinishInv
  <2>. QED BY <1>1, <2>1, <2>2, <2>3, <2>4, <2>5 DEF Sending
<1>2. CASE Polling
  <2>1. CASE PollStarts
    BY <2>1, PollStartsInv
  <2>2. CASE PollCommits
    BY <2>2, PollCommitsInv
  <2>3. ASSUME NEW a \in Attempt,
               PollSkips(a) \/ PollInterrupted(a) \/ PollDisconnected(a) \/ PollAnswered(a)
        PROVE  IInv'
    BY <2>3, PollSkipsInv, PollLearnsInv
  <2>. QED BY <1>2, <2>1, <2>2, <2>3 DEF Polling
<1>3. CASE Pause \/ Resume \/ Cancel
  BY <1>3, UserInv
<1>4. ASSUME NEW kind \in EditKind, Edit(kind) PROVE IInv'
  BY <1>4, EditInv
<1>5. CASE Restart
  BY <1>5, RestartInv
<1>6. CASE UNCHANGED vars
  BY <1>6, StutterInv
<1>. QED BY <1>1, <1>2, <1>3, <1>4, <1>5, <1>6 DEF Next

LEMMA AlwaysIInv == Spec => []IInv
  BY InitInv, NextInv, PTL DEF Spec

(* Every row, view and cursor keeps its type, whatever the coroutines and  *)
(* the poll do to each other.                                              *)
THEOREM TypeCorrect == Spec => []TypeOK
<1>1. IInv => TypeOK
  BY DEF IInv
<1>. QED BY <1>1, AlwaysIInv, PTL

(* An attempt reported failed without a message id was never accepted by   *)
(* the worker: trying it again cannot send it twice.                       *)
THEOREM FailedIsSafeToRetry == Spec => []FailedNotAccepted
<1>1. IInv => FailedNotAccepted
  BY DEF IInv
<1>. QED BY <1>1, AlwaysIInv, PTL

(* No row and no session ever says "sent" of a message that WhatsApp did   *)
(* not acknowledge.                                                        *)
THEOREM SentIsConfirmed == Spec => []SentConfirmed
<1>1. IInv => SentConfirmed
  BY DEF IInv
<1>. QED BY <1>1, AlwaysIInv, PTL

(* A one-time job that was not edited starts at most one run.              *)
THEOREM OneTimeRuns == Spec => []OneTimeRunsOnce
<1>1. IInv => OneTimeRunsOnce
  BY DEF IInv, OnceInv, OneTimeRunsOnce, TypeOK
<1>. QED BY <1>1, AlwaysIInv, PTL

-----------------------------------------------------------------------------
(* Refinement: the rows live as Attempts.tla says *)

(* An id is kept with an outcome; what the poll is looking at is not sent, *)
(* nor failed after its id was asked, and a row it knows an id of is open  *)
(* or unknown: nobody but the poll writes it.                              *)
LifeInv ==
  /\ \A a \in Attempt : attempt[a].id => attempt[a].status \in {"queued", "sent", "failed", "unknown"}
  /\ \A a \in poll.batch :
       /\ attempt[a].status \notin {"none", "sent"}
       /\ attempt[a].status = "failed" => ~attempt[a].id
       /\ poll.view[a].id => attempt[a].status \in {"queued", "unknown"}
       /\ a \in poll.changed => poll.view[a].id \/ poll.view[a].status = "unknown"

(* The step of one row.                                                    *)
Moves(a) ==
  \/ attempt'[a] = attempt[a]
  \/ AttemptRows!Begun(attempt[a], attempt'[a]) \/ AttemptRows!Answered(attempt[a], attempt'[a])
  \/ AttemptRows!Resolved(attempt[a], attempt'[a]) \/ AttemptRows!GivenUp(attempt[a], attempt'[a])

LEMMA SubmitMoves ==
  ASSUME IInv, LifeInv, NEW c \in Caller, Submit(c)
  PROVE  LifeInv' /\ \A a \in Attempt : Moves(a)
<1>1. /\ UNCHANGED poll /\ poll.batch \subseteq Attempt /\ attempt \in [Attempt -> Row] /\ runs \in Nat
      /\ \A a \in poll.batch : RunOf(a) <= runs
      /\ \A a \in Attempt : attempt[a].status # "none" => RunOf(a) <= runs
  BY NativeAssumption DEF Submit, IInv, TypeOK, PollState, PollInv, RowInv
<1>2. ASSUME NEW a \in Attempt
      PROVE  attempt'[a] = attempt[a] \/ (RunOf(a) = runs + 1 /\ attempt'[a] = Fresh)
  BY <1>1 DEF Submit, StartRun, Fresh
<1>3. ASSUME NEW a \in Attempt, RunOf(a) = runs + 1
      PROVE  attempt[a] = Unwritten /\ a \notin poll.batch
  <2>1. attempt[a].status = "none"
    BY <1>1, <1>3
  <2>2. attempt[a] \in Row /\ ~attempt[a].id
    BY <1>1, <2>1 DEF LifeInv, Row
  <2>3. attempt[a] = Unwritten
    BY <2>1, <2>2 DEF Row, Unwritten
  <2>. QED BY <1>1, <1>3, <2>3
<1>4. LifeInv'
  BY <1>1, <1>2, <1>3 DEF LifeInv, Fresh
<1>5. ASSUME NEW a \in Attempt PROVE Moves(a)
  BY <1>2, <1>3 DEF Moves, AttemptRows!Begun, AttemptRows!Unwritten, AttemptRows!Fresh, Unwritten, Fresh
<1>. QED BY <1>4, <1>5

LEMMA EnqueueMoves ==
  ASSUME IInv, LifeInv, NEW c \in Caller, NEW answer \in Answer, Enqueue(c, answer)
  PROVE  LifeInv' /\ \A a \in Attempt : Moves(a)
<1>. DEFINE n == Current(c)
            new == [status |-> OutcomeOf(answer), id |-> OutcomeOf(answer) = "queued"]
<1>1. /\ UNCHANGED poll /\ poll.batch \subseteq Attempt /\ attempt \in [Attempt -> Row]
      /\ attempt' = [attempt EXCEPT ![n] = new]
  BY DEF Enqueue, Record, IInv, TypeOK, PollState
<1>2. n \in Attempt /\ attempt[n] = Fresh /\ (n \in poll.batch => poll.view[n] = Fresh /\ n \notin poll.changed)
  BY CurrentFacts DEF Enqueue
<1>3. \/ new.status = "queued" /\ new.id
      \/ new.status \in {"failed", "unknown"} /\ ~new.id
  BY DEF OutcomeOf
<1>4. new = [status |-> new.status, id |-> new.id]
  OBVIOUS
<1>. HIDE DEF n, new
<1>5. attempt'[n] = new /\ \A a \in Attempt : a # n => attempt'[a] = attempt[a]
  BY <1>1, <1>2
<1>6. LifeInv'
  BY <1>1, <1>2, <1>3, <1>5 DEF LifeInv, Fresh
<1>7. AttemptRows!Answered(attempt[n], attempt'[n])
  BY <1>2, <1>3, <1>4, <1>5 DEF AttemptRows!Answered, AttemptRows!Fresh, Fresh
<1>8. ASSUME NEW a \in Attempt PROVE Moves(a)
  BY <1>5, <1>7 DEF Moves
<1>. QED BY <1>6, <1>8

LEMMA PollCommitsMoves ==
  ASSUME IInv, LifeInv, PollCommits
  PROVE  LifeInv' /\ \A a \in Attempt : Moves(a)
<1>1. /\ attempt \in [Attempt -> Row] /\ poll'.batch = {} /\ poll.view \in [Attempt -> Row]
      /\ attempt' = [a \in Attempt |-> IF a \in poll.changed
                                       THEN [attempt[a] EXCEPT !.status = poll.view[a].status]
                                       ELSE attempt[a]]
  BY DEF PollCommits, NoPoll, IInv, TypeOK, PollState
<1>2. ASSUME NEW a \in Attempt, a \in poll.changed
      PROVE  /\ attempt[a] \in Row /\ attempt'[a].status = poll.view[a].status
             /\ attempt'[a].id = attempt[a].id
             /\ poll.view[a].status \in {"unknown", "sent", "failed"}
             /\ poll.view[a].id => attempt[a].id /\ attempt[a].status \in {"queued", "unknown"}
             /\ attempt[a].status \notin {"none", "sent"}
             /\ attempt[a].status = "failed" => ~attempt[a].id
             /\ poll.view[a].id \/ poll.view[a].status = "unknown"
  <2>1. attempt[a] \in Row
    BY <1>1
  <2>2. attempt'[a] = [attempt[a] EXCEPT !.status = poll.view[a].status]
    BY <1>1, <1>2
  <2>3. attempt'[a].status = poll.view[a].status /\ attempt'[a].id = attempt[a].id
    BY <2>1, <2>2 DEF Row
  <2>. QED BY <1>2, <2>1, <2>3 DEF IInv, PollInv, LifeInv
<1>3. LifeInv'
  <2>1. ASSUME NEW a \in Attempt, attempt'[a].id
        PROVE  attempt'[a].status \in {"queued", "sent", "failed", "unknown"}
    BY <1>1, <1>2, <2>1 DEF LifeInv
  <2>. QED BY <1>1, <2>1 DEF LifeInv
<1>4. ASSUME NEW a \in Attempt PROVE Moves(a)
  <2>1. CASE a \notin poll.changed
    BY <1>1, <2>1 DEF Moves
  <2>2. CASE a \in poll.changed
    <3>1. attempt[a].id => attempt[a].status \in {"queued", "unknown"}
      BY <1>2, <2>2 DEF LifeInv
    <3>. QED BY <1>2, <2>2, <3>1 DEF Moves, AttemptRows!Resolved, AttemptRows!GivenUp, Row
  <2>. QED BY <2>1, <2>2
<1>. QED BY <1>3, <1>4

LEMMA PollMoves ==
  ASSUME IInv, LifeInv, UNCHANGED attempt,
         \/ UNCHANGED poll
         \/ PollStarts
         \/ poll' = NoPoll
         \/ \E a \in Attempt : PollSkips(a) \/ PollInterrupted(a) \/ PollDisconnected(a) \/ PollAnswered(a)
  PROVE  LifeInv' /\ \A a \in Attempt : Moves(a)
<1>1. \A a \in Attempt : Moves(a)
  BY DEF Moves
<1>. SUFFICES LifeInv'
  BY <1>1
<1>0. poll \in PollState /\ attempt \in [Attempt -> Row]
  BY DEF IInv, TypeOK
<1>2. CASE UNCHANGED poll
  BY <1>2 DEF LifeInv
<1>3. CASE poll' = NoPoll
  BY <1>3 DEF LifeInv, NoPoll
<1>4. CASE PollStarts
  <2>. DEFINE batch == IF Batch(cursor) # {} THEN Batch(cursor) ELSE Batch(0)
  <2>1. batch \subseteq Polled /\ batch \subseteq Attempt
    BY DEF Batch, Polled
  <2>2. BeginPoll(batch)
    BY <1>4 DEF PollStarts
  <2>. HIDE DEF batch
  <2>3. \/ poll' = NoPoll
        \/ /\ poll'.batch = batch /\ poll'.changed = {}
           /\ \A a \in batch : poll'.view[a] = attempt[a]
    BY <2>1, <2>2 DEF BeginPoll, NoPoll
  <2>4. \A a \in batch : attempt[a].status \in {"submitting", "queued", "unknown"}
    BY <2>1 DEF Polled, PENDING
  <2>5. \A a \in batch : attempt[a].id => attempt[a].status \in {"queued", "unknown"}
    BY <2>1, <2>4 DEF LifeInv
  <2>6. CASE poll'.batch = batch /\ poll'.changed = {} /\ \A a \in batch : poll'.view[a] = attempt[a]
    BY <2>4, <2>5, <2>6 DEF LifeInv
  <2>. QED BY <1>3, <2>3, <2>6
<1>5. ASSUME NEW a \in Attempt, PollSkips(a) PROVE LifeInv'
  <2>1. poll'.batch = poll.batch /\ poll'.view = poll.view /\ poll'.changed = poll.changed
    BY <1>0, <1>5 DEF PollSkips, PollState
  <2>. QED BY <2>1 DEF LifeInv
<1>6. ASSUME NEW a \in Attempt, NEW status \in {"none", "queued", "sent", "failed", "unknown"},
             At(a), Learn(a, status), poll.view[a].id \/ status = "unknown"
      PROVE  LifeInv'
  <2>1. /\ poll'.batch = poll.batch
        /\ poll'.view[a].status = status /\ poll'.view[a].id = poll.view[a].id
        /\ \A b \in Attempt : b # a => poll'.view[b] = poll.view[b]
        /\ poll'.changed = poll.changed \/ poll'.changed = poll.changed \cup {a}
    BY <1>6, LearnFacts
  <2>2. poll.batch \subseteq Attempt
    BY <1>0 DEF PollState
  <2>. QED BY <1>6, <2>1, <2>2 DEF LifeInv
<1>7. ASSUME NEW a \in Attempt, PollInterrupted(a) \/ PollDisconnected(a) PROVE LifeInv'
  BY <1>6, <1>7 DEF PollInterrupted, PollDisconnected
<1>8. ASSUME NEW a \in Attempt, PollAnswered(a) PROVE LifeInv'
  <2>1. PICK m \in Settles(mail[a]) : Learn(a, IF m = "open" THEN "queued" ELSE m)
    BY <1>8 DEF PollAnswered
  <2>2. At(a) /\ poll.view[a].id
    BY <1>8 DEF PollAnswered
  <2>3. mail[a] \in Mail
    BY DEF IInv, TypeOK
  <2>4. (IF m = "open" THEN "queued" ELSE m) \in {"none", "queued", "sent", "failed", "unknown"}
    BY <2>1, <2>3 DEF Settles, Onward, Mail
  <2>. QED BY <1>6, <2>1, <2>2, <2>4
<1>. QED BY <1>2, <1>3, <1>4, <1>5, <1>7, <1>8

LEMMA NextMoves ==
  ASSUME IInv, LifeInv, [Next]_vars
  PROVE  LifeInv' /\ \A a \in Attempt : Moves(a)
<1>1. ASSUME NEW c \in Caller, Submit(c) PROVE LifeInv' /\ \A a \in Attempt : Moves(a)
  BY <1>1, SubmitMoves
<1>2. ASSUME NEW c \in Caller, NEW answer \in Answer, Enqueue(c, answer)
      PROVE  LifeInv' /\ \A a \in Attempt : Moves(a)
  BY <1>2, EnqueueMoves
<1>3. CASE PollCommits
  BY <1>3, PollCommitsMoves
<1>4. CASE PollStarts
  BY <1>4, PollMoves DEF PollStarts, BeginPoll
<1>5. ASSUME NEW a \in Attempt,
             PollSkips(a) \/ PollInterrupted(a) \/ PollDisconnected(a) \/ PollAnswered(a)
      PROVE  LifeInv' /\ \A b \in Attempt : Moves(b)
  BY <1>5, PollMoves DEF PollSkips, PollInterrupted, PollDisconnected, PollAnswered, PollElse
<1>6. CASE Restart
  BY <1>6, PollMoves DEF Restart
<1>7. CASE UNCHANGED <<attempt, poll>>
  BY <1>7, PollMoves
<1>8. \/ \E c \in Caller : Submit(c) \/ \E answer \in Answer : Enqueue(c, answer)
      \/ PollCommits \/ PollStarts
      \/ \E a \in Attempt : PollSkips(a) \/ PollInterrupted(a) \/ PollDisconnected(a) \/ PollAnswered(a)
      \/ Restart \/ UNCHANGED <<attempt, poll>>
  BY DEF Next, vars, Sending, TimerFires, SendNow, Load, Finish, Polling, Pause, Resume, Cancel,
         Edit, Uninvolved
<1>. QED BY <1>1, <1>2, <1>3, <1>4, <1>5, <1>6, <1>7, <1>8

(* The rows of the attempts, with the coroutines that submit them, a poll  *)
(* whose view is old and restarts between any two steps, implement the     *)
(* abstract attempts: none is submitted again, an uncertain one is only    *)
(* resolved, and an outcome asked for is final.                            *)
THEOREM ImplementsAttempts == Spec => AttemptsSpec
<1>1. Init => AttemptRows!Init /\ LifeInv
  BY DEF Init, AttemptRows!Init, AttemptRows!Unwritten, Unwritten, LifeInv, NoPoll
<1>2. IInv /\ IInv' /\ LifeInv /\ [Next]_vars => LifeInv' /\ [AttemptRows!Next]_attempt
  <2>. SUFFICES ASSUME IInv, IInv', LifeInv, [Next]_vars
                PROVE  LifeInv' /\ AttemptRows!Next
    OBVIOUS
  <2>1. attempt' \in [Attempt -> AttemptRows!Row]
    BY DEF IInv, TypeOK, Row, AttemptRows!Row
  <2>2. LifeInv' /\ \A a \in Attempt : Moves(a)
    BY NextMoves
  <2>. QED BY <2>1, <2>2 DEF AttemptRows!Next, Moves
<1>. QED BY <1>1, <1>2, AlwaysIInv, PTL DEF Spec, AttemptsSpec, AttemptRows!Spec
=============================================================================

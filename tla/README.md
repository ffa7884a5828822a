# Verification of EchoSend / WhatSend

This directory holds TLA+ models of the scheduler that sends WhatsApp messages
(`src/app`, Python) and of its built-in WhatsApp worker (`src/whatsapp-worker`,
JavaScript), the TLC runs that check them on small instances, and theorems about
them that TLAPS checks for every instance. `PROJECT.json` lists the runs, the
faulty variants each property must notice, which lines each definition models,
the hazards found in the code and the theorems.

## 1. The system

A browser or API client talks to a FastAPI application. The application keeps
everything in one SQL database, schedules jobs with APScheduler in its own
process, and sends either through Whapi.Cloud over HTTP or through a second
process, the worker, which holds the WhatsApp Web sockets (Baileys). `run.py`
starts both and stops when either ends.

| Component | State | Operations | Interacts with |
| --- | --- | --- | --- |
| Worker (`manager.mjs`, `store.mjs`, `server.mjs`) | per connection: journal of messages, credentials (both encrypted files), socket, generation, state, QR, reconnect timer, drain flag | connect, QR, status, disconnect, delete, enqueue, message status; socket events; drain; restore | Baileys events; called by the application over HTTP |
| Native job delivery (`native_jobs.py`) | delivery attempts, job status, `ACTIVE_RUNS`, `POLL_CURSOR` | `submit_job`, `finish_run`, `poll_deliveries` | worker; scheduler; same rows as the job actions |
| Scheduler and cloud delivery (`scheduler.py`) | APScheduler timers; status, skip, word and retry columns of a job | `send_job`, `_schedule_retry`, `register_*`, `remove_job`, `load_all_jobs` | all of delivery; job actions |
| Job actions (`routers/jobs.py`) | job rows, recipients, attachments | create, edit, clone, delete, pause, resume, cancel, skip, send now | scheduler timers, files |
| Series (`series*.py`) | plan, entries, cursor, active run | claim a position, submit its parts, finish | native delivery, scheduler |
| REST API (`api.py`, `native_api.py`) | relay operations, one per idempotency key | send, replay, status | worker |
| Schedules and words (`schedule_dates.py`, `word_list.py`) | positions and dates on the job | pure functions | scheduler |
| Media files | files in the upload directory, paths in three tables | upload, replace, unlink when unreferenced | job actions, series, connections |
| Accounts (`auth.py`, `main.py`, `admin.py`) | account rows; sessions are signed cookies | sign in, renew, sign out everywhere, change password, (de)activate | every request; API keys and grants belong to one |
| OAuth (`oauth.py`) | grants: code, token pair | allow, exchange, refresh, revoke, disconnect | MCP |
| MCP and assistant tools | none of their own | call the job actions | jobs |
| Pages, localisation, logging, migrations | none | rendering | everything |

### What is hard in it

* **Worker.** JavaScript runs one turn at a time, so races happen only across
  `await`, but there are many: a recipient lookup during which the connection
  goes away, a QR image rendered while the phone pairs, a logout waiting for
  WhatsApp while timers and close events run, a drain running when a message
  arrives. The process may die anywhere; a message that may have gone out must
  never be sent again, and one that was accepted must not disappear.
* **Native jobs.** `submit_job` and the ten-second poll work on the same rows
  from different database sessions. A session never re-reads a row it holds
  (`expire_on_commit=False`), so either may decide from an old copy. The claim
  of a run, late acknowledgements, the user's actions and restarts meet here.
* **Scheduler.** Retries, skips, word positions and job status are changed by
  timers, requests and restarts; Whapi results are committed only at the end.
* **Series.** The same, with a position that may be claimed once.
* **API, OAuth, accounts.** Uniqueness under concurrent requests (idempotency
  key, code), answers that never come, requests that read an account or a grant
  before it was signed out, replaced or revoked and write afterwards, row ids
  that SQLite uses again.
* **Files.** A file is unlinked by reference counts read in another transaction.

### What makes each component correct

| Component | Properties |
| --- | --- |
| Worker | nothing sent twice or out of order; accepted messages survive; one live socket; stopped means down; pending messages get their turn; removal removes |
| Native jobs | outcomes never overstated; `failed` without an id means not accepted; a one-time job runs once; unknown is only resolved; every attempt is answered and fetched; a settled run releases the job; cancel is final; one run at a time |
| Cloud jobs | retries reach only those that failed, and reach them; a stopped job stays quiet; no word is passed over; completed means delivered; a scheduled job has something that will run it, also after a restart |
| Series | no piece handed over twice; one part at a time, from the plan as it stands; stops hold; completed means delivered; an interrupted run is followed to its end |
| API | one worker submission per idempotency key; what is reported is true, and final once it says so |
| Accounts, OAuth | a session signed out everywhere stays out; a withdrawn approval lets nobody in |
| Files | a path in the database has its file; a file nobody names is gone |
| Forms | a schedule survives the form and is named rightly; a plan or a PDF loses nothing |

The full list of hazards, each at its line, is in `PROJECT.json`; the few
without a property say why.

## 2. Modules

| Module | Role |
| --- | --- |
| `Outbox` | abstract: what the worker promises about accepted messages |
| `Worker` | one connection of the worker, in detail |
| `Delivery` | statuses of an accepted message and which may follow which: what the worker guarantees and the application relies on |
| `WorkerProofs` | type correctness, connection safety, no message sent twice; `Worker` implements `Outbox`, keeps accepted messages and moves them by `Delivery` |
| `Attempts` | abstract: what the rows of delivery attempts promise |
| `NativeJobs`, `NativeProofs` | one job sent through the worker, in the application; its safety |
| `Campaign`, `CampaignProofs` | one job sent through the cloud provider: timers, retries, words, dates, job actions, restart; its safety |
| `Series`, `SeriesProofs` | one message series, sent part by part through either provider; its safety |
| `Library` | attachments: rows, files, requests |
| `Forms` | the composer's conversions: schedules and plans |
| `LibraryProofs` | files and rows in step |
| `FormsProofs` | what the conversions keep, by induction over days, plans and pages |
| `Accounts` | one account: its sessions and the apps connected to it |
| `Relay`, `RelayProofs` | `Accounts` composed with API keys and the REST API's operations; types, one submission, true and final answers |
| `AccountProofs` | `SignedOut` and `StaysWithdrawn` |
| `MCWorker`, `MCNativeJobs`, `MCCampaign`, `MCSeries`, `MCLibrary`, `MCRelay` | instances for TLC (symmetry, sets of kinds and plans); `MCLibrary` also runs `Forms` |

`NativeJobs`, `Campaign` and `Series` are three views of `send_job`: the branch
it takes depends on the connection and on the message's mode, and the three share
the job's columns. They are kept apart because each branch has its own sessions
and its own commits; what they have in common (one timer instance, `Registered`,
the job actions) is written in each with the columns that branch reads.

### Worker

An action is one turn of the event loop: everything between two awaits. The
variables are the fields of the session object with their names (`journal`,
`state`, `socket`, `generation`, `stopped`, ...), the journal file (`disk`,
`stored`) and what waits somewhere: `drain` (the loop in `resolveRecipient` or
in `sendMessage`), `rendering` (QR images being rendered), `leaving` (a logout
waiting for WhatsApp), `closing` (ended sockets whose close event is still to
come). A socket is named by the generation that created it. `wire` and
`accepted` are history variables.

| Actions | Code |
| --- | --- |
| `RunImmediate`, `Resolved`, `NotResolved`, `SendReturns`, `SendThrows` | the turns of `drain` |
| `Transmit` | the moment inside `sendMessage` at which the message leaves (external) |
| `Enqueue`, `MessageOverdue`, `Connect`, `Leave`/`Left` | the routes that change state |
| `Acknowledge`, `QrOffered`, `QrShown`, `QrFails`, `Paired`, `Opened`, `Closed` | socket events |
| `QrExpires`, `TimerFires` | clocks |
| `Restart` | death (or `close()`) and `restore()` |

Requests that only answer (a repeated idempotency key, 400, 404, 409) change
nothing and are stuttering steps. `resolveRecipient` is either success or
failure; which announcement group it finds is not modelled. A position in the
journal stands for the operation's id and WhatsApp id. `badSession` is treated
as `loggedOut`, which the code does too. Two overlapping logout requests of one
connection are left out.

`Outbox` knows only the journal and the wire: keys are unique for good, an
operation leaves at most once and in order, and only an operation that has left
can be acknowledged. `Worker!OutboxSpec` is the same behaviour seen through the
identity on these two variables; what is abstracted is everything else: file,
socket, drain, process.

### NativeJobs

One job that is not a series: its row (`job`), its timer (`scheduled`), its
attempts (rows, numbered in the order they are inserted, `Recipients` to a run),
the module globals `active` and `cursor`, the coroutines in `send_job`
(`caller`, each with its session's view of the job and of the attempts it
wrote), the poll (`poll`, with its session's view of the batch and the job), and
`mail`, what the worker has made of each message. An action runs from one await
that lets others in to the next; the database serialises writers, so a flush and
its commit are one step. Only changed columns are written back, as SQLAlchemy
does.

| Actions | Code |
| --- | --- |
| `TimerFires`, `SendNow`, `Load` | entering `send_job` (one timer instance at a time) |
| `Submit`, `StartRun` | the check, the conditional UPDATE, the attempts and their commit |
| `Enqueue`, `Record` | one recipient's request and commit; `OutcomeOf` is the code's reading of the answer, `Reaches` what the worker has by then |
| `Finish`, `FinishedStatus` | `finish_run` as `submit_job` sees it |
| `PollStarts` ... `PollCommits` | `poll_deliveries`, one action per attempt of the batch |
| `Pause`, `Resume`, `Cancel`, `Edit` | the user's actions, one transaction each |
| `Restart` | the application stops and `load_all_jobs` runs |

`Settles` is the worker seen from outside: it answers with any status that may
follow (`Onward` of `Delivery`), chosen when it is asked; `pending` and
`processing` are one. A "failed" is not the last word: a negative acknowledgement
may be followed by a positive one. That the worker never moves otherwise is
`MovesOnward`, proved of `Worker`.

`Attempts` knows only the rows: an attempt is begun once, answered once, and from
then on either has a message id, which stays and may be asked for until it is sent
or failed, or has none and can at most be given up. `NativeJobs` and `Series` both
implement it (`AttemptsSpec`), the one row by row, the other piece by piece.
`once` stands for the trigger types `date` and `now`. Not in this module:
`dates` schedules, word lists that end, skips, deletion of the job, a missing
connection at submission (the job then takes the Whapi path), log rows.

### Campaign

One job of any kind. Variables: its row (`job`), its two timers in APScheduler
(`timer`, the set of times at which the schedule is due, `Anytime` for a cron
schedule; `retryTimer`), the `clock`, and the coroutines in `send_job` with the
row as their session loaded it. `got`, `firsts`, `used`, `late`, `skipped` are
history variables.

| Actions | Code |
| --- | --- |
| `Fire`, `FireRetry`, `Tick` | APScheduler: a due timer starts `send_job` unless its last instance still runs |
| `Begin`, `SkipRun`, `WordsRunOut`, `NoRecipients` | the beginning of `send_job` and its early returns |
| `Deliver` | the cloud path to its one commit: words, sends, `_schedule_retry` or the success branch |
| `SendNow`, `Pause`, `Resume`, `Cancel`, `Delete`, `Skip`, `SkipClear`, `Edit` | the job actions |
| `Restart` | a stop at any point, and `load_all_jobs` |

A run loads the row, sends for as long as it takes and writes back the columns it
changed (`Commit`), over whatever was committed meanwhile; that is where skips,
stops and positions of other runs are lost. The provider is the set of recipients
it acknowledged. A run cut off by a restart may have served any of them. A user's
action is one step. The grace for missed times (`MISFIRE_GRACE_SECONDS`) is
counted in ticks. An edit takes the position of the word list from its form, as
the code does (`Position`).

### Series

One series: the columns of the job it claims (`cursor`, `run`), the status of
each part (`entry`) and of each piece of a part (`attempt`), `active`
(`ACTIVE_RUNS`), coroutines in `submit_series`, the poll with the attempts its
session has loaded. `Claim` is the conditional UPDATE with everything committed
with it; `SendPiece` one attempt with its commit; `Close` and `PollEnds` call
`FinishSeriesRun` on what their session sees. The end of a run takes the
database's write lock and reads the job again, so only attempts can be stale. A
poll looks at one part; attempts of other parts are as if the worker had not
answered. `of` and `tried` are history variables, `straddled` records that a poll
or a restart fell between a run's last piece and its end.

### Library and Forms

`Library` has the rows that name files, the directory, and requests with their
awaits in between: a form is checked, the file saved, the row committed, what is
no longer needed removed. Files are numbered in the order of writing (names are
`uuid4`). `torn` and `leaked` record the two cases the code does not prevent: a
file removed rightly while a copy is about to be committed, or while the edit that
removes it has not been committed; and a file a failed or overtaken request has
lost sight of.

`Forms` is one form, with what was given and what is stored for it. `Built`,
`Parsed` and `Worded` are the three places that write or read a recurring schedule
(`PickSchedule`, `RawSchedule`, and `SaveAgain` for the edit page opened and saved
as often as one likes); `Flattened`, `Chunks` and `Batches` the three that cut
content into parts (`ComposeSeries`, `ImportPages`, `ImportItems`). A plan is a
sequence of sources of any number and length, `PlanKept` a statement about
positions: every entry of every source is in exactly one part, two entries of a
lane are in the order of the plan, no part holds two of them, and no lane pauses
before it ends. It shares no
state with `Library`, so `MCLibrary` takes its steps before the first request only.

### Accounts and Relay

`Accounts` is one account. A session is a signed cookie, so nothing about it is
stored but the account's session version; `epoch` counts sign-outs everywhere and
`born` is the epoch of the sign-in a cookie descends from, both history. Grants
are rows by id; SQLite gives a new row the id after the largest, so the id of a
deleted grant comes back, and a request that loaded the old row updates the new
one (`crossed`). `Relay` extends it with API keys (the row is committed before
its hash is known) and relay operations, and gives the next-state relation of
both. `worker` is `Outbox` seen through its HTTP answers: a call is accepted,
refused, or nothing is heard and it may have arrived or may still; an accepted
message then moves by `Delivery`.

## 3. Runs

| Run | Asks | Instance | Result |
| --- | --- | --- | --- |
| `worker` | types, safety of the connection and of the journal, refinement of `Outbox` | 2 keys, 2 payloads, 2 messages, 3 generations, 1 restart | holds; 751,932 states |
| `worker_live` | a pending message moves on while the connection stays up | 2 keys, 2 messages, 2 generations, no restart | holds; 50,413 states |
| `worker_removed` | is the data of a removed connection gone? | 1 key, 2 generations | violated |
| `native` | outcomes not overstated, one-time jobs run once, refinement of `Attempts` | 2 coroutines, 2 runs, 1 recipient, 1 edit, 1 restart, all kinds | holds; 1,392,501 states |
| `native_live` | every submission settles, every outcome is fetched | 2 recipients, poll batch of 1, 1 restart | holds; 4,755 states |
| `native_lost` | is a settled job released? | 1 run, 2 recipients | violated |
| `native_claim` | one run at a time? | 3 runs, 1 recipient | violated |
| `native_cancel` | is cancel final? | 2 runs, 1 recipient | violated |
| `campaign` | who is sent what, stops, words, restarts | 2 coroutines, 2 recipients, 2 words, 3 ticks, 1 retry, 2 runs, 1 skip, stop or edit, 1 restart, all kinds | holds; 845,518 states |
| `series` | one part at a time, nothing twice, stops, plan | 2 coroutines, a part of 2 pieces and one of 1, edits, stops, 1 restart, both providers | holds; 2,271,750 states |
| `library` | rows and files; conversions | 2 requests, 3 jobs, 3 files, 6 requests in all, 1 restart; all picks, all raw schedules, plans of up to 3 sources, 9 pages | holds; 745,509 states |
| `relay` | sessions, grants, idempotency, reported outcomes | 2 requests, 1 app, 2 sign-outs, 2 approvals, 2 token pairs, 2 keys, 2 payloads, 6 requests in all | holds; 518,700 states |

### Why these bounds

* Two messages are enough for order, for a message enqueued during a drain and
  for a snapshot that misses one; two payloads under two keys show a key reused
  with another payload. Three generations are a socket, the one that replaces it
  and a logout, so events of an outdated socket, of the current one and of none
  all occur. One restart falls into every state, and a second begins from a
  state of the same kind (everything volatile is reset). The theorems of
  section 5 hold for all bounds.
* Two runs and two coroutines give every pair of a run, an older run's late
  outcome and a concurrent press. `native_claim` needs a third run because the
  press it shows is the third. A poll batch of one with two open attempts is
  where the cursor matters; the code's limit is 200.
* `campaign`: two coroutines are an older run and a newer one, or a run and its
  retry; two recipients are one served and one that failed; one retry is both the
  first and the last; two words and two runs wrap a list once; three ticks put a
  date before, within and after the grace. One stop, skip or edit falls into every
  state; two of them make no new situation, as each reads only the row. The edit is
  to a repeating schedule with words; one to a moment that `register_job` refuses
  is in the module and in its theorems, which hold for any `Edited`.
* `series`: a part of two pieces is where the end of a run is not the end of its
  first piece, a second part is what may overtake it.
* `library`: a file, its copy and a third job that may share or replace them; six
  requests are an upload, a copy and two edits or deletions racing, with clean-ups.
* `relay`: two requests are every pair that races; two approvals, pairs and keys
  are one withdrawn and its successor, and let an id be used again.
* `CHECK_DEADLOCK FALSE` everywhere: a worker with its bounds used up and
  nothing pending, a job that is done, or an account whose bounds are used up,
  rightly stands still.

### Fairness

`worker_live` assumes that a callback given to `setImmediate` runs and that the
two awaited calls of the drain settle; Baileys ends every query with a timeout.
It assumes nothing of the network, of acknowledgements or of reconnection, so
the property speaks of the time during which the connection stays up.
`native_live` assumes that coroutines run on, that the interval timer polls, that
an attempt grows older than two minutes (so that an abandoned submission is
looked at after that) and that a worker asked again and again reports an outcome
in the end: it times a send out itself after two minutes, and sends a pending
message once connected (`PendingMoves`). The last two are strong fairness
because the poll is at one attempt at a time.

### What the violations show

* `worker_removed`: a drain waits for a group's metadata, `remove()` ends the
  socket and deletes the directory, the lookup fails, and the drain records the
  failure with `saveJournal`, which creates the directory again. The messages of
  the deleted connection stay on disk, and the next start restores the session.
* `native_lost`: with attempt 1 accepted and attempt 2 still being submitted, the
  poll loads both. `submit_job` ends: in its session attempt 1 is `queued`, so it
  leaves the verdict to the poll. The poll learns that attempt 1 was sent: in its
  session attempt 2 is still `submitting`, so it leaves the verdict to
  `submit_job`. Both attempts are final, no later poll selects them, the job
  stays `queued`.
* `native_claim`: run 1 ended `unknown`. While run 2 submits, the poll finds run
  1's message was sent and `finish_run` sets the job back to `trigger`; another
  press claims it and a third run starts beside run 2.
* `native_cancel`: the poll loads the job while it is `queued`; the run ends, the
  job is `trigger`, the user cancels it; the poll finishes an older run, sees its
  own copy, and writes `trigger`.

### What the properties leave out, and why

Some properties have an exception, written in them with a history variable. Each
stands for something the code does; the model contains it, and removing the
exception makes TLC show it (the cases with three and four overlapping runs on
instances larger than `campaign`). None contradicts a line of the repository
closely enough to be a run of its own.

* **A job stopped during its run** (`late`). The run writes its status and may arm
  a retry after the stop; a retry already armed by it sends again. Send Now during
  the timer's run sends twice.
* **Overlapping cloud runs.** A job has one retry timer. The timer's run of a
  recurring job is sending when Send Now starts another; one fails for some
  recipients, writes them to the row and arms the retry; the other succeeds and
  removes it, but its session never saw those columns filled, so clearing them
  writes nothing: the row names recipients and a time for a retry that only a
  restart would put back. With three runs of a one-time job the same leaves it in
  `retry_scheduled` with nothing to run it, so `RetryKept` (a part of
  `NotForgotten`) holds until a second run begins. Of a list that stops at its end,
  the older run also writes its position back: a completed job is active again with
  no timer, so `TimerKept` (the other part) speaks of the other lists, and four runs
  with a pause among them can leave a position that reads as completed, so
  `CompletedDelivered` does too. A skip asked for during a run is lost, or one used
  up comes back.
* **An edit whose `register_job` raises** has already removed the timers; the row
  keeps its old schedule and nothing runs it until the next start.
* **A poll or a restart between a series' last piece and its end** (`straddled`).
  After a restart there, no attempt is open and `series_active_run` stays set: the
  series is blocked for good. A poll there closes the part and `submit_series`
  writes `queued` over it.
* **Files** (`torn`, `leaked`). A copy of a job whose last other row goes names a
  file that is gone; so does a job whose edit fails after the old image was
  unlinked. `delete_token` removes images only, files of the connection's series
  stay. An import that a plan takes while `cleanup_imports` runs is deleted.
* **Requests that write to the account while it is signed out everywhere**
  (`overlap`): the session version is written as the one read plus one, so two
  increments become one; and a profile update answers with a cookie made from the
  row read after its commit, which revives a session signed out in between.
* **Reused grant ids** (`crossed`). An exchange, refresh or revocation that loaded
  a deleted grant writes to the row that has its id now. Two exchanges of one code
  both answer with tokens; the first pair is dead at once.
* **Forms.** A raw schedule with a range inside a list, a weekday's name or a step
  makes the edit page fail in `parse_cron_for_form` (an uncaught `ValueError`); one
  that names a month is shown and saved again as daily. A schedule shown in another
  time zone has its time converted but not its weekday.

## 4. Properties and the variants that break them

Each property of a passing run is paired in `PROJECT.json` with a variant of one
definition that breaks it, the slip it guards against: retrying an interrupted
send (`InterruptedRetried`), answering before saving (`EnqueueUnsaved`), keeping
the replaced socket (`OpenLeaking`), dropping a generation check
(`ClosedAnyGeneration`), dropping the re-check after an await
(`ResolvedUnchecked`, `QrShownUnchecked`), forgetting the finally block's
restart (`FinishDrainNoRetry`), claiming nothing (`SubmitUnclaimed`), calling
every 4xx answer a failure (`OutcomeOfAnyClientError`), sending a retry to
everyone (`TargetsAll`), leaving the retry timer behind (`RemoveTimerOnly`),
counting a picked date within the grace as still to come (`IsLastRunInGrace`),
claiming without the cursor (`MayClaimAnyCursor`), sending the plan as it was
loaded (`VersionSeen`), removing a file another row names (`CleanAny`), renewing
a cookie from the account as it is now (`CookieFresh`), writing back a deleted
grant (`RowRemembered`), calling a lost answer a failure (`OutcomeGuessed`), and
so on. The variants stand in front of the definition they vary and no action
uses them.

## 5. Proofs

Assumptions: for the worker `BoundsAssumption` (the bounds are natural numbers, at
least one generation), with arbitrary sets of keys and payloads; for the jobs
`NativeAssumption` (natural bounds, at least one recipient and one attempt per
batch, kinds of schedule that exist), with an arbitrary set of coroutines; the
others are named below.

The worker (`WorkerProofs`):

* `TypeCorrect`: `TypeOK` is inductive by itself, action by action.
* `OneSocketAlways`, `ConnectedHasSocketAlways`, `StoppedStaysDown`: the three are
  not inductive: an event of an old socket could clear the new one. The
  strengthening `ConnectionInv` adds that no socket is newer than the generation,
  that an event can only come from the current generation while `s.socket` still
  names it (or is null), and that the reconnect timer runs only when that socket
  is gone.
* `ConnectionKeptAlways`: an action property, from the same invariant.
* `NothingSentTwice`: `MailInv` says where the drain stands in the journal
  (`DrainInv`), that everything handed over lies in front of the loop and of
  every pending operation (`WireInv`), and that the file mirrors the memory
  (`DiskInv`), which is what a restart needs. The case that needs thought is a
  logout followed by a new connection while the old drain still waits; the
  socket recorded at the start of the wait tells them apart.
* `ImplementsOutbox`: every step is one of four kinds (`NextKinds`): it settles
  operations in place, marks the next one, hands it over, or accepts one; each
  kind is a step of `Outbox` or stutters. `StageInv` ties the loop's phase to the
  status of its operation.
* `AcceptedNeverLost`: keys stay distinct and every accepted pair keeps its place.
* `MovesOnward`: the worker's half of an assume-guarantee argument. Over one step,
  including a restart that finishes what was interrupted, a message keeps its key
  and payload and its status stays or moves by `Onward`. `NativeJobs` (`Settles`)
  and `Relay` (`MovesTo`) let the worker do that and nothing else. It follows from
  `ImplementsOutbox`: every step of `Outbox` moves a message so.

The jobs (`NativeProofs`). None of the properties is inductive: a row may be
overwritten by a poll that read it before the row's own coroutine did. `IInv`
says who may write what:

* `RowInv`: rows exist only for runs that started, a queued row has a message id,
  and an id means that the worker knows the message.
* `PollInv`: the poll's view may be old, but it never invents a message id and
  changes a row only to an outcome; a failed outcome it writes has an id, so
  `FailedNotAccepted` does not speak of it.
* `SendInv`: a coroutine that submits owns its run. The attempts it has not
  reached are as it inserted them, in the rows and in the poll's view, and the
  poll does not touch them, because the run stays in `ACTIVE_RUNS` (the guard of
  `PollInterrupted`) and no two coroutines submit for one run.
* `OnceInv`: until the first edit every session's view has the job's real kind,
  and a one-time job that has run is in a status that admits no other claim.

`CurrentFacts` (the recipient a coroutine is at belongs to its run) rests on
`PlaceFacts` and `RunOfFacts`, the arithmetic of numbering `Recipients` attempts
to a run. From `IInv`: `TypeCorrect`, `FailedIsSafeToRetry`, `SentIsConfirmed`,
`OneTimeRuns`.

* `ImplementsAttempts`: every step leaves each row as it is or begins, answers,
  resolves or gives it up. `LifeInv` adds that a row the poll has loaded is not sent,
  nor failed after its id was asked for, and that one it knows an id of is still queued
  or unknown: nobody but the poll writes those. An outcome that was asked for is
  therefore never overwritten, though the poll writes from an old copy.

The cloud jobs (`CampaignProofs`), assuming `CampaignAssumption` (finite sets of
coroutines and recipients, at least one word, natural bounds):

* `TypeCorrect`: `TypeOK` is inductive; the lemmas on `Registered`, `Retried` and
  `Loaded` say what the scheduler's functions return.
* `StopAlwaysHolds`: `StopHolds` is inductive together with `TypeOK`: what must be
  seen is that registering a job, resuming, editing or loading it never leaves a
  timer with a stopped status, and that a stop leaves `late` exactly when a run is
  in flight.
* `NoWordSkipped`: `WordsInv` says it of every position the row or a session
  holds, however old, so a commit of an old position, a retry's step back and the
  wrap of a repeating list are all covered.
* `NeverResentAlways`: `SlackInv` adds that at most one retry is in flight, and that
  whoever is still owed one, in the row or in that retry's view, has fewer messages
  than there were runs and restarts. A restart may cut off many runs at once;
  `CutCount` is the counting argument that at most one of them was a retry.
* `CompletedAlwaysDelivered`: `ServedInv` says that whatever set of recipients a
  retry is for, in the row or in a view however old, the others have been reached;
  `SameInv` that until the first edit every view has the job's schedule.
* `NeverForgotten`: for `TimerKept`, `ScheduleInv` adds which statuses fit which schedule, in the row
  and in every view (`StatusInv`), that a view loaded before a stop is not about when
  `late` is false (`ViewInv`), and that an active job has every view active and a
  timer for all that is still to come, or a run that will see it (`ActiveInv`).
  For `RetryKept`: before the first run nothing is owed (`Untried`); after it the row
  names whom it owes, the retry is due or in flight, and one that has loaded the row
  knows what the row says (`RetryInv`), so it cannot end without delivering.

Series (`SeriesProofs`), assuming `SeriesAssumption`, with an arbitrary set of
coroutines:

* `TypeCorrect`: `TypeInv` adds that a coroutine has noted no more pieces than its
  part has, and that the poll's view is that of one part.
* `StopAlwaysHolds`, `PlanAlwaysCurrent`: action by action from the types: only a
  resumption or an edit ends a stop, and the claim, not the reading before it, decides
  which plan a part is taken from.
* `NeverReplayedAlways`, `OnePartAlways`: neither is inductive, as a poll or another
  coroutine could give a part back to be claimed. `CoreInv` says that the run belongs
  to the last part begun and to the one coroutine that sends it (`RunInv`), that a
  part that is over has no open attempt (`PieceInv`), and that pieces not reached are
  untouched, also as a poll has loaded them (`SendInv`, `PollInv`).
* `RunAlwaysFollowed`: `FollowInv` adds that a run nobody holds has an open attempt,
  and that what a poll has loaded of it is exactly what is open.
* `CompletedAlwaysDelivered`: `EndInv` ties what a coroutine noted to the attempts
  (`OwnInv`), the entry of a part that is over to the sum of its attempts
  (`EntryInv`), and says that a poll's view of such a part is as the rows are or from
  before the answers (`ViewInv`).
* `ImplementsAttempts`: as for the native jobs, for the pieces of all parts. A poll may
  have loaded a piece as `submitting` that has been sent, refused or accepted since
  (`Held`); all it can then write is `unknown`, and only where no outcome that was
  asked for is lost. (TLC agrees on the instance of `series`; the refinement is left out
  of the run, whose state space is already the largest.)

Files (`LibraryProofs`), assuming `LibraryAssumption`, with an arbitrary set of
requests:

* `TypeCorrect`: `TypeInv` adds what a request has loaded in each of its kinds.
* `NeverDangling`, `NothingLeftAlways`, `OwnFileAlways`: `FileInv` says that nothing
  names a file not yet written (`MadeInv`), that a file written and not committed is
  its request's own (`NewInv`), that images and series attachments are never the same
  file (`KindInv`), so that counting references in one column is enough, that names in
  use have their file (`PresentInv`), and that every file has a row or a request
  (`HeldInv`).

Forms (`FormsProofs`), assuming `FormsAssumption`:

* `ScheduleAlwaysKept`: for any days, the stored expression fires on the days given
  (`StoredInv`), which parsing and building again preserves.
* `PagesCovered`, `ItemsCovered`: lemmas on `Chunks` and `Batches`, for every length
  and size.
* `PartsAlwaysKept`: any number of sources of any length, in sequence or side by side.
  `flatten_series_plan` walks the sources and, inside, their entries, so what it builds
  is a fold of sequences (`FlattenSeq`, `Merged`), and what holds of it needs an
  induction. The library's induction theorems take a predicate as a parameter and are
  out of the provers' reach; `NatInduct` is the principle for a set instead, derived from
  a fact of the library about sets of naturals: proper inclusion of finite sets is
  well-founded, so among the intervals `1..n` of counterexamples one is minimal. On it
  rest `FlattenJoins` (an element of a flattened sequence is at the place its sequence
  begins plus its position there), which `SequentialStream` and `JoinedInOrder` turn
  into the order of entries, and the lemmas on parts: `SingleMerged` and
  `ParallelMerged` (what each strategy makes of a lane), `MergedKept` and
  `FlattenedKept` (every entry once, in order, without a gap). For one document
  `ChunksAdjoin` and `CoversFlat` say that what the chunks cover, one after the other,
  is the document.

The API (`RelayProofs`), assuming `AccountsAssumption` and `RelayAssumption`
(natural bounds), with an arbitrary set of requests:

* `TypeCorrect`: `TypeInv` adds to `TypeOK` what a request may remember in each
  phase (`TaskInv`) and that no session version is ahead of the epoch
  (`VersionInv`), without which the version written by a request that read an older
  one is not bounded. `MaxIs` establishes what `Max` of a bounded set returns, on
  which the ids given to keys and grants rest.
* `OneSubmissionAlways`, `TruthfulAlways`, `SettledStaysAlways`: `OperationInv` adds
  that an operation not yet called is held by the one request that inserted it
  (`HeldInv`), and what a request that has heard from the worker, or not, knows of
  it (`HeardInv`). That keys and operations name their credential by a secret made
  once is what keeps a reused row id apart.

The account (`AccountProofs`), from the same assumptions and types:

* `SignedOutAlways`: `SessionInv` says, unless `overlap` is set, that a cookie and a
  request that will make one are at most of the account's version and, if of that
  version, of its epoch; and that a request that may write the account has read it as
  it is. A sign-out then raises the version past all of them, whatever is under way.
* `StaysWithdrawnAlways`: `GrantInv` says that the approval of a row is on no other
  and not withdrawn, and that what a request has read is either withdrawn or still on
  the row with the id it read. So a deletion never withdraws another row's approval,
  and tokens issued to the row read are for its approval.

Only model-checked: `PendingMoves`, `SubmissionSettles` and `OutcomeFetched`, which
speak of what happens in the end (fairness is out of the prover's reach), and the
four violations. Every other property a passing run checks is a theorem.

## 6. How the modules were ordered, and what is left

The worker first (`Worker`, `Outbox`), because a message it sends twice cannot be
taken back; then the application's side of it (`NativeJobs`); then the cloud path
with its timers (`Campaign`), series (`Series`), files (`Library`), the
conversions (`Forms`), and the account with its API (`Accounts`, `Relay`).

What the modules know of each other is stated once: `Outbox` and `Delivery` between
worker and application, `Attempts` between the two ways of sending and whoever reads
the rows. Left: disk writes that fail in the worker, and one state space with worker
and application together; `MovesOnward` and `ImplementsAttempts` are the two halves of
what it would show of a message's status.

## 7. Not modelled

* Worker: disk writes that fail and unreadable storage; re-creation of a session
  under a removed id; encryption, parsing and validation of requests; community
  lookups; the Baileys library and WhatsApp beyond what `Transmit`, `Acknowledge`
  and `Closed` allow them.
* Application: the in-memory rate limiter, CSRF tokens, sign-out of one browser,
  password hashing; expiry of cookies and access tokens by the clock; registration
  of OAuth apps and the checks of their redirect URIs and code challenges; creating
  and editing connections, pairing pages; saved recipient lists; the contents of
  playlists and PDFs; the JSON-RPC envelope of the MCP server. These are one-row
  updates or pure checks with no second actor, or need data the models leave out.
* Rendering, translation, logging, configuration, database migrations, and the
  process supervisor, which the models see as `Restart`.

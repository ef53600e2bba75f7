# A TLA+ model of XQueue

XQueue (`src/`) is a queue of student submissions in one database table. The LMS
posts submissions to it; external graders pull them over HTTP, or a consumer
process pushes them to graders; the grade goes back to the LMS by HTTP. There is
no broker and no coordination other than the table, its row locks and two
timestamps, so every hard question about the program is one about steps of
several processes on the same row.

This directory holds TLA+ modules that model the processes and the table, TLC
configurations that check them, and TLAPS proofs about them. `PROJECT.json` maps
every definition to the lines it models and lists the runs, the hazards, the
disagreements found and the theorems.

## Inventory

| Component | Source | State it keeps | Operations | What makes it correct |
|---|---|---|---|---|
| Submission table | `submission_queue/models.py` | rows of `queue_submission` | the three queries with `time_filter`, `save()`, row locks | a query hides what was just handed out; `save()` writes every column, whoever changed them since |
| Pull interface | `ext_interface.py` | locals of a request between its statements; transactions | `get_queuelen`, `get_submission`, `put_result` | one grader at a time; no failure or acknowledgement invented or lost; a submission ends |
| Delivery to the LMS | `consumer.py` (`post_grade_to_lms`, `post_failure_to_lms`, `_http_post`) | `attempts`, `success` | up to five POSTs | returns; `True` only if the LMS has the grade; gives up only after the last attempt |
| Push consumer | `consumer.py` (`Worker`), `run_consumer.py` | the submission in hand; the monitor's list | fetch, grade, report, save; restart, remove | nothing retired in silence; nothing graded twice without a crash; queues are emptied |
| LMS interface | `lms_interface.py` | locals of `submit` | invalidate priors, upload, insert, count | the latest submission of a (user, module) survives; only its own priors are retired |
| Retiring and deleting commands | `management/commands/retire_*.py`, `delete_old_submissions.py` | a queryset evaluated earlier | notify, save, delete a chunk | retire for a reason and with notice; end |
| Whole service | `urls.py` and all of the above | the table | all of the above, on one table | what one component writes over another's row claims nothing that did not happen |
| Queue counts | `count_queued_submissions.py` | the rows of its query, the tries of a request | count, tell New Relic, tell CloudWatch in groups, retry | nothing left out of a run that ends well; long queues first; both services told the same |
| Integration framework | `test_framework/integration_framework.py` | a test case, a grader stub's thread or workers, the listener's log | send, `block_until`, poll, push, log, stop | a timeout is real; a stopped grader stops; no failure without one; a test case ends |
| Accounts, login, status | `views.py`, `update_users.py`, `util.py` | Django's user table | | (not modelled) |
| Command line client | `xqueue_client.py` | none | | (not modelled: a grader like the others) |
| Settings, WSGI, logging, migrations | `xqueue/`, `migrations/` | none | | constants of the models, or not modelled |

How they interact: only through the table, and through HTTP calls to the LMS.
`submit` inserts rows and retires prior ones; the pull views and the workers read
a row into memory, make slow calls (up to 5 x 5 s to the LMS, up to 30 s to a
grader, 2 s for uploads) and save the whole row; the commands do the same with a
whole queryset. `put_result` alone holds a row lock over its read, its calls and
its save. `submit` is exempt from `ATOMIC_REQUESTS`; `xqueue/settings.py` does not
set it for the pull views, `xqueue/test_settings.py` does, so both values are
modelled. gunicorn runs six workers (`xqueue/docker_gunicorn_configuration.py`),
each with one request at a time and a timeout of 300 s.

What is hard: full-row saves of stale copies; two requests between query and
save; a request or a worker lost after the LMS was told and before the save;
graders that are slower than the delay, forget what they pulled or send a result
twice; answers of the LMS that are lost; the boundary of the failure count; a
worker that an exception or a signal ends; a `submit` that fails between its
transactions; commands that overlap. The list, with its lines and the
properties aimed at each, is `hazards` in `PROJECT.json`.

## The modules

| Module | What it is |
|---|---|
| `Submission` | the table, its queries, `save()`, row locks, the clock; extended by all clients of the table |
| `PullInterface` | `get_submission` and `put_result` as processes over the table |
| `LeaseQueue` | abstract: what the pull interface promises, a queue with leases |
| `PullProofs` | TLAPS, in three parts: the inductive invariant of `PullInterface` and its safety properties; what holds in addition with one web worker; that `PullInterface` then implements `LeaseQueue`, and what follows |
| `LmsDelivery` | the five-attempt loop |
| `DeliveryContract` | abstract: what a caller of the loop may rely on, one step |
| `DeliveryProofs` | TLAPS: the loop implements the contract |
| `PushConsumer` | workers and monitor |
| `PushProofs` | TLAPS: its safety properties |
| `LmsInterface` | `submit` |
| `SubmitProofs` | TLAPS: its safety properties |
| `RetireCommands` | the retiring and deleting commands |
| `RetireProofs` | TLAPS: their safety properties |
| `XQueue` | the whole service: the four modules above composed over one table |
| `XQueueProofs` | TLAPS: the inductive invariant of the service and its safety properties |
| `QueueCounts` | `count_queued_submissions` beside queues that change |
| `QueueReport` | abstract: what the command promises to those who watch CloudWatch |
| `CountsProofs` | TLAPS: its safety properties, and that it keeps the promise |
| `IntegrationFramework` | a test case, a grader stub and the listener, around an xqueue |
| `IntegrationProofs` | TLAPS: the safety properties of a test case |
| `MCPull`, `MCPush`, `MCSubmit`, `MCRetire`, `MCXQueue`, `MCCounts` | definitions for TLC (symmetry, constants that are functions or sets of records) |

### Submission

`table` is a function from the ids that exist to rows; a row keeps `queue_name`,
`lms_callback_url`, `arrival_time`, `pull_time`, `push_time`, `pullkey`,
`num_failures`, `lms_ack`, `retired`. `lock[s]` is the transaction that holds the
row lock of `s`: a locking read or an UPDATE waits for `Unlocked(s)`. `Saved(row)`
is `save()` of an instance in memory: an UPDATE of every column, or an INSERT if
the row is gone, in which case `auto_now_add` gives it a new `arrival_time`.
`now` is the time in minutes, `faults` counts faults of the environment, `acked`
is what the LMS really answered 200 for (history, not state of the program).

### PullInterface

A web worker goes `idle -> get_save -> get_reply -> idle` in `get_submission` and
`idle -> put_post -> put_save -> idle` in `put_result`. `submission[w]` is the
local variable of the view, that is, the copy of the row it will save.

| Action | Code |
|---|---|
| `GetSubmissionRead`, `GetSubmissionEmpty` | the query and the fields set in memory, lines 57-70 |
| `GetSubmissionSave` | `submission.save()`, line 72; with `ATOMIC_REQUESTS` the row is locked and not visible yet |
| `GetSubmissionReply`, `GetSubmissionFails` | the rest of the view and its commit; the fetch of uploads fails, or the reply is lost |
| `PutResultLock`, `PutResultRejected` | `select_for_update` and the checks, lines 131-143 |
| `PutResultPost` | `post_grade_to_lms` and the outcome, lines 145-165 |
| `PutResultSave` | `save()` and commit |
| `RequestAborts` | an exception, a timeout, a lost worker: rollback |
| `GraderForgets`, `Tick` | the environment |

Graders are the tickets they hold (`submission_id`, `submission_key`, and the
time, for the properties). A grader may be slower than the delay, forget, or send
its result again (`MaxResends`). `failedReplies[s]` is history: how many
`put_result`s for `s` were committed that the LMS did not take. `Promise` is the
refinement mapping to `LeaseQueue`, which reads leases, failures and ends off the
columns of the table.

### LmsDelivery and DeliveryContract

`Post` is one turn of the loop; the LMS may handle a POST and not be heard.
`Raise` is an exception that `_http_post` does not catch, whether or not the LMS is
in service, and `RaiseUnposted` one of a header that cannot be read. The contract has one
step, `Return`: acked (then the LMS has the grade), failed or raised (then it may
or may not). `PullInterface`, `PushConsumer` and `RetireCommands` use that step.

### PushConsumer

`waiting -> grading -> graded | ungraded -> saving -> waiting` is
`_deliver_submission`; `Crash` ends a worker by an exception (exit code 1), `Kill`
by a signal (exit code below 0). `Restart` and `Remove` are the two loops of
`monitor`; they touch different workers, so one pass over the list is a sequence
of such steps. The monitor's list is `monitored`.

### LmsInterface

`Invalidate` is the UPDATE of `_invalidate_prior_submissions` (column `retired`
only), `Insert` the uploads and the `save()`, `Reply` the answer (its queue length is
left out). A callback URL is
a model value and `Truncated` maps it to what the column keeps. `callback` is the
full URL (it stays in `xqueue_header`); `lost` is history: columns whose prior
rows a submit retired before it failed.

### RetireCommands

A process runs a `Job`: `failed` (`retire_failed_submissions`), `forced` (with
`--force`), `old` (`retire_old_submissions`) or `delete`
(`delete_old_submissions`). `Start` evaluates the query (`snapshot`), `Notify` and
`RetireForced` change a row of it in memory (`current`), `Save` writes it. A turn of the
deletion is two statements: `SelectChunk` looks for old rows and reads the ids of a chunk,
`DeleteChunk` deletes these ids, whatever became of the rows in between. `Abort` is an
interrupt. A call of
`retire_failed_submissions` with several queue names is one job after another.

### XQueue

An instance of each of `PullInterface`, `LmsInterface`, `PushConsumer` and
`RetireCommands`, on the same `Submission` variables. A step is a step of one of
them; a web worker serves one request of either interface at a time (`Submits` and
`Pulls` exclude each other on a worker); the clock is one clock (`Tick`). The
service starts on an empty table. History: `superseded` are the ids that a submit
retired, `ungraded[s]` is how often a push worker's grader failed `s`.

### QueueCounts

`idle -> counted -> told -> metrics -> alarms -> metrics ... -> done` is one call of
the command: `Count` is the query (any order among queues of the same length),
`SendNewRelic` and `SendCloudWatch` its two consumers, `PutMetricData` and
`PutMetricAlarm` the requests for a group, `NextGroup` the loop over `grouper`.
`ClientError` is what `backoff` retries, `OtherError` is what it does not; in either
case CloudWatch may have done what was asked. A New Relic that is missing or fails ends
the command in `SendNewRelic`. `tries` is the counter of the `backoff` decorator, which
starts anew with each call (`FreshTries`); `refusals` is history: the ClientErrors that
each request has met. `QueueChanges` is everybody else.

### IntegrationFramework

The test case goes `sending -> looking <-> asleep -> teardown -> over` (`send_request`,
`block_until`, `tearDown`). The carrier `check -> fetch -> grade -> push -> check` is
the poll thread of `ActiveGraderStub`, or a `Worker` that a `PassiveGraderStub`
started; the difference is in `KeepsPolling`, `Halted` and in who grades. `Log` is a
thread of `GradeResponseListener`: it replies first and logs later. The replies of
the handlers are sequences of the three calls that make them up (`GradingReply`,
`LoggingReply`), and `Readable` is what `BaseHTTPRequestHandler` makes of their order.

## The runs

| Run | Question and bounds |
|---|---|
| `pull_overlap` | Two web workers, one submission, two graders, one fault, two resent results, time to 4 (delay 1), `MAX_NUMBER_OF_FAILURES` = 1, no `ATOMIC_REQUESTS`. Every pair of views overlaps in every order; the count crosses its maximum; the submission becomes available again several times. Keys and workers are symmetric. |
| `pull_serial` | One web worker (requests one at a time), two submissions, two graders, one fault, `ATOMIC_REQUESTS`: the interface implements `LeaseQueue`; no double pull; the LMS takes one grade of a submission unless a request or a reply was lost; retirement after too many failures; every submission is retired in the end. Graders may be slow, so late results race new pulls. No resent results: see below. Time to 5, which is past the last pull that graders who are not late can cause. |
| `delivery` | Two calls, five attempts, two outages: the loop implements `DeliveryContract` and returns. |
| `push` | A worker for each of two queues, two submissions in either, two exceptions and two signals, so that a worker may fail twice on the same submission and the monitor may end with its last worker. |
| `submit` | Two web workers, two (user, module) pairs, four submissions, one failure half way. |
| `retire` | Two processes, all four jobs for one of two queues, two submissions with or without a failure that arrived before, at or after the date, chunks of one, one interrupt. `MAX_NUMBER_OF_FAILURES` = 0, so that `exclude(num_failures=0)` alone keeps a submission without a failure from being retired. |
| `xqueue` | All components at once: two web workers that serve the LMS and the graders, a push worker on the same queue and a command, two submissions of one (user, module), one pull key, `retire_failed_submissions` with and without `--force`; in all one command, fault, signal, resent result or minute (`MaxEvents`). |
| `counts` | Three queues of up to two submissions, groups of two (so the last one is not full), one threshold of its own, three tries and four errors, so that the tries of one request may run out, or those of several be used up in part; the queues change at any point. |
| `integration` | Two requests, one response waited for, a timeout of 3 with sleeps of 1 or 2, two attempts to post, two faults, an active or a passive stub. |
| `pull_lost_update`, `pull_double`, `submit_long_urls` | What the code does and a comment or a test denies; each gives a shortest counterexample. |

What the properties say is stated above each of them in the modules. Those that
need several steps of several actors to break:

* `LockedRowStays`, `FailedReplyCounted`: the lock of `put_result` really covers
  read, exchange with the LMS and save, against other `put_result`s and against
  the full-row UPDATE of `get_submission`.
* `PullInv`: a stale copy may take things back, but no write ever claims a failure, an
  acknowledgement or an end that did not happen, because no copy in memory does. `EveryAckIsReal` and `NoSilentEnd` say it of the whole service, where
  the last writer of a row may be any of its components.
* `NoticeIsDeserved`: a notice of failure from `retire_failed_submissions` is based on
  a count in a row that others have saved from older copies; the failures it counts
  all happened. `LockHoldsForAll`: the lock of `put_result` holds against `submit`, push
  workers, commands and deletion too.
* `ReopenedInTwoWays`: the pull interface opens a finished submission again only by a
  `get_submission` that writes back what it read before, or by a failed result that was
  sent again after the LMS took the grade. A late result of a key that was replaced, or
  a race of two `put_result`s, opens none. `ReopenedOnlyByThese` is the same of the whole
  service, where there are more ways: see "What the runs taught".
* `NoDoublePull`, `AutoRetired`, `GradedOnce`, `KeepsPromise`: what holds as long as
  requests do not overlap; the first two are violated as soon as two do. `GradedOnce`
  is about late graders: the LMS gets a second grade of a submission only after a
  request or a reply was lost.
* `EventuallyRetired`, `QueuesAreEmptied`, `CommandsEnd`, `AlwaysReturns`: progress.
* `LatestSurvives`, `BoundedByOverlap`, `OnlyOwnPriorRetired`: overlapping submits.
* `RetiredForAReason`, `NoneLeftOut`, `ReopenedOnlyByFailedNotice`,
  `RetiredIsNotified`: overlapping commands. `RetiredForAReason` says that the reason
  has not gone stale at the save, `NoneLeftOut` that a command has dealt with
  everything it was called for when it ends, although it queries only once. At exactly
  the maximum, and exactly at the date, the commands and their help texts differ (see
  below): the first property asks whether the command's own query would still find the
  row, the second counts only rows strictly beyond, so neither decides who is right.
* `CompleteWhenDone`, `SameCountsToBoth`, `RaisesOnlyWhenExhausted`, `KeepsReport`: a
  command that may end at any request, against queues that change.
  `RaisesOnlyWhenExhausted` is about one request: the errors of the requests before it
  do not use up its tries. (`LongestFirst`, the
  short queues are the ones left out, follows from `KeepsReport` and is proved.)
* `TimeoutIsReal`, `OneMoreAfterStop`, `FailureOnlyOfFault`, `TestEnds`: the test
  framework's threads against the teardown.

### Bounds

Every bound is a constant and a guard: `MaxTime`, `MaxFaults`, `MaxGraders`,
`MaxResends` (a grader's), `MaxKills`, `MaxOutages`, `MaxEvents`, `MaxQueued`,
`MaxErrors`, `Oversleep`, and the sizes of the sets.
The delay is 1, so that one step of the clock makes a pull available again; the
maximum number of failures is 1, so that two failures cross it (0 in `retire`, where
nothing counts failures). One submission is
enough for races on a row, two for the order of the queue and for what one row's
request does to another row. The clock steps only while some pull is within the
delay, since no query tells later times apart. Four keys let a ticket, a row and
two requests in flight differ.

`xqueue` has five processes, the monitor included, so what disturbs the plain flow is bounded together:
one event is enough for each of the ways of opening a row, for a worker that
ends while others hold its row, and for a command that works on rows others save.
Jobs that retire by age or delete, more commands and more events were checked on
larger instances while the invariant was developed, and are covered by the proofs,
which have no bounds. `integration` makes two attempts where the code makes five:
what counts is that there is more than one. `counts` has three tries where the code has
five: enough for a request that uses up some of its tries before the next one begins.

### Fairness and why the code justifies it

* `PullInterface`: weak fairness of each web worker's `get_submission` steps, of
  its `put_result` steps and of the clock. Graders poll for ever and post what they
  graded (the environment's part); every call in a view has a timeout, so a
  handler's next step is not put off for ever. Faults are never owed.
* `LmsDelivery`: weak fairness of each call; `requests.post` has `REQUESTS_TIMEOUT`.
* `PushConsumer`: weak fairness of each worker (it polls every `CONSUMER_DELAY`, its
  calls have timeouts) and of the monitor (`MONITOR_SLEEPTIME`).
* `RetireCommands`: weak fairness of the steps of a command that was started,
  none of `Start`.
* `IntegrationFramework`: weak fairness of the test case, of the carrier and of the
  listener's threads: they are threads and processes, and every call they make has a
  timeout.
* `EventuallyRetired` has a condition: a grader that answers does so within the
  delay (`GraderIsLate`). See below.
* `XQueue` and `QueueCounts` are checked for safety only.

### What the runs taught

* `get_submission` saves every column of a copy it read without a lock. Beside a
  `put_result` it takes back `num_failures`, `lms_ack` and `retired`
  (`pull_lost_update`), and two of them hand one submission to two graders
  (`pull_double`).
* The filter on `push_time` has no effect: `push_time` is saved only together with
  `retired`. `GradedAgainOnlyAfterCrash` is therefore about one worker for each queue.
* Submissions of different modules retire each other if their URLs agree in 128
  characters (`submit_long_urls`).
* Progress of the pull interface needs more than fair scheduling. With two graders
  that both take longer than the delay, each new pull changes the key under the
  other and all results are refused; with two web workers, a stale
  `get_submission` can reset the failure count in every round. So
  `EventuallyRetired` is checked for one worker and for graders that answer in time.
* `put_result` does not look at `retired`. A result that is sent again with the
  right key, and that the LMS then does not take, sets `lms_ack` and `retired` back
  to false even when requests do not overlap. `KeepsPromise` is therefore checked
  without resent results; `pull_overlap` has them.
* A worker that a signal ended is never replaced, and its queue stands still:
  `QueuesAreEmptied` excepts such queues.
* `retire_failed_submissions` beside another command opens a row that the other
  one retired, if the LMS does not take its notice
  (`ReopenedOnlyByFailedNotice` says that nothing else does).
* A row that is deleted while a process holds it comes back with its `save()`.
* In the whole service an ended submission is opened again in three ways: a
  `get_submission` writes its copy back, the LMS does not take the notice of
  `retire_failed_submissions`, or it does not take a result. The last needs no result
  that is sent again: a submit, a push worker or a command that ends a submission leaves
  its key as it is, so the first result of the grader that has it is accepted, and opens
  the submission if its delivery fails. Only where the graders alone ended it does that
  take a second sending. A push worker never opens one, since it retires whatever it
  saves.
* `retire_failed_submissions` retires at `MAX_NUMBER_OF_FAILURES` failures
  (`retire_failed_submissions.py:50`, `>=`), its help text says at "more than" that
  (line 15), and `put_result` keeps such a submission available. `retire_old_submissions`
  retires what arrived at the date itself (`retire_old_submissions.py:38`,
  `arrival_time__lte`), its help text says `arrival_time <` the date (line 27). No
  property of a passing run rests on either reading.
* The count in a row may include gradings that failed in a push worker, so
  `num_failures` is not bounded by the failed `put_result`s in the whole service.
* A push worker posts to the LMS before it saves the row, so a crash in between makes
  the LMS hear twice of one submission.
* `integration_framework.py`: `LoggingRequestHandler` calls `send_header` and
  `end_headers` before `send_response`, so its reply has no status line, though its
  comment says that it responds with success. The xqueue takes the reply for a lost
  connection: every result is posted as often as there are attempts, and `lms_ack`
  stays false. The reply is sent before the record is stored.
* `block_until` looks at the clock before it looks for responses, so an answer that
  comes in the last sleep is not seen. `stop` does not join the poll thread, which may
  take one more submission afterwards (`OneMoreAfterStop` says that it takes no more
  than one).
* All requests of one `XQueueTestClient` carry one callback URL, so each retires the
  earlier ones that nobody has taken yet.

## What is proved

All proofs are for every value of the constants, under the assumptions the
modules name: the delay and the maximum are natural numbers, `Null` is not,
`NoKey` is no key, `NoOwner` is no web worker, `NoJob` is no job, `ATOMIC_REQUESTS` is
Boolean, a group has at least one queue and a request at least one try, the queues are
finitely many, a test case waits for one response or more (every `poll_func` of the tests does),
and bounds are natural numbers. A theorem that needs more of them (`OneWebWorker`, `SentOnce`,
`OneWorkerPerQueue`, `FinitelyManyWorkers`, `ShortUrls`) assumes it by name. Every
safety property that a passing run checks is stated by a theorem.

**The pull interface** (`PullProofs`). `PullInvariant`: `Spec => []PullInv`, with as
many web workers, submissions, faults and resent results as one likes, and with
either value of `ATOMIC_REQUESTS`. The properties are not inductive by
themselves: what the table says next depends on copies in the memory of requests,
so `PullInv` adds

* `CopiesJustified`: a copy claims only what happened, where the failure that
  `put_result` is about to save counts as happened (`OwnFailure`);
* `LocksHeld`: whoever is past `select_for_update` (or past the UPDATE of a
  transaction) holds the lock of its row;
* `CopiesCurrent`: under that lock, the copy's count is the table's, plus the own
  failure;
* `PullsAreKeyed` and the types.

There is a lemma for each action (`ReadStep`, `SaveStep`, `CommitStep`, `ReplyStep`,
`LockStep`, `PostStep`, `PutSaveStep`, `AbortStep`, `QuietStep`) and lemmas about
`save()` and the outcome of `put_result` (`SavedRow`, `GradedRow`). The argument:
a step that writes the table writes a copy, which is justified; the one step that
raises a count does so from a current copy under the lock; nothing lowers
`failedReplies` or `acked`. From the invariant follow the theorems `PullTypes`,
`AcksAreReal` and, with `WritersOfRows`, the action properties `LockedRowsStay` and
`FailedRepliesCounted`. `ReopenedByTwo` needs to know where keys are: as long as no result
is sent again, a key is with one request, one ticket or one row that it fits, so that a
row whose key is still out was not finished by it (`ReopenInv`).

**Requests that do not overlap** (parts 2 and 3 of `PullProofs`). Under
`OneWebWorker`, `SerialInv` adds to `PullInv` that counts are exact (`CountsExact`), that
the row in the table is the one a `get_submission` or a `put_result` has read
(`PullsCurrent`, `ResultsCurrent`) and that a ticket is never newer than the last pull of
its row (`TicketsPast`). From it follow `NoDoublePulls` and `AutoRetires`. For the
refinement, results are sent once (`SentOnce`): then each ticket of a row that
matches its key belongs to a row that is not finished (`TicketsDiffer`, `PullsOpen`,
`ResultsOpen`), and every step of the interface is a `Lease`, a `Deliver`, a `Fail`, a
`Tick` or a stutter of `LeaseQueue` (`ServesAsPromised`). Both conditions are needed:
`pull_double` and `pull_lost_update` break the first, a resent result the second.
The refinement is then used: what holds of `LeaseQueue` holds of the table, so an end is
for good (`EndsForGood`) and no submission fails more than `MAX_NUMBER_OF_FAILURES` + 1
times (`FailuresBounded`). With it, `AckedIsFinished` is inductive: without a fault, a
submission the LMS took is finished, or `put_result` is about to save that it is. Since a
result is for an open submission (`ResultsOpen`), `GradesOnce` follows.

**The delivery** (`DeliveryProofs`). `DeliveryInvariant`; `DeliveryTypes`; `GivesUpLast`
(a call fails only after `MAX_ATTEMPTS`); `LoopKeepsContract`: the loop implements
`DeliveryContract` under the mapping that forgets the count of copies, which
justifies modelling the call as one step elsewhere.

**The push consumer** (`PushProofs`). `ReportInv`: what a worker has in hand is retired
only when it was reported (`DeliveriesReported`), hence `NoneDropped`. With
`OneWorkerPerQueue`, `GradingInv`: the row in hand is still unretired in the table
(`DeliveriesOwn`), and a submission whose last grading came to nothing has an exception
or a signal to show for it (`GradingsCounted`), hence `GradedAgain`.

**submit** (`SubmitProofs`). Each unretired row of a pair and each submit between its
invalidation and its insert takes the place of a web worker of its own
(`PlacesKept`, for any finite number of workers), hence `OverlapBounds`;
`LatestAlwaysSurvives` is inductive with the types. `OwnPriorsOnly` needs that the column
tells the URLs apart (`ShortUrls`); `submit_long_urls` shows what happens if not.

**The commands** (`RetireProofs`). Rows in the table, in the result of a query and in
hand agree on queue and failures however old they are (`CopiesAgree`), and what is in
hand was chosen for a reason and is retired only with notice (`HandsJustified`).
Hence `NoneRetiredInSilence`, `RetiredWithReason` and `ReopenedByFailedNotice`.
`LeavesNoneOut` needs that what a command was called for is always behind it or before
it (`NothingOverlooked`): a row that its one query missed can only have come back by the
save of a command that had accounted for it (`HandsAccounted`).

**The whole service** (`XQueueProofs`). The properties of the parts do not survive the
composition as they stand: other components write over their rows. One invariant,
`XInv`, says of every row, in the table or in the memory of any process that will
write it back, that it is `Honest`: its acknowledgement, its end and its failures
happened, where the failure that `put_result` or a push worker has in hand counts as
happened. What rows are judged by only grows (`Grows`), so a copy stays honest
however old it gets (`HonestStays`), and a step that writes the table writes a copy
that was honest before. With the locks of `put_result` (`PutResultsLock`) all five
properties of the run `xqueue` follow, for any number of processes of each kind and
every job: `AcksAreReal`, `NoneEndsInSilence`, `NoticesDeserved`, `LocksHold` and
`ReopenedByThese`. The last needs `ReopenInv` besides: unless a result is sent again, a
row that a key in a grader's or a request's hands fits is open or was ended by a submit,
a push worker or a command (`FittingKeysOpen`), whichever stale copy was saved over it.

**The queue counts** (`CountsProofs`). `CountsInv`: `rest` is an end of the list that
was counted and `group` an end of its group (`EndsKept`), so that what the command has
done is always a beginning of the list, for CloudWatch's metrics (`ShownInOrder`, where
a request under way may have been done already) and for the alarms (`AlarmsInOrder`).
`Before` and `Reach` say where the rest and the group end. With the order of the list
(`ListKept`) `CompleteIfDone`, `LongestComeFirst` and `BothToldTheSame` follow, for any
queues and any size of a group. `RaisedWhenExhausted` has an invariant of its own
(`RefusalsKept`): `tries` is what the request under way has met, and the requests that
are still ahead, which are those of the rows after `Before` and of the alarms after the
ones that are set, have met nothing; that rows have different names keeps them apart.
`ReportsAsPromised`: every step is a `Take`, a `Show` or a stutter of `QueueReport`; a
request that met an error and was done all the same is a `Show`, its repetition a
stutter. The command ends: `Left` is what it has still to do, phase, rows, requests and
tries, and each of its steps lowers it in the lexicographic order (`EveryStepDescends`),
which is well founded (`LessIsWellFounded`). This needs that alarms are never
those of an empty rest and that a request under way has a try left (`TriesLast`).

**The integration framework** (`IntegrationProofs`). `FrameworkInv`: `block_until` adds up
the whole time (`TimeAddsUp`), what it looked at was too little until its last look
(`LooksFailed`), the poll thread that reaches for a submission has seen its flag set
before the stop (`LateOnlyOnce`), and a failure on its way from a grader to the
listener's list comes of a fault (`FailuresOfFaults`), for which the reply of
`GradingRequestHandler` must be readable (`GradingReplyIsReadable`, from the order of
its calls). Hence `TimeoutsAreReal`, `StopsAfterOneMore` and `FailuresOnlyOfFaults`.
`LooksBounded` is the end of `block_until`: every failed look has slept `sleep_time` at
least (`LooksTakeTime`), so there are fewer than `timeout / sleep_time + 1` of them.

Only model-checked: everything about liveness (the prover has no rules for
fairness or ENABLED; `EveryStepDescends` and `LooksBounded` are the bounds on the steps
from which the count command and `block_until` end under fairness), that is `EventuallyRetired`, `AlwaysReturns`,
`QueuesAreEmptied`, `CommandsEnd` and `TestEnds`.

## What is not modelled

* Login, accounts, status, logging, settings, migrations: no state of the queue. The
  users' permissions are not a subject of these models. `xqueue_client.py` is a grader
  whose behaviours the tickets of `PullInterface` include.
* Of the views: parsing of requests (a request is well formed, or rejected without
  effect), file contents, the text of replies. A submission id that is no number
  raises in `_is_valid_reply` and has no effect.
* Of the database: isolation other than row locks and atomic statements. Reads
  see the last commit, Django's default level for MySQL.
* Two calls of `count_queued_submissions` at once: they share nothing but alarms, which
  either sets to the same threshold. What of CloudWatch's dimensions and texts a
  metric carries is left out.
* A second `run_consumer` for a queue: `GradedAgainOnlyAfterCrash` does not hold then,
  see above.
* Of the integration framework: the Django server of the test case, whose xqueue is
  modelled by what it hands out and how often it posts. What a grader's
  `response_for_submission` returns is a grade, a failure or something unreadable.
* The queue lengths that `submit` and `get_queuelen` answer (others change them
  meanwhile): the code promises nothing about them.

## Plan

In this order; all but the last are done.

1. `Submission`, `PullInterface`, `pull_overlap`: the races on a row.
2. `LeaseQueue`, `pull_serial`: the promise, who keeps it, and progress.
3. `DeliveryContract`, `LmsDelivery`, `delivery`.
4. `PushConsumer`, `push`.
5. `LmsInterface`, `submit`.
6. `PullProofs`, `DeliveryProofs`.
7. `RetireCommands`, `retire`.
8. `XQueue`, `xqueue`: which properties of the parts survive each other's writes.
9. `QueueCounts`, `counts`; `IntegrationFramework`, `integration`.
10. `XQueueProofs`, parts 2 and 3 of `PullProofs`, `PushProofs`, `SubmitProofs`,
    `RetireProofs`.
11. `QueueReport`, `CountsProofs`, `IntegrationProofs`.
12. Liveness of the whole service under the fairness of its parts.

## Running

`tlc -config <run>.cfg <module>` with the module `PROJECT.json` names for the run;
`tlapm <module>.tla` for each of the eight `*Proofs` modules.

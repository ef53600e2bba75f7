----------------------------- MODULE QueueCounts -----------------------------
(***************************************************************************)
(* count_queued_submissions, the command that sends the length of every    *)
(* queue to New Relic and to AWS CloudWatch                                *)
(* (management/commands/count_queued_submissions.py).                      *)
(*                                                                         *)
(*   idle -> counted -> told -> metrics -> alarms -> metrics ... -> done   *)
(*                                                                         *)
(* The lengths are read once; the queues are then sent in groups, the      *)
(* metrics of a group in one request and its alarms in one request each.   *)
(* A request that CloudWatch refuses with a ClientError is repeated; every *)
(* other exception ends the command.  Submissions come and go meanwhile.   *)
(***************************************************************************)
EXTENDS Naturals, FiniteSets, SequencesExt

CONSTANTS
  Queues,              \* queue_name of the submissions
  GroupSize,           \* the 10 of grouper(queue_counts, 10)
  max_tries,           \* CwBotoWrapper.max_tries
  default_threshold,
  thresholds,          \* CLOUDWATCH_QUEUE_COUNT_METRICS['thresholds']
  NoAlarm,             \* the threshold of a queue without an alarm
  MaxQueued,           \* bound: submissions of a queue
  MaxErrors            \* bound: errors of CloudWatch

ASSUME GroupAssumption == GroupSize \in Nat \ {0}
ASSUME TriesAssumption == max_tries \in Nat \ {0}
ASSUME ThresholdsAssumption == DOMAIN thresholds \subseteq Queues
ASSUME QueuesAssumption == IsFiniteSet(Queues)
ASSUME BoundsAssumption == MaxQueued \in Nat /\ MaxErrors \in Nat

VARIABLES
  queued,         \* unretired submissions of each queue, in the table
  point,          \* where the command is
  queue_counts,   \* the rows of its query: a sequence of [queue_name, queue_count]
  rest,           \* rows whose metrics it has not put yet
  group,          \* rows of the current group whose alarm it has not put yet
  tries,          \* failed tries of the current request
  sent,           \* the rows New Relic and CloudWatch took
  alarm,          \* the threshold of the alarm of each queue
  errors,         \* errors of CloudWatch so far
  refusals        \* history: the ClientErrors each request has met

vars == <<queued, point, queue_counts, rest, group, tries, sent, alarm, errors, refusals>>

Goes(to) == point' = to

Requests == {"metrics", "alarm"} \X Queues

-----------------------------------------------------------------------------
(* A mutant of Longest: order_by without the minus sign. *)
Shortest(rows, i, j) == rows[i].queue_count <= rows[j].queue_count

(* order_by('-queue_count') *)
Longest(rows, i, j) == rows[i].queue_count >= rows[j].queue_count

(* The query: the queues that have unretired submissions, longest first;    *)
(* queues of the same length come in any order.                             *)
Counted ==
  {rows \in SetToSeqs({[queue_name |-> q, queue_count |-> queued[q]] :
                        q \in {r \in Queues : queued[r] > 0}}) :
     \A i, j \in DOMAIN rows : i < j => Longest(rows, i, j)}

(* The command is called, and prints what it counted. *)
Count ==
  /\ point = "idle"
  /\ Goes("counted")
  /\ queue_counts' \in Counted
  /\ UNCHANGED <<queued, rest, group, tries, sent, alarm, errors, refusals>>

(* A mutant of Iterated: the query is evaluated once more. *)
QueriedAgain == Counted

(* A queryset that was iterated over keeps its rows for the next iteration. *)
Iterated == {queue_counts}

Takes(service, rows) == sent' = sent \cup {<<service, row>> : row \in ToSet(rows)}

(* send_nr_metrics, if --newrelic is given.  It ends the command when New    *)
(* Relic is not installed or cannot be registered with.                      *)
SendNewRelic ==
  /\ point = "counted"
  /\ \/ Goes("told") /\ \E rows \in Iterated : Takes("newrelic", rows)
     \/ Goes("told") /\ UNCHANGED sent
     \/ Goes("broken") /\ UNCHANGED sent
  /\ UNCHANGED <<queued, queue_counts, rest, group, tries, alarm, errors, refusals>>

(* The beginning of send_cloudwatch_metrics, if --cloudwatch is given. *)
SendCloudWatch ==
  /\ point = "told"
  /\ \/ Goes("metrics") /\ rest' \in Iterated
     \/ Goes("ended") /\ UNCHANGED rest
  /\ UNCHANGED <<queued, queue_counts, group, tries, sent, alarm, errors, refusals>>

(* A mutant of Group: zip instead of zip_longest, which drops a last group  *)
(* that is not full.                                                        *)
FullGroup(rows) == IF Len(rows) < GroupSize THEN <<>> ELSE SubSeq(rows, 1, GroupSize)

(* The next group of grouper, without the fill values. *)
Group(rows) == IF Len(rows) < GroupSize THEN rows ELSE SubSeq(rows, 1, GroupSize)

Threshold(q) == IF q \in DOMAIN thresholds THEN thresholds[q] ELSE default_threshold

(* The request under way, for the metrics of a group or the alarm of its     *)
(* next queue, and what CloudWatch does if it takes it.                      *)
AtMetrics == point = "metrics" /\ rest # <<>>
AtAlarm == point = "alarms" /\ group # <<>>

MetricDataTaken == Takes("cloudwatch", Group(rest)) /\ UNCHANGED alarm

AlarmTaken ==
  LET q == Head(group).queue_name IN
    alarm' = [alarm EXCEPT ![q] = Threshold(q)] /\ UNCHANGED sent

(* A mutant of FreshTries: all requests share one count of tries. *)
TriesGoOn == UNCHANGED tries

(* The next request is a call of its own, which counts its own tries. *)
FreshTries == tries' = 0

PutMetricData ==
  /\ AtMetrics /\ MetricDataTaken
  /\ Goes("alarms")
  /\ group' = Group(rest)
  /\ FreshTries
  /\ UNCHANGED <<queued, queue_counts, rest, errors, refusals>>

PutMetricAlarm ==
  /\ AtAlarm /\ AlarmTaken
  /\ group' = Tail(group)
  /\ FreshTries
  /\ UNCHANGED <<queued, point, queue_counts, rest, errors, refusals>>

(* The loop over the groups. *)
NextGroup ==
  /\ point = "alarms" /\ group = <<>>
  /\ Goes("metrics")
  /\ rest' = SubSeq(rest, GroupSize + 1, Len(rest))
  /\ UNCHANGED <<queued, queue_counts, group, tries, sent, alarm, errors, refusals>>

Finish ==
  /\ point = "metrics" /\ rest = <<>>
  /\ Goes("done")
  /\ UNCHANGED <<queued, queue_counts, rest, group, tries, sent, alarm, errors, refusals>>

-----------------------------------------------------------------------------
(* CloudWatch answers the request with an error, and may have done it. *)
Errs ==
  /\ AtMetrics \/ AtAlarm
  /\ \/ AtMetrics /\ MetricDataTaken
     \/ AtAlarm /\ AlarmTaken
     \/ UNCHANGED <<sent, alarm>>
  /\ errors < MaxErrors /\ errors' = errors + 1
  /\ UNCHANGED <<queued, queue_counts, rest, group>>

(* The request: the metrics of a group that begins with a queue, or the     *)
(* alarm of a queue.                                                        *)
Request ==
  IF AtMetrics THEN <<"metrics", Head(rest).queue_name>> ELSE <<"alarm", Head(group).queue_name>>

(* backoff.on_exception(..., max_tries) *)
TriesLeft == tries + 1 < max_tries

(* A ClientError: the request is repeated, or the error is raised. *)
ClientError ==
  /\ Errs
  /\ tries' = tries + 1
  /\ refusals' = [refusals EXCEPT ![Request] = @ + 1]
  /\ IF TriesLeft THEN UNCHANGED point ELSE Goes("raised")

(* Any other exception (botocore has many that are no ClientError). *)
OtherError == Errs /\ Goes("broken") /\ UNCHANGED <<tries, refusals>>

(* submit, the graders and the other commands work on the table. *)
QueueChanges ==
  /\ \E q \in Queues, n \in 0..MaxQueued : n # queued[q] /\ queued' = [queued EXCEPT ![q] = n]
  /\ UNCHANGED <<point, queue_counts, rest, group, tries, sent, alarm, errors, refusals>>

-----------------------------------------------------------------------------
(* An earlier call has set alarms, for the queues it counted. *)
Init ==
  /\ queued \in [Queues -> 0..MaxQueued]
  /\ alarm \in [Queues -> {NoAlarm, default_threshold}]
  /\ point = "idle"
  /\ queue_counts = <<>> /\ rest = <<>> /\ group = <<>>
  /\ tries = 0
  /\ sent = {}
  /\ errors = 0
  /\ refusals = [request \in Requests |-> 0]

Step ==
  \/ Count \/ SendNewRelic \/ SendCloudWatch
  \/ PutMetricData \/ PutMetricAlarm \/ NextGroup \/ Finish

Next == Step \/ ClientError \/ OtherError \/ QueueChanges

Spec == Init /\ [][Next]_vars

-----------------------------------------------------------------------------
Counts == ToSet(queue_counts)

Shown == {row \in Counts : <<"cloudwatch", row>> \in sent}

(* A command that ends without an exception has sent every queue it counted *)
(* and has left it with an alarm at the threshold of the settings, though   *)
(* requests failed and the queues changed in between.                       *)
CompleteWhenDone ==
  point = "done" =>
    \A row \in Counts : row \in Shown /\ alarm[row.queue_name] = Threshold(row.queue_name)

(* A command that is cut short has spared the short queues: each queue it   *)
(* sent to CloudWatch is at least as long as each one it did not send.      *)
LongestFirst ==
  \A row \in Counts \ Shown, shown \in Shown : row.queue_count <= shown.queue_count

(* New Relic and CloudWatch are told the same of a queue, whatever happened *)
(* to the queue between the two.                                            *)
SameCountsToBoth ==
  \A m, n \in sent :
    m[2].queue_name = n[2].queue_name => m[2].queue_count = n[2].queue_count

(* The errors that are retried end the command when one request has met     *)
(* max_tries of them, and only then: those of the requests before it, of    *)
(* its own group or of others, do not count.                                *)
RaisesOnlyWhenExhausted ==
  point = "raised" <=> \E request \in Requests : refusals[request] >= max_tries

(* What CloudWatch shows is a report: a growing beginning of one list of the *)
(* queues, longest first, which is all of it when the command ends well.     *)
Verdict ==
  CASE point = "done" -> "complete"
    [] point \in {"ended", "raised", "broken"} -> "cut short"
    [] OTHER -> "under way"

Report == INSTANCE QueueReport WITH list <- queue_counts, shown <- Shown, verdict <- Verdict

KeepsReport == Report!Spec
=============================================================================

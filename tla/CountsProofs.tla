---------------------------- MODULE CountsProofs ----------------------------
(***************************************************************************)
(* Proofs about QueueCounts, for any finite set of queues, any group size, *)
(* any number of tries and of errors.                                      *)
(*                                                                         *)
(* The command holds three sequences: the rows it counted, the rest it has *)
(* not sent and the group whose alarms it puts.  CountsInv says that the   *)
(* last two are ends of the first (of a group of it), so that what is done *)
(* is always a beginning of the list: the rows shown, and the rows whose   *)
(* alarm is set.  A request that failed may have been done all the same;   *)
(* it can only have reached the end of the current group.  RefusalsKept    *)
(* says that only the request under way and those before it have met       *)
(* ClientErrors, and that tries counts those of the request under way.     *)
(***************************************************************************)
EXTENDS QueueCounts, FiniteSetTheorems, SequenceTheorems, WellFoundedInduction, TLAPS

-----------------------------------------------------------------------------
(* The inductive invariant *)

Row == Report!Row

Points == {"idle", "counted", "told", "metrics", "alarms", "done", "ended", "raised", "broken"}

Levels == {NoAlarm, default_threshold} \cup {thresholds[q] : q \in DOMAIN thresholds}

CountsTypeOK ==
  /\ queued \in [Queues -> Nat]
  /\ point \in Points
  /\ queue_counts \in Seq(Row) /\ rest \in Seq(Row) /\ group \in Seq(Row)
  /\ tries \in Nat /\ errors \in Nat
  /\ sent \subseteq {"newrelic", "cloudwatch"} \X Row
  /\ alarm \in [Queues -> Levels]

(* The list is ordered, and it is all that anyone was told of. *)
ListKept ==
  /\ Report!LongestFirst(queue_counts) /\ Report!NamesDiffer(queue_counts)
  /\ \A m \in sent : m[2] \in Counts
  /\ point = "idle" => queue_counts = <<>> /\ sent = {}

(* Rows before the rest, and rows up to the end of the current group. *)
Before == Len(queue_counts) - Len(rest)

Reach == Before + Len(Group(rest))

(* The rest is the end of the list, and the group the end of its group. *)
EndsKept ==
  /\ point \in {"metrics", "alarms", "done"} =>
       /\ Len(rest) <= Len(queue_counts)
       /\ \A i \in 1..Len(rest) : rest[i] = queue_counts[Before + i]
  /\ point = "alarms" =>
       /\ Len(group) <= Len(Group(rest))
       /\ \A i \in 1..Len(group) : group[i] = queue_counts[Reach - Len(group) + i]
  /\ point = "done" => rest = <<>>

(* CloudWatch shows the first n rows, or has the alarms of the first n.  *)
ShownFirst(n) ==
  /\ n \in 0..Len(queue_counts)
  /\ \A row : <<"cloudwatch", row>> \in sent <=> row \in Report!First(n)

AlarmsFirst(n) ==
  \A i \in 1..n : LET q == queue_counts[i].queue_name IN alarm[q] = Threshold(q)

ShownInOrder ==
  /\ \E n \in Nat : ShownFirst(n)
  /\ point \in {"idle", "counted", "told"} => ShownFirst(0)
  /\ point = "metrics" => ShownFirst(Before) \/ ShownFirst(Reach)
  /\ point = "alarms" => ShownFirst(Reach)
  /\ point = "done" => ShownFirst(Before)

AlarmsInOrder ==
  /\ point \in {"metrics", "done"} => AlarmsFirst(Before)
  /\ point = "alarms" => AlarmsFirst(Reach - Len(group))

CountsInv ==
  /\ CountsTypeOK
  /\ ListKept
  /\ EndsKept
  /\ ShownInOrder
  /\ AlarmsInOrder

-----------------------------------------------------------------------------
(* Lemmas about the operators of the model *)

(* The rows of the query: one for each queue that has submissions. *)
Queued == {[queue_name |-> q, queue_count |-> queued[q]] : q \in {r \in Queues : queued[r] > 0}}

LEMMA QueuedFinite == IsFiniteSet(Queued)
<1> DEFINE Name == [row \in Queued |-> row.queue_name]
<1>1. Name \in Injection(Queued, Queues)
  BY DEF Queued, Injection, IsInjective
<1> QED
  BY <1>1, QueuesAssumption, FS_Injection

(* grouper gives the next GroupSize rows, or what is left of them. *)
LEMMA GroupBegins ==
  ASSUME NEW rows \in Seq(Row)
  PROVE  /\ Group(rows) \in Seq(Row)
         /\ Len(Group(rows)) = IF Len(rows) < GroupSize THEN Len(rows) ELSE GroupSize
         /\ \A i \in 1..Len(Group(rows)) : Group(rows)[i] = rows[i]
<1>1. CASE Len(rows) < GroupSize
  BY <1>1 DEF Group
<1>2. CASE ~(Len(rows) < GroupSize)
  <2>1. GroupSize \in 1..Len(rows)
    BY <1>2, GroupAssumption
  <2>2. \A i \in 1..GroupSize : rows[i] \in Row
    BY <2>1
  <2>3. Group(rows) = SubSeq(rows, 1, GroupSize)
    BY <1>2 DEF Group
  <2> QED
    BY <1>2, <2>1, <2>2, <2>3, SubSeqProperties, GroupAssumption
<1> QED
  BY <1>1, <1>2

(* What NextGroup leaves are the rows after the group. *)
LEMMA RestEnds ==
  ASSUME NEW rows \in Seq(Row)
  PROVE  LET left == SubSeq(rows, GroupSize + 1, Len(rows)) IN
         /\ left \in Seq(Row)
         /\ Len(left) = Len(rows) - Len(Group(rows))
         /\ \A i \in 1..Len(left) : left[i] = rows[Len(Group(rows)) + i]
<1> DEFINE left == SubSeq(rows, GroupSize + 1, Len(rows))
<1>1. \A i \in (GroupSize + 1)..Len(rows) : rows[i] \in Row
  BY GroupAssumption
<1>2. /\ left \in Seq(Row)
      /\ Len(left) = IF GroupSize + 1 <= Len(rows) THEN Len(rows) - GroupSize ELSE 0
      /\ \A i \in 1..(Len(rows) - GroupSize) : left[i] = rows[GroupSize + i]
  BY <1>1, SubSeqProperties, GroupAssumption
<1>3. Len(Group(rows)) = IF Len(rows) < GroupSize THEN Len(rows) ELSE GroupSize
  BY GroupBegins
<1>4. Len(rows) \in Nat
  OBVIOUS
<1> HIDE DEF left
<1>5. Len(left) = Len(rows) - Len(Group(rows))
  <2>1. CASE Len(rows) < GroupSize
    <3>1. ~(GroupSize + 1 <= Len(rows))
      BY <2>1, <1>4, GroupAssumption
    <3>2. Len(left) = 0 /\ Len(Group(rows)) = Len(rows)
      BY <2>1, <3>1, <1>2, <1>3
    <3> QED
      BY <3>2, <1>4
  <2>2. CASE ~(Len(rows) < GroupSize)
    <3>1. Len(left) = Len(rows) - GroupSize
      BY <2>2, <1>2, <1>4, GroupAssumption
    <3>2. Len(Group(rows)) = GroupSize
      BY <2>2, <1>3
    <3> QED
      BY <3>1, <3>2
  <2> QED
    BY <2>1, <2>2
<1>6. ASSUME NEW i \in 1..Len(left)
      PROVE  left[i] = rows[Len(Group(rows)) + i]
  <2>1. ~(Len(rows) < GroupSize)
    BY <1>2, <1>4, <1>6, GroupAssumption
  <2>2. Len(Group(rows)) = GroupSize /\ i \in 1..(Len(rows) - GroupSize)
    BY <2>1, <1>3, <1>4, <1>5, <1>6, GroupAssumption
  <2> QED
    BY <2>2, <1>2
<1> QED
  BY <1>2, <1>5, <1>6 DEF left

(* order_by and the query: rows of different queues, longest first. *)
LEMMA CountedRows ==
  ASSUME queued \in [Queues -> Nat], NEW rows \in Counted
  PROVE  /\ rows \in Seq(Row)
         /\ Report!LongestFirst(rows) /\ Report!NamesDiffer(rows)
<1>1. /\ rows \in [1..Cardinality(Queued) -> Queued]
      /\ \A i, j \in 1..Cardinality(Queued) : i # j => rows[i] # rows[j]
      /\ \A i, j \in DOMAIN rows : i < j => Longest(rows, i, j)
  BY DEF Counted, SetToSeqs, Queued
<1>2. Cardinality(Queued) \in Nat
  BY QueuedFinite, FS_CardinalityType
<1>3. Queued \subseteq Row
  BY DEF Queued, Row, Report!Row
<1>4. rows \in Seq(Row)
  BY <1>1, <1>2, <1>3, SeqDef
<1>5. Report!LongestFirst(rows)
  BY <1>1 DEF Report!LongestFirst, Longest
<1>6. ASSUME NEW r \in Queued, NEW s \in Queued, r.queue_name = s.queue_name
      PROVE  r = s
  BY <1>6 DEF Queued
<1>7. Report!NamesDiffer(rows)
  BY <1>1, <1>6 DEF Report!NamesDiffer
<1> QED
  BY <1>4, <1>5, <1>7

-----------------------------------------------------------------------------
(* What the invariant says of a request that is under way *)

LEMMA Rows ==
  ASSUME NEW rows \in Seq(Row)
  PROVE  /\ Len(rows) \in Nat /\ DOMAIN rows = 1..Len(rows)
         /\ \A i \in 1..Len(rows) : rows[i] \in Row
         /\ ToSet(rows) = {rows[i] : i \in 1..Len(rows)}
         /\ ToSet(rows) \subseteq Row
  BY DEF ToSet

(* The group is the part of the list from Before to Reach. *)
LEMMA GroupInList ==
  ASSUME CountsInv, point \in {"metrics", "alarms"}
  PROVE  /\ Before \in 0..Len(queue_counts)
         /\ Reach \in Before..Len(queue_counts)
         /\ Len(Group(rest)) = Reach - Before
         /\ Group(rest) \in Seq(Row)
         /\ \A i \in 1..Len(Group(rest)) : Group(rest)[i] = queue_counts[Before + i]
<1>1. queue_counts \in Seq(Row) /\ rest \in Seq(Row)
  BY DEF CountsInv, CountsTypeOK
<1>2. /\ Group(rest) \in Seq(Row)
      /\ Len(Group(rest)) = IF Len(rest) < GroupSize THEN Len(rest) ELSE GroupSize
      /\ \A i \in 1..Len(Group(rest)) : Group(rest)[i] = rest[i]
  BY <1>1, GroupBegins
<1>3. Len(queue_counts) \in Nat /\ Len(rest) \in Nat /\ Len(Group(rest)) \in Nat
  BY <1>1, <1>2
<1>4. Len(Group(rest)) <= Len(rest)
  BY <1>2, <1>3, GroupAssumption
<1>5. /\ Len(rest) <= Len(queue_counts)
      /\ \A i \in 1..Len(rest) : rest[i] = queue_counts[Before + i]
  BY DEF CountsInv, EndsKept
<1>6. /\ Before \in 0..Len(queue_counts)
      /\ Reach \in Before..Len(queue_counts)
      /\ Len(Group(rest)) = Reach - Before
  BY <1>3, <1>4, <1>5 DEF Before, Reach
<1>7. \A i \in 1..Len(Group(rest)) : i \in 1..Len(rest)
  BY <1>3, <1>4
<1> QED
  BY <1>2, <1>5, <1>6, <1>7

(* A request for the metrics of the group, once it is done, leaves the rows  *)
(* up to Reach shown, whether or not an earlier try was done as well.        *)
LEMMA MetricsReach ==
  ASSUME CountsInv, AtMetrics, MetricDataTaken
  PROVE  /\ sent' \subseteq {"newrelic", "cloudwatch"} \X Row
         /\ \A m \in sent' : m[2] \in Counts
         /\ \A row : <<"cloudwatch", row>> \in sent' <=> row \in Report!First(Reach)
<1> DEFINE G == ToSet(Group(rest))
<1>1. /\ Before \in 0..Len(queue_counts)
      /\ Reach \in Before..Len(queue_counts)
      /\ Len(Group(rest)) = Reach - Before
      /\ Group(rest) \in Seq(Row)
      /\ \A i \in 1..Len(Group(rest)) : Group(rest)[i] = queue_counts[Before + i]
  BY GroupInList DEF AtMetrics
<1>2. queue_counts \in Seq(Row)
  BY DEF CountsInv, CountsTypeOK
<1>3. Len(queue_counts) \in Nat /\ DOMAIN queue_counts = 1..Len(queue_counts)
  BY <1>2
<1>4. G = {queue_counts[i] : i \in (Before + 1)..Reach}
  <2>1. ASSUME NEW row \in G PROVE row \in {queue_counts[i] : i \in (Before + 1)..Reach}
    <3>1. PICK i \in 1..Len(Group(rest)) : row = Group(rest)[i]
      BY <2>1, <1>1, Rows
    <3>2. Before + i \in (Before + 1)..Reach
      BY <3>1, <1>1, <1>3
    <3> QED
      BY <3>1, <3>2, <1>1
  <2>2. ASSUME NEW i \in (Before + 1)..Reach PROVE queue_counts[i] \in G
    <3>1. i - Before \in 1..Len(Group(rest)) /\ Before + (i - Before) = i
      BY <1>1, <1>3
    <3>2. Group(rest)[i - Before] = queue_counts[i]
      BY <3>1, <1>1
    <3> QED
      BY <3>1, <3>2, <1>1, Rows
  <2> QED
    BY <2>1, <2>2
<1>5. Report!First(Reach) = Report!First(Before) \cup G
  <2>1. 1..Reach = (1..Before) \cup ((Before + 1)..Reach)
    BY <1>1, <1>3
  <2> QED
    BY <2>1, <1>4 DEF Report!First
<1> HIDE DEF G
<1>6. G \subseteq Counts
  BY <1>1, <1>3, <1>4 DEF Counts, ToSet
<1>7. Counts \subseteq Row
  BY <1>2, Rows DEF Counts
<1>8. sent' = sent \cup {<<"cloudwatch", row>> : row \in G}
  BY DEF MetricDataTaken, Takes, G
<1>9. ShownFirst(Before) \/ ShownFirst(Reach)
  BY DEF CountsInv, ShownInOrder, AtMetrics
<1>10. ASSUME NEW row
       PROVE  <<"cloudwatch", row>> \in sent' <=> row \in Report!First(Reach)
  BY <1>5, <1>8, <1>9 DEF ShownFirst
<1> QED
  BY <1>6, <1>7, <1>8, <1>10 DEF CountsInv, CountsTypeOK, ListKept

(* A request for an alarm spoils no alarm, and sets its own. *)
LEMMA AlarmSet ==
  ASSUME CountsInv, AtAlarm, AlarmTaken
  PROVE  /\ alarm' \in [Queues -> Levels]
         /\ \A n \in 0..Len(queue_counts) : AlarmsFirst(n) =>
              \A i \in 1..n : LET q == queue_counts[i].queue_name IN alarm'[q] = Threshold(q)
         /\ LET q == Head(group).queue_name IN alarm'[q] = Threshold(q)
         /\ sent' = sent
<1> DEFINE h == Head(group).queue_name
<1>1. alarm \in [Queues -> Levels] /\ group \in Seq(Row) /\ queue_counts \in Seq(Row)
  BY DEF CountsInv, CountsTypeOK
<1>2. h \in Queues
  <2>1. group # <<>>
    BY DEF AtAlarm
  <2>2. Head(group) \in Row
    BY <1>1, <2>1, HeadTailProperties
  <2> QED
    BY <2>2 DEF Row, Report!Row
<1>3. Threshold(h) \in Levels
  BY DEF Threshold, Levels
<1>4. alarm' = [alarm EXCEPT ![h] = Threshold(h)] /\ sent' = sent
  BY DEF AlarmTaken
<1> HIDE DEF h
<1>5. alarm' \in [Queues -> Levels] /\ alarm'[h] = Threshold(h)
  BY <1>1, <1>2, <1>3, <1>4
<1>6. \A q \in Queues : alarm[q] = Threshold(q) => alarm'[q] = Threshold(q)
  BY <1>1, <1>2, <1>4
<1>7. \A i \in 1..Len(queue_counts) : queue_counts[i].queue_name \in Queues
  BY <1>1, Rows DEF Row, Report!Row
<1>8. ASSUME NEW n \in 0..Len(queue_counts), AlarmsFirst(n), NEW i \in 1..n
      PROVE  LET q == queue_counts[i].queue_name IN alarm'[q] = Threshold(q)
  <2>1. i \in 1..Len(queue_counts)
    BY <1>1, <1>8
  <2> QED
    BY <2>1, <1>6, <1>7, <1>8 DEF AlarmsFirst
<1> QED
  BY <1>4, <1>5, <1>8 DEF h

-----------------------------------------------------------------------------
(* The invariant is inductive *)

LEMMA InitCountsInv == Init => CountsInv
<1> SUFFICES ASSUME Init PROVE CountsInv
  OBVIOUS
<1>1. CountsTypeOK
  <2>1. queued \in [Queues -> Nat]
    BY BoundsAssumption DEF Init
  <2>2. alarm \in [Queues -> Levels]
    BY DEF Init, Levels
  <2>3. <<>> \in Seq(Row)
    BY EmptySeq
  <2> QED
    BY <2>1, <2>2, <2>3 DEF Init, CountsTypeOK, Points
<1>2. ListKept
  BY DEF Init, ListKept, Report!LongestFirst, Report!NamesDiffer
<1>3. EndsKept
  BY DEF Init, EndsKept
<1>4. ShownFirst(0)
  BY DEF Init, ShownFirst, Report!First
<1>5. ShownInOrder
  BY <1>4 DEF Init, ShownInOrder
<1>6. AlarmsInOrder
  BY DEF Init, AlarmsInOrder
<1> QED
  BY <1>1, <1>2, <1>3, <1>5, <1>6 DEF CountsInv

LEMMA CountStep ==
  ASSUME CountsInv, Count
  PROVE  CountsInv'
<1> USE DEF Count, Goes
<1>1. queued \in [Queues -> Nat] /\ queue_counts' \in Counted
  BY DEF CountsInv, CountsTypeOK
<1>2. /\ queue_counts' \in Seq(Row)
      /\ Report!LongestFirst(queue_counts') /\ Report!NamesDiffer(queue_counts')
  BY <1>1, CountedRows
<1>3. CountsTypeOK'
  BY <1>2 DEF CountsInv, CountsTypeOK, Points
<1>4. sent' = {}
  BY DEF CountsInv, ListKept
<1>5. ListKept'
  BY <1>2, <1>4 DEF ListKept, Report!LongestFirst, Report!NamesDiffer
<1>6. EndsKept'
  BY DEF EndsKept
<1>7. ShownFirst(0)'
  BY <1>2, <1>4 DEF ShownFirst, Report!First
<1>8. ShownInOrder'
  BY <1>7 DEF ShownInOrder
<1>9. AlarmsInOrder'
  BY DEF CountsInv, AlarmsInOrder
<1> QED
  BY <1>3, <1>5, <1>6, <1>8, <1>9 DEF CountsInv

LEMMA SendNewRelicStep ==
  ASSUME CountsInv, SendNewRelic
  PROVE  CountsInv'
<1> USE DEF SendNewRelic, Goes
<1>1. \/ sent' = sent \cup {<<"newrelic", row>> : row \in Counts}
      \/ sent' = sent
  BY DEF Takes, Iterated, Counts
<1>2. Counts \subseteq Row
  BY Rows DEF Counts, CountsInv, CountsTypeOK
<1>3. CountsTypeOK'
  BY <1>1, <1>2 DEF CountsInv, CountsTypeOK, Points
<1>4. Counts' = Counts
  BY DEF Counts
<1>5. ListKept'
  BY <1>1, <1>4 DEF CountsInv, ListKept, Report!LongestFirst, Report!NamesDiffer
<1>6. EndsKept' /\ AlarmsInOrder'
  BY DEF EndsKept, AlarmsInOrder
<1>7. ShownFirst(0)'
  <2>1. ShownFirst(0)
    BY DEF CountsInv, ShownInOrder
  <2>2. \A row : <<"cloudwatch", row>> \in sent' <=> <<"cloudwatch", row>> \in sent
    BY <1>1
  <2> QED
    BY <2>1, <2>2 DEF ShownFirst, Report!First
<1>8. ShownInOrder'
  BY <1>7 DEF ShownInOrder
<1> QED
  BY <1>3, <1>5, <1>6, <1>8 DEF CountsInv

LEMMA SendCloudWatchStep ==
  ASSUME CountsInv, SendCloudWatch
  PROVE  CountsInv'
<1> USE DEF SendCloudWatch, Goes
<1>1. queue_counts \in Seq(Row)
  BY DEF CountsInv, CountsTypeOK
<1>2. Len(queue_counts) \in Nat
  BY <1>1
<1>3. \/ point' = "metrics" /\ rest' = queue_counts
      \/ point' = "ended" /\ rest' = rest
  BY DEF Iterated
<1>4. CountsTypeOK'
  BY <1>1, <1>3 DEF CountsInv, CountsTypeOK, Points
<1>5. ListKept'
  BY <1>3 DEF CountsInv, ListKept, Counts, Report!LongestFirst, Report!NamesDiffer
<1>6. point' = "metrics" => Before' = 0
  BY <1>2, <1>3 DEF Before
<1>7. EndsKept'
  BY <1>1, <1>2, <1>3, <1>6 DEF EndsKept
<1>8. ShownFirst(0)'
  BY DEF CountsInv, ShownInOrder, ShownFirst, Report!First
<1>9. ShownInOrder'
  BY <1>3, <1>6, <1>8 DEF ShownInOrder
<1>10. AlarmsInOrder'
  BY <1>3, <1>6 DEF AlarmsInOrder, AlarmsFirst
<1> QED
  BY <1>4, <1>5, <1>7, <1>9, <1>10 DEF CountsInv

LEMMA PutMetricDataStep ==
  ASSUME CountsInv, PutMetricData
  PROVE  CountsInv'
<1> USE DEF PutMetricData, FreshTries, Goes
<1>1. AtMetrics /\ MetricDataTaken
  OBVIOUS
<1>2. /\ sent' \subseteq {"newrelic", "cloudwatch"} \X Row
      /\ \A m \in sent' : m[2] \in Counts
      /\ \A row : <<"cloudwatch", row>> \in sent' <=> row \in Report!First(Reach)
  BY <1>1, MetricsReach
<1>3. /\ Before \in 0..Len(queue_counts)
      /\ Reach \in Before..Len(queue_counts)
      /\ Len(Group(rest)) = Reach - Before
      /\ Group(rest) \in Seq(Row)
      /\ \A i \in 1..Len(Group(rest)) : Group(rest)[i] = queue_counts[Before + i]
  BY <1>1, GroupInList DEF AtMetrics
<1>4. Len(queue_counts) \in Nat
  BY DEF CountsInv, CountsTypeOK
<1>5. alarm' = alarm
  BY <1>1 DEF MetricDataTaken
<1>6. CountsTypeOK'
  BY <1>2, <1>3, <1>5 DEF CountsInv, CountsTypeOK, Points
<1>7. ListKept'
  BY <1>2 DEF CountsInv, ListKept, Counts, Report!LongestFirst, Report!NamesDiffer
<1>8. Before' = Before /\ Reach' = Reach /\ Group(rest)' = Group(rest)
  BY DEF Before, Reach, Group
<1>9. Reach - Len(group') = Before
  BY <1>3, <1>4
<1>10. EndsKept'
  BY <1>3, <1>8, <1>9, <1>1 DEF CountsInv, EndsKept, AtMetrics
<1>11. ShownFirst(Reach)'
  BY <1>2, <1>3, <1>4, <1>8 DEF ShownFirst, Report!First
<1>12. ShownInOrder'
  <2>1. Reach' \in Nat
    BY <1>3, <1>4, <1>8
  <2> QED
    BY <2>1, <1>11 DEF ShownInOrder
<1>13. AlarmsInOrder'
  BY <1>1, <1>5, <1>8, <1>9 DEF CountsInv, AlarmsInOrder, AlarmsFirst, AtMetrics
<1> QED
  BY <1>6, <1>7, <1>10, <1>12, <1>13 DEF CountsInv

LEMMA PutMetricAlarmStep ==
  ASSUME CountsInv, PutMetricAlarm
  PROVE  CountsInv'
<1> USE DEF PutMetricAlarm, FreshTries
<1>1. AtAlarm /\ AlarmTaken /\ point = "alarms" /\ group # <<>>
  BY DEF AtAlarm
<1>2. /\ alarm' \in [Queues -> Levels]
      /\ \A n \in 0..Len(queue_counts) : AlarmsFirst(n) =>
           \A i \in 1..n : LET q == queue_counts[i].queue_name IN alarm'[q] = Threshold(q)
      /\ LET q == Head(group).queue_name IN alarm'[q] = Threshold(q)
      /\ sent' = sent
  BY <1>1, AlarmSet
<1>3. group \in Seq(Row) /\ Len(queue_counts) \in Nat
  BY DEF CountsInv, CountsTypeOK
<1>4. /\ Len(group) \in Nat \ {0} /\ Head(group) = group[1]
      /\ group' \in Seq(Row) /\ Len(group') = Len(group) - 1
      /\ \A i \in 1..Len(group') : group'[i] = group[i + 1]
  BY <1>1, <1>3, EmptySeq, HeadTailProperties
<1>5. /\ Before \in 0..Len(queue_counts)
      /\ Reach \in Before..Len(queue_counts)
      /\ Len(Group(rest)) = Reach - Before
  BY <1>1, GroupInList
<1>6. /\ Len(group) <= Len(Group(rest))
      /\ \A i \in 1..Len(group) : group[i] = queue_counts[Reach - Len(group) + i]
  BY <1>1 DEF CountsInv, EndsKept
<1>7. Before' = Before /\ Reach' = Reach /\ Group(rest)' = Group(rest)
  BY DEF Before, Reach, Group
<1>8. CountsTypeOK'
  BY <1>2, <1>4 DEF CountsInv, CountsTypeOK, Points
<1>9. ListKept'
  BY <1>2 DEF CountsInv, ListKept, Counts, Report!LongestFirst, Report!NamesDiffer
<1> DEFINE n == Reach - Len(group)
<1>10. /\ n \in 0..Len(queue_counts) /\ n + 1 \in 1..Len(queue_counts)
       /\ Reach - Len(group') = n + 1
  BY <1>3, <1>4, <1>5, <1>6
<1>11. EndsKept'
  <2>1. \A i \in 1..Len(group') : group'[i] = queue_counts[Reach - Len(group') + i]
    <3> SUFFICES ASSUME NEW i \in 1..Len(group')
                 PROVE  group'[i] = queue_counts[Reach - Len(group') + i]
      OBVIOUS
    <3>1. i + 1 \in 1..Len(group) /\ Reach - Len(group') + i = Reach - Len(group) + (i + 1)
      BY <1>3, <1>4, <1>5
    <3> QED
      BY <3>1, <1>4, <1>6
  <2>2. Len(group') <= Len(Group(rest))
    BY <1>4, <1>5, <1>6, <1>3
  <2> QED
    BY <1>1, <1>7, <2>1, <2>2 DEF CountsInv, EndsKept
<1>12. ShownInOrder'
  <2>1. \E m \in Nat : ShownFirst(m)'
    BY <1>2 DEF CountsInv, ShownInOrder, ShownFirst, Report!First
  <2>2. ShownFirst(Reach)'
    BY <1>1, <1>2, <1>7 DEF CountsInv, ShownInOrder, ShownFirst, Report!First
  <2> QED
    BY <1>1, <2>1, <2>2 DEF ShownInOrder
<1>13. AlarmsFirst(Reach - Len(group))'
  <2>1. AlarmsFirst(n)
    BY <1>1 DEF CountsInv, AlarmsInOrder
  <2>2. \A i \in 1..n : LET q == queue_counts[i].queue_name IN alarm'[q] = Threshold(q)
    BY <2>1, <1>2, <1>10
  <2>3. Head(group) = queue_counts[n + 1]
    BY <1>4, <1>6
  <2>4. \A i \in 1..(n + 1) : i \in 1..n \/ i = n + 1
    BY <1>10
  <2>5. \A i \in 1..(n + 1) : LET q == queue_counts[i].queue_name IN alarm'[q] = Threshold(q)
    BY <2>2, <2>3, <2>4, <1>2
  <2> QED
    BY <2>5, <1>7, <1>10 DEF AlarmsFirst, Threshold
<1>14. AlarmsInOrder'
  BY <1>1, <1>13 DEF AlarmsInOrder
<1> QED
  BY <1>8, <1>9, <1>11, <1>12, <1>14 DEF CountsInv

LEMMA NextGroupStep ==
  ASSUME CountsInv, NextGroup
  PROVE  CountsInv'
<1> USE DEF NextGroup, Goes
<1>1. /\ rest \in Seq(Row) /\ group \in Seq(Row)
      /\ Len(queue_counts) \in Nat /\ Len(rest) \in Nat /\ Len(group) = 0
  BY DEF CountsInv, CountsTypeOK
<1>2. /\ rest' \in Seq(Row)
      /\ Len(rest') = Len(rest) - Len(Group(rest))
      /\ \A i \in 1..Len(rest') : rest'[i] = rest[Len(Group(rest)) + i]
  BY <1>1, RestEnds
<1>3. /\ Before \in 0..Len(queue_counts)
      /\ Reach \in Before..Len(queue_counts)
      /\ Len(Group(rest)) = Reach - Before
  BY GroupInList
<1>4. Before' = Reach
  <2>1. Before' = Len(queue_counts) - Len(rest')
    BY DEF Before
  <2>2. Before' = Len(queue_counts) - (Len(rest) - Len(Group(rest)))
    BY <2>1, <1>2
  <2>3. Reach = (Len(queue_counts) - Len(rest)) + Len(Group(rest))
    BY DEF Reach, Before
  <2>4. Len(Group(rest)) \in Int
    BY <1>1, <1>3
  <2> QED
    BY <2>2, <2>3, <2>4, <1>1
<1>5. /\ Len(rest) <= Len(queue_counts)
      /\ \A i \in 1..Len(rest) : rest[i] = queue_counts[Before + i]
  BY DEF CountsInv, EndsKept
<1>6. CountsTypeOK'
  BY <1>2 DEF CountsInv, CountsTypeOK, Points
<1>7. ListKept'
  BY DEF CountsInv, ListKept, Counts, Report!LongestFirst, Report!NamesDiffer
<1>8. EndsKept'
  <2>1. Len(rest') <= Len(queue_counts)
    BY <1>1, <1>2, <1>3, <1>5
  <2>2. ASSUME NEW i \in 1..Len(rest')
        PROVE  rest'[i] = queue_counts[Reach + i]
    <3> DEFINE g == Len(Group(rest))
    <3>1. g + i \in 1..Len(rest) /\ Before + (g + i) = Reach + i
      BY <1>1, <1>2, <1>3
    <3> HIDE DEF g
    <3>2. rest[g + i] = queue_counts[Reach + i]
      BY <3>1, <1>5
    <3> QED
      BY <3>2, <1>2 DEF g
  <2> QED
    BY <1>4, <2>1, <2>2 DEF EndsKept
<1>9. ShownFirst(Reach) /\ Reach \in Nat
  BY <1>1, <1>3 DEF CountsInv, ShownInOrder
<1>10. ShownFirst(Before)'
  BY <1>4, <1>9 DEF ShownFirst, Report!First
<1>11. ShownInOrder'
  BY <1>4, <1>9, <1>10 DEF ShownInOrder
<1>12. AlarmsFirst(Reach)
  <2>1. Reach - Len(group) = Reach
    BY <1>1, <1>3
  <2> QED
    BY <2>1 DEF CountsInv, AlarmsInOrder
<1>13. AlarmsInOrder'
  BY <1>4, <1>12 DEF AlarmsInOrder, AlarmsFirst, Threshold
<1> QED
  BY <1>6, <1>7, <1>8, <1>11, <1>13 DEF CountsInv

LEMMA FinishStep ==
  ASSUME CountsInv, Finish
  PROVE  CountsInv'
<1> USE DEF Finish, Goes
<1>1. queue_counts \in Seq(Row) /\ rest = <<>>
  BY DEF CountsInv, CountsTypeOK
<1>2. Before = Len(queue_counts) /\ Before \in Nat
  BY <1>1 DEF Before
<1>3. Before' = Before
  BY DEF Before
<1>4. CountsTypeOK'
  BY DEF CountsInv, CountsTypeOK, Points
<1>5. ListKept'
  BY DEF CountsInv, ListKept, Counts, Report!LongestFirst, Report!NamesDiffer
<1>6. EndsKept'
  BY <1>1, <1>3 DEF CountsInv, EndsKept
<1>7. ShownFirst(Before)
  <2>1. Len(rest) = 0
    BY <1>1
  <2>2. Group(rest) = rest
    BY <2>1, GroupAssumption DEF Group
  <2>3. Reach = Before
    BY <2>1, <2>2, <1>2 DEF Reach
  <2> QED
    BY <2>3 DEF CountsInv, ShownInOrder
<1>8. ShownInOrder'
  BY <1>2, <1>3, <1>7 DEF ShownInOrder, ShownFirst, Report!First
<1>9. AlarmsInOrder'
  BY <1>3 DEF CountsInv, AlarmsInOrder, AlarmsFirst, Threshold
<1> QED
  BY <1>4, <1>5, <1>6, <1>8, <1>9 DEF CountsInv

(* A request that failed was done or not; either way the command stands at   *)
(* it or has ended.                                                          *)
LEMMA ErrsStep ==
  ASSUME CountsInv, Errs, point' \in {point, "raised", "broken"}, tries' \in Nat
  PROVE  /\ CountsTypeOK'
         /\ ListKept'
         /\ EndsKept'
         /\ ShownInOrder'
         /\ AlarmsInOrder'
<1>1. /\ point \in {"metrics", "alarms"}
      /\ queue_counts' = queue_counts /\ rest' = rest /\ group' = group /\ queued' = queued
      /\ errors' = errors + 1
  BY DEF Errs, AtMetrics, AtAlarm
<1>2. Before' = Before /\ Reach' = Reach /\ Group(rest)' = Group(rest)
  BY <1>1 DEF Before, Reach, Group
<1>3. /\ Before \in 0..Len(queue_counts)
      /\ Reach \in Before..Len(queue_counts)
      /\ Len(Group(rest)) = Reach - Before
  BY <1>1, GroupInList
<1>4. group \in Seq(Row) /\ Len(queue_counts) \in Nat
  BY DEF CountsInv, CountsTypeOK
<1>5. Before \in Nat /\ Reach \in Nat
  BY <1>3, <1>4
<1>6. /\ sent' \subseteq {"newrelic", "cloudwatch"} \X Row
      /\ \A m \in sent' : m[2] \in Counts
      /\ point = "metrics" => ShownFirst(Before)' \/ ShownFirst(Reach)'
      /\ point = "alarms" => ShownFirst(Reach)'
  <2>1. CASE AtMetrics /\ MetricDataTaken
    <3>1. /\ sent' \subseteq {"newrelic", "cloudwatch"} \X Row
          /\ \A m \in sent' : m[2] \in Counts
          /\ \A row : <<"cloudwatch", row>> \in sent' <=> row \in Report!First(Reach)
      BY <2>1, MetricsReach
    <3>2. ShownFirst(Reach)'
      BY <3>1, <1>1, <1>2, <1>3, <1>4 DEF ShownFirst, Report!First
    <3> QED
      BY <3>1, <3>2
  <2>2. CASE sent' = sent
    BY <2>2, <1>1, <1>2
       DEF CountsInv, CountsTypeOK, ListKept, ShownInOrder, ShownFirst, Report!First
  <2> QED
    BY <2>1, <2>2 DEF Errs, AlarmTaken
<1>7. /\ alarm' \in [Queues -> Levels]
      /\ \A n \in 0..Len(queue_counts) : AlarmsFirst(n) =>
           \A i \in 1..n : LET q == queue_counts[i].queue_name IN alarm'[q] = Threshold(q)
  <2>1. CASE AtAlarm /\ AlarmTaken
    BY <2>1, AlarmSet
  <2>2. CASE alarm' = alarm
    BY <2>2 DEF CountsInv, CountsTypeOK, AlarmsFirst
  <2> QED
    BY <2>1, <2>2 DEF Errs, MetricDataTaken
<1>8. CountsTypeOK'
  BY <1>1, <1>6, <1>7 DEF CountsInv, CountsTypeOK, Points
<1>9. ListKept'
  BY <1>1, <1>6 DEF CountsInv, ListKept, Counts, Report!LongestFirst, Report!NamesDiffer
<1>10. EndsKept'
  BY <1>1, <1>2 DEF CountsInv, EndsKept
<1>11. ShownInOrder'
  BY <1>1, <1>2, <1>5, <1>6 DEF ShownInOrder
<1>12. AlarmsInOrder'
  <2>1. ASSUME NEW n \in 0..Len(queue_counts), AlarmsFirst(n), NEW m, m = n
        PROVE  \A i \in 1..m : LET q == queue_counts'[i].queue_name IN alarm'[q] = Threshold(q)
    BY <2>1, <1>1, <1>7
  <2>2. CASE point = "metrics"
    <3>1. AlarmsFirst(Before)
      BY <2>2 DEF CountsInv, AlarmsInOrder
    <3>2. AlarmsFirst(Before)'
      BY <3>1, <2>1, <1>2, <1>3 DEF AlarmsFirst, Threshold
    <3> QED
      BY <2>2, <3>2 DEF AlarmsInOrder
  <2>3. CASE point = "alarms"
    <3>1. AlarmsFirst(Reach - Len(group))
      BY <2>3 DEF CountsInv, AlarmsInOrder
    <3>2. Reach - Len(group) \in 0..Len(queue_counts)
      <4>1. Len(group) <= Len(Group(rest))
        BY <2>3 DEF CountsInv, EndsKept
      <4> QED
        BY <4>1, <1>3, <1>4
    <3>3. AlarmsFirst(Reach - Len(group))'
      BY <3>1, <3>2, <2>1, <1>1, <1>2 DEF AlarmsFirst, Threshold
    <3> QED
      BY <2>3, <3>3 DEF AlarmsInOrder
  <2> QED
    BY <1>1, <2>2, <2>3
<1> QED
  BY <1>8, <1>9, <1>10, <1>11, <1>12

LEMMA ClientErrorStep ==
  ASSUME CountsInv, ClientError
  PROVE  CountsInv'
<1>1. tries' \in Nat /\ point' \in {point, "raised", "broken"}
  BY DEF CountsInv, CountsTypeOK, ClientError, Goes
<1> QED
  BY <1>1, ErrsStep DEF CountsInv, ClientError

LEMMA OtherErrorStep ==
  ASSUME CountsInv, OtherError
  PROVE  CountsInv'
<1>1. tries' \in Nat /\ point' \in {point, "raised", "broken"}
  BY DEF CountsInv, CountsTypeOK, OtherError, Goes
<1> QED
  BY <1>1, ErrsStep DEF CountsInv, OtherError

(* The command looks at the table once: what becomes of it afterwards does   *)
(* not matter, nor does a step that changes nothing.                         *)
LEMMA TableStep ==
  ASSUME CountsInv, queued' \in [Queues -> Nat],
         UNCHANGED <<point, queue_counts, rest, group, tries, sent, alarm, errors, refusals>>
  PROVE  CountsInv'
<1>1. Before' = Before /\ Reach' = Reach /\ Group(rest)' = Group(rest)
  BY DEF Before, Reach, Group
<1>2. \A n : /\ ShownFirst(n)' <=> ShownFirst(n)
             /\ AlarmsFirst(n)' <=> AlarmsFirst(n)
  BY DEF ShownFirst, AlarmsFirst, Threshold, Report!First
<1>3. CountsTypeOK' /\ ListKept'
  BY DEF CountsInv, CountsTypeOK, ListKept, Counts, Report!LongestFirst, Report!NamesDiffer
<1>4. EndsKept'
  BY <1>1 DEF CountsInv, EndsKept
<1>5. ShownInOrder' /\ AlarmsInOrder'
  BY <1>1, <1>2
     DEF CountsInv, ShownInOrder, AlarmsInOrder, ShownFirst, AlarmsFirst, Threshold, Report!First
<1> QED
  BY <1>3, <1>4, <1>5 DEF CountsInv

LEMMA NextCountsInv == CountsInv /\ [Next]_vars => CountsInv'
<1> SUFFICES ASSUME CountsInv, [Next]_vars PROVE CountsInv'
  OBVIOUS
<1>1. queued \in [Queues -> Nat]
  BY DEF CountsInv, CountsTypeOK
<1>2. CASE QueueChanges
  <2>1. queued' \in [Queues -> Nat]
    BY <1>1, <1>2, BoundsAssumption DEF QueueChanges
  <2> QED
    BY <1>2, <2>1, TableStep DEF QueueChanges
<1>3. CASE UNCHANGED vars
  BY <1>1, <1>3, TableStep DEF vars
<1>4. CASE Step
  BY <1>4, CountStep, SendNewRelicStep, SendCloudWatchStep, PutMetricDataStep,
     PutMetricAlarmStep, NextGroupStep, FinishStep DEF Step
<1> QED
  BY <1>2, <1>3, <1>4, ClientErrorStep, OtherErrorStep DEF Next

(* What count_queued_submissions has done, at every point and after every    *)
(* error, is a beginning of one list.                                        *)
THEOREM CountsInvariant == Spec => []CountsInv
  BY InitCountsInv, NextCountsInv, PTL DEF Spec

-----------------------------------------------------------------------------
(* What follows from it *)

(* When the command is done, the beginnings are the whole list. *)
LEMMA DoneIsComplete == CountsInv => CompleteWhenDone
<1> SUFFICES ASSUME CountsInv, point = "done", NEW row \in Counts
             PROVE  row \in Shown /\ alarm[row.queue_name] = Threshold(row.queue_name)
  BY DEF CompleteWhenDone
<1>1. queue_counts \in Seq(Row) /\ rest = <<>>
  BY DEF CountsInv, CountsTypeOK, EndsKept
<1>2. Before = Len(queue_counts)
  BY <1>1 DEF Before
<1>3. ShownFirst(Len(queue_counts)) /\ AlarmsFirst(Len(queue_counts))
  BY <1>2 DEF CountsInv, ShownInOrder, AlarmsInOrder
<1>4. PICK i \in 1..Len(queue_counts) : row = queue_counts[i]
  BY <1>1, Rows DEF Counts
<1>5. <<"cloudwatch", row>> \in sent
  BY <1>3, <1>4 DEF ShownFirst, Report!First
<1> QED
  BY <1>3, <1>4, <1>5 DEF AlarmsFirst, Shown

(* A command that ends without an exception has sent the metrics of every    *)
(* queue it counted and has set its alarm, whatever was retried.             *)
THEOREM CompleteIfDone == Spec => []CompleteWhenDone
  BY DoneIsComplete, CountsInvariant, PTL

(* CloudWatch shows a beginning of the list. *)
LEMMA ShownIsFirst ==
  CountsInv => \E n \in 0..Len(queue_counts) : Shown = Report!First(n)
<1> SUFFICES ASSUME CountsInv
             PROVE  \E n \in 0..Len(queue_counts) : Shown = Report!First(n)
  OBVIOUS
<1>1. PICK n \in Nat : ShownFirst(n)
  BY DEF CountsInv, ShownInOrder
<1>2. queue_counts \in Seq(Row) /\ n \in 0..Len(queue_counts)
  BY <1>1 DEF CountsInv, CountsTypeOK, ShownFirst
<1>3. Report!First(n) \subseteq Counts
  BY <1>2 DEF Report!First, Counts, ToSet
<1>4. Shown = Report!First(n)
  BY <1>1, <1>3 DEF Shown, ShownFirst
<1> QED
  BY <1>1, <1>2, <1>4

(* A command that is cut short has spared the shortest queues. *)
THEOREM LongestComeFirst == Spec => []LongestFirst
<1>1. ASSUME CountsInv, NEW row \in Counts \ Shown, NEW other \in Shown
      PROVE  row.queue_count <= other.queue_count
  <2>1. PICK n \in 0..Len(queue_counts) : Shown = Report!First(n)
    BY <1>1, ShownIsFirst
  <2>2. queue_counts \in Seq(Row)
    BY <1>1 DEF CountsInv, CountsTypeOK
  <2>3. Len(queue_counts) \in Nat /\ DOMAIN queue_counts = 1..Len(queue_counts)
    BY <2>2
  <2>4. PICK j \in 1..Len(queue_counts) : row = queue_counts[j]
    BY <2>2, Rows DEF Counts
  <2>5. PICK i \in 1..n : other = queue_counts[i]
    BY <2>1 DEF Report!First
  <2>6. j \notin 1..n
    BY <2>1, <2>4 DEF Report!First
  <2>7. i \in DOMAIN queue_counts /\ j \in DOMAIN queue_counts /\ i < j
    BY <2>3, <2>4, <2>5, <2>6
  <2>8. queue_counts[i].queue_count >= queue_counts[j].queue_count
    BY <1>1, <2>7 DEF CountsInv, ListKept, Report!LongestFirst
  <2>9. queue_counts[i] \in Row /\ queue_counts[j] \in Row
    BY <2>2, <2>3, <2>7
  <2>10. queue_counts[i].queue_count \in Nat /\ queue_counts[j].queue_count \in Nat
    BY <2>9 DEF Row, Report!Row
  <2> QED
    BY <2>4, <2>5, <2>8, <2>10
<1>2. CountsInv => LongestFirst
  BY <1>1 DEF LongestFirst
<1> QED
  BY <1>2, CountsInvariant, PTL

(* Both services are told of the rows of one list, in which a queue has one  *)
(* row.                                                                      *)
THEOREM BothToldTheSame == Spec => []SameCountsToBoth
<1>1. ASSUME CountsInv, NEW m \in sent, NEW n \in sent,
             m[2].queue_name = n[2].queue_name
      PROVE  m[2].queue_count = n[2].queue_count
  <2>1. PICK i \in DOMAIN queue_counts : m[2] = queue_counts[i]
    BY <1>1 DEF CountsInv, ListKept, Counts, ToSet
  <2>2. PICK j \in DOMAIN queue_counts : n[2] = queue_counts[j]
    BY <1>1 DEF CountsInv, ListKept, Counts, ToSet
  <2>3. i = j
    BY <1>1, <2>1, <2>2 DEF CountsInv, ListKept, Report!NamesDiffer
  <2> QED
    BY <2>1, <2>2, <2>3
<1>2. CountsInv => SameCountsToBoth
  BY <1>1 DEF SameCountsToBoth
<1> QED
  BY <1>2, CountsInvariant, PTL

-----------------------------------------------------------------------------
(* The report *)

(* Nothing that CloudWatch shows is taken back. *)
LEMMA ShownGrows ==
  ASSUME CountsInv, [Next]_vars, UNCHANGED queue_counts
  PROVE  Shown \subseteq Shown'
<1>1. sent \subseteq sent'
  BY DEF Next, Step, Count, SendNewRelic, SendCloudWatch, PutMetricData, PutMetricAlarm, NextGroup,
         Finish, ClientError, OtherError, QueueChanges, Errs, Takes, MetricDataTaken, AlarmTaken, vars
<1>2. Counts' = Counts
  BY DEF Counts
<1> QED
  BY <1>1, <1>2 DEF Shown

LEMMA InitIsReport == Init => Report!Init
  BY DEF Init, Report!Init, Shown, Verdict

LEMMA StepIsReport ==
  ASSUME CountsInv, CountsInv', [Next]_vars
  PROVE  [Report!Next]_(Report!vars)
<1>1. CASE Count
  <2>1. queue_counts = <<>> /\ sent = {} /\ sent' = {}
    BY <1>1 DEF Count, CountsInv, ListKept
  <2>2. Shown' = Shown
    BY <2>1 DEF Shown
  <2>3. Verdict = "under way" /\ Verdict' = "under way"
    BY <1>1 DEF Count, Goes, Verdict
  <2>4. Report!LongestFirst(queue_counts') /\ Report!NamesDiffer(queue_counts')
    BY DEF CountsInv, ListKept, Report!LongestFirst, Report!NamesDiffer
  <2>5. queue_counts' \in Seq(Report!Row)
    BY DEF CountsInv, CountsTypeOK, Row
  <2> QED
    BY <2>1, <2>2, <2>3, <2>4, <2>5 DEF Report!Next, Report!Take
<1>2. CASE ~Count
  <2>1. queue_counts' = queue_counts
    BY <1>2 DEF Next, Step, SendNewRelic, SendCloudWatch, PutMetricData, PutMetricAlarm, NextGroup,
                Finish, ClientError, OtherError, QueueChanges, Errs, vars
  <2>2. Shown \subseteq Shown'
    BY <2>1, ShownGrows
  <2>3. CASE Verdict = "under way"
    <3>1. \E n \in 0..Len(queue_counts) : Shown' = Report!First(n)
      <4>1. CountsInv' => (\E n \in 0..Len(queue_counts) : Shown = Report!First(n))'
        BY ShownIsFirst, PTL
      <4> QED
        BY <4>1, <2>1 DEF Report!First
    <3>2. Verdict' = "complete" => Shown' = Report!First(Len(queue_counts))
      <4>1. CompleteWhenDone'
        BY DoneIsComplete, PTL
      <4>2. Verdict' = "complete" => point' = "done"
        BY DEF Verdict
      <4>3. Counts' = Counts
        BY <2>1 DEF Counts
      <4>4. Shown' \subseteq Counts'
        BY DEF Shown
      <4>5. Counts = Report!First(Len(queue_counts))
        BY Rows DEF CountsInv, CountsTypeOK, Counts, Report!First
      <4> QED
        BY <4>1, <4>2, <4>3, <4>4, <4>5 DEF CompleteWhenDone
    <3>3. Verdict' \in {"under way", "complete", "cut short"}
      BY DEF Verdict
    <3> QED
      BY <2>1, <2>2, <2>3, <3>1, <3>2, <3>3 DEF Report!Next, Report!Show
  <2>4. CASE Verdict # "under way"
    <3>1. point \in {"done", "ended", "raised", "broken"}
      BY <2>4 DEF Verdict, CountsInv, CountsTypeOK, Points
    <3>2. UNCHANGED <<point, queue_counts, sent>>
      BY <1>2, <3>1 DEF Next, Step, SendNewRelic, SendCloudWatch, PutMetricData, PutMetricAlarm,
           NextGroup, Finish, ClientError, OtherError, QueueChanges, Errs, AtMetrics, AtAlarm, vars
    <3>3. Shown' = Shown /\ Verdict' = Verdict
      BY <3>2 DEF Shown, Counts, Verdict
    <3> QED
      BY <2>1, <3>3 DEF Report!vars
  <2> QED
    BY <2>3, <2>4
<1> QED
  BY <1>1, <1>2

(* count_queued_submissions reports as promised: one list, of which          *)
(* CloudWatch shows ever more, longest queues first, and all of it when the  *)
(* command ends well.                                                        *)
THEOREM ReportsAsPromised == Spec => KeepsReport
<1>1. CountsInv /\ CountsInv' /\ [Next]_vars => [Report!Next]_(Report!vars)
  BY StepIsReport
<1> QED
  BY <1>1, InitIsReport, CountsInvariant, PTL DEF Spec, KeepsReport, Report!Spec
-----------------------------------------------------------------------------
(* The tries *)

Named(i) == queue_counts[i].queue_name

(* Rows whose alarm is set, and rows before the ones whose alarm is due. *)
Alarmed == Reach - Len(group)

(* tries is what the request under way has met; the requests after it have   *)
(* met nothing; one that has met max_tries ClientErrors has ended the        *)
(* command.                                                                  *)
RefusalsKept ==
  /\ refusals \in [Requests -> Nat]
  /\ \A r \in Requests : refusals[r] >= max_tries => point = "raised"
  /\ point = "raised" => \E r \in Requests : refusals[r] >= max_tries
  /\ point \in {"idle", "counted", "told"} => tries = 0 /\ \A r \in Requests : refusals[r] = 0
  /\ point = "metrics" =>
       /\ rest = <<>> => tries = 0
       /\ \A i \in (Before + 1)..Len(queue_counts) :
            /\ refusals[<<"metrics", Named(i)>>] = IF i = Before + 1 THEN tries ELSE 0
            /\ refusals[<<"alarm", Named(i)>>] = 0
  /\ point = "alarms" =>
       /\ rest # <<>>
       /\ group = <<>> => tries = 0
       /\ \A i \in (Before + 2)..Len(queue_counts) : refusals[<<"metrics", Named(i)>>] = 0
       /\ \A i \in (Alarmed + 1)..Len(queue_counts) :
            refusals[<<"alarm", Named(i)>>] = IF i = Alarmed + 1 THEN tries ELSE 0

(* Each row is of a queue of its own. *)
LEMMA NamesApart ==
  ASSUME CountsInv
  PROVE  /\ Len(queue_counts) \in Nat
         /\ \A i \in 1..Len(queue_counts) : Named(i) \in Queues
         /\ \A i, j \in 1..Len(queue_counts) : Named(i) = Named(j) => i = j
<1>1. queue_counts \in Seq(Row) /\ Report!NamesDiffer(queue_counts)
  BY DEF CountsInv, CountsTypeOK, ListKept
<1>2. /\ Len(queue_counts) \in Nat /\ DOMAIN queue_counts = 1..Len(queue_counts)
      /\ \A i \in 1..Len(queue_counts) : queue_counts[i] \in Row
  BY <1>1, Rows
<1> QED
  BY <1>1, <1>2 DEF Named, Row, Report!Row, Report!NamesDiffer

(* The request under way is that of the first row that is left. *)
LEMMA RequestOfRow ==
  ASSUME CountsInv
  PROVE  /\ AtMetrics => /\ Before + 1 \in 1..Len(queue_counts) /\ Reach > Before
                         /\ Request = <<"metrics", Named(Before + 1)>>
         /\ point = "alarms" => /\ Before \in Nat /\ Alarmed \in Before..Len(queue_counts)
                                /\ Reach \in Alarmed..Len(queue_counts)
         /\ AtAlarm => /\ Alarmed + 1 \in 1..Len(queue_counts) /\ Alarmed < Reach
                       /\ Request = <<"alarm", Named(Alarmed + 1)>>
<1>1. rest \in Seq(Row) /\ group \in Seq(Row) /\ Len(queue_counts) \in Nat
  BY DEF CountsInv, CountsTypeOK
<1>2. Len(rest) \in Nat /\ Len(group) \in Nat
  BY <1>1
<1>3. point \in {"metrics", "alarms"} =>
        /\ Before \in 0..Len(queue_counts)
        /\ Reach \in Before..Len(queue_counts)
        /\ Len(Group(rest)) = Reach - Before
  BY GroupInList
<1>4. ASSUME AtMetrics
      PROVE  /\ Before + 1 \in 1..Len(queue_counts) /\ Reach > Before
             /\ Request = <<"metrics", Named(Before + 1)>>
  <2>1. Len(rest) > 0 /\ Head(rest) = rest[1]
    BY <1>1, <1>2, <1>4, EmptySeq, HeadTailProperties DEF AtMetrics
  <2>2. Before + 1 \in 1..Len(queue_counts) /\ rest[1] = queue_counts[Before + 1]
    BY <1>1, <1>2, <1>4, <2>1 DEF CountsInv, EndsKept, AtMetrics, Before
  <2>3. Len(Group(rest)) > 0
    BY <1>1, <1>2, <2>1, GroupBegins, GroupAssumption
  <2>4. Reach > Before
    BY <1>1, <1>3, <1>4, <2>3 DEF AtMetrics
  <2> QED
    BY <1>4, <2>1, <2>2, <2>4 DEF Request, Named
<1>5. ASSUME point = "alarms"
      PROVE  /\ Before \in Nat /\ Alarmed \in Before..Len(queue_counts)
             /\ Reach \in Alarmed..Len(queue_counts)
  <2>1. Len(group) <= Len(Group(rest))
    BY <1>5 DEF CountsInv, EndsKept
  <2> QED
    BY <1>1, <1>2, <1>3, <1>5, <2>1 DEF Alarmed
<1>6. ASSUME AtAlarm
      PROVE  /\ Alarmed + 1 \in 1..Len(queue_counts) /\ Alarmed < Reach
             /\ Request = <<"alarm", Named(Alarmed + 1)>>
  <2>1. Len(group) > 0 /\ Head(group) = group[1] /\ point = "alarms"
    BY <1>1, <1>2, <1>6, EmptySeq, HeadTailProperties DEF AtAlarm
  <2>2. group[1] = queue_counts[Alarmed + 1]
    BY <1>2, <2>1 DEF CountsInv, EndsKept, Alarmed
  <2>3. Alarmed < Reach
    BY <1>1, <1>2, <1>3, <2>1 DEF Alarmed
  <2>4. Alarmed + 1 \in 1..Len(queue_counts)
    BY <1>1, <1>5, <2>1, <2>3
  <2>5. Request = <<"alarm", Named(Alarmed + 1)>>
    BY <2>1, <2>2 DEF Request, AtMetrics, Named
  <2> QED
    BY <2>3, <2>4, <2>5
<1> QED
  BY <1>4, <1>5, <1>6

LEMMA InitRefusals == Init => RefusalsKept
  BY TriesAssumption DEF Init, RefusalsKept

(* A request that is taken makes room for the next, with tries of its own.   *)
LEMMA TakenRefusals ==
  ASSUME CountsInv, CountsInv', RefusalsKept, PutMetricData \/ PutMetricAlarm
  PROVE  RefusalsKept'
<1>1. /\ tries' = 0 /\ refusals' = refusals /\ rest' = rest /\ queue_counts' = queue_counts
      /\ point' = "alarms" /\ rest # <<>>
  BY DEF PutMetricData, PutMetricAlarm, FreshTries, AtMetrics, AtAlarm, Goes, RefusalsKept
<1>2. Before' = Before /\ Reach' = Reach /\ \A i : Named(i)' = Named(i)
  BY <1>1 DEF Before, Reach, Group, Named
<1>3. Len(queue_counts) \in Nat
  BY NamesApart
<1>4. CASE PutMetricData
  <2>1. AtMetrics /\ point = "metrics" /\ group' = Group(rest)
    BY <1>4 DEF PutMetricData, AtMetrics
  <2>2. Alarmed' = Before /\ Before \in Nat
    <3>1. Len(Group(rest)) = Reach - Before /\ Before \in Nat /\ Reach \in Nat
      BY <2>1, <1>3, GroupInList
    <3> QED
      BY <1>2, <2>1, <3>1 DEF Alarmed
  <2>3. \A i \in (Before + 1)..Len(queue_counts) :
          refusals[<<"alarm", Named(i)>>] = 0 /\ (i # Before + 1 => refusals[<<"metrics", Named(i)>>] = 0)
    BY <2>1 DEF RefusalsKept
  <2>4. \A i \in (Before + 2)..Len(queue_counts) : i \in (Before + 1)..Len(queue_counts) /\ i # Before + 1
    BY <1>3, <2>2
  <2> QED
    BY <1>1, <1>2, <2>1, <2>2, <2>3, <2>4 DEF RefusalsKept
<1>5. CASE PutMetricAlarm
  <2>1. AtAlarm /\ point = "alarms" /\ group' = Tail(group) /\ group # <<>>
    BY <1>5 DEF PutMetricAlarm, AtAlarm
  <2>2. Alarmed' = Alarmed + 1 /\ Alarmed \in Nat
    <3>1. group \in Seq(Row)
      BY DEF CountsInv, CountsTypeOK
    <3>2. Len(group') = Len(group) - 1 /\ Len(group) \in Nat
      BY <2>1, <3>1, HeadTailProperties
    <3>3. Reach \in Nat /\ Alarmed \in Nat
      BY <1>3, <2>1, RequestOfRow
    <3> QED
      BY <1>2, <3>2, <3>3 DEF Alarmed
  <2>3. \A i \in (Alarmed + 1)..Len(queue_counts) :
          i # Alarmed + 1 => refusals[<<"alarm", Named(i)>>] = 0
    BY <2>1 DEF RefusalsKept
  <2>4. \A i \in (Alarmed + 2)..Len(queue_counts) : i \in (Alarmed + 1)..Len(queue_counts) /\ i # Alarmed + 1
    BY <1>3, <2>2
  <2>5. \A i \in (Alarmed' + 1)..Len(queue_counts) : refusals[<<"alarm", Named(i)>>] = 0
    BY <2>2, <2>3, <2>4
  <2>6. \A i \in (Before + 2)..Len(queue_counts) : refusals[<<"metrics", Named(i)>>] = 0
    BY <2>1 DEF RefusalsKept
  <2> QED
    BY <1>1, <1>2, <2>1, <2>5, <2>6 DEF RefusalsKept
<1> QED
  BY <1>4, <1>5

(* The next group begins after the rows whose alarm is set. *)
LEMMA NextGroupRefusals ==
  ASSUME CountsInv, CountsInv', RefusalsKept, NextGroup
  PROVE  RefusalsKept'
<1>1. /\ point = "alarms" /\ group = <<>> /\ point' = "metrics" /\ rest # <<>>
      /\ tries = 0 /\ UNCHANGED <<tries, refusals, queue_counts, group>>
      /\ rest' = SubSeq(rest, GroupSize + 1, Len(rest))
  BY DEF NextGroup, Goes, RefusalsKept
<1>2. rest \in Seq(Row) /\ Len(queue_counts) \in Nat /\ Len(rest) \in Nat /\ Len(group) = 0
  BY <1>1 DEF CountsInv, CountsTypeOK
<1>3. /\ Before \in 0..Len(queue_counts) /\ Reach \in Before..Len(queue_counts)
      /\ Len(Group(rest)) = Reach - Before
  BY <1>1, GroupInList
<1>4. Len(rest') = Len(rest) - Len(Group(rest))
  BY <1>1, <1>2, RestEnds
<1>5. Len(Group(rest)) > 0
  BY <1>1, <1>2, GroupBegins, GroupAssumption, EmptySeq
<1>6. Before' = Reach /\ Reach > Before /\ Alarmed = Reach
  <2>1. Before' = Len(queue_counts) - Len(rest') /\ Before = Len(queue_counts) - Len(rest)
    BY <1>1 DEF Before
  <2> QED
    BY <2>1, <1>2, <1>3, <1>4, <1>5 DEF Alarmed
<1>7. \A i \in (Reach + 1)..Len(queue_counts) :
        /\ refusals[<<"alarm", Named(i)>>] = 0
        /\ refusals[<<"metrics", Named(i)>>] = 0
  <2>1. \A i \in (Reach + 1)..Len(queue_counts) : i \in (Before + 2)..Len(queue_counts)
    BY <1>2, <1>3, <1>6
  <2>2. \A i \in (Before + 2)..Len(queue_counts) : refusals[<<"metrics", Named(i)>>] = 0
    BY <1>1 DEF RefusalsKept
  <2>3. \A i \in (Alarmed + 1)..Len(queue_counts) : refusals[<<"alarm", Named(i)>>] = 0
    BY <1>1 DEF RefusalsKept
  <2> QED
    BY <2>1, <2>2, <2>3, <1>6
<1>8. \A i : Named(i)' = Named(i)
  BY <1>1 DEF Named
<1> QED
  BY <1>1, <1>6, <1>7, <1>8 DEF RefusalsKept

(* A ClientError is one more of the request under way, and of no other. *)
LEMMA ClientErrorRefusals ==
  ASSUME CountsInv, RefusalsKept, ClientError
  PROVE  RefusalsKept'
<1>1. /\ UNCHANGED <<queue_counts, rest, group>> /\ tries' = tries + 1
      /\ refusals' = [refusals EXCEPT ![Request] = @ + 1]
      /\ AtMetrics \/ AtAlarm
      /\ IF tries + 1 < max_tries THEN point' = point ELSE point' = "raised"
  BY DEF ClientError, Errs, TriesLeft, Goes
<1>2. Before' = Before /\ Reach' = Reach /\ Alarmed' = Alarmed /\ \A i : Named(i)' = Named(i)
  BY <1>1 DEF Before, Reach, Alarmed, Group, Named
<1>3. /\ Len(queue_counts) \in Nat
      /\ \A i \in 1..Len(queue_counts) : Named(i) \in Queues
      /\ \A i, j \in 1..Len(queue_counts) : Named(i) = Named(j) => i = j
  BY NamesApart
<1>4. tries \in Nat /\ max_tries \in Nat /\ refusals \in [Requests -> Nat]
  BY TriesAssumption DEF CountsInv, CountsTypeOK, RefusalsKept
<1>5. Request \in Requests /\ refusals[Request] = tries
  <2>1. CASE AtMetrics
    <3>1. Before + 1 \in 1..Len(queue_counts) /\ Request = <<"metrics", Named(Before + 1)>>
      BY <2>1, RequestOfRow
    <3>2. Before + 1 \in (Before + 1)..Len(queue_counts)
      BY <1>3, <3>1
    <3>3. refusals[<<"metrics", Named(Before + 1)>>] = tries
      BY <2>1, <3>2 DEF RefusalsKept, AtMetrics
    <3> QED
      BY <1>3, <3>1, <3>3 DEF Requests
  <2>2. CASE AtAlarm
    <3>1. Alarmed + 1 \in 1..Len(queue_counts) /\ Request = <<"alarm", Named(Alarmed + 1)>>
      BY <2>2, RequestOfRow
    <3>2. Alarmed + 1 \in (Alarmed + 1)..Len(queue_counts)
      BY <1>3, <3>1
    <3>3. refusals[<<"alarm", Named(Alarmed + 1)>>] = tries
      BY <2>2, <3>2 DEF RefusalsKept, AtAlarm
    <3> QED
      BY <1>3, <3>1, <3>3 DEF Requests
  <2> QED
    BY <1>1, <2>1, <2>2
<1>6. /\ refusals' \in [Requests -> Nat] /\ refusals'[Request] = tries'
      /\ \A r \in Requests : r # Request => refusals'[r] = refusals[r]
  BY <1>1, <1>4, <1>5
<1>7. \A r \in Requests : refusals[r] < max_tries
  <2>1. point # "raised"
    BY <1>1 DEF AtMetrics, AtAlarm
  <2> QED
    BY <2>1, <1>4 DEF RefusalsKept
<1>8. CASE point' = "raised"
  <2>1. refusals'[Request] >= max_tries
    BY <1>1, <1>4, <1>6, <1>8 DEF AtMetrics, AtAlarm
  <2> QED
    BY <1>5, <1>6, <1>8, <2>1 DEF RefusalsKept
<1>9. CASE point' = point /\ tries + 1 < max_tries
  <2>1. \A r \in Requests : refusals'[r] < max_tries
    BY <1>1, <1>6, <1>7, <1>9
  <2>2. \A r \in Requests : ~(refusals'[r] >= max_tries)
    BY <1>4, <1>6, <2>1
  <2>3. CASE AtMetrics
    <3>1. /\ point = "metrics" /\ rest # <<>> /\ Before \in Nat
          /\ Before + 1 \in 1..Len(queue_counts)
          /\ Request = <<"metrics", Named(Before + 1)>>
      BY <1>3, <2>3, RequestOfRow, GroupInList DEF AtMetrics
    <3>2. ASSUME NEW i \in (Before + 1)..Len(queue_counts)
          PROVE  /\ refusals'[<<"metrics", Named(i)>>] = IF i = Before + 1 THEN tries' ELSE 0
                 /\ refusals'[<<"alarm", Named(i)>>] = 0
      <4>1. i \in 1..Len(queue_counts) /\ Named(i) \in Queues
        BY <1>3, <3>1
      <4>2. <<"metrics", Named(i)>> \in Requests /\ <<"alarm", Named(i)>> \in Requests
        BY <4>1 DEF Requests
      <4>3. <<"alarm", Named(i)>> # Request
        BY <3>1
      <4>4. i # Before + 1 => <<"metrics", Named(i)>> # Request
        BY <1>3, <3>1, <4>1
      <4>5. /\ refusals[<<"alarm", Named(i)>>] = 0
            /\ i # Before + 1 => refusals[<<"metrics", Named(i)>>] = 0
        BY <3>1 DEF RefusalsKept
      <4> QED
        BY <1>6, <3>1, <4>2, <4>3, <4>4, <4>5
    <3> QED
      BY <1>1, <1>2, <1>6, <1>9, <2>2, <3>1, <3>2 DEF RefusalsKept
  <2>4. CASE AtAlarm
    <3>1. /\ point = "alarms" /\ group # <<>> /\ rest # <<>>
          /\ Before \in Nat /\ Alarmed \in Nat
          /\ Alarmed + 1 \in 1..Len(queue_counts)
          /\ Request = <<"alarm", Named(Alarmed + 1)>>
      BY <1>3, <2>4, RequestOfRow DEF AtAlarm, RefusalsKept
    <3>2. ASSUME NEW i \in (Alarmed + 1)..Len(queue_counts)
          PROVE  refusals'[<<"alarm", Named(i)>>] = IF i = Alarmed + 1 THEN tries' ELSE 0
      <4>1. i \in 1..Len(queue_counts) /\ Named(i) \in Queues
        BY <1>3, <3>1
      <4>2. <<"alarm", Named(i)>> \in Requests
        BY <4>1 DEF Requests
      <4>3. i # Alarmed + 1 => <<"alarm", Named(i)>> # Request
        BY <1>3, <3>1, <4>1
      <4>4. i # Alarmed + 1 => refusals[<<"alarm", Named(i)>>] = 0
        BY <3>1 DEF RefusalsKept
      <4> QED
        BY <1>6, <3>1, <4>2, <4>3, <4>4
    <3>3. ASSUME NEW i \in (Before + 2)..Len(queue_counts)
          PROVE  refusals'[<<"metrics", Named(i)>>] = 0
      <4>1. i \in 1..Len(queue_counts) /\ Named(i) \in Queues
        BY <1>3, <3>1
      <4>2. <<"metrics", Named(i)>> \in Requests /\ <<"metrics", Named(i)>> # Request
        BY <4>1, <3>1 DEF Requests
      <4>3. refusals[<<"metrics", Named(i)>>] = 0
        BY <3>1 DEF RefusalsKept
      <4> QED
        BY <1>6, <4>2, <4>3
    <3> QED
      BY <1>1, <1>2, <1>6, <1>9, <2>2, <3>1, <3>2, <3>3 DEF RefusalsKept
  <2> QED
    BY <1>1, <2>3, <2>4
<1> QED
  BY <1>1, <1>8, <1>9

(* The other steps ask CloudWatch for nothing, or are the last. *)
LEMMA OtherRefusals ==
  ASSUME CountsInv, CountsInv', RefusalsKept,
         \/ Count \/ SendNewRelic \/ SendCloudWatch \/ Finish \/ OtherError
         \/ QueueChanges \/ UNCHANGED vars
  PROVE  RefusalsKept'
<1>1. CASE Count \/ SendNewRelic
  BY <1>1 DEF Count, SendNewRelic, Goes, RefusalsKept
<1>2. CASE SendCloudWatch
  <2>1. /\ point = "told" /\ UNCHANGED <<tries, refusals, queue_counts>>
        /\ (point' = "metrics" /\ rest' = queue_counts) \/ point' = "ended"
        /\ tries = 0 /\ \A r \in Requests : refusals[r] = 0
    BY <1>2 DEF SendCloudWatch, Iterated, Goes, RefusalsKept
  <2>2. CASE point' = "ended"
    BY <2>1, <2>2 DEF RefusalsKept
  <2>3. CASE point' = "metrics" /\ rest' = queue_counts
    <3>1. /\ Len(queue_counts) \in Nat
          /\ \A i \in 1..Len(queue_counts) : Named(i) \in Queues
      BY NamesApart
    <3>2. Before' = 0
      BY <2>1, <2>3, <3>1 DEF Before
    <3>3. \A i \in 1..Len(queue_counts) :
            /\ refusals[<<"metrics", Named(i)>>] = 0
            /\ refusals[<<"alarm", Named(i)>>] = 0
      BY <2>1, <3>1 DEF Requests
    <3>4. \A i : Named(i)' = Named(i)
      BY <2>1 DEF Named
    <3> QED
      BY <2>1, <2>3, <3>2, <3>3, <3>4 DEF RefusalsKept
  <2> QED
    BY <2>1, <2>2, <2>3
<1>3. CASE Finish \/ OtherError
  <2>1. /\ refusals' = refusals /\ point' \in {"done", "broken"}
        /\ point \in {"metrics", "alarms"}
    BY <1>3 DEF Finish, OtherError, Errs, AtMetrics, AtAlarm, Goes
  <2> QED
    BY <2>1 DEF RefusalsKept
<1>4. CASE QueueChanges \/ UNCHANGED vars
  <2>1. UNCHANGED <<point, queue_counts, rest, group, tries, refusals>>
    BY <1>4 DEF QueueChanges, vars
  <2>2. Before' = Before /\ Alarmed' = Alarmed /\ \A i : Named(i)' = Named(i)
    BY <2>1 DEF Before, Reach, Alarmed, Group, Named
  <2> QED
    BY <2>1, <2>2 DEF RefusalsKept
<1> QED
  BY <1>1, <1>2, <1>3, <1>4

(* The command is ended by ClientErrors exactly when one request has met     *)
(* max_tries of them: the errors of other requests do not count.             *)
THEOREM RaisedWhenExhausted == Spec => []RaisesOnlyWhenExhausted
<1>1. CountsInv /\ CountsInv' /\ RefusalsKept /\ [Next]_vars => RefusalsKept'
  BY TakenRefusals, NextGroupRefusals, ClientErrorRefusals, OtherRefusals DEF Next, Step
<1>2. RefusalsKept => RaisesOnlyWhenExhausted
  BY DEF RefusalsKept, RaisesOnlyWhenExhausted
<1> QED
  BY <1>1, <1>2, InitRefusals, CountsInvariant, PTL DEF Spec

-----------------------------------------------------------------------------
(* The command ends *)

(* What the command has left to do: its phases, the rows of the rest, the    *)
(* metrics of a group, the alarms of it, the tries of a request.             *)
Phase ==
  CASE point = "idle" -> 4 [] point = "counted" -> 3 [] point = "told" -> 2
    [] point \in {"metrics", "alarms"} -> 1 [] OTHER -> 0

Left ==
  <<Phase, Len(rest), IF point = "metrics" THEN 1 ELSE 0, Len(group), max_tries - tries>>

(* A request under way has a try left, and alarms are those of some rows. *)
TriesLast ==
  /\ tries <= max_tries
  /\ Phase # 0 => tries < max_tries
  /\ point = "alarms" => rest # <<>>

LEMMA TriesLastStep ==
  ASSUME CountsInv, TriesLast, [Next]_vars
  PROVE  TriesLast'
<1>1. tries \in Nat /\ max_tries \in Nat \ {0} /\ point \in Points
  BY TriesAssumption DEF CountsInv, CountsTypeOK
<1>2. CASE Step
  <2>1. CASE Count \/ SendNewRelic \/ SendCloudWatch \/ Finish
    BY <1>1, <2>1 DEF Count, SendNewRelic, SendCloudWatch, Finish, Goes, TriesLast, Phase
  <2>2. CASE PutMetricData \/ PutMetricAlarm
    BY <1>1, <2>2 DEF PutMetricData, PutMetricAlarm, FreshTries, AtMetrics, AtAlarm, Goes, TriesLast, Phase
  <2>3. CASE NextGroup
    BY <1>1, <2>3 DEF NextGroup, Goes, TriesLast, Phase
  <2> QED
    BY <1>2, <2>1, <2>2, <2>3 DEF Step
<1>3. CASE ClientError
  <2>1. /\ tries' = tries + 1 /\ rest' = rest /\ point \in {"metrics", "alarms"}
        /\ IF tries + 1 < max_tries THEN point' = point ELSE point' = "raised"
    BY <1>3 DEF ClientError, Errs, AtMetrics, AtAlarm, TriesLeft, Goes
  <2> QED
    BY <1>1, <2>1 DEF TriesLast, Phase
<1>4. CASE OtherError
  BY <1>1, <1>4 DEF OtherError, Errs, AtMetrics, AtAlarm, Goes, TriesLast, Phase
<1>5. CASE QueueChanges \/ UNCHANGED vars
  BY <1>5 DEF QueueChanges, vars, TriesLast, Phase
<1> QED
  BY <1>2, <1>3, <1>4, <1>5 DEF Next

(* new comes before old in the order of the first of five that differs. *)
Less(new, old) ==
  \E k \in 1..5 : new[k] < old[k] /\ \A i \in 1..(k - 1) : new[i] = old[i]

(* There are no endless descents in that order. *)
LEMMA LessIsWellFounded ==
  LET S == [1..5 -> Nat] IN
  IsWellFoundedOn({ab \in S \X S : Less(ab[1], ab[2])}, S)
<1> DEFINE S == [1..5 -> Nat]
           Below == OpToRel(<, Nat)
<1>1. IsWellFoundedOn(LexProductOrdering(Below, Nat, 5), S)
  BY NatLessThanWellFounded, WFLexProductOrdering
<1>2. \A m, n \in Nat : <<m, n>> \in Below <=> m < n
  BY DEF OpToRel
<1> HIDE DEF Below
<1>3. LexProductOrdering(Below, Nat, 5) = {ab \in S \X S : Less(ab[1], ab[2])}
  <2>1. \A ab \in S \X S : \A k \in 1..5 :
          <<ab[1][k], ab[2][k]>> \in Below <=> ab[1][k] < ab[2][k]
    BY <1>2
  <2> QED
    BY <2>1 DEF LexProductOrdering, Less
<1> QED
  BY <1>1, <1>3

LEMMA LeftIsNat ==
  ASSUME CountsInv, TriesLast
  PROVE  /\ Left \in [1..5 -> Nat]
         /\ Phase \in 0..4 /\ Len(rest) \in Nat /\ Len(group) \in Nat
         /\ tries \in Nat /\ max_tries \in Nat \ {0} /\ max_tries - tries \in Nat
<1>1. /\ Phase \in 0..4 /\ Len(rest) \in Nat /\ Len(group) \in Nat
      /\ tries \in Nat /\ max_tries \in Nat \ {0}
  BY TriesAssumption DEF CountsInv, CountsTypeOK, Phase
<1>2. max_tries - tries \in Nat
  BY <1>1 DEF TriesLast
<1> QED
  BY <1>1, <1>2 DEF Left

(* Who descends in one of the places is below. *)
LEMMA Descends ==
  ASSUME \/ Phase' < Phase
         \/ Phase' = Phase /\ Len(rest') < Len(rest)
         \/ Phase' = Phase /\ rest' = rest /\ point' # "metrics" /\ point = "metrics"
         \/ UNCHANGED <<point, rest>> /\ Len(group') < Len(group)
         \/ UNCHANGED <<point, rest, group>> /\ max_tries - tries' < max_tries - tries
  PROVE  Less(Left', Left)
<1> DEFINE new == Left'  old == Left
<1>1. /\ new[1] = Phase' /\ new[2] = Len(rest') /\ new[3] = (IF point' = "metrics" THEN 1 ELSE 0)
      /\ new[4] = Len(group') /\ new[5] = max_tries - tries'
  BY DEF Left
<1>2. /\ old[1] = Phase /\ old[2] = Len(rest) /\ old[3] = (IF point = "metrics" THEN 1 ELSE 0)
      /\ old[4] = Len(group) /\ old[5] = max_tries - tries
  BY DEF Left
<1>3. point' = point => Phase' = Phase
  BY DEF Phase
<1> HIDE DEF new, old
<1>4. SUFFICES \E k \in 1..5 : new[k] < old[k] /\ \A i \in 1..(k - 1) : new[i] = old[i]
  BY DEF Less, new, old
<1>5. CASE Phase' < Phase
  BY <1>1, <1>2, <1>5
<1>6. CASE Phase' = Phase /\ Len(rest') < Len(rest)
  <2>1. new[2] < old[2] /\ \A i \in 1..1 : new[i] = old[i]
    BY <1>1, <1>2, <1>6
  <2> QED
    BY <2>1
<1>7. CASE Phase' = Phase /\ rest' = rest /\ point' # "metrics" /\ point = "metrics"
  <2>1. new[3] < old[3] /\ \A i \in 1..2 : new[i] = old[i]
    BY <1>1, <1>2, <1>7
  <2> QED
    BY <2>1
<1>8. CASE UNCHANGED <<point, rest>> /\ Len(group') < Len(group)
  <2>1. new[4] < old[4] /\ \A i \in 1..3 : new[i] = old[i]
    BY <1>1, <1>2, <1>3, <1>8
  <2> QED
    BY <2>1
<1>9. CASE UNCHANGED <<point, rest, group>> /\ max_tries - tries' < max_tries - tries
  <2>1. new[5] < old[5] /\ \A i \in 1..4 : new[i] = old[i]
    BY <1>1, <1>2, <1>3, <1>9
  <2> QED
    BY <2>1
<1> QED
  BY <1>5, <1>6, <1>7, <1>8, <1>9

LEMMA StepDescends ==
  ASSUME CountsInv, TriesLast, Step \/ ClientError \/ OtherError
  PROVE  Less(Left', Left)
<1>1. /\ rest \in Seq(Row) /\ group \in Seq(Row)
      /\ Len(rest) \in Nat /\ Len(group) \in Nat
      /\ tries \in Nat /\ max_tries \in Nat \ {0}
  BY LeftIsNat DEF CountsInv, CountsTypeOK
<1>2. CASE Count \/ SendNewRelic \/ SendCloudWatch \/ Finish \/ OtherError
  <2>1. Phase' < Phase
    BY <1>2 DEF Count, SendNewRelic, SendCloudWatch, Finish, OtherError, Errs, AtMetrics, AtAlarm,
                Goes, Phase
  <2> QED
    BY <2>1, Descends
<1>3. CASE PutMetricData
  <2>1. Phase' = Phase /\ rest' = rest /\ point' # "metrics" /\ point = "metrics"
    BY <1>3 DEF PutMetricData, AtMetrics, Goes, Phase
  <2> QED
    BY <2>1, Descends
<1>4. CASE PutMetricAlarm
  <2>1. UNCHANGED <<point, rest>> /\ group # <<>> /\ group' = Tail(group)
    BY <1>4 DEF PutMetricAlarm, AtAlarm
  <2>2. Len(group') = Len(group) - 1
    BY <1>1, <2>1, HeadTailProperties
  <2>3. Len(group') < Len(group)
    BY <1>1, <2>2
  <2> QED
    BY <2>1, <2>3, Descends
<1>5. CASE NextGroup
  <2>1. /\ point = "alarms" /\ point' = "metrics" /\ rest # <<>>
        /\ rest' = SubSeq(rest, GroupSize + 1, Len(rest))
    BY <1>5 DEF NextGroup, Goes, TriesLast
  <2>2. Len(rest') = Len(rest) - Len(Group(rest))
    BY <1>1, <2>1, RestEnds
  <2>3. Len(Group(rest)) = IF Len(rest) < GroupSize THEN Len(rest) ELSE GroupSize
    BY <1>1, GroupBegins
  <2>4. Len(rest) # 0
    BY <1>1, <2>1, EmptySeq
  <2>5. Len(rest') < Len(rest) /\ Phase' = Phase
    BY <1>1, <2>1, <2>2, <2>3, <2>4, GroupAssumption DEF Phase
  <2> QED
    BY <2>5, Descends
<1>6. CASE ClientError
  <2>1. /\ UNCHANGED <<rest, group>> /\ tries' = tries + 1 /\ point \in {"metrics", "alarms"}
        /\ point' = point \/ point' = "raised"
    BY <1>6 DEF ClientError, Errs, AtMetrics, AtAlarm, Goes
  <2>2. CASE point' = point
    BY <1>1, <2>1, <2>2, Descends
  <2>3. CASE point' = "raised"
    BY <2>1, <2>3, Descends DEF Phase
  <2> QED
    BY <2>1, <2>2, <2>3
<1> QED
  BY <1>2, <1>3, <1>4, <1>5, <1>6 DEF Step

(* Every step of the command, its errors included, brings it closer to its   *)
(* end, and nothing that happens to the queues takes it further away: it     *)
(* ends after finitely many steps, whatever CloudWatch answers.              *)
THEOREM EveryStepDescends ==
  Spec => /\ [](Left \in [1..5 -> Nat])
          /\ [][IF Step \/ ClientError \/ OtherError THEN Less(Left', Left) ELSE Left' = Left]_vars
<1>1. CountsInv /\ [Next]_vars => CountsInv'
  BY NextCountsInv
<1>2. CountsInv /\ TriesLast /\ [Next]_vars => TriesLast'
  BY TriesLastStep
<1>3. Init => TriesLast
  BY TriesAssumption DEF Init, TriesLast, Phase
<1>4. CountsInv /\ TriesLast => Left \in [1..5 -> Nat]
  BY LeftIsNat
<1>5. ASSUME CountsInv, TriesLast, Next
      PROVE  IF Step \/ ClientError \/ OtherError THEN Less(Left', Left) ELSE Left' = Left
  <2>1. CASE Step \/ ClientError \/ OtherError
    BY <1>5, <2>1, StepDescends
  <2>2. CASE ~(Step \/ ClientError \/ OtherError)
    <3>1. UNCHANGED <<point, rest, group, tries>>
      BY <1>5, <2>2 DEF Next, QueueChanges
    <3>2. Phase' = Phase
      BY <3>1 DEF Phase
    <3> QED
      BY <2>2, <3>1, <3>2 DEF Left
  <2> QED
    BY <2>1, <2>2
<1> QED
  BY <1>1, <1>2, <1>3, <1>4, <1>5, InitCountsInv, PTL DEF Spec
=============================================================================

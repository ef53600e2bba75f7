----------------------------- MODULE QueueReport -----------------------------
(***************************************************************************)
(* What count_queued_submissions promises to those who watch CloudWatch:   *)
(* the queues are listed once, longest first; CloudWatch shows a beginning *)
(* of the list, which only grows; and a complete report shows all of it.   *)
(***************************************************************************)
EXTENDS Naturals, Sequences

CONSTANT Queues

VARIABLES
  list,      \* the queues and their lengths
  shown,     \* what of it CloudWatch shows
  verdict    \* "under way", "complete" or "cut short"

vars == <<list, shown, verdict>>

Row == [queue_name : Queues, queue_count : Nat]

LongestFirst(rows) ==
  \A i, j \in DOMAIN rows : i < j => rows[i].queue_count >= rows[j].queue_count

NamesDiffer(rows) ==
  \A i, j \in DOMAIN rows : rows[i].queue_name = rows[j].queue_name => i = j

First(n) == {list[i] : i \in 1..n}

Init == list = <<>> /\ shown = {} /\ verdict = "under way"

Take ==
  /\ verdict = "under way" /\ list = <<>>
  /\ list' \in Seq(Row) /\ LongestFirst(list') /\ NamesDiffer(list')
  /\ UNCHANGED <<shown, verdict>>

(* More of the list is shown, and the report may end there. *)
Show ==
  /\ verdict = "under way"
  /\ \E n \in 0..Len(list) : shown' = First(n)
  /\ shown \subseteq shown'
  /\ verdict' \in {"under way", "complete", "cut short"}
  /\ verdict' = "complete" => shown' = First(Len(list))
  /\ UNCHANGED list

Next == Take \/ Show

Spec == Init /\ [][Next]_vars
=============================================================================

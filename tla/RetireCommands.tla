--------------------------- MODULE RetireCommands ---------------------------
(***************************************************************************)
(* The management commands that go through the table by hand or by cron:   *)
(* retire_failed_submissions (with and without --force),                   *)
(* retire_old_submissions and delete_old_submissions.                      *)
(*                                                                         *)
(* The retiring commands evaluate their query once, then report each row   *)
(* of the result to the LMS and save it from the copy they hold; the       *)
(* deleting command queries again for every chunk.  They run beside each   *)
(* other, and may be interrupted at any point.                             *)
(***************************************************************************)
EXTENDS Submission

CONSTANTS
  Commands,           \* processes that run a command
  Jobs,               \* the commands with their arguments
  NoJob,              \* the job of a process that runs none
  NoSubmission,       \* the row in hand of a process that has none
  ChunkSize           \* --chunk_size

(* retire_failed_submissions is run for all queues or for those it is given, *)
(* one after the other: a job of its own for each of them.                   *)
Job == [kind: {"failed", "forced", "old", "delete"}, queues: SUBSET Queues, before: Nat]

ASSUME JobsAssumption == Jobs \subseteq Job
ASSUME NoJobAssumption == NoJob \notin Jobs
ASSUME ChunkSizeAssumption == ChunkSize \in Nat \ {0}

VARIABLES
  job,        \* what each process does
  snapshot,   \* rows of its query, or of its chunk, that it has not come to
  current,    \* the row it has changed in memory and will save
  accounted   \* ids the LMS was called about, or that --force spares the call

commandVars == <<job, snapshot, current, accounted>>
vars == <<tableVars, commandVars>>

CommandTypeOK ==
  /\ TableTypeOK
  /\ job \in [Commands -> Jobs \cup {NoJob}]
  /\ \A c \in Commands : snapshot[c] \subseteq Row /\ current[c] \in Row \cup {NoSubmission}
  /\ accounted \subseteq Ids

-----------------------------------------------------------------------------
(* A mutant of HasFailed: exclude(num_failures=0) is forgotten. *)
HasFailedOrNot(row) == row.num_failures >= MAX_NUMBER_OF_FAILURES

HasFailed(row) == row.num_failures # 0 /\ row.num_failures >= MAX_NUMBER_OF_FAILURES

(* A mutant of Chosen: the failures are not looked at. *)
ChosenUnread(j, row) == row.queue_name \in j.queues /\ ~row.retired

(* The rows a retiring command works on. *)
Chosen(j, row) ==
  /\ row.queue_name \in j.queues /\ ~row.retired
  /\ \/ j.kind \in {"failed", "forced"} /\ HasFailed(row)
     \/ j.kind = "old" /\ row.arrival_time <= j.before

Old(t) == {s \in DOMAIN table : table[s].arrival_time <= t}

Has(c, kinds) == job[c] # NoJob /\ job[c].kind \in kinds

Starts(c, j, rows) ==
  /\ job' = [job EXCEPT ![c] = j]
  /\ snapshot' = [snapshot EXCEPT ![c] = rows]
  /\ current' = [current EXCEPT ![c] = NoSubmission]

Rows == {table[s] : s \in DOMAIN table}

(* A mutant of Query: it selects the ids, as delete_old_submissions does. *)
QueryOfIds(j) == {row.id : row \in {r \in Rows : Chosen(j, r)}}

Query(j) == {row \in Rows : Chosen(j, row)}

(* The command is called and evaluates its query.  What is inserted from now *)
(* on arrives after delete_date.                                             *)
Start(c) ==
  /\ job[c] = NoJob
  /\ \E j \in Jobs :
       /\ j.kind = "delete" => j.before < now
       /\ Starts(c, j, Query(j))
  /\ UNCHANGED <<tableVars, accounted>>

Takes(c, row, outcome) ==
  /\ current[c] = NoSubmission
  /\ snapshot' = [snapshot EXCEPT ![c] = @ \ {row}]
  /\ current' = [current EXCEPT ![c] = outcome]
  /\ UNCHANGED <<table, lock, now, faults, job>>

(* Mutants of Notified. *)
NotifiedForSure(j, row, success) == [row EXCEPT !.lms_ack = TRUE, !.retired = TRUE]
RetiredIfNotified(j, row, success) == [row EXCEPT !.lms_ack = success, !.retired = success]

(* retire_old retires the row whatever the LMS says, retire_failed does not. *)
Notified(j, row, success) ==
  [row EXCEPT !.lms_ack = success, !.retired = j.kind = "old" \/ success]

(* post_failure_to_lms (module LmsDelivery) returns for a row. *)
Notify(c) ==
  /\ Has(c, {"failed", "old"})
  /\ \E row \in snapshot[c], success \in BOOLEAN :
       /\ Takes(c, row, Notified(job[c], row, success))
       /\ accounted' = accounted \cup {row.id}
       /\ acked' = IF success THEN acked \cup {row.id} ELSE acked

(* A mutant of WithoutNotice: --force goes for every retiring command. *)
NoticeDropped(c) == Has(c, {"forced", "old"})

WithoutNotice(c) == Has(c, {"forced"})

RetireForced(c) ==
  /\ WithoutNotice(c)
  /\ \E row \in snapshot[c] :
       /\ Takes(c, row, [row EXCEPT !.retired = TRUE])
       /\ accounted' = IF job[c].kind = "forced" THEN accounted \cup {row.id} ELSE accounted
  /\ UNCHANGED acked

Save(c) ==
  /\ current[c] # NoSubmission
  /\ Unlocked(current[c].id)
  /\ table' = Saved(current[c])
  /\ current' = [current EXCEPT ![c] = NoSubmission]
  /\ UNCHANGED <<lock, now, faults, acked, job, snapshot, accounted>>

(* A mutant of Chunks: the chunk ends one row early. *)
ChunksOneShort(S) == {B \in SUBSET S : Cardinality(B) < ChunkSize}

(* old_submissions[:chunk_size], in no particular order. *)
Chunks(S) ==
  {B \in SUBSET S : Cardinality(B) = ChunkSize \/ (B = S /\ Cardinality(S) < ChunkSize)}

(* exists, then list(batch_ids): the rows of the next chunk. *)
SelectChunk(c) ==
  /\ Has(c, {"delete"}) /\ snapshot[c] = {}
  /\ \E B \in Chunks(Old(job[c].before)) :
       /\ B # {}
       /\ snapshot' = [snapshot EXCEPT ![c] = {table[s] : s \in B}]
  /\ UNCHANGED <<tableVars, job, current, accounted>>

(* One DELETE, by the ids: whoever saved a row of the chunk since, and       *)
(* whatever its age is now, it goes.                                         *)
DeleteChunk(c) ==
  LET B == {row.id : row \in snapshot[c]} IN
    /\ Has(c, {"delete"}) /\ snapshot[c] # {}
    /\ \A s \in B : Unlocked(s)
    /\ table' = [s \in DOMAIN table \ B |-> table[s]]
    /\ snapshot' = [snapshot EXCEPT ![c] = {}]
    /\ UNCHANGED <<lock, now, faults, acked, job, current, accounted>>

(* A mutant of Finish: the command ends when a row has been saved. *)
EndsEarly(c) ==
  /\ job[c] # NoJob /\ current[c] = NoSubmission
  /\ Has(c, {"delete"}) => Old(job[c].before) = {}
  /\ Starts(c, NoJob, {})
  /\ UNCHANGED <<tableVars, accounted>>

Finish(c) ==
  /\ job[c] # NoJob
  /\ snapshot[c] = {} /\ current[c] = NoSubmission
  /\ Has(c, {"delete"}) => Old(job[c].before) = {}
  /\ Starts(c, NoJob, {})
  /\ UNCHANGED <<tableVars, accounted>>

(* An exception or an interrupt: the rows not come to are left as they are. *)
Abort(c) ==
  /\ job[c] # NoJob
  /\ Fault
  /\ Starts(c, NoJob, {})
  /\ UNCHANGED <<table, lock, now, acked, accounted>>

-----------------------------------------------------------------------------
CommandInit ==
  /\ job = [c \in Commands |-> NoJob]
  /\ snapshot = [c \in Commands |-> {}]
  /\ current = [c \in Commands |-> NoSubmission]
  /\ accounted = {}

(* Every id was submitted and has been pulled if it has failures, which may   *)
(* have been counted under an earlier, larger maximum.  The clock stands     *)
(* still: a command looks at it only when it starts.                         *)
Init ==
  /\ CommandInit
  /\ lock = [s \in Ids |-> NoOwner]
  /\ now = 2
  /\ faults = 0
  /\ acked = {}
  /\ \E q \in [Ids -> Queues], url \in [Ids -> Urls], t \in [Ids -> 0..2],
        n \in [Ids -> 0..MAX_NUMBER_OF_FAILURES + 1], k \in [Ids -> Keys] :
       table = [s \in Ids |->
         [NewSubmission(s, q[s], url[s], t[s]) EXCEPT
            !.num_failures = n[s],
            !.pull_time = IF n[s] = 0 THEN Null ELSE 2,
            !.pullkey = IF n[s] = 0 THEN NoKey ELSE k[s]]]

Step(c) == Notify(c) \/ RetireForced(c) \/ Save(c) \/ SelectChunk(c) \/ DeleteChunk(c)
             \/ Finish(c)

Next == \E c \in Commands : Start(c) \/ Step(c) \/ Abort(c)

Spec == Init /\ [][Next]_vars

(* A command that was started goes on: every call it makes has a timeout. *)
FairSpec == Spec /\ \A c \in Commands : WF_vars(Step(c))

-----------------------------------------------------------------------------
(* Without --force no submission is retired in silence: the LMS was sent a   *)
(* failure, so that the learner can submit again, before the row is saved.   *)
RetiredIsNotified == \A s \in DOMAIN table : table[s].retired => s \in accounted

Holds(c, s) == job[c] # NoJob /\ current[c] # NoSubmission /\ current[c].id = s

(* In this step command c saves its copy of s. *)
Saves(c, s) == Holds(c, s) /\ current'[c] = NoSubmission

(* A row is retired for a reason that still holds at the save, after the     *)
(* calls to the LMS for all the rows before it and whatever the other        *)
(* commands did meanwhile: the query of the command would find the row again *)
(* (but for one that was deleted, inserted again by another command's save,  *)
(* and so arrived anew), and nothing is retired for failures that it does    *)
(* not have, also when the maximum is 0.                                     *)
(* At exactly MAX_NUMBER_OF_FAILURES, and exactly at the date, the queries   *)
(* (>= and <=) and the help texts of the commands ("more than" and <) differ;*)
(* neither this property nor the next one says which of them is right.       *)
RetiredForAReason ==
  [][\A s \in DOMAIN table \cap DOMAIN table' :
       ~table[s].retired /\ table'[s].retired =>
         \E c \in Commands :
           /\ Saves(c, s)
           /\ \/ Chosen(job[c], table[s])
              \/ Has(c, {"old"}) /\ table[s].queue_name \in job[c].queues
                   /\ current[c].arrival_time < table[s].arrival_time
           /\ Has(c, {"failed", "forced"}) => table[s].num_failures # 0]_vars

(* What a command is called for, by its help text and its code alike: more   *)
(* failures than the maximum, or an arrival before the date.                 *)
Due(j, row) ==
  /\ row.queue_name \in j.queues
  /\ \/ j.kind \in {"failed", "forced"} /\ row.num_failures > MAX_NUMBER_OF_FAILURES
     \/ j.kind = "old" /\ row.arrival_time < j.before

(* A command that ends of itself leaves out no submission it was called for: *)
(* of each that is in the table then, also of one that was deleted since the *)
(* query and saved again, the LMS has been told, or --force spared the call. *)
NoneLeftOut ==
  [][\A c \in Commands : job[c] # NoJob /\ job'[c] = NoJob /\ faults' = faults =>
       \A s \in DOMAIN table : Due(job[c], table[s]) => s \in accounted]_vars

(* However the commands overlap, only one of them makes a retired row        *)
(* available again: retire_failed_submissions, when it holds a copy from     *)
(* before the retirement and the LMS does not take its notice.               *)
ReopenedOnlyByFailedNotice ==
  [][\A s \in DOMAIN table \cap DOMAIN table' :
       table[s].retired /\ ~table'[s].retired =>
         \E c \in Commands : Has(c, {"failed"}) /\ Saves(c, s) /\ ~current[c].lms_ack]_vars

(* Every command ends, also a deletion of chunks beside commands that save   *)
(* rows it has deleted.                                                      *)
CommandsEnd == \A c \in Commands : (job[c] # NoJob) ~> (job[c] = NoJob)
=============================================================================

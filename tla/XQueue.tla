------------------------------- MODULE XQueue -------------------------------
(***************************************************************************)
(* The whole service: the LMS submits, graders pull, a push worker runs    *)
(* for each queue that has one and commands are called, all on one table.  *)
(*                                                                         *)
(* A step of the service is a step of one component: its module is         *)
(* instantiated on the shared table with the variables of its own.  A web  *)
(* worker serves one request at a time, of either interface (urls.py).     *)
(***************************************************************************)
EXTENDS Submission

CONSTANTS
  WebWorkers, ATOMIC_REQUESTS, MaxGraders, MaxResends,  \* of PullInterface
  CallbackUrls, Truncated, NoRequest,                   \* of LmsInterface
  Workers, QueueOf, MaxKills,                           \* of PushConsumer
  Commands, Jobs, NoJob, ChunkSize,                     \* of RetireCommands
  NoSubmission,
  MaxEvents      \* bound: commands, faults, signals, resends and minutes, together

ASSUME UrlsAssumption == Truncated \in [CallbackUrls -> Urls]
ASSUME HandlerAssumption == NoOwner \notin WebWorkers

VARIABLES
  handler, submission, tickets, resends, failedReplies,
  submitter, request, callback, lost,
  worker, delivery, monitored, kills, gradings, reported,
  job, snapshot, current, accounted,
  superseded,    \* ids that a submit for the same (user, module) has retired
  ungraded,      \* how often the grader failed each id that was pushed to it
  commands       \* commands called so far

Pull == INSTANCE PullInterface
Lms == INSTANCE LmsInterface
Push == INSTANCE PushConsumer
Cmd == INSTANCE RetireCommands

pullVars == <<handler, submission, tickets, resends, failedReplies>>
submitVars == <<submitter, request, callback, lost>>
pushVars == <<worker, delivery, monitored, kills, gradings, reported>>
commandVars == <<job, snapshot, current, accounted>>
historyVars == <<superseded, ungraded, commands>>
vars == <<tableVars, pullVars, submitVars, pushVars, commandVars, historyVars>>

-----------------------------------------------------------------------------
(* The steps of the components *)

Submits(w) ==
  /\ handler[w] = "idle"
  /\ Lms!Submit(w)
  /\ superseded' = superseded \cup {s \in DOMAIN table : ~table[s].retired /\ table'[s].retired}
  /\ UNCHANGED <<pullVars, pushVars, commandVars, ungraded, commands>>

Pulls(w) ==
  /\ submitter[w] = "idle"
  /\ Pull!Get(w) \/ Pull!Put(w) \/ Pull!GetSubmissionFails(w) \/ Pull!RequestAborts(w)
  /\ UNCHANGED <<submitVars, pushVars, commandVars, historyVars>>

Forgets ==
  /\ \E t \in tickets : Pull!GraderForgets(t)
  /\ UNCHANGED <<submitVars, pushVars, commandVars, historyVars>>

Pushes(p) ==
  /\ Push!Deliver(p) \/ Push!Crash(p) \/ Push!Kill(p) \/ Push!Monitor(p)
  /\ ungraded' = IF worker'[p] = "ungraded" /\ worker[p] # "ungraded"
                   THEN [ungraded EXCEPT ![delivery[p].id] = @ + 1] ELSE ungraded
  /\ UNCHANGED <<pullVars, submitVars, commandVars, superseded, commands>>

Commences(c) ==
  /\ Cmd!Start(c)
  /\ commands' = commands + 1
  /\ UNCHANGED <<pullVars, submitVars, pushVars, superseded, ungraded>>

Proceeds(c) ==
  /\ Cmd!Step(c) \/ Cmd!Abort(c)
  /\ UNCHANGED <<pullVars, submitVars, pushVars, historyVars>>

(* One clock for all: time passes while a pull or a push is within the delay. *)
Tick ==
  /\ now < MaxTime
  /\ \E t \in Pull!PullTimes \cup Push!PushTimes : Within(t)
  /\ now' = now + 1
  /\ UNCHANGED <<table, lock, faults, acked,
                 pullVars, submitVars, pushVars, commandVars, historyVars>>

-----------------------------------------------------------------------------
(* The service is started on an empty table. *)
Init ==
  /\ table = [s \in {} |-> NoRequest]
  /\ now = 0
  /\ Pull!PullInit /\ Lms!SubmitInit /\ Push!PushInit /\ Cmd!CommandInit
  /\ superseded = {}
  /\ ungraded = [s \in Ids |-> 0]
  /\ commands = 0

Step ==
  \/ \E w \in WebWorkers : Submits(w) \/ Pulls(w)
  \/ Forgets
  \/ \E p \in Workers : Pushes(p)
  \/ \E c \in Commands : Commences(c) \/ Proceeds(c)
  \/ Tick

(* Bound: what disturbs the plain flow of submissions happens this often. *)
Events == commands + faults + kills + resends + now

Next == Step /\ Events' <= MaxEvents

Spec == Init /\ [][Next]_vars

-----------------------------------------------------------------------------
(* Whichever component wrote a row last, from however old a copy: when it    *)
(* says lms_ack, the LMS has answered 200 to a grade or a notice for it.     *)
EveryAckIsReal == \A s \in DOMAIN table : table[s].lms_ack => s \in acked

(* No submission ends in silence: a row that is retired, by whichever writer, *)
(* was taken by the LMS, failed there too often, was reported on by a worker  *)
(* or a command (or spared that by --force), or has a successor's submit.     *)
NoSilentEnd ==
  \A s \in DOMAIN table : table[s].retired =>
    \/ s \in acked \cup reported \cup accounted \cup superseded
    \/ failedReplies[s] > MAX_NUMBER_OF_FAILURES

(* When retire_failed_submissions tells a learner that the submission could  *)
(* not be graded, it has failed, and graders or the LMS have failed it as    *)
(* often as the copy says that the command judges it by, though rows were    *)
(* saved from older copies since.  (How many failures are enough is not in   *)
(* question here: the command's code, line 50, and its help text, line 15,   *)
(* differ about exactly MAX_NUMBER_OF_FAILURES.)                             *)
NoticeIsDeserved ==
  [][\A c \in Commands : \A row \in snapshot[c] \ snapshot'[c] :
       Cmd!Has(c, {"failed"}) /\ job'[c] # NoJob =>
         /\ row.num_failures # 0
         /\ row.num_failures <= failedReplies[row.id] + ungraded[row.id]]_vars

(* While put_result holds the lock of a row, no submit, push worker or       *)
(* command changes it either.                                                *)
LockHoldsForAll ==
  [][\A w \in WebWorkers :
       Pull!InPutResult(w) /\ submission[w].id \in DOMAIN table
         /\ (submission[w].id \notin DOMAIN table'
              \/ table'[submission[w].id] # table[submission[w].id])
         => handler'[w] = "idle"]_vars

(* In this step web worker w goes on with its request, which is about row s. *)
WebWorkerOn(w, s) == handler'[w] # handler[w] /\ submission[w].id = s

SavesCopy(s) == \E w \in WebWorkers :
  WebWorkerOn(w, s) /\ handler[w] \in {"get_save", "get_reply"} /\ ~submission[w].retired

SavesFailure(s) == \E w \in WebWorkers :
  WebWorkerOn(w, s) /\ handler[w] = "put_save" /\ ~submission[w].lms_ack

SavesUnheard(s) == \E c \in Commands :
  Cmd!Has(c, {"failed"}) /\ Cmd!Saves(c, s) /\ ~current[c].lms_ack

(* Retired by another than the graders' put_result, which leaves the pull key *)
(* of the row as it is.                                                       *)
EndedElsewhere(s) == s \in superseded \cup reported \cup accounted

(* A retired submission becomes available again in three ways only.  A        *)
(* get_submission writes back the copy it read.  Or the LMS does not take the *)
(* notice of retire_failed_submissions.  Or it does not take a result: one    *)
(* that was sent again, or the first one for a submission that a submit, a    *)
(* push worker or a command ended while the grader had it (put_result looks   *)
(* at the key only, not at retired).  A push worker or a submit opens none,   *)
(* and among the graders a result that is sent once opens none.               *)
ReopenedOnlyByThese ==
  [][\A s \in DOMAIN table \cap DOMAIN table' :
       table[s].retired /\ ~table'[s].retired =>
         \/ SavesCopy(s)
         \/ SavesUnheard(s)
         \/ SavesFailure(s) /\ (resends > 0 \/ EndedElsewhere(s))]_vars

=============================================================================

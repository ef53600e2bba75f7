------------------------ MODULE IntegrationFramework ------------------------
(***************************************************************************)
(* The integration framework, test_framework/integration_framework.py: a   *)
(* test case with its XQueueTestClient and its GradeResponseListener, and  *)
(* a grader stub, around an xqueue.                                        *)
(*                                                                         *)
(*   test case     sending -> looking <-> asleep -> teardown -> over       *)
(*   carrier       check -> fetch -> grade -> push -> check                *)
(*                                                                         *)
(* The carrier takes a submission from the queue to the grader and the     *)
(* result to the listener.  For an ActiveGraderStub it is the stub's poll  *)
(* thread (whose test client runs put_result in the thread itself), for a  *)
(* PassiveGraderStub it is a Worker of the xqueue, which has no flag to    *)
(* check.  SUBMISSION_PROCESSING_DELAY is longer than a test takes: what   *)
(* was handed out does not come back.                                      *)
(***************************************************************************)
EXTENDS Naturals, FiniteSets, Sequences

CONSTANTS
  Submissions,    \* what the test case sends
  Nothing,        \* what the carrier holds when it holds no submission
  Wanted,         \* poll_func: the listener has this many responses
  timeout,        \* arguments of block_until
  sleep_time,
  Oversleep,      \* bound: how much longer than asked for a sleep may be
  MAX_ATTEMPTS,   \* the 5 of post_grade_to_lms
  MaxFaults       \* bound: exceptions, failed graders and garbled replies

ASSUME TimesAssumption == timeout \in Nat /\ sleep_time \in Nat \ {0}
ASSUME WantedAssumption == Wanted \in Nat \ {0}
ASSUME AttemptsAssumption == MAX_ATTEMPTS \in Nat \ {0}
ASSUME FaultsAssumption == Oversleep \in Nat /\ MaxFaults \in Nat

VARIABLES
  stub,          \* "active" or "passive"
  test,          \* where the test case is
  unsent,        \* submissions it has not sent yet
  clock, last_time, total_time,   \* of block_until
  looks,         \* calls of poll_func that returned False
  outcome,       \* what block_until returned
  queue,         \* submissions the xqueue will hand out
  carrier, held, body, attempts,
  is_polling,    \* the flag of the active stub
  late,          \* fetches begun since the grader was stopped: 0, 1, or 2 for more
  listening,     \* whether the listener accepts connections
  handled,       \* its threads: POSTs that were read and are not logged yet
  request_list,  \* _request_list, and how many looks came before each entry
  faults

testVars == <<test, unsent, clock, last_time, total_time, looks, outcome>>
carrierVars == <<queue, carrier, held, body, attempts, late>>
listenerVars == <<handled, request_list>>
vars == <<stub, testVars, carrierVars, is_polling, listening, listenerVars, faults>>

Bodies == {"grade", "failure", "garbled"}
Response == [of: Submissions, body: Bodies]

Fault == faults < MaxFaults /\ faults' = faults + 1

-----------------------------------------------------------------------------
(* The replies of the HTTP handlers: BaseHTTPRequestHandler keeps status and *)
(* headers in a buffer that end_headers sends; nothing sends it after that.  *)

(* A mutant of GradingReply: the order of LoggingRequestHandler. *)
GradingReplyHeadless == <<"send_header", "end_headers", "send_response">>

GradingReply == <<"send_response", "send_header", "end_headers">>

LoggingReply == <<"send_header", "end_headers", "send_response">>

(* requests takes a reply without a status line for a lost connection. *)
Readable(reply) ==
  \E i, j \in DOMAIN reply : i < j /\ reply[i] = "send_response" /\ reply[j] = "end_headers"

-----------------------------------------------------------------------------
(* The test case *)

(* send_request: every request of a client has the same callback URL, so    *)
(* submit retires what the client sent before and nobody has taken yet.     *)
SendRequest ==
  /\ test = "sending"
  /\ \E s \in unsent : queue' = {s} /\ unsent' = unsent \ {s}
  /\ UNCHANGED <<stub, test, clock, last_time, total_time, looks, outcome,
                 carrier, held, body, attempts, late, is_polling, listening, listenerVars, faults>>

Blocks ==
  /\ test = "sending" /\ unsent = {}
  /\ test' = "looking"
  /\ UNCHANGED <<stub, unsent, clock, last_time, total_time, looks, outcome,
                 carrierVars, is_polling, listening, listenerVars, faults>>

(* block_until: one turn of its loop, and its sleep. *)
Look ==
  /\ test = "looking"
  /\ \/ total_time >= timeout
        /\ test' = "teardown" /\ outcome' = "False" /\ UNCHANGED looks
     \/ total_time < timeout /\ Len(request_list) >= Wanted
        /\ test' = "teardown" /\ outcome' = "True" /\ UNCHANGED looks
     \/ total_time < timeout /\ Len(request_list) < Wanted
        /\ test' = "asleep" /\ looks' = looks + 1 /\ UNCHANGED outcome
  /\ UNCHANGED <<stub, unsent, clock, last_time, total_time,
                 carrierVars, is_polling, listening, listenerVars, faults>>

(* A mutant of Elapsed: last_time is not set anew. *)
ElapsedSinceStart(at) == at

Elapsed(at) == at - last_time

Wake ==
  /\ test = "asleep"
  /\ test' = "looking"
  /\ \E d \in sleep_time..(sleep_time + Oversleep) : clock' = clock + d
  /\ total_time' = total_time + Elapsed(clock')
  /\ last_time' = clock'
  /\ UNCHANGED <<stub, unsent, looks, outcome,
                 carrierVars, is_polling, listening, listenerVars, faults>>

(* A mutant of Halted: the workers are left running. *)
WorkersLeft == carrier

(* stop of the stub: the passive one terminates the workers it started. *)
Halted == IF stub = "passive" THEN "stopped" ELSE carrier

(* tearDown: the stub is stopped, then the listener. *)
StopGrader ==
  /\ test = "teardown" /\ is_polling
  /\ is_polling' = FALSE
  /\ carrier' = Halted
  /\ UNCHANGED <<stub, testVars, queue, held, body, attempts, late, listening, listenerVars, faults>>

StopListener ==
  /\ test = "teardown" /\ ~is_polling
  /\ test' = "over"
  /\ listening' = FALSE
  /\ UNCHANGED <<stub, unsent, clock, last_time, total_time, looks, outcome,
                 carrierVars, is_polling, listenerVars, faults>>

-----------------------------------------------------------------------------
(* The carrier *)

Moves(to) == carrier' = to

(* A mutant of KeepsPolling: the flag is not looked at again. *)
AlwaysPolls == TRUE

(* "Check the running flag": a Worker has none, and is terminated instead. *)
KeepsPolling == stub = "passive" \/ is_polling

Check ==
  /\ carrier = "check"
  /\ Moves(IF KeepsPolling THEN "fetch" ELSE "stopped")
  /\ UNCHANGED <<stub, testVars, queue, held, body, attempts, late, is_polling,
                 listening, listenerVars, faults>>

(* _pop_submission, or the fetch of the Worker: what is in the queue, or     *)
(* nothing if the queue is empty or the request fails.                       *)
Fetch ==
  /\ carrier = "fetch"
  /\ \/ \E s \in queue : held' = s /\ queue' = queue \ {s} /\ Moves("grade") /\ UNCHANGED faults
     \/ queue = {} /\ Moves("check") /\ UNCHANGED <<queue, held, faults>>
     \/ stub = "active" /\ Fault /\ Moves("check") /\ UNCHANGED <<queue, held>>
  /\ late' = IF is_polling \/ late = 2 THEN late ELSE late + 1
  /\ UNCHANGED <<stub, testVars, body, attempts, is_polling, listening, listenerVars>>

Gives(b) == body' = b /\ Moves("push") /\ UNCHANGED held

Drops(to) == held' = Nothing /\ Moves(to) /\ UNCHANGED body

(* response_for_submission in the poll thread, and put_result, which does    *)
(* not take a response that is invalid.                                      *)
GradeActive ==
  \/ Gives("grade") /\ UNCHANGED faults
  \/ Drops("check") /\ Fault

(* The Worker posts to the grader, which answers, fails, or, if it is not a  *)
(* stub, answers with what is not JSON.                                      *)
GradePassive ==
  \/ Gives(IF Readable(GradingReply) THEN "grade" ELSE "failure") /\ UNCHANGED faults
  \/ \E b \in {"failure", "garbled"} : Gives(b) /\ Fault

(* An exception ends the thread, or the Worker. *)
Grade ==
  /\ carrier = "grade"
  /\ \/ stub = "active" /\ GradeActive
     \/ stub = "passive" /\ GradePassive
     \/ Drops("dead") /\ Fault
  /\ UNCHANGED <<stub, testVars, queue, attempts, late, is_polling, listening, listenerVars>>

(* One attempt of post_grade_to_lms.  A thread of the listener reads the     *)
(* POST and replies, whether or not the attempts go on, before it logs it.   *)
Post ==
  /\ carrier = "push"
  /\ handled' = IF listening THEN [handled EXCEPT ![[of |-> held, body |-> body]] = @ + 1]
                             ELSE handled
  /\ IF attempts + 1 < MAX_ATTEMPTS /\ ~(listening /\ Readable(LoggingReply))
       THEN attempts' = attempts + 1 /\ UNCHANGED <<carrier, held, body>>
       ELSE attempts' = 0 /\ body' = Nothing /\ held' = Nothing /\ Moves("check")
  /\ UNCHANGED <<stub, testVars, queue, late, is_polling, listening, request_list, faults>>

(* _parse_post_dict raises no KeyError or ValueError. *)
Parses(response) == response.body # "garbled"

(* log_grade_response of what parses, in a thread of the listener.           *)
(* Threads overtake each other, and outlive stop.                            *)
Log ==
  /\ \E r \in Response :
       /\ handled[r] > 0
       /\ handled' = [handled EXCEPT ![r] = @ - 1]
       /\ request_list' = IF Parses(r) THEN Append(request_list, [response |-> r, looks |-> looks])
                                     ELSE request_list
  /\ UNCHANGED <<stub, testVars, carrierVars, is_polling, listening, faults>>

-----------------------------------------------------------------------------
StubInit ==
  /\ stub \in {"active", "passive"}
  /\ is_polling = TRUE /\ late = 0
  /\ queue = {}
  /\ carrier = "check" /\ held = Nothing /\ body = Nothing /\ attempts = 0

ListenerInit ==
  /\ listening = TRUE
  /\ handled = [r \in Response |-> 0]
  /\ request_list = <<>>

(* setUp of the test cases: the stub polls before anything is sent. *)
Init ==
  /\ StubInit
  /\ ListenerInit
  /\ test = "sending" /\ unsent = Submissions
  /\ clock = 0 /\ last_time = 0 /\ total_time = 0
  /\ looks = 0 /\ outcome = "None"
  /\ faults = 0

Over == test = "over" /\ carrier \in {"stopped", "dead"}

(* Everything has ended, and the threads of the listener are done. *)
Ended == Over /\ (\A r \in Response : handled[r] = 0) /\ UNCHANGED vars

TestCase == SendRequest \/ Blocks \/ Look \/ Wake \/ StopGrader \/ StopListener

Carrier == Check \/ Fetch \/ Grade \/ Post

Next == TestCase \/ Carrier \/ Log \/ Ended

Spec == Init /\ [][Next]_vars

(* Threads and processes run, and every call they make has a timeout. *)
FairSpec == Spec /\ WF_vars(TestCase) /\ WF_vars(Carrier) /\ WF_vars(Log)

-----------------------------------------------------------------------------
LoggedBefore(look) == {i \in DOMAIN request_list : request_list[i].looks < look}

(* block_until gives up only when the timeout has really passed, and the     *)
(* responses that were logged before its last look were too few.  (One that  *)
(* is logged during the last sleep is not looked for.)                       *)
TimeoutIsReal ==
  outcome = "False" => clock >= timeout /\ Cardinality(LoggedBefore(looks)) < Wanted

(* A grader that was stopped reaches for one more submission at most, having *)
(* looked at its flag before; workers that were terminated for none.         *)
OneMoreAfterStop == late <= IF stub = "active" THEN 1 ELSE 0

(* A learner is told that the grading failed, in a response the test case    *)
(* finds in the listener, only if something really failed.                   *)
FailureOnlyOfFault ==
  \A i \in DOMAIN request_list : request_list[i].response.body = "failure" => faults > 0

(* A test case comes to its end and leaves no carrier behind, whatever the   *)
(* grader does and whether or not the listener still takes its responses.    *)
TestEnds == <>[]Over
=============================================================================

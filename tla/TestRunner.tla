----------------------------- MODULE TestRunner -----------------------------
(***************************************************************************)
(* The test runner task (App/test_runner.c) and the test tasks it commands *)
(* (test_task_loop in App/peripheral_tests.c).  They share test_instances, *)
(* one (state, iterations) pair per peripheral test, and test_reference,   *)
(* with no lock: the only synchronisation is the value of the state field, *)
(* which both sides poll.  FreeRTOS may switch tasks between any two       *)
(* accesses, so every access to a shared field is a step of its own.       *)
(*                                                                         *)
(* Listener and transmitter are present as the two ends of the queues.     *)
(***************************************************************************)
EXTENDS TestRequests

CONSTANT NoId   \* the reference data before the first request (all zeros)

VARIABLES
    \* queues
    queue,       \* TestQueue
    outbox,      \* OutboxQueue
    \* shared between the tasks
    state,       \* test_instances[i].state
    iterations,  \* test_instances[i].iterations
    reference,   \* test_reference, identified by the request it was made from
    \* local to the test runner task
    pc,          \* where the runner is
    current,     \* current_test
    cursor,      \* i of the loop the runner is in
    ordered,     \* ordered_test_count
    completed,   \* completed_tests
    results,     \* test_results_byte, as a set of bit positions
    \* local to the test tasks
    tpc,         \* where test task i is
    passed,      \* passed of test task i
    \* history, read by the properties only
    calls,       \* how often test i was run for the current request
    failed       \* whether any of these runs failed

runner  == <<pc, current, cursor, ordered, completed, results>>
tasks   == <<tpc, passed>>
history == <<calls, failed>>
vars    == <<queue, outbox, state, iterations, reference, runner, tasks, history>>

ASSUME NoIdAssumption == NoId \notin Ids

States    == {"READY", "PENDING", "BUSY", "SUCCESS", "FAILURE"}
RunnerPcs == {"get", "prepare", "signal", "pend", "scan", "collect"}
TaskPcs   == {"poll", "start", "loop", "run", "count", "clear", "report"}

Selected == current.selection

\* Requests and messages of the same exchange carry the same ID; the listener
\* numbers requests with a 16-bit counter, far more values than there are
\* places in the two queues.
IdsInUse ==
    {queue[k].id : k \in DOMAIN queue} \cup {outbox[k].id : k \in DOMAIN outbox}
        \cup (IF pc = "get" THEN {} ELSE {current.id})

NoRequest == [id |-> NoId, selection |-> {}, iterations |-> 0]

Init ==
    /\ queue = <<>>
    /\ outbox = <<>>
    /\ state = [i \in Tests |-> "READY"]
    /\ iterations = [i \in Tests |-> 0]
    /\ reference = NoId
    /\ pc = "get"
    /\ current = NoRequest
    /\ cursor = 0
    /\ ordered = 0
    /\ completed = 0
    /\ results = {}
    /\ tpc = [i \in Tests |-> "poll"]
    /\ passed = [i \in Tests |-> FALSE]
    /\ calls = [i \in Tests |-> 0]
    /\ failed = [i \in Tests |-> FALSE]

-----------------------------------------------------------------------------
(* What the code computes in one expression.  A definition whose name ends *)
(* in a fault is a plausible slip in the one it is named after: it is not  *)
(* used, and shows that the property named beside it would notice.         *)

\* The reference data test_reference_prepare leaves behind.
PreparedReference_Stale  == reference                     \* RunsOnItsOwnData
PreparedReference        == current.id

\* The iterations signal_tests_start gives the test at the cursor.
OrderedIterations_Unset  == iterations                    \* IInv
OrderedIterations        == [iterations EXCEPT ![cursor] = current.iterations]

\* The condition of the loop in test_task_loop.
MoreIterations_Unbounded(i)     == passed[i]              \* TypeOK
MoreIterations_IgnoreFailure(i) == iterations[i] > 0      \* ResultsAreEarned
MoreIterations(i)               == passed[i] /\ iterations[i] > 0

\* The end of the loop in await_tests_completion, and what it starts from.
AwaitOver_OnePass    == completed > 0 \/ ordered = 0      \* ReferenceStable
AwaitOver            == completed >= ordered
NoResults_KeepLast   == results                           \* ImplementsService
NoResults            == {}

\* What await_tests_completion does with an instance that has a verdict.
FreedInstances_None  == state                             \* CountMatchesInstances
FreedInstances       == [state EXCEPT ![cursor] = "READY"]
CountCollected_None  == completed                         \* EveryRequestAnswered
CountCollected       == completed + 1

-----------------------------------------------------------------------------
(* The ends of the queues that other tasks hold.                           *)

\* listener.c: osMessageQueuePut on TestQueue.
Submit ==
    /\ HasRoom(queue, QueueLen)
    /\ \E r \in Request : r.id \notin IdsInUse /\ queue' = Append(queue, r)
    /\ UNCHANGED <<outbox, state, iterations, reference, runner, tasks, history>>

\* transmitter.c: osMessageQueueGet on OutboxQueue.
Transmit ==
    /\ outbox # <<>>
    /\ outbox' = Tail(outbox)
    /\ UNCHANGED <<queue, state, iterations, reference, runner, tasks, history>>

-----------------------------------------------------------------------------
(* The test runner task.                                                   *)

GetRequest ==
    /\ pc = "get"
    /\ queue # <<>>
    /\ current' = Head(queue)
    /\ queue' = Tail(queue)
    /\ pc' = "prepare"
    /\ calls' = [i \in Tests |-> 0]
    /\ failed' = [i \in Tests |-> FALSE]
    /\ UNCHANGED <<outbox, state, iterations, reference, cursor, ordered,
                   completed, results, tasks>>

\* test_reference_prepare, then into signal_tests_start.
PrepareReference ==
    /\ pc = "prepare"
    /\ reference' = PreparedReference
    /\ cursor' = 0
    /\ ordered' = 0
    /\ pc' = "signal"
    /\ UNCHANGED <<queue, outbox, state, iterations, current, completed,
                   results, tasks, history>>

\* signal_tests_start, a test the request leaves out.
SkipTest ==
    /\ pc = "signal"
    /\ cursor \in Tests \ Selected
    /\ state' = [state EXCEPT ![cursor] = "READY"]
    /\ cursor' = cursor + 1
    /\ UNCHANGED <<queue, outbox, iterations, reference, pc, current, ordered,
                   completed, results, tasks, history>>

\* signal_tests_start, a selected test: first its iterations ...
SetIterations ==
    /\ pc = "signal"
    /\ cursor \in Tests \cap Selected
    /\ ordered' = ordered + 1
    /\ iterations' = OrderedIterations
    /\ pc' = "pend"
    /\ UNCHANGED <<queue, outbox, state, reference, current, cursor, completed,
                   results, tasks, history>>

\* ... then the state its task is polling for.
SetPending ==
    /\ pc = "pend"
    /\ state' = [state EXCEPT ![cursor] = "PENDING"]
    /\ cursor' = cursor + 1
    /\ pc' = "signal"
    /\ UNCHANGED <<queue, outbox, iterations, reference, current, ordered,
                   completed, results, tasks, history>>

\* prepare_out_message and send_test_start_confirmation, which waits for a
\* free slot for ever, then into await_tests_completion.
SendStartAck ==
    /\ pc = "signal"
    /\ cursor = NumTests
    /\ HasRoom(outbox, OutboxLen)
    /\ outbox' = Append(outbox, StartAck(current))
    /\ completed' = 0
    /\ results' = NoResults
    /\ pc' = "scan"
    /\ UNCHANGED <<queue, state, iterations, reference, current, cursor,
                   ordered, tasks, history>>

\* await_tests_completion: another pass over test_instances.
NextPass ==
    /\ pc = "scan"
    /\ cursor = NumTests
    /\ ~AwaitOver
    /\ cursor' = 0
    /\ UNCHANGED <<queue, outbox, state, iterations, reference, pc, current,
                   ordered, completed, results, tasks, history>>

\* The switch finds test cursor neither passed nor failed.
PassOver ==
    /\ pc = "scan"
    /\ cursor \in Tests
    /\ state[cursor] \notin {"SUCCESS", "FAILURE"}
    /\ cursor' = cursor + 1
    /\ UNCHANGED <<queue, outbox, state, iterations, reference, pc, current,
                   ordered, completed, results, tasks, history>>

\* The switch finds a verdict, which only SUCCESS turns into a bit ...
ReadVerdict ==
    /\ pc = "scan"
    /\ cursor \in Tests
    /\ state[cursor] \in {"SUCCESS", "FAILURE"}
    /\ results' = IF state[cursor] = "SUCCESS" THEN results \cup {cursor}
                                               ELSE results
    /\ pc' = "collect"
    /\ UNCHANGED <<queue, outbox, state, iterations, reference, current, cursor,
                   ordered, completed, tasks, history>>

\* ... and, after the debug output, frees the instance and counts it.
Collect ==
    /\ pc = "collect"
    /\ state' = FreedInstances
    /\ completed' = CountCollected
    /\ cursor' = cursor + 1
    /\ pc' = "scan"
    /\ UNCHANGED <<queue, outbox, iterations, reference, current, ordered,
                   results, tasks, history>>

\* The while loop ends; send_test_results waits for a free slot for ever.
SendResults ==
    /\ pc = "scan"
    /\ cursor = NumTests
    /\ AwaitOver
    /\ HasRoom(outbox, OutboxLen)
    /\ outbox' = Append(outbox, Results(current, results))
    /\ pc' = "get"
    /\ UNCHANGED <<queue, state, iterations, reference, current, cursor,
                   ordered, completed, results, tasks, history>>

RunnerStep ==
    \/ GetRequest \/ PrepareReference
    \/ SkipTest \/ SetIterations \/ SetPending \/ SendStartAck
    \/ NextPass \/ PassOver \/ ReadVerdict \/ Collect \/ SendResults

-----------------------------------------------------------------------------
(* Test task i: test_task_loop(i).                                         *)

SeePending(i) ==
    /\ tpc[i] = "poll"
    /\ state[i] = "PENDING"
    /\ tpc' = [tpc EXCEPT ![i] = "start"]
    /\ UNCHANGED <<queue, outbox, state, iterations, reference, runner, passed,
                   history>>

SetBusy(i) ==
    /\ tpc[i] = "start"
    /\ state' = [state EXCEPT ![i] = "BUSY"]
    /\ passed' = [passed EXCEPT ![i] = TRUE]
    /\ tpc' = [tpc EXCEPT ![i] = "loop"]
    /\ UNCHANGED <<queue, outbox, iterations, reference, runner, history>>

\* The condition of the while loop.
TestIterations(i) ==
    /\ tpc[i] = "loop"
    /\ tpc' = [tpc EXCEPT ![i] = IF MoreIterations(i) THEN "run"
                                                      ELSE "clear"]
    /\ UNCHANGED <<queue, outbox, state, iterations, reference, runner, passed,
                   history>>

\* test_definitions[i].func(): the peripheral decides the outcome.
RunTest(i) ==
    /\ tpc[i] = "run"
    /\ \E ok \in BOOLEAN :
          /\ passed' = [passed EXCEPT ![i] = ok]
          /\ failed' = [failed EXCEPT ![i] = failed[i] \/ ~ok]
    /\ calls' = [calls EXCEPT ![i] = calls[i] + 1]
    /\ tpc' = [tpc EXCEPT ![i] = "count"]
    /\ UNCHANGED <<queue, outbox, state, iterations, reference, runner>>

CountIteration(i) ==
    /\ tpc[i] = "count"
    /\ iterations' = [iterations EXCEPT ![i] = iterations[i] - 1]
    /\ tpc' = [tpc EXCEPT ![i] = "loop"]
    /\ UNCHANGED <<queue, outbox, state, reference, runner, passed, history>>

ClearIterations(i) ==
    /\ tpc[i] = "clear"
    /\ iterations' = [iterations EXCEPT ![i] = 0]
    /\ tpc' = [tpc EXCEPT ![i] = "report"]
    /\ UNCHANGED <<queue, outbox, state, reference, runner, passed, history>>

ReportVerdict(i) ==
    /\ tpc[i] = "report"
    /\ state' = [state EXCEPT ![i] = IF passed[i] THEN "SUCCESS" ELSE "FAILURE"]
    /\ tpc' = [tpc EXCEPT ![i] = "poll"]
    /\ UNCHANGED <<queue, outbox, iterations, reference, runner, passed, history>>

TaskStep(i) ==
    \/ SeePending(i) \/ SetBusy(i) \/ TestIterations(i) \/ RunTest(i)
    \/ CountIteration(i) \/ ClearIterations(i) \/ ReportVerdict(i)

Next == Submit \/ Transmit \/ RunnerStep \/ \E i \in Tests : TaskStep(i)

Spec == Init /\ [][Next]_vars

\* FreeRTOS runs the highest ready task, slices time between equals, and every
\* loop of these tasks blocks (vTaskDelay, a queue, a HAL call with a timeout),
\* so each of them gets the processor again and again.
Fairness ==
    /\ WF_vars(RunnerStep)
    /\ WF_vars(Transmit)
    /\ \A i \in Tests : WF_vars(TaskStep(i))

FairSpec == Spec /\ Fairness

-----------------------------------------------------------------------------
(* Properties.                                                             *)

TypeOK ==
    /\ queue \in Seq(Request)
    /\ outbox \in Seq(Message)
    /\ state \in [Tests -> States]
    /\ iterations \in [Tests -> 0 .. MaxIterations]
    /\ reference \in Ids \cup {NoId}
    /\ pc \in RunnerPcs
    /\ current \in Request \cup {NoRequest}
    /\ pc # "get" => current \in Request
    /\ cursor \in 0 .. NumTests
    /\ ordered \in 0 .. NumTests
    /\ completed \in 0 .. NumTests
    /\ results \in SUBSET Tests
    /\ tpc \in [Tests -> TaskPcs]
    /\ passed \in [Tests -> BOOLEAN]
    /\ calls \in [Tests -> 0 .. MaxIterations]
    /\ failed \in [Tests -> BOOLEAN]

\* A test the runner has ordered and not collected yet.
Outstanding == {i \in Tests : state[i] # "READY"}

\* A test task between noticing its order and publishing its verdict.
Active(i) == tpc[i] # "poll"

\* While the runner waits, the tests it still has to count are exactly the
\* instances that have left READY, all of them selected: a wrong count would
\* send results early or wait for ever (await_tests_completion).
CountMatchesInstances ==
    pc \in {"scan", "collect"} =>
        /\ Outstanding \subseteq Selected
        /\ completed + Cardinality(Outstanding) = ordered

\* The tests of one request never see another request's test data: the
\* reference changes only while every test task is idle and has no order
\* (test_reference_prepare, which has no lock).
ReferenceStable ==
    [][reference' # reference =>
          \A i \in Tests : ~Active(i) /\ state[i] = "READY"]_vars

\* While a test runs, the reference data is that of the request being served.
RunsOnItsOwnData == \A i \in Tests : Active(i) => reference = current.id

\* A verdict reaches the client only if it was earned: the bit of a test is set
\* iff the test was selected, ran as often as the request asked and never
\* failed; a clear bit of a selected test means that a run of it failed.
ResultsAreEarned ==
    [][Len(outbox') > Len(outbox) /\ outbox'[Len(outbox')].msg = "RESULTS" =>
          \A i \in Tests :
              IF i \in outbox'[Len(outbox')].selection
              THEN i \in Selected /\ calls[i] = current.iterations /\ ~failed[i]
              ELSE i \in Selected => failed[i]]_vars

\* The runner's two blocking calls and its polling never keep a queued request
\* from being answered: its results reach the head of the outbox.  IDs are only
\* ever compared with each other, so that one stands for all.
Answered(id) ==
    (\E k \in DOMAIN queue : queue[k].id = id) ~>
        (outbox # <<>> /\ Head(outbox).id = id /\ Head(outbox).msg = "RESULTS")

EveryRequestAnswered == Answered(CHOOSE id \in Ids : TRUE)

(* The inductive invariant: what each value of pc and tpc says about the    *)
(* fields the tasks share.                                                 *)

\* A test task is between SetBusy and ReportVerdict iff its instance is BUSY,
\* and it has an order when it sets it BUSY.
TasksFollowOrders ==
    \A i \in Tests :
        /\ tpc[i] = "poll" => state[i] # "BUSY"
        /\ tpc[i] = "start" => state[i] = "PENDING"
        /\ tpc[i] \notin {"poll", "start"} => state[i] = "BUSY"

\* Iterations still to run and iterations run add up to the number requested.
IterationsOf(i) ==
    /\ state[i] = "PENDING" =>
          calls[i] = 0 /\ ~failed[i] /\ iterations[i] = current.iterations
    /\ tpc[i] \notin {"poll", "start"} => passed[i] = ~failed[i]
    /\ tpc[i] \in {"loop", "run"} =>
          calls[i] + iterations[i] = current.iterations
    /\ tpc[i] = "count" =>
          calls[i] + iterations[i] = current.iterations + 1
    /\ tpc[i] = "run" => passed[i]
    /\ tpc[i] \in {"run", "count"} => iterations[i] > 0
    /\ tpc[i] \in {"clear", "report"} /\ passed[i] =>
          calls[i] = current.iterations
    /\ state[i] = "SUCCESS" => calls[i] = current.iterations /\ ~failed[i]
    /\ state[i] = "FAILURE" => failed[i]

IterationsAddUp == \A i \in Tests : IterationsOf(i)

\* Between two requests every instance is READY, hence every task idle.
IdleBetweenRequests ==
    /\ pc \in {"get", "prepare"} => Outstanding = {}
    /\ pc = "prepare" => \A i \in Tests : calls[i] = 0 /\ ~failed[i]

\* signal_tests_start: the tests ordered so far are the selected ones below i.
OrderedSoFar == {i \in Selected : i < cursor}

OrdersAreCounted ==
    pc \in {"signal", "pend"} =>
        /\ reference = current.id
        /\ Outstanding = OrderedSoFar
        /\ \A i \in Tests \ Outstanding : calls[i] = 0 /\ ~failed[i]
        /\ pc = "signal" => ordered = Cardinality(OrderedSoFar)
        /\ pc = "pend" =>
              /\ cursor \in Selected
              /\ iterations[cursor] = current.iterations
              /\ ordered = Cardinality(OrderedSoFar) + 1

\* await_tests_completion: the verdicts collected so far are in results, each
\* of them earned, and the instances not collected are the ones still counted.
VerdictsAreCollected ==
    pc \in {"scan", "collect"} =>
        /\ reference = current.id
        /\ results \subseteq Selected
        /\ \A i \in Selected \ Outstanding :
              IF i \in results THEN calls[i] = current.iterations /\ ~failed[i]
                               ELSE failed[i]
        /\ \A i \in results \cap Outstanding :
              pc = "collect" /\ i = cursor /\ state[i] = "SUCCESS"
        /\ pc = "collect" =>
              /\ cursor \in Tests
              /\ state[cursor] \in {"SUCCESS", "FAILURE"}
              /\ state[cursor] = "SUCCESS" => cursor \in results

IInv ==
    /\ TypeOK
    /\ TasksFollowOrders
    /\ IterationsAddUp
    /\ IdleBetweenRequests
    /\ OrdersAreCounted
    /\ CountMatchesInstances
    /\ VerdictsAreCollected

\* The runner and the test tasks implement the abstract service.
Service == INSTANCE TestService WITH
    serving <- IF pc = "get" THEN <<>> ELSE <<current>>,
    started <- pc \in {"scan", "collect"}

ImplementsService == Service!Spec
=============================================================================

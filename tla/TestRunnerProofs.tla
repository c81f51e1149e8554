-------------------------- MODULE TestRunnerProofs --------------------------
(***************************************************************************)
(* Proofs about TestRunner for every number of tests, iterations and queue *)
(* slots: the inductive invariant IInv, the properties that follow from    *)
(* it, and that the tasks implement TestService.                           *)
(***************************************************************************)
EXTENDS TestRunner, TLAPS, FiniteSetTheorems, SequenceTheorems

-----------------------------------------------------------------------------
(* Counting tests.                                                         *)

LEMMA TestSets ==
    ASSUME NEW S \in SUBSET Tests
    PROVE  IsFiniteSet(S) /\ Cardinality(S) \in 0 .. NumTests
<1>1. IsFiniteSet(Tests) /\ Cardinality(Tests) = NumTests
  BY FS_Interval, NumTestsAssumption DEF Tests
<1>2. IsFiniteSet(S) /\ Cardinality(S) <= NumTests
  BY <1>1, FS_Subset
<1> QED BY <1>2, FS_CardinalityType, NumTestsAssumption

LEMMA OneMoreTest ==
    ASSUME NEW S \in SUBSET Tests, NEW x \in Tests \ S
    PROVE  /\ Cardinality(S \cup {x}) = Cardinality(S) + 1
           /\ Cardinality(S) + 1 <= NumTests
<1>1. Cardinality(S \cup {x}) = Cardinality(S) + 1
  BY TestSets, FS_AddElement
<1>2. Cardinality(S \cup {x}) <= NumTests
  BY TestSets, S \cup {x} \in SUBSET Tests, NumTestsAssumption
<1> QED BY <1>1, <1>2

LEMMA OneTestLess ==
    ASSUME NEW S \in SUBSET Tests, NEW x \in S
    PROVE  Cardinality(S \ {x}) = Cardinality(S) - 1
BY TestSets, FS_RemoveElement

\* Where no instance has left READY, no test task is doing anything.
LEMMA IdleTasks ==
    ASSUME TasksFollowOrders, TypeOK, Outstanding = {}
    PROVE  \A i \in Tests : state[i] = "READY" /\ tpc[i] = "poll"
BY DEF TasksFollowOrders, TypeOK, Outstanding

-----------------------------------------------------------------------------
(* The initial state.                                                      *)

LEMMA InitIInv == ASSUME Init PROVE IInv
<1>1. <<>> \in Seq(Request) /\ <<>> \in Seq(Message)
  BY EmptySeq
<1>2. TypeOK
  BY <1>1, NumTestsAssumption, MaxIterationsAssumption
  DEF Init, TypeOK, States, RunnerPcs, TaskPcs, NoRequest, Tests
<1> QED
  BY <1>2 DEF Init, IInv, TasksFollowOrders, IterationsAddUp, IterationsOf,
     IdleBetweenRequests, OrdersAreCounted, CountMatchesInstances,
     VerdictsAreCollected, Outstanding, NoRequest

-----------------------------------------------------------------------------
(* Each action preserves the invariant.                                    *)

\* The listener only touches the queue.
LEMMA SubmitPreserves ==
    ASSUME IInv, Submit PROVE IInv'
<1>1. TypeOK'
  <2>1. PICK r \in Request : queue' = Append(queue, r)
    BY DEF Submit
  <2>2. queue' \in Seq(Request)
    BY <2>1, AppendProperties DEF IInv, TypeOK
  <2> QED BY <2>2 DEF IInv, Submit, TypeOK, runner, tasks, history
<1>2. TasksFollowOrders'
  BY DEF IInv, Submit, TypeOK, TasksFollowOrders, runner, tasks, history
<1>3. IterationsAddUp'
  BY DEF IInv, Submit, TypeOK, TasksFollowOrders, IterationsAddUp,
         IterationsOf, runner, tasks, history
<1>4. IdleBetweenRequests'
  BY DEF IInv, Submit, TypeOK, TasksFollowOrders, IdleBetweenRequests,
     Outstanding, runner, tasks, history
<1>5. OrdersAreCounted'
  BY DEF IInv, Submit, TypeOK, TasksFollowOrders, OrdersAreCounted,
     Outstanding, OrderedSoFar, Selected, runner, tasks, history
<1>6. CountMatchesInstances'
  BY DEF IInv, Submit, TypeOK, CountMatchesInstances, Outstanding, Selected,
     runner, tasks, history
<1>7. VerdictsAreCollected'
  BY DEF IInv, Submit, TypeOK, TasksFollowOrders, VerdictsAreCollected,
     Outstanding, Selected, runner, tasks, history
<1> QED BY <1>1, <1>2, <1>3, <1>4, <1>5, <1>6, <1>7 DEF IInv

\* The transmitter only touches the outbox.
LEMMA TransmitPreserves ==
    ASSUME IInv, Transmit PROVE IInv'
<1>1. TypeOK'
  <2>1. outbox' \in Seq(Message)
    BY HeadTailProperties DEF IInv, TypeOK, Transmit
  <2> QED BY <2>1 DEF IInv, Transmit, TypeOK, runner, tasks, history
<1>2. TasksFollowOrders'
  BY DEF IInv, Transmit, TypeOK, TasksFollowOrders, runner, tasks, history
<1>3. IterationsAddUp'
  BY DEF IInv, Transmit, TypeOK, TasksFollowOrders, IterationsAddUp,
         IterationsOf, runner, tasks, history
<1>4. IdleBetweenRequests'
  BY DEF IInv, Transmit, TypeOK, TasksFollowOrders, IdleBetweenRequests,
     Outstanding, runner, tasks, history
<1>5. OrdersAreCounted'
  BY DEF IInv, Transmit, TypeOK, TasksFollowOrders, OrdersAreCounted,
     Outstanding, OrderedSoFar, Selected, runner, tasks, history
<1>6. CountMatchesInstances'
  BY DEF IInv, Transmit, TypeOK, CountMatchesInstances, Outstanding, Selected,
     runner, tasks, history
<1>7. VerdictsAreCollected'
  BY DEF IInv, Transmit, TypeOK, TasksFollowOrders, VerdictsAreCollected,
     Outstanding, Selected, runner, tasks, history
<1> QED BY <1>1, <1>2, <1>3, <1>4, <1>5, <1>6, <1>7 DEF IInv

\* Every task is idle, so the history may be reset.
LEMMA GetRequestPreserves ==
    ASSUME IInv, GetRequest PROVE IInv'
<1>0. \A i \in Tests : state[i] = "READY" /\ tpc[i] = "poll"
  BY IdleTasks DEF IInv, IdleBetweenRequests, GetRequest
<1>1. TypeOK'
  <2>1. current' \in Request /\ queue' \in Seq(Request)
    BY HeadTailProperties DEF IInv, TypeOK, GetRequest
  <2> QED
    BY <2>1, MaxIterationsAssumption
    DEF IInv, GetRequest, TypeOK, RunnerPcs, tasks
<1>2. TasksFollowOrders'
  BY DEF IInv, GetRequest, TypeOK, TasksFollowOrders, runner, tasks, history
<1>3. IterationsAddUp'
  BY <1>0
  DEF IInv, GetRequest, TypeOK, TasksFollowOrders, IterationsAddUp,
      IterationsOf, runner, tasks, history
<1>4. IdleBetweenRequests'
  BY DEF IInv, GetRequest, TypeOK, TasksFollowOrders, IdleBetweenRequests,
     Outstanding, runner, tasks, history
<1>5. OrdersAreCounted'
  BY DEF IInv, GetRequest, TypeOK, TasksFollowOrders, OrdersAreCounted,
     Outstanding, OrderedSoFar, Selected, runner, tasks, history
<1>6. CountMatchesInstances'
  BY DEF IInv, GetRequest, TypeOK, CountMatchesInstances, Outstanding,
     Selected, runner, tasks, history
<1>7. VerdictsAreCollected'
  BY DEF IInv, GetRequest, TypeOK, TasksFollowOrders, VerdictsAreCollected,
     Outstanding, Selected, runner, tasks, history
<1> QED BY <1>1, <1>2, <1>3, <1>4, <1>5, <1>6, <1>7 DEF IInv

\* Nothing is ordered yet.
LEMMA PrepareReferencePreserves ==
    ASSUME IInv, PrepareReference PROVE IInv'
<1>1. TypeOK'
  BY NumTestsAssumption
  DEF IInv, PrepareReference, PreparedReference, TypeOK, Request, States,
      RunnerPcs, TaskPcs, runner, tasks, history
<1>2. TasksFollowOrders'
  BY DEF IInv, PrepareReference, PreparedReference, TypeOK, TasksFollowOrders,
         runner, tasks, history
<1>3. IterationsAddUp'
  BY DEF IInv, PrepareReference, PreparedReference, TypeOK, TasksFollowOrders,
         IterationsAddUp, IterationsOf, runner, tasks, history
<1>4. IdleBetweenRequests'
  BY DEF IInv, PrepareReference, PreparedReference, TypeOK, TasksFollowOrders,
     IdleBetweenRequests, Outstanding, runner, tasks, history
<1>5. OrdersAreCounted'
  <2>1. Outstanding' = {} /\ OrderedSoFar' = {}
    BY DEF IInv, TypeOK, IdleBetweenRequests, PrepareReference,
           PreparedReference, Outstanding, OrderedSoFar, Selected, Request,
           Tests
  <2> QED
    BY <2>1, FS_EmptySet
    DEF IInv, IdleBetweenRequests, PrepareReference, PreparedReference,
        OrdersAreCounted, history
<1>6. CountMatchesInstances'
  BY DEF IInv, PrepareReference, PreparedReference, TypeOK,
         CountMatchesInstances, Outstanding, Selected, runner, tasks, history
<1>7. VerdictsAreCollected'
  BY DEF IInv, PrepareReference, PreparedReference, TypeOK, TasksFollowOrders,
     VerdictsAreCollected, Outstanding, Selected, runner, tasks, history
<1> QED BY <1>1, <1>2, <1>3, <1>4, <1>5, <1>6, <1>7 DEF IInv

\* A test left out has not been ordered, so its instance is READY already.
LEMMA SkipTestPreserves ==
    ASSUME IInv, SkipTest PROVE IInv'
<1>0. state' = state
  <2>1. state[cursor] = "READY" /\ state \in [Tests -> States]
    BY DEF IInv, TypeOK, OrdersAreCounted, SkipTest, Outstanding, OrderedSoFar
  <2> QED BY <2>1 DEF SkipTest
<1>1. TypeOK'
  <2>1. cursor + 1 \in 0 .. NumTests
    BY NumTestsAssumption DEF SkipTest, Tests
  <2> QED BY <1>0, <2>1 DEF IInv, SkipTest, TypeOK, tasks, history
<1>2. TasksFollowOrders'
  BY <1>0 DEF IInv, SkipTest, TypeOK, TasksFollowOrders, runner, tasks, history
<1>3. IterationsAddUp'
  BY <1>0
  DEF IInv, SkipTest, TypeOK, TasksFollowOrders, IterationsAddUp, IterationsOf,
      runner, tasks, history
<1>4. IdleBetweenRequests'
  BY <1>0 DEF IInv, SkipTest, TypeOK, TasksFollowOrders, IdleBetweenRequests,
     Outstanding, runner, tasks, history
<1>5. OrdersAreCounted'
  <2>1. Outstanding' = Outstanding
    BY <1>0 DEF Outstanding
  <2>2. OrderedSoFar' = OrderedSoFar
    BY DEF IInv, TypeOK, SkipTest, OrderedSoFar, Selected, Request, Tests
  <2> QED
    BY <1>0, <2>1, <2>2 DEF IInv, SkipTest, OrdersAreCounted, history
<1>6. CountMatchesInstances'
  BY <1>0 DEF IInv, SkipTest, TypeOK, CountMatchesInstances, Outstanding,
     Selected, runner, tasks, history
<1>7. VerdictsAreCollected'
  BY <1>0 DEF IInv, SkipTest, TypeOK, TasksFollowOrders, VerdictsAreCollected,
     Outstanding, Selected, runner, tasks, history
<1> QED BY <1>1, <1>2, <1>3, <1>4, <1>5, <1>6, <1>7 DEF IInv

\* The instance is READY, so its task does not look at its iterations.
LEMMA SetIterationsPreserves ==
    ASSUME IInv, SetIterations PROVE IInv'
<1>0. /\ cursor \in Tests \ OrderedSoFar
      /\ OrderedSoFar \in SUBSET Tests
      /\ state[cursor] = "READY"
      /\ tpc[cursor] = "poll"
  BY DEF IInv, TypeOK, TasksFollowOrders, OrdersAreCounted, SetIterations,
         OrderedIterations, Outstanding, OrderedSoFar, Selected, Request, Tests
<1>1. TypeOK'
  <2>1. current \in Request /\ ordered = Cardinality(OrderedSoFar)
    BY DEF IInv, TypeOK, OrdersAreCounted, SetIterations, OrderedIterations
  <2>2. ordered + 1 \in 0 .. NumTests
    BY <1>0, <2>1, OneMoreTest, TestSets, NumTestsAssumption
  <2> QED
    BY <2>1, <2>2
    DEF IInv, SetIterations, OrderedIterations, TypeOK, RunnerPcs, Request,
        tasks, history
<1>2. TasksFollowOrders'
  BY DEF IInv, SetIterations, OrderedIterations, TypeOK, TasksFollowOrders,
         runner, tasks, history
<1>3. IterationsAddUp'
  BY <1>0
  DEF IInv, SetIterations, OrderedIterations, TypeOK, TasksFollowOrders,
      IterationsAddUp, IterationsOf, runner, tasks, history
<1>4. IdleBetweenRequests'
  BY DEF IInv, SetIterations, OrderedIterations, TypeOK, TasksFollowOrders,
         IdleBetweenRequests, Outstanding, runner, tasks, history
<1>5. OrdersAreCounted'
  <2>1. Outstanding' = Outstanding /\ OrderedSoFar' = OrderedSoFar
    BY DEF SetIterations, OrderedIterations, Outstanding, OrderedSoFar,
           Selected
  <2> QED
    BY <2>1
    DEF IInv, TypeOK, SetIterations, OrderedIterations, OrdersAreCounted,
        Selected, history
<1>6. CountMatchesInstances'
  BY DEF IInv, SetIterations, OrderedIterations, TypeOK, CountMatchesInstances,
         Outstanding, Selected, runner, tasks, history
<1>7. VerdictsAreCollected'
  BY DEF IInv, SetIterations, OrderedIterations, TypeOK, TasksFollowOrders,
         VerdictsAreCollected, Outstanding, Selected, runner, tasks, history
<1> QED BY <1>1, <1>2, <1>3, <1>4, <1>5, <1>6, <1>7 DEF IInv

\* The order is complete and counted.
LEMMA SetPendingPreserves ==
    ASSUME IInv, SetPending PROVE IInv'
<1>0. /\ cursor \in Selected
      /\ cursor \in Tests \ OrderedSoFar
      /\ OrderedSoFar \in SUBSET Tests
      /\ state[cursor] = "READY"
      /\ tpc[cursor] = "poll"
      /\ calls[cursor] = 0 /\ ~failed[cursor]
      /\ iterations[cursor] = current.iterations
  BY DEF IInv, TypeOK, TasksFollowOrders, OrdersAreCounted, SetPending,
     Outstanding, OrderedSoFar, Selected, Request, Tests
<1>1. TypeOK'
  BY <1>0, NumTestsAssumption
  DEF IInv, SetPending, TypeOK, States, RunnerPcs, Tests, tasks, history
<1>2. TasksFollowOrders'
  BY <1>0 DEF IInv, SetPending, TypeOK, TasksFollowOrders, runner, tasks,
     history
<1>3. IterationsAddUp'
  BY <1>0
  DEF IInv, SetPending, TypeOK, TasksFollowOrders, IterationsAddUp,
      IterationsOf, runner, tasks, history
<1>4. IdleBetweenRequests'
  BY DEF IInv, SetPending, TypeOK, TasksFollowOrders, IdleBetweenRequests,
     Outstanding, runner, tasks, history
<1>5. OrdersAreCounted'
  <2>1. Outstanding' = Outstanding \cup {cursor}
    BY <1>0 DEF IInv, TypeOK, SetPending, Outstanding
  <2>2. OrderedSoFar' = OrderedSoFar \cup {cursor}
    BY <1>0
    DEF IInv, TypeOK, SetPending, OrderedSoFar, Selected, Request, Tests
  <2>3. Cardinality(OrderedSoFar') = Cardinality(OrderedSoFar) + 1
    BY <1>0, <2>2, OneMoreTest
  <2> QED
    BY <2>1, <2>2, <2>3 DEF IInv, SetPending, OrdersAreCounted, history
<1>6. CountMatchesInstances'
  BY DEF IInv, SetPending, TypeOK, CountMatchesInstances, Outstanding,
     Selected, runner, tasks, history
<1>7. VerdictsAreCollected'
  BY DEF IInv, SetPending, TypeOK, TasksFollowOrders, VerdictsAreCollected,
     Outstanding, Selected, runner, tasks, history
<1> QED BY <1>1, <1>2, <1>3, <1>4, <1>5, <1>6, <1>7 DEF IInv

\* Every selected test has been ordered and none collected.
LEMMA SendStartAckPreserves ==
    ASSUME IInv, SendStartAck PROVE IInv'
<1>1. TypeOK'
  <2>1. StartAck(current) \in Message
    BY NumTestsAssumption
    DEF IInv, TypeOK, SendStartAck, NoResults, StartAck, Message, Request,
        Tests
  <2>2. outbox' \in Seq(Message)
    BY <2>1, AppendProperties DEF IInv, TypeOK, SendStartAck, NoResults
  <2> QED
    BY <2>2, NumTestsAssumption
    DEF IInv, SendStartAck, NoResults, TypeOK, RunnerPcs, tasks, history
<1>2. TasksFollowOrders'
  BY DEF IInv, SendStartAck, NoResults, TypeOK, TasksFollowOrders, runner,
         tasks, history
<1>3. IterationsAddUp'
  BY DEF IInv, SendStartAck, NoResults, TypeOK, TasksFollowOrders,
         IterationsAddUp, IterationsOf, runner, tasks, history
<1>4. IdleBetweenRequests'
  BY DEF IInv, SendStartAck, NoResults, TypeOK, TasksFollowOrders,
         IdleBetweenRequests, Outstanding, runner, tasks, history
<1>5. OrdersAreCounted'
  BY DEF IInv, SendStartAck, NoResults, TypeOK, TasksFollowOrders,
         OrdersAreCounted, Outstanding, OrderedSoFar, Selected, runner, tasks,
         history
<1>6. CountMatchesInstances'
  <2>1. Outstanding' = Outstanding /\ Outstanding \subseteq Selected
    BY DEF IInv, OrdersAreCounted, SendStartAck, NoResults, Outstanding,
           OrderedSoFar
  <2>2. ordered = Cardinality(Outstanding) /\ ordered \in Nat
    BY DEF IInv, TypeOK, OrdersAreCounted, SendStartAck, NoResults
  <2> QED
    BY <2>1, <2>2 DEF SendStartAck, NoResults, CountMatchesInstances, Selected
<1>7. VerdictsAreCollected'
  <2>1. Selected \subseteq Outstanding
    BY DEF IInv, TypeOK, OrdersAreCounted, SendStartAck, NoResults,
           OrderedSoFar, Selected, Request, Tests
  <2>2. Outstanding' = Outstanding /\ Selected' = Selected
    BY DEF SendStartAck, NoResults, Outstanding, Selected
  <2> QED
    BY <2>1, <2>2 DEF IInv, SendStartAck, NoResults, OrdersAreCounted,
       VerdictsAreCollected
<1> QED BY <1>1, <1>2, <1>3, <1>4, <1>5, <1>6, <1>7 DEF IInv

\* Only the cursor moves.
LEMMA NextPassPreserves ==
    ASSUME IInv, NextPass PROVE IInv'
<1>1. TypeOK'
  BY NumTestsAssumption
  DEF IInv, NextPass, AwaitOver, TypeOK, Request, States, RunnerPcs, TaskPcs,
      runner, tasks, history
<1>2. TasksFollowOrders'
  BY DEF IInv, NextPass, AwaitOver, TypeOK, TasksFollowOrders, runner, tasks,
         history
<1>3. IterationsAddUp'
  BY DEF IInv, NextPass, AwaitOver, TypeOK, TasksFollowOrders, IterationsAddUp,
         IterationsOf, runner, tasks, history
<1>4. IdleBetweenRequests'
  BY DEF IInv, NextPass, AwaitOver, TypeOK, TasksFollowOrders,
         IdleBetweenRequests, Outstanding, runner, tasks, history
<1>5. OrdersAreCounted'
  BY DEF IInv, NextPass, AwaitOver, TypeOK, TasksFollowOrders,
         OrdersAreCounted, Outstanding, OrderedSoFar, Selected, runner, tasks,
         history
<1>6. CountMatchesInstances'
  BY DEF IInv, NextPass, AwaitOver, TypeOK, CountMatchesInstances, Outstanding,
         Selected, runner, tasks, history
<1>7. VerdictsAreCollected'
  BY DEF IInv, NextPass, AwaitOver, TypeOK, TasksFollowOrders,
         VerdictsAreCollected, Outstanding, Selected, runner, tasks, history
<1> QED BY <1>1, <1>2, <1>3, <1>4, <1>5, <1>6, <1>7 DEF IInv

\* Only the cursor moves.
LEMMA PassOverPreserves ==
    ASSUME IInv, PassOver PROVE IInv'
<1>1. TypeOK'
  <2>1. cursor + 1 \in 0 .. NumTests
    BY NumTestsAssumption DEF PassOver, Tests
  <2> QED BY <2>1 DEF IInv, PassOver, TypeOK, tasks, history
<1>2. TasksFollowOrders'
  BY DEF IInv, PassOver, TypeOK, TasksFollowOrders, runner, tasks, history
<1>3. IterationsAddUp'
  BY DEF IInv, PassOver, TypeOK, TasksFollowOrders, IterationsAddUp,
         IterationsOf, runner, tasks, history
<1>4. IdleBetweenRequests'
  BY DEF IInv, PassOver, TypeOK, TasksFollowOrders, IdleBetweenRequests,
     Outstanding, runner, tasks, history
<1>5. OrdersAreCounted'
  BY DEF IInv, PassOver, TypeOK, TasksFollowOrders, OrdersAreCounted,
     Outstanding, OrderedSoFar, Selected, runner, tasks, history
<1>6. CountMatchesInstances'
  BY DEF IInv, PassOver, TypeOK, CountMatchesInstances, Outstanding, Selected,
     runner, tasks, history
<1>7. VerdictsAreCollected'
  BY DEF IInv, PassOver, TypeOK, TasksFollowOrders, VerdictsAreCollected,
     Outstanding, Selected, runner, tasks, history
<1> QED BY <1>1, <1>2, <1>3, <1>4, <1>5, <1>6, <1>7 DEF IInv

\* The verdict was earned, and its instance is still outstanding.
LEMMA ReadVerdictPreserves ==
    ASSUME IInv, ReadVerdict PROVE IInv'
<1>1. TypeOK'
  BY DEF IInv, ReadVerdict, TypeOK, Request, States, RunnerPcs, TaskPcs,
     runner, tasks, history
<1>2. TasksFollowOrders'
  BY DEF IInv, ReadVerdict, TypeOK, TasksFollowOrders, runner, tasks, history
<1>3. IterationsAddUp'
  BY DEF IInv, ReadVerdict, TypeOK, TasksFollowOrders, IterationsAddUp,
         IterationsOf, runner, tasks, history
<1>4. IdleBetweenRequests'
  BY DEF IInv, ReadVerdict, TypeOK, TasksFollowOrders, IdleBetweenRequests,
     Outstanding, runner, tasks, history
<1>5. OrdersAreCounted'
  BY DEF IInv, ReadVerdict, TypeOK, TasksFollowOrders, OrdersAreCounted,
     Outstanding, OrderedSoFar, Selected, runner, tasks, history
<1>6. CountMatchesInstances'
  BY DEF IInv, ReadVerdict, TypeOK, CountMatchesInstances, Outstanding,
     Selected, runner, tasks, history
<1>7. VerdictsAreCollected'
  <2>1. Outstanding' = Outstanding /\ Selected' = Selected
    BY DEF ReadVerdict, Outstanding, Selected
  <2>2. cursor \in Outstanding /\ cursor \in Selected
    BY DEF IInv, CountMatchesInstances, ReadVerdict, Outstanding
  <2>3. \A i \in Selected \ Outstanding : i \in results' <=> i \in results
    BY <2>2 DEF ReadVerdict
  <2>4. results \cap Outstanding = {}
    BY DEF IInv, VerdictsAreCollected, ReadVerdict
  <2>5. \A i \in results' \cap Outstanding : i = cursor /\ state[i] = "SUCCESS"
    BY <2>4 DEF ReadVerdict
  <2> QED
    BY <2>1, <2>2, <2>3, <2>5 DEF IInv, ReadVerdict, VerdictsAreCollected,
       Selected, history
<1> QED BY <1>1, <1>2, <1>3, <1>4, <1>5, <1>6, <1>7 DEF IInv

\* One instance fewer is outstanding, one more is counted.
LEMMA CollectPreserves ==
    ASSUME IInv, Collect PROVE IInv'
<1>0. /\ cursor \in Tests
      /\ state[cursor] \in {"SUCCESS", "FAILURE"}
      /\ tpc[cursor] = "poll"
      /\ cursor \in Outstanding
      /\ Outstanding \in SUBSET Tests
      /\ Outstanding' = Outstanding \ {cursor}
  BY DEF IInv, TypeOK, TasksFollowOrders, VerdictsAreCollected, Collect,
         FreedInstances, CountCollected, Outstanding
<1>9. /\ Cardinality(Outstanding') = Cardinality(Outstanding) - 1
      /\ Cardinality(Outstanding') \in Nat
      /\ completed + Cardinality(Outstanding) = ordered
      /\ completed + 1 \in 0 .. NumTests
  <2>1. /\ completed + Cardinality(Outstanding) = ordered
        /\ completed \in 0 .. NumTests /\ ordered \in 0 .. NumTests
    BY DEF IInv, TypeOK, Collect, FreedInstances, CountCollected,
           CountMatchesInstances
  <2>2. Cardinality(Outstanding') = Cardinality(Outstanding) - 1
    BY <1>0, OneTestLess
  <2>3. Cardinality(Outstanding) \in Nat /\ Cardinality(Outstanding') \in Nat
    BY <1>0, TestSets, Outstanding' \in SUBSET Tests
  <2> QED BY <2>1, <2>2, <2>3, NumTestsAssumption
<1>1. TypeOK'
  BY <1>0, <1>9, NumTestsAssumption
  DEF IInv, Collect, FreedInstances, CountCollected, TypeOK, States, RunnerPcs,
      Tests, tasks, history
<1>2. TasksFollowOrders'
  BY <1>0
  DEF IInv, Collect, FreedInstances, CountCollected, TypeOK, TasksFollowOrders,
      runner, tasks, history
<1>3. IterationsAddUp'
  BY <1>0
  DEF IInv, Collect, FreedInstances, CountCollected, TypeOK, TasksFollowOrders,
      IterationsAddUp, IterationsOf, runner, tasks, history
<1>4. IdleBetweenRequests'
  BY DEF IInv, Collect, FreedInstances, CountCollected, TypeOK,
         TasksFollowOrders, IdleBetweenRequests, Outstanding, runner, tasks,
         history
<1>5. OrdersAreCounted'
  BY DEF IInv, Collect, FreedInstances, CountCollected, TypeOK,
         TasksFollowOrders, OrdersAreCounted, Outstanding, OrderedSoFar,
         Selected, runner, tasks, history
<1>6. CountMatchesInstances'
  <2>1. completed \in Nat /\ Cardinality(Outstanding) \in Nat
    BY <1>0, TestSets DEF IInv, TypeOK
  <2>2. completed' + Cardinality(Outstanding') = ordered'
    BY <1>9, <2>1 DEF Collect, FreedInstances, CountCollected
  <2>3. Outstanding' \subseteq Selected'
    BY <1>0
    DEF IInv, CountMatchesInstances, Collect, FreedInstances, CountCollected,
        Selected
  <2> QED BY <2>2, <2>3 DEF CountMatchesInstances
<1>7. VerdictsAreCollected'
  <2>1. IF cursor \in results
        THEN calls[cursor] = current.iterations /\ ~failed[cursor]
        ELSE failed[cursor]
    BY <1>0
    DEF IInv, IterationsAddUp, IterationsOf, VerdictsAreCollected, Collect,
        FreedInstances, CountCollected
  <2>2. results \cap Outstanding \subseteq {cursor}
    BY DEF IInv, VerdictsAreCollected, Collect, FreedInstances, CountCollected
  <2> QED
    BY <1>0, <2>1, <2>2
    DEF IInv, Collect, FreedInstances, CountCollected, VerdictsAreCollected,
        Selected, history
<1> QED BY <1>1, <1>2, <1>3, <1>4, <1>5, <1>6, <1>7 DEF IInv

\* The guard of SendResults, the while condition of await_tests_completion.
LEMMA NothingOutstanding ==
    ASSUME IInv, SendResults PROVE Outstanding = {}
<1>1. Outstanding \in SUBSET Tests
  BY DEF Outstanding
<1>2. /\ completed + Cardinality(Outstanding) = ordered
      /\ completed >= ordered
      /\ completed \in Nat /\ ordered \in Nat
  BY DEF IInv, TypeOK, SendResults, AwaitOver, CountMatchesInstances
<1>3. Cardinality(Outstanding) \in Nat
  BY <1>1, TestSets
<1>4. Cardinality(Outstanding) = 0
  BY <1>2, <1>3
<1> QED BY <1>1, <1>4, TestSets, FS_EmptySet

\* The count says that nothing is outstanding.
LEMMA SendResultsPreserves ==
    ASSUME IInv, SendResults PROVE IInv'
<1>1. TypeOK'
  <2>1. Results(current, results) \in Message
    BY DEF IInv, TypeOK, SendResults, AwaitOver, Results, Message, Request
  <2>2. outbox' \in Seq(Message)
    BY <2>1, AppendProperties DEF IInv, TypeOK, SendResults, AwaitOver
  <2> QED
    BY <2>2 DEF IInv, SendResults, AwaitOver, TypeOK, RunnerPcs, tasks, history
<1>2. TasksFollowOrders'
  BY DEF IInv, SendResults, AwaitOver, TypeOK, TasksFollowOrders, runner,
         tasks, history
<1>3. IterationsAddUp'
  BY DEF IInv, SendResults, AwaitOver, TypeOK, TasksFollowOrders,
         IterationsAddUp, IterationsOf, runner, tasks, history
<1>4. IdleBetweenRequests'
  <2>1. Outstanding' = Outstanding
    BY DEF SendResults, AwaitOver, Outstanding
  <2> QED BY <2>1, NothingOutstanding DEF SendResults, AwaitOver, IdleBetweenRequests
<1>5. OrdersAreCounted'
  BY DEF IInv, SendResults, AwaitOver, TypeOK, TasksFollowOrders,
         OrdersAreCounted, Outstanding, OrderedSoFar, Selected, runner, tasks,
         history
<1>6. CountMatchesInstances'
  BY DEF IInv, SendResults, AwaitOver, TypeOK, CountMatchesInstances,
         Outstanding, Selected, runner, tasks, history
<1>7. VerdictsAreCollected'
  BY DEF IInv, SendResults, AwaitOver, TypeOK, TasksFollowOrders,
         VerdictsAreCollected, Outstanding, Selected, runner, tasks, history
<1> QED BY <1>1, <1>2, <1>3, <1>4, <1>5, <1>6, <1>7 DEF IInv

\* A task leaves its polling only for an order.
LEMMA SeePendingPreserves ==
    ASSUME NEW i \in Tests, IInv, SeePending(i) PROVE IInv'
<1>1. TypeOK'
  BY DEF IInv, SeePending, TypeOK, Request, States, RunnerPcs, TaskPcs, runner,
     tasks, history
<1>2. TasksFollowOrders'
  BY DEF IInv, SeePending, TypeOK, TasksFollowOrders, runner, tasks, history
<1>3. IterationsAddUp'
  BY DEF IInv, SeePending, TypeOK, TasksFollowOrders, IterationsAddUp,
         IterationsOf, runner, tasks, history
<1>4. IdleBetweenRequests'
  BY DEF IInv, SeePending, TypeOK, TasksFollowOrders, IdleBetweenRequests,
     Outstanding, runner, tasks, history
<1>5. OrdersAreCounted'
  BY DEF IInv, SeePending, TypeOK, TasksFollowOrders, OrdersAreCounted,
     Outstanding, OrderedSoFar, Selected, runner, tasks, history
<1>6. CountMatchesInstances'
  BY DEF IInv, SeePending, TypeOK, CountMatchesInstances, Outstanding,
     Selected, runner, tasks, history
<1>7. VerdictsAreCollected'
  BY DEF IInv, SeePending, TypeOK, TasksFollowOrders, VerdictsAreCollected,
     Outstanding, Selected, runner, tasks, history
<1> QED BY <1>1, <1>2, <1>3, <1>4, <1>5, <1>6, <1>7 DEF IInv

\* The order stays outstanding.
LEMMA SetBusyPreserves ==
    ASSUME NEW i \in Tests, IInv, SetBusy(i) PROVE IInv'
<1>0. /\ Outstanding' = Outstanding
      /\ state[i] = "PENDING"
  BY DEF IInv, TypeOK, TasksFollowOrders, SetBusy, Outstanding
<1>1. TypeOK'
  BY DEF IInv, SetBusy, TypeOK, Request, States, RunnerPcs, TaskPcs, runner,
     tasks, history
<1>2. TasksFollowOrders'
  BY DEF IInv, SetBusy, TypeOK, TasksFollowOrders, runner, tasks, history
<1>3. IterationsAddUp'
  <2>1. ASSUME NEW j \in Tests, j # i
        PROVE  IterationsOf(j)'
    BY <2>1 DEF IInv, TypeOK, SetBusy, IterationsAddUp, IterationsOf, runner,
       history
  <2>2. IterationsOf(i)'
    <3>1. /\ calls[i] + iterations[i] = current.iterations
          /\ failed[i] = FALSE
      BY <1>0
      DEF IInv, TypeOK, IterationsAddUp, IterationsOf, Request, NoRequest
    <3>2. /\ state'[i] = "BUSY" /\ tpc'[i] = "loop"
          /\ passed'[i] = TRUE
      BY DEF IInv, TypeOK, SetBusy
    <3> QED BY <3>1, <3>2 DEF SetBusy, IterationsOf, runner, history
  <2> QED BY <2>1, <2>2 DEF IterationsAddUp
<1>4. IdleBetweenRequests'
  BY <1>0 DEF IInv, SetBusy, IdleBetweenRequests, Outstanding, runner, history
<1>5. OrdersAreCounted'
  BY <1>0 DEF IInv, SetBusy, OrdersAreCounted, OrderedSoFar, Selected, runner,
     history
<1>6. CountMatchesInstances'
  BY <1>0 DEF IInv, SetBusy, CountMatchesInstances, Selected, runner
<1>7. VerdictsAreCollected'
  BY <1>0 DEF IInv, SetBusy, TypeOK, TasksFollowOrders, VerdictsAreCollected,
     Outstanding, Selected, runner, tasks, history
<1> QED BY <1>1, <1>2, <1>3, <1>4, <1>5, <1>6, <1>7 DEF IInv

\* Only the task's own place changes.
LEMMA TestIterationsPreserves ==
    ASSUME NEW i \in Tests, IInv, TestIterations(i) PROVE IInv'
<1>1. TypeOK'
  BY DEF IInv, TestIterations, MoreIterations, TypeOK, Request, States,
         RunnerPcs, TaskPcs, runner, tasks, history
<1>2. TasksFollowOrders'
  BY DEF IInv, TestIterations, MoreIterations, TypeOK, TasksFollowOrders,
         runner, tasks, history
<1>3. IterationsAddUp'
  BY DEF IInv, TestIterations, MoreIterations, TypeOK, TasksFollowOrders,
         IterationsAddUp, IterationsOf, runner, tasks, history
<1>4. IdleBetweenRequests'
  BY DEF IInv, TestIterations, MoreIterations, TypeOK, TasksFollowOrders,
         IdleBetweenRequests, Outstanding, runner, tasks, history
<1>5. OrdersAreCounted'
  BY DEF IInv, TestIterations, MoreIterations, TypeOK, TasksFollowOrders,
         OrdersAreCounted, Outstanding, OrderedSoFar, Selected, runner, tasks,
         history
<1>6. CountMatchesInstances'
  BY DEF IInv, TestIterations, MoreIterations, TypeOK, CountMatchesInstances,
         Outstanding, Selected, runner, tasks, history
<1>7. VerdictsAreCollected'
  BY DEF IInv, TestIterations, MoreIterations, TypeOK, TasksFollowOrders,
         VerdictsAreCollected, Outstanding, Selected, runner, tasks, history
<1> QED BY <1>1, <1>2, <1>3, <1>4, <1>5, <1>6, <1>7 DEF IInv

\* The run counts for a test that is outstanding, not for a collected one.
LEMMA RunTestPreserves ==
    ASSUME NEW i \in Tests, IInv, RunTest(i) PROVE IInv'
<1>0. /\ Outstanding' = Outstanding
      /\ i \in Outstanding /\ state[i] = "BUSY" /\ current \in Request
  BY DEF IInv, TypeOK, TasksFollowOrders, RunTest, Outstanding,
     IdleBetweenRequests
<1>1. TypeOK'
  <2>1. calls[i] + 1 \in 0 .. MaxIterations
    BY <1>0, MaxIterationsAssumption
    DEF IInv, TypeOK, IterationsAddUp, IterationsOf, RunTest, Request
  <2> QED
    BY <2>1 DEF IInv, RunTest, TypeOK, TaskPcs, runner
<1>2. TasksFollowOrders'
  BY DEF IInv, RunTest, TypeOK, TasksFollowOrders, runner, tasks, history
<1>3. IterationsAddUp'
  <2>1. PICK ok \in BOOLEAN :
          /\ passed' = [passed EXCEPT ![i] = ok]
          /\ failed' = [failed EXCEPT ![i] = failed[i] \/ ~ok]
    BY DEF RunTest
  <2>2. ~failed[i] /\ iterations[i] > 0
    BY DEF IInv, IterationsAddUp, IterationsOf, RunTest
  <2>3. calls'[i] + iterations'[i] = current'.iterations + 1
    BY <1>0
    DEF IInv, TypeOK, IterationsAddUp, IterationsOf, RunTest, runner, Request
  <2>5. passed'[i] = ~failed'[i]
    <3>1. passed'[i] = ok /\ failed'[i] = (failed[i] \/ ~ok)
      BY <2>1 DEF IInv, TypeOK
    <3> QED BY <2>2, <3>1
  <2>4. ASSUME NEW j \in Tests, j # i
        PROVE  /\ passed'[j] = passed[j] /\ failed'[j] = failed[j]
               /\ calls'[j] = calls[j] /\ tpc'[j] = tpc[j]
    BY <2>1, <2>4 DEF IInv, TypeOK, RunTest
  <2> QED
    BY <1>0, <2>2, <2>3, <2>5, <2>4
    DEF IInv, TypeOK, IterationsAddUp, IterationsOf, RunTest, runner
<1>4. IdleBetweenRequests'
  BY <1>0 DEF IInv, RunTest, IdleBetweenRequests, Outstanding, runner, history
<1>5. OrdersAreCounted'
  BY <1>0 DEF IInv, RunTest, OrdersAreCounted, OrderedSoFar, Selected, runner,
     history
<1>6. CountMatchesInstances'
  BY <1>0 DEF IInv, RunTest, CountMatchesInstances, Selected, runner
<1>7. VerdictsAreCollected'
  BY <1>0 DEF IInv, RunTest, TypeOK, TasksFollowOrders, VerdictsAreCollected,
     Outstanding, Selected, runner, tasks, history
<1> QED BY <1>1, <1>2, <1>3, <1>4, <1>5, <1>6, <1>7 DEF IInv

\* An iteration moves from those to run to those run.
LEMMA CountIterationPreserves ==
    ASSUME NEW i \in Tests, IInv, CountIteration(i) PROVE IInv'
<1>0. /\ Outstanding' = Outstanding
      /\ i \in Outstanding /\ state[i] = "BUSY" /\ current \in Request
  BY DEF IInv, TypeOK, TasksFollowOrders, CountIteration, Outstanding,
     IdleBetweenRequests
<1>1. TypeOK'
  BY MaxIterationsAssumption
  DEF IInv, CountIteration, TypeOK, IterationsAddUp, IterationsOf, TaskPcs,
      runner, history
<1>2. TasksFollowOrders'
  BY DEF IInv, CountIteration, TypeOK, TasksFollowOrders, runner, tasks,
     history
<1>3. IterationsAddUp'
  <2>1. calls[i] + iterations'[i] = current.iterations
    BY <1>0
    DEF IInv, TypeOK, IterationsAddUp, IterationsOf, CountIteration, Request
  <2>2. ASSUME NEW j \in Tests, j # i
        PROVE  iterations'[j] = iterations[j] /\ tpc'[j] = tpc[j]
    BY <2>2 DEF IInv, TypeOK, CountIteration
  <2> QED
    BY <1>0, <2>1, <2>2
    DEF IInv, TypeOK, IterationsAddUp, IterationsOf, CountIteration, runner,
        history
<1>4. IdleBetweenRequests'
  BY DEF IInv, CountIteration, TypeOK, TasksFollowOrders, IdleBetweenRequests,
     Outstanding, runner, tasks, history
<1>5. OrdersAreCounted'
  <2>1. pc = "pend" => cursor # i
    BY <1>0 DEF IInv, TypeOK, OrdersAreCounted, OrderedSoFar
  <2> QED
    BY <1>0, <2>1
    DEF IInv, TypeOK, CountIteration, OrdersAreCounted, OrderedSoFar, Selected,
        Request, runner, history
<1>6. CountMatchesInstances'
  BY DEF IInv, CountIteration, TypeOK, CountMatchesInstances, Outstanding,
     Selected, runner, tasks, history
<1>7. VerdictsAreCollected'
  BY DEF IInv, CountIteration, TypeOK, TasksFollowOrders, VerdictsAreCollected,
     Outstanding, Selected, runner, tasks, history
<1> QED BY <1>1, <1>2, <1>3, <1>4, <1>5, <1>6, <1>7 DEF IInv

\* The iterations of an order are up or given up.
LEMMA ClearIterationsPreserves ==
    ASSUME NEW i \in Tests, IInv, ClearIterations(i) PROVE IInv'
<1>0. /\ Outstanding' = Outstanding
      /\ i \in Outstanding /\ state[i] = "BUSY"
  BY DEF IInv, TypeOK, TasksFollowOrders, ClearIterations, Outstanding
<1>1. TypeOK'
  BY MaxIterationsAssumption DEF IInv, ClearIterations, TypeOK, Request,
     States, RunnerPcs, TaskPcs, runner, tasks, history
<1>2. TasksFollowOrders'
  BY DEF IInv, ClearIterations, TypeOK, TasksFollowOrders, runner, tasks,
     history
<1>3. IterationsAddUp'
  BY DEF IInv, ClearIterations, TypeOK, TasksFollowOrders, IterationsAddUp,
         IterationsOf, runner, tasks, history
<1>4. IdleBetweenRequests'
  BY DEF IInv, ClearIterations, TypeOK, TasksFollowOrders, IdleBetweenRequests,
     Outstanding, runner, tasks, history
<1>5. OrdersAreCounted'
  <2>1. pc = "pend" => cursor # i
    BY <1>0 DEF IInv, TypeOK, OrdersAreCounted, OrderedSoFar
  <2> QED
    BY <1>0, <2>1
    DEF IInv, TypeOK, ClearIterations, OrdersAreCounted, OrderedSoFar,
        Selected, Request, runner, history
<1>6. CountMatchesInstances'
  BY DEF IInv, ClearIterations, TypeOK, CountMatchesInstances, Outstanding,
     Selected, runner, tasks, history
<1>7. VerdictsAreCollected'
  BY DEF IInv, ClearIterations, TypeOK, TasksFollowOrders,
     VerdictsAreCollected, Outstanding, Selected, runner, tasks, history
<1> QED BY <1>1, <1>2, <1>3, <1>4, <1>5, <1>6, <1>7 DEF IInv

\* The verdict says whether all runs passed; the instance stays outstanding.
LEMMA ReportVerdictPreserves ==
    ASSUME NEW i \in Tests, IInv, ReportVerdict(i) PROVE IInv'
<1>0. /\ Outstanding' = Outstanding
      /\ state[i] = "BUSY"
  BY DEF IInv, TypeOK, TasksFollowOrders, ReportVerdict, Outstanding
<1>1. TypeOK'
  BY DEF IInv, ReportVerdict, TypeOK, Request, States, RunnerPcs, TaskPcs,
     runner, tasks, history
<1>2. TasksFollowOrders'
  BY DEF IInv, ReportVerdict, TypeOK, TasksFollowOrders, runner, tasks, history
<1>3. IterationsAddUp'
  BY DEF IInv, ReportVerdict, TypeOK, TasksFollowOrders, IterationsAddUp,
         IterationsOf, runner, tasks, history
<1>4. IdleBetweenRequests'
  BY <1>0
  DEF IInv, ReportVerdict, IdleBetweenRequests, Outstanding, runner, history
<1>5. OrdersAreCounted'
  BY <1>0
  DEF IInv, ReportVerdict, OrdersAreCounted, OrderedSoFar, Selected, runner,
      history
<1>6. CountMatchesInstances'
  BY <1>0 DEF IInv, ReportVerdict, CountMatchesInstances, Selected, runner
<1>7. VerdictsAreCollected'
  BY <1>0 DEF IInv, ReportVerdict, TypeOK, TasksFollowOrders,
     VerdictsAreCollected, Outstanding, Selected, runner, tasks, history
<1> QED BY <1>1, <1>2, <1>3, <1>4, <1>5, <1>6, <1>7 DEF IInv

-----------------------------------------------------------------------------
(* The theorems.                                                           *)

LEMMA NextPreserves == ASSUME IInv, [Next]_vars PROVE IInv'
<1>1. CASE Submit BY <1>1, SubmitPreserves
<1>2. CASE Transmit BY <1>2, TransmitPreserves
<1>3. CASE RunnerStep
  BY <1>3, GetRequestPreserves, PrepareReferencePreserves, SkipTestPreserves,
     SetIterationsPreserves, SetPendingPreserves, SendStartAckPreserves,
     NextPassPreserves, PassOverPreserves, ReadVerdictPreserves,
     CollectPreserves, SendResultsPreserves
  DEF RunnerStep
<1>4. ASSUME NEW i \in Tests, TaskStep(i) PROVE IInv'
  BY <1>4, SeePendingPreserves, SetBusyPreserves, TestIterationsPreserves,
     RunTestPreserves, CountIterationPreserves, ClearIterationsPreserves,
     ReportVerdictPreserves
  DEF TaskStep
<1>5. CASE UNCHANGED vars
  BY <1>5 DEF vars, runner, tasks, history, IInv, TypeOK, TasksFollowOrders,
     IterationsAddUp, IterationsOf, IdleBetweenRequests, OrdersAreCounted,
     OrderedSoFar, CountMatchesInstances, VerdictsAreCollected, Outstanding,
     Selected
<1> QED BY <1>1, <1>2, <1>3, <1>4, <1>5 DEF Next

\* The inductive invariant holds in every reachable state of the runner and
\* its test tasks.
THEOREM Invariance == Spec => []IInv
<1>1. Init => IInv BY InitIInv
<1>2. IInv /\ [Next]_vars => IInv' BY NextPreserves
<1> QED BY <1>1, <1>2, PTL DEF Spec

\* Every variable keeps its range; in particular test_instances[i].iterations,
\* a byte, is never decremented below 0.
THEOREM TypeCorrect == Spec => []TypeOK
BY Invariance, PTL DEF IInv

\* await_tests_completion counts exactly the tests that still owe a verdict.
THEOREM CountIsExact == Spec => []CountMatchesInstances
BY Invariance, PTL DEF IInv

\* Every run of a test uses the test data of the request being served.
THEOREM OwnData == Spec => []RunsOnItsOwnData
<1>1. ASSUME IInv, NEW i \in Tests, Active(i) PROVE reference = current.id
  <2>1. state[i] # "READY"
    BY <1>1 DEF IInv, TasksFollowOrders, Active
  <2>2. pc \in {"signal", "pend", "scan", "collect"}
    BY <1>1, <2>1
    DEF IInv, TypeOK, RunnerPcs, IdleBetweenRequests, Outstanding
  <2> QED BY <1>1, <2>2 DEF IInv, OrdersAreCounted, VerdictsAreCollected
<1>2. IInv => RunsOnItsOwnData
  BY <1>1 DEF RunsOnItsOwnData
<1> QED BY <1>2, Invariance, PTL

\* test_reference_prepare overwrites the reference data only while no test is
\* ordered or running, although nothing but the state fields protects it.
THEOREM ReferenceIsStable == Spec => ReferenceStable
<1> DEFINE Guarded == reference' # reference =>
                         \A i \in Tests : ~Active(i) /\ state[i] = "READY"
<1>1. ASSUME IInv, Next, reference' # reference
      PROVE  \A i \in Tests : ~Active(i) /\ state[i] = "READY"
  <2>1. PrepareReference
    BY <1>1
    DEF Next, RunnerStep, TaskStep, Submit, Transmit, GetRequest, SkipTest,
        SetIterations, SetPending, SendStartAck, NextPass, PassOver,
        ReadVerdict, Collect, SendResults, SeePending, SetBusy,
        TestIterations, RunTest, CountIteration, ClearIterations, ReportVerdict
  <2> QED
    BY <1>1, <2>1, IdleTasks
    DEF IInv, PrepareReference, IdleBetweenRequests, Active
<1>2. IInv /\ [Next]_vars => [Guarded]_vars
  BY <1>1
<1> QED BY <1>2, Invariance, PTL DEF Spec, ReferenceStable

\* The bits of a results message are exactly the tests that ran as often as
\* requested and never failed.
THEOREM EarnedResults == Spec => ResultsAreEarned
<1> DEFINE Last == outbox'[Len(outbox')]
           Earned == Len(outbox') > Len(outbox) /\ Last.msg = "RESULTS" =>
             \A i \in Tests :
               IF i \in Last.selection
               THEN i \in Selected /\ calls[i] = current.iterations /\ ~failed[i]
               ELSE i \in Selected => failed[i]
<1>1. ASSUME IInv, SendResults PROVE Earned
  <2>1. Results(current, results) \in Message
    BY <1>1 DEF IInv, TypeOK, SendResults, Results, Message, Request
  <2>2. Last = Results(current, results)
    BY <1>1, <2>1, AppendProperties DEF IInv, TypeOK, SendResults
  <2>3. Outstanding = {}
    BY <1>1, NothingOutstanding
  <2>4. Last.selection = results
    BY <2>2 DEF Results
  <2> QED
    BY <1>1, <2>3, <2>4 DEF IInv, SendResults, VerdictsAreCollected, Selected
<1>2. ASSUME IInv, SendStartAck PROVE Last.msg # "RESULTS"
  <2>1. StartAck(current) \in Message
    BY <1>2, NumTestsAssumption
    DEF IInv, TypeOK, SendStartAck, StartAck, Message, Request, Tests
  <2>2. Last = StartAck(current)
    BY <1>2, <2>1, AppendProperties DEF IInv, TypeOK, SendStartAck
  <2> QED BY <2>2 DEF StartAck
<1>3. ASSUME IInv, Transmit PROVE ~(Len(outbox') > Len(outbox))
  <2>1. outbox \in Seq(Message) /\ outbox # <<>>
    BY <1>3 DEF IInv, TypeOK, Transmit
  <2>2. Len(Tail(outbox)) = Len(outbox) - 1 /\ Len(outbox) \in Nat
    BY <2>1, LenProperties
  <2> QED BY <1>3, <2>2 DEF Transmit
<1>4. ASSUME IInv, Next, ~Transmit, ~SendStartAck, ~SendResults
      PROVE  outbox' = outbox
  BY <1>4
  DEF Next, RunnerStep, TaskStep, Submit, GetRequest, PrepareReference,
      SkipTest, SetIterations, SetPending, NextPass, PassOver, ReadVerdict,
      Collect, SeePending, SetBusy, TestIterations, RunTest, CountIteration,
      ClearIterations, ReportVerdict
<1>5. ASSUME IInv, outbox' = outbox PROVE ~(Len(outbox') > Len(outbox))
  BY <1>5, LenProperties DEF IInv, TypeOK
<1>6. IInv /\ [Next]_vars => [Earned]_vars
  BY <1>1, <1>2, <1>3, <1>4, <1>5
<1> QED BY <1>6, Invariance, PTL DEF Spec, ResultsAreEarned

\* The runner and the lock-free test tasks together behave as the abstract
\* one-request-at-a-time service.
THEOREM Refinement == Spec => ImplementsService
<1> DEFINE serving == IF pc = "get" THEN <<>> ELSE <<current>>
           started == pc \in {"scan", "collect"}
<1>1. Init => Service!Init
  BY DEF Init, Service!Init
<1>2. ASSUME IInv, Submit PROVE Service!Submit
  BY <1>2 DEF Submit, Service!Submit, HasRoom, Service!HasRoom, Request,
     Service!Request, Tests, Service!Tests, runner
<1>3. ASSUME IInv, Transmit PROVE Service!Transmit
  BY <1>3 DEF Transmit, Service!Transmit, runner
<1>4. ASSUME IInv, GetRequest PROVE Service!Take
  BY <1>4 DEF GetRequest, Service!Take
<1>5. ASSUME IInv, SendStartAck PROVE Service!Start
  BY <1>5 DEF SendStartAck, Service!Start, HasRoom, Service!HasRoom,
     StartAck, Service!StartAck
<1>6. ASSUME IInv, SendResults PROVE Service!Finish
  <2>1. results \in SUBSET current.selection
    BY <1>6 DEF IInv, SendResults, VerdictsAreCollected, Selected
  <2>2. serving[1] = current /\ started /\ serving' = <<>> /\ ~started'
    BY <1>6 DEF SendResults
  <2>3. outbox' = Append(outbox, Service!Results(serving[1], results))
    BY <1>6, <2>2 DEF SendResults, Results, Service!Results
  <2>4. \E ok \in SUBSET serving[1].selection :
           outbox' = Append(outbox, Service!Results(serving[1], ok))
    BY <2>1, <2>2, <2>3
  <2> QED
    BY <1>6, <2>2, <2>4
    DEF SendResults, Service!Finish, HasRoom, Service!HasRoom
<1>7. ASSUME IInv, Next, ~Submit, ~Transmit, ~GetRequest, ~SendStartAck,
             ~SendResults
      PROVE  UNCHANGED Service!vars
  BY <1>7
  DEF Next, RunnerStep, TaskStep, PrepareReference, SkipTest, SetIterations,
      SetPending, NextPass, PassOver, ReadVerdict, Collect, SeePending,
      SetBusy, TestIterations, RunTest, CountIteration, ClearIterations,
      ReportVerdict, Service!vars, runner
<1>8. ASSUME UNCHANGED vars PROVE UNCHANGED Service!vars
  BY <1>8 DEF vars, runner, Service!vars
<1>9. IInv /\ [Next]_vars => [Service!Next]_(Service!vars)
  BY <1>2, <1>3, <1>4, <1>5, <1>6, <1>7, <1>8 DEF Service!Next
<1> QED BY <1>1, <1>9, Invariance, PTL DEF Spec, ImplementsService, Service!Spec

=============================================================================

---------------------------- MODULE TestRequests ----------------------------
(***************************************************************************)
(* The data the tasks of the test server exchange: the test requests the   *)
(* listener forwards through TestQueue and the messages the test runner    *)
(* hands to OutboxQueue.  A packet is reduced to the fields the tasks      *)
(* branch on; a selection byte is the set of the bit positions it has set. *)
(***************************************************************************)
EXTENDS Integers, Sequences, FiniteSets

CONSTANTS
    Ids,            \* the 32-bit test IDs (client half and server half merged)
    NumTests,       \* NUM_POSSIBLE_TESTS, 5 on the board
    MaxIterations,  \* largest value of the ITERATIONS byte, 255 on the wire
    QueueLen,       \* slots of TestQueue, 16 on the board
    OutboxLen       \* slots of OutboxQueue, 32 on the board

ASSUME NumTestsAssumption      == NumTests \in Nat \ {0}
ASSUME MaxIterationsAssumption == MaxIterations \in Nat
ASSUME QueueLenAssumption      == QueueLen \in Nat \ {0}
ASSUME OutboxLenAssumption     == OutboxLen \in Nat \ {0}

\* PeripheralTestIdx_t: positions of the bits of the SELECTION byte and
\* indices of test_instances.
Tests == 0 .. NumTests - 1

\* TestRequest_t.  The server checks neither the selection (which may be
\* empty) nor the iterations (which may be 0) of a request.
Request == [id: Ids, selection: SUBSET Tests, iterations: 0 .. MaxIterations]

\* OutgoingMessage_t, as far as the test runner composes it.
Message == [msg: {"START_ACK", "RESULTS"}, id: Ids, selection: SUBSET Tests]

StartAck(r) == [msg |-> "START_ACK", id |-> r.id, selection |-> {0}]

Results(r, passed) == [msg |-> "RESULTS", id |-> r.id, selection |-> passed]

\* osMessageQueuePut returns at once when the queue has a free slot.
HasRoom(q, len) == Len(q) < len
=============================================================================

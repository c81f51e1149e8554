---------------------------- MODULE TestService -----------------------------
(***************************************************************************)
(* What the test runner promises, without the test tasks, their shared     *)
(* test_instances or the polling: requests are served one at a time and in *)
(* the order they were queued, and each is answered by exactly one start   *)
(* confirmation followed by exactly one results message that reports       *)
(* nothing but tests the request selected.                                 *)
(***************************************************************************)
EXTENDS TestRequests

VARIABLES
    queue,      \* TestQueue: requests accepted and not yet taken
    serving,    \* <<>> or <<r>>: the request being served
    started,    \* TRUE once the start confirmation of that request is out
    outbox      \* OutboxQueue: messages handed over to the transmitter

vars == <<queue, serving, started, outbox>>

TypeOK ==
    /\ queue \in Seq(Request)
    /\ serving \in Seq(Request) /\ Len(serving) <= 1
    /\ started \in BOOLEAN
    /\ outbox \in Seq(Message)

Init ==
    /\ queue = <<>>
    /\ serving = <<>>
    /\ started = FALSE
    /\ outbox = <<>>

\* The listener queues a request.
Submit ==
    /\ HasRoom(queue, QueueLen)
    /\ \E r \in Request : queue' = Append(queue, r)
    /\ UNCHANGED <<serving, started, outbox>>

\* The oldest request is taken when no other is being served.
Take ==
    /\ serving = <<>>
    /\ queue # <<>>
    /\ serving' = <<Head(queue)>>
    /\ queue' = Tail(queue)
    /\ UNCHANGED <<started, outbox>>

Start ==
    /\ serving # <<>>
    /\ ~started
    /\ HasRoom(outbox, OutboxLen)
    /\ outbox' = Append(outbox, StartAck(serving[1]))
    /\ started' = TRUE
    /\ UNCHANGED <<queue, serving>>

Finish ==
    /\ started
    /\ HasRoom(outbox, OutboxLen)
    /\ \E passed \in SUBSET serving[1].selection :
          outbox' = Append(outbox, Results(serving[1], passed))
    /\ serving' = <<>>
    /\ started' = FALSE
    /\ UNCHANGED queue

\* The transmitter takes the oldest message.
Transmit ==
    /\ outbox # <<>>
    /\ outbox' = Tail(outbox)
    /\ UNCHANGED <<queue, serving, started>>

Next == Submit \/ Take \/ Start \/ Finish \/ Transmit

Spec == Init /\ [][Next]_vars
=============================================================================

------------------------------- MODULE Server -------------------------------
(***************************************************************************)
(* The way of a packet through the server: the listener task (listener.c)  *)
(* receives it, numbers a request and forwards it through TestQueue, the   *)
(* test runner serves it, and the transmitter task (transmitter.c) sends   *)
(* what listener and runner put into the OutboxQueue they share.           *)
(*                                                                         *)
(* The runner is present as TestService, which TestRunner implements.      *)
(* The listener waits for a free slot for a second at most, the runner for *)
(* ever; the tasks run at the priorities freertos.c gives them.            *)
(***************************************************************************)
EXTENDS Integers, Sequences, FiniteSets

CONSTANTS
    Addrs,          \* addresses of clients
    MaxClientId,    \* UINT16_MAX
    MaxServerId,    \* UINT16_MAX
    NumTests, MaxIterations, QueueLen, OutboxLen,   \* see TestRequests
    InboxLen,       \* packets lwIP keeps for the listener, 6 on the board
    Repeats,        \* repeats of a NEW_ACK, 4 in send_new_test_ack
    MaxRequests     \* bound: requests that are received

ASSUME ServerAssumption ==
    /\ NumTests \in Nat \ {0} /\ MaxIterations \in Nat
    /\ QueueLen \in Nat \ {0} /\ OutboxLen \in Nat \ {0}
    /\ MaxClientId \in Nat \ {0}
    /\ InboxLen \in Nat \ {0}
    /\ Repeats \in Nat \ {0}
    /\ MaxRequests \in Nat
    /\ MaxServerId \in Nat \ {0} /\ MaxServerId >= MaxRequests

VARIABLES
    inbox,      \* mailbox of listener_conn
    requests,   \* bound: requests received so far
    nextId,     \* next_test_id_server_half
    lpc,        \* where the listener is
    scratch,    \* request_scratch: the merged ID, and whom to answer
    accepted,   \* accepted in test_listener_task_loop
    i,          \* i in send_new_test_ack
    queue,      \* TestQueue
    serving,    \* the request the runner is at
    started,    \* whether its start is confirmed
    outbox,     \* OutboxQueue
    sending,    \* the transmitter's current_message
    handed,     \* history: the messages ever put into OutboxQueue
    finished,   \* history: the requests whose acknowledgement is over
    sent        \* history: the messages sent

listener == <<nextId, lpc, scratch, accepted, i, finished>>
service  == <<queue, serving, started>>
vars == <<inbox, requests, listener, service, outbox, sending, handed, sent>>

\* The test ID, and the address that travels with it through both queues.
FullId == [addr: Addrs, client: 1 .. MaxClientId, server: 1 .. MaxServerId]

INSTANCE TestRequests WITH Ids <- FullId
Service == INSTANCE TestService WITH Ids <- FullId

Packets == [msg: {"NEW_REQUEST", "PROBE", "OTHER"}, addr: Addrs,
            client: 1 .. MaxClientId]

\* Nothing the listener does depends on what a request selects.
AllTests(id) == [id |-> id, selection |-> Tests, iterations |-> MaxIterations]

NoFullId == [addr |-> "none", client |-> 0, server |-> 0]

NewAck(id, ok) ==
    [msg |-> "NEW_ACK", id |-> id, selection |-> IF ok THEN {0} ELSE {}]

\* A beacon is a broadcast and has no ID.
Beacon == [msg |-> "BEACON", id |-> NoFullId, selection |-> {}]

Init ==
    /\ inbox = <<>> /\ requests = 0
    /\ nextId = 1
    /\ lpc = "recv"
    /\ scratch = NoFullId
    /\ accepted = FALSE
    /\ i = 0
    /\ Service!Init
    /\ sending = <<>>
    /\ handed = {} /\ finished = {} /\ sent = {}

-----------------------------------------------------------------------------
(* A definition whose name ends in a fault is a plausible slip, not used,   *)
(* that the property named beside it would notice.                         *)

\* osMessageQueuePut with a timeout gives up on a full queue.
GivesUp_Never(q, len) == FALSE                          \* ListenerReturns
GivesUp(q, len)       == ~HasRoom(q, len)

\* The verdict on a request is the status osMessageQueuePut returned.
Verdict_Ignored(put)  == TRUE                           \* AcceptedIsServed
Verdict(put)          == put

\* The listener runs at osPriorityHigh, the runner at osPriorityAboveNormal.
\* While it acknowledges, the listener waits for nothing but the outbox, and the
\* runner makes a step only then.
ListenerWaits_SamePriority == TRUE                      \* AckPrecedesStart
ListenerWaits == lpc = "ack" => ~HasRoom(outbox, OutboxLen)

\* Debug output may hold the listener up before that.  What the runner prints
\* when it has taken the request is behind it in DebugQueue, with a timeout that
\* ends later.
PrintsInOrder == ~(lpc = "print" /\ serving # <<>> /\ serving[1].id = scratch)

\* A message leaves OutboxQueue only once.
Remaining_None == <<>>                     \* KeepsService, AcceptedIsAnswered
Remaining      == Tail(outbox)

NextHalf_NoWrap == nextId + 1                           \* TypeOK
NextHalf        == IF nextId = MaxServerId THEN 1 ELSE nextId + 1

-----------------------------------------------------------------------------
(* The network.  A packet that finds the mailbox full never arrived.  There *)
(* is no end to probes and other packets, but there are no more requests   *)
(* than there are numbers for.                                             *)

Arrive ==
    /\ HasRoom(inbox, InboxLen)
    /\ \E p \in Packets :
        /\ p.msg = "NEW_REQUEST" => requests + Len(inbox) < MaxRequests
        /\ inbox' = Append(inbox, p)
    /\ UNCHANGED <<requests, listener, service, outbox, sending, handed, sent>>

-----------------------------------------------------------------------------
(* The listener task.                                                      *)

\* process_new_test_request, up to the number it gives the request.
ReceiveRequest ==
    /\ lpc = "recv"
    /\ inbox # <<>>
    /\ Head(inbox).msg = "NEW_REQUEST"
    /\ inbox' = Tail(inbox)
    /\ scratch' = [addr |-> Head(inbox).addr, client |-> Head(inbox).client,
                   server |-> nextId]
    /\ nextId' = NextHalf
    /\ requests' = requests + 1
    /\ lpc' = "submit"
    /\ UNCHANGED <<accepted, i, finished, service, outbox, sending,
                   handed, sent>>

ReceiveProbe ==
    /\ lpc = "recv"
    /\ inbox # <<>>
    /\ Head(inbox).msg = "PROBE"
    /\ inbox' = Tail(inbox)
    /\ lpc' = "beacon"
    /\ UNCHANGED <<requests, nextId, scratch, accepted, i, finished, service,
                   outbox, sending, handed, sent>>

\* Unexpected and invalid packets.
Discard ==
    /\ lpc = "recv"
    /\ inbox # <<>>
    /\ Head(inbox).msg = "OTHER"
    /\ inbox' = Tail(inbox)
    /\ UNCHANGED <<requests, listener, service, outbox, sending, handed, sent>>

\* The end of process_new_test_request: the slot may become free in time ...
Submit ==
    /\ lpc = "submit"
    /\ HasRoom(queue, QueueLen)
    /\ queue' = Append(queue, AllTests(scratch))
    /\ accepted' = Verdict(TRUE)
    /\ lpc' = "print"
    /\ UNCHANGED <<inbox, requests, nextId, scratch, i, finished, serving,
                   started, outbox, sending, handed, sent>>

\* ... or not.
Reject ==
    /\ lpc = "submit"
    /\ GivesUp(queue, QueueLen)
    /\ accepted' = Verdict(FALSE)
    /\ lpc' = "print"
    /\ UNCHANGED <<inbox, requests, nextId, scratch, i, finished, service,
                   outbox, sending, handed, sent>>

\* The verdict is printed before it is sent.
PrintVerdict ==
    /\ lpc = "print"
    /\ lpc' = "ack"
    /\ i' = 0
    /\ UNCHANGED <<inbox, requests, nextId, scratch, accepted, finished,
                   service, outbox, sending, handed, sent>>

\* One turn of the loop in send_new_test_ack, which ignores a timeout.
SendAck ==
    /\ lpc = "ack"
    /\ \/ /\ HasRoom(outbox, OutboxLen)
          /\ outbox' = Append(outbox, NewAck(scratch, accepted))
          /\ handed' = handed \cup {NewAck(scratch, accepted)}
       \/ GivesUp(outbox, OutboxLen) /\ UNCHANGED <<outbox, handed>>
    /\ i' = i + 1
    /\ IF i + 1 < Repeats
       THEN UNCHANGED <<lpc, finished>>
       ELSE lpc' = "recv" /\ finished' = finished \cup {scratch}
    /\ UNCHANGED <<inbox, requests, nextId, scratch, accepted, service, sending,
                   sent>>

\* broadcast_server_presence, which ignores a timeout as well.
SendBeacon ==
    /\ lpc = "beacon"
    /\ \/ /\ HasRoom(outbox, OutboxLen)
          /\ outbox' = Append(outbox, Beacon)
          /\ handed' = handed \cup {Beacon}
       \/ GivesUp(outbox, OutboxLen) /\ UNCHANGED <<outbox, handed>>
    /\ lpc' = "recv"
    /\ UNCHANGED <<inbox, requests, nextId, scratch, accepted, i, finished,
                   service, sending, sent>>

ListenerStep ==
    \/ ReceiveRequest \/ ReceiveProbe \/ Discard
    \/ Submit \/ Reject \/ PrintVerdict \/ SendAck \/ SendBeacon

-----------------------------------------------------------------------------
(* The test runner task, as TestService describes it.                      *)

Take ==
    /\ ListenerWaits
    /\ Service!Take
    /\ UNCHANGED <<inbox, requests, listener, sending, handed, sent>>

Answer ==
    /\ ListenerWaits
    /\ PrintsInOrder
    /\ Service!Start \/ Service!Finish
    /\ handed' = handed \cup {outbox'[Len(outbox')]}
    /\ UNCHANGED <<inbox, requests, listener, sending, sent>>

RunnerStep == Take \/ Answer

-----------------------------------------------------------------------------
(* The transmitter task.                                                   *)

GetMessage ==
    /\ sending = <<>>
    /\ outbox # <<>>
    /\ sending' = <<Head(outbox)>>
    /\ outbox' = Remaining
    /\ UNCHANGED <<inbox, requests, listener, service, handed, sent>>

\* netconn_sendto; the next message is asked for after a delay.
SendMessage ==
    /\ sending # <<>>
    /\ sent' = sent \cup {sending[1]}
    /\ sending' = <<>>
    /\ UNCHANGED <<inbox, requests, listener, service, outbox, handed>>

TransmitterStep == GetMessage \/ SendMessage

Next == Arrive \/ ListenerStep \/ RunnerStep \/ TransmitterStep

Spec == Init /\ [][Next]_vars

\* All tasks get the processor again and again (see TestRunner), but the
\* transmitter, which a link that is down may hold up for as long as it lasts.
\* A free slot of the outbox goes to the listener if both wait for one, as its
\* priority is the higher: the runner is promised a slot only if one stays free,
\* and nothing while the listener takes them all.
FairSpec == Spec /\ WF_vars(ListenerStep) /\ WF_vars(RunnerStep)

-----------------------------------------------------------------------------
(* Properties.                                                             *)

Messages ==
    Message \cup {NewAck(id, ok) : id \in FullId, ok \in BOOLEAN} \cup {Beacon}

TypeOK ==
    /\ inbox \in Seq(Packets) /\ Len(inbox) <= InboxLen
    /\ requests \in 0 .. MaxRequests
    /\ nextId \in 1 .. MaxServerId
    /\ lpc \in {"recv", "submit", "print", "ack", "beacon"}
    /\ scratch \in FullId \cup {NoFullId}
    /\ accepted \in BOOLEAN
    /\ i \in 0 .. Repeats
    /\ queue \in Seq(Request) /\ Len(queue) <= QueueLen
    /\ serving \in Seq(Request) /\ Len(serving) <= 1
    /\ started \in BOOLEAN
    /\ outbox \in Seq(Messages) /\ Len(outbox) <= OutboxLen
    /\ sending \in Seq(Messages) /\ Len(sending) <= 1
    /\ handed \subseteq Messages
    /\ finished \subseteq FullId
    /\ sent \subseteq handed

Started  == {m.id : m \in {x \in handed : x.msg = "START_ACK"}}
Finished == {m.id : m \in {x \in handed : x.msg = "RESULTS"}}

\* The requests the runner has or had.
Served ==
    {queue[k].id : k \in DOMAIN queue}
        \cup {serving[k].id : k \in DOMAIN serving} \cup Finished

\* What a client is told holds, however full the queues are: it is told that
\* its request was accepted only if it is waiting, being served or answered,
\* and that it was rejected only if it never will be.
AcceptedIsServed ==
    \A m \in handed :
        m.msg = "NEW_ACK" => (m.selection # {} <=> m.id \in Served)

\* A client learns the server half of its test ID from the NEW_ACK, so the
\* runner may confirm the start only after one is in the outbox, or after the
\* outbox was too full for each of its copies.
AckPrecedesStart ==
    \A id \in Started : id \in finished \/ \E ok \in BOOLEAN :
                                              NewAck(id, ok) \in handed

\* The messages of the runner among those in q, in order.
Places(q)  == {k \in DOMAIN q : q[k].msg \in {"START_ACK", "RESULTS"}}
Rank(S, k) == Cardinality({p \in S : p <= k})
OfRunner(q) ==
    [n \in 1 .. Cardinality(Places(q)) |->
       q[CHOOSE k \in Places(q) : Rank(Places(q), k) = n]]

\* The outbox the runner shares with the listener works like one of its own:
\* its messages are neither lost, reordered nor doubled (TestService).
Runner == INSTANCE TestService WITH Ids <- FullId, outbox <- OfRunner(outbox)

KeepsService == Runner!Spec

\* Whatever becomes of the transmitter, the listener returns to its socket.
ListenerReturns == lpc # "recv" ~> lpc = "recv"

\* If the transmitter keeps running and the probes end at some time, the results
\* of an accepted request are sent, however long the listener kept the outbox
\* full before that, at a priority above that of the runner, which waits for a
\* slot without a timeout (send_test_start_confirmation, send_test_results).
AcceptedIsAnswered ==
    WF_vars(TransmitterStep) /\ <>[](lpc # "beacon") =>
        \A id \in FullId :
            (\E k \in DOMAIN queue : queue[k].id = id) ~>
                (\E m \in sent : m.msg = "RESULTS" /\ m.id = id)
=============================================================================

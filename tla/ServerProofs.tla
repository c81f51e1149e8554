---------------------------- MODULE ServerProofs ----------------------------
(***************************************************************************)
(* Proofs about Server: whatever the sizes of the queues and however often *)
(* an acknowledgement is repeated, a client is told the truth about its    *)
(* request, the confirmation of a start does not overtake it, and the      *)
(* runner may share its outbox with the listener.                          *)
(***************************************************************************)
EXTENDS Server, TLAPS, SequenceTheorems, FiniteSetTheorems

(* The inductive invariant.                                                *)

Acked(id) == \E ok \in BOOLEAN : NewAck(id, ok) \in handed

\* Both queues of messages hold what was handed over.
MessagesAreHanded == outbox \in Seq(handed) /\ sending \in Seq(handed)

\* There are numbers for the requests in the mailbox.
RequestsAreCounted ==
    \A k \in DOMAIN inbox :
        inbox[k].msg = "NEW_REQUEST" => requests + k <= MaxRequests

\* The number the next request will get is larger than all in use, as long as
\* a request may come.
NumbersAreNew ==
    /\ RequestsAreCounted
    /\ \/ requests = MaxRequests
       \/ /\ nextId = requests + 1
          /\ \A m \in handed : m.id.server < nextId
          /\ \A id \in Served \cup {scratch} : id.server < nextId

\* What the listener believes about the request in request_scratch.
VerdictIsRight ==
    /\ lpc \in {"submit", "print", "ack"} => scratch \in FullId
    /\ lpc = "submit" => scratch \notin Served /\ \A m \in handed : m.id # scratch
    /\ lpc \in {"print", "ack"} => (accepted <=> scratch \in Served)
    /\ lpc = "ack" => i < Repeats

\* The runner has only requests that are acknowledged, or about to be.
ServedIsAcknowledged ==
    /\ started => serving # <<>>
    /\ \A id \in Served : \/ id \in finished
                          \/ Acked(id)
                          \/ id = scratch /\ lpc \in {"print", "ack"}

IInv ==
    /\ TypeOK
    /\ AcceptedIsServed
    /\ AckPrecedesStart
    /\ MessagesAreHanded
    /\ NumbersAreNew
    /\ VerdictIsRight
    /\ ServedIsAcknowledged

-----------------------------------------------------------------------------
(* Sequences and sets of IDs.                                              *)

LEMMA IdsOfAppend ==
  ASSUME NEW q \in Seq(Request), NEW r \in Request
  PROVE  {Append(q, r)[k].id : k \in DOMAIN Append(q, r)}
           = {q[k].id : k \in DOMAIN q} \cup {r.id}
  <1>1. /\ DOMAIN q = 1 .. Len(q) /\ DOMAIN Append(q, r) = 1 .. Len(q) + 1
        /\ Len(q) \in Nat
        /\ \A k \in 1 .. Len(q) : Append(q, r)[k] = q[k]
        /\ Append(q, r)[Len(q) + 1] = r
    BY AppendProperties, LenProperties
  <1>2. 1 .. Len(q) + 1 = (1 .. Len(q)) \cup {Len(q) + 1}
    BY <1>1
  <1>3. QED
    BY <1>1, <1>2

LEMMA IdsOfTail ==
  ASSUME NEW q \in Seq(Request), q # <<>>
  PROVE  {q[k].id : k \in DOMAIN q}
           = {Head(q).id} \cup {Tail(q)[k].id : k \in DOMAIN Tail(q)}
  <1>1. /\ DOMAIN q = 1 .. Len(q) /\ Len(q) \in Nat \ {0}
        /\ DOMAIN Tail(q) = 1 .. Len(q) - 1
        /\ Head(q) = q[1]
        /\ \A k \in 1 .. Len(q) - 1 : Tail(q)[k] = q[k + 1]
    <2>1. Len(q) \in Nat \ {0} /\ DOMAIN q = 1 .. Len(q) /\ Head(q) = q[1]
      OBVIOUS
    <2>2. /\ Tail(q) \in Seq(Request) /\ Len(Tail(q)) = Len(q) - 1
          /\ \A k \in 1 .. Len(q) - 1 : Tail(q)[k] = q[k + 1]
      BY HeadTailProperties
    <2>3. DOMAIN Tail(q) = 1 .. Len(Tail(q))
      BY <2>2, LenProperties
    <2>4. QED
      BY <2>1, <2>2, <2>3
  <1>2. ASSUME NEW k \in 1 .. Len(q), k # 1
        PROVE  k - 1 \in 1 .. Len(q) - 1 /\ Tail(q)[k - 1] = q[k]
    BY <1>1, <1>2
  <1>3. ASSUME NEW k \in 1 .. Len(q) - 1
        PROVE  k + 1 \in 1 .. Len(q) /\ Tail(q)[k] = q[k + 1]
    BY <1>1
  <1>4. 1 \in 1 .. Len(q)
    BY <1>1
  <1>5. ASSUME NEW x \in {q[k].id : k \in 1 .. Len(q)}
        PROVE  x \in {q[1].id} \cup {Tail(q)[k].id : k \in 1 .. Len(q) - 1}
    <2>1. PICK k \in 1 .. Len(q) : x = q[k].id
      BY <1>5
    <2>2. CASE k = 1
      BY <2>1, <2>2
    <2>3. CASE k # 1
      BY <1>2, <2>1, <2>3
    <2>4. QED
      BY <2>2, <2>3
  <1>6. ASSUME NEW x \in {q[1].id} \cup {Tail(q)[k].id : k \in 1 .. Len(q) - 1}
        PROVE  x \in {q[k].id : k \in 1 .. Len(q)}
    BY <1>3, <1>4, <1>6
  <1>7. QED
    BY <1>1, <1>5, <1>6

LEMMA IdsOfOne ==
  ASSUME NEW r
  PROVE  {<<r>>[k].id : k \in DOMAIN <<r>>} = {r.id}
  <1>1. DOMAIN <<r>> = {1} /\ <<r>>[1] = r
    OBVIOUS
  <1>2. QED
    BY <1>1

\* What it means to hand over a message.
LEMMA Handing ==
  ASSUME NEW m, handed' = handed \cup {m}
  PROVE  /\ m.msg = "RESULTS" => Finished' = Finished \cup {m.id}
         /\ m.msg # "RESULTS" => Finished' = Finished
         /\ m.msg = "START_ACK" => Started' = Started \cup {m.id}
         /\ m.msg # "START_ACK" => Started' = Started
  BY DEF Finished, Started

\* Every ID in use has a number.
LEMMA IdsHaveNumbers ==
  ASSUME TypeOK
  PROVE  /\ \A m \in handed : m.id \in FullId \cup {NoFullId}
         /\ Served \cup {scratch} \subseteq FullId \cup {NoFullId}
         /\ \A id \in FullId \cup {NoFullId} : id.server \in Nat
  <1>1. \A m \in Messages : m.id \in FullId \cup {NoFullId}
    BY DEF Messages, Message, NewAck, Beacon
  <1>2. \A m \in handed : m.id \in FullId \cup {NoFullId}
    BY <1>1 DEF TypeOK
  <1>3. \A id \in FullId \cup {NoFullId} : id.server \in Nat
    BY ServerAssumption DEF FullId, NoFullId
  <1>4. \A r \in Request : r.id \in FullId
    BY DEF Request
  <1>5. \A k \in DOMAIN queue : queue[k].id \in FullId
    BY <1>4, LenProperties, ElementOfSeq DEF TypeOK
  <1>6. \A k \in DOMAIN serving : serving[k].id \in FullId
    BY <1>4, LenProperties, ElementOfSeq DEF TypeOK
  <1>7. Finished \subseteq FullId \cup {NoFullId}
    BY <1>2 DEF Finished
  <1>8. Served \cup {scratch} \subseteq FullId \cup {NoFullId}
    BY <1>5, <1>6, <1>7 DEF Served, TypeOK
  <1>9. QED
    BY <1>2, <1>3, <1>8

LEMMA MessageTypes ==
  /\ \A id \in FullId, ok \in BOOLEAN : NewAck(id, ok) \in Messages
  /\ Beacon \in Messages
  /\ \A r \in Request : StartAck(r) \in Messages
  /\ \A r \in Request : \A s \in SUBSET Tests : Results(r, s) \in Messages
  <1>1. 0 \in Tests
    BY ServerAssumption DEF Tests
  <1>2. QED
    BY <1>1 DEF Messages, Message, Request, StartAck, Results

LEMMA RequestTypes ==
  \A id \in FullId : AllTests(id) \in Request /\ AllTests(id).id = id
  BY ServerAssumption DEF AllTests, Request

-----------------------------------------------------------------------------
(* The initial state.                                                      *)

LEMMA InitIInv == Init => IInv
  <1> SUFFICES ASSUME Init PROVE IInv
    OBVIOUS
  <1> USE ServerAssumption DEF Init, Service!Init
  <1>1. Served = {} /\ Started = {}
    BY DEF Served, Started, Finished
  <1>2. TypeOK
    <2>1. \A S : <<>> \in Seq(S) /\ Len(<<>>) = 0
      BY EmptySeq
    <2>2. /\ nextId \in 1 .. MaxServerId /\ requests \in 0 .. MaxRequests
          /\ i \in 0 .. Repeats
      OBVIOUS
    <2>3. 0 <= InboxLen /\ 0 <= QueueLen /\ 0 <= OutboxLen
      OBVIOUS
    <2>4. /\ inbox \in Seq(Packets) /\ Len(inbox) <= InboxLen
          /\ queue \in Seq(Request) /\ Len(queue) <= QueueLen
          /\ serving \in Seq(Request) /\ Len(serving) <= 1
      BY <2>1, <2>3
    <2>5. /\ outbox \in Seq(Messages) /\ Len(outbox) <= OutboxLen
          /\ sending \in Seq(Messages) /\ Len(sending) <= 1
      BY <2>1, <2>3
    <2>6. QED
      BY <2>2, <2>4, <2>5 DEF TypeOK
  <1>3. AcceptedIsServed /\ AckPrecedesStart /\ ServedIsAcknowledged
    BY <1>1 DEF AcceptedIsServed, AckPrecedesStart, ServedIsAcknowledged
  <1>4. MessagesAreHanded
    BY EmptySeq DEF MessagesAreHanded
  <1>5. NumbersAreNew
    BY <1>1, EmptySeq DEF NumbersAreNew, RequestsAreCounted, NoFullId
  <1>6. VerdictIsRight
    BY DEF VerdictIsRight
  <1>7. QED
    BY <1>2, <1>3, <1>4, <1>5, <1>6 DEF IInv

-----------------------------------------------------------------------------
(* Steps that leave requests and acknowledgements alone.                   *)

LEMMA QuietIInv ==
  ASSUME IInv, TypeOK', MessagesAreHanded',
         UNCHANGED <<nextId, scratch, accepted, i, finished, service>>,
         \/ lpc' = lpc /\ handed' = handed
         \/ lpc = "recv" /\ lpc' = "beacon" /\ handed' = handed
         \/ /\ lpc = "beacon" /\ lpc' = "recv"
            /\ handed' \in {handed, handed \cup {Beacon}},
         requests' = requests,
         RequestsAreCounted'
  PROVE  IInv'
  <1> USE DEF IInv
  <1>0. handed' = handed \/ handed' = handed \cup {Beacon}
    OBVIOUS
  <1>1. Finished' = Finished /\ Started' = Started
    BY <1>0, Handing DEF Finished, Started, Beacon
  <1>2. Served' = Served
    BY <1>1 DEF Served, service
  <1>3. AcceptedIsServed'
    BY <1>2 DEF AcceptedIsServed, Beacon
  <1>4. AckPrecedesStart'
    BY <1>1 DEF AckPrecedesStart
  <1>5. NumbersAreNew'
    <2>1. CASE requests = MaxRequests
      BY <2>1 DEF NumbersAreNew
    <2>2. CASE requests # MaxRequests
      <3>1. /\ nextId = requests + 1
            /\ \A m \in handed : m.id.server < nextId
            /\ \A id \in Served \cup {scratch} : id.server < nextId
        BY <2>2 DEF NumbersAreNew
      <3>2. Beacon.id.server < nextId
        BY ServerAssumption DEF Beacon, NoFullId, TypeOK
      <3>3. \A m \in handed' : m.id.server < nextId
        BY <1>0, <3>1, <3>2
      <3>4. QED
        BY <1>2, <3>1, <3>3 DEF NumbersAreNew
    <2>3. QED
      BY <2>1, <2>2
  <1>6. VerdictIsRight'
    BY <1>2 DEF VerdictIsRight
  <1>7. ServedIsAcknowledged'
    <2>1. \A id \in Served :
            \/ id \in finished
            \/ Acked(id)
            \/ id = scratch /\ lpc' \in {"print", "ack"}
      <3>1. lpc' = lpc \/ lpc \notin {"print", "ack"}
        OBVIOUS
      <3>2. QED
        BY <3>1 DEF ServedIsAcknowledged
    <2>2. \A id : Acked(id) => Acked(id)'
      BY <1>0 DEF Acked
    <2>3. QED
      BY <1>2, <2>1, <2>2 DEF ServedIsAcknowledged, service
  <1>8. QED
    BY <1>3, <1>4, <1>5, <1>6, <1>7

LEMMA ArriveIInv ==
  ASSUME IInv, Arrive PROVE IInv'
  <1> USE DEF IInv, Arrive, service
  <1>1. PICK p \in Packets :
          /\ p.msg = "NEW_REQUEST" => requests + Len(inbox) < MaxRequests
          /\ inbox' = Append(inbox, p)
    OBVIOUS
  <1>2. /\ inbox' \in Seq(Packets) /\ Len(inbox') = Len(inbox) + 1
        /\ Len(inbox) \in Nat
        /\ DOMAIN inbox = 1 .. Len(inbox) /\ DOMAIN inbox' = 1 .. Len(inbox) + 1
        /\ \A k \in 1 .. Len(inbox) : inbox'[k] = inbox[k]
        /\ inbox'[Len(inbox) + 1] = p
    BY <1>1, AppendProperties, LenProperties DEF TypeOK
  <1>3. Len(inbox') <= InboxLen
    BY <1>2, ServerAssumption DEF HasRoom, TypeOK
  <1>4. TypeOK'
    BY <1>2, <1>3 DEF TypeOK, listener
  <1>5. MessagesAreHanded'
    BY DEF MessagesAreHanded
  <1>6. RequestsAreCounted'
    <2> SUFFICES ASSUME NEW k \in DOMAIN inbox', inbox'[k].msg = "NEW_REQUEST"
                 PROVE  requests + k <= MaxRequests
      BY DEF RequestsAreCounted
    <2>1. CASE k = Len(inbox) + 1
      BY <1>1, <1>2, <2>1, ServerAssumption DEF TypeOK
    <2>2. CASE k # Len(inbox) + 1
      <3>1. k \in 1 .. Len(inbox)
        BY <1>2, <2>2
      <3>2. QED
        BY <1>2, <3>1 DEF NumbersAreNew, RequestsAreCounted
    <2>3. QED
      BY <2>1, <2>2
  <1> HIDE DEF IInv
  <1>7. QED
    BY <1>4, <1>5, <1>6, QuietIInv DEF listener

\* A packet less, of whatever kind.
LEMMA TailOfInbox ==
  ASSUME TypeOK, inbox # <<>>, inbox' = Tail(inbox)
  PROVE  /\ inbox' \in Seq(Packets)
         /\ Len(inbox') = Len(inbox) - 1
         /\ Len(inbox) \in Nat \ {0}
         /\ Len(inbox') <= InboxLen
         /\ Head(inbox) \in Packets
  <1>1. inbox \in Seq(Packets) /\ Len(inbox) <= InboxLen
    BY DEF TypeOK
  <1>2. /\ Tail(inbox) \in Seq(Packets) /\ Len(Tail(inbox)) = Len(inbox) - 1
        /\ Head(inbox) \in Packets
    BY <1>1, HeadTailProperties
  <1>3. Len(inbox) \in Nat \ {0}
    BY <1>1, EmptySeq
  <1>4. QED
    BY <1>1, <1>2, <1>3, ServerAssumption

\* The packets behind it move up, those that are requests with their numbers.
LEMMA TailIsCounted ==
  ASSUME TypeOK, RequestsAreCounted, inbox # <<>>, inbox' = Tail(inbox),
         requests' \in {requests, requests + 1}
  PROVE  RequestsAreCounted'
  <1> SUFFICES ASSUME NEW k \in DOMAIN inbox', inbox'[k].msg = "NEW_REQUEST"
               PROVE  requests' + k <= MaxRequests
    BY DEF RequestsAreCounted
  <1>1. /\ DOMAIN inbox = 1 .. Len(inbox) /\ Len(inbox) \in Nat
        /\ DOMAIN inbox' = 1 .. Len(inbox) - 1
        /\ \A j \in 1 .. Len(inbox) - 1 : inbox'[j] = inbox[j + 1]
    <2>1. /\ Tail(inbox) \in Seq(Packets) /\ Len(Tail(inbox)) = Len(inbox) - 1
          /\ \A j \in 1 .. Len(inbox) - 1 : Tail(inbox)[j] = inbox[j + 1]
      BY HeadTailProperties DEF TypeOK
    <2>2. DOMAIN Tail(inbox) = 1 .. Len(Tail(inbox))
      BY <2>1, LenProperties
    <2>3. QED
      BY <2>1, <2>2, LenProperties DEF TypeOK
  <1>2. k + 1 \in DOMAIN inbox /\ inbox[k + 1].msg = "NEW_REQUEST"
    BY <1>1
  <1>3. requests + (k + 1) <= MaxRequests
    BY <1>2 DEF RequestsAreCounted
  <1>4. QED
    BY <1>1, <1>3, ServerAssumption DEF TypeOK

LEMMA ReceiveProbeIInv ==
  ASSUME IInv, ReceiveProbe PROVE IInv'
  <1> USE DEF IInv, ReceiveProbe
  <1>1. /\ inbox' \in Seq(Packets) /\ Len(inbox') <= InboxLen
        /\ Len(inbox') = Len(inbox) - 1 /\ Len(inbox) \in Nat \ {0}
    BY TailOfInbox
  <1>2. TypeOK'
    BY <1>1 DEF TypeOK, service
  <1>3. MessagesAreHanded'
    BY DEF MessagesAreHanded, service
  <1>4. RequestsAreCounted'
    BY TailIsCounted DEF NumbersAreNew
  <1> HIDE DEF IInv
  <1>5. QED
    BY <1>2, <1>3, <1>4, QuietIInv

LEMMA DiscardIInv ==
  ASSUME IInv, Discard PROVE IInv'
  <1> USE DEF IInv, Discard, listener
  <1>1. /\ inbox' \in Seq(Packets) /\ Len(inbox') <= InboxLen
        /\ Len(inbox') = Len(inbox) - 1 /\ Len(inbox) \in Nat \ {0}
    BY TailOfInbox
  <1>2. TypeOK'
    BY <1>1 DEF TypeOK, service
  <1>3. MessagesAreHanded'
    BY DEF MessagesAreHanded, service
  <1>4. RequestsAreCounted'
    BY TailIsCounted DEF NumbersAreNew
  <1> HIDE DEF IInv
  <1>5. QED
    BY <1>2, <1>3, <1>4, QuietIInv

\* A message is handed over to the outbox, which has room for it.
LEMMA HandingOver ==
  ASSUME TypeOK, MessagesAreHanded, NEW m \in Messages,
         HasRoom(outbox, OutboxLen),
         outbox' = Append(outbox, m), handed' = handed \cup {m},
         UNCHANGED <<sending, sent>>
  PROVE  /\ outbox' \in Seq(Messages) /\ Len(outbox') <= OutboxLen
         /\ handed' \subseteq Messages /\ sent' \subseteq handed'
         /\ MessagesAreHanded'
  <1>1. outbox \in Seq(Messages) /\ Len(outbox) \in Nat
    BY LenProperties DEF TypeOK
  <1>2. outbox' \in Seq(Messages) /\ Len(outbox') = Len(outbox) + 1
    BY <1>1, AppendProperties
  <1>3. Len(outbox') <= OutboxLen
    BY <1>1, <1>2, ServerAssumption DEF HasRoom
  <1>4. outbox \in Seq(handed') /\ sending \in Seq(handed') /\ m \in handed'
    BY SeqMonotonic DEF MessagesAreHanded
  <1>5. outbox' \in Seq(handed')
    BY <1>4, AppendProperties
  <1>6. QED
    BY <1>2, <1>3, <1>4, <1>5 DEF TypeOK, MessagesAreHanded

LEMMA SendBeaconIInv ==
  ASSUME IInv, SendBeacon PROVE IInv'
  <1> USE DEF IInv, SendBeacon
  <1>1. /\ outbox' \in Seq(Messages) /\ Len(outbox') <= OutboxLen
        /\ handed' \subseteq Messages /\ sent' \subseteq handed'
        /\ MessagesAreHanded'
    <2>1. CASE UNCHANGED <<outbox, handed>>
      BY <2>1 DEF TypeOK, MessagesAreHanded
    <2>2. CASE ~UNCHANGED <<outbox, handed>>
      BY <2>2, HandingOver, MessageTypes
    <2>3. QED
      BY <2>1, <2>2
  <1>2. TypeOK'
    BY <1>1 DEF TypeOK, service
  <1> HIDE DEF IInv
  <1>3. RequestsAreCounted'
    BY DEF IInv, NumbersAreNew, RequestsAreCounted
  <1>4. QED
    BY <1>1, <1>2, <1>3, QuietIInv

\* The transmitter only moves what was handed over.
LEMMA TransmitterIInv ==
  ASSUME IInv, TransmitterStep PROVE IInv'
  <1> USE DEF IInv
  <1>1. /\ outbox' \in Seq(Messages) /\ Len(outbox') <= OutboxLen
        /\ sending' \in Seq(Messages) /\ Len(sending') <= 1
        /\ sent' \subseteq handed
        /\ outbox' \in Seq(handed) /\ sending' \in Seq(handed)
    <2>1. CASE GetMessage
      <3>1. Len(outbox') = Len(outbox) - 1 /\ Len(outbox) \in Nat
        BY <2>1, HeadTailProperties, LenProperties DEF GetMessage, Remaining, TypeOK
      <3>2. outbox' \in Seq(Messages) /\ outbox' \in Seq(handed)
        BY <2>1, HeadTailProperties
        DEF GetMessage, Remaining, TypeOK, MessagesAreHanded
      <3>3. Head(outbox) \in Messages /\ Head(outbox) \in handed
        BY <2>1, HeadTailProperties DEF GetMessage, TypeOK, MessagesAreHanded
      <3>4. sending' = <<Head(outbox)>>
        BY <2>1 DEF GetMessage
      <3>5. /\ sending' \in Seq(Messages) /\ Len(sending') <= 1
            /\ sending' \in Seq(handed)
        BY <3>3, <3>4
      <3>6. QED
        BY <2>1, <3>1, <3>2, <3>5, ServerAssumption DEF GetMessage, TypeOK
    <2>2. CASE SendMessage
      <3>1. sending[1] \in handed
        <4>1. Len(sending) \in Nat \ {0}
          BY <2>2, EmptySeq DEF SendMessage, MessagesAreHanded
        <4>2. QED
          BY <4>1, ElementOfSeq DEF MessagesAreHanded
      <3>2. sending' \in Seq(Messages) /\ sending' \in Seq(handed) /\ Len(sending') = 0
        BY <2>2, EmptySeq DEF SendMessage
      <3>3. QED
        BY <2>2, <3>1, <3>2 DEF SendMessage, TypeOK, MessagesAreHanded
    <2>3. QED
      BY <2>1, <2>2 DEF TransmitterStep
  <1>2. UNCHANGED <<inbox, requests, nextId, lpc, scratch, accepted, i, finished,
                    service, handed>>
    BY DEF TransmitterStep, GetMessage, SendMessage, listener, service
  <1>3. TypeOK'
    BY <1>1, <1>2 DEF TypeOK, service
  <1>4. MessagesAreHanded'
    BY <1>1, <1>2 DEF MessagesAreHanded
  <1> HIDE DEF IInv
  <1>5. RequestsAreCounted'
    BY <1>2 DEF IInv, NumbersAreNew, RequestsAreCounted
  <1>6. QED
    BY <1>2, <1>3, <1>4, <1>5, QuietIInv

-----------------------------------------------------------------------------
(* The listener, from the request to its acknowledgement.                  *)

\* The number is new.
LEMMA ReceiveRequestIInv ==
  ASSUME IInv, ReceiveRequest PROVE IInv'
  <1> USE DEF IInv
  <1>1. /\ inbox # <<>> /\ inbox' = Tail(inbox) /\ lpc = "recv" /\ lpc' = "submit"
        /\ requests' = requests + 1
        /\ UNCHANGED <<accepted, i, finished, queue, serving, started, outbox,
                       sending, handed, sent>>
    BY DEF ReceiveRequest, service
  <1>2. /\ inbox' \in Seq(Packets) /\ Len(inbox') <= InboxLen
        /\ Len(inbox') = Len(inbox) - 1 /\ Len(inbox) \in Nat \ {0}
        /\ Head(inbox) \in Packets
    BY <1>1, TailOfInbox
  <1>3. scratch' \in FullId /\ scratch'.server = nextId
    BY <1>2 DEF ReceiveRequest, Packets, FullId, TypeOK
  <1>4. nextId' \in 1 .. MaxServerId
    BY ServerAssumption DEF ReceiveRequest, NextHalf, TypeOK
  <1>5. requests \in Nat /\ requests + 1 <= MaxRequests
    <2>1. 1 \in DOMAIN inbox /\ inbox[1] = Head(inbox)
      BY <1>1, <1>2, LenProperties DEF TypeOK
    <2>2. inbox[1].msg = "NEW_REQUEST"
      BY <2>1 DEF ReceiveRequest
    <2>3. QED
      BY <2>1, <2>2 DEF NumbersAreNew, RequestsAreCounted, TypeOK
  <1>6. TypeOK'
    BY <1>1, <1>2, <1>3, <1>4, <1>5, ServerAssumption DEF TypeOK
  <1>7. Finished' = Finished /\ Started' = Started /\ Served' = Served
    BY <1>1 DEF Finished, Started, Served
  <1>8. /\ nextId = requests + 1
        /\ \A m \in handed : m.id.server < nextId
        /\ \A id \in Served : id.server < nextId
    BY <1>5, ServerAssumption DEF NumbersAreNew
  <1>9. scratch' \notin Served /\ \A m \in handed : m.id # scratch'
    <2>1. ~(nextId < nextId)
      BY ServerAssumption DEF TypeOK
    <2>2. QED
      BY <1>3, <1>8, <2>1
  <1>10. NumbersAreNew'
    <2>1. RequestsAreCounted'
      BY <1>1, TailIsCounted DEF NumbersAreNew
    <2>2. CASE requests + 1 = MaxRequests
      BY <1>1, <2>1, <2>2 DEF NumbersAreNew
    <2>3. CASE requests + 1 # MaxRequests
      <3>1. nextId' = nextId + 1 /\ nextId \in Nat
        BY <1>5, <1>8, <2>3, ServerAssumption DEF ReceiveRequest, NextHalf, TypeOK
      <3>2. /\ \A m \in handed' : m.id.server < nextId'
            /\ \A id \in Served' \cup {scratch'} : id.server < nextId'
        <4>1. \A m \in handed : m.id.server \in Nat
          BY IdsHaveNumbers
        <4>2. \A id \in Served : id.server \in Nat
          BY IdsHaveNumbers
        <4>3. QED
          BY <1>1, <1>3, <1>7, <1>8, <3>1, <4>1, <4>2
      <3>3. QED
        BY <1>1, <1>8, <2>1, <3>1, <3>2 DEF NumbersAreNew
    <2>4. QED
      BY <2>2, <2>3
  <1>11. AcceptedIsServed' /\ AckPrecedesStart'
    BY <1>1, <1>7 DEF AcceptedIsServed, AckPrecedesStart
  <1>12. VerdictIsRight'
    BY <1>1, <1>3, <1>7, <1>9 DEF VerdictIsRight
  <1>13. ServedIsAcknowledged'
    BY <1>1, <1>7 DEF ServedIsAcknowledged, Acked
  <1>14. MessagesAreHanded'
    BY <1>1 DEF MessagesAreHanded
  <1>15. QED
    BY <1>6, <1>10, <1>11, <1>12, <1>13, <1>14

\* The verdict is about this request only.
LEMMA SubmitIInv ==
  ASSUME IInv, Submit PROVE IInv'
  <1> USE DEF IInv
  <1>1. /\ lpc = "submit" /\ lpc' = "print" /\ accepted' = TRUE
        /\ queue' = Append(queue, AllTests(scratch))
        /\ UNCHANGED <<inbox, requests, nextId, scratch, i, finished, serving,
                       started, outbox, sending, handed, sent>>
    BY DEF Submit, Verdict
  <1>2. scratch \in FullId
    BY <1>1 DEF VerdictIsRight
  <1>3. AllTests(scratch) \in Request /\ AllTests(scratch).id = scratch
    BY <1>2, RequestTypes
  <1>4. queue' \in Seq(Request) /\ Len(queue') <= QueueLen
    BY <1>1, <1>3, AppendProperties, LenProperties, ServerAssumption
    DEF Submit, HasRoom, TypeOK
  <1>5. TypeOK'
    BY <1>1, <1>4 DEF TypeOK
  <1>6. Finished' = Finished /\ Started' = Started
    BY <1>1 DEF Finished, Started
  <1>7. Served' = Served \cup {scratch}
    <2>1. {queue'[k].id : k \in DOMAIN queue'}
            = {queue[k].id : k \in DOMAIN queue} \cup {scratch}
      <3> DEFINE r == AllTests(scratch)
      <3>1. queue \in Seq(Request) /\ r \in Request /\ r.id = scratch
        BY <1>3 DEF TypeOK
      <3>2. queue' = Append(queue, r)
        BY <1>1
      <3> HIDE DEF r
      <3>3. {Append(queue, r)[k].id : k \in DOMAIN Append(queue, r)}
              = {queue[k].id : k \in DOMAIN queue} \cup {r.id}
        BY <3>1, IdsOfAppend
      <3>4. QED
        BY <3>1, <3>2, <3>3
    <2>2. QED
      BY <1>1, <1>6, <2>1 DEF Served
  <1>8. AcceptedIsServed'
    BY <1>1, <1>7 DEF AcceptedIsServed, VerdictIsRight
  <1>9. AckPrecedesStart'
    BY <1>1, <1>6 DEF AckPrecedesStart
  <1>10. NumbersAreNew'
    BY <1>1, <1>7 DEF NumbersAreNew, RequestsAreCounted
  <1>11. VerdictIsRight'
    BY <1>1, <1>2, <1>7 DEF VerdictIsRight
  <1>12. ServedIsAcknowledged'
    BY <1>1, <1>7 DEF ServedIsAcknowledged, Acked
  <1>13. MessagesAreHanded'
    BY <1>1 DEF MessagesAreHanded
  <1>14. QED
    BY <1>5, <1>8, <1>9, <1>10, <1>11, <1>12, <1>13

LEMMA RejectIInv ==
  ASSUME IInv, Reject PROVE IInv'
  <1> USE DEF IInv
  <1>1. /\ lpc = "submit" /\ lpc' = "print" /\ accepted' = FALSE
        /\ UNCHANGED <<inbox, requests, nextId, scratch, i, finished, queue, serving,
                       started, outbox, sending, handed, sent>>
    BY DEF Reject, Verdict, service
  <1>2. TypeOK'
    BY <1>1 DEF TypeOK
  <1>3. Finished' = Finished /\ Started' = Started /\ Served' = Served
    BY <1>1 DEF Finished, Started, Served
  <1>4. AcceptedIsServed' /\ AckPrecedesStart'
    BY <1>1, <1>3 DEF AcceptedIsServed, AckPrecedesStart
  <1>5. NumbersAreNew' /\ MessagesAreHanded'
    BY <1>1, <1>3 DEF NumbersAreNew, RequestsAreCounted, MessagesAreHanded
  <1>6. VerdictIsRight'
    BY <1>1, <1>3 DEF VerdictIsRight
  <1>7. ServedIsAcknowledged'
    BY <1>1, <1>3 DEF ServedIsAcknowledged, Acked
  <1>8. QED
    BY <1>2, <1>4, <1>5, <1>6, <1>7

LEMMA PrintVerdictIInv ==
  ASSUME IInv, PrintVerdict PROVE IInv'
  <1> USE DEF IInv
  <1>1. /\ lpc = "print" /\ lpc' = "ack" /\ i' = 0
        /\ UNCHANGED <<inbox, requests, nextId, scratch, accepted, finished, queue,
                       serving, started, outbox, sending, handed, sent>>
    BY DEF PrintVerdict, service
  <1>2. TypeOK'
    BY <1>1, ServerAssumption DEF TypeOK
  <1>3. Finished' = Finished /\ Started' = Started /\ Served' = Served
    BY <1>1 DEF Finished, Started, Served
  <1>4. AcceptedIsServed' /\ AckPrecedesStart'
    BY <1>1, <1>3 DEF AcceptedIsServed, AckPrecedesStart
  <1>5. NumbersAreNew' /\ MessagesAreHanded'
    BY <1>1, <1>3 DEF NumbersAreNew, RequestsAreCounted, MessagesAreHanded
  <1>6. VerdictIsRight'
    BY <1>1, <1>3, ServerAssumption DEF VerdictIsRight
  <1>7. ServedIsAcknowledged'
    BY <1>1, <1>3 DEF ServedIsAcknowledged, Acked
  <1>8. QED
    BY <1>2, <1>4, <1>5, <1>6, <1>7

\* After its last turn the loop is over, acknowledged or not.
LEMMA SendAckIInv ==
  ASSUME IInv, SendAck PROVE IInv'
  <1> USE DEF IInv
  <1> DEFINE ack == NewAck(scratch, accepted)
  <1>1. /\ lpc = "ack" /\ lpc' \in {"ack", "recv"} /\ i' = i + 1
        /\ lpc' = "ack" => i + 1 < Repeats /\ finished' = finished
        /\ lpc' = "recv" => finished' = finished \cup {scratch}
        /\ UNCHANGED <<inbox, requests, nextId, scratch, accepted, queue, serving,
                       started, sending, sent>>
    BY DEF SendAck, service
  <1>2. /\ scratch \in FullId /\ accepted \in BOOLEAN
        /\ accepted <=> scratch \in Served
        /\ i \in Nat /\ i < Repeats
    BY <1>1, ServerAssumption DEF VerdictIsRight, TypeOK
  <1>3. /\ ack \in Messages /\ ack.msg = "NEW_ACK" /\ ack.id = scratch
        /\ ack.selection # {} <=> accepted
    BY <1>2, MessageTypes DEF NewAck
  <1>4. handed' = handed \/ handed' = handed \cup {ack}
    BY DEF SendAck
  <1>5. /\ outbox' \in Seq(Messages) /\ Len(outbox') <= OutboxLen
        /\ handed' \subseteq Messages /\ sent' \subseteq handed'
        /\ MessagesAreHanded'
    <2>1. CASE UNCHANGED <<outbox, handed>>
      BY <1>1, <2>1 DEF TypeOK, MessagesAreHanded
    <2>2. CASE ~UNCHANGED <<outbox, handed>>
      <3>1. /\ HasRoom(outbox, OutboxLen)
            /\ outbox' = Append(outbox, ack) /\ handed' = handed \cup {ack}
        BY <2>2 DEF SendAck
      <3>2. QED
        BY <1>1, <1>3, <3>1, HandingOver
    <2>3. QED
      BY <2>1, <2>2
  <1>6. finished' \subseteq FullId /\ finished \subseteq finished'
    BY <1>1, <1>2 DEF TypeOK
  <1>7. i' \in 0 .. Repeats
    BY <1>1, <1>2, ServerAssumption
  <1>8. TypeOK'
    BY <1>1, <1>5, <1>6, <1>7 DEF TypeOK
  <1> HIDE DEF ack
  <1>9. Finished' = Finished /\ Started' = Started
    BY <1>3, <1>4, Handing DEF Finished, Started
  <1>10. Served' = Served
    BY <1>1, <1>9 DEF Served
  <1>11. AcceptedIsServed'
    BY <1>2, <1>3, <1>4, <1>10 DEF AcceptedIsServed
  <1>12. AckPrecedesStart'
    BY <1>4, <1>6, <1>9 DEF AckPrecedesStart
  <1>13. NumbersAreNew'
    BY <1>1, <1>3, <1>4, <1>10 DEF NumbersAreNew, RequestsAreCounted
  <1>14. VerdictIsRight'
    BY <1>1, <1>10 DEF VerdictIsRight
  <1>15. ServedIsAcknowledged'
    <2>1. \A id : Acked(id) => Acked(id)'
      BY <1>4 DEF Acked
    <2>2. QED
      BY <1>1, <1>6, <1>10, <2>1 DEF ServedIsAcknowledged
  <1>16. QED
    BY <1>5, <1>8, <1>11, <1>12, <1>13, <1>14, <1>15

-----------------------------------------------------------------------------
(* The runner.                                                             *)

\* A request moves on within Served.
LEMMA TakeIInv ==
  ASSUME IInv, Take PROVE IInv'
  <1> USE DEF IInv
  <1>1. /\ serving = <<>> /\ queue # <<>>
        /\ serving' = <<Head(queue)>> /\ queue' = Tail(queue)
        /\ UNCHANGED <<inbox, requests, nextId, lpc, scratch, accepted, i, finished,
                       started, outbox, sending, handed, sent>>
    BY DEF Take, Service!Take, listener
  <1>2. /\ queue' \in Seq(Request) /\ Len(queue') <= QueueLen
        /\ Head(queue) \in Request
    BY <1>1, HeadTailProperties, LenProperties, ServerAssumption DEF TypeOK
  <1>3. serving' \in Seq(Request) /\ Len(serving') <= 1 /\ serving' # <<>>
    BY <1>1, <1>2
  <1>4. TypeOK'
    BY <1>1, <1>2, <1>3 DEF TypeOK
  <1>5. Finished' = Finished /\ Started' = Started
    BY <1>1 DEF Finished, Started
  <1>6. Served' = Served
    <2>1. {queue[k].id : k \in DOMAIN queue}
            = {Head(queue).id} \cup {queue'[k].id : k \in DOMAIN queue'}
      <3>1. queue \in Seq(Request)
        BY DEF TypeOK
      <3>2. {queue[k].id : k \in DOMAIN queue}
              = {Head(queue).id} \cup {Tail(queue)[k].id : k \in DOMAIN Tail(queue)}
        BY <1>1, <3>1, IdsOfTail
      <3>3. QED
        BY <1>1, <3>2
    <2>2. {serving'[k].id : k \in DOMAIN serving'} = {Head(queue).id}
      BY <1>1, IdsOfOne
    <2>3. {serving[k].id : k \in DOMAIN serving} = {}
      BY <1>1
    <2>4. QED
      BY <1>5, <2>1, <2>2, <2>3 DEF Served
  <1>7. AcceptedIsServed' /\ AckPrecedesStart'
    BY <1>1, <1>5, <1>6 DEF AcceptedIsServed, AckPrecedesStart
  <1>8. NumbersAreNew' /\ MessagesAreHanded'
    BY <1>1, <1>6 DEF NumbersAreNew, RequestsAreCounted, MessagesAreHanded
  <1>9. VerdictIsRight'
    BY <1>1, <1>6 DEF VerdictIsRight
  <1>10. ServedIsAcknowledged'
    BY <1>1, <1>3, <1>6 DEF ServedIsAcknowledged, Acked
  <1>11. QED
    BY <1>4, <1>7, <1>8, <1>9, <1>10

\* The one request that is being served.
LEMMA ServingOne ==
  ASSUME TypeOK, serving # <<>>
  PROVE  /\ serving[1] \in Request
         /\ {serving[k].id : k \in DOMAIN serving} = {serving[1].id}
  <1>1. Len(serving) = 1
    <2> DEFINE n == Len(serving)
    <2>1. n \in Nat \ {0}
      BY EmptySeq DEF TypeOK
    <2>2. n <= 1
      BY DEF TypeOK
    <2> HIDE DEF n
    <2>3. n = 1
      BY <2>1, <2>2
    <2>4. QED
      BY <2>3 DEF n
  <1>2. DOMAIN serving = {1} /\ serving[1] \in Request
    BY <1>1, LenProperties, ElementOfSeq DEF TypeOK
  <1>3. QED
    BY <1>2

\* An outbox with room for the confirmation had room for the acknowledgement.
LEMMA AnswerIInv ==
  ASSUME IInv, Answer PROVE IInv'
  <1> USE DEF IInv
  <1>1. PICK m \in Messages :
          /\ HasRoom(outbox, OutboxLen)
          /\ outbox' = Append(outbox, m)
          /\ \/ m.msg = "START_ACK" /\ serving' = serving /\ started' = TRUE
             \/ m.msg = "RESULTS" /\ serving' = <<>> /\ started' = FALSE
          /\ m.id = serving[1].id
    <2>1. serving # <<>>
      BY DEF Answer, Service!Start, Service!Finish, ServedIsAcknowledged
    <2>2. serving[1] \in Request
      BY <2>1, ServingOne
    <2>3. CASE Service!Start
      <3>1. StartAck(serving[1]) \in Messages
        BY <2>2, MessageTypes
      <3>2. /\ outbox' = Append(outbox, StartAck(serving[1]))
            /\ HasRoom(outbox, OutboxLen) /\ serving' = serving /\ started' = TRUE
        BY <2>3 DEF Service!Start, Service!StartAck, Service!HasRoom, StartAck, HasRoom
      <3>3. /\ StartAck(serving[1]).msg = "START_ACK"
            /\ StartAck(serving[1]).id = serving[1].id
        BY DEF StartAck
      <3>4. QED
        BY <3>1, <3>2, <3>3
    <2>4. CASE Service!Finish
      <3>1. PICK passed \in SUBSET serving[1].selection :
              outbox' = Append(outbox, Results(serving[1], passed))
        BY <2>4 DEF Service!Finish, Service!Results, Results
      <3>2. Results(serving[1], passed) \in Messages
        BY <2>2, MessageTypes DEF Request
      <3>3. HasRoom(outbox, OutboxLen) /\ serving' = <<>> /\ started' = FALSE
        BY <2>4 DEF Service!Finish, Service!HasRoom, HasRoom
      <3>4. /\ Results(serving[1], passed).msg = "RESULTS"
            /\ Results(serving[1], passed).id = serving[1].id
        BY DEF Results
      <3>5. QED
        BY <3>1, <3>2, <3>3, <3>4
    <2>5. QED
      BY <2>3, <2>4 DEF Answer
  <1>2. /\ serving # <<>> /\ queue' = queue
        /\ UNCHANGED <<inbox, requests, nextId, lpc, scratch, accepted, i, finished,
                       sending, sent>>
    BY DEF Answer, Service!Start, Service!Finish, ServedIsAcknowledged, listener
  <1>3. handed' = handed \cup {m}
    <2>1. outbox'[Len(outbox')] = m
      BY <1>1, AppendProperties, LenProperties DEF TypeOK
    <2>2. QED
      BY <2>1 DEF Answer
  <1>4. /\ outbox' \in Seq(Messages) /\ Len(outbox') <= OutboxLen
        /\ handed' \subseteq Messages /\ sent' \subseteq handed'
        /\ MessagesAreHanded'
    BY <1>1, <1>2, <1>3, HandingOver
  <1>5. TypeOK'
    <2>1. serving' \in Seq(Request) /\ Len(serving') <= 1 /\ started' \in BOOLEAN
      <3>1. serving \in Seq(Request) /\ Len(serving) <= 1
        BY DEF TypeOK
      <3>2. <<>> \in Seq(Request) /\ Len(<<>>) <= 1
        BY EmptySeq
      <3>3. (serving' = serving \/ serving' = <<>>) /\ started' \in BOOLEAN
        BY <1>1
      <3>4. QED
        BY <3>1, <3>2, <3>3
    <2>2. QED
      BY <1>2, <1>4, <2>1 DEF TypeOK
  <1>6. m.id \in Served /\ Served' = Served
    <2>1. {serving[k].id : k \in DOMAIN serving} = {m.id}
      BY <1>1, <1>2, ServingOne
    <2>2. CASE m.msg = "START_ACK"
      <3>1. Finished' = Finished /\ serving' = serving
        BY <1>1, <1>3, <2>2, Handing
      <3>2. QED
        BY <1>2, <2>1, <3>1 DEF Served
    <2>3. CASE m.msg = "RESULTS"
      <3>1. Finished' = Finished \cup {m.id}
        BY <1>3, <2>3, Handing
      <3>2. {serving'[k].id : k \in DOMAIN serving'} = {}
        BY <1>1, <2>3
      <3>3. QED
        BY <1>2, <2>1, <3>1, <3>2 DEF Served
    <2>4. QED
      BY <1>1, <2>2, <2>3
  <1>7. m.msg # "NEW_ACK"
    BY <1>1
  <1>8. AcceptedIsServed'
    BY <1>3, <1>6, <1>7 DEF AcceptedIsServed
  <1>9. m.id \in finished \/ Acked(m.id)
    <2>1. CASE m.id = scratch /\ lpc = "print"
      BY <1>1, <1>2, <2>1 DEF Answer, PrintsInOrder
    <2>2. CASE m.id = scratch /\ lpc = "ack"
      BY <1>1, <2>2 DEF Answer, ListenerWaits
    <2>3. QED
      BY <1>6, <2>1, <2>2 DEF ServedIsAcknowledged
  <1>10. \A id : Acked(id) => Acked(id)'
    BY <1>3 DEF Acked
  <1>11. AckPrecedesStart'
    <2>1. Started' \subseteq Started \cup {m.id}
      BY <1>3, Handing
    <2>2. \A id \in Started : id \in finished \/ Acked(id)
      BY DEF AckPrecedesStart, Acked
    <2>3. \A id \in Started' : id \in finished' \/ Acked(id)'
      BY <1>2, <1>9, <1>10, <2>1, <2>2
    <2>4. QED
      BY <2>3 DEF AckPrecedesStart, Acked
  <1>12. NumbersAreNew'
    BY <1>2, <1>3, <1>6 DEF NumbersAreNew, RequestsAreCounted
  <1>13. VerdictIsRight'
    BY <1>2, <1>3, <1>6 DEF VerdictIsRight
  <1>14. ServedIsAcknowledged'
    BY <1>1, <1>2, <1>6, <1>10 DEF ServedIsAcknowledged
  <1>15. QED
    BY <1>4, <1>5, <1>8, <1>11, <1>12, <1>13, <1>14

LEMMA NextIInv == IInv /\ [Next]_vars => IInv'
  <1> SUFFICES ASSUME IInv, [Next]_vars PROVE IInv'
    OBVIOUS
  <1>1. CASE UNCHANGED vars
    <2>1. Finished' = Finished /\ Started' = Started /\ Served' = Served
      BY <1>1 DEF vars, service, Finished, Started, Served
    <2>2. TypeOK'
      BY <1>1 DEF IInv, TypeOK, vars, listener, service
    <2>3. AcceptedIsServed' /\ AckPrecedesStart' /\ MessagesAreHanded'
      BY <1>1, <2>1
      DEF IInv, AcceptedIsServed, AckPrecedesStart, MessagesAreHanded, vars, listener
    <2>4. NumbersAreNew' /\ VerdictIsRight' /\ ServedIsAcknowledged'
      BY <1>1, <2>1
      DEF IInv, NumbersAreNew, RequestsAreCounted, VerdictIsRight,
          ServedIsAcknowledged, Acked, vars, listener, service
    <2>5. QED
      BY <2>2, <2>3, <2>4 DEF IInv
  <1>2. CASE Arrive
    BY <1>2, ArriveIInv
  <1>3. CASE ListenerStep
    BY <1>3, ReceiveRequestIInv, ReceiveProbeIInv, DiscardIInv, SubmitIInv,
       RejectIInv, PrintVerdictIInv, SendAckIInv, SendBeaconIInv DEF ListenerStep
  <1>4. CASE RunnerStep
    BY <1>4, TakeIInv, AnswerIInv DEF RunnerStep
  <1>5. CASE TransmitterStep
    BY <1>5, TransmitterIInv
  <1>6. QED
    BY <1>1, <1>2, <1>3, <1>4, <1>5 DEF Next

-----------------------------------------------------------------------------
(* Theorems.                                                               *)

\* The inductive invariant holds: which requests are served, acknowledged and
\* numbered, at every step of listener, runner and transmitter.
THEOREM Invariance == Spec => []IInv
  <1>1. Init => IInv
    BY InitIInv
  <1>2. IInv /\ [Next]_vars => IInv'
    BY NextIInv
  <1>3. QED
    BY <1>1, <1>2, PTL DEF Spec

\* Types: no queue ever holds more than its slots, and nothing is sent that was
\* not handed over.
THEOREM TypeCorrect == Spec => []TypeOK
  <1>1. IInv => TypeOK
    BY DEF IInv
  <1>2. QED
    BY <1>1, Invariance, PTL

\* What send_new_test_ack tells a client about its request is true.
THEOREM AcksAreTrue == Spec => []AcceptedIsServed
  <1>1. IInv => AcceptedIsServed
    BY DEF IInv
  <1>2. QED
    BY <1>1, Invariance, PTL

\* send_test_start_confirmation does not overtake send_new_test_ack.
THEOREM AcksComeFirst == Spec => []AckPrecedesStart
  <1>1. IInv => AckPrecedesStart
    BY DEF IInv
  <1>2. QED
    BY <1>1, Invariance, PTL

-----------------------------------------------------------------------------
(* The refinement: messages of the runner among all messages.              *)

\* The elements of a finite set of numbers, counted from the smallest.
LEMMA Ranks ==
  ASSUME NEW S, S \subseteq Nat, IsFiniteSet(S)
  PROVE  /\ Cardinality(S) \in Nat
         /\ \A k \in S : Rank(S, k) \in 1 .. Cardinality(S)
         /\ \A k, l \in S : Rank(S, k) = Rank(S, l) => k = l
         /\ \A n \in 1 .. Cardinality(S) : \E k \in S : Rank(S, k) = n
  <1> DEFINE c    == Cardinality(S)
             U(k) == {p \in S : p <= k}
             F    == [k \in S |-> Cardinality(U(k))]
  <1>1. c \in Nat
    BY FS_CardinalityType
  <1>2. ASSUME NEW k \in S
        PROVE  IsFiniteSet(U(k)) /\ Cardinality(U(k)) \in 1 .. c
    <2>1. U(k) \in SUBSET S /\ U(k) # {}
      OBVIOUS
    <2> HIDE DEF U
    <2>2. IsFiniteSet(U(k)) /\ Cardinality(U(k)) <= c /\ Cardinality(U(k)) \in Nat
      BY <2>1, FS_Subset, FS_CardinalityType
    <2>3. Cardinality(U(k)) # 0
      BY <2>1, <2>2, FS_EmptySet
    <2>4. QED
      BY <1>1, <2>2, <2>3
  <1>3. ASSUME NEW k \in S, NEW l \in S, k < l
        PROVE  Cardinality(U(k)) < Cardinality(U(l))
    <2>1. U(k) \cup {l} \in SUBSET U(l) /\ l \notin U(k)
      <3>1. k \in Nat /\ l \in Nat /\ l <= l /\ ~ (l <= k)
        BY <1>3
      <3>2. ASSUME NEW p \in S, p <= k PROVE p <= l
        <4>1. p \in Nat
          OBVIOUS
        <4>2. QED
          BY <1>3, <3>1, <3>2, <4>1
      <3>3. QED
        BY <3>1, <3>2
    <2> HIDE DEF U
    <2>2. IsFiniteSet(U(k)) /\ IsFiniteSet(U(l)) /\ Cardinality(U(k)) \in Nat
          /\ Cardinality(U(l)) \in Nat
      BY <1>2
    <2>3. Cardinality(U(k) \cup {l}) = Cardinality(U(k)) + 1
      BY <2>1, <2>2, FS_AddElement
    <2>4. Cardinality(U(k) \cup {l}) <= Cardinality(U(l))
      BY <2>1, <2>2, FS_Subset
    <2>5. QED
      BY <2>2, <2>3, <2>4
  <1> HIDE DEF U, c
  <1>4. \A k, l \in S : Cardinality(U(k)) = Cardinality(U(l)) => k = l
    <2>1. ASSUME NEW k \in S, NEW l \in S, Cardinality(U(k)) = Cardinality(U(l))
          PROVE  k = l
      <3>1. Cardinality(U(k)) \in Nat
        BY <1>1, <1>2
      <3>2. ~ (k < l) /\ ~ (l < k)
        BY <1>3, <2>1, <3>1
      <3>3. k \in Nat /\ l \in Nat
        OBVIOUS
      <3>4. QED
        BY <3>2, <3>3
    <2>2. QED
      BY <2>1
  <1>5. F \in Injection(S, 1 .. c)
    <2>1. F \in [S -> 1 .. c] /\ \A k, l \in S : F[k] = F[l] => k = l
      BY <1>2, <1>4
    <2> HIDE DEF F
    <2>2. QED
      BY <2>1 DEF Injection, IsInjective
  <1>6. IsFiniteSet(1 .. c) /\ Cardinality(1 .. c) = c
    BY <1>1, FS_Interval
  <1>7. F \in Surjection(S, 1 .. c)
    <2> HIDE DEF F
    <2>1. QED
      BY <1>5, <1>6, FS_Injection DEF c
  <1>8. \A n \in 1 .. c : \E k \in S : Cardinality(U(k)) = n
    <2>1. \A n \in 1 .. c : \E k \in S : F[k] = n
      <3> HIDE DEF F
      <3>1. QED
        BY <1>7 DEF Surjection
    <2>2. QED
      BY <2>1
  <1>9. \A k : Rank(S, k) = Cardinality(U(k))
    BY DEF Rank, U
  <1>10. QED
    BY <1>1, <1>2, <1>4, <1>8, <1>9 DEF c

LEMMA PlacesType ==
  ASSUME NEW q \in Seq(Messages)
  PROVE  /\ Len(q) \in Nat /\ DOMAIN q = 1 .. Len(q)
         /\ Places(q) \subseteq 1 .. Len(q) /\ Places(q) \subseteq Nat
         /\ IsFiniteSet(Places(q)) /\ Cardinality(Places(q)) <= Len(q)
         /\ Cardinality(Places(q)) \in Nat
  <1>1. Len(q) \in Nat /\ DOMAIN q = 1 .. Len(q)
    BY LenProperties
  <1>2. Places(q) \in SUBSET (1 .. Len(q))
    BY <1>1 DEF Places
  <1>3. IsFiniteSet(1 .. Len(q)) /\ Cardinality(1 .. Len(q)) = Len(q)
    BY <1>1, FS_Interval
  <1>4. QED
    BY <1>1, <1>2, <1>3, FS_Subset, FS_CardinalityType

\* OfRunner(q) is the one sequence that has each message at its rank.
LEMMA OfRunnerIs ==
  ASSUME NEW q \in Seq(Messages)
  PROVE  /\ OfRunner(q) \in Seq(Messages)
         /\ Len(OfRunner(q)) = Cardinality(Places(q))
         /\ \A k \in Places(q) : OfRunner(q)[Rank(Places(q), k)] = q[k]
         /\ \A f \in Seq(Messages) :
              /\ Len(f) = Cardinality(Places(q))
              /\ \A k \in Places(q) : f[Rank(Places(q), k)] = q[k]
              => f = OfRunner(q)
  <1> DEFINE S == Places(q)
             c == Cardinality(S)
             pick(n) == CHOOSE k \in S : Rank(S, k) = n
             g == OfRunner(q)
  <1>1. /\ S \subseteq 1 .. Len(q) /\ S \subseteq Nat /\ IsFiniteSet(S) /\ c \in Nat
        /\ q \in [1 .. Len(q) -> Messages]
    BY PlacesType, LenProperties
  <1> HIDE DEF S
  <1>2. /\ \A k \in S : Rank(S, k) \in 1 .. c
        /\ \A k, l \in S : Rank(S, k) = Rank(S, l) => k = l
        /\ \A n \in 1 .. c : \E k \in S : Rank(S, k) = n
    BY <1>1, Ranks
  <1>3. \A n \in 1 .. c : pick(n) \in S /\ Rank(S, pick(n)) = n
    BY <1>2
  <1>4. \A k \in S : pick(Rank(S, k)) = k
    BY <1>2, <1>3
  <1>5. g = [n \in 1 .. c |-> q[pick(n)]]
    BY DEF OfRunner, S
  <1> HIDE DEF pick, g, c
  <1>6. g \in [1 .. c -> Messages]
    BY <1>1, <1>3, <1>5
  <1>7. g \in Seq(Messages) /\ Len(g) = c
    BY <1>1, <1>6, SeqDef, LenProperties
  <1>8. \A k \in S : g[Rank(S, k)] = q[k]
    BY <1>2, <1>4, <1>5
  <1>9. ASSUME NEW f \in Seq(Messages), Len(f) = c, \A k \in S : f[Rank(S, k)] = q[k]
        PROVE  f = g
    <2>1. \A n \in 1 .. c : f[n] = g[n]
      BY <1>2, <1>8, <1>9
    <2>2. QED
      BY <1>7, <1>9, <2>1, SeqEqual
  <1>10. QED
    BY <1>7, <1>8, <1>9 DEF g, c, S

\* Counting is not disturbed by moving a set one place up.
LEMMA OneUp ==
  ASSUME NEW S, S \subseteq Nat, IsFiniteSet(S)
  PROVE  /\ IsFiniteSet({k + 1 : k \in S})
         /\ Cardinality({k + 1 : k \in S}) = Cardinality(S)
  <1> DEFINE T == {k + 1 : k \in S}
             F == [k \in S |-> k + 1]
  <1>1. F \in [S -> T] /\ \A t \in T : \E k \in S : F[k] = t
    OBVIOUS
  <1>2. \A k, l \in S : F[k] = F[l] => k = l
    <2>1. \A k, l \in S : k + 1 = l + 1 => k = l
      <3>1. \A k, l \in Nat : k + 1 = l + 1 => k = l
        OBVIOUS
      <3>2. QED
        BY <3>1
    <2>2. QED
      BY <2>1
  <1> HIDE DEF F, T
  <1>3. F \in Surjection(S, T) /\ F \in Injection(S, T)
    BY <1>1, <1>2 DEF Surjection, Injection, IsInjective
  <1>4. IsFiniteSet(T) /\ Cardinality(T) = Cardinality(S)
    BY <1>3, FS_Surjection
  <1>5. QED
    BY <1>4 DEF T

OfTheRunner(m) == m.msg \in {"START_ACK", "RESULTS"}

LEMMA OfRunnerAppend ==
  ASSUME NEW q \in Seq(Messages), NEW m \in Messages
  PROVE  OfRunner(Append(q, m))
           = IF OfTheRunner(m) THEN Append(OfRunner(q), m) ELSE OfRunner(q)
  <1> DEFINE a == Append(q, m)
             S == Places(q)
             T == Places(a)
             n == Len(q)
             c == Cardinality(S)
             f == OfRunner(q)
  <1>1. /\ a \in Seq(Messages) /\ Len(a) = n + 1 /\ n \in Nat
        /\ DOMAIN a = 1 .. n + 1 /\ DOMAIN q = 1 .. n
        /\ \A k \in 1 .. n : a[k] = q[k]
        /\ a[n + 1] = m
    BY AppendProperties, LenProperties
  <1>2. T = IF OfTheRunner(m) THEN S \cup {n + 1} ELSE S
    <2>1. 1 .. n + 1 = (1 .. n) \cup {n + 1}
      BY <1>1
    <2> HIDE DEF a, n
    <2>2. QED
      BY <1>1, <2>1 DEF Places, OfTheRunner
  <1>3. /\ S \subseteq 1 .. n /\ S \subseteq Nat /\ IsFiniteSet(S) /\ c \in Nat
        /\ n + 1 \notin S
    <2>1. S \subseteq 1 .. n /\ S \subseteq Nat /\ IsFiniteSet(S) /\ c \in Nat
      BY PlacesType
    <2> HIDE DEF S
    <2>2. n + 1 \notin S
      BY <1>1, <2>1
    <2>3. QED
      BY <2>1, <2>2
  <1>4. /\ f \in Seq(Messages) /\ Len(f) = c
        /\ \A k \in S : f[Rank(S, k)] = q[k]
    BY OfRunnerIs
  <1>5. /\ \A k \in S : Rank(S, k) \in 1 .. c
    BY <1>3, Ranks
  <1>6. ASSUME NEW g \in Seq(Messages), Len(g) = Cardinality(T),
               \A k \in T : g[Rank(T, k)] = a[k]
        PROVE  g = OfRunner(a)
    BY <1>1, <1>6, OfRunnerIs
  <1> HIDE DEF a, S, T, n, f
  <1>7. CASE OfTheRunner(m)
    <2> DEFINE g == Append(f, m)
    <2>1. /\ g \in Seq(Messages) /\ Len(g) = c + 1
          /\ \A j \in 1 .. c : g[j] = f[j]
          /\ g[c + 1] = m
      BY <1>4, AppendProperties
    <2>2. T = S \cup {n + 1} /\ Cardinality(T) = c + 1
      BY <1>2, <1>3, <1>7, FS_AddElement
    <2>3. ASSUME NEW k \in S PROVE Rank(T, k) = Rank(S, k)
      <3>1. ~ (n + 1 <= k)
        BY <1>1, <1>3
      <3>2. QED
        BY <2>2, <3>1 DEF Rank
    <2>4. Rank(T, n + 1) = c + 1
      <3>1. \A p \in T : p <= n + 1
        <4>1. \A p \in S : p <= n + 1
          BY <1>1, <1>3
        <4>2. QED
          BY <1>1, <2>2, <4>1
      <3>2. {p \in T : p <= n + 1} = T
        BY <3>1
      <3>3. QED
        BY <2>2, <3>2 DEF Rank
    <2> HIDE DEF g
    <2>5. ASSUME NEW k \in T PROVE g[Rank(T, k)] = a[k]
      <3>1. CASE k \in S
        <4>1. k \in 1 .. n
          BY <1>3, <3>1
        <4>2. QED
          BY <1>1, <1>4, <1>5, <2>1, <2>3, <3>1, <4>1
      <3>2. CASE k = n + 1
        BY <1>1, <2>1, <2>4, <3>2
      <3>3. QED
        BY <2>2, <3>1, <3>2
    <2>6. g = OfRunner(a)
      BY <1>6, <2>1, <2>2, <2>5
    <2>7. QED
      BY <1>7, <2>6 DEF g, a, f
  <1>8. CASE ~OfTheRunner(m)
    <2>1. T = S
      BY <1>2, <1>8
    <2>2. \A k \in S : a[k] = q[k]
      BY <1>1, <1>3
    <2>3. f = OfRunner(a)
      BY <1>4, <1>6, <2>1, <2>2
    <2>4. QED
      BY <1>8, <2>3 DEF a, f
  <1>9. QED
    BY <1>7, <1>8

LEMMA OfRunnerTail ==
  ASSUME NEW q \in Seq(Messages), q # <<>>
  PROVE  IF OfTheRunner(Head(q))
         THEN OfRunner(q) # <<>> /\ OfRunner(Tail(q)) = Tail(OfRunner(q))
         ELSE OfRunner(Tail(q)) = OfRunner(q)
  <1> DEFINE t == Tail(q)
             S == Places(q)
             T == Places(t)
             n == Len(q)
             f == OfRunner(q)
             up(U) == {k + 1 : k \in U}
  <1>1. /\ t \in Seq(Messages) /\ n \in Nat \ {0} /\ Len(t) = n - 1
        /\ DOMAIN q = 1 .. n /\ DOMAIN t = 1 .. n - 1
        /\ \A k \in 1 .. n - 1 : t[k] = q[k + 1]
        /\ Head(q) = q[1]
    BY HeadTailProperties, LenProperties, EmptySeq
  <1>2. /\ T \subseteq 1 .. n - 1 /\ T \subseteq Nat /\ IsFiniteSet(T)
        /\ Cardinality(T) \in Nat
    BY <1>1, PlacesType
  <1>3. /\ f \in Seq(Messages) /\ Len(f) = Cardinality(S)
        /\ \A k \in S : f[Rank(S, k)] = q[k]
    BY OfRunnerIs
  <1>4. ASSUME NEW g \in Seq(Messages), Len(g) = Cardinality(T),
               \A k \in T : g[Rank(T, k)] = t[k]
        PROVE  g = OfRunner(t)
    BY <1>1, <1>4, OfRunnerIs
  <1>5. \A k \in 1 .. n - 1 : k \in T <=> k + 1 \in S
    <2>1. \A k \in 1 .. n - 1 : k + 1 \in 1 .. n
      BY <1>1
    <2> HIDE DEF t, n
    <2>2. QED
      BY <1>1, <2>1 DEF Places
  <1>6. 1 \in S <=> OfTheRunner(Head(q))
    <2>1. 1 \in 1 .. n
      BY <1>1
    <2> HIDE DEF n
    <2>2. QED
      BY <1>1, <2>1 DEF Places, OfTheRunner
  <1>7. S \subseteq 1 .. n
    BY PlacesType
  <1> HIDE DEF t, S, T, n, f
  <1>8. S = up(T) \cup (S \cap {1}) /\ 1 \notin up(T)
    <2>1. ASSUME NEW k \in S, k # 1 PROVE k \in up(T)
      <3>1. k - 1 \in 1 .. n - 1 /\ (k - 1) + 1 = k
        BY <1>1, <1>7, <2>1
      <3>2. k - 1 \in T
        BY <1>5, <3>1
      <3>3. QED
        BY <3>1, <3>2
    <2>2. ASSUME NEW k \in T PROVE k + 1 \in S /\ k + 1 # 1
      <3>1. k \in 1 .. n - 1
        BY <1>2
      <3>2. QED
        BY <1>1, <1>5, <3>1
    <2>3. QED
      BY <2>1, <2>2
  <1> DEFINE one == IF OfTheRunner(Head(q)) THEN 1 ELSE 0
  <1>9. \A U \in SUBSET T :
          /\ IsFiniteSet(U) /\ Cardinality(U) \in Nat
          /\ Cardinality(up(U) \cup (S \cap {1})) = Cardinality(U) + one
    <2>1. ASSUME NEW U \in SUBSET T
          PROVE  /\ IsFiniteSet(U) /\ Cardinality(U) \in Nat
                 /\ Cardinality(up(U) \cup (S \cap {1})) = Cardinality(U) + one
      <3>1. IsFiniteSet(U) /\ Cardinality(U) \in Nat /\ U \subseteq Nat
        BY <1>2, FS_Subset, FS_CardinalityType
      <3>2. IsFiniteSet(up(U)) /\ Cardinality(up(U)) = Cardinality(U)
        BY <3>1, OneUp
      <3>3. 1 \notin up(U)
        BY <1>8
      <3> HIDE DEF up
      <3>4. CASE OfTheRunner(Head(q))
        <4>1. up(U) \cup (S \cap {1}) = up(U) \cup {1}
          BY <1>6, <3>4
        <4>2. Cardinality(up(U) \cup {1}) = Cardinality(U) + 1
          BY <3>2, <3>3, FS_AddElement
        <4>3. QED
          BY <3>1, <3>4, <4>1, <4>2
      <3>5. CASE ~OfTheRunner(Head(q))
        <4>1. up(U) \cup (S \cap {1}) = up(U)
          BY <1>6, <3>5
        <4>2. one = 0
          BY <3>5
        <4> HIDE DEF one
        <4>3. Cardinality(up(U) \cup (S \cap {1})) = Cardinality(U)
          BY <3>2, <4>1, Zenon
        <4>4. QED
          BY <3>1, <4>2, <4>3
      <3>6. QED
        BY <3>4, <3>5
    <2>2. QED
      BY <2>1
  <1>10. Cardinality(S) = Cardinality(T) + one
    BY <1>8, <1>9
  <1>11. \A k \in T : Rank(S, k + 1) = Rank(T, k) + one
    <2>1. ASSUME NEW k \in T PROVE Rank(S, k + 1) = Rank(T, k) + one
      <3> DEFINE U == {p \in T : p <= k}
      <3>1. {p \in S : p <= k + 1} = up(U) \cup (S \cap {1})
        <4>1. \A p \in T : p + 1 <= k + 1 <=> p <= k
          BY <1>2
        <4>2. 1 <= k + 1
          BY <1>2
        <4>3. QED
          BY <1>8, <4>1, <4>2
      <3>2. U \in SUBSET T
        OBVIOUS
      <3> HIDE DEF U, up, one
      <3>3. Cardinality({p \in S : p <= k + 1}) = Cardinality(U) + one
        BY <1>9, <3>1, <3>2
      <3>4. QED
        BY <3>3 DEF Rank, U
    <2>2. QED
      BY <2>1
  <1>12. \A k \in T : k + 1 \in S /\ t[k] = q[k + 1] /\ Rank(T, k) \in 1 .. Cardinality(T)
    BY <1>1, <1>2, <1>5, Ranks
  <1>13. CASE OfTheRunner(Head(q))
    <2> DEFINE g == Tail(f)
    <2>1. f # <<>>
      BY <1>2, <1>3, <1>10, <1>13, EmptySeq
    <2>2. /\ g \in Seq(Messages) /\ Len(g) = Cardinality(T)
          /\ \A j \in 1 .. Cardinality(T) : g[j] = f[j + 1]
      <3>1. /\ g \in Seq(Messages) /\ Len(g) = Len(f) - 1
            /\ \A j \in 1 .. Len(f) - 1 : g[j] = f[j + 1]
        BY <1>3, <2>1, HeadTailProperties
      <3>2. Len(f) - 1 = Cardinality(T)
        BY <1>2, <1>3, <1>10, <1>13
      <3>3. QED
        BY <3>1, <3>2
    <2> HIDE DEF g
    <2>3. \A k \in T : g[Rank(T, k)] = t[k]
      BY <1>3, <1>11, <1>12, <1>13, <2>2
    <2>4. g = OfRunner(t)
      BY <1>4, <2>2, <2>3
    <2>5. QED
      BY <1>13, <2>1, <2>4 DEF g, f, t
  <1>14. CASE ~OfTheRunner(Head(q))
    <2>1. Cardinality(S) = Cardinality(T)
      BY <1>2, <1>10, <1>14
    <2>2. \A k \in T : f[Rank(T, k)] = t[k]
      BY <1>3, <1>11, <1>12, <1>14
    <2>3. f = OfRunner(t)
      BY <1>3, <1>4, <2>1, <2>2
    <2>4. QED
      BY <1>14, <2>3 DEF f, t
  <1>15. QED
    BY <1>13, <1>14

\* OutboxQueue works for the runner like one that only it puts messages into
\* (test_runner.c), although the listener does too: what the transmitter takes
\* are the runner's messages, each once and in order, at any length of the queues.
THEOREM SharedOutbox == Spec => KeepsService
  <1> DEFINE own == OfRunner(outbox)
  <1> USE DEF HasRoom, Runner!HasRoom, Service!HasRoom
  <1>1. Init => Runner!Init
    <2> SUFFICES ASSUME Init PROVE Runner!Init
      OBVIOUS
    <2>1. outbox = <<>> /\ queue = <<>> /\ serving = <<>> /\ started = FALSE
      BY DEF Init, Service!Init
    <2>2. Places(outbox) = {}
      BY <2>1 DEF Places
    <2>3. outbox \in Seq(Messages) /\ Cardinality(Places(outbox)) = 0
      BY <2>1, <2>2, EmptySeq, FS_EmptySet
    <2>4. own = <<>>
      BY <2>3, OfRunnerIs, EmptySeq
    <2>5. QED
      BY <2>1, <2>4 DEF Runner!Init
  <1>2. IInv /\ [Next]_vars => [Runner!Next]_(Runner!vars)
    <2> SUFFICES ASSUME IInv, [Next]_vars PROVE [Runner!Next]_(Runner!vars)
      OBVIOUS
    <2>1. /\ outbox \in Seq(Messages) /\ serving \in Seq(Request)
          /\ Len(own) <= Len(outbox) /\ Len(own) \in Nat /\ Len(outbox) \in Nat
          /\ OutboxLen \in Nat
      BY ServerAssumption, OfRunnerIs, PlacesType DEF IInv, TypeOK
    <2>2. ASSUME UNCHANGED <<queue, serving, started, own>>
          PROVE  UNCHANGED Runner!vars
      BY <2>2 DEF Runner!vars
    <2>3. CASE /\ UNCHANGED <<queue, serving, started>>
               /\ \E m \in Messages : ~OfTheRunner(m) /\ outbox' = Append(outbox, m)
      <3>1. own' = own
        BY <2>1, <2>3, OfRunnerAppend
      <3>2. QED
        BY <2>2, <2>3, <3>1
    <2>4. CASE UNCHANGED <<queue, serving, started, outbox>>
      BY <2>2, <2>4
    <2>5. CASE Submit
      <3>1. scratch \in FullId
        BY <2>5 DEF IInv, VerdictIsRight, Submit
      <3>2. AllTests(scratch) \in Runner!Request
        BY <3>1, RequestTypes DEF Request, Runner!Request, Tests, Runner!Tests
      <3>3. /\ Len(queue) < QueueLen
            /\ queue' = Append(queue, AllTests(scratch))
            /\ UNCHANGED <<serving, started, outbox>>
        BY <2>5 DEF Submit
      <3>4. Runner!Submit
        BY <3>2, <3>3 DEF Runner!Submit
      <3>5. QED
        BY <3>4 DEF Runner!Next
    <2>6. CASE SendAck \/ SendBeacon
      <3>1. Beacon \in Messages /\ ~OfTheRunner(Beacon)
        BY MessageTypes DEF Beacon, OfTheRunner
      <3>2. SendAck => NewAck(scratch, accepted) \in Messages
        BY MessageTypes DEF IInv, TypeOK, VerdictIsRight, SendAck
      <3>3. ~OfTheRunner(NewAck(scratch, accepted))
        BY DEF NewAck, OfTheRunner
      <3>4. UNCHANGED <<queue, serving, started>>
        BY <2>6 DEF SendAck, SendBeacon, service
      <3>5. \/ outbox' = outbox
            \/ \E m \in Messages : ~OfTheRunner(m) /\ outbox' = Append(outbox, m)
        BY <2>6, <3>1, <3>2, <3>3 DEF SendAck, SendBeacon
      <3>6. QED
        BY <2>3, <2>4, <3>4, <3>5
    <2>7. CASE Take
      <3>1. Runner!Take
        BY <2>7 DEF Take, Service!Take, Runner!Take
      <3>2. QED
        BY <3>1 DEF Runner!Next
    <2>8. CASE Answer
      <3>1. serving # <<>>
        BY <2>8 DEF Answer, Service!Start, Service!Finish, IInv, ServedIsAcknowledged
      <3>2. serving[1] \in Request
        BY <2>1, <3>1, EmptySeq, ElementOfSeq
      <3>3. CASE Service!Start
        <4> DEFINE m == StartAck(serving[1])
        <4>1. m \in Messages /\ OfTheRunner(m) /\ m = Service!StartAck(serving[1])
              /\ m = Runner!StartAck(serving[1])
          BY <3>2, MessageTypes
          DEF StartAck, Service!StartAck, Runner!StartAck, OfTheRunner
        <4> HIDE DEF m
        <4>2. outbox' = Append(outbox, m)
          BY <3>3, <4>1 DEF Service!Start
        <4>3. own' = Append(own, m)
          BY <2>1, <4>1, <4>2, OfRunnerAppend
        <4>4. Len(own) < OutboxLen
          BY <2>1, <3>3 DEF Service!Start
        <4>5. Runner!Start
          BY <3>3, <4>1, <4>3, <4>4 DEF Service!Start, Runner!Start
        <4>6. QED
          BY <4>5 DEF Runner!Next
      <3>4. CASE Service!Finish
        <4>1. PICK passed \in SUBSET serving[1].selection :
                outbox' = Append(outbox, Service!Results(serving[1], passed))
          BY <3>4 DEF Service!Finish
        <4> DEFINE m == Results(serving[1], passed)
        <4>2. passed \in SUBSET Tests
          BY <3>2, <4>1 DEF Request
        <4>3. m \in Messages /\ OfTheRunner(m) /\ m = Service!Results(serving[1], passed)
              /\ m = Runner!Results(serving[1], passed)
          BY <3>2, <4>2, MessageTypes
          DEF Results, Service!Results, Runner!Results, OfTheRunner
        <4> HIDE DEF m
        <4>4. own' = Append(own, m)
          BY <2>1, <4>1, <4>3, OfRunnerAppend
        <4>5. Len(own) < OutboxLen
          BY <2>1, <3>4 DEF Service!Finish
        <4>6. \E p \in SUBSET serving[1].selection :
                own' = Append(own, Runner!Results(serving[1], p))
          BY <4>3, <4>4
        <4>7. Runner!Finish
          BY <3>4, <4>5, <4>6 DEF Service!Finish, Runner!Finish
        <4>8. QED
          BY <4>7 DEF Runner!Next
      <3>5. QED
        BY <2>8, <3>3, <3>4 DEF Answer
    <2>9. CASE GetMessage
      <3>1. outbox # <<>> /\ outbox' = Tail(outbox) /\ UNCHANGED <<queue, serving, started>>
        BY <2>9 DEF GetMessage, Remaining, service
      <3>2. CASE OfTheRunner(Head(outbox))
        <4>1. own # <<>> /\ own' = Tail(own)
          BY <2>1, <3>1, <3>2, OfRunnerTail
        <4>2. Runner!Transmit
          BY <3>1, <4>1 DEF Runner!Transmit
        <4>3. QED
          BY <4>2 DEF Runner!Next
      <3>3. CASE ~OfTheRunner(Head(outbox))
        <4>1. own' = own
          BY <2>1, <3>1, <3>3, OfRunnerTail
        <4>2. QED
          BY <2>2, <3>1, <4>1
      <3>4. QED
        BY <3>2, <3>3
    <2>10. CASE \/ Arrive \/ ReceiveRequest \/ ReceiveProbe \/ Discard
                \/ Reject \/ PrintVerdict \/ SendMessage \/ UNCHANGED vars
      <3>1. UNCHANGED <<queue, serving, started, outbox>>
        BY <2>10 DEF Arrive, ReceiveRequest, ReceiveProbe, Discard, Reject, PrintVerdict,
           SendMessage, vars, service
      <3>2. QED
        BY <2>4, <3>1
    <2>11. QED
      BY <2>5, <2>6, <2>7, <2>8, <2>9, <2>10
      DEF Next, ListenerStep, RunnerStep, TransmitterStep
  <1>3. QED
    BY <1>1, <1>2, Invariance, PTL DEF Spec, KeepsService, Runner!Spec
=============================================================================

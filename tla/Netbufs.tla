------------------------------- MODULE Netbufs -------------------------------
(***************************************************************************)
(* The netbufs of lwIP's pool MEMP_NETBUF as the server uses them: the     *)
(* tcpip thread wraps a received packet in one and posts it to the         *)
(* listener's mailbox, the listener (listener.c) deletes it after use and  *)
(* once more at the top of its loop, and the transmitter (transmitter.c)   *)
(* takes one for each message.                                             *)
(*                                                                         *)
(* A free element of a memp pool keeps the link to the next free one in    *)
(* its first word, which in a netbuf in use is the pointer p to its packet *)
(* buffer.  Both are therefore one variable, word, and the free list is    *)
(* followed pointer by pointer, so that deleting a netbuf twice does here  *)
(* what it does on the board.  A task may be preempted between any two     *)
(* accesses to a netbuf.                                                   *)
(***************************************************************************)
EXTENDS Naturals, Sequences, SequencesExt, FiniteSets

CONSTANTS
    Pool,       \* the netbufs, MEMP_NUM_NETBUF of them
    NULL,
    InboxLen,   \* slots of the listener's mailbox, DEFAULT_UDP_RECVMBOX_SIZE
    MaxPbufs    \* bound: packets received and messages sent

ASSUME NetbufAssumption ==
    /\ IsFiniteSet(Pool) /\ Pool # {}
    /\ NULL \notin Pool \cup (1 .. MaxPbufs)
    /\ Pool \cap (1 .. MaxPbufs) = {}
    /\ InboxLen \in Nat \ {0}
    \* A netbuf that is mistaken for a packet buffer has a byte of padding for
    \* its reference count, 0 at first, and must not be freed 256 times.
    /\ MaxPbufs \in 0 .. 255

VARIABLES
    tab,        \* *desc->tab: the head of the free list
    word,       \* next of a free netbuf, p of a used one
    ptr,        \* the part of the packet that netbuf_data returns
    ipc,        \* where recv_udp is, in the tcpip thread
    in_netbuf,  \* its netbuf
    in_pbuf,    \* its packet
    inbox,      \* mailbox of listener_conn
    lpc,        \* where the listener is
    listener_netbuf,
    listener_pbuf,
    tpc,        \* where the transmitter is
    out_netbuf, \* its netbuf
    born,       \* packet buffers allocated so far, which numbers them
    freed,      \* history: how often each packet buffer was freed
    posted,     \* history: the packets put into the mailbox
    handled,    \* history: the packets the listener looked at
    overlapped  \* history: a netbuf was allocated while another was in use

pool        == <<tab, word, ptr>>
input       == <<ipc, in_netbuf, in_pbuf>>
listener    == <<lpc, listener_netbuf, listener_pbuf>>
transmitter == <<tpc, out_netbuf>>
history     == <<posted, handled, overlapped>>
vars == <<pool, input, inbox, listener, transmitter, born, freed, history>>

Pbufs == 1 .. MaxPbufs
Refs  == Pool \cup Pbufs \cup {NULL}

\* memp_init_pool links the elements, the last one first.
Linked(s) ==
    [n \in Pool |-> LET k == CHOOSE k \in DOMAIN s : s[k] = n
                    IN  IF k = Len(s) THEN NULL ELSE s[k + 1]]

Init ==
    /\ \E s \in SetToSeqs(Pool) : tab = s[1] /\ word = Linked(s)
    /\ ptr = [n \in Pool |-> NULL]
    /\ ipc = "wait" /\ in_netbuf = NULL /\ in_pbuf = NULL
    /\ inbox = <<>>
    /\ lpc = "top" /\ listener_netbuf = NULL /\ listener_pbuf = NULL
    /\ tpc = "wait" /\ out_netbuf = NULL
    /\ born = 0
    /\ freed = [p \in Pbufs |-> 0]
    /\ posted = <<>> /\ handled = <<>>
    /\ overlapped = FALSE

\* The netbufs somebody will still use or delete.
InUse ==
    ToSet(inbox)
      \cup (IF ipc = "wait" THEN {} ELSE {in_netbuf})
      \cup (IF tpc = "wait" THEN {} ELSE {out_netbuf})
      \cup (IF lpc = "recv" THEN {} ELSE {listener_netbuf} \ {NULL})

(* A definition whose name ends in a fault is a plausible slip, not used,  *)
(* that the property named beside it would notice.                         *)

-----------------------------------------------------------------------------
(* The functions of lwIP.                                                  *)

\* memp_malloc gives out the head, and takes what it points to for the next
\* free element.  What follows once it gives out a packet buffer for a netbuf
\* is left open.
Malloc ==
    /\ tab \in Pool
    /\ tab' = word[tab]
    /\ overlapped' = (overlapped \/ InUse # {})

\* The first half of netbuf_delete: pbuf_free.  A netbuf that is taken for a
\* packet buffer only loses a reference count it does not have.
PbufFree_Keeps(p) == freed                              \* PbufsReturn
PbufFree(p) == IF p \in Pbufs THEN [freed EXCEPT ![p] = @ + 1] ELSE freed

\* The second half: p and ptr are cleared, memp_free links the netbuf.
Link(n) ==
    /\ word' = [word EXCEPT ![n] = tab]
    /\ ptr' = [ptr EXCEPT ![n] = NULL]
    /\ tab' = n

-----------------------------------------------------------------------------
(* The tcpip thread: recv_udp.                                             *)

\* memp_malloc.  Without a netbuf the packet is dropped.
Arrive ==
    /\ ipc = "wait"
    /\ born < MaxPbufs
    /\ born' = born + 1
    /\ IF tab = NULL
       THEN freed' = PbufFree(born + 1) /\ UNCHANGED <<tab, input, overlapped>>
       ELSE /\ Malloc
            /\ in_netbuf' = tab /\ in_pbuf' = born + 1
            /\ ipc' = "wrap"
            /\ UNCHANGED freed
    /\ UNCHANGED <<word, ptr, inbox, listener, transmitter, posted, handled>>

InboxHasRoom_OneMore == Len(inbox) <= InboxLen          \* TypeOK
InboxHasRoom         == Len(inbox) < InboxLen

\* p and ptr are set, and the netbuf posted if the mailbox has room.
Post ==
    /\ ipc = "wrap"
    /\ word' = [word EXCEPT ![in_netbuf] = in_pbuf]
    /\ ptr' = [ptr EXCEPT ![in_netbuf] = in_pbuf]
    /\ IF InboxHasRoom
       THEN /\ inbox' = Append(inbox, in_netbuf)
            /\ posted' = Append(posted, in_pbuf)
            /\ ipc' = "wait"
            /\ UNCHANGED freed
       ELSE freed' = PbufFree(in_pbuf) /\ ipc' = "link" /\ UNCHANGED <<inbox, posted>>
    /\ UNCHANGED <<tab, in_netbuf, in_pbuf, listener, transmitter, born, handled,
                   overlapped>>

Drop ==
    /\ ipc = "link"
    /\ Link(in_netbuf)
    /\ ipc' = "wait"
    /\ UNCHANGED <<in_netbuf, in_pbuf, inbox, listener, transmitter, born, freed,
                   history>>

-----------------------------------------------------------------------------
(* The listener task.                                                      *)

\* At the top of the loop the netbuf is deleted, again unless the last
\* netconn_recv timed out.
DeleteAgain ==
    /\ lpc = "top"
    /\ IF listener_netbuf = NULL
       THEN lpc' = "recv" /\ UNCHANGED freed
       ELSE lpc' = "relink" /\ freed' = PbufFree(word[listener_netbuf])
    /\ UNCHANGED <<pool, input, inbox, listener_netbuf, listener_pbuf,
                   transmitter, born, history>>

LinkAgain ==
    /\ lpc = "relink"
    /\ Link(listener_netbuf)
    /\ lpc' = "recv"
    /\ UNCHANGED <<input, inbox, listener_netbuf, listener_pbuf, transmitter,
                   born, freed, history>>

\* netconn_recv and netbuf_data.  A netbuf without data leaves listener_pbuf as
\* the last packet left it.
Data_Once(n) ==                                         \* HandlesInOrder
    IF listener_pbuf = NULL THEN ptr[n] ELSE listener_pbuf
Data(n) == IF ptr[n] = NULL THEN listener_pbuf ELSE ptr[n]

Receive ==
    /\ lpc = "recv"
    /\ inbox # <<>>
    /\ inbox' = Tail(inbox)
    /\ listener_netbuf' = Head(inbox)
    /\ listener_pbuf' = Data(Head(inbox))
    /\ handled' = Append(handled, listener_pbuf')
    /\ lpc' = "copy"
    /\ UNCHANGED <<pool, input, transmitter, born, freed, posted, overlapped>>

ReceiveTimeout ==
    /\ lpc = "recv"
    /\ inbox = <<>>
    /\ listener_netbuf' = NULL
    /\ lpc' = "top"
    /\ UNCHANGED <<pool, input, inbox, listener_pbuf, transmitter, born, freed,
                   history>>

\* The packet is copied to request_scratch before its netbuf is deleted.
Delete ==
    /\ lpc = "copy"
    /\ freed' = PbufFree(word[listener_netbuf])
    /\ lpc' = "link"
    /\ UNCHANGED <<pool, input, inbox, listener_netbuf, listener_pbuf,
                   transmitter, born, history>>

LinkOnce ==
    /\ lpc = "link"
    /\ Link(listener_netbuf)
    /\ lpc' = "answer"
    /\ UNCHANGED <<input, inbox, listener_netbuf, listener_pbuf, transmitter,
                   born, freed, history>>

\* process_new_test_request, send_new_test_ack, broadcast_server_presence: the
\* listener may wait for the queues it puts to.
Answer ==
    /\ lpc = "answer"
    /\ lpc' = "top"
    /\ UNCHANGED <<pool, input, inbox, listener_netbuf, listener_pbuf,
                   transmitter, born, freed, history>>

-----------------------------------------------------------------------------
(* The transmitter task.  There is no message before the listener has      *)
(* deleted the netbuf of a packet.                                         *)

\* netbuf_new.  Without a netbuf, netbuf_alloc returns NULL, which is where the
\* message is then copied to; netconn_sendto and netbuf_delete do nothing.
Prepare ==
    /\ tpc = "wait"
    /\ handled # <<>> /\ lpc \notin {"copy", "link"}
    /\ IF tab = NULL
       THEN UNCHANGED <<tab, transmitter, overlapped>>
       ELSE Malloc /\ out_netbuf' = tab /\ tpc' = "fill"
    /\ UNCHANGED <<word, ptr, input, inbox, listener, born, freed, posted,
                   handled>>

\* netbuf_new clears the netbuf; netbuf_alloc and memcpy.
Fill ==
    /\ tpc = "fill"
    /\ born < MaxPbufs
    /\ born' = born + 1
    /\ word' = [word EXCEPT ![out_netbuf] = born + 1]
    /\ ptr' = [ptr EXCEPT ![out_netbuf] = born + 1]
    /\ tpc' = "send"
    /\ UNCHANGED <<tab, input, inbox, listener, out_netbuf, freed, history>>

\* netconn_sendto and the first half of netbuf_delete
Send ==
    /\ tpc = "send"
    /\ freed' = PbufFree(word[out_netbuf])
    /\ tpc' = "link"
    /\ UNCHANGED <<pool, input, inbox, listener, out_netbuf, born, history>>

LinkSent ==
    /\ tpc = "link"
    /\ Link(out_netbuf)
    /\ tpc' = "wait"
    /\ UNCHANGED <<input, inbox, listener, out_netbuf, born, freed, history>>

Next ==
    \/ Arrive \/ Post \/ Drop
    \/ DeleteAgain \/ LinkAgain \/ Receive \/ ReceiveTimeout
    \/ Delete \/ LinkOnce \/ Answer
    \/ Prepare \/ Fill \/ Send \/ LinkSent

Spec == Init /\ [][Next]_vars

-----------------------------------------------------------------------------
(* Properties.  HandlesInOrder and PbufsReturn hold as long as no two      *)
(* netbufs are needed at a time, counting the one that is still to be      *)
(* deleted again, and not otherwise: see HandlesWhatWasReceived.           *)

TypeOK ==
    /\ tab \in Refs
    /\ word \in [Pool -> Refs]
    /\ ptr \in [Pool -> Pbufs \cup {NULL}]
    /\ ipc \in {"wait", "wrap", "link"}
    /\ in_netbuf \in Refs /\ in_pbuf \in Pbufs \cup {NULL}
    /\ inbox \in Seq(Pool) /\ Len(inbox) <= InboxLen
    /\ lpc \in {"top", "relink", "recv", "copy", "link", "answer"}
    /\ listener_netbuf \in Pool \cup {NULL}
    /\ listener_pbuf \in Pbufs \cup {NULL}
    /\ tpc \in {"wait", "fill", "send", "link"}
    /\ out_netbuf \in Refs
    /\ freed \in [Pbufs -> Nat]

\* Although the listener deletes every netbuf twice, which ties the free list
\* to a ring, the packets it looks at are the packets posted, in order.
HandlesInOrder == ~overlapped => IsPrefix(handled, posted)

\* No packet buffer is freed twice, and when everybody waits each was freed:
\* the second delete of a netbuf never finds a packet buffer in it.
Idle == ipc = "wait" /\ inbox = <<>> /\ lpc = "recv" /\ tpc = "wait"

PbufsReturn ==
    ~overlapped => \A p \in 1 .. born : freed[p] <= 1 /\ (Idle => freed[p] = 1)

\* listener.c: the received packet is filtered by type, requests are held and
\* sent to the test queue.  What the listener looks at is what was received,
\* whatever else uses a netbuf meanwhile.
HandlesWhatWasReceived == IsPrefix(handled, posted)
=============================================================================

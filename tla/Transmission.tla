---------------------------- MODULE Transmission ----------------------------
(***************************************************************************)
(* Transmission of packets: low_level_output (ethernetif.c) puts a packet  *)
(* into the ring of Tx descriptors (stm32f7xx_hal_eth.c), waiting and      *)
(* releasing sent packets while there is no room.  Threads that send hold  *)
(* the core lock of lwIP, so that one of them at a time is in              *)
(* low_level_output: they are the sender Core.  The link thread, whose     *)
(* netif_set_link_up sends as well, does not take the lock: it is the      *)
(* sender Link.  All others have a higher priority, so that it runs while  *)
(* they wait, and is preempted when they run.                              *)
(*                                                                         *)
(* Both senders share TxConfig and the indices of the ring.  What happens  *)
(* once their calls have overlapped is not told apart: the properties      *)
(* hold up to then.                                                        *)
(***************************************************************************)
EXTENDS Naturals, FiniteSets, FiniteSetsExt

CONSTANTS
    N,          \* descriptors, ETH_TX_DESC_CNT
    NULL,
    Core, Link, \* the senders
    MaxPbufs,   \* bound: pbufs in the chain of a packet
    MaxPackets, \* bound: packets sent
    MaxStarts   \* bound: starts of the interface

ASSUME TransmissionAssumption ==
    /\ N \in Nat \ {0}
    /\ MaxPbufs \in Nat /\ MaxPackets \in Nat /\ MaxStarts \in Nat
    /\ NULL \notin Nat
    /\ Core # Link

VARIABLES
    ring,          \* the descriptors: own, the packet, whether its last
    PacketAddress, \* the packet to release with a descriptor
    CurTxDesc,     \* the next descriptor to use
    BuffersInUse,
    releaseIndex,
    busyError,     \* HAL_ETH_ERROR_BUSY is in ErrorCode
    TxConfig,      \* the global one: packet and number of its pbufs
    TxPktSemaphore,
    gState,
    dma,           \* the descriptor the DMA looks at
    running,       \* ST and TE are set
    suspended,     \* TBUS: the DMA found no packet and waits for a poll
    enabled,       \* TIE
    pending,       \* TS
    pc,            \* where each sender is in low_level_output
    p,             \* its packet
    linkThread,    \* where the link thread is
    born,          \* packets so far, which numbers them
    refs,          \* references the driver holds to each packet
    done,          \* history: packets sent completely
    overlapped,    \* history: the senders' calls have overlapped
    starts         \* bound

descriptors == <<ring, PacketAddress, CurTxDesc, BuffersInUse, releaseIndex>>
hardware    == <<dma, running, suspended, enabled, pending>>
senders     == <<pc, p, TxConfig, born>>
vars == <<descriptors, busyError, TxPktSemaphore, gState, hardware, senders,
          linkThread, refs, done, overlapped, starts>>

Slots   == 0 .. N - 1
Packets == 1 .. MaxPackets
Senders == {Core, Link}

\* INCR_TX_DESC_INDEX, k times.
Incr(i, k) == (i + k) % N

Init ==
    /\ ring = [i \in Slots |-> [own |-> FALSE, packet |-> NULL, last |-> FALSE]]
    /\ PacketAddress = [i \in Slots |-> NULL]
    /\ CurTxDesc = 0 /\ BuffersInUse = 0 /\ releaseIndex = 0
    /\ busyError = FALSE
    /\ TxConfig = [packet |-> NULL, pbufs |-> 0]
    /\ TxPktSemaphore = 0
    /\ gState = "ready"
    /\ dma = 0 /\ running = FALSE /\ suspended = FALSE
    /\ enabled = FALSE /\ pending = FALSE
    /\ pc = [t \in Senders |-> "idle"] /\ p = [t \in Senders |-> NULL]
    /\ linkThread = "idle"
    /\ born = 0 /\ refs = [q \in Packets |-> 0]
    /\ done = {}
    /\ overlapped = FALSE
    /\ starts = 0

(* A definition marked with the name of a property is a plausible slip,    *)
(* not used, that the property would notice.                               *)

-----------------------------------------------------------------------------
(* The DMA and its interrupt.                                              *)

\* The DMA reads a descriptor and gives it back; after the last one of a
\* packet it reports the packet as sent.
TransmitDescriptor ==
    /\ running /\ ~suspended
    /\ ring[dma].own
    /\ ring' = [ring EXCEPT ![dma].own = FALSE]
    /\ dma' = Incr(dma, 1)
    /\ IF ring[dma].last
       THEN pending' = TRUE /\ done' = done \cup {ring[dma].packet}
       ELSE UNCHANGED <<pending, done>>
    /\ UNCHANGED <<PacketAddress, CurTxDesc, BuffersInUse, releaseIndex,
                   busyError, TxPktSemaphore, gState, running, suspended,
                   enabled, senders, linkThread, refs, overlapped, starts>>

Suspend ==
    /\ running /\ ~suspended
    /\ ~ring[dma].own
    /\ suspended' = TRUE
    /\ UNCHANGED <<descriptors, busyError, TxPktSemaphore, gState, dma, running,
                   enabled, pending, senders, linkThread, refs, done,
                   overlapped, starts>>

\* HAL_ETH_IRQHandler, HAL_ETH_TxCpltCallback.
IRQHandler ==
    /\ enabled /\ pending
    /\ pending' = FALSE
    /\ TxPktSemaphore' = 1
    /\ UNCHANGED <<descriptors, busyError, gState, dma, running, suspended,
                   enabled, senders, linkThread, refs, done, overlapped, starts>>

-----------------------------------------------------------------------------
(* low_level_output of sender t.                                           *)

Runs(t) == t = Link => pc[Core] \in {"idle", "wait"} /\ linkThread = "report"

\* A chain of k pbufs is counted into Txbuffer, TxConfig is filled in, and a
\* reference is taken.  A longer one is refused before that.
Output(t, k) ==
    /\ Runs(t) /\ pc[t] = "idle"
    /\ born < MaxPackets
    /\ k =< N
    /\ born' = born + 1
    /\ TxConfig' = [packet |-> born + 1, pbufs |-> k]
    /\ refs' = [refs EXCEPT ![born + 1] = 1]
    /\ p' = [p EXCEPT ![t] = born + 1]
    /\ pc' = [pc EXCEPT ![t] = "transmit"]
    /\ overlapped' = (overlapped \/ \E s \in Senders : pc[s] # "idle")
    /\ UNCHANGED <<descriptors, busyError, TxPktSemaphore, gState, hardware,
                   linkThread, done, starts>>

\* ETH_Prepare_Tx_Descriptors: all descriptors the packet needs are given
\* back and released.
Needed == {Incr(CurTxDesc, j) : j \in 0 .. TxConfig.pbufs - 1}
Room_Ignores_Own == \A i \in Needed : PacketAddress[i] = NULL  \* SendsInOrder
Room == \A i \in Needed : ~ring[i].own /\ PacketAddress[i] = NULL

\* HAL_ETH_Transmit_IT succeeds: the DMA owns the descriptors, the last one
\* names the packet, and a DMA that has gone to sleep is polled.
AfterPoll_Never == suspended                                \* OutputReturns
AfterPoll == FALSE

Transmit(t) ==
    /\ Runs(t) /\ pc[t] = "transmit"
    /\ gState = "started" /\ Room
    /\ LET last == Incr(CurTxDesc, TxConfig.pbufs - 1)
       IN  /\ ring' = [i \in Slots |->
                IF i \in Needed THEN [own |-> TRUE, packet |-> TxConfig.packet,
                                      last |-> i = last]
                                ELSE ring[i]]
           /\ PacketAddress' = [PacketAddress EXCEPT ![last] = TxConfig.packet]
           /\ CurTxDesc' = Incr(last, 1)
    /\ BuffersInUse' = BuffersInUse + TxConfig.pbufs
    /\ suspended' = AfterPoll
    /\ pc' = [pc EXCEPT ![t] = "idle"]
    /\ p' = [p EXCEPT ![t] = NULL]
    /\ UNCHANGED <<releaseIndex, busyError, TxPktSemaphore, gState, dma, running,
                   enabled, pending, TxConfig, born, linkThread, refs, done,
                   overlapped, starts>>

\* It fails for want of descriptors, or for another reason after it once did
\* so: nothing clears HAL_ETH_ERROR_BUSY.
Busy(t) ==
    /\ Runs(t) /\ pc[t] = "transmit"
    /\ IF gState = "started" THEN ~Room ELSE busyError
    /\ busyError' = TRUE
    /\ pc' = [pc EXCEPT ![t] = "wait"]
    /\ UNCHANGED <<descriptors, TxPktSemaphore, gState, hardware, p, TxConfig,
                   born, linkThread, refs, done, overlapped, starts>>

\* It fails as the interface is not started: the reference is given back.
Refuse(t) ==
    /\ Runs(t) /\ pc[t] = "transmit"
    /\ gState # "started" /\ ~busyError
    /\ refs' = [refs EXCEPT ![p[t]] = @ - 1]
    /\ pc' = [pc EXCEPT ![t] = "idle"]
    /\ p' = [p EXCEPT ![t] = NULL]
    /\ UNCHANGED <<descriptors, busyError, TxPktSemaphore, gState, hardware,
                   TxConfig, born, linkThread, done, overlapped, starts>>

\* HAL_ETH_ReleaseTxPacket looks at BuffersInUse descriptors, up to the first
\* packet that is not sent.  A second look at a descriptor finds nothing.
Examined == 0 .. BuffersInUse - 1
At(j)    == Incr(releaseIndex, j)
After_Unwrapped(j) == releaseIndex + j + 1                  \* TypeOK
After(j) == Incr(releaseIndex, j + 1)
Unsent_Ignored(j) == FALSE                                  \* KeptUntilSent
Unsent(j)   == PacketAddress[At(j)] # NULL /\ ring[At(j)].own
Released ==
    {j \in Examined : /\ j < N /\ PacketAddress[At(j)] # NULL
                      /\ \A m \in 0 .. j : ~Unsent(m)}

ReleaseTxPacket ==
    /\ refs' = [q \in Packets |->
         IF \E j \in Released : PacketAddress[At(j)] = q THEN refs[q] - 1
                                                         ELSE refs[q]]
    /\ PacketAddress' = [i \in Slots |->
         IF \E j \in Released : At(j) = i THEN NULL ELSE PacketAddress[i]]
    /\ IF Released = {}
       THEN UNCHANGED <<BuffersInUse, releaseIndex>>
       ELSE /\ BuffersInUse' = BuffersInUse - (Max(Released) + 1)
            /\ releaseIndex' = After(Max(Released))

\* The semaphore was released, or two seconds are over.  What was sent is
\* released, and the call is made again.
WaitOver(t) ==
    /\ Runs(t) /\ pc[t] = "wait"
    /\ TxPktSemaphore' = 0
    /\ ReleaseTxPacket
    /\ pc' = [pc EXCEPT ![t] = "transmit"]
    /\ UNCHANGED <<ring, CurTxDesc, busyError, gState, hardware, p, TxConfig,
                   born, linkThread, done, overlapped, starts>>

-----------------------------------------------------------------------------
(* The link thread: HAL_ETH_Start_IT, netif_set_link_up, HAL_ETH_Stop_IT.  *)

LinkRuns == pc[Core] \in {"idle", "wait"}

\* Transmission is enabled, at the descriptor where the DMA was stopped ...
Start ==
    /\ LinkRuns /\ linkThread = "idle" /\ gState = "ready"
    /\ starts < MaxStarts
    /\ starts' = starts + 1
    /\ gState' = "busy"
    /\ running' = TRUE /\ suspended' = FALSE
    /\ linkThread' = "start"
    /\ UNCHANGED <<descriptors, busyError, TxPktSemaphore, dma, enabled, pending,
                   senders, refs, done, overlapped>>

\* ... then the interrupts.
Started ==
    /\ LinkRuns /\ linkThread = "start"
    /\ enabled' = TRUE
    /\ gState' = "started"
    /\ linkThread' = "report"
    /\ UNCHANGED <<descriptors, busyError, TxPktSemaphore, dma, running,
                   suspended, pending, senders, refs, done, overlapped, starts>>

\* netif_set_link_up has sent its reports, if it had to send any.
Reported ==
    /\ LinkRuns /\ linkThread = "report" /\ pc[Link] = "idle"
    /\ linkThread' = "idle"
    /\ UNCHANGED <<descriptors, busyError, TxPktSemaphore, gState, hardware,
                   senders, refs, done, overlapped, starts>>

Stop ==
    /\ LinkRuns /\ linkThread = "idle" /\ gState = "started"
    /\ gState' = "busy"
    /\ enabled' = FALSE
    /\ linkThread' = "stop"
    /\ UNCHANGED <<descriptors, busyError, TxPktSemaphore, dma, running,
                   suspended, pending, senders, refs, done, overlapped, starts>>

Halt ==
    /\ LinkRuns /\ linkThread = "stop"
    /\ running' = FALSE
    /\ gState' = "ready"
    /\ linkThread' = "idle"
    /\ UNCHANGED <<descriptors, busyError, TxPktSemaphore, dma, suspended,
                   enabled, pending, senders, refs, done, overlapped, starts>>

-----------------------------------------------------------------------------
SenderStep(t) == Transmit(t) \/ Busy(t) \/ Refuse(t) \/ WaitOver(t)

Next ==
    \/ TransmitDescriptor \/ Suspend \/ IRQHandler
    \/ \E t \in Senders, k \in 1 .. MaxPbufs : Output(t, k)
    \/ \E t \in Senders : SenderStep(t)
    \/ Start \/ Started \/ Reported \/ Stop \/ Halt

Spec == Init /\ [][Next]_vars

\* The DMA transmits while it is enabled, a thread in low_level_output goes on
\* (a wait ends after two seconds at the latest), and the link thread finishes
\* what it has begun.  Nobody has to send, and no link has to come up.
FairSpec ==
    /\ Spec
    /\ WF_vars(TransmitDescriptor)
    /\ \A t \in Senders : WF_vars(SenderStep(t))
    /\ WF_vars(Started \/ Reported \/ Halt)

-----------------------------------------------------------------------------
(* Properties.                                                             *)

Descriptor == [own : BOOLEAN, packet : Packets \cup {NULL}, last : BOOLEAN]

\* Until two senders overlap, every variable stays in its type.  BuffersInUse is
\* only a number, of no bound but that it is not negative: a descriptor in the
\* middle of a chain, which names no packet, may be used again before the chain
\* is released, and the count then never returns to 0.
TypeOK ==
    ~overlapped =>
      /\ ring \in [Slots -> Descriptor]
      /\ PacketAddress \in [Slots -> Packets \cup {NULL}]
      /\ CurTxDesc \in Slots /\ releaseIndex \in Slots /\ dma \in Slots
      /\ BuffersInUse \in Nat
      /\ busyError \in BOOLEAN /\ TxPktSemaphore \in 0 .. 1
      /\ TxConfig \in [packet : Packets \cup {NULL}, pbufs : 0 .. N]
      /\ gState \in {"ready", "busy", "started"}
      /\ running \in BOOLEAN /\ suspended \in BOOLEAN
      /\ enabled \in BOOLEAN /\ pending \in BOOLEAN
      /\ pc \in [Senders -> {"idle", "transmit", "wait"}]
      /\ p \in [Senders -> Packets \cup {NULL}]
      /\ linkThread \in {"idle", "start", "report", "stop"}
      /\ born \in 0 .. MaxPackets /\ refs \in [Packets -> 0 .. 1]
      /\ done \subseteq Packets /\ starts \in 0 .. MaxStarts

\* A packet is kept as long as the DMA may still read it, and given back to
\* lwIP once: what no sender has and no descriptor names has no reference.
KeptUntilSent ==
    ~overlapped =>
      /\ \A i \in Slots : ring[i].own => refs[ring[i].packet] = 1
      /\ \A q \in Packets :
           refs[q] = Cardinality({i \in Slots : PacketAddress[i] = q})
                       + Cardinality({t \in Senders : p[t] = q})

\* Packets leave in the order in which they were given to low_level_output,
\* each once.
SendsInOrder ==
    [][~overlapped => \A q \in done' \ done : \A r \in done : r < q]_vars

\* Once the interface stays started, every call of low_level_output returns
\* and the packets it accepted are sent.
OutputReturns ==
    <>[](gState = "started" /\ ~overlapped) =>
        /\ \A t \in Senders : []<>(pc[t] = "idle")
        /\ []<>(\A i \in Slots : ~ring[i].own)

=============================================================================

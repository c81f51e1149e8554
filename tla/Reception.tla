------------------------------ MODULE Reception ------------------------------
(***************************************************************************)
(* Reception of frames: the ring of Rx descriptors that the Ethernet DMA   *)
(* fills (stm32f7xx_hal_eth.c), the pool of Rx buffers, and the threads    *)
(* that use them (ethernetif.c).  The input thread has the highest         *)
(* priority of all and runs whenever its semaphore is up; the link thread, *)
(* which starts and stops reception, has one below that of the threads of  *)
(* lwIP that free the buffers.                                             *)
(*                                                                         *)
(* A frame fits one buffer (ETH_RX_BUF_SIZE is 1536), so it takes one      *)
(* descriptor.  Frames are numbered as they arrive on the wire.  The link  *)
(* may be back while reception is still being stopped: frames arrive as    *)
(* long as the DMA runs.                                                   *)
(***************************************************************************)
EXTENDS Naturals, FiniteSets

CONSTANTS
    N,          \* descriptors, ETH_RX_DESC_CNT
    Buffers,    \* elements of RX_POOL, ETH_RX_BUFFER_CNT of them
    NULL,
    Freers,     \* threads that free received packets: tcpip, the listener
    MaxFrames,  \* bound: frames on the wire
    MaxStarts   \* bound: starts of the interface

ASSUME ReceptionAssumption ==
    /\ N \in Nat \ {0} /\ MaxFrames \in Nat /\ MaxStarts \in Nat
    /\ IsFiniteSet(Buffers) /\ N =< Cardinality(Buffers)
    /\ NULL \notin Buffers

VARIABLES
    ring,           \* the descriptors
    RxDescIdx,      \* the next one to read
    RxBuildDescIdx, \* the next one to give back to the DMA
    RxBuildDescCnt, \* how many are to be given back
    dma,            \* the next one the DMA fills
    running,        \* SR and RE: the DMA receives
    enabled,        \* the Rx interrupts are enabled
    pending,        \* RS or RBUS is set
    gState,
    pool,           \* free elements of RX_POOL
    alloc_failed,   \* RxAllocStatus
    RxPktSemaphore,
    inputThread,    \* "wait" for the semaphore, "read" or "post" a packet
    packet,         \* the one it has read
    linkThread,     \* where HAL_ETH_Start_IT or HAL_ETH_Stop_IT is
    freer,          \* where each thread is in pbuf_free_custom
    held,           \* buffers with lwIP and the application
    wire,           \* frames sent so far
    last,           \* history: the last frame read
    heard,          \* history: the last frame stored while started
    clean,          \* history: every start found the ring read out
    starts          \* bound

descriptors == <<ring, RxDescIdx, RxBuildDescIdx, RxBuildDescCnt>>
hardware    == <<dma, running, enabled, pending>>
threads     == <<inputThread, packet, linkThread, freer>>
history     == <<last, heard, clean>>
vars == <<descriptors, hardware, gState, pool, alloc_failed, RxPktSemaphore,
          threads, held, wire, history, starts>>

Slots == 0 .. N - 1

\* INCR_RX_DESC_INDEX.
Incr_Wraps_Late(i) == IF i = N THEN 0 ELSE i + 1            \* TypeOK
Incr(i) == (i + 1) % N

\* ETH_DMARxDescListInit: the DMA owns every descriptor, none has a buffer.
\* buf is DESC2, attached says that BackupAddr0 is not 0 (and equal to DESC2).
Init ==
    /\ ring = [i \in Slots |->
                 [own |-> TRUE, buf |-> NULL, attached |-> FALSE, frame |-> 0]]
    /\ RxDescIdx = 0 /\ RxBuildDescIdx = 0 /\ RxBuildDescCnt = 0
    /\ dma = 0 /\ running = FALSE /\ enabled = FALSE /\ pending = FALSE
    /\ gState = "ready"
    /\ pool = Buffers /\ alloc_failed = FALSE
    /\ RxPktSemaphore = 0
    /\ inputThread = "wait" /\ packet = NULL /\ linkThread = "idle"
    /\ freer = [t \in Freers |-> "idle"]
    /\ held = {}
    /\ wire = 0 /\ last = 0 /\ heard = 0 /\ clean = TRUE
    /\ starts = 0

(* A definition marked with the name of a property is a plausible slip,    *)
(* not used, that the property would notice.                               *)

-----------------------------------------------------------------------------
(* The DMA and its interrupt.                                              *)

\* A frame arrives.  Without a descriptor of its own the DMA loses it and
\* reports that no buffer is available.
Arrive ==
    /\ running
    /\ wire < MaxFrames
    /\ wire' = wire + 1
    /\ pending' = TRUE
    /\ IF ring[dma].own
       THEN /\ ring' = [ring EXCEPT ![dma].own = FALSE, ![dma].frame = wire + 1]
            /\ dma' = Incr(dma)
            /\ heard' = IF gState = "started" THEN wire + 1 ELSE heard
       ELSE UNCHANGED <<ring, dma, heard>>
    /\ UNCHANGED <<RxDescIdx, RxBuildDescIdx, RxBuildDescCnt, running, enabled,
                   gState, pool, alloc_failed, RxPktSemaphore, threads, held,
                   last, clean, starts>>

\* HAL_ETH_IRQHandler: both interrupts raise the (binary) semaphore.
IRQHandler ==
    /\ enabled /\ pending
    /\ pending' = FALSE
    /\ RxPktSemaphore' = 1
    /\ UNCHANGED <<descriptors, dma, running, enabled, gState, pool,
                   alloc_failed, threads, held, wire, history, starts>>

-----------------------------------------------------------------------------
(* The input thread.  While it has something to do no other thread runs.   *)

Preempted == inputThread # "wait" \/ RxPktSemaphore = 1

\* osSemaphoreAcquire in ethernetif_input.
Wake ==
    /\ inputThread = "wait" /\ RxPktSemaphore = 1
    /\ RxPktSemaphore' = 0
    /\ inputThread' = "read"
    /\ UNCHANGED <<descriptors, hardware, gState, pool, alloc_failed,
                   packet, linkThread, freer, held, wire, history, starts>>

\* ETH_UpdateDescriptor on cnt descriptors of a ring r: some are given back
\* to the DMA with a buffer each, fresh for those that have none, until the
\* pool f is empty or nothing is left to build.
Missing(r, k) ==
    {j \in 0 .. k - 1 : ~r[(RxBuildDescIdx + j) % N].attached}
Buildable(r, cnt, f) ==
    {k \in 0 .. cnt : Cardinality(Missing(r, k)) =< Cardinality(f)}
Built(r, cnt, f) == CHOOSE k \in Buildable(r, cnt, f) :
                        \A m \in Buildable(r, cnt, f) : m =< k
Choices(r, k, f) ==
    {g \in [Missing(r, k) -> f] : \A i, j \in DOMAIN g : g[i] = g[j] => i = j}

UpdateDescriptor(r, cnt, f) ==
    LET k == Built(r, cnt, f)
    IN  \E g \in Choices(r, k, f) :
          /\ ring' = [i \in Slots |->
               LET j == (N + i - RxBuildDescIdx) % N
               IN  IF j >= k THEN r[i]
                   ELSE [r[i] EXCEPT !.own = TRUE, !.attached = TRUE,
                                     !.buf = IF j \in DOMAIN g THEN g[j] ELSE @]]
          /\ pool' = f \ {g[j] : j \in DOMAIN g}
          /\ RxBuildDescIdx' = (RxBuildDescIdx + k) % N
          /\ RxBuildDescCnt' = cnt - k

\* low_level_input leaves the ring alone after a failed allocation, and
\* HAL_ETH_ReadData unless the interface is started.
Sleep ==
    /\ inputThread = "read"
    /\ alloc_failed \/ gState # "started"
    /\ inputThread' = "wait"
    /\ UNCHANGED <<descriptors, hardware, gState, pool, alloc_failed,
                   RxPktSemaphore, packet, linkThread, freer, held, wire,
                   history, starts>>

FrameReady_Unchecked == RxBuildDescCnt < N                  \* ReadsInOrder
FrameReady == ~ring[RxDescIdx].own /\ RxBuildDescCnt < N

\* HAL_ETH_ReadData without a frame: descriptors may be built, the thread
\* waits again.
ReadNothing ==
    /\ inputThread = "read" /\ ~alloc_failed /\ gState = "started"
    /\ ~FrameReady
    /\ UpdateDescriptor(ring, RxBuildDescCnt, pool)
    /\ alloc_failed' = (RxBuildDescCnt' > 0)
    /\ inputThread' = "wait"
    /\ UNCHANGED <<RxDescIdx, hardware, gState, RxPktSemaphore, packet,
                   linkThread, freer, held, wire, history, starts>>

\* HAL_ETH_ReadData with a frame: its buffer leaves the descriptor.
Detached_Not == ring                                        \* OneOwner
Detached == [ring EXCEPT ![RxDescIdx].attached = FALSE]

ReadFrame ==
    /\ inputThread = "read" /\ ~alloc_failed /\ gState = "started"
    /\ FrameReady
    /\ UpdateDescriptor(Detached, RxBuildDescCnt + 1, pool)
    /\ alloc_failed' = (RxBuildDescCnt' > 0)
    /\ RxDescIdx' = Incr(RxDescIdx)
    /\ inputThread' = "post"
    /\ packet' = ring[RxDescIdx].buf
    /\ last' = ring[RxDescIdx].frame
    /\ UNCHANGED <<hardware, gState, RxPktSemaphore, linkThread, freer, held,
                   wire, heard, clean, starts>>

\* netif->input posts the packet to the mailbox of lwIP ...
Post ==
    /\ inputThread = "post"
    /\ held' = held \cup {packet}
    /\ packet' = NULL
    /\ inputThread' = "read"
    /\ UNCHANGED <<descriptors, hardware, gState, pool, alloc_failed,
                   RxPktSemaphore, linkThread, freer, wire, history, starts>>

\* ... or finds it full, and the thread itself runs pbuf_free_custom.
Discard ==
    /\ inputThread = "post"
    /\ pool' = pool \cup {packet}
    /\ alloc_failed' = FALSE
    /\ RxPktSemaphore' = IF alloc_failed THEN 1 ELSE RxPktSemaphore
    /\ packet' = NULL
    /\ inputThread' = "read"
    /\ UNCHANGED <<descriptors, hardware, gState, linkThread, freer, held, wire,
                   history, starts>>

-----------------------------------------------------------------------------
(* The threads that free packets: pbuf_free_custom.                        *)

FreePacket(t) ==
    /\ ~Preempted /\ freer[t] = "idle"
    /\ \E b \in held :
         /\ held' = held \ {b}
         /\ pool' = pool \cup {b}
    /\ freer' = [freer EXCEPT ![t] = "check"]
    /\ UNCHANGED <<descriptors, hardware, gState, alloc_failed, RxPktSemaphore,
                   inputThread, packet, linkThread, wire, history, starts>>

CheckAlloc(t) ==
    /\ ~Preempted /\ freer[t] = "check"
    /\ freer' = [freer EXCEPT ![t] = IF alloc_failed THEN "reset" ELSE "idle"]
    /\ UNCHANGED <<descriptors, hardware, gState, pool, alloc_failed,
                   RxPktSemaphore, inputThread, packet, linkThread, held, wire,
                   history, starts>>

ResetAlloc(t) ==
    /\ ~Preempted /\ freer[t] = "reset"
    /\ alloc_failed' = FALSE
    /\ freer' = [freer EXCEPT ![t] = "signal"]
    /\ UNCHANGED <<descriptors, hardware, gState, pool, RxPktSemaphore,
                   inputThread, packet, linkThread, held, wire, history, starts>>

AfterSignal_Silent == RxPktSemaphore                        \* FramesAreRead, DryPoolIsNoticed
AfterSignal == 1

Signal(t) ==
    /\ ~Preempted /\ freer[t] = "signal"
    /\ RxPktSemaphore' = AfterSignal
    /\ freer' = [freer EXCEPT ![t] = "idle"]
    /\ UNCHANGED <<descriptors, hardware, gState, pool, alloc_failed,
                   inputThread, packet, linkThread, held, wire, history, starts>>

-----------------------------------------------------------------------------
(* The link thread: HAL_ETH_Start_IT and HAL_ETH_Stop_IT.                  *)

LinkRuns == ~Preempted /\ \A t \in Freers : freer[t] = "idle"

\* The ring is read out: nothing is left to build and no frame to read.
ReadOut == RxBuildDescCnt = 0 /\ \A i \in Slots : ring[i].own

Start ==
    /\ LinkRuns /\ linkThread = "idle" /\ gState = "ready"
    /\ starts < MaxStarts
    /\ starts' = starts + 1
    /\ clean' = (clean /\ ReadOut)
    /\ gState' = "busy"
    /\ RxBuildDescCnt' = N
    /\ linkThread' = "build"
    /\ UNCHANGED <<ring, RxDescIdx, RxBuildDescIdx, hardware, pool, alloc_failed,
                   RxPktSemaphore, inputThread, packet, freer, held, wire,
                   last, heard>>

\* ETH_UpdateDescriptor in this thread, descriptor by descriptor: others may
\* free buffers in the meantime, but nobody else uses the indices.
Build ==
    /\ LinkRuns /\ linkThread = "build"
    /\ RxBuildDescCnt > 0
    /\ \/ /\ ring[RxBuildDescIdx].attached
          /\ ring' = [ring EXCEPT ![RxBuildDescIdx].own = TRUE]
          /\ UNCHANGED pool
       \/ /\ ~ring[RxBuildDescIdx].attached
          /\ \E b \in pool :
               /\ ring' = [ring EXCEPT ![RxBuildDescIdx] =
                             [@ EXCEPT !.own = TRUE, !.attached = TRUE, !.buf = b]]
               /\ pool' = pool \ {b}
    /\ RxBuildDescIdx' = Incr(RxBuildDescIdx)
    /\ RxBuildDescCnt' = RxBuildDescCnt - 1
    /\ UNCHANGED <<RxDescIdx, hardware, gState, alloc_failed, RxPktSemaphore,
                   threads, held, wire, history, starts>>

\* The pool is empty: HAL_ETH_RxAllocateCallback finds out ...
AllocFails ==
    /\ LinkRuns /\ linkThread = "build"
    /\ RxBuildDescCnt > 0 /\ ~ring[RxBuildDescIdx].attached /\ pool = {}
    /\ linkThread' = "fail"
    /\ UNCHANGED <<descriptors, hardware, gState, pool, alloc_failed,
                   RxPktSemaphore, inputThread, packet, freer, held, wire,
                   history, starts>>

\* ... and sets RxAllocStatus.
SetAllocFailed ==
    /\ LinkRuns /\ linkThread = "fail"
    /\ alloc_failed' = TRUE
    /\ linkThread' = "run"
    /\ UNCHANGED <<descriptors, hardware, gState, pool, RxPktSemaphore,
                   inputThread, packet, freer, held, wire, history, starts>>

BuildDone ==
    /\ LinkRuns /\ linkThread = "build" /\ RxBuildDescCnt = 0
    /\ linkThread' = "run"
    /\ UNCHANGED <<descriptors, hardware, gState, pool, alloc_failed,
                   RxPktSemaphore, inputThread, packet, freer, held, wire,
                   history, starts>>

\* SR and RE are set.
Run ==
    /\ LinkRuns /\ linkThread = "run"
    /\ running' = TRUE
    /\ linkThread' = "enable"
    /\ UNCHANGED <<descriptors, dma, enabled, pending, gState, pool,
                   alloc_failed, RxPktSemaphore, inputThread, packet, freer,
                   held, wire, history, starts>>

EnableIT ==
    /\ LinkRuns /\ linkThread = "enable"
    /\ enabled' = TRUE
    /\ linkThread' = "started"
    /\ UNCHANGED <<descriptors, dma, running, pending, gState, pool,
                   alloc_failed, RxPktSemaphore, inputThread, packet, freer,
                   held, wire, history, starts>>

Started ==
    /\ LinkRuns /\ linkThread = "started"
    /\ gState' = "started"
    /\ linkThread' = "idle"
    /\ UNCHANGED <<descriptors, hardware, pool, alloc_failed, RxPktSemaphore,
                   inputThread, packet, freer, held, wire, history, starts>>

Stop ==
    /\ LinkRuns /\ linkThread = "idle" /\ gState = "started"
    /\ gState' = "busy"
    /\ linkThread' = "disable"
    /\ UNCHANGED <<descriptors, hardware, pool, alloc_failed, RxPktSemaphore,
                   inputThread, packet, freer, held, wire, history, starts>>

DisableIT ==
    /\ LinkRuns /\ linkThread = "disable"
    /\ enabled' = FALSE
    /\ linkThread' = "halt"
    /\ UNCHANGED <<descriptors, dma, running, pending, gState, pool,
                   alloc_failed, RxPktSemaphore, inputThread, packet, freer,
                   held, wire, history, starts>>

\* SR and RE are cleared; the DMA keeps its place in the ring.
Halt ==
    /\ LinkRuns /\ linkThread = "halt"
    /\ running' = FALSE
    /\ gState' = "ready"
    /\ linkThread' = "idle"
    /\ UNCHANGED <<descriptors, dma, enabled, pending, pool, alloc_failed,
                   RxPktSemaphore, inputThread, packet, freer, held, wire,
                   history, starts>>

-----------------------------------------------------------------------------
FreerStep(t) == FreePacket(t) \/ CheckAlloc(t) \/ ResetAlloc(t) \/ Signal(t)

InputStep == Wake \/ Sleep \/ ReadNothing \/ ReadFrame \/ Post \/ Discard

LinkStep ==
    Start \/ Build \/ AllocFails \/ SetAllocFailed \/ BuildDone \/ Run
      \/ EnableIT \/ Started \/ Stop \/ DisableIT \/ Halt

Next ==
    \/ Arrive \/ IRQHandler
    \/ InputStep
    \/ \E t \in Freers : FreerStep(t)
    \/ LinkStep

Spec == Init /\ [][Next]_vars

\* The interrupt is taken, the input thread runs, and lwIP and its users
\* free every packet in the end.  Nothing is assumed of the link thread.
FairSpec ==
    /\ Spec
    /\ WF_vars(IRQHandler) /\ WF_vars(InputStep)
    /\ \A t \in Freers : WF_vars(FreerStep(t))

-----------------------------------------------------------------------------
(* Properties.                                                             *)

Descriptor == [own : BOOLEAN, buf : Buffers \cup {NULL}, attached : BOOLEAN,
               frame : 0 .. MaxFrames]

\* Every variable stays in its type; in particular the indices stay inside
\* the ring and RxBuildDescCnt does not exceed it.
TypeOK ==
    /\ ring \in [Slots -> Descriptor]
    /\ RxDescIdx \in Slots /\ RxBuildDescIdx \in Slots /\ dma \in Slots
    /\ RxBuildDescCnt \in 0 .. N
    /\ running \in BOOLEAN /\ enabled \in BOOLEAN /\ pending \in BOOLEAN
    /\ gState \in {"ready", "busy", "started"}
    /\ pool \subseteq Buffers /\ held \subseteq Buffers
    /\ alloc_failed \in BOOLEAN /\ RxPktSemaphore \in 0 .. 1
    /\ inputThread \in {"wait", "read", "post"}
    /\ packet \in Buffers \cup {NULL}
    /\ linkThread \in {"idle", "build", "fail", "run", "enable", "started",
                        "disable", "halt"}
    /\ freer \in [Freers -> {"idle", "check", "reset", "signal"}]
    /\ wire \in 0 .. MaxFrames /\ last \in 0 .. MaxFrames
    /\ heard \in 0 .. MaxFrames /\ clean \in BOOLEAN
    /\ starts \in 0 .. MaxStarts

\* While every start found the ring read out, a buffer is in one place: free,
\* in one descriptor, or with one packet.  What the DMA writes to is never a
\* packet that lwIP still reads, and no buffer is lost.
Attached == {i \in Slots : ring[i].attached}
Packets  == held \cup ({packet} \ {NULL})
OneOwner ==
    clean =>
      /\ pool \cup Packets \cup {ring[i].buf : i \in Attached} = Buffers
      /\ Cardinality(pool) + Cardinality(Packets) + Cardinality(Attached)
            = Cardinality(Buffers)
      /\ running => \A i \in Slots : ring[i].own => ring[i].attached

\* While every start found the ring read out, frames are read in the order
\* in which they arrived, each at most once, and none that the DMA stored
\* is passed over.
ReadsInOrder ==
    [][clean' /\ RxDescIdx' # RxDescIdx =>
         /\ last' > last
         /\ \A i \in Slots :
              ~ring[i].own /\ ring[i].attached => last' =< ring[i].frame]_vars

SomeThread(state) == \E t \in Freers : freer[t] = state

\* A descriptor that ETH_UpdateDescriptor left without a buffer is not forgotten:
\* either RxAllocStatus says so, and a packet is still to be freed or the thread
\* that freed one still to look at it in pbuf_free_custom; or it says no more,
\* and ethernetif_input is awake or about to get RxPktSemaphore.  (clean: every
\* start found the ring read out.)
DryPoolIsNoticed ==
    clean /\ gState = "started" /\ RxBuildDescCnt > 0 =>
      \/ /\ alloc_failed
         /\ Packets # {} \/ SomeThread("check") \/ SomeThread("reset")
      \/ /\ ~alloc_failed
         /\ Preempted \/ SomeThread("signal")

\* A frame stored while the interface is started, after starts that found the
\* ring read out, is read unless the interface is stopped first, also when
\* the pool runs empty on the way.
Waits(f) == \E i \in Slots :
    ~ring[i].own /\ ring[i].attached /\ ring[i].frame = f
FramesAreRead ==
    \A f \in 1 .. MaxFrames :
      clean /\ gState = "started" /\ f =< heard /\ Waits(f)
        ~> last >= f \/ gState # "started"

=============================================================================

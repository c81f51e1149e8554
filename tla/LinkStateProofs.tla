--------------------------- MODULE LinkStateProofs ---------------------------
(***************************************************************************)
(* Theorems about LinkState, for any set of speeds and addresses and any   *)
(* width of the link index.  The properties follow from one invariant.     *)
(***************************************************************************)
EXTENDS LinkState, TLAPS

\* The groups of variables are abbreviations and expanded everywhere, and so
\* are the parts of the invariant.
USE DEF netif, thread, index, listener, history
USE DEF IInv, TypeOK, IndexMeansUp, AnnouncementsFollowBoot,
        SocketFollowsListener, SocketFollowsAddress, IndexCountsLinks

\* The next index of a link is an index, and never the one that means down.
LEMMA NextIdxIsUp ==
    ASSUME NEW n \in 0 .. MaxIdx PROVE NextIdx(n) \in 1 .. MaxIdx
BY LinkAssumption DEF NextIdx

\* The state after power-on, before MX_LWIP_Init.
LEMMA InitIInv == Init => IInv
<1> SUFFICES ASSUME Init PROVE IInv
  OBVIOUS
<1> USE DEF Init
<1>1. TypeOK
  <2>1. {lastUp, idx, seen, missed} \subseteq 0 .. MaxIdx
    BY LinkAssumption
  <2> QED BY <2>1, LinkAssumption
<1>2. IndexMeansUp /\ AnnouncementsFollowBoot /\ SocketFollowsListener
      /\ SocketFollowsAddress
  OBVIOUS
<1>3. IndexCountsLinks
  BY LinkAssumption
<1> QED BY <1>1, <1>2, <1>3

-----------------------------------------------------------------------------
(* Steps of the PHY, of DHCP and of MX_LWIP_Init.                          *)

LEMMA PhyChangeStep == ASSUME IInv, PhyChange PROVE IInv'
BY DEF PhyChange

LEMMA AddressStep ==
    ASSUME IInv, NEW a \in Ips \cup {NoIp}, AddressChange(a) PROVE IInv'
<1>1. localIp' \in Ips \cup {NoIp} /\ (localIp # NoIp => localIp' # NoIp)
  BY DEF AddressChange
<1>2. SocketFollowsAddress'
  <2> SUFFICES ASSUME ~stranded'
               PROVE  lpc # "rebind" /\ localIp' \in {NoIp, ip'}
    BY DEF AddressChange
  <2>1. ~stranded /\ lpc # "rebind" /\ (a = NoIp => localIp = NoIp)
    BY DEF AddressChange
  <2>2. localIp \in {NoIp, ip}
    BY <2>1
  <2>3. CASE localIp = NoIp
    BY <2>1, <2>3, LinkAssumption DEF AddressChange
  <2>4. CASE localIp # NoIp
    BY <2>1, <2>2, <2>4 DEF AddressChange
  <2> QED BY <2>1, <2>3, <2>4
<1> QED BY <1>1, <1>2 DEF AddressChange

LEMMA WorldStep == ASSUME IInv, World PROVE IInv'
<1>1. CASE PhyChange BY <1>1, PhyChangeStep
<1>2. CASE Lease BY <1>2, AddressStep DEF Lease
<1>3. CASE NewLease BY <1>3, AddressStep DEF NewLease
<1>4. CASE Withdraw BY <1>4, AddressStep DEF Withdraw
<1> QED BY <1>1, <1>2, <1>3, <1>4 DEF World

LEMMA PollStep == ASSUME IInv, Poll PROVE IInv'
BY DEF Poll

LEMMA InitFailsStep == ASSUME IInv, InitFails PROVE IInv'
BY DEF InitFails

\* The link comes up without the callback, so the index stays 0: silent.
LEMMA LowLevelInitStep == ASSUME IInv, LowLevelInit PROVE IInv'
BY LinkAssumption DEF LowLevelInit

LEMMA FinishInitStep == ASSUME IInv, FinishInit PROVE IInv'
BY DEF FinishInit

-----------------------------------------------------------------------------
(* Steps of the link thread.                                               *)

LEMMA LinkDownStep == ASSUME IInv, LinkDown PROVE IInv'
<1>1. idx' = 0 /\ lastUp' = lastUp
  BY DEF LinkDown, LinkStatusUpdated, FlagSeen
<1> USE DEF LinkDown
<1>2. TypeOK'
  <2>1. idx' \in 0 .. MaxIdx
    BY <1>1, LinkAssumption
  <2> QED BY <1>1, <2>1
<1>3. ~linkUp' /\ boot' = "done"
  BY DEF Booted
<1> QED BY <1>1, <1>2, <1>3

LEMMA LinkUpStep == ASSUME IInv, LinkUp PROVE IInv'
<1> USE DEF LinkUp, NewMode
<1>1. idx' = NextIdx(lastUp) /\ lastUp' = idx' /\ idx' \in 1 .. MaxIdx
  BY NextIdxIsUp DEF LinkStatusUpdated, FlagSeen
<1>2. ~silent' /\ boot = "done"
  BY DEF Booted
<1>3. TypeOK'
  BY <1>1, LinkAssumption
<1>4. IndexCountsLinks'
  BY <1>1, LinkAssumption DEF NextIdx
<1> QED BY <1>1, <1>2, <1>3, <1>4

LEMMA LinkStaysStep == ASSUME IInv, LinkStays PROVE IInv'
BY DEF LinkStays

LEMMA PollOrUseStep == ASSUME IInv, PollOrUse PROVE IInv'
BY PollStep, LowLevelInitStep, LinkDownStep, LinkUpStep, LinkStaysStep
   DEF PollOrUse

-----------------------------------------------------------------------------
(* Steps of the listener.                                                  *)

LEMMA CheckLinkStep == ASSUME IInv, CheckLink PROVE IInv'
BY DEF CheckLink, WasDown, Booted

\* What is read is not 0, hence the last index.
LEMMA AwaitLinkStep == ASSUME IInv, AwaitLink PROVE IInv'
BY LinkAssumption DEF AwaitLink

\* The listener skips binding only for the address it has bound.
LEMMA AcquireIpStep == ASSUME IInv, AcquireIp PROVE IInv'
BY DEF AcquireIp, Rebinds

LEMMA BindStep == ASSUME IInv, Bind PROVE IInv'
BY DEF Bind

\* After the reset the state is that of Init, but for the PHY.
LEMMA BindFailsStep == ASSUME IInv, BindFails PROVE IInv'
<1> USE DEF BindFails
<1>1. TypeOK'
  <2>1. {lastUp, idx, seen, missed}' \subseteq 0 .. MaxIdx
    BY LinkAssumption
  <2> QED BY <2>1, LinkAssumption
<1>2. IndexMeansUp' /\ AnnouncementsFollowBoot' /\ SocketFollowsListener'
      /\ SocketFollowsAddress'
  OBVIOUS
<1>3. IndexCountsLinks'
  BY LinkAssumption
<1> QED BY <1>1, <1>2, <1>3

LEMMA ReceiveStep == ASSUME IInv, Receive PROVE IInv'
BY DEF Receive

LEMMA ListenerStep == ASSUME IInv, Listener PROVE IInv'
BY CheckLinkStep, AwaitLinkStep, AcquireIpStep, BindStep, BindFailsStep,
   ReceiveStep DEF Listener

-----------------------------------------------------------------------------
(* The theorems.                                                           *)

HIDE DEF IInv, TypeOK, IndexMeansUp, AnnouncementsFollowBoot,
         SocketFollowsListener, SocketFollowsAddress, IndexCountsLinks

\* What the flags, the index, the listener's copy of it and its socket have to
\* do with each other, in every state that can be reached.
THEOREM Invariance == Spec => []IInv
<1>1. Init => IInv
  BY InitIInv
<1>2. IInv /\ [Next]_vars => IInv'
  <2> SUFFICES ASSUME IInv, [Next]_vars PROVE IInv'
    OBVIOUS
  <2>1. CASE World BY <2>1, WorldStep
  <2>2. CASE InitFails BY <2>2, InitFailsStep
  <2>3. CASE FinishInit BY <2>3, FinishInitStep
  <2>4. CASE PollOrUse BY <2>4, PollOrUseStep
  <2>5. CASE Listener BY <2>5, ListenerStep
  <2>6. CASE UNCHANGED vars BY <2>6 DEF IInv, TypeOK, IndexMeansUp,
      AnnouncementsFollowBoot, SocketFollowsListener, SocketFollowsAddress,
      IndexCountsLinks, vars
  <2> QED BY <2>1, <2>2, <2>3, <2>4, <2>5, <2>6 DEF Next
<1> QED BY <1>1, <1>2, PTL DEF Spec

\* Variables keep their types.
THEOREM TypeCorrect == Spec => []TypeOK
BY Invariance, PTL DEF IInv

\* eth_link_status_idx tells whether the link is up, once it was announced.
THEOREM IndexIsRight == Spec => []IndexMeansUp
BY Invariance, PTL DEF IInv

\* test_listener_task_loop receives on a socket that is bound, and to the
\* address of the board as long as DHCP does no more than replace it.
THEOREM BoundWhenReceiving == Spec => []ReceivesBound
<1>1. IInv => ReceivesBound
  BY DEF IInv, AnnouncementsFollowBoot, SocketFollowsListener,
     SocketFollowsAddress, ReceivesBound
<1> QED BY <1>1, Invariance, PTL

\* eth_link_was_down misses a lost link only if the index has wrapped to where
\* it was: of two links fewer than MaxIdx apart the indices differ.
THEOREM LossIsNoticed == Spec => NoticesLinkLoss
<1> DEFINE Noticed == lpc = "check" /\ lpc' = "recv" => missed \in {0, MaxIdx}
<1>1. ASSUME IInv, [Next]_vars PROVE Noticed
  <2> SUFFICES ASSUME lpc = "check", lpc' = "recv" PROVE missed \in {0, MaxIdx}
    OBVIOUS
  <2>1. CheckLink
    BY <1>1 DEF Next, World, PhyChange, Lease, NewLease, Withdraw,
       AddressChange, InitFails, FinishInit, PollOrUse, Poll, LowLevelInit,
       LinkDown, LinkUp, LinkStays, Listener, AwaitLink, AcquireIp, Bind,
       BindFails, Receive, vars
  <2>2. lastUp = seen /\ seen # 0
    BY <1>1, <2>1 DEF CheckLink, WasDown, IInv, AnnouncementsFollowBoot
  <2> QED BY <1>1, <2>2, LinkAssumption DEF IInv, TypeOK, IndexCountsLinks
<1> HIDE DEF Noticed
<1>2. Spec => [][Noticed]_vars
  BY <1>1, Invariance, PTL DEF Spec
<1> QED BY <1>2 DEF Noticed, NoticesLinkLoss

\* A link that comes up while its speed is known never runs at another one: from
\* when the link is down and nothing read of the PHY is waiting to be used.  It
\* needs no fairness: what MX_LWIP_Init and the link thread read from then on is
\* the speed, and they set the MAC to what they have read.
THEOREM KnownSpeeds == Spec => KnownSpeedIsUsed
<1> SUFFICES ASSUME NEW m \in Modes
             PROVE  Spec =>
                      [](Booted /\ ~linkUp /\ polled = NoPoll /\ [](phy = m)
                           => <>[](linkUp => mac = m))
  BY DEF KnownSpeedIsUsed
<1> DEFINE Known == phy = m
           Set   == linkUp => mac = m
           Clean == polled \in {NoPoll, m} /\ Set
           Lost  == Booted /\ ~linkUp /\ polled = NoPoll
<1>1. ASSUME Known, Clean, [Next]_vars PROVE Clean'
  <2>1. CASE World
    <3>1. UNCHANGED <<polled, linkUp, mac>>
      BY <2>1 DEF World, PhyChange, Lease, NewLease, Withdraw, AddressChange
    <3> QED BY <1>1, <3>1
  <2>2. CASE InitFails \/ FinishInit
    BY <1>1, <2>2 DEF InitFails, FinishInit
  <2>3. CASE PollOrUse
    <3>1. CASE Poll
      BY <1>1, <3>1 DEF Poll
    <3>2. CASE LowLevelInit
      BY <1>1, <3>2 DEF LowLevelInit
    <3>3. CASE LinkDown \/ LinkStays
      BY <1>1, <3>3 DEF LinkDown, LinkStays
    <3>4. CASE LinkUp
      <4>1. polled = m
        BY <1>1, <3>4, LinkAssumption DEF LinkUp, Negotiating, NoPoll
      <4> QED BY <3>4, <4>1 DEF LinkUp, NewMode
    <3> QED BY <2>3, <3>1, <3>2, <3>3, <3>4 DEF PollOrUse
  <2>4. CASE Listener
    BY <1>1, <2>4 DEF Listener, CheckLink, AwaitLink, AcquireIp, Bind,
       BindFails, Receive
  <2>5. CASE UNCHANGED vars
    BY <1>1, <2>5 DEF vars
  <2> QED BY <1>1, <2>1, <2>2, <2>3, <2>4, <2>5 DEF Next
<1>2. Lost => Clean
  OBVIOUS
<1>3. Clean => Set
  OBVIOUS
<1> HIDE DEF Known, Set, Clean, Lost
<1>4. Spec => [](Lost /\ []Known => <>[]Set)
  BY <1>1, <1>2, <1>3, PTL DEF Spec
<1> QED BY <1>4 DEF Known, Set, Lost
=============================================================================

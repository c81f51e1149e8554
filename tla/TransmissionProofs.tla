------------------------- MODULE TransmissionProofs -------------------------
(***************************************************************************)
(* Proofs about Transmission, for a ring of any length and any packets: as *)
(* long as the calls of the two senders do not overlap, the driver keeps a *)
(* packet exactly until it is sent, and packets leave in order.            *)
(***************************************************************************)
EXTENDS Transmission, TLAPS, WellFoundedInduction,
        FiniteSetTheorems

(* The inductive invariant.                                                *)

\* How far slot i is behind slot b, and the slot k behind slot b.
Dist(b, i)   == IF i >= b THEN i - b ELSE N + i - b
Behind(b, k) == IF b + k < N THEN b + k ELSE b + k - N

\* A sender in low_level_output has the newest packet, and TxConfig is its.
OneSender ==
    /\ \A t \in Senders : pc[t] = "idle" <=> p[t] = NULL
    /\ \A t \in Senders : p[t] # NULL =>
         /\ p[t] = born /\ born \in Packets
         /\ TxConfig.packet = born /\ TxConfig.pbufs \in 1 .. N
    /\ \A s, t \in Senders : p[s] # NULL /\ p[t] # NULL => s = t

\* Packets that have left their sender.
Earlier == {q \in 1 .. born : \A t \in Senders : p[t] # q}

\* The DMA owns the descriptors from the one it looks at to the next one to
\* be used.
OwnedInARow ==
    \E c \in 0 .. N :
      /\ CurTxDesc = Behind(dma, c)
      /\ \A i \in Slots : ring[i].own <=> Dist(dma, i) < c

Owned == {i \in Slots : ring[i].own}

\* The last descriptor of a packet names it, and is read after the others.
NamedByTheLast ==
    \A i \in Owned : \E l \in Owned :
      Dist(dma, i) =< Dist(dma, l) /\ PacketAddress[l] = ring[i].packet

\* What the DMA is yet to send is in order, and later than what is sent.
OwnedInOrder ==
    /\ \A i \in Owned : ring[i].packet \in Earlier
    /\ \A i, k \in Owned : Dist(dma, i) < Dist(dma, k) =>
         /\ ring[i].packet =< ring[k].packet
         /\ ring[i].last => ring[i].packet < ring[k].packet
    /\ done \subseteq Earlier
    /\ \A r \in done, i \in Owned : r < ring[i].packet

\* A packet is named by one descriptor, and referenced as long as it is
\* named or with its sender.
Named(q) == \E i \in Slots : PacketAddress[i] = q
With(q)  == \E t \in Senders : p[t] = q
ReferencedByOne ==
    /\ \A i \in Slots : PacketAddress[i] \in Earlier \cup {NULL}
    /\ \A i, k \in Slots :
         PacketAddress[i] = PacketAddress[k] /\ i # k => PacketAddress[i] = NULL
    /\ \A q \in Packets : refs[q] = IF Named(q) \/ With(q) THEN 1 ELSE 0

InOrder ==
    /\ OneSender
    /\ OwnedInARow
    /\ NamedByTheLast
    /\ OwnedInOrder
    /\ ReferencedByOne

IInv == TypeOK /\ (~overlapped => InOrder)

-----------------------------------------------------------------------------
(* Lemmas about slots.                                                     *)

LEMMA DistType ==
  ASSUME NEW b \in Slots, NEW i \in Slots
  PROVE  /\ Dist(b, i) \in Slots /\ Dist(b, i) \in Nat
         /\ Behind(b, Dist(b, i)) = i
         /\ \A k \in Slots : Dist(b, i) = Dist(b, k) => i = k
  BY TransmissionAssumption DEF Slots, Dist, Behind

LEMMA BehindType ==
  ASSUME NEW b \in Slots, NEW k \in 0 .. N
  PROVE  /\ Behind(b, k) \in Slots
         /\ Incr(b, k) = Behind(b, k)
         /\ k < N => Dist(b, Behind(b, k)) = k
  BY TransmissionAssumption DEF Slots, Dist, Behind, Incr

\* The slots behind a slot that is c behind dma, as seen from dma.
LEMMA SecondRun ==
  ASSUME NEW b \in Slots, NEW c \in 0 .. N, NEW k \in 1 .. N, c + k =< N,
         NEW i \in Slots
  PROVE  Dist(Behind(b, c), i) < k <=> Dist(b, i) \in c .. c + k - 1
  BY TransmissionAssumption DEF Slots, Dist, Behind

\* One slot further.
LEMMA OneFurther ==
  ASSUME NEW b \in Slots, NEW i \in Slots
  PROVE  /\ i # b => Dist(Behind(b, 1), i) = Dist(b, i) - 1
         /\ i # b => Dist(b, i) > 0
         /\ Dist(b, b) = 0
         /\ \A c \in 1 .. N : Behind(b, c) = Behind(Behind(b, 1), c - 1)
  BY TransmissionAssumption DEF Slots, Dist, Behind

LEMMA Names ==
  /\ NULL \notin Nat /\ NULL \notin Packets /\ Packets \subseteq Nat
  /\ Core \in Senders /\ Link \in Senders /\ Core # Link
  /\ N \in Nat \ {0} /\ MaxPackets \in Nat /\ MaxStarts \in Nat /\ MaxPbufs \in Nat
  BY TransmissionAssumption DEF Packets, Senders

\* A nonempty set of naturals has a least element, and with a bound a greatest.
LEMMA Least ==
  ASSUME NEW U, U \subseteq Nat, U # {}
  PROVE  \E n \in U : \A m \in U : n =< m
  <1> DEFINE R == {s \in Nat \X Nat : s[1] < s[2]}
  <1>1. IsWellFoundedOn(R, Nat)
    BY NatLessThanWellFounded DEF OpToRel
  <1>2. PICK n \in U : \A m \in U : <<m, n>> \notin R
    <2> HIDE DEF R
    <2>1. QED
      BY <1>1, WFMin
  <1>3. \A m \in U : ~ (m < n)
    BY <1>2
  <1>4. QED
    BY <1>3

LEMMA MaxExists ==
  ASSUME NEW B \in Nat, NEW S, S \subseteq 0 .. B, S # {}
  PROVE  Max(S) \in S
  <1> DEFINE U == {n \in Nat : \A x \in S : x =< n}
  <1>1. U # {} /\ U \subseteq Nat
    <2>1. B \in U
      OBVIOUS
    <2>2. QED
      BY <2>1
  <1>2. PICK n \in U : \A m \in U : n =< m
    <2> HIDE DEF U
    <2>1. QED
      BY <1>1, Least
  <1>3. n \in S
    <2> SUFFICES ASSUME n \notin S PROVE FALSE
      OBVIOUS
    <2>1. PICK x \in S : TRUE
      OBVIOUS
    <2>2. n - 1 \in U
      BY <2>1
    <2>3. QED
      BY <2>2, <1>2
  <1>4. \E m \in S : \A x \in S : m >= x
    BY <1>3
  <1>5. QED
    BY <1>4 DEF Max

LEMMA InitIInv == Init => IInv
  <1> SUFFICES ASSUME Init PROVE IInv
    OBVIOUS
  <1>1. TypeOK
    <2>1. /\ ring \in [Slots -> Descriptor]
          /\ PacketAddress \in [Slots -> Packets \cup {NULL}]
          /\ TxConfig \in [packet : Packets \cup {NULL}, pbufs : 0 .. N]
      BY Names DEF Init, Descriptor
    <2>2. /\ 0 \in Slots /\ 0 \in 0 .. MaxPackets /\ 0 \in 0 .. MaxStarts
          /\ 0 \in Nat /\ 0 \in 0 .. 1
      BY Names DEF Slots
    <2>3. QED
      BY <2>1, <2>2 DEF Init, TypeOK
  <1>2. OwnedInARow
    <2>1. /\ CurTxDesc = Behind(dma, 0)
          /\ \A i \in Slots : ring[i].own <=> Dist(dma, i) < 0
      BY Names DEF Init, Behind, Dist, Slots
    <2>2. QED
      BY <2>1, Names DEF OwnedInARow
  <1>3. Owned = {}
    BY DEF Init, Owned
  <1>4. OneSender /\ NamedByTheLast /\ OwnedInOrder
    BY <1>3, Names DEF Init, OneSender, NamedByTheLast, OwnedInOrder
  <1>5. ReferencedByOne
    BY Names DEF Init, ReferencedByOne, Named, With
  <1>6. QED
    BY <1>1, <1>2, <1>4, <1>5 DEF IInv, InOrder

\* What InOrder is about.
Seen == <<ring, PacketAddress, CurTxDesc, dma, p, TxConfig, born, refs, done>>

LEMMA OthersKeepOrder ==
  ASSUME InOrder, UNCHANGED Seen,
         \A t \in Senders : pc'[t] = "idle" <=> pc[t] = "idle"
  PROVE  InOrder'
  <1>1. OneSender'
    BY DEF InOrder, Seen, OneSender
  <1>2. OwnedInARow' /\ Owned' = Owned /\ Earlier' = Earlier
    BY DEF InOrder, Seen, OwnedInARow, Owned, Earlier
  <1>3. NamedByTheLast' /\ OwnedInOrder'
    BY <1>2 DEF InOrder, Seen, NamedByTheLast, OwnedInOrder
  <1>4. ReferencedByOne'
    BY <1>2 DEF InOrder, Seen, ReferencedByOne, Named, With
  <1>5. QED
    BY <1>1, <1>2, <1>3, <1>4 DEF InOrder

-----------------------------------------------------------------------------
(* The DMA.                                                                *)

LEMMA DmaStep ==
  ASSUME IInv, TransmitDescriptor, ~overlapped'
  PROVE  IInv'
  <1>1. ~overlapped /\ UNCHANGED <<PacketAddress, CurTxDesc, BuffersInUse,
           releaseIndex, senders, refs, overlapped>>
    BY DEF TransmitDescriptor
  <1>2. TypeOK /\ InOrder
    BY <1>1 DEF IInv
  <1>3. /\ dma \in Slots /\ ring \in [Slots -> Descriptor] /\ done \subseteq Packets
        /\ born \in Nat
    BY <1>1, <1>2 DEF TypeOK
  <1>4. dma \in Owned
    BY <1>3 DEF Owned, TransmitDescriptor
  <1>5. dma' = Behind(dma, 1) /\ dma' \in Slots
    BY <1>3, BehindType, Names DEF TransmitDescriptor
  <1>6. /\ Owned' = Owned \ {dma}
        /\ \A i \in Owned' : ring'[i] = ring[i]
        /\ ring' \in [Slots -> Descriptor]
    BY <1>3 DEF TransmitDescriptor, Owned, Descriptor
  <1>7. \A i \in Slots : i # dma => Dist(dma', i) = Dist(dma, i) - 1 /\ Dist(dma, i) > 0
    BY <1>3, <1>5, OneFurther
  <1>8. Earlier' = Earlier
    BY <1>1 DEF senders, Earlier
  <1>9. OneSender'
    BY <1>1, <1>2 DEF InOrder, OneSender, senders
  <1>10. OwnedInARow'
    <2>1. PICK c \in 0 .. N : /\ CurTxDesc = Behind(dma, c)
                              /\ \A i \in Slots : ring[i].own <=> Dist(dma, i) < c
      BY <1>2 DEF InOrder, OwnedInARow
    <2>2. c \in 1 .. N
      BY <1>3, <1>4, <2>1, OneFurther DEF Owned
    <2>3. CurTxDesc' = Behind(dma', c - 1)
      BY <1>1, <1>3, <1>5, <2>1, <2>2, OneFurther
    <2>4. ASSUME NEW i \in Slots PROVE ring'[i].own <=> Dist(dma', i) < c - 1
      <3>1. CASE i = dma
        <4>1. ~ring'[i].own
          BY <3>1, <1>3 DEF TransmitDescriptor
        <4>2. Dist(dma', dma) = N - 1
          BY <1>3, <1>5, Names DEF Dist, Behind, Slots
        <4>3. QED
          BY <3>1, <4>1, <4>2, <2>2, Names
      <3>2. CASE i # dma
        <4>1. ring'[i].own <=> ring[i].own
          BY <3>2, <1>3 DEF TransmitDescriptor
        <4>2. Dist(dma, i) \in Slots
          BY <1>3, DistType
        <4>3. QED
          BY <3>2, <4>1, <4>2, <1>7, <2>1, <2>2, Names DEF Slots
      <3>3. QED
        BY <3>1, <3>2
    <2>5. c - 1 \in 0 .. N
      BY <2>2, Names
    <2>6. QED
      BY <2>3, <2>4, <2>5 DEF OwnedInARow
  <1>11. NamedByTheLast'
    <2> SUFFICES ASSUME NEW i \in Owned'
                 PROVE  \E l \in Owned' : /\ Dist(dma', i) =< Dist(dma', l)
                                          /\ PacketAddress[l] = ring'[i].packet
      BY <1>1 DEF NamedByTheLast
    <2>1. i \in Owned /\ i # dma /\ i \in Slots
      BY <1>6 DEF Owned
    <2>2. PICK l \in Owned : /\ Dist(dma, i) =< Dist(dma, l)
                             /\ PacketAddress[l] = ring[i].packet
      BY <1>2, <2>1 DEF InOrder, NamedByTheLast
    <2>3. l \in Slots /\ Dist(dma, i) \in Slots /\ Dist(dma, l) \in Slots
      BY <1>3, <2>1, DistType DEF Owned
    <2>4. l # dma
      BY <1>3, <1>7, <2>1, <2>2, <2>3, Names, OneFurther DEF Slots
    <2>5. Dist(dma', i) =< Dist(dma', l)
      BY <1>7, <2>1, <2>2, <2>3, <2>4, Names DEF Slots
    <2>6. QED
      BY <1>6, <2>1, <2>2, <2>4, <2>5
  <1>12. OwnedInOrder'
    <2>1. \A i \in Owned' : ring'[i].packet \in Earlier'
      BY <1>2, <1>6, <1>8 DEF InOrder, OwnedInOrder
    <2>2. ASSUME NEW i \in Owned', NEW k \in Owned', Dist(dma', i) < Dist(dma', k)
          PROVE  /\ ring'[i].packet =< ring'[k].packet
                 /\ ring'[i].last => ring'[i].packet < ring'[k].packet
      <3>1. /\ i \in Owned /\ i # dma /\ i \in Slots
            /\ k \in Owned /\ k # dma /\ k \in Slots
        BY <1>6 DEF Owned
      <3>2. Dist(dma, i) \in Slots /\ Dist(dma, k) \in Slots
        BY <1>3, <3>1, DistType
      <3>3. Dist(dma, i) < Dist(dma, k)
        BY <1>7, <2>2, <3>1, <3>2, Names DEF Slots
      <3>4. QED
        BY <1>2, <1>6, <3>1, <3>3 DEF InOrder, OwnedInOrder
    <2>3. done' \subseteq Earlier'
      BY <1>2, <1>4, <1>8 DEF InOrder, OwnedInOrder, TransmitDescriptor
    <2>4. ASSUME NEW r \in done', NEW i \in Owned' PROVE r < ring'[i].packet
      <3>1. i \in Owned /\ i # dma /\ i \in Slots /\ ring'[i] = ring[i]
        BY <1>6 DEF Owned
      <3>2. CASE r \in done
        BY <1>2, <3>1, <3>2 DEF InOrder, OwnedInOrder
      <3>3. CASE r \notin done
        <4>1. r = ring[dma].packet /\ ring[dma].last
          BY <3>3 DEF TransmitDescriptor
        <4>2. Dist(dma, dma) < Dist(dma, i)
          BY <1>3, <1>7, <3>1, OneFurther
        <4>3. QED
          BY <1>2, <1>4, <3>1, <4>1, <4>2 DEF InOrder, OwnedInOrder
      <3>4. QED
        BY <3>2, <3>3
    <2>5. QED
      BY <2>1, <2>2, <2>3, <2>4 DEF OwnedInOrder
  <1>13. ReferencedByOne'
    BY <1>1, <1>2, <1>8 DEF InOrder, ReferencedByOne, Named, With, senders
  <1>14. TypeOK'
    <2>1. ring[dma].packet \in Packets
      BY <1>1, <1>2, <1>3, <1>4, Names DEF InOrder, OwnedInOrder, Earlier, TypeOK, Packets
    <2>2. done' \subseteq Packets /\ pending' \in BOOLEAN
      BY <1>1, <1>2, <2>1 DEF TransmitDescriptor, TypeOK
    <2>3. QED
      BY <1>1, <1>2, <1>5, <1>6, <2>2 DEF TypeOK, TransmitDescriptor, senders
  <1>15. QED
    BY <1>9, <1>10, <1>11, <1>12, <1>13, <1>14 DEF IInv, InOrder

-----------------------------------------------------------------------------
(* The senders.                                                            *)

LEMMA OutputStep ==
  ASSUME IInv, NEW t \in Senders, NEW k \in 1 .. MaxPbufs, Output(t, k), ~overlapped'
  PROVE  IInv'
  <1>1. ~overlapped /\ \A s \in Senders : pc[s] = "idle"
    BY DEF Output
  <1>2. TypeOK /\ InOrder
    BY <1>1 DEF IInv
  <1>3. \A s \in Senders : p[s] = NULL
    BY <1>1, <1>2 DEF InOrder, OneSender
  <1>4. /\ born \in 0 .. MaxPackets /\ born' = born + 1 /\ born' \in Packets
        /\ p \in [Senders -> Packets \cup {NULL}] /\ pc \in [Senders -> {"idle", "transmit", "wait"}]
        /\ refs \in [Packets -> 0 .. 1]
        /\ p' = [p EXCEPT ![t] = born'] /\ pc' = [pc EXCEPT ![t] = "transmit"]
        /\ refs' = [refs EXCEPT ![born'] = 1]
        /\ TxConfig' = [packet |-> born', pbufs |-> k] /\ k \in 1 .. N
    BY <1>1, <1>2, Names DEF Output, TypeOK, Packets
  <1>5. UNCHANGED <<descriptors, hardware, done>>
    BY DEF Output
  <1>6. \A s \in Senders : p'[s] = IF s = t THEN born' ELSE NULL
    BY <1>3, <1>4
  <1>7. Earlier \subseteq Earlier' /\ born' \notin Earlier /\ Earlier = 1 .. born
    BY <1>3, <1>4, <1>6, Names DEF Earlier, Packets
  <1>8. OneSender'
    BY <1>1, <1>4, <1>6, Names DEF OneSender
  <1>9. OwnedInARow' /\ NamedByTheLast' /\ Owned' = Owned
    BY <1>2, <1>5 DEF InOrder, OwnedInARow, NamedByTheLast, Owned, descriptors, hardware
  <1>10. OwnedInOrder'
    BY <1>2, <1>5, <1>7, <1>9 DEF InOrder, OwnedInOrder, descriptors, hardware
  <1>11. ReferencedByOne'
    <2>1. PacketAddress' = PacketAddress
      BY <1>5 DEF descriptors
    <2>2. ASSUME NEW q \in Packets PROVE refs'[q] = IF Named(q)' \/ With(q)' THEN 1 ELSE 0
      <3>1. CASE q = born'
        BY <1>4, <1>6, <3>1 DEF With
      <3>2. CASE q # born'
        BY <1>2, <1>3, <1>4, <1>6, <2>1, <3>2, Names DEF With, Named, InOrder, ReferencedByOne
      <3>3. QED
        BY <3>1, <3>2
    <2>3. QED
      BY <1>2, <1>7, <2>1, <2>2 DEF ReferencedByOne, InOrder
  <1>12. TypeOK'
    <2>1. /\ p' \in [Senders -> Packets \cup {NULL}]
          /\ pc' \in [Senders -> {"idle", "transmit", "wait"}]
          /\ refs' \in [Packets -> 0 .. 1] /\ born' \in 0 .. MaxPackets
          /\ TxConfig' \in [packet : Packets \cup {NULL}, pbufs : 0 .. N]
      BY <1>4, Names DEF Packets
    <2>2. QED
      BY <1>1, <1>2, <1>5, <2>1 DEF Output, TypeOK, descriptors, hardware
  <1>13. QED
    BY <1>8, <1>9, <1>10, <1>11, <1>12 DEF IInv, InOrder

LEMMA RefuseStep ==
  ASSUME IInv, NEW t \in Senders, Refuse(t), ~overlapped'
  PROVE  IInv'
  <1>1. ~overlapped /\ UNCHANGED <<descriptors, hardware, TxConfig, born, done>>
    BY DEF Refuse
  <1>2. TypeOK /\ InOrder
    BY <1>1 DEF IInv
  <1>3. /\ p \in [Senders -> Packets \cup {NULL}] /\ pc \in [Senders -> {"idle", "transmit", "wait"}]
        /\ refs \in [Packets -> 0 .. 1] /\ born \in Nat
    BY <1>1, <1>2 DEF TypeOK
  <1>4. pc[t] # "idle" /\ p[t] = born /\ born \in Packets
    BY <1>2 DEF Refuse, InOrder, OneSender
  <1>5. /\ \A s \in Senders : s # t => p[s] = NULL
        /\ \A s \in Senders : p'[s] = NULL
    BY <1>2, <1>3, <1>4, Names DEF Refuse, InOrder, OneSender
  <1>6. OneSender'
    BY <1>1, <1>2, <1>3, <1>5 DEF Refuse, OneSender, InOrder
  <1>7. OwnedInARow' /\ NamedByTheLast' /\ Owned' = Owned
    BY <1>1, <1>2 DEF InOrder, OwnedInARow, NamedByTheLast, Owned, descriptors, hardware
  <1>8. Earlier \subseteq Earlier' /\ born \notin Earlier
    BY <1>1, <1>4, <1>5, Names DEF Earlier, Packets
  <1>9. OwnedInOrder'
    BY <1>1, <1>2, <1>7, <1>8 DEF InOrder, OwnedInOrder, descriptors, hardware
  <1>10. ReferencedByOne'
    <2>1. PacketAddress' = PacketAddress
      BY <1>1 DEF descriptors
    <2>2. ~Named(born) /\ With(born)
      BY <1>2, <1>4, <1>8, Names DEF InOrder, ReferencedByOne, Named, With
    <2>3. ASSUME NEW q \in Packets PROVE refs'[q] = IF Named(q)' \/ With(q)' THEN 1 ELSE 0
      <3>1. ~With(q)' /\ (Named(q)' <=> Named(q))
        BY <1>5, <2>1, Names DEF With, Named
      <3>2. CASE q = born
        BY <1>2, <1>3, <1>4, <2>2, <3>1, <3>2 DEF Refuse, InOrder, ReferencedByOne
      <3>3. CASE q # born
        <4>1. ~With(q)
          BY <1>4, <1>5, <3>3, Names DEF With
        <4>2. QED
          BY <1>2, <1>3, <1>4, <3>1, <3>3, <4>1 DEF Refuse, InOrder, ReferencedByOne
      <3>4. QED
        BY <3>2, <3>3
    <2>4. QED
      BY <1>2, <1>8, <2>1, <2>3 DEF ReferencedByOne, InOrder
  <1>11. TypeOK'
    <2>1. /\ p' \in [Senders -> Packets \cup {NULL}]
          /\ pc' \in [Senders -> {"idle", "transmit", "wait"}]
      BY <1>3 DEF Refuse
    <2>2. refs' \in [Packets -> 0 .. 1]
      <3>1. DOMAIN refs' = Packets /\ refs' = [q \in Packets |-> refs'[q]]
        BY <1>3 DEF Refuse
      <3>2. \A q \in Packets : refs'[q] \in 0 .. 1
        BY <1>10 DEF ReferencedByOne
      <3>3. QED
        BY <3>1, <3>2
    <2>3. QED
      BY <1>1, <1>2, <2>1, <2>2 DEF Refuse, TypeOK, descriptors, hardware
  <1>12. QED
    BY <1>6, <1>7, <1>9, <1>10, <1>11 DEF IInv, InOrder

LEMMA TransmitStep ==
  ASSUME IInv, NEW t \in Senders, Transmit(t), ~overlapped'
  PROVE  IInv'
  <1> DEFINE k    == TxConfig.pbufs
             last == Incr(CurTxDesc, k - 1)
  <1>1. ~overlapped /\ UNCHANGED <<releaseIndex, dma, TxConfig, born, refs, done>>
    BY DEF Transmit
  <1>2. TypeOK /\ InOrder
    BY <1>1 DEF IInv
  <1>3. /\ p \in [Senders -> Packets \cup {NULL}] /\ pc \in [Senders -> {"idle", "transmit", "wait"}]
        /\ ring \in [Slots -> Descriptor] /\ PacketAddress \in [Slots -> Packets \cup {NULL}]
        /\ dma \in Slots /\ CurTxDesc \in Slots /\ BuffersInUse \in Nat
    BY <1>1, <1>2 DEF TypeOK
  <1> HIDE DEF k, last
  <1>4. /\ p[t] = born /\ born \in Packets /\ TxConfig.packet = born
        /\ k \in 1 .. N /\ k - 1 \in 0 .. N /\ k - 1 < N
    <2>1. k \in 1 .. N /\ p[t] = born /\ born \in Packets /\ TxConfig.packet = born
      BY <1>2 DEF Transmit, InOrder, OneSender, k
    <2>2. QED
      BY <2>1, Names
  <1>5. /\ \A s \in Senders : s # t => p[s] = NULL
        /\ \A s \in Senders : p'[s] = NULL
    BY <1>2, <1>3, <1>4, Names DEF Transmit, InOrder, OneSender
  <1>6. /\ last = Behind(CurTxDesc, k - 1) /\ last \in Slots
        /\ Dist(CurTxDesc, last) = k - 1
    BY <1>3, <1>4, BehindType DEF last
  <1>7. /\ ring' = [i \in Slots |-> IF i \in Needed
                                     THEN [own |-> TRUE, packet |-> born, last |-> i = last]
                                     ELSE ring[i]]
        /\ PacketAddress' = [PacketAddress EXCEPT ![last] = born]
        /\ CurTxDesc' = Incr(last, 1)
    BY <1>4 DEF Transmit, last, k
  <1>8. Needed = {i \in Slots : Dist(CurTxDesc, i) < k}
    <2>1. ASSUME NEW j \in 0 .. k - 1
          PROVE  Incr(CurTxDesc, j) \in Slots /\ Dist(CurTxDesc, Incr(CurTxDesc, j)) < k
      <3>1. j \in 0 .. N /\ j < N /\ j < k
        BY <1>4, Names
      <3>2. QED
        BY <1>3, <3>1, BehindType
    <2>2. ASSUME NEW i \in Slots, Dist(CurTxDesc, i) < k
          PROVE  Dist(CurTxDesc, i) \in 0 .. k - 1 /\ i = Incr(CurTxDesc, Dist(CurTxDesc, i))
      <3> DEFINE d == Dist(CurTxDesc, i)
      <3>0. CurTxDesc \in Slots
        BY <1>3
      <3>1. d \in Slots /\ d \in Nat /\ Behind(CurTxDesc, d) = i
        BY <3>0, DistType
      <3> HIDE DEF d
      <3>2. Incr(CurTxDesc, d) = Behind(CurTxDesc, d)
        BY <3>0, <3>1, BehindType, Names DEF Slots
      <3>3. QED
        BY <1>4, <2>2, <3>1, <3>2 DEF d
    <2>3. QED
      BY <2>1, <2>2 DEF Needed, k
  <1>9. \A i \in Needed : i \in Slots /\ ~ring[i].own /\ PacketAddress[i] = NULL
    BY <1>8 DEF Transmit, Room
  <1>10. last \in Needed
    BY <1>4, <1>6, <1>8
  <1>11. PICK c \in 0 .. N : /\ CurTxDesc = Behind(dma, c)
                             /\ \A i \in Slots : ring[i].own <=> Dist(dma, i) < c
    BY <1>2 DEF InOrder, OwnedInARow
  <1>12. c + k =< N
    <2> SUFFICES ASSUME c + k > N PROVE FALSE
      BY <1>4, Names
    <2>1. c > 0 /\ Dist(dma, dma) = 0
      BY <1>3, <1>4, Names, OneFurther
    <2>2. ring[dma].own
      BY <1>3, <1>11, <2>1
    <2>3. Dist(CurTxDesc, dma) = N - c
      BY <1>3, <1>11, <2>1, Names DEF Dist, Behind, Slots
    <2>4. dma \in Needed
      BY <1>3, <1>4, <1>8, <2>3, Names
    <2>5. QED
      BY <1>9, <2>2, <2>4
  <1>13. \A i \in Slots : i \in Needed <=> Dist(dma, i) \in c .. c + k - 1
    BY <1>3, <1>4, <1>8, <1>11, <1>12, SecondRun
  <1>14. Dist(dma, last) = c + k - 1
    BY <1>3, <1>4, <1>6, <1>11, <1>12, Names DEF Dist, Behind, Slots
  <1>15. /\ Owned' = Owned \cup Needed /\ Owned \cap Needed = {}
         /\ \A i \in Owned : ring'[i] = ring[i] /\ Dist(dma, i) \in 0 .. c - 1
         /\ \A i \in Needed : /\ ring'[i].packet = born /\ (ring'[i].last => i = last)
                              /\ Dist(dma, i) \in c .. c + k - 1
    <2>1. \A i \in Slots : Dist(dma, i) \in Nat
      BY <1>3, DistType
    <2>2. /\ Needed \subseteq Slots
          /\ \A i \in Slots \ Needed : ring'[i] = ring[i]
          /\ \A i \in Needed : ring'[i] = [own |-> TRUE, packet |-> born, last |-> i = last]
      BY <1>7, <1>8
    <2>3. Owned' = Owned \cup Needed /\ Owned \cap Needed = {} /\ Owned \subseteq Slots
      <3>1. ASSUME NEW i \in Needed PROVE ring'[i].own
        <4>1. ring'[i] = [own |-> TRUE, packet |-> born, last |-> i = last]
          BY <2>2
        <4>2. QED
          BY <4>1
      <3>2. QED
        BY <1>9, <2>2, <3>1 DEF Owned
    <2>4. \A i \in Owned : Dist(dma, i) \in 0 .. c - 1
      BY <1>11, <2>1 DEF Owned
    <2>5. \A i \in Needed : Dist(dma, i) \in c .. c + k - 1
      BY <1>13, <2>2
    <2>6. \A i \in Needed : ring'[i].packet = born /\ (ring'[i].last => i = last)
      <3> SUFFICES ASSUME NEW i \in Needed
                   PROVE  ring'[i].packet = born /\ (ring'[i].last => i = last)
        OBVIOUS
      <3>1. ring'[i] = [own |-> TRUE, packet |-> born, last |-> i = last]
        BY <2>2
      <3>2. ring'[i].packet = born /\ ring'[i].last = (i = last)
        BY <3>1
      <3>3. QED
        BY <3>2
    <2>7. \A i \in Owned : ring'[i] = ring[i]
      BY <2>2, <2>3
    <2>8. QED
      BY <2>3, <2>4, <2>5, <2>6, <2>7
  <1>16. Earlier \subseteq Earlier' /\ born \notin Earlier /\ born \in Earlier'
    BY <1>1, <1>4, <1>5, Names DEF Earlier, Packets
  <1>17. OneSender'
    BY <1>1, <1>2, <1>3, <1>5 DEF Transmit, OneSender, InOrder
  <1>18. OwnedInARow'
    <2>1. CurTxDesc' = Behind(dma, c + k)
      <3>1. CurTxDesc' = Behind(last, 1)
        BY <1>6, <1>7, BehindType, Names
      <3>2. last = Behind(dma, c + k - 1)
        BY <1>3, <1>6, <1>14, DistType
      <3>3. QED
        BY <1>3, <1>4, <1>12, <3>1, <3>2, Names DEF Behind, Slots
    <2>2. \A i \in Slots : ring'[i].own <=> Dist(dma, i) < c + k
      <3>1. \A i \in Slots : Dist(dma, i) \in Nat
        BY <1>3, DistType
      <3>2. QED
        BY <1>4, <1>7, <1>11, <1>13, <3>1, Names
    <2>3. c + k \in 0 .. N
      BY <1>4, <1>12, Names
    <2>4. QED
      BY <1>1, <2>1, <2>2, <2>3 DEF OwnedInARow
  <1>19. NamedByTheLast'
    <2> SUFFICES ASSUME NEW i \in Owned'
                 PROVE  \E l \in Owned' : /\ Dist(dma, i) =< Dist(dma, l)
                                          /\ PacketAddress'[l] = ring'[i].packet
      BY <1>1 DEF NamedByTheLast
    <2>1. CASE i \in Needed
      <3>1. last \in Owned' /\ PacketAddress'[last] = born
        BY <1>3, <1>6, <1>7, <1>10, <1>15
      <3>2. QED
        BY <1>4, <1>14, <1>15, <2>1, <3>1
    <2>2. CASE i \notin Needed
      <3>1. i \in Owned
        BY <1>15, <2>2
      <3>2. PICK l \in Owned : /\ Dist(dma, i) =< Dist(dma, l)
                               /\ PacketAddress[l] = ring[i].packet
        BY <1>2, <3>1 DEF InOrder, NamedByTheLast
      <3>3. l # last
        BY <1>10, <1>15
      <3>4. l \in Slots /\ PacketAddress'[l] = PacketAddress[l]
        BY <1>3, <1>7, <3>3 DEF Owned
      <3>5. QED
        BY <1>15, <3>1, <3>2, <3>4
    <2>3. QED
      BY <2>1, <2>2
  <1>20. OwnedInOrder'
    <2>1. \A i \in Owned' : ring'[i].packet \in Earlier'
      BY <1>2, <1>15, <1>16 DEF InOrder, OwnedInOrder
    <2>2. \A q \in Earlier : q < born
      BY <1>4, <1>16, Names DEF Earlier, Packets
    <2>3. ASSUME NEW i \in Owned', NEW j \in Owned', Dist(dma, i) < Dist(dma, j)
          PROVE  /\ ring'[i].packet =< ring'[j].packet
                 /\ ring'[i].last => ring'[i].packet < ring'[j].packet
      <3>1. CASE i \in Owned /\ j \in Owned
        BY <1>2, <1>15, <2>3, <3>1 DEF InOrder, OwnedInOrder
      <3>2. CASE i \in Owned /\ j \in Needed
        <4>1. ring'[i].packet < born /\ ring'[i].packet \in Nat
          BY <1>2, <1>15, <2>2, <3>2 DEF InOrder, OwnedInOrder, Earlier
        <4>2. QED
          BY <1>4, <1>15, <3>2, <4>1, Names
      <3>3. CASE i \in Needed /\ j \in Owned
        BY <1>4, <1>15, <2>3, <3>3, Names
      <3>4. CASE i \in Needed /\ j \in Needed
        <4>1. i # last
          BY <1>4, <1>14, <1>15, <2>3, <3>4, Names
        <4>2. QED
          BY <1>4, <1>15, <3>4, <4>1, Names
      <3>5. QED
        BY <1>15, <3>1, <3>2, <3>3, <3>4
    <2>4. done' \subseteq Earlier'
      BY <1>1, <1>2, <1>16 DEF InOrder, OwnedInOrder
    <2>5. \A r \in done', i \in Owned' : r < ring'[i].packet
      BY <1>1, <1>2, <1>15, <2>2 DEF InOrder, OwnedInOrder
    <2>6. QED
      BY <1>1, <2>1, <2>3, <2>4, <2>5 DEF OwnedInOrder
  <1>21. ReferencedByOne'
    <2>1. \A i \in Slots : PacketAddress'[i] = IF i = last THEN born ELSE PacketAddress[i]
      BY <1>3, <1>7
    <2>2. \A i \in Slots : PacketAddress[i] # born
      BY <1>2, <1>4, <1>16, Names DEF InOrder, ReferencedByOne
    <2>3. \A i \in Slots : PacketAddress'[i] \in Earlier' \cup {NULL}
      BY <1>2, <1>16, <2>1 DEF InOrder, ReferencedByOne
    <2>4. \A i, j \in Slots : PacketAddress'[i] = PacketAddress'[j] /\ i # j
                                => PacketAddress'[i] = NULL
      BY <1>2, <2>1, <2>2 DEF InOrder, ReferencedByOne
    <2>5. ASSUME NEW q \in Packets PROVE Named(q)' \/ With(q)' <=> Named(q) \/ With(q)
      <3>1. ~With(q)' /\ (With(q) <=> q = born)
        BY <1>4, <1>5, Names DEF With
      <3>2. CASE q = born
        BY <1>6, <2>1, <3>1, <3>2 DEF Named
      <3>3. CASE q # born
        <4>1. PacketAddress[last] = NULL
          BY <1>9, <1>10
        <4>2. Named(q)' <=> Named(q)
          BY <1>6, <2>1, <3>3, <4>1, Names DEF Named
        <4>3. QED
          BY <3>1, <3>3, <4>2
      <3>4. QED
        BY <3>2, <3>3
    <2>6. \A q \in Packets : refs'[q] = IF Named(q)' \/ With(q)' THEN 1 ELSE 0
      BY <1>1, <1>2, <2>5 DEF InOrder, ReferencedByOne
    <2>7. QED
      BY <2>3, <2>4, <2>6 DEF ReferencedByOne
  <1>22. TypeOK'
    <2>1. /\ p' \in [Senders -> Packets \cup {NULL}]
          /\ pc' \in [Senders -> {"idle", "transmit", "wait"}]
      BY <1>3 DEF Transmit
    <2>2. ring' \in [Slots -> Descriptor]
      <3>1. ASSUME NEW i \in Slots PROVE ring'[i] \in Descriptor
        BY <1>3, <1>4, <1>7 DEF Descriptor
      <3>2. QED
        BY <1>7, <3>1
    <2>3. PacketAddress' \in [Slots -> Packets \cup {NULL}] /\ CurTxDesc' \in Slots
      BY <1>3, <1>4, <1>6, <1>7, BehindType, Names
    <2>4. BuffersInUse' \in Nat /\ suspended' \in BOOLEAN
      <3>1. BuffersInUse' = BuffersInUse + k /\ suspended' = FALSE
        BY DEF Transmit, AfterPoll, k
      <3>2. k \in Nat /\ BuffersInUse \in Nat
        BY <1>3, <1>4
      <3>3. BuffersInUse' \in Nat
        BY <3>1, <3>2
      <3>4. suspended' \in BOOLEAN
        BY <3>1, Zenon
      <3>5. QED
        BY <3>3, <3>4
    <2>5. QED
      BY <1>1, <1>2, <2>1, <2>2, <2>3, <2>4 DEF Transmit, TypeOK
  <1>23. QED
    BY <1>17, <1>18, <1>19, <1>20, <1>21, <1>22 DEF IInv, InOrder

\* HAL_ETH_ReleaseTxPacket: what Released stands for.
LEMMA ReleaseFrees ==
  ASSUME TypeOK, ~overlapped, ReleaseTxPacket
  PROVE  \E S \in SUBSET Slots :
           /\ \A i \in S : PacketAddress[i] # NULL /\ ~ring[i].own
           /\ PacketAddress' = [i \in Slots |-> IF i \in S THEN NULL ELSE PacketAddress[i]]
           /\ refs' = [q \in Packets |-> IF \E i \in S : PacketAddress[i] = q
                                         THEN refs[q] - 1 ELSE refs[q]]
           /\ BuffersInUse' \in Nat /\ releaseIndex' \in Slots
  <1> DEFINE S == {At(j) : j \in Released}
  <1>1. releaseIndex \in Slots /\ BuffersInUse \in Nat /\ N \in Nat \ {0}
    BY Names DEF TypeOK
  <1>2. ASSUME NEW j \in Released
        PROVE  j \in 0 .. N /\ j < N /\ j \in Examined /\ At(j) \in Slots
               /\ PacketAddress[At(j)] # NULL /\ ~ring[At(j)].own
    <2>1. j \in Examined /\ j < N /\ j \in Nat
      BY <1>1 DEF Released, Examined
    <2>2. j \in 0 .. j /\ j \in 0 .. N
      BY <1>1, <2>1
    <2>3. PacketAddress[At(j)] # NULL /\ ~Unsent(j)
      BY <2>2 DEF Released
    <2>4. At(j) \in Slots
      BY <1>1, <2>1, <2>2, BehindType DEF At
    <2>5. QED
      BY <2>1, <2>2, <2>3, <2>4 DEF Unsent
  <1>3. S \subseteq Slots /\ \A i \in S : PacketAddress[i] # NULL /\ ~ring[i].own
    BY <1>2
  <1>4. PacketAddress' = [i \in Slots |-> IF i \in S THEN NULL ELSE PacketAddress[i]]
    BY DEF ReleaseTxPacket
  <1>5. refs' = [q \in Packets |-> IF \E i \in S : PacketAddress[i] = q
                                   THEN refs[q] - 1 ELSE refs[q]]
    BY DEF ReleaseTxPacket
  <1>6. BuffersInUse' \in Nat /\ releaseIndex' \in Slots
    <2>1. CASE Released = {}
      BY <1>1, <2>1 DEF ReleaseTxPacket
    <2>2. CASE Released # {}
      <3>1. Released \subseteq 0 .. N
        BY <1>2
      <3>2. Max(Released) \in Released
        BY <1>1, <2>2, <3>1, MaxExists
      <3> DEFINE m == Max(Released)
      <3>3. m \in 0 .. N /\ m < N /\ m \in 0 .. BuffersInUse - 1
        BY <1>2, <3>2 DEF Examined
      <3>4. BuffersInUse' = BuffersInUse - (m + 1) /\ releaseIndex' = Incr(releaseIndex, m + 1)
        BY <2>2 DEF ReleaseTxPacket, After
      <3> HIDE DEF m
      <3>5. m + 1 \in 0 .. N
        BY <1>1, <3>3
      <3>6. QED
        BY <1>1, <3>3, <3>4, <3>5, BehindType
    <2>3. QED
      BY <2>1, <2>2
  <1> HIDE DEF S
  <1>7. QED
    BY <1>3, <1>4, <1>5, <1>6

LEMMA WaitOverStep ==
  ASSUME IInv, NEW t \in Senders, WaitOver(t), ~overlapped'
  PROVE  IInv'
  <1>1. ~overlapped /\ UNCHANGED <<ring, CurTxDesc, hardware, p, TxConfig, born, done>>
    BY DEF WaitOver
  <1>2. TypeOK /\ InOrder
    BY <1>1 DEF IInv
  <1>3. PICK S \in SUBSET Slots :
          /\ \A i \in S : PacketAddress[i] # NULL /\ ~ring[i].own
          /\ PacketAddress' = [i \in Slots |-> IF i \in S THEN NULL ELSE PacketAddress[i]]
          /\ refs' = [q \in Packets |-> IF \E i \in S : PacketAddress[i] = q
                                        THEN refs[q] - 1 ELSE refs[q]]
          /\ BuffersInUse' \in Nat /\ releaseIndex' \in Slots
    BY <1>1, <1>2, ReleaseFrees DEF WaitOver
  <1>4. /\ pc \in [Senders -> {"idle", "transmit", "wait"}]
        /\ refs \in [Packets -> 0 .. 1] /\ PacketAddress \in [Slots -> Packets \cup {NULL}]
    BY <1>1, <1>2 DEF TypeOK
  <1>5. \A s \in Senders : pc'[s] = "idle" <=> pc[s] = "idle"
    BY <1>4 DEF WaitOver
  <1>6. OneSender'
    BY <1>1, <1>2, <1>5 DEF OneSender, InOrder
  <1>7. OwnedInARow' /\ Owned' = Owned /\ Earlier' = Earlier
    BY <1>1, <1>2 DEF InOrder, OwnedInARow, Owned, Earlier, hardware
  <1>8. OwnedInOrder'
    BY <1>1, <1>2, <1>7 DEF InOrder, OwnedInOrder, hardware
  <1>9. NamedByTheLast'
    <2>1. \A l \in Owned : PacketAddress'[l] = PacketAddress[l]
      BY <1>3 DEF Owned
    <2>2. QED
      BY <1>1, <1>2, <1>7, <2>1 DEF InOrder, NamedByTheLast, hardware
  <1>10. ReferencedByOne'
    <2>1. \A i \in Slots : PacketAddress'[i] = IF i \in S THEN NULL ELSE PacketAddress[i]
      BY <1>3
    <2>2. \A i \in Slots : PacketAddress'[i] \in Earlier' \cup {NULL}
      BY <1>2, <1>7, <2>1 DEF InOrder, ReferencedByOne
    <2>3. \A i, k \in Slots : PacketAddress'[i] = PacketAddress'[k] /\ i # k
                                => PacketAddress'[i] = NULL
      BY <1>2, <2>1 DEF InOrder, ReferencedByOne
    <2>4. ASSUME NEW q \in Packets
          PROVE  refs'[q] = IF Named(q)' \/ With(q)' THEN 1 ELSE 0
      <3>1. q # NULL /\ (With(q)' <=> With(q))
        BY <1>1, Names DEF With
      <3>2. CASE \E i \in S : PacketAddress[i] = q
        <4>1. PICK i \in S : PacketAddress[i] = q
          BY <3>2
        <4>2. refs'[q] = refs[q] - 1
          BY <1>3, <3>2
        <4>3. refs[q] = 1
          BY <1>2, <4>1 DEF InOrder, ReferencedByOne, Named
        <4>4. ~With(q)
          <5>1. q \in Earlier
            BY <1>2, <3>1, <4>1 DEF InOrder, ReferencedByOne
          <5>2. QED
            BY <5>1 DEF Earlier, With
        <4>5. ~Named(q)'
          BY <1>2, <2>1, <3>1, <4>1 DEF InOrder, ReferencedByOne, Named
        <4>6. QED
          BY <3>1, <4>2, <4>3, <4>4, <4>5
      <3>3. CASE ~ \E i \in S : PacketAddress[i] = q
        <4>1. refs'[q] = refs[q]
          BY <1>3, <3>3
        <4>2. Named(q)' <=> Named(q)
          BY <2>1, <3>1, <3>3 DEF Named
        <4>3. QED
          BY <1>2, <3>1, <4>1, <4>2 DEF InOrder, ReferencedByOne
      <3>4. QED
        BY <3>2, <3>3
    <2>5. QED
      BY <2>2, <2>3, <2>4 DEF ReferencedByOne
  <1>11. TypeOK'
    <2>1. pc' \in [Senders -> {"idle", "transmit", "wait"}] /\ TxPktSemaphore' \in 0 .. 1
      BY <1>4 DEF WaitOver
    <2>2. PacketAddress' \in [Slots -> Packets \cup {NULL}]
      BY <1>3, <1>4
    <2>3. refs' \in [Packets -> 0 .. 1]
      <3>1. \A q \in Packets : refs'[q] \in 0 .. 1
        BY <1>10 DEF ReferencedByOne
      <3>2. refs' = [q \in Packets |-> refs'[q]]
        BY <1>3
      <3>3. QED
        BY <3>1, <3>2
    <2>4. QED
      BY <1>1, <1>2, <1>3, <2>1, <2>2, <2>3 DEF WaitOver, TypeOK, hardware
  <1>12. QED
    BY <1>6, <1>7, <1>8, <1>9, <1>10, <1>11 DEF IInv, InOrder

-----------------------------------------------------------------------------
(* All steps.                                                              *)

LEMMA OtherSteps ==
  ASSUME IInv, ~overlapped',
         \/ Suspend \/ IRQHandler \/ \E t \in Senders : Busy(t)
         \/ Start \/ Started \/ Reported \/ Stop \/ Halt
  PROVE  IInv'
  <1>1. ~overlapped
    BY DEF Suspend, IRQHandler, Busy, Start, Started, Reported, Stop, Halt
  <1>2. TypeOK /\ InOrder
    BY <1>1 DEF IInv
  <1>3. UNCHANGED Seen
    BY DEF Seen, Suspend, IRQHandler, Busy, Start, Started, Reported, Stop, Halt,
       descriptors, hardware, senders
  <1>4. CASE \E t \in Senders : Busy(t)
    <2>1. PICK t \in Senders : Busy(t)
      BY <1>4
    <2>2. pc' \in [Senders -> {"idle", "transmit", "wait"}]
          /\ \A s \in Senders : pc'[s] = "idle" <=> pc[s] = "idle"
      BY <1>1, <1>2, <2>1 DEF Busy, TypeOK
    <2>3. TypeOK'
      BY <1>1, <1>2, <2>1, <2>2 DEF Busy, TypeOK, descriptors, hardware
    <2>4. QED
      BY <1>2, <1>3, <2>2, <2>3, OthersKeepOrder DEF IInv
  <1>5. CASE ~ \E t \in Senders : Busy(t)
    <2>1. pc' = pc
      BY <1>5 DEF Suspend, IRQHandler, Start, Started, Reported, Stop, Halt, senders
    <2>2. TypeOK'
      <3>1. CASE Suspend
        BY <1>1, <1>2, <3>1 DEF TypeOK, Suspend, descriptors, hardware, senders
      <3>2. CASE IRQHandler
        <4>1. TxPktSemaphore' \in 0 .. 1
          BY <3>2 DEF IRQHandler
        <4>2. pending' \in BOOLEAN
          BY <3>2, Zenon DEF IRQHandler
        <4>3. QED
          BY <1>1, <1>2, <3>2, <4>1, <4>2 DEF TypeOK, IRQHandler, descriptors, senders
      <3>3. CASE Start
        <4>1. starts' \in 0 .. MaxStarts
          BY <1>1, <1>2, <3>3, Names DEF TypeOK, Start
        <4>2. QED
          BY <1>1, <1>2, <3>3, <4>1 DEF TypeOK, Start, descriptors, senders
      <3>4. CASE Started
        BY <1>1, <1>2, <3>4 DEF TypeOK, Started, descriptors, senders
      <3>5. CASE Reported
        BY <1>1, <1>2, <3>5 DEF TypeOK, Reported, descriptors, hardware, senders
      <3>6. CASE Stop
        BY <1>1, <1>2, <3>6 DEF TypeOK, Stop, descriptors, senders
      <3>7. CASE Halt
        BY <1>1, <1>2, <3>7 DEF TypeOK, Halt, descriptors, senders
      <3>8. QED
        BY <1>5, <3>1, <3>2, <3>3, <3>4, <3>5, <3>6, <3>7
    <2>3. QED
      BY <1>2, <1>3, <2>1, <2>2, OthersKeepOrder DEF IInv
  <1>6. QED
    BY <1>4, <1>5

LEMMA NextIInv == IInv /\ [Next]_vars => IInv'
  <1> SUFFICES ASSUME IInv, [Next]_vars PROVE IInv'
    OBVIOUS
  <1>1. CASE overlapped'
    BY <1>1 DEF IInv, TypeOK
  <1>2. CASE ~overlapped'
    <2>1. CASE TransmitDescriptor
      BY <1>2, <2>1, DmaStep
    <2>2. CASE \E t \in Senders, k \in 1 .. MaxPbufs : Output(t, k)
      BY <1>2, <2>2, OutputStep
    <2>3. CASE \E t \in Senders : Transmit(t)
      BY <1>2, <2>3, TransmitStep
    <2>4. CASE \E t \in Senders : Refuse(t)
      BY <1>2, <2>4, RefuseStep
    <2>5. CASE \E t \in Senders : WaitOver(t)
      BY <1>2, <2>5, WaitOverStep
    <2>6. CASE UNCHANGED vars
      <3>1. ~overlapped /\ UNCHANGED Seen /\ pc' = pc
        BY <1>2, <2>6 DEF vars, Seen, descriptors, hardware, senders
      <3>2. TypeOK /\ InOrder
        BY <3>1 DEF IInv
      <3>3. TypeOK'
        BY <2>6, <3>1, <3>2 DEF vars, TypeOK, descriptors, hardware, senders
      <3>4. QED
        BY <3>1, <3>2, <3>3, OthersKeepOrder DEF IInv
    <2>7. QED
      BY <1>2, <2>1, <2>2, <2>3, <2>4, <2>5, <2>6, OtherSteps DEF Next, SenderStep
  <1>3. QED
    BY <1>1, <1>2

-----------------------------------------------------------------------------
(* The theorems.                                                           *)

\* As long as the senders' calls do not overlap: the DMA owns descriptors in a
\* row, each packet among them is named by its last one, and what is named or
\* with its sender is referenced (ETH_Prepare_Tx_Descriptors,
\* HAL_ETH_ReleaseTxPacket, low_level_output).
THEOREM Invariance == Spec => []IInv
  <1> HIDE DEF IInv
  <1>1. QED
    BY InitIInv, NextIInv, PTL DEF Spec

\* Until two senders overlap, every variable stays in its type: in particular
\* releaseIndex and CurTxDesc inside the ring, and BuffersInUse, which is
\* subtracted from, not below 0.
THEOREM TypeCorrect == Spec => []TypeOK
  <1>1. IInv => TypeOK
    BY DEF IInv
  <1>2. QED
    BY <1>1, Invariance, PTL

\* A packet is kept as long as the DMA may read it, and its reference is given
\* back once (KeptUntilSent).
THEOREM PacketsAreKept == Spec => []KeptUntilSent
  <1>1. IInv => KeptUntilSent
    <2> SUFFICES ASSUME IInv, ~overlapped
                 PROVE  /\ \A i \in Slots : ring[i].own => refs[ring[i].packet] = 1
                        /\ \A q \in Packets :
                             refs[q] = Cardinality({i \in Slots : PacketAddress[i] = q})
                                         + Cardinality({t \in Senders : p[t] = q})
      BY DEF KeptUntilSent
    <2>1. TypeOK /\ InOrder
      BY DEF IInv
    <2>2. Earlier \subseteq Packets
      BY <2>1, Names DEF TypeOK, Earlier, Packets
    <2>3. ASSUME NEW i \in Slots, ring[i].own PROVE refs[ring[i].packet] = 1
      <3>1. i \in Owned
        BY <2>3 DEF Owned
      <3>2. PICK l \in Owned : PacketAddress[l] = ring[i].packet
        BY <2>1, <3>1 DEF InOrder, NamedByTheLast
      <3>3. ring[i].packet \in Packets /\ Named(ring[i].packet)
        BY <2>1, <2>2, <3>1, <3>2 DEF InOrder, OwnedInOrder, Named, Owned
      <3>4. QED
        BY <2>1, <3>3 DEF InOrder, ReferencedByOne
    <2>4. ASSUME NEW q \in Packets
          PROVE  refs[q] = Cardinality({i \in Slots : PacketAddress[i] = q})
                             + Cardinality({t \in Senders : p[t] = q})
      <3> DEFINE I == {i \in Slots : PacketAddress[i] = q}
                 T == {t \in Senders : p[t] = q}
      <3>1. q # NULL
        BY Names
      <3>2. Cardinality(I) = IF Named(q) THEN 1 ELSE 0
        <4>1. CASE Named(q)
          <5>1. PICK i \in Slots : PacketAddress[i] = q
            BY <4>1 DEF Named
          <5>2. I = {i}
            BY <2>1, <3>1, <5>1 DEF InOrder, ReferencedByOne
          <5>3. QED
            BY <4>1, <5>2, FS_Singleton
        <4>2. CASE ~Named(q)
          <5>1. I = {}
            BY <4>2 DEF Named
          <5>2. QED
            BY <4>2, <5>1, FS_EmptySet
        <4>3. QED
          BY <4>1, <4>2
      <3>3. Cardinality(T) = IF With(q) THEN 1 ELSE 0
        <4>1. CASE With(q)
          <5>1. PICK t \in Senders : p[t] = q
            BY <4>1 DEF With
          <5>2. T = {t}
            BY <2>1, <3>1, <5>1 DEF InOrder, OneSender
          <5>3. QED
            BY <4>1, <5>2, FS_Singleton
        <4>2. CASE ~With(q)
          <5>1. T = {}
            BY <4>2 DEF With
          <5>2. QED
            BY <4>2, <5>1, FS_EmptySet
        <4>3. QED
          BY <4>1, <4>2
      <3>4. ~(Named(q) /\ With(q))
        BY <2>1, <3>1 DEF InOrder, ReferencedByOne, Earlier, Named, With
      <3> HIDE DEF I, T
      <3>5. refs[q] = Cardinality(I) + Cardinality(T)
        BY <2>1, <3>2, <3>3, <3>4 DEF InOrder, ReferencedByOne
      <3>6. QED
        BY <3>5 DEF I, T
    <2>5. QED
      BY <2>3, <2>4
  <1>2. QED
    BY <1>1, Invariance, PTL

\* Packets leave in the order in which low_level_output got them, each once
\* (SendsInOrder).
THEOREM PacketsLeaveInOrder == Spec => SendsInOrder
  <1>1. IInv /\ [Next]_vars =>
          [~overlapped => \A q \in done' \ done : \A r \in done : r < q]_vars
    <2> SUFFICES ASSUME IInv, Next, ~overlapped, NEW q \in done' \ done, NEW r \in done
                 PROVE  r < q
      OBVIOUS
    <2>1. TransmitDescriptor
      BY DEF Next, SenderStep, Suspend, IRQHandler, Output, Transmit, Busy, Refuse,
         WaitOver, Start, Started, Reported, Stop, Halt
    <2>2. ring[dma].own /\ q = ring[dma].packet
      BY <2>1 DEF TransmitDescriptor
    <2>3. dma \in Owned
      BY <2>2 DEF IInv, TypeOK, Owned
    <2>4. QED
      BY <2>2, <2>3 DEF IInv, InOrder, OwnedInOrder
  <1> HIDE DEF IInv
  <1>2. QED
    BY <1>1, Invariance, PTL DEF Spec, SendsInOrder
=============================================================================

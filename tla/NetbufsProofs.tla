---------------------------- MODULE NetbufsProofs ----------------------------
(***************************************************************************)
(* Proofs about Netbufs, for any pool of netbufs and any mailbox: as long  *)
(* as no two netbufs are needed at a time, deleting each of them twice     *)
(* neither frees a packet buffer twice nor confuses the listener.          *)
(***************************************************************************)
EXTENDS Netbufs, TLAPS, SequenceTheorems, FiniteSetTheorems

(* The inductive invariant.                                                *)

\* Whoever is between taking a netbuf and linking it has one, of the pool.
PlacesHoldNetbufs ==
    /\ born \in 0 .. MaxPbufs
    /\ overlapped \in BOOLEAN
    /\ ipc # "wait" => in_netbuf \in Pool /\ in_pbuf \in 1 .. born
    /\ tpc # "wait" => out_netbuf \in Pool
    /\ lpc \in {"relink", "copy", "link"} => listener_netbuf \in Pool

ListenerHasNone == lpc = "recv" \/ listener_netbuf = NULL

\* One netbuf at a time is with the tcpip thread, the mailbox, the transmitter
\* or the listener.
OneIsUsed ==
    /\ Len(inbox) <= 1
    /\ ipc # "wait" => inbox = <<>> /\ tpc = "wait" /\ ListenerHasNone
    /\ tpc # "wait" => inbox = <<>> /\ ListenerHasNone
    /\ inbox # <<>> => ListenerHasNone

\* A netbuf points to a packet buffer from when it is filled to when it is
\* linked for the first time; what it points to is not freed yet ...
Filled(n) ==
    \/ ipc = "link" /\ n = in_netbuf
    \/ inbox # <<>> /\ n = Head(inbox)
    \/ tpc \in {"send", "link"} /\ n = out_netbuf
    \/ lpc \in {"copy", "link"} /\ n = listener_netbuf

\* ... in these places.
Held ==
    (IF ipc = "wrap"   THEN {in_pbuf}               ELSE {})
      \cup (IF inbox # <<>>  THEN {word[Head(inbox)]}     ELSE {})
      \cup (IF tpc = "send"  THEN {word[out_netbuf]}      ELSE {})
      \cup (IF lpc = "copy"  THEN {word[listener_netbuf]} ELSE {})

\* All other netbufs, the one to be linked again too, point to netbufs.
FreeOnesAreLinked ==
    /\ tab \in Pool \cup {NULL}
    /\ \A n \in Pool : Filled(n) \/ word[n] \in Pool \cup {NULL}

FilledHoldPackets ==
    /\ Held \subseteq 1 .. born
    /\ inbox # <<>> => ptr[Head(inbox)] = word[Head(inbox)]

FreedUnlessHeld ==
    \A q \in Pbufs : freed[q] = IF q \in (1 .. born) \ Held THEN 1 ELSE 0

\* The listener lags behind by what is in the mailbox.
HandledUpToInbox ==
    /\ handled \in Seq(Pbufs)
    /\ posted = IF inbox = <<>> THEN handled
                                ELSE Append(handled, word[Head(inbox)])

InOrder ==
    /\ OneIsUsed
    /\ FreeOnesAreLinked
    /\ FilledHoldPackets
    /\ FreedUnlessHeld
    /\ HandledUpToInbox

IInv ==
    /\ TypeOK
    /\ PlacesHoldNetbufs
    /\ ~overlapped => InOrder

-----------------------------------------------------------------------------
(* Lemmas.                                                                 *)

LEMMA Names ==
  /\ NULL \notin Pool /\ NULL \notin Pbufs
  /\ \A n \in Pool : n \notin Pbufs
  /\ MaxPbufs \in Nat /\ InboxLen \in Nat \ {0}
  BY NetbufAssumption DEF Pbufs

\* A netbuf can be taken without overlapping only if nobody has one.
LEMMA NobodyHasOne ==
  ASSUME TypeOK, PlacesHoldNetbufs, InUse = {}
  PROVE  /\ ipc = "wait" /\ tpc = "wait" /\ inbox = <<>> /\ ListenerHasNone
         /\ Held = {} /\ \A n : ~Filled(n)
  <1>1. inbox = <<>>
    <2>1. inbox \in Seq(Pool) /\ ToSet(inbox) = {}
      BY DEF TypeOK, InUse
    <2>2. DOMAIN inbox = {} /\ DOMAIN inbox = 1 .. Len(inbox)
      <3>1. \A k \in DOMAIN inbox : inbox[k] \in ToSet(inbox)
        BY DEF ToSet
      <3>2. QED
        BY <2>1, <3>1, LenProperties
    <2>3. inbox # <<>> => Len(inbox) \in Nat \ {0}
      BY <2>1, EmptySeq
    <2>4. QED
      BY <2>2, <2>3
  <1>2. ipc = "wait" /\ tpc = "wait" /\ ListenerHasNone
    BY DEF InUse, ListenerHasNone
  <1>3. lpc \notin {"copy", "link"}
    BY <1>2, Names DEF ListenerHasNone, PlacesHoldNetbufs
  <1>4. QED
    BY <1>1, <1>2, <1>3 DEF Held, Filled

\* What the listener does with a netbuf, it does with the only one.
LEMMA OnlyTheListenerHasOne ==
  ASSUME PlacesHoldNetbufs, OneIsUsed, ~ListenerHasNone
  PROVE  ipc = "wait" /\ tpc = "wait" /\ inbox = <<>>
  BY DEF OneIsUsed

\* Taking a netbuf leaves its link the head of the list.
LEMMA MallocKeeps ==
  ASSUME IInv, Malloc
  PROVE  /\ tab \in Pool /\ tab' \in Refs /\ overlapped' \in BOOLEAN
         /\ ~overlapped' => /\ InOrder /\ InUse = {}
                            /\ tab' \in Pool \cup {NULL}
  <1>1. /\ tab \in Pool /\ tab' = word[tab]
        /\ overlapped' = (overlapped \/ InUse # {})
    BY DEF Malloc
  <1>2. tab' \in Refs
    BY <1>1 DEF IInv, TypeOK
  <1>3. ASSUME ~overlapped'
        PROVE  /\ InOrder /\ InUse = {}
               /\ tab' \in Pool \cup {NULL}
    <2>1. ~overlapped /\ InOrder /\ InUse = {}
      BY <1>1, <1>3 DEF IInv
    <2>2. ~Filled(tab)
      BY <2>1, NobodyHasOne DEF IInv
    <2>3. QED
      BY <1>1, <2>1, <2>2 DEF InOrder, FreeOnesAreLinked
  <1>4. QED
    BY <1>1, <1>2, <1>3

-----------------------------------------------------------------------------
(* The initial state.                                                      *)

\* The list links every element of the pool.
LEMMA PoolIsLinked ==
  ASSUME NEW s \in SetToSeqs(Pool)
  PROVE  s[1] \in Pool /\ Linked(s) \in [Pool -> Pool \cup {NULL}]
  <1> DEFINE c == Cardinality(Pool)
             D == 1 .. c
  <1>1. IsFiniteSet(Pool) /\ Pool # {}
    BY NetbufAssumption
  <1>2. c \in Nat /\ c # 0
    BY <1>1, FS_CardinalityType, FS_EmptySet
  <1>3. /\ s \in [D -> Pool]
        /\ \A i, j \in D : i # j => s[i] # s[j]
    BY DEF SetToSeqs
  <1>4. IsFiniteSet(D) /\ Cardinality(D) = c
    <2> HIDE DEF c
    <2>1. QED
      BY <1>2, FS_Interval
  <1>5. s \in Injection(D, Pool)
    BY <1>3 DEF Injection, IsInjective
  <1>6. \A n \in Pool : \E k \in D : s[k] = n
    <2>1. s \in Surjection(D, Pool)
      BY <1>1, <1>4, <1>5, FS_Injection
    <2>2. QED
      BY <2>1 DEF Surjection
  <1>7. DOMAIN s = D /\ Len(s) = c
    BY <1>2, <1>3
  <1> HIDE DEF c
  <1>8. ASSUME NEW n \in Pool, NEW k \in D
        PROVE  (IF k = Len(s) THEN NULL ELSE s[k + 1]) \in Pool \cup {NULL}
    <2>1. k # c => k + 1 \in D
      BY <1>2
    <2>2. QED
      BY <1>3, <1>7, <2>1
  <1>9. ASSUME NEW n \in Pool
        PROVE  Linked(s)[n] \in Pool \cup {NULL}
    <2> DEFINE k == CHOOSE k \in DOMAIN s : s[k] = n
    <2>1. k \in D
      BY <1>6, <1>7
    <2>2. Linked(s)[n] = IF k = Len(s) THEN NULL ELSE s[k + 1]
      BY DEF Linked
    <2> HIDE DEF k
    <2>3. QED
      BY <1>8, <2>1, <2>2
  <1>10. 1 \in D
    BY <1>2
  <1>11. QED
    BY <1>3, <1>9, <1>10 DEF Linked

LEMMA InitIInv == Init => IInv
  <1> SUFFICES ASSUME Init PROVE IInv
    OBVIOUS
  <1>1. PICK s \in SetToSeqs(Pool) : tab = s[1] /\ word = Linked(s)
    BY DEF Init
  <1>2. tab \in Pool /\ word \in [Pool -> Pool \cup {NULL}]
    BY <1>1, PoolIsLinked
  <1>3. /\ inbox = <<>> /\ inbox \in Seq(Pool) /\ Len(inbox) = 0
        /\ handled \in Seq(Pbufs)
    BY EmptySeq DEF Init
  <1>4. TypeOK
    BY <1>2, <1>3, Names DEF Init, TypeOK, Refs
  <1>5. PlacesHoldNetbufs
    <2>1. born \in 0 .. MaxPbufs
      BY Names DEF Init
    <2>2. overlapped \in BOOLEAN
      BY DEF Init
    <2>3. QED
      BY <2>1, <2>2, Zenon DEF Init, PlacesHoldNetbufs
  <1>6. Held = {} /\ (\A n : ~Filled(n)) /\ OneIsUsed
    BY <1>3 DEF Init, Held, Filled, OneIsUsed
  <1>7. FreeOnesAreLinked
    BY <1>2 DEF FreeOnesAreLinked
  <1>8. FreedUnlessHeld
    <2>1. born = 0 /\ \A q \in Pbufs : freed[q] = 0
      BY DEF Init
    <2>2. 1 .. born = {}
      BY <2>1
    <2>3. QED
      BY <2>1, <2>2 DEF FreedUnlessHeld
  <1>9. FilledHoldPackets /\ HandledUpToInbox
    BY <1>3, <1>6 DEF Init, FilledHoldPackets, HandledUpToInbox
  <1>10. QED
    BY <1>4, <1>5, <1>6, <1>7, <1>8, <1>9 DEF IInv, InOrder

-----------------------------------------------------------------------------
(* The tcpip thread.                                                       *)

LEMMA ArriveIInv == ASSUME IInv, Arrive PROVE IInv'
  <1> USE DEF IInv
  <1>1. /\ ipc = "wait" /\ born < MaxPbufs /\ born' = born + 1
        /\ UNCHANGED <<word, ptr, inbox, lpc, listener_netbuf, listener_pbuf, tpc,
                       out_netbuf, posted, handled>>
    BY DEF Arrive, listener, transmitter
  <1>2. /\ born \in Nat /\ born' \in 0 .. MaxPbufs /\ born' \in Pbufs
        /\ 1 .. born' = (1 .. born) \cup {born'} /\ born' \notin 1 .. born
    BY <1>1, Names DEF PlacesHoldNetbufs, Pbufs
  <1>3. CASE tab = NULL
    <2>1. /\ freed' = [freed EXCEPT ![born'] = @ + 1]
          /\ UNCHANGED <<tab, ipc, in_netbuf, in_pbuf, overlapped>>
      BY <1>1, <1>2, <1>3 DEF Arrive, PbufFree, input
    <2>2. TypeOK'
      <3>1. freed' \in [Pbufs -> Nat]
        BY <1>2, <2>1 DEF TypeOK
      <3>2. QED
        BY <1>1, <2>1, <3>1 DEF TypeOK
    <2>3. PlacesHoldNetbufs'
      BY <1>1, <1>2, <2>1 DEF PlacesHoldNetbufs
    <2>4. ASSUME ~overlapped' PROVE InOrder'
      <3>1. InOrder
        BY <2>1, <2>4
      <3>2. Held' = Held /\ Held \subseteq 1 .. born
        BY <1>1, <2>1, <3>1 DEF Held, InOrder, FilledHoldPackets
      <3>3. OneIsUsed' /\ FreeOnesAreLinked' /\ HandledUpToInbox'
        BY <1>1, <2>1, <3>1 DEF InOrder, OneIsUsed, ListenerHasNone,
           FreeOnesAreLinked, Filled, HandledUpToInbox
      <3>4. FilledHoldPackets'
        BY <1>1, <1>2, <3>1, <3>2 DEF InOrder, FilledHoldPackets
      <3>5. FreedUnlessHeld'
        <4>1. freed[born'] = 0
          BY <1>2, <3>1 DEF InOrder, FreedUnlessHeld
        <4>2. freed'[born'] = 1 /\ \A q \in Pbufs \ {born'} : freed'[q] = freed[q]
          BY <1>2, <2>1, <4>1 DEF TypeOK
        <4>3. QED
          BY <1>2, <3>1, <3>2, <4>2 DEF InOrder, FreedUnlessHeld
      <3>6. QED
        BY <3>3, <3>4, <3>5 DEF InOrder
    <2>5. QED
      BY <2>2, <2>3, <2>4
  <1>4. CASE tab # NULL
    <2>1. /\ Malloc /\ in_netbuf' = tab /\ in_pbuf' = born' /\ ipc' = "wrap"
          /\ freed' = freed
      BY <1>1, <1>4 DEF Arrive
    <2>2. /\ tab \in Pool /\ tab' \in Refs /\ overlapped' \in BOOLEAN
          /\ ~overlapped' => /\ InOrder /\ InUse = {}
                             /\ tab' \in Pool \cup {NULL}
      BY <2>1, MallocKeeps
    <2>3. TypeOK'
      BY <1>1, <1>2, <2>1, <2>2 DEF TypeOK, Refs
    <2>4. PlacesHoldNetbufs'
      <3>1. in_pbuf' \in 1 .. born'
        BY <1>2, <2>1
      <3>2. QED
        BY <1>1, <1>2, <2>1, <2>2, <3>1 DEF PlacesHoldNetbufs
    <2>5. ASSUME ~overlapped' PROVE InOrder'
      <3>1. InOrder /\ InUse = {}
        BY <2>2, <2>5
      <3>2. /\ tpc = "wait" /\ inbox = <<>> /\ ListenerHasNone
            /\ Held = {} /\ \A n : ~Filled(n)
        BY <3>1, NobodyHasOne
      <3>3. Held' = {born'} /\ \A n : ~Filled(n)'
        BY <1>1, <2>1, <3>2 DEF Held, Filled
      <3>4. OneIsUsed' /\ FilledHoldPackets'
        BY <1>1, <1>2, <3>1, <3>2, <3>3 DEF InOrder, OneIsUsed, ListenerHasNone,
           FilledHoldPackets
      <3>5. FreeOnesAreLinked'
        BY <1>1, <2>2, <2>5, <3>1, <3>2 DEF InOrder, FreeOnesAreLinked
      <3>6. FreedUnlessHeld'
        BY <1>2, <2>1, <3>1, <3>2, <3>3 DEF InOrder, FreedUnlessHeld
      <3>7. HandledUpToInbox'
        BY <1>1, <3>1, <3>2 DEF InOrder, HandledUpToInbox
      <3>8. QED
        BY <3>4, <3>5, <3>6, <3>7 DEF InOrder
    <2>6. QED
      BY <2>3, <2>4, <2>5
  <1>5. QED
    BY <1>3, <1>4

LEMMA PostIInv == ASSUME IInv, Post PROVE IInv'
  <1> USE DEF IInv
  <1>1. /\ ipc = "wrap" /\ word' = [word EXCEPT ![in_netbuf] = in_pbuf]
        /\ ptr' = [ptr EXCEPT ![in_netbuf] = in_pbuf]
        /\ UNCHANGED <<tab, in_netbuf, in_pbuf, lpc, listener_netbuf, listener_pbuf,
                       tpc, out_netbuf, born, handled, overlapped>>
    BY DEF Post, listener, transmitter
  <1>2. /\ in_netbuf \in Pool /\ in_pbuf \in 1 .. born /\ in_pbuf \in Pbufs
        /\ \A q \in 1 .. born : q \in Pbufs
    BY <1>1, Names DEF PlacesHoldNetbufs, Pbufs
  <1>3. /\ word' \in [Pool -> Refs] /\ ptr' \in [Pool -> Pbufs \cup {NULL}]
        /\ word'[in_netbuf] = in_pbuf /\ ptr'[in_netbuf] = in_pbuf
        /\ \A n \in Pool \ {in_netbuf} : word'[n] = word[n]
    BY <1>1, <1>2 DEF TypeOK, Refs
  <1>4. CASE InboxHasRoom
    <2>1. /\ inbox' = Append(inbox, in_netbuf) /\ posted' = Append(posted, in_pbuf)
          /\ ipc' = "wait" /\ freed' = freed
      BY <1>4 DEF Post
    <2>2. TypeOK'
      <3>1. inbox' \in Seq(Pool) /\ Len(inbox') <= InboxLen
        <4> DEFINE c == Len(inbox)
        <4>1. inbox' \in Seq(Pool) /\ Len(inbox') = c + 1 /\ c \in Nat /\ c < InboxLen
          BY <1>2, <1>4, <2>1, AppendProperties, LenProperties DEF TypeOK, InboxHasRoom
        <4> HIDE DEF c
        <4>2. QED
          BY <4>1, Names
      <3>2. QED
        BY <1>1, <1>3, <2>1, <3>1 DEF TypeOK
    <2>3. PlacesHoldNetbufs'
      BY <1>1, <2>1 DEF PlacesHoldNetbufs
    <2>4. ASSUME ~overlapped' PROVE InOrder'
      <3>1. InOrder /\ inbox = <<>> /\ tpc = "wait" /\ ListenerHasNone
        BY <1>1, <2>4 DEF InOrder, OneIsUsed
      <3>2. lpc \notin {"copy", "link"}
        BY <3>1, Names DEF ListenerHasNone, PlacesHoldNetbufs
      <3>3. inbox' # <<>> /\ Head(inbox') = in_netbuf /\ Len(inbox') = 1
        BY <2>1, <3>1
      <3>4. Held = {in_pbuf} /\ Held' = {in_pbuf}
        BY <1>1, <1>3, <2>1, <3>1, <3>2, <3>3 DEF Held
      <3>5. (\A n : ~Filled(n)) /\ \A n : Filled(n)' <=> n = in_netbuf
        BY <1>1, <2>1, <3>1, <3>2, <3>3 DEF Filled
      <3>6. OneIsUsed'
        BY <1>1, <2>1, <3>1, <3>3 DEF OneIsUsed, ListenerHasNone
      <3>7. FreeOnesAreLinked'
        BY <1>1, <1>3, <3>1, <3>5 DEF InOrder, FreeOnesAreLinked
      <3>8. FilledHoldPackets'
        BY <1>1, <1>2, <1>3, <3>3, <3>4 DEF FilledHoldPackets
      <3>9. FreedUnlessHeld'
        BY <1>1, <2>1, <3>1, <3>4 DEF InOrder, FreedUnlessHeld
      <3>10. HandledUpToInbox'
        BY <1>1, <1>3, <2>1, <3>1, <3>3 DEF InOrder, HandledUpToInbox
      <3>11. QED
        BY <3>6, <3>7, <3>8, <3>9, <3>10 DEF InOrder
    <2>5. QED
      BY <2>2, <2>3, <2>4
  <1>5. CASE ~InboxHasRoom
    <2>1. /\ freed' = [freed EXCEPT ![in_pbuf] = @ + 1] /\ ipc' = "link"
          /\ UNCHANGED <<inbox, posted>>
      BY <1>2, <1>5 DEF Post, PbufFree
    <2>2. TypeOK'
      <3>1. freed' \in [Pbufs -> Nat]
        BY <1>2, <2>1 DEF TypeOK
      <3>2. QED
        BY <1>1, <1>3, <2>1, <3>1 DEF TypeOK
    <2>3. PlacesHoldNetbufs'
      BY <1>1, <1>2, <2>1 DEF PlacesHoldNetbufs
    <2>4. overlapped'
      <3>1. overlapped' \/ inbox = <<>>
        BY <1>1 DEF InOrder, OneIsUsed
      <3>2. inbox # <<>>
        BY <1>5, Names DEF InboxHasRoom
      <3>3. QED
        BY <3>1, <3>2
    <2>5. QED
      BY <2>2, <2>3, <2>4
  <1>6. QED
    BY <1>4, <1>5

\* Linking a netbuf, for the first or the second time.
LEMMA LinkKeeps ==
  ASSUME IInv, NEW n \in Pool, Link(n)
  PROVE  /\ tab' = n /\ word'[n] = tab /\ \A k \in Pool \ {n} : word'[k] = word[k]
         /\ tab' \in Refs /\ word' \in [Pool -> Refs]
         /\ ptr' \in [Pool -> Pbufs \cup {NULL}]
  BY DEF IInv, TypeOK, Link, Refs

LEMMA DropIInv == ASSUME IInv, Drop PROVE IInv'
  <1> USE DEF IInv
  <1>1. /\ ipc = "link" /\ ipc' = "wait" /\ Link(in_netbuf)
        /\ UNCHANGED <<in_netbuf, in_pbuf, inbox, lpc, listener_netbuf, listener_pbuf,
                       tpc, out_netbuf, born, freed, posted, handled, overlapped>>
    BY DEF Drop, listener, transmitter, history
  <1>2. in_netbuf \in Pool
    BY <1>1 DEF PlacesHoldNetbufs
  <1>3. TypeOK'
    BY <1>1, <1>2, LinkKeeps DEF TypeOK
  <1>4. PlacesHoldNetbufs'
    BY <1>1 DEF PlacesHoldNetbufs
  <1>5. ASSUME ~overlapped' PROVE InOrder'
    <2>1. InOrder /\ inbox = <<>> /\ tpc = "wait" /\ ListenerHasNone
      BY <1>1, <1>5 DEF InOrder, OneIsUsed
    <2>2. lpc \notin {"copy", "link"}
      BY <2>1, Names DEF ListenerHasNone, PlacesHoldNetbufs
    <2>3. Held = {} /\ Held' = {} /\ \A n : Filled(n) => n = in_netbuf
      BY <1>1, <2>1, <2>2 DEF Held, Filled
    <2>4. OneIsUsed' /\ FilledHoldPackets' /\ HandledUpToInbox'
      BY <1>1, <2>1, <2>3 DEF InOrder, OneIsUsed, ListenerHasNone,
         FilledHoldPackets, HandledUpToInbox
    <2>5. FreeOnesAreLinked'
      BY <1>1, <1>2, <2>1, <2>3, LinkKeeps DEF InOrder, FreeOnesAreLinked
    <2>6. FreedUnlessHeld'
      BY <1>1, <2>1, <2>3 DEF InOrder, FreedUnlessHeld
    <2>7. QED
      BY <2>1, <2>4, <2>5, <2>6 DEF InOrder
  <1>6. QED
    BY <1>3, <1>4, <1>5

-----------------------------------------------------------------------------
(* The listener.                                                           *)

\* The netbuf the listener has points to no packet any more.
LEMMA DeleteAgainIInv == ASSUME IInv, DeleteAgain PROVE IInv'
  <1> USE DEF IInv
  <1>1. /\ lpc = "top"
        /\ UNCHANGED <<tab, word, ptr, ipc, in_netbuf, in_pbuf, inbox, listener_netbuf,
                       listener_pbuf, tpc, out_netbuf, born, posted, handled,
                       overlapped>>
    BY DEF DeleteAgain, pool, input, transmitter, history
  <1>2. CASE listener_netbuf = NULL
    <2>1. lpc' = "recv" /\ freed' = freed
      BY <1>2 DEF DeleteAgain
    <2>2. TypeOK' /\ PlacesHoldNetbufs'
      BY <1>1, <2>1 DEF TypeOK, PlacesHoldNetbufs
    <2>3. ASSUME ~overlapped' PROVE InOrder'
      <3>1. Held' = Held /\ \A n : Filled(n)' <=> Filled(n)
        BY <1>1, <2>1 DEF Held, Filled
      <3>2. QED
        BY <1>1, <1>2, <2>1, <2>3, <3>1 DEF InOrder, OneIsUsed, ListenerHasNone,
           FreeOnesAreLinked, FilledHoldPackets, FreedUnlessHeld, HandledUpToInbox
    <2>4. QED
      BY <2>2, <2>3
  <1>3. CASE listener_netbuf # NULL
    <2>1. lpc' = "relink" /\ freed' = PbufFree(word[listener_netbuf])
      BY <1>3 DEF DeleteAgain
    <2>2. listener_netbuf \in Pool
      BY <1>3 DEF TypeOK
    <2>3. TypeOK'
      <3>1. freed' \in [Pbufs -> Nat]
        BY <2>1 DEF PbufFree, TypeOK
      <3>2. QED
        BY <1>1, <2>1, <3>1 DEF TypeOK
    <2>4. PlacesHoldNetbufs'
      BY <1>1, <2>1, <2>2 DEF PlacesHoldNetbufs
    <2>5. ASSUME ~overlapped' PROVE InOrder'
      <3>1. InOrder /\ ~ListenerHasNone
        BY <1>1, <1>3, <2>5 DEF ListenerHasNone
      <3>2. ipc = "wait" /\ tpc = "wait" /\ inbox = <<>>
        BY <3>1, OnlyTheListenerHasOne DEF InOrder
      <3>3. Held = {} /\ Held' = {} /\ \A n : ~Filled(n) /\ ~Filled(n)'
        BY <1>1, <2>1, <3>2 DEF Held, Filled
      <3>4. freed' = freed
        <4>1. word[listener_netbuf] \in Pool \cup {NULL}
          BY <2>2, <3>1, <3>3 DEF InOrder, FreeOnesAreLinked
        <4>2. QED
          BY <2>1, <4>1, Names DEF PbufFree
      <3>5. QED
        BY <1>1, <2>1, <3>1, <3>2, <3>3, <3>4 DEF InOrder, OneIsUsed,
           FreeOnesAreLinked, FilledHoldPackets, FreedUnlessHeld, HandledUpToInbox
    <2>6. QED
      BY <2>3, <2>4, <2>5
  <1>4. QED
    BY <1>2, <1>3

\* The listener links its netbuf, for the first or the second time.
LEMMA LinkOfListenerIInv ==
  ASSUME IInv, lpc \in {"relink", "link"}, Link(listener_netbuf),
         lpc' \in {"recv", "answer"},
         UNCHANGED <<ipc, in_netbuf, in_pbuf, inbox, listener_netbuf, listener_pbuf,
                     tpc, out_netbuf, born, freed, posted, handled, overlapped>>
  PROVE  IInv'
  <1> USE DEF IInv
  <1>1. listener_netbuf \in Pool
    BY DEF PlacesHoldNetbufs
  <1>2. TypeOK'
    BY <1>1, LinkKeeps DEF TypeOK
  <1>3. PlacesHoldNetbufs'
    BY DEF PlacesHoldNetbufs
  <1>4. ASSUME ~overlapped' PROVE InOrder'
    <2>1. InOrder /\ ~ListenerHasNone
      BY <1>1, <1>4, Names DEF ListenerHasNone
    <2>2. ipc = "wait" /\ tpc = "wait" /\ inbox = <<>>
      BY <2>1, OnlyTheListenerHasOne DEF InOrder
    <2>3. /\ Held = {} /\ Held' = {}
          /\ \A n : ~Filled(n)' /\ (Filled(n) => n = listener_netbuf)
      BY <2>2 DEF Held, Filled
    <2>4. FreeOnesAreLinked'
      BY <1>1, <2>1, <2>3, LinkKeeps DEF InOrder, FreeOnesAreLinked
    <2>5. QED
      BY <2>1, <2>2, <2>3, <2>4 DEF InOrder, OneIsUsed, FilledHoldPackets,
         FreedUnlessHeld, HandledUpToInbox
  <1>5. QED
    BY <1>2, <1>3, <1>4

\* What was posted last is looked at.
LEMMA ReceiveIInv == ASSUME IInv, Receive PROVE IInv'
  <1> USE DEF IInv
  <1>1. /\ lpc = "recv" /\ inbox # <<>> /\ inbox' = Tail(inbox)
        /\ listener_netbuf' = Head(inbox) /\ listener_pbuf' = Data(Head(inbox))
        /\ handled' = Append(handled, listener_pbuf') /\ lpc' = "copy"
        /\ UNCHANGED <<tab, word, ptr, ipc, in_netbuf, in_pbuf, tpc, out_netbuf, born,
                       freed, posted, overlapped>>
    BY DEF Receive, pool, input, transmitter
  <1>2. /\ Head(inbox) \in Pool /\ inbox' \in Seq(Pool)
        /\ Len(inbox') <= InboxLen
        /\ Len(inbox) <= 1 => inbox' = <<>>
    <2> DEFINE c == Len(inbox)
    <2>1. inbox \in Seq(Pool) /\ c \in Nat \ {0} /\ c <= InboxLen
      BY <1>1, EmptySeq DEF TypeOK
    <2>2. /\ Head(inbox) \in Pool /\ inbox' \in Seq(Pool) /\ Len(inbox') = c - 1
          /\ inbox' # <<>> => Len(inbox') \in Nat \ {0}
      BY <1>1, <2>1, HeadTailProperties, EmptySeq
    <2> HIDE DEF c
    <2>3. c - 1 <= InboxLen /\ (c <= 1 => c - 1 \notin Nat \ {0})
      BY <2>1, Names
    <2>4. QED
      BY <2>2, <2>3 DEF c
  <1>3. listener_pbuf' \in Pbufs \cup {NULL}
    BY <1>1, <1>2 DEF Data, TypeOK
  <1>4. TypeOK'
    BY <1>1, <1>2, <1>3 DEF TypeOK
  <1>5. PlacesHoldNetbufs'
    BY <1>1, <1>2 DEF PlacesHoldNetbufs
  <1>6. ASSUME ~overlapped' PROVE InOrder'
    <2>1. InOrder /\ ipc = "wait" /\ tpc = "wait" /\ inbox' = <<>>
      BY <1>1, <1>2, <1>6 DEF InOrder, OneIsUsed
    <2> DEFINE packet == word[Head(inbox)]
    <2>2. /\ Held = {packet} /\ Held' = {packet}
          /\ \A n : Filled(n) <=> n = Head(inbox)
          /\ \A n : Filled(n)' <=> n = Head(inbox)
      BY <1>1, <2>1 DEF Held, Filled
    <2>3. packet \in 1 .. born /\ packet \in Pbufs /\ ptr[Head(inbox)] = packet
      BY <1>1, <2>1, <2>2, Names DEF InOrder, FilledHoldPackets, PlacesHoldNetbufs, Pbufs
    <2>4. listener_pbuf' = packet
      BY <1>1, <2>3, Names DEF Data
    <2>5. OneIsUsed' /\ FilledHoldPackets' /\ FreeOnesAreLinked' /\ FreedUnlessHeld'
      BY <1>1, <2>1, <2>2 DEF InOrder, OneIsUsed, FilledHoldPackets,
         FreeOnesAreLinked, FreedUnlessHeld
    <2>6. HandledUpToInbox'
      <3>1. handled \in Seq(Pbufs) /\ posted = Append(handled, packet)
        BY <1>1, <2>1 DEF InOrder, HandledUpToInbox
      <3> HIDE DEF packet
      <3>2. handled' = posted' /\ handled' \in Seq(Pbufs)
        BY <1>1, <2>3, <2>4, <3>1, AppendProperties
      <3>3. QED
        BY <2>1, <3>2 DEF HandledUpToInbox
    <2>7. QED
      BY <2>5, <2>6 DEF InOrder
  <1>7. QED
    BY <1>4, <1>5, <1>6

LEMMA ReceiveTimeoutIInv == ASSUME IInv, ReceiveTimeout PROVE IInv'
  <1> USE DEF IInv
  <1>1. /\ lpc = "recv" /\ lpc' = "top" /\ listener_netbuf' = NULL
        /\ UNCHANGED <<tab, word, ptr, ipc, in_netbuf, in_pbuf, inbox, listener_pbuf,
                       tpc, out_netbuf, born, freed, posted, handled, overlapped>>
    BY DEF ReceiveTimeout, pool, input, transmitter, history
  <1>2. TypeOK' /\ PlacesHoldNetbufs'
    BY <1>1 DEF TypeOK, PlacesHoldNetbufs
  <1>3. ASSUME ~overlapped' PROVE InOrder'
    <2>1. Held' = Held /\ \A n : Filled(n)' <=> Filled(n)
      BY <1>1 DEF Held, Filled
    <2>2. QED
      BY <1>1, <1>3, <2>1 DEF InOrder, OneIsUsed, ListenerHasNone,
         FreeOnesAreLinked, FilledHoldPackets, FreedUnlessHeld, HandledUpToInbox
  <1>4. QED
    BY <1>2, <1>3

\* Freeing what is held by a netbuf that keeps pointing to it.
LEMMA FreeHeld ==
  ASSUME IInv, InOrder, NEW q, Held = {q}, freed' = PbufFree(q), born' = born,
         Held' = {}
  PROVE  FreedUnlessHeld'
  <1> USE DEF IInv
  <1>1. q \in 1 .. born /\ q \in Pbufs
    BY Names DEF InOrder, FilledHoldPackets, PlacesHoldNetbufs, Pbufs
  <1>2. freed' = [freed EXCEPT ![q] = @ + 1] /\ freed[q] = 0
    BY <1>1 DEF PbufFree, InOrder, FreedUnlessHeld
  <1>3. freed'[q] = 1 /\ \A k \in Pbufs \ {q} : freed'[k] = freed[k]
    BY <1>1, <1>2 DEF TypeOK
  <1>4. QED
    BY <1>1, <1>3 DEF InOrder, FreedUnlessHeld

LEMMA DeleteIInv == ASSUME IInv, Delete PROVE IInv'
  <1> USE DEF IInv
  <1>1. /\ lpc = "copy" /\ lpc' = "link" /\ freed' = PbufFree(word[listener_netbuf])
        /\ UNCHANGED <<tab, word, ptr, ipc, in_netbuf, in_pbuf, inbox, listener_netbuf,
                       listener_pbuf, tpc, out_netbuf, born, posted, handled,
                       overlapped>>
    BY DEF Delete, pool, input, transmitter, history
  <1>2. listener_netbuf \in Pool
    BY <1>1 DEF PlacesHoldNetbufs
  <1>3. TypeOK'
    <2>1. freed' \in [Pbufs -> Nat]
      BY <1>1 DEF PbufFree, TypeOK
    <2>2. QED
      BY <1>1, <2>1 DEF TypeOK
  <1>4. PlacesHoldNetbufs'
    BY <1>1 DEF PlacesHoldNetbufs
  <1>5. ASSUME ~overlapped' PROVE InOrder'
    <2>1. InOrder /\ ~ListenerHasNone
      BY <1>1, <1>2, <1>5, Names DEF ListenerHasNone
    <2>2. ipc = "wait" /\ tpc = "wait" /\ inbox = <<>>
      BY <2>1, OnlyTheListenerHasOne DEF InOrder
    <2>3. /\ Held = {word[listener_netbuf]} /\ Held' = {}
          /\ \A n : Filled(n)' <=> Filled(n)
      BY <1>1, <2>2 DEF Held, Filled
    <2>4. FreedUnlessHeld'
      BY <1>1, <2>1, <2>3, FreeHeld
    <2>5. QED
      BY <1>1, <2>1, <2>2, <2>3, <2>4 DEF InOrder, OneIsUsed, FreeOnesAreLinked,
         FilledHoldPackets, HandledUpToInbox
  <1>6. QED
    BY <1>3, <1>4, <1>5

LEMMA AnswerIInv == ASSUME IInv, Answer PROVE IInv'
  <1> USE DEF IInv
  <1>1. /\ lpc = "answer" /\ lpc' = "top"
        /\ UNCHANGED <<tab, word, ptr, ipc, in_netbuf, in_pbuf, inbox, listener_netbuf,
                       listener_pbuf, tpc, out_netbuf, born, freed, posted, handled,
                       overlapped>>
    BY DEF Answer, pool, input, transmitter, history
  <1>2. TypeOK' /\ PlacesHoldNetbufs'
    BY <1>1 DEF TypeOK, PlacesHoldNetbufs
  <1>3. ASSUME ~overlapped' PROVE InOrder'
    <2>1. Held' = Held /\ \A n : Filled(n)' <=> Filled(n)
      BY <1>1 DEF Held, Filled
    <2>2. QED
      BY <1>1, <1>3, <2>1 DEF InOrder, OneIsUsed, ListenerHasNone,
         FreeOnesAreLinked, FilledHoldPackets, FreedUnlessHeld, HandledUpToInbox
  <1>4. QED
    BY <1>2, <1>3

-----------------------------------------------------------------------------
(* The transmitter.                                                        *)

LEMMA PrepareIInv == ASSUME IInv, Prepare PROVE IInv'
  <1> USE DEF IInv
  <1>1. /\ tpc = "wait"
        /\ UNCHANGED <<word, ptr, ipc, in_netbuf, in_pbuf, inbox, lpc, listener_netbuf,
                       listener_pbuf, born, freed, posted, handled>>
    BY DEF Prepare, input, listener
  <1>2. CASE tab = NULL
    <2>1. UNCHANGED <<tab, tpc, out_netbuf, overlapped>>
      BY <1>2 DEF Prepare, transmitter
    <2>2. TypeOK' /\ PlacesHoldNetbufs'
      BY <1>1, <2>1 DEF TypeOK, PlacesHoldNetbufs
    <2>3. ASSUME ~overlapped' PROVE InOrder'
      <3>1. Held' = Held /\ \A n : Filled(n)' <=> Filled(n)
        BY <1>1, <2>1 DEF Held, Filled
      <3>2. QED
        BY <1>1, <2>1, <2>3, <3>1 DEF InOrder, OneIsUsed, ListenerHasNone,
           FreeOnesAreLinked, FilledHoldPackets, FreedUnlessHeld, HandledUpToInbox
    <2>4. QED
      BY <2>2, <2>3
  <1>3. CASE tab # NULL
    <2>1. Malloc /\ out_netbuf' = tab /\ tpc' = "fill"
      BY <1>3 DEF Prepare
    <2>2. /\ tab \in Pool /\ tab' \in Refs /\ overlapped' \in BOOLEAN
          /\ ~overlapped' => /\ InOrder /\ InUse = {}
                             /\ tab' \in Pool \cup {NULL}
      BY <2>1, MallocKeeps
    <2>3. TypeOK'
      BY <1>1, <2>1, <2>2 DEF TypeOK, Refs
    <2>4. PlacesHoldNetbufs'
      BY <1>1, <2>1, <2>2 DEF PlacesHoldNetbufs
    <2>5. ASSUME ~overlapped' PROVE InOrder'
      <3>1. InOrder /\ InUse = {}
        BY <2>2, <2>5
      <3>2. /\ ipc = "wait" /\ inbox = <<>> /\ ListenerHasNone
            /\ Held = {} /\ \A n : ~Filled(n)
        BY <3>1, NobodyHasOne
      <3>3. Held' = {} /\ \A n : ~Filled(n)'
        BY <1>1, <2>1, <3>2 DEF Held, Filled
      <3>4. FreeOnesAreLinked'
        BY <1>1, <2>2, <2>5, <3>1, <3>2 DEF InOrder, FreeOnesAreLinked
      <3>5. OneIsUsed' /\ FilledHoldPackets' /\ FreedUnlessHeld' /\ HandledUpToInbox'
        BY <1>1, <3>1, <3>2, <3>3 DEF InOrder, OneIsUsed, ListenerHasNone,
           FilledHoldPackets, FreedUnlessHeld, HandledUpToInbox
      <3>6. QED
        BY <3>4, <3>5 DEF InOrder
    <2>6. QED
      BY <2>3, <2>4, <2>5
  <1>4. QED
    BY <1>2, <1>3

LEMMA FillIInv == ASSUME IInv, Fill PROVE IInv'
  <1> USE DEF IInv
  <1>1. /\ tpc = "fill" /\ tpc' = "send" /\ born < MaxPbufs /\ born' = born + 1
        /\ word' = [word EXCEPT ![out_netbuf] = born']
        /\ ptr' = [ptr EXCEPT ![out_netbuf] = born']
        /\ UNCHANGED <<tab, ipc, in_netbuf, in_pbuf, inbox, lpc, listener_netbuf,
                       listener_pbuf, out_netbuf, freed, posted, handled, overlapped>>
    BY DEF Fill, input, listener, history
  <1>2. /\ born \in Nat /\ born' \in 0 .. MaxPbufs /\ born' \in Pbufs
        /\ 1 .. born' = (1 .. born) \cup {born'} /\ born' \notin 1 .. born
        /\ out_netbuf \in Pool
    BY <1>1, Names DEF PlacesHoldNetbufs, Pbufs
  <1>3. /\ word' \in [Pool -> Refs] /\ ptr' \in [Pool -> Pbufs \cup {NULL}]
        /\ word'[out_netbuf] = born'
        /\ \A n \in Pool \ {out_netbuf} : word'[n] = word[n]
    BY <1>1, <1>2 DEF TypeOK, Refs
  <1>4. TypeOK'
    BY <1>1, <1>3 DEF TypeOK
  <1>5. PlacesHoldNetbufs'
    BY <1>1, <1>2 DEF PlacesHoldNetbufs
  <1>6. ASSUME ~overlapped' PROVE InOrder'
    <2>1. InOrder /\ ipc = "wait" /\ inbox = <<>> /\ ListenerHasNone
      BY <1>1, <1>6 DEF InOrder, OneIsUsed
    <2>2. lpc \notin {"copy", "link"}
      BY <2>1, Names DEF ListenerHasNone, PlacesHoldNetbufs
    <2>3. /\ Held = {} /\ Held' = {born'}
          /\ \A n : ~Filled(n) /\ (Filled(n)' <=> n = out_netbuf)
      BY <1>1, <1>3, <2>1, <2>2 DEF Held, Filled
    <2>4. FreeOnesAreLinked'
      BY <1>1, <1>3, <2>1, <2>3 DEF InOrder, FreeOnesAreLinked
    <2>5. FreedUnlessHeld'
      BY <1>1, <1>2, <2>1, <2>3 DEF InOrder, FreedUnlessHeld
    <2>6. OneIsUsed' /\ FilledHoldPackets' /\ HandledUpToInbox'
      BY <1>1, <1>2, <2>1, <2>3 DEF InOrder, OneIsUsed, ListenerHasNone,
         FilledHoldPackets, HandledUpToInbox
    <2>7. QED
      BY <2>4, <2>5, <2>6 DEF InOrder
  <1>7. QED
    BY <1>4, <1>5, <1>6

LEMMA SendIInv == ASSUME IInv, Send PROVE IInv'
  <1> USE DEF IInv
  <1>1. /\ tpc = "send" /\ tpc' = "link" /\ freed' = PbufFree(word[out_netbuf])
        /\ UNCHANGED <<tab, word, ptr, ipc, in_netbuf, in_pbuf, inbox, lpc,
                       listener_netbuf, listener_pbuf, out_netbuf, born, posted,
                       handled, overlapped>>
    BY DEF Send, pool, input, listener, history
  <1>2. TypeOK'
    <2>1. freed' \in [Pbufs -> Nat]
      BY <1>1 DEF PbufFree, TypeOK
    <2>2. QED
      BY <1>1, <2>1 DEF TypeOK
  <1>3. PlacesHoldNetbufs'
    BY <1>1 DEF PlacesHoldNetbufs
  <1>4. ASSUME ~overlapped' PROVE InOrder'
    <2>1. InOrder /\ ipc = "wait" /\ inbox = <<>> /\ ListenerHasNone
      BY <1>1, <1>4 DEF InOrder, OneIsUsed
    <2>2. lpc \notin {"copy", "link"}
      BY <2>1, Names DEF ListenerHasNone, PlacesHoldNetbufs
    <2>3. /\ Held = {word[out_netbuf]} /\ Held' = {}
          /\ \A n : Filled(n)' <=> Filled(n)
      BY <1>1, <2>1, <2>2 DEF Held, Filled
    <2>4. FreedUnlessHeld'
      BY <1>1, <2>1, <2>3, FreeHeld
    <2>5. QED
      BY <1>1, <2>1, <2>3, <2>4 DEF InOrder, OneIsUsed, ListenerHasNone,
         FreeOnesAreLinked, FilledHoldPackets, HandledUpToInbox
  <1>5. QED
    BY <1>2, <1>3, <1>4

LEMMA LinkSentIInv == ASSUME IInv, LinkSent PROVE IInv'
  <1> USE DEF IInv
  <1>1. /\ tpc = "link" /\ tpc' = "wait" /\ Link(out_netbuf)
        /\ UNCHANGED <<ipc, in_netbuf, in_pbuf, inbox, lpc, listener_netbuf,
                       listener_pbuf, out_netbuf, born, freed, posted, handled,
                       overlapped>>
    BY DEF LinkSent, input, listener, history
  <1>2. out_netbuf \in Pool
    BY <1>1 DEF PlacesHoldNetbufs
  <1>3. TypeOK'
    BY <1>1, <1>2, LinkKeeps DEF TypeOK
  <1>4. PlacesHoldNetbufs'
    BY <1>1 DEF PlacesHoldNetbufs
  <1>5. ASSUME ~overlapped' PROVE InOrder'
    <2>1. InOrder /\ ipc = "wait" /\ inbox = <<>> /\ ListenerHasNone
      BY <1>1, <1>5 DEF InOrder, OneIsUsed
    <2>2. lpc \notin {"copy", "link"}
      BY <2>1, Names DEF ListenerHasNone, PlacesHoldNetbufs
    <2>3. /\ Held = {} /\ Held' = {}
          /\ \A n : ~Filled(n)' /\ (Filled(n) => n = out_netbuf)
      BY <1>1, <2>1, <2>2 DEF Held, Filled
    <2>4. FreeOnesAreLinked'
      BY <1>1, <1>2, <2>1, <2>3, LinkKeeps DEF InOrder, FreeOnesAreLinked
    <2>5. QED
      BY <1>1, <2>1, <2>3, <2>4 DEF InOrder, OneIsUsed, ListenerHasNone,
         FilledHoldPackets, FreedUnlessHeld, HandledUpToInbox
  <1>6. QED
    BY <1>3, <1>4, <1>5

-----------------------------------------------------------------------------
(* The theorems.                                                           *)

LEMMA NextIInv == IInv /\ [Next]_vars => IInv'
  <1> SUFFICES ASSUME IInv, [Next]_vars PROVE IInv'
    OBVIOUS
  <1>1. CASE LinkAgain
    BY <1>1, LinkOfListenerIInv DEF LinkAgain, input, transmitter, history
  <1>2. CASE LinkOnce
    BY <1>2, LinkOfListenerIInv DEF LinkOnce, input, transmitter, history
  <1>3. CASE UNCHANGED vars
    <2>1. UNCHANGED <<tab, word, ptr, ipc, in_netbuf, in_pbuf, inbox, lpc,
                      listener_netbuf, listener_pbuf, tpc, out_netbuf, born, freed,
                      posted, handled, overlapped>>
      BY <1>3 DEF vars, pool, input, listener, transmitter, history
    <2>2. TypeOK' /\ PlacesHoldNetbufs'
      BY <2>1 DEF IInv, TypeOK, PlacesHoldNetbufs
    <2>3. ASSUME ~overlapped' PROVE InOrder'
      <3>1. Held' = Held /\ \A n : Filled(n)' <=> Filled(n)
        BY <2>1 DEF Held, Filled
      <3>2. QED
        BY <2>1, <2>3, <3>1 DEF IInv, InOrder, OneIsUsed, ListenerHasNone,
           FreeOnesAreLinked, FilledHoldPackets, FreedUnlessHeld, HandledUpToInbox
    <2>4. QED
      BY <2>2, <2>3 DEF IInv
  <1>4. QED
    BY <1>1, <1>2, <1>3, ArriveIInv, PostIInv, DropIInv, DeleteAgainIInv, ReceiveIInv,
       ReceiveTimeoutIInv, DeleteIInv, AnswerIInv, PrepareIInv, FillIInv, SendIInv,
       LinkSentIInv DEF Next

\* While no two netbufs are needed at a time, the free list holds together,
\* ring or not, and every packet buffer has one owner.
THEOREM Invariance == Spec => []IInv
  <1> HIDE DEF IInv
  <1>1. QED
    BY InitIInv, NextIInv, PTL DEF Spec

\* Types; in particular netconn_recv gives the listener a netbuf of the pool.
THEOREM TypeCorrect == Spec => []TypeOK
  <1>1. IInv => TypeOK
    BY DEF IInv
  <1>2. QED
    BY <1>1, Invariance, PTL

\* test_listener_task_loop looks at the packets that recv_udp posted, in order
\* (HandlesInOrder).
THEOREM HandledInOrder == Spec => []HandlesInOrder
  <1>1. IInv => HandlesInOrder
    <2> SUFFICES ASSUME IInv, ~overlapped PROVE IsPrefix(handled, posted)
      BY DEF HandlesInOrder
    <2> DEFINE c == Len(handled)
    <2>1. handled \in Seq(Pbufs) /\ c \in Nat /\ DOMAIN handled = 1 .. c
      BY LenProperties DEF IInv, InOrder, HandledUpToInbox
    <2>2. /\ posted \in Seq(Pbufs) /\ c <= Len(posted)
          /\ \A k \in 1 .. c : posted[k] = handled[k]
      <3>1. CASE inbox = <<>>
        BY <2>1, <3>1 DEF IInv, InOrder, HandledUpToInbox
      <3>2. CASE inbox # <<>>
        <4> DEFINE q == word[Head(inbox)]
        <4>1. posted = Append(handled, q)
          BY <3>2 DEF IInv, InOrder, HandledUpToInbox
        <4>2. q \in Pbufs
          BY <3>2, Names DEF IInv, InOrder, FilledHoldPackets, Held, PlacesHoldNetbufs,
             Pbufs
        <4> HIDE DEF q
        <4>3. QED
          BY <2>1, <4>1, <4>2, AppendProperties
      <3>3. QED
        BY <3>1, <3>2
    <2>3. SubSeq(handled, 1, c) = SubSeq(posted, 1, c)
      BY <2>1, <2>2
    <2>4. QED
      BY <2>2, <2>3 DEF IsPrefix
  <1>2. QED
    BY <1>1, Invariance, PTL

\* pbuf_free is called once for each packet buffer (PbufsReturn).
THEOREM EachFreedOnce == Spec => []PbufsReturn
  <1>1. IInv => PbufsReturn
    <2> SUFFICES ASSUME IInv, ~overlapped, NEW q \in 1 .. born
                 PROVE  freed[q] <= 1 /\ (Idle => freed[q] = 1)
      BY DEF PbufsReturn
    <2>1. q \in Pbufs
      BY Names DEF IInv, PlacesHoldNetbufs, Pbufs
    <2>2. freed[q] = IF q \in Held THEN 0 ELSE 1
      BY <2>1 DEF IInv, InOrder, FreedUnlessHeld
    <2>3. Idle => Held = {}
      BY DEF Idle, Held
    <2>4. QED
      BY <2>2, <2>3
  <1>2. QED
    BY <1>1, Invariance, PTL
=============================================================================

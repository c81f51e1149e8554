--------------------------- MODULE ReceptionProofs ---------------------------
(***************************************************************************)
(* Proofs about Reception, for a ring of any length, any pool that covers  *)
(* it and any number of freeing threads: types hold in any case, and as    *)
(* long as every start finds the ring read out, every buffer has one owner *)
(* and frames are read in order.                                           *)
(***************************************************************************)
EXTENDS Reception, TLAPS, WellFoundedInduction, FiniteSetTheorems

(* The inductive invariant.                                                *)

\* How far slot i is behind slot b, and the slot k behind slot b.
Dist(b, i)   == IF i >= b THEN i - b ELSE N + i - b
Behind(b, k) == IF b + k < N THEN b + k ELSE b + k - N

\* No descriptor has been filled before the first start is through.
Fresh == starts = 0 \/ (starts = 1 /\ linkThread = "build")

\* What holds whether or not the ring was read out at a start.
Control ==
    /\ gState = "busy" <=> linkThread # "idle"
    /\ running <=> \/ gState = "started"
                   \/ linkThread \in {"enable", "started", "disable", "halt"}
    /\ starts = 0 => gState = "ready" /\ RxBuildDescCnt = 0
    /\ inputThread = "post" => gState = "started"
    /\ inputThread = "post" <=> packet # NULL
    /\ last =< wire /\ \A i \in Slots : ring[i].frame =< wire
    /\ Fresh => clean
    /\ Fresh \/ \A i \in Slots : ring[i].buf # NULL
    /\ linkThread = "fail" => ~clean

\* From slot rd on: m descriptors to read, some that the DMA owns, and cnt to
\* be given back to it.
Divided(r, rd, cnt, m) ==
    \A i \in Slots :
      /\ Dist(rd, i) < m => ~r[i].own /\ r[i].attached
      /\ m =< Dist(rd, i) /\ Dist(rd, i) < N - cnt => r[i].own /\ r[i].attached
      /\ N - cnt =< Dist(rd, i) => ~r[i].own /\ ~r[i].attached

\* The first m descriptors from rd on have frames in order, after frame n.
FramesInOrder(r, rd, m, n) ==
    /\ \A i \in Slots : Dist(rd, i) < m => n < r[i].frame
    /\ \A i, k \in Slots :
         Dist(rd, i) < Dist(rd, k) /\ Dist(rd, k) < m => r[i].frame < r[k].frame

\* The first start attaches a buffer to one descriptor after the other.
Pristine ==
    /\ dma = RxDescIdx /\ held = {}
    /\ \A i \in Slots :
         /\ ring[i].own
         /\ ring[i].attached
              <=> linkThread = "build" /\ Dist(RxDescIdx, i) < N - RxBuildDescCnt

\* Later ones find all attached.
Rebuilding == dma = RxDescIdx /\ \A i \in Slots : ring[i].own /\ ring[i].attached

InUse ==
    \E m \in 0 .. N :
      /\ m + RxBuildDescCnt =< N
      /\ dma = Behind(RxDescIdx, m)
      /\ Divided(ring, RxDescIdx, RxBuildDescCnt, m)
      /\ FramesInOrder(ring, RxDescIdx, m, last)

InRegions ==
    /\ RxDescIdx = Behind(RxBuildDescIdx, RxBuildDescCnt)
    /\ Fresh => Pristine
    /\ ~Fresh /\ linkThread = "build" => Rebuilding
    /\ ~Fresh /\ linkThread # "build" => InUse

\* A buffer is either free (in f), in a descriptor of r, or with a packet (u).
Apart(r, f, u) ==
    /\ f \cap u = {}
    /\ \A i \in Slots : r[i].attached => r[i].buf \in Buffers \ (f \cup u)
    /\ \A i, k \in Slots :
         r[i].attached /\ r[k].attached /\ r[i].buf = r[k].buf => i = k
    /\ \A b \in Buffers \ (f \cup u) : \E i \in Slots : r[i].attached /\ r[i].buf = b

Ordered ==
    /\ InRegions
    /\ Apart(ring, pool, Packets)
    /\ packet \notin held

IInv == TypeOK /\ Control /\ (clean => Ordered)

-----------------------------------------------------------------------------
(* Lemmas about slots.                                                     *)

LEMMA DistType ==
  ASSUME NEW b \in Slots, NEW i \in Slots
  PROVE  /\ Dist(b, i) \in Slots /\ Dist(b, i) \in Nat /\ Dist(b, i) < N
         /\ Behind(b, Dist(b, i)) = i
         /\ (N + i - b) % N = Dist(b, i)
         /\ \A k \in Slots : Dist(b, i) = Dist(b, k) => i = k
  BY ReceptionAssumption DEF Slots, Dist, Behind

LEMMA BehindType ==
  ASSUME NEW b \in Slots, NEW k \in 0 .. N
  PROVE  /\ Behind(b, k) \in Slots
         /\ (b + k) % N = Behind(b, k)
         /\ k < N => Dist(b, Behind(b, k)) = k
  BY ReceptionAssumption DEF Slots, Dist, Behind

LEMMA BehindTwice ==
  ASSUME NEW b \in Slots, NEW c \in 0 .. N, NEW k \in 0 .. N, c + k =< N
  PROVE  Behind(Behind(b, c), k) = Behind(b, c + k)
  BY ReceptionAssumption DEF Slots, Behind

\* A slot behind the start of the build, seen from cnt further on.
LEMMA SeenFurther ==
  ASSUME NEW b \in Slots, NEW c \in 0 .. N, NEW i \in Slots
  PROVE  Dist(b, i) = IF Dist(Behind(b, c), i) < N - c
                      THEN Dist(Behind(b, c), i) + c
                      ELSE Dist(Behind(b, c), i) - (N - c)
  BY ReceptionAssumption DEF Slots, Dist, Behind

LEMMA OneFurther ==
  ASSUME NEW b \in Slots, NEW i \in Slots
  PROVE  /\ i # b => Dist(Behind(b, 1), i) = Dist(b, i) - 1 /\ Dist(b, i) > 0
         /\ Dist(Behind(b, 1), b) = N - 1
         /\ Dist(b, b) = 0
  BY ReceptionAssumption DEF Slots, Dist, Behind

LEMMA Names ==
  /\ NULL \notin Buffers /\ IsFiniteSet(Buffers) /\ N =< Cardinality(Buffers)
  /\ N \in Nat \ {0} /\ MaxFrames \in Nat /\ MaxStarts \in Nat
  /\ Cardinality(Buffers) \in Nat
  BY ReceptionAssumption, FS_CardinalityType

\* A nonempty set of naturals has a least element, and with a bound a greatest.
LEMMA Least ==
  ASSUME NEW U, U \subseteq Nat, U # {}
  PROVE  \E n \in U : \A m \in U : n =< m
  <1> DEFINE R == {s \in Nat \X Nat : s[1] < s[2]}
  <1>1. IsWellFoundedOn(R, Nat)
    BY NatLessThanWellFounded DEF OpToRel
  <1>2. PICK n \in U : \A m \in U : <<m, n>> \notin R
    <2> HIDE DEF R
    <2>1. QED
      BY <1>1, WFMin
  <1>3. \A m \in U : ~ (m < n)
    BY <1>2
  <1>4. QED
    BY <1>3

LEMMA Greatest ==
  ASSUME NEW B \in Nat, NEW S, S \subseteq 0 .. B, S # {}
  PROVE  \E n \in S : \A m \in S : m =< n
  <1> DEFINE U == {n \in Nat : \A x \in S : x =< n}
  <1>1. U # {} /\ U \subseteq Nat
    <2>1. B \in U
      OBVIOUS
    <2>2. QED
      BY <2>1
  <1>2. PICK n \in U : \A m \in U : n =< m
    <2> HIDE DEF U
    <2>1. QED
      BY <1>1, Least
  <1>3. n \in S
    <2> SUFFICES ASSUME n \notin S PROVE FALSE
      OBVIOUS
    <2>1. PICK x \in S : TRUE
      OBVIOUS
    <2>2. n - 1 \in U
      BY <2>1
    <2>3. QED
      BY <2>2, <1>2
  <1>4. QED
    BY <1>3

-----------------------------------------------------------------------------
(* ETH_UpdateDescriptor.                                                   *)

\* What a build of k descriptors does, with a fresh buffer h[i] for each slot
\* i that has none.
Lacking(r, k) == {i \in Slots : Dist(RxBuildDescIdx, i) < k /\ ~r[i].attached}
Given(r, k, h) ==
    [i \in Slots |->
       IF Dist(RxBuildDescIdx, i) < k
       THEN [r[i] EXCEPT !.own = TRUE, !.attached = TRUE,
                         !.buf = IF i \in Lacking(r, k) THEN h[i] ELSE @]
       ELSE r[i]]

Gives(r, cnt, k, h) ==
    /\ \A i, j \in Lacking(r, k) : h[i] = h[j] => i = j
    /\ ring' = Given(r, k, h)
    /\ pool' = pool \ {h[i] : i \in Lacking(r, k)}
    /\ RxBuildDescIdx' = Behind(RxBuildDescIdx, k)
    /\ RxBuildDescCnt' = cnt - k

LEMMA UpdateGives ==
  ASSUME TypeOK, NEW r, NEW cnt \in 0 .. N, UpdateDescriptor(r, cnt, pool)
  PROVE  \E k \in 0 .. cnt : \E h \in [Lacking(r, k) -> pool] : Gives(r, cnt, k, h)
  <1> DEFINE f  == pool
             b  == RxBuildDescIdx
             k  == Built(r, cnt, f)
             to == [i \in Slots |-> Dist(b, i)]
  <1>1. b \in Slots /\ N \in Nat \ {0} /\ f \in SUBSET Buffers
    BY Names DEF TypeOK
  <1>2. k \in 0 .. cnt
    <2>1. 0 \in Buildable(r, cnt, f)
      <3>1. Missing(r, 0) = {}
        BY DEF Missing
      <3>2. Cardinality({}) = 0 /\ IsFiniteSet(f)
        BY <1>1, FS_EmptySet, FS_Subset, Names
      <3>3. QED
        BY <3>1, <3>2, FS_CardinalityType DEF Buildable
    <2>2. Buildable(r, cnt, f) \subseteq 0 .. cnt /\ cnt \in Nat
      BY <1>1 DEF Buildable
    <2>3. \E n \in Buildable(r, cnt, f) : \A m \in Buildable(r, cnt, f) : m =< n
      BY <2>1, <2>2, Greatest
    <2>4. QED
      BY <2>2, <2>3 DEF Built
  <1>3. PICK g \in Choices(r, k, f) :
          /\ ring' = [i \in Slots |->
               LET j == (N + i - b) % N
               IN  IF j >= k THEN r[i]
                   ELSE [r[i] EXCEPT !.own = TRUE, !.attached = TRUE,
                                     !.buf = IF j \in DOMAIN g THEN g[j] ELSE @]]
          /\ pool' = f \ {g[j] : j \in DOMAIN g}
          /\ RxBuildDescIdx' = (b + k) % N
          /\ RxBuildDescCnt' = cnt - k
    BY DEF UpdateDescriptor
  <1> HIDE DEF b, k
  <1>4. /\ g \in [Missing(r, k) -> f]
        /\ \A i, j \in Missing(r, k) : g[i] = g[j] => i = j
        /\ k \in 0 .. N /\ k \in Nat /\ DOMAIN g = Missing(r, k)
    <2>1. /\ g \in [Missing(r, k) -> f]
          /\ \A i, j \in DOMAIN g : g[i] = g[j] => i = j
      BY <1>3 DEF Choices
    <2>2. k \in 0 .. N /\ k \in Nat
      BY <1>1, <1>2
    <2>3. QED
      BY <2>1, <2>2
  <1>5. \A i \in Slots : /\ (N + i - b) % N = Dist(b, i)
                         /\ Dist(b, i) \in Nat /\ Behind(b, Dist(b, i)) = i
    BY <1>1, DistType
  <1>6. \A j \in 0 .. k - 1 : /\ (b + j) % N = Behind(b, j) /\ Behind(b, j) \in Slots
                              /\ Dist(b, Behind(b, j)) = j
    <2> SUFFICES ASSUME NEW j \in 0 .. k - 1
                 PROVE  /\ (b + j) % N = Behind(b, j) /\ Behind(b, j) \in Slots
                        /\ Dist(b, Behind(b, j)) = j
      OBVIOUS
    <2>1. j \in 0 .. N /\ j < N
      BY <1>1, <1>4
    <2>2. QED
      BY <1>1, <2>1, BehindType
  <1>7. \A i \in Slots : Dist(b, i) \in Missing(r, k) <=> i \in Lacking(r, k)
    <2> SUFFICES ASSUME NEW i \in Slots
                 PROVE  Dist(b, i) \in Missing(r, k) <=> i \in Lacking(r, k)
      OBVIOUS
    <2>1. CASE Dist(b, i) < k
      <3>1. Dist(b, i) \in 0 .. k - 1 /\ (b + Dist(b, i)) % N = i
        BY <1>4, <1>5, <1>6, <2>1
      <3>2. QED
        BY <2>1, <3>1 DEF Missing, Lacking, b
    <2>2. CASE ~ (Dist(b, i) < k)
      BY <1>4, <1>5, <2>2 DEF Missing, Lacking, b
    <2>3. QED
      BY <2>1, <2>2
  <1> DEFINE h == [i \in Lacking(r, k) |-> g[Dist(b, i)]]
  <1>8. \A i \in Lacking(r, k) : i \in Slots /\ Dist(b, i) \in Missing(r, k)
    BY <1>7 DEF Lacking
  <1>9. h \in [Lacking(r, k) -> f]
    BY <1>4, <1>8
  <1>10. \A i, j \in Lacking(r, k) : h[i] = h[j] => i = j
    <2>1. \A i, j \in Lacking(r, k) : Dist(b, i) = Dist(b, j) => i = j
      BY <1>5, <1>8
    <2>2. QED
      BY <1>4, <1>8, <2>1
  <1>11. ring' = Given(r, k, h)
    <2>1. ASSUME NEW i \in Slots PROVE ring'[i] = Given(r, k, h)[i]
      <3> DEFINE d == Dist(b, i)
      <3>0. ring'[i] = IF d >= k THEN r[i]
                       ELSE [r[i] EXCEPT !.own = TRUE, !.attached = TRUE,
                                         !.buf = IF d \in DOMAIN g THEN g[d] ELSE @]
        <4>1. (N + i - b) % N = d
          BY <1>5
        <4> HIDE DEF d
        <4>2. QED
          BY <1>3, <4>1
      <3>1. CASE Dist(b, i) < k /\ i \in Lacking(r, k)
        <4>1. d \in DOMAIN g /\ h[i] = g[d] /\ ~ (d >= k)
          BY <1>4, <1>5, <1>7, <3>1
        <4>2. ring'[i] = [r[i] EXCEPT !.own = TRUE, !.attached = TRUE, !.buf = g[d]]
          BY <3>0, <4>1, Zenon
        <4>3. Given(r, k, h)[i] = [r[i] EXCEPT !.own = TRUE, !.attached = TRUE, !.buf = h[i]]
          BY <3>1, Zenon DEF Given, b
        <4>4. QED
          BY <4>1, <4>2, <4>3, Zenon
      <3>2. CASE Dist(b, i) < k /\ i \notin Lacking(r, k)
        <4>1. d \notin DOMAIN g /\ ~ (d >= k)
          BY <1>4, <1>5, <1>7, <3>2
        <4>2. ring'[i] = [r[i] EXCEPT !.own = TRUE, !.attached = TRUE, !.buf = @]
          BY <3>0, <4>1, Zenon
        <4>3. Given(r, k, h)[i] = [r[i] EXCEPT !.own = TRUE, !.attached = TRUE, !.buf = @]
          BY <3>2, Zenon DEF Given, b
        <4>4. QED
          BY <4>2, <4>3, Zenon
      <3>3. CASE ~ (Dist(b, i) < k)
        <4>1. ring'[i] = r[i]
          BY <1>4, <1>5, <3>0, <3>3
        <4>2. QED
          BY <3>3, <4>1 DEF Given, b
      <3>4. QED
        BY <3>1, <3>2, <3>3
    <2>2. ring' = [i \in Slots |-> ring'[i]]
      BY <1>3
    <2>3. QED
      BY <2>1, <2>2 DEF Given
  <1>12. {g[j] : j \in DOMAIN g} = {h[i] : i \in Lacking(r, k)}
    <2>1. ASSUME NEW j \in Missing(r, k) PROVE \E i \in Lacking(r, k) : g[j] = h[i]
      <3>1. j \in 0 .. k - 1
        BY DEF Missing
      <3>2. Behind(b, j) \in Lacking(r, k) /\ Dist(b, Behind(b, j)) = j
        BY <1>6, <1>7, <3>1
      <3>3. QED
        BY <3>2
    <2>2. ASSUME NEW i \in Lacking(r, k) PROVE \E j \in Missing(r, k) : g[j] = h[i]
      BY <1>8
    <2>3. QED
      BY <1>4, <2>1, <2>2
  <1> HIDE DEF h
  <1>13. RxBuildDescIdx' = Behind(RxBuildDescIdx, k)
    BY <1>1, <1>3, <1>4, BehindType DEF b
  <1>14. Gives(r, cnt, k, h)
    BY <1>3, <1>10, <1>11, <1>12, <1>13 DEF Gives
  <1>15. QED
    BY <1>2, <1>9, <1>14

\* Field by field.
LEMMA GivenFields ==
  ASSUME NEW r \in [Slots -> Descriptor], NEW k \in 0 .. N, NEW f \in SUBSET Buffers,
         NEW h \in [Lacking(r, k) -> f]
  PROVE  /\ Given(r, k, h) \in [Slots -> Descriptor]
         /\ \A i \in Slots :
              /\ Given(r, k, h)[i].own <=> Dist(RxBuildDescIdx, i) < k \/ r[i].own
              /\ Given(r, k, h)[i].attached <=> Dist(RxBuildDescIdx, i) < k \/ r[i].attached
              /\ Given(r, k, h)[i].frame = r[i].frame
              /\ Given(r, k, h)[i].buf = IF i \in Lacking(r, k) THEN h[i] ELSE r[i].buf
  <1>1. ASSUME NEW i \in Slots
        PROVE  /\ Given(r, k, h)[i] \in Descriptor
               /\ Given(r, k, h)[i].own <=> Dist(RxBuildDescIdx, i) < k \/ r[i].own
               /\ Given(r, k, h)[i].attached <=> Dist(RxBuildDescIdx, i) < k \/ r[i].attached
               /\ Given(r, k, h)[i].frame = r[i].frame
               /\ Given(r, k, h)[i].buf = IF i \in Lacking(r, k) THEN h[i] ELSE r[i].buf
    <2> DEFINE d == Given(r, k, h)[i]
    <2>1. r[i] \in Descriptor
      OBVIOUS
    <2>2. CASE Dist(RxBuildDescIdx, i) < k /\ i \in Lacking(r, k)
      <3>1. d = [r[i] EXCEPT !.own = TRUE, !.attached = TRUE, !.buf = h[i]]
        BY <2>2, Zenon DEF Given
      <3>2. h[i] \in Buffers
        BY <2>2
      <3> HIDE DEF d
      <3>3. /\ d \in Descriptor /\ d.own = TRUE /\ d.attached = TRUE
            /\ d.frame = r[i].frame /\ d.buf = h[i]
        BY <2>1, <3>1, <3>2 DEF Descriptor
      <3>4. QED
        BY <2>2, <3>3 DEF d
    <2>3. CASE Dist(RxBuildDescIdx, i) < k /\ i \notin Lacking(r, k)
      <3>1. d = [r[i] EXCEPT !.own = TRUE, !.attached = TRUE, !.buf = @]
        BY <2>3, Zenon DEF Given
      <3> HIDE DEF d
      <3>2. /\ d \in Descriptor /\ d.own = TRUE /\ d.attached = TRUE
            /\ d.frame = r[i].frame /\ d.buf = r[i].buf
        BY <2>1, <3>1 DEF Descriptor
      <3>3. QED
        BY <2>3, <3>2 DEF d
    <2>4. CASE ~ (Dist(RxBuildDescIdx, i) < k)
      <3>1. d = r[i] /\ i \notin Lacking(r, k)
        BY <2>4, Zenon DEF Given, Lacking
      <3> HIDE DEF d
      <3>2. QED
        BY <2>1, <2>4, <3>1 DEF d
    <2>5. QED
      BY <2>2, <2>3, <2>4
  <1>2. Given(r, k, h) = [i \in Slots |-> Given(r, k, h)[i]]
    BY DEF Given
  <1> HIDE DEF Given
  <1>3. Given(r, k, h) \in [Slots -> Descriptor]
    BY <1>1, <1>2
  <1>4. QED
    BY <1>1, <1>3

\* Buffers move from the pool to descriptors, one each.
LEMMA GivenApart ==
  ASSUME NEW r \in [Slots -> Descriptor], NEW k \in 0 .. N, NEW f \in SUBSET Buffers,
         NEW h \in [Lacking(r, k) -> f],
         \A i, j \in Lacking(r, k) : h[i] = h[j] => i = j,
         NEW u, Apart(r, f, u)
  PROVE  Apart(Given(r, k, h), f \ {h[i] : i \in Lacking(r, k)}, u)
  <1> DEFINE g  == Given(r, k, h)
             L  == Lacking(r, k)
             f1 == f \ {h[i] : i \in L}
  <1>1. \A i \in Slots : g[i].attached <=> i \in L \/ r[i].attached
    BY GivenFields DEF Lacking
  <1>2. \A i \in Slots : g[i].buf = IF i \in L THEN h[i] ELSE r[i].buf
    BY GivenFields
  <1>3. /\ L \subseteq Slots /\ \A i \in L : ~r[i].attached /\ h[i] \in f
        /\ \A i, j \in L : h[i] = h[j] => i = j
    BY DEF Lacking
  <1>4. f1 \subseteq f /\ \A i \in L : h[i] \notin f1
    OBVIOUS
  <1>5. \A b \in f \ f1 : \E i \in L : h[i] = b
    OBVIOUS
  <1> HIDE DEF g, L, f1
  <1>6. f1 \cap u = {}
    BY <1>4 DEF Apart
  <1>7. ASSUME NEW i \in Slots, g[i].attached PROVE g[i].buf \in Buffers \ (f1 \cup u)
    BY <1>1, <1>2, <1>3, <1>4, <1>7 DEF Apart
  <1>8. ASSUME NEW i \in Slots, NEW j \in Slots, g[i].attached, g[j].attached,
               g[i].buf = g[j].buf
        PROVE  i = j
    BY <1>1, <1>2, <1>3, <1>8 DEF Apart
  <1>9. ASSUME NEW b \in Buffers \ (f1 \cup u)
        PROVE  \E i \in Slots : g[i].attached /\ g[i].buf = b
    <2>1. CASE b \in f
      <3>1. PICK i \in L : h[i] = b
        BY <1>5, <2>1
      <3>2. QED
        BY <1>1, <1>2, <1>3, <3>1
    <2>2. CASE b \notin f
      <3>1. PICK i \in Slots : r[i].attached /\ r[i].buf = b
        BY <2>2 DEF Apart
      <3>2. i \notin L
        BY <1>3, <3>1
      <3>3. QED
        BY <1>1, <1>2, <3>1, <3>2
    <2>3. QED
      BY <2>1, <2>2
  <1>10. Apart(g, f1, u)
    BY <1>6, <1>7, <1>8, <1>9 DEF Apart
  <1>11. QED
    BY <1>10 DEF g, L, f1

\* What is to be given back shrinks from its start; the rest stays.
LEMMA GivenDivided ==
  ASSUME NEW r \in [Slots -> Descriptor], NEW cnt \in 0 .. N, NEW k \in 0 .. cnt,
         NEW f \in SUBSET Buffers, NEW h \in [Lacking(r, k) -> f],
         RxBuildDescIdx \in Slots,
         NEW m \in 0 .. N, m + cnt =< N, NEW rd, rd = Behind(RxBuildDescIdx, cnt),
         Divided(r, rd, cnt, m)
  PROVE  /\ Divided(Given(r, k, h), rd, cnt - k, m)
         /\ rd = Behind(Behind(RxBuildDescIdx, k), cnt - k)
         /\ \A n : FramesInOrder(r, rd, m, n) => FramesInOrder(Given(r, k, h), rd, m, n)
  <1> DEFINE g == Given(r, k, h)
  <1>1. rd \in Slots /\ k \in 0 .. N /\ N \in Nat
    BY BehindType, Names
  <1>2. rd = Behind(Behind(RxBuildDescIdx, k), cnt - k)
    <2>1. cnt - k \in 0 .. N /\ k + (cnt - k) = cnt /\ cnt =< N
      BY <1>1
    <2>2. QED
      BY <1>1, <2>1, BehindTwice
  <1>3. \A i \in Slots :
          /\ g[i].own <=> Dist(RxBuildDescIdx, i) < k \/ r[i].own
          /\ g[i].attached <=> Dist(RxBuildDescIdx, i) < k \/ r[i].attached
          /\ g[i].frame = r[i].frame
    <2>1. k \in 0 .. N
      BY <1>1
    <2> HIDE DEF g
    <2>2. \A i \in Slots :
            /\ Given(r, k, h)[i].own <=> Dist(RxBuildDescIdx, i) < k \/ r[i].own
            /\ Given(r, k, h)[i].attached <=> Dist(RxBuildDescIdx, i) < k \/ r[i].attached
            /\ Given(r, k, h)[i].frame = r[i].frame
      BY <2>1, GivenFields
    <2>3. QED
      BY <2>2 DEF g
  <1> HIDE DEF g
  <1>4. ASSUME NEW i \in Slots
        PROVE  /\ Dist(RxBuildDescIdx, i) < k =>
                    N - cnt =< Dist(rd, i) /\ Dist(rd, i) < N - (cnt - k)
               /\ ~ (Dist(RxBuildDescIdx, i) < k) =>
                    Dist(rd, i) < N - cnt \/ N - (cnt - k) =< Dist(rd, i)
    <2>1. Dist(rd, i) \in Nat /\ Dist(rd, i) < N
      BY <1>1, DistType
    <2>2. Dist(RxBuildDescIdx, i) = IF Dist(rd, i) < N - cnt
                                    THEN Dist(rd, i) + cnt
                                    ELSE Dist(rd, i) - (N - cnt)
      BY SeenFurther
    <2>3. QED
      BY <1>1, <2>1, <2>2
  <1>5. ASSUME NEW i \in Slots
        PROVE  /\ Dist(rd, i) < m => ~g[i].own /\ g[i].attached
               /\ m =< Dist(rd, i) /\ Dist(rd, i) < N - (cnt - k) => g[i].own /\ g[i].attached
               /\ N - (cnt - k) =< Dist(rd, i) => ~g[i].own /\ ~g[i].attached
    <2>1. Dist(rd, i) \in Nat
      BY <1>1, DistType
    <2>2. /\ Dist(rd, i) < m => ~r[i].own /\ r[i].attached
          /\ m =< Dist(rd, i) /\ Dist(rd, i) < N - cnt => r[i].own /\ r[i].attached
          /\ N - cnt =< Dist(rd, i) => ~r[i].own /\ ~r[i].attached
      BY DEF Divided
    <2>3. CASE Dist(RxBuildDescIdx, i) < k
      <3>1. N - cnt =< Dist(rd, i) /\ Dist(rd, i) < N - (cnt - k)
        BY <1>4, <2>3
      <3>2. g[i].own /\ g[i].attached
        BY <1>3, <2>3
      <3>3. QED
        BY <1>1, <2>1, <3>1, <3>2
    <2>4. CASE ~ (Dist(RxBuildDescIdx, i) < k)
      <3>1. Dist(rd, i) < N - cnt \/ N - (cnt - k) =< Dist(rd, i)
        BY <1>4, <2>4
      <3>2. (g[i].own <=> r[i].own) /\ (g[i].attached <=> r[i].attached)
        BY <1>3, <2>4
      <3>3. QED
        BY <1>1, <2>1, <2>2, <3>1, <3>2
    <2>5. QED
      BY <2>3, <2>4
  <1>6. Divided(g, rd, cnt - k, m)
    BY <1>5 DEF Divided
  <1>7. \A n : FramesInOrder(r, rd, m, n) => FramesInOrder(g, rd, m, n)
    BY <1>3 DEF FramesInOrder
  <1>8. QED
    BY <1>2, <1>6, <1>7 DEF g

-----------------------------------------------------------------------------
(* Steps that leave the ring alone.                                        *)

LEMMA InitIInv == Init => IInv
  <1> SUFFICES ASSUME Init PROVE IInv
    OBVIOUS
  <1>1. TypeOK
    <2>1. ring \in [Slots -> Descriptor]
      BY Names DEF Init, Descriptor
    <2>2. 0 \in Slots /\ 0 \in 0 .. N /\ 0 \in 0 .. MaxFrames /\ 0 \in 0 .. MaxStarts
      BY Names DEF Slots
    <2>3. /\ running \in BOOLEAN /\ enabled \in BOOLEAN /\ pending \in BOOLEAN
          /\ alloc_failed \in BOOLEAN /\ clean \in BOOLEAN
      BY DEF Init
    <2>4. RxPktSemaphore \in 0 .. 1 /\ held \subseteq Buffers
          /\ freer \in [Freers -> {"idle", "check", "reset", "signal"}]
      BY DEF Init
    <2>5. QED
      BY <2>1, <2>2, <2>3, <2>4 DEF Init, TypeOK
  <1>2. Control
    BY Names DEF Init, Control, Fresh
  <1>3. InRegions
    <2>1. RxDescIdx = Behind(RxBuildDescIdx, RxBuildDescCnt)
      BY Names DEF Init, Behind
    <2>2. Fresh /\ Pristine
      BY Names DEF Init, Fresh, Pristine
    <2>3. QED
      BY <2>1, <2>2 DEF InRegions
  <1>4. Packets = {} /\ \A i \in Slots : ~ring[i].attached
    BY DEF Init, Packets
  <1>5. Apart(ring, pool, Packets) /\ packet \notin held
    BY <1>4 DEF Init, Apart
  <1>6. QED
    BY <1>1, <1>2, <1>3, <1>5 DEF IInv, Ordered

LEMMA RegionsKept ==
  ASSUME InRegions, UNCHANGED <<descriptors, dma, last, starts>>,
         linkThread' = "build" <=> linkThread = "build", Fresh => held' = held
  PROVE  InRegions' /\ (Fresh' <=> Fresh)
  <1>1. /\ UNCHANGED <<ring, RxDescIdx, RxBuildDescIdx, RxBuildDescCnt>>
        /\ Fresh' <=> Fresh
    BY DEF descriptors, Fresh
  <1>2. Fresh => (Pristine => Pristine')
    BY <1>1 DEF Pristine
  <1>3. Rebuilding => Rebuilding'
    BY <1>1 DEF Rebuilding
  <1>4. InUse => InUse'
    BY <1>1 DEF InUse, Divided, FramesInOrder
  <1>5. QED
    BY <1>1, <1>2, <1>3, <1>4 DEF InRegions

\* What Ordered is about.
Seen == <<descriptors, dma, last, starts, held, pool, packet>>

LEMMA OrderKept ==
  ASSUME Ordered, UNCHANGED Seen, linkThread' = "build" <=> linkThread = "build"
  PROVE  Ordered' /\ (Fresh' <=> Fresh)
  <1>1. InRegions' /\ (Fresh' <=> Fresh)
    BY RegionsKept DEF Ordered, Seen
  <1>2. (packet \notin held)' /\ Apart(ring, pool, Packets)'
    BY DEF Ordered, Seen, descriptors, Apart, Packets
  <1>3. QED
    BY <1>1, <1>2 DEF Ordered

LEMMA QuietSteps ==
  ASSUME IInv,
         \/ IRQHandler \/ Wake \/ Sleep
         \/ \E t \in Freers : CheckAlloc(t) \/ ResetAlloc(t) \/ Signal(t)
  PROVE  IInv'
  <1>1. TypeOK /\ Control
    BY DEF IInv
  <1>2. /\ UNCHANGED Seen /\ UNCHANGED <<running, gState, linkThread, wire, clean>>
        /\ inputThread' = "post" <=> inputThread = "post"
    BY DEF Seen, IRQHandler, Wake, Sleep, CheckAlloc, ResetAlloc, Signal, threads,
       hardware, history
  <1>3. TypeOK'
    <2>1. CASE IRQHandler
      <3>1. pending' \in BOOLEAN
        BY <2>1, Zenon DEF IRQHandler
      <3>2. RxPktSemaphore' \in 0 .. 1
        BY <2>1 DEF IRQHandler
      <3>3. QED
        BY <1>1, <2>1, <3>1, <3>2 DEF TypeOK, IRQHandler, descriptors, threads, history
    <2>2. CASE Wake \/ Sleep
      <3>1. inputThread' \in {"wait", "read", "post"} /\ RxPktSemaphore' \in 0 .. 1
        BY <1>1, <2>2 DEF TypeOK, Wake, Sleep
      <3>2. QED
        BY <1>1, <2>2, <3>1 DEF TypeOK, Wake, Sleep, descriptors, hardware, history
    <2>3. CASE \E t \in Freers : CheckAlloc(t) \/ ResetAlloc(t) \/ Signal(t)
      <3>1. freer' \in [Freers -> {"idle", "check", "reset", "signal"}]
        BY <1>1, <2>3 DEF TypeOK, CheckAlloc, ResetAlloc, Signal
      <3>2. alloc_failed' \in BOOLEAN
        BY <1>1, <2>3 DEF TypeOK, CheckAlloc, ResetAlloc, Signal
      <3>3. RxPktSemaphore' \in 0 .. 1
        BY <1>1, <2>3 DEF TypeOK, CheckAlloc, ResetAlloc, Signal, AfterSignal
      <3>4. QED
        BY <1>1, <2>3, <3>1, <3>2, <3>3 DEF TypeOK, CheckAlloc, ResetAlloc, Signal,
           descriptors, hardware, history
    <2>4. QED
      BY <2>1, <2>2, <2>3
  <1>4. Control'
    BY <1>1, <1>2 DEF Control, Seen, descriptors, Fresh
  <1>5. clean' => Ordered'
    BY <1>2, OrderKept DEF IInv
  <1>6. QED
    BY <1>3, <1>4, <1>5 DEF IInv

LEMMA LinkSteps ==
  ASSUME IInv,
         Run \/ EnableIT \/ Started \/ Stop \/ DisableIT \/ Halt \/ SetAllocFailed
  PROVE  IInv'
  <1>1. TypeOK /\ Control
    BY DEF IInv
  <1>2. /\ UNCHANGED Seen /\ UNCHANGED <<wire, clean>>
        /\ linkThread' # "build" /\ linkThread # "build"
        /\ inputThread' = inputThread
    BY DEF Seen, Run, EnableIT, Started, Stop, DisableIT, Halt, SetAllocFailed, threads,
       hardware, history
  <1>3. TypeOK'
    <2>1. running' \in BOOLEAN /\ enabled' \in BOOLEAN /\ alloc_failed' \in BOOLEAN
      BY <1>1 DEF TypeOK, Run, EnableIT, Started, Stop, DisableIT, Halt,
         SetAllocFailed, hardware
    <2>2. gState' \in {"ready", "busy", "started"}
          /\ linkThread' \in {"idle", "build", "fail", "run", "enable", "started",
                              "disable", "halt"}
      BY <1>1 DEF TypeOK, Run, EnableIT, Started, Stop, DisableIT, Halt, SetAllocFailed
    <2>3. UNCHANGED <<pending, RxPktSemaphore, freer, heard>>
      BY DEF Run, EnableIT, Started, Stop, DisableIT, Halt, SetAllocFailed, threads,
         hardware, history
    <2>4. QED
      BY <1>1, <1>2, <2>1, <2>2, <2>3 DEF TypeOK, Seen, descriptors
  <1>4. Control'
    <2>1. Fresh' <=> Fresh
      BY <1>2 DEF Seen, Fresh
    <2>2. gState' = "busy" <=> linkThread' # "idle"
      BY <1>1 DEF Control, Run, EnableIT, Started, Stop, DisableIT, Halt, SetAllocFailed
    <2>3. running' <=> \/ gState' = "started"
                       \/ linkThread' \in {"enable", "started", "disable", "halt"}
      BY <1>1 DEF Control, Run, EnableIT, Started, Stop, DisableIT, Halt,
         SetAllocFailed, hardware
    <2>4. starts # 0 /\ inputThread # "post"
      BY <1>1 DEF Control, Run, EnableIT, Started, Stop, DisableIT, Halt,
         SetAllocFailed, LinkRuns, Preempted
    <2>5. linkThread' # "fail"
      BY DEF Run, EnableIT, Started, Stop, DisableIT, Halt, SetAllocFailed
    <2>6. QED
      BY <1>1, <1>2, <2>1, <2>2, <2>3, <2>4, <2>5 DEF Control, Seen, descriptors
  <1>5. clean' => Ordered'
    BY <1>2, OrderKept DEF IInv
  <1>6. QED
    BY <1>3, <1>4, <1>5 DEF IInv

-----------------------------------------------------------------------------
(* Packets.                                                                *)

\* Buffers change hands without a descriptor.
LEMMA ApartWhenMoved ==
  ASSUME NEW r, NEW f, NEW u, Apart(r, f, u),
         NEW f1, NEW u1, f1 \cap u1 = {}, f1 \cup u1 = f \cup u
  PROVE  Apart(r, f1, u1)
  BY DEF Apart

LEMMA PostStep ==
  ASSUME IInv, Post \/ Discard
  PROVE  IInv'
  <1>1. /\ TypeOK /\ Control
        /\ packet \in Buffers /\ packet' = NULL /\ inputThread' = "read"
        /\ inputThread = "post"
    BY DEF IInv, Post, Discard, TypeOK, Control
  <1>2. UNCHANGED <<descriptors, dma, running, enabled, pending, gState, linkThread,
                    freer, wire, history, starts>>
    BY DEF Post, Discard, hardware
  <1>3. TypeOK'
    <2>1. pool' \subseteq Buffers /\ held' \subseteq Buffers
      BY <1>1 DEF Post, Discard, TypeOK
    <2>2. alloc_failed' \in BOOLEAN
      BY <1>1 DEF Post, Discard, TypeOK
    <2>3. RxPktSemaphore' \in 0 .. 1
      BY <1>1 DEF Post, Discard, TypeOK
    <2>4. QED
      BY <1>1, <1>2, <2>1, <2>2, <2>3 DEF TypeOK, descriptors, history
  <1>4. Control'
    BY <1>1, <1>2 DEF Control, descriptors, Fresh, history
  <1>5. ASSUME clean' PROVE Ordered'
    <2>1. Ordered
      BY <1>2, <1>5 DEF IInv, history
    <2>2. ~Fresh
      BY <1>1 DEF Control, Fresh
    <2>3. InRegions'
      BY <1>2, <2>1, <2>2, RegionsKept DEF Ordered, history
    <2>4. pool' \cap Packets' = {} /\ pool' \cup Packets' = pool \cup Packets
      BY <1>1, <2>1, Names DEF Post, Discard, Packets, Ordered, Apart
    <2>5. Apart(ring, pool', Packets')
      BY <2>1, <2>4, ApartWhenMoved DEF Ordered
    <2>6. packet' \notin held'
      BY <1>1, <1>3, Names DEF TypeOK
    <2>7. QED
      BY <1>2, <2>3, <2>5, <2>6 DEF Ordered, descriptors
  <1>6. QED
    BY <1>3, <1>4, <1>5 DEF IInv

LEMMA FreeStep ==
  ASSUME IInv, NEW t \in Freers, FreePacket(t)
  PROVE  IInv'
  <1>1. TypeOK /\ Control /\ packet = NULL
    BY DEF IInv, Control, FreePacket, Preempted
  <1>2. PICK b \in held : held' = held \ {b} /\ pool' = pool \cup {b}
    BY DEF FreePacket
  <1>3. UNCHANGED <<descriptors, hardware, gState, alloc_failed, RxPktSemaphore,
                    inputThread, packet, linkThread, wire, history, starts>>
    BY DEF FreePacket
  <1>4. TypeOK'
    <2>1. freer' \in [Freers -> {"idle", "check", "reset", "signal"}]
      BY <1>1 DEF FreePacket, TypeOK
    <2>2. QED
      BY <1>1, <1>2, <1>3, <2>1 DEF TypeOK, descriptors, hardware, history
  <1>5. Control'
    BY <1>1, <1>3 DEF Control, descriptors, hardware, Fresh, history
  <1>6. ASSUME clean' PROVE Ordered'
    <2>1. Ordered
      BY <1>3, <1>6 DEF IInv, history
    <2>2. ~Fresh
      BY <1>2, <2>1 DEF Ordered, InRegions, Pristine
    <2>3. InRegions'
      BY <1>3, <2>1, <2>2, RegionsKept DEF Ordered, history, hardware
    <2>4. pool' \cap Packets' = {} /\ pool' \cup Packets' = pool \cup Packets
      BY <1>1, <1>2, <1>3, <2>1 DEF Packets, Ordered, Apart
    <2>5. Apart(ring, pool', Packets')
      BY <2>1, <2>4, ApartWhenMoved DEF Ordered
    <2>6. QED
      BY <1>1, <1>2, <1>3, <2>1, <2>3, <2>5 DEF Ordered, descriptors
  <1>7. QED
    BY <1>4, <1>5, <1>6 DEF IInv

-----------------------------------------------------------------------------
(* The DMA.                                                                *)

LEMMA ArriveStep ==
  ASSUME IInv, Arrive
  PROVE  IInv'
  <1>1. TypeOK /\ Control
    BY DEF IInv
  <1>2. UNCHANGED <<RxDescIdx, RxBuildDescIdx, RxBuildDescCnt, running, enabled,
                    gState, pool, alloc_failed, RxPktSemaphore, threads, held,
                    last, clean, starts>>
        /\ running /\ wire' = wire + 1 /\ wire < MaxFrames /\ wire \in 0 .. MaxFrames
    BY <1>1 DEF Arrive, TypeOK
  <1>3. ~Fresh /\ linkThread # "build"
    BY <1>1, <1>2 DEF Control, Fresh
  <1>4. ~Fresh' /\ linkThread' # "build"
    BY <1>2, <1>3 DEF Fresh, threads
  <1>5. CASE ring[dma].own
    <2>1. /\ ring' = [ring EXCEPT ![dma].own = FALSE, ![dma].frame = wire + 1]
          /\ dma' = (dma + 1) % N
      BY <1>5 DEF Arrive, Incr
    <2>2. dma \in Slots /\ ring \in [Slots -> Descriptor] /\ dma' = Behind(dma, 1)
          /\ dma' \in Slots
      BY <1>1, <2>1, BehindType, Names DEF TypeOK
    <2>3. wire + 1 \in 0 .. MaxFrames
      BY <1>2, Names
    <2>4. ring' \in [Slots -> Descriptor]
      BY <2>1, <2>2, <2>3 DEF Descriptor
    <2>5. ASSUME NEW i \in Slots
          PROVE  /\ ring'[i].buf = ring[i].buf
                 /\ ring'[i].attached = ring[i].attached
                 /\ i # dma => ring'[i] = ring[i]
                 /\ i = dma => ~ring'[i].own /\ ring'[i].frame = wire + 1
      BY <2>1, <2>2 DEF Descriptor
    <2>6. TypeOK'
      <3>1. pending' \in BOOLEAN
        BY Zenon DEF Arrive
      <3>2. heard' \in 0 .. MaxFrames
        BY <1>1, <1>5, <2>3 DEF Arrive, TypeOK
      <3>3. QED
        BY <1>1, <1>2, <2>2, <2>3, <2>4, <3>1, <3>2 DEF TypeOK, threads
    <2>7. Control'
      <3>1. last' =< wire' /\ \A i \in Slots : ring'[i].frame =< wire'
        <4>1. ASSUME NEW i \in Slots PROVE ring'[i].frame =< wire'
          <5>1. ring[i].frame \in Nat /\ ring[i].frame =< wire
            BY <1>1, Names DEF Control, TypeOK, Descriptor
          <5>2. QED
            BY <1>2, <2>5, <5>1, Names
        <4>2. QED
          BY <1>1, <1>2, <4>1, Names DEF Control, TypeOK
      <3>2. \A i \in Slots : ring'[i].buf # NULL
        BY <1>1, <1>3, <2>5 DEF Control
      <3>3. QED
        BY <1>1, <1>2, <1>3, <1>4, <3>1, <3>2 DEF Control, threads
    <2>8. ASSUME clean' PROVE Ordered'
      <3>1. Ordered
        BY <1>2, <2>8 DEF IInv
      <3>2. PICK m \in 0 .. N :
              /\ m + RxBuildDescCnt =< N
              /\ dma = Behind(RxDescIdx, m)
              /\ Divided(ring, RxDescIdx, RxBuildDescCnt, m)
              /\ FramesInOrder(ring, RxDescIdx, m, last)
        BY <1>3, <3>1 DEF Ordered, InRegions, InUse
      <3>3. RxDescIdx \in Slots /\ RxBuildDescCnt \in 0 .. N /\ N \in Nat \ {0} /\ m \in Nat
        BY <1>1, Names DEF TypeOK
      <3>4. m # N
        <4> SUFFICES ASSUME m = N PROVE FALSE
          OBVIOUS
        <4>1. dma = RxDescIdx
          BY <3>2, <3>3 DEF Behind, Slots
        <4>2. Dist(RxDescIdx, dma) = 0
          BY <3>3, <4>1, OneFurther
        <4>3. QED
          BY <1>5, <2>2, <3>2, <3>3, <4>2 DEF Divided
      <3>5. Dist(RxDescIdx, dma) = m
        BY <3>2, <3>3, <3>4, BehindType
      <3>6. m < N - RxBuildDescCnt
        BY <1>5, <2>2, <3>2, <3>3, <3>5 DEF Divided
      <3>7. dma' = Behind(RxDescIdx, m + 1) /\ m + 1 \in 0 .. N /\ m + 1 + RxBuildDescCnt =< N
        <4>1. 1 \in 0 .. N /\ m + 1 \in 0 .. N /\ m + 1 + RxBuildDescCnt =< N /\ m + 1 =< N
          BY <3>3, <3>6
        <4>2. QED
          BY <2>2, <3>2, <3>3, <4>1, BehindTwice
      <3>8. \A i \in Slots : /\ Dist(RxDescIdx, i) \in Nat
                             /\ Dist(RxDescIdx, i) = m => i = dma
        BY <2>2, <3>3, <3>5, DistType
      <3>9. Divided(ring', RxDescIdx, RxBuildDescCnt, m + 1)
        <4>1. ASSUME NEW i \in Slots
              PROVE  /\ Dist(RxDescIdx, i) < m + 1 => ~ring'[i].own /\ ring'[i].attached
                     /\ m + 1 =< Dist(RxDescIdx, i) /\ Dist(RxDescIdx, i) < N - RxBuildDescCnt
                          => ring'[i].own /\ ring'[i].attached
                     /\ N - RxBuildDescCnt =< Dist(RxDescIdx, i)
                          => ~ring'[i].own /\ ~ring'[i].attached
          <5>1. CASE i = dma
            BY <2>5, <3>2, <3>3, <3>5, <3>6, <5>1 DEF Divided
          <5>2. CASE i # dma
            BY <2>5, <3>2, <3>3, <3>8, <5>2 DEF Divided
          <5>3. QED
            BY <5>1, <5>2
        <4>2. QED
          BY <4>1 DEF Divided
      <3>10. FramesInOrder(ring', RxDescIdx, m + 1, last)
        <4>1. \A i \in Slots : ring[i].frame \in Nat /\ ring[i].frame =< wire
                               /\ ring'[i].frame = IF i = dma THEN wire + 1 ELSE ring[i].frame
          BY <1>1, <2>5, Names DEF Control, TypeOK, Descriptor
        <4>2. last \in Nat /\ last =< wire /\ wire \in Nat
          BY <1>1, Names DEF Control, TypeOK
        <4>3. ASSUME NEW i \in Slots, Dist(RxDescIdx, i) < m + 1 PROVE last < ring'[i].frame
          BY <3>2, <3>3, <3>8, <4>1, <4>2, <4>3 DEF FramesInOrder
        <4>4. ASSUME NEW i \in Slots, NEW j \in Slots,
                     Dist(RxDescIdx, i) < Dist(RxDescIdx, j), Dist(RxDescIdx, j) < m + 1
              PROVE  ring'[i].frame < ring'[j].frame
          <5>1. i # dma
            BY <3>3, <3>5, <3>8, <4>4
          <5>2. CASE j = dma
            BY <4>1, <4>2, <5>1, <5>2
          <5>3. CASE j # dma
            <6>1. Dist(RxDescIdx, j) < m
              BY <3>3, <3>8, <4>4, <5>3
            <6>2. QED
              BY <3>2, <4>1, <4>4, <5>1, <5>3, <6>1 DEF FramesInOrder
          <5>4. QED
            BY <5>2, <5>3
        <4>5. QED
          BY <4>3, <4>4 DEF FramesInOrder
      <3>11. InUse'
        <4> DEFINE n == m + 1
        <4>1. /\ n \in 0 .. N /\ n + RxBuildDescCnt =< N /\ dma' = Behind(RxDescIdx, n)
              /\ Divided(ring', RxDescIdx, RxBuildDescCnt, n)
              /\ FramesInOrder(ring', RxDescIdx, n, last)
          BY <3>7, <3>9, <3>10
        <4> HIDE DEF n
        <4>2. QED
          BY <1>2, <4>1 DEF InUse
      <3>12. InRegions'
        BY <1>2, <1>4, <3>1, <3>11 DEF InRegions, Ordered
      <3>13. Apart(ring', pool, Packets)
        BY <2>5, <3>1 DEF Apart, Ordered
      <3>14. QED
        BY <1>2, <3>1, <3>12, <3>13 DEF Ordered, Packets, threads
    <2>9. QED
      BY <2>6, <2>7, <2>8 DEF IInv
  <1>6. CASE ~ring[dma].own
    <2>1. UNCHANGED <<ring, dma, heard>>
      BY <1>6 DEF Arrive
    <2>2. wire' \in 0 .. MaxFrames /\ pending' \in BOOLEAN
      <3>1. pending' \in BOOLEAN
        BY Zenon DEF Arrive
      <3>2. wire' \in 0 .. MaxFrames
        BY <1>2, Names
      <3>3. QED
        BY <3>1, <3>2
    <2>3. TypeOK'
      BY <1>1, <1>2, <2>1, <2>2 DEF TypeOK, threads
    <2>4. Control'
      <3>1. last' =< wire' /\ \A i \in Slots : ring'[i].frame =< wire'
        <4>1. last \in Nat /\ last =< wire /\ wire \in Nat
              /\ \A i \in Slots : ring[i].frame \in Nat /\ ring[i].frame =< wire
          BY <1>1, Names DEF Control, TypeOK, Descriptor
        <4>2. QED
          BY <1>2, <2>1, <4>1
      <3>2. QED
        BY <1>1, <1>2, <1>3, <1>4, <2>1, <3>1 DEF Control, threads
    <2>5. clean' => Ordered'
      BY <1>2, <2>1, OrderKept DEF IInv, Seen, descriptors, threads
    <2>6. QED
      BY <2>3, <2>4, <2>5 DEF IInv
  <1>7. QED
    BY <1>5, <1>6

-----------------------------------------------------------------------------
(* The input thread reads.                                                 *)

LEMMA UpdateTypes ==
  ASSUME TypeOK, NEW r \in [Slots -> Descriptor], NEW cnt \in 0 .. N,
         UpdateDescriptor(r, cnt, pool)
  PROVE  /\ ring' \in [Slots -> Descriptor] /\ pool' \subseteq Buffers
         /\ RxBuildDescIdx' \in Slots /\ RxBuildDescCnt' \in 0 .. N
         /\ \A i \in Slots : /\ ring'[i].frame = r[i].frame
                             /\ r[i].buf # NULL => ring'[i].buf # NULL
  <1>1. pool \in SUBSET Buffers /\ RxBuildDescIdx \in Slots /\ N \in Nat
    BY Names DEF TypeOK
  <1>2. PICK k \in 0 .. cnt : \E h \in [Lacking(r, k) -> pool] : Gives(r, cnt, k, h)
    BY UpdateGives
  <1>3. PICK h \in [Lacking(r, k) -> pool] : Gives(r, cnt, k, h)
    BY <1>2
  <1>4. k \in 0 .. N /\ cnt - k \in 0 .. N
    BY <1>1
  <1>5. /\ Given(r, k, h) \in [Slots -> Descriptor]
        /\ \A i \in Slots : /\ Given(r, k, h)[i].frame = r[i].frame
                            /\ Given(r, k, h)[i].buf = IF i \in Lacking(r, k) THEN h[i]
                                                                            ELSE r[i].buf
    BY <1>1, <1>4, GivenFields
  <1>6. \A i \in Lacking(r, k) : h[i] # NULL
    BY <1>1, Names
  <1>7. QED
    BY <1>1, <1>3, <1>4, <1>5, <1>6, BehindType DEF Gives

LEMMA UpdateOrders ==
  ASSUME TypeOK, NEW r \in [Slots -> Descriptor], NEW cnt \in 0 .. N,
         UpdateDescriptor(r, cnt, pool),
         NEW m \in 0 .. N, m + cnt =< N, NEW rd, rd = Behind(RxBuildDescIdx, cnt),
         Divided(r, rd, cnt, m),
         NEW n, FramesInOrder(r, rd, m, n),
         NEW u, Apart(r, pool, u)
  PROVE  /\ m + RxBuildDescCnt' =< N
         /\ rd = Behind(RxBuildDescIdx', RxBuildDescCnt')
         /\ Divided(ring', rd, RxBuildDescCnt', m)
         /\ FramesInOrder(ring', rd, m, n)
         /\ Apart(ring', pool', u)
  <1>1. pool \in SUBSET Buffers /\ RxBuildDescIdx \in Slots /\ N \in Nat
    BY Names DEF TypeOK
  <1>2. PICK k \in 0 .. cnt : \E h \in [Lacking(r, k) -> pool] : Gives(r, cnt, k, h)
    BY UpdateGives
  <1>3. PICK h \in [Lacking(r, k) -> pool] : Gives(r, cnt, k, h)
    BY <1>2
  <1>4. k \in 0 .. N /\ m + (cnt - k) =< N
    BY <1>1
  <1>5. Apart(ring', pool', u)
    BY <1>1, <1>3, <1>4, GivenApart DEF Gives
  <1>6. /\ Divided(Given(r, k, h), rd, cnt - k, m)
        /\ rd = Behind(Behind(RxBuildDescIdx, k), cnt - k)
        /\ \A x : FramesInOrder(r, rd, m, x) => FramesInOrder(Given(r, k, h), rd, m, x)
    <2>1. h \in [Lacking(r, k) -> pool] /\ k \in 0 .. cnt
      OBVIOUS
    <2>2. QED
      BY <1>1, <2>1, GivenDivided
  <1>7. QED
    BY <1>3, <1>4, <1>5, <1>6 DEF Gives

LEMMA ReadNothingStep ==
  ASSUME IInv, ReadNothing
  PROVE  IInv'
  <1>1. TypeOK /\ Control /\ gState = "started" /\ packet = NULL
        /\ ring \in [Slots -> Descriptor] /\ RxBuildDescCnt \in 0 .. N
    BY DEF IInv, ReadNothing, TypeOK, Control
  <1>2. UNCHANGED <<RxDescIdx, hardware, gState, RxPktSemaphore, packet, linkThread,
                    freer, held, wire, history, starts>>
        /\ UpdateDescriptor(ring, RxBuildDescCnt, pool)
        /\ inputThread = "read" /\ inputThread' = "wait"
    BY DEF ReadNothing
  <1>3. ~Fresh /\ linkThread # "build" /\ ~Fresh'
    BY <1>1, <1>2 DEF Control, Fresh
  <1>4. /\ ring' \in [Slots -> Descriptor] /\ pool' \subseteq Buffers
        /\ RxBuildDescIdx' \in Slots /\ RxBuildDescCnt' \in 0 .. N
        /\ \A i \in Slots : /\ ring'[i].frame = ring[i].frame
                            /\ ring[i].buf # NULL => ring'[i].buf # NULL
    BY <1>1, <1>2, UpdateTypes
  <1>5. TypeOK'
    <2>1. alloc_failed' \in BOOLEAN
      BY DEF ReadNothing
    <2>2. QED
      BY <1>1, <1>2, <1>4, <2>1 DEF TypeOK, hardware, history
  <1>6. Control'
    BY <1>1, <1>2, <1>3, <1>4 DEF Control, hardware, history
  <1>7. ASSUME clean' PROVE Ordered'
    <2>1. Ordered
      BY <1>2, <1>7 DEF IInv, history
    <2>2. PICK m \in 0 .. N :
            /\ m + RxBuildDescCnt =< N
            /\ dma = Behind(RxDescIdx, m)
            /\ Divided(ring, RxDescIdx, RxBuildDescCnt, m)
            /\ FramesInOrder(ring, RxDescIdx, m, last)
      BY <1>3, <2>1 DEF Ordered, InRegions, InUse
    <2>3. RxDescIdx = Behind(RxBuildDescIdx, RxBuildDescCnt) /\ Apart(ring, pool, Packets)
      BY <2>1 DEF Ordered, InRegions
    <2>4. /\ m + RxBuildDescCnt' =< N
          /\ RxDescIdx = Behind(RxBuildDescIdx', RxBuildDescCnt')
          /\ Divided(ring', RxDescIdx, RxBuildDescCnt', m)
          /\ FramesInOrder(ring', RxDescIdx, m, last)
          /\ Apart(ring', pool', Packets)
      BY <1>1, <1>2, <2>2, <2>3, UpdateOrders
    <2>5. InUse'
      BY <1>2, <2>2, <2>4 DEF InUse, hardware, history
    <2>6. QED
      BY <1>2, <1>3, <2>1, <2>4, <2>5 DEF Ordered, InRegions, Packets
  <1>8. QED
    BY <1>5, <1>6, <1>7 DEF IInv

\* What ReadFrame finds, and leaves to UpdateDescriptor.
LEMMA FrameFound ==
  ASSUME IInv, clean, ReadFrame
  PROVE  \E m \in 1 .. N :
           /\ m - 1 + (RxBuildDescCnt + 1) =< N
           /\ dma = Behind(Incr(RxDescIdx), m - 1)
           /\ Incr(RxDescIdx) = Behind(RxBuildDescIdx, RxBuildDescCnt + 1)
           /\ Divided(ring, RxDescIdx, RxBuildDescCnt, m)
           /\ Divided(Detached, Incr(RxDescIdx), RxBuildDescCnt + 1, m - 1)
           /\ FramesInOrder(ring, RxDescIdx, m, last)
           /\ FramesInOrder(Detached, Incr(RxDescIdx), m - 1, ring[RxDescIdx].frame)
           /\ last < ring[RxDescIdx].frame
           /\ ring[RxDescIdx].attached
  <1> DEFINE rd == RxDescIdx
             r1 == Detached
             i1 == Incr(RxDescIdx)
             c  == RxBuildDescCnt
  <1>1. TypeOK /\ Control /\ Ordered /\ gState = "started" /\ FrameReady
    BY DEF IInv, ReadFrame
  <1>2. /\ rd \in Slots /\ c \in 0 .. N /\ ring \in [Slots -> Descriptor] /\ N \in Nat \ {0}
        /\ RxBuildDescIdx \in Slots
    BY <1>1, Names DEF TypeOK
  <1>3. ~Fresh /\ linkThread # "build"
    BY <1>1 DEF Control, Fresh
  <1>4. PICK m \in 0 .. N : /\ m + c =< N
                            /\ dma = Behind(rd, m)
                            /\ Divided(ring, rd, c, m)
                            /\ FramesInOrder(ring, rd, m, last)
    BY <1>1, <1>3 DEF Ordered, InRegions, InUse
  <1>5. Dist(rd, rd) = 0 /\ c < N /\ ~ring[rd].own
    BY <1>1, <1>2, OneFurther DEF FrameReady
  <1>6. m > 0 /\ m \in Nat
    <2>1. CASE m = 0
      BY <1>2, <1>4, <1>5, <2>1 DEF Divided
    <2>2. QED
      BY <2>1, <1>2
  <1>7. ring[rd].attached /\ last < ring[rd].frame
    BY <1>2, <1>4, <1>5, <1>6 DEF Divided, FramesInOrder
  <1>8. i1 = Behind(rd, 1) /\ i1 \in Slots
    BY <1>2, BehindType DEF Incr
  <1>9. dma = Behind(i1, m - 1) /\ i1 = Behind(RxBuildDescIdx, c + 1)
    <2>1. 1 \in 0 .. N /\ m - 1 \in 0 .. N /\ 1 + (m - 1) = m /\ m =< N /\ c + 1 =< N
      BY <1>2, <1>5, <1>6
    <2>2. Behind(i1, m - 1) = Behind(rd, m)
      BY <1>2, <1>8, <2>1, BehindTwice
    <2>3. rd = Behind(RxBuildDescIdx, c)
      BY <1>1 DEF Ordered, InRegions
    <2>4. QED
      BY <1>2, <1>4, <1>8, <2>1, <2>2, <2>3, BehindTwice
  <1>10. ASSUME NEW i \in Slots
         PROVE  /\ r1[i].own = ring[i].own /\ r1[i].frame = ring[i].frame
                /\ i # rd => r1[i].attached = ring[i].attached
                /\ i = rd => ~r1[i].attached
    BY <1>2 DEF Detached, Descriptor
  <1>11. \A i \in Slots : /\ Dist(rd, i) \in Nat /\ Dist(i1, i) \in Nat
                          /\ i # rd => Dist(i1, i) = Dist(rd, i) - 1
                          /\ i = rd => Dist(i1, i) = N - 1
    <2>1. \A i \in Slots : Dist(rd, i) \in Nat /\ Dist(i1, i) \in Nat
      BY <1>2, <1>8, DistType
    <2>2. QED
      BY <1>2, <1>8, <2>1, OneFurther
  <1> HIDE DEF rd, r1, i1, c
  <1>12. Divided(r1, i1, c + 1, m - 1)
    <2>1. ASSUME NEW i \in Slots
          PROVE  /\ Dist(i1, i) < m - 1 => ~r1[i].own /\ r1[i].attached
                 /\ m - 1 =< Dist(i1, i) /\ Dist(i1, i) < N - (c + 1)
                      => r1[i].own /\ r1[i].attached
                 /\ N - (c + 1) =< Dist(i1, i) => ~r1[i].own /\ ~r1[i].attached
      <3>1. CASE i = rd
        BY <1>2, <1>4, <1>5, <1>6, <1>10, <1>11, <3>1
      <3>2. CASE i # rd
        <4>1. /\ Dist(rd, i) < m => ~ring[i].own /\ ring[i].attached
              /\ m =< Dist(rd, i) /\ Dist(rd, i) < N - c => ring[i].own /\ ring[i].attached
              /\ N - c =< Dist(rd, i) => ~ring[i].own /\ ~ring[i].attached
          BY <1>4 DEF Divided
        <4>2. /\ r1[i].own <=> ring[i].own
              /\ r1[i].attached <=> ring[i].attached
          BY <1>10, <3>2
        <4>3. Dist(i1, i) = Dist(rd, i) - 1 /\ Dist(rd, i) \in Nat
          BY <1>11, <3>2
        <4>4. QED
          BY <1>2, <1>6, <4>1, <4>2, <4>3
      <3>3. QED
        BY <3>1, <3>2
    <2>2. QED
      BY <2>1 DEF Divided
  <1>13. FramesInOrder(r1, i1, m - 1, ring[rd].frame)
    <2>1. ASSUME NEW i \in Slots, Dist(i1, i) < m - 1
          PROVE  i # rd /\ Dist(rd, i) < m /\ Dist(rd, rd) < Dist(rd, i)
                 /\ Dist(i1, i) = Dist(rd, i) - 1
      BY <1>2, <1>5, <1>6, <1>11, <2>1
    <2>2. ASSUME NEW i \in Slots, Dist(i1, i) < m - 1 PROVE ring[rd].frame < r1[i].frame
      BY <1>2, <1>4, <1>10, <2>1, <2>2 DEF FramesInOrder
    <2>3. ASSUME NEW i \in Slots, NEW j \in Slots, Dist(i1, i) < Dist(i1, j),
                 Dist(i1, j) < m - 1
          PROVE  r1[i].frame < r1[j].frame
      <3>1. Dist(i1, i) < m - 1
        BY <1>6, <1>11, <2>3
      <3>2. Dist(rd, i) < Dist(rd, j) /\ Dist(rd, j) < m
        BY <1>11, <2>1, <2>3, <3>1
      <3>3. QED
        BY <1>4, <1>10, <3>2 DEF FramesInOrder
    <2>4. QED
      BY <2>2, <2>3 DEF FramesInOrder
  <1>14. m \in 1 .. N /\ m - 1 + (c + 1) =< N
    BY <1>2, <1>4, <1>6
  <1>15. QED
    BY <1>4, <1>7, <1>9, <1>12, <1>13, <1>14 DEF rd, r1, i1, c

LEMMA ReadFrameStep ==
  ASSUME IInv, ReadFrame
  PROVE  IInv'
  <1> DEFINE i1 == Incr(RxDescIdx)
             c  == RxBuildDescCnt
             d  == ring[RxDescIdx]
  <1>1. TypeOK /\ Control /\ gState = "started" /\ packet = NULL /\ FrameReady
    BY DEF IInv, ReadFrame, Control
  <1>2. /\ RxDescIdx \in Slots /\ c \in 0 .. N /\ ring \in [Slots -> Descriptor]
        /\ N \in Nat \ {0} /\ d \in Descriptor
    BY <1>1, Names DEF TypeOK
  <1>3. /\ UNCHANGED <<hardware, gState, RxPktSemaphore, linkThread, freer, held,
                      wire, heard, clean, starts>>
        /\ UpdateDescriptor(Detached, c + 1, pool)
        /\ RxDescIdx' = i1 /\ packet' = d.buf /\ last' = d.frame
        /\ inputThread = "read" /\ inputThread' = "post"
    BY DEF ReadFrame
  <1>4. ~Fresh /\ linkThread # "build" /\ ~Fresh'
    BY <1>1, <1>3 DEF Control, Fresh
  <1>5. c + 1 \in 0 .. N /\ Detached \in [Slots -> Descriptor]
    <2>1. c + 1 \in 0 .. N
      BY <1>1, <1>2 DEF FrameReady
    <2>2. [d EXCEPT !.attached = FALSE] \in Descriptor
      <3> HIDE DEF d
      <3>1. QED
        BY <1>2 DEF Descriptor
    <2>3. Detached = [ring EXCEPT ![RxDescIdx] = [d EXCEPT !.attached = FALSE]]
      BY DEF Detached
    <2> HIDE DEF c, d
    <2>4. QED
      BY <1>2, <2>1, <2>2, <2>3
  <1>6. ASSUME NEW i \in Slots
        PROVE  /\ Detached[i].buf = ring[i].buf /\ Detached[i].frame = ring[i].frame
               /\ Detached[i].attached <=> i # RxDescIdx /\ ring[i].attached
    BY <1>2 DEF Detached, Descriptor
  <1>7. /\ ring' \in [Slots -> Descriptor] /\ pool' \subseteq Buffers
        /\ RxBuildDescIdx' \in Slots /\ RxBuildDescCnt' \in 0 .. N
        /\ \A i \in Slots : /\ ring'[i].frame = ring[i].frame
                            /\ ring[i].buf # NULL => ring'[i].buf # NULL
    BY <1>1, <1>3, <1>5, <1>6, UpdateTypes
  <1>8. d.buf \in Buffers /\ d.frame \in 0 .. MaxFrames /\ d.frame =< wire
    BY <1>1, <1>2, <1>4 DEF Control, Descriptor
  <1>9. TypeOK'
    <2>1. alloc_failed' \in BOOLEAN
      BY DEF ReadFrame
    <2>2. i1 \in Slots
      BY <1>2, BehindType DEF Incr
    <2>3. QED
      BY <1>1, <1>3, <1>7, <1>8, <2>1, <2>2 DEF TypeOK, hardware
  <1>10. Control'
    <2>1. packet' # NULL
      BY <1>3, <1>8, Names
    <2>2. last' =< wire' /\ \A i \in Slots : ring'[i].frame =< wire'
      BY <1>1, <1>3, <1>7, <1>8 DEF Control
    <2>3. QED
      BY <1>1, <1>3, <1>4, <1>7, <2>1, <2>2 DEF Control, hardware
  <1>11. ASSUME clean' PROVE Ordered'
    <2>1. clean /\ Ordered
      BY <1>3, <1>11 DEF IInv
    <2>2. PICK m \in 1 .. N :
            /\ m - 1 + (c + 1) =< N
            /\ dma = Behind(i1, m - 1)
            /\ i1 = Behind(RxBuildDescIdx, c + 1)
            /\ Divided(Detached, i1, c + 1, m - 1)
            /\ FramesInOrder(Detached, i1, m - 1, d.frame)
            /\ d.attached
      BY <2>1, FrameFound
    <2>3. Packets = held /\ Packets' = held \cup {d.buf}
      BY <1>1, <1>3, <1>8, Names DEF Packets
    <2>4. d.buf \notin pool \cup held
      BY <1>2, <2>1, <2>2, <2>3 DEF Ordered, Apart
    <2>5. Apart(Detached, pool, held \cup {d.buf})
      <3>1. Apart(ring, pool, held)
        BY <2>1, <2>3 DEF Ordered
      <3>2. pool \cap (held \cup {d.buf}) = {}
        BY <2>4, <3>1 DEF Apart
      <3>3. ASSUME NEW i \in Slots, Detached[i].attached
            PROVE  Detached[i].buf \in Buffers \ (pool \cup (held \cup {d.buf}))
        <4>1. i # RxDescIdx /\ ring[i].attached /\ Detached[i].buf = ring[i].buf
          BY <1>6, <3>3
        <4>2. ring[i].buf # d.buf
          BY <1>2, <2>2, <3>1, <4>1 DEF Apart
        <4>3. QED
          BY <3>1, <4>1, <4>2 DEF Apart
      <3>4. ASSUME NEW i \in Slots, NEW k \in Slots, Detached[i].attached,
                   Detached[k].attached, Detached[i].buf = Detached[k].buf
            PROVE  i = k
        <4>1. ring[i].attached /\ ring[k].attached /\ ring[i].buf = ring[k].buf
          BY <1>6, <3>4
        <4>2. QED
          BY <3>1, <4>1 DEF Apart
      <3>5. ASSUME NEW b \in Buffers \ (pool \cup (held \cup {d.buf}))
            PROVE  \E i \in Slots : Detached[i].attached /\ Detached[i].buf = b
        <4>1. PICK i \in Slots : ring[i].attached /\ ring[i].buf = b
          BY <3>1 DEF Apart
        <4>2. i # RxDescIdx
          BY <4>1
        <4>3. QED
          BY <1>6, <4>1, <4>2
      <3>6. QED
        BY <3>2, <3>3, <3>4, <3>5 DEF Apart
    <2>6. m - 1 \in 0 .. N
      BY <1>2
    <2>7. /\ m - 1 + RxBuildDescCnt' =< N
          /\ i1 = Behind(RxBuildDescIdx', RxBuildDescCnt')
          /\ Divided(ring', i1, RxBuildDescCnt', m - 1)
          /\ FramesInOrder(ring', i1, m - 1, d.frame)
          /\ Apart(ring', pool', held \cup {d.buf})
      <3> HIDE DEF i1, c, d
      <3>1. QED
        BY <1>1, <1>3, <1>5, <2>2, <2>5, <2>6, UpdateOrders
    <2>8. InUse'
      <3> DEFINE n == m - 1
      <3>1. /\ n \in 0 .. N /\ n + RxBuildDescCnt' =< N /\ dma = Behind(i1, n)
            /\ Divided(ring', i1, RxBuildDescCnt', n)
            /\ FramesInOrder(ring', i1, n, d.frame)
        BY <2>2, <2>6, <2>7
      <3> HIDE DEF n
      <3>2. QED
        BY <1>3, <3>1 DEF InUse, hardware
    <2>9. packet' \notin held'
      BY <1>3, <2>4
    <2>10. InRegions'
      BY <1>3, <1>4, <2>7, <2>8 DEF InRegions
    <2>11. QED
      BY <2>3, <2>7, <2>9, <2>10 DEF Ordered
  <1>12. QED
    BY <1>9, <1>10, <1>11 DEF IInv


-----------------------------------------------------------------------------
(* The starts.                                                             *)

LEMMA StartStep ==
  ASSUME IInv, Start
  PROVE  IInv'
  <1>1. TypeOK /\ Control
    BY DEF IInv
  <1>2. /\ UNCHANGED <<ring, RxDescIdx, RxBuildDescIdx, hardware, pool, alloc_failed,
                       RxPktSemaphore, inputThread, packet, freer, held, wire, last, heard>>
        /\ starts < MaxStarts /\ starts' = starts + 1
        /\ clean' = (clean /\ ReadOut)
        /\ gState = "ready" /\ gState' = "busy"
        /\ RxBuildDescCnt' = N
        /\ linkThread = "idle" /\ linkThread' = "build"
        /\ inputThread # "post"
    BY DEF Start, LinkRuns, Preempted
  <1>3. N \in Nat \ {0} /\ starts \in Nat /\ starts + 1 \in 0 .. MaxStarts /\ N \in 0 .. N
        /\ RxBuildDescIdx \in Slots /\ RxDescIdx \in Slots
    BY <1>1, <1>2, Names DEF TypeOK
  <1>4. TypeOK'
    <2>1. clean' \in BOOLEAN
      BY <1>2, Zenon
    <2>2. QED
      BY <1>1, <1>2, <1>3, <2>1 DEF TypeOK, hardware
  <1>5. (Fresh <=> starts = 0) /\ (Fresh' <=> starts = 0)
    BY <1>2, <1>3 DEF Fresh
  <1>6. ASSUME starts = 0
        PROVE  /\ clean /\ clean' /\ RxBuildDescCnt = 0 /\ Ordered /\ Pristine
               /\ \A i \in Slots : ~ring[i].attached
    <2>1. clean /\ Ordered /\ Pristine /\ RxBuildDescCnt = 0
      BY <1>1, <1>5, <1>6 DEF IInv, Control, Ordered, InRegions
    <2>2. \A i \in Slots : ring[i].own /\ ~ring[i].attached
      BY <1>2, <2>1 DEF Pristine
    <2>3. QED
      BY <1>2, <2>1, <2>2 DEF ReadOut
  <1>7. Control'
    <2>1. running' <=> \/ gState' = "started"
                       \/ linkThread' \in {"enable", "started", "disable", "halt"}
      BY <1>1, <1>2 DEF Control, hardware
    <2>2. Fresh' => clean'
      BY <1>5, <1>6
    <2>3. Fresh' \/ \A i \in Slots : ring'[i].buf # NULL
      BY <1>1, <1>2, <1>5 DEF Control
    <2>4. starts' # 0 /\ (linkThread' = "fail" => ~clean')
      BY <1>2, <1>3
    <2>5. QED
      BY <1>1, <1>2, <2>1, <2>2, <2>3, <2>4 DEF Control
  <1>8. ASSUME clean' PROVE Ordered'
    <2>1. clean /\ RxBuildDescCnt = 0 /\ (\A i \in Slots : ring[i].own) /\ Ordered
      BY <1>2, <1>8 DEF IInv, ReadOut
    <2>2. RxDescIdx' = Behind(RxBuildDescIdx', RxBuildDescCnt')
      BY <1>2, <1>3, <2>1 DEF Ordered, InRegions, Behind, Slots
    <2>3. CASE starts = 0
      <3>1. \A i \in Slots : ~ (Dist(RxDescIdx, i) < N - N)
        BY <1>3, DistType
      <3>2. Pristine'
        BY <1>2, <1>6, <2>1, <2>3, <3>1 DEF Pristine, hardware
      <3>3. QED
        BY <1>2, <1>5, <2>1, <2>2, <2>3, <3>2 DEF Ordered, InRegions, Packets
    <2>4. CASE starts # 0
      <3>1. PICK m \in 0 .. N :
              /\ m + RxBuildDescCnt =< N
              /\ dma = Behind(RxDescIdx, m)
              /\ Divided(ring, RxDescIdx, RxBuildDescCnt, m)
        BY <1>2, <1>5, <2>1, <2>4 DEF Ordered, InRegions, InUse
      <3>2. Dist(RxDescIdx, RxDescIdx) = 0 /\ \A i \in Slots : Dist(RxDescIdx, i) \in Nat
                                                               /\ Dist(RxDescIdx, i) < N
        BY <1>3, OneFurther, DistType
      <3>3. m = 0
        BY <1>3, <2>1, <3>1, <3>2 DEF Divided
      <3>4. \A i \in Slots : ring[i].attached
        BY <1>3, <2>1, <3>1, <3>2, <3>3 DEF Divided
      <3>5. dma = RxDescIdx
        BY <1>3, <3>1, <3>3 DEF Behind, Slots
      <3>6. Rebuilding'
        BY <1>2, <2>1, <3>4, <3>5 DEF Rebuilding, hardware
      <3>7. QED
        BY <1>2, <1>5, <2>1, <2>2, <2>4, <3>6 DEF Ordered, InRegions, Packets
    <2>5. QED
      BY <2>3, <2>4
  <1>9. QED
    BY <1>4, <1>7, <1>8 DEF IInv


\* The link thread gives one descriptor back, as ETH_UpdateDescriptor does.
LEMMA BuildGives ==
  ASSUME TypeOK, Build
  PROVE  \E h \in [Lacking(ring, 1) -> pool] : Gives(ring, RxBuildDescCnt, 1, h)
  <1> DEFINE b == RxBuildDescIdx
             L == Lacking(ring, 1)
  <1>1. /\ b \in Slots /\ N \in Nat \ {0} /\ 1 \in 0 .. N
        /\ ring \in [Slots -> Descriptor] /\ ring[b] \in Descriptor
    BY Names DEF TypeOK
  <1>2. \A i \in Slots : Dist(b, i) < 1 <=> i = b
    <2>1. ASSUME NEW i \in Slots PROVE Dist(b, i) < 1 <=> i = b
      <3>1. Dist(b, i) \in Nat /\ Dist(b, b) = 0
        BY <1>1, DistType, OneFurther
      <3>2. i # b => Dist(b, i) > 0
        BY <1>1, OneFurther
      <3>3. QED
        BY <3>1, <3>2
    <2>2. QED
      BY <2>1
  <1>3. RxBuildDescIdx' = Behind(RxBuildDescIdx, 1) /\ RxBuildDescCnt' = RxBuildDescCnt - 1
    BY <1>1, BehindType DEF Build, Incr
  <1>4. CASE ring[b].attached
    <2>1. ring' = [ring EXCEPT ![b].own = TRUE] /\ pool' = pool
      BY <1>4 DEF Build
    <2>2. L = {}
      BY <1>2, <1>4 DEF Lacking
    <2> DEFINE h == [i \in L |-> NULL]
    <2>3. h \in [L -> pool] /\ {h[i] : i \in L} = {}
      BY <2>2
    <2> HIDE DEF h
    <2>4. ring' = Given(ring, 1, h)
      <3>1. ASSUME NEW i \in Slots PROVE ring'[i] = Given(ring, 1, h)[i]
        <4>1. CASE i = b
          <5>1. Given(ring, 1, h)[i] = [ring[b] EXCEPT !.own = TRUE, !.attached = TRUE,
                                                       !.buf = @]
            BY <1>2, <2>2, <4>1, Zenon DEF Given
          <5>2. ring'[i] = [ring[b] EXCEPT !.own = TRUE]
            BY <1>1, <2>1, <4>1, Zenon
          <5>3. [ring[b] EXCEPT !.own = TRUE, !.attached = TRUE, !.buf = @]
                  = [ring[b] EXCEPT !.own = TRUE]
            <6> DEFINE d == ring[b]
            <6>1. d \in Descriptor /\ d.attached = TRUE
              BY <1>1, <1>4 DEF Descriptor
            <6> HIDE DEF d
            <6>2. [d EXCEPT !.own = TRUE, !.attached = TRUE, !.buf = @] = [d EXCEPT !.own = TRUE]
              BY <6>1 DEF Descriptor
            <6>3. QED
              BY <6>2 DEF d
          <5>4. QED
            BY <5>1, <5>2, <5>3, Zenon
        <4>2. CASE i # b
          <5>1. Given(ring, 1, h)[i] = ring[i]
            BY <1>2, <4>2, Zenon DEF Given
          <5>2. QED
            BY <1>1, <2>1, <4>2, <5>1
        <4>3. QED
          BY <4>1, <4>2
      <3>2. ring' = [i \in Slots |-> ring'[i]]
        BY <1>1, <2>1
      <3>3. QED
        BY <3>1, <3>2 DEF Given
    <2>5. Gives(ring, RxBuildDescCnt, 1, h)
      <3>1. pool' = pool \ {h[i] : i \in L}
        BY <2>1, <2>3
      <3>2. QED
        BY <1>3, <2>2, <2>4, <3>1 DEF Gives
    <2>6. QED
      BY <2>3, <2>5
  <1>5. CASE ~ring[b].attached
    <2>1. PICK x \in pool :
            /\ ring' = [ring EXCEPT ![b] =
                          [@ EXCEPT !.own = TRUE, !.attached = TRUE, !.buf = x]]
            /\ pool' = pool \ {x}
      BY <1>5 DEF Build
    <2>2. L = {b}
      BY <1>1, <1>2, <1>5 DEF Lacking
    <2> DEFINE h == [i \in L |-> x]
    <2>3. /\ h \in [L -> pool] /\ {h[i] : i \in L} = {x} /\ h[b] = x
          /\ \A i, j \in L : h[i] = h[j] => i = j
      BY <2>2
    <2> HIDE DEF h
    <2>4. ring' = Given(ring, 1, h)
      <3>1. ASSUME NEW i \in Slots PROVE ring'[i] = Given(ring, 1, h)[i]
        <4>1. CASE i = b
          <5>1. Given(ring, 1, h)[i] = [ring[b] EXCEPT !.own = TRUE, !.attached = TRUE,
                                                       !.buf = h[i]]
            BY <1>2, <2>2, <4>1, Zenon DEF Given
          <5>2. ring'[i] = [ring[b] EXCEPT !.own = TRUE, !.attached = TRUE, !.buf = x]
            BY <1>1, <2>1, <4>1, Zenon
          <5>3. QED
            BY <2>3, <4>1, <5>1, <5>2, Zenon
        <4>2. CASE i # b
          <5>1. Given(ring, 1, h)[i] = ring[i]
            BY <1>2, <4>2, Zenon DEF Given
          <5>2. QED
            BY <1>1, <2>1, <4>2, <5>1
        <4>3. QED
          BY <4>1, <4>2
      <3>2. ring' = [i \in Slots |-> ring'[i]]
        BY <1>1, <2>1
      <3>3. QED
        BY <3>1, <3>2 DEF Given
    <2>5. Gives(ring, RxBuildDescCnt, 1, h)
      <3>1. pool' = pool \ {h[i] : i \in L}
        BY <2>1, <2>3
      <3>2. QED
        BY <1>3, <2>3, <2>4, <3>1 DEF Gives
    <2>6. QED
      BY <2>3, <2>5
  <1>6. QED
    BY <1>4, <1>5

LEMMA BuildStep ==
  ASSUME IInv, Build
  PROVE  IInv'
  <1> DEFINE b == RxBuildDescIdx
             c == RxBuildDescCnt
             rd == RxDescIdx
  <1>1. TypeOK /\ Control
    BY DEF IInv
  <1>2. /\ UNCHANGED <<RxDescIdx, hardware, gState, alloc_failed, RxPktSemaphore,
                       threads, held, wire, history, starts>>
        /\ linkThread = "build" /\ linkThread' = "build" /\ c > 0
    BY DEF Build, threads
  <1>3. /\ b \in Slots /\ rd \in Slots /\ c \in 0 .. N /\ N \in Nat \ {0} /\ 1 \in 0 .. N
        /\ ring \in [Slots -> Descriptor] /\ pool \in SUBSET Buffers
    BY <1>1, Names DEF TypeOK
  <1>4. PICK h \in [Lacking(ring, 1) -> pool] : Gives(ring, c, 1, h)
    BY <1>1, BuildGives
  <1>5. /\ b' = Behind(b, 1) /\ c' = c - 1 /\ pool' = pool \ {h[i] : i \in Lacking(ring, 1)}
        /\ ring' = Given(ring, 1, h)
    BY <1>4 DEF Gives
  <1>6. b' \in Slots /\ c' \in 0 .. N /\ c - 1 \in 0 .. N /\ 1 + (c - 1) = c
    <2>1. c' \in 0 .. N /\ 1 + (c - 1) = c
      BY <1>2, <1>3, <1>5
    <2>2. b' \in Slots
      BY <1>3, <1>5, BehindType
    <2>3. QED
      BY <1>5, <2>1, <2>2
  <1>7. /\ ring' \in [Slots -> Descriptor]
        /\ \A i \in Slots :
             /\ ring'[i].own <=> Dist(b, i) < 1 \/ ring[i].own
             /\ ring'[i].attached <=> Dist(b, i) < 1 \/ ring[i].attached
             /\ ring'[i].frame = ring[i].frame
             /\ ring'[i].buf = IF i \in Lacking(ring, 1) THEN h[i] ELSE ring[i].buf
    <2>1. /\ Given(ring, 1, h) \in [Slots -> Descriptor]
          /\ \A i \in Slots :
               /\ Given(ring, 1, h)[i].own <=> Dist(b, i) < 1 \/ ring[i].own
               /\ Given(ring, 1, h)[i].attached <=> Dist(b, i) < 1 \/ ring[i].attached
               /\ Given(ring, 1, h)[i].frame = ring[i].frame
               /\ Given(ring, 1, h)[i].buf = IF i \in Lacking(ring, 1) THEN h[i]
                                                                      ELSE ring[i].buf
      BY <1>3, GivenFields
    <2>2. QED
      BY <1>5, <2>1, Zenon
  <1>8. \A i \in Lacking(ring, 1) : h[i] # NULL
    BY <1>3, Names
  <1>9. TypeOK'
    <2>1. pool' \subseteq Buffers
      BY <1>3, <1>5
    <2>2. QED
      BY <1>1, <1>2, <1>6, <1>7, <2>1 DEF TypeOK, hardware, threads, history
  <1>10. (Fresh' <=> Fresh) /\ starts # 0
    BY <1>1, <1>2 DEF Fresh, Control
  <1>11. Control'
    <2>1. \A i \in Slots : ring[i].buf # NULL => ring'[i].buf # NULL
      BY <1>7, <1>8
    <2>2. \A i \in Slots : ring[i].frame =< wire => ring'[i].frame =< wire'
      BY <1>2, <1>7
    <2>3. QED
      BY <1>1, <1>2, <1>10, <2>1, <2>2 DEF Control, hardware, threads, history
  <1>12. ASSUME clean' PROVE Ordered'
    <2>1. Ordered
      BY <1>2, <1>12 DEF IInv, history
    <2>2. Apart(ring', pool', Packets')
      <3>1. Packets' = Packets
        BY <1>2 DEF Packets, threads
      <3>2. Apart(ring, pool, Packets)
        BY <2>1 DEF Ordered
      <3>3. \A i, j \in Lacking(ring, 1) : h[i] = h[j] => i = j
        BY <1>4 DEF Gives
      <3>4. QED
        BY <1>3, <1>5, <3>1, <3>2, <3>3, GivenApart
    <2>3. RxDescIdx' = Behind(b', c')
      <3>1. rd = Behind(b, c)
        BY <2>1 DEF Ordered, InRegions
      <3>2. Behind(Behind(b, 1), c - 1) = Behind(b, 1 + (c - 1))
        <4>1. 1 + (c - 1) =< N
          BY <1>3, <1>6
        <4>2. QED
          BY <1>3, <1>6, <4>1, BehindTwice
      <3>3. QED
        BY <1>2, <1>5, <1>6, <3>1, <3>2
    <2>4. CASE Fresh
      <3>1. Pristine
        BY <2>1, <2>4 DEF Ordered, InRegions
      <3>2. ASSUME NEW i \in Slots
            PROVE  ring'[i].own /\ (ring'[i].attached <=> Dist(rd, i) < N - c')
        <4>1. ring[i].own /\ (ring[i].attached <=> Dist(rd, i) < N - c)
          BY <1>2, <3>1 DEF Pristine
        <4>2. rd = Behind(b, c)
          BY <2>1 DEF Ordered, InRegions
        <4>3. Dist(b, i) = IF Dist(rd, i) < N - c THEN Dist(rd, i) + c
                                                  ELSE Dist(rd, i) - (N - c)
          BY <1>3, <4>2, SeenFurther
        <4>4. Dist(rd, i) \in Nat /\ Dist(rd, i) < N
          BY <1>3, DistType
        <4>5. Dist(b, i) < 1 <=> Dist(rd, i) = N - c
          BY <1>2, <1>3, <4>3, <4>4
        <4>6. Dist(rd, i) < N - c' <=> Dist(rd, i) < N - c \/ Dist(rd, i) = N - c
          BY <1>3, <1>5, <4>4
        <4>7. QED
          BY <1>7, <4>1, <4>5, <4>6
      <3>3. Pristine'
        BY <1>2, <3>1, <3>2 DEF Pristine, hardware
      <3>4. QED
        BY <1>2, <1>10, <2>1, <2>2, <2>3, <2>4, <3>3 DEF Ordered, InRegions, threads
    <2>5. CASE ~Fresh
      <3>1. Rebuilding
        BY <1>2, <2>1, <2>5 DEF Ordered, InRegions
      <3>2. Rebuilding'
        BY <1>2, <1>7, <3>1 DEF Rebuilding, hardware
      <3>3. QED
        BY <1>2, <1>10, <2>1, <2>2, <2>3, <2>5, <3>2 DEF Ordered, InRegions, threads
    <2>6. QED
      BY <2>4, <2>5
  <1>13. QED
    BY <1>9, <1>11, <1>12 DEF IInv

\* All descriptors have a buffer now, and the DMA owns them.
LEMMA BuildDoneStep ==
  ASSUME IInv, BuildDone
  PROVE  IInv'
  <1>1. TypeOK /\ Control
    BY DEF IInv
  <1>2. /\ UNCHANGED <<descriptors, hardware, gState, pool, alloc_failed, RxPktSemaphore,
                       inputThread, packet, freer, held, wire, history, starts>>
        /\ linkThread = "build" /\ linkThread' = "run" /\ RxBuildDescCnt = 0
    BY DEF BuildDone
  <1>3. RxDescIdx \in Slots /\ N \in Nat \ {0} /\ starts # 0
    BY <1>1, <1>2, Names DEF TypeOK, Control
  <1>4. TypeOK'
    BY <1>1, <1>2 DEF TypeOK, descriptors, hardware, history
  <1>5. ASSUME clean
        PROVE  /\ Ordered /\ dma = RxDescIdx
               /\ \A i \in Slots : ring[i].own /\ ring[i].attached /\ ring[i].buf # NULL
    <2>1. Ordered
      BY <1>5 DEF IInv
    <2>2. dma = RxDescIdx /\ \A i \in Slots : ring[i].own /\ ring[i].attached
      <3>1. \A i \in Slots : Dist(RxDescIdx, i) < N - 0
        BY <1>3, DistType
      <3>2. Pristine \/ Rebuilding
        BY <1>2, <2>1 DEF Ordered, InRegions
      <3>3. QED
        BY <1>2, <3>1, <3>2 DEF Pristine, Rebuilding
    <2>3. \A i \in Slots : ring[i].buf # NULL
      BY <2>1, <2>2, Names DEF Ordered, Apart
    <2>4. QED
      BY <2>1, <2>2, <2>3
  <1>6. ~Fresh'
    BY <1>2, <1>3 DEF Fresh
  <1>7. Control'
    <2>1. \A i \in Slots : ring[i].buf # NULL
      BY <1>1, <1>5 DEF Control
    <2>2. QED
      BY <1>1, <1>2, <1>3, <1>6, <2>1 DEF Control, descriptors, hardware, history
  <1>8. ASSUME clean' PROVE Ordered'
    <2>1. clean /\ Ordered
      BY <1>2, <1>5, <1>8 DEF history
    <2>2. \A i \in Slots : Dist(RxDescIdx, i) \in Nat /\ Dist(RxDescIdx, i) < N
      BY <1>3, DistType
    <2>3. /\ 0 \in 0 .. N /\ 0 + RxBuildDescCnt =< N
          /\ dma = Behind(RxDescIdx, 0)
          /\ Divided(ring, RxDescIdx, RxBuildDescCnt, 0)
          /\ FramesInOrder(ring, RxDescIdx, 0, last)
      <3>1. 0 \in 0 .. N /\ 0 + RxBuildDescCnt =< N
        BY <1>2, <1>3
      <3>2. dma = Behind(RxDescIdx, 0)
        BY <1>3, <1>5, <2>1 DEF Behind, Slots
      <3>3. Divided(ring, RxDescIdx, RxBuildDescCnt, 0)
        BY <1>2, <1>3, <1>5, <2>1, <2>2 DEF Divided
      <3>4. FramesInOrder(ring, RxDescIdx, 0, last)
        BY <2>2 DEF FramesInOrder
      <3>5. QED
        BY <3>1, <3>2, <3>3, <3>4
    <2>4. InUse'
      BY <1>2, <2>3, Zenon DEF InUse, descriptors, hardware, history, Divided, FramesInOrder
    <2>5. InRegions'
      BY <1>2, <1>6, <2>1, <2>4 DEF Ordered, InRegions, descriptors
    <2>6. Apart(ring, pool, Packets)' /\ (packet \notin held)'
      BY <1>2, <2>1 DEF Ordered, Packets, Apart, descriptors
    <2>7. QED
      BY <2>5, <2>6 DEF Ordered
  <1>9. QED
    BY <1>4, <1>7, <1>8 DEF IInv

\* The pool covers the ring: if a descriptor has no buffer, one is free or with a
\* packet.
LEMMA PoolCovers ==
  ASSUME NEW r, NEW f, NEW u, Apart(r, f, u), NEW s \in Slots, ~r[s].attached
  PROVE  f \cup u # {}
  <1> DEFINE A == Slots \ {s}
             F == [i \in A |-> r[i].buf]
             I == {r[i].buf : i \in A}
  <1>1. SUFFICES ASSUME f \cup u = {} PROVE FALSE
    OBVIOUS
  <1>2. \A x \in Buffers : \E i \in A : r[i].buf = x
    BY <1>1 DEF Apart
  <1>3. IsFiniteSet(Slots) /\ Cardinality(Slots) = N /\ N \in Nat \ {0}
    <2>1. N \in Nat \ {0} /\ 0 \in Int /\ N - 1 \in Int
      BY Names
    <2>2. QED
      BY <2>1, FS_Interval DEF Slots
  <1>4. IsFiniteSet(A) /\ Cardinality(A) = N - 1
    BY <1>3, FS_RemoveElement
  <1>5. IsFiniteSet(I) /\ Cardinality(I) =< Cardinality(A)
    <2>1. F \in Surjection(A, I)
      BY DEF Surjection
    <2>2. QED
      BY <1>4, <2>1, FS_Surjection
  <1>6. Buffers \subseteq I
    BY <1>2
  <1>7. Cardinality(Buffers) =< Cardinality(I)
    BY <1>5, <1>6, FS_Subset
  <1> HIDE DEF A, I
  <1>8. Cardinality(I) \in Nat
    BY <1>5, FS_CardinalityType
  <1>9. QED
    BY <1>4, <1>5, <1>7, <1>8, Names

\* So a start that found the ring read out does not run dry.
LEMMA NeverDry ==
  ASSUME IInv, clean, LinkRuns, linkThread = "build", RxBuildDescCnt > 0,
         ~ring[RxBuildDescIdx].attached
  PROVE  pool # {}
  <1>1. TypeOK /\ Control /\ Ordered /\ RxBuildDescIdx \in Slots
    BY DEF IInv, TypeOK
  <1>2. held = {} /\ packet = NULL
    <2>1. Pristine
      BY <1>1 DEF Ordered, InRegions, Rebuilding
    <2>2. inputThread # "post"
      BY DEF LinkRuns, Preempted
    <2>3. QED
      BY <1>1, <2>1, <2>2 DEF Pristine, Control
  <1>3. Packets = {}
    BY <1>2 DEF Packets
  <1>4. QED
    BY <1>1, <1>3, PoolCovers DEF Ordered

LEMMA AllocFailsStep ==
  ASSUME IInv, AllocFails
  PROVE  IInv'
  <1>1. TypeOK /\ Control
    BY DEF IInv
  <1>2. /\ UNCHANGED <<descriptors, hardware, gState, pool, alloc_failed, RxPktSemaphore,
                       inputThread, packet, freer, held, wire, history, starts>>
        /\ linkThread = "build" /\ linkThread' = "fail"
    BY DEF AllocFails
  <1>3. ~clean
    BY NeverDry DEF AllocFails
  <1>4. ~Fresh /\ ~Fresh' /\ ~clean'
    BY <1>1, <1>2, <1>3 DEF Control, Fresh, history
  <1>5. TypeOK'
    BY <1>1, <1>2 DEF TypeOK, descriptors, hardware, history
  <1>6. Control'
    BY <1>1, <1>2, <1>4 DEF Control, descriptors, hardware, history
  <1>7. QED
    BY <1>4, <1>5, <1>6 DEF IInv

-----------------------------------------------------------------------------
LEMMA NextIInv == IInv /\ [Next]_vars => IInv'
  <1> SUFFICES ASSUME IInv, [Next]_vars PROVE IInv'
    OBVIOUS
  <1>1. CASE Arrive
    BY <1>1, ArriveStep
  <1>2. CASE IRQHandler \/ Wake \/ Sleep
    BY <1>2, QuietSteps
  <1>3. CASE ReadNothing
    BY <1>3, ReadNothingStep
  <1>4. CASE ReadFrame
    BY <1>4, ReadFrameStep
  <1>5. CASE Post \/ Discard
    BY <1>5, PostStep
  <1>6. ASSUME NEW t \in Freers, FreerStep(t) PROVE IInv'
    BY <1>6, FreeStep, QuietSteps DEF FreerStep
  <1>7. CASE LinkStep
    BY <1>7, StartStep, BuildStep, AllocFailsStep, BuildDoneStep, LinkSteps DEF LinkStep
  <1>8. CASE UNCHANGED vars
    <2>1. UNCHANGED <<Seen, running, enabled, pending, gState, alloc_failed, RxPktSemaphore,
                      inputThread, linkThread, freer, wire, heard, clean>>
      BY <1>8 DEF vars, descriptors, hardware, threads, history, Seen
    <2>2. TypeOK'
      BY <2>1 DEF IInv, TypeOK, Seen, descriptors
    <2>3. Control'
      BY <2>1 DEF IInv, Control, Seen, descriptors, Fresh
    <2>4. clean' => Ordered'
      BY <2>1, OrderKept DEF IInv
    <2>5. QED
      BY <2>2, <2>3, <2>4 DEF IInv
  <1>9. QED
    BY <1>1, <1>2, <1>3, <1>4, <1>5, <1>6, <1>7, <1>8 DEF Next, InputStep

-----------------------------------------------------------------------------
(* The theorems.                                                           *)

\* Whatever the order of the threads, the interrupt and the DMA: what ring,
\* pool and packets hold fits together as long as each start of the interface
\* (HAL_ETH_Start_IT) finds the ring read out.
THEOREM Invariance == Spec => []IInv
  <1>1. Init => IInv
    BY InitIInv
  <1>2. IInv /\ [Next]_vars => IInv'
    BY NextIInv
  <1>3. QED
    BY <1>1, <1>2, PTL DEF Spec

\* Every variable stays in its type: the indices of HAL_ETH_ReadData and
\* ETH_UpdateDescriptor inside the ring, RxBuildDescCnt up to its length, and
\* what is posted or freed is a buffer of RX_POOL.
THEOREM TypeCorrect == Spec => []TypeOK
  <1>1. IInv => TypeOK
    BY DEF IInv
  <1>2. QED
    BY <1>1, Invariance, PTL

\* The descriptors with a buffer have one each, so the buffers add up.
LEMMA AddUp ==
  ASSUME TypeOK, Apart(ring, pool, Packets)
  PROVE  /\ pool \cup Packets \cup {ring[i].buf : i \in Attached} = Buffers
         /\ Cardinality(pool) + Cardinality(Packets) + Cardinality(Attached)
              = Cardinality(Buffers)
  <1> DEFINE I == {ring[i].buf : i \in Attached}
             F == [i \in Attached |-> ring[i].buf]
  <1>1. /\ pool \subseteq Buffers /\ Packets \subseteq Buffers
        /\ N \in Nat \ {0} /\ IsFiniteSet(Buffers)
    BY Names DEF TypeOK, Packets
  <1>2. Attached \subseteq Slots /\ \A i \in Slots : i \in Attached <=> ring[i].attached
    BY DEF Attached
  <1>3. I \subseteq Buffers /\ I \cap pool = {} /\ I \cap Packets = {}
    BY <1>2 DEF Apart
  <1>4. pool \cup Packets \cup I = Buffers
    BY <1>1, <1>2, <1>3 DEF Apart
  <1>5. IsFiniteSet(Attached)
    <2>1. IsFiniteSet(Slots)
      BY <1>1, FS_Interval DEF Slots
    <2>2. QED
      BY <1>2, <2>1, FS_Subset
  <1>6. IsFiniteSet(pool) /\ IsFiniteSet(Packets) /\ IsFiniteSet(I)
    BY <1>1, <1>3, FS_Subset
  <1>7. Cardinality(I) = Cardinality(Attached)
    <2>1. F \in [Attached -> I] /\ \A x \in I : \E i \in Attached : F[i] = x
      OBVIOUS
    <2>2. \A i, j \in Attached : F[i] = F[j] => i = j
      BY <1>2 DEF Apart
    <2> HIDE DEF F, I
    <2>3. F \in Surjection(Attached, I) /\ F \in Injection(Attached, I)
      BY <2>1, <2>2 DEF Surjection, Injection, IsInjective
    <2>4. QED
      BY <1>5, <2>3, FS_Surjection
  <1> HIDE DEF I
  <1>8. pool \cap Packets = {} /\ (pool \cup Packets) \cap I = {}
    BY <1>3 DEF Apart
  <1>9. /\ IsFiniteSet(pool \cup Packets)
        /\ Cardinality(pool \cup Packets) = Cardinality(pool) + Cardinality(Packets) - 0
    BY <1>6, <1>8, FS_Union, FS_EmptySet
  <1>10. Cardinality(pool \cup Packets \cup I)
           = Cardinality(pool \cup Packets) + Cardinality(I) - 0
    BY <1>6, <1>8, <1>9, FS_Union, FS_EmptySet
  <1>11. /\ Cardinality(pool) \in Nat /\ Cardinality(Packets) \in Nat
         /\ Cardinality(I) \in Nat
    BY <1>6, FS_CardinalityType
  <1>12. Cardinality(pool) + Cardinality(Packets) + Cardinality(Attached)
           = Cardinality(Buffers)
    <2>1. Cardinality(pool \cup Packets) = Cardinality(pool) + Cardinality(Packets)
      BY <1>9, <1>11
    <2>2. Cardinality(Buffers)
            = Cardinality(pool) + Cardinality(Packets) + Cardinality(I)
      <3>1. Cardinality(Buffers) = Cardinality(pool \cup Packets) + Cardinality(I) - 0
        BY <1>4, <1>10, Zenon
      <3>2. QED
        BY <1>11, <2>1, <3>1
    <2>3. QED
      BY <1>7, <2>2
  <1>13. QED
    BY <1>4, <1>12, Zenon DEF I

\* As long as every start finds the ring read out, RX_POOL, the descriptors and
\* the packets share out the buffers, each to one owner, none lost; and the
\* running DMA owns no descriptor without a buffer of its own.
THEOREM OneOwnerEach == Spec => []OneOwner
  <1>1. IInv => OneOwner
    <2> SUFFICES ASSUME IInv, clean
                 PROVE  /\ pool \cup Packets \cup {ring[i].buf : i \in Attached} = Buffers
                        /\ Cardinality(pool) + Cardinality(Packets) + Cardinality(Attached)
                             = Cardinality(Buffers)
                        /\ running => \A i \in Slots : ring[i].own => ring[i].attached
      BY DEF OneOwner
    <2>1. TypeOK /\ Control /\ Ordered
      BY DEF IInv
    <2>2. ASSUME running, NEW i \in Slots, ring[i].own PROVE ring[i].attached
      <3>1. ~Fresh /\ linkThread # "build"
        BY <2>1, <2>2 DEF Control, Fresh
      <3>2. PICK m \in 0 .. N : Divided(ring, RxDescIdx, RxBuildDescCnt, m)
        BY <2>1, <3>1 DEF Ordered, InRegions, InUse
      <3>3. /\ N \in Nat /\ RxBuildDescCnt \in 0 .. N
            /\ Dist(RxDescIdx, i) \in Nat
        BY <2>1, Names, DistType DEF TypeOK
      <3>4. /\ Dist(RxDescIdx, i) < m => ~ring[i].own
            /\ m =< Dist(RxDescIdx, i) /\ Dist(RxDescIdx, i) < N - RxBuildDescCnt
                 => ring[i].attached
            /\ N - RxBuildDescCnt =< Dist(RxDescIdx, i) => ~ring[i].own
        BY <3>2 DEF Divided
      <3>5. QED
        BY <2>2, <3>3, <3>4
    <2>3. QED
      BY <2>1, <2>2, AddUp DEF Ordered
  <1>2. QED
    BY <1>1, Invariance, PTL

\* As long as every start finds the ring read out, HAL_ETH_ReadData returns a
\* later frame each time, and leaves none in the ring that came before it.
THEOREM FramesReadInOrder == Spec => ReadsInOrder
  <1> DEFINE Later ==
               clean' /\ RxDescIdx' # RxDescIdx =>
                 /\ last' > last
                 /\ \A i \in Slots :
                      ~ring[i].own /\ ring[i].attached => last' =< ring[i].frame
  <1>1. IInv /\ [Next]_vars => [Later]_vars
    <2> SUFFICES ASSUME IInv, [Next]_vars, clean', RxDescIdx' # RxDescIdx
                 PROVE  /\ last' > last
                        /\ \A i \in Slots :
                             ~ring[i].own /\ ring[i].attached => last' =< ring[i].frame
      OBVIOUS
    <2>1. ReadFrame
      BY DEF Next, InputStep, LinkStep, FreerStep, Arrive, IRQHandler, Wake, Sleep,
         ReadNothing, Post, Discard, FreePacket, CheckAlloc, ResetAlloc, Signal, Start,
         Build, AllocFails, SetAllocFailed, BuildDone, Run, EnableIT, Started, Stop,
         DisableIT, Halt, descriptors, vars
    <2>2. clean /\ last' = ring[RxDescIdx].frame
      BY <2>1 DEF ReadFrame
    <2>3. PICK m \in 1 .. N :
            /\ Divided(ring, RxDescIdx, RxBuildDescCnt, m)
            /\ FramesInOrder(ring, RxDescIdx, m, last)
            /\ last < ring[RxDescIdx].frame
      BY <2>1, <2>2, FrameFound
    <2>4. /\ TypeOK /\ N \in Nat \ {0} /\ RxDescIdx \in Slots /\ RxBuildDescCnt \in 0 .. N
          /\ last \in Nat /\ \A i \in Slots : ring[i].frame \in Nat
      BY Names DEF IInv, TypeOK, Descriptor
    <2>5. ASSUME NEW i \in Slots, ~ring[i].own, ring[i].attached
          PROVE  last' =< ring[i].frame
      <3>1. Dist(RxDescIdx, i) \in Nat /\ Dist(RxDescIdx, RxDescIdx) = 0
        BY <2>4, DistType, OneFurther
      <3>2. Dist(RxDescIdx, i) < m
        <4>1. /\ m =< Dist(RxDescIdx, i) /\ Dist(RxDescIdx, i) < N - RxBuildDescCnt
                   => ring[i].own
              /\ N - RxBuildDescCnt =< Dist(RxDescIdx, i) => ~ring[i].attached
          BY <2>3 DEF Divided
        <4>2. QED
          BY <2>4, <2>5, <3>1, <4>1
      <3>3. CASE i = RxDescIdx
        BY <2>2, <2>4, <3>3
      <3>4. CASE i # RxDescIdx
        <4>1. Dist(RxDescIdx, RxDescIdx) < Dist(RxDescIdx, i)
          BY <2>4, <3>1, <3>4, OneFurther
        <4>2. ring[RxDescIdx].frame < ring[i].frame
          BY <2>3, <2>4, <3>2, <4>1 DEF FramesInOrder
        <4>3. QED
          BY <2>2, <2>4, <4>2
      <3>5. QED
        BY <3>3, <3>4
    <2>6. QED
      BY <2>2, <2>3, <2>4, <2>5
  <1>2. QED
    BY <1>1, Invariance, PTL DEF Spec, ReadsInOrder

-----------------------------------------------------------------------------
(* The flag of the empty pool.                                             *)

\* ETH_UpdateDescriptor leaves descriptors behind only for want of buffers.
LEMMA UpdateExhausts ==
  ASSUME TypeOK, NEW r, NEW cnt \in 0 .. N, UpdateDescriptor(r, cnt, pool),
         RxBuildDescCnt' > 0
  PROVE  pool' = {}
  <1> DEFINE k == Built(r, cnt, pool)
             M == Missing(r, k)
  <1>1. PICK g \in Choices(r, k, pool) :
          pool' = pool \ {g[j] : j \in DOMAIN g} /\ RxBuildDescCnt' = cnt - k
    BY DEF UpdateDescriptor
  <1>2. N \in Nat /\ cnt \in Nat /\ IsFiniteSet(pool) /\ Cardinality(pool) \in Nat
    BY Names, FS_Subset, FS_CardinalityType DEF TypeOK
  <1>3. k \in Buildable(r, cnt, pool) /\ \A m \in Buildable(r, cnt, pool) : m =< k
    <2>1. 0 \in Buildable(r, cnt, pool)
      <3>1. Missing(r, 0) = {}
        BY DEF Missing
      <3>2. QED
        BY <1>2, <3>1, FS_EmptySet DEF Buildable
    <2>2. Buildable(r, cnt, pool) \subseteq 0 .. cnt
      BY DEF Buildable
    <2>3. \E n \in Buildable(r, cnt, pool) : \A m \in Buildable(r, cnt, pool) : m =< n
      BY <1>2, <2>1, <2>2, Greatest
    <2>4. QED
      BY <2>3 DEF Built
  <1> HIDE DEF k
  <1>4. k \in 0 .. cnt /\ Cardinality(M) =< Cardinality(pool)
    BY <1>3 DEF Buildable
  <1>5. k + 1 \in 0 .. cnt /\ k \in Nat
    BY <1>1, <1>2, <1>4
  <1>6. ~ (Cardinality(Missing(r, k + 1)) =< Cardinality(pool))
    <2>1. k + 1 \notin Buildable(r, cnt, pool)
      BY <1>3, <1>5
    <2>2. QED
      BY <1>5, <2>1 DEF Buildable
  <1>7. IsFiniteSet(M) /\ Cardinality(M) \in Nat
    <2>1. M \in SUBSET (0 .. k - 1)
      BY DEF Missing
    <2>2. 0 \in Int /\ k - 1 \in Int
      BY <1>5
    <2>3. IsFiniteSet(0 .. k - 1)
      BY <2>2, FS_Interval
    <2>4. QED
      BY <2>1, <2>3, FS_Subset, FS_CardinalityType
  <1>8. Missing(r, k + 1) \subseteq M \cup {k}
    <2>1. \A j \in 0 .. (k + 1) - 1 : j = k \/ j \in 0 .. k - 1
      BY <1>5
    <2>2. QED
      BY <2>1 DEF Missing
  <1> HIDE DEF M
  <1>9. Cardinality(Missing(r, k + 1)) =< Cardinality(M) + 1
        /\ Cardinality(Missing(r, k + 1)) \in Nat
    <2>1. /\ IsFiniteSet(M \cup {k}) /\ Cardinality(M \cup {k}) \in Nat
          /\ Cardinality(M \cup {k}) =< Cardinality(M) + 1
      <3>1. /\ IsFiniteSet(M \cup {k})
            /\ \/ Cardinality(M \cup {k}) = Cardinality(M)
               \/ Cardinality(M \cup {k}) = Cardinality(M) + 1
        BY <1>7, FS_AddElement, Zenon
      <3>2. QED
        BY <1>7, <3>1
    <2>2. /\ IsFiniteSet(Missing(r, k + 1))
          /\ Cardinality(Missing(r, k + 1)) =< Cardinality(M \cup {k})
      BY <1>8, <2>1, FS_Subset
    <2>3. Cardinality(Missing(r, k + 1)) \in Nat
      BY <2>2, FS_CardinalityType
    <2>4. QED
      BY <1>7, <2>1, <2>2, <2>3
  <1>10. Cardinality(M) = Cardinality(pool)
    BY <1>2, <1>4, <1>6, <1>7, <1>9
  <1>11. g \in Injection(M, pool) /\ DOMAIN g = M
    BY DEF Choices, Injection, IsInjective, M
  <1>12. g \in Surjection(M, pool)
    BY <1>2, <1>10, <1>11, FS_Injection
  <1>13. QED
    BY <1>1, <1>11, <1>12 DEF Surjection

\* What is read leaves descriptors to be given back behind only if their buffers
\* are with packets.
LEMMA DryWhenRead ==
  ASSUME IInv, ReadNothing \/ ReadFrame, clean', RxBuildDescCnt' > 0
  PROVE  alloc_failed' /\ Packets' # {}
  <1>1. IInv'
    BY ReadNothingStep, ReadFrameStep
  <1>2. TypeOK /\ TypeOK' /\ Control /\ Control' /\ Ordered'
    BY <1>1 DEF IInv
  <1>3. alloc_failed' /\ gState' = "started"
    BY DEF ReadNothing, ReadFrame
  <1>4. pool' = {}
    <2>1. CASE ReadNothing
      BY <1>2, <2>1, UpdateExhausts DEF ReadNothing, TypeOK
    <2>2. CASE ReadFrame
      <3>1. RxBuildDescCnt + 1 \in 0 .. N
        BY <1>2, <2>2, Names DEF ReadFrame, FrameReady, TypeOK
      <3>2. QED
        BY <1>2, <2>2, <3>1, UpdateExhausts DEF ReadFrame
    <2>3. QED
      BY <2>1, <2>2
  <1>5. ~Fresh' /\ linkThread' # "build"
    BY <1>2, <1>3 DEF Control, Fresh
  <1>6. PICK m \in 0 .. N : Divided(ring', RxDescIdx', RxBuildDescCnt', m)
    BY <1>2, <1>5 DEF Ordered, InRegions, InUse
  <1>7. RxDescIdx' \in Slots /\ RxBuildDescCnt' \in 0 .. N /\ N \in Nat \ {0}
    BY <1>2, Names DEF TypeOK
  <1> DEFINE s == Behind(RxDescIdx', N - 1)
  <1>8. s \in Slots /\ Dist(RxDescIdx', s) = N - 1
    <2>1. N - 1 \in 0 .. N /\ N - 1 < N
      BY <1>7
    <2>2. QED
      BY <1>7, <2>1, BehindType
  <1> HIDE DEF s
  <1>9. ~ring'[s].attached
    <2>1. N - RxBuildDescCnt' =< Dist(RxDescIdx', s)
      <3>1. \A n, c \in Nat : c > 0 => n - c =< n - 1
        OBVIOUS
      <3>2. RxBuildDescCnt' \in Nat /\ N \in Nat
        BY <1>7
      <3>3. N - RxBuildDescCnt' =< N - 1
        BY <3>1, <3>2, Zenon
      <3>4. QED
        BY <1>8, <3>3, Zenon
    <2>2. QED
      BY <1>6, <1>8, <2>1 DEF Divided
  <1>10. Apart(ring', pool', Packets')
    BY <1>2 DEF Ordered
  <1>11. pool' \cup Packets' # {}
    BY <1>8, <1>9, <1>10, PoolCovers
  <1>12. QED
    BY <1>3, <1>4, <1>11

\* Descriptors without a buffer are noticed; a start leaves none behind.
Noticed ==
    clean =>
      /\ linkThread \in {"run", "enable", "started"} => RxBuildDescCnt = 0
      /\ DryPoolIsNoticed

LEMMA NextNoticed == IInv /\ Noticed /\ [Next]_vars => Noticed'
  <1> SUFFICES ASSUME IInv, Noticed, [Next]_vars, clean' PROVE Noticed'
    BY DEF Noticed
  <1> DEFINE Left == gState = "started" /\ RxBuildDescCnt > 0
             Up   == /\ alloc_failed
                     /\ Packets # {} \/ SomeThread("check") \/ SomeThread("reset")
             Down == ~alloc_failed /\ (Preempted \/ SomeThread("signal"))
             Past == linkThread \in {"run", "enable", "started"}
  <1>1. Noticed <=> (clean => (Past => RxBuildDescCnt = 0) /\ (Left => Up \/ Down))
    BY DEF Noticed, DryPoolIsNoticed
  <1>2. Noticed' <=> (clean' => (Past' => RxBuildDescCnt' = 0) /\ (Left' => Up' \/ Down'))
    BY DEF Noticed, DryPoolIsNoticed
  <1>3. clean /\ TypeOK /\ Control
    BY DEF IInv, Next, InputStep, LinkStep, FreerStep, Arrive, IRQHandler, Wake, Sleep,
       ReadNothing, ReadFrame, Post, Discard, FreePacket, CheckAlloc, ResetAlloc, Signal,
       Start, Build, AllocFails, SetAllocFailed, BuildDone, Run, EnableIT, Started, Stop,
       DisableIT, Halt, history, vars
  <1>4. (Past => RxBuildDescCnt = 0) /\ (Left => Up \/ Down)
    BY <1>1, <1>3
  <1> HIDE DEF Left, Up, Down, Past
  <1> SUFFICES (Past' => RxBuildDescCnt' = 0) /\ (Left' => Up' \/ Down')
    BY <1>2
  <1>5. CASE LinkStep
    <2>1. ~Left' \/ Started
      BY <1>3, <1>5 DEF Left, Control, LinkStep, Start, Build, AllocFails, SetAllocFailed,
         BuildDone, Run, EnableIT, Started, Stop, DisableIT, Halt
    <2>2. CASE AllocFails \/ SetAllocFailed
      BY <1>3, <2>2, NeverDry DEF AllocFails, SetAllocFailed, Control
    <2>3. CASE Started
      <3>1. RxBuildDescCnt' = 0
        BY <1>4, <2>3 DEF Started, Past, descriptors
      <3>2. QED
        BY <3>1 DEF Left
    <2>4. CASE Start \/ Build \/ BuildDone \/ Run \/ EnableIT \/ Stop \/ DisableIT \/ Halt
      <3>1. Past' => RxBuildDescCnt' = 0
        BY <1>4, <2>4 DEF Past, Start, Build, BuildDone, Run, EnableIT, Stop, DisableIT,
           Halt, descriptors, threads
      <3>2. ~Started
        BY <1>3, <2>4 DEF Control, Started, Start, Build, BuildDone, Run, EnableIT, Stop,
           DisableIT, Halt
      <3>3. QED
        BY <2>1, <3>1, <3>2
    <2>5. QED
      BY <1>5, <2>2, <2>3, <2>4 DEF LinkStep
  <1>6. CASE ReadNothing \/ ReadFrame
    <2>1. ~Past'
      BY <1>3, <1>6 DEF Control, Past, ReadNothing, ReadFrame
    <2>2. Left' => Up'
      BY <1>6, DryWhenRead DEF Left, Up
    <2>3. QED
      BY <2>1, <2>2
  <1>7. CASE Wake \/ Sleep \/ Post \/ Discard \/ Arrive \/ IRQHandler
    <2>1. (Left' <=> Left) /\ (Past' => RxBuildDescCnt' = 0)
      BY <1>4, <1>7 DEF Left, Past, Wake, Sleep, Post, Discard, Arrive, IRQHandler,
         descriptors, threads
    <2>2. ASSUME Left PROVE Up' \/ Down'
      <3>1. CASE Wake \/ Discard
        BY <1>4, <2>2, <3>1, Zenon
        DEF Up, Down, Wake, Discard, Preempted, SomeThread, Packets
      <3>2. CASE Sleep
        BY <1>4, <2>2, <3>2 DEF Left, Up, Down, Sleep, Preempted, SomeThread, Packets
      <3>3. CASE Post
        BY <1>3, <1>4, <2>2, <3>3 DEF Up, Down, Post, Preempted, SomeThread, Packets
      <3>4. CASE Arrive \/ IRQHandler
        BY <1>4, <2>2, <3>4
        DEF Up, Down, Arrive, IRQHandler, Preempted, SomeThread, Packets, threads
      <3>5. QED
        BY <1>7, <3>1, <3>2, <3>3, <3>4
    <2>3. QED
      BY <2>1, <2>2
  <1>8. ASSUME NEW t \in Freers, FreerStep(t)
        PROVE  (Past' => RxBuildDescCnt' = 0) /\ (Left' => Up' \/ Down')
    <2>1. (Left' <=> Left) /\ (Past' => RxBuildDescCnt' = 0)
      BY <1>4, <1>8 DEF Left, Past, FreerStep, FreePacket, CheckAlloc, ResetAlloc, Signal,
         descriptors
    <2>2. /\ freer \in [Freers -> {"idle", "check", "reset", "signal"}]
          /\ \A s \in Freers : s # t => freer'[s] = freer[s]
      BY <1>3, <1>8 DEF TypeOK, FreerStep, FreePacket, CheckAlloc, ResetAlloc, Signal
    <2>3. ASSUME Left PROVE Up' \/ Down'
      <3>1. CASE FreePacket(t)
        <4>1. freer'[t] = "check" /\ freer[t] = "idle" /\ alloc_failed' = alloc_failed
              /\ ~Preempted
          BY <2>2, <3>1 DEF FreePacket
        <4>2. Up => Up'
          BY <4>1 DEF Up, SomeThread
        <4>3. Down => Down'
          BY <2>2, <4>1 DEF Down, SomeThread
        <4>4. QED
          BY <1>4, <2>3, <4>2, <4>3
      <3>2. CASE CheckAlloc(t)
        <4>1. /\ freer[t] = "check" /\ ~Preempted
              /\ alloc_failed' = alloc_failed /\ Packets' = Packets
              /\ alloc_failed => freer'[t] = "reset"
          BY <2>2, <3>2 DEF CheckAlloc, Packets
        <4>2. Up => Up'
          BY <4>1 DEF Up, SomeThread
        <4>3. Down => Down'
          BY <2>2, <4>1 DEF Down, SomeThread
        <4>4. QED
          BY <1>4, <2>3, <4>2, <4>3
      <3>3. CASE ResetAlloc(t)
        <4>1. freer'[t] = "signal" /\ ~alloc_failed'
          BY <2>2, <3>3 DEF ResetAlloc
        <4>2. QED
          BY <4>1 DEF Down, SomeThread
      <3>4. CASE Signal(t)
        <4>1. /\ RxPktSemaphore' = 1 /\ freer[t] = "signal"
              /\ alloc_failed' = alloc_failed /\ Packets' = Packets
          BY <3>4 DEF Signal, AfterSignal, Packets
        <4>2. Preempted'
          BY <4>1 DEF Preempted
        <4>3. Up => Up'
          BY <2>2, <4>1 DEF Up, SomeThread
        <4>4. Down => Down'
          BY <4>1, <4>2 DEF Down
        <4>5. QED
          BY <1>4, <2>3, <4>3, <4>4
      <3>5. QED
        BY <1>8, <3>1, <3>2, <3>3, <3>4 DEF FreerStep
    <2>4. QED
      BY <2>1, <2>3
  <1>9. CASE UNCHANGED vars
    <2>1. UNCHANGED <<gState, RxBuildDescCnt, alloc_failed, held, packet, freer,
                      inputThread, RxPktSemaphore, linkThread>>
      BY <1>9 DEF vars, descriptors, threads
    <2>2. QED
      BY <1>4, <2>1 DEF Left, Up, Down, Past, Packets, Preempted, SomeThread
  <1>10. QED
    BY <1>5, <1>6, <1>7, <1>8, <1>9 DEF Next, InputStep

\* As long as every start finds the ring read out, descriptors that
\* ETH_UpdateDescriptor could not build are not forgotten: RxAllocStatus,
\* pbuf_free_custom and the semaphore hand the task on between the threads.
THEOREM DryPoolNoticed == Spec => []DryPoolIsNoticed
  <1>1. Init => Noticed
    BY DEF Init, Noticed, DryPoolIsNoticed
  <1>2. IInv /\ Noticed /\ [Next]_vars => Noticed'
    BY NextNoticed
  <1>3. Noticed => DryPoolIsNoticed
    BY DEF Noticed, DryPoolIsNoticed
  <1>4. QED
    BY <1>1, <1>2, <1>3, Invariance, PTL DEF Spec
=============================================================================

------------------------- MODULE LoopbackTestsProofs -------------------------
(***************************************************************************)
(* Proofs about LoopbackTests: for any set of tests and strings of any     *)
(* length, a run that nobody disturbed gives the verdict its wires         *)
(* deserve, and a UART or SPI handle is ready for the next run.            *)
(***************************************************************************)
EXTENDS LoopbackTests, TLAPS

(* The inductive invariant.                                                *)

\* A run has not returned, and a handle is busy only within a transfer, where
\* stopping makes it ready.
PlacesAreConsistent ==
    \A t \in Tests :
        /\ tpc[t] # "idle" => returned[t] = "none"
        /\ t # "i2c" /\ tpc[t] # "gap" => ~armed[t]
        /\ tpc[t] = "feed" => fed[t] < words
        /\ tpc[t] = "read" => fed[t] = words
        /\ tpc[t] \in {"gap", "reset", "feed", "read"} => words > 0

\* What was received says whether the wires were sound.
BuffersTellWires ==
    \A t \in Tests : ~disturbed[t] =>
        /\ tpc[t] # "idle" /\ way[t] = 2 => buff[t][1] = "reference"
        /\ tpc[t] # "idle" /\ way[t] = 1 => buff[t][2] = "zero"
        /\ tpc[t] = "exchange" => sound[t] /\ buff[t][way[t]] = "zero"
        /\ tpc[t] \in {"gap", "reset", "feed", "read"} =>
              (sound[t] <=> buff[t][way[t]] = "reference")

\* A computation nobody disturbed is the only one, and the unit was fed with its
\* string and nothing else.
UnitHoldsComputation ==
    \A t \in Tests : Computing(t) /\ ~disturbed[t] =>
        /\ \A u \in Tests \ {t} : ~Computing(u)
        /\ Len(dr) = fed[t]
        /\ \A k \in 1 .. fed[t] : dr[k] = <<buff[t][way[t]], k>>

IInv ==
    /\ TypeOK
    /\ VerdictIsEarned
    /\ PlacesAreConsistent
    /\ BuffersTellWires
    /\ UnitHoldsComputation

-----------------------------------------------------------------------------
(* Lemmas: one per step.                                                   *)

LEMMA InitIInv == Init => IInv
  <1> SUFFICES ASSUME Init PROVE IInv
    OBVIOUS
  <1> USE LoopbackAssumption DEF Init
  <1>1. TypeOK
    BY DEF TypeOK, Ways, Content, Computing
  <1>2. VerdictIsEarned /\ PlacesAreConsistent
    BY DEF VerdictIsEarned, PlacesAreConsistent
  <1>3. BuffersTellWires /\ UnitHoldsComputation
    BY DEF BuffersTellWires, UnitHoldsComputation, Computing
  <1>4. QED
    BY <1>1, <1>2, <1>3 DEF IInv

LEMMA RewireIInv ==
  ASSUME IInv, NEW t \in Tests, Rewire(t)
  PROVE  IInv'
  <1> USE DEF IInv, Rewire
  <1>1. TypeOK'
    BY DEF TypeOK, Computing
  <1>2. (VerdictIsEarned /\ PlacesAreConsistent)'
    BY DEF VerdictIsEarned, PlacesAreConsistent
  <1>3. (BuffersTellWires /\ UnitHoldsComputation)'
    BY DEF BuffersTellWires, UnitHoldsComputation, Computing
  <1>4. QED
    BY <1>1, <1>2, <1>3

\* No test is running: what a buffer or the unit holds says nothing.
LEMMA PrepareIInv == ASSUME IInv, Prepare PROVE IInv'
  <1> USE LoopbackAssumption DEF IInv, Prepare
  <1>1. words' \in Lengths /\ words' \in Nat
    OBVIOUS
  <1>2. \A t \in Tests : tpc'[t] = "idle" /\ returned'[t] = "none"
    OBVIOUS
  <1>3. TypeOK'
    <2>1. buff' \in [Tests -> [Ways -> Content]]
      BY DEF TypeOK, Content
    <2>2. dr' \in Seq(Content \X (Nat \ {0}))
      BY <1>1 DEF Content
    <2>3. QED
      BY <1>1, <1>2, <2>1, <2>2 DEF TypeOK, Computing
  <1>4. (VerdictIsEarned /\ PlacesAreConsistent)'
    BY <1>2 DEF VerdictIsEarned, PlacesAreConsistent
  <1>5. (BuffersTellWires /\ UnitHoldsComputation)'
    BY <1>2 DEF BuffersTellWires, UnitHoldsComputation, Computing
  <1>6. QED
    BY <1>3, <1>4, <1>5

\* bzero: the run starts with nothing received.
LEMMA StartIInv ==
  ASSUME IInv, NEW t \in Tests, Start(t)
  PROVE  IInv'
  <1> USE DEF IInv, Start, Cleared
  <1>1. TypeOK'
    BY DEF TypeOK, Ways, Content, Computing
  <1>2. (VerdictIsEarned /\ PlacesAreConsistent)'
    BY DEF VerdictIsEarned, PlacesAreConsistent, TypeOK
  <1>3. BuffersTellWires'
    BY DEF BuffersTellWires, TypeOK, Ways
  <1>4. UnitHoldsComputation'
    BY DEF UnitHoldsComputation, Computing, TypeOK
  <1>5. QED
    BY <1>1, <1>2, <1>3, <1>4

LEMMA RefusedIInv ==
  ASSUME IInv, NEW t \in Tests, Refused(t)
  PROVE  IInv'
  <1> USE DEF IInv, Refused, Return
  <1>1. TypeOK'
    BY DEF TypeOK, StillArmed, Computing
  <1>2. VerdictIsEarned'
    BY DEF VerdictIsEarned, TypeOK
  <1>3. PlacesAreConsistent'
    BY DEF PlacesAreConsistent, TypeOK, StillArmed
  <1>4. BuffersTellWires'
    BY DEF BuffersTellWires, TypeOK
  <1>5. UnitHoldsComputation'
    BY DEF UnitHoldsComputation, Computing, TypeOK
  <1>6. QED
    BY <1>1, <1>2, <1>3, <1>4, <1>5

LEMMA ExchangeIInv ==
  ASSUME IInv, NEW t \in Tests, Exchange(t)
  PROVE  IInv'
  <1> USE DEF IInv, Exchange
  <1>1. Sent(t) \in Content /\ (~disturbed[t] => Sent(t) = "reference")
    BY DEF TypeOK, Ways, Content, Sent, BuffersTellWires
  <1>2. TypeOK'
    BY <1>1 DEF TypeOK, Computing
  <1>3. (VerdictIsEarned /\ PlacesAreConsistent)'
    <2>1. \A u \in Tests : returned[u] # "none" => u # t
      BY DEF PlacesAreConsistent
    <2>2. VerdictIsEarned'
      BY <2>1 DEF VerdictIsEarned, TypeOK
    <2>3. PlacesAreConsistent'
      BY DEF PlacesAreConsistent, TypeOK
    <2>4. QED
      BY <2>2, <2>3
  <1>4. BuffersTellWires'
    BY <1>1 DEF BuffersTellWires, TypeOK, Ways
  <1>5. UnitHoldsComputation'
    BY DEF UnitHoldsComputation, Computing, TypeOK
  <1>6. QED
    BY <1>2, <1>3, <1>4, <1>5

\* Nothing of a failed transfer is the string, unless the wires were sound.
LEMMA ExchangeUnheardIInv ==
  ASSUME IInv, NEW t \in Tests, ExchangeUnheard(t)
  PROVE  IInv'
  <1> USE DEF IInv
  <1>1. PICK c \in {buff[t][way[t]], "other"} :
           buff' = [buff EXCEPT ![t][way[t]] = c]
    BY DEF ExchangeUnheard
  <1>2. c \in Content /\ (~disturbed[t] => c # "reference")
    <2>1. tpc[t] = "exchange" /\ (c = buff[t][way[t]] \/ c = "other")
      BY <1>1 DEF ExchangeUnheard
    <2>2. buff[t][way[t]] \in Content
      BY DEF TypeOK
    <2>3. ~disturbed[t] => buff[t][way[t]] = "zero"
      BY <2>1 DEF BuffersTellWires
    <2>4. QED
      BY <2>1, <2>2, <2>3 DEF Content
  <1>3. PICK busy \in BOOLEAN : armed' = [armed EXCEPT ![t] = busy]
    BY DEF ExchangeUnheard
  <1>4. /\ tpc'[t] = "gap" /\ ~sound'[t] /\ way' = way /\ words' = words
        /\ disturbed' = disturbed /\ returned' = returned /\ returned[t] = "none"
    BY DEF ExchangeUnheard, TypeOK, PlacesAreConsistent
  <1>5. /\ buff'[t][way[t]] = c
        /\ way[t] = 2 => buff'[t][1] = buff[t][1]
        /\ way[t] = 1 => buff'[t][2] = buff[t][2]
    BY <1>1 DEF TypeOK, Ways
  <1>6. \A u \in Tests \ {t} :
          tpc'[u] = tpc[u] /\ buff'[u] = buff[u] /\ sound'[u] = sound[u]
    BY <1>1 DEF TypeOK, ExchangeUnheard
  <1>7. TypeOK'
    BY <1>1, <1>2, <1>3 DEF TypeOK, ExchangeUnheard, Computing
  <1>8. VerdictIsEarned'
    BY <1>4, <1>6 DEF VerdictIsEarned
  <1>9. PlacesAreConsistent'
    BY <1>3 DEF PlacesAreConsistent, TypeOK, ExchangeUnheard
  <1>10. BuffersTellWires'
    <2>1. tpc[t] = "exchange"
      BY DEF ExchangeUnheard
    <2>2. QED
      BY <1>2, <1>4, <1>5, <1>6, <2>1 DEF BuffersTellWires
  <1>11. UnitHoldsComputation'
    BY <1>1 DEF UnitHoldsComputation, Computing, TypeOK, ExchangeUnheard
  <1>12. QED
    BY <1>7, <1>8, <1>9, <1>10, <1>11

\* The test gives up: what its buffers hold matters no more.
LEMMA TransferFailsIInv ==
  ASSUME IInv, NEW t \in Tests, TransferFails(t)
  PROVE  IInv'
  <1> USE DEF IInv
  <1>1. /\ buff' \in [Tests -> [Ways -> Content]]
        /\ \A u \in Tests \ {t} : buff'[u] = buff[u]
    <2>1. Sent(t) \in Content
      BY DEF TypeOK, Ways, Content, Sent
    <2>2. CASE UNCHANGED buff
      BY <2>2 DEF TypeOK
    <2>3. CASE \E c \in {buff[t][way[t]], "other", Sent(t)} :
                  buff' = [buff EXCEPT ![t][way[t]] = c]
      <3>1. PICK c \in {buff[t][way[t]], "other", Sent(t)} :
               buff' = [buff EXCEPT ![t][way[t]] = c]
        BY <2>3
      <3>2. c \in Content
        <4>1. buff[t][way[t]] \in Content /\ "other" \in Content
          BY DEF TypeOK, Content
        <4>2. QED
          BY <2>1, <4>1
      <3>3. QED
        BY <3>1, <3>2 DEF TypeOK
    <2>4. QED
      BY <2>2, <2>3 DEF TransferFails
  <1>2. /\ armed' \in [Tests -> BOOLEAN]
        /\ \A u \in Tests \ {"i2c"} : ~armed[u] => ~armed'[u]
    BY DEF TransferFails, StillArmed, TypeOK
  <1>3. /\ tpc' = [tpc EXCEPT ![t] = "idle"]
        /\ returned' = [returned EXCEPT ![t] = "error"]
        /\ sound' = [sound EXCEPT ![t] = @ /\ wired[t]]
        /\ tpc[t] = "exchange" /\ words' = words /\ wired' = wired /\ way' = way
        /\ dr' = dr /\ fed' = fed /\ disturbed' = disturbed
    BY DEF TransferFails, Return
  <1>4. TypeOK'
    BY <1>1, <1>2, <1>3 DEF TypeOK, Computing
  <1>5. VerdictIsEarned'
    BY <1>1, <1>3 DEF VerdictIsEarned, TypeOK
  <1>6. PlacesAreConsistent'
    BY <1>2, <1>3 DEF PlacesAreConsistent, TypeOK
  <1>7. BuffersTellWires'
    BY <1>1, <1>3 DEF BuffersTellWires, TypeOK
  <1>8. UnitHoldsComputation'
    BY <1>1, <1>3 DEF UnitHoldsComputation, Computing, TypeOK
  <1>9. QED
    BY <1>4, <1>5, <1>6, <1>7, <1>8

LEMMA StopIInv ==
  ASSUME IInv, NEW t \in Tests, Stop(t)
  PROVE  IInv'
  <1> USE DEF IInv, Stop, StillArmed
  <1>1. TypeOK'
    BY DEF TypeOK, Computing
  <1>2. (VerdictIsEarned /\ PlacesAreConsistent)'
    BY DEF VerdictIsEarned, PlacesAreConsistent, TypeOK
  <1>3. BuffersTellWires'
    BY DEF BuffersTellWires, TypeOK
  <1>4. UnitHoldsComputation'
    BY DEF UnitHoldsComputation, Computing, TypeOK
  <1>5. QED
    BY <1>1, <1>2, <1>3, <1>4

\* The reset disturbs every computation that is under way.
LEMMA ResetCrcIInv ==
  ASSUME IInv, NEW t \in Tests, ResetCrc(t)
  PROVE  IInv'
  <1> USE LoopbackAssumption DEF IInv, ResetCrc, AfterReset
  <1>1. TypeOK'
    BY DEF TypeOK, Computing
  <1>2. (VerdictIsEarned /\ PlacesAreConsistent)'
    BY DEF VerdictIsEarned, PlacesAreConsistent, TypeOK
  <1>3. BuffersTellWires'
    BY DEF BuffersTellWires, TypeOK
  <1>4. UnitHoldsComputation'
    <2> SUFFICES ASSUME NEW u \in Tests, Computing(u)', ~disturbed'[u]
                 PROVE  /\ \A v \in Tests \ {u} : ~Computing(v)'
                        /\ Len(dr') = fed'[u]
                        /\ \A k \in 1 .. fed'[u] : dr'[k] = <<buff'[u][way'[u]], k>>
      BY DEF UnitHoldsComputation
    <2>1. u = t
      BY DEF Computing, TypeOK
    <2>2. \A v \in Tests \ {u} : ~Computing(v)'
      BY <2>1 DEF Computing, TypeOK
    <2>3. fed'[u] = 0 /\ dr' = <<>>
      BY <2>1 DEF TypeOK
    <2>4. QED
      BY <2>2, <2>3
  <1>5. QED
    BY <1>1, <1>2, <1>3, <1>4

LEMMA FeedCrcIInv ==
  ASSUME IInv, NEW t \in Tests, FeedCrc(t)
  PROVE  IInv'
  <1> USE LoopbackAssumption DEF IInv, FeedCrc, IsLast
  <1> DEFINE word == <<buff[t][way[t]], fed[t] + 1>>
  <1>1. /\ fed[t] \in Nat /\ fed[t] < words /\ fed'[t] = fed[t] + 1
        /\ buff[t][way[t]] \in Content
        /\ word \in Content \X (Nat \ {0})
        /\ dr' = Append(dr, word)
    BY DEF TypeOK, PlacesAreConsistent
  <1> HIDE DEF word
  <1>2. TypeOK'
    <2>1. fed' \in [Tests -> Nat]
      BY <1>1 DEF TypeOK
    <2>2. dr' \in Seq(Content \X (Nat \ {0}))
      BY <1>1 DEF TypeOK
    <2>3. \A u \in Tests : Computing(u)' => fed'[u] <= words'
      BY <1>1 DEF TypeOK, Computing
    <2>4. QED
      BY <2>1, <2>2, <2>3 DEF TypeOK
  <1>3. (VerdictIsEarned /\ PlacesAreConsistent)'
    <2>1. VerdictIsEarned'
      BY DEF VerdictIsEarned
    <2>2. PlacesAreConsistent'
      BY <1>1 DEF PlacesAreConsistent, TypeOK
    <2>3. QED
      BY <2>1, <2>2
  <1>4. BuffersTellWires'
    BY DEF BuffersTellWires, TypeOK
  <1>5. UnitHoldsComputation'
    <2> SUFFICES ASSUME NEW u \in Tests, Computing(u)', ~disturbed'[u]
                 PROVE  /\ \A v \in Tests \ {u} : ~Computing(v)'
                        /\ Len(dr') = fed'[u]
                        /\ \A k \in 1 .. fed'[u] : dr'[k] = <<buff'[u][way'[u]], k>>
      BY DEF UnitHoldsComputation
    <2>1. \A v \in Tests : Computing(v)' <=> Computing(v)
      BY DEF Computing, TypeOK
    <2>2. u = t /\ \A v \in Tests \ {u} : ~Computing(v)'
      BY <2>1 DEF UnitHoldsComputation, Computing
    <2>3. Len(dr) = fed[t] /\ \A k \in 1 .. fed[t] : dr[k] = <<buff[t][way[t]], k>>
      BY <2>1, <2>2 DEF UnitHoldsComputation
    <2>4. Len(dr') = fed[t] + 1
      BY <1>1, <2>3 DEF TypeOK
    <2>5. ASSUME NEW k \in 1 .. fed[t] + 1
          PROVE  dr'[k] = <<buff[t][way[t]], k>>
      <3>1. CASE k = fed[t] + 1
        BY <1>1, <2>3, <3>1 DEF TypeOK, word
      <3>2. CASE k # fed[t] + 1
        <4>1. k \in 1 .. fed[t] /\ dr'[k] = dr[k]
          BY <1>1, <2>3, <3>2 DEF TypeOK
        <4>2. QED
          BY <2>3, <4>1
      <3>3. QED
        BY <3>1, <3>2
    <2>6. QED
      BY <1>1, <2>2, <2>4, <2>5
  <1>6. QED
    BY <1>2, <1>3, <1>4, <1>5

\* A computation nobody disturbed matches iff the reference arrived.
LEMMA MatchesTells ==
  ASSUME IInv, NEW t \in Tests, tpc[t] = "read", ~disturbed[t]
  PROVE  Matches <=> buff[t][way[t]] = "reference"
  <1> USE LoopbackAssumption DEF IInv
  <1>1. /\ Len(dr) = words
        /\ \A k \in 1 .. words : dr[k] = <<buff[t][way[t]], k>>
    BY DEF UnitHoldsComputation, PlacesAreConsistent, Computing
  <1>2. ASSUME Matches PROVE buff[t][way[t]] = "reference"
    <2>1. 1 \in 1 .. words /\ dr[1] = <<"reference", 1>>
      BY <1>2 DEF Matches, PlacesAreConsistent, TypeOK
    <2>2. QED
      BY <1>1, <2>1
  <1>3. ASSUME buff[t][way[t]] = "reference" PROVE Matches
    <2>1. dr = [k \in 1 .. Len(dr) |-> dr[k]]
      BY DEF TypeOK
    <2>2. QED
      BY <1>1, <1>3, <2>1 DEF Matches
  <1>4. QED
    BY <1>2, <1>3

LEMMA ReadCrcIInv ==
  ASSUME IInv, NEW t \in Tests, ReadCrc(t)
  PROVE  IInv'
  <1>1. ~disturbed[t] => /\ Matches <=> buff[t][way[t]] = "reference"
                         /\ sound[t] <=> buff[t][way[t]] = "reference"
    BY MatchesTells DEF IInv, ReadCrc, BuffersTellWires
  <1> USE DEF IInv, ReadCrc, Return
  <1> HIDE DEF Matches
  <1>2. TypeOK'
    BY DEF TypeOK, Ways, Computing
  <1>3. VerdictIsEarned'
    BY <1>1 DEF VerdictIsEarned, PlacesAreConsistent, BuffersTellWires, TypeOK, Ways
  <1>4. PlacesAreConsistent'
    BY DEF PlacesAreConsistent, TypeOK
  <1>5. BuffersTellWires'
    BY <1>1 DEF BuffersTellWires, TypeOK, Ways
  <1>6. UnitHoldsComputation'
    BY DEF UnitHoldsComputation, Computing, TypeOK
  <1>7. QED
    BY <1>2, <1>3, <1>4, <1>5, <1>6

LEMMA NextIInv == IInv /\ [Next]_vars => IInv'
  <1> SUFFICES ASSUME IInv, [Next]_vars PROVE IInv'
    OBVIOUS
  <1>1. CASE UNCHANGED vars
    BY <1>1 DEF vars, IInv, TypeOK, VerdictIsEarned, PlacesAreConsistent,
                BuffersTellWires, UnitHoldsComputation, Computing
  <1>2. CASE Next
    <2>1. CASE Prepare
      BY <2>1, PrepareIInv
    <2>2. CASE \E t \in Tests : Rewire(t)
      BY <2>2, RewireIInv
    <2>3. CASE \E t \in Tests : TestStep(t)
      BY <2>3, StartIInv, RefusedIInv, ExchangeIInv, ExchangeUnheardIInv,
         TransferFailsIInv, StopIInv, ResetCrcIInv, FeedCrcIInv, ReadCrcIInv
      DEF TestStep
    <2>4. QED
      BY <1>2, <2>1, <2>2, <2>3 DEF Next
  <1>3. QED
    BY <1>1, <1>2

-----------------------------------------------------------------------------
(* Theorems.                                                               *)

\* The inductive invariant holds: what the place of a run says about its
\* buffers, its handle and the CRC unit.
THEOREM Invariance == Spec => []IInv
  <1>1. Init => IInv
    BY InitIInv
  <1>2. IInv /\ [Next]_vars => IInv'
    BY NextIInv
  <1>3. QED
    BY <1>1, <1>2, PTL DEF Spec

\* Types; in particular HAL_CRC_Calculate feeds no more words than the string
\* has, whoever computes at the same time.
THEOREM TypeCorrect == Spec => []TypeOK
  <1>1. IInv => TypeOK
    BY DEF IInv
  <1>2. QED
    BY <1>1, Invariance, PTL

\* A verdict of test_uart, test_spi or test_i2c is about the wires during this
\* run, unless another task used the CRC unit during one of its computations.
THEOREM VerdictEarned == Spec => []VerdictIsEarned
  <1>1. IInv => VerdictIsEarned
    BY DEF IInv
  <1>2. QED
    BY <1>1, Invariance, PTL

\* HAL_UART_DMAStop and HAL_SPI_DMAStop leave no handle busy between two runs.
THEOREM IndependentRuns == Spec => []RunsAreIndependent
  <1>1. IInv => RunsAreIndependent
    BY DEF IInv, RunsAreIndependent, PlacesAreConsistent
  <1>2. QED
    BY <1>1, Invariance, PTL
=============================================================================

---------------------------- MODULE LoopbackTests ----------------------------
(***************************************************************************)
(* The tests of UART, SPI and I2C (peripheral_tests.c).  Each sends the    *)
(* reference string from one peripheral to a second one of its kind, which *)
(* receives by DMA, compares CRCs, sends the string back and compares      *)
(* again.  Their tasks have one priority and share the CRC unit without a  *)
(* lock, so FreeRTOS may switch between them within a computation.         *)
(*                                                                         *)
(* When and how often a test runs is TestRunner's business: here a test    *)
(* may start at any time.  That the reference is prepared only while none  *)
(* runs is shown there (ReferenceStable).                                  *)
(* A CRC is taken to tell any two strings apart.                           *)
(***************************************************************************)
EXTENDS Naturals, Sequences

CONSTANTS
    Tests,    \* some of "uart", "spi", "i2c"
    Lengths   \* of reference strings, as the words the CRC unit is fed

ASSUME LoopbackAssumption ==
    /\ Tests \subseteq {"uart", "spi", "i2c"}
    /\ Lengths \subseteq Nat

VARIABLES
    words,     \* length of the reference string; it may be empty
    wired,     \* whether the wires between the two peripherals are sound
    tpc,       \* where the test is; "idle" between two runs
    way,       \* 1: there, 2: and back
    buff,      \* what the static buffer of each way holds
    armed,     \* whether the handle on the side of the DMA is busy
    returned,  \* where the last run for this reference returned
    dr,        \* CRC unit: the words fed since the last reset
    fed,       \* words of the current computation fed so far
    sound,     \* history: whether the wires were sound whenever it sent
    disturbed  \* history: another CRC was computed during one of this run

vars == <<words, wired, tpc, way, buff, armed, returned, dr, fed, sound,
          disturbed>>

\* Cleared, the reference string, or anything else.
Content == {"zero", "reference", "other"}

Ways == {1, 2}

Computing(t) == tpc[t] \in {"feed", "read"}

Init ==
    /\ words = 0
    /\ wired = [t \in Tests |-> TRUE]
    /\ tpc = [t \in Tests |-> "idle"]
    /\ way = [t \in Tests |-> 1]
    /\ buff = [t \in Tests |-> [w \in Ways |-> "zero"]]
    /\ armed = [t \in Tests |-> FALSE]
    /\ returned = [t \in Tests |-> "none"]
    /\ dr = <<>>
    /\ fed = [t \in Tests |-> 0]
    /\ sound = [t \in Tests |-> TRUE]
    /\ disturbed = [t \in Tests |-> FALSE]

(* A definition whose name ends in a fault is a plausible slip, not used,  *)
(* that the property named beside it would notice.                         *)

-----------------------------------------------------------------------------

\* Wires come loose and are put back.
Rewire(t) ==
    /\ wired' = [wired EXCEPT ![t] = ~@]
    /\ UNCHANGED <<words, tpc, way, buff, armed, returned, dr, fed, sound,
                   disturbed>>

\* test_reference_prepare, between two requests: the same string again, or
\* another, which no buffer has.  It uses the CRC unit as well.
Prepare ==
    /\ \A t \in Tests : tpc[t] = "idle"
    /\ words' \in Lengths
    /\ \/ words' = words /\ UNCHANGED buff
       \/ buff' = [t \in Tests |-> [w \in Ways |->
                     IF buff[t][w] = "reference" THEN "other" ELSE buff[t][w]]]
    /\ dr' = [k \in 1 .. words' |-> <<"reference", k>>]
    /\ returned' = [t \in Tests |-> "none"]
    /\ UNCHANGED <<wired, tpc, way, armed, fed, sound, disturbed>>

\* The buffers are static: bzero removes what an earlier run left in them.
Cleared_Never(b) == b                                   \* VerdictIsEarned
Cleared(b)       == [w \in Ways |-> "zero"]

Start(t) ==
    /\ tpc[t] = "idle"
    /\ tpc' = [tpc EXCEPT ![t] = "exchange"]
    /\ way' = [way EXCEPT ![t] = 1]
    /\ buff' = [buff EXCEPT ![t] = Cleared(@)]
    /\ sound' = [sound EXCEPT ![t] = TRUE]
    /\ disturbed' = [disturbed EXCEPT ![t] = FALSE]
    /\ returned' = [returned EXCEPT ![t] = "none"]
    /\ UNCHANGED <<words, wired, armed, dr, fed>>

\* What stopping the reception does to a handle that is still busy: the HAL's
\* DMAStop of UART and SPI makes it ready, HAL_DMA_Abort does not know it.
StillArmed_All(t, a) == a                               \* RunsAreIndependent
StillArmed(t, a)     == IF t = "i2c" THEN a ELSE FALSE

Return(t, how) ==
    /\ tpc' = [tpc EXCEPT ![t] = "idle"]
    /\ returned' = [returned EXCEPT ![t] = how]

\* HAL_..._Receive_DMA refuses a busy handle.
Refused(t) ==
    /\ tpc[t] = "exchange"
    /\ armed[t]
    /\ armed' = [armed EXCEPT ![t] = StillArmed(t, @)]
    /\ sound' = [sound EXCEPT ![t] = @ /\ wired[t]]
    /\ Return(t, "refused")
    /\ UNCHANGED <<words, wired, way, buff, dr, fed, disturbed>>

\* What is sent: the reference, and on the way back what arrived.
Sent(t) == IF way[t] = 1 THEN "reference" ELSE buff[t][1]

\* Over sound wires the string arrives, and the end of the transfer makes the
\* handle ready.
Exchange(t) ==
    /\ tpc[t] = "exchange"
    /\ ~armed[t] /\ words > 0
    /\ wired[t]
    /\ buff' = [buff EXCEPT ![t][way[t]] = Sent(t)]
    /\ tpc' = [tpc EXCEPT ![t] = "gap"]
    /\ UNCHANGED <<words, wired, way, armed, returned, dr, fed, sound,
                   disturbed>>

\* Over others nothing or a part arrives, and the handle stays busy unless an
\* error was seen.  UART and SPI have no acknowledgements and do not notice.
ExchangeUnheard(t) ==
    /\ tpc[t] = "exchange"
    /\ ~armed[t] /\ words > 0
    /\ ~wired[t] /\ t # "i2c"
    /\ sound' = [sound EXCEPT ![t] = FALSE]
    /\ \E c \in {buff[t][way[t]], "other"} :
          buff' = [buff EXCEPT ![t][way[t]] = c]
    /\ \E busy \in BOOLEAN : armed' = [armed EXCEPT ![t] = busy]
    /\ tpc' = [tpc EXCEPT ![t] = "gap"]
    /\ UNCHANGED <<words, wired, way, returned, dr, fed, disturbed>>

\* The HAL does not return HAL_OK: there is nothing to transfer, an I2C slave
\* does not acknowledge, or the sender, which polls, takes longer than
\* TEST_TIMEOUT_TICKS.  The test stops the reception and gives up.
TransferFails(t) ==
    /\ tpc[t] = "exchange"
    /\ ~armed[t]
    /\ sound' = [sound EXCEPT ![t] = @ /\ wired[t]]
    /\ \/ words = 0 /\ UNCHANGED <<buff, armed>>
       \/ /\ words > 0
          /\ \E c \in Content :
                /\ c \in {buff[t][way[t]], "other"} \/ (wired[t] /\ c = Sent(t))
                /\ buff' = [buff EXCEPT ![t][way[t]] = c]
          /\ \E busy \in BOOLEAN :
                armed' = [armed EXCEPT ![t] = StillArmed(t, busy)]
    /\ Return(t, "error")
    /\ UNCHANGED <<words, wired, way, dr, fed, disturbed>>

\* After TEST_GAP_TICKS.
Stop(t) ==
    /\ tpc[t] = "gap"
    /\ armed' = [armed EXCEPT ![t] = StillArmed(t, @)]
    /\ tpc' = [tpc EXCEPT ![t] = "reset"]
    /\ UNCHANGED <<words, wired, way, buff, returned, dr, fed, sound,
                   disturbed>>

-----------------------------------------------------------------------------
(* HAL_CRC_Calculate sets a state that it never looks at, resets the unit, *)
(* feeds the string word by word and reads the result.                     *)

AfterReset_Continues(d) == d                            \* VerdictIsEarned
AfterReset(d)           == <<>>

\* Two computations overlap: both runs are disturbed.
ResetCrc(t) ==
    /\ tpc[t] = "reset"
    /\ dr' = AfterReset(dr)
    /\ fed' = [fed EXCEPT ![t] = 0]
    /\ tpc' = [tpc EXCEPT ![t] = "feed"]
    /\ disturbed' = [u \in Tests |->
          \/ disturbed[u]
          \/ u # t /\ Computing(u)
          \/ u = t /\ \E o \in Tests : Computing(o)]
    /\ UNCHANGED <<words, wired, way, buff, armed, returned, sound>>

IsLast_Late(k) == k > words                             \* TypeOK
IsLast(k)      == k = words

FeedCrc(t) ==
    /\ tpc[t] = "feed"
    /\ fed' = [fed EXCEPT ![t] = @ + 1]
    /\ dr' = Append(dr, <<buff[t][way[t]], fed'[t]>>)
    /\ tpc' = IF IsLast(fed'[t]) THEN [tpc EXCEPT ![t] = "read"] ELSE tpc
    /\ UNCHANGED <<words, wired, way, buff, armed, returned, sound, disturbed>>

Matches == dr = [k \in 1 .. words |-> <<"reference", k>>]

\* The result is read and compared with that of the reference.
ReadCrc(t) ==
    /\ tpc[t] = "read"
    /\ \/ /\ ~Matches
          /\ Return(t, "mismatch")
          /\ UNCHANGED way
       \/ /\ Matches /\ way[t] = 1
          /\ way' = [way EXCEPT ![t] = 2]
          /\ tpc' = [tpc EXCEPT ![t] = "exchange"]
          /\ UNCHANGED returned
       \/ /\ Matches /\ way[t] = 2
          /\ Return(t, "passed")
          /\ UNCHANGED way
    /\ UNCHANGED <<words, wired, buff, armed, dr, fed, sound, disturbed>>

TestStep(t) ==
    \/ Start(t) \/ Refused(t) \/ Exchange(t) \/ ExchangeUnheard(t)
    \/ TransferFails(t) \/ Stop(t) \/ ResetCrc(t) \/ FeedCrc(t) \/ ReadCrc(t)

Next == Prepare \/ \E t \in Tests : Rewire(t) \/ TestStep(t)

Spec == Init /\ [][Next]_vars

-----------------------------------------------------------------------------
(* Properties.                                                             *)

\* Every variable stays in its type; in particular no string is fed for longer
\* than it is.
TypeOK ==
    /\ words \in Lengths \cup {0}
    /\ wired \in [Tests -> BOOLEAN]
    /\ tpc \in [Tests -> {"idle", "exchange", "gap", "reset", "feed", "read"}]
    /\ way \in [Tests -> Ways]
    /\ buff \in [Tests -> [Ways -> Content]]
    /\ armed \in [Tests -> BOOLEAN]
    /\ returned \in [Tests ->
                      {"none", "refused", "error", "mismatch", "passed"}]
    /\ dr \in Seq(Content \X (Nat \ {0}))
    /\ fed \in [Tests -> Nat]
    /\ \A t \in Tests : Computing(t) => fed[t] <= words
    /\ sound \in [Tests -> BOOLEAN]
    /\ disturbed \in [Tests -> BOOLEAN]

\* As long as no other CRC was computed during one of its own, a test passes
\* only if a string went over sound wires both ways, and a comparison fails only
\* if they were not sound.  (A transfer may fail over sound wires: the HAL
\* rejects the empty string, and a sender that is held up runs into its
\* timeout.)
VerdictIsEarned ==
    \A t \in Tests : ~disturbed[t] =>
        /\ returned[t] = "passed" =>
              words > 0 /\ sound[t] /\ \A w \in Ways : buff[t][w] = "reference"
        /\ returned[t] = "mismatch" => ~sound[t]

\* However a run of UART or SPI ended, the next one is not refused.
RunsAreIndependent ==
    \A t \in Tests \ {"i2c"} : tpc[t] \in {"idle", "reset"} => ~armed[t]

\* peripheral_tests.c: what was transferred is compared with the reference by
\* CRC.  Over wires that were sound whenever it sent, a test whose CRCs nobody
\* disturbed passes unless a transfer it began failed.
SoundWiresPass ==
    \A t \in Tests : sound[t] /\ ~disturbed[t] =>
        returned[t] \in {"none", "passed", "error"}
=============================================================================

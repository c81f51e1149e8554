------------------------- MODULE ClientSessionProofs -------------------------
(***************************************************************************)
(* Proofs about ClientSession, for any number of requests, copies, losses, *)
(* restarts and resets: what the log says of a request belongs together,   *)
(* and to that request.                                                    *)
(***************************************************************************)
EXTENDS ClientSession, TLAPS, SequenceTheorems

(* The inductive invariant.                                                *)

\* What carries the client half and the number of a request.
Carriers ==
    toServer \cup toClient \cup {jobs[k] : k \in DOMAIN jobs}
        \cup {running[k] : k \in DOMAIN running} \cup {latest, NoJob}

\* The first value of the counter of client halves, and how many steps a value
\* is away from it.
First   == IF FreshInstall THEN 1 ELSE MaxClientId - 1
Age(id) == IF id >= First THEN id - First ELSE id - First + MaxClientId

Composing == pc \in {"save", "send"}

\* The counter is the saved one, or the next one until that is saved.
CounterFollowsFile ==
    /\ Composing => lastId # 0 /\ composed # 0
    /\ ~saveFailed =>
         /\ Loaded(saved) \in Half /\ (MaxRequests > 0 => Loaded(saved) # 0)
         /\ pc # "save" => lastId = Loaded(saved) /\ Age(lastId) <= composed
         /\ pc = "save" => /\ lastId = NextHalf(Loaded(saved), MaxClientId)
                           /\ Age(Loaded(saved)) < composed

\* No two requests have a client half in common, and one that is composed has
\* a new one.
HalvesTellRequests ==
    /\ \A x \in Carriers : x.n <= composed /\ (x.client = 0 <=> x.n = 0)
    /\ Composing => \A x \in Carriers : x.n < composed
    /\ ~saveFailed =>
         /\ \A x \in Carriers : x.n # 0 => Age(x.client) <= Age(Loaded(saved))
         /\ Composing => \A x \in Carriers : x.n # 0 => Age(x.client) < Age(lastId)
         /\ \A x, y \in Carriers : x.client = y.client => x.n = y.n

\* The server sends answers to what reached it only.
AnswersWereHeard ==
    /\ \A p \in toClient : p.msg # "BEACON" => p.n \in heard
    /\ \A k \in DOMAIN jobs : jobs[k].n \in heard
    /\ \A k \in DOMAIN running : running[k].n \in heard

\* What is logged of the request that is awaited: nothing, or the NEW_ACK
\* whose server half is the one in latest_request_buffer.
LatestIsLogged ==
    /\ \A k \in DOMAIN db : db[k].n <= composed
    /\ Composing => \A k \in DOMAIN db : db[k].n < composed
    /\ pc = "await" =>
         /\ latest.n = composed
         /\ \A k \in DOMAIN db : db[k].n = latest.n =>
              /\ acked /\ db[k].table = "request"
              /\ db[k].server = latest.server /\ db[k].client = latest.client

TimesOutInSteps == waited \in {0, SOCKET_TIMEOUT_SEC, NEW_TEST_ACK_TIMEOUT_SEC}

IInv ==
    /\ TypeOK
    /\ TimesOutInSteps
    /\ CounterFollowsFile
    /\ HalvesTellRequests
    /\ AnswersWereHeard
    /\ LatestIsLogged
    /\ RowsBelongToRequest
    /\ RowsAreConsistent
    /\ AckedWasHeard

-----------------------------------------------------------------------------
(* Client halves.                                                          *)

LEMMA AgeType == \A id \in Half : Age(id) \in Int
  BY IdsAssumption DEF Half, Age, First

\* The counter does not come back to a value within MaxRequests steps.
LEMMA NextIsOlder ==
  ASSUME NEW id \in 1 .. MaxClientId, Age(id) < MaxRequests
  PROVE  /\ NextHalf(id, MaxClientId) \in 1 .. MaxClientId
         /\ Age(NextHalf(id, MaxClientId)) = Age(id) + 1
  <1>1. MaxRequests \in Nat /\ MaxClientId \in Nat /\ MaxClientId > MaxRequests
    BY IdsAssumption
  <1>2. First = 1 \/ First = MaxClientId - 1
    BY DEF First
  <1>3. CASE id = MaxClientId
    <2>1. NextHalf(id, MaxClientId) = 1
      BY <1>3 DEF NextHalf
    <2>2. QED
      BY <1>1, <1>2, <1>3, <2>1 DEF Age
  <1>4. CASE id # MaxClientId
    <2>1. NextHalf(id, MaxClientId) = id + 1
      BY <1>4 DEF NextHalf
    <2>2. QED
      BY <1>1, <1>2, <1>4, <2>1 DEF Age
  <1>5. QED
    BY <1>3, <1>4

LEMMA JobsAreSound ==
  ASSUME TypeOK
  PROVE  /\ \A k \in DOMAIN jobs : jobs[k] \in Job
         /\ \A k \in DOMAIN running : running[k] \in Job
         /\ running # <<>> => DOMAIN running = {1}
         /\ DOMAIN <<>> = {}
  <1>1. jobs \in Seq(Job) /\ running \in Seq(Job)
    BY DEF TypeOK
  <1>2. /\ \A k \in DOMAIN jobs : jobs[k] \in Job
        /\ \A k \in DOMAIN running : running[k] \in Job
    BY <1>1, LenProperties, ElementOfSeq
  <1>3. running # <<>> => DOMAIN running = {1}
    <2> DEFINE n == Len(running)
    <2>1. running # <<>> => n \in Nat \ {0}
      BY <1>1, EmptySeq
    <2>2. n <= 1
      BY DEF TypeOK
    <2>3. DOMAIN running = 1 .. n
      BY <1>1, LenProperties
    <2> HIDE DEF n
    <2>4. QED
      BY <2>1, <2>2, <2>3
  <1>4. QED
    BY <1>2, <1>3

LEMMA CarrierTypes ==
  ASSUME TypeOK
  PROVE  \A x \in Carriers : x.client \in Half /\ x.n \in Serial
  <1>1. /\ \A x \in toServer : x.client \in Half /\ x.n \in Serial
        /\ \A x \in toClient : x.client \in Half /\ x.n \in Serial
    BY DEF TypeOK, Packet
  <1>2. \A x \in Job : x.client \in Half /\ x.n \in Serial
    BY DEF Job
  <1>3. latest \in Job /\ NoJob \in Job
    BY IdsAssumption DEF TypeOK, NoJob, Job, Half, SHalf, Serial
  <1>4. QED
    BY <1>1, <1>2, <1>3, JobsAreSound DEF Carriers

LEMMA RowTypes ==
  ASSUME TypeOK
  PROVE  \A k \in DOMAIN db : db[k] \in Row /\ db[k].n \in Serial
  <1>1. db \in Seq(Row)
    BY DEF TypeOK
  <1>2. \A k \in DOMAIN db : db[k] \in Row
    BY <1>1, LenProperties, ElementOfSeq
  <1>3. QED
    BY <1>2 DEF Row

\* Steps that put nothing new into circulation.
LEMMA HalvesKept ==
  ASSUME HalvesTellRequests,
         \A y \in Carriers' : \E x \in Carriers : y.client = x.client /\ y.n = x.n,
         composed' = composed, saveFailed' = saveFailed, saved' = saved,
         Composing' => Composing /\ lastId' = lastId
  PROVE  HalvesTellRequests'
  <1>1. \A x \in Carriers' : x.n <= composed' /\ (x.client = 0 <=> x.n = 0)
    BY DEF HalvesTellRequests
  <1>2. Composing' => \A x \in Carriers' : x.n < composed'
    BY DEF HalvesTellRequests
  <1>3. ~saveFailed' =>
          \A x \in Carriers' : x.n # 0 => Age(x.client) <= Age(Loaded(saved'))
    BY DEF HalvesTellRequests
  <1>4. ~saveFailed' /\ Composing' =>
          \A x \in Carriers' : x.n # 0 => Age(x.client) < Age(lastId')
    BY DEF HalvesTellRequests
  <1>5. ~saveFailed' =>
          \A x, y \in Carriers' : x.client = y.client => x.n = y.n
    <2> SUFFICES ASSUME ~saveFailed', NEW x \in Carriers', NEW y \in Carriers',
                        x.client = y.client
                 PROVE  x.n = y.n
      OBVIOUS
    <2>1. PICK v \in Carriers : x.client = v.client /\ x.n = v.n
      OBVIOUS
    <2>2. PICK w \in Carriers : y.client = w.client /\ y.n = w.n
      OBVIOUS
    <2>3. v.client = w.client => v.n = w.n
      BY DEF HalvesTellRequests
    <2>4. QED
      BY <2>1, <2>2, <2>3
  <1>6. QED
    BY <1>1, <1>2, <1>3, <1>4, <1>5 DEF HalvesTellRequests

LEMMA CounterKept ==
  ASSUME CounterFollowsFile,
         UNCHANGED <<lastId, saved, saveFailed, composed>>,
         pc' = pc \/ (pc # "save" /\ pc' \notin {"save", "send"})
  PROVE  CounterFollowsFile'
  BY DEF CounterFollowsFile, Composing

\* Steps that leave the log and the awaited request alone.
LEMMA LogKept ==
  ASSUME IInv, UNCHANGED <<db, composed>>,
         Composing' => Composing,
         pc' = "await" => pc = "await" /\ latest' = latest /\ (acked => acked'),
         acked' => acked, heard \subseteq heard', saveFailed => saveFailed'
  PROVE  /\ LatestIsLogged' /\ RowsBelongToRequest'
         /\ RowsAreConsistent' /\ AckedWasHeard'
  <1> USE DEF IInv
  <1>1. LatestIsLogged'
    BY DEF LatestIsLogged
  <1>2. RowsBelongToRequest' /\ RowsAreConsistent'
    BY DEF RowsBelongToRequest, RowsAreConsistent
  <1>3. AckedWasHeard'
    BY DEF AckedWasHeard
  <1>4. QED
    BY <1>1, <1>2, <1>3

-----------------------------------------------------------------------------
(* The initial state.                                                      *)

LEMMA InitIInv == Init => IInv
  <1> SUFFICES ASSUME Init PROVE IInv
    OBVIOUS
  <1>1. /\ MaxClientId \in Nat \ {0} /\ MaxServerId \in Nat \ {0}
        /\ MaxRequests \in Nat /\ MaxFaults \in Nat /\ MaxRequests < MaxClientId
        /\ MaxClientId - 1 \in Half /\ 1 \in Half /\ 0 \in Half /\ 0 \in SHalf
        /\ 0 \in Serial /\ FreshInstall \in BOOLEAN
    BY IdsAssumption DEF Half, SHalf, Serial
  <1>2. (saved = NoFile /\ lastId = 1) \/ (saved = MaxClientId - 1 /\ lastId = saved)
    BY <1>1 DEF Init, Loaded, NoFile, Garbled
  <1>3. lastId \in Half /\ lastId = Loaded(saved) /\ lastId = First
    BY <1>1 DEF Init, Loaded, NoFile, Garbled, First
  <1>4. TypeOK
    <2>1. \A S : <<>> \in Seq(S) /\ Len(<<>>) = 0
      BY EmptySeq
    <2>2. latest \in Job /\ saved \in Half \cup {NoFile, Garbled}
      BY <1>1, <1>2 DEF Init, Job, NoJob
    <2>3. /\ db \in Seq(Row) /\ jobs \in Seq(Job) /\ Len(jobs) <= QueueLen
          /\ running \in Seq(Job) /\ Len(running) <= 1
      BY <2>1, IdsAssumption DEF Init
    <2>4. /\ waited \in 0 .. NEW_TEST_ACK_TIMEOUT_SEC /\ nextId \in 1 .. MaxServerId
          /\ composed \in Serial /\ faults \in 0 .. MaxFaults
      BY <1>1 DEF Init, NEW_TEST_ACK_TIMEOUT_SEC
    <2>5. QED
      BY <1>3, <2>2, <2>3, <2>4 DEF Init, TypeOK
  <1>5. CounterFollowsFile
    <2>1. Age(lastId) = 0 /\ (MaxRequests > 0 => lastId # 0)
      BY <1>1, <1>3 DEF Age, First
    <2>2. QED
      BY <1>1, <1>3, <2>1 DEF Init, CounterFollowsFile, Composing
  <1>6. HalvesTellRequests
    <2>1. \A x \in Carriers : x = NoJob
      BY DEF Init, Carriers
    <2>2. QED
      BY <2>1 DEF Init, HalvesTellRequests, Composing, NoJob
  <1>7. /\ TimesOutInSteps /\ AnswersWereHeard /\ LatestIsLogged
        /\ RowsBelongToRequest /\ RowsAreConsistent /\ AckedWasHeard
    BY DEF Init, TimesOutInSteps, AnswersWereHeard, LatestIsLogged, Composing,
           RowsBelongToRequest, RowsAreConsistent, AckedWasHeard
  <1>8. QED
    BY <1>4, <1>5, <1>6, <1>7 DEF IInv

-----------------------------------------------------------------------------
(* Pairing.                                                                *)

LEMMA ProbeIsSound ==
  /\ Probe \in [msg: {"PROBE", "REQUEST"}, client: Half, n: Serial]
  /\ Probe.client = NoJob.client /\ Probe.n = NoJob.n
  BY IdsAssumption DEF Probe, NoJob, Half, Serial

LEMMA SendProbeIInv ==
  ASSUME IInv, SendProbe \/ ProbeTimeout PROVE IInv'
  <1> USE DEF IInv
  <1>1. /\ toServer' = toServer \cup {Probe}
        /\ pc \in {"pair", "listen"} /\ pc' = "listen"
        /\ UNCHANGED <<lastId, latest, acked, waited, saved, db, toClient, nextId,
                       jobs, running, composed, faults, saveFailed, heard>>
    BY DEF SendProbe, ProbeTimeout, client, files, server, history
  <1>2. TypeOK'
    BY <1>1, ProbeIsSound DEF TypeOK
  <1>3. TimesOutInSteps' /\ AnswersWereHeard'
    BY <1>1 DEF TimesOutInSteps, AnswersWereHeard
  <1>4. CounterFollowsFile'
    BY <1>1, CounterKept
  <1>5. HalvesTellRequests'
    <2>1. Carriers' = Carriers \cup {Probe} /\ NoJob \in Carriers
      BY <1>1 DEF Carriers
    <2>2. \A y \in Carriers' : \E x \in Carriers : y.client = x.client /\ y.n = x.n
      BY <2>1, ProbeIsSound
    <2>3. ~Composing'
      BY <1>1 DEF Composing
    <2>4. QED
      BY <1>1, <2>2, <2>3, HalvesKept
  <1>6. LatestIsLogged' /\ RowsBelongToRequest' /\ RowsAreConsistent' /\ AckedWasHeard'
    BY <1>1, LogKept DEF Composing
  <1>7. QED
    BY <1>2, <1>3, <1>4, <1>5, <1>6

LEMMA ReceivePairingIInv ==
  ASSUME IInv, NEW p \in toClient, ReceivePairing(p) PROVE IInv'
  <1> USE DEF IInv
  <1>1. /\ toClient' = toClient \ {p}
        /\ pc = "listen" /\ pc' \in {"pair", "idle"}
        /\ UNCHANGED <<lastId, latest, acked, waited, saved, db, toServer, nextId,
                       jobs, running, composed, faults, saveFailed, heard>>
    BY DEF ReceivePairing, files, server, history
  <1>2. TypeOK'
    BY <1>1 DEF TypeOK
  <1>3. TimesOutInSteps' /\ AnswersWereHeard'
    BY <1>1 DEF TimesOutInSteps, AnswersWereHeard
  <1>4. CounterFollowsFile'
    BY <1>1, CounterKept
  <1>5. HalvesTellRequests'
    <2>1. Carriers' \subseteq Carriers
      BY <1>1 DEF Carriers
    <2>2. ~Composing'
      BY <1>1 DEF Composing
    <2>3. QED
      BY <1>1, <2>1, <2>2, HalvesKept
  <1>6. LatestIsLogged' /\ RowsBelongToRequest' /\ RowsAreConsistent' /\ AckedWasHeard'
    BY <1>1, LogKept DEF Composing
  <1>7. QED
    BY <1>2, <1>3, <1>4, <1>5, <1>6

-----------------------------------------------------------------------------
(* A request.                                                              *)

\* The half is new: whatever circulates is younger.
LEMMA ComposeIInv ==
  ASSUME IInv, Compose PROVE IInv'
  <1> USE DEF IInv
  <1>1. /\ pc = "idle" /\ pc' = "save" /\ composed < MaxRequests
        /\ composed' = composed + 1 /\ lastId' = NextHalf(lastId, MaxClientId)
        /\ UNCHANGED <<latest, acked, waited, saved, db, toServer, toClient, nextId,
                       jobs, running, faults, saveFailed, heard>>
    BY DEF Compose, files, server
  <1>2. /\ composed \in Nat /\ composed' \in Serial /\ composed' # 0
        /\ MaxRequests \in Nat /\ MaxRequests > 0
    BY <1>1, IdsAssumption DEF TypeOK, Serial
  <1>3. lastId' \in Half /\ lastId' # 0
    BY <1>1, IdsAssumption DEF TypeOK, NextHalf, Half
  <1>4. ~saveFailed => /\ lastId = Loaded(saved) /\ Age(lastId) <= composed
                       /\ lastId \in 1 .. MaxClientId
    BY <1>1, <1>2, IdsAssumption DEF CounterFollowsFile, Half
  <1>5. ~saveFailed => Age(lastId') = Age(lastId) + 1 /\ Age(lastId) \in Int
    <2> SUFFICES ASSUME ~saveFailed
                 PROVE  Age(lastId') = Age(lastId) + 1 /\ Age(lastId) \in Int
      OBVIOUS
    <2>1. Age(lastId) \in Int
      BY AgeType DEF TypeOK
    <2>2. Age(lastId) < MaxRequests
      BY <1>1, <1>2, <1>4, <2>1
    <2>3. QED
      BY <1>1, <1>4, <2>1, <2>2, NextIsOlder
  <1>6. TypeOK'
    BY <1>1, <1>2, <1>3 DEF TypeOK
  <1>7. TimesOutInSteps' /\ AnswersWereHeard'
    BY <1>1 DEF TimesOutInSteps, AnswersWereHeard
  <1>8. CounterFollowsFile'
    <2>1. ~saveFailed => Age(Loaded(saved)) < composed'
      <3> SUFFICES ASSUME ~saveFailed PROVE Age(Loaded(saved)) < composed'
        OBVIOUS
      <3>1. Age(lastId) <= composed /\ Age(lastId) \in Int
        BY <1>4, <1>5
      <3>2. QED
        BY <1>1, <1>2, <1>4, <3>1
    <2>2. QED
      BY <1>1, <1>2, <1>3, <1>4, <2>1 DEF CounterFollowsFile, Composing
  <1>9. HalvesTellRequests'
    <2>1. Carriers' = Carriers
      BY <1>1 DEF Carriers
    <2>2. \A x \in Carriers : /\ x.n \in Nat /\ x.client \in Half
                              /\ x.n <= composed /\ (x.client = 0 <=> x.n = 0)
      BY CarrierTypes, IdsAssumption DEF HalvesTellRequests, Serial
    <2>3. \A x \in Carriers : x.n < composed' /\ x.n <= composed'
      BY <1>1, <1>2, <2>2
    <2>4. ~saveFailed => \A x \in Carriers : x.n # 0 => Age(x.client) < Age(lastId')
      <3> SUFFICES ASSUME ~saveFailed, NEW x \in Carriers, x.n # 0
                   PROVE  Age(x.client) < Age(lastId')
        OBVIOUS
      <3>1. Age(x.client) <= Age(lastId)
        BY <1>4 DEF HalvesTellRequests
      <3>2. Age(x.client) \in Int
        BY <2>2, AgeType
      <3>3. QED
        BY <1>5, <3>1, <3>2
    <2>5. QED
      BY <1>1, <2>1, <2>2, <2>3, <2>4 DEF HalvesTellRequests
  <1>10. LatestIsLogged'
    <2>1. \A k \in DOMAIN db : db[k].n <= composed /\ db[k].n \in Nat
      BY RowTypes, IdsAssumption DEF LatestIsLogged, Serial
    <2>2. \A k \in DOMAIN db : db[k].n <= composed' /\ db[k].n < composed'
      BY <1>1, <1>2, <2>1
    <2>3. QED
      BY <1>1, <2>2 DEF LatestIsLogged
  <1>11. RowsBelongToRequest' /\ RowsAreConsistent' /\ AckedWasHeard'
    BY <1>1 DEF RowsBelongToRequest, RowsAreConsistent, AckedWasHeard
  <1>12. QED
    BY <1>6, <1>7, <1>8, <1>9, <1>10, <1>11

LEMMA SaveIdIInv ==
  ASSUME IInv, SaveId PROVE IInv'
  <1> USE DEF IInv
  <1>1. /\ pc = "save" /\ pc' = "send"
        /\ \/ saved' = lastId /\ saveFailed' = saveFailed
           \/ saved' \in {saved, Garbled} /\ saveFailed' = TRUE
        /\ UNCHANGED <<lastId, latest, acked, waited, db, toServer, toClient, nextId,
                       jobs, running, composed, faults, heard>>
    BY DEF SaveId, server
  <1>2. TypeOK'
    BY <1>1 DEF TypeOK
  <1>3. TimesOutInSteps' /\ AnswersWereHeard'
    BY <1>1 DEF TimesOutInSteps, AnswersWereHeard
  <1>4. ~saveFailed' => /\ ~saveFailed /\ saved' = lastId
                        /\ Loaded(saved') = lastId /\ lastId \in Half
    BY <1>1 DEF TypeOK, Half, Loaded, NoFile, Garbled
  <1>5. ~saveFailed => Age(lastId) <= composed
    <2> SUFFICES ASSUME ~saveFailed PROVE Age(lastId) <= composed
      OBVIOUS
    <2> DEFINE id == Loaded(saved)
    <2>1. /\ id \in Half /\ (MaxRequests > 0 => id # 0)
          /\ lastId = NextHalf(id, MaxClientId) /\ Age(id) < composed
      BY <1>1 DEF CounterFollowsFile
    <2>2. composed \in Nat /\ composed <= MaxRequests /\ MaxRequests \in Nat
      BY IdsAssumption DEF TypeOK, Serial
    <2>3. composed # 0
      BY <1>1 DEF CounterFollowsFile, Composing
    <2> HIDE DEF id
    <2>4. Age(id) \in Int
      BY <2>1, AgeType
    <2>5. id \in 1 .. MaxClientId /\ Age(id) < MaxRequests
      BY <2>1, <2>2, <2>3, <2>4, IdsAssumption DEF Half
    <2>6. Age(lastId) = Age(id) + 1
      BY <2>1, <2>5, NextIsOlder
    <2>7. QED
      BY <2>1, <2>2, <2>4, <2>6
  <1>6. CounterFollowsFile'
    BY <1>1, <1>4, <1>5 DEF CounterFollowsFile, Composing
  <1>7. HalvesTellRequests'
    <2>1. Carriers' = Carriers /\ Composing /\ Composing'
      BY <1>1 DEF Carriers, Composing
    <2>2. ~saveFailed => \A x \in Carriers : x.n # 0 => Age(x.client) <= Age(lastId)
      <3>1. ~saveFailed => \A x \in Carriers : x.n # 0 => Age(x.client) < Age(lastId)
        BY <2>1 DEF HalvesTellRequests
      <3>2. \A x \in Carriers : Age(x.client) \in Int
        BY CarrierTypes, AgeType
      <3>3. Age(lastId) \in Int
        BY AgeType DEF TypeOK
      <3>4. QED
        BY <3>1, <3>2, <3>3
    <2>3. QED
      BY <1>1, <1>4, <2>1, <2>2 DEF HalvesTellRequests
  <1>8. LatestIsLogged'
    BY <1>1 DEF LatestIsLogged, Composing
  <1>9. RowsBelongToRequest' /\ RowsAreConsistent' /\ AckedWasHeard'
    BY <1>1 DEF RowsBelongToRequest, RowsAreConsistent, AckedWasHeard
  <1>10. QED
    BY <1>2, <1>3, <1>6, <1>7, <1>8, <1>9

\* From now on the half of the request is known.
LEMMA SendRequestIInv ==
  ASSUME IInv, SendRequest PROVE IInv'
  <1> USE DEF IInv
  <1> DEFINE q == [msg |-> "REQUEST", client |-> lastId, n |-> composed]
  <1>1. /\ pc = "send" /\ pc' = "await" /\ toServer' = toServer \cup {q}
        /\ latest' = [server |-> 0, client |-> lastId, n |-> composed]
        /\ acked' = FALSE /\ waited' = 0
        /\ UNCHANGED <<lastId, saved, db, toClient, nextId, jobs, running, composed,
                       faults, saveFailed, heard>>
    BY DEF SendRequest, files, server, history
  <1>2. /\ q \in [msg: {"PROBE", "REQUEST"}, client: Half, n: Serial]
        /\ latest' \in Job
    <2>1. 0 \in SHalf /\ lastId \in Half /\ composed \in Serial
      BY IdsAssumption DEF TypeOK, SHalf
    <2>2. QED
      BY <1>1, <2>1 DEF Job
  <1>3. TypeOK'
    <2>1. toServer' \subseteq [msg: {"PROBE", "REQUEST"}, client: Half, n: Serial]
      <3> HIDE DEF q
      <3>1. QED
        BY <1>1, <1>2 DEF TypeOK
    <2>2. waited' \in 0 .. NEW_TEST_ACK_TIMEOUT_SEC
      BY <1>1 DEF NEW_TEST_ACK_TIMEOUT_SEC
    <2> HIDE DEF q
    <2>3. QED
      BY <1>1, <1>2, <2>1, <2>2 DEF TypeOK
  <1>4. TimesOutInSteps' /\ AnswersWereHeard'
    BY <1>1 DEF TimesOutInSteps, AnswersWereHeard
  <1>5. CounterFollowsFile'
    BY <1>1 DEF CounterFollowsFile, Composing
  <1>6. HalvesTellRequests'
    <2>1. \A y \in Carriers' :
            \/ y \in Carriers
            \/ y.client = lastId /\ y.n = composed
      <3>1. Carriers' \subseteq Carriers \cup {q, latest'}
        BY <1>1 DEF Carriers
      <3>2. /\ q.client = lastId /\ q.n = composed
            /\ latest'.client = lastId /\ latest'.n = composed
        BY <1>1
      <3> HIDE DEF q
      <3>3. QED
        BY <3>1, <3>2
    <2>2. lastId # 0 /\ composed # 0 /\ composed <= composed
      BY <1>1, IdsAssumption DEF CounterFollowsFile, Composing, TypeOK, Serial
    <2>3. ~saveFailed => Loaded(saved) = lastId /\ Age(lastId) \in Int
      BY <1>1, AgeType DEF CounterFollowsFile, TypeOK
    <2>4. \A x \in Carriers : x.n <= composed /\ (x.client = 0 <=> x.n = 0)
      BY DEF HalvesTellRequests
    <2>5. ~saveFailed => \A x \in Carriers : x.n # 0 =>
              Age(x.client) < Age(lastId) /\ Age(x.client) <= Age(lastId)
      <3>1. ~saveFailed => \A x \in Carriers : x.n # 0 => Age(x.client) < Age(lastId)
        BY <1>1 DEF HalvesTellRequests, Composing
      <3>2. \A x \in Carriers : Age(x.client) \in Int
        BY CarrierTypes, AgeType
      <3>3. QED
        BY <2>3, <3>1, <3>2
    <2>6. ~saveFailed => \A x \in Carriers : x.client # lastId
      <3>1. ~saveFailed => ~(Age(lastId) < Age(lastId))
        BY <2>3
      <3>2. QED
        BY <2>2, <2>4, <2>5, <3>1
    <2>7. ~saveFailed => \A x, y \in Carriers : x.client = y.client => x.n = y.n
      BY DEF HalvesTellRequests
    <2>8. ~saveFailed => \A x, y \in Carriers' : x.client = y.client => x.n = y.n
      BY <2>1, <2>6, <2>7
    <2>9. ~saveFailed => \A x \in Carriers' : x.n # 0 => Age(x.client) <= Age(lastId)
      BY <2>1, <2>3, <2>5
    <2>10. \A x \in Carriers' : x.n <= composed /\ (x.client = 0 <=> x.n = 0)
      BY <2>1, <2>2, <2>4
    <2>11. QED
      BY <1>1, <2>3, <2>8, <2>9, <2>10 DEF HalvesTellRequests, Composing
  <1>7. LatestIsLogged'
    <2>1. \A k \in DOMAIN db : db[k].n < composed /\ db[k].n \in Nat
      BY <1>1, RowTypes, IdsAssumption DEF LatestIsLogged, Composing, Serial
    <2>2. composed \in Nat
      BY IdsAssumption DEF TypeOK, Serial
    <2>3. \A k \in DOMAIN db : db[k].n # composed /\ db[k].n <= composed
      BY <2>1, <2>2
    <2>4. QED
      BY <1>1, <2>3 DEF LatestIsLogged, Composing
  <1>8. RowsBelongToRequest' /\ RowsAreConsistent' /\ AckedWasHeard'
    BY <1>1 DEF RowsBelongToRequest, RowsAreConsistent, AckedWasHeard
  <1>9. QED
    BY <1>3, <1>4, <1>5, <1>6, <1>7, <1>8

LEMMA SendFailsIInv ==
  ASSUME IInv, SendFails PROVE IInv'
  <1> USE DEF IInv
  <1>1. /\ pc = "send" /\ pc' = "idle"
        /\ UNCHANGED <<lastId, latest, acked, waited, saved, db, toServer, toClient,
                       nextId, jobs, running, composed, faults, saveFailed, heard>>
    BY DEF SendFails, files, server, history
  <1>2. TypeOK' /\ TimesOutInSteps' /\ AnswersWereHeard'
    BY <1>1 DEF TypeOK, TimesOutInSteps, AnswersWereHeard
  <1>3. CounterFollowsFile'
    BY <1>1, CounterKept
  <1>4. HalvesTellRequests'
    <2>1. Carriers' = Carriers /\ ~Composing'
      BY <1>1 DEF Carriers, Composing
    <2>2. QED
      BY <1>1, <2>1, HalvesKept
  <1>5. LatestIsLogged' /\ RowsBelongToRequest' /\ RowsAreConsistent' /\ AckedWasHeard'
    BY <1>1, LogKept DEF Composing
  <1>6. QED
    BY <1>2, <1>3, <1>4, <1>5

-----------------------------------------------------------------------------
(* The answers.                                                            *)

\* Steps of an awaiting client that keep to the awaited request.
LEMMA AwaitKept ==
  ASSUME IInv, pc = "await", pc' \in {"pair", "idle", "await"},
         toClient' \subseteq toClient,
         latest'.client = latest.client, latest'.n = latest.n,
         UNCHANGED <<lastId, saved, toServer, nextId, jobs, running, composed,
                     faults, saveFailed, heard>>
  PROVE  CounterFollowsFile' /\ HalvesTellRequests' /\ AnswersWereHeard'
  <1> USE DEF IInv
  <1>1. CounterFollowsFile'
    BY CounterKept
  <1>2. HalvesTellRequests'
    <2>1. /\ Carriers' \subseteq Carriers \cup {latest'}
          /\ latest \in Carriers
      BY DEF Carriers
    <2>2. \A y \in Carriers' : \E x \in Carriers : y.client = x.client /\ y.n = x.n
      BY <2>1
    <2>3. ~Composing'
      BY DEF Composing
    <2>4. QED
      BY <2>2, <2>3, HalvesKept
  <1>3. AnswersWereHeard'
    BY DEF AnswersWereHeard
  <1>4. QED
    BY <1>1, <1>2, <1>3

\* A client half that is the one awaited comes from the request awaited, which
\* was heard if this is an answer.
LEMMA SameHalfSameRequest ==
  ASSUME IInv, NEW p \in toClient, p.client = latest.client, ~saveFailed
  PROVE  p.n = latest.n /\ (p.msg # "BEACON" => latest.n \in heard)
  <1>1. p \in Carriers /\ latest \in Carriers
    BY DEF Carriers
  <1>2. p.n = latest.n
    BY <1>1 DEF IInv, HalvesTellRequests
  <1>3. QED
    BY <1>2 DEF IInv, AnswersWereHeard

LEMMA RowIsAdded ==
  ASSUME TypeOK, NEW row \in Row, db' = Append(db, row)
  PROVE  /\ db' \in Seq(Row)
         /\ \A k \in DOMAIN db' : db'[k] = row \/ (k \in DOMAIN db /\ db'[k] = db[k])
         /\ \A j, k \in DOMAIN db' : j < k => j \in DOMAIN db /\ db'[j] = db[j]
  <1> DEFINE n == Len(db)
  <1>1. /\ db \in Seq(Row) /\ n \in Nat /\ DOMAIN db = 1 .. n
    BY LenProperties DEF TypeOK
  <1>2. /\ db' \in Seq(Row) /\ Len(db') = n + 1
        /\ \A i \in 1 .. n : db'[i] = db[i]
        /\ db'[n + 1] = row
    BY <1>1, AppendProperties
  <1>3. DOMAIN db' = 1 .. n + 1
    BY <1>2, LenProperties
  <1> HIDE DEF n
  <1>4. \A k \in 1 .. n + 1 : k = n + 1 \/ k \in 1 .. n
    BY <1>1
  <1>5. \A j, k \in 1 .. n + 1 : j < k => j \in 1 .. n
    BY <1>1
  <1>6. QED
    BY <1>1, <1>2, <1>3, <1>4, <1>5

LEMMA AwaitTimeoutIInv ==
  ASSUME IInv, AwaitTimeout PROVE IInv'
  <1> USE DEF IInv
  <1>1. /\ pc = "await" /\ pc' \in {"pair", "await"}
        /\ \/ waited' = waited
           \/ waited < NEW_TEST_ACK_TIMEOUT_SEC /\ waited' = waited + SOCKET_TIMEOUT_SEC
        /\ UNCHANGED <<lastId, latest, acked, saved, db, toServer, toClient, nextId,
                       jobs, running, composed, faults, saveFailed, heard>>
    <2>1. waited >= NEW_TEST_ACK_TIMEOUT_SEC \/ waited < NEW_TEST_ACK_TIMEOUT_SEC
      BY DEF TimesOutInSteps, SOCKET_TIMEOUT_SEC, NEW_TEST_ACK_TIMEOUT_SEC
    <2>2. QED
      BY <2>1 DEF AwaitTimeout, Waited, files, server, history
  <1>2. TimesOutInSteps'
    BY <1>1 DEF TimesOutInSteps, SOCKET_TIMEOUT_SEC, NEW_TEST_ACK_TIMEOUT_SEC
  <1>3. TypeOK'
    <2>1. waited' \in 0 .. NEW_TEST_ACK_TIMEOUT_SEC
      BY <1>2 DEF TimesOutInSteps, SOCKET_TIMEOUT_SEC, NEW_TEST_ACK_TIMEOUT_SEC
    <2>2. QED
      BY <1>1, <2>1 DEF TypeOK
  <1>4. CounterFollowsFile' /\ HalvesTellRequests' /\ AnswersWereHeard'
    BY <1>1, AwaitKept
  <1>5. LatestIsLogged' /\ RowsBelongToRequest' /\ RowsAreConsistent' /\ AckedWasHeard'
    BY <1>1, LogKept DEF Composing
  <1>6. QED
    BY <1>2, <1>3, <1>4, <1>5

\* Packets that are read and change nothing else.
LEMMA PacketDropped ==
  ASSUME IInv, NEW p \in toClient, pc = "await", pc' = "await",
         toClient' = toClient \ {p},
         UNCHANGED <<lastId, latest, acked, waited, saved, db, toServer, nextId, jobs,
                     running, composed, faults, saveFailed, heard>>
  PROVE  IInv'
  <1> USE DEF IInv
  <1>1. TypeOK' /\ TimesOutInSteps'
    BY DEF TypeOK, TimesOutInSteps
  <1>2. CounterFollowsFile' /\ HalvesTellRequests' /\ AnswersWereHeard'
    BY AwaitKept
  <1>3. LatestIsLogged' /\ RowsBelongToRequest' /\ RowsAreConsistent' /\ AckedWasHeard'
    BY LogKept DEF Composing
  <1>4. QED
    BY <1>1, <1>2, <1>3

LEMMA ReceiveNewAckIInv ==
  ASSUME IInv, NEW p \in toClient, ReceiveNewAck(p) PROVE IInv'
  <1> USE DEF IInv
  <1> DEFINE row == [table |-> "request", server |-> p.server, client |-> p.client,
                     n |-> latest.n, of |-> p.n]
  <1>1. /\ pc = "await" /\ p.msg = "NEW_ACK" /\ toClient' = toClient \ {p}
        /\ UNCHANGED <<lastId, waited, saved, toServer, nextId, jobs, running,
                       composed, faults, saveFailed, heard>>
    BY DEF ReceiveNewAck, server, history
  <1>2. CASE ~NewAckCounts(p)
    <2>1. pc' = pc /\ UNCHANGED <<latest, db, acked>>
      BY <1>2 DEF ReceiveNewAck
    <2>2. QED
      BY <1>1, <2>1, PacketDropped
  <1>3. CASE NewAckCounts(p)
    <2>1. /\ ~acked /\ p.client = latest.client
          /\ latest' = [latest EXCEPT !.server = p.server]
          /\ db' = Append(db, row) /\ acked' = p.ok
          /\ pc' = IF p.ok THEN "await" ELSE "idle"
      BY <1>3 DEF ReceiveNewAck, NewAckCounts, SameClientHalf, LogRow
    <2>2. latest \in Job /\ p \in Packet
      BY DEF TypeOK
    <2>3. /\ p.ok \in BOOLEAN /\ p.server \in SHalf /\ p.client \in Half
          /\ p.n \in Serial /\ latest.n \in Serial
      BY <2>2 DEF Packet, Job
    <2>4. row \in Row
      BY <2>3 DEF Row
    <2>5. /\ latest' \in Job /\ latest'.client = latest.client
          /\ latest'.n = latest.n /\ latest'.server = p.server
      BY <2>1, <2>2, <2>3 DEF Job
    <2>6. pc' \in {"await", "idle"} /\ (pc' = "await" => acked') /\ acked' \in BOOLEAN
      BY <2>1, <2>3
    <2>7. /\ row.table = "request" /\ row.server = p.server /\ row.client = p.client
          /\ row.n = latest.n /\ row.of = p.n
      OBVIOUS
    <2>8. /\ db' \in Seq(Row)
          /\ \A k \in DOMAIN db' : db'[k] = row \/ (k \in DOMAIN db /\ db'[k] = db[k])
          /\ \A j, k \in DOMAIN db' : j < k => j \in DOMAIN db /\ db'[j] = db[j]
      <3> HIDE DEF row
      <3>1. QED
        BY <2>1, <2>4, RowIsAdded
    <2> HIDE DEF row
    <2>9. /\ latest.n = composed
          /\ \A k \in DOMAIN db : db[k].n # latest.n
      BY <1>1, <2>1 DEF LatestIsLogged
    <2>10. TypeOK'
      BY <1>1, <2>5, <2>6, <2>8 DEF TypeOK
    <2>11. TimesOutInSteps'
      BY <1>1 DEF TimesOutInSteps
    <2>12. CounterFollowsFile' /\ HalvesTellRequests' /\ AnswersWereHeard'
      BY <1>1, <2>5, <2>6, AwaitKept
    <2>13. LatestIsLogged'
      <3>1. \A k \in DOMAIN db' : db'[k].n <= composed'
        <4>1. composed <= composed
          BY IdsAssumption DEF TypeOK, Serial
        <4>2. QED
          BY <1>1, <2>7, <2>8, <2>9, <4>1 DEF LatestIsLogged
      <3>2. \A k \in DOMAIN db' : db'[k].n = latest'.n =>
              /\ db'[k].table = "request"
              /\ db'[k].server = latest'.server /\ db'[k].client = latest'.client
        BY <2>1, <2>5, <2>7, <2>8, <2>9
      <3>3. ~Composing' /\ latest'.n = composed'
        BY <1>1, <2>5, <2>6, <2>9 DEF Composing
      <3>4. QED
        BY <2>6, <3>1, <3>2, <3>3 DEF LatestIsLogged
    <2>14. RowsBelongToRequest'
      <3> SUFFICES ASSUME ~saveFailed', NEW k \in DOMAIN db'
                   PROVE  db'[k].of = db'[k].n
        BY DEF RowsBelongToRequest
      <3>1. row.of = row.n
        BY <1>1, <2>1, <2>7, SameHalfSameRequest
      <3>2. k \in DOMAIN db => db[k].of = db[k].n
        BY <1>1 DEF RowsBelongToRequest
      <3>3. QED
        BY <2>8, <3>1, <3>2
    <2>15. RowsAreConsistent'
      <3> SUFFICES ASSUME NEW j \in DOMAIN db', NEW k \in DOMAIN db',
                          j < k, db'[j].n = db'[k].n
                   PROVE  /\ db'[j].table = "request" /\ db'[k].table = "result"
                          /\ db'[j].server = db'[k].server
                          /\ db'[j].client = db'[k].client
        BY DEF RowsAreConsistent
      <3>1. j \in DOMAIN db /\ db'[j] = db[j]
        BY <2>8
      <3>2. k \in DOMAIN db /\ db'[k] = db[k]
        BY <2>7, <2>8, <2>9, <3>1
      <3>3. QED
        BY <3>1, <3>2 DEF RowsAreConsistent
    <2>16. AckedWasHeard'
      BY <1>1, <2>1, <2>5, SameHalfSameRequest DEF AckedWasHeard
    <2>17. QED
      BY <2>10, <2>11, <2>12, <2>13, <2>14, <2>15, <2>16
  <1>4. QED
    BY <1>2, <1>3

LEMMA ReceiveStartAckIInv ==
  ASSUME IInv, NEW p \in toClient, ReceiveStartAck(p) PROVE IInv'
  <1> USE DEF IInv
  <1>1. /\ pc = "await" /\ pc' = "await" /\ p.msg = "START_ACK"
        /\ toClient' = toClient \ {p}
        /\ acked' = (acked \/ p.client = latest.client)
        /\ UNCHANGED <<lastId, latest, waited, saved, db, toServer, nextId, jobs,
                       running, composed, faults, saveFailed, heard>>
    BY DEF ReceiveStartAck, SameClientHalf, files, server, history
  <1>2. TypeOK'
    <2>1. acked' \in BOOLEAN
      BY <1>1
    <2>2. QED
      BY <1>1, <2>1 DEF TypeOK
  <1>3. TimesOutInSteps'
    BY <1>1 DEF TimesOutInSteps
  <1>4. CounterFollowsFile' /\ HalvesTellRequests' /\ AnswersWereHeard'
    BY <1>1, AwaitKept
  <1>5. LatestIsLogged' /\ RowsBelongToRequest' /\ RowsAreConsistent'
    <2>1. acked => acked'
      BY <1>1
    <2>2. LatestIsLogged'
      <3>1. ~Composing'
        BY <1>1 DEF Composing
      <3>2. QED
        BY <1>1, <2>1, <3>1, Zenon DEF LatestIsLogged
    <2>3. QED
      BY <1>1, <2>2 DEF RowsBelongToRequest, RowsAreConsistent
  <1>6. AckedWasHeard'
    BY <1>1, SameHalfSameRequest DEF AckedWasHeard
  <1>7. QED
    BY <1>2, <1>3, <1>4, <1>5, <1>6

\* Results are logged after the row of the NEW_ACK, if there is one, and then
\* with its ID.
LEMMA ReceiveResultsIInv ==
  ASSUME IInv, NEW p \in toClient, ReceiveResults(p) PROVE IInv'
  <1> USE DEF IInv
  <1> DEFINE row == [table |-> "result", server |-> p.server, client |-> p.client,
                     n |-> latest.n, of |-> p.n]
  <1>1. /\ pc = "await" /\ p.msg = "RESULTS" /\ toClient' = toClient \ {p}
        /\ acked' = (acked \/ p.client = latest.client)
        /\ UNCHANGED <<lastId, latest, waited, saved, toServer, nextId, jobs, running,
                       composed, faults, saveFailed, heard>>
    BY DEF ReceiveResults, SameClientHalf, server, history
  <1>2. acked' \in BOOLEAN
    BY <1>1
  <1>3. TimesOutInSteps'
    BY <1>1 DEF TimesOutInSteps
  <1>4. CASE ~SameFullId(p)
    <2>1. pc' = "await" /\ db' = db
      BY <1>1, <1>4 DEF ReceiveResults
    <2>2. TypeOK'
      BY <1>1, <1>2, <2>1 DEF TypeOK
    <2>3. CounterFollowsFile' /\ HalvesTellRequests' /\ AnswersWereHeard'
      BY <1>1, <2>1, AwaitKept
    <2>4. LatestIsLogged' /\ RowsBelongToRequest' /\ RowsAreConsistent'
      <3>1. ~Composing' /\ (acked => acked')
        BY <1>1, <2>1 DEF Composing
      <3>2. LatestIsLogged'
        BY <1>1, <2>1, <3>1, Zenon DEF LatestIsLogged
      <3>3. QED
        BY <1>1, <2>1, <3>2 DEF RowsBelongToRequest, RowsAreConsistent
    <2>5. AckedWasHeard'
      BY <1>1, <2>1, SameHalfSameRequest DEF AckedWasHeard
    <2>6. QED
      BY <1>3, <2>2, <2>3, <2>4, <2>5
  <1>5. CASE SameFullId(p)
    <2>1. /\ p.client = latest.client /\ (acked => p.server = latest.server)
          /\ pc' = "idle" /\ db' = Append(db, row)
      BY <1>5 DEF ReceiveResults, SameFullId, SameClientHalf, LogRow
    <2>2. latest \in Job /\ p \in Packet
      BY DEF TypeOK
    <2>3. /\ p.server \in SHalf /\ p.client \in Half
          /\ p.n \in Serial /\ latest.n \in Serial
      BY <2>2 DEF Packet, Job
    <2>4. row \in Row
      BY <2>3 DEF Row
    <2>5. /\ row.table = "result" /\ row.server = p.server /\ row.client = p.client
          /\ row.n = latest.n /\ row.of = p.n
      OBVIOUS
    <2>6. /\ db' \in Seq(Row)
          /\ \A k \in DOMAIN db' : db'[k] = row \/ (k \in DOMAIN db /\ db'[k] = db[k])
          /\ \A j, k \in DOMAIN db' : j < k => j \in DOMAIN db /\ db'[j] = db[j]
      <3> HIDE DEF row
      <3>1. QED
        BY <2>1, <2>4, RowIsAdded
    <2> HIDE DEF row
    <2>7. /\ latest.n = composed
          /\ \A k \in DOMAIN db : db[k].n = latest.n =>
               /\ acked /\ db[k].table = "request"
               /\ db[k].server = latest.server /\ db[k].client = latest.client
      BY <1>1 DEF LatestIsLogged
    <2>8. TypeOK'
      BY <1>1, <1>2, <2>1, <2>6 DEF TypeOK
    <2>9. CounterFollowsFile' /\ HalvesTellRequests' /\ AnswersWereHeard'
      BY <1>1, <2>1, AwaitKept
    <2>10. LatestIsLogged'
      <3>1. composed <= composed
        BY IdsAssumption DEF TypeOK, Serial
      <3>2. \A k \in DOMAIN db' : db'[k].n <= composed'
        BY <1>1, <2>5, <2>6, <2>7, <3>1 DEF LatestIsLogged
      <3>3. QED
        BY <2>1, <3>2 DEF LatestIsLogged, Composing
    <2>11. RowsBelongToRequest'
      <3> SUFFICES ASSUME ~saveFailed', NEW k \in DOMAIN db'
                   PROVE  db'[k].of = db'[k].n
        BY DEF RowsBelongToRequest
      <3>1. row.of = row.n
        BY <1>1, <2>1, <2>5, SameHalfSameRequest
      <3>2. k \in DOMAIN db => db[k].of = db[k].n
        BY <1>1 DEF RowsBelongToRequest
      <3>3. QED
        BY <2>6, <3>1, <3>2
    <2>12. RowsAreConsistent'
      <3> SUFFICES ASSUME NEW j \in DOMAIN db', NEW k \in DOMAIN db',
                          j < k, db'[j].n = db'[k].n
                   PROVE  /\ db'[j].table = "request" /\ db'[k].table = "result"
                          /\ db'[j].server = db'[k].server
                          /\ db'[j].client = db'[k].client
        BY DEF RowsAreConsistent
      <3>1. j \in DOMAIN db /\ db'[j] = db[j]
        BY <2>6
      <3>2. CASE db'[k] = row
        <4>1. db[j].n = latest.n
          BY <2>5, <3>1, <3>2
        <4>2. QED
          BY <2>1, <2>5, <2>7, <3>1, <3>2, <4>1
      <3>3. CASE k \in DOMAIN db /\ db'[k] = db[k]
        BY <3>1, <3>3 DEF RowsAreConsistent
      <3>4. QED
        BY <2>6, <3>2, <3>3
    <2>13. AckedWasHeard'
      BY <2>1 DEF AckedWasHeard
    <2>14. QED
      BY <1>3, <2>8, <2>9, <2>10, <2>11, <2>12, <2>13
  <1>6. QED
    BY <1>4, <1>5

LEMMA ReceiveInvalidIInv ==
  ASSUME IInv, NEW p \in toClient, ReceiveInvalid(p) PROVE IInv'
  <1>1. /\ pc = "await" /\ pc' = "await" /\ toClient' = toClient \ {p}
        /\ UNCHANGED <<lastId, latest, acked, waited, saved, db, toServer, nextId, jobs,
                       running, composed, faults, saveFailed, heard>>
    BY DEF ReceiveInvalid, client, files, server, history
  <1>2. QED
    BY <1>1, PacketDropped

\* Started again, the client goes on from the saved half.
LEMMA RestartClientIInv ==
  ASSUME IInv, RestartClient PROVE IInv'
  <1> USE DEF IInv
  <1>1. /\ pc' = "pair" /\ lastId' = Loaded(saved) /\ latest' = NoJob
        /\ acked' = FALSE /\ waited' = 0
        /\ faults < MaxFaults /\ faults' = faults + 1
        /\ UNCHANGED <<saved, db, toServer, toClient, nextId, jobs, running, composed,
                       saveFailed, heard>>
    BY DEF RestartClient, files, server
  <1>2. TypeOK'
    <2>1. lastId' \in Half
      <3>1. 0 \in Half /\ 1 \in Half
        BY IdsAssumption DEF Half
      <3>2. QED
        BY <1>1, <3>1 DEF TypeOK, Loaded
    <2>2. latest' \in Job
      BY <1>1, IdsAssumption DEF NoJob, Job, Half, SHalf, Serial
    <2>3. waited' \in 0 .. NEW_TEST_ACK_TIMEOUT_SEC /\ faults' \in 0 .. MaxFaults
      BY <1>1, IdsAssumption DEF NEW_TEST_ACK_TIMEOUT_SEC, TypeOK
    <2>4. QED
      BY <1>1, <2>1, <2>2, <2>3 DEF TypeOK
  <1>3. TimesOutInSteps' /\ AnswersWereHeard'
    BY <1>1 DEF TimesOutInSteps, AnswersWereHeard
  <1>4. CounterFollowsFile'
    <2>1. ~saveFailed => Age(Loaded(saved)) <= composed
      <3>1. ~saveFailed => Age(Loaded(saved)) \in Int
        BY AgeType DEF CounterFollowsFile
      <3>2. composed \in Int
        BY IdsAssumption DEF TypeOK, Serial
      <3>3. QED
        BY <3>1, <3>2 DEF CounterFollowsFile
    <2>2. QED
      BY <1>1, <2>1 DEF CounterFollowsFile, Composing
  <1>5. HalvesTellRequests'
    <2>1. Carriers' \subseteq Carriers
      BY <1>1 DEF Carriers
    <2>2. ~Composing'
      BY <1>1 DEF Composing
    <2>3. QED
      BY <1>1, <2>1, <2>2, HalvesKept
  <1>6. LatestIsLogged' /\ RowsBelongToRequest' /\ RowsAreConsistent' /\ AckedWasHeard'
    BY <1>1, LogKept DEF Composing
  <1>7. QED
    BY <1>2, <1>3, <1>4, <1>5, <1>6

-----------------------------------------------------------------------------
(* The server and the network.                                             *)

\* What steps of the server and the network owe: they answer what was heard,
\* with halves that circulate.
LEMMA ServerKeeps ==
  ASSUME IInv, TypeOK', AnswersWereHeard',
         UNCHANGED <<client, files, composed, saveFailed>>,
         \A y \in Carriers' : \E x \in Carriers : y.client = x.client /\ y.n = x.n,
         heard \subseteq heard'
  PROVE  IInv'
  <1> USE DEF IInv
  <1>1. UNCHANGED <<pc, lastId, latest, acked, waited, saved, db>>
    BY DEF client, files
  <1>2. TimesOutInSteps'
    BY <1>1 DEF TimesOutInSteps
  <1>3. CounterFollowsFile'
    BY <1>1, CounterKept
  <1>4. HalvesTellRequests'
    BY <1>1, HalvesKept DEF Composing
  <1>5. LatestIsLogged' /\ RowsBelongToRequest' /\ RowsAreConsistent' /\ AckedWasHeard'
    BY <1>1, LogKept DEF Composing
  <1>6. QED
    BY <1>2, <1>3, <1>4, <1>5

LEMMA AnswerType ==
  ASSUME NEW msg \in {"NEW_ACK", "START_ACK", "RESULTS", "BEACON"}, NEW job \in Job,
         NEW ok \in BOOLEAN, NEW copy \in 0 .. AckRepeats
  PROVE  /\ Answer(msg, job, ok, copy) \in Packet
         /\ Answer(msg, job, ok, copy).client = job.client
         /\ Answer(msg, job, ok, copy).n = job.n
         /\ Answer(msg, job, ok, copy).msg = msg
  BY DEF Answer, Packet, Job

LEMMA PlainAnswerType ==
  ASSUME NEW msg \in {"NEW_ACK", "START_ACK", "RESULTS", "BEACON"}, NEW job \in Job
  PROVE  /\ Answer(msg, job, TRUE, 0) \in Packet
         /\ Answer(msg, job, TRUE, 0).client = job.client
         /\ Answer(msg, job, TRUE, 0).n = job.n
         /\ Answer(msg, job, TRUE, 0).msg = msg
  <1>1. 0 \in 0 .. AckRepeats
    BY IdsAssumption
  <1>2. QED
    BY <1>1 DEF Answer, Packet, Job

LEMMA NoJobType == NoJob \in Job
  BY IdsAssumption DEF NoJob, Job, Half, SHalf, Serial

LEMMA ReceiveProbeIInv ==
  ASSUME IInv, ReceiveProbe PROVE IInv'
  <1> USE DEF IInv
  <1>1. /\ toServer' = toServer \ {Probe} /\ toClient' = toClient \cup {Beacon}
        /\ UNCHANGED <<client, files, server, history>>
        /\ UNCHANGED <<pc, lastId, latest, acked, waited, saved, db, nextId, jobs,
                       running, composed, faults, saveFailed, heard>>
    BY DEF ReceiveProbe, client, files, server, history
  <1>2. /\ Beacon \in Packet /\ Beacon.client = NoJob.client
        /\ Beacon.n = NoJob.n /\ Beacon.msg = "BEACON"
    BY NoJobType, PlainAnswerType DEF Beacon
  <1>3. TypeOK'
    BY <1>1, <1>2 DEF TypeOK
  <1>4. AnswersWereHeard'
    BY <1>1, <1>2 DEF AnswersWereHeard
  <1>5. \A y \in Carriers' : \E x \in Carriers : y.client = x.client /\ y.n = x.n
    <2>1. Carriers' \subseteq Carriers \cup {Beacon} /\ NoJob \in Carriers
      BY <1>1 DEF Carriers
    <2>2. QED
      BY <1>2, <2>1
  <1>6. QED
    BY <1>1, <1>3, <1>4, <1>5, ServerKeeps

LEMMA ReceiveRequestIInv ==
  ASSUME IInv, NEW q \in toServer, ReceiveRequest(q), toServer' \subseteq toServer,
         faults' = faults \/ (faults < MaxFaults /\ faults' = faults + 1)
  PROVE  IInv'
  <1> USE DEF IInv
  <1> DEFINE job  == [server |-> nextId, client |-> q.client, n |-> q.n]
             ok   == Len(jobs) < QueueLen
             acks == {Answer("NEW_ACK", job, ok, k) : k \in 1 .. AckRepeats}
  <1>0. ok => Len(jobs) < QueueLen
    OBVIOUS
  <1>1. /\ ok \in BOOLEAN
        /\ heard' = heard \cup {q.n}
        /\ nextId' = NextHalf(nextId, MaxServerId)
        /\ jobs' = IF ok THEN Append(jobs, job) ELSE jobs
        /\ toClient' = toClient \cup acks
        /\ UNCHANGED <<client, files, running, composed, saveFailed>>
    BY DEF ReceiveRequest
  <1>2. UNCHANGED <<pc, lastId, latest, acked, waited, saved, db>>
    BY <1>1 DEF client, files
  <1>3. /\ q.client \in Half /\ q.n \in Serial /\ q \in Carriers
        /\ job \in Job /\ job.client = q.client /\ job.n = q.n
    <2>1. q.client \in Half /\ q.n \in Serial /\ q \in Carriers
      BY DEF TypeOK, Carriers
    <2>2. nextId \in SHalf
      BY IdsAssumption DEF TypeOK, SHalf
    <2>3. QED
      BY <2>1, <2>2 DEF Job
  <1> HIDE DEF job
  <1> HIDE DEF ok
  <1>4. \A y \in acks : /\ y \in Packet /\ y.client = q.client /\ y.n = q.n
                            /\ y.msg = "NEW_ACK"
    <2>1. \A k \in 1 .. AckRepeats : k \in 0 .. AckRepeats
      BY IdsAssumption
    <2>2. QED
      BY <1>1, <1>3, <2>1, AnswerType
  <1> HIDE DEF acks
  <1>5. /\ jobs' \in Seq(Job) /\ Len(jobs') <= QueueLen
        /\ \A k \in DOMAIN jobs' :
             jobs'[k] = job \/ (k \in DOMAIN jobs /\ jobs'[k] = jobs[k])
    <2>1. CASE ~ok
      BY <1>1, <2>1 DEF TypeOK
    <2>2. CASE ok
      <3> DEFINE n == Len(jobs)
      <3>1. jobs \in Seq(Job) /\ n \in Nat /\ DOMAIN jobs = 1 .. n
        BY LenProperties DEF TypeOK
      <3>2. /\ jobs' \in Seq(Job) /\ Len(jobs') = n + 1
            /\ \A i \in 1 .. n : jobs'[i] = jobs[i]
            /\ jobs'[n + 1] = job
        BY <1>1, <1>3, <2>2, <3>1, AppendProperties
      <3>3. DOMAIN jobs' = 1 .. n + 1
        BY <3>2, LenProperties
      <3>4. n < QueueLen
        BY <1>0, <2>2
      <3> HIDE DEF n
      <3>5. n + 1 <= QueueLen
        BY <3>1, <3>4, IdsAssumption
      <3>6. \A k \in 1 .. n + 1 : k = n + 1 \/ k \in 1 .. n
        BY <3>1
      <3>7. QED
        BY <3>1, <3>2, <3>3, <3>5, <3>6
    <2>3. QED
      BY <2>1, <2>2
  <1>6. TypeOK'
    <2>1. nextId' \in 1 .. MaxServerId
      BY <1>1, IdsAssumption DEF TypeOK, NextHalf
    <2>2. faults' \in 0 .. MaxFaults
      BY IdsAssumption DEF TypeOK
    <2>3. toClient' \subseteq Packet /\ heard' \subseteq Serial
      BY <1>1, <1>3, <1>4 DEF TypeOK
    <2>4. QED
      BY <1>1, <1>2, <1>5, <2>1, <2>2, <2>3 DEF TypeOK
  <1>7. AnswersWereHeard'
    <2>1. \A p \in toClient' : p.msg # "BEACON" => p.n \in heard'
      BY <1>1, <1>4 DEF AnswersWereHeard
    <2>2. \A k \in DOMAIN jobs' : jobs'[k].n \in heard'
      BY <1>1, <1>3, <1>5 DEF AnswersWereHeard
    <2>3. \A k \in DOMAIN running' : running'[k].n \in heard'
      BY <1>1 DEF AnswersWereHeard
    <2>4. QED
      BY <2>1, <2>2, <2>3 DEF AnswersWereHeard
  <1>8. \A y \in Carriers' : \E x \in Carriers : y.client = x.client /\ y.n = x.n
    <2>1. Carriers' \subseteq Carriers \cup acks \cup {job}
      <3>1. {jobs'[k] : k \in DOMAIN jobs'} \subseteq
              {jobs[k] : k \in DOMAIN jobs} \cup {job}
        BY <1>5
      <3>2. QED
        BY <1>1, <1>2, <3>1 DEF Carriers
    <2>2. QED
      BY <1>3, <1>4, <2>1
  <1>9. heard \subseteq heard'
    BY <1>1
  <1>10. QED
    BY <1>1, <1>6, <1>7, <1>8, <1>9, ServerKeeps

LEMMA StartTestsIInv ==
  ASSUME IInv, StartTests PROVE IInv'
  <1> USE DEF IInv
  <1> DEFINE job == Head(jobs)
             ack == Answer("START_ACK", job, TRUE, 0)
  <1>1. /\ jobs # <<>> /\ running' = <<job>> /\ jobs' = Tail(jobs)
        /\ toClient' = toClient \cup {ack}
        /\ UNCHANGED <<client, files, toServer, nextId, history>>
    BY DEF StartTests
  <1>2. UNCHANGED <<pc, lastId, latest, acked, waited, saved, db, composed, faults,
                    saveFailed, heard>>
    BY <1>1 DEF client, files, history
  <1>3. /\ job \in Job /\ (\E k \in DOMAIN jobs : job = jobs[k])
        /\ jobs' \in Seq(Job) /\ Len(jobs') <= QueueLen
        /\ \A k \in DOMAIN jobs' : \E i \in DOMAIN jobs : jobs'[k] = jobs[i]
    <2> DEFINE n == Len(jobs)
    <2>1. jobs \in Seq(Job) /\ n \in Nat \ {0} /\ DOMAIN jobs = 1 .. n /\ n <= QueueLen
      BY <1>1, EmptySeq, LenProperties DEF TypeOK
    <2>2. /\ job \in Job /\ jobs' \in Seq(Job) /\ Len(jobs') = n - 1
          /\ \A i \in 1 .. Len(jobs') : jobs'[i] = jobs[i + 1]
      BY <1>1, <2>1, HeadTailProperties
    <2>3. DOMAIN jobs' = 1 .. n - 1 /\ \A i \in 1 .. n - 1 : jobs'[i] = jobs[i + 1]
      BY <2>2, LenProperties
    <2>4. job = jobs[1]
      BY <2>1
    <2> HIDE DEF n, job
    <2>5. 1 \in 1 .. n /\ n - 1 <= QueueLen /\ \A i \in 1 .. n - 1 : i + 1 \in 1 .. n
      BY <2>1, IdsAssumption
    <2>6. QED
      BY <2>1, <2>2, <2>3, <2>4, <2>5
  <1> HIDE DEF job
  <1>4. ack \in Packet /\ ack.client = job.client /\ ack.n = job.n
    BY <1>3, PlainAnswerType
  <1> HIDE DEF ack
  <1>5. /\ running' \in Seq(Job) /\ Len(running') <= 1
        /\ \A k \in DOMAIN running' : running'[k] = job
    BY <1>1, <1>3
  <1>6. TypeOK'
    BY <1>1, <1>2, <1>3, <1>4, <1>5 DEF TypeOK
  <1>7. AnswersWereHeard'
    <2>1. job.n \in heard
      BY <1>3 DEF AnswersWereHeard
    <2>2. QED
      BY <1>1, <1>2, <1>3, <1>4, <1>5, <2>1 DEF AnswersWereHeard
  <1>8. \A y \in Carriers' : \E x \in Carriers : y.client = x.client /\ y.n = x.n
    <2>1. job \in Carriers
      BY <1>3 DEF Carriers
    <2>2. {jobs'[k] : k \in DOMAIN jobs'} \subseteq {jobs[k] : k \in DOMAIN jobs}
      BY <1>3
    <2>3. {running'[k] : k \in DOMAIN running'} \subseteq {job}
      BY <1>5
    <2>4. Carriers' \subseteq Carriers \cup {ack}
      BY <1>1, <1>2, <2>1, <2>2, <2>3 DEF Carriers
    <2>5. QED
      BY <1>4, <2>1, <2>4
  <1>9. QED
    BY <1>1, <1>2, <1>6, <1>7, <1>8, ServerKeeps

LEMMA FinishTestsIInv ==
  ASSUME IInv, FinishTests PROVE IInv'
  <1> USE DEF IInv
  <1> DEFINE job == running[1]
             ack == Answer("RESULTS", job, TRUE, 0)
  <1>1. /\ running # <<>> /\ running' = <<>>
        /\ toClient' = toClient \cup {ack}
        /\ UNCHANGED <<client, files, toServer, nextId, jobs, history>>
    BY DEF FinishTests
  <1>2. UNCHANGED <<pc, lastId, latest, acked, waited, saved, db, composed, faults,
                    saveFailed, heard>>
    BY <1>1 DEF client, files, history
  <1>3. job \in Job /\ 1 \in DOMAIN running
    BY <1>1, JobsAreSound
  <1> HIDE DEF job
  <1>4. ack \in Packet /\ ack.client = job.client /\ ack.n = job.n
    BY <1>3, PlainAnswerType
  <1> HIDE DEF ack
  <1>5. running' \in Seq(Job) /\ Len(running') <= 1 /\ DOMAIN running' = {}
    BY <1>1, EmptySeq, JobsAreSound
  <1>6. TypeOK'
    BY <1>1, <1>2, <1>4, <1>5 DEF TypeOK
  <1>7. AnswersWereHeard'
    <2>1. job.n \in heard
      BY <1>3 DEF AnswersWereHeard, job
    <2>2. QED
      BY <1>1, <1>2, <1>4, <1>5, <2>1 DEF AnswersWereHeard
  <1>8. \A y \in Carriers' : \E x \in Carriers : y.client = x.client /\ y.n = x.n
    <2>1. job \in Carriers
      BY <1>3 DEF Carriers, job
    <2>2. {running'[k] : k \in DOMAIN running'} = {}
      BY <1>5
    <2>3. Carriers' \subseteq Carriers \cup {ack}
      BY <1>1, <1>2, <2>2 DEF Carriers
    <2>4. QED
      BY <1>4, <2>1, <2>3
  <1>9. QED
    BY <1>1, <1>2, <1>6, <1>7, <1>8, ServerKeeps

LEMMA ResetServerIInv ==
  ASSUME IInv, ResetServer PROVE IInv'
  <1> USE DEF IInv
  <1>1. /\ faults < MaxFaults /\ faults' = faults + 1 /\ nextId' = 1
        /\ jobs' = <<>> /\ running' = <<>>
        /\ UNCHANGED <<client, files, toServer, toClient, composed, saveFailed, heard>>
    BY DEF ResetServer
  <1>2. UNCHANGED <<pc, lastId, latest, acked, waited, saved, db>>
    BY <1>1 DEF client, files
  <1>3. /\ jobs' \in Seq(Job) /\ Len(jobs') <= QueueLen /\ DOMAIN jobs' = {}
        /\ running' \in Seq(Job) /\ Len(running') <= 1 /\ DOMAIN running' = {}
    BY <1>1, EmptySeq, JobsAreSound, IdsAssumption
  <1>4. nextId' \in 1 .. MaxServerId /\ faults' \in 0 .. MaxFaults
    BY <1>1, IdsAssumption DEF TypeOK
  <1>5. TypeOK'
    BY <1>1, <1>2, <1>3, <1>4 DEF TypeOK
  <1>6. AnswersWereHeard'
    BY <1>1, <1>3 DEF AnswersWereHeard
  <1>7. Carriers' \subseteq Carriers
    <2>1. /\ {jobs'[k] : k \in DOMAIN jobs'} = {}
          /\ {running'[k] : k \in DOMAIN running'} = {}
      BY <1>3
    <2>2. QED
      BY <1>1, <1>2, <2>1 DEF Carriers
  <1>8. QED
    BY <1>1, <1>5, <1>6, <1>7, ServerKeeps

-----------------------------------------------------------------------------
(* The theorems.                                                           *)

LEMMA NextIInv == IInv /\ [Next]_vars => IInv'
  <1> SUFFICES ASSUME IInv, [Next]_vars PROVE IInv'
    OBVIOUS
  <1>1. CASE ClientStep
    <2>1. ASSUME NEW p \in toClient, Receive(p) PROVE IInv'
      BY <2>1, ReceivePairingIInv, ReceiveNewAckIInv, ReceiveStartAckIInv,
         ReceiveResultsIInv, ReceiveInvalidIInv DEF Receive
    <2>2. QED
      BY <1>1, <2>1, SendProbeIInv, ComposeIInv, SaveIdIInv, SendRequestIInv,
         SendFailsIInv, AwaitTimeoutIInv DEF ClientStep
  <1>2. CASE ServerStep
    <2>1. ASSUME NEW q \in toServer, TakeRequest(q) PROVE IInv'
      BY <2>1, ReceiveRequestIInv DEF TakeRequest
    <2>2. QED
      BY <1>2, <2>1, ReceiveProbeIInv, StartTestsIInv, FinishTestsIInv DEF ServerStep
  <1>3. CASE RestartClient
    BY <1>3, RestartClientIInv
  <1>4. CASE ResetServer
    BY <1>4, ResetServerIInv
  <1>5. CASE DuplicateRequest
    <2>1. PICK q \in toServer : ReceiveRequest(q)
      BY <1>5 DEF DuplicateRequest
    <2>2. toServer' = toServer /\ faults < MaxFaults /\ faults' = faults + 1
      BY <1>5 DEF DuplicateRequest
    <2>3. QED
      BY <2>1, <2>2, ReceiveRequestIInv
  <1>6. CASE UNCHANGED vars
    <2>1. /\ UNCHANGED <<client, files, toServer, toClient, nextId, jobs, running>>
          /\ UNCHANGED <<composed, faults, saveFailed, heard>>
      BY <1>6 DEF vars, server, history
    <2>2. UNCHANGED <<pc, lastId, latest, acked, waited, saved, db>>
      BY <2>1 DEF client, files
    <2>3. TypeOK'
      BY <2>1, <2>2 DEF IInv, TypeOK
    <2>4. AnswersWereHeard'
      BY <2>1, <2>2 DEF IInv, AnswersWereHeard
    <2>5. Carriers' = Carriers
      BY <2>1, <2>2 DEF Carriers
    <2>6. QED
      BY <2>1, <2>3, <2>4, <2>5, ServerKeeps
  <1>7. QED
    BY <1>1, <1>2, <1>3, <1>4, <1>5, <1>6 DEF Next

\* The halves tell requests apart, whatever is lost, repeated or restarted.
THEOREM Invariance == Spec => []IInv
  <1> HIDE DEF IInv
  <1>1. QED
    BY InitIInv, NextIInv, PTL DEF Spec

\* Variables keep their types.
THEOREM TypeCorrect == Spec => []TypeOK
  <1>1. IInv => TypeOK
    BY DEF IInv
  <1>2. QED
    BY <1>1, Invariance, PTL

\* What client_await_response logs for a request stems from that request
\* (RowsBelongToRequest), if the last ID could be saved.
THEOREM RowsBelong == Spec => []RowsBelongToRequest
  <1>1. IInv => RowsBelongToRequest
    BY DEF IInv
  <1>2. QED
    BY <1>1, Invariance, PTL

\* A request has at most one row in each table, with one ID
\* (RowsAreConsistent), even if saving failed.
THEOREM RowsConsistent == Spec => []RowsAreConsistent
  <1>1. IInv => RowsAreConsistent
    BY DEF IInv
  <1>2. QED
    BY <1>1, Invariance, PTL

\* A client that considers its request acknowledged has been heard
\* (AckedWasHeard).
THEOREM AcksMeanHeard == Spec => []AckedWasHeard
  <1>1. IInv => AckedWasHeard
    BY DEF IInv
  <1>2. QED
    BY <1>1, Invariance, PTL
=============================================================================

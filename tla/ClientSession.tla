--------------------------- MODULE ClientSession ----------------------------
(***************************************************************************)
(* One test client (test-client/interface.c, client.c, common.c, db.c)     *)
(* talking UDP to the test server: pairing, numbering and sending          *)
(* requests, awaiting the answers, logging them, being terminated and      *)
(* started again.                                                          *)
(*                                                                         *)
(* The network keeps packets in no order and may deliver a request twice   *)
(* (of the answers, only the NEW_ACK comes in copies).  It need not deliver *)
(* any: a packet that stays in the network for ever is a lost one.  The     *)
(* server is reduced to what it sends for a request: AckRepeats copies of  *)
(* the NEW_ACK, then a START_ACK and a RESULTS if it accepted it.          *)
(*                                                                         *)
(* A client half is reused after MaxClientId requests only; MaxRequests,   *)
(* a bound of the model, stays below it as 65535 does in any real session. *)
(***************************************************************************)
EXTENDS Integers, Sequences, FiniteSets

CONSTANTS
    MaxClientId,   \* UINT16_MAX on the client
    MaxServerId,   \* UINT16_MAX on the server
    AckRepeats,    \* copies of a NEW_ACK, 4 in send_new_test_ack
    QueueLen,      \* slots of TestQueue
    MaxRequests,   \* bound: requests composed
    MaxFaults,     \* bound: restarts, resets and duplicated requests
    FreshInstall,  \* whether the client never ran before
    MaySaveFail    \* whether saving the last ID may fail

ASSUME IdsAssumption ==
    /\ AckRepeats \in Nat /\ QueueLen \in Nat
    /\ FreshInstall \in BOOLEAN /\ MaySaveFail \in BOOLEAN
    /\ MaxRequests \in Nat /\ MaxFaults \in Nat
    /\ MaxClientId \in Nat /\ MaxClientId > MaxRequests
    /\ MaxServerId \in Nat /\ MaxServerId > MaxRequests + MaxFaults

SOCKET_TIMEOUT_SEC       == 4
NEW_TEST_ACK_TIMEOUT_SEC == 8

VARIABLES
    \* client process
    pc,          \* where interface_loop is
    lastId,      \* last_test_id_client_half
    latest,      \* latest_request_buffer: both halves of the stored ID
    acked,       \* request_acknowledged
    waited,      \* ack_timeout_counter
    \* files of the client
    saved,       \* what the persistence file holds
    db,          \* the rows of the log, both tables, in order of insertion
    \* network
    toServer, toClient,
    \* server
    nextId,      \* next_test_id_server_half
    jobs,        \* TestQueue
    running,     \* <<>> or the request the test runner is at
    \* history and bounds
    composed,    \* requests composed; numbers them for the properties
    faults,      \* restarts, resets and duplicated requests so far
    saveFailed,  \* some save went wrong
    heard        \* the requests that reached the server

client  == <<pc, lastId, latest, acked, waited>>
files   == <<saved, db>>
server  == <<nextId, jobs, running>>
history == <<composed, faults, saveFailed, heard>>
vars    == <<client, files, toServer, toClient, server, history>>

\* Packets and rows carry in n the number of the request they stem from, and
\* rows in "of" that of the packet they were made from.  No code reads them.
Half    == 0 .. MaxClientId
SHalf   == 0 .. MaxServerId
Serial  == 0 .. MaxRequests
Job     == [server: SHalf, client: Half, n: Serial]
Probe   == [msg |-> "PROBE", client |-> 0, n |-> 0]
Packet  == [msg: {"NEW_ACK", "START_ACK", "RESULTS", "BEACON"}, server: SHalf,
            client: Half, ok: BOOLEAN, copy: 0 .. AckRepeats, n: Serial]
Row     == [table: {"request", "result"}, server: SHalf, client: Half,
            n: Serial, of: Serial]

Answer(msg, job, ok, copy) ==
    [msg |-> msg, server |-> job.server, client |-> job.client, ok |-> ok,
     copy |-> copy, n |-> job.n]

NoJob  == [server |-> 0, client |-> 0, n |-> 0]
Beacon == Answer("BEACON", NoJob, TRUE, 0)

NoFile  == -1   \* the persistence file does not exist
Garbled == -2   \* it was truncated, and writing it failed

(* As in TestRunner, a definition whose name ends in a fault is a plausible *)
(* slip, not used, that the property named beside it would notice.          *)

\* Both counters skip 0 when they wrap.
NextHalf_NoWrap(id, max) == id + 1                      \* TypeOK
NextHalf(id, max)        == IF id = max THEN 1 ELSE id + 1

\* load_last_client_test_id
Loaded_Fresh(file) == 1                                 \* RowsBelongToRequest
Loaded(file) == CASE file = NoFile  -> 1
                  [] file = Garbled -> 0
                  [] OTHER          -> file

Init ==
    /\ pc = "pair"
    /\ saved = IF FreshInstall THEN NoFile ELSE MaxClientId - 1
    /\ lastId = Loaded(saved)
    /\ latest = NoJob
    /\ acked = FALSE
    /\ waited = 0
    /\ db = <<>>
    /\ toServer = {} /\ toClient = {}
    /\ nextId = 1
    /\ jobs = <<>>
    /\ running = <<>>
    /\ composed = 0 /\ faults = 0 /\ saveFailed = FALSE /\ heard = {}

-----------------------------------------------------------------------------
(* Pairing: client_try_pairing.                                            *)

SendProbe ==
    /\ pc = "pair"
    /\ toServer' = toServer \cup {Probe}
    /\ pc' = "listen"
    /\ UNCHANGED <<lastId, latest, acked, waited, files, toClient, server,
                   history>>

ProbeTimeout ==
    /\ pc = "listen"
    /\ toServer' = toServer \cup {Probe}
    /\ UNCHANGED <<client, files, toClient, server, history>>

\* Anything but a beacon ends the attempt, and interface_loop starts another.
ReceivePairing(p) ==
    /\ pc = "listen"
    /\ toClient' = toClient \ {p}
    /\ pc' = IF p.msg = "BEACON" THEN "idle" ELSE "pair"
    /\ UNCHANGED <<lastId, latest, acked, waited, files, toServer, server,
                   history>>

-----------------------------------------------------------------------------
(* A request: the second half of interface_loop.                           *)

Compose ==
    /\ pc = "idle"
    /\ composed < MaxRequests
    /\ composed' = composed + 1
    /\ lastId' = NextHalf(lastId, MaxClientId)
    /\ pc' = "save"
    /\ UNCHANGED <<latest, acked, waited, files, toServer, toClient, server,
                   faults, saveFailed, heard>>

\* save_last_client_test_id: its caller does not learn how it went.
SaveId ==
    /\ pc = "save"
    /\ \/ saved' = lastId /\ UNCHANGED saveFailed
       \/ MaySaveFail /\ saved' \in {saved, Garbled} /\ saveFailed' = TRUE
    /\ pc' = "send"
    /\ UNCHANGED <<lastId, latest, acked, waited, db, toServer, toClient,
                   server, composed, faults, heard>>

\* client_send_test_request_packet, client_save_test_request and the
\* beginning of client_await_response.
SendRequest ==
    /\ pc = "send"
    /\ toServer' = toServer \cup {[msg |-> "REQUEST", client |-> lastId,
                                   n |-> composed]}
    /\ latest' = [server |-> 0, client |-> lastId, n |-> composed]
    /\ acked' = FALSE
    /\ waited' = 0
    /\ pc' = "await"
    /\ UNCHANGED <<lastId, files, toClient, server, history>>

SendFails ==
    /\ pc = "send"
    /\ pc' = "idle"
    /\ UNCHANGED <<lastId, latest, acked, waited, files, toServer, toClient,
                   server, history>>

-----------------------------------------------------------------------------
(* client_await_response.                                                  *)

Waited_Stuck == waited                                  \* GivesUp
Waited       == waited + SOCKET_TIMEOUT_SEC

\* recvfrom times out; once acknowledged, the client only tries again.
AwaitTimeout ==
    /\ pc = "await"
    /\ ~acked
    /\ IF waited >= NEW_TEST_ACK_TIMEOUT_SEC
       THEN pc' = "pair" /\ UNCHANGED waited
       ELSE waited' = Waited /\ UNCHANGED pc
    /\ UNCHANGED <<lastId, latest, acked, files, toServer, toClient, server,
                   history>>

LogRow(table, p) ==
    db' = Append(db, [table |-> table, server |-> p.server, client |-> p.client,
                      n |-> latest.n, of |-> p.n])

\* The packet answers the request in latest_request_buffer, as far as the
\* client half tells.
SameClientHalf_Any(p) == TRUE                           \* AckedWasHeard
SameClientHalf(p)     == p.client = latest.client

NewAckCounts(p) == ~acked /\ SameClientHalf(p)

ReceiveNewAck(p) ==
    /\ pc = "await"
    /\ p.msg = "NEW_ACK"
    /\ toClient' = toClient \ {p}
    /\ IF NewAckCounts(p)
       THEN /\ latest' = [latest EXCEPT !.server = p.server]
            /\ LogRow("request", p)
            /\ acked' = p.ok
            /\ pc' = IF p.ok THEN "await" ELSE "idle"
       ELSE UNCHANGED <<latest, db, acked, pc>>
    /\ UNCHANGED <<lastId, waited, saved, toServer, server, history>>

\* The full ID of the packet is compared and printed, but not stored.
ReceiveStartAck(p) ==
    /\ pc = "await"
    /\ p.msg = "START_ACK"
    /\ toClient' = toClient \ {p}
    /\ acked' = (acked \/ SameClientHalf(p))
    /\ UNCHANGED <<pc, lastId, latest, waited, files, toServer, server, history>>

\* stored_id_full = received_id_full, after a first answer was adopted.
SameFullId_HalfOnly(p) == SameClientHalf(p)             \* RowsAreConsistent
SameFullId(p) ==
    \/ ~acked /\ SameClientHalf(p)
    \/ p.client = latest.client /\ p.server = latest.server

ReceiveResults(p) ==
    /\ pc = "await"
    /\ p.msg = "RESULTS"
    /\ toClient' = toClient \ {p}
    /\ acked' = (acked \/ SameClientHalf(p))
    /\ IF SameFullId(p) THEN LogRow("result", p) /\ pc' = "idle"
                        ELSE UNCHANGED <<db, pc>>
    /\ UNCHANGED <<lastId, latest, waited, saved, toServer, server, history>>

\* A beacon is too short for a test message.
ReceiveInvalid(p) ==
    /\ pc = "await"
    /\ p.msg = "BEACON"
    /\ toClient' = toClient \ {p}
    /\ UNCHANGED <<client, files, toServer, server, history>>

Receive(p) ==
    \/ ReceivePairing(p) \/ ReceiveNewAck(p) \/ ReceiveStartAck(p)
    \/ ReceiveResults(p) \/ ReceiveInvalid(p)

\* Ctrl-C (or worse) at any point, and a new start: interface_init.
RestartClient ==
    /\ faults < MaxFaults
    /\ faults' = faults + 1
    /\ pc' = "pair"
    /\ lastId' = Loaded(saved)
    /\ latest' = NoJob
    /\ acked' = FALSE
    /\ waited' = 0
    /\ UNCHANGED <<files, toServer, toClient, server, composed, saveFailed,
                   heard>>

-----------------------------------------------------------------------------
(* The server, as the client sees it, and the network.                     *)

ReceiveProbe ==
    /\ Probe \in toServer
    /\ toServer' = toServer \ {Probe}
    /\ toClient' = toClient \cup {Beacon}
    /\ UNCHANGED <<client, files, server, history>>

\* process_new_test_request and send_new_test_ack.
ReceiveRequest(q) ==
    LET job == [server |-> nextId, client |-> q.client, n |-> q.n]
        ok  == Len(jobs) < QueueLen
    IN  /\ q.msg = "REQUEST"
        /\ heard' = heard \cup {q.n}
        /\ nextId' = NextHalf(nextId, MaxServerId)
        /\ jobs' = IF ok THEN Append(jobs, job) ELSE jobs
        /\ toClient' = toClient \cup
                       {Answer("NEW_ACK", job, ok, k) : k \in 1 .. AckRepeats}
        /\ UNCHANGED <<client, files, running, composed, saveFailed>>

TakeRequest(q) ==
    ReceiveRequest(q) /\ toServer' = toServer \ {q} /\ UNCHANGED faults

\* The network delivers a request and keeps a copy of it.
DuplicateRequest ==
    /\ faults < MaxFaults
    /\ faults' = faults + 1
    /\ \E q \in toServer : ReceiveRequest(q)
    /\ UNCHANGED toServer

StartTests ==
    /\ running = <<>>
    /\ jobs # <<>>
    /\ running' = <<Head(jobs)>>
    /\ jobs' = Tail(jobs)
    /\ toClient' = toClient \cup {Answer("START_ACK", Head(jobs), TRUE, 0)}
    /\ UNCHANGED <<client, files, toServer, nextId, history>>

FinishTests ==
    /\ running # <<>>
    /\ running' = <<>>
    /\ toClient' = toClient \cup {Answer("RESULTS", running[1], TRUE, 0)}
    /\ UNCHANGED <<client, files, toServer, nextId, jobs, history>>

\* HAL_NVIC_SystemReset or a power cycle: queues and counter start over.
ResetServer ==
    /\ faults < MaxFaults
    /\ faults' = faults + 1
    /\ nextId' = 1
    /\ jobs' = <<>>
    /\ running' = <<>>
    /\ UNCHANGED <<client, files, toServer, toClient, composed, saveFailed,
                   heard>>

ClientStep ==
    \/ SendProbe \/ ProbeTimeout
    \/ Compose \/ SaveId \/ SendRequest \/ SendFails \/ AwaitTimeout
    \/ \E p \in toClient : Receive(p)

ServerStep ==
    \/ ReceiveProbe
    \/ \E q \in toServer : TakeRequest(q)
    \/ StartTests \/ FinishTests

Next == ClientStep \/ ServerStep
          \/ RestartClient \/ ResetServer \/ DuplicateRequest

Spec == Init /\ [][Next]_vars

\* A blocked recvfrom returns, with a packet or with a timeout.  The user need
\* not do anything, and neither need the network.
FairSpec == Spec /\ WF_vars(AwaitTimeout)

\* The network delivers the answers and the server keeps running.
NothingIsLost ==
    /\ WF_vars(\E p \in toClient : Receive(p))
    /\ WF_vars(ServerStep)

-----------------------------------------------------------------------------
(* Properties.                                                             *)

TypeOK ==
    /\ pc \in {"pair", "listen", "idle", "save", "send", "await"}
    /\ lastId \in Half
    /\ latest \in Job
    /\ acked \in BOOLEAN
    /\ waited \in 0 .. NEW_TEST_ACK_TIMEOUT_SEC
    /\ saved \in Half \cup {NoFile, Garbled}
    /\ db \in Seq(Row)
    /\ toServer \subseteq [msg: {"PROBE", "REQUEST"}, client: Half, n: Serial]
    /\ toClient \subseteq Packet
    /\ nextId \in 1 .. MaxServerId
    /\ jobs \in Seq(Job) /\ Len(jobs) <= QueueLen
    /\ running \in Seq(Job) /\ Len(running) <= 1
    /\ composed \in Serial
    /\ faults \in 0 .. MaxFaults
    /\ saveFailed \in BOOLEAN
    /\ heard \subseteq Serial

\* As long as the last ID could always be saved, no answer to an earlier
\* request, of this session or one before a restart, is logged as an answer to
\* the current one.
RowsBelongToRequest ==
    ~saveFailed => \A k \in DOMAIN db : db[k].of = db[k].n

\* However many copies of the request or of an answer arrive, in any order, a
\* request gets at most one row in each table, both with the same test ID.
RowsAreConsistent ==
    \A j, k \in DOMAIN db :
        j < k /\ db[j].n = db[k].n =>
            /\ db[j].table = "request" /\ db[k].table = "result"
            /\ db[j].server = db[k].server /\ db[j].client = db[k].client

\* A client that considers its request acknowledged, and will not give up any
\* more, has been heard: the server did receive that request.
AckedWasHeard ==
    pc = "await" /\ acked /\ ~saveFailed => latest.n \in heard

\* A request nobody acknowledges does not hold the user up for ever.
GivesUp == (pc = "await" /\ ~acked) ~> (acked \/ pc # "await")

\* README: interactivity resumes once a request has been fulfilled, rejected or
\* timed out.  Where nothing is lost, it is fulfilled.
Resumes == NothingIsLost => (pc = "await" ~> pc # "await")
=============================================================================

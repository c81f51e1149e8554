# Formal verification of the STM32F756 peripheral test server and client

The repository tests the peripherals of a NUCLEO-F756ZG board over ethernet.
The server (`src/f756-peripheral-tests-server`) runs FreeRTOS and lwIP on the
board; the client (`src/test-client`) is a command line program. They exchange
UDP packets defined in `src/test_packet_def.h`. This directory holds TLA+
models of both, the TLC configurations that check them, and proofs for TLAPS.

Below, `S/` stands for `src/f756-peripheral-tests-server/`.

## 1. The system

One request takes this way:

    client --NEW_REQUEST--> listener --TestQueue--> test runner --test_instances--> test tasks
      ^                        | NEW_ACK x4             | START_ACK, RESULTS
      +------ transmitter <----+------- OutboxQueue ----+

| Component | State | Operations | What is hard | What makes it correct |
|---|---|---|---|---|
| Packet format (`test_packet_def.h`, `S/App/server_common.h`) | none | messages; a test ID of a client half and a server half | two parties complete one ID | an ID in a packet names one request |
| Test runner (`S/App/test_runner.c`) | `current_test`, counters of its loop | take a request, prepare the reference, order tests, confirm the start, collect verdicts, send results | shares `test_instances` with five tasks without a lock; waits without a timeout | each request is answered, once, with earned verdicts |
| Test tasks (`S/App/peripheral_tests.c`) | `test_instances[i]`, `test_reference`, static receive buffers | poll for an order, run the test `iterations` times, report | polled state machine, 8-bit counter, one CRC unit for three tasks | a run uses its own request's data; no lost verdict; a verdict is earned |
| Listener (`S/App/listener.c`) | server half of the next ID, scratch buffers, netbuf, index of the last link, bound address | pairing, accepting or rejecting requests, acknowledging, rebinding | bounded waits on two full queues; link and address change behind its back | tells the truth about requests; never gets stuck; serves again after a lost link |
| Transmitter (`S/App/transmitter.c`) | current message, its netbuf | take a message, send it | may be held up by the link; takes from the pool of netbufs the listener returns to | messages leave in order, once |
| Tasks and queues (`S/Core/Src/freertos.c`) | priorities, queue lengths (16, 32, 64) | create, start | the order of priorities carries a guarantee (4.2) | |
| lwIP start and link index (`S/LWIP/App/lwip.c`) | index of the link, 0 for down | initialise, callback on a link change | 8-bit index wraps; callback registered late | index says whether the link is up |
| Ethernet driver (`S/LWIP/Target/ethernetif.c`) | flags, MAC mode, Rx pool and its flag, two semaphores, TxConfig | initialise, poll the PHY, input, output, free | Rx pool exhaustion, busy descriptors, latched MAC mode, a link thread of low priority | frames pass while the link is up; each buffer has one owner |
| Ethernet HAL (`stm32f7xx_hal_eth.c`) | rings of Rx and Tx descriptors, their indices | start, stop, read, build, transmit, release, interrupt | shared with the DMA; restart in the middle of a ring | frames in order, packets kept until sent |
| lwIP's pools and mailbox (`memp.c`, `netbuf.c`, `api_msg.c`) | free list of netbufs, mailbox of the listener | allocate, free, post, receive | a netbuf is deleted twice | packets are handled in order, buffers return |
| HAL of CRC, UART, SPI, I2C | CRC unit, state of each handle | calculate, receive by DMA, stop | one CRC unit for three tasks; handles left busy | a verdict is about this run's transfers |
| Serial debug (`S/App/serial_debug.c`) | DebugQueue | enqueue, print | delays its callers up to two seconds | |
| Client (`src/test-client/client.c`, `interface.c`) | pairing, stored request, acknowledged flag, timeout | pair, compose, send, await | lost, doubled, overtaking, stale packets | answers are matched to the request they belong to; the user gets control back |
| Client ID file (`common.c`) | last client half | save, load | restart between numbering, saving and sending | no number is used twice |
| Client log (`db.c`) | two tables | append a request, append results | rows from packets in any order | at most one row per request and table, with one ID |
| Other vendored and generated code | | | | not modelled |

The hazards that follow from this, each at the line where it bites, are listed
in `PROJECT.json` under `hazards`, with the properties that would notice.

## 2. Modules

| Module | Stands for |
|---|---|
| `TestRequests` | requests, messages, tests, queue room: the data of the server's tasks |
| `TestService` | abstract: requests served one at a time and in order, a start confirmation, then results |
| `TestRunner` | test runner and test tasks, one action per access to shared data |
| `TestRunnerProofs` | theorems about `TestRunner` |
| `Server` | listener, TestQueue, runner (as `TestService`), OutboxQueue, transmitter |
| `ServerProofs` | theorems about `Server` |
| `ClientSession` | one client, its file and log, the network, the server as the client sees it |
| `ClientSessionProofs` | theorems about `ClientSession` |
| `LinkState` | PHY, netif flags, link thread, callback, DHCP addresses, the listener's link check and binding |
| `LinkStateProofs` | theorems about `LinkState` |
| `Netbufs` | lwIP's pool of netbufs as tcpip thread, listener and transmitter use it |
| `NetbufsProofs` | theorems about `Netbufs` |
| `LoopbackTests` | the UART, SPI and I2C tests: wires, buffers, handles, the shared CRC unit |
| `LoopbackTestsProofs` | theorems about `LoopbackTests` |
| `Reception` | Rx descriptors, DMA, input thread, Rx pool, the threads that free packets, start and stop |
| `ReceptionProofs` | theorems about `Reception` |
| `Transmission` | `low_level_output`, Tx descriptors, DMA, start and stop |
| `TransmissionProofs` | theorems about `Transmission` |

`TestRunner` implements `TestService` (checked and proved); `Server` uses
`TestService` in the runner's place and shows that the outbox, shared with the
listener, still implements it. `ClientSession` assumes of the server only what
it sends for a request. `Reception` and `Transmission` are the two halves of the
driver under the mailbox and the socket that `Server` and `Netbufs` begin with;
`LoopbackTests` looks into the outcome that `TestRunner!RunTest` leaves free.
They are separate modules because they share no state but the interface's
`gState`, which each has.

Definitions whose name ends in a fault (`NextHalf_NoWrap`) are plausible slips
in the definition they are named after. They are not used by the models; each
shows that the property named beside it is able to fail.

### 2.1 TestRunner

`pc` is where `test_runner_task_loop` is: `get` (queue), `prepare`
(`test_reference_prepare`), `signal` and `pend` (the two writes of
`signal_tests_start`), `scan` and `collect` (`await_tests_completion`). `tpc[i]`
is where `test_task_loop(i)` is. `state` and `iterations` are the two fields of
`test_instances`; reading and writing them are separate steps, because FreeRTOS
may switch tasks between any two accesses. `reference` is the ID of the request
the reference data was made from. The electrical tests are a free choice of
outcome (`RunTest`). `calls` and `failed` are history: how often a test ran for
the current request, and whether it ever failed. The listener and transmitter
are the ends of the queues (`Submit`, `Transmit`).

### 2.2 Server

`lpc` is where `test_listener_task_loop` is: `recv`, `submit`
(`process_new_test_request`), `print`, `ack` (`send_new_test_ack`, turn `i`) and
`beacon`.
A bounded wait for a queue either finds room or gives up (`GivesUp`), which may
happen whenever the queue is full. `print` is the debug output between queueing
a request and acknowledging it. `ListenerWaits` is what the priorities of
`freertos.c` mean on one core: while the listener acknowledges, the runner makes
a step only if the listener waits for the outbox. `PrintsInOrder` is the one
trace DebugQueue leaves in the model: both tasks print before they use the
outbox, with the same timeout, and the listener began to wait first.
The network puts packets into the mailbox of the socket; one that finds it full
was never there. There is no end to probes and other packets, while requests are
bounded by the numbers the model has for them (`MaxRequests`): the count is taken
in `ReceiveRequest`. `handed` and `sent` are history.

### 2.3 ClientSession

`pc` follows `interface_loop`: `pair` and `listen` (`client_try_pairing`),
`idle` (the user), `save` (`save_last_client_test_id`), `send`, `await`
(`client_await_response`). The two halves of the ID in `latest_request_buffer`
are `latest.server` and `latest.client`; that `stored_id_full` is a copy that
is not written back is why `ReceiveStartAck` leaves `latest` alone. Packets
carry in `n` the number of the request they stem from, which no action reads;
the log keeps it for the properties. A restart is possible at any point.

### 2.4 LinkState

`boot` is how far `MX_LWIP_Init` is, or `halted` once a failing `HAL_ETH_Init` ended in
`Error_Handler` (a failing `LAN8742_Init` only leaves the PHY without a link to
report). `polled` is what `LAN8742_GetLinkState` returned: the link thread reads the
PHY in one step (`Poll`) and uses what it read in another (`LinkUp`, `LinkDown`,
`LinkStays`), as `low_level_init` does, and the PHY may change in between. `lpc` is
where the listener is: `check`
(`eth_link_was_down`), `await` (`await_eth_link`), `bind` and `rebind`
(`bind_listener`), `recv`. `localIp` is the address of the socket inside lwIP,
`bound` the listener's `listener_address`. lwIP (`dhcp.c`, `udp.c`) moves a bound
socket to a new address of the interface (`udp_netif_ip_addr_changed`), except from
or to 0.0.0.0 (`AddressChange`). `silent`, `missed` and `stranded` are history: a
link that was never announced; the number of links since the listener read the
index; DHCP withdrew the address under the socket, or changed it while the listener
was binding it, and the listener has not bound it again.

### 2.5 Netbufs

A free element of a `memp` pool keeps its link in the word that is `p` in a
netbuf in use, so one variable, `word`, is both, and `tab` is the head of the
free list: deleting a netbuf twice ties the list to a ring here as on the board.
`ipc`, `lpc` and `tpc` are where `recv_udp`, the listener and the transmitter
are; each delete is two steps (`pbuf_free`, then `memp_free`), since a task may
be preempted between them. `freed`, `posted`, `handled` are history, and so is
`overlapped`: a netbuf was allocated while another was in use or still had to be
deleted again.

### 2.6 LoopbackTests

`tpc[t]` follows one run of a test: `exchange` (arm the receiver, send), `gap`
(`vTaskDelay`, stop), `reset`, `feed`, `read` (`HAL_CRC_Calculate`), for `way` 1
and 2. `buff` are its static buffers, `armed` whether the handle on the DMA side
is busy, `dr` the words the CRC unit has been fed. `words` is the length of the
reference string, which `Prepare` replaces while no test runs; it may be 0, since
`test_packet_def.h:27` allows it and neither client nor server objects. `Rewire`
takes wires off and puts them on at any time. Over broken wires UART and SPI go on
with whatever arrived (`ExchangeUnheard`). `TransferFails` is every other return
value than `HAL_OK`, of all three: nothing to transfer, an I2C slave that does not
acknowledge, or a polling sender that was held up past its timeout, over sound wires
too. What it leaves of the string, and whether the peripheral's error interrupt made
its handle ready, is a free choice.

### 2.7 Reception

`ring`, `RxDescIdx`, `RxBuildDescIdx`, `RxBuildDescCnt` are the HAL's, `dma` the
DMA's place in the ring. `inputThread` runs whenever it can (`Preempted`), as it
has the highest priority; `freer[t]` is where a thread is in `pbuf_free_custom`;
`linkThread` where it is in `HAL_ETH_Start_IT` or `HAL_ETH_Stop_IT`, which any
other thread preempts (`LinkRuns`). `ETH_UpdateDescriptor` is one step for the
input thread and one step per descriptor for the link thread. `clean` is history:
every start found all frames read and all descriptors built.

### 2.8 Transmission

`pc[t]` is where a sender is in `low_level_output`: `transmit` before
`HAL_ETH_Transmit_IT`, `wait` before `osSemaphoreAcquire`. The sender `Core` is
whoever holds lwIP's core lock, `Link` the link thread, whose `netif_set_link_up`
sends without it. `PacketAddress`, `CurTxDesc`, `BuffersInUse`, `releaseIndex`
are the HAL's. `refs` counts the driver's references to a packet, `done` is what
the DMA has sent. `overlapped` is history: one sender called while the other was
inside, and both share `TxConfig`.

`BuffersInUse` is checked to be a number only. A descriptor in the middle of a
chain names no packet and may be used again before its chain is released, so the
count runs ahead of the ring and does not return to 0; the release then looks at
descriptors twice, which does no harm (`KeptUntilSent`, `SendsInOrder`).

## 3. Runs

| Run | Instance | Shows |
|---|---|---|
| `runner` | 2 tests, 0..2 iterations, 2 IDs, queues of 1 (492,305 states) | 4.1 |
| `server` | 1 address, 3 requests, any number of other packets, TestQueue and mailbox 1, outbox 2, 2 acknowledgements per request (234,959 states) | 4.2 |
| `client` | 2 requests, 1 reset or duplicate, restarts, losses, failing saves, 1 acknowledgement per request (1,535,990 states) | 4.3 |
| `client_resumes` | 1 request, no losses, no faults | violated, see 5 |
| `link` | 2 speeds, 2 addresses, index 0..3 (132,076 states) | 4.4 |
| `link_starts` | 1 speed, 2 addresses, index 0..2 | violated, see 5 |
| `netbufs` | 2 netbufs, mailbox of 2, 4 packet buffers (115,904 states) | 4.5 |
| `netbufs_handles` | the same with 3 packet buffers | violated, see 5 |
| `loopback` | UART and I2C, strings of 0 to 2 words (313,840 states) | 4.6 |
| `loopback_sound` | I2C alone, 1 word | violated, see 5 |
| `reception` | 2 descriptors, 3 buffers, 2 threads that free, 3 frames, 2 starts (153,335 states) | 4.7 |
| `transmission` | 3 descriptors, chains of 1 or 2, 4 packets, 2 starts (149,512 states) | 4.8 |

Why these bounds are enough. *TestRunner*: tests do not interact but through the
runner's counters, so two tests give every combination of selected and not, early and
late, passed and failed; two iterations give a first, a last and a failure in the
middle; with queues of one, one request is queued, one served and the outbox full half
of the time. The proofs remove these bounds. *Server*: with one request being served
and one in a TestQueue of one, the third is rejected; the outbox of two is full after
one request's acknowledgements; a mailbox of one holds back the next packet whatever
it is, and a mailbox of two (556,437 states) was also checked. Probes are not bounded.
*ClientSession*: two requests are the least that can be mixed up, one fault the least
that mixes them; a third request meets no new situation, because client halves do not
repeat. A packet is lost by never being taken out of the network. *LinkState*: the
index wraps after three links, and nothing else is bounded. *Netbufs*: two netbufs are
MEMP_NUM_NETBUF; four packet buffers give every netbuf a second use after the list has
become a ring. *LoopbackTests*: two tests are the least that disturb each other, two
words let one come in between, and 0, 1 and 2 are no word, one that is first and last,
and one of each. *Reception*: with one buffer more than descriptors the pool runs
empty as soon as lwIP keeps two packets; three frames go once round a ring of two; two
starts give one restart. Four frames with two threads (588,782 states) were also
checked. *Transmission*: chains of two in a ring of three wrap in every position; five
packets (798,127 states) were also checked.

The ID counters wrap at `MaxServerId` and `MaxClientId`; they are chosen as
small as the bound on requests allows, so that wrapping happens in
`Server` and no two requests alive share an ID, as with 65535 on the board.

Deadlock is checked in `TestRunner`, `Server`, `LinkState` and `LoopbackTests`. It
is not checked where the environment stops on its own (`Netbufs`, `Reception`,
`Transmission`: once packets, frames and starts are used up all threads wait;
`ClientSession`: the user need not compose another request).

### Fairness

The tasks of the server are scheduled by priority with time slicing, and each
loop blocks in every turn: `vTaskDelay`, a queue, or a HAL call with a timeout.
So each task runs again and again, and weak fairness of each is justified
(`TestRunner!Fairness`, the listener and runner in `Server!FairSpec`, all of
`LinkState!FairSpec`). The transmitter is not assumed fair in `Server`: while
the link is down the driver may repeat a transmission for as long as it lasts.
`AcceptedIsAnswered` therefore names that assumption, and `ListenerReturns` does
without. Weak fairness of the runner in `Server` promises it a slot of the outbox
only if one stays free: where it and the listener wait, FreeRTOS gives the slot to
the listener, whose priority is the higher, and a stream of probes may go on for
ever. So `AcceptedIsAnswered` names a second assumption, that the listener stops
answering probes at some time; requests end by themselves, and other packets take
no slot. In `LinkState` the link thread is fair in its turns (`PollOrUse`), each a
reading or the use of one, and strong fairness of `AcquireIp` is assumed: the listener
looks for an address every half second, and an address lasts much longer. The
link is never assumed to come or to stay; the properties say so themselves. The
client's `recvfrom` returns after four seconds without a packet (`WF(AwaitTimeout)`;
packets of others, which start the four seconds over, are taken not to come for ever);
neither the user, the network nor the server is fair. `Resumes` names what it
assumes of them (`NothingIsLost`).

`Reception!FairSpec`: the interrupt is taken, the input thread, the highest of
all, runs, and lwIP and the listener free every packet in the end. Nothing is
assumed of the link thread or the network. `Transmission!FairSpec`: the DMA
transmits what it is polled for, a wait for the semaphore ends after two seconds,
and the link thread finishes what it has begun.

## 4. What holds

### 4.1 Test runner

- `CountMatchesInstances`: while the runner waits, the tests it still has to
  count are exactly the instances that have left READY.
- `ReferenceStable`, `RunsOnItsOwnData`: `test_reference` has no lock, yet it
  changes only while every test task is idle, and a running test sees the data
  of the request being served.
- `ResultsAreEarned`: a bit in the results is set iff the test was selected,
  ran as often as requested (possibly 0 times) and never failed.
- `ImplementsService`: refinement of `TestService`.
- `EveryRequestAnswered`: results of each queued request reach the outbox.

### 4.2 Server

- `AcceptedIsServed`: an acknowledgement says "accepted" iff the request is
  queued, served or answered, however full the queues are.
- `AckPrecedesStart`: a start confirmation is put into the outbox only after an
  acknowledgement, or after all four were dropped. This rests on the priorities:
  it fails with equal ones.
- `KeepsService`: refinement of `TestService` by the shared outbox, of which
  `OfRunner` selects the runner's messages.
- `ListenerReturns`: no wait of the listener is for ever, whatever becomes of the
  transmitter.
- `AcceptedIsAnswered`: once probes end, the results of each accepted request are
  sent, however long the listener kept the outbox full before. TLC refutes it without
  that premise, see 5.

### 4.3 Client

- `RowsBelongToRequest`: as long as the last ID could be saved, no answer to
  another request is logged as an answer to the current one.
- `RowsAreConsistent`: at most one row per request and table, under one ID.
- `AckedWasHeard`: a client that will not give up any more has been heard.
- `GivesUp`: a request nobody acknowledges does not hold the user up.

### 4.4 Link

- `IndexMeansUp`: the index is 0 iff the link is down or was never announced.
- `NoticesLinkLoss`: the listener skips rebinding only if the link was not lost
  (or was lost a multiple of 255 times) since it read the index.
- `ReceivesBound`: it receives only on a socket bound to the address the board has
  now, however often that was replaced, unless the socket is `stranded`.
- `ServesAgain`: once an announced link stays, the listener receives again and again
  on the address the board then has, unless the socket stays stranded on another.
- `KnownSpeedIsUsed`: a speed the PHY reports while the link is down and the link
  thread is not between reading and using it is the one the MAC is set to when the
  link comes back; a guess never outlives its link.

`stranded` and "not between reading and using" are what the code does not cope with:
TLC refutes each of the three without its condition, see 5.

### 4.5 Netbufs

- `HandlesInOrder`: although each netbuf is deleted twice, the packets the
  listener looks at are the packets posted, in order, as long as no netbuf is
  allocated while another is in use or still to be deleted again.
- `PbufsReturn`: under the same condition each packet buffer is freed exactly
  once; the second delete finds nothing in the netbuf.

### 4.6 Electrical tests

- `VerdictIsEarned`: unless another CRC was computed during one of its own, a run
  passes only if a string that is not empty went over sound wires both ways, and a
  comparison fails only if they were not sound, whatever earlier runs left in the
  buffers. A transfer may fail over sound wires too, see 5.
- `RunsAreIndependent`: however a run of UART or SPI ended, its handle is ready
  for the next. For I2C this is false, see 5.

### 4.7 Reception

- `OneOwner`: a buffer is free, in one descriptor, or with one packet; the DMA
  never owns a descriptor without a buffer while it runs.
- `ReadsInOrder`: frames are read in the order of arrival, none twice, none that
  was stored is passed over.
- `FramesAreRead`: a frame stored while started is read, also when the pool runs
  empty on the way: flag, semaphore and the preemption of a freeing thread
  between its steps do not lose the signal.
- `DryPoolIsNoticed` is the safety that this rests on: a descriptor left without a
  buffer leaves the flag up and a packet to free or a thread about to look at the
  flag, or the input thread awake or about to be signalled.

All four hold as long as each start finds the ring read out, see 5.

### 4.8 Transmission

- `KeptUntilSent`: the driver holds a reference to each packet that the DMA may
  still read, and gives back each reference once.
- `SendsInOrder`: packets leave in the order they were given to the driver.
- `OutputReturns`: once the interface stays started, every call returns and what
  it accepted is sent.

All three hold up to the first overlap of the two senders, see 5.

## 5. What does not hold

- `Resumes` (`client.c:217`): a start confirmation that overtakes every
  acknowledgement turns the timeout off, keeps later acknowledgements from
  being read, and leaves an ID stored that the results do not match; the client
  waits for ever, where README.md:33-34 says it resumes.
- `StartsWithLink` (`S/LWIP/App/lwip.c:85`): if the cable is in when the board
  starts, the link comes up before the callback is registered, and the listener
  waits for a link that is there (`listener.c:135`).
- `HandlesWhatWasReceived` (`S/App/listener.c:244`): a packet that arrives between
  the two deletes is wrapped in the netbuf that is deleted again. Its buffer is
  freed while it is in the mailbox; the listener then looks at the memory of the
  packet before (`listener.c:228`).
- `SoundWiresPass` (`S/App/peripheral_tests.c:222`): `HAL_DMA_Abort` does not make the
  I2C handle ready. After one failed transfer all later I2C tests fail without a
  comparison (`peripheral_tests.c:55-59`).

Met while modelling, and kept out of the properties by a condition or an
assumption rather than shown by a run of their own:

- Results that overtake every acknowledgement are logged without a request
  (`client.c:234`), where `README.md:5` says that all requests are.
- Probes without end keep the outbox full at a priority above the runner's. The
  runner's put has no timeout (`S/App/test_runner.c:36`) and may never get the slot the
  transmitter frees. It takes more beacons than the transmitter sends, and is why
  `AcceptedIsAnswered` asks for an end of them.
- If DHCP withdraws the address and gives another one while the link stays up, or
  changes it while the listener is between reading and binding it, the socket stays
  on the old address: pairing works, requests are not heard. A lost link helps only
  if the next address differs from the listener's note of the last one it bound
  (`S/App/listener.c:176`). Once lwIP has moved the socket from that one to a second
  address and DHCP later gives the first again, the listener takes it for bound
  already and stays deaf. `stranded` in `LinkState` marks all of these.
- A speed that settles after the PHY was read (`ethernetif.c:801`) and before it is
  used (839-846), on a link that is not the first, comes too late: the MAC is set to
  the speed of an earlier link and keeps it until the link is lost.
- The empty string (`test_packet_def.h:27` allows it) fails the tests of UART, SPI and
  I2C over sound wires, with nothing compared: the HAL refuses to receive no bytes
  (`S/App/peripheral_tests.c:147`, 184, 219).
- A restart with unread frames or unbuilt descriptors (`HAL_ETH_Start_IT`, 783)
  puts the indices of the ring out of step with the DMA: frames may be read twice
  or not at all. `clean` in `Reception` excludes it.
- If the pool is empty when the link returns, the link thread finds that out in
  `HAL_ETH_Start_IT`. It has the lowest priority of those involved, and may set
  the flag only after the last packet was freed: nobody is left to signal, and the
  interface stays deaf (`ethernetif.c:579-580` says the input task is signalled).
  Such a start does not find all descriptors built, so `clean` excludes it too.
- `TxConfig` is shared by the link thread and the holder of the core lock
  (`ethernetif.c:403`). `overlapped` in `Transmission` marks it.
- `HAL_ETH_ERROR_BUSY` is never cleared (`ethernetif.c:418`): after one busy ring, a
  call made while the link is down repeats every two seconds with the core lock
  held, until the link is back. `OutputReturns` only promises a return then.

## 6. Proofs

`TestRunnerProofs` proves, for every number of tests, iterations, IDs and every
length of the queues (positive naturals, `NoId` not an ID), that `IInv` is
invariant and that the safety properties of 4.1, the two action properties and
the refinement follow. No property is inductive by itself: `CountMatchesInstances`
needs to know which instances are ordered while the runner is still ordering
(`OrdersAreCounted`), that a test task writes a verdict only for an instance that
is BUSY (`TasksFollowOrders`), and that nothing is left between requests
(`IdleBetweenRequests`); `ResultsAreEarned` needs the sum of iterations left and
iterations run (`IterationsAddUp`) and what was collected so far
(`VerdictsAreCollected`). There is one lemma per action; those on cardinality are
stated once. `ReferenceStable` follows from `IdleBetweenRequests` at the only
step that writes the reference. The refinement maps `GetRequest` to `Take`,
`SendStartAck` to `Start`, `SendResults` to `Finish` and the rest to stuttering;
that the results name only selected tests comes from `VerdictsAreCollected`.

`LinkStateProofs` proves `IndexMeansUp`, `ReceivesBound`, `NoticesLinkLoss` and
`KnownSpeedIsUsed` for any width of the index and any addresses. Its `IInv` says who
can have been told about the link at each point of the start
(`AnnouncementsFollowBoot`), that what the listener remembers of its address is bound
(`SocketFollowsListener`), that lwIP moves the socket along unless it is stranded
(`SocketFollowsAddress`), and that the last index is as many links ahead of the one
the listener has seen as it missed, counted with the wrap (`IndexCountsLinks`); the
last makes `NoticesLinkLoss` inductive. `KnownSpeedIsUsed` needs no fairness and no
other invariant: while the PHY reports one speed and what is being used of it was read
since, every step keeps that of a MAC that runs at it, and sets it when it starts the
MAC. The only assumptions are the constants' (`LinkAssumption`: the index is not of
width 0, and a speed is none of the PHY's other answers).

`LoopbackTestsProofs` proves `VerdictIsEarned` and `RunsAreIndependent` for any of
these tests and strings of any lengths, the empty one included. Its `IInv` says that
what was received tells whether the wires were sound (`BuffersTellWires`), and that a
computation nobody disturbed is the only one, with its own string and nothing else in
`dr` (`UnitHoldsComputation`): so the comparison compares what was received. A second
computation breaks that at its reset, and this is the step that marks both as
disturbed.

`ServerProofs` proves `AcceptedIsServed` and `AckPrecedesStart` for all lengths of
the queues, numbers of requests and of repeated acknowledgements, and any packets
in between. Its `IInv` says
that the next number is larger than all in use as long as a request may still
come, since every number given took a request and those in the mailbox are counted
(`NumbersAreNew`, `RequestsAreCounted`; this is what `MaxServerId >= MaxRequests` in
`ServerAssumption` is for), that what the listener
is about to tell is what happened to the request (`VerdictIsRight`), and that
whatever the runner has is acknowledged or is the request the listener is at
(`ServedIsAcknowledged`). A start confirmation would have to come from the latter
before its first acknowledgement; `ListenerWaits` and `PrintsInOrder` exclude that.

It also proves the refinement `KeepsService`. `OfRunner` picks the runner's messages
from the outbox by their rank among them, a number of elements, where `SelectSeq`
would recur: so what an `Append` or a `Tail` of the outbox does to the selection
follows from cardinalities (`Ranks`, `OneUp`) without an induction
(`OfRunnerAppend`, `OfRunnerTail`). What the listener puts in, and what the
transmitter takes of it, is then a stutter; the runner's `Answer` and the
transmitter's `GetMessage` are steps of `TestService`, and room in the shared outbox
is room in the runner's share of it.

`ClientSessionProofs` proves `RowsBelongToRequest`, `RowsAreConsistent` and
`AckedWasHeard` for any number of requests, copies, restarts, resets and duplicates.
Its `IInv` measures how far a client half is from the first one (`Age`): the counter
is the saved one or one step ahead until it is saved (`CounterFollowsFile`), and
whatever carries a half in the network, the server or the client is younger than the
one being composed (`HalvesTellRequests`), so that equal halves mean equal requests.
That needs every save to work and fewer requests than halves (`MaxClientId >
MaxRequests` in `IdsAssumption`), and it is why `RowsBelongToRequest` and
`AckedWasHeard` start with `~saveFailed`. `RowsAreConsistent` does without:
`LatestIsLogged` says that the log has of the awaited request nothing, or the
acknowledgement whose ID is in `latest_request_buffer`, and then the client is
acknowledged and compares full IDs.

`NetbufsProofs` proves `HandlesInOrder` and `PbufsReturn` for any pool, any length
of the mailbox and up to 255 packet buffers (`NetbufAssumption`: the types bound
how often a netbuf that is mistaken for a packet buffer is freed).
Both are about behaviours in which no two netbufs were needed at a time, and
`InOrder` says what the code then relies on: at most one of tcpip thread, mailbox,
transmitter and listener has a netbuf (`OneIsUsed`); only a netbuf between being
filled and being linked for the first time points to a packet buffer (`Filled`),
all others to netbufs or nowhere (`FreeOnesAreLinked`), so that the second delete
finds nothing to free; a packet buffer is freed unless one of these places has it
(`FreedUnlessHeld`); and the listener lags behind by what is in the mailbox
(`HandledUpToInbox`). That the free list may have become a ring does not matter:
the invariant says nothing of its shape, only of what its links point to.

`TransmissionProofs` proves `KeptUntilSent` and `SendsInOrder` for a ring of any
length, chains of any length and any number of packets and starts
(`TransmissionAssumption`). Its `IInv` says, until two senders overlap: one sender is
inside, and `TxConfig` is its packet's (`OneSender`); the descriptors the DMA owns lie
in a row from its place to `CurTxDesc` (`OwnedInARow`), in the order of their packets
and all later than what was sent (`OwnedInOrder`); a descriptor of the DMA is the one
that names its packet, or comes before it (`NamedByTheLast`); and a packet is named by
one descriptor at most and has one reference as long as it is named or with its
sender (`ReferencedByOne`). `BuffersInUse` and
`releaseIndex` appear in it with their types only: wherever the release looks, it
clears a name only of a descriptor the DMA is through with, which is why a count
that runs ahead does no harm.

`ReceptionProofs` proves `OneOwner`, `ReadsInOrder` and `DryPoolIsNoticed` for a ring
of any length, a pool that covers it, and any number of threads that free packets,
frames and starts (`ReceptionAssumption`; the code has 16 buffers and 4 descriptors).
Its `IInv` divides the ring, from `RxDescIdx` on, into frames in order, descriptors of
the DMA, and descriptors to be given back (`InUse`); the latter begin at
`RxBuildDescIdx`, which with `RxBuildDescCnt` reaches round to `RxDescIdx`
(`InRegions`). The first start finds an empty ring (`Pristine`), later ones a full one
(`Rebuilding`). `Apart` shares out the buffers; since the pool covers the ring, a
start after which all buffers are somewhere else than in the pool cannot find a
descriptor without one (`NeverDry`), so that `AllocFails` only happens after a start
out of step. All of that is claimed while `clean` holds; types, and the agreement of
`gState`, link thread and DMA (`Control`), always. What `ETH_UpdateDescriptor` does,
counted from `RxBuildDescIdx` with `%`, is restated by distances once (`UpdateGives`,
`GivenDivided`, `GivenApart`) and used for the input thread's builds and the link
thread's. `DryPoolIsNoticed` has an inductive invariant on top of this one, `Noticed`:
a start leaves no descriptor to be built. It rests on two facts. ETH_UpdateDescriptor
leaves descriptors behind only once it has emptied the pool (`UpdateExhausts`); and
since the pool covers the ring, a packet then has one of the buffers that are missing
(`PoolCovers`), so that it will be freed by a thread that sees the flag.

Each `IInv` was first checked by TLC on the instances of section 3 (that of
`Reception` also with 3 descriptors, 4 buffers and 5 frames, 6,051,522 states), and
each of these modules also proves `TypeOK`. All safety properties of the passing runs
are proved, and both refinements.

Only model-checked: `EveryRequestAnswered`, `ListenerReturns`, `AcceptedIsAnswered`,
`GivesUp`, `ServesAgain`, `FramesAreRead` and `OutputReturns`: liveness under fairness,
which needs `ENABLED`.

## 7. Not modelled

Serial debug (it only delays its callers), the timer and ADC tests (one value read, a
free outcome), SQL and file formats, the parsing of user input, packet sizes, HAL
configuration and error interrupts that stop the Ethernet DMA, frames longer than one
buffer (`ETH_RX_BUF_SIZE` is 1536), the protocols of lwIP but for the moves of the
socket's address, FreeRTOS but for what its queues and priorities do where they are
used, and all other vendored or generated code. A reset in `LinkState` starts
MX_LWIP_Init over; the queues lost with it are in `ClientSession!ResetServer`. What
follows once the free list of netbufs hands out a packet buffer, and once the two
senders of `Transmission` have overlapped, is left open.

## 8. Plan

Done, in order of importance: `TestRunner` with `TestService`, `Server`,
`ClientSession`, `LinkState`, `LoopbackTests`, `Netbufs`, `Reception` and
`Transmission`, each with proofs of its safety; the refinements of `TestService` by
`TestRunner` and by the outbox in `Server`.

Next:

1. `Reception` without `clean`: what a restart out of step does to the frames,
   and under which conditions the ring recovers.
2. In `Transmission`, the safety that `OutputReturns` rests on, stated and proved: a
   sender is only kept waiting by descriptors the DMA has, or by an interrupt to come.

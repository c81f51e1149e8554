----------------------------- MODULE LinkState ------------------------------
(***************************************************************************)
(* How the listener follows the ethernet link and the address of the       *)
(* board: MX_LWIP_Init brings the interface up, ethernet_link_thread polls *)
(* the PHY, the link callback turns changes into an index, and the         *)
(* listener (eth_link_was_down, await_eth_link, bind_listener) polls that  *)
(* index and binds its socket to the address DHCP has given the interface. *)
(*                                                                         *)
(* The PHY may change at any time, also between the moment it is read and  *)
(* the moment what was read is used.  DHCP gives, changes and withdraws    *)
(* addresses, and lwIP moves the socket along where it can.                *)
(***************************************************************************)
EXTENDS Integers

CONSTANTS
    Modes,    \* speed and duplex the PHY may negotiate
    Default,  \* the one assumed at start when it does not say: 100 full
    Ips,      \* addresses DHCP may give
    NoIp,     \* 0.0.0.0
    MaxIdx    \* UINT8_MAX

\* Everything up to LAN8742_STATUS_LINK_DOWN, the errors included, is Down.
Down         == "down"
Negotiating  == "negotiating"
PhyStates    == Modes \cup {Down, Negotiating}
NoPoll       == "not read"

ASSUME LinkAssumption ==
    /\ Default \in Modes
    /\ {Down, Negotiating, NoPoll} \cap Modes = {}
    /\ NoIp \notin Ips
    /\ MaxIdx \in Nat \ {0}

VARIABLES
    phy,       \* LAN8742_GetLinkState
    \* netif and MAC
    boot,      \* how far MX_LWIP_Init is, or "halted" in Error_Handler
    linkUp,    \* NETIF_FLAG_LINK_UP
    adminUp,   \* NETIF_FLAG_UP
    mac,       \* speed and duplex the MAC is set to
    \* ethernet_link_thread
    polled,    \* PHYLinkState, from its reading to its use
    changed,   \* linkchanged
    mode,      \* speed and duplex
    \* lwip.c
    lastUp,    \* eth_last_link_up_idx
    idx,       \* eth_link_status_idx
    \* addresses
    ip,        \* gnetif.ip_addr
    localIp,   \* local_ip of the socket of listener_conn
    \* listener
    lpc,       \* where test_listener_task_loop is
    seen,      \* last_link_up_idx
    given,     \* given_address
    bound,     \* listener_address
    \* history
    silent,    \* the link came up before there was a callback, and stayed
    missed,    \* links that came up since the listener read the index
    stranded   \* DHCP left the socket, or the one being bound, without address

netif    == <<linkUp, adminUp, mac>>
thread   == <<polled, changed, mode>>
index    == <<lastUp, idx>>
listener == <<lpc, seen, given, bound>>
history  == <<silent, missed, stranded>>
vars == <<phy, boot, netif, thread, index, ip, localIp, listener, history>>

Booted == boot = "done"

Init ==
    /\ phy \in PhyStates
    /\ boot = "init"
    /\ linkUp = FALSE /\ adminUp = FALSE /\ mac = Default
    /\ polled = NoPoll /\ changed = FALSE /\ mode = Default
    /\ lastUp = 0 /\ idx = 0
    /\ ip = NoIp /\ localIp = NoIp
    /\ lpc = "check" /\ seen = 0 /\ given = NoIp /\ bound = NoIp
    /\ silent = FALSE /\ missed = 0 /\ stranded = FALSE

-----------------------------------------------------------------------------
(* A definition whose name ends in a fault is a plausible slip, not used,   *)
(* that the property named beside it would notice.                         *)

NextIdx_NoWrap(n) == n + 1                              \* TypeOK
NextIdx_Zero(n)   == (n + 1) % (MaxIdx + 1)             \* IndexMeansUp
NextIdx(n)        == IF n = MaxIdx THEN 1 ELSE n + 1

WasDown_Only0 == idx = 0                                \* NoticesLinkLoss
WasDown       == idx # seen \/ idx = 0

Rebinds_Never   == FALSE                                \* ReceivesBound
Rebinds         == bound # given'

\* netif_set_down and netif_set_up come before netif_set_link_down and
\* netif_set_link_up: the callback finds the new flag.
FlagSeen_Swapped == adminUp                             \* ServesAgain
FlagSeen         == adminUp'

\* The speed that was read, or if it was not known the one of an earlier link.
NewMode_Keeps == IF changed THEN mode ELSE polled       \* KnownSpeedIsUsed
NewMode       == IF polled \in Modes THEN polled ELSE mode

-----------------------------------------------------------------------------
(* The world outside.                                                      *)

PhyChange ==
    /\ phy' \in PhyStates \ {phy}
    /\ UNCHANGED <<boot, netif, thread, index, ip, localIp, listener, history>>

\* lwIP moves a socket from one address to the next, but not over 0.0.0.0, nor
\* can it move the one the listener is about to bind.
AddressChange(new) ==
    /\ Booted
    /\ ip' = new
    /\ localIp' = IF NoIp \notin {ip, new} /\ localIp = ip THEN new ELSE localIp
    /\ stranded' = \/ stranded \/ lpc = "rebind"
                   \/ new = NoIp /\ localIp # NoIp
    /\ UNCHANGED <<phy, boot, netif, thread, index, listener, silent, missed>>

Lease    == linkUp /\ ip = NoIp /\ \E a \in Ips : AddressChange(a)
NewLease == linkUp /\ ip # NoIp /\ \E a \in Ips \ {ip} : AddressChange(a)
Withdraw == ip # NoIp /\ AddressChange(NoIp)

-----------------------------------------------------------------------------
(* MX_LWIP_Init.                                                           *)

\* LAN8742_GetLinkState, in low_level_init and in the loop of the link thread.
Poll ==
    /\ boot \in {"init", "done"}
    /\ polled = NoPoll
    /\ polled' = phy
    /\ UNCHANGED <<phy, boot, netif, changed, mode, index, ip, localIp,
                   listener, history>>

\* HAL_ETH_Init has failed: Error_Handler stops the program for good.
InitFails ==
    /\ boot = "init"
    /\ polled = NoPoll
    /\ boot' = "halted"
    /\ UNCHANGED <<phy, netif, thread, index, ip, localIp, listener, history>>

\* netif_add calls low_level_init, which starts the interface if the PHY has
\* a link already.  Nobody is told yet.
LowLevelInit ==
    /\ boot = "init"
    /\ polled # NoPoll
    /\ polled' = NoPoll
    /\ boot' = "up"
    /\ IF polled = Down
       THEN UNCHANGED <<netif, silent>>
       ELSE /\ mac' = IF polled \in Modes THEN polled ELSE Default
            /\ adminUp' = TRUE
            /\ linkUp' = TRUE
            /\ silent' = TRUE
    /\ UNCHANGED <<phy, changed, mode, index, ip, localIp, listener, missed,
                   stranded>>

\* netif_set_up, netif_set_link_callback, and the link thread is started.
FinishInit ==
    /\ boot = "up"
    /\ boot' = "done"
    /\ adminUp' = TRUE
    /\ UNCHANGED <<phy, linkUp, mac, thread, index, ip, localIp, listener,
                   history>>

-----------------------------------------------------------------------------
(* ethernet_link_thread, and the callback it runs into.                    *)

\* ethernet_link_status_updated, with netif_is_up.
LinkStatusUpdated(up) ==
    /\ idx' = IF up THEN NextIdx(lastUp) ELSE 0
    /\ lastUp' = IF up THEN NextIdx(lastUp) ELSE lastUp

\* The PHY reported no link, or an error.
LinkDown ==
    /\ Booted
    /\ linkUp
    /\ polled = Down
    /\ polled' = NoPoll
    /\ linkUp' = FALSE
    /\ adminUp' = FALSE
    /\ LinkStatusUpdated(FlagSeen)
    /\ silent' = FALSE
    /\ UNCHANGED <<phy, boot, mac, changed, mode, ip, localIp, listener, missed,
                   stranded>>

\* The thread knows the speed, or has known it for an earlier link.
LinkUp ==
    /\ Booted
    /\ ~linkUp
    /\ polled \in Modes \/ (polled = Negotiating /\ changed)
    /\ polled' = NoPoll
    /\ changed' = TRUE
    /\ mode' = NewMode
    /\ mac' = mode'
    /\ adminUp' = TRUE
    /\ linkUp' = TRUE
    /\ LinkStatusUpdated(FlagSeen)
    /\ missed' = IF missed = MaxIdx THEN missed ELSE missed + 1
    /\ UNCHANGED <<phy, boot, ip, localIp, listener, silent, stranded>>

\* The link is as it was, or is not to be started at a speed nobody knows.
LinkStays ==
    /\ Booted
    /\ IF linkUp THEN polled \in Modes \cup {Negotiating}
                 ELSE polled = Down \/ (polled = Negotiating /\ ~changed)
    /\ polled' = NoPoll
    /\ UNCHANGED <<phy, boot, netif, changed, mode, index, ip, localIp,
                   listener, history>>

-----------------------------------------------------------------------------
(* The listener task, which starts when MX_LWIP_Init is over.              *)

CheckLink ==
    /\ Booted
    /\ lpc = "check"
    /\ lpc' = IF WasDown THEN "await" ELSE "recv"
    /\ UNCHANGED <<phy, boot, netif, thread, index, ip, localIp, seen, given,
                   bound, history>>

AwaitLink ==
    /\ lpc = "await"
    /\ idx # 0
    /\ seen' = idx
    /\ missed' = 0
    /\ lpc' = "bind"
    /\ UNCHANGED <<phy, boot, netif, thread, index, ip, localIp, given, bound,
                   silent, stranded>>

\* bind_listener: wait for an address, and bind it unless it is bound already.
AcquireIp ==
    /\ lpc = "bind"
    /\ ip # NoIp
    /\ given' = ip
    /\ lpc' = IF Rebinds THEN "rebind" ELSE "recv"
    /\ stranded' = (stranded /\ ~Rebinds)
    /\ UNCHANGED <<phy, boot, netif, thread, index, ip, localIp, seen, bound,
                   silent, missed>>

Bind ==
    /\ lpc = "rebind"
    /\ localIp' = given
    /\ bound' = given
    /\ lpc' = "recv"
    /\ UNCHANGED <<phy, boot, netif, thread, index, ip, seen, given, history>>

\* netconn_bind fails: HAL_NVIC_SystemReset.
BindFails ==
    /\ lpc = "rebind"
    /\ phy' = phy
    /\ boot' = "init"
    /\ linkUp' = FALSE /\ adminUp' = FALSE /\ mac' = Default
    /\ polled' = NoPoll /\ changed' = FALSE /\ mode' = Default
    /\ lastUp' = 0 /\ idx' = 0
    /\ ip' = NoIp /\ localIp' = NoIp
    /\ lpc' = "check" /\ seen' = 0 /\ given' = NoIp /\ bound' = NoIp
    /\ silent' = FALSE /\ missed' = 0 /\ stranded' = FALSE

\* A packet, a timeout or an error: the loop starts over.
Receive ==
    /\ lpc = "recv"
    /\ lpc' = "check"
    /\ UNCHANGED <<phy, boot, netif, thread, index, ip, localIp, seen, given,
                   bound, history>>

Listener == CheckLink \/ AwaitLink \/ AcquireIp \/ Bind \/ BindFails \/ Receive
World    == PhyChange \/ Lease \/ NewLease \/ Withdraw

\* PollOrUse is one round of the link thread, its osDelay left out; the reading
\* in low_level_init is the same Poll.
PollOrUse == Poll \/ LowLevelInit \/ LinkDown \/ LinkUp \/ LinkStays

Next ==
    \/ World
    \/ InitFails \/ FinishInit
    \/ PollOrUse
    \/ Listener

Spec == Init /\ [][Next]_vars

\* The tasks and DHCP keep running.  An address stays much longer than the half
\* second after which the listener looks again, so it will see one (SF).
FairSpec ==
    /\ Spec
    /\ WF_vars(PollOrUse) /\ WF_vars(FinishInit)
    /\ WF_vars(CheckLink) /\ WF_vars(AwaitLink) /\ WF_vars(Receive)
    /\ WF_vars(Bind \/ BindFails) /\ SF_vars(AcquireIp)
    /\ WF_vars(Lease)

-----------------------------------------------------------------------------
(* Properties.                                                             *)

TypeOK ==
    /\ phy \in PhyStates
    /\ boot \in {"init", "up", "done", "halted"}
    /\ linkUp \in BOOLEAN /\ adminUp \in BOOLEAN
    /\ mac \in Modes /\ mode \in Modes
    /\ polled \in PhyStates \cup {NoPoll} /\ changed \in BOOLEAN
    /\ lastUp \in 0 .. MaxIdx /\ idx \in 0 .. MaxIdx /\ seen \in 0 .. MaxIdx
    /\ ip \in Ips \cup {NoIp} /\ localIp \in Ips \cup {NoIp}
    /\ given \in Ips \cup {NoIp} /\ bound \in Ips \cup {NoIp}
    /\ lpc \in {"check", "await", "bind", "rebind", "recv"}
    /\ silent \in BOOLEAN /\ stranded \in BOOLEAN
    /\ missed \in 0 .. MaxIdx

\* The index the listener waits for tells whether the link is up, except for a
\* link that was there before the callback was (ethernet_link_status_updated).
IndexMeansUp == (idx # 0) <=> (linkUp /\ ~silent)

\* The listener goes back to its socket without looking at the address again
\* only if the link was not lost meanwhile, or so often that the 8-bit index
\* is the same again (eth_link_was_down).
NoticesLinkLoss ==
    [][lpc = "check" /\ lpc' = "recv" => missed \in {0, MaxIdx}]_vars

\* The listener receives on a socket that is bound, to the very address the
\* board has, also after that address was replaced any number of times: unless
\* DHCP withdrew it, or replaced it while the listener was binding it, since
\* the listener bound its socket last (bind_listener).
ReceivesBound ==
    lpc = "recv" =>
        /\ localIp # NoIp /\ given = bound
        /\ localIp = ip \/ stranded

(* The inductive invariant of LinkStateProofs.                             *)

\* Who may be told about the link, and who was.
AnnouncementsFollowBoot ==
    /\ boot # "done" => idx = 0 /\ lpc = "check"
    /\ boot \in {"init", "halted"} => ~linkUp
    /\ silent => linkUp
    /\ idx # 0 => idx = lastUp

\* What the listener knows of its address between two calls of bind_listener.
SocketFollowsListener ==
    /\ bound # NoIp => localIp # NoIp
    /\ IF lpc = "rebind" THEN given # NoIp ELSE given = bound
    /\ lpc \in {"bind", "rebind", "recv"} => seen # 0
    /\ lpc \in {"check", "recv"} /\ seen # 0 => bound # NoIp

\* What lwIP keeps true of the socket while DHCP only replaces addresses.
SocketFollowsAddress ==
    ~stranded => IF lpc = "rebind" THEN given = ip
                                   ELSE localIp \in {NoIp, ip}

\* The last index is as many links ahead of the one the listener has seen as it
\* missed, counted the way the 8-bit index wraps.
IndexCountsLinks ==
    missed < MaxIdx =>
        lastUp = IF seen + missed <= MaxIdx THEN seen + missed
                                            ELSE seen + missed - MaxIdx

IInv ==
    /\ TypeOK
    /\ IndexMeansUp
    /\ AnnouncementsFollowBoot
    /\ SocketFollowsListener
    /\ SocketFollowsAddress
    /\ IndexCountsLinks

\* However the link went up and down and addresses were replaced, once a link
\* that was announced stays, the listener receives again and again, and on the
\* address the board then has.  Not if DHCP took the address from the socket
\* and has not given it back: the listener looks at addresses only after a lost
\* link, and even then takes its own note for what the socket is bound to
\* (eth_link_was_down, bind_listener).
ServesAgain ==
    <>[](/\ boot # "halted" /\ phy \in Modes /\ ~silent
         /\ stranded => localIp = ip)
        => []<>(lpc = "recv" /\ localIp = ip)

\* A speed guessed for one link never outlives it: when a link that is down
\* comes back and its speed, known before the link thread next reads the PHY,
\* stays, the MAC is set to that speed.  A speed that settles after the reading
\* and before its use comes too late (ethernet_link_thread).
KnownSpeedIsUsed ==
    \A m \in Modes :
        [](Booted /\ ~linkUp /\ polled = NoPoll /\ [](phy = m)
            => <>[](linkUp => mac = m))

\* The listener blocks until the link is up, and no longer.
StartsWithLink == <>[](boot # "halted" /\ phy \in Modes) => <>(lpc = "recv")
=============================================================================

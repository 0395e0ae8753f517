---------------------------- MODULE TelinkMesh ----------------------------
(***************************************************************************)
(* Connection management of the gateway to one node of a Telink mesh:      *)
(* class TelinkMesh (src/ble_stack/telink_mesh.cpp) over the BlueZ daemon  *)
(* it drives by synchronous D-Bus calls (src/ble_stack/bluezproxy.cpp).    *)
(*                                                                         *)
(* All code runs on one GLib main loop and a synchronous call does not run *)
(* the loop, so every handler (a timer, an RSSI signal, a call of the      *)
(* Gateway) is one atomic step.  What interleaves is the handlers: timers  *)
(* that are armed and never cancelled, client calls and the radio.         *)
(***************************************************************************)
EXTENDS Integers, Sequences, SequencesExt

CONSTANTS
    Devices,    \* nodes that advertise mesh_name
    RSSIs,      \* signal strengths in dBm
    Callbacks,  \* what a client may hand to onReady
    Faults,     \* which calls to BlueZ may go wrong (FaultKinds)
    Asserts,    \* TRUE: built without NDEBUG, assert() is active
    None        \* nullptr

FaultKinds ==
    { "connect",         \* Device1.Connect fails on a reachable node
      "disconnect",      \* Device1.Disconnect, or the sweep by name, misses a node
      "write",           \* GATT write fails on a live link
      "throw",           \* ReadValue, StartNotify or GetAll raises an uncaught Glib::Error
      "start_discovery", \* Adapter1.StartDiscovery fails
      "stop_discovery" } \* Adapter1.StopDiscovery fails while scanning

ASSUME RSSIAssumption == RSSIs \subseteq Int
ASSUME FaultAssumption == Faults \subseteq FaultKinds
ASSUME AssertsAssumption == Asserts \in BOOLEAN

Best == [addr : Devices, rssi : RSSIs]
Conn == [addr : Devices, key : BOOLEAN]

ASSUME NoneAssumption == None \notin Best \cup Conn \cup Callbacks

VARIABLES
    proc,               \* the process: running, or how it died
    discovering,
    current_best_device,
    connectedDevice,    \* the node, and whether shared_key is set
    callback_on_ready,
    timers,             \* pending GLib timeouts, in the order they were attached
    scanning,           \* BlueZ: discovery session of this client
    listening,          \* BlueZProxy: on_device_found_rssi is a slot of the signal
    links               \* BlueZ: nodes with a live BLE connection

radioVars == <<scanning, listening>>
stateVars == <<discovering, current_best_device, connectedDevice, timers>>
meshVars == <<proc, stateVars, callback_on_ready, radioVars, links>>

ScanKinds == {"scan", "rescan"}   \* rescan: the scan timeout has re-armed itself
LongKinds == {"scan", "connect", "pair"}  \* the one-shots of 5000 ms
TimerKinds == ScanKinds \cup LongKinds \cup {"ready"}

TypeOK ==
    /\ proc \in {"running", "segfault", "abort", "assert", "undefined"}
    /\ discovering \in BOOLEAN
    /\ current_best_device \in Best \cup {None}
    /\ connectedDevice \in Conn \cup {None}
    /\ callback_on_ready \in Callbacks \cup {None}
    /\ timers \in Seq(TimerKinds)
    /\ scanning \in BOOLEAN
    /\ listening \in BOOLEAN
    /\ links \in SUBSET Devices

MeshInit ==
    /\ proc = "running"
    /\ discovering = FALSE
    /\ current_best_device = None
    /\ connectedDevice = None
    /\ callback_on_ready = None
    /\ timers = << >>
    /\ scanning = FALSE
    /\ listening = FALSE
    /\ links = {}      \* main() has swept both mesh names
-----------------------------------------------------------------------------
(* The pieces of the handlers.  q is the timer queue, ls the set of links   *)
(* and c the connection that the handler has left when it gets there.       *)

NodeOf(c) == IF c = None THEN {} ELSE {c.addr}

\* BlueZProxy::disconnect for the nodes as: what may be left of the links ls.
\* (Errors are only logged.)
Disconnect(ls, as) ==
    IF "disconnect" \in Faults THEN {ls \ s : s \in SUBSET as} ELSE {ls \ as}

\* disconnect_by_name(mesh_name); it also misses a node that BlueZ knows by its
\* other name by now.
Sweep(ls) == Disconnect(ls, Devices)

\* BlueZProxy::stop_scan.
\* (mutant: the slots stay connected)
StopScanKeepsSlots ==
    /\ scanning' = FALSE
    /\ UNCHANGED listening

\* BlueZ refuses StopDiscovery to a client that is not scanning, and stop_scan
\* then leaves the slots connected.
StopScan ==
    \/ /\ scanning
       /\ scanning' = FALSE
       /\ listening' = FALSE
    \/ /\ ~scanning \/ "stop_discovery" \in Faults
       /\ UNCHANGED radioVars

\* The slot is connected before StartDiscovery is called; an error of the call
\* is only logged.  (A session that stop_scan could not end keeps scanning.)
StartRssiScan ==
    /\ listening' = TRUE
    /\ \/ scanning' = TRUE
       \/ "start_discovery" \in Faults /\ scanning' = FALSE

\* TelinkMesh::discover, when none is in progress ...
\* (mutant: line 86 forgotten, the connection survives)
BeginDiscoveryConnected(q, ls) ==
    /\ discovering' = TRUE
    /\ current_best_device' = None
    /\ timers' = Append(q, "scan")
    /\ links' \in Sweep(ls)
    /\ StartRssiScan
    /\ UNCHANGED connectedDevice

BeginDiscovery(q, ls) ==
    /\ discovering' = TRUE
    /\ connectedDevice' = None
    /\ current_best_device' = None
    /\ timers' = Append(q, "scan")
    /\ links' \in Sweep(ls)
    /\ StartRssiScan

\* (mutant: the flag is not tested)
DiscoverAlways(q, c, ls) == BeginDiscovery(q, ls)

\* ... and when one is: the request is ignored.
Discover(q, c, ls) ==
    IF discovering
    THEN /\ connectedDevice' = c
         /\ timers' = q
         /\ links' = ls
         /\ UNCHANGED <<discovering, current_best_device, radioVars>>
    ELSE BeginDiscovery(q, ls)

\* The process dies: its memory and its D-Bus client (with the discovery
\* session) are gone, the BLE links belong to bluetoothd and stay.
Crash(how) ==
    /\ proc' = how
    /\ discovering' = FALSE
    /\ current_best_device' = None
    /\ connectedDevice' = None
    /\ callback_on_ready' = None
    /\ timers' = << >>
    /\ scanning' = FALSE
    /\ listening' = FALSE

\* TelinkMesh::pair on connection c when the handshake succeeds.  (The result
\* of the write that starts the notifications is ignored.)
\* (mutant: the 500 ms timer is forgotten)
PairedSilently(q, c, ls) ==
    /\ c.addr \in ls
    /\ connectedDevice' = [c EXCEPT !.key = TRUE]
    /\ timers' = q
    /\ links' = ls

Paired(q, c, ls) ==
    /\ c.addr \in ls
    /\ connectedDevice' = [c EXCEPT !.key = TRUE]
    /\ timers' = Append(q, "ready")
    /\ links' = ls

\* ... when the pairing request cannot be written: the first time, retry in 5 s
\* (BlueZProxy::write answers false, here and for the packets of send.)
RefusesWrite(c, ls) == c.addr \notin ls \/ "write" \in Faults

\* (mutant: the retry is not armed)
PairGivesUp(q, c, ls) ==
    /\ RefusesWrite(c, ls)
    /\ connectedDevice' = c
    /\ timers' = q
    /\ links' = ls

PairRefused(q, c, ls) ==
    /\ RefusesWrite(c, ls)
    /\ connectedDevice' = c
    /\ timers' = Append(q, "pair")
    /\ links' = ls

\* ... when ReadValue or StartNotify raises an error after the write: the link has
\* failed, or it is still up and bluetoothd keeps it.
PairThrows(c, ls) ==
    /\ "throw" \in Faults
    /\ c.addr \in ls
    /\ Crash("abort")
    /\ links' \in {ls, ls \ {c.addr}}

\* First attempt on a node just connected: pair(1)
PairFirst(q, c, ls) ==
    /\ Paired(q, c, ls) \/ PairRefused(q, c, ls)
    /\ UNCHANGED <<proc, callback_on_ready>>

\* BlueZProxy::connect answers false.
ConnectMayFail == "connect" \in Faults

\* connect: the new connection ...
\* (mutant: it holds the device info instead of the address)
NewConnOfInfo == [addr |-> current_best_device, key |-> FALSE]

NewConn == [addr |-> current_best_device.addr, key |-> FALSE]

\* ... replaces the old one, whose destructor then disconnects its node, after
\* the new link is up.  What links may be left:
\* (mutant: a destructor that disconnects nothing)
RelinkedLeaky == {links \cup {current_best_device.addr}}

Relinked ==
    Disconnect(links \cup {current_best_device.addr}, NodeOf(connectedDevice))

-----------------------------------------------------------------------------
(* Timers.  Two one-shots of one delay expire in the order they were        *)
(* attached; the 500 ms timer may overtake those of 5000 ms, not the        *)
(* reverse.  A scan timeout that returned true keeps its place at the head  *)
(* and its deadline moves: it and the others fire in either order.          *)
Expired(i) ==
    /\ proc = "running"
    /\ \A j \in 1 .. i - 1 :
          CASE timers[i] = "rescan" -> TRUE
            [] timers[i] = "ready"  -> timers[j] # "ready"
            [] OTHER                -> timers[j] = "rescan"

Fired(i) == RemoveAt(timers, i)

\* The lambda of discover() finds no candidate and re-arms itself.
ScanFindsNothing(i) ==
    /\ Expired(i) /\ timers[i] \in ScanKinds
    /\ current_best_device = None
    /\ timers' = [timers EXCEPT ![i] = "rescan"]
    /\ UNCHANGED <<proc, discovering, current_best_device, connectedDevice,
                   callback_on_ready, radioVars, links>>

\* ... or it ends the scan and calls connect(1): the node is connected and
\* pair(1) runs, or connect is armed again with no retry left.
\* (mutant: the flag stays set)
ScanEndsStillOn(i) ==
    /\ Expired(i) /\ timers[i] \in ScanKinds
    /\ current_best_device # None
    /\ StopScan
    /\ UNCHANGED discovering

ScanEnds(i) ==
    /\ Expired(i) /\ timers[i] \in ScanKinds
    /\ current_best_device # None
    /\ StopScan
    /\ discovering' = FALSE

ScanConnects(i) ==
    /\ ScanEnds(i)
    /\ \E ls \in Relinked : PairFirst(Fired(i), NewConn, ls)
    /\ UNCHANGED current_best_device

ScanConnectFails(i) ==
    /\ ScanEnds(i)
    /\ ConnectMayFail
    /\ timers' = Append(Fired(i), "connect")
    /\ UNCHANGED <<proc, current_best_device, connectedDevice, callback_on_ready, links>>

\* connect(0), 5 s after connect(1) failed.
RetryConnects(i) ==
    /\ Expired(i) /\ timers[i] = "connect"
    /\ current_best_device # None
    /\ \E ls \in Relinked : PairFirst(Fired(i), NewConn, ls)
    /\ UNCHANGED <<discovering, current_best_device, radioVars>>

RetryConnectFails(i) ==
    /\ Expired(i) /\ timers[i] = "connect"
    /\ current_best_device # None
    /\ ConnectMayFail
    /\ Discover(Fired(i), connectedDevice, links)
    /\ UNCHANGED <<proc, callback_on_ready>>

\* connect(0) with current_best_device reset in the meantime falls to the last
\* branch, whose warning dereferences it.
RetryConnectNull(i) ==
    /\ Expired(i) /\ timers[i] = "connect"
    /\ current_best_device = None
    /\ Crash("segfault")
    /\ UNCHANGED links

\* pair(0), 5 s after pair(1) failed, on whatever connection there is by now.
RetryPairs(i) ==
    /\ Expired(i) /\ timers[i] = "pair"
    /\ connectedDevice # None
    /\ \/ /\ Paired(Fired(i), connectedDevice, links)
          /\ UNCHANGED <<discovering, current_best_device, radioVars>>
       \/ /\ RefusesWrite(connectedDevice, links)
          /\ Discover(Fired(i), connectedDevice, links)
    /\ UNCHANGED <<proc, callback_on_ready>>

RetryPairNull(i) ==
    /\ Expired(i) /\ timers[i] = "pair"
    /\ connectedDevice = None
    /\ Crash("segfault")
    /\ UNCHANGED links

\* An exception that leaves pair() leaves the timer's handler, and glibmm aborts.
PairAborts(i) ==
    /\ Expired(i)
    /\ \/ /\ timers[i] \in ScanKinds \cup {"connect"}
          /\ current_best_device # None
          /\ \E ls \in Relinked : PairThrows(NewConn, ls)
       \/ /\ timers[i] = "pair"
          /\ connectedDevice # None
          /\ PairThrows(connectedDevice, links)

MeshTimer(i) ==
    \/ ScanFindsNothing(i)
    \/ ScanConnects(i)
    \/ ScanConnectFails(i)
    \/ RetryConnects(i)
    \/ RetryConnectFails(i)
    \/ RetryConnectNull(i)
    \/ RetryPairs(i)
    \/ RetryPairNull(i)
    \/ PairAborts(i)
-----------------------------------------------------------------------------
(* TelinkMesh::send, as a piece of a client's handler (q as above).         *)

Keyed == connectedDevice # None /\ connectedDevice.key
Working == Keyed /\ connectedDevice.addr \in links

\* Without assert() a packet for a node that has not paired may be written all
\* the same, encrypted with no key (SendKeyless is the other outcome).
SendDelivers(q) ==
    /\ connectedDevice # None
    /\ connectedDevice.addr \in links
    /\ connectedDevice.key \/ ~Asserts
    /\ timers' = q
    /\ UNCHANGED <<discovering, current_best_device, connectedDevice, radioVars, links>>

\* (mutant: the exception is passed on and nothing else)
SendFailsOnly(q) ==
    /\ connectedDevice # None
    /\ RefusesWrite(connectedDevice, links)
    /\ timers' = q
    /\ UNCHANGED <<discovering, current_best_device, connectedDevice, radioVars, links>>

\* Any failure is taken for a broken connection: drop it and discover.
SendBreaks(q) ==
    \/ /\ connectedDevice = None
       /\ Discover(q, None, links)
    \/ /\ connectedDevice # None
       /\ connectedDevice.key \/ ~Asserts
       /\ RefusesWrite(connectedDevice, links)
       /\ \E ls \in Disconnect(links, NodeOf(connectedDevice)) : Discover(q, None, ls)

\* encrypt() asserts a key of 16 bytes.  Without assert() AES_set_encrypt_key
\* refuses the empty key, unnoticed, and what encrypting with the AES_KEY it has
\* not set does is undefined: it may end the process.
SendKeyless ==
    /\ connectedDevice # None
    /\ ~connectedDevice.key
    /\ Crash(IF Asserts THEN "assert" ELSE "undefined")
    /\ UNCHANGED links

\* The 500 ms timer of pair().  A callback is a client's: it may send.
ReadyFires(i) ==
    /\ Expired(i) /\ timers[i] = "ready"
    /\ \/ /\ callback_on_ready' = None
          /\ timers' = Fired(i)
          /\ UNCHANGED <<proc, discovering, current_best_device, connectedDevice,
                         radioVars, links>>
       \/ /\ callback_on_ready # None
          /\ callback_on_ready' = None
          /\ SendDelivers(Fired(i)) \/ SendBreaks(Fired(i))
          /\ UNCHANGED proc
       \/ /\ callback_on_ready # None
          /\ SendKeyless

\* A client polls isReady(): without a connection that starts a discovery, and
\* the client may leave a callback in the one slot there is.
PollNotReady ==
    /\ proc = "running"
    /\ connectedDevice = None
    /\ Discover(timers, None, links)
    /\ callback_on_ready' \in Callbacks \cup {callback_on_ready}
    /\ UNCHANGED proc

\* With a connection it sends at once.
PollAndSend ==
    /\ proc = "running"
    /\ connectedDevice # None
    /\ \/ /\ SendDelivers(timers) \/ SendBreaks(timers)
          /\ UNCHANGED <<proc, callback_on_ready>>
       \/ SendKeyless
-----------------------------------------------------------------------------
(* The world outside: the radio, and Docker's restart of a dead process.    *)

\* on_device_found_rssi: the first node of a scan, or a stronger one.
Better(r) == current_best_device # None => r > current_best_device.rssi

\* BlueZ reports a node's signal strength, and get_device_info fetches the node's
\* properties (a strength that is no longer among them reads as 0 dBm).
RssiReport(d, r) ==
    /\ proc = "running"
    /\ listening
    /\ Better(r)
    /\ current_best_device' = [addr |-> d, rssi |-> r]
    /\ UNCHANGED <<proc, discovering, connectedDevice, timers, callback_on_ready,
                   radioVars, links>>

\* get_device_info in the handler of the signal: GetAll fails for a node that
\* BlueZ has forgotten since, and the exception leaves the handler.  The process
\* is subscribed to the signals from its first discovery on, also after stop_scan.
ReportAborts ==
    /\ proc = "running"
    /\ "throw" \in Faults
    /\ discovering \/ current_best_device # None
    /\ Crash("abort")
    /\ UNCHANGED links

LinkLoss(d) ==
    /\ d \in links
    /\ links' = links \ {d}
    /\ UNCHANGED <<proc, stateVars, callback_on_ready, radioVars>>

\* main() again: a fresh TelinkMesh, both mesh names swept.
Restart ==
    /\ proc # "running"
    /\ proc' = "running"
    /\ links' \in Sweep(links)
    /\ UNCHANGED <<stateVars, callback_on_ready, radioVars>>

MeshNext ==
    \/ \E i \in DOMAIN timers : MeshTimer(i) \/ ReadyFires(i)
    \/ PollNotReady
    \/ PollAndSend
    \/ \E d \in Devices, r \in RSSIs : RssiReport(d, r)
    \/ ReportAborts
    \/ \E d \in Devices : LinkLoss(d)
    \/ Restart

MeshSpec == MeshInit /\ [][MeshNext]_meshVars
-----------------------------------------------------------------------------
(* Fairness: the main loop serves its timers, Docker restarts the process,  *)
(* a client polls (the heartbeat of the Gateway, every 30 s), and the radio *)
(* is not hostile for ever: scans report, and if infinitely many timers have *)
(* a node at hand that may connect and pair, some of them succeed.           *)
MeshFairness ==
    /\ WF_meshVars(\E i \in DOMAIN timers : MeshTimer(i) \/ ReadyFires(i))
    /\ WF_meshVars(Restart)
    /\ WF_meshVars(PollNotReady)
    /\ WF_meshVars(PollAndSend)
    /\ SF_meshVars(scanning /\ \E d \in Devices, r \in RSSIs : RssiReport(d, r))
    /\ SF_meshVars((\E i \in DOMAIN timers : MeshTimer(i)) /\ Working')

MeshFairSpec == MeshSpec /\ MeshFairness
-----------------------------------------------------------------------------
(* Properties.                                                              *)

ScanTimers == {i \in DOMAIN timers : timers[i] \in ScanKinds}
Pending(kind) == \E i \in DOMAIN timers : timers[i] = kind

\* The flag `discovering` and the scan timeout, which are set, cleared and
\* re-armed in different handlers, never disagree: a discovery in progress has
\* exactly one timeout that will end it, and no other time has one.
OneScanTimer ==
    /\ discovering <=> ScanTimers # {}
    /\ \A i, j \in ScanTimers : i = j

\* Every intermediate state has a timer that will leave it: a candidate chosen
\* but not connected (between connect(1) and connect(0)) and a node connected
\* but not paired (between pair(1) and pair(0)) wait for a timer of their own,
\* or a discovery is on its way to replace them.
NeverStranded ==
    /\ current_best_device # None /\ connectedDevice = None
          => discovering \/ Pending("connect")
    /\ connectedDevice # None /\ ~connectedDevice.key
          => discovering \/ Pending("pair") \/ Pending("connect")

\* While there is a connection there is a candidate: once pair() has got past its
\* use of connectedDevice, its warnings may dereference current_best_device,
\* although discover() resets it.  (That pair(0) may find no connection at all is
\* RetryPairNull.)
ConnectionHasCandidate == connectedDevice # None => current_best_device # None

\* A callback that waits while the mesh is ready has a 500 ms timer that will
\* call it: pairing never completes ahead of a callback it then forgets.
CallbackHasTimer == Keyed /\ callback_on_ready # None => Pending("ready")

\* No BLE link is leaked: as long as disconnecting works, the only live link is
\* that of connectedDevice, through failed retries, replaced connections,
\* discoveries and restarts.  (A leaked link blocks its node for everybody.)
LinksOwned == proc = "running" => links \subseteq NodeOf(connectedDevice)

\* As long as BlueZ obeys, the adapter scans exactly while a discovery runs and
\* on_device_found_rssi is connected to the signal exactly then.
ScanMatchesDiscovery == scanning = discovering /\ listening = discovering

\* Timers are never cancelled, and yet they do not pile up.
TimersBounded == Len(timers) <= 3

\* However often connecting and pairing fail, connections are lost and the
\* process dies, the gateway always comes back to a working connection.
AlwaysReconnects == []<>Working

\* A client's callback is eventually called, whatever happens in between
\* (it is lost with the process).
CallbackCalled == callback_on_ready # None ~> callback_on_ready = None
-----------------------------------------------------------------------------
(* What the source says of itself, and does not keep.                       *)

\* telink_mesh.cpp, connect(): the branch of connect(0) that says "retry
\* discovery" does so, and dereferences no null pointer on the way.  (Checked with
\* connecting as the only fault, so that it is connect(0) which breaks it; where
\* writes fail, pair(0) without a connection breaks it as well.)
NoNullDeref == proc # "segfault"

\* crypto.cpp, encrypt(): "Key size must be 16 bytes": no packet is encrypted
\* for a node that has not paired.
KeyBeforeEncrypt == proc \notin {"assert", "undefined"}

\* telink_mesh.h, responsibilities: "establish and maintain mesh node
\* connection": one that works is given up only when it is lost or a send on it
\* fails (connectedDevice reset), not replaced on the gateway's own initiative.
MaintainsWorking ==
    [][Working /\ proc' = "running" =>
           Working' \/ connectedDevice' \in {connectedDevice, None}]_meshVars

\* gateway.h, readyToSend(): "Set the callback to be invoked when the mesh
\* becomes ready": it is only invoked on a connection that has paired.
CallbackWhenReady ==
    [][callback_on_ready # None /\ callback_on_ready' = None
           /\ proc' = "running" => Keyed]_meshVars
=============================================================================

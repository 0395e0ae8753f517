# The Telink Mesh MQTT gateway in TLA+

Specifications of the gateway's own logic (`src/src`): how it finds, connects,
pairs with and keeps one node of a Telink mesh, how MQTT commands get to that
node or wait for it, how messages cross from the MQTT client's thread to the
main loop, how the process boots and dies, what goes over a connection, what a
JSON command becomes and what it does, byte by byte, to a light. Models are
checked with TLC; most of their invariants, and the refinements between them, are
proved with TLAPS for all values of their constants.

## 1. Inventory

Paths are relative to `src/src`.

| Component | State | Operations | Talks to |
|---|---|---|---|
| `TelinkMesh` (`ble_stack/telink_mesh.*`) | `discovering`, `current_best_device`, `connectedDevice`, `callback_on_ready`, and the GLib timeouts it has armed | `isReady`, `onReady`, `send`; `discover`, `connect`, `pair` and their timers; `on_device_found_rssi`, `on_packet_rx` | BlueZProxy (synchronous calls), Gateway (callback, received packets) |
| `ConnectedDevice` (same files) | `shared_key`, `packet_seq`, `macdata` | `pair`, `activate_notifications`, `send`, `on_data_rx`; the destructor disconnects | BlueZProxy, crypto |
| `BlueZProxy` (`ble_stack/bluezproxy.*`) | slots of its signals, D-Bus subscriptions; behind it BlueZ: discovery session, BLE links | `start_rssi_scan`, `stop_scan`, `connect`, `disconnect`, `disconnect_by_name`, `read`, `write`, `start_notify` | the BlueZ daemon over D-Bus |
| `Gateway` (`gateway/gateway.h`) | `mqtt_enabled`, retry timers | `onMqttMessage`, `readyToSend`, `send_when_ready`, `send_if_ready`, `heartbeat`, `onMeshMessage` | TelinkMesh, MQTTClientProxy |
| MQTT source and client (`mqtt/mqtt_client_proxy.h`) | `pending_event`, the Paho client's consumer queue | `trigger_event`, `prepare`/`check`/`dispatch`, `message_arrived`, `start_consuming` | Paho's thread, the GLib main loop, Gateway |
| Mappings, packets (`gateway/mappings.h`, `ble_stack/telink_mesh_protocol.h`) | none | JSON to packets and back | Gateway |
| Crypto (`crypto/crypto.cpp`) | none | `key_encrypt`, `generate_sk`, `encrypt_packet`, `decrypt_packet` | ConnectedDevice |
| `main.cpp`, Docker | - | construct, run, restart | all |
| `logging/log_handler.h` | none | formatting | - |

**Concurrency.** Everything but Paho's thread runs on one GLib main loop, and
a synchronous D-Bus call does not run the loop: a handler is atomic. What
interleaves is handlers: timers (scan 5 s, connect retry 5 s, pair retry 5 s,
ready 500 ms, send retry 1 s, heartbeat 30 s), RSSI signals, MQTT messages. No
timer is ever cancelled, so each may find the state another handler has left.
Between the two threads every single step interleaves.

**Failure.** Each D-Bus call may fail; some failures are looked at, some only
logged, some are exceptions nobody catches, which abort the process. Links are
lost at any time. A process that dies is restarted by Docker; BLE links
survive it in bluetoothd.

What makes each component correct:

- *TelinkMesh*: flag and timers agree; every intermediate state has a timer
  that leaves it; no null or stale pointer is used; links are not leaked; a
  working connection is reached again and again; the client's callback is
  called, and only when the mesh is ready.
- *Gateway*: at most one command is deferred; messages are consumed exactly
  while none is; retries are bounded; consumption resumes.
- *MQTT source and `main()`*: messages are handled in order, once, and not
  forgotten; booting and crashing always leads back to consuming.
- *Mappings, packets, crypto*: values stay in range on the way to the light, and
  after retries, new connections and new keys a light does what the command says
  and nothing else; what is published is what the light reported.

The list of what is hard to test, line by line, is `hazards` in `PROJECT.json`.

## 2. Modules

| Module | Models |
|---|---|
| `TelinkMesh` | `telink_mesh.cpp` over `bluezproxy.cpp`: the core |
| `TelinkMesh_proofs` | theorems about it |
| `CommandSlot` | abstract: what the Gateway promises for commands |
| `Gateway` | `gateway.h`, built from the operators of `TelinkMesh`; implements `CommandSlot` and the specification of `TelinkMesh` |
| `Gateway_proofs` | theorems about it, the two refinements among them |
| `MqttSource` | the hand-over from the Paho thread to the main loop in `mqtt_client_proxy.h` |
| `Service` | `main.cpp`, the constructor of `Gateway`, Docker and the broker around `MqttSource`; implements it |
| `Service_proofs` | theorems about both |
| `Session` | one `ConnectedDevice` after the other: sequence numbers, key, subscriptions, received packets and their publication |
| `Session_proofs` | theorems about it |
| `Mappings` | `mqtt_to_telink`: a JSON command becomes packets |
| `Mappings_proofs` | theorems about it |
| `Frames` | operators: the layout of packets, `encrypt_packet`, `decrypt_packet`, reports |
| `Frames_proofs` | that what one end encrypts the other reads, and only with the same key |
| `Wire` | `Mappings`, then the sending of its packets to a light, and reports; built from `Frames` |
| `Wire_proofs` | theorems about it, and that it implements `Mappings` |
| `Induction` | induction over numbers stated with sets, and what it says of `FlattenSeq`; used by `Session_proofs` |
| `MC...` | constants for TLC |

### TelinkMesh

`current_best_device`, `connectedDevice`, `discovering` and `callback_on_ready`
are the members of the class. A connection is its node and whether
`shared_key` is set. `timers` is the queue of
pending GLib timeouts by kind; `links`, `scanning` and `listening` are BlueZ's
links, its discovery session and the slot connected to the RSSI signal. `proc`
says whether the process runs, or how it died.

The handlers are composed from *pieces*, operators that describe a part of a
handler given the timer queue, the connection and the links it has left
(`BeginDiscovery`, `Discover`, `Paired`, `PairRefused`, `SendBreaks`, ...), so
that an action is the whole handler: `ScanConnects` is the scan timeout that
stops the scan, connects, replaces `connectedDevice` (whose destructor
disconnects), runs the pairing handshake and arms the next timer.

| Action | Handler |
|---|---|
| `ScanFindsNothing`, `ScanConnects`, `ScanConnectFails` | lambda of `discover()`; `connect(1)` with or without success, `pair(1)` |
| `RetryConnects`, `RetryConnectFails`, `RetryConnectNull` | `connect(0)` |
| `RetryPairs`, `RetryPairNull` | `pair(0)` |
| `PairAborts` | an exception out of `pair()` in any of these |
| `ReadyFires` | the 500 ms timer, with a client's callback that may send |
| `PollNotReady`, `PollAndSend` | a client calls `isReady()`, then `onReady()` or `send()` |
| `RssiReport` | RSSI signal to `on_device_found_rssi` |
| `ReportAborts` | the same signal, for a node BlueZ has forgotten: `get_device_info` raises, and nobody catches it |
| `LinkLoss`, `Restart` | radio; Docker and `main()` |

*Order of timers* (`Expired`). One-shots of the same delay expire in the order
they were armed. The 500 ms timer may overtake the 5 s ones and no 5 s timer
overtakes an earlier 5 s one. A scan timeout that returned `true` keeps its
place and moves its deadline, so it (`"rescan"`) may fire before or after the
others. Real time is otherwise abstracted: between two timers any number of
client calls, reports and link losses fits. This admits more orders of a 500 ms
timer against a 5 s one than the clock does, never fewer.

*Faults.* `Faults` selects which calls may go wrong: `connect`, `write`,
`throw` (ReadValue, StartNotify), `start_discovery`, `stop_discovery`,
`disconnect`. A run names those its property tolerates.
`Asserts` says whether `assert()` is compiled in: `dockerfiles/meshgateway`
builds Release (no assertions), the devcontainer does not. In a build without
assertions a send with an empty key is undefined behaviour (`AES_set_encrypt_key`
refuses the key, and an AES_KEY it has not set is used): it is either written like
any other, or ends the process (`SendKeyless`).
An exception out of `pair()` may leave the link up or not (`PairThrows`).

### Gateway and CommandSlot

`Gateway` EXTENDS `TelinkMesh` and uses its pieces inside the Gateway's
handlers; the mesh's own timers are `MeshTimerStep`. `callback_on_ready` holds
the deferred attempt (command and `retryCount` of the lambda), `retry_timers`
the pending 1 s timers. `fate` is a history variable: how the last command left.
`Heartbeat` is `send_if_ready` for one query (`SendIfReady`).
A command is the number of packets it takes; 0 is a message that
`mqtt_to_telink` could not map, which the code sends (and defers) like others.
Packets are written one after the other: all, or up to the first failure.
In `onMqttMessage` the answer of `send_when_ready` becomes `mqtt_enabled`, and
`false` makes the event source stop consumption: one step, one dispatch.

`CommandSlot` has one slot, a count of failures and the fate. `SlotSpec`
instantiates it with the slot read off `callback_on_ready` and `retry_timers`.
`MeshSpec` as a property of the Gateway says that the Gateway is a client
`TelinkMesh` allows, so that what is checked and proved of `TelinkMesh`
with an arbitrary client holds inside the gateway.

### MqttSource

Each step of either thread that touches shared state is an action: Paho queues
the message (`Put`), sets `pending_event` (`SetPending`) and wakes the context
up (`WakeUp`); the loop returns from poll (`Woken`, `OtherSource`), tests
`pending_event` (`Check`), dequeues (`TryConsume`), stores the answer
(`StorePending`) and hands the message over (`Emit`). The order of queueing and
calling back is Paho's business: both are explored (`Arrivals`). What the client
does with messages while consumption is stopped (drops them) is external and
modelled from how the code uses it. `NewClient` is a new client and a new source,
those of the next boot; `consuming` is false until `connect` starts it.
`stop_consuming` takes the queue away; that `try_consume_message` then has no
queue to read, and may end the process, is among the deaths of `Service`.

### Service

`Service` EXTENDS `MqttSource` with the process around it. `main` is where
`main()` is: `Connect` and `Subscribe` are the constructor of `Gateway`; an error
of `connect` is only logged, `subscribe` throws on a client that is not connected,
and may throw on one that is, and `main()` constructs everything again
(`SubscribeThrows`). A constructor that throws leads back to `Connect` as well and is
no step of its own. `Die` is an
exception in a handler, `Restart` is Docker. `BrokerGoes` and `BrokerComes`
follow `connection_lost`, which only logs: `linked` becomes true in `Connect`
and nowhere else. The Gateway is here only its slot (`OnMqttMessage`, `Settle`,
`Heartbeat`); `Gateway` has the details, and shows that a slot is always left.
`settled` lists the messages that were sent, dropped after the last retry, or
lost with the process.

### Session

`connectedDevice` here is what the class `ConnectedDevice` holds: the node,
`packet_seq`, whether `shared_key` is set and how many slots of
`BlueZProxy::sigDataRx` are connected to its `on_data_rx` (it is
`sigc::trackable`: its slots go with it). `subscriptions` counts the D-Bus
subscriptions `start_notify` has made for each device, which nothing undoes.

| Action | Code |
|---|---|
| `Connect`, `Drop` | `connectedDevice` replaced, or reset by a failed send or a discovery |
| `Pair` | `pair()` and `activate_notifications()` succeed, also for the second time |
| `Send` | `ConnectedDevice::send` |
| `Notify`, `OnData` | a signal queues a callback per subscription; `on_data`, `on_data_rx`, `onMeshMessage` |
| `Restart` | `main()` again |

A failed pairing changes nothing here. When connections come and go is
`TelinkMesh`'s business; `Session` admits every order, which is more than
happens. Only the outcome of decryption matters: data of another
connection may decrypt to anything, so `OnData` chooses any report and any
light. A publication may throw and end the report (`Outcomes`: any prefix).
`recent` and `published` are history variables.

### Frames

A frame has 20 bytes. A byte is a value and the set of keystream bytes it is
masked with: XOR with a keystream byte adds it to the set or takes it away, so
nothing but the same key and the same IV unmasks it. AES is thus symbolic (two
different inputs never give the same keystream), but the offsets, the IVs, the
copying of sequence number and MAC, and which bytes are encrypted are those of
`crypto.cpp`. What a light does with a frame (`Opened`, `Sealed`) is external and
derived from the gateway's own two functions. `Wire` is thus not about the
cipher but about everything around it: which key, which IV, which packet, in
which field, how often.

### Wire

When `mqtt_to_telink` has returned, `Accept` makes the packets objects, as the
lambda of `send_when_ready` captures them. Each attempt (`Attempt`, `SendNext`,
`SendFails`, `SendEnds`) starts with the first packet, stamps the object, encrypts
a copy with the key of the connection of the moment and writes it. A write is one
with response: if it succeeds the light has the frame, if it fails the light may
have it. `Pair(late)` is a new connection, or the same one paired again; `late`
says that the node had not yet put its answer where the gateway reads it after
500 ms, so that the two disagree about the key. `Notify` and `Heartbeat` make
the light report, `OnData` decrypts and publishes. `lamp` is the light:
on or off, and six settings.

`blind` is a history variable: the node had another key than the gateway while a
packet of the successful attempt went out. The gateway cannot know: the write
succeeds, the light does not understand it. `CommandTakesEffect` excludes it, and
`NoOtherEffect` and `ReportsTrue` do not.

### Mappings

One action per member in the order of the code, and `at`, the member whose turn
it is; `packets` is what the function will return. A member is a number (or
string), or what JsonCpp makes of anything else: `Absent`; `Null` (for `state`
the empty string, for a number 0, for a colour an object without all three
channels); `Broken`, where the conversion throws. A payload that does not
parse is logged as ignored and processed with the members read so far, the last of
which is null. A conversion to `uint8_t` or `uint16_t` is `% 256`, `% 65536`.

The colour temperature is computed in floats and truncated. `Temperature` uses
integer division, which gives the same bytes: the product is below 2^24 and
exact, and a quotient by 1900 is an integer or at least 1/1900 away from the
next one, far more than single precision loses. `1e6/t_mired` is a double; it
is truncated to int the same way. For `color_temp` 0 that conversion is
undefined behaviour: `Kelvins` yields the two answers processors give.

Where the code differs from `ble_stack/protocol.txt` it is the code that is modelled,
and `Serves`, the part of `UpToTheError` that says what a member's packet holds,
follows it. They differ in this:

| | `protocol.txt` | `gateway/mappings.h` |
|---|---|---|
| values out of range | clamped (lines 40, 54-59) | narrowed to `uint8_t` (273, 288-290) |
| brightness of a colour packet | 10 by default (49) | 100 (291) |
| brightness of a temperature packet | 0, "no brightness adjustment" (90) | 100 (315) |
| control flag of a brightness packet | 1 (46) | 0, never set |
| control flag of a temperature packet | 4 (97) | 0, never set |

Music mode and control flag are therefore no fields of a packet in `Mappings`; in
`Wire` they are the zero bytes they are in the frame. What a real light makes of a
flag of 0 is outside the models.

The code also logs two cases as ignored and goes on: a topic of another form
("Invalid topic format, ignoring message.", line 239) and a payload that does not
parse ("Ignoring message.", line 254). `UpToTheError` holds of what follows, so it
says nothing of whether the message should have been ignored: a payload that
breaks off after `"state":` has a null state and switches the light off.

Packets of the gateway are likewise laid out as `struct Packet` and `crypto.cpp`
say, and topics are those the code publishes to.

## 3. Runs

| Run | Question |
|---|---|
| `mesh_faults` | with *every* fault: are flag, timers, candidate, connection and callback consistent? Two nodes, two signal strengths, one callback |
| `gateway` | the Gateway on a mesh of two nodes where connects, writes, reads and StartNotify fail and processes crash: does it keep one command, consume exactly when idle, implement `CommandSlot` and `TelinkMesh`, leak no link, scan exactly while it should, and always get back to a working connection, call the callback and resume? A command of one packet and a malformed one |
| `service` | four messages, both orders of Paho, crashes at any point, a broker that comes and goes: are messages handled in order and once, is none forgotten, is consumption stopped exactly while a command is held back, does the queue drain, does the service always come back? |
| `wire` | every combination of present, missing, null and broken members: is every packet well-formed, for the right light, in order, nothing lost before an error or sent after one, and is warmer yellower? Two of the messages go on to the light: does the command take effect, does nothing else, and do published reports tell the truth? |
| `session` | do sequence numbers recur, has a connection that is handed data a key and a subscription for each slot, is availability published only after the report it follows from? Two devices, two lights |

Bounds. Two nodes make a replaced connection, a leaked link and a better
candidate possible; two strengths make a report better, equal or worse. The
timer queue is *not* bounded: that it never exceeds three entries is the
checked property `TimersBounded`, so the state space is finite on its own.
One callback suffices in the core, where nothing depends on which it is. The
Gateway's `maxRetries` is the code's 5. In `Service` the only bound is the
number of messages, `MaxMessages`: with four, one can be held back, one can be on
its way while another is dispatched, one can be stuck and one can arrive while
consumption is stopped. In `Session` the sequence numbers have two bits, so that
they wrap after three packets, and the proofs cover any width; two subscriptions
are a node that has been paired with twice, three callbacks a signal that waits
behind those of another.

In `Wire` the message space is finite: its numbers lie in range and
out of it, and the mireds on both sides of the clamps and of the branch.
`Followed` are the messages that are sent: one that turns the light off, sets a
brightness and a colour, and, in one of the two, a colour temperature, so that
their packets undo each other. `MaxTries` is one failed attempt, after which a
command is sent half, whole or twice; `MaxPairings` are three keys, one for each
attempt and one for reports that wait for another; `MaxReports` one notification
that waits; `MaxNumber` limits the heartbeats of a connection.
Connections are made from the acceptance of the command on (`OnAir`); what has
happened before leaves no more than a connection, its key and a waiting report,
which the same steps make afterwards. The order of pairings and failures is freer than in
`TelinkMesh`. The `lamp`'s first state differs from what the messages ask for.

The passing runs of the mesh use `Asserts = FALSE` (`mesh_faults`) and `TRUE`
(`gateway`, where assertions add crashes); they pass with either value.

`TimersBounded`: a discovery, a connect or pair retry from the attempt before,
and a ready timer are all that can be pending at once.

`NoneForgotten` counts a message from the moment it is handed to the Gateway.
Messages that arrive while consumption is stopped, or wait in the queue when it
is, are discarded by the code on purpose, and the properties do not deny it.

### What the code says and does not do

Each of these runs finds a counterexample to a sentence of the source.

| Run | Shows |
|---|---|
| `v_null_deref` | `connect(1)` fails; a poll starts a discovery, which resets the candidate; `connect(0)` prints its address: null dereference in the branch that says "retry discovery" (line 158). Connecting is the only fault of this run; with failing writes there is a second way, a `pair(0)` whose connection a send has reset (line 165, `RetryPairNull`) |
| `v_unkeyed_send` | `pair(1)` fails; until `pair(0)`, `isReady()` is true and a send reaches `encrypt()` with an empty key |
| `v_teardown` | a discovery and a retry timer run side by side; the later one replaces, or disconnects, the working connection of the earlier |
| `v_wedge` | StartDiscovery fails once; `discovering` stays set and nothing ever scans again |
| `v_stale_callback` | a callback waits, the mesh connects and pairs, a send breaks the connection within 500 ms, and the timer calls the callback with no connection there; for the Gateway this burns one of five retries |
| `v_lost_event` | the main loop finds the queue empty, a message is queued and signalled, the store overwrites the signal: the message waits for the next one |
| `v_deaf` | the broker restarts while the service runs: nothing connects to it again |

`EventDrains` is what is left of the refuted `QueueDrains`: an event that is set
outside the window of `v_lost_event` does empty the queue, stuck messages included.
`AlwaysServes` is about a service that comes back to its loop and consumes;
`v_deaf` shows that it may do so without a connection.

## 4. Fairness

- *Timers, both threads, Restart*: weak fairness. GLib serves its sources,
  the operating system schedules the threads, Docker restarts a dead process
  (`restart: unless-stopped` in `deploy/docker-compose.yml`).
- *Clients poll*: weak fairness of `PollNotReady` and `PollAndSend`, justified
  by the heartbeat, which re-arms itself every 30 s on all paths. In `Gateway`
  it is the fairness of `Heartbeat` itself; nothing is assumed of the broker.
- *Radio*: strong fairness of an RSSI report while BlueZ scans, and of a
  connection attempt that succeeds: if infinitely many timers could connect and
  pair, some do. Without it no gateway could promise anything; links may still
  be lost and attempts may fail infinitely often.
- *Main loop in `MqttSource`*: poll returns, because of the heartbeat's timer.
- *`Service`*: weak fairness of the boot, of both threads, of `Restart` and of
  `BrokerComes` (the broker is restarted by Docker as well). Strong fairness of
  `Connect` with success: of infinitely many attempts while the broker is up,
  some succeed; likewise of `Subscribe` over a connection, since `subscribe` may
  throw there too. Strong fairness of `Settle`: that a command does not stay held
  back is what run `gateway` checks (`AlwaysResumes`). `AlwaysServes` needs in
  addition that the broker stays up in the end, and says so.

`session` and `wire` check safety only.

## 5. Proofs

### The mesh

`TelinkMesh_proofs` proves, for any set of devices, signal strengths, callbacks
and faults, with and without assertions, under the named assumptions on
constants of `TelinkMesh`:

- `Invariance`: `MeshSpec => []IInv`;
- from it `TypeCorrect`, `ScanTimerUnique`, `NotStranded`, `CandidateKept` and
  `CallbackServed`, and with an invariant of its own `TimersStayFew`: the
  invariants of run `mesh_faults`;
- `NoLinkLeaks`: if `disconnect` is not among the faults, `[]LinksOwned`;
- `ScansWhileDiscovering`: if neither `start_discovery` nor `stop_discovery` is,
  `[]ScanMatchesDiscovery`.

*The inductive invariant.* `OneScanTimer` and the type are inductive.
`ConnectionHasCandidate` is not: a report may set a candidate, but what resets
one is only `BeginDiscovery`, which resets the connection with it, and only the
connecting actions create a connection, from a candidate. (It keeps the warnings
of `pair()` from dereferencing a null candidate while there is a connection; a
`pair(0)` that finds none, `RetryPairNull`, is not excluded by it.) `NeverStranded` needs
to know more of its own timers: a connection without a key waits for a pair
timer, but a connect timer or a discovery may replace the connection first;
and when StopDiscovery fails, reports go on arriving outside a discovery, which
must not create a candidate nobody serves (`ListensForReason` in `IInv`: a slot
is connected only while a discovery runs, or a candidate was already chosen).
The proof has one lemma per piece (what `BeginDiscovery`, `Paired`,
`PairRefused`, `SendBreaks` ... establish) and one step per action.
The queue is handled with lemmas on `RemoveAt` and `Append`: removing a timer
keeps the kinds of the others, so "pending" facts survive what other timers do.

*The bound on timers.* That there are at most three is not inductive: three
pending timers of which one arms another would be four. `Shape` says which queues
there are. Between discoveries at most two timers are pending, and behind a
connect timer only a 500 ms one. A discovery that begins on top of them drops
the connection, so that a pair timer among them fires in vain; and when the scan
timeout connects, it is first in the queue of 5 s timers and leaves at most one
other behind. Which timers are left when one fires (`FiredLeaves`) needs the
order of timers (`Expired`): with timers in any order the bound fails.

### The Gateway

`Gateway_proofs` assumes what `Gateway` assumes of its constants: any commands,
any numbers of packets, any nodes and faults. A step of the Gateway is seen in
two ways. Seen from the mesh it is a step of `MeshNext` (`NextIsMesh`), so that the mesh's
`IInv` holds; seen from the slot it has one of a few *effects* (`NextEffect`):
nothing, a command sent at once, deferred, put off once more, or gone.
`GwInv`, with the types, `OneDeferred` and what links `consuming`,
`mqtt_enabled` and the slot, is preserved by every effect (`EffectKeepsGwInv`).
It gives `GatewayTypeCorrect`, `AlwaysConsumingIffIdle`, `AlwaysEnabledWhileConsuming`,
`AlwaysOneDeferred`, and the two refinements: `GatewayUsesMesh` (every theorem on
`TelinkMesh` holds below the Gateway) and `GatewayImplementsSlot` (every effect is a
step of `CommandSlot`; `OneDeferred` makes the slot read off the two places it
may be in well-defined). `AlwaysDriven` adds that whoever resets a connection
begins a discovery, or that one runs.

### Event source and service

`Service_proofs` puts no bound on messages but `MaxMessages`, any natural
number. `InOrder` becomes inductive by numbering: messages rise in `handled` and in
`queue`, the former precede the latter, the one in between lies in between, and
all lie below `Fresh`, the number of the next message the thread may queue
(`SourceInv`). `ServiceUsesSource` carries this to the service: a crash is a
`NewClient` of the source. `ServiceInv` adds that what was handed over is
what is settled and what is held, and why no second message can come while one
is held: no queue, nothing dequeued, and no `start_consuming` but in `Settle`
and in a boot. From it `NeverForgotten`, `AlwaysConsumesIffFree` and
`ServiceTypeCorrect`.

### The session

`Session_proofs`, with `Induction`, assumes only that the modulus is greater than 2 and that the
bounds are naturals. `SequenceFresh` speaks of a window of past numbers; what
is inductive is that the window is a *run*: the number k places before the next
one is its k-th predecessor on the cycle 1 .. modulus - 1 (`RecentIsRun`,
`Before`). `Send` moves the window on by one place (`NextAfter`, `BeforeAfter`),
and a run no longer than the cycle repeats nothing (`RunIsFresh`). `SlotsServed`
is inductive with the type of the counters.

`AvailableAfterReport` is about a sequence to which a report adds several messages
for each of its slots, joined by `FlattenSeq`. What is inductive is that `published`
belongs to the sequences in which each "available" has its predecessor
(`OrderedMessages`): they are closed under concatenation, and each part of a
report is one of them, also when it is cut off where publishing fails. That
`FlattenSeq` stays in a set that is closed under concatenation is the lemma
`FlattenClosed`, by induction over the number of parts. The library's
induction theorems take an operator, so the induction is stated with a set: one
that has 0 and the successors of its members has all numbers (`SetInduction`),
since the numbers outside have no least one (`Least`, from the
well-foundedness of < on Nat).

### The mapping

`Mappings_proofs` assumes that numbers are integers and that `Absent`, `Null`
and `Broken` are not, nor each other (`OddDistinct`). `TypeCorrect` rests on `Narrowing` and on `TemperatureBytes`
(both quotients fit into a byte for every value of the clamp).
`AlwaysRightLight` needs `Addressed`: `node_id` is set before the first packet
and does not change. `AlwaysWarmerIsYellower` needs `TemperatureLast` (the last
packet is that of the colour temperature) and monotonicity: 1e6/t does not grow
with t (`QuotientAntitone`), the clamp keeps the order, and so do the two
branches, which meet at 255. `AlwaysUpToTheError` counts: before the k-th member
there are as many packets as members asked for among the first k - 1, and the
packet of each is at the place that count gives it (`Upto`, `Progress`); an error
leaves it at that. The property is stated with `Cardinality`, not with a
selection from a sequence, which is what makes it provable.

### The wire

`Frames_proofs` needs no assumption. A keystream byte that is applied twice
comes off again, and another one never takes it off. The IV is computed from
bytes the encryption leaves alone (offsets 0 to 4 of a report, 0 to 2 of a
command), so both ends compute the same. Hence, for every key, address and
frame of cleartext: `ReportReadable`, `CommandReadable` (with the authenticator,
which covers all that is encrypted), `ReportForeign` and `CommandForeign`.

`Wire_proofs` assumes that the numbers of the lights are integers
(`NumbersOfLights`), the bounds naturals (`BoundsAssumption`) and that `None` is
no connection (`NoneIsNoLink`); the messages sent, the keys and the bounds are
arbitrary.

- `WireUsesMappings`: `Wire` implements `Mappings`, whose theorems therefore hold of
  the packets that are sent.
- `AlwaysFlight`: an object carries the packet `mqtt_to_telink` made, however
  often it has been stamped: `encrypt_packet` works on a copy, and a stamp
  touches neither the code nor the arguments (`StampCarries`).
- `AlwaysNoOtherEffect`: with that, a node that holds the key reads the packet and
  does what it says (`CommandReadable`), a node that holds another does
  nothing (`CommandForeign`): `ObeyedEffect`.
- `AlwaysReportsTrue`: every notification that waits is *honest* (`AllHonest`):
  read with the key it was sealed with it yields what the light meant to say, in
  each of the three layouts; read with another it is not readable.
- `WireTypeCorrect`: the type. An attempt runs on a connection (`SendLinked`), since
  nothing interrupts the loop over the packets but a write that fails.
- `AlwaysTakesEffect`: within an attempt the light shows the last packet of each
  kind among those written so far (`ShownBefore`, in `Taken`). A frame that is
  written has its effect (`SendNextTaken`) since the light's number survives the
  encryption (offsets 5 and 6, `Carries`) and is that of the packet
  (`RightLight`); here the followed messages are taken to address the light
  that is watched (`FollowedAssumption`). A new attempt begins with nothing
  shown, whatever an earlier one left half done: it is the order within the last
  attempt that counts. Other frames on the way cannot undo it: there
  are none but those of the attempt, as a command is sent while no other is.

### Model-checked only

The liveness properties (`AlwaysReconnects`, `CallbackCalled`, `AlwaysResumes`,
`EventDrains`, `AlwaysServes`): liveness under fairness is beyond the prover. Every
invariant and every action property of a passing run is a theorem.

## 6. Not modelled

- BlueZ's answer to a Connect that comes after the D-Bus call has timed out
  (a link nobody asked for any more).
- Subscriptions to RSSI signals, of which each scan adds one: a report is then
  handled several times, which changes nothing after the first. A report without
  an RSSI is not one.
- A failing write of the value that starts notifications
  (`telink_mesh.cpp:257`): it has no effect on the gateway's state (its result
  is ignored), only no report ever arrives.
- Notifications shorter than 20 bytes and pairing answers shorter than nine, which
  the code reads past their end (`crypto.cpp:168`, `telink_mesh.cpp:241`).
- The fields of group, time and device reports, which nothing reads; the
  fixed text of Home Assistant's discovery messages; JSON syntax.
- AES itself (OpenSSL's), and that its outputs may collide; logging.
- `mqtt_publish`, a stub; `start_scan` and `on_interfaces_added`, which nobody calls.
- A topic with fewer than four parts, which the subscription
  `homeassistant/light/+/set` excludes.

`Session` and `Wire` admit connections in any order instead of being composed with
`TelinkMesh`: the orders they add break none of their properties, and the product
of the three would be too large for TLC.

## 7. Plan

Done: the mesh, the Gateway on it with its command slot, the event source and the
service around it, the session of a connection, the mapping, and the way of a
command to the light and back. Every module that models code has proofs.

Every invariant and action property that is checked is proved. Left:

1. The steps towards the liveness properties that are not themselves temporal: that
   every state in which the mesh is not working has a timer that may fire
   (`NotStranded` has the part without order), and what each such step brings
   nearer.
2. A lemma that ties `Session` to the mesh: a connection of `TelinkMesh` that has a key
   is one `Session` admits.

------------------------------ MODULE Session ------------------------------
(***************************************************************************)
(* What goes over a connection: class TelinkMesh::ConnectedDevice, the     *)
(* D-Bus subscriptions of BlueZProxy that feed it and Gateway's            *)
(* onMeshMessage that publishes what it has received.                      *)
(*                                                                         *)
(* Connections come, pair (also more than once: a pair timer may outlive   *)
(* its connection) and go in any order; TelinkMesh says in which they do.  *)
(* GDBus queues one callback per subscription for each signal, and the     *)
(* main loop runs other handlers between them.                             *)
(***************************************************************************)
EXTENDS Integers, Sequences, SequencesExt

CONSTANTS
    Devices,
    NodeIds,            \* numbers of lights, as they occur in packets
    SeqModulus,         \* 2^16: packet_seq is a uint16_t
    MaxSubscriptions,   \* bound: per device
    MaxCallbacks,       \* bound: queued callbacks
    None

ASSUME ModulusAssumption == SeqModulus \in Nat /\ SeqModulus > 2
ASSUME BoundsAssumption == MaxSubscriptions \in Nat /\ MaxCallbacks \in Nat

Seqs == 0 .. SeqModulus - 1

Connections ==
    [addr : Devices,
     packet_seq : Seqs,
     key : BOOLEAN,                      \* shared_key is set
     slots : 0 .. MaxSubscriptions]      \* its slots in sigDataRx

ASSUME NoneIsNoConnection == None \notin Connections

VARIABLES
    connectedDevice,
    subscriptions,  \* of on_data to each device's notifications, never undone
    callbacks,      \* devices whose signals wait for on_data
    recent,         \* history: the last sequence numbers of this connection
    published       \* history: what the last callback has published

vars == <<connectedDevice, subscriptions, callbacks, recent, published>>

Reports == {"address", "online", "status", "group", "info", "time", "unknown"}
Topics == {"config", "state", "status", "available"}
Messages == [topic : Topics, node : NodeIds]

TypeOK ==
    /\ connectedDevice \in Connections \cup {None}
    /\ subscriptions \in [Devices -> 0 .. MaxSubscriptions]
    /\ callbacks \in Seq(Devices)
    /\ recent \in Seq(Seqs)
    /\ published \in Seq(Messages)

Init ==
    /\ connectedDevice = None
    /\ subscriptions = [d \in Devices |-> 0]
    /\ callbacks = << >>
    /\ recent = << >>
    /\ published = << >>
-----------------------------------------------------------------------------
(* The connection.                                                          *)

\* A new one replaces the old one, whose slots go with it.
Connect(d) ==
    /\ connectedDevice' = [addr |-> d, packet_seq |-> 1, key |-> FALSE, slots |-> 0]
    /\ recent' = << >>
    /\ UNCHANGED <<subscriptions, callbacks, published>>

Drop ==
    /\ connectedDevice # None
    /\ connectedDevice' = None
    /\ recent' = << >>
    /\ UNCHANGED <<subscriptions, callbacks, published>>

\* (mutant: notifications are activated whether or not pair() has succeeded)
PairNotifiesFirst ==
    /\ connectedDevice # None
    /\ subscriptions[connectedDevice.addr] < MaxSubscriptions
    /\ \E paired \in BOOLEAN :
          connectedDevice' = [connectedDevice EXCEPT !.key = @ \/ paired, !.slots = @ + 1]
    /\ subscriptions' = [subscriptions EXCEPT ![connectedDevice.addr] = @ + 1]
    /\ UNCHANGED <<callbacks, recent, published>>

\* pair() and activate_notifications(): subscribe to the device's signals and
\* connect a slot, on top of those there are.
Pair ==
    /\ connectedDevice # None
    /\ subscriptions[connectedDevice.addr] < MaxSubscriptions
    /\ connectedDevice' = [connectedDevice EXCEPT !.key = TRUE, !.slots = @ + 1]
    /\ subscriptions' = [subscriptions EXCEPT ![connectedDevice.addr] = @ + 1]
    /\ UNCHANGED <<callbacks, recent, published>>

\* packet_seq wraps around; 0 is left out.
\* (mutant: 0 is not left out)
FirstOfZero(s) == s

NonZero(s) == IF s = 0 THEN 1 ELSE s

Window(s) ==
    IF Len(s) < SeqModulus THEN s ELSE Tail(s)

\* (mutant: a counter that does not wrap)
SendUnwrapped ==
    /\ connectedDevice # None
    /\ LET seq == NonZero(connectedDevice.packet_seq)
       IN  /\ connectedDevice' = [connectedDevice EXCEPT !.packet_seq = seq + 1]
           /\ recent' = Window(Append(recent, seq))
    /\ UNCHANGED <<subscriptions, callbacks, published>>

Send ==
    /\ connectedDevice # None
    /\ LET seq == NonZero(connectedDevice.packet_seq)
       IN  /\ connectedDevice' = [connectedDevice EXCEPT !.packet_seq = (seq + 1) % SeqModulus]
           /\ recent' = Window(Append(recent, seq))
    /\ UNCHANGED <<subscriptions, callbacks, published>>
-----------------------------------------------------------------------------
(* Received packets.                                                        *)

\* A notification of d reaches D-Bus: a callback for each subscription.
Notify(d) ==
    /\ Len(callbacks) + subscriptions[d] <= MaxCallbacks
    /\ callbacks' = callbacks \o [i \in 1 .. subscriptions[d] |-> d]
    /\ UNCHANGED <<connectedDevice, subscriptions, recent, published>>

\* onMeshMessage: what is published for a report of light id by way of light src.
\* The other reports raise an exception, which on_data_rx catches.
\* (mutant: availability first)
PublicationsSwapped(report, src, id) ==
    CASE report = "address" -> << [topic |-> "available", node |-> id],
                                  [topic |-> "config", node |-> id] >>
      [] report = "online"  -> << [topic |-> "available", node |-> id],
                                  [topic |-> "state", node |-> id] >>
      [] report = "status"  -> << [topic |-> "status", node |-> src] >>
      [] OTHER              -> << >>

Publications(report, src, id) ==
    CASE report = "address" -> << [topic |-> "config", node |-> id],
                                  [topic |-> "available", node |-> id] >>
      [] report = "online"  -> << [topic |-> "state", node |-> id],
                                  [topic |-> "available", node |-> id] >>
      [] report = "status"  -> << [topic |-> "status", node |-> src] >>
      [] OTHER              -> << >>

\* A publication may raise an exception, which ends the report.
Outcomes(report, src, id) == Prefixes(Publications(report, src, id))

\* on_data emits to every slot of the connection there is now.  Data of another
\* device or of another key decrypts to anything, so any report is possible.
OnData ==
    /\ callbacks # << >>
    /\ callbacks' = Tail(callbacks)
    /\ LET slots == IF connectedDevice = None THEN 0 ELSE connectedDevice.slots
       IN  \E report \in Reports, src, id \in NodeIds :
              \E out \in [1 .. slots -> Outcomes(report, src, id)] :
                 published' = FlattenSeq(out)
    /\ UNCHANGED <<connectedDevice, subscriptions, recent>>

\* The process dies, and main() starts again: the D-Bus client is a new one.
Restart ==
    /\ connectedDevice' = None
    /\ subscriptions' = [d \in Devices |-> 0]
    /\ callbacks' = << >>
    /\ recent' = << >>
    /\ published' = << >>

Next ==
    \/ \E d \in Devices : Connect(d) \/ Notify(d)
    \/ Drop
    \/ Pair
    \/ Send
    \/ OnData
    \/ Restart

Spec == Init /\ [][Next]_vars
-----------------------------------------------------------------------------
(* Properties.                                                              *)

\* Within a connection no sequence number is 0, and one recurs only after all
\* others have been used: lights tell packets apart by it, and it is the nonce
\* of the packet's encryption.
SequenceFresh ==
    \A i \in DOMAIN recent :
        /\ recent[i] # 0
        /\ \A j \in DOMAIN recent : recent[i] = recent[j] => i = j

\* Data is handed to a connection only when it has a key to decrypt it with, and
\* every slot has a subscription that feeds it: no notification of the connected
\* node is missed (but each is handled as often as slots and subscriptions say).
SlotsServed ==
    connectedDevice # None /\ connectedDevice.slots > 0 =>
        /\ connectedDevice.key
        /\ subscriptions[connectedDevice.addr] >= connectedDevice.slots

\* A light is called available only right after its configuration or state has
\* been published, also when publishing fails in between.
AvailableAfterReport ==
    \A i \in DOMAIN published :
        published[i].topic = "available" =>
            /\ i > 1
            /\ published[i - 1].topic \in {"config", "state"}
            /\ published[i - 1].node = published[i].node
=============================================================================

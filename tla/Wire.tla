-------------------------------- MODULE Wire --------------------------------
(***************************************************************************)
(* From a message to a light and back.  The packets mqtt_to_telink has     *)
(* made (module Mappings) are objects that live until the command is sent  *)
(* or dropped: each attempt stamps them, encrypts them with the key of the *)
(* connection of the moment and writes them, from the first on.  Reports   *)
(* come back encrypted, are decrypted with whatever key the connection has *)
(* when the main loop gets to them, and are published.                     *)
(*                                                                         *)
(* WriteValue is a write with response: when it succeeds the light has the *)
(* frame, when it fails the light may have it all the same.                *)
(***************************************************************************)
EXTENDS Mappings, Frames

CONSTANTS
    Followed,       \* bound: the messages whose packets are sent
    Light,          \* the light of those messages
    Proxy,          \* ... and the node that relays its online status
    Address,        \* macdata of the connected node
    MaxTries,       \* bound: failed attempts (maxRetries in module Gateway)
    MaxPairings,    \* bound: pairings
    MaxReports,     \* bound: notifications that wait
    MaxNumber,      \* bound: queries are sent up to this packet of a connection
    None, Garbled

ASSUME NumbersOfLights == Light \in Int /\ Proxy \in Int /\ Address \in Seq(Int)
ASSUME FollowedAssumption == Light \in Words /\ \A m \in Followed : m.node = Light
ASSUME BoundsAssumption == MaxTries \in Nat /\ MaxPairings \in Nat /\ MaxReports \in Nat

VARIABLES
    link,           \* the connection: shared_key and packet_seq, or None
    up,             \* ... and whether there is still a node at the other end
    node,           \* the key the node uses
    pairings,
    phase,          \* what has become of the command
    todo,           \* the next packet of the attempt
    tries,
    objects,        \* the bytes of the packets
    lamp,           \* the light's settings
    reports,        \* notifications that wait for on_data_rx
    published,
    meant,          \* history: what the report published last was to say
    blind           \* history: the node had another key during the attempt

linkVars == <<link, up, node, pairings>>
sendVars == <<phase, todo, tries, objects>>
reportVars == <<reports, published, meant>>
airVars == <<linkVars, sendVars, reportVars, lamp, blind>>
wireVars == <<vars, airVars>>

vendor_code == 529      \* 0x0211, in main()
All == 65535

Keys == [challenge : 0 .. MaxPairings, answer : 0 .. MaxPairings]

ASSUME NoneIsNoLink == None \notin [key : Keys, packet_seq : Words]

WireTypeOK ==
    /\ TypeOK
    /\ link \in [key : Keys, packet_seq : Words] \cup {None}
    /\ up \in BOOLEAN
    /\ node \in Keys
    /\ pairings \in 0 .. MaxPairings
    /\ phase \in {"idle", "wait", "send", "sent", "dropped"}
    /\ todo \in 1 .. Len(packets) + 1
    /\ tries \in 0 .. MaxTries
    /\ DOMAIN objects \subseteq DOMAIN packets
    /\ \A i \in DOMAIN objects : Readable(objects[i])
    /\ lamp.on \in BOOLEAN
    /\ DOMAIN lamp.set = 1 .. 6 /\ \A i \in 1 .. 6 : lamp.set[i] \in Bytes
    /\ Len(reports) <= MaxReports
    /\ blind \in BOOLEAN

WireInit ==
    /\ Init
    /\ link = None
    /\ up = FALSE
    /\ node = generate_sk(0, 0)
    /\ pairings = 0
    /\ phase = "idle"
    /\ todo = 1
    /\ tries = 0
    /\ objects = << >>
    /\ lamp = [on |-> TRUE, set |-> <<0, 0, 0, 0, 0, 0>>]
    /\ reports = << >>
    /\ published = None
    /\ meant = None
    /\ blind = FALSE
-----------------------------------------------------------------------------
(* Pairing.                                                                 *)

\* The mesh is looked at from the acceptance of the command on.
OnAir == phase # "idle"

\* ConnectedDevice::pair.  Node and gateway make the same key of the gateway's
\* challenge and the node's answer, if the gateway reads this answer: it waits for
\* 500 ms and then takes whatever the characteristic holds, the answer to the
\* pairing before if the node is late.  A new connection counts its packets from 1,
\* and one that is paired again goes on counting.
Pair(late) ==
    /\ OnAir /\ phase # "send"
    /\ pairings < MaxPairings
    /\ LET n == pairings + 1
           key == generate_sk(n, IF late THEN n - 1 ELSE n)
       IN  /\ pairings' = n
           /\ node' = generate_sk(n, n)
           /\ \/ link' = [key |-> key, packet_seq |-> 1]
              \/ link # None /\ up /\ link' = [link EXCEPT !.key = key]
    /\ up' = TRUE
    /\ UNCHANGED <<vars, sendVars, reportVars, lamp, blind>>

LinkLoss ==
    /\ up
    /\ up' = FALSE
    /\ UNCHANGED <<vars, link, node, pairings, sendVars, reportVars, lamp, blind>>
-----------------------------------------------------------------------------
(* The light (external).                                                    *)

Report(what) ==
    LET set == lamp.set
    IN  CASE what = "online" ->
               [frame |-> Rx(Code.ONLINE_STATUS_REPORT, Proxy,
                             <<Light, 0, set[1], IF lamp.on THEN 64 ELSE 65>>),
                says |-> [topic |-> "state",
                          report |-> [node |-> Light, brightness |-> set[1], on |-> lamp.on]]]
          [] what = "address" ->
               [frame |-> Rx(Code.ADDRESS_REPORT, Light, <<Light>> \o Address),
                says |-> [topic |-> "config", report |-> [node |-> Light]]]
          [] what = "status" ->
               [frame |-> Rx(Code.STATUS_REPORT, Light, set),
                says |-> [topic |-> "status",
                          report |-> [node |-> Light, brightness |-> set[1],
                                      rgb |-> <<set[2], set[3], set[4]>>, white |-> set[6]]]]

Notified(what) ==
    LET r == Report(what)
    IN  Append(reports, [r EXCEPT !.frame = Sealed(node, Address, @)])

\* What a frame does to the light that has received it.
Obeyed(f) ==
    LET open == Opened(node, Address, f)
        p == open.frame
        forMe == open.valid /\ Word16(p, 5) \in {Light, All, 0}
    IN  CASE forMe /\ p[7].value = Code.LIGHT_ON_OFF ->
               [lamp EXCEPT !.on = p[10].value = 1]
          [] forMe /\ p[7].value = Code.LIGHT_ATTRIBUTES_SET ->
               [lamp EXCEPT !.set = Values(p, 10, 15)]
          [] OTHER -> lamp

\* Queries are answered, and a light tells of itself.
Notify(what) ==
    /\ up
    /\ Len(reports) < MaxReports
    /\ reports' = Notified(what)
    /\ UNCHANGED <<vars, linkVars, sendVars, published, meant, lamp, blind>>
-----------------------------------------------------------------------------
(* Sending.                                                                 *)

\* The object's packet
Bytes20(p) ==
    Tx(Code[p.command], p.dest,
       IF p.command = "LIGHT_ON_OFF" THEN <<IF p.on THEN 1 ELSE 0>>
       ELSE <<p.brightness, p.red, p.green, p.blue, p.yellow, p.white>>)

\* mqtt_to_telink has returned; the command is handed to send_when_ready.
Accept ==
    /\ at = "end"
    /\ msg \in Followed
    /\ phase = "idle"
    /\ phase' = "wait"
    /\ objects' = [i \in DOMAIN packets |-> Bytes20(packets[i])]
    /\ UNCHANGED <<vars, linkVars, todo, tries, reportVars, lamp, blind>>

\* (mutant: an attempt goes on where the last one failed)
AttemptGoesOn ==
    /\ phase = "wait"
    /\ link # None
    /\ phase' = "send"
    /\ blind' = FALSE
    /\ UNCHANGED <<vars, linkVars, todo, tries, objects, reportVars, lamp>>

\* The loop over the packets, when the mesh is ready.
Attempt ==
    /\ phase = "wait"
    /\ link # None
    /\ phase' = "send"
    /\ todo' = 1
    /\ blind' = FALSE
    /\ UNCHANGED <<vars, linkVars, tries, objects, reportVars, lamp>>

\* ConnectedDevice::send: the number of the next packet
NextSeq == IF link.packet_seq = 0 THEN 1 ELSE link.packet_seq

Numbered == [link EXCEPT !.packet_seq = Word(NextSeq + 1)]
Encrypted(f) == encrypt_packet(link.key, Address, f)

\* (mutant: the packet itself is encrypted, not a copy)
SendNextInPlace ==
    /\ phase = "send"
    /\ todo <= Len(objects)
    /\ up
    /\ LET f == Encrypted(Stamped(objects[todo], NextSeq, vendor_code))
       IN  /\ objects' = [objects EXCEPT ![todo] = f]
           /\ lamp' = Obeyed(f)
    /\ link' = Numbered
    /\ todo' = todo + 1
    /\ blind' = (blind \/ link.key # node)
    /\ UNCHANGED <<vars, up, node, pairings, phase, tries, reportVars>>

SendNext ==
    /\ phase = "send"
    /\ todo <= Len(objects)
    /\ up
    /\ LET object == Stamped(objects[todo], NextSeq, vendor_code)
       IN  /\ objects' = [objects EXCEPT ![todo] = object]
           /\ lamp' = Obeyed(Encrypted(object))
    /\ link' = Numbered
    /\ todo' = todo + 1
    /\ blind' = (blind \/ link.key # node)
    /\ UNCHANGED <<vars, up, node, pairings, phase, tries, reportVars>>

\* The write fails, of a frame the light may have received; the connection is
\* given up, and the command waits for the next one or is dropped.
SendFails ==
    /\ phase = "send"
    /\ todo <= Len(objects)
    /\ LET object == Stamped(objects[todo], NextSeq, vendor_code)
       IN  /\ objects' = [objects EXCEPT ![todo] = object]
           /\ lamp' \in {lamp} \cup (IF up THEN {Obeyed(Encrypted(object))} ELSE {})
    /\ link' = None
    /\ up' = FALSE
    /\ IF tries < MaxTries
       THEN phase' = "wait" /\ tries' = tries + 1
       ELSE phase' = "dropped" /\ UNCHANGED tries
    /\ UNCHANGED <<vars, node, pairings, todo, reportVars, blind>>

SendEnds ==
    /\ phase = "send"
    /\ todo > Len(objects)
    /\ phase' = "sent"
    /\ UNCHANGED <<vars, linkVars, todo, tries, objects, reportVars, lamp, blind>>

prepareAddressQuery == Tx(Code.ADDRESS_EDIT, All, LittleEndian(65535))
prepareStatusQuery == Tx(Code.STATUS_QUERY, All, <<16>>)

\* The heartbeat's query, which a light that can read it answers.
Heartbeat(query, what) ==
    /\ phase # "send"
    /\ link # None /\ link.packet_seq <= MaxNumber
    /\ up
    /\ Len(reports) < MaxReports
    /\ LET open == Opened(node, Address, Encrypted(Stamped(query, NextSeq, vendor_code)))
           p == open.frame
       IN  reports' = IF open.valid /\ Word16(p, 5) = All /\ p[7].value = query[7].value
                      THEN Notified(what) ELSE reports
    /\ link' = Numbered
    /\ UNCHANGED <<vars, up, node, pairings, sendVars, published, meant, lamp, blind>>

HeartbeatFails ==
    /\ phase # "send"
    /\ link # None
    /\ link' = None
    /\ up' = FALSE
    /\ UNCHANGED <<vars, node, pairings, sendVars, reportVars, lamp, blind>>
-----------------------------------------------------------------------------
(* Receiving.                                                               *)

\* TelinkMeshPacket::create and telink_to_mqtt; other types raise an exception,
\* and nothing is published.
Publication(f) ==
    CASE f[7].value = Code.ADDRESS_REPORT ->
           {[topic |-> "config", report |-> AddressReport(f)]}
      [] f[7].value = Code.ONLINE_STATUS_REPORT ->
           {[topic |-> "state", report |-> OnlineStatusReport(f)]}
      [] f[7].value = Code.STATUS_REPORT ->
           {[topic |-> "status", report |-> LightStatusReport(f)]}
      [] OTHER -> {}

Received(f) ==
    LET decrypted == decrypt_packet(link.key, Address, f)
    IN  IF Readable(decrypted) THEN Publication(decrypted) ELSE {Garbled}

\* on_data_rx.  Nothing authenticates a report: what was sealed with another key
\* than the connection's may look like any report, or like none.
OnData ==
    /\ phase # "send"
    /\ reports # << >>
    /\ reports' = Tail(reports)
    /\ LET found == IF link = None THEN {} ELSE Received(Head(reports).frame)
       IN  \/ /\ published' \in found
              /\ meant' = Head(reports).says
           \/ /\ found \subseteq {Garbled}
              /\ UNCHANGED <<published, meant>>
    /\ UNCHANGED <<vars, linkVars, sendVars, lamp, blind>>

WireNext ==
    \/ Next /\ UNCHANGED airVars
    \/ \E late \in BOOLEAN : Pair(late)
    \/ LinkLoss
    \/ \E what \in {"online", "address", "status"} : Notify(what)
    \/ Accept
    \/ Attempt
    \/ SendNext
    \/ SendFails
    \/ SendEnds
    \/ Heartbeat(prepareAddressQuery, "address")
    \/ Heartbeat(prepareStatusQuery, "status")
    \/ HeartbeatFails
    \/ OnData

WireSpec == WireInit /\ [][WireNext]_wireVars
-----------------------------------------------------------------------------
(* Properties.                                                              *)

Settings(p) == <<p.brightness, p.red, p.green, p.blue, p.yellow, p.white>>

\* A command that counts as sent is what its light does, whichever of its packets
\* came twice or were half sent in the attempts before, over whatever connections
\* and keys: the last packet of each kind decides.  (Unless the node had another
\* key than the gateway all along, which the gateway cannot know.)
CommandTakesEffect ==
    phase = "sent" /\ ~blind =>
        \A i \in DOMAIN packets :
            (\A j \in DOMAIN packets : j > i => packets[j].command # packets[i].command) =>
                IF packets[i].command = "LIGHT_ON_OFF"
                THEN lamp.on = packets[i].on
                ELSE lamp.set = Settings(packets[i])

\* A light never does anything but what a packet of the command asks for: not after
\* a retry, not with a frame encrypted for another key or another connection.
NoOtherEffect ==
    [][lamp' # lamp =>
          \E i \in DOMAIN packets :
             IF packets[i].command = "LIGHT_ON_OFF"
             THEN lamp' = [lamp EXCEPT !.on = packets[i].on]
             ELSE lamp' = [lamp EXCEPT !.set = Settings(packets[i])]]_wireVars

\* What is published is what the light said, under the light's own topic also when
\* another node relays it -- or a misread report, if the key has changed since.
ReportsTrue == published \in {meant, Garbled}
=============================================================================

---------------------------- MODULE Wire_proofs ----------------------------
(***************************************************************************)
(* Proofs about Wire, for all messages, lights, keys and bounds: what      *)
(* holds of mqtt_to_telink alone holds of it in Wire, and no frame makes a *)
(* light do anything but what a packet of the command asks for.            *)
(***************************************************************************)
EXTENDS Wire, Mappings_proofs, Frames_proofs

\* What is sent over the air and comes back leaves mqtt_to_telink's message and
\* packets alone: Wire is an implementation of Mappings.
THEOREM WireUsesMappings == WireSpec => Spec
<1>1. WireInit => Init
  BY DEF WireInit
<1>2. [WireNext]_wireVars => [Next]_vars
  BY DEF WireNext, wireVars, Pair, LinkLoss, Notify, Accept, Attempt, SendNext,
         SendFails, SendEnds, Heartbeat, HeartbeatFails, OnData
<1>. QED
  BY <1>1, <1>2, PTL DEF WireSpec, Spec
-----------------------------------------------------------------------------
(* What an object carries.                                                  *)

\* The bytes of f are those of packet p, whatever its number.
Carries(f, p) ==
    /\ Plain(f)
    /\ f[3] = Clear(0) /\ f[4] = Clear(0)
    /\ Word16(f, 5) = p.dest
    /\ p.command = "LIGHT_ON_OFF" =>
          f[7].value = Code.LIGHT_ON_OFF /\ (f[10].value = 1) = p.on
    /\ p.command = "LIGHT_ATTRIBUTES_SET" =>
          f[7].value = Code.LIGHT_ATTRIBUTES_SET /\ Values(f, 10, 15) = Settings(p)

LEMMA WordIsInt ==
    ASSUME NEW x \in Words
    PROVE  x \in Int
<1>. DEFINE top == 65535
<1>1. top \in Int
  OBVIOUS
<1>2. Words = 0 .. top
  BY DEF Words
<1>. HIDE DEF top
<1>. QED BY <1>1, <1>2

\* enum Command
LEMMA Codes ==
    /\ Code["LIGHT_ON_OFF"] = 240 /\ Code["LIGHT_ATTRIBUTES_SET"] = 241
    /\ Code.LIGHT_ON_OFF = 240 /\ Code.LIGHT_ATTRIBUTES_SET = 241
BY DEF Code

\* The number of the light, in two bytes
LEMMA DestBytes ==
    ASSUME NEW dest \in Int, NEW f,
           f[5] = Clear(dest % 256), f[6] = Clear(dest \div 256)
    PROVE  Word16(f, 5) = dest
<1>1. f[5].value = dest % 256 /\ f[5 + 1].value = dest \div 256
  BY DEF Clear
<1>2. (dest % 256) + 256 * (dest \div 256) = dest
  OBVIOUS
<1>. QED BY <1>1, <1>2 DEF Word16

LEMMA FreshOnOff ==
    ASSUME NEW p \in OnOffPackets
    PROVE  Carries(Bytes20(p), p)
<1>. DEFINE on == IF p.on THEN 1 ELSE 0
            dest == p.dest
            payload == <<on>>
            f == Tx(240, dest, payload)
<1>1. p.command = "LIGHT_ON_OFF" /\ dest \in Int /\ p.on \in BOOLEAN
  <2>1. p.command \in {"LIGHT_ON_OFF"} /\ p.dest \in Words /\ p.on \in BOOLEAN
    BY DEF OnOffPackets
  <2>2. p.dest \in Int
    BY <2>1, WordIsInt
  <2>. QED BY <2>1, <2>2
<1>2. on \in Int /\ (on = 1) = p.on
  BY <1>1
<1>3. Bytes20(p) = f
  BY <1>1, Codes DEF Bytes20
<1>. HIDE DEF on, dest
<1>4. payload \in Seq(Int) /\ Len(payload) = 1 /\ payload[1] = on
  BY <1>2
<1>. HIDE DEF payload
<1>5. /\ Plain(f)
      /\ f[3] = Clear(0) /\ f[4] = Clear(0) /\ f[7] = Clear(240)
      /\ f[5] = Clear(dest % 256) /\ f[6] = Clear(dest \div 256)
      /\ \A i \in 1 .. Len(payload) : i <= 10 => f[9 + i] = Clear(payload[i])
  <2>1. 240 \in Int /\ dest \in Int /\ payload \in Seq(Int)
    BY <1>1, <1>4
  <2>. QED BY <2>1, TxBytes
<1>. HIDE DEF f
<1>6. f[7].value = 240 /\ f[10].value = on
  <2>1. 1 \in 1 .. Len(payload) /\ 1 <= 10 /\ 9 + 1 = 10
    BY <1>4
  <2>. QED BY <1>4, <1>5, <2>1 DEF Clear
<1>7. Word16(f, 5) = dest
  BY <1>1, <1>5, DestBytes
<1>. QED BY <1>1, <1>2, <1>3, <1>5, <1>6, <1>7, Codes DEF Carries, dest

LEMMA FreshSettings ==
    ASSUME NEW p \in AttributePackets
    PROVE  Carries(Bytes20(p), p)
<1>. DEFINE s == Settings(p)
            dest == p.dest
            f == Tx(241, dest, s)
<1>1. p.command = "LIGHT_ATTRIBUTES_SET" /\ dest \in Int
  <2>1. p.command \in {"LIGHT_ATTRIBUTES_SET"} /\ p.dest \in Words
    BY DEF AttributePackets
  <2>2. p.dest \in Int
    BY <2>1, WordIsInt
  <2>. QED BY <2>1, <2>2
<1>2. s \in Seq(Int) /\ Len(s) = 6
  <2>1. /\ p.brightness \in Int /\ p.red \in Int /\ p.green \in Int
        /\ p.blue \in Int /\ p.yellow \in Int /\ p.white \in Int
    BY DEF AttributePackets, Bytes
  <2>. QED BY <2>1 DEF Settings
<1>3. Bytes20(p) = f
  BY <1>1, Codes DEF Bytes20, Settings
<1>. HIDE DEF s, dest
<1>4. /\ Plain(f)
      /\ f[3] = Clear(0) /\ f[4] = Clear(0) /\ f[7] = Clear(241)
      /\ f[5] = Clear(dest % 256) /\ f[6] = Clear(dest \div 256)
      /\ \A i \in 1 .. Len(s) : i <= 10 => f[9 + i] = Clear(s[i])
  <2>1. 241 \in Int /\ dest \in Int /\ s \in Seq(Int)
    BY <1>1, <1>2
  <2>. QED BY <2>1, TxBytes
<1>. HIDE DEF f
<1>5. Values(f, 10, 15) = s
  <2>1. Values(f, 10, 15) = [i \in 1 .. 6 |-> f[10 + i - 1].value]
    BY DEF Values
  <2>2. s = [i \in 1 .. 6 |-> s[i]]
    BY <1>2
  <2>3. ASSUME NEW i \in 1 .. 6 PROVE f[10 + i - 1].value = s[i]
    <3>1. i \in 1 .. Len(s) /\ i <= 10 /\ 10 + i - 1 = 9 + i
      BY <1>2
    <3>2. f[9 + i] = Clear(s[i])
      BY <1>4, <3>1
    <3>. QED BY <3>1, <3>2 DEF Clear
  <2>. QED BY <2>1, <2>2, <2>3
<1>6. f[7].value = 241
  BY <1>4 DEF Clear
<1>7. Word16(f, 5) = dest
  BY <1>1, <1>4, DestBytes
<1>. QED BY <1>1, <1>3, <1>4, <1>5, <1>6, <1>7, Codes DEF Carries, s, dest

LEMMA Fresh ==
    ASSUME NEW p \in Packets
    PROVE  Carries(Bytes20(p), p)
BY FreshOnOff, FreshSettings DEF Packets

\* Stamping a packet anew (setSeq, setVendorCode) changes nothing else.
LEMMA StampCarries ==
    ASSUME NEW f, NEW p, Carries(f, p), NEW seq, NEW code
    PROVE  Carries(Stamped(f, seq, code), p)
<1>. DEFINE g == Stamped(f, seq, code)
<1>1. /\ {0, 1, 3, 4, 5, 6, 7, 8, 9, 10} \subseteq Positions
      /\ 10 .. 15 \subseteq Positions
      /\ 15 \in Positions
      /\ \A i \in 10 .. 15 : i \notin {0, 1, 8, 9}
  BY DEF Positions
<1>2. DOMAIN f = Positions /\ Plain(f)
  BY DEF Carries, Plain
<1>3. /\ g = [i \in Positions |-> g[i]]
      /\ \A i \in Positions : i \notin {0, 1, 8, 9} => g[i] = f[i]
      /\ \A i \in {0, 1, 8, 9} : g[i] = Clear(g[i].value)
  BY <1>2, StampedBytes
<1>. HIDE DEF g
<1>4. Plain(g)
  <2>1. \A i \in Positions : g[i] = Clear(g[i].value)
    <3>1. \A i \in Positions : f[i] = Clear(f[i].value)
      BY <1>2 DEF Plain
    <3>. QED BY <1>3, <3>1
  <2>. QED BY <1>3, <2>1 DEF Plain
<1>5. Values(g, 10, 15) = Values(f, 10, 15)
  <2>1. \A i \in 10 .. 15 : g[i].value = f[i].value
    BY <1>1, <1>3
  <2>2. 10 \in Positions /\ 15 \in Positions
    BY <1>1
  <2>. QED BY <2>1, <2>2, SameValues
<1>6. g[3] = f[3] /\ g[4] = f[4] /\ g[7] = f[7] /\ g[10] = f[10]
  BY <1>1, <1>3
<1>7. Word16(g, 5) = Word16(f, 5)
  <2>1. g[5] = f[5] /\ g[5 + 1] = f[5 + 1]
    BY <1>1, <1>3
  <2>. QED BY <2>1 DEF Word16
<1>. QED BY <1>4, <1>5, <1>6, <1>7 DEF Carries, g
-----------------------------------------------------------------------------
(* What a frame does to a light.                                            *)

\* l is what packet p makes of the light.
Does(l, p) ==
    IF p.command = "LIGHT_ON_OFF" THEN l = [lamp EXCEPT !.on = p.on]
    ELSE l = [lamp EXCEPT !.set = Settings(p)]

\* With the right key the light does as the packet says, with another one nothing.
LEMMA ObeyedEffect ==
    ASSUME NEW k, NEW f, NEW p \in Packets, Carries(f, p)
    PROVE  LET l == Obeyed(encrypt_packet(k, Address, f)) IN l = lamp \/ Does(l, p)
<1>. DEFINE e == encrypt_packet(k, Address, f)
            open == Opened(node, Address, e)
            forMe == open.valid /\ Word16(open.frame, 5) \in {Light, All, 0}
<1>1. p.command \in {"LIGHT_ON_OFF", "LIGHT_ATTRIBUTES_SET"}
  BY DEF Packets, OnOffPackets, AttributePackets
<1>2. Plain(f) /\ f[3] = Clear(0) /\ f[4] = Clear(0) /\ DOMAIN f = Positions
  BY DEF Carries, Plain
<1>3. Obeyed(e) =
        CASE forMe /\ open.frame[7].value = Code.LIGHT_ON_OFF ->
               [lamp EXCEPT !.on = open.frame[10].value = 1]
          [] forMe /\ open.frame[7].value = Code.LIGHT_ATTRIBUTES_SET ->
               [lamp EXCEPT !.set = Values(open.frame, 10, 15)]
          [] OTHER -> lamp
  BY DEF Obeyed
<1>4. CASE k # node
  <2>1. ~open.valid
    BY <1>2, <1>4, CommandForeign
  <2>. HIDE DEF e, open
  <2>2. Obeyed(e) = lamp
    BY <1>3, <2>1
  <2>. QED BY <2>2 DEF e
<1>5. CASE k = node
  <2>1. open = [frame |-> f, valid |-> TRUE]
    BY <1>2, <1>5, CommandReadable
  <2>2. open.frame = f
    BY <2>1
  <2>. HIDE DEF e, open
  <2>3. CASE p.command = "LIGHT_ON_OFF"
    <3>1. f[7].value = 240 /\ (f[10].value = 1) = p.on
      BY <2>3, Codes DEF Carries
    <3>2. Obeyed(e) = lamp \/ Obeyed(e) = [lamp EXCEPT !.on = f[10].value = 1]
      BY <1>3, <2>2, <3>1, Codes
    <3>. QED BY <2>3, <3>1, <3>2 DEF Does, e
  <2>4. CASE p.command = "LIGHT_ATTRIBUTES_SET"
    <3>1. f[7].value = 241 /\ Values(f, 10, 15) = Settings(p)
      BY <2>4, Codes DEF Carries
    <3>2. Obeyed(e) = lamp \/ Obeyed(e) = [lamp EXCEPT !.set = Values(f, 10, 15)]
      BY <1>3, <2>2, <3>1, Codes
    <3>. QED BY <2>4, <3>1, <3>2 DEF Does, e
  <2>. QED BY <1>1, <2>3, <2>4
<1>. QED BY <1>4, <1>5
\* The light it is for, with the key it is encrypted with, does obey.
LEMMA ObeyedDoes ==
    ASSUME NEW f, NEW p \in Packets, Carries(f, p), p.dest = Light
    PROVE  Does(Obeyed(encrypt_packet(node, Address, f)), p)
<1>. DEFINE e == encrypt_packet(node, Address, f)
            open == Opened(node, Address, e)
<1>1. p.command \in {"LIGHT_ON_OFF", "LIGHT_ATTRIBUTES_SET"}
  BY DEF Packets, OnOffPackets, AttributePackets
<1>2. Plain(f) /\ f[3] = Clear(0) /\ f[4] = Clear(0)
  BY DEF Carries
<1>3. open = [frame |-> f, valid |-> TRUE]
  BY <1>2, CommandReadable
<1>4. open.frame = f /\ open.valid
  BY <1>3
<1>5. Word16(f, 5) \in {Light, All, 0}
  BY DEF Carries
<1>6. Obeyed(e) =
        CASE f[7].value = Code.LIGHT_ON_OFF -> [lamp EXCEPT !.on = f[10].value = 1]
          [] f[7].value = Code.LIGHT_ATTRIBUTES_SET -> [lamp EXCEPT !.set = Values(f, 10, 15)]
          [] OTHER -> lamp
  <2>1. Obeyed(e) =
          LET forMe == open.valid /\ Word16(open.frame, 5) \in {Light, All, 0}
          IN  CASE forMe /\ open.frame[7].value = Code.LIGHT_ON_OFF ->
                     [lamp EXCEPT !.on = open.frame[10].value = 1]
                [] forMe /\ open.frame[7].value = Code.LIGHT_ATTRIBUTES_SET ->
                     [lamp EXCEPT !.set = Values(open.frame, 10, 15)]
                [] OTHER -> lamp
    BY DEF Obeyed
  <2>. HIDE DEF e, open
  <2>. QED BY <1>4, <1>5, <2>1
<1>. HIDE DEF e, open
<1>7. CASE p.command = "LIGHT_ON_OFF"
  <2>1. f[7].value = 240 /\ (f[10].value = 1) = p.on
    BY <1>7, Codes DEF Carries
  <2>2. Obeyed(e) = [lamp EXCEPT !.on = f[10].value = 1]
    BY <1>6, <2>1, Codes
  <2>. QED BY <1>7, <2>1, <2>2 DEF Does, e
<1>8. CASE p.command = "LIGHT_ATTRIBUTES_SET"
  <2>1. f[7].value = 241 /\ Values(f, 10, 15) = Settings(p)
    BY <1>8, Codes DEF Carries
  <2>2. Obeyed(e) = [lamp EXCEPT !.set = Values(f, 10, 15)]
    BY <1>6, <2>1, Codes
  <2>. QED BY <1>8, <2>1, <2>2 DEF Does, e
<1>. QED BY <1>1, <1>7, <1>8
-----------------------------------------------------------------------------
(* The objects of a command.                                                *)

\* From its acceptance to its end a command has an object for each of its packets,
\* and each carries this packet, however often it has been stamped.
Flight ==
    /\ phase = "idle" => objects = << >>
    /\ phase # "idle" => at = "end" /\ objects = [i \in DOMAIN packets |-> objects[i]]
    /\ todo \in Nat \ {0}
    /\ \A i \in DOMAIN objects : i \in DOMAIN packets /\ Carries(objects[i], packets[i])

\* A function on 1 .. n is a sequence of length n.
LEMMA FunctionLen ==
    ASSUME NEW n \in Nat, NEW f, f = [i \in 1 .. n |-> f[i]]
    PROVE  Len(f) = n
<1>. DEFINE S == {f[i] : i \in 1 .. n}
<1>1. f \in [1 .. n -> S]
  OBVIOUS
<1>2. f \in Seq(S)
  BY <1>1
<1>. QED BY <1>1, <1>2

LEMMA TodoHasObject ==
    ASSUME TypeOK, Flight, phase = "send", todo <= Len(objects)
    PROVE  /\ todo \in DOMAIN objects /\ todo \in DOMAIN packets
           /\ packets[todo] \in Packets
           /\ Carries(objects[todo], packets[todo])
<1>1. packets \in Seq(Packets) /\ Len(packets) \in Nat /\ DOMAIN packets = 1 .. Len(packets)
  BY DEF TypeOK
<1>2. objects = [i \in 1 .. Len(packets) |-> objects[i]]
  BY <1>1 DEF Flight
<1>3. Len(objects) = Len(packets)
  BY <1>1, <1>2, FunctionLen
<1>4. todo \in 1 .. Len(packets)
  BY <1>1, <1>3 DEF Flight
<1>5. todo \in DOMAIN objects
  BY <1>2, <1>4
<1>. QED BY <1>1, <1>4, <1>5 DEF Flight

LEMMA InitFlight == WireInit => Flight
BY DEF WireInit, Flight

\* An attempt stamps the next object.
LEMMA StampKeeps ==
    ASSUME TypeOK, Flight, phase = "send", todo <= Len(objects), NEW seq, NEW code,
           objects' = [objects EXCEPT ![todo] = Stamped(objects[todo], seq, code)],
           UNCHANGED vars
    PROVE  /\ objects' = [i \in DOMAIN packets' |-> objects'[i]]
           /\ \A i \in DOMAIN objects' :
                 i \in DOMAIN packets' /\ Carries(objects'[i], packets'[i])
<1>1. packets' = packets
  BY DEF vars
<1>2. objects = [i \in DOMAIN packets |-> objects[i]]
  BY DEF Flight
<1>3. DOMAIN objects = DOMAIN packets /\ DOMAIN objects' = DOMAIN packets
  BY <1>2
<1>4. objects' = [i \in DOMAIN packets |-> objects'[i]]
  BY <1>2, <1>3
<1>5. ASSUME NEW i \in DOMAIN packets PROVE Carries(objects'[i], packets[i])
  <2>1. CASE i = todo
    <3>1. objects'[i] = Stamped(objects[i], seq, code)
      BY <1>3, <2>1
    <3>2. Carries(objects[i], packets[i])
      BY <2>1, TodoHasObject
    <3>3. Carries(Stamped(objects[i], seq, code), packets[i])
      BY <3>2, StampCarries
    <3>. QED BY <3>1, <3>3
  <2>2. CASE i # todo
    <3>1. objects'[i] = objects[i]
      BY <1>3, <2>2
    <3>. QED BY <1>3, <3>1 DEF Flight
  <2>. QED BY <2>1, <2>2
<1>. QED BY <1>1, <1>3, <1>4, <1>5

LEMMA SendKeepsFlight ==
    ASSUME TypeOK, Flight, SendNext \/ SendFails
    PROVE  Flight'
<1>1. /\ phase = "send" /\ todo <= Len(objects) /\ UNCHANGED vars
      /\ objects' = [objects EXCEPT ![todo] = Stamped(objects[todo], NextSeq, vendor_code)]
      /\ phase' \in {"send", "wait", "dropped"} /\ todo' \in {todo, todo + 1}
  BY DEF SendNext, SendFails
<1>2. /\ objects' = [i \in DOMAIN packets' |-> objects'[i]]
      /\ \A i \in DOMAIN objects' :
            i \in DOMAIN packets' /\ Carries(objects'[i], packets'[i])
  BY <1>1, StampKeeps
<1>3. at' = "end" /\ todo' \in Nat \ {0} /\ phase' # "idle"
  BY <1>1 DEF Flight, vars
<1>. QED BY <1>2, <1>3 DEF Flight

LEMMA NextFlight ==
    ASSUME TypeOK, Flight, [WireNext]_wireVars
    PROVE  Flight'
<1>1. CASE SendNext \/ SendFails
  BY <1>1, SendKeepsFlight
<1>2. CASE Next /\ UNCHANGED airVars
  <2>1. UNCHANGED <<phase, objects, todo>>
    BY <1>2 DEF airVars, sendVars
  <2>2. CASE phase = "idle"
    <3>1. objects = << >> /\ DOMAIN objects' = {}
      BY <2>1, <2>2 DEF Flight
    <3>. QED BY <2>1, <2>2, <3>1 DEF Flight
  <2>3. CASE phase # "idle"
    <3>1. UNCHANGED <<at, packets>>
      BY <1>2, <2>3 DEF Flight, Next, Topic, State, Brightness, Color, ColorTemp, Returned, vars
    <3>. QED BY <2>1, <3>1 DEF Flight
  <2>. QED BY <2>2, <2>3
<1>3. CASE Accept
  <2>1. /\ at = "end" /\ phase' = "wait" /\ UNCHANGED <<at, packets, todo>>
        /\ objects' = [i \in DOMAIN packets |-> Bytes20(packets[i])]
    BY <1>3 DEF Accept, vars
  <2>2. \A i \in DOMAIN packets : packets[i] \in Packets
    BY DEF TypeOK
  <2>3. \A i \in DOMAIN packets : Carries(objects'[i], packets[i])
    BY <2>1, <2>2, Fresh
  <2>. QED BY <2>1, <2>3 DEF Flight
<1>4. CASE Attempt \/ SendEnds
  <2>1. /\ UNCHANGED <<at, packets, objects>>
        /\ phase # "idle" /\ phase' # "idle" /\ todo' \in {todo, 1}
    BY <1>4 DEF Attempt, SendEnds, vars
  <2>. QED BY <2>1 DEF Flight
<1>5. CASE \/ \E late \in BOOLEAN : Pair(late)
           \/ LinkLoss
           \/ \E what \in {"online", "address", "status"} : Notify(what)
           \/ Heartbeat(prepareAddressQuery, "address")
           \/ Heartbeat(prepareStatusQuery, "status")
           \/ HeartbeatFails
           \/ OnData
           \/ UNCHANGED wireVars
  <2>1. UNCHANGED <<at, packets, phase, todo, objects>>
    BY <1>5 DEF Pair, LinkLoss, Notify, Heartbeat, HeartbeatFails, OnData,
                wireVars, airVars, sendVars, vars
  <2>. QED BY <2>1 DEF Flight
<1>. QED BY <1>1, <1>2, <1>3, <1>4, <1>5 DEF WireNext

\* Objects carry their packets, whatever has been sent, in all attempts.
THEOREM AlwaysFlight == WireSpec => []Flight
<1>1. TypeOK /\ Flight /\ [WireNext]_wireVars => Flight'
  BY NextFlight
<1>2. WireSpec => []TypeOK
  BY WireUsesMappings, TypeCorrect, PTL
<1>. QED BY <1>1, <1>2, InitFlight, PTL DEF WireSpec
-----------------------------------------------------------------------------
(* No other effect.                                                         *)

\* Only a write reaches the light, and it carries the packet whose turn it is.
LEMMA LampStep ==
    ASSUME TypeOK, Flight, [WireNext]_wireVars, lamp' # lamp
    PROVE  \E i \in DOMAIN packets : Does(lamp', packets[i])
<1>1. SendNext \/ SendFails
  BY DEF WireNext, Pair, LinkLoss, Notify, Accept, Attempt, SendEnds, Heartbeat,
         HeartbeatFails, OnData, wireVars, airVars
<1>. DEFINE f == Stamped(objects[todo], NextSeq, vendor_code)
<1>2. /\ phase = "send" /\ todo <= Len(objects)
      /\ lamp' \in {lamp, Obeyed(encrypt_packet(link.key, Address, f))}
  BY <1>1 DEF SendNext, SendFails, Encrypted
<1>3. /\ todo \in DOMAIN packets /\ packets[todo] \in Packets
      /\ Carries(objects[todo], packets[todo])
  BY <1>2, TodoHasObject
<1>4. Carries(f, packets[todo])
  BY <1>3, StampCarries
<1>. HIDE DEF f
<1>5. LET l == Obeyed(encrypt_packet(link.key, Address, f))
      IN  l = lamp \/ Does(l, packets[todo])
  BY <1>3, <1>4, ObeyedEffect
<1>6. Does(lamp', packets[todo])
  BY <1>2, <1>5
<1>. QED BY <1>3, <1>6

\* Whatever is written again, half written, encrypted for another key or sent over
\* another connection (telink_mesh.cpp 268-291, gateway.h 120-181): a light only ever
\* does what a packet of the command asks for.
THEOREM AlwaysNoOtherEffect == WireSpec => NoOtherEffect
<1>1. TypeOK /\ Flight /\ [WireNext]_wireVars =>
        [lamp' # lamp =>
          \E i \in DOMAIN packets :
             IF packets[i].command = "LIGHT_ON_OFF"
             THEN lamp' = [lamp EXCEPT !.on = packets[i].on]
             ELSE lamp' = [lamp EXCEPT !.set = Settings(packets[i])]]_wireVars
  BY LampStep DEF Does
<1>2. WireSpec => []TypeOK
  BY WireUsesMappings, TypeCorrect, PTL
<1>. QED BY <1>1, <1>2, AlwaysFlight, PTL DEF WireSpec, NoOtherEffect
-----------------------------------------------------------------------------
(* Reports.                                                                 *)

LampOK ==
    /\ lamp = [on |-> lamp.on, set |-> lamp.set]
    /\ lamp.on \in BOOLEAN
    /\ lamp.set \in Seq(Int) /\ Len(lamp.set) = 6

LEMMA SettingsType ==
    ASSUME NEW p \in AttributePackets
    PROVE  Settings(p) \in Seq(Int) /\ Len(Settings(p)) = 6
<1>1. /\ p.brightness \in Int /\ p.red \in Int /\ p.green \in Int
      /\ p.blue \in Int /\ p.yellow \in Int /\ p.white \in Int
  BY DEF AttributePackets, Bytes
<1>. QED BY <1>1 DEF Settings

LEMMA NextLampOK ==
    ASSUME TypeOK, Flight, LampOK, [WireNext]_wireVars
    PROVE  LampOK'
<1>1. CASE lamp' = lamp
  BY <1>1 DEF LampOK
<1>2. CASE lamp' # lamp
  <2>1. PICK i \in DOMAIN packets : Does(lamp', packets[i])
    BY <1>2, LampStep
  <2>2. packets[i] \in Packets
    BY DEF TypeOK
  <2>3. CASE packets[i] \in OnOffPackets
    <3>1. packets[i].command = "LIGHT_ON_OFF" /\ packets[i].on \in BOOLEAN
      BY <2>3 DEF OnOffPackets
    <3>2. lamp' = [lamp EXCEPT !.on = packets[i].on]
      BY <2>1, <3>1 DEF Does
    <3>. QED BY <3>1, <3>2 DEF LampOK
  <2>4. CASE packets[i] \in AttributePackets
    <3>1. packets[i].command = "LIGHT_ATTRIBUTES_SET"
      BY <2>4 DEF AttributePackets
    <3>2. lamp' = [lamp EXCEPT !.set = Settings(packets[i])]
      BY <2>1, <3>1 DEF Does
    <3>3. Settings(packets[i]) \in Seq(Int) /\ Len(Settings(packets[i])) = 6
      BY <2>4, SettingsType
    <3>. QED BY <3>2, <3>3 DEF LampOK
  <2>. QED BY <2>2, <2>3, <2>4 DEF Packets
<1>. QED BY <1>1, <1>2

\* A report that was sealed with some key, and of which the gateway would publish
\* what it says.
Honest(r) ==
    \E f, k : /\ Plain(f)
              /\ r.frame = Sealed(k, Address, f)
              /\ Publication(f) = {r.says}

LEMMA ReportCodes ==
    /\ Code.ADDRESS_REPORT = 225
    /\ Code.ONLINE_STATUS_REPORT = 220
    /\ Code.STATUS_REPORT = 219
BY DEF Code

LEMMA OnlineHonest ==
    ASSUME LampOK
    PROVE  LET r == Report("online") IN Plain(r.frame) /\ Publication(r.frame) = {r.says}
<1>. DEFINE set == lamp.set
            b == set[1]
            x == IF lamp.on THEN 64 ELSE 65
            payload == <<Light, 0, b, x>>
            f == Rx(220, Proxy, payload)
            says == [topic |-> "state", report |-> [node |-> Light, brightness |-> b, on |-> lamp.on]]
<1>1. b \in Int
  BY DEF LampOK
<1>2. x \in Int /\ (x % 2 = 0) = lamp.on
  BY DEF LampOK
<1>3. Report("online") = [frame |-> f, says |-> says]
  BY ReportCodes DEF Report
<1>. HIDE DEF b, x
<1>4. /\ payload \in Seq(Int) /\ Len(payload) = 4
      /\ payload[1] = Light /\ payload[3] = b /\ payload[4] = x
  BY <1>1, <1>2, NumbersOfLights
<1>. HIDE DEF payload
<1>5. /\ Plain(f)
      /\ f[7] = Clear(220)
      /\ \A i \in 1 .. Len(payload) : i <= 10 => f[9 + i] = Clear(payload[i])
  <2>1. 220 \in Int /\ Proxy \in Int /\ payload \in Seq(Int)
    BY <1>4, NumbersOfLights
  <2>. QED BY <2>1, RxBytes
<1>. HIDE DEF f
<1>6. /\ f[7].value = 220
      /\ f[10].value = Light /\ f[12].value = b /\ f[13].value = x
  <2>1. /\ 1 \in 1 .. Len(payload) /\ 3 \in 1 .. Len(payload) /\ 4 \in 1 .. Len(payload)
        /\ 9 + 1 = 10 /\ 9 + 3 = 12 /\ 9 + 4 = 13
    BY <1>4
  <2>2. f[10] = Clear(Light) /\ f[12] = Clear(b) /\ f[13] = Clear(x)
    BY <1>4, <1>5, <2>1
  <2>. QED BY <1>5, <2>2 DEF Clear
<1>7. OnlineStatusReport(f) = [node |-> Light, brightness |-> b, on |-> lamp.on]
  BY <1>2, <1>6 DEF OnlineStatusReport
<1>8. Publication(f) = {[topic |-> "state", report |-> OnlineStatusReport(f)]}
  BY <1>6, ReportCodes DEF Publication
<1>. QED BY <1>3, <1>5, <1>7, <1>8

LEMMA AddressHonest ==
    LET r == Report("address") IN Plain(r.frame) /\ Publication(r.frame) = {r.says}
<1>. DEFINE payload == <<Light>> \o Address
            f == Rx(225, Light, payload)
            says == [topic |-> "config", report |-> [node |-> Light]]
<1>1. Report("address") = [frame |-> f, says |-> says]
  BY ReportCodes DEF Report
<1>2. payload \in Seq(Int) /\ 1 \in 1 .. Len(payload) /\ payload[1] = Light
  <2>. DEFINE one == <<Light>>
  <2>1. one \in Seq(Int) /\ Len(one) = 1 /\ one[1] = Light /\ Len(Address) \in Nat
    BY NumbersOfLights
  <2>. HIDE DEF one
  <2>2. /\ one \o Address \in Seq(Int)
        /\ Len(one \o Address) = Len(one) + Len(Address)
        /\ \A i \in 1 .. Len(one) : (one \o Address)[i] = one[i]
    BY <2>1, NumbersOfLights, Concat
  <2>. QED BY <2>1, <2>2 DEF one
<1>. HIDE DEF payload
<1>3. /\ Plain(f)
      /\ f[7] = Clear(225)
      /\ \A i \in 1 .. Len(payload) : i <= 10 => f[9 + i] = Clear(payload[i])
  <2>1. 225 \in Int /\ Light \in Int
    BY NumbersOfLights
  <2>. QED BY <1>2, <2>1, RxBytes
<1>. HIDE DEF f
<1>4. f[7].value = 225 /\ f[10].value = Light
  <2>1. f[9 + 1] = Clear(payload[1]) /\ 9 + 1 = 10
    BY <1>2, <1>3
  <2>. QED BY <1>2, <1>3, <2>1 DEF Clear
<1>5. Publication(f) = {[topic |-> "config", report |-> AddressReport(f)]}
  BY <1>4, ReportCodes DEF Publication
<1>. QED BY <1>1, <1>3, <1>4, <1>5 DEF AddressReport

LEMMA StatusHonest ==
    ASSUME LampOK
    PROVE  LET r == Report("status") IN Plain(r.frame) /\ Publication(r.frame) = {r.says}
<1>. DEFINE set == lamp.set
            f == Rx(219, Light, set)
            says == [topic |-> "status",
                     report |-> [node |-> Light, brightness |-> set[1],
                                 rgb |-> <<set[2], set[3], set[4]>>, white |-> set[6]]]
<1>1. set \in Seq(Int) /\ Len(set) = 6
  BY DEF LampOK
<1>2. Report("status") = [frame |-> f, says |-> says]
  BY ReportCodes DEF Report
<1>. HIDE DEF set
<1>3. /\ Plain(f)
      /\ f[3] = Clear(Light) /\ f[7] = Clear(219)
      /\ \A i \in 1 .. Len(set) : i <= 10 => f[9 + i] = Clear(set[i])
  <2>1. 219 \in Int /\ Light \in Int /\ set \in Seq(Int)
    BY <1>1, NumbersOfLights
  <2>. QED BY <2>1, RxBytes
<1>. HIDE DEF f
<1>4. /\ f[3].value = Light /\ f[7].value = 219
      /\ f[10].value = set[1] /\ f[11].value = set[2] /\ f[12].value = set[3]
      /\ f[13].value = set[4] /\ f[15].value = set[6]
  <2>1. /\ \A i \in {1, 2, 3, 4, 6} : i \in 1 .. Len(set) /\ i <= 10
        /\ 9 + 1 = 10 /\ 9 + 2 = 11 /\ 9 + 3 = 12 /\ 9 + 4 = 13 /\ 9 + 6 = 15
    BY <1>1
  <2>2. /\ f[10] = Clear(set[1]) /\ f[11] = Clear(set[2]) /\ f[12] = Clear(set[3])
        /\ f[13] = Clear(set[4]) /\ f[15] = Clear(set[6])
    BY <1>3, <2>1
  <2>. QED BY <1>3, <2>2 DEF Clear
<1>5. Values(f, 11, 13) = <<set[2], set[3], set[4]>>
  <2>1. Values(f, 11, 13) = [i \in 1 .. 3 |-> f[11 + i - 1].value]
    BY DEF Values
  <2>2. [i \in 1 .. 3 |-> f[11 + i - 1].value] = <<f[11].value, f[12].value, f[13].value>>
    OBVIOUS
  <2>. QED BY <1>4, <2>1, <2>2
<1>6. Publication(f) = {[topic |-> "status", report |-> LightStatusReport(f)]}
  BY <1>4, ReportCodes DEF Publication
<1>7. LightStatusReport(f) =
        [node |-> Light, brightness |-> set[1],
         rgb |-> <<set[2], set[3], set[4]>>, white |-> set[6]]
  BY <1>4, <1>5 DEF LightStatusReport
<1>. QED BY <1>2, <1>3, <1>6, <1>7, SMTT(20) DEF set

\* Every notification that waits is honest.
AllHonest == \E S : reports \in Seq(S) /\ \A r \in S : Honest(r)

LEMMA NotifiedHonest ==
    ASSUME LampOK, AllHonest, NEW what \in {"online", "address", "status"},
           reports' = Notified(what)
    PROVE  AllHonest'
<1>1. Plain(Report(what).frame) /\ Publication(Report(what).frame) = {Report(what).says}
  BY OnlineHonest, AddressHonest, StatusHonest
<1>. DEFINE r == [Report(what) EXCEPT !.frame = Sealed(node, Address, @)]
<1>2. Report(what) = [frame |-> Report(what).frame, says |-> Report(what).says]
  BY DEF Report
<1>3. r.frame = Sealed(node, Address, Report(what).frame) /\ r.says = Report(what).says
  BY <1>2
<1>4. Honest(r)
  <2>. HIDE DEF r
  <2>. QED BY <1>1, <1>3 DEF Honest
<1>5. PICK S : reports \in Seq(S) /\ \A x \in S : Honest(x)
  BY DEF AllHonest
<1>6. reports' = Append(reports, r)
  BY DEF Notified
<1>. HIDE DEF r
<1>. DEFINE T == S \cup {r}
<1>7. reports \in Seq(T)
  BY <1>5, SeqMonotonic
<1>8. reports' \in Seq(T)
  BY <1>6, <1>7, AppendProperties
<1>9. \A x \in T : Honest(x)
  BY <1>4, <1>5
<1>10. \E U : reports' \in Seq(U) /\ \A x \in U : Honest(x)
  BY <1>8, <1>9
<1>. QED BY <1>10 DEF AllHonest, Honest, Publication

\* What is made of an honest report: what it says, or, with another key, nonsense.
LEMMA ReceivedHonest ==
    ASSUME NEW r, Honest(r)
    PROVE  Received(r.frame) = {r.says} \/ Received(r.frame) = {Garbled}
<1>1. PICK f, k : Plain(f) /\ r.frame = Sealed(k, Address, f) /\ Publication(f) = {r.says}
  BY DEF Honest
<1>2. CASE k = link.key
  <2>1. decrypt_packet(link.key, Address, r.frame) = f
    BY <1>1, <1>2, ReportReadable
  <2>2. Readable(f)
    BY <1>1 DEF Readable, Plain, Clear
  <2>. QED BY <1>1, <2>1, <2>2 DEF Received
<1>3. CASE k # link.key
  <2>1. ~Readable(decrypt_packet(link.key, Address, r.frame))
    BY <1>1, <1>3, ReportForeign
  <2>. QED BY <2>1 DEF Received
<1>. QED BY <1>2, <1>3

LEMMA OnDataTrue ==
    ASSUME AllHonest, ReportsTrue, OnData
    PROVE  AllHonest' /\ ReportsTrue'
<1>1. PICK S : reports \in Seq(S) /\ \A r \in S : Honest(r)
  BY DEF AllHonest
<1>2. reports # << >> /\ reports' = Tail(reports)
  BY DEF OnData
<1>3. Head(reports) \in S /\ reports' \in Seq(S)
  BY <1>1, <1>2, HeadTailProperties
<1>4. AllHonest'
  <2>1. \E T : reports' \in Seq(T) /\ \A r \in T : Honest(r)
    BY <1>1, <1>3
  <2>. QED BY <2>1 DEF AllHonest, Honest, Publication
<1>. DEFINE found == IF link = None THEN {} ELSE Received(Head(reports).frame)
<1>5. found \subseteq {Head(reports).says, Garbled}
  <2>1. Honest(Head(reports))
    BY <1>1, <1>3
  <2>2. \/ Received(Head(reports).frame) = {Head(reports).says}
        \/ Received(Head(reports).frame) = {Garbled}
    BY <2>1, ReceivedHonest
  <2>. QED BY <2>2
<1>6. \/ published' \in found /\ meant' = Head(reports).says
      \/ UNCHANGED <<published, meant>>
  BY DEF OnData
<1>. HIDE DEF found
<1>7. ReportsTrue'
  BY <1>5, <1>6 DEF ReportsTrue
<1>. QED BY <1>4, <1>7

LEMMA InitTrue == WireInit => LampOK /\ AllHonest /\ ReportsTrue
<1>. SUFFICES ASSUME WireInit PROVE LampOK /\ AllHonest /\ ReportsTrue
  OBVIOUS
<1>1. LampOK
  BY DEF WireInit, LampOK
<1>2. << >> \in Seq({}) /\ \A r \in {} : Honest(r)
  OBVIOUS
<1>3. AllHonest
  <2>1. reports = << >>
    BY DEF WireInit
  <2>. QED BY <1>2, <2>1 DEF AllHonest
<1>4. ReportsTrue
  BY DEF WireInit, ReportsTrue
<1>. QED BY <1>1, <1>3, <1>4

LEMMA NextTrue ==
    ASSUME LampOK, AllHonest, ReportsTrue, [WireNext]_wireVars
    PROVE  AllHonest' /\ ReportsTrue'
<1>1. CASE OnData
  BY <1>1, OnDataTrue
<1>2. CASE /\ UNCHANGED <<published, meant>>
           /\ \E what \in {"online", "address", "status"} : reports' = Notified(what)
  BY <1>2, NotifiedHonest DEF ReportsTrue
<1>3. CASE UNCHANGED reportVars
  BY <1>3 DEF reportVars, ReportsTrue, AllHonest, Honest, Publication
<1>4. ASSUME NEW what \in {"online", "address", "status"},
             NEW query, Notify(what) \/ Heartbeat(query, what)
      PROVE  /\ UNCHANGED <<published, meant>>
             /\ reports' = Notified(what) \/ reports' = reports
  BY <1>4 DEF Notify, Heartbeat
<1>5. CASE \/ \E what \in {"online", "address", "status"} : Notify(what)
           \/ Heartbeat(prepareAddressQuery, "address")
           \/ Heartbeat(prepareStatusQuery, "status")
  BY <1>2, <1>3, <1>4, <1>5 DEF reportVars
<1>6. CASE ~OnData /\ ~(\/ \E what \in {"online", "address", "status"} : Notify(what)
                       \/ Heartbeat(prepareAddressQuery, "address")
                       \/ Heartbeat(prepareStatusQuery, "status"))
  <2>1. UNCHANGED reportVars
    BY <1>6 DEF WireNext, Pair, LinkLoss, Accept, Attempt, SendNext, SendFails, SendEnds,
                HeartbeatFails, wireVars, airVars
  <2>. QED BY <2>1, <1>3
<1>. QED BY <1>1, <1>5, <1>6

\* What the gateway publishes (gateway.h 78-96, mappings.h 12-143) is what a light has
\* said, in the right fields and under the right number, or the misreading of a
\* report that was sealed with a key of before.
THEOREM AlwaysReportsTrue == WireSpec => []ReportsTrue
<1>1. TypeOK /\ Flight /\ (LampOK /\ AllHonest /\ ReportsTrue) /\ [WireNext]_wireVars
        => (LampOK /\ AllHonest /\ ReportsTrue)'
  BY NextLampOK, NextTrue
<1>2. WireSpec => []TypeOK
  BY WireUsesMappings, TypeCorrect, PTL
<1>. QED BY <1>1, <1>2, AlwaysFlight, InitTrue, PTL DEF WireSpec
-----------------------------------------------------------------------------
(* Types.                                                                   *)

LinkTypes ==
    /\ link \in [key : Keys, packet_seq : Words] \cup {None}
    /\ up \in BOOLEAN
    /\ node \in Keys
    /\ pairings \in 0 .. MaxPairings
    /\ blind \in BOOLEAN

SendTypes ==
    /\ phase \in {"idle", "wait", "send", "sent", "dropped"}
    /\ phase = "idle" => todo = 1
    /\ todo \in 1 .. Len(packets) + 1
    /\ tries \in 0 .. MaxTries

LampTypes == \A i \in 1 .. 6 : lamp.set[i] \in Bytes

ReportTypes == Len(reports) <= MaxReports

LEMMA PairTypes ==
    ASSUME LinkTypes, \E late \in BOOLEAN : Pair(late)
    PROVE  LinkTypes'
<1>1. PICK late \in BOOLEAN : Pair(late)
  OBVIOUS
<1>. DEFINE n == pairings + 1
            key == generate_sk(n, IF late THEN n - 1 ELSE n)
<1>2. n \in 0 .. MaxPairings /\ n - 1 \in 0 .. MaxPairings
  BY <1>1, BoundsAssumption DEF Pair, LinkTypes
<1>3. /\ pairings' = n /\ node' = generate_sk(n, n) /\ up' = TRUE /\ blind' = blind
      /\ \/ link' = [key |-> key, packet_seq |-> 1]
         \/ link # None /\ link' = [link EXCEPT !.key = key]
  BY <1>1 DEF Pair
<1>. HIDE DEF n
<1>4. key \in Keys /\ generate_sk(n, n) \in Keys
  BY <1>2 DEF generate_sk, Keys
<1>. HIDE DEF key
<1>5. 1 \in Words
  BY DEF Words
<1>6. link' \in [key : Keys, packet_seq : Words]
  BY <1>3, <1>4, <1>5 DEF LinkTypes
<1>. QED BY <1>2, <1>3, <1>4, <1>6 DEF LinkTypes

\* A number is a word again, also after the last one.
LEMMA NumberedType ==
    ASSUME LinkTypes, link # None
    PROVE  Numbered \in [key : Keys, packet_seq : Words]
<1>1. link \in [key : Keys, packet_seq : Words]
  BY DEF LinkTypes
<1>2. NextSeq \in Words
  <2>1. 1 \in Words
    BY DEF Words
  <2>. QED BY <1>1, <2>1 DEF NextSeq
<1>3. NextSeq + 1 \in Int
  BY <1>2, WordIsInt
<1>4. Word(NextSeq + 1) \in Words
  BY <1>3, Narrowing
<1>. QED BY <1>1, <1>4 DEF Numbered

LEMMA NextLinkTypes ==
    ASSUME LinkTypes, [WireNext]_wireVars,
           phase = "send" => link # None
    PROVE  LinkTypes'
<1>1. CASE \E late \in BOOLEAN : Pair(late)
  BY <1>1, PairTypes
<1>2. CASE SendNext
  <2>1. /\ link' = Numbered /\ UNCHANGED <<up, node, pairings>>
        /\ blind' = (blind \/ link.key # node) /\ phase = "send"
    BY <1>2 DEF SendNext
  <2>. QED BY <2>1, NumberedType DEF LinkTypes
<1>3. CASE Heartbeat(prepareAddressQuery, "address") \/ Heartbeat(prepareStatusQuery, "status")
  <2>1. link # None /\ link' = Numbered /\ UNCHANGED <<up, node, pairings, blind>>
    BY <1>3 DEF Heartbeat
  <2>. QED BY <2>1, NumberedType DEF LinkTypes
<1>4. CASE SendFails \/ HeartbeatFails \/ LinkLoss \/ Attempt
  <2>1. /\ link' \in {link, None} /\ up' \in {up, FALSE} /\ blind' \in {blind, FALSE}
        /\ UNCHANGED <<node, pairings>>
    BY <1>4 DEF SendFails, HeartbeatFails, LinkLoss, Attempt, linkVars
  <2>. QED BY <2>1 DEF LinkTypes
<1>5. CASE \/ Next /\ UNCHANGED airVars
           \/ \E what \in {"online", "address", "status"} : Notify(what)
           \/ Accept
           \/ SendEnds
           \/ OnData
           \/ UNCHANGED wireVars
  <2>1. UNCHANGED <<link, up, node, pairings, blind>>
    BY <1>5 DEF Notify, Accept, SendEnds, OnData, wireVars, airVars, linkVars
  <2>. QED BY <2>1 DEF LinkTypes
<1>. QED BY <1>1, <1>2, <1>3, <1>4, <1>5 DEF WireNext

\* An attempt has a connection until it ends.
SendLinked == phase = "send" => link # None

LEMMA NextSendLinked ==
    ASSUME LinkTypes, SendLinked, [WireNext]_wireVars
    PROVE  SendLinked'
<1>1. CASE SendNext
  <2>1. link # None /\ link' = Numbered
    BY <1>1 DEF SendNext, SendLinked
  <2>. QED BY <2>1, NumberedType, NoneIsNoLink DEF SendLinked
<1>2. CASE Attempt
  BY <1>2 DEF Attempt, linkVars, SendLinked
<1>3. CASE \/ \E late \in BOOLEAN : Pair(late)
           \/ Heartbeat(prepareAddressQuery, "address")
           \/ Heartbeat(prepareStatusQuery, "status")
           \/ HeartbeatFails
  BY <1>3 DEF Pair, Heartbeat, HeartbeatFails, sendVars, SendLinked
<1>4. CASE SendFails \/ SendEnds \/ Accept
  BY <1>4 DEF SendFails, SendEnds, Accept, SendLinked
<1>5. CASE \/ Next /\ UNCHANGED airVars
           \/ LinkLoss
           \/ \E what \in {"online", "address", "status"} : Notify(what)
           \/ OnData
           \/ UNCHANGED wireVars
  <2>1. UNCHANGED <<link, phase>>
    BY <1>5 DEF LinkLoss, Notify, OnData, wireVars, airVars, linkVars, sendVars
  <2>. QED BY <2>1 DEF SendLinked
<1>. QED BY <1>1, <1>2, <1>3, <1>4, <1>5 DEF WireNext

LEMMA NextSendTypes ==
    ASSUME TypeOK, TypeOK', Flight, SendTypes, [WireNext]_wireVars
    PROVE  SendTypes'
<1>1. Len(packets) \in Nat /\ Len(packets') \in Nat
  BY DEF TypeOK
<1>2. CASE SendNext \/ SendFails
  <2>1. phase = "send" /\ todo <= Len(objects) /\ UNCHANGED packets
    BY <1>2 DEF SendNext, SendFails, vars
  <2>2. todo \in 1 .. Len(packets)
    BY <2>1, <1>1, TodoHasObject DEF TypeOK
  <2>3. todo' \in {todo, todo + 1} /\ phase' \in {"send", "wait", "dropped"}
    BY <1>2, <2>1 DEF SendNext, SendFails
  <2>4. tries' \in 0 .. MaxTries
    BY <1>2, BoundsAssumption DEF SendNext, SendFails, SendTypes
  <2>5. todo' \in 1 .. Len(packets) + 1
    BY <1>1, <2>2, <2>3
  <2>. QED BY <2>1, <2>3, <2>4, <2>5 DEF SendTypes
<1>3. CASE Next /\ UNCHANGED airVars
  <2>1. UNCHANGED <<phase, todo, tries>>
    BY <1>3 DEF airVars, sendVars
  <2>2. CASE phase = "idle"
    <3>1. todo' = 1 /\ 1 \in 1 .. Len(packets') + 1
      BY <1>1, <2>1, <2>2 DEF SendTypes
    <3>. QED BY <2>1, <3>1 DEF SendTypes
  <2>3. CASE phase # "idle"
    <3>1. UNCHANGED packets
      BY <1>3, <2>3 DEF Flight, Next, Topic, State, Brightness, Color, ColorTemp, Returned, vars
    <3>. QED BY <2>1, <3>1 DEF SendTypes
  <2>. QED BY <2>2, <2>3
<1>4. CASE Accept \/ Attempt \/ SendEnds
  <2>1. /\ UNCHANGED <<packets, tries>> /\ todo' \in {todo, 1}
        /\ phase' \in {"wait", "send", "sent"}
    BY <1>4 DEF Accept, Attempt, SendEnds, vars
  <2>2. 1 \in 1 .. Len(packets) + 1
    BY <1>1
  <2>. QED BY <2>1, <2>2 DEF SendTypes
<1>5. CASE \/ \E late \in BOOLEAN : Pair(late)
           \/ LinkLoss
           \/ \E what \in {"online", "address", "status"} : Notify(what)
           \/ Heartbeat(prepareAddressQuery, "address")
           \/ Heartbeat(prepareStatusQuery, "status")
           \/ HeartbeatFails
           \/ OnData
           \/ UNCHANGED wireVars
  <2>1. UNCHANGED <<packets, phase, todo, tries>>
    BY <1>5 DEF Pair, LinkLoss, Notify, Heartbeat, HeartbeatFails, OnData,
                wireVars, airVars, sendVars, vars
  <2>. QED BY <2>1 DEF SendTypes
<1>. QED BY <1>2, <1>3, <1>4, <1>5 DEF WireNext

LEMMA NextLampTypes ==
    ASSUME TypeOK, Flight, LampOK, LampTypes, [WireNext]_wireVars
    PROVE  LampTypes'
<1>1. CASE lamp' = lamp
  BY <1>1 DEF LampTypes
<1>2. CASE lamp' # lamp
  <2>1. PICK i \in DOMAIN packets : Does(lamp', packets[i])
    BY <1>2, LampStep
  <2>2. packets[i] \in Packets
    BY DEF TypeOK
  <2>3. CASE packets[i] \in OnOffPackets
    <3>1. packets[i].command = "LIGHT_ON_OFF"
      BY <2>3 DEF OnOffPackets
    <3>2. lamp'.set = lamp.set
      BY <2>1, <3>1 DEF Does, LampOK
    <3>. QED BY <3>2 DEF LampTypes
  <2>4. CASE packets[i] \in AttributePackets
    <3>1. packets[i].command = "LIGHT_ATTRIBUTES_SET"
      BY <2>4 DEF AttributePackets
    <3>2. lamp'.set = Settings(packets[i])
      BY <2>1, <3>1 DEF Does, LampOK
    <3>3. \A j \in 1 .. 6 : Settings(packets[i])[j] \in Bytes
      BY <2>4 DEF Settings, AttributePackets
    <3>. QED BY <3>2, <3>3 DEF LampTypes
  <2>. QED BY <2>2, <2>3, <2>4 DEF Packets
<1>. QED BY <1>1, <1>2

LEMMA NextReportTypes ==
    ASSUME AllHonest, ReportTypes, [WireNext]_wireVars
    PROVE  ReportTypes'
<1>1. PICK S : reports \in Seq(S)
  BY DEF AllHonest
<1>2. Len(reports) \in Nat
  BY <1>1
<1>3. ASSUME NEW x, reports' = Append(reports, x), Len(reports) < MaxReports
      PROVE  ReportTypes'
  <2>1. reports \in Seq(S \cup {x})
    BY <1>1, SeqMonotonic
  <2>2. Len(reports') = Len(reports) + 1
    BY <1>3, <2>1, AppendProperties
  <2>. QED BY <1>2, <1>3, <2>2, BoundsAssumption DEF ReportTypes
<1>4. CASE OnData
  <2>1. reports # << >> /\ reports' = Tail(reports)
    BY <1>4 DEF OnData
  <2>2. Len(reports') = Len(reports) - 1
    BY <1>1, <2>1, HeadTailProperties
  <2>. QED BY <1>2, <2>2, BoundsAssumption DEF ReportTypes
<1>5. CASE \/ \E what \in {"online", "address", "status"} : Notify(what)
           \/ Heartbeat(prepareAddressQuery, "address")
           \/ Heartbeat(prepareStatusQuery, "status")
  <2>1. PICK what \in {"online", "address", "status"} :
          Len(reports) < MaxReports /\ (reports' = Notified(what) \/ reports' = reports)
    BY <1>5 DEF Notify, Heartbeat
  <2>. QED BY <1>3, <2>1 DEF Notified, ReportTypes
<1>6. CASE \/ Next /\ UNCHANGED airVars
           \/ \E late \in BOOLEAN : Pair(late)
           \/ LinkLoss \/ Accept \/ Attempt \/ SendNext \/ SendFails \/ SendEnds
           \/ HeartbeatFails
           \/ UNCHANGED wireVars
  <2>1. UNCHANGED reports
    BY <1>6 DEF Pair, LinkLoss, Accept, Attempt, SendNext, SendFails, SendEnds,
                HeartbeatFails, wireVars, airVars, reportVars
  <2>. QED BY <2>1 DEF ReportTypes
<1>. QED BY <1>4, <1>5, <1>6 DEF WireNext

LEMMA InitTypes == WireInit => LinkTypes /\ SendLinked /\ SendTypes /\ LampTypes /\ ReportTypes
<1>. SUFFICES ASSUME WireInit
              PROVE  LinkTypes /\ SendLinked /\ SendTypes /\ LampTypes /\ ReportTypes
  OBVIOUS
<1>1. generate_sk(0, 0) \in Keys /\ 0 \in 0 .. MaxPairings /\ 0 \in 0 .. MaxTries
  BY BoundsAssumption DEF generate_sk, Keys
<1>2. LinkTypes /\ SendLinked
  BY <1>1 DEF WireInit, LinkTypes, SendLinked
<1>3. SendTypes
  <2>1. packets = << >> /\ Len(<< >>) = 0
    BY DEF WireInit, Init
  <2>. QED BY <1>1, <2>1 DEF WireInit, SendTypes
<1>4. LampTypes
  <2>1. lamp.set = <<0, 0, 0, 0, 0, 0>>
    BY DEF WireInit
  <2>2. \A i \in 1 .. 6 : <<0, 0, 0, 0, 0, 0>>[i] = 0
    OBVIOUS
  <2>3. 0 \in Bytes
    BY DEF Bytes
  <2>. QED BY <2>1, <2>2, <2>3 DEF LampTypes
<1>5. ReportTypes
  BY BoundsAssumption DEF WireInit, ReportTypes
<1>. QED BY <1>2, <1>3, <1>4, <1>5

LEMMA TypesFit ==
    ASSUME TypeOK, Flight, LampOK, LinkTypes, SendTypes, LampTypes, ReportTypes
    PROVE  WireTypeOK
<1>1. DOMAIN objects \subseteq DOMAIN packets
  BY DEF Flight
<1>2. \A i \in DOMAIN objects : Readable(objects[i])
  <2>1. \A i \in DOMAIN objects : Plain(objects[i])
    BY DEF Flight, Carries
  <2>2. ASSUME NEW f, Plain(f) PROVE Readable(f)
    BY <2>2 DEF Plain, Readable, Clear
  <2>. QED BY <2>1, <2>2
<1>3. DOMAIN lamp.set = 1 .. 6
  BY DEF LampOK
<1>. QED BY <1>1, <1>2, <1>3 DEF WireTypeOK, LampOK, LinkTypes, SendTypes, LampTypes, ReportTypes

\* Keys, numbers, attempts, objects, settings and reports keep their types and bounds.
THEOREM WireTypeCorrect == WireSpec => []WireTypeOK
<1>. DEFINE Inv == /\ LampOK /\ AllHonest /\ ReportsTrue
                   /\ LinkTypes /\ SendLinked /\ SendTypes /\ LampTypes /\ ReportTypes
<1>1. WireInit => Inv
  BY InitTrue, InitTypes
<1>2. TypeOK /\ TypeOK' /\ Flight /\ Inv /\ [WireNext]_wireVars => Inv'
  <2>. SUFFICES ASSUME TypeOK, TypeOK', Flight, Inv, [WireNext]_wireVars PROVE Inv'
    OBVIOUS
  <2>1. phase = "send" => link # None
    BY DEF SendLinked
  <2>. QED BY <2>1, NextLampOK, NextTrue, NextLinkTypes, NextSendLinked, NextSendTypes,
              NextLampTypes, NextReportTypes
<1>3. TypeOK /\ Flight /\ Inv => WireTypeOK
  BY TypesFit
<1>4. WireSpec => []TypeOK
  BY WireUsesMappings, TypeCorrect, PTL
<1>. QED BY <1>1, <1>2, <1>3, <1>4, AlwaysFlight, PTL DEF WireSpec
-----------------------------------------------------------------------------
(* A command that counts as sent has taken effect.                          *)

\* The light shows packet p.
Shows(p) == IF p.command = "LIGHT_ON_OFF" THEN lamp.on = p.on ELSE lamp.set = Settings(p)

\* The packets before the k-th have had their effect, the last of each kind last.
ShownBefore(k) ==
    \A i \in DOMAIN packets :
        /\ i < k
        /\ \A j \in DOMAIN packets : i < j /\ j < k => packets[j].command # packets[i].command
        => Shows(packets[i])

Taken ==
    /\ phase # "idle" => msg \in Followed
    /\ phase \in {"send", "sent"} /\ ~blind => ShownBefore(todo)
    /\ phase = "sent" => todo > Len(packets)

\* Packets of a command go to its light.
LEMMA ForTheLight ==
    ASSUME TypeOK, RightLight, msg \in Followed, NEW i \in DOMAIN packets
    PROVE  packets[i].dest = Light
<1>1. packets[i].dest = Word(Light)
  BY FollowedAssumption DEF RightLight
<1>2. Word(Light) = Light
  <2>. DEFINE top == 65535
  <2>1. top \in Int /\ top < 65536
    OBVIOUS
  <2>2. Words = 0 .. top
    BY SMT DEF Words, top
  <2>3. Light \in Words
    BY FollowedAssumption
  <2>. HIDE DEF top
  <2>4. Light \in Int /\ 0 <= Light /\ Light < 65536
    BY <2>1, <2>2, <2>3
  <2>5. Light % 65536 = Light
    BY <2>4
  <2>. QED BY <2>5 DEF Word
<1>. QED BY <1>1, <1>2

\* A write that the light can read
LEMMA SendNextTaken ==
    ASSUME TypeOK, RightLight, Flight, LampOK, Taken, SendNext
    PROVE  Taken'
<1>. DEFINE f == Stamped(objects[todo], NextSeq, vendor_code)
            p == packets[todo]
<1>1. /\ phase = "send" /\ phase' = "send" /\ todo <= Len(objects) /\ todo' = todo + 1
      /\ lamp' = Obeyed(encrypt_packet(link.key, Address, f))
      /\ blind' = (blind \/ link.key # node)
      /\ packets' = packets /\ msg' = msg
  BY DEF SendNext, Encrypted, vars
<1>2. /\ todo \in DOMAIN packets /\ p \in Packets /\ Carries(objects[todo], p)
  BY <1>1, TodoHasObject
<1>3. msg \in Followed
  BY <1>1 DEF Taken
<1>4. ASSUME ~blind' PROVE ShownBefore(todo)'
  <2>1. ~blind /\ link.key = node
    BY <1>1, <1>4
  <2>2. Carries(f, p)
    BY <1>2, StampCarries
  <2>3. p.dest = Light
    BY <1>2, <1>3, ForTheLight
  <2>. HIDE DEF f, p
  <2>4. Does(lamp', p)
    BY <1>1, <1>2, <2>1, <2>2, <2>3, ObeyedDoes
  <2>5. /\ p.command = "LIGHT_ON_OFF" => lamp'.on = p.on /\ lamp'.set = lamp.set
        /\ p.command # "LIGHT_ON_OFF" => lamp'.set = Settings(p) /\ lamp'.on = lamp.on
    BY <2>4 DEF Does, LampOK
  <2>6. ShownBefore(todo)
    BY <1>1, <2>1 DEF Taken
  <2>7. todo \in Int /\ DOMAIN packets \subseteq Int
    BY <1>2 DEF TypeOK
  <2>8. ASSUME NEW i \in DOMAIN packets, i < todo + 1,
               \A j \in DOMAIN packets : i < j /\ j < todo + 1 =>
                  packets[j].command # packets[i].command
        PROVE  IF packets[i].command = "LIGHT_ON_OFF" THEN lamp'.on = packets[i].on
               ELSE lamp'.set = Settings(packets[i])
    <3>1. CASE i = todo
      BY <2>5, <3>1 DEF p
    <3>2. CASE i < todo
      <4>1. p.command # packets[i].command
        BY <1>2, <2>7, <2>8, <3>2 DEF p
      <4>2. Shows(packets[i])
        BY <2>6, <2>7, <2>8, <3>2 DEF ShownBefore
      <4>3. packets[i].command \in {"LIGHT_ON_OFF", "LIGHT_ATTRIBUTES_SET"}
            /\ p.command \in {"LIGHT_ON_OFF", "LIGHT_ATTRIBUTES_SET"}
        BY <1>2 DEF TypeOK, Packets, OnOffPackets, AttributePackets
      <4>. QED BY <2>5, <4>1, <4>2, <4>3 DEF Shows
    <3>. QED BY <2>7, <2>8, <3>1, <3>2
  <2>. QED BY <1>1, <2>8 DEF ShownBefore, Shows, Settings
<1>. QED BY <1>1, <1>3, <1>4 DEF Taken

\* Nothing else touches the light or the command under way.
LEMMA NextTaken ==
    ASSUME TypeOK, RightLight, Flight, LampOK, SendTypes, Taken, [WireNext]_wireVars
    PROVE  Taken'
<1>1. CASE SendNext
  BY <1>1, SendNextTaken
<1>2. CASE SendFails
  BY <1>2 DEF SendFails, Taken, vars
<1>3. CASE Next /\ UNCHANGED airVars
  <2>1. UNCHANGED <<phase, todo, lamp, blind, msg>>
    BY <1>3 DEF airVars, sendVars, Next, Topic, State, Brightness, Color, ColorTemp,
                Returned, Throws, Skip, Push, vars
  <2>2. phase # "idle" => UNCHANGED packets
    BY <1>3 DEF Flight, Next, Topic, State, Brightness, Color, ColorTemp, Returned, vars
  <2>. QED BY <2>1, <2>2 DEF Taken, ShownBefore, Shows, Settings
<1>4. CASE Accept
  BY <1>4 DEF Accept, Taken, vars
<1>5. CASE Attempt
  <2>1. phase = "wait" /\ phase' = "send" /\ todo' = 1 /\ packets' = packets /\ msg' = msg
    BY <1>5 DEF Attempt, vars
  <2>2. \A i \in DOMAIN packets : ~(i < 1)
    BY DEF TypeOK
  <2>. QED BY <2>1, <2>2 DEF Taken, ShownBefore
<1>6. CASE SendEnds
  <2>1. /\ phase = "send" /\ phase' = "sent" /\ todo > Len(objects)
        /\ UNCHANGED <<todo, packets, msg, lamp, blind>>
    BY <1>6 DEF SendEnds, vars
  <2>2. Len(objects) = Len(packets)
    <3>1. Len(packets) \in Nat /\ DOMAIN packets = 1 .. Len(packets)
      BY DEF TypeOK
    <3>2. objects = [i \in 1 .. Len(packets) |-> objects[i]]
      BY <2>1, <3>1 DEF Flight
    <3>. QED BY <3>1, <3>2, FunctionLen
  <2>. QED BY <2>1, <2>2 DEF Taken, ShownBefore, Shows, Settings
<1>7. CASE \/ \E late \in BOOLEAN : Pair(late)
           \/ LinkLoss
           \/ \E what \in {"online", "address", "status"} : Notify(what)
           \/ Heartbeat(prepareAddressQuery, "address")
           \/ Heartbeat(prepareStatusQuery, "status")
           \/ HeartbeatFails
           \/ OnData
           \/ UNCHANGED wireVars
  <2>1. UNCHANGED <<msg, packets, phase, todo, lamp, blind>>
    BY <1>7 DEF Pair, LinkLoss, Notify, Heartbeat, HeartbeatFails, OnData,
                wireVars, airVars, sendVars, vars
  <2>. QED BY <2>1 DEF Taken, ShownBefore, Shows, Settings
<1>. QED BY <1>1, <1>2, <1>3, <1>4, <1>5, <1>6, <1>7 DEF WireNext

\* Once the loop has ended, that is all packets.
LEMMA TakenEffect ==
    ASSUME TypeOK, Flight, Taken
    PROVE  CommandTakesEffect
<1>. SUFFICES ASSUME phase = "sent", ~blind, NEW i \in DOMAIN packets,
                     \A j \in DOMAIN packets : j > i => packets[j].command # packets[i].command
              PROVE  Shows(packets[i])
  BY DEF CommandTakesEffect, Shows
<1>1. ShownBefore(todo) /\ todo > Len(packets)
  BY DEF Taken
<1>2. i \in 1 .. Len(packets) /\ Len(packets) \in Nat /\ DOMAIN packets = 1 .. Len(packets)
  BY DEF TypeOK
<1>3. i < todo /\ \A j \in DOMAIN packets : i < j => j > i
  BY <1>1, <1>2 DEF Flight
<1>. QED BY <1>1, <1>3 DEF ShownBefore

\* A command that send_when_ready counts as sent (gateway.h 141-181) is what its light
\* does: after any attempts that failed half-way, over any connections, whatever
\* was written twice, unless the node had another key than the gateway.
THEOREM AlwaysTakesEffect == WireSpec => []CommandTakesEffect
<1>. DEFINE Inv == LampOK /\ AllHonest /\ ReportsTrue /\ SendTypes /\ Taken
<1>1. WireInit => Inv
  <2>1. WireInit => Taken
    BY DEF WireInit, Taken
  <2>. QED BY <2>1, InitTrue, InitTypes
<1>2. TypeOK /\ TypeOK' /\ RightLight /\ Flight /\ Inv /\ [WireNext]_wireVars => Inv'
  BY NextLampOK, NextTrue, NextSendTypes, NextTaken
<1>3. TypeOK /\ Flight /\ Inv => CommandTakesEffect
  BY TakenEffect
<1>4. WireSpec => []TypeOK /\ []RightLight
  BY WireUsesMappings, TypeCorrect, AlwaysRightLight, PTL
<1>. QED BY <1>1, <1>2, <1>3, <1>4, AlwaysFlight, PTL DEF WireSpec
=============================================================================

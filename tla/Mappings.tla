------------------------------ MODULE Mappings ------------------------------
(***************************************************************************)
(* mqtt_to_telink (src/gateway/mappings.h): a JSON command from MQTT       *)
(* becomes a sequence of mesh packets, one member after the other.  An     *)
(* exception ends the function, which returns what it has got by then.     *)
(*                                                                         *)
(* Members are what JsonCpp makes of them: a number or a string, Absent,   *)
(* Null (asInt gives 0, asString the empty string, a colour has no         *)
(* channels) or Broken (the conversion throws).  A payload that does not   *)
(* parse is logged and used all the same: it has the members read before   *)
(* the error, the last of them Null.                                       *)
(***************************************************************************)
EXTENDS Integers, Sequences, FiniteSets, SequencesExt

CONSTANTS
    Nodes,          \* what std::stoi reads in the topic
    Brightnesses,   \* numbers that occur as brightness ...
    Levels,         \* ... as a colour channel ...
    Mireds,         \* ... and as color_temp
    Absent, Null, Broken

ASSUME NumbersAssumption ==
    /\ Nodes \subseteq Int
    /\ Brightnesses \subseteq Int
    /\ Levels \subseteq Int
    /\ Mireds \subseteq Int

Odd == {Absent, Null, Broken}
Colors == [r : Levels, g : Levels, b : Levels]

ASSUME OddAssumption == Odd \cap (Int \cup Colors) = {}
ASSUME OddDistinct == Absent # Null /\ Absent # Broken /\ Null # Broken

VARIABLES
    msg,        \* the message
    at,         \* the member to be looked at next
    node_id,
    packets

vars == <<msg, at, node_id, packets>>

Messages ==
    [node : Nodes \cup {Broken},
     state : {"ON", "on", "OFF"} \cup Odd,
     brightness : Brightnesses \cup Odd,
     color : Colors \cup Odd,
     color_temp : Mireds \cup Odd]

Bytes == 0 .. 255
Words == 0 .. 65535
Byte(x) == x % 256      \* conversion to uint8_t
Word(x) == x % 65536    \* ... and to uint16_t

OnOffPackets == [command : {"LIGHT_ON_OFF"}, dest : Words, on : BOOLEAN]
AttributePackets ==
    [command : {"LIGHT_ATTRIBUTES_SET"}, dest : Words, brightness : Bytes,
     red : Bytes, green : Bytes, blue : Bytes, yellow : Bytes, white : Bytes]
Packets == OnOffPackets \cup AttributePackets

TypeOK ==
    /\ msg \in Messages
    /\ at \in {"topic", "state", "brightness", "color", "color_temp", "end"}
    /\ node_id \in Words
    /\ packets \in Seq(Packets)

Init ==
    /\ msg \in Messages
    /\ at = "topic"
    /\ node_id = 0
    /\ packets = << >>
-----------------------------------------------------------------------------
(* Packets.                                                                 *)

OnOff(on) == [command |-> "LIGHT_ON_OFF", dest |-> node_id, on |-> on]

\* A new TelinkLightSetAttributes is all zero; nobody sets its music mode and its
\* control flag.
Attributes ==
    [command |-> "LIGHT_ATTRIBUTES_SET", dest |-> node_id, brightness |-> 0,
     red |-> 0, green |-> 0, blue |-> 0, yellow |-> 0, white |-> 0]

AsInt(x) == IF x = Null THEN 0 ELSE x

\* int tK = 1e6/t_mired.  The conversion of an infinite quotient is undefined:
\* processors in use answer with the least or the greatest int.
Kelvins(t) ==
    CASE t = 0 -> {-2147483647 - 1, 2147483647}
      [] t > 0 -> {1000000 \div t}
      [] t < 0 -> {-(1000000 \div (-t))}

Clamped(k) ==
    CASE k < 2700 -> 2700
      [] k > 6500 -> 6500
      [] OTHER    -> k

\* In single precision the quotients below round to the same byte: the products
\* are exact, and a quotient that is no integer is 1/1900 away from the next.
\* (mutant: the branch is not where the two meet)
TemperatureEarly(k) ==
    IF k > 4500
    THEN [yellow |-> ((6500 - k) * 255) \div 1900, white |-> 255]
    ELSE [yellow |-> 255, white |-> ((k - 2700) * 255) \div 1900]

\* (mutant: the two branches swapped)
TemperatureSwapped(k) ==
    IF k > 4600
    THEN [yellow |-> 255, white |-> ((6500 - k) * 255) \div 1900]
    ELSE [yellow |-> ((k - 2700) * 255) \div 1900, white |-> 255]

Temperature(k) ==
    IF k > 4600
    THEN [yellow |-> ((6500 - k) * 255) \div 1900, white |-> 255]
    ELSE [yellow |-> 255, white |-> ((k - 2700) * 255) \div 1900]
-----------------------------------------------------------------------------
(* The members, in the order of the code.                                   *)

Push(p, then) ==
    /\ packets' = Append(packets, p)
    /\ at' = then
    /\ UNCHANGED <<msg, node_id>>

Skip(then) ==
    /\ at' = then
    /\ UNCHANGED <<msg, node_id, packets>>

\* The catch block
Throws(x) == x = Broken /\ Skip("end")

Topic ==
    /\ at = "topic"
    /\ \/ Throws(msg.node)
       \/ /\ msg.node # Broken
          /\ node_id' = Word(msg.node)
          /\ at' = "state"
          /\ UNCHANGED <<msg, packets>>

State ==
    /\ at = "state"
    /\ \/ Throws(msg.state)
       \/ msg.state = Absent /\ Skip("brightness")
       \/ /\ msg.state \notin {Absent, Broken}
          /\ Push(OnOff(msg.state \in {"ON", "on"}), "brightness")

Brightness ==
    /\ at = "brightness"
    /\ \/ Throws(msg.brightness)
       \/ msg.brightness = Absent /\ Skip("color")
       \/ /\ msg.brightness \notin {Absent, Broken}
          /\ Push([Attributes EXCEPT !.brightness = Byte(AsInt(msg.brightness))], "color")

\* (mutant: the node is not set, so the connected one is addressed)
ColorNoDest ==
    /\ at = "color"
    /\ \/ Throws(msg.color)
       \/ msg.color \in {Absent, Null} /\ Skip("color_temp")
       \/ /\ msg.color \notin Odd
          /\ Push([Attributes EXCEPT !.dest = 0,
                                     !.red = Byte(msg.color.r),
                                     !.green = Byte(msg.color.g),
                                     !.blue = Byte(msg.color.b),
                                     !.brightness = 100], "color_temp")

\* (mutant: a member that cannot be converted ends nothing)
ColorGoesOn ==
    /\ at = "color"
    /\ \/ msg.color \in Odd /\ Skip("color_temp")
       \/ /\ msg.color \notin Odd
          /\ Push([Attributes EXCEPT !.red = Byte(msg.color.r),
                                     !.green = Byte(msg.color.g),
                                     !.blue = Byte(msg.color.b),
                                     !.brightness = 100], "color_temp")

Color ==
    /\ at = "color"
    /\ \/ Throws(msg.color)
       \/ msg.color \in {Absent, Null} /\ Skip("color_temp")
       \/ /\ msg.color \notin Odd
          /\ Push([Attributes EXCEPT !.red = Byte(msg.color.r),
                                     !.green = Byte(msg.color.g),
                                     !.blue = Byte(msg.color.b),
                                     !.brightness = 100], "color_temp")

ColorTemp ==
    /\ at = "color_temp"
    /\ \/ Throws(msg.color_temp)
       \/ msg.color_temp = Absent /\ Skip("end")
       \/ /\ msg.color_temp \notin {Absent, Broken}
          /\ \E k \in Kelvins(AsInt(msg.color_temp)) :
                LET t == Temperature(Clamped(k))
                IN  Push([Attributes EXCEPT !.brightness = 100,
                                            !.yellow = t.yellow,
                                            !.white = t.white], "end")

Returned == at = "end" /\ UNCHANGED vars

Next == Topic \/ State \/ Brightness \/ Color \/ ColorTemp \/ Returned

Spec == Init /\ [][Next]_vars
-----------------------------------------------------------------------------
(* Properties.                                                              *)

\* Every packet of a command addresses the light of the topic, and for the lights
\* the gateway announces (node numbers of one byte) exactly that one.
RightLight ==
    \A i \in DOMAIN packets :
        /\ msg.node # Broken
        /\ packets[i].dest = Word(msg.node)
        /\ msg.node \in Bytes => packets[i].dest = msg.node

\* The members in order, and those that ask for a packet
Members == <<"state", "brightness", "color", "color_temp">>
Asks(f) == msg[f] # Absent /\ ~(f = "color" /\ msg[f] = Null)

\* The packet of a member.  A value in its range (which the code does not check) is
\* sent as it is.  The other bytes are those mappings.h sends, not those protocol.txt
\* has: a colour and a colour temperature set the brightness to 100, where
\* protocol.txt has 10 and 0, and no packet has a control flag, where it has 1 for a
\* brightness and 4 for a temperature.
Serves(p, f) ==
    CASE f = "state" -> p = OnOff(msg.state \in {"ON", "on"})
      [] f = "brightness" ->
            /\ p.command = "LIGHT_ATTRIBUTES_SET"
            /\ msg.brightness \in 0 .. 100 => p.brightness = msg.brightness
            /\ p.red = 0 /\ p.green = 0 /\ p.blue = 0 /\ p.yellow = 0 /\ p.white = 0
      [] f = "color" ->
            /\ p.command = "LIGHT_ATTRIBUTES_SET"
            /\ msg.color.r \in Bytes => p.red = msg.color.r
            /\ msg.color.g \in Bytes => p.green = msg.color.g
            /\ msg.color.b \in Bytes => p.blue = msg.color.b
            /\ p.brightness = 100 /\ p.yellow = 0 /\ p.white = 0
      [] f = "color_temp" ->
            /\ p.command = "LIGHT_ATTRIBUTES_SET"
            /\ p.yellow = 255 \/ p.white = 255
            /\ p.brightness = 100 /\ p.red = 0 /\ p.green = 0 /\ p.blue = 0

\* Members are looked at in order up to the first that throws, the topic before all.
Reached ==
    {i \in DOMAIN Members :
        msg.node # Broken /\ \A j \in 1 .. i : msg[Members[j]] # Broken}

\* When the function returns, each member up to the first that throws has its
\* packet, in the order of the code, and nothing comes after the error: no member
\* is lost, doubled or overtaken.  A member is one of the message as JsonCpp leaves
\* it: a payload that is logged as ignored ("Ignoring message") is processed, with
\* its last member null, and is served like any other.
UpToTheError ==
    at = "end" =>
        LET asked == {i \in Reached : Asks(Members[i])}
            place(i) == Cardinality({j \in asked : j <= i})
        IN  /\ Len(packets) = Cardinality(asked)
            /\ \A i \in asked : Serves(packets[place(i)], Members[i])

\* A warmer colour temperature (more mireds) is never answered with less yellow or
\* more white light, across both branches of the conversion and its clamps.
WarmerIsYellower ==
    /\ at = "end"
    /\ \A f \in DOMAIN msg : msg[f] # Broken
    /\ msg.color_temp \in Mireds /\ msg.color_temp > 0
    => \A t \in Mireds : t >= msg.color_temp =>
           \A k \in Kelvins(t) :
               /\ Last(packets).yellow <= Temperature(Clamped(k)).yellow
               /\ Last(packets).white >= Temperature(Clamped(k)).white
=============================================================================

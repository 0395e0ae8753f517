-------------------------- MODULE Mappings_proofs --------------------------
(***************************************************************************)
(* Proofs about Mappings, for all numbers that may occur in a message.     *)
(***************************************************************************)
EXTENDS Mappings, SequenceTheorems, FiniteSetTheorems, TLAPS
-----------------------------------------------------------------------------
(* Conversions.                                                             *)

\* Narrowing yields a byte, or a word, of any number.
LEMMA Narrowing ==
    ASSUME NEW x \in Int
    PROVE  Byte(x) \in Bytes /\ Word(x) \in Words
<1>. DEFINE b == x % 256
            w == x % 65536
<1>1. /\ b \in Int /\ 0 <= b /\ b <= 255
      /\ w \in Int /\ 0 <= w /\ w <= 65535
  OBVIOUS
<1>2. Byte(x) = b /\ Word(x) = w
  BY DEF Byte, Word
<1>. HIDE DEF b, w
<1>3. b \in Bytes
  BY <1>1 DEF Bytes
<1>4. w \in Words
  <2>. DEFINE top == 65535
  <2>1. top \in Int /\ w <= top
    BY <1>1
  <2>2. Words = 0 .. top
    BY SMT DEF Words, top
  <2>. HIDE DEF top
  <2>. QED BY <1>1, <2>1, <2>2
<1>. QED
  BY <1>2, <1>3, <1>4

\* A byte survives the conversion to a word.
LEMMA ByteIsWord ==
    ASSUME NEW x \in Bytes
    PROVE  Word(x) = x
<1>1. x \in Int /\ 0 <= x /\ x < 65536
  BY DEF Bytes
<1>. HIDE DEF Bytes
<1>2. x % 65536 = x
  BY <1>1
<1>. QED
  BY <1>2 DEF Word

LEMMA KelvinsAreInt ==
    ASSUME NEW t \in Int
    PROVE  Kelvins(t) \subseteq Int
<1>1. CASE t = 0
  BY <1>1 DEF Kelvins
<1>2. CASE t > 0
  BY <1>2 DEF Kelvins
<1>3. CASE t < 0
  BY <1>3 DEF Kelvins
<1>. QED
  BY <1>1, <1>2, <1>3

\* What the conversion divides is between 2700 and 6500 K.
LEMMA ClampedRange ==
    ASSUME NEW k \in Int
    PROVE  Clamped(k) \in Int /\ 2700 <= Clamped(k) /\ Clamped(k) <= 6500
BY DEF Clamped

\* The two quotients fit into a byte, which is why the code may cast them.
LEMMA TemperatureBytes ==
    ASSUME NEW k \in Int
    PROVE  /\ Temperature(Clamped(k)).yellow \in Bytes
           /\ Temperature(Clamped(k)).white \in Bytes
<1>. DEFINE c == Clamped(k)
<1>1. c \in Int /\ 2700 <= c /\ c <= 6500
  BY ClampedRange
<1>. HIDE DEF c
<1>2. CASE c > 4600
  <2>1. /\ ((6500 - c) * 255) \div 1900 \in Int
        /\ 0 <= ((6500 - c) * 255) \div 1900
        /\ ((6500 - c) * 255) \div 1900 <= 255
    BY <1>1, <1>2
  <2>2. Temperature(c) = [yellow |-> ((6500 - c) * 255) \div 1900, white |-> 255]
    BY <1>2 DEF Temperature
  <2>. QED
    BY <2>1, <2>2 DEF Bytes, c
<1>3. CASE ~(c > 4600)
  <2>1. /\ ((c - 2700) * 255) \div 1900 \in Int
        /\ 0 <= ((c - 2700) * 255) \div 1900
        /\ ((c - 2700) * 255) \div 1900 <= 255
    BY <1>1, <1>3
  <2>2. Temperature(c) = [yellow |-> 255, white |-> ((c - 2700) * 255) \div 1900]
    BY <1>3 DEF Temperature
  <2>. QED
    BY <2>1, <2>2 DEF Bytes, c
<1>. QED
  BY <1>2, <1>3

\* A quotient of 1e6 does not grow with its divisor.
LEMMA QuotientAntitone ==
    ASSUME NEW t \in Int, NEW u \in Int, 0 < t, t <= u
    PROVE  1000000 \div u <= 1000000 \div t
<1>. DEFINE a == 1000000 \div t
            b == 1000000 \div u
<1>1. a \in Int /\ a >= 0 /\ t * a <= 1000000 /\ 1000000 < t * (a + 1)
  OBVIOUS
<1>2. b \in Int /\ b >= 0 /\ u * b <= 1000000
  OBVIOUS
<1>. HIDE DEF a, b
<1>3. SUFFICES ASSUME a + 1 <= b PROVE FALSE
  BY <1>1, <1>2 DEF a, b
<1>4. t * (a + 1) <= t * b
  BY <1>1, <1>2, <1>3
<1>5. t * b <= u * b
  BY <1>1, <1>2
<1>. QED
  BY <1>1, <1>2, <1>4, <1>5

LEMMA ClampedMonotone ==
    ASSUME NEW k \in Int, NEW l \in Int, l <= k
    PROVE  Clamped(l) <= Clamped(k)
<1>1. CASE l < 2700
  <2>1. Clamped(l) = 2700
    BY <1>1 DEF Clamped
  <2>. QED
    BY <2>1, ClampedRange
<1>2. CASE k > 6500
  <2>1. Clamped(k) = 6500
    BY <1>2 DEF Clamped
  <2>. QED
    BY <2>1, ClampedRange
<1>3. CASE ~(l < 2700) /\ ~(k > 6500)
  <2>1. ~(k < 2700) /\ ~(l > 6500)
    BY <1>3
  <2>2. Clamped(k) = k
    BY <1>3, <2>1 DEF Clamped
  <2>3. Clamped(l) = l
    BY <1>3, <2>1 DEF Clamped
  <2>. QED
    BY <2>2, <2>3
<1>. QED
  BY <1>1, <1>2, <1>3

\* A warmer light is no less yellow and no more white.
LEMMA TemperatureMonotone ==
    ASSUME NEW k \in Int, NEW l \in Int, l <= k
    PROVE  /\ Temperature(Clamped(k)).yellow <= Temperature(Clamped(l)).yellow
           /\ Temperature(Clamped(k)).white >= Temperature(Clamped(l)).white
<1>. DEFINE c == Clamped(k)
            d == Clamped(l)
            cy == ((6500 - c) * 255) \div 1900
            dy == ((6500 - d) * 255) \div 1900
            cw == ((c - 2700) * 255) \div 1900
            dw == ((d - 2700) * 255) \div 1900
<1>1. /\ c \in Int /\ 2700 <= c /\ c <= 6500
      /\ d \in Int /\ 2700 <= d /\ d <= 6500
      /\ d <= c
  BY ClampedRange, ClampedMonotone
<1>. HIDE DEF c, d
<1>2. CASE d > 4600
  <2>1. c > 4600
    BY <1>1, <1>2
  <2>2. Temperature(c) = [yellow |-> cy, white |-> 255]
    BY <2>1 DEF Temperature
  <2>3. Temperature(d) = [yellow |-> dy, white |-> 255]
    BY <1>2 DEF Temperature
  <2>4. cy <= dy
    BY <1>1
  <2>. QED
    BY <2>2, <2>3, <2>4 DEF c, d
<1>3. CASE ~(d > 4600) /\ c > 4600
  <2>1. Temperature(c) = [yellow |-> cy, white |-> 255]
    BY <1>3 DEF Temperature
  <2>2. Temperature(d) = [yellow |-> 255, white |-> dw]
    BY <1>3 DEF Temperature
  <2>3. cy <= 255 /\ dw <= 255
    BY <1>1, <1>3
  <2>. QED
    BY <2>1, <2>2, <2>3 DEF c, d
<1>4. CASE ~(c > 4600)
  <2>1. ~(d > 4600)
    BY <1>1, <1>4
  <2>2. Temperature(c) = [yellow |-> 255, white |-> cw]
    BY <1>4 DEF Temperature
  <2>3. Temperature(d) = [yellow |-> 255, white |-> dw]
    BY <2>1 DEF Temperature
  <2>4. dw <= cw
    BY <1>1
  <2>. QED
    BY <2>2, <2>3, <2>4 DEF c, d
<1>. QED
  BY <1>2, <1>3, <1>4
-----------------------------------------------------------------------------
(* The inductive invariant.                                                 *)

Converts == \A f \in DOMAIN msg : msg[f] # Broken

\* Between the topic and the first member node_id is set; what has been pushed
\* addresses it.
Addressed ==
    /\ at \notin {"topic", "end"} => msg.node # Broken /\ node_id = Word(msg.node)
    /\ \A i \in DOMAIN packets :
          /\ msg.node # Broken
          /\ node_id = Word(msg.node)
          /\ packets[i].dest = node_id

\* The colour temperature is the last member to be answered.
TemperatureLast ==
    at = "end" /\ Converts /\ msg.color_temp \in Mireds =>
        /\ packets # << >>
        /\ \E k \in Kelvins(msg.color_temp) :
              /\ Last(packets).yellow = Temperature(Clamped(k)).yellow
              /\ Last(packets).white = Temperature(Clamped(k)).white

IInv == TypeOK /\ Addressed /\ TemperatureLast

LEMMA MessageMembers ==
    ASSUME TypeOK
    PROVE  /\ DOMAIN msg = {"node", "state", "brightness", "color", "color_temp"}
           /\ msg.node \in Int \cup {Broken}
           /\ msg.node # Broken => msg.node \in Int
           /\ msg.brightness \in Brightnesses \cup Odd
           /\ msg.color \in Colors \cup Odd
           /\ msg.color_temp \in Mireds \cup Odd
           /\ \A x \in Odd : x \notin Int /\ x \notin Colors
BY NumbersAssumption, OddAssumption DEF TypeOK, Messages

LEMMA InitIInv == Init => IInv
<1>. SUFFICES ASSUME Init PROVE IInv
  OBVIOUS
<1>1. TypeOK
  BY DEF Init, TypeOK, Words
<1>. QED
  BY <1>1 DEF Init, IInv, Addressed, TemperatureLast

\* A packet for node_id appended on the way to another member
LEMMA PushKeeps ==
    ASSUME IInv, NEW p \in Packets, NEW then \in {"brightness", "color", "color_temp", "end"},
           at \notin {"topic", "end"}, p.dest = node_id, Push(p, then),
           then = "end" /\ msg.color_temp \in Mireds =>
               \E k \in Kelvins(msg.color_temp) :
                  /\ p.yellow = Temperature(Clamped(k)).yellow
                  /\ p.white = Temperature(Clamped(k)).white
    PROVE  IInv'
<1>1. /\ packets \in Seq(Packets) /\ packets' = Append(packets, p)
      /\ at' = then /\ msg' = msg /\ node_id' = node_id
  BY DEF IInv, TypeOK, Push
<1>2. /\ packets' \in Seq(Packets) /\ Len(packets') = Len(packets) + 1
      /\ packets' # << >>
      /\ Last(packets') = p
      /\ \A i \in DOMAIN packets' : packets'[i] = p \/ (i \in DOMAIN packets /\ packets'[i] = packets[i])
  <2>1. /\ packets' \in Seq(Packets) /\ Len(packets') = Len(packets) + 1
        /\ \A i \in 1 .. Len(packets) : packets'[i] = packets[i]
        /\ packets'[Len(packets) + 1] = p
    <3>1. /\ Append(packets, p) \in Seq(Packets)
          /\ Len(Append(packets, p)) = Len(packets) + 1
          /\ \A i \in 1 .. Len(packets) : Append(packets, p)[i] = packets[i]
          /\ Append(packets, p)[Len(packets) + 1] = p
      BY <1>1, AppendProperties
    <3>. QED
      BY <1>1, <3>1, Zenon
  <2>2. packets' # << >>
    BY <1>1, <2>1
  <2>3. DOMAIN packets' = 1 .. Len(packets) + 1 /\ DOMAIN packets = 1 .. Len(packets)
    BY <1>1, <2>1
  <2>4. Len(packets) \in Nat
    BY <1>1
  <2>. QED
    <3>1. Last(packets') = p
      BY <2>1 DEF Last
    <3>2. ASSUME NEW i \in DOMAIN packets'
          PROVE  packets'[i] = p \/ (i \in DOMAIN packets /\ packets'[i] = packets[i])
      BY <2>1, <2>3, <2>4
    <3>. QED
      BY <2>1, <2>2, <3>1, <3>2
<1>3. TypeOK'
  BY <1>1, <1>2 DEF IInv, TypeOK
<1>4. Addressed'
  BY <1>1, <1>2 DEF IInv, Addressed
<1>5. TemperatureLast'
  BY <1>1, <1>2 DEF TemperatureLast
<1>. QED
  BY <1>3, <1>4, <1>5 DEF IInv

\* Nothing appended
LEMMA SkipKeeps ==
    ASSUME IInv, NEW then \in {"brightness", "color", "color_temp", "end"},
           Skip(then),
           then = "end" => ~Converts \/ msg.color_temp \notin Mireds,
           at # "end", at = "topic" => then = "end"
    PROVE  IInv'
<1>1. /\ packets' = packets
      /\ at' = then /\ msg' = msg /\ node_id' = node_id
  BY DEF Skip
<1>2. TypeOK'
  BY <1>1 DEF IInv, TypeOK
<1>3. Addressed'
  BY <1>1 DEF IInv, Addressed
<1>4. TemperatureLast'
  BY <1>1 DEF TemperatureLast, Converts
<1>. QED
  BY <1>2, <1>3, <1>4 DEF IInv

LEMMA TopicKeeps == IInv /\ Topic => IInv'
<1>. SUFFICES ASSUME IInv, Topic PROVE IInv'
  OBVIOUS
<1>1. at = "topic" /\ TypeOK /\ "node" \in DOMAIN msg
  BY MessageMembers DEF IInv, Topic
<1>2. CASE Throws(msg.node)
  <2>1. ~Converts
    BY <1>1, <1>2 DEF Throws, Converts
  <2>. QED
    BY <1>1, <1>2, <2>1, SkipKeeps DEF Throws
<1>3. CASE msg.node # Broken /\ node_id' = Word(msg.node) /\ at' = "state"
           /\ UNCHANGED <<msg, packets>>
  <2>1. node_id' \in Words
    BY <1>1, <1>3, MessageMembers, Narrowing
  <2>2. TypeOK'
    BY <1>1, <1>3, <2>1 DEF TypeOK
  <2>3. Addressed'
    BY <1>1, <1>3 DEF IInv, Addressed
  <2>4. TemperatureLast'
    BY <1>3 DEF TemperatureLast
  <2>. QED
    BY <2>2, <2>3, <2>4 DEF IInv
<1>. QED
  BY <1>2, <1>3 DEF Topic

\* An exception ends the function from any member.
LEMMA ThrowsKeeps ==
    ASSUME IInv, NEW f \in DOMAIN msg, Throws(msg[f]), at # "end"
    PROVE  IInv'
<1>1. ~Converts
  BY DEF Throws, Converts
<1>. QED
  BY <1>1, SkipKeeps DEF Throws

LEMMA StateKeeps == IInv /\ State => IInv'
<1>. SUFFICES ASSUME IInv, State PROVE IInv'
  OBVIOUS
<1>1. at = "state" /\ TypeOK /\ node_id \in Words /\ "state" \in DOMAIN msg
  BY MessageMembers DEF IInv, TypeOK, State
<1>2. CASE Throws(msg.state)
  BY <1>1, <1>2, ThrowsKeeps
<1>3. CASE Skip("brightness")
  BY <1>1, <1>3, SkipKeeps
<1>4. CASE Push(OnOff(msg.state \in {"ON", "on"}), "brightness")
  <2>. DEFINE p == OnOff(msg.state \in {"ON", "on"})
  <2>1. p \in Packets /\ p.dest = node_id
    BY <1>1 DEF OnOff, Packets, OnOffPackets
  <2>. HIDE DEF p
  <2>2. Push(p, "brightness")
    BY <1>4 DEF p
  <2>. QED
    BY <1>1, <2>1, <2>2, PushKeeps
<1>. QED
  BY <1>2, <1>3, <1>4 DEF State

LEMMA BrightnessKeeps == IInv /\ Brightness => IInv'
<1>. SUFFICES ASSUME IInv, Brightness PROVE IInv'
  OBVIOUS
<1>1. at = "brightness" /\ TypeOK /\ "brightness" \in DOMAIN msg
  BY MessageMembers DEF IInv, Brightness
<1>2. CASE Throws(msg.brightness)
  BY <1>1, <1>2, ThrowsKeeps
<1>3. CASE Skip("color")
  BY <1>1, <1>3, SkipKeeps
<1>4. CASE /\ msg.brightness \notin {Absent, Broken}
           /\ Push([Attributes EXCEPT !.brightness = Byte(AsInt(msg.brightness))], "color")
  <2>. DEFINE b == Byte(AsInt(msg.brightness))
              p == [Attributes EXCEPT !.brightness = b]
  <2>1. AsInt(msg.brightness) \in Int
    BY <1>1, <1>4, MessageMembers, NumbersAssumption DEF AsInt, Odd
  <2>2. b \in Bytes /\ 0 \in Bytes
    BY <2>1, Narrowing DEF Bytes
  <2>. HIDE DEF b
  <2>3. p \in Packets /\ p.dest = node_id
    BY <1>1, <2>2 DEF TypeOK, Attributes, Packets, AttributePackets, Bytes
  <2>4. Push(p, "color")
    BY <1>4 DEF b
  <2>. HIDE DEF p
  <2>. QED
    BY <1>1, <2>3, <2>4, PushKeeps
<1>. QED
  BY <1>2, <1>3, <1>4 DEF Brightness

LEMMA ColorKeeps == IInv /\ Color => IInv'
<1>. SUFFICES ASSUME IInv, Color PROVE IInv'
  OBVIOUS
<1>1. at = "color" /\ TypeOK /\ "color" \in DOMAIN msg
  BY MessageMembers DEF IInv, Color
<1>2. CASE Throws(msg.color)
  BY <1>1, <1>2, ThrowsKeeps
<1>3. CASE Skip("color_temp")
  BY <1>1, <1>3, SkipKeeps
<1>4. CASE /\ msg.color \notin Odd
           /\ Push([Attributes EXCEPT !.red = Byte(msg.color.r),
                                      !.green = Byte(msg.color.g),
                                      !.blue = Byte(msg.color.b),
                                      !.brightness = 100], "color_temp")
  <2>. DEFINE r == Byte(msg.color.r)
              g == Byte(msg.color.g)
              bl == Byte(msg.color.b)
              p == [Attributes EXCEPT !.red = r, !.green = g, !.blue = bl, !.brightness = 100]
  <2>1. msg.color.r \in Int /\ msg.color.g \in Int /\ msg.color.b \in Int
    BY <1>1, <1>4, MessageMembers, NumbersAssumption DEF Colors
  <2>2. r \in Bytes /\ g \in Bytes /\ bl \in Bytes /\ 100 \in Bytes /\ 0 \in Bytes
    BY <2>1, Narrowing DEF Bytes
  <2>. HIDE DEF r, g, bl
  <2>3. p \in Packets /\ p.dest = node_id
    BY <1>1, <2>2 DEF TypeOK, Attributes, Packets, AttributePackets, Bytes
  <2>4. Push(p, "color_temp")
    BY <1>4 DEF r, g, bl
  <2>. HIDE DEF p
  <2>. QED
    BY <1>1, <2>3, <2>4, PushKeeps
<1>. QED
  BY <1>2, <1>3, <1>4 DEF Color

\* White light of some colour is a packet for node_id.
LEMMA LightIsPacket ==
    ASSUME TypeOK, NEW y \in Bytes, NEW w \in Bytes
    PROVE  LET p == [Attributes EXCEPT !.brightness = 100, !.yellow = y, !.white = w]
           IN  p \in Packets /\ p.dest = node_id /\ p.yellow = y /\ p.white = w
<1>. DEFINE p == [Attributes EXCEPT !.brightness = 100, !.yellow = y, !.white = w]
<1>1. p \in AttributePackets
  <2>1. node_id \in Words /\ 0 \in Bytes /\ 100 \in Bytes
    BY DEF TypeOK, Bytes
  <2>2. Attributes \in AttributePackets
    BY <2>1 DEF Attributes, AttributePackets
  <2>. QED
    BY <2>1, <2>2 DEF AttributePackets
<1>2. p.dest = node_id /\ p.yellow = y /\ p.white = w
  BY DEF Attributes
<1>. QED
  BY <1>1, <1>2 DEF Packets

LEMMA ColorTempKeeps == IInv /\ ColorTemp => IInv'
<1>. SUFFICES ASSUME IInv, ColorTemp PROVE IInv'
  OBVIOUS
<1>1. at = "color_temp" /\ TypeOK /\ "color_temp" \in DOMAIN msg
  BY MessageMembers DEF IInv, ColorTemp
<1>2. CASE Throws(msg.color_temp)
  BY <1>1, <1>2, ThrowsKeeps
<1>3. CASE msg.color_temp = Absent /\ Skip("end")
  <2>1. msg.color_temp \notin Mireds
    BY <1>1, <1>3, MessageMembers, NumbersAssumption DEF Odd
  <2>. QED
    BY <1>1, <1>3, <2>1, SkipKeeps
<1>4. ASSUME msg.color_temp \notin {Absent, Broken},
             NEW k \in Kelvins(AsInt(msg.color_temp)),
             LET t == Temperature(Clamped(k))
             IN  Push([Attributes EXCEPT !.brightness = 100,
                                         !.yellow = t.yellow,
                                         !.white = t.white], "end")
      PROVE  IInv'
  <2>. DEFINE y == Temperature(Clamped(k)).yellow
              w == Temperature(Clamped(k)).white
              p == [Attributes EXCEPT !.brightness = 100, !.yellow = y, !.white = w]
  <2>1. AsInt(msg.color_temp) \in Int
    BY <1>1, <1>4, MessageMembers, NumbersAssumption DEF AsInt, Odd
  <2>2. k \in Int
    BY <2>1, KelvinsAreInt
  <2>3. y \in Bytes /\ w \in Bytes /\ 100 \in Bytes
    BY <2>2, TemperatureBytes DEF Bytes
  <2>4. msg.color_temp \in Mireds =>
           \E l \in Kelvins(msg.color_temp) :
              /\ y = Temperature(Clamped(l)).yellow
              /\ w = Temperature(Clamped(l)).white
    <3>1. msg.color_temp \in Mireds => AsInt(msg.color_temp) = msg.color_temp
      BY <1>1, MessageMembers, NumbersAssumption DEF AsInt, Odd
    <3>. QED
      BY <3>1
  <2>. HIDE DEF y, w
  <2>5. p \in Packets /\ p.dest = node_id /\ p.yellow = y /\ p.white = w
    BY <1>1, <2>3, LightIsPacket
  <2>6. Push(p, "end")
    BY <1>4 DEF y, w
  <2>. HIDE DEF p
  <2>. QED
    BY <1>1, <2>4, <2>5, <2>6, PushKeeps
<1>. QED
  BY <1>2, <1>3, <1>4 DEF ColorTemp

LEMMA NextIInv == IInv /\ [Next]_vars => IInv'
<1>. SUFFICES ASSUME IInv, [Next]_vars PROVE IInv'
  OBVIOUS
<1>1. CASE Returned \/ UNCHANGED vars
  BY <1>1 DEF Returned, vars, IInv, TypeOK, Addressed, TemperatureLast, Converts
<1>. QED
  BY <1>1, TopicKeeps, StateKeeps, BrightnessKeeps, ColorKeeps, ColorTempKeeps DEF Next
-----------------------------------------------------------------------------
(* Theorems.                                                                *)

\* The inductive invariant holds.
THEOREM Invariance == Spec => []IInv
<1>1. Init => IInv
  BY InitIInv
<1>2. IInv /\ [Next]_vars => IInv'
  BY NextIInv
<1>. QED
  BY <1>1, <1>2, PTL DEF Spec

\* Whatever numbers a message brings, what is sent are well-formed packets: the
\* conversions yield bytes and words.
THEOREM TypeCorrect == Spec => []TypeOK
<1>1. IInv => TypeOK
  BY DEF IInv
<1>. QED
  BY <1>1, Invariance, PTL

\* Each packet addresses the light of the topic.
THEOREM AlwaysRightLight == Spec => []RightLight
<1>1. IInv => RightLight
  <2>. SUFFICES ASSUME IInv, NEW i \in DOMAIN packets
                PROVE  /\ msg.node # Broken
                       /\ packets[i].dest = Word(msg.node)
                       /\ msg.node \in Bytes => packets[i].dest = msg.node
    BY DEF RightLight
  <2>1. msg.node # Broken /\ packets[i].dest = Word(msg.node)
    BY DEF IInv, Addressed
  <2>2. msg.node \in Bytes => Word(msg.node) = msg.node
    BY ByteIsWord
  <2>. QED
    BY <2>1, <2>2
<1>. QED
  BY <1>1, Invariance, PTL

\* The light gets warmer with the colour temperature asked for, over all mireds.
THEOREM AlwaysWarmerIsYellower == Spec => []WarmerIsYellower
<1>1. IInv => WarmerIsYellower
  <2>. SUFFICES ASSUME IInv, at = "end", \A f \in DOMAIN msg : msg[f] # Broken,
                       msg.color_temp \in Mireds, msg.color_temp > 0,
                       NEW t \in Mireds, t >= msg.color_temp,
                       NEW k \in Kelvins(t)
                PROVE  /\ Last(packets).yellow <= Temperature(Clamped(k)).yellow
                       /\ Last(packets).white >= Temperature(Clamped(k)).white
    BY DEF WarmerIsYellower
  <2>1. PICK l \in Kelvins(msg.color_temp) :
           /\ Last(packets).yellow = Temperature(Clamped(l)).yellow
           /\ Last(packets).white = Temperature(Clamped(l)).white
    BY DEF IInv, TemperatureLast, Converts
  <2>2. msg.color_temp \in Int /\ t \in Int /\ t > 0
    <3>1. msg.color_temp \in Int /\ t \in Int
      BY NumbersAssumption
    <3>. QED
      BY <3>1
  <2>3. l = 1000000 \div msg.color_temp /\ k = 1000000 \div t
    BY <2>2 DEF Kelvins
  <2>4. l \in Int /\ k \in Int /\ k <= l
    BY <2>2, <2>3, QuotientAntitone, KelvinsAreInt
  <2>. QED
    BY <2>1, <2>4, TemperatureMonotone
<1>. QED
  BY <1>1, Invariance, PTL
-----------------------------------------------------------------------------
(* One packet for each member that asks for one.                            *)

\* The members before the k-th that ask for a packet
AskedBefore(k) == {i \in 1 .. k - 1 : Asks(Members[i])}

\* Up to the k-th member everything has been answered, and nothing has thrown.
Upto(k) ==
    /\ msg.node # Broken
    /\ \A j \in 1 .. k - 1 : msg[Members[j]] # Broken
    /\ Len(packets) = Cardinality(AskedBefore(k))
    /\ \A i \in AskedBefore(k) :
          Serves(packets[Cardinality(AskedBefore(i + 1))], Members[i])

\* Where the function has got to, or has been thrown out
Progress ==
    /\ at = "topic" => packets = << >>
    /\ \A k \in 1 .. 4 : at = Members[k] => Upto(k)
    /\ at = "end" =>
          \/ msg.node = Broken /\ packets = << >>
          \/ Upto(5)
          \/ \E k \in 1 .. 4 : Upto(k) /\ msg[Members[k]] = Broken

LEMMA MemberNames ==
    /\ DOMAIN Members = 1 .. 4
    /\ Members[1] = "state" /\ Members[2] = "brightness"
    /\ Members[3] = "color" /\ Members[4] = "color_temp"
BY DEF Members

LEMMA AskedFinite ==
    ASSUME NEW k \in 1 .. 5
    PROVE  IsFiniteSet(AskedBefore(k)) /\ Cardinality(AskedBefore(k)) \in Nat
<1>1. IsFiniteSet(1 .. k - 1)
  BY FS_Interval
<1>2. AskedBefore(k) \in SUBSET (1 .. k - 1)
  BY DEF AskedBefore
<1>. QED BY <1>1, <1>2, FS_Subset, FS_CardinalityType

LEMMA AskedNext ==
    ASSUME NEW k \in 1 .. 4
    PROVE  /\ ~Asks(Members[k]) => AskedBefore(k + 1) = AskedBefore(k)
           /\ Asks(Members[k]) =>
                 /\ AskedBefore(k + 1) = AskedBefore(k) \cup {k}
                 /\ Cardinality(AskedBefore(k + 1)) = Cardinality(AskedBefore(k)) + 1
<1>1. 1 .. (k + 1) - 1 = (1 .. k - 1) \cup {k} /\ k \notin 1 .. k - 1
  OBVIOUS
<1>2. ~Asks(Members[k]) => AskedBefore(k + 1) = AskedBefore(k)
  BY <1>1 DEF AskedBefore
<1>3. Asks(Members[k]) => AskedBefore(k + 1) = AskedBefore(k) \cup {k}
  BY <1>1 DEF AskedBefore
<1>4. k \notin AskedBefore(k)
  BY <1>1 DEF AskedBefore
<1>5. Asks(Members[k]) => Cardinality(AskedBefore(k + 1)) = Cardinality(AskedBefore(k)) + 1
  BY <1>3, <1>4, AskedFinite, FS_AddElement
<1>. QED BY <1>2, <1>3, <1>5

\* The place of a packet is among those there are.
LEMMA PlaceInRange ==
    ASSUME NEW k \in 1 .. 5, NEW i \in AskedBefore(k)
    PROVE  /\ i \in 1 .. 4 /\ Cardinality(AskedBefore(i + 1)) \in Nat
           /\ 1 <= Cardinality(AskedBefore(i + 1))
           /\ Cardinality(AskedBefore(i + 1)) <= Cardinality(AskedBefore(k))
<1>1. i \in 1 .. 4 /\ i + 1 \in 1 .. 5 /\ i < k /\ Asks(Members[i])
  BY DEF AskedBefore
<1>2. AskedBefore(i + 1) \in SUBSET AskedBefore(k)
  BY <1>1 DEF AskedBefore
<1>3. Cardinality(AskedBefore(i + 1)) <= Cardinality(AskedBefore(k))
  BY <1>2, AskedFinite, FS_Subset
<1>4. Cardinality(AskedBefore(i + 1)) = Cardinality(AskedBefore(i)) + 1
  BY <1>1, AskedNext
<1>5. Cardinality(AskedBefore(i)) \in Nat /\ Cardinality(AskedBefore(i + 1)) \in Nat
  BY <1>1, AskedFinite
<1>. QED BY <1>1, <1>3, <1>4, <1>5

\* A packet that has been pushed, or not, does not touch those before.
LEMMA UptoNext ==
    ASSUME TypeOK, NEW k \in 1 .. 4, Upto(k), msg[Members[k]] # Broken,
           msg' = msg, node_id' = node_id,
           \/ ~Asks(Members[k]) /\ packets' = packets
           \/ /\ Asks(Members[k])
              /\ \E p : packets' = Append(packets, p) /\ Serves(p, Members[k])
    PROVE  Upto(k + 1)'
<1>1. /\ msg'.node # Broken
      /\ \A j \in 1 .. k : msg'[Members[j]] # Broken
  <2>1. \A j \in 1 .. k : j \in 1 .. k - 1 \/ j = k
    OBVIOUS
  <2>2. /\ msg.node # Broken
        /\ \A j \in 1 .. k - 1 : msg[Members[j]] # Broken
    BY DEF Upto
  <2>. QED BY <2>1, <2>2
<1>2. ASSUME NEW n \in 1 .. 5 PROVE AskedBefore(n)' = AskedBefore(n)
  BY DEF AskedBefore, Asks
<1>3. ASSUME NEW p, NEW i \in 1 .. 4
      PROVE  Serves(p, Members[i])' <=> Serves(p, Members[i])
  BY DEF Serves, OnOff
<1>. DEFINE C(n) == Cardinality(AskedBefore(n))
<1>4. packets \in Seq(Packets) /\ Len(packets) = C(k)
      /\ \A i \in AskedBefore(k) : Serves(packets[C(i + 1)], Members[i])
  BY DEF Upto, TypeOK
<1>5. /\ \A i \in 1 .. Len(packets) : packets'[i] = packets[i]
      /\ Len(packets') = C(k + 1)
      /\ Asks(Members[k]) => Serves(packets'[C(k + 1)], Members[k])
  <2>1. CASE ~Asks(Members[k]) /\ packets' = packets
    <3>1. C(k + 1) = C(k)
      BY <2>1, AskedNext
    <3>. HIDE DEF C
    <3>. QED BY <2>1, <1>4, <3>1
  <2>2. ASSUME Asks(Members[k]), NEW p, packets' = Append(packets, p),
               Serves(p, Members[k])
        PROVE  /\ \A i \in 1 .. Len(packets) : packets'[i] = packets[i]
               /\ Len(packets') = C(k + 1)
               /\ Asks(Members[k]) => Serves(packets'[C(k + 1)], Members[k])
    <3>1. C(k + 1) = C(k) + 1
      BY <2>2, AskedNext
    <3>2. /\ Len(Append(packets, p)) = Len(packets) + 1
          /\ \A i \in 1 .. Len(packets) : Append(packets, p)[i] = packets[i]
          /\ Append(packets, p)[Len(packets) + 1] = p
      <4>. DEFINE S == Packets \cup {p}
      <4>1. packets \in Seq(S) /\ p \in S
        BY <1>4, SeqMonotonic
      <4>. HIDE DEF S
      <4>. QED BY <4>1, AppendProperties
    <3>. HIDE DEF C
    <3>3. packets'[C(k + 1)] = p
      BY <2>2, <1>4, <3>1, <3>2
    <3>. QED BY <2>2, <1>4, <3>1, <3>2, <3>3
  <2>. QED BY <2>1, <2>2
<1>6. ASSUME NEW i \in AskedBefore(k + 1)
      PROVE  Serves(packets'[C(i + 1)], Members[i])
  <2>1. i \in AskedBefore(k) \/ (i = k /\ Asks(Members[k]))
    BY AskedNext DEF AskedBefore
  <2>2. CASE i \in AskedBefore(k)
    <3>1. C(i + 1) \in 1 .. Len(packets)
      BY <2>2, <1>4, PlaceInRange, AskedFinite
    <3>. HIDE DEF C
    <3>2. packets'[C(i + 1)] = packets[C(i + 1)]
      BY <1>5, <3>1
    <3>. QED BY <2>2, <1>4, <3>2
  <2>3. CASE i = k /\ Asks(Members[k])
    BY <2>3, <1>5
  <2>. QED BY <2>1, <2>2, <2>3
<1>7. (k + 1) - 1 = k /\ k + 1 \in 1 .. 5
  OBVIOUS
<1>8. Len(packets') = Cardinality(AskedBefore(k + 1)')
  BY <1>2, <1>5, <1>7
<1>9. ASSUME NEW i \in AskedBefore(k + 1)'
      PROVE  Serves(packets[Cardinality(AskedBefore(i + 1))], Members[i])'
  <2>1. i \in AskedBefore(k + 1) /\ i \in 1 .. 4 /\ i + 1 \in 1 .. 5
    BY <1>2, <1>7, PlaceInRange
  <2>2. Cardinality(AskedBefore(i + 1)') = C(i + 1)
    BY <1>2, <2>1
  <2>3. Serves(packets'[C(i + 1)], Members[i])
    BY <1>6, <2>1
  <2>4. PICK q : q = packets'[C(i + 1)]
    OBVIOUS
  <2>5. Serves(q, Members[i])'
    BY <1>3, <2>1, <2>3, <2>4
  <2>6. q = packets'[Cardinality(AskedBefore(i + 1)')]
    BY <2>2, <2>4
  <2>. HIDE DEF C
  <2>. QED BY <2>5, <2>6 DEF Serves
<1>. QED BY <1>1, <1>7, <1>8, <1>9 DEF Upto

\* Nor does a step that only moves on.
LEMMA UptoStays ==
    ASSUME NEW k \in 1 .. 5, Upto(k), msg' = msg, node_id' = node_id, packets' = packets
    PROVE  Upto(k)'
<1>1. ASSUME NEW n \in 1 .. 5 PROVE AskedBefore(n)' = AskedBefore(n)
  BY DEF AskedBefore, Asks
<1>2. ASSUME NEW p, NEW i \in 1 .. 4
      PROVE  Serves(p, Members[i])' <=> Serves(p, Members[i])
  BY DEF Serves, OnOff
<1>3. /\ msg'.node # Broken
      /\ \A j \in 1 .. k - 1 : msg'[Members[j]] # Broken
      /\ Len(packets') = Cardinality(AskedBefore(k)')
  BY <1>1 DEF Upto
<1>4. ASSUME NEW i \in AskedBefore(k)'
      PROVE  Serves(packets[Cardinality(AskedBefore(i + 1))], Members[i])'
  <2>1. i \in AskedBefore(k) /\ i \in 1 .. 4 /\ i + 1 \in 1 .. 5
    BY <1>1, PlaceInRange
  <2>2. PICK q : q = packets[Cardinality(AskedBefore(i + 1))]
    OBVIOUS
  <2>3. Serves(q, Members[i])'
    BY <1>2, <2>1, <2>2 DEF Upto
  <2>4. q = packets'[Cardinality(AskedBefore(i + 1)')]
    BY <1>1, <2>1, <2>2
  <2>. QED BY <2>3, <2>4 DEF Serves
<1>. QED BY <1>3, <1>4 DEF Upto

\* The steps of a member: it throws, is passed over or gets its packet.
LEMMA MemberProgress ==
    ASSUME TypeOK, Progress, NEW k \in 1 .. 4, at = Members[k],
           NEW then, then = IF k = 4 THEN "end" ELSE Members[k + 1],
           \/ Throws(msg[Members[k]])
           \/ msg[Members[k]] # Broken /\ ~Asks(Members[k]) /\ Skip(then)
           \/ /\ msg[Members[k]] # Broken /\ Asks(Members[k])
              /\ \E p : Serves(p, Members[k]) /\ Push(p, then)
    PROVE  Progress'
<1>1. Upto(k)
  BY DEF Progress
<1>2. CASE Throws(msg[Members[k]])
  <2>1. msg' = msg /\ node_id' = node_id /\ packets' = packets /\ at' = "end"
        /\ msg[Members[k]] = Broken
    BY <1>2 DEF Throws, Skip
  <2>2. Upto(k)'
    BY <1>1, <2>1, UptoStays
  <2>. QED BY <2>1, <2>2, MemberNames DEF Progress
<1>3. CASE msg[Members[k]] # Broken /\ ~Throws(msg[Members[k]])
  <2>1. msg' = msg /\ node_id' = node_id /\ at' = then
    BY <1>3 DEF Skip, Push
  <2>2. Upto(k + 1)'
    <3>1. \/ ~Asks(Members[k]) /\ packets' = packets
          \/ Asks(Members[k]) /\ \E p : packets' = Append(packets, p) /\ Serves(p, Members[k])
      BY <1>3 DEF Skip, Push
    <3>. QED BY <1>1, <1>3, <2>1, <3>1, UptoNext
  <2>3. ASSUME NEW j \in 1 .. 4, at' = Members[j] PROVE j = k + 1
    BY <2>1, <2>3, MemberNames
  <2>4. at' = "end" => k + 1 = 5
    BY <2>1, MemberNames
  <2>5. at' # "topic"
    BY <2>1, MemberNames
  <2>. QED BY <2>2, <2>3, <2>4, <2>5 DEF Progress
<1>. QED BY <1>2, <1>3 DEF Throws

LEMMA TopicProgress ==
    ASSUME Progress, Topic
    PROVE  Progress'
<1>1. at = "topic" /\ packets = << >>
  BY DEF Topic, Progress
<1>2. CASE Throws(msg.node)
  BY <1>1, <1>2, MemberNames DEF Throws, Skip, Progress
<1>3. CASE msg.node # Broken /\ at' = "state" /\ UNCHANGED <<msg, packets>>
  <2>1. AskedBefore(1)' = {}
    BY DEF AskedBefore
  <2>2. Upto(1)'
    BY <1>1, <1>3, <2>1, FS_EmptySet DEF Upto
  <2>. QED BY <1>3, <2>2, MemberNames DEF Progress
<1>. QED BY <1>2, <1>3 DEF Topic

LEMMA StateProgress ==
    ASSUME TypeOK, Progress, State
    PROVE  Progress'
<1>. DEFINE p == OnOff(msg.state \in {"ON", "on"})
<1>1. at = Members[1] /\ Members[2] = "brightness" /\ Members[1] = "state"
  BY MemberNames DEF State
<1>2. Asks("state") <=> msg.state # Absent
  BY DEF Asks
<1>3. Serves(p, "state")
  BY DEF Serves
<1>4. \/ Throws(msg.state)
      \/ msg.state = Absent /\ Skip("brightness")
      \/ msg.state \notin {Absent, Broken} /\ Push(p, "brightness")
  BY DEF State
<1>. HIDE DEF p
<1>. QED BY <1>1, <1>2, <1>3, <1>4, OddDistinct, MemberProgress

LEMMA BrightnessProgress ==
    ASSUME TypeOK, Progress, Brightness
    PROVE  Progress'
<1>. DEFINE p == [Attributes EXCEPT !.brightness = Byte(AsInt(msg.brightness))]
<1>1. at = Members[2] /\ Members[3] = "color" /\ Members[2] = "brightness"
  BY MemberNames DEF Brightness
<1>2. Asks("brightness") <=> msg.brightness # Absent
  BY DEF Asks
<1>3. Serves(p, "brightness")
  <2>1. /\ p.command = "LIGHT_ATTRIBUTES_SET" /\ p.brightness = Byte(AsInt(msg.brightness))
        /\ p.red = 0 /\ p.green = 0 /\ p.blue = 0 /\ p.yellow = 0 /\ p.white = 0
    BY DEF Attributes
  <2>2. ASSUME NEW b \in 0 .. 100 PROVE Byte(AsInt(b)) = b
    <3>1. AsInt(b) = b
      BY OddAssumption DEF Odd, AsInt
    <3>2. b % 256 = b
      OBVIOUS
    <3>. QED BY <3>1, <3>2 DEF Byte
  <2>. HIDE DEF p
  <2>. QED BY <2>1, <2>2 DEF Serves
<1>4. \/ Throws(msg.brightness)
      \/ msg.brightness = Absent /\ Skip("color")
      \/ msg.brightness \notin {Absent, Broken} /\ Push(p, "color")
  BY DEF Brightness
<1>. HIDE DEF p
<1>. QED BY <1>1, <1>2, <1>3, <1>4, OddDistinct, MemberProgress

LEMMA ColorProgress ==
    ASSUME TypeOK, Progress, Color
    PROVE  Progress'
<1>. DEFINE p == [Attributes EXCEPT !.red = Byte(msg.color.r),
                                    !.green = Byte(msg.color.g),
                                    !.blue = Byte(msg.color.b),
                                    !.brightness = 100]
<1>1. at = Members[3] /\ Members[4] = "color_temp" /\ Members[3] = "color"
  BY MemberNames DEF Color
<1>2. Asks("color") <=> msg.color # Absent /\ msg.color # Null
  BY DEF Asks
<1>3. Serves(p, "color")
  <2>1. /\ p.command = "LIGHT_ATTRIBUTES_SET"
        /\ p.red = Byte(msg.color.r) /\ p.green = Byte(msg.color.g) /\ p.blue = Byte(msg.color.b)
        /\ p.brightness = 100 /\ p.yellow = 0 /\ p.white = 0
    BY DEF Attributes
  <2>2. ASSUME NEW b \in Bytes PROVE Byte(b) = b
    <3>1. b \in Int /\ 0 <= b /\ b < 256
      BY DEF Bytes
    <3>2. b % 256 = b
      BY <3>1
    <3>. QED BY <3>2 DEF Byte
  <2>. HIDE DEF p
  <2>. QED BY <2>1, <2>2 DEF Serves
<1>4. \/ Throws(msg.color)
      \/ msg.color \in {Absent, Null} /\ Skip("color_temp")
      \/ msg.color \notin Odd /\ Push(p, "color_temp")
  BY DEF Color
<1>. HIDE DEF p
<1>. QED BY <1>1, <1>2, <1>3, <1>4, OddDistinct, MemberProgress DEF Odd

LEMMA ColorTempProgress ==
    ASSUME TypeOK, Progress, ColorTemp
    PROVE  Progress'
<1>1. at = Members[4] /\ Members[4] = "color_temp"
  BY MemberNames DEF ColorTemp
<1>2. Asks("color_temp") <=> msg.color_temp # Absent
  BY DEF Asks
<1>3. ASSUME NEW k
      PROVE  Serves([Attributes EXCEPT !.brightness = 100,
                                       !.yellow = Temperature(k).yellow,
                                       !.white = Temperature(k).white], "color_temp")
  <2>. DEFINE t == Temperature(k)
              p == [Attributes EXCEPT !.brightness = 100, !.yellow = t.yellow, !.white = t.white]
  <2>1. t.yellow = 255 \/ t.white = 255
    BY DEF Temperature
  <2>. HIDE DEF t
  <2>2. /\ p.command = "LIGHT_ATTRIBUTES_SET" /\ p.yellow = t.yellow /\ p.white = t.white
        /\ p.brightness = 100 /\ p.red = 0 /\ p.green = 0 /\ p.blue = 0
    BY DEF Attributes
  <2>. HIDE DEF p
  <2>3. Serves(p, "color_temp")
    BY <2>1, <2>2 DEF Serves
  <2>. QED BY <2>3 DEF p, t
<1>4. \/ Throws(msg.color_temp)
      \/ msg.color_temp = Absent /\ Skip("end")
      \/ /\ msg.color_temp \notin {Absent, Broken}
         /\ \E p : Serves(p, "color_temp") /\ Push(p, "end")
  BY <1>3 DEF ColorTemp
<1>. QED BY <1>1, <1>2, <1>4, OddDistinct, MemberProgress

LEMMA NextProgress ==
    ASSUME TypeOK, Progress, [Next]_vars
    PROVE  Progress'
<1>1. CASE Returned \/ UNCHANGED vars
  <2>1. at' = at /\ msg' = msg /\ node_id' = node_id /\ packets' = packets
    BY <1>1 DEF Returned, vars
  <2>2. \A k \in 1 .. 5 : Upto(k) => Upto(k)'
    BY <2>1, UptoStays
  <2>. QED BY <2>1, <2>2 DEF Progress
<1>. QED
  BY <1>1, TopicProgress, StateProgress, BrightnessProgress, ColorProgress, ColorTempProgress
  DEF Next

LEMMA AlwaysProgress == Spec => []Progress
<1>1. Init => Progress
  BY MemberNames DEF Init, Progress
<1>2. TypeOK /\ Progress /\ [Next]_vars => Progress'
  BY NextProgress
<1>. QED BY <1>1, <1>2, TypeCorrect, PTL DEF Spec

LEMMA ProgressEnds ==
    ASSUME Progress
    PROVE  UpToTheError
<1>. SUFFICES ASSUME at = "end"
     PROVE  LET asked == {i \in Reached : Asks(Members[i])}
                place(i) == Cardinality({j \in asked : j <= i})
            IN  /\ Len(packets) = Cardinality(asked)
                /\ \A i \in asked : Serves(packets[place(i)], Members[i])
  BY DEF UpToTheError
<1>. DEFINE asked == {i \in Reached : Asks(Members[i])}
<1>1. CASE msg.node = Broken /\ packets = << >>
  <2>1. asked = {}
    BY <1>1 DEF Reached
  <2>. HIDE DEF asked
  <2>2. Len(packets) = Cardinality(asked)
    BY <1>1, <2>1, FS_EmptySet
  <2>. QED BY <2>1, <2>2 DEF asked
<1>2. ASSUME NEW k \in 1 .. 5, Upto(k), k # 5 => msg[Members[k]] = Broken
      PROVE  /\ Len(packets) = Cardinality(asked)
             /\ \A i \in asked : Serves(packets[Cardinality({j \in asked : j <= i})], Members[i])
  <2>1. Reached = 1 .. k - 1
    <3>1. \A i \in 1 .. k - 1 : i \in 1 .. 4 /\ \A j \in 1 .. i : j \in 1 .. k - 1
      OBVIOUS
    <3>2. 1 .. k - 1 \subseteq Reached
      BY <1>2, <3>1, MemberNames DEF Reached, Upto
    <3>3. ASSUME NEW i \in Reached, ~(i <= k - 1) PROVE FALSE
      <4>1. i \in 1 .. 4
        BY MemberNames DEF Reached
      <4>2. k \in 1 .. i /\ k # 5
        BY <3>3, <4>1
      <4>. QED BY <1>2, <4>2 DEF Reached
    <3>4. Reached \subseteq 1 .. k - 1
      BY <3>3, MemberNames DEF Reached
    <3>. QED BY <3>2, <3>4
  <2>2. asked = AskedBefore(k)
    BY <2>1 DEF AskedBefore
  <2>. HIDE DEF asked
  <2>3. ASSUME NEW i \in asked PROVE {j \in asked : j <= i} = AskedBefore(i + 1)
    BY <2>2, <2>3 DEF AskedBefore
  <2>. QED BY <1>2, <2>2, <2>3 DEF Upto
<1>3. \/ msg.node = Broken /\ packets = << >>
      \/ \E k \in 1 .. 5 : Upto(k) /\ (k # 5 => msg[Members[k]] = Broken)
  BY DEF Progress
<1>. QED BY <1>1, <1>2, <1>3

\* For every message: each member up to the first that throws has its packet, in
\* the order of the code, and there is no other.
THEOREM AlwaysUpToTheError == Spec => []UpToTheError
<1>1. Progress => UpToTheError
  BY ProgressEnds
<1>. QED BY <1>1, AlwaysProgress, PTL
=============================================================================

--------------------------- MODULE Frames_proofs ---------------------------
(***************************************************************************)
(* What Frames makes of a frame that is encrypted at one end and decrypted *)
(* at the other, for all keys, addresses and contents.                     *)
(***************************************************************************)
EXTENDS Frames, SequenceTheorems, TLAPS

\* The frames before encryption
Plain(f) == f = [i \in Positions |-> Clear(f[i].value)]
-----------------------------------------------------------------------------
(* Masks.                                                                   *)

\* A mask only goes away with the byte it came with.
LEMMA Unmask ==
    ASSUME NEW x, NEW y
    PROVE  SymDiff({x}, {y}) = {} <=> x = y
BY DEF SymDiff

\* What Xor leaves alone
LEMMA XorBelow ==
    ASSUME NEW f, NEW first, NEW sk, NEW iv, NEW i \in Positions, i < first
    PROVE  Xor(f, first, sk, iv)[i] = f[i]
BY DEF Xor

\* ... and what it does to a byte in the clear
LEMMA XorByte ==
    ASSUME NEW f, NEW first, NEW sk, NEW iv,
           NEW i \in Positions, ~(i < first), NEW v, f[i] = Clear(v)
    PROVE  Xor(f, first, sk, iv)[i] = [value |-> v, masks |-> {<<sk, iv, i - first>>}]
<1>1. SymDiff({}, {<<sk, iv, i - first>>}) = {<<sk, iv, i - first>>}
  BY DEF SymDiff
<1>2. [f[i] EXCEPT !.masks = SymDiff(@, {<<sk, iv, i - first>>})] =
        [value |-> v, masks |-> {<<sk, iv, i - first>>}]
  BY <1>1 DEF Clear
<1>. QED BY <1>2 DEF Xor

\* XOR twice with the same key and IV gives the byte back, ...
LEMMA XorTwice ==
    ASSUME NEW f, NEW first, NEW sk, NEW iv,
           NEW i \in Positions, ~(i < first), NEW v, f[i] = Clear(v)
    PROVE  Xor(Xor(f, first, sk, iv), first, sk, iv)[i] = Clear(v)
<1>. DEFINE g == Xor(f, first, sk, iv)
            x == <<sk, iv, i - first>>
<1>1. g[i] = [value |-> v, masks |-> {x}]
  BY XorByte
<1>. HIDE DEF g
<1>2. Xor(g, first, sk, iv)[i] = [g[i] EXCEPT !.masks = SymDiff(@, {x})]
  BY DEF Xor
<1>. HIDE DEF x
<1>3. SymDiff({x}, {x}) = {}
  BY Unmask
<1>4. Xor(g, first, sk, iv)[i] = [value |-> v, masks |-> {}]
  BY <1>1, <1>2, <1>3
<1>. QED BY <1>4 DEF g, Clear

\* ... and with another key it does not.
LEMMA XorForeign ==
    ASSUME NEW f, NEW first, NEW sk, NEW other, sk # other, NEW iv,
           NEW i \in Positions, ~(i < first), NEW v, f[i] = Clear(v)
    PROVE  Xor(Xor(f, first, sk, iv), first, other, iv)[i].masks # {}
<1>. DEFINE g == Xor(f, first, sk, iv)
            x == <<sk, iv, i - first>>
            y == <<other, iv, i - first>>
<1>1. g[i] = [value |-> v, masks |-> {x}]
  BY XorByte
<1>2. x # y
  OBVIOUS
<1>. HIDE DEF g
<1>3. Xor(g, first, other, iv)[i] = [g[i] EXCEPT !.masks = SymDiff(@, {y})]
  BY DEF Xor
<1>. HIDE DEF x, y
<1>4. Xor(g, first, other, iv)[i].masks = SymDiff({x}, {y})
  BY <1>1, <1>3
<1>. QED BY <1>2, <1>4, Unmask DEF g

\* A frame is what its bytes are.
LEMMA SameFrame ==
    ASSUME NEW f, Plain(f), NEW g, DOMAIN g = Positions, g = [i \in Positions |-> g[i]],
           \A i \in Positions : g[i] = f[i]
    PROVE  g = f
<1>1. f = [i \in Positions |-> f[i]]
  BY DEF Plain
<1>. QED BY <1>1

\* The same values, the same IVs
LEMMA SameValues ==
    ASSUME NEW f, NEW g, NEW first \in Positions, NEW last \in Positions,
           \A i \in first .. last : f[i].value = g[i].value
    PROVE  Values(f, first, last) = Values(g, first, last)
<1>1. \A i \in 1 .. last - first + 1 : first + i - 1 \in first .. last
  BY DEF Positions
<1>2. \A i \in 1 .. last - first + 1 : f[first + i - 1].value = g[first + i - 1].value
  BY <1>1
<1>. QED BY <1>2 DEF Values
-----------------------------------------------------------------------------
(* Reports.                                                                 *)

\* The IV of a report is in the five bytes that are not encrypted.
LEMMA SealedIV ==
    ASSUME NEW f, NEW sk, NEW address
    PROVE  ReportIV(address, Sealed(sk, address, f)) = ReportIV(address, f)
<1>1. \A i \in 0 .. 4 : i \in Positions /\ i < 7
  BY DEF Positions
<1>. DEFINE iv == ReportIV(address, f)
<1>2. \A i \in 0 .. 4 : Xor(f, 7, sk, iv)[i] = f[i]
  <2>. HIDE DEF iv
  <2>. QED BY <1>1, XorBelow
<1>3. Values(Xor(f, 7, sk, iv), 0, 4) = Values(f, 0, 4)
  <2>. HIDE DEF iv
  <2>1. 0 \in Positions /\ 4 \in Positions
    BY <1>1
  <2>. QED BY <1>2, <2>1, SameValues, ZenonT(30)
<1>. QED BY <1>3 DEF ReportIV, Sealed

\* decrypt_packet (crypto.cpp 142-176) undoes what a node does with a report,
\* whatever its contents, ...
THEOREM ReportReadable ==
    ASSUME NEW f, Plain(f), NEW sk, NEW address
    PROVE  decrypt_packet(sk, address, Sealed(sk, address, f)) = f
<1>. DEFINE iv == ReportIV(address, f)
            g == Xor(Xor(f, 7, sk, iv), 7, sk, iv)
<1>1. decrypt_packet(sk, address, Sealed(sk, address, f)) = g
  BY SealedIV DEF decrypt_packet, Sealed
<1>. HIDE DEF iv
<1>2. ASSUME NEW i \in Positions PROVE g[i] = f[i]
  <2>1. CASE i < 7
    BY <2>1, XorBelow
  <2>2. CASE ~(i < 7)
    <3>1. f[i] = Clear(f[i].value)
      BY DEF Plain
    <3>. QED BY <2>2, <3>1, XorTwice
  <2>. QED BY <2>1, <2>2
<1>3. g = [i \in Positions |-> g[i]]
  BY DEF Xor
<1>. QED BY <1>1, <1>2, <1>3, SameFrame

\* ... and cannot read what was sealed with another key.
THEOREM ReportForeign ==
    ASSUME NEW f, Plain(f), NEW sk, NEW other, sk # other, NEW address
    PROVE  ~Readable(decrypt_packet(other, address, Sealed(sk, address, f)))
<1>. DEFINE iv == ReportIV(address, f)
<1>1. 7 \in Positions /\ f[7] = Clear(f[7].value)
  BY DEF Positions, Plain
<1>2. decrypt_packet(other, address, Sealed(sk, address, f)) =
        Xor(Xor(f, 7, sk, iv), 7, other, iv)
  BY SealedIV DEF decrypt_packet, Sealed
<1>. HIDE DEF iv
<1>3. Xor(Xor(f, 7, sk, iv), 7, other, iv)[7].masks # {}
  BY <1>1, XorForeign
<1>. QED BY <1>1, <1>2, <1>3 DEF Readable
-----------------------------------------------------------------------------
(* Commands.                                                                *)

\* The frame with its authenticator, before it is encrypted
Signed(sk, address, f) ==
    [f EXCEPT ![3] = Mac(sk, address, f)[0], ![4] = Mac(sk, address, f)[1]]

LEMMA SignedBytes ==
    ASSUME NEW f, DOMAIN f = Positions, NEW sk, NEW address
    PROVE  /\ \A i \in Positions : i \notin {3, 4} => Signed(sk, address, f)[i] = f[i]
           /\ Signed(sk, address, f)[3] = Mac(sk, address, f)[0]
           /\ Signed(sk, address, f)[4] = Mac(sk, address, f)[1]
<1>1. 3 \in Positions /\ 4 \in Positions
  BY DEF Positions
<1>. QED BY <1>1 DEF Signed

\* A stamp reaches the bytes of the sequence number and the vendor code.
LEMMA StampedBytes ==
    ASSUME NEW f, DOMAIN f = Positions, NEW seq, NEW code
    PROVE  LET g == Stamped(f, seq, code)
           IN  /\ g = [i \in Positions |-> g[i]]
               /\ \A i \in Positions : i \notin {0, 1, 8, 9} => g[i] = f[i]
               /\ \A i \in {0, 1, 8, 9} : g[i] = Clear(g[i].value)
<1>. DEFINE a == seq % 256
            b == seq \div 256
            c == code % 256
            d == code \div 256
            g == [f EXCEPT ![0] = Clear(a), ![1] = Clear(b), ![8] = Clear(c), ![9] = Clear(d)]
<1>1. Stamped(f, seq, code) = g
  BY DEF Stamped
<1>2. {0, 1, 8, 9} \subseteq Positions
  BY DEF Positions
<1>. HIDE DEF a, b, c, d
<1>3. g = [i \in Positions |-> g[i]]
  OBVIOUS
<1>4. \A i \in Positions : i \notin {0, 1, 8, 9} => g[i] = f[i]
  OBVIOUS
<1>5. g[0] = Clear(a) /\ g[1] = Clear(b) /\ g[8] = Clear(c) /\ g[9] = Clear(d)
  BY <1>2
<1>6. Clear(a).value = a /\ Clear(b).value = b /\ Clear(c).value = c /\ Clear(d).value = d
  BY DEF Clear
<1>. HIDE DEF g
<1>7. \A i \in {0, 1, 8, 9} : g[i] = Clear(g[i].value)
  BY <1>5, <1>6
<1>. QED BY <1>1, <1>3, <1>4, <1>7

\* The IV of a command is in its sequence number.
LEMMA CommandIVs ==
    ASSUME NEW f, NEW g, \A i \in 0 .. 2 : f[i] = g[i], NEW address
    PROVE  CommandIV(address, f) = CommandIV(address, g)
<1>1. 0 \in Positions /\ 2 \in Positions
  BY DEF Positions
<1>2. Values(f, 0, 2) = Values(g, 0, 2)
  BY <1>1, SameValues, ZenonT(30)
<1>. QED BY <1>2 DEF CommandIV

\* The authenticator depends on the sequence number and all that is encrypted.
LEMMA SameMac ==
    ASSUME NEW f, NEW g, \A i \in Positions : i \notin {3, 4} => f[i] = g[i],
           NEW sk, NEW address
    PROVE  Mac(sk, address, f) = Mac(sk, address, g)
<1>1. /\ \A i \in 0 .. 2 : i \in Positions /\ i \notin {3, 4}
      /\ \A i \in 5 .. 19 : i \in Positions /\ i \notin {3, 4}
  BY DEF Positions
<1>2. Values(f, 0, 2) = Values(g, 0, 2)
  <2>1. 0 \in Positions /\ 2 \in Positions
    BY <1>1
  <2>2. \A i \in 0 .. 2 : f[i].value = g[i].value
    BY <1>1
  <2>. QED BY <2>1, <2>2, SameValues, ZenonT(30)
<1>3. [j \in 5 .. 19 |-> f[j]] = [j \in 5 .. 19 |-> g[j]]
  BY <1>1
<1>. QED BY <1>2, <1>3 DEF Mac

\* A light that has the key finds a command of encrypt_packet (crypto.cpp 92-140)
\* valid, and as it was.
THEOREM CommandReadable ==
    ASSUME NEW f, Plain(f), f[3] = Clear(0), f[4] = Clear(0), NEW sk, NEW address
    PROVE  Opened(sk, address, encrypt_packet(sk, address, f)) = [frame |-> f, valid |-> TRUE]
<1>. DEFINE iv == CommandIV(address, f)
            s == Signed(sk, address, f)
            e == encrypt_packet(sk, address, f)
            plain == [Xor(e, 5, sk, CommandIV(address, e)) EXCEPT ![3] = Clear(0), ![4] = Clear(0)]
<1>1. /\ 3 \in Positions /\ 4 \in Positions
      /\ \A i \in 0 .. 2 : i \in Positions /\ i \notin {3, 4} /\ i < 5
      /\ DOMAIN f = Positions
  BY DEF Positions, Plain
<1>2. e = Xor(s, 5, sk, iv)
  BY DEF encrypt_packet, Signed
<1>3. /\ \A i \in Positions : i \notin {3, 4} => s[i] = f[i]
      /\ s[3] = Mac(sk, address, f)[0]
      /\ s[4] = Mac(sk, address, f)[1]
  BY <1>1, SignedBytes
<1>. HIDE DEF s
<1>4. CommandIV(address, e) = iv
  <2>1. \A i \in 0 .. 2 : e[i] = f[i]
    <3>. HIDE DEF iv, e
    <3>. QED BY <1>1, <1>2, <1>3, XorBelow
  <2>. HIDE DEF e
  <2>. QED BY <2>1, CommandIVs
<1>5. /\ e[3] = Mac(sk, address, f)[0]
      /\ e[4] = Mac(sk, address, f)[1]
  <2>. HIDE DEF iv, e
  <2>. QED BY <1>1, <1>2, <1>3, XorBelow
<1>. HIDE DEF iv, e
<1>6. ASSUME NEW i \in Positions PROVE plain[i] = f[i]
  <2>1. DOMAIN Xor(e, 5, sk, iv) = Positions
    BY DEF Xor
  <2>2. CASE i \in {3, 4}
    BY <2>1, <2>2, <1>1, <1>4
  <2>3. CASE i \notin {3, 4}
    <3>1. plain[i] = Xor(e, 5, sk, iv)[i]
      BY <2>1, <2>3, <1>4
    <3>2. s[i] = f[i] /\ f[i] = Clear(f[i].value)
      BY <1>3, <2>3 DEF Plain
    <3>3. CASE i < 5
      BY <1>2, <3>1, <3>2, <3>3, XorBelow
    <3>4. CASE ~(i < 5)
      BY <1>2, <3>1, <3>2, <3>4, XorTwice
    <3>. QED BY <3>3, <3>4
  <2>. QED BY <2>2, <2>3
<1>7. plain = [i \in Positions |-> plain[i]]
  BY DEF Xor
<1>8. plain = f
  <2>. HIDE DEF plain
  <2>. QED BY <1>6, <1>7, SameFrame
<1>9. Opened(sk, address, e) =
        [frame |-> plain,
         valid |-> e[3] = Mac(sk, address, plain)[0] /\ e[4] = Mac(sk, address, plain)[1]]
  BY DEF Opened
<1>. HIDE DEF plain
<1>. QED BY <1>5, <1>8, <1>9 DEF e

\* An authenticator tells which key has made it.
LEMMA MacByte ==
    ASSUME NEW sk, NEW address, NEW f
    PROVE  \E n, r : Mac(sk, address, f)[0].masks = {<<sk, n, r, 0>>}
<1>. DEFINE n == SubSeq(address, 1, 4) \o <<1>> \o Values(f, 0, 2) \o <<15>>
            r == [j \in 5 .. 19 |-> f[j]]
            mac == [i \in 0 .. 1 |-> [value |-> 0, masks |-> {<<sk, n, r, i>>}]]
<1>1. Mac(sk, address, f) = mac
  BY DEF Mac
<1>2. mac[0].masks = {<<sk, n, r, 0>>}
  <2>. HIDE DEF n, r
  <2>. QED OBVIOUS
<1>. HIDE DEF n, r, mac
<1>. QED BY <1>1, <1>2

\* What is encrypted with another key is not valid: the authenticator is not.
THEOREM CommandForeign ==
    ASSUME NEW f, DOMAIN f = Positions, NEW sk, NEW other, sk # other, NEW address
    PROVE  ~Opened(other, address, encrypt_packet(sk, address, f)).valid
<1>. DEFINE e == encrypt_packet(sk, address, f)
<1>1. e[3] = Mac(sk, address, f)[0]
  <2>1. 3 \in Positions /\ 3 < 5
    BY DEF Positions
  <2>2. Signed(sk, address, f)[3] = Mac(sk, address, f)[0]
    BY SignedBytes
  <2>3. e = Xor(Signed(sk, address, f), 5, sk, CommandIV(address, f))
    BY DEF encrypt_packet, Signed
  <2>. HIDE DEF e
  <2>. QED BY <2>1, <2>2, <2>3, XorBelow
<1>. HIDE DEF e
<1>2. ASSUME NEW g PROVE Mac(other, address, g)[0] # Mac(sk, address, f)[0]
  <2>1. PICK n, r : Mac(sk, address, f)[0].masks = {<<sk, n, r, 0>>}
    BY MacByte
  <2>2. PICK o, t : Mac(other, address, g)[0].masks = {<<other, o, t, 0>>}
    BY MacByte
  <2>3. <<sk, n, r, 0>> # <<other, o, t, 0>>
    OBVIOUS
  <2>. QED BY <2>1, <2>2, <2>3
<1>. QED BY <1>1, <1>2 DEF Opened, e
-----------------------------------------------------------------------------
(* The bytes of a packet.                                                   *)

LEMMA Concat ==
    ASSUME NEW s \in Seq(Int), NEW t \in Seq(Int)
    PROVE  /\ s \o t \in Seq(Int)
           /\ Len(s \o t) = Len(s) + Len(t)
           /\ \A i \in 1 .. Len(s) : (s \o t)[i] = s[i]
           /\ \A i \in 1 .. Len(t) : (s \o t)[Len(s) + i] = t[i]
<1>1. /\ s \o t \in Seq(Int)
      /\ Len(s \o t) = Len(s) + Len(t)
      /\ \A i \in 1 .. Len(s) + Len(t) :
            (s \o t)[i] = IF i <= Len(s) THEN s[i] ELSE t[i - Len(s)]
  BY ConcatProperties
<1>2. Len(s) \in Nat /\ Len(t) \in Nat
  OBVIOUS
<1>3. ASSUME NEW i \in 1 .. Len(s) PROVE (s \o t)[i] = s[i]
  <2>1. i \in 1 .. Len(s) + Len(t) /\ i <= Len(s)
    BY <1>2
  <2>. QED BY <1>1, <2>1
<1>4. ASSUME NEW i \in 1 .. Len(t) PROVE (s \o t)[Len(s) + i] = t[i]
  <2>1. Len(s) + i \in 1 .. Len(s) + Len(t) /\ ~(Len(s) + i <= Len(s)) /\ Len(s) + i - Len(s) = i
    BY <1>2
  <2>. QED BY <1>1, <2>1
<1>. QED BY <1>1, <1>3, <1>4

LEMMA PackedBytes ==
    ASSUME NEW bytes \in Seq(Int)
    PROVE  /\ Plain(Packed(bytes))
           /\ \A i \in Positions : i < Len(bytes) => Packed(bytes)[i] = Clear(bytes[i + 1])
BY DEF Packed, Plain, Clear

\* The ten bytes before the payload, and the payload
LEMMA HeadAndPayload ==
    ASSUME NEW h \in Seq(Int), Len(h) = 10, NEW payload \in Seq(Int)
    PROVE  LET f == Packed(h \o payload)
           IN  /\ Plain(f)
               /\ \A i \in 0 .. 9 : f[i] = Clear(h[i + 1])
               /\ \A i \in 1 .. Len(payload) : i <= 10 => f[9 + i] = Clear(payload[i])
<1>. DEFINE bytes == h \o payload
<1>1. Len(payload) \in Nat
  OBVIOUS
<1>2. /\ bytes \in Seq(Int) /\ Len(bytes) = 10 + Len(payload)
      /\ \A i \in 1 .. 10 : bytes[i] = h[i]
      /\ \A i \in 1 .. Len(payload) : bytes[10 + i] = payload[i]
  <2>1. /\ bytes \in Seq(Int) /\ Len(bytes) = Len(h) + Len(payload)
        /\ \A i \in 1 .. Len(h) : bytes[i] = h[i]
        /\ \A i \in 1 .. Len(payload) : bytes[Len(h) + i] = payload[i]
    BY Concat
  <2>. HIDE DEF bytes
  <2>. QED BY <2>1
<1>. HIDE DEF bytes
<1>3. Len(bytes) \in Int /\ Len(bytes) = 10 + Len(payload)
  BY <1>2, <1>1
<1>4. ASSUME NEW i \in 0 .. 9 PROVE Packed(bytes)[i] = Clear(h[i + 1])
  <2>1. i \in Positions /\ i < Len(bytes) /\ i + 1 \in 1 .. 10
    BY <1>1, <1>3 DEF Positions
  <2>2. bytes[i + 1] = h[i + 1]
    BY <1>2, <2>1
  <2>. QED BY <1>2, <2>1, <2>2, PackedBytes, ZenonT(30)
<1>5. ASSUME NEW i \in 1 .. Len(payload), i <= 10
      PROVE  Packed(bytes)[9 + i] = Clear(payload[i])
  <2>1. 9 + i \in Positions /\ 9 + i < Len(bytes) /\ (9 + i) + 1 = 10 + i
    BY <1>1, <1>3, <1>5 DEF Positions
  <2>2. bytes[(9 + i) + 1] = payload[i]
    BY <1>2, <2>1
  <2>. QED BY <1>2, <2>1, <2>2, PackedBytes, ZenonT(30)
<1>. QED BY <1>2, <1>4, <1>5, PackedBytes, ZenonT(30) DEF bytes

\* Where Tx puts things (telink_mesh_protocol.h 100-140)
LEMMA TxBytes ==
    ASSUME NEW command \in Int, NEW dest \in Int, NEW payload \in Seq(Int)
    PROVE  LET f == Tx(command, dest, payload)
           IN  /\ Plain(f)
               /\ f[3] = Clear(0) /\ f[4] = Clear(0)
               /\ f[5] = Clear(dest % 256) /\ f[6] = Clear(dest \div 256)
               /\ f[7] = Clear(command)
               /\ \A i \in 1 .. Len(payload) : i <= 10 => f[9 + i] = Clear(payload[i])
<1>. DEFINE a == <<0, 0, 0, 0, 0>>
            b == LittleEndian(dest)
            c == <<command, 0, 0>>
            h == a \o b \o c
<1>1. /\ a \in Seq(Int) /\ Len(a) = 5 /\ a[4] = 0 /\ a[5] = 0
      /\ b \in Seq(Int) /\ Len(b) = 2 /\ b[1] = dest % 256 /\ b[2] = dest \div 256
      /\ c \in Seq(Int) /\ Len(c) = 3 /\ c[1] = command
  BY DEF LittleEndian
<1>. HIDE DEF a, b, c
<1>2. /\ a \o b \in Seq(Int) /\ Len(a \o b) = 7
      /\ (a \o b)[4] = 0 /\ (a \o b)[5] = 0
      /\ (a \o b)[6] = b[1] /\ (a \o b)[7] = b[2]
  <2>1. /\ a \o b \in Seq(Int) /\ Len(a \o b) = Len(a) + Len(b)
        /\ \A i \in 1 .. Len(a) : (a \o b)[i] = a[i]
        /\ \A i \in 1 .. Len(b) : (a \o b)[Len(a) + i] = b[i]
    BY <1>1, Concat, ZenonT(30)
  <2>2. /\ 4 \in 1 .. Len(a) /\ 5 \in 1 .. Len(a)
        /\ 1 \in 1 .. Len(b) /\ 2 \in 1 .. Len(b) /\ Len(a) + 1 = 6 /\ Len(a) + 2 = 7
    BY <1>1
  <2>3. /\ (a \o b)[4] = 0 /\ (a \o b)[5] = 0
        /\ (a \o b)[6] = b[1] /\ (a \o b)[7] = b[2]
    <3>. DEFINE ab == a \o b
    <3>1. /\ \A i \in 1 .. Len(a) : ab[i] = a[i]
          /\ \A i \in 1 .. Len(b) : ab[Len(a) + i] = b[i]
      BY <2>1
    <3>. HIDE DEF ab
    <3>2. ab[4] = 0 /\ ab[5] = 0
      BY <1>1, <2>2, <3>1
    <3>3. ab[6] = b[1] /\ ab[7] = b[2]
      BY <2>2, <3>1
    <3>. QED BY <3>2, <3>3 DEF ab
  <2>4. Len(a \o b) = 7
    BY <1>1, <2>1
  <2>. QED BY <2>1, <2>3, <2>4
<1>3. /\ h \in Seq(Int) /\ Len(h) = 10
      /\ h[4] = 0 /\ h[5] = 0 /\ h[6] = b[1] /\ h[7] = b[2] /\ h[8] = command
  <2>1. /\ h \in Seq(Int) /\ Len(h) = Len(a \o b) + Len(c)
        /\ \A i \in 1 .. Len(a \o b) : h[i] = (a \o b)[i]
        /\ \A i \in 1 .. Len(c) : h[Len(a \o b) + i] = c[i]
    BY <1>1, <1>2, Concat
  <2>2. /\ \A i \in 4 .. 7 : i \in 1 .. Len(a \o b)
        /\ 1 \in 1 .. Len(c) /\ Len(a \o b) + 1 = 8
    BY <1>1, <1>2
  <2>3. /\ h[4] = 0 /\ h[5] = 0 /\ h[6] = b[1] /\ h[7] = b[2]
        /\ h[8] = command
    <3>. DEFINE ab == a \o b
    <3>1. /\ \A i \in 1 .. Len(ab) : h[i] = ab[i]
          /\ \A i \in 1 .. Len(c) : h[Len(ab) + i] = c[i]
      BY <2>1
    <3>2. /\ 4 \in 1 .. Len(ab) /\ 5 \in 1 .. Len(ab) /\ 6 \in 1 .. Len(ab) /\ 7 \in 1 .. Len(ab)
          /\ 1 \in 1 .. Len(c) /\ Len(ab) + 1 = 8
      BY <2>2
    <3>3. ab[4] = 0 /\ ab[5] = 0 /\ ab[6] = b[1] /\ ab[7] = b[2] /\ c[1] = command
      BY <1>1, <1>2
    <3>. HIDE DEF ab, h
    <3>. QED BY <3>1, <3>2, <3>3
  <2>. QED BY <1>1, <1>2, <2>1, <2>3
<1>4. Tx(command, dest, payload) = Packed(h \o payload)
  BY DEF Tx, a, b, c
<1>. HIDE DEF h
<1>5. \A i \in 0 .. 9 : Packed(h \o payload)[i] = Clear(h[i + 1])
  BY <1>3, HeadAndPayload
<1>6. /\ Packed(h \o payload)[3] = Clear(0)
      /\ Packed(h \o payload)[4] = Clear(0)
      /\ Packed(h \o payload)[5] = Clear(b[1])
      /\ Packed(h \o payload)[6] = Clear(b[2])
      /\ Packed(h \o payload)[7] = Clear(command)
  BY <1>3, <1>5
<1>. QED BY <1>1, <1>3, <1>4, <1>6, HeadAndPayload

\* ... and Rx
LEMMA RxBytes ==
    ASSUME NEW type \in Int, NEW src_node \in Int, NEW payload \in Seq(Int)
    PROVE  LET f == Rx(type, src_node, payload)
           IN  /\ Plain(f)
               /\ f[3] = Clear(src_node)
               /\ f[7] = Clear(type)
               /\ \A i \in 1 .. Len(payload) : i <= 10 => f[9 + i] = Clear(payload[i])
<1>. DEFINE h == <<0, 0, 0, src_node, 0, 0, 0, type, 0, 0>>
<1>1. h \in Seq(Int) /\ Len(h) = 10 /\ h[4] = src_node /\ h[8] = type
  OBVIOUS
<1>2. Rx(type, src_node, payload) = Packed(h \o payload)
  BY DEF Rx
<1>. HIDE DEF h
<1>3. \A i \in 0 .. 9 : Packed(h \o payload)[i] = Clear(h[i + 1])
  BY <1>1, HeadAndPayload
<1>4. /\ Packed(h \o payload)[3] = Clear(src_node)
      /\ Packed(h \o payload)[7] = Clear(type)
  BY <1>1, <1>3
<1>. QED BY <1>1, <1>2, <1>4, HeadAndPayload
=============================================================================

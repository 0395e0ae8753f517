------------------------------- MODULE Frames -------------------------------
(***************************************************************************)
(* Packets as bytes: the layout of src/ble_stack/telink_mesh_protocol.h,   *)
(* encrypt_packet and decrypt_packet of src/crypto/crypto.cpp, and create, *)
(* which makes a report of the bytes.                                      *)
(*                                                                         *)
(* AES is symbolic.  A byte of a frame is a value and the set of keystream *)
(* bytes it is masked with; XOR with a keystream byte adds it to the set   *)
(* or takes it away, so only the same key and the same IV unmask.          *)
(***************************************************************************)
EXTENDS Integers, Sequences, FiniteSetsExt

Positions == 0 .. 19

\* enum Command, as far as the gateway uses it
Code == [LIGHT_ON_OFF |-> 240, LIGHT_ATTRIBUTES_SET |-> 241,
         ADDRESS_EDIT |-> 224, ADDRESS_REPORT |-> 225, STATUS_QUERY |-> 218,
         STATUS_REPORT |-> 219, ONLINE_STATUS_REPORT |-> 220]

\* htole16
LittleEndian(x) == <<x % 256, x \div 256>>

Clear(v) == [value |-> v, masks |-> {}]

\* struct Packet, all zero at first,
Packed(bytes) ==
    [i \in Positions |-> Clear(IF i < Len(bytes) THEN bytes[i + 1] ELSE 0)]

\* ... as it is sent
Tx(command, dest, payload) ==
    Packed(<<0, 0, 0, 0, 0>> \o LittleEndian(dest) \o <<command, 0, 0>> \o payload)

\* ... and as it is received
Rx(type, src_node, payload) ==
    Packed(<<0, 0, 0, src_node, 0, 0, 0, type, 0, 0>> \o payload)

\* (mutant: the code one byte too far, in the payload)
StampedLate(f, seq, vendor_code) ==
    [f EXCEPT ![0] = Clear(seq % 256), ![1] = Clear(seq \div 256),
              ![9] = Clear(vendor_code % 256), ![10] = Clear(vendor_code \div 256)]

\* setSeq, setVendorCode
Stamped(f, seq, vendor_code) ==
    [f EXCEPT ![0] = Clear(seq % 256), ![1] = Clear(seq \div 256),
              ![8] = Clear(vendor_code % 256), ![9] = Clear(vendor_code \div 256)]

Values(f, first, last) == [i \in 1 .. last - first + 1 |-> f[first + i - 1].value]
Word16(f, i) == f[i].value + 256 * f[i + 1].value
\* TelinkMeshAddressReport; the MAC address behind it is not looked at.
AddressReport(f) == [node |-> f[10].value]

\* (mutant: the node that sent the frame taken for the one it tells of)
OnlineStatusOfSource(f) ==
    [node |-> f[3].value, brightness |-> f[12].value, on |-> f[13].value % 2 = 0]

\* TelinkMeshOnlineStatusReport
OnlineStatusReport(f) ==
    [node |-> f[10].value, brightness |-> f[12].value, on |-> f[13].value % 2 = 0]

\* TelinkLightStatusReport
LightStatusReport(f) ==
    [node |-> f[3].value, brightness |-> f[10].value,
     rgb |-> Values(f, 11, 13), white |-> f[15].value]
-----------------------------------------------------------------------------
(* Encryption.                                                              *)

\* Name and password of the mesh are the same at both ends.
generate_sk(data1, data2) == [challenge |-> data1, answer |-> data2]

Xor(f, first, sk, iv) ==
    [i \in Positions |->
        IF i < first THEN f[i]
        ELSE [f[i] EXCEPT !.masks = SymDiff(@, {<<sk, iv, i - first>>})]]

CommandIV(address, f) ==
    <<0>> \o SubSeq(address, 1, 4) \o <<1>> \o Values(f, 0, 2)

ReportIV(address, f) ==
    <<0>> \o SubSeq(address, 1, 3) \o Values(f, 0, 4)

\* The first two bytes of the authenticator, which depends on all that is encrypted.
Mac(sk, address, f) ==
    LET nonce == SubSeq(address, 1, 4) \o <<1>> \o Values(f, 0, 2) \o <<15>>
    IN  [i \in 0 .. 1 |-> [value |-> 0, masks |-> {<<sk, nonce, [j \in 5 .. 19 |-> f[j]], i>>}]]

encrypt_packet(sk, address, f) ==
    LET mac == Mac(sk, address, f)
    IN  Xor([f EXCEPT ![3] = mac[0], ![4] = mac[1]], 5, sk, CommandIV(address, f))

decrypt_packet(sk, address, f) == Xor(f, 7, sk, ReportIV(address, f))

Readable(f) == \A i \in Positions : f[i].masks = {}
-----------------------------------------------------------------------------
(* What a light does with the two (external).                               *)

\* It accepts a command if the authenticator is that of what it has decrypted.
Opened(sk, address, f) ==
    LET plain == [Xor(f, 5, sk, CommandIV(address, f)) EXCEPT ![3] = Clear(0), ![4] = Clear(0)]
        mac == Mac(sk, address, plain)
    IN  [frame |-> plain,
         valid |-> f[3] = mac[0] /\ f[4] = mac[1]]

Sealed(sk, address, f) == Xor(f, 7, sk, ReportIV(address, f))
=============================================================================

----------------------------- MODULE MCSession -----------------------------
(* Session with two devices, two lights and sequence numbers of two bits.   *)
EXTENDS Session

CONSTANTS n1, n2

MCDevices == {n1, n2}
MCNodeIds == {5, 6}
=============================================================================

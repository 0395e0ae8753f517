----------------------------- MODULE MCGateway -----------------------------
(* Gateway with two nodes, a command of one packet and a malformed one.     *)
EXTENDS Gateway

CONSTANTS n1, n2, light, malformed

MCDevices == {n1, n2}
MCRSSIs == {-80, -60}
MCCommands == {light, malformed}
MCPackets == [c \in MCCommands |-> IF c = light THEN 1 ELSE 0]
MCCallbacks == [cmd : MCCommands, retry : 0 .. 5]
\* No fault of a Disconnect or of StartDiscovery / StopDiscovery
MCLinkFaults == {"connect", "write", "throw"}
=============================================================================

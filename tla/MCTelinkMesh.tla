--------------------------- MODULE MCTelinkMesh ---------------------------
(* TelinkMesh on two nodes, two signal strengths and one callback.          *)
EXTENDS TelinkMesh

CONSTANTS n1, n2, cb

MCDevices == {n1, n2}
MCRSSIs == {-80, -60}
MCCallbacks == {cb}
MCAllFaults == FaultKinds
\* No fault of a Disconnect or of StartDiscovery / StopDiscovery
MCLinkFaults == {"connect", "write", "throw"}
\* Only connecting fails: pair(1) does not, and pair(0) is not needed
MCConnectFault == {"connect"}
\* Only StartDiscovery fails
MCWedgeFaults == {"start_discovery"}
=============================================================================

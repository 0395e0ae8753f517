------------------------------- MODULE MCWire -------------------------------
(* Wire with numbers on both sides of every bound in mqtt_to_telink, and the *)
(* messages followed to the light whose packets undo each other.            *)
EXTENDS Wire

MCNodes == {5, 65537}
MCBrightnesses == {50, 300}
MCLevels == {7, 300}
MCMireds == {-5, 0, 100, 153, 154, 200, 217, 218, 370, 371, 500}

MCFollowed ==
    [node : {5},
     state : {"OFF"},
     brightness : {50},
     color : {[r |-> 7, g |-> 300, b |-> 300]},
     color_temp : {200, Absent}]

MCLight == 5
MCProxy == 9
MCAddress == <<6, 5, 4, 3, 2, 1>>
=============================================================================

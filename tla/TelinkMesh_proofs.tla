------------------------- MODULE TelinkMesh_proofs -------------------------
(***************************************************************************)
(* Proofs about TelinkMesh, for all sets of nodes, signal strengths and    *)
(* callbacks, every combination of faults and both builds.                 *)
(***************************************************************************)
EXTENDS TelinkMesh, SequenceTheorems, TLAPS
-----------------------------------------------------------------------------
(* Timer queues.                                                            *)

NoScan(q) == \A j \in DOMAIN q : q[j] \notin ScanKinds
OneScan(q) == \E i \in DOMAIN q : \A j \in DOMAIN q : q[j] \in ScanKinds <=> j = i
Has(q, kind) == \E j \in DOMAIN q : q[j] = kind

\* What is left of a sequence without its i-th element.
LEMMA RemoveAtElements ==
    ASSUME NEW S, NEW s \in Seq(S), NEW i \in DOMAIN s
    PROVE  /\ RemoveAt(s, i) \in Seq(S)
           /\ Len(RemoveAt(s, i)) = Len(s) - 1
           /\ \A k \in 1 .. Len(s) - 1 :
                 RemoveAt(s, i)[k] = IF k < i THEN s[k] ELSE s[k + 1]
<1>. DEFINE a == SubSeq(s, 1, i - 1)
            b == SubSeq(s, i + 1, Len(s))
<1>1. i \in 1 .. Len(s) /\ Len(s) \in Nat
  OBVIOUS
<1>2. /\ a \in Seq(S) /\ Len(a) = i - 1
      /\ \A k \in 1 .. i - 1 : a[k] = s[k]
  BY <1>1
<1>3. /\ b \in Seq(S) /\ Len(b) = Len(s) - i
      /\ \A k \in 1 .. Len(s) - i : b[k] = s[i + k]
  BY <1>1
<1>. HIDE DEF a, b
<1>4. /\ a \o b \in Seq(S) /\ Len(a \o b) = Len(s) - 1
      /\ \A k \in 1 .. Len(s) - 1 :
            (a \o b)[k] = IF k < i THEN a[k] ELSE b[k - (i - 1)]
  <2>1. a \o b \in Seq(S) /\ Len(a \o b) = Len(a) + Len(b)
    BY <1>2, <1>3, ConcatProperties
  <2>2. \A k \in 1 .. Len(a) + Len(b) :
           (a \o b)[k] = IF k <= Len(a) THEN a[k] ELSE b[k - Len(a)]
    BY <1>2, <1>3, ConcatProperties
  <2>3. Len(a) + Len(b) = Len(s) - 1
    BY <1>1, <1>2, <1>3
  <2>4. ASSUME NEW k \in 1 .. Len(s) - 1
        PROVE  (a \o b)[k] = IF k < i THEN a[k] ELSE b[k - (i - 1)]
    <3>1. Len(a) = i - 1 /\ (k <= i - 1 <=> k < i)
      BY <1>1, <1>2
    <3>. QED BY <2>2, <2>3, <3>1
  <2>. QED BY <2>1, <2>3, <2>4
<1>5. \A k \in 1 .. Len(s) - 1 : k >= i => b[k - (i - 1)] = s[k + 1]
  <2>. TAKE k \in 1 .. Len(s) - 1
  <2>. HAVE k >= i
  <2>1. k - (i - 1) \in 1 .. Len(s) - i /\ i + (k - (i - 1)) = k + 1
    BY <1>1
  <2>. QED BY <2>1, <1>3
<1>6. RemoveAt(s, i) = a \o b
  BY DEF RemoveAt, a, b
<1>. QED BY <1>1, <1>2, <1>4, <1>5, <1>6

\* A handler whose timer is no scan timer leaves the scan timers as they were,
\* and every timer of another kind stays pending.
LEMMA FireOther ==
    ASSUME NEW q \in Seq(TimerKinds), NEW i \in DOMAIN q
    PROVE  /\ q[i] \notin ScanKinds /\ NoScan(q) => NoScan(RemoveAt(q, i))
           /\ q[i] \notin ScanKinds /\ OneScan(q) => OneScan(RemoveAt(q, i))
           /\ q[i] \in ScanKinds /\ OneScan(q) => NoScan(RemoveAt(q, i))
           /\ \A kind : Has(q, kind) /\ q[i] # kind => Has(RemoveAt(q, i), kind)
<1>. DEFINE r == RemoveAt(q, i)
<1>1. /\ r \in Seq(TimerKinds)
      /\ Len(r) = Len(q) - 1
      /\ \A k \in 1 .. Len(q) - 1 : r[k] = IF k < i THEN q[k] ELSE q[k + 1]
  BY RemoveAtElements
<1>2. Len(q) \in Nat /\ DOMAIN q = 1 .. Len(q) /\ DOMAIN r = 1 .. Len(q) - 1
  BY <1>1
<1>. HIDE DEF r
<1>3. \A k \in DOMAIN r : \E j \in DOMAIN q : j # i /\ r[k] = q[j]
  <2>. TAKE k \in DOMAIN r
  <2>1. CASE k < i
    BY <1>1, <1>2, <2>1
  <2>2. CASE ~(k < i)
    <3>1. k + 1 \in DOMAIN q /\ k + 1 # i /\ r[k] = q[k + 1]
      BY <1>1, <1>2, <2>2
    <3>. QED BY <3>1
  <2>. QED BY <2>1, <2>2
<1>4. \A j \in DOMAIN q : j # i =>
         LET k == IF j < i THEN j ELSE j - 1
         IN  k \in DOMAIN r /\ r[k] = q[j]
  <2>. TAKE j \in DOMAIN q
  <2>. HAVE j # i
  <2>1. CASE j < i
    BY <1>1, <1>2, <2>1
  <2>2. CASE ~(j < i)
    <3>1. j - 1 \in DOMAIN r /\ ~(j - 1 < i) /\ (j - 1) + 1 = j
      BY <1>2, <2>2
    <3>. QED BY <1>1, <1>2, <2>2, <3>1
  <2>. QED BY <2>1, <2>2
<1>5. NoScan(q) => NoScan(r)
  BY <1>3 DEF NoScan
<1>6. q[i] \in ScanKinds /\ OneScan(q) => NoScan(r)
  BY <1>3 DEF NoScan, OneScan
<1>7. ASSUME q[i] \notin ScanKinds, OneScan(q)
      PROVE  OneScan(r)
  <2>1. PICK j \in DOMAIN q : \A l \in DOMAIN q : q[l] \in ScanKinds <=> l = j
    BY <1>7 DEF OneScan
  <2>2. j # i
    BY <1>7, <2>1
  <2>. DEFINE k == IF j < i THEN j ELSE j - 1
  <2>3. k \in DOMAIN r /\ r[k] \in ScanKinds
    BY <1>4, <2>1, <2>2
  <2>4. ASSUME NEW l \in DOMAIN r, r[l] \in ScanKinds
        PROVE  l = k
    <3>. DEFINE m == IF l < i THEN l ELSE l + 1
    <3>1. m \in DOMAIN q /\ q[m] = r[l]
      BY <1>1, <1>2
    <3>2. m = j
      BY <2>1, <2>4, <3>1
    <3>. QED BY <1>2, <3>2
  <2>. HIDE DEF k
  <2>. QED BY <2>3, <2>4 DEF OneScan
<1>8. \A kind : Has(q, kind) /\ q[i] # kind => Has(r, kind)
  BY <1>4 DEF Has
<1>. QED BY <1>5, <1>6, <1>7, <1>8 DEF r

\* Arming a timer.
LEMMA Arm ==
    ASSUME NEW q \in Seq(TimerKinds), NEW new \in TimerKinds
    PROVE  /\ Append(q, new) \in Seq(TimerKinds)
           /\ new \notin ScanKinds /\ NoScan(q) => NoScan(Append(q, new))
           /\ new \notin ScanKinds /\ OneScan(q) => OneScan(Append(q, new))
           /\ new \in ScanKinds /\ NoScan(q) => OneScan(Append(q, new))
           /\ Has(Append(q, new), new)
           /\ \A kind : Has(q, kind) => Has(Append(q, new), kind)
<1>. DEFINE r == Append(q, new)
<1>1. /\ r \in Seq(TimerKinds) /\ Len(q) \in Nat
      /\ DOMAIN q = 1 .. Len(q) /\ DOMAIN r = 1 .. Len(q) + 1
      /\ \A k \in 1 .. Len(q) : r[k] = q[k]
      /\ r[Len(q) + 1] = new
  OBVIOUS
<1>2. /\ Len(q) + 1 \in DOMAIN r
      /\ \A k \in DOMAIN q : k \in DOMAIN r /\ r[k] = q[k] /\ k # Len(q) + 1
      /\ \A k \in DOMAIN r : k \in DOMAIN q \/ k = Len(q) + 1
  BY <1>1
<1>. HIDE DEF r
<1>3. new \notin ScanKinds /\ NoScan(q) => NoScan(r)
  BY <1>1, <1>2 DEF NoScan
<1>4. ASSUME new \notin ScanKinds, OneScan(q)
      PROVE  OneScan(r)
  <2>1. PICK j \in DOMAIN q : \A l \in DOMAIN q : q[l] \in ScanKinds <=> l = j
    BY <1>4 DEF OneScan
  <2>2. \A l \in DOMAIN r : r[l] \in ScanKinds <=> l = j
    BY <1>1, <1>2, <1>4, <2>1
  <2>. QED BY <1>2, <2>2 DEF OneScan
<1>5. ASSUME new \in ScanKinds, NoScan(q)
      PROVE  OneScan(r)
  <2>1. \A l \in DOMAIN r : r[l] \in ScanKinds <=> l = Len(q) + 1
    BY <1>1, <1>2, <1>5 DEF NoScan
  <2>. QED BY <1>2, <2>1 DEF OneScan
<1>6. Has(r, new) /\ \A kind : Has(q, kind) => Has(r, kind)
  BY <1>1, <1>2 DEF Has
<1>. QED BY <1>1, <1>3, <1>4, <1>5, <1>6 DEF r
-----------------------------------------------------------------------------
(* The inductive invariant: the safety properties, and that the RSSI slot   *)
(* outlives its discovery only while there is a candidate, so a report can  *)
(* never produce one that nothing waits for.                                *)

ScanTimerAgrees ==
    /\ discovering => OneScan(timers)
    /\ ~discovering => NoScan(timers)
ListensForReason == listening => discovering \/ current_best_device # None

IInv ==
    /\ TypeOK
    /\ ScanTimerAgrees
    /\ ConnectionHasCandidate
    /\ NeverStranded
    /\ CallbackHasTimer
    /\ ListensForReason

LEMMA DisconnectType ==
    ASSUME NEW ls \in SUBSET Devices, NEW as, NEW left \in Disconnect(ls, as)
    PROVE  left \in SUBSET Devices
  BY DEF Disconnect

LEMMA NoneIsNothing == None \notin Best /\ None \notin Conn /\ None \notin Callbacks
  BY NoneAssumption

LEMMA CrashKeepsIInv ==
    ASSUME NEW how \in {"segfault", "abort", "assert", "undefined"}, Crash(how),
           links' \in SUBSET Devices
    PROVE  IInv'
<1>1. TypeOK'
  <2>1. << >> \in Seq(TimerKinds)
    OBVIOUS
  <2>. HIDE DEF TimerKinds
  <2>. QED BY <2>1 DEF TypeOK, Crash
<1>2. ScanTimerAgrees'
  BY DEF ScanTimerAgrees, NoScan, Crash
<1>3. (ConnectionHasCandidate /\ NeverStranded /\ CallbackHasTimer /\ ListensForReason)'
  BY DEF ConnectionHasCandidate, NeverStranded, CallbackHasTimer, Keyed,
         ListensForReason, Crash
<1>. QED BY <1>1, <1>2, <1>3 DEF IInv

\* A handler that ends in discover(): the queue q and the connection c it has
\* left satisfy what the invariant says of timers and connectedDevice.
LEMMA DiscoverKeepsIInv ==
    ASSUME IInv,
           NEW q \in Seq(TimerKinds), NEW c \in Conn \cup {None},
           NEW ls \in SUBSET Devices,
           discovering => OneScan(q),
           ~discovering => NoScan(q),
           c # None => current_best_device # None,
           c # None /\ c.key /\ callback_on_ready' # None => Has(q, "ready"),
           Discover(q, c, ls),
           callback_on_ready' \in Callbacks \cup {None},
           UNCHANGED proc
    PROVE  IInv'
<1>1. CASE discovering
  <2>1. TypeOK'
    BY <1>1 DEF IInv, TypeOK, Discover, radioVars
  <2>2. (ScanTimerAgrees /\ ConnectionHasCandidate /\ NeverStranded /\ ListensForReason)'
    BY <1>1 DEF ScanTimerAgrees, ConnectionHasCandidate, NeverStranded,
                ListensForReason, Discover
  <2>3. CallbackHasTimer'
    BY <1>1 DEF CallbackHasTimer, Keyed, Pending, Has, Discover
  <2>. QED BY <2>1, <2>2, <2>3 DEF IInv
<1>2. CASE ~discovering
  <2>1. BeginDiscovery(q, ls)
    BY <1>2 DEF Discover
  <2>2. TypeOK'
    <3>1. Append(q, "scan") \in Seq(TimerKinds)
      BY Arm DEF TimerKinds, ScanKinds
    <3>2. links' \in SUBSET Devices
      BY <2>1, DisconnectType DEF BeginDiscovery, Sweep
    <3>. QED BY <2>1, <3>1, <3>2 DEF IInv, TypeOK, BeginDiscovery, StartRssiScan
  <2>3. ScanTimerAgrees'
    <3>1. OneScan(Append(q, "scan"))
      BY <1>2, Arm DEF TimerKinds, ScanKinds
    <3>. QED BY <2>1, <3>1 DEF ScanTimerAgrees, BeginDiscovery
  <2>4. (ConnectionHasCandidate /\ NeverStranded /\ CallbackHasTimer /\ ListensForReason)'
    BY <2>1 DEF ConnectionHasCandidate, NeverStranded, CallbackHasTimer, Keyed,
                ListensForReason, BeginDiscovery
  <2>. QED BY <2>2, <2>3, <2>4 DEF IInv
<1>. QED BY <1>1, <1>2

\* A handler that pairs connection c, whatever it did to the scan before.
LEMMA PairedKeepsIInv ==
    ASSUME IInv,
           NEW q \in Seq(TimerKinds), NEW c \in Conn, NEW ls \in SUBSET Devices,
           discovering' => OneScan(q),
           ~discovering' => NoScan(q),
           current_best_device # None,
           Paired(q, c, ls),
           discovering' \in BOOLEAN, scanning' \in BOOLEAN, listening' \in BOOLEAN,
           UNCHANGED <<proc, current_best_device, callback_on_ready>>
    PROVE  IInv'
<1>1. "ready" \in TimerKinds /\ "ready" \notin ScanKinds
  BY DEF TimerKinds, ScanKinds
<1>2. timers' = Append(q, "ready") /\ links' = ls
  BY DEF Paired
<1>3. connectedDevice' \in Conn /\ connectedDevice'.key = TRUE
  BY DEF Paired, Conn
<1>4. TypeOK'
  BY <1>1, <1>2, <1>3, Arm DEF IInv, TypeOK
<1>5. ScanTimerAgrees'
  BY <1>1, <1>2, Arm DEF ScanTimerAgrees
<1>6. (ConnectionHasCandidate /\ NeverStranded /\ ListensForReason)'
  BY <1>3, NoneIsNothing DEF ConnectionHasCandidate, NeverStranded, ListensForReason
<1>7. CallbackHasTimer'
  BY <1>1, <1>2, Arm DEF CallbackHasTimer, Pending, Has
<1>. QED BY <1>4, <1>5, <1>6, <1>7 DEF IInv

\* ... and pair(1) on a new connection, which may also arm a retry.
LEMMA PairFirstKeepsIInv ==
    ASSUME IInv,
           NEW q \in Seq(TimerKinds), NEW c \in Conn, NEW ls \in SUBSET Devices,
           c.key = FALSE,
           discovering' => OneScan(q),
           ~discovering' => NoScan(q),
           current_best_device # None,
           PairFirst(q, c, ls),
           discovering' \in BOOLEAN, scanning' \in BOOLEAN, listening' \in BOOLEAN,
           UNCHANGED current_best_device
    PROVE  IInv'
<1>1. CASE Paired(q, c, ls)
  BY <1>1, PairedKeepsIInv DEF PairFirst
<1>2. CASE PairRefused(q, c, ls)
  <2>1. "pair" \in TimerKinds /\ "pair" \notin ScanKinds
    BY DEF TimerKinds, ScanKinds, LongKinds
  <2>2. timers' = Append(q, "pair") /\ links' = ls /\ connectedDevice' = c
    BY <1>2 DEF PairRefused
  <2>3. TypeOK'
    BY <2>1, <2>2, Arm DEF IInv, TypeOK, PairFirst
  <2>4. ScanTimerAgrees'
    BY <2>1, <2>2, Arm DEF ScanTimerAgrees
  <2>5. Has(timers', "pair")
    BY <2>1, <2>2, Arm
  <2>6. (ConnectionHasCandidate /\ NeverStranded /\ ListensForReason)'
    BY <2>2, <2>5, NoneIsNothing
       DEF ConnectionHasCandidate, NeverStranded, ListensForReason, Pending, Has
  <2>7. CallbackHasTimer'
    BY <2>2 DEF CallbackHasTimer, Keyed
  <2>. QED BY <2>3, <2>4, <2>6, <2>7 DEF IInv
<1>. QED BY <1>1, <1>2 DEF PairFirst

\* A send that fails, in the handler of a client.
LEMMA SendBreaksKeepsIInv ==
    ASSUME IInv,
           NEW q \in Seq(TimerKinds),
           discovering => OneScan(q),
           ~discovering => NoScan(q),
           SendBreaks(q),
           callback_on_ready' \in Callbacks \cup {None},
           UNCHANGED proc
    PROVE  IInv'
<1>1. links \in SUBSET Devices
  BY DEF IInv, TypeOK
<1>2. PICK ls \in SUBSET Devices : Discover(q, None, ls)
  BY <1>1, DisconnectType DEF SendBreaks
<1>. QED BY <1>2, DiscoverKeepsIInv

\* What a handler knows of the queue when its timer has been taken off it.
LEMMA FiredQueue ==
    ASSUME IInv, NEW i \in DOMAIN timers
    PROVE  /\ Fired(i) \in Seq(TimerKinds)
           /\ timers[i] \in ScanKinds => discovering /\ NoScan(Fired(i))
           /\ timers[i] \notin ScanKinds =>
                 /\ discovering => OneScan(Fired(i))
                 /\ ~discovering => NoScan(Fired(i))
           /\ \A kind : Has(timers, kind) /\ timers[i] # kind => Has(Fired(i), kind)
<1>1. timers \in Seq(TimerKinds) /\ discovering \in BOOLEAN
  BY DEF IInv, TypeOK
<1>2. Fired(i) \in Seq(TimerKinds)
  BY <1>1, RemoveAtElements DEF Fired
<1>3. timers[i] \in ScanKinds => discovering /\ OneScan(timers)
  BY <1>1 DEF IInv, ScanTimerAgrees, NoScan
<1>. QED BY <1>1, <1>2, <1>3, FireOther DEF Fired, IInv, ScanTimerAgrees
-----------------------------------------------------------------------------
(* One lemma per timer.                                                     *)

LEMMA RelinkedType ==
    ASSUME TypeOK, current_best_device # None
    PROVE  /\ \A ls \in Relinked : ls \in SUBSET Devices
           /\ NewConn \in Conn /\ NewConn.key = FALSE
<1>1. current_best_device.addr \in Devices
  BY DEF TypeOK, Best
<1>2. links \cup {current_best_device.addr} \in SUBSET Devices
  BY <1>1 DEF TypeOK
<1>. QED BY <1>1, <1>2, DisconnectType DEF Relinked, NewConn, Conn

LEMMA ScanFindsNothingKeeps ==
    ASSUME IInv, NEW i \in DOMAIN timers, ScanFindsNothing(i)
    PROVE  IInv'
<1>1. /\ timers \in Seq(TimerKinds)
      /\ timers[i] \in ScanKinds
      /\ timers' = [timers EXCEPT ![i] = "rescan"]
  BY DEF IInv, TypeOK, ScanFindsNothing
<1>2. "rescan" \in ScanKinds /\ "rescan" \in TimerKinds
  BY DEF ScanKinds, TimerKinds
<1>3. /\ timers' \in Seq(TimerKinds)
      /\ DOMAIN timers' = DOMAIN timers
      /\ \A j \in DOMAIN timers : timers'[j] = IF j = i THEN "rescan" ELSE timers[j]
  <2>. HIDE DEF TimerKinds, ScanKinds
  <2>. QED BY <1>1, <1>2
<1>4. /\ NoScan(timers) => NoScan(timers')
      /\ OneScan(timers) => OneScan(timers')
  BY <1>1, <1>2, <1>3 DEF NoScan, OneScan
<1>5. \A kind : Has(timers, kind) /\ kind \notin ScanKinds => Has(timers', kind)
  BY <1>1, <1>3 DEF Has
<1>6. "connect" \notin ScanKinds /\ "pair" \notin ScanKinds /\ "ready" \notin ScanKinds
  BY DEF ScanKinds
<1>7. TypeOK'
  BY <1>3 DEF IInv, TypeOK, ScanFindsNothing, radioVars
<1>8. (ScanTimerAgrees /\ ConnectionHasCandidate /\ NeverStranded /\ ListensForReason)'
  BY <1>4, <1>5, <1>6
     DEF IInv, ScanTimerAgrees, ConnectionHasCandidate, NeverStranded, Pending, Has,
         ListensForReason, ScanFindsNothing, radioVars
<1>9. CallbackHasTimer'
  BY <1>5, <1>6 DEF IInv, CallbackHasTimer, Keyed, Pending, Has, ScanFindsNothing
<1>. QED BY <1>7, <1>8, <1>9 DEF IInv

LEMMA ScanConnectsKeeps ==
    ASSUME IInv, NEW i \in DOMAIN timers, ScanConnects(i)
    PROVE  IInv'
<1>1. PICK ls \in Relinked : PairFirst(Fired(i), NewConn, ls)
  BY DEF ScanConnects
<1>2. /\ current_best_device # None
      /\ timers[i] \in ScanKinds
      /\ discovering' = FALSE
      /\ UNCHANGED current_best_device
  BY DEF ScanConnects, ScanEnds
<1>3. scanning' \in BOOLEAN /\ listening' \in BOOLEAN
  BY DEF ScanConnects, ScanEnds, StopScan, radioVars, IInv, TypeOK
<1>4. ls \in SUBSET Devices /\ NewConn \in Conn /\ NewConn.key = FALSE
  BY <1>2, RelinkedType DEF IInv
<1>5. Fired(i) \in Seq(TimerKinds) /\ NoScan(Fired(i))
  BY <1>2, FiredQueue
<1>. QED BY <1>1, <1>2, <1>3, <1>4, <1>5, PairFirstKeepsIInv

LEMMA ScanConnectFailsKeeps ==
    ASSUME IInv, NEW i \in DOMAIN timers, ScanConnectFails(i)
    PROVE  IInv'
<1>1. /\ current_best_device # None
      /\ timers[i] \in ScanKinds
      /\ discovering' = FALSE
      /\ timers' = Append(Fired(i), "connect")
      /\ UNCHANGED <<proc, current_best_device, connectedDevice, callback_on_ready, links>>
  BY DEF ScanConnectFails, ScanEnds
<1>2. "connect" \in TimerKinds /\ "connect" \notin ScanKinds /\ "ready" \notin ScanKinds
  BY DEF TimerKinds, ScanKinds, LongKinds
<1>3. Fired(i) \in Seq(TimerKinds) /\ NoScan(Fired(i))
  BY <1>1, FiredQueue
<1>4. timers' \in Seq(TimerKinds) /\ NoScan(timers') /\ Has(timers', "connect")
  BY <1>1, <1>2, <1>3, Arm
<1>5. Has(timers, "ready") => Has(timers', "ready")
  BY <1>1, <1>2, <1>3, FiredQueue, Arm
<1>6. scanning' \in BOOLEAN /\ listening' \in BOOLEAN
  BY DEF ScanConnectFails, ScanEnds, StopScan, radioVars, IInv, TypeOK
<1>7. TypeOK'
  BY <1>1, <1>4, <1>6 DEF IInv, TypeOK
<1>8. (ScanTimerAgrees /\ ConnectionHasCandidate /\ NeverStranded /\ ListensForReason)'
  BY <1>1, <1>4 DEF ScanTimerAgrees, ConnectionHasCandidate, NeverStranded, Pending, Has,
                    ListensForReason
<1>9. CallbackHasTimer'
  BY <1>1, <1>5 DEF IInv, CallbackHasTimer, Keyed, Pending, Has
<1>. QED BY <1>7, <1>8, <1>9 DEF IInv

LEMMA RetryConnectsKeeps ==
    ASSUME IInv, NEW i \in DOMAIN timers, RetryConnects(i)
    PROVE  IInv'
<1>1. PICK ls \in Relinked : PairFirst(Fired(i), NewConn, ls)
  BY DEF RetryConnects
<1>2. /\ current_best_device # None
      /\ timers[i] \notin ScanKinds
      /\ UNCHANGED <<discovering, current_best_device, scanning, listening>>
  BY DEF RetryConnects, ScanKinds, radioVars
<1>3. ls \in SUBSET Devices /\ NewConn \in Conn /\ NewConn.key = FALSE
  BY <1>2, RelinkedType DEF IInv
<1>4. /\ Fired(i) \in Seq(TimerKinds)
      /\ discovering' => OneScan(Fired(i))
      /\ ~discovering' => NoScan(Fired(i))
  BY <1>2, FiredQueue
<1>5. discovering' \in BOOLEAN /\ scanning' \in BOOLEAN /\ listening' \in BOOLEAN
  BY <1>2 DEF IInv, TypeOK
<1>. QED BY <1>1, <1>2, <1>3, <1>4, <1>5, PairFirstKeepsIInv

LEMMA RetryConnectFailsKeeps ==
    ASSUME IInv, NEW i \in DOMAIN timers, RetryConnectFails(i)
    PROVE  IInv'
<1>1. /\ Discover(Fired(i), connectedDevice, links)
      /\ timers[i] \notin ScanKinds
      /\ timers[i] # "ready"
      /\ UNCHANGED <<proc, callback_on_ready>>
  BY DEF RetryConnectFails, ScanKinds
<1>2. /\ connectedDevice \in Conn \cup {None}
      /\ links \in SUBSET Devices
      /\ callback_on_ready' \in Callbacks \cup {None}
  BY <1>1 DEF IInv, TypeOK
<1>3. connectedDevice # None => current_best_device # None
  BY DEF IInv, ConnectionHasCandidate
<1>4. /\ Fired(i) \in Seq(TimerKinds)
      /\ discovering => OneScan(Fired(i))
      /\ ~discovering => NoScan(Fired(i))
      /\ Has(timers, "ready") => Has(Fired(i), "ready")
  BY <1>1, FiredQueue
<1>5. connectedDevice # None /\ connectedDevice.key /\ callback_on_ready' # None
        => Has(Fired(i), "ready")
  BY <1>1, <1>4 DEF IInv, CallbackHasTimer, Keyed, Pending, Has
<1>. QED BY <1>1, <1>2, <1>3, <1>4, <1>5, DiscoverKeepsIInv

LEMMA RetryPairsKeeps ==
    ASSUME IInv, NEW i \in DOMAIN timers, RetryPairs(i)
    PROVE  IInv'
<1>1. /\ connectedDevice # None
      /\ timers[i] \notin ScanKinds
      /\ timers[i] # "ready"
      /\ UNCHANGED <<proc, callback_on_ready>>
  BY DEF RetryPairs, ScanKinds
<1>2. /\ connectedDevice \in Conn
      /\ links \in SUBSET Devices
      /\ callback_on_ready' \in Callbacks \cup {None}
      /\ discovering \in BOOLEAN /\ scanning \in BOOLEAN /\ listening \in BOOLEAN
  BY <1>1 DEF IInv, TypeOK
<1>3. current_best_device # None
  BY <1>1 DEF IInv, ConnectionHasCandidate
<1>4. /\ Fired(i) \in Seq(TimerKinds)
      /\ discovering => OneScan(Fired(i))
      /\ ~discovering => NoScan(Fired(i))
      /\ Has(timers, "ready") => Has(Fired(i), "ready")
  BY <1>1, FiredQueue
<1>5. CASE /\ Paired(Fired(i), connectedDevice, links)
           /\ UNCHANGED <<discovering, current_best_device, radioVars>>
  BY <1>1, <1>2, <1>3, <1>4, <1>5, PairedKeepsIInv DEF radioVars
<1>6. CASE Discover(Fired(i), connectedDevice, links)
  <2>1. connectedDevice.key /\ callback_on_ready' # None => Has(Fired(i), "ready")
    BY <1>1, <1>4 DEF IInv, CallbackHasTimer, Keyed, Pending, Has
  <2>. QED BY <1>1, <1>2, <1>3, <1>4, <1>6, <2>1, DiscoverKeepsIInv
<1>. QED BY <1>5, <1>6 DEF RetryPairs

LEMMA CrashingTimersKeep ==
    ASSUME IInv, NEW i \in DOMAIN timers,
           RetryConnectNull(i) \/ RetryPairNull(i) \/ PairAborts(i)
    PROVE  IInv'
<1>1. links \in SUBSET Devices
  BY DEF IInv, TypeOK
<1>2. CASE RetryConnectNull(i) \/ RetryPairNull(i)
  BY <1>1, <1>2, CrashKeepsIInv DEF RetryConnectNull, RetryPairNull
<1>3. CASE PairAborts(i)
  <2>1. CASE current_best_device # None /\ \E ls \in Relinked : PairThrows(NewConn, ls)
    <3>1. PICK ls \in SUBSET Devices : PairThrows(NewConn, ls)
      BY <2>1, RelinkedType DEF IInv
    <3>2. Crash("abort") /\ links' \in SUBSET Devices
      BY <3>1 DEF PairThrows
    <3>. QED BY <3>2, CrashKeepsIInv
  <2>2. CASE PairThrows(connectedDevice, links)
    <3>1. Crash("abort") /\ links' \in SUBSET Devices
      BY <1>1, <2>2 DEF PairThrows
    <3>. QED BY <3>1, CrashKeepsIInv
  <2>. QED BY <1>3, <2>1, <2>2 DEF PairAborts
<1>. QED BY <1>2, <1>3

LEMMA ReadyFiresKeeps ==
    ASSUME IInv, NEW i \in DOMAIN timers, ReadyFires(i)
    PROVE  IInv'
<1>1. timers[i] = "ready" /\ "ready" \notin ScanKinds
  BY DEF ReadyFires, ScanKinds
<1>2. /\ Fired(i) \in Seq(TimerKinds)
      /\ discovering => OneScan(Fired(i))
      /\ ~discovering => NoScan(Fired(i))
      /\ \A kind : Has(timers, kind) /\ kind # "ready" => Has(Fired(i), kind)
  BY <1>1, FiredQueue
<1>3. links \in SUBSET Devices
  BY DEF IInv, TypeOK
<1>4. ASSUME callback_on_ready' = None, timers' = Fired(i),
             UNCHANGED <<proc, discovering, current_best_device, connectedDevice,
                         radioVars, links>>
      PROVE  IInv'
  <2>1. TypeOK'
    BY <1>2, <1>4 DEF IInv, TypeOK, radioVars
  <2>2. /\ Has(timers, "connect") => Has(timers', "connect")
        /\ Has(timers, "pair") => Has(timers', "pair")
    BY <1>2, <1>4
  <2>3. (ScanTimerAgrees /\ ConnectionHasCandidate /\ NeverStranded /\ ListensForReason)'
    BY <1>2, <1>4, <2>2
       DEF IInv, ScanTimerAgrees, ConnectionHasCandidate, NeverStranded, Pending, Has,
           ListensForReason, radioVars
  <2>4. CallbackHasTimer'
    BY <1>4 DEF CallbackHasTimer
  <2>. QED BY <2>1, <2>3, <2>4 DEF IInv
<1>5. CASE callback_on_ready' = None /\ timers' = Fired(i)
           /\ UNCHANGED <<proc, discovering, current_best_device, connectedDevice,
                          radioVars, links>>
  BY <1>4, <1>5
<1>6. CASE callback_on_ready' = None /\ SendDelivers(Fired(i)) /\ UNCHANGED proc
  BY <1>4, <1>6 DEF SendDelivers
<1>7. CASE callback_on_ready' = None /\ SendBreaks(Fired(i)) /\ UNCHANGED proc
  BY <1>2, <1>7, SendBreaksKeepsIInv
<1>8. CASE SendKeyless
  BY <1>3, <1>8, CrashKeepsIInv DEF SendKeyless
<1>. QED BY <1>5, <1>6, <1>7, <1>8 DEF ReadyFires
-----------------------------------------------------------------------------
(* Clients and the world outside.                                           *)

LEMMA PollKeeps ==
    ASSUME IInv, PollNotReady \/ PollAndSend
    PROVE  IInv'
<1>1. /\ timers \in Seq(TimerKinds)
      /\ links \in SUBSET Devices
      /\ callback_on_ready \in Callbacks \cup {None}
      /\ discovering => OneScan(timers)
      /\ ~discovering => NoScan(timers)
  BY DEF IInv, TypeOK, ScanTimerAgrees
<1>2. CASE PollNotReady
  BY <1>1, <1>2, DiscoverKeepsIInv DEF PollNotReady
<1>3. CASE SendDelivers(timers) /\ UNCHANGED <<proc, callback_on_ready>>
  <2>1. UNCHANGED meshVars
    BY <1>3 DEF SendDelivers, meshVars, stateVars
  <2>. QED BY <2>1
       DEF IInv, TypeOK, ScanTimerAgrees, OneScan, NoScan, ConnectionHasCandidate,
           NeverStranded, CallbackHasTimer, Keyed, Pending, ListensForReason,
           meshVars, stateVars, radioVars
<1>4. CASE SendBreaks(timers) /\ UNCHANGED <<proc, callback_on_ready>>
  BY <1>1, <1>4, SendBreaksKeepsIInv
<1>5. CASE SendKeyless
  BY <1>1, <1>5, CrashKeepsIInv DEF SendKeyless
<1>. QED BY <1>2, <1>3, <1>4, <1>5 DEF PollAndSend

LEMMA WorldKeeps ==
    ASSUME IInv,
           \/ \E d \in Devices, r \in RSSIs : RssiReport(d, r)
           \/ ReportAborts
           \/ \E d \in Devices : LinkLoss(d)
           \/ Restart
           \/ UNCHANGED meshVars
    PROVE  IInv'
<1>1. CASE \E d \in Devices, r \in RSSIs : RssiReport(d, r)
  <2>1. PICK d \in Devices, r \in RSSIs : RssiReport(d, r)
    BY <1>1
  <2>2. current_best_device' \in Best /\ current_best_device' # None
    BY <2>1, NoneIsNothing DEF RssiReport, Best
  <2>3. TypeOK'
    BY <2>1, <2>2 DEF IInv, TypeOK, RssiReport, radioVars
  <2>4. current_best_device = None => discovering
    BY <2>1 DEF IInv, ListensForReason, RssiReport
  <2>5. (ScanTimerAgrees /\ ConnectionHasCandidate /\ ListensForReason
         /\ CallbackHasTimer)'
    BY <2>1, <2>2
       DEF IInv, ScanTimerAgrees, OneScan, NoScan, ConnectionHasCandidate,
           ListensForReason, CallbackHasTimer, Keyed, Pending, RssiReport, radioVars
  <2>6. NeverStranded'
    BY <2>1, <2>4 DEF IInv, NeverStranded, Pending, RssiReport
  <2>. QED BY <2>3, <2>5, <2>6 DEF IInv
<1>2. CASE (\E d \in Devices : LinkLoss(d)) \/ Restart \/ UNCHANGED meshVars
  <2>1. /\ UNCHANGED <<stateVars, callback_on_ready, radioVars>>
        /\ proc' \in {proc, "running"}
        /\ links' \in SUBSET Devices
    BY <1>2, DisconnectType DEF IInv, TypeOK, LinkLoss, Restart, Sweep, meshVars
  <2>2. TypeOK'
    BY <2>1 DEF IInv, TypeOK, stateVars, radioVars
  <2>3. (ScanTimerAgrees /\ ConnectionHasCandidate /\ ListensForReason
         /\ CallbackHasTimer /\ NeverStranded)'
    BY <2>1
       DEF IInv, ScanTimerAgrees, OneScan, NoScan, ConnectionHasCandidate,
           ListensForReason, CallbackHasTimer, NeverStranded, Keyed, Pending,
           stateVars, radioVars
  <2>. QED BY <2>2, <2>3 DEF IInv
<1>3. CASE ReportAborts
  BY <1>3, CrashKeepsIInv DEF ReportAborts, IInv, TypeOK
<1>. QED BY <1>1, <1>2, <1>3
-----------------------------------------------------------------------------
(* The invariant is inductive, and what follows.                            *)

LEMMA InitIInv == MeshInit => IInv
<1>. SUFFICES ASSUME MeshInit PROVE IInv
  OBVIOUS
<1>1. TypeOK
  <2>1. << >> \in Seq(TimerKinds)
    OBVIOUS
  <2>. HIDE DEF TimerKinds
  <2>. QED BY <2>1 DEF MeshInit, TypeOK
<1>. QED
  BY <1>1 DEF MeshInit, IInv, ScanTimerAgrees, NoScan, ConnectionHasCandidate,
              NeverStranded, CallbackHasTimer, Keyed, ListensForReason

LEMMA NextIInv == IInv /\ [MeshNext]_meshVars => IInv'
<1>. SUFFICES ASSUME IInv, [MeshNext]_meshVars PROVE IInv'
  OBVIOUS
<1>1. ASSUME NEW i \in DOMAIN timers, MeshTimer(i) PROVE IInv'
  BY <1>1, ScanFindsNothingKeeps, ScanConnectsKeeps, ScanConnectFailsKeeps,
     RetryConnectsKeeps, RetryConnectFailsKeeps, RetryPairsKeeps, CrashingTimersKeep
     DEF MeshTimer
<1>2. ASSUME NEW i \in DOMAIN timers, ReadyFires(i) PROVE IInv'
  BY <1>2, ReadyFiresKeeps
<1>3. CASE PollNotReady \/ PollAndSend
  BY <1>3, PollKeeps
<1>4. CASE \/ \E d \in Devices, r \in RSSIs : RssiReport(d, r)
           \/ ReportAborts
           \/ \E d \in Devices : LinkLoss(d)
           \/ Restart
           \/ UNCHANGED meshVars
  BY <1>4, WorldKeeps
<1>. QED BY <1>1, <1>2, <1>3, <1>4 DEF MeshNext

\* The invariant holds of every behaviour of the code: under any combination of
\* failing BlueZ calls, lost links, crashes and client calls.
THEOREM Invariance == MeshSpec => []IInv
<1>. QED BY InitIInv, NextIInv, PTL DEF MeshSpec

\* The variables keep their types.
THEOREM TypeCorrect == MeshSpec => []TypeOK
<1>1. IInv => TypeOK
  BY DEF IInv
<1>. QED BY Invariance, <1>1, PTL

\* The flag `discovering` (telink_mesh.cpp 81-105) and the scan timeout agree.
THEOREM ScanTimerUnique == MeshSpec => []OneScanTimer
<1>1. IInv => OneScanTimer
  BY DEF IInv, TypeOK, ScanTimerAgrees, OneScan, NoScan, OneScanTimer, ScanTimers
<1>. QED BY Invariance, <1>1, PTL

\* Each half-way state of connect() and pair() has a timer that will leave it.
THEOREM NotStranded == MeshSpec => []NeverStranded
<1>1. IInv => NeverStranded
  BY DEF IInv
<1>. QED BY Invariance, <1>1, PTL

\* While there is a connection the warnings of pair() (telink_mesh.cpp, lines 184 and
\* 189) may dereference current_best_device.  (Nothing is said of a pair(0) that
\* finds no connection: RetryPairNull.)
THEOREM CandidateKept == MeshSpec => []ConnectionHasCandidate
<1>1. IInv => ConnectionHasCandidate
  BY DEF IInv
<1>. QED BY Invariance, <1>1, PTL

\* A client that waits on a paired mesh has its 500 ms timer.
THEOREM CallbackServed == MeshSpec => []CallbackHasTimer
<1>1. IInv => CallbackHasTimer
  BY DEF IInv
<1>. QED BY Invariance, <1>1, PTL
-----------------------------------------------------------------------------
(* Links, when disconnecting works.                                         *)

\* What a handler may leave of links that only the connection c owns.
LEMMA DiscoverOwns ==
    ASSUME "disconnect" \notin Faults,
           NEW q, NEW c, NEW ls, ls \subseteq Devices, ls \subseteq NodeOf(c),
           Discover(q, c, ls)
    PROVE  LinksOwned'
<1>1. CASE discovering
  BY <1>1 DEF Discover, LinksOwned, NodeOf
<1>2. CASE ~discovering
  <2>1. links' = {}
    BY <1>2 DEF Discover, BeginDiscovery, Sweep, Disconnect
  <2>. QED BY <2>1 DEF LinksOwned
<1>. QED BY <1>1, <1>2

LEMMA PairFirstOwns ==
    ASSUME "disconnect" \notin Faults,
           NEW q, NEW ls \in Relinked, LinksOwned, proc = "running",
           TypeOK, current_best_device # None,
           PairFirst(q, NewConn, ls)
    PROVE  LinksOwned'
<1>1. ls \subseteq {NewConn.addr}
  BY DEF Relinked, Disconnect, LinksOwned, NewConn
<1>2. /\ links' = ls
      /\ connectedDevice' # None
      /\ connectedDevice'.addr = NewConn.addr
  <2>1. NewConn \in Conn
    BY RelinkedType
  <2>2. CASE Paired(q, NewConn, ls)
    <3>1. connectedDevice' \in Conn /\ connectedDevice'.addr = NewConn.addr
      BY <2>1, <2>2 DEF Paired, Conn
    <3>. QED BY <2>2, <3>1, NoneIsNothing DEF Paired
  <2>3. CASE PairRefused(q, NewConn, ls)
    BY <2>1, <2>3, NoneIsNothing DEF PairRefused
  <2>. QED BY <2>2, <2>3 DEF PairFirst
<1>. QED BY <1>1, <1>2 DEF LinksOwned, NodeOf

LEMMA SendOwns ==
    ASSUME "disconnect" \notin Faults, LinksOwned, proc = "running", TypeOK,
           NEW q, SendDelivers(q) \/ SendBreaks(q)
    PROVE  LinksOwned'
<1>1. CASE SendDelivers(q)
  BY <1>1 DEF SendDelivers, LinksOwned, NodeOf
<1>2. CASE SendBreaks(q)
  <2>1. PICK ls : ls = links \ NodeOf(connectedDevice) /\ Discover(q, None, ls)
    BY <1>2 DEF SendBreaks, Disconnect, NodeOf
  <2>2. ls = {}
    BY <2>1 DEF LinksOwned
  <2>. QED BY <2>1, <2>2, DiscoverOwns
<1>. QED BY <1>1, <1>2

LEMMA NextOwns ==
    ASSUME "disconnect" \notin Faults, IInv, LinksOwned, [MeshNext]_meshVars
    PROVE  LinksOwned'
<1>1. TypeOK
  BY DEF IInv
<1>2. ASSUME NEW how, how # "running", Crash(how) PROVE LinksOwned'
  BY <1>2 DEF Crash, LinksOwned
<1>3. ASSUME NEW i \in DOMAIN timers, MeshTimer(i) PROVE LinksOwned'
  <2>1. CASE ScanFindsNothing(i) \/ ScanConnectFails(i)
    BY <2>1 DEF ScanFindsNothing, ScanConnectFails, LinksOwned, NodeOf
  <2>2. CASE ScanConnects(i) \/ RetryConnects(i)
    <3>1. current_best_device # None /\ proc = "running"
      BY <2>2 DEF ScanConnects, RetryConnects, ScanEnds, Expired
    <3>2. PICK ls \in Relinked : PairFirst(Fired(i), NewConn, ls)
      BY <2>2 DEF ScanConnects, RetryConnects
    <3>. QED BY <1>1, <3>1, <3>2, PairFirstOwns
  <2>3. CASE RetryConnectFails(i)
    BY <1>1, <2>3, DiscoverOwns DEF RetryConnectFails, Expired, LinksOwned, TypeOK
  <2>4. CASE RetryPairs(i)
    <3>1. connectedDevice # None /\ connectedDevice \in Conn /\ proc = "running"
      BY <1>1, <2>4 DEF RetryPairs, Expired, TypeOK
    <3>2. CASE Paired(Fired(i), connectedDevice, links)
      <4>1. connectedDevice' \in Conn /\ connectedDevice'.addr = connectedDevice.addr
        BY <3>1, <3>2 DEF Paired, Conn
      <4>. QED BY <3>1, <3>2, <4>1, NoneIsNothing DEF Paired, LinksOwned, NodeOf
    <3>3. CASE Discover(Fired(i), connectedDevice, links)
      BY <1>1, <3>1, <3>3, DiscoverOwns DEF LinksOwned, TypeOK
    <3>. QED BY <2>4, <3>2, <3>3 DEF RetryPairs
  <2>5. CASE RetryConnectNull(i) \/ RetryPairNull(i)
    BY <1>2, <2>5 DEF RetryConnectNull, RetryPairNull
  <2>6. CASE PairAborts(i)
    BY <1>2, <2>6 DEF PairAborts, PairThrows
  <2>. QED BY <1>3, <2>1, <2>2, <2>3, <2>4, <2>5, <2>6 DEF MeshTimer
<1>4. ASSUME NEW i \in DOMAIN timers, ReadyFires(i) PROVE LinksOwned'
  <2>1. proc = "running"
    BY <1>4 DEF ReadyFires, Expired
  <2>2. CASE SendDelivers(Fired(i)) \/ SendBreaks(Fired(i))
    BY <1>1, <2>1, <2>2, SendOwns
  <2>3. CASE SendKeyless
    BY <1>2, <2>3 DEF SendKeyless
  <2>4. CASE UNCHANGED <<proc, connectedDevice, links>>
    BY <2>4 DEF LinksOwned, NodeOf
  <2>. QED BY <1>4, <2>2, <2>3, <2>4 DEF ReadyFires
<1>5. CASE PollNotReady
  <2>1. connectedDevice = None /\ links \subseteq NodeOf(None) /\ links \subseteq Devices
    BY <1>1, <1>5 DEF PollNotReady, LinksOwned, TypeOK
  <2>. QED BY <1>5, <2>1, DiscoverOwns DEF PollNotReady
<1>6. CASE PollAndSend
  <2>1. CASE SendKeyless
    BY <1>2, <2>1 DEF SendKeyless
  <2>2. CASE SendDelivers(timers) \/ SendBreaks(timers)
    BY <1>1, <1>6, <2>2, SendOwns DEF PollAndSend
  <2>. QED BY <1>6, <2>1, <2>2 DEF PollAndSend
<1>7. CASE \/ \E d \in Devices, r \in RSSIs : RssiReport(d, r)
           \/ \E d \in Devices : LinkLoss(d)
           \/ UNCHANGED meshVars
  BY <1>7 DEF RssiReport, LinkLoss, meshVars, stateVars, LinksOwned, NodeOf
<1>8. CASE ReportAborts
  BY <1>2, <1>8 DEF ReportAborts
<1>9. CASE Restart
  <2>1. links \subseteq Devices
    BY <1>1 DEF TypeOK
  <2>. QED BY <1>9, <2>1 DEF Restart, Sweep, Disconnect, LinksOwned
<1>. QED BY <1>3, <1>4, <1>5, <1>6, <1>7, <1>8, <1>9 DEF MeshNext

\* As long as a Disconnect does what it says, no BLE link is leaked by any
\* sequence of failed attempts, replaced connections and restarts.
THEOREM NoLinkLeaks ==
    ASSUME "disconnect" \notin Faults
    PROVE  MeshSpec => []LinksOwned
<1>1. MeshInit => LinksOwned
  BY DEF MeshInit, LinksOwned
<1>2. IInv /\ LinksOwned /\ [MeshNext]_meshVars => LinksOwned'
  BY NextOwns
<1>. QED BY Invariance, <1>1, <1>2, PTL DEF MeshSpec
-----------------------------------------------------------------------------
(* The scan, when BlueZ obeys.                                              *)

LEMMA NextScans ==
    ASSUME "start_discovery" \notin Faults, "stop_discovery" \notin Faults,
           IInv, ScanMatchesDiscovery, [MeshNext]_meshVars
    PROVE  ScanMatchesDiscovery'
<1>1. ASSUME NEW q, NEW c, NEW ls, Discover(q, c, ls) PROVE ScanMatchesDiscovery'
  <2>1. CASE discovering
    BY <1>1, <2>1 DEF Discover, ScanMatchesDiscovery, radioVars
  <2>2. CASE ~discovering
    BY <1>1, <2>2 DEF Discover, BeginDiscovery, StartRssiScan, ScanMatchesDiscovery
  <2>. QED BY <2>1, <2>2
<1>2. ASSUME NEW how, Crash(how) PROVE ScanMatchesDiscovery'
  BY <1>2 DEF Crash, ScanMatchesDiscovery
<1>3. ASSUME UNCHANGED <<discovering, radioVars>> PROVE ScanMatchesDiscovery'
  BY <1>3 DEF ScanMatchesDiscovery, radioVars
<1>4. ASSUME NEW i \in DOMAIN timers, ScanEnds(i) PROVE ScanMatchesDiscovery'
  <2>1. timers[i] \in ScanKinds /\ discovering' = FALSE /\ StopScan
    BY <1>4 DEF ScanEnds
  <2>2. discovering = TRUE
    BY <2>1 DEF IInv, TypeOK, ScanTimerAgrees, NoScan
  <2>3. scanning = TRUE
    BY <2>2 DEF ScanMatchesDiscovery
  <2>4. scanning' = FALSE /\ listening' = FALSE
    BY <2>1, <2>3 DEF StopScan
  <2>. QED BY <2>1, <2>4 DEF ScanMatchesDiscovery
<1>5. ASSUME NEW i \in DOMAIN timers, MeshTimer(i) PROVE ScanMatchesDiscovery'
  <2>1. CASE ScanFindsNothing(i) \/ RetryConnects(i)
    BY <1>3, <2>1 DEF ScanFindsNothing, RetryConnects
  <2>2. CASE ScanConnects(i) \/ ScanConnectFails(i)
    BY <1>4, <2>2 DEF ScanConnects, ScanConnectFails
  <2>3. CASE RetryConnectFails(i)
    BY <1>1, <2>3 DEF RetryConnectFails
  <2>4. CASE RetryPairs(i)
    BY <1>1, <1>3, <2>4 DEF RetryPairs
  <2>5. CASE RetryConnectNull(i) \/ RetryPairNull(i) \/ PairAborts(i)
    BY <1>2, <2>5 DEF RetryConnectNull, RetryPairNull, PairAborts, PairThrows
  <2>. QED BY <1>5, <2>1, <2>2, <2>3, <2>4, <2>5 DEF MeshTimer
<1>6. ASSUME NEW q, SendDelivers(q) \/ SendBreaks(q) PROVE ScanMatchesDiscovery'
  <2>1. CASE SendDelivers(q)
    BY <1>3, <2>1 DEF SendDelivers
  <2>2. CASE SendBreaks(q)
    BY <1>1, <2>2 DEF SendBreaks
  <2>. QED BY <1>6, <2>1, <2>2
<1>7. ASSUME SendKeyless PROVE ScanMatchesDiscovery'
  BY <1>2, <1>7 DEF SendKeyless
<1>8. ASSUME NEW i \in DOMAIN timers, ReadyFires(i) PROVE ScanMatchesDiscovery'
  BY <1>3, <1>6, <1>7, <1>8 DEF ReadyFires
<1>9. CASE PollNotReady \/ PollAndSend
  BY <1>1, <1>6, <1>7, <1>9 DEF PollNotReady, PollAndSend
<1>10. ASSUME NEW d \in Devices, (\E r \in RSSIs : RssiReport(d, r)) \/ LinkLoss(d)
       PROVE  ScanMatchesDiscovery'
  BY <1>3, <1>10 DEF RssiReport, LinkLoss, stateVars
<1>11. CASE ReportAborts
  BY <1>2, <1>11 DEF ReportAborts
<1>12. CASE Restart \/ UNCHANGED meshVars
  BY <1>3, <1>12 DEF Restart, meshVars, stateVars
<1>. QED BY <1>5, <1>8, <1>9, <1>10, <1>11, <1>12 DEF MeshNext

\* If StartDiscovery and StopDiscovery work, the adapter scans, and its reports
\* are listened to, exactly while a discovery runs (bluezproxy.cpp 66-111).
THEOREM ScansWhileDiscovering ==
    ASSUME "start_discovery" \notin Faults, "stop_discovery" \notin Faults
    PROVE  MeshSpec => []ScanMatchesDiscovery
<1>1. MeshInit => ScanMatchesDiscovery
  BY DEF MeshInit, ScanMatchesDiscovery
<1>2. IInv /\ ScanMatchesDiscovery /\ [MeshNext]_meshVars => ScanMatchesDiscovery'
  BY NextScans
<1>. QED BY Invariance, <1>1, <1>2, PTL DEF MeshSpec
-----------------------------------------------------------------------------
(* How many timers can be pending.                                          *)

\* Queues are short enough to be written out.
LEMMA Tuples ==
    ASSUME NEW S, NEW s \in Seq(S)
    PROVE  /\ Len(s) = 0 => s = << >>
           /\ Len(s) = 1 => s = <<s[1]>>
           /\ Len(s) = 2 => s = <<s[1], s[2]>>
           /\ Len(s) = 3 => s = <<s[1], s[2], s[3]>>
  OBVIOUS

LEMMA Lengthened ==
    ASSUME NEW S, NEW s \in Seq(S), NEW e \in S
    PROVE  /\ Len(s) = 0 => Append(s, e) = <<e>>
           /\ Len(s) = 1 => Append(s, e) = <<s[1], e>>
           /\ Len(s) = 2 => Append(s, e) = <<s[1], s[2], e>>
<1>1. PICK r \in Seq(S) : /\ r = Append(s, e)
                          /\ Len(r) = Len(s) + 1
                          /\ r[Len(s) + 1] = e
                          /\ \A k \in 1 .. Len(s) : r[k] = s[k]
  <2>1. /\ Append(s, e) \in Seq(S) /\ Len(Append(s, e)) = Len(s) + 1
        /\ Append(s, e)[Len(s) + 1] = e
        /\ \A k \in 1 .. Len(s) : Append(s, e)[k] = s[k]
    OBVIOUS
  <2>. QED BY <2>1, ZenonT(30)
<1>2. /\ Len(s) = 0 => Len(r) = 1 /\ r[1] = e
      /\ Len(s) = 1 => Len(r) = 2 /\ r[1] = s[1] /\ r[2] = e
      /\ Len(s) = 2 => Len(r) = 3 /\ r[1] = s[1] /\ r[2] = s[2] /\ r[3] = e
  BY <1>1
<1>3. /\ Len(s) = 0 => r = <<e>>
      /\ Len(s) = 1 => r = <<s[1], e>>
      /\ Len(s) = 2 => r = <<s[1], s[2], e>>
  BY <1>2, Tuples
<1>. QED BY <1>1, <1>3

LEMMA Appended ==
    /\ \A x : Append(<< >>, x) = <<x>>
    /\ \A x, y : Append(<<x>>, y) = <<x, y>>
    /\ \A x, y, z : Append(<<x, y>>, z) = <<x, y, z>>
<1>1. ASSUME NEW x PROVE Append(<< >>, x) = <<x>>
  <2>1. << >> \in Seq({x}) /\ x \in {x} /\ Len(<< >>) = 0
    OBVIOUS
  <2>. QED BY <2>1, Lengthened, ZenonT(30)
<1>2. ASSUME NEW x, NEW y PROVE Append(<<x>>, y) = <<x, y>>
  <2>1. <<x>> \in Seq({x, y}) /\ y \in {x, y} /\ Len(<<x>>) = 1 /\ <<x>>[1] = x
    OBVIOUS
  <2>. QED BY <2>1, Lengthened, ZenonT(30)
<1>3. ASSUME NEW x, NEW y, NEW z PROVE Append(<<x, y>>, z) = <<x, y, z>>
  <2>1. /\ <<x, y>> \in Seq({x, y, z}) /\ z \in {x, y, z}
        /\ Len(<<x, y>>) = 2 /\ <<x, y>>[1] = x /\ <<x, y>>[2] = y
    OBVIOUS
  <2>. QED BY <2>1, Lengthened, ZenonT(30)
<1>. QED BY <1>1, <1>2, <1>3

LEMMA Removed ==
    /\ \A x : RemoveAt(<<x>>, 1) = << >>
    /\ \A x, y : RemoveAt(<<x, y>>, 1) = <<y>> /\ RemoveAt(<<x, y>>, 2) = <<x>>
    /\ \A x, y, z : /\ RemoveAt(<<x, y, z>>, 1) = <<y, z>>
                    /\ RemoveAt(<<x, y, z>>, 2) = <<x, z>>
                    /\ RemoveAt(<<x, y, z>>, 3) = <<x, y>>
<1>1. ASSUME NEW x PROVE RemoveAt(<<x>>, 1) = << >>
  <2>. DEFINE q == <<x>>
              r == RemoveAt(q, 1)
  <2>1. q \in Seq({x}) /\ Len(q) = 1 /\ 1 \in DOMAIN q
    OBVIOUS
  <2>. HIDE DEF q
  <2>2. r \in Seq({x}) /\ Len(r) = 0
    BY <2>1, RemoveAtElements
  <2>. HIDE DEF r
  <2>. QED BY <2>2, Tuples DEF r, q
<1>2. ASSUME NEW x, NEW y, NEW i \in {1, 2}
      PROVE  RemoveAt(<<x, y>>, i) = IF i = 1 THEN <<y>> ELSE <<x>>
  <2>. DEFINE S == {x, y}
              q == <<x, y>>
              r == RemoveAt(q, i)
  <2>1. q \in Seq(S) /\ Len(q) = 2 /\ i \in DOMAIN q /\ q[1] = x /\ q[2] = y
    OBVIOUS
  <2>. HIDE DEF S, q
  <2>2. r \in Seq(S) /\ Len(r) = 1 /\ r[1] = IF i = 1 THEN y ELSE x
    <3>1. /\ r \in Seq(S) /\ Len(r) = Len(q) - 1
          /\ \A k \in 1 .. Len(q) - 1 : r[k] = IF k < i THEN q[k] ELSE q[k + 1]
      BY <2>1, RemoveAtElements
    <3>. HIDE DEF r
    <3>. QED BY <2>1, <3>1
  <2>. HIDE DEF r
  <2>. QED BY <2>2, Tuples DEF r, q
<1>3. ASSUME NEW x, NEW y, NEW z, NEW i \in {1, 2, 3}
      PROVE  RemoveAt(<<x, y, z>>, i) = CASE i = 1 -> <<y, z>>
                                          [] i = 2 -> <<x, z>>
                                          [] i = 3 -> <<x, y>>
  <2>. DEFINE S == {x, y, z}
              q == <<x, y, z>>
              r == RemoveAt(q, i)
  <2>1. q \in Seq(S) /\ Len(q) = 3 /\ i \in DOMAIN q /\ q[1] = x /\ q[2] = y /\ q[3] = z
    OBVIOUS
  <2>. HIDE DEF S, q
  <2>2. /\ r \in Seq(S) /\ Len(r) = 2
        /\ r[1] = (IF i = 1 THEN y ELSE x) /\ r[2] = (IF i = 3 THEN y ELSE z)
    <3>1. /\ r \in Seq(S) /\ Len(r) = Len(q) - 1
          /\ \A k \in 1 .. Len(q) - 1 : r[k] = IF k < i THEN q[k] ELSE q[k + 1]
      BY <2>1, RemoveAtElements
    <3>. HIDE DEF r
    <3>. QED BY <2>1, <3>1
  <2>. HIDE DEF r
  <2>3. r = <<IF i = 1 THEN y ELSE x, IF i = 3 THEN y ELSE z>>
    BY <2>2, Tuples
  <2>. QED BY <2>3 DEF r, q
<1>. QED BY <1>1, <1>2, <1>3

\* The timers that are not those of a scan
Others == {"connect", "pair", "ready"}

\* Between discoveries: at most two, and behind a connect timer only a 500 ms one.
Queues ==
    {<< >>} \cup {<<x>> : x \in Others}
            \cup {<<x, y>> : x \in {"pair", "ready"}, y \in Others}
            \cup {<<"connect", "ready">>}

\* With a discovery: what was pending when it began and had dropped the
\* connection, or what a pairing on a node connected meanwhile has armed.
ShapeOf(d, c, best, q) ==
    \/ ~d /\ q \in Queues
    \/ d /\ c = None /\ \E p \in Queues : q = Append(p, "scan")
    \/ d /\ q \in {<<"scan">>, <<"rescan">>}
    \/ d /\ best # None
         /\ \E x \in {"pair", "ready"} : q \in {<<"scan", x>>, <<"ready", "scan", x>>}

\* The invariant
Shape == ShapeOf(discovering, connectedDevice, current_best_device, timers)

\* The queues between discoveries, one by one
LEMMA QueueCases ==
    ASSUME NEW q \in Queues
    PROVE  \/ q = << >>
           \/ \E x \in Others : q = <<x>>
           \/ \E x \in {"pair", "ready"}, y \in Others : q = <<x, y>>
           \/ q = <<"connect", "ready">>
BY DEF Queues

LEMMA QueuesHave ==
    /\ << >> \in Queues
    /\ \A x \in Others : <<x>> \in Queues
    /\ \A x \in {"pair", "ready"}, y \in Others : <<x, y>> \in Queues
    /\ <<"connect", "ready">> \in Queues
BY DEF Queues

\* The timer queues there are, with the places of their timers
LEMMA ShapeCases ==
    ASSUME Shape
    PROVE  \/ timers = << >>
           \/ \E x \in Others : ~discovering /\ timers = <<x>>
           \/ \E x \in {"pair", "ready"}, y \in Others : ~discovering /\ timers = <<x, y>>
           \/ ~discovering /\ timers = <<"connect", "ready">>
           \/ discovering /\ timers \in {<<"scan">>, <<"rescan">>}
           \/ \E x \in Others : discovering /\ connectedDevice = None /\ timers = <<x, "scan">>
           \/ \E x \in {"pair", "ready"}, y \in Others :
                 discovering /\ connectedDevice = None /\ timers = <<x, y, "scan">>
           \/ discovering /\ connectedDevice = None /\ timers = <<"connect", "ready", "scan">>
           \/ \E x \in {"pair", "ready"} :
                 discovering /\ current_best_device # None /\ timers = <<"scan", x>>
           \/ \E x \in {"pair", "ready"} :
                 discovering /\ current_best_device # None /\ timers = <<"ready", "scan", x>>
<1>1. CASE ~discovering /\ timers \in Queues
  BY <1>1, QueueCases
<1>2. ASSUME discovering, connectedDevice = None, NEW p \in Queues, timers = Append(p, "scan")
      PROVE  \/ timers = <<"scan">>
             \/ \E x \in Others : timers = <<x, "scan">>
             \/ \E x \in {"pair", "ready"}, y \in Others : timers = <<x, y, "scan">>
             \/ timers = <<"connect", "ready", "scan">>
  <2>1. CASE p = << >>
    BY <1>2, <2>1, Appended, Zenon
  <2>2. ASSUME NEW x \in Others, p = <<x>> PROVE timers = <<x, "scan">>
    BY <1>2, <2>2, Appended, Zenon
  <2>3. ASSUME NEW x \in {"pair", "ready"}, NEW y \in Others, p = <<x, y>>
        PROVE  timers = <<x, y, "scan">>
    BY <1>2, <2>3, Appended, Zenon
  <2>4. CASE p = <<"connect", "ready">>
    BY <1>2, <2>4, Appended, Zenon
  <2>. QED BY <2>1, <2>2, <2>3, <2>4, QueueCases, Zenon
<1>. QED BY <1>1, <1>2 DEF Shape, ShapeOf

LEMMA Lengths ==
    /\ Len(<< >>) = 0
    /\ \A x : Len(<<x>>) = 1 /\ DOMAIN <<x>> = {1}
    /\ \A x, y : Len(<<x, y>>) = 2 /\ DOMAIN <<x, y>> = {1, 2}
    /\ \A x, y, z : Len(<<x, y, z>>) = 3 /\ DOMAIN <<x, y, z>> = {1, 2, 3}
OBVIOUS

\* None of the shapes has more than three timers.
LEMMA ShapeBounds == Shape => TimersBounded
<1>1. Shape => Len(timers) \in {0, 1, 2, 3}
  BY ShapeCases, Lengths, Zenon
<1>. SUFFICES ASSUME Shape PROVE Len(timers) <= 3
  BY DEF TimersBounded
<1>. DEFINE n == Len(timers)
<1>2. n \in {0, 1, 2, 3}
  BY <1>1
<1>. HIDE DEF n
<1>3. n <= 3
  BY <1>2
<1>. QED BY <1>3 DEF n

LEMMA Places ==
    /\ \A x : <<x>>[1] = x
    /\ \A x, y : <<x, y>>[1] = x /\ <<x, y>>[2] = y
    /\ \A x, y, z : <<x, y, z>>[1] = x /\ <<x, y, z>>[2] = y /\ <<x, y, z>>[3] = z
OBVIOUS

\* A timer that expires ahead of its place, and what it overtakes
LEMMA ExpiredBehind ==
    ASSUME NEW i, Expired(i), NEW j \in 1 .. i - 1
    PROVE  /\ timers[i] \in LongKinds => timers[j] = "rescan"
           /\ timers[i] = "ready" => timers[j] # "ready"
BY DEF Expired, LongKinds

Rests == {<< >>, <<"pair">>, <<"ready">>}
Singles == {<< >>} \cup {<<x>> : x \in Others}

\* What a handler finds when the timer k is off the queue and f is left.
LeftOver(k, f) ==
    /\ k \in ScanKinds =>
          /\ f \in Rests
          /\ current_best_device = None => timers \in {<<"scan">>, <<"rescan">>}
    /\ k \notin ScanKinds =>
          ShapeOf(discovering, connectedDevice, current_best_device, f)
    /\ k = "connect" => IF discovering THEN f \in {<<"scan">>, <<"ready", "scan">>}
                                       ELSE f \in {<< >>, <<"ready">>}
    /\ k = "pair" /\ connectedDevice # None => ~discovering /\ f \in Singles

\* Of every shape, and each timer that may be the next
LEMMA FiredLeaves ==
    ASSUME Shape, NEW i \in DOMAIN timers, Expired(i)
    PROVE  LeftOver(timers[i], Fired(i))
<1>1. \A x, y \in Others : x # "scan" /\ x # "rescan" /\ x \notin ScanKinds
                           /\ (x = "ready" \/ x \in LongKinds)
  BY DEF Others, ScanKinds, LongKinds
<1>2. "scan" \in LongKinds /\ "scan" \in ScanKinds /\ "rescan" \in ScanKinds
  BY DEF LongKinds, ScanKinds
<1>3. CASE timers = << >>
  BY <1>3
<1>4. ASSUME NEW x \in Others, ~discovering, timers = <<x>>
      PROVE  LeftOver(timers[i], Fired(i))
  <2>1. i = 1
    BY <1>4, Lengths
  <2>2. timers[i] = x /\ Fired(i) = << >>
    BY <1>4, <2>1, Places, Removed DEF Fired
  <2>3. LeftOver(x, << >>)
    BY <1>1, <1>4, QueuesHave DEF LeftOver, ShapeOf, Singles
  <2>. QED BY <2>2, <2>3
<1>5. ASSUME NEW x \in {"pair", "ready"}, NEW y \in Others, ~discovering, timers = <<x, y>>
      PROVE  LeftOver(timers[i], Fired(i))
  <2>1. x \in Others
    BY DEF Others
  <2>2. CASE i = 1
    <3>1. timers[i] = x /\ Fired(i) = <<y>>
      BY <1>5, <2>2, Places, Removed DEF Fired
    <3>2. LeftOver(x, <<y>>)
      BY <1>1, <1>5, <2>1, QueuesHave DEF LeftOver, ShapeOf, Singles
    <3>. QED BY <3>1, <3>2
  <2>3. CASE i = 2
    <3>1. timers[i] = y /\ timers[1] = x /\ Fired(i) = <<x>>
      BY <1>5, <2>3, Places, Removed DEF Fired
    <3>2. 1 \in 1 .. i - 1
      BY <2>3
    <3>3. y = "ready"
      BY <1>1, <2>1, <3>1, <3>2, ExpiredBehind
    <3>4. LeftOver("ready", <<x>>)
      BY <1>1, <1>5, <2>1, <3>3, QueuesHave DEF LeftOver, ShapeOf, Singles
    <3>. QED BY <3>1, <3>3, <3>4
  <2>. QED BY <1>5, <2>2, <2>3, Lengths
<1>6. CASE ~discovering /\ timers = <<"connect", "ready">>
  <2>1. CASE i = 1
    <3>1. timers[i] = "connect" /\ Fired(i) = <<"ready">>
      BY <1>6, <2>1, Places, Removed DEF Fired
    <3>2. LeftOver("connect", <<"ready">>)
      BY <1>6, QueuesHave DEF LeftOver, ShapeOf, Others, ScanKinds
    <3>. QED BY <3>1, <3>2
  <2>2. CASE i = 2
    <3>1. timers[i] = "ready" /\ Fired(i) = <<"connect">>
      BY <1>6, <2>2, Places, Removed DEF Fired
    <3>2. LeftOver("ready", <<"connect">>)
      BY <1>6, QueuesHave DEF LeftOver, ShapeOf, Others, ScanKinds
    <3>. QED BY <3>1, <3>2
  <2>. QED BY <1>6, <2>1, <2>2, Lengths
<1>7. ASSUME NEW x \in {"scan", "rescan"}, discovering, timers = <<x>>
      PROVE  LeftOver(timers[i], Fired(i))
  <2>1. i = 1
    BY <1>7, Lengths
  <2>2. timers[i] = x /\ Fired(i) = << >>
    BY <1>7, <2>1, Places, Removed DEF Fired
  <2>3. LeftOver(x, << >>)
    BY <1>7 DEF LeftOver, Rests, ScanKinds
  <2>. QED BY <2>2, <2>3
<1>8. ASSUME NEW x \in Others, discovering, connectedDevice = None, timers = <<x, "scan">>
      PROVE  LeftOver(timers[i], Fired(i))
  <2>1. CASE i = 1
    <3>1. timers[i] = x /\ Fired(i) = <<"scan">>
      BY <1>8, <2>1, Places, Removed DEF Fired
    <3>2. LeftOver(x, <<"scan">>)
      BY <1>1, <1>8 DEF LeftOver, ShapeOf
    <3>. QED BY <3>1, <3>2
  <2>2. CASE i = 2
    <3>1. timers[i] = "scan" /\ timers[1] = x
      BY <1>8, <2>2, Places
    <3>2. 1 \in 1 .. i - 1
      BY <2>2
    <3>. QED BY <1>1, <1>2, <3>1, <3>2, ExpiredBehind
  <2>. QED BY <1>8, <2>1, <2>2, Lengths
<1>9. ASSUME NEW x \in {"pair", "ready"}, NEW y \in Others,
             discovering, connectedDevice = None, timers = <<x, y, "scan">>
      PROVE  LeftOver(timers[i], Fired(i))
  <2>1. x \in Others
    BY DEF Others
  <2>2. \A z \in Others : ShapeOf(discovering, None, current_best_device, <<z, "scan">>)
    BY <1>9, QueuesHave, Appended DEF ShapeOf
  <2>3. CASE i = 1
    <3>1. timers[i] = x /\ Fired(i) = <<y, "scan">>
      BY <1>9, <2>3, Places, Removed DEF Fired
    <3>2. LeftOver(x, <<y, "scan">>)
      BY <1>1, <1>9, <2>1, <2>2 DEF LeftOver
    <3>. QED BY <3>1, <3>2
  <2>4. CASE i = 2
    <3>1. timers[i] = y /\ timers[1] = x /\ Fired(i) = <<x, "scan">>
      BY <1>9, <2>4, Places, Removed DEF Fired
    <3>2. 1 \in 1 .. i - 1
      BY <2>4
    <3>3. y = "ready"
      BY <1>1, <2>1, <3>1, <3>2, ExpiredBehind
    <3>4. LeftOver("ready", <<x, "scan">>)
      BY <1>1, <1>9, <2>1, <2>2, <3>3 DEF LeftOver
    <3>. QED BY <3>1, <3>3, <3>4
  <2>5. CASE i = 3
    <3>1. timers[i] = "scan" /\ timers[1] = x
      BY <1>9, <2>5, Places
    <3>2. 1 \in 1 .. i - 1
      BY <2>5
    <3>. QED BY <1>1, <1>2, <2>1, <3>1, <3>2, ExpiredBehind
  <2>. QED BY <1>9, <2>3, <2>4, <2>5, Lengths
<1>10. CASE discovering /\ connectedDevice = None /\ timers = <<"connect", "ready", "scan">>
  <2>1. \A z \in Others : ShapeOf(discovering, None, current_best_device, <<z, "scan">>)
    BY <1>10, QueuesHave, Appended DEF ShapeOf
  <2>2. "connect" \in Others /\ "ready" \in Others
    BY DEF Others
  <2>3. CASE i = 1
    <3>1. timers[i] = "connect" /\ Fired(i) = <<"ready", "scan">>
      BY <1>10, <2>3, Places, Removed DEF Fired
    <3>2. LeftOver("connect", <<"ready", "scan">>)
      BY <1>1, <1>10, <2>1, <2>2 DEF LeftOver
    <3>. QED BY <3>1, <3>2
  <2>4. CASE i = 2
    <3>1. timers[i] = "ready" /\ Fired(i) = <<"connect", "scan">>
      BY <1>10, <2>4, Places, Removed DEF Fired
    <3>2. LeftOver("ready", <<"connect", "scan">>)
      BY <1>1, <1>10, <2>1, <2>2 DEF LeftOver
    <3>. QED BY <3>1, <3>2
  <2>5. CASE i = 3
    <3>1. timers[i] = "scan" /\ timers[1] = "connect"
      BY <1>10, <2>5, Places
    <3>2. 1 \in 1 .. i - 1
      BY <2>5
    <3>. QED BY <1>2, <3>1, <3>2, ExpiredBehind
  <2>. QED BY <1>10, <2>3, <2>4, <2>5, Lengths
<1>11. ASSUME NEW x \in {"pair", "ready"}, discovering, current_best_device # None,
              timers = <<"scan", x>>
       PROVE  LeftOver(timers[i], Fired(i))
  <2>1. CASE i = 1
    <3>1. timers[i] = "scan" /\ Fired(i) = <<x>>
      BY <1>11, <2>1, Places, Removed DEF Fired
    <3>2. LeftOver("scan", <<x>>)
      BY <1>2, <1>11 DEF LeftOver, Rests
    <3>. QED BY <3>1, <3>2
  <2>2. CASE i = 2
    <3>1. timers[i] = x /\ timers[1] = "scan" /\ Fired(i) = <<"scan">>
      BY <1>11, <2>2, Places, Removed DEF Fired
    <3>2. 1 \in 1 .. i - 1
      BY <2>2
    <3>3. x = "ready"
      BY <3>1, <3>2, ExpiredBehind DEF LongKinds
    <3>4. LeftOver("ready", <<"scan">>)
      BY <1>11 DEF LeftOver, ShapeOf, ScanKinds
    <3>. QED BY <3>1, <3>3, <3>4
  <2>. QED BY <1>11, <2>1, <2>2, Lengths
<1>12. ASSUME NEW x \in {"pair", "ready"}, discovering, current_best_device # None,
              timers = <<"ready", "scan", x>>
       PROVE  LeftOver(timers[i], Fired(i))
  <2>1. CASE i = 1
    <3>1. timers[i] = "ready" /\ Fired(i) = <<"scan", x>>
      BY <1>12, <2>1, Places, Removed DEF Fired
    <3>2. LeftOver("ready", <<"scan", x>>)
      BY <1>12 DEF LeftOver, ShapeOf, ScanKinds
    <3>. QED BY <3>1, <3>2
  <2>2. CASE i \in {2, 3}
    <3>1. timers[1] = "ready" /\ (timers[i] = "scan" \/ timers[i] = x)
      BY <1>12, <2>2, Places
    <3>2. 1 \in 1 .. i - 1
      BY <2>2
    <3>. QED BY <3>1, <3>2, ExpiredBehind DEF LongKinds
  <2>. QED BY <1>12, <2>1, <2>2, Lengths
<1>. QED
  BY <1>3, <1>4, <1>5, <1>6, <1>7, <1>8, <1>9, <1>10, <1>11, <1>12, ShapeCases

\* Room for one more
LEMMA RestsTakeOne ==
    /\ \A f \in Rests, x \in Others : Append(f, x) \in Queues
    /\ \A f \in Singles : Append(f, "ready") \in Queues
    /\ Rests \subseteq Queues /\ Singles \subseteq Queues
<1>1. "ready" \in Others /\ "pair" \in Others
  BY DEF Others
<1>2. ASSUME NEW f \in Rests, NEW x \in Others PROVE Append(f, x) \in Queues
  <2>1. CASE f = << >>
    BY <2>1, QueuesHave, Appended
  <2>2. ASSUME NEW y \in {"pair", "ready"}, f = <<y>> PROVE Append(f, x) \in Queues
    BY <2>2, QueuesHave, Appended
  <2>. QED BY <2>1, <2>2 DEF Rests
<1>3. ASSUME NEW f \in Singles PROVE Append(f, "ready") \in Queues
  <2>1. CASE f = << >>
    BY <1>1, <2>1, QueuesHave, Appended
  <2>2. ASSUME NEW y \in Others, f = <<y>> PROVE Append(f, "ready") \in Queues
    <3>1. Append(f, "ready") = <<y, "ready">>
      BY <2>2, Appended
    <3>. QED BY <1>1, <2>2, <3>1, QueuesHave DEF Others
  <2>. QED BY <2>1, <2>2 DEF Singles
<1>4. Rests \subseteq Queues
  BY <1>1, QueuesHave DEF Rests
<1>5. Singles \subseteq Queues
  BY QueuesHave DEF Singles
<1>. QED BY <1>2, <1>3, <1>4, <1>5

\* A handler that ends in discover(): what it begins has dropped the connection.
LEMMA DiscoverShape ==
    ASSUME NEW q, ShapeOf(discovering, connectedDevice, current_best_device, q),
           NEW c \in {None, connectedDevice}, NEW ls, Discover(q, c, ls)
    PROVE  Shape'
<1>1. CASE discovering
  BY <1>1 DEF Discover, Shape, ShapeOf
<1>2. CASE ~discovering
  BY <1>2 DEF Discover, BeginDiscovery, Shape, ShapeOf
<1>. QED BY <1>1, <1>2

\* A pairing on a node just connected arms one timer.
LEMMA PairFirstArms ==
    ASSUME NEW q, NEW c, NEW ls, PairFirst(q, c, ls)
    PROVE  \E x \in {"pair", "ready"} : timers' = Append(q, x)
BY DEF PairFirst, Paired, PairRefused

\* Each timer of the mesh keeps to the shapes.
LEMMA TimersShape ==
    ASSUME TypeOK, Shape, NEW i \in DOMAIN timers, MeshTimer(i)
    PROVE  Shape'
<1>1. Expired(i)
  BY DEF MeshTimer, ScanFindsNothing, ScanConnects, ScanConnectFails, ScanEnds,
         RetryConnects, RetryConnectFails, RetryConnectNull, RetryPairs, RetryPairNull,
         PairAborts
<1>2. LeftOver(timers[i], Fired(i))
  BY <1>1, FiredLeaves
<1>3. ASSUME NEW how, Crash(how) PROVE Shape'
  BY <1>3, QueuesHave DEF Crash, Shape, ShapeOf
<1>4. CASE ScanFindsNothing(i)
  <2>1. timers \in {<<"scan">>, <<"rescan">>}
    BY <1>2, <1>4 DEF ScanFindsNothing, LeftOver
  <2>2. timers' = <<"rescan">>
    <3>1. i = 1
      BY <2>1, Lengths
    <3>2. timers' = [timers EXCEPT ![1] = "rescan"]
      BY <1>4, <3>1 DEF ScanFindsNothing
    <3>3. \A x, y : [<<x>> EXCEPT ![1] = y] = <<y>>
      OBVIOUS
    <3>. QED BY <2>1, <3>2, <3>3
  <2>3. discovering' = discovering /\ discovering
    <3>1. timers[i] \in ScanKinds /\ discovering' = discovering
      BY <1>4 DEF ScanFindsNothing
    <3>2. ASSUME ~discovering PROVE FALSE
      BY <2>1, <3>2, QueueCases, Places, Lengths DEF Shape, ShapeOf, Others
    <3>. QED BY <3>1, <3>2
  <2>. QED BY <2>2, <2>3 DEF Shape, ShapeOf
<1>5. CASE ScanConnects(i) \/ ScanConnectFails(i)
  <2>1. timers[i] \in ScanKinds /\ discovering' = FALSE
    BY <1>5 DEF ScanConnects, ScanConnectFails, ScanEnds
  <2>2. \E x \in Others : timers' = Append(Fired(i), x)
    BY <1>5, PairFirstArms DEF ScanConnects, ScanConnectFails, Others
  <2>3. Fired(i) \in Rests
    BY <1>2, <2>1 DEF LeftOver
  <2>4. timers' \in Queues
    BY <2>2, <2>3, RestsTakeOne
  <2>. QED BY <2>1, <2>4 DEF Shape, ShapeOf
<1>6. CASE RetryConnects(i)
  <2>1. PICK x \in {"pair", "ready"} : timers' = Append(Fired(i), x)
    BY <1>6, PairFirstArms DEF RetryConnects
  <2>2. /\ timers[i] = "connect" /\ current_best_device # None
        /\ UNCHANGED <<discovering, current_best_device>>
    BY <1>6 DEF RetryConnects
  <2>3. CASE discovering
    <3>1. Fired(i) \in {<<"scan">>, <<"ready", "scan">>}
      BY <1>2, <2>2, <2>3 DEF LeftOver
    <3>2. CASE Fired(i) = <<"scan">>
      BY <2>1, <2>2, <2>3, <3>2, Appended DEF Shape, ShapeOf
    <3>3. CASE Fired(i) = <<"ready", "scan">>
      BY <2>1, <2>2, <2>3, <3>3, Appended DEF Shape, ShapeOf
    <3>. QED BY <3>1, <3>2, <3>3
  <2>4. CASE ~discovering
    <3>1. Fired(i) \in Rests
      BY <1>2, <2>2, <2>4 DEF LeftOver, Rests
    <3>2. timers' \in Queues
      BY <2>1, <3>1, RestsTakeOne DEF Others
    <3>. QED BY <2>2, <2>4, <3>2 DEF Shape, ShapeOf
  <2>. QED BY <2>3, <2>4
<1>7. CASE RetryConnectFails(i)
  <2>1. timers[i] \notin ScanKinds /\ Discover(Fired(i), connectedDevice, links)
    BY <1>7 DEF RetryConnectFails, ScanKinds
  <2>2. ShapeOf(discovering, connectedDevice, current_best_device, Fired(i))
    BY <1>2, <2>1 DEF LeftOver
  <2>. QED BY <2>1, <2>2, DiscoverShape
<1>8. CASE RetryPairs(i)
  <2>1. timers[i] = "pair" /\ connectedDevice # None
    BY <1>8 DEF RetryPairs
  <2>2. ~discovering /\ Fired(i) \in Singles
    BY <1>2, <2>1 DEF LeftOver
  <2>3. CASE Paired(Fired(i), connectedDevice, links) /\ UNCHANGED discovering
    <3>1. timers' \in Queues
      BY <2>2, <2>3, RestsTakeOne DEF Paired
    <3>. QED BY <2>2, <2>3, <3>1 DEF Shape, ShapeOf
  <2>4. CASE Discover(Fired(i), connectedDevice, links)
    <3>1. ShapeOf(discovering, connectedDevice, current_best_device, Fired(i))
      BY <2>2, RestsTakeOne DEF ShapeOf
    <3>. QED BY <2>4, <3>1, DiscoverShape
  <2>. QED BY <1>8, <2>3, <2>4 DEF RetryPairs
<1>9. CASE RetryConnectNull(i) \/ RetryPairNull(i) \/ PairAborts(i)
  BY <1>3, <1>9 DEF RetryConnectNull, RetryPairNull, PairAborts, PairThrows
<1>. QED BY <1>4, <1>5, <1>6, <1>7, <1>8, <1>9 DEF MeshTimer

\* A send arms nothing but the timeout of a discovery.
LEMMA SendShape ==
    ASSUME NEW q, ShapeOf(discovering, connectedDevice, current_best_device, q),
           SendDelivers(q) \/ SendBreaks(q)
    PROVE  Shape'
<1>1. CASE SendDelivers(q)
  BY <1>1 DEF SendDelivers, Shape
<1>2. CASE SendBreaks(q)
  BY <1>2, DiscoverShape DEF SendBreaks
<1>. QED BY <1>1, <1>2

\* So does every other step.
LEMMA NextShape ==
    ASSUME TypeOK, Shape, [MeshNext]_meshVars
    PROVE  Shape'
<1>1. ASSUME NEW how, Crash(how) PROVE Shape'
  BY <1>1, QueuesHave DEF Crash, Shape, ShapeOf
<1>2. ASSUME NEW i \in DOMAIN timers, MeshTimer(i) PROVE Shape'
  BY <1>2, TimersShape
<1>3. ASSUME NEW i \in DOMAIN timers, ReadyFires(i) PROVE Shape'
  <2>1. LeftOver(timers[i], Fired(i)) /\ timers[i] \notin ScanKinds
    BY <1>3, FiredLeaves DEF ReadyFires, ScanKinds
  <2>2. ShapeOf(discovering, connectedDevice, current_best_device, Fired(i))
    BY <2>1 DEF LeftOver
  <2>3. CASE /\ timers' = Fired(i)
             /\ UNCHANGED <<discovering, current_best_device, connectedDevice>>
    BY <2>2, <2>3 DEF Shape
  <2>4. CASE SendDelivers(Fired(i)) \/ SendBreaks(Fired(i))
    BY <2>2, <2>4, SendShape
  <2>5. CASE SendKeyless
    BY <1>1, <2>5 DEF SendKeyless
  <2>. QED BY <1>3, <2>3, <2>4, <2>5 DEF ReadyFires
<1>4. CASE PollNotReady
  BY <1>4, DiscoverShape DEF PollNotReady, Shape
<1>5. CASE PollAndSend
  <2>1. CASE SendDelivers(timers) \/ SendBreaks(timers)
    BY <2>1, SendShape DEF Shape
  <2>2. CASE SendKeyless
    BY <1>1, <2>2 DEF SendKeyless
  <2>. QED BY <1>5, <2>1, <2>2 DEF PollAndSend
<1>6. ASSUME NEW d \in Devices, NEW r \in RSSIs, RssiReport(d, r) PROVE Shape'
  <2>1. current_best_device' \in Best /\ current_best_device' # None
    BY <1>6, NoneIsNothing DEF RssiReport, Best
  <2>. QED BY <1>6, <2>1 DEF RssiReport, Shape, ShapeOf
<1>7. CASE ReportAborts
  BY <1>1, <1>7 DEF ReportAborts
<1>8. CASE (\E d \in Devices : LinkLoss(d)) \/ Restart \/ UNCHANGED meshVars
  BY <1>8 DEF LinkLoss, Restart, meshVars, stateVars, Shape
<1>. QED BY <1>2, <1>3, <1>4, <1>5, <1>6, <1>7, <1>8 DEF MeshNext

\* Nothing cancels a timer (telink_mesh.cpp arms them in discover, connect and
\* pair), and yet there are never more than three: a discovery takes the
\* connection away with which the pending ones could arm others.
THEOREM TimersStayFew == MeshSpec => []TimersBounded
<1>1. MeshInit => Shape
  BY QueuesHave DEF MeshInit, Shape, ShapeOf
<1>2. TypeOK /\ Shape /\ [MeshNext]_meshVars => Shape'
  BY NextShape
<1>. QED BY TypeCorrect, ShapeBounds, <1>1, <1>2, PTL DEF MeshSpec
=============================================================================

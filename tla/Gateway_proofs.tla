-------------------------- MODULE Gateway_proofs --------------------------
(***************************************************************************)
(* Theorems of Gateway for every set of nodes, signal strengths, commands, *)
(* numbers of packets and faults: each step of the Gateway is a step (or a *)
(* stutter) of the mesh under it, so the theorems about the mesh hold of   *)
(* the composition; its own invariants; and it implements CommandSlot.     *)
(***************************************************************************)
EXTENDS Gateway, TelinkMesh_proofs

Retry == [cmd : Commands, retry : 0 .. maxRetries - 1]

\* The inductive invariant of the Gateway's own variables.
GwInv ==
    /\ GatewayTypeOK
    /\ OneDeferred
    /\ consuming <=> ~Deferred
    /\ consuming => mqtt_enabled
-----------------------------------------------------------------------------
(* Where a command may wait.                                                *)

\* While messages are consumed there is neither a callback nor a retry timer.
LEMMA IdleShape ==
    ASSUME GwInv, consuming
    PROVE  callback_on_ready = None /\ retry_timers = << >>
  BY DEF GwInv, Deferred

\* A callback leaves no room for a retry timer.
LEMMA CallbackShape ==
    ASSUME GwInv, callback_on_ready # None
    PROVE  retry_timers = << >> /\ ~consuming
<1>1. retry_timers \in Seq(Retry) /\ Len(retry_timers) \in Nat
  BY DEF GwInv, GatewayTypeOK, Retry
<1>2. Len(retry_timers) + 1 <= 1
  BY DEF GwInv, OneDeferred
<1>3. Len(retry_timers) = 0
  BY <1>1, <1>2
<1>. QED BY <1>1, <1>3, EmptySeq DEF GwInv, Deferred

\* A retry timer is the only one, and leaves no room for a callback.
LEMMA TimerShape ==
    ASSUME GwInv, NEW j \in DOMAIN retry_timers
    PROVE  /\ callback_on_ready = None /\ ~consuming
           /\ j = 1 /\ retry_timers # << >>
           /\ retry_timers[1] \in Retry
           /\ Head(retry_timers) = retry_timers[1]
           /\ RemoveAt(retry_timers, j) = << >>
<1>1. retry_timers \in Seq(Retry) /\ Len(retry_timers) \in Nat /\ j \in 1 .. Len(retry_timers)
  BY DEF GwInv, GatewayTypeOK, Retry
<1>2. callback_on_ready = None /\ Len(retry_timers) = 1
  <2>. DEFINE len == Len(retry_timers)
              other == IF callback_on_ready = None THEN 0 ELSE 1
  <2>1. len + other <= 1 /\ len \in Nat /\ len >= 1
    BY <1>1 DEF GwInv, OneDeferred
  <2>2. callback_on_ready # None => other = 1
    OBVIOUS
  <2>3. other \in {0, 1}
    OBVIOUS
  <2>. HIDE DEF len, other
  <2>4. other = 0 /\ len = 1
    BY <2>1, <2>3
  <2>. QED BY <2>2, <2>4 DEF len
<1>3. retry_timers # << >> /\ Head(retry_timers) = retry_timers[1] /\ j = 1
      /\ retry_timers[1] \in Retry
  BY <1>1, <1>2
<1>4. RemoveAt(retry_timers, j) \in Seq(Retry) /\ Len(RemoveAt(retry_timers, j)) = 0
  BY <1>1, <1>2, RemoveAtElements
<1>. QED BY <1>2, <1>3, <1>4, EmptySeq DEF GwInv, Deferred
-----------------------------------------------------------------------------
(* What a step of the Gateway may do to a command and to consumption.       *)

Stays ==
    /\ mqtt_enabled' \in {TRUE, mqtt_enabled}
    /\ UNCHANGED <<callback_on_ready, consuming, retry_timers, fate>>

AtOnce ==
    /\ consuming
    /\ mqtt_enabled' = TRUE
    /\ fate' \in {"sent", "lost"}
    /\ UNCHANGED <<callback_on_ready, consuming, retry_timers>>

Defers(cmd) ==
    /\ consuming /\ consuming' = FALSE
    /\ mqtt_enabled' = FALSE
    /\ callback_on_ready' = [cmd |-> cmd, retry |-> 0]
    /\ retry_timers' = << >>
    /\ UNCHANGED fate

\* Sending cmd has failed after n failures of before.
Fails(cmd, n) ==
    /\ n \in 0 .. maxRetries - 1
    /\ consuming' = FALSE
    /\ mqtt_enabled' \in {FALSE, mqtt_enabled}
    /\ callback_on_ready' = None
    /\ retry_timers' = Append(<< >>, [cmd |-> cmd, retry |-> n])
    /\ UNCHANGED fate

FailsFirst(cmd) == consuming /\ Fails(cmd, 0)

FailsAgain == Deferred /\ Fails(Waiting, Failures)

\* From a retry timer into the callback.
Moves ==
    /\ retry_timers # << >>
    /\ callback_on_ready = None
    /\ callback_on_ready' = [cmd |-> Waiting, retry |-> Failures]
    /\ retry_timers' = << >>
    /\ UNCHANGED <<mqtt_enabled, consuming, fate>>

Leaves ==
    /\ Deferred
    /\ fate' \in {"sent", "lost", "dropped"}
    /\ fate' = "dropped" => Failures = maxRetries
    /\ consuming' = TRUE
    /\ mqtt_enabled' = TRUE
    /\ callback_on_ready' = None
    /\ retry_timers' = << >>

Effect ==
    \/ Stays
    \/ AtOnce
    \/ \E cmd \in Commands : Defers(cmd) \/ FailsFirst(cmd)
    \/ FailsAgain
    \/ Moves
    \/ Leaves

\* A crash loses what waits, and nothing else.
LEMMA CrashEffect ==
    ASSUME GwInv, NEW how, Crash(how), GatewayCrash(Deferred)
    PROVE  Stays \/ Leaves
<1>1. CASE Deferred
  BY <1>1 DEF Crash, GatewayCrash, Leaves
<1>2. CASE ~Deferred
  <2>1. consuming = TRUE /\ mqtt_enabled = TRUE
    BY <1>2 DEF GwInv, GatewayTypeOK
  <2>. QED BY <1>2, <2>1 DEF Crash, GatewayCrash, Stays, Deferred
<1>. QED BY <1>1, <1>2

\* The packets of a command that waited: sent, failed again, or dropped.
LEMMA AttemptEffect ==
    ASSUME GwInv, Deferred, NEW q,
           callback_on_ready' = None,
           Failures \in 0 .. maxRetries,
           DeferredAttempt(Waiting, Failures, q, << >>)
    PROVE  FailsAgain \/ Leaves
<1>1. consuming = FALSE
  BY DEF GwInv, GatewayTypeOK
<1>2. CASE Resume(<< >>, "sent")
  BY <1>2 DEF Resume, Leaves
<1>3. CASE SendFailed(Waiting, Failures, << >>)
  <2>1. CASE Failures < maxRetries
    <3>1. Failures \in 0 .. maxRetries - 1
      BY <2>1 DEF maxRetries
    <3>. QED BY <1>1, <1>3, <2>1, <3>1 DEF SendFailed, FailsAgain, Fails
  <2>2. CASE ~(Failures < maxRetries)
    <3>1. Failures = maxRetries
      BY <2>2 DEF maxRetries
    <3>. QED BY <1>3, <2>2, <3>1 DEF SendFailed, Resume, Leaves
  <2>. QED BY <2>1, <2>2
<1>. QED BY <1>2, <1>3 DEF DeferredAttempt

LEMMA MqttEffect ==
    ASSUME GwInv, NEW cmd \in Commands, MqttSends(cmd) \/ MqttDefers(cmd)
    PROVE  Effect
<1>1. consuming = TRUE /\ mqtt_enabled = TRUE
  BY DEF MqttSends, MqttDefers, MqttIdle, GwInv, GatewayTypeOK
<1>2. callback_on_ready = None /\ retry_timers = << >>
  BY <1>1, IdleShape
<1>3. CASE MqttDefers(cmd)
  BY <1>1, <1>2, <1>3 DEF MqttDefers, Defers, Effect
<1>4. CASE MqttSends(cmd)
  <2>1. CASE SendFatal(cmd)
    BY <1>1, <1>2, <2>1 DEF SendFatal, SendKeyless, Crash, GatewayCrash, AtOnce, Effect
  <2>2. CASE /\ fate' = "sent"
             /\ UNCHANGED <<proc, callback_on_ready, mqtt_enabled, consuming, retry_timers>>
    BY <1>1, <2>2 DEF AtOnce, Effect
  <2>3. CASE /\ mqtt_enabled' = FALSE
             /\ consuming' = FALSE
             /\ retry_timers' = Append(retry_timers, [cmd |-> cmd, retry |-> 0])
             /\ UNCHANGED <<proc, callback_on_ready, fate>>
    <3>1. 0 \in 0 .. maxRetries - 1
      BY DEF maxRetries
    <3>2. Fails(cmd, 0)
      BY <1>2, <2>3, <3>1 DEF Fails
    <3>. QED BY <1>1, <3>2 DEF FailsFirst, Effect
  <2>4. \/ SendFatal(cmd)
        \/ /\ fate' = "sent"
           /\ UNCHANGED <<proc, callback_on_ready, mqtt_enabled, consuming, retry_timers>>
        \/ /\ mqtt_enabled' = FALSE
           /\ consuming' = FALSE
           /\ retry_timers' = Append(retry_timers, [cmd |-> cmd, retry |-> 0])
           /\ UNCHANGED <<proc, callback_on_ready, fate>>
    BY <1>4 DEF MqttSends
  <2>. QED BY <2>1, <2>2, <2>3, <2>4
<1>. QED BY <1>3, <1>4

LEMMA RetryEffect ==
    ASSUME GwInv, NEW j \in DOMAIN retry_timers, RetryTimer(j)
    PROVE  Effect
<1>1. /\ callback_on_ready = None /\ j = 1 /\ retry_timers # << >>
      /\ Head(retry_timers) = retry_timers[1]
      /\ RemoveAt(retry_timers, j) = << >>
  BY TimerShape
<1>2. retry_timers[1].retry \in 0 .. maxRetries - 1
  BY TimerShape DEF Retry
<1>3. /\ Waiting = retry_timers[j].cmd
      /\ Failures = retry_timers[j].retry + 1
      /\ Failures \in 0 .. maxRetries
      /\ Deferred
  BY <1>1, <1>2 DEF Waiting, Failures, Deferred, maxRetries
<1>4. CASE DeferredAttempt(Waiting, Failures, timers, << >>) /\ UNCHANGED callback_on_ready
  BY <1>1, <1>3, <1>4, AttemptEffect DEF Effect
<1>5. CASE SendFatal(Waiting)
  BY <1>3, <1>5 DEF SendFatal, SendKeyless, Crash, GatewayCrash, Leaves, Effect
<1>6. CASE /\ callback_on_ready' = [cmd |-> Waiting, retry |-> Failures]
           /\ retry_timers' = << >>
           /\ UNCHANGED <<proc, mqtt_enabled, consuming, fate>>
  BY <1>1, <1>6 DEF Moves, Effect
<1>. QED BY <1>1, <1>3, <1>4, <1>5, <1>6 DEF RetryTimer

LEMMA ReadyEffect ==
    ASSUME TypeOK, GwInv, NEW i \in DOMAIN timers, MeshReady(i)
    PROVE  Effect
<1>1. CASE callback_on_ready = None
  BY <1>1 DEF MeshReady, Stays, Effect, gwVars
<1>2. CASE callback_on_ready # None
  <2>1. retry_timers = << >>
    BY <1>2, CallbackShape
  <2>2. callback_on_ready.retry \in 0 .. maxRetries
    BY <1>2, CallbackAssumption DEF TypeOK
  <2>3. /\ Waiting = callback_on_ready.cmd
        /\ Failures = callback_on_ready.retry
        /\ Failures \in 0 .. maxRetries
        /\ Deferred
    BY <1>2, <2>2 DEF Waiting, Failures, Deferred
  <2>4. CASE callback_on_ready' = None /\ DeferredAttempt(Waiting, Failures, Fired(i), << >>)
    BY <2>3, <2>4, AttemptEffect DEF Effect
  <2>5. CASE SendFatal(Waiting)
    BY <2>3, <2>5 DEF SendFatal, SendKeyless, Crash, GatewayCrash, Leaves, Effect
  <2>. QED BY <1>2, <2>1, <2>3, <2>4, <2>5 DEF MeshReady
<1>. QED BY <1>1, <1>2

LEMMA HeartbeatEffect ==
    ASSUME GwInv, Heartbeat
    PROVE  Effect
<1>1. CASE SendKeyless /\ GatewayCrash(Deferred)
  BY <1>1, CrashEffect DEF SendKeyless, Effect
<1>2. CASE /\ mqtt_enabled' = TRUE \/ UNCHANGED mqtt_enabled
           /\ UNCHANGED <<callback_on_ready, consuming, retry_timers, fate>>
  BY <1>2 DEF Stays, Effect
<1>. QED BY <1>1, <1>2 DEF Heartbeat, SendIfReady, gwVars

\* The timers of the mesh and the world outside only touch a command by crashing.
LEMMA OutsideEffect ==
    ASSUME GwInv,
           \/ \E i \in DOMAIN timers : MeshTimerStep(i)
           \/ World
           \/ UNCHANGED vars
    PROVE  Effect
<1>1. ASSUME NEW i \in DOMAIN timers, MeshTimerStep(i), proc' = "running"
      PROVE  UNCHANGED <<callback_on_ready, gwVars>>
  <2>. UNCHANGED gwVars
    BY <1>1 DEF MeshTimerStep
  <2>. UNCHANGED callback_on_ready
    BY <1>1 DEF MeshTimerStep, MeshTimer, ScanFindsNothing, ScanConnects, ScanConnectFails,
       RetryConnects, RetryConnectFails, RetryConnectNull, RetryPairs, RetryPairNull,
       PairAborts, PairFirst, PairThrows, Crash
  <2>. QED OBVIOUS
<1>2. ASSUME NEW i \in DOMAIN timers, MeshTimerStep(i), proc' # "running"
      PROVE  GatewayCrash(Deferred) /\ \E how : Crash(how)
  <2>1. MeshTimer(i) /\ GatewayCrash(Deferred)
    BY <1>2 DEF MeshTimerStep
  <2>2. proc = "running"
    BY <2>1 DEF MeshTimer, ScanFindsNothing, ScanConnects, ScanConnectFails, ScanEnds,
       RetryConnects, RetryConnectFails, RetryConnectNull, RetryPairs, RetryPairNull,
       PairAborts, Expired
  <2>3. RetryConnectNull(i) \/ RetryPairNull(i) \/ PairAborts(i)
    BY <1>2, <2>1, <2>2 DEF MeshTimer, ScanFindsNothing, ScanConnects, ScanConnectFails,
       RetryConnects, RetryConnectFails, RetryPairs, PairFirst
  <2>. QED BY <2>1, <2>3 DEF RetryConnectNull, RetryPairNull, PairAborts, PairThrows
<1>3. CASE World
  <2>1. CASE ReportAborts /\ GatewayCrash(Deferred)
    BY <2>1, CrashEffect DEF ReportAborts, Effect
  <2>2. CASE UNCHANGED gwVars /\ UNCHANGED callback_on_ready
    BY <2>2 DEF Stays, Effect, gwVars
  <2>. QED BY <1>3, <2>1, <2>2 DEF World, RssiReport, LinkLoss, Restart
<1>4. CASE UNCHANGED <<callback_on_ready, gwVars>>
  BY <1>4 DEF Stays, Effect, gwVars
<1>5. CASE UNCHANGED vars
  BY <1>4, <1>5 DEF vars, meshVars
<1>. QED BY <1>1, <1>2, <1>3, <1>4, <1>5, CrashEffect DEF Effect

LEMMA NextEffect == TypeOK /\ GwInv /\ [Next]_vars => Effect
  BY MqttEffect, RetryEffect, ReadyEffect, HeartbeatEffect, OutsideEffect DEF Next
-----------------------------------------------------------------------------
(* Each effect keeps the Gateway's invariant.                               *)

LEMMA WaitingType ==
    ASSUME TypeOK, GwInv, Deferred
    PROVE  Waiting \in Commands /\ Failures \in 0 .. maxRetries
<1>1. CASE callback_on_ready # None
  <2>1. callback_on_ready \in [cmd : Commands, retry : 0 .. maxRetries]
    BY <1>1, CallbackAssumption DEF TypeOK
  <2>. QED BY <1>1, <2>1 DEF Waiting, Failures
<1>2. CASE callback_on_ready = None
  <2>1. retry_timers \in Seq(Retry) /\ retry_timers # << >>
    BY <1>2 DEF Deferred, GwInv, GatewayTypeOK, Retry
  <2>2. Head(retry_timers) \in Retry
    BY <2>1
  <2>. QED BY <1>2, <2>1, <2>2 DEF Waiting, Failures, Retry, maxRetries
<1>. QED BY <1>1, <1>2

LEMMA EffectKeepsGwInv ==
    ASSUME TypeOK, GwInv, Effect
    PROVE  GwInv'
<1>1. CASE Stays \/ AtOnce
  <2>1. /\ mqtt_enabled' \in BOOLEAN
        /\ mqtt_enabled => mqtt_enabled' = TRUE
        /\ fate' \in {"none", "sent", "dropped", "lost"}
    BY <1>1 DEF Stays, AtOnce, GwInv, GatewayTypeOK
  <2>2. UNCHANGED <<callback_on_ready, consuming, retry_timers>>
    BY <1>1 DEF Stays, AtOnce
  <2>3. GatewayTypeOK' /\ (consuming' => mqtt_enabled')
    BY <2>1, <2>2 DEF GwInv, GatewayTypeOK
  <2>4. OneDeferred' /\ (consuming' <=> ~Deferred')
    BY <2>2 DEF GwInv, OneDeferred, Deferred
  <2>. QED BY <2>3, <2>4 DEF GwInv
<1>2. ASSUME NEW cmd \in Commands, Defers(cmd) PROVE GwInv'
  <2>1. << >> \in Seq(Retry) /\ Len(<< >>) = 0
    BY EmptySeq
  <2>2. [cmd |-> cmd, retry |-> 0] # None
    <3>1. [cmd |-> cmd, retry |-> 0] \in Callbacks
      BY CallbackAssumption DEF maxRetries
    <3>. QED BY <3>1, NoneIsNothing
  <2>3. GatewayTypeOK'
    BY <1>2, <2>1 DEF Defers, GwInv, GatewayTypeOK, Retry
  <2>4. OneDeferred' /\ Deferred' /\ consuming' = FALSE
    BY <1>2, <2>1, <2>2 DEF Defers, OneDeferred, Deferred
  <2>. QED BY <2>3, <2>4 DEF GwInv
<1>3. ASSUME NEW cmd \in Commands, NEW n, Fails(cmd, n) PROVE GwInv'
  <2>. DEFINE r == [cmd |-> cmd, retry |-> n]
  <2>1. r \in Retry
    BY <1>3 DEF Fails, Retry
  <2>2. << >> \in Seq(Retry) /\ Len(<< >>) = 0
    BY EmptySeq
  <2>. HIDE DEF r
  <2>3. /\ Append(<< >>, r) \in Seq(Retry)
        /\ Len(Append(<< >>, r)) = 1
    BY <2>1, <2>2, AppendProperties
  <2>4. Append(<< >>, r) # << >>
    BY <2>2, <2>3
  <2>5. /\ retry_timers' = Append(<< >>, r)
        /\ callback_on_ready' = None
        /\ consuming' = FALSE
        /\ mqtt_enabled' \in BOOLEAN
        /\ UNCHANGED fate
    BY <1>3 DEF Fails, r, GwInv, GatewayTypeOK
  <2>6. GatewayTypeOK'
    BY <2>3, <2>5 DEF GwInv, GatewayTypeOK, Retry
  <2>7. OneDeferred' /\ Deferred' /\ consuming' = FALSE
    BY <2>3, <2>4, <2>5 DEF OneDeferred, Deferred
  <2>. QED BY <2>6, <2>7 DEF GwInv
<1>4. CASE FailsAgain
  BY <1>3, <1>4, WaitingType DEF FailsAgain
<1>5. CASE Moves
  <2>. DEFINE cb == [cmd |-> Waiting, retry |-> Failures]
  <2>1. cb # None
    <3>1. cb \in Callbacks
      BY <1>5, WaitingType, CallbackAssumption DEF Moves, Deferred
    <3>. QED BY <3>1, NoneIsNothing
  <2>2. << >> \in Seq(Retry) /\ Len(<< >>) = 0
    BY EmptySeq
  <2>3. consuming = FALSE
    BY <1>5 DEF Moves, Deferred, GwInv, GatewayTypeOK
  <2>4. /\ callback_on_ready' = cb
        /\ retry_timers' = << >>
        /\ consuming' = FALSE
        /\ UNCHANGED <<mqtt_enabled, fate>>
    BY <1>5, <2>3 DEF Moves
  <2>. HIDE DEF cb
  <2>5. GatewayTypeOK'
    BY <2>2, <2>4 DEF GwInv, GatewayTypeOK, Retry
  <2>6. OneDeferred' /\ Deferred' /\ consuming' = FALSE
    BY <2>1, <2>2, <2>4 DEF OneDeferred, Deferred
  <2>. QED BY <2>5, <2>6 DEF GwInv
<1>6. CASE Leaves
  <2>1. << >> \in Seq(Retry) /\ Len(<< >>) = 0
    BY EmptySeq
  <2>2. GatewayTypeOK'
    BY <1>6, <2>1 DEF Leaves, GwInv, GatewayTypeOK, Retry
  <2>3. OneDeferred' /\ ~Deferred' /\ mqtt_enabled' = TRUE /\ consuming' = TRUE
    BY <1>6, <2>1 DEF Leaves, OneDeferred, Deferred
  <2>. QED BY <2>2, <2>3 DEF GwInv
<1>. QED BY <1>1, <1>2, <1>3, <1>4, <1>5, <1>6 DEF Effect, FailsFirst
-----------------------------------------------------------------------------
(* To the mesh, a handler of the Gateway is a client's call or nothing.     *)

LEMMA SendIsMesh ==
    ASSUME NEW cmd, connectedDevice # None, proc = "running",
           UNCHANGED callback_on_ready,
           \/ (SendAll(cmd, timers) \/ SendSome(cmd, timers)) /\ UNCHANGED proc
           \/ SendFatal(cmd)
    PROVE  [MeshNext]_meshVars
<1>1. CASE Packets[cmd] = 0 /\ SendAll(cmd, timers) /\ UNCHANGED proc
  BY <1>1 DEF SendAll, meshVars, stateVars, radioVars
<1>2. CASE Packets[cmd] # 0 /\ SendAll(cmd, timers) /\ UNCHANGED proc
  BY <1>2 DEF SendAll, MeshNext, PollAndSend
<1>3. CASE SendSome(cmd, timers) /\ UNCHANGED proc
  BY <1>3 DEF SendSome, MeshNext, PollAndSend
<1>4. CASE SendFatal(cmd)
  BY <1>4 DEF SendFatal, MeshNext, PollAndSend
<1>. QED BY <1>1, <1>2, <1>3, <1>4

LEMMA MqttIsMesh ==
    ASSUME GwInv, NEW cmd \in Commands, MqttSends(cmd) \/ MqttDefers(cmd)
    PROVE  [MeshNext]_meshVars
<1>1. proc = "running"
  BY DEF MqttSends, MqttDefers, MqttIdle
<1>2. CASE MqttDefers(cmd)
  <2>1. [cmd |-> cmd, retry |-> 0] \in Callbacks
    BY CallbackAssumption DEF maxRetries
  <2>. QED BY <1>1, <1>2, <2>1 DEF MqttDefers, PollNotReady, MeshNext
<1>3. CASE MqttSends(cmd)
  <2>1. consuming
    BY <1>3 DEF MqttSends, MqttIdle
  <2>2. SendFatal(cmd) => UNCHANGED callback_on_ready
    BY <2>1, IdleShape DEF SendFatal, SendKeyless, Crash
  <2>. QED BY <1>1, <1>3, <2>2, SendIsMesh DEF MqttSends
<1>. QED BY <1>2, <1>3

LEMMA RetryIsMesh ==
    ASSUME GwInv, NEW j \in DOMAIN retry_timers, RetryTimer(j)
    PROVE  [MeshNext]_meshVars
<1>. DEFINE cmd == retry_timers[j].cmd
            n == retry_timers[j].retry + 1
            rs == RemoveAt(retry_timers, j)
<1>1. callback_on_ready = None /\ cmd \in Commands /\ n \in 0 .. maxRetries
  BY TimerShape DEF Retry, maxRetries
<1>2. proc = "running"
  BY DEF RetryTimer
<1>. HIDE DEF cmd, n, rs
<1>3. CASE /\ connectedDevice # None
           /\ DeferredAttempt(cmd, n, timers, rs)
           /\ UNCHANGED callback_on_ready
  BY <1>2, <1>3, SendIsMesh DEF DeferredAttempt
<1>4. CASE connectedDevice # None /\ SendFatal(cmd)
  BY <1>1, <1>2, <1>4, SendIsMesh DEF SendFatal, SendKeyless, Crash
<1>5. CASE /\ connectedDevice = None
           /\ Discover(timers, None, links)
           /\ callback_on_ready' = [cmd |-> cmd, retry |-> n]
           /\ UNCHANGED proc
  <2>1. [cmd |-> cmd, retry |-> n] \in Callbacks
    BY <1>1, CallbackAssumption
  <2>. QED BY <1>2, <1>5, <2>1 DEF PollNotReady, MeshNext
<1>. QED BY <1>3, <1>4, <1>5 DEF RetryTimer, cmd, n, rs

LEMMA ReadyIsMesh ==
    ASSUME NEW i \in DOMAIN timers, MeshReady(i)
    PROVE  [MeshNext]_meshVars
<1>1. Expired(i) /\ timers[i] = "ready"
  BY DEF MeshReady
<1>2. CASE /\ callback_on_ready' = None
           /\ timers' = Fired(i)
           /\ UNCHANGED <<proc, discovering, current_best_device, connectedDevice,
                          radioVars, links>>
  <2>1. ReadyFires(i)
    BY <1>1, <1>2 DEF ReadyFires
  <2>. QED BY <2>1 DEF MeshNext
<1>3. CASE /\ callback_on_ready # None
           /\ callback_on_ready' = None
           /\ SendDelivers(Fired(i)) \/ SendBreaks(Fired(i))
           /\ UNCHANGED proc
  <2>1. ReadyFires(i)
    BY <1>1, <1>3 DEF ReadyFires
  <2>. QED BY <2>1 DEF MeshNext
<1>4. CASE callback_on_ready # None /\ SendKeyless
  <2>1. ReadyFires(i)
    BY <1>1, <1>4 DEF ReadyFires
  <2>. QED BY <2>1 DEF MeshNext
<1>5. CASE callback_on_ready = None
  BY <1>2, <1>5 DEF MeshReady
<1>6. CASE callback_on_ready # None /\ ~SendKeyless
  <2>1. /\ callback_on_ready' = None
        /\ UNCHANGED proc
        /\ \/ SendAll(callback_on_ready.cmd, Fired(i))
           \/ SendSome(callback_on_ready.cmd, Fired(i))
    BY <1>6 DEF MeshReady, DeferredAttempt, SendFatal
  <2>. QED BY <1>2, <1>3, <1>6, <2>1 DEF SendAll, SendSome
<1>. QED BY <1>4, <1>5, <1>6

LEMMA NextIsMesh == GwInv /\ [Next]_vars => [MeshNext]_meshVars
<1>. SUFFICES ASSUME GwInv, [Next]_vars PROVE [MeshNext]_meshVars
  OBVIOUS
<1>1. CASE Heartbeat
  BY <1>1 DEF Heartbeat, SendIfReady, PollAndSend, PollNotReady, SendKeyless, MeshNext
<1>2. CASE World
  BY <1>2 DEF World, MeshNext
<1>3. ASSUME NEW i \in DOMAIN timers, MeshTimerStep(i) PROVE [MeshNext]_meshVars
  BY <1>3 DEF MeshTimerStep, MeshNext
<1>4. CASE UNCHANGED vars
  BY <1>4 DEF vars
<1>. QED BY <1>1, <1>2, <1>3, <1>4, MqttIsMesh, RetryIsMesh, ReadyIsMesh DEF Next
-----------------------------------------------------------------------------
(* The theorems.                                                            *)

LEMMA InitGwInv == Init => GwInv
<1>. SUFFICES ASSUME Init PROVE GwInv
  OBVIOUS
<1>1. << >> \in Seq(Retry) /\ Len(<< >>) = 0
  BY EmptySeq
<1>. QED BY <1>1 DEF Init, MeshInit, GwInv, GatewayTypeOK, OneDeferred, Deferred, Retry

\* The invariants of mesh and Gateway together are inductive: the Gateway's
\* types need those of the callback, and the mesh's steps need a legal callback.
THEOREM GatewayInvariance == Spec => [](IInv /\ GwInv)
<1>1. Init => IInv /\ GwInv
  BY InitIInv, InitGwInv DEF Init
<1>2. IInv /\ GwInv /\ [Next]_vars => (IInv /\ GwInv)'
  <2>. SUFFICES ASSUME IInv, GwInv, [Next]_vars PROVE IInv' /\ GwInv'
    OBVIOUS
  <2>1. IInv'
    BY NextIsMesh, NextIInv
  <2>2. TypeOK
    BY DEF IInv
  <2>3. GwInv'
    BY <2>2, NextEffect, EffectKeepsGwInv
  <2>. QED BY <2>1, <2>3
<1>. QED BY <1>1, <1>2, PTL DEF Spec

\* What gateway.h keeps, and what its retry timers hold, has its type: no retry
\* counts beyond the last.
THEOREM GatewayTypeCorrect == Spec => []GatewayTypeOK
<1>1. GwInv => GatewayTypeOK
  BY DEF GwInv
<1>. QED BY <1>1, GatewayInvariance, PTL

\* The Gateway uses the mesh as a client may: every theorem about MeshSpec holds
\* of the composition.
THEOREM GatewayUsesMesh == Spec => MeshSpec
<1>1. Init => MeshInit
  BY DEF Init
<1>2. GwInv /\ [Next]_vars => [MeshNext]_meshVars
  BY NextIsMesh
<1>. QED BY <1>1, <1>2, GatewayInvariance, PTL DEF Spec, MeshSpec

\* Messages are consumed exactly while no command is deferred (gateway.h 106-179).
THEOREM AlwaysConsumingIffIdle == Spec => []ConsumingIffIdle
<1>1. GwInv => ConsumingIffIdle
  BY DEF GwInv, ConsumingIffIdle
<1>. QED BY <1>1, GatewayInvariance, PTL

\* onMqttMessage never throws a message away (gateway.h 108-112).
THEOREM AlwaysEnabledWhileConsuming == Spec => []EnabledWhileConsuming
<1>1. GwInv => EnabledWhileConsuming
  BY DEF GwInv, EnabledWhileConsuming
<1>. QED BY <1>1, GatewayInvariance, PTL

\* The callback slot and the retry timers hold one command between them.
THEOREM AlwaysOneDeferred == Spec => []OneDeferred
<1>1. GwInv => OneDeferred
  BY DEF GwInv
<1>. QED BY <1>1, GatewayInvariance, PTL
-----------------------------------------------------------------------------
(* The abstract slot.                                                       *)

LEMMA IdleSlot ==
    ASSUME callback_on_ready = None, retry_timers = << >>
    PROVE  Waiting = None /\ Failures = 0
  BY DEF Waiting, Failures

\* A new callback is what waits, with the failures it records.
LEMMA CallbackSlot ==
    ASSUME NEW cmd \in Commands, NEW n \in 0 .. maxRetries,
           callback_on_ready' = [cmd |-> cmd, retry |-> n]
    PROVE  Waiting' = cmd /\ Failures' = n
<1>1. [cmd |-> cmd, retry |-> n] # None
  <2>1. [cmd |-> cmd, retry |-> n] \in Callbacks
    BY CallbackAssumption
  <2>. QED BY <2>1, NoneIsNothing
<1>. QED BY <1>1 DEF Waiting, Failures

\* A new retry timer stands for one failure more than it had before.
LEMMA FailsSlot ==
    ASSUME NEW cmd \in Commands, NEW n, Fails(cmd, n)
    PROVE  Waiting' = cmd /\ Failures' = n + 1
<1>. DEFINE r == [cmd |-> cmd, retry |-> n]
<1>1. r \in Retry
  BY DEF Fails, Retry
<1>2. r.cmd = cmd /\ r.retry = n
  OBVIOUS
<1>3. callback_on_ready' = None /\ retry_timers' = Append(<< >>, r)
  BY DEF Fails
<1>. HIDE DEF r
<1>4. /\ Append(<< >>, r) \in Seq(Retry)
      /\ Len(Append(<< >>, r)) = 1
      /\ Append(<< >>, r)[1] = r
  BY <1>1, EmptySeq, AppendProperties
<1>5. Append(<< >>, r) # << >> /\ Head(Append(<< >>, r)) = r
  BY <1>4
<1>. QED BY <1>2, <1>3, <1>5 DEF Waiting, Failures

LEMMA EffectIsSlotStep ==
    ASSUME TypeOK, GwInv, Effect
    PROVE  [Slot!Next]_(Slot!vars)
<1>1. CASE Stays
  BY <1>1 DEF Stays, Waiting, Failures, Slot!vars
<1>2. CASE AtOnce
  <2>1. callback_on_ready = None /\ retry_timers = << >>
    BY <1>2, IdleShape DEF AtOnce
  <2>2. Waiting = None /\ Waiting' = None /\ Failures' = Failures
    BY <1>2, <2>1 DEF AtOnce, Waiting, Failures
  <2>. QED BY <1>2, <2>2 DEF AtOnce, Slot!Next, Slot!SendAtOnce, Slot!LoseAtOnce
<1>3. ASSUME NEW cmd \in Commands, Defers(cmd) PROVE Slot!Next
  <2>1. Waiting = None
    BY <1>3, IdleShape, IdleSlot DEF Defers
  <2>2. Waiting' = cmd /\ Failures' = 0
    <3>1. 0 \in 0 .. maxRetries
      BY DEF maxRetries
    <3>2. callback_on_ready' = [cmd |-> cmd, retry |-> 0]
      BY <1>3 DEF Defers
    <3>. QED BY <3>1, <3>2, CallbackSlot
  <2>. QED BY <1>3, <2>1, <2>2 DEF Defers, Slot!Next, Slot!Defer
<1>4. ASSUME NEW cmd \in Commands, FailsFirst(cmd) PROVE Slot!Next
  <2>1. Waiting = None
    BY <1>4, IdleShape, IdleSlot DEF FailsFirst
  <2>2. Waiting' = cmd /\ Failures' = 1
    BY <1>4, FailsSlot DEF FailsFirst
  <2>. QED BY <1>4, <2>1, <2>2 DEF FailsFirst, Fails, Slot!Next, Slot!Defer
<1>5. CASE FailsAgain
  <2>1. Waiting \in Commands /\ Waiting # None /\ Failures \in 0 .. maxRetries - 1
    BY <1>5, WaitingType, CommandsAssumption DEF FailsAgain, Fails
  <2>2. Waiting' = Waiting /\ Failures' = Failures + 1 /\ UNCHANGED fate
    BY <1>5, <2>1, FailsSlot DEF FailsAgain, Fails
  <2>3. Failures < maxRetries
    BY <2>1 DEF maxRetries
  <2>. QED BY <2>1, <2>2, <2>3 DEF Slot!Next, Slot!FailAgain
<1>6. CASE Moves
  <2>1. Waiting \in Commands /\ Failures \in 0 .. maxRetries
    BY <1>6, WaitingType DEF Moves, Deferred
  <2>2. Waiting' = Waiting /\ Failures' = Failures /\ UNCHANGED fate
    BY <1>6, <2>1, CallbackSlot DEF Moves
  <2>. QED BY <2>2 DEF Slot!vars
<1>7. CASE Leaves
  <2>1. Waiting # None
    BY <1>7, WaitingType, CommandsAssumption DEF Leaves
  <2>2. Waiting' = None /\ Failures' = 0
    BY <1>7 DEF Leaves, Waiting, Failures
  <2>3. Slot!Leave(fate')
    BY <2>1, <2>2 DEF Slot!Leave
  <2>. QED BY <1>7, <2>3 DEF Leaves, Slot!Next, Slot!Send, Slot!Drop, Slot!Lose
<1>. QED BY <1>1, <1>2, <1>3, <1>4, <1>5, <1>6, <1>7 DEF Effect

\* One slot, in order, all retries: the Gateway (gateway.h 106-179) implements
\* CommandSlot, for all commands, packets, nodes and faults.
THEOREM GatewayImplementsSlot == Spec => SlotSpec
<1>1. Init => Slot!Init
  BY IdleSlot DEF Init, MeshInit, Slot!Init
<1>2. IInv /\ GwInv /\ [Next]_vars => [Slot!Next]_(Slot!vars)
  <2>1. IInv => TypeOK
    BY DEF IInv
  <2>. QED BY <2>1, NextEffect, EffectIsSlotStep
<1>. QED BY <1>1, <1>2, GatewayInvariance, PTL DEF Spec, SlotSpec, Slot!Spec
-----------------------------------------------------------------------------
(* A waiting callback has a driver.                                         *)

\* A step that resets or fails a connection begins a discovery, or one runs.
LEMMA NextDrives ==
    ASSUME IInv, DeferredHasDriver, [MeshNext]_meshVars
    PROVE  DeferredHasDriver'
<1>. DEFINE Drives == \/ callback_on_ready' = None
                      \/ connectedDevice' # None
                      \/ discovering' = TRUE
<1>1. Drives => DeferredHasDriver'
  BY DEF DeferredHasDriver
<1>2. ASSUME NEW q, NEW c, NEW ls, Discover(q, c, ls) PROVE Drives
  <2>1. discovering \in BOOLEAN
    BY DEF IInv, TypeOK
  <2>. QED BY <1>2, <2>1 DEF Discover, BeginDiscovery
<1>3. ASSUME NEW how, Crash(how) PROVE Drives
  BY <1>3 DEF Crash
<1>4. ASSUME NEW q, NEW ls, PairFirst(q, NewConn, ls), current_best_device # None
      PROVE  Drives
  <2>1. NewConn \in Conn
    BY <1>4, RelinkedType DEF IInv
  <2>2. connectedDevice' \in Conn
    BY <1>4, <2>1 DEF PairFirst, Paired, PairRefused, Conn
  <2>. QED BY <2>2, NoneIsNothing
<1>5. ASSUME NEW i \in DOMAIN timers, MeshTimer(i) PROVE DeferredHasDriver'
  <2>1. CASE ScanFindsNothing(i)
    <3>1. timers[i] \in ScanKinds
      BY <2>1 DEF ScanFindsNothing
    <3>2. discovering = TRUE
      BY <3>1 DEF IInv, TypeOK, ScanTimerAgrees, NoScan
    <3>. QED BY <1>1, <2>1, <3>2 DEF ScanFindsNothing
  <2>2. CASE ScanConnects(i) \/ RetryConnects(i)
    BY <1>1, <1>4, <2>2 DEF ScanConnects, RetryConnects, ScanEnds
  <2>3. CASE ScanConnectFails(i)
    <3>1. Fired(i) \in Seq(TimerKinds)
      BY FiredQueue
    <3>2. Has(Append(Fired(i), "connect"), "connect")
      BY <3>1, Arm DEF TimerKinds, LongKinds
    <3>. QED BY <2>3, <3>2 DEF ScanConnectFails, Has, Pending, DeferredHasDriver
  <2>4. CASE RetryConnectFails(i)
    BY <1>1, <1>2, <2>4 DEF RetryConnectFails
  <2>5. CASE RetryPairs(i)
    <3>1. connectedDevice \in Conn
      BY <2>5 DEF IInv, TypeOK, RetryPairs
    <3>2. ASSUME Paired(Fired(i), connectedDevice, links) PROVE Drives
      <4>1. connectedDevice' \in Conn
        BY <3>1, <3>2 DEF Paired, Conn
      <4>. QED BY <4>1, NoneIsNothing
    <3>. QED BY <1>1, <1>2, <2>5, <3>2 DEF RetryPairs
  <2>6. CASE RetryConnectNull(i) \/ RetryPairNull(i) \/ PairAborts(i)
    BY <1>1, <1>3, <2>6 DEF RetryConnectNull, RetryPairNull, PairAborts, PairThrows
  <2>. QED BY <1>5, <2>1, <2>2, <2>3, <2>4, <2>5, <2>6 DEF MeshTimer
<1>6. ASSUME NEW i \in DOMAIN timers, ReadyFires(i) PROVE DeferredHasDriver'
  BY <1>1, <1>6 DEF ReadyFires, SendKeyless, Crash
<1>7. CASE PollNotReady
  BY <1>1, <1>2, <1>7 DEF PollNotReady
<1>8. CASE PollAndSend
  <2>1. CASE SendDelivers(timers)
    BY <1>1, <2>1 DEF SendDelivers
  <2>2. CASE SendBreaks(timers)
    BY <1>1, <1>2, <2>2 DEF SendBreaks
  <2>. QED BY <1>1, <1>3, <1>8, <2>1, <2>2 DEF PollAndSend, SendKeyless
<1>9. CASE UNCHANGED <<callback_on_ready, connectedDevice, discovering, timers>>
  BY <1>9 DEF DeferredHasDriver, Pending
<1>10. ASSUME NEW d \in Devices, (\E r \in RSSIs : RssiReport(d, r)) \/ LinkLoss(d)
       PROVE  DeferredHasDriver'
  BY <1>9, <1>10 DEF RssiReport, LinkLoss, stateVars
<1>11. CASE ReportAborts
  BY <1>1, <1>3, <1>11 DEF ReportAborts
<1>12. CASE Restart \/ UNCHANGED meshVars
  BY <1>9, <1>12 DEF Restart, meshVars, stateVars
<1>. QED BY <1>5, <1>6, <1>7, <1>8, <1>10, <1>11, <1>12 DEF MeshNext

\* A command that waits in the callback has a discovery or a connection attempt
\* that will serve it (telink_mesh.cpp 34-50, 79-160).
THEOREM AlwaysDriven == Spec => []DeferredHasDriver
<1>1. Init => DeferredHasDriver
  BY DEF Init, MeshInit, DeferredHasDriver
<1>2. IInv /\ GwInv /\ DeferredHasDriver /\ [Next]_vars => DeferredHasDriver'
  BY NextIsMesh, NextDrives
<1>. QED BY <1>1, <1>2, GatewayInvariance, PTL DEF Spec
=============================================================================

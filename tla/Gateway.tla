------------------------------ MODULE Gateway ------------------------------
(***************************************************************************)
(* class Gateway (src/gateway/gateway.h) on top of TelinkMesh: commands    *)
(* from MQTT are sent to the mesh, or deferred while it is not ready, with *)
(* consumption from the broker stopped in the meantime.                    *)
(*                                                                         *)
(* A handler of the Gateway is one step with the calls it makes of         *)
(* TelinkMesh: isReady, onReady and send, the pieces that TelinkMesh       *)
(* defines.  The timers of TelinkMesh are its own steps.                   *)
(***************************************************************************)
EXTENDS TelinkMesh

CONSTANTS
    Commands,   \* what an MQTT message asks for
    Packets     \* how many mesh packets it takes (none when it is malformed)

maxRetries == 5

ASSUME PacketsAssumption == Packets \in [Commands -> Nat]
ASSUME CommandsAssumption == None \notin Commands
ASSUME CallbackAssumption == Callbacks = [cmd : Commands, retry : 0 .. maxRetries]

VARIABLES
    mqtt_enabled,
    consuming,      \* the MQTT client has a consumer queue (start/stop_consuming)
    retry_timers,   \* pending 1000 ms timers of send_when_ready
    fate            \* history: how the last command left the Gateway

gwVars == <<mqtt_enabled, consuming, retry_timers, fate>>
vars == <<meshVars, gwVars>>

GatewayTypeOK ==
    /\ mqtt_enabled \in BOOLEAN
    /\ consuming \in BOOLEAN
    /\ retry_timers \in Seq([cmd : Commands, retry : 0 .. maxRetries - 1])
    /\ fate \in {"none", "sent", "dropped", "lost"}

Init ==
    /\ MeshInit
    /\ mqtt_enabled = TRUE
    /\ consuming = TRUE         \* client.connect() starts consuming
    /\ retry_timers = << >>
    /\ fate = "none"

Deferred == callback_on_ready # None \/ retry_timers # << >>
-----------------------------------------------------------------------------
(* The pieces of the handlers.  q is the queue of mesh timers and rs that   *)
(* of retry timers without the one that has fired.                          *)

\* The process dies with whatever it had deferred.  Its successor starts like
\* the first one.
GatewayCrash(losing) ==
    /\ mqtt_enabled' = TRUE
    /\ consuming' = TRUE
    /\ retry_timers' = << >>
    /\ fate' = IF losing THEN "lost" ELSE fate

\* for (auto packet : packets) mesh->send(packet): all are written ...
SendAll(cmd, q) ==
    IF Packets[cmd] = 0
    THEN /\ timers' = q
         /\ UNCHANGED <<discovering, current_best_device, connectedDevice,
                        radioVars, links>>
    ELSE SendDelivers(q)

\* ... or one is not (any prefix of them has been)
SendSome(cmd, q) == Packets[cmd] > 0 /\ SendBreaks(q)

SendFatal(cmd) == Packets[cmd] > 0 /\ SendKeyless /\ GatewayCrash(TRUE)

\* (mutant: the flag is not set)
ResumeDisabled(rs, how) ==
    /\ consuming' = TRUE
    /\ retry_timers' = rs
    /\ fate' = how
    /\ UNCHANGED mqtt_enabled

\* The packets are out, and the MQTT client is told to go on consuming.
Resume(rs, how) ==
    /\ mqtt_enabled' = TRUE
    /\ consuming' = TRUE
    /\ retry_timers' = rs
    /\ fate' = how

\* (mutant: one retry too many)
SendFailedOnceMore(cmd, n, rs) ==
    IF n <= maxRetries
    THEN /\ retry_timers' = Append(rs, [cmd |-> cmd, retry |-> n])
         /\ UNCHANGED <<mqtt_enabled, consuming, fate>>
    ELSE Resume(rs, "dropped")

\* The catch block of attempt n: retry in 1000 ms, or drop and go on.
SendFailed(cmd, n, rs) ==
    IF n < maxRetries
    THEN /\ retry_timers' = Append(rs, [cmd |-> cmd, retry |-> n])
         /\ UNCHANGED <<mqtt_enabled, consuming, fate>>
    ELSE Resume(rs, "dropped")

\* The lambda of send_when_ready as a deferred attempt.
DeferredAttempt(cmd, n, q, rs) ==
    \/ /\ SendAll(cmd, q)
       /\ Resume(rs, "sent")
       /\ UNCHANGED proc
    \/ /\ SendSome(cmd, q)
       /\ SendFailed(cmd, n, rs)
       /\ UNCHANGED proc
-----------------------------------------------------------------------------
(* Handlers.                                                                *)

MqttIdle == proc = "running" /\ consuming

\* onMqttMessage on a mesh that is ready.  (Its other branch, which discards the
\* message when mqtt_enabled is false, is never taken: EnabledWhileConsuming.)
\* A first failure arms the first retry, and the answer false stops consumption.
MqttSends(cmd) ==
    /\ MqttIdle /\ mqtt_enabled
    /\ connectedDevice # None
    /\ \/ /\ SendAll(cmd, timers)
          /\ fate' = "sent"
          /\ UNCHANGED <<proc, callback_on_ready, mqtt_enabled, consuming, retry_timers>>
       \/ /\ SendSome(cmd, timers)
          /\ mqtt_enabled' = FALSE
          /\ consuming' = FALSE
          /\ retry_timers' = Append(retry_timers, [cmd |-> cmd, retry |-> 0])
          /\ UNCHANGED <<proc, callback_on_ready, fate>>
       \/ SendFatal(cmd)

\* (mutant: true is returned, consumption goes on)
MqttDefersOpenly(cmd) ==
    /\ MqttIdle /\ mqtt_enabled
    /\ connectedDevice = None
    /\ Discover(timers, None, links)
    /\ callback_on_ready' = [cmd |-> cmd, retry |-> 0]
    /\ UNCHANGED <<proc, mqtt_enabled, consuming, retry_timers, fate>>

\* (mutant: onReady without isReady, which would start a discovery)
MqttDefersQuietly(cmd) ==
    /\ MqttIdle /\ mqtt_enabled
    /\ connectedDevice = None
    /\ callback_on_ready' = [cmd |-> cmd, retry |-> 0]
    /\ mqtt_enabled' = FALSE
    /\ consuming' = FALSE
    /\ UNCHANGED <<proc, stateVars, radioVars, links, retry_timers, fate>>

\* ... and on one that is not: the attempt becomes the callback.
MqttDefers(cmd) ==
    /\ MqttIdle /\ mqtt_enabled
    /\ connectedDevice = None
    /\ Discover(timers, None, links)
    /\ callback_on_ready' = [cmd |-> cmd, retry |-> 0]
    /\ mqtt_enabled' = FALSE
    /\ consuming' = FALSE
    /\ UNCHANGED <<proc, retry_timers, fate>>

\* A retry timer calls send_when_ready(packets, retryCount + 1).
RetryTimer(j) ==
    LET cmd == retry_timers[j].cmd
        n == retry_timers[j].retry + 1
        rs == RemoveAt(retry_timers, j)
    IN  /\ proc = "running"
        /\ \/ /\ connectedDevice # None
              /\ DeferredAttempt(cmd, n, timers, rs)
              /\ UNCHANGED callback_on_ready
           \/ /\ connectedDevice # None
              /\ SendFatal(cmd)
           \/ /\ connectedDevice = None
              /\ Discover(timers, None, links)
              /\ callback_on_ready' = [cmd |-> cmd, retry |-> n]
              /\ retry_timers' = rs
              /\ UNCHANGED <<proc, mqtt_enabled, consuming, fate>>

\* (mutant: the result of the callback is not looked at)
MeshReadyForgets(i) ==
    /\ Expired(i) /\ timers[i] = "ready"
    /\ callback_on_ready' = None
    /\ timers' = Fired(i)
    /\ UNCHANGED <<proc, discovering, current_best_device, connectedDevice,
                   radioVars, links, gwVars>>

\* The mesh's 500 ms timer runs the callback of readyToSend.
MeshReady(i) ==
    /\ Expired(i) /\ timers[i] = "ready"
    /\ \/ /\ callback_on_ready = None
          /\ timers' = Fired(i)
          /\ UNCHANGED <<proc, discovering, current_best_device, connectedDevice,
                         callback_on_ready, radioVars, links, gwVars>>
       \/ /\ callback_on_ready # None
          /\ callback_on_ready' = None
          /\ DeferredAttempt(callback_on_ready.cmd, callback_on_ready.retry,
                             Fired(i), retry_timers)
       \/ /\ callback_on_ready # None
          /\ SendFatal(callback_on_ready.cmd)

\* send_if_ready, for one packet: it is dropped when it cannot be sent.
SendIfReady ==
    \/ /\ connectedDevice # None
       /\ \/ SendDelivers(timers) /\ mqtt_enabled' = TRUE
          \/ SendBreaks(timers) /\ UNCHANGED mqtt_enabled
       /\ UNCHANGED <<proc, callback_on_ready, consuming, retry_timers, fate>>
    \/ /\ SendKeyless
       /\ GatewayCrash(Deferred)
    \/ /\ connectedDevice = None
       /\ Discover(timers, None, links)
       /\ UNCHANGED <<proc, callback_on_ready, gwVars>>

\* heartbeat: every 30 s one query, of addresses or of states.
Heartbeat == proc = "running" /\ SendIfReady

\* A timer of the mesh, which may end the process.
MeshTimerStep(i) ==
    /\ MeshTimer(i)
    /\ IF proc' = "running" THEN UNCHANGED gwVars ELSE GatewayCrash(Deferred)

World ==
    \/ /\ \/ \E d \in Devices, r \in RSSIs : RssiReport(d, r)
          \/ \E d \in Devices : LinkLoss(d)
          \/ Restart
       /\ UNCHANGED gwVars
    \/ ReportAborts /\ GatewayCrash(Deferred)

Next ==
    \/ \E cmd \in Commands : MqttSends(cmd) \/ MqttDefers(cmd)
    \/ \E j \in DOMAIN retry_timers : RetryTimer(j)
    \/ \E i \in DOMAIN timers : MeshReady(i) \/ MeshTimerStep(i)
    \/ Heartbeat
    \/ World

Spec == Init /\ [][Next]_vars
-----------------------------------------------------------------------------
(* Fairness: as in TelinkMesh; the polls are the heartbeat's, and the retry *)
(* timers are timers.  Nothing is assumed of the broker.                    *)
Fairness ==
    /\ WF_vars(\E i \in DOMAIN timers : MeshReady(i) \/ MeshTimerStep(i))
    /\ WF_vars(\E j \in DOMAIN retry_timers : RetryTimer(j))
    /\ WF_vars(Heartbeat)
    /\ WF_vars(Restart /\ UNCHANGED gwVars)
    /\ SF_vars(scanning /\ (\E d \in Devices, r \in RSSIs : RssiReport(d, r))
                        /\ UNCHANGED gwVars)
    /\ SF_vars((\E i \in DOMAIN timers : MeshTimerStep(i)) /\ Working')

FairSpec == Spec /\ Fairness
-----------------------------------------------------------------------------
(* Properties.                                                              *)

\* The broker's messages are consumed exactly while no command is deferred:
\* through all retries, re-registrations and drops the Gateway neither takes a
\* second command nor stays deaf with nothing left to do.
ConsumingIffIdle == proc = "running" => (consuming <=> ~Deferred)

\* While messages are consumed the Gateway is enabled, so the branch of
\* onMqttMessage that throws a message away is never taken -- although the
\* heartbeat sets mqtt_enabled without starting consumption.
EnabledWhileConsuming == consuming => mqtt_enabled

\* There is one deferred command at most, either in the callback slot of the
\* mesh or with one retry timer: the slot is never overwritten, and no two
\* retries of a command run side by side.
OneDeferred ==
    Len(retry_timers) + (IF callback_on_ready = None THEN 0 ELSE 1) <= 1

\* A command that waits for the mesh has a discovery or a connection attempt
\* under way on its behalf.
DeferredHasDriver ==
    callback_on_ready # None /\ connectedDevice = None
        => discovering \/ Pending("connect")

\* The command that waits, and how often sending it has failed.
Waiting ==
    IF callback_on_ready # None THEN callback_on_ready.cmd
    ELSE IF retry_timers # << >> THEN Head(retry_timers).cmd
    ELSE None

Failures ==
    IF callback_on_ready # None THEN callback_on_ready.retry
    ELSE IF retry_timers # << >> THEN Head(retry_timers).retry + 1
    ELSE 0

\* Commands pass through one slot, in the order they came in, and are given up
\* only after the last retry: the abstract CommandSlot.
Slot == INSTANCE CommandSlot WITH
    MaxRetries <- maxRetries, slot <- Waiting, tries <- Failures
SlotSpec == Slot!Spec

\* However the mesh behaves, a deferred command is got rid of (sent, dropped
\* after the last retry, or lost with the process) and consumption resumes.
AlwaysResumes == []<>(proc = "running" /\ consuming)
=============================================================================

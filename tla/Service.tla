------------------------------ MODULE Service ------------------------------
(***************************************************************************)
(* The service as Docker runs it: main() boots it (src/main.cpp, the       *)
(* constructor of src/gateway/gateway.h), the broker comes and goes, MQTT  *)
(* messages reach the Gateway by way of MqttSource, and the Gateway holds  *)
(* at most one of them back (module Gateway has the details) and stops     *)
(* consumption in the meantime.                                            *)
(***************************************************************************)
EXTENDS MqttSource

VARIABLES
    main,           \* where main() is: booting, in the main loop, or dead
    brokerUp,
    linked,         \* this client is connected to the broker
    mqtt_enabled,
    slot,           \* the message whose packets wait for the mesh, or 0
    settled         \* history: the messages that are sent, dropped or lost

bootVars == <<main, brokerUp, linked>>
commandVars == <<mqtt_enabled, slot, settled>>
vars == <<sourceVars, bootVars, commandVars>>

ServiceTypeOK ==
    /\ SourceTypeOK
    /\ main \in {"connect", "subscribe", "run", "dead"}
    /\ brokerUp \in BOOLEAN
    /\ linked \in BOOLEAN
    /\ mqtt_enabled \in BOOLEAN
    /\ slot \in Messages \cup {0}
    /\ settled \in Seq(Messages)

Init ==
    /\ SourceInit
    /\ main = "connect"
    /\ brokerUp \in BOOLEAN
    /\ linked = FALSE
    /\ mqtt_enabled = TRUE
    /\ slot = 0
    /\ settled = << >>

Held == IF slot = 0 THEN << >> ELSE <<slot>>
-----------------------------------------------------------------------------
(* Booting.                                                                 *)

\* MQTTClientProxy::connect.  The client starts consuming first; an error of the
\* connection is only logged.  (main() has constructed a client and a mesh before;
\* when a constructor throws it starts again, which brings it back here.)
Connect ==
    /\ main = "connect"
    /\ StartConsuming
    /\ main' = "subscribe"
    /\ linked' \in {FALSE, brokerUp}
    /\ UNCHANGED <<brokerUp, commandVars>>

\* Gateway::Gateway goes on to subscribe ...
Subscribe ==
    /\ main = "subscribe"
    /\ linked
    /\ main' = "run"
    /\ UNCHANGED <<sourceVars, brokerUp, linked, commandVars>>

\* (mutant: its exception ends the process and nobody restarts it)
SubscribeExits ==
    /\ main = "subscribe"
    /\ main' = "exited"
    /\ UNCHANGED <<sourceVars, brokerUp, linked, commandVars>>

\* ... which throws without a connection, and may with one: main() catches that
\* and constructs everything again, at once.  The client and its connection go.
SubscribeThrows ==
    /\ main = "subscribe"
    /\ main' = "connect"
    /\ linked' = FALSE
    /\ NewClient
    /\ UNCHANGED <<brokerUp, commandVars>>
-----------------------------------------------------------------------------
(* Running.  A message only arrives over a connection with a subscription.  *)

Receive(order) ==
    /\ main = "run"
    /\ linked
    /\ Arrive(order)
    /\ UNCHANGED <<bootVars, commandVars>>

PahoStep ==
    /\ main = "run"
    /\ PahoSteps
    /\ UNCHANGED <<bootVars, commandVars>>

LoopStep ==
    /\ main = "run"
    /\ Polling
    /\ UNCHANGED <<bootVars, commandVars>>

\* (mutant: the answer is true while the command is held back)
OnMqttMessageTrue ==
    /\ main = "run"
    /\ \E sent \in BOOLEAN :
          /\ Emit(TRUE)
          /\ mqtt_enabled' = TRUE
          /\ slot' = IF mqtt_enabled /\ ~sent THEN msg ELSE slot
          /\ settled' = IF sent THEN Append(settled, msg) ELSE settled
    /\ UNCHANGED bootVars

\* onMqttMessage: its packets are sent at once, or held back and consumption
\* stops.  A disabled Gateway throws the message away.
OnMqttMessage ==
    /\ main = "run"
    /\ \E sent \in BOOLEAN :
          /\ sent => mqtt_enabled
          /\ Emit(sent)
          /\ mqtt_enabled' = sent
          /\ slot' = IF mqtt_enabled /\ ~sent THEN msg ELSE slot
          /\ settled' = IF sent THEN Append(settled, msg) ELSE settled
    /\ UNCHANGED bootVars

\* (mutant: consumption is not started again)
SettleQuietly ==
    /\ main = "run"
    /\ slot # 0
    /\ loop = "poll"
    /\ mqtt_enabled' = TRUE
    /\ slot' = 0
    /\ settled' = Append(settled, slot)
    /\ UNCHANGED <<sourceVars, bootVars>>

\* A timer of the mesh or of the Gateway sends what was held back, or drops it
\* after the last retry.
Settle ==
    /\ main = "run"
    /\ slot # 0
    /\ StartConsuming
    /\ mqtt_enabled' = TRUE
    /\ slot' = 0
    /\ settled' = Append(settled, slot)
    /\ UNCHANGED bootVars

\* (mutant: it starts consumption as well, with a new queue)
HeartbeatConsumes ==
    /\ main = "run"
    /\ loop = "poll"
    /\ mqtt_enabled' = TRUE
    /\ consuming' = TRUE
    /\ queue' = << >>
    /\ UNCHANGED <<pending_event, wakeup, loopVars, threadVars, bootVars, slot, settled>>

\* The heartbeat has sent its query.
Heartbeat ==
    /\ main = "run"
    /\ loop = "poll"
    /\ mqtt_enabled' = TRUE
    /\ UNCHANGED <<sourceVars, bootVars, slot, settled>>

\* The process dies in a handler: an exception in one of the mesh's (PairAborts,
\* ReportAborts), or in dispatch, whose try_consume_message has no queue to read
\* after consumption was stopped, or a source of a failed boot that is still
\* attached to the main context.  What is held back, queued or on its way is lost.
Die ==
    /\ main = "run"
    /\ main' = "dead"
    /\ NewClient
    /\ linked' = FALSE
    /\ mqtt_enabled' = TRUE
    /\ slot' = 0
    /\ settled' = settled \o Held
    /\ UNCHANGED brokerUp
-----------------------------------------------------------------------------
(* Docker, and the broker.                                                  *)

Restart ==
    /\ main = "dead"
    /\ main' = "connect"
    /\ UNCHANGED <<sourceVars, brokerUp, linked, commandVars>>

\* connection_lost only logs.
BrokerGoes ==
    /\ brokerUp
    /\ brokerUp' = FALSE
    /\ linked' = FALSE
    /\ UNCHANGED <<sourceVars, main, commandVars>>

\* Nothing connects again but a boot.
BrokerComes ==
    /\ ~brokerUp
    /\ brokerUp' = TRUE
    /\ UNCHANGED <<sourceVars, main, linked, commandVars>>

Next ==
    \/ Connect
    \/ Subscribe
    \/ SubscribeThrows
    \/ \E o \in Arrivals : Receive(o)
    \/ PahoStep
    \/ LoopStep
    \/ OnMqttMessage
    \/ Settle
    \/ Heartbeat
    \/ Die
    \/ Restart
    \/ BrokerGoes
    \/ BrokerComes

Spec == Init /\ [][Next]_vars

\* The process runs and Docker restarts it and the broker; of infinitely many
\* connection attempts to a broker that is up, some succeed, and of infinitely many
\* subscriptions over a connection; a command that is held back is settled in the
\* end (Gateway's AlwaysResumes).
Fairness ==
    /\ WF_vars(Connect)
    /\ SF_vars(Connect /\ linked')
    /\ WF_vars(Subscribe \/ SubscribeThrows)
    /\ SF_vars(Subscribe)
    /\ WF_vars(PahoStep)
    /\ WF_vars(LoopStep \/ OnMqttMessage)
    /\ SF_vars(Settle)
    /\ WF_vars(Restart)
    /\ WF_vars(BrokerComes)

FairSpec == Spec /\ Fairness
-----------------------------------------------------------------------------
(* Properties.                                                              *)

\* Every message that was handed to the Gateway is sent, dropped or lost with
\* the process in the order of arrival, or it is the one held back: none is
\* thrown away because the Gateway is disabled, none is overwritten in the slot,
\* and no later command overtakes one that waits for the mesh.
NoneForgotten == handled = settled \o Held

\* While a command is held back there is nothing that could bring another one:
\* no queue, and no message between dequeueing and delivery.  And when nothing
\* is held back a running service consumes.
ConsumesIffFree ==
    /\ slot # 0 => ~consuming /\ queue = << >> /\ msg = 0
    /\ main = "run" => (consuming <=> slot = 0)

\* However often the service crashes, boots on a broker that is not there or
\* holds commands back: if the broker stays up in the end, the service keeps
\* coming back to its main loop and consumes messages.
AlwaysServes == <>[]brokerUp => []<>(main = "run" /\ consuming)
-----------------------------------------------------------------------------
\* gateway.h, mqtt_publish(): "check mqtt connection state / if not connected,
\* connect": a service that has lost its broker does not stay without it once
\* the broker is back.
Reconnects == main = "run" /\ brokerUp ~> linked \/ ~brokerUp \/ main # "run"
=============================================================================

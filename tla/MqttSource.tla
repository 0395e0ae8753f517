---------------------------- MODULE MqttSource ----------------------------
(***************************************************************************)
(* How an MQTT message gets from the Paho client's thread to the main loop *)
(* (src/mqtt/mqtt_client_proxy.h): the thread puts it into the client's    *)
(* consumer queue, sets pending_event and wakes the main context up; the   *)
(* GLib source MQTTMessageSource dequeues one message per dispatch and     *)
(* stores into pending_event whether there was one.  pending_event is a    *)
(* plain bool that both threads write, so each of their steps counts.      *)
(***************************************************************************)
EXTENDS Naturals, Sequences, SequencesExt

CONSTANTS
    MaxMessages,    \* bound: messages the broker delivers
    Arrivals        \* in which order Paho queues a message and calls back

ASSUME MaxMessagesAssumption == MaxMessages \in Nat
ASSUME ArrivalsAssumption == Arrivals \subseteq {"queue first", "call first"}

VARIABLES
    consuming,      \* the client has a consumer queue
    queue,          \* ... and what is in it
    pending_event,
    wakeup,         \* the main context has been woken up
    loop,           \* where the main loop is: in poll(), or in which step of ours
    msg,            \* what dispatch has dequeued and not passed on, 0 for nothing
    thread,         \* what the Paho thread still has to do for a message
    arrived,        \* messages are numbered as they arrive
    handled         \* history: the messages given to the Gateway

clientVars == <<consuming, queue>>
loopVars == <<loop, msg, handled>>
threadVars == <<thread, arrived>>
sourceVars == <<clientVars, pending_event, wakeup, loopVars, threadVars>>

Messages == 1 .. MaxMessages

\* What the thread does for a message: Paho queues it first, or calls back first.
Work(order) ==
    IF order = "queue first" THEN <<"put", "set", "wake">> ELSE <<"set", "wake", "put">>

SourceTypeOK ==
    /\ consuming \in BOOLEAN
    /\ queue \in Seq(Messages)
    /\ pending_event \in BOOLEAN
    /\ wakeup \in BOOLEAN
    /\ loop \in {"poll", "check", "dispatch", "store", "emit"}
    /\ msg \in Messages \cup {0}
    /\ thread \in Seq({"put", "set", "wake"})
    /\ arrived \in Messages \cup {0}
    /\ handled \in Seq(Messages)

SourceInit ==
    /\ consuming = FALSE    \* connect() will start consuming
    /\ queue = << >>
    /\ pending_event = FALSE
    /\ wakeup = FALSE
    /\ loop = "poll"
    /\ msg = 0
    /\ thread = << >>
    /\ arrived = 0
    /\ handled = << >>
-----------------------------------------------------------------------------
(* The Paho thread.                                                         *)

\* A message arrives.  While nothing is consumed the client discards it and
\* calls nobody back.
Arrive(order) ==
    /\ thread = << >>
    /\ arrived < MaxMessages
    /\ arrived' = arrived + 1
    /\ thread' = IF consuming THEN Work(order) ELSE << >>
    /\ UNCHANGED <<clientVars, pending_event, wakeup, loopVars>>

\* If consumption has stopped meanwhile there is no queue to put it in.
Put ==
    /\ thread # << >> /\ Head(thread) = "put"
    /\ queue' = IF consuming THEN Append(queue, arrived) ELSE queue
    /\ thread' = Tail(thread)
    /\ UNCHANGED <<consuming, pending_event, wakeup, loopVars, arrived>>

\* MQTTCallback::message_arrived calls trigger_event: two steps.
SetPending ==
    /\ thread # << >> /\ Head(thread) = "set"
    /\ pending_event' = TRUE
    /\ thread' = Tail(thread)
    /\ UNCHANGED <<clientVars, wakeup, loopVars, arrived>>

WakeUp ==
    /\ thread # << >> /\ Head(thread) = "wake"
    /\ wakeup' = TRUE
    /\ thread' = Tail(thread)
    /\ UNCHANGED <<clientVars, pending_event, loopVars, arrived>>
-----------------------------------------------------------------------------
(* The main loop.  prepare() never claims to be ready and sets no timeout,  *)
(* so poll() returns for a wakeup or for somebody else's timer or signal.   *)

PollReturns ==
    /\ loop = "poll"
    /\ loop' = "check"
    /\ wakeup' = FALSE
    /\ UNCHANGED <<clientVars, pending_event, msg, handled, threadVars>>

Woken == wakeup /\ PollReturns
OtherSource == ~wakeup /\ PollReturns

\* connect(), or a handler of the Gateway (another source's), starts consuming,
\* with an empty queue.
StartConsuming ==
    /\ loop = "poll"
    /\ ~consuming
    /\ consuming' = TRUE
    /\ queue' = << >>
    /\ UNCHANGED <<pending_event, wakeup, loopVars, threadVars>>

Check ==
    /\ loop = "check"
    /\ loop' = IF pending_event THEN "dispatch" ELSE "poll"
    /\ UNCHANGED <<clientVars, pending_event, wakeup, msg, handled, threadVars>>

\* (mutant: the message is read and stays in the queue)
TryConsumePeeks ==
    /\ loop = "dispatch"
    /\ loop' = "store"
    /\ msg' = IF queue # << >> THEN Head(queue) ELSE 0
    /\ UNCHANGED <<clientVars, pending_event, wakeup, handled, threadVars>>

\* MQTTMessageSource::dispatch: try_consume_message ...
TryConsume ==
    /\ loop = "dispatch"
    /\ loop' = "store"
    /\ IF queue # << >>
       THEN msg' = Head(queue) /\ queue' = Tail(queue)
       ELSE msg' = 0 /\ UNCHANGED queue
    /\ UNCHANGED <<consuming, pending_event, wakeup, handled, threadVars>>

\* (mutant: as in the base class)
StoreFalse ==
    /\ loop = "store"
    /\ pending_event' = FALSE
    /\ loop' = IF msg # 0 THEN "emit" ELSE "poll"
    /\ UNCHANGED <<clientVars, wakeup, msg, handled, threadVars>>

\* (mutant: the answer is stored and not looked at)
StoreUnchecked ==
    /\ loop = "store"
    /\ pending_event' = (msg # 0)
    /\ loop' = "emit"
    /\ UNCHANGED <<clientVars, wakeup, msg, handled, threadVars>>

\* ... its answer stored in pending_event ...
StorePending ==
    /\ loop = "store"
    /\ pending_event' = (msg # 0)
    /\ loop' = IF msg # 0 THEN "emit" ELSE "poll"
    /\ UNCHANGED <<clientVars, wakeup, msg, handled, threadVars>>

\* (mutant: the answer is not looked at, consumption goes on)
EmitRegardless(accepted) ==
    /\ loop = "emit"
    /\ loop' = "poll"
    /\ handled' = Append(handled, msg)
    /\ msg' = 0
    /\ UNCHANGED <<clientVars, pending_event, wakeup, threadVars>>

\* ... and the message given to onMqttMessage.  Its answer false (deferred)
\* stops consumption, and with it goes the queue.
Emit(accepted) ==
    /\ loop = "emit"
    /\ loop' = "poll"
    /\ handled' = Append(handled, msg)
    /\ IF accepted THEN UNCHANGED clientVars
                   ELSE consuming' = FALSE /\ queue' = << >>
    /\ msg' = 0
    /\ UNCHANGED <<pending_event, wakeup, threadVars>>

\* A new client and a new source: main() boots again, in this process or, after
\* a crash at any point, in the next.
NewClient ==
    /\ consuming' = FALSE
    /\ queue' = << >>
    /\ pending_event' = FALSE
    /\ wakeup' = FALSE
    /\ loop' = "poll"
    /\ msg' = 0
    /\ thread' = << >>
    /\ UNCHANGED <<arrived, handled>>

PahoSteps == Put \/ SetPending \/ WakeUp
Polling == Woken \/ OtherSource \/ Check \/ TryConsume \/ StorePending
MainLoop == Polling \/ \E accepted \in BOOLEAN : Emit(accepted)

SourceNext ==
    \/ \E o \in Arrivals : Arrive(o)
    \/ PahoSteps
    \/ MainLoop
    \/ StartConsuming
    \/ NewClient

SourceSpec == SourceInit /\ [][SourceNext]_sourceVars

\* Both threads run, and the main loop has other sources (the heartbeat's timer,
\* every 30 s), so poll() always returns.
SourceFairSpec ==
    SourceSpec /\ WF_sourceVars(MainLoop) /\ WF_sourceVars(PahoSteps)
-----------------------------------------------------------------------------
(* Properties.                                                              *)

\* Messages reach the Gateway in the order they arrived, and none twice,
\* whatever is discarded by stopping and starting consumption in between.
InOrder ==
    /\ \A i \in 1 .. Len(handled) - 1 : handled[i] < handled[i + 1]
    /\ msg # 0 /\ handled # << >> => Last(handled) < msg
    /\ queue # << >> => msg < Head(queue)

\* An event that is set while the main loop is not about to overwrite it is not
\* lost: the queue is drained, one message per iteration, with every message
\* that is stuck in it from before.  (So the next arrival repairs a lost one.)
EventDrains == pending_event /\ loop # "store" ~> queue = << >>
-----------------------------------------------------------------------------
\* mqtt_client_proxy.h, check(): "Check if the source is ready to be
\* dispatched": a message in the queue is dispatched, sooner or later.
QueueDrains == queue # << >> ~> queue = << >>
=============================================================================

-------------------------- MODULE Service_proofs --------------------------
(***************************************************************************)
(* Theorems of MqttSource and Service for any number of messages and both  *)
(* orders of queueing and calling back: messages reach the Gateway in the  *)
(* order of arrival, and leave it so, none forgotten, through every crash, *)
(* boot and stop of consumption.                                           *)
(***************************************************************************)
EXTENDS Service, SequenceTheorems, TLAPS
-----------------------------------------------------------------------------
(* Sequences of numbers.                                                    *)

Rising(s) == \A i, j \in DOMAIN s : i < j => s[i] < s[j]
Below(s, n) == \A i \in DOMAIN s : s[i] < n
Above(s, n) == \A i \in DOMAIN s : n < s[i]
Precedes(s, t) == \A i \in DOMAIN s, j \in DOMAIN t : s[i] < t[j]

LEMMA EmptyRises ==
    /\ << >> \in Seq(Nat)
    /\ Rising(<< >>)
    /\ \A n : Below(<< >>, n) /\ Above(<< >>, n)
    /\ \A s : Precedes(s, << >>) /\ Precedes(<< >>, s)
<1>1. << >> \in Seq(Nat) /\ DOMAIN << >> = {}
  BY EmptySeq
<1>. QED BY <1>1 DEF Rising, Below, Above, Precedes

LEMMA AppendRises ==
    ASSUME NEW s \in Seq(Nat), NEW n \in Nat, Rising(s), Below(s, n)
    PROVE  /\ Rising(Append(s, n))
           /\ \A k \in Nat : n < k => Below(Append(s, n), k)
           /\ \A m \in Nat : m < n /\ Above(s, m) => Above(Append(s, n), m)
           /\ \A t \in Seq(Nat) : Precedes(t, s) /\ Below(t, n) => Precedes(t, Append(s, n))
           /\ \A t \in Seq(Nat) : Precedes(s, t) /\ Above(t, n) => Precedes(Append(s, n), t)
<1>. DEFINE a == Append(s, n)
<1>1. /\ a \in Seq(Nat) /\ Len(a) = Len(s) + 1 /\ Len(s) \in Nat
      /\ \A i \in 1 .. Len(s) : a[i] = s[i]
      /\ a[Len(s) + 1] = n
  BY AppendProperties
<1>2. DOMAIN a = 1 .. Len(s) + 1 /\ DOMAIN s = 1 .. Len(s)
  BY <1>1
<1>. HIDE DEF a
<1>3. \A i \in DOMAIN a : (i \in DOMAIN s /\ a[i] = s[i]) \/ (i = Len(s) + 1 /\ a[i] = n)
  BY <1>1, <1>2
<1>4. \A i \in DOMAIN s : s[i] \in Nat /\ i \in Nat /\ i < Len(s) + 1
  BY <1>2
<1>5. Rising(a)
  <2>. SUFFICES ASSUME NEW i \in DOMAIN a, NEW j \in DOMAIN a, i < j PROVE a[i] < a[j]
    BY DEF Rising
  <2>1. i \in DOMAIN s /\ a[i] = s[i]
    BY <1>1, <1>2
  <2>2. CASE j \in DOMAIN s /\ a[j] = s[j]
    BY <2>1, <2>2 DEF Rising
  <2>3. CASE j = Len(s) + 1 /\ a[j] = n
    BY <2>1, <2>3 DEF Below
  <2>. QED BY <1>3, <2>2, <2>3
<1>6. ASSUME NEW k \in Nat, n < k PROVE Below(a, k)
  <2>. SUFFICES ASSUME NEW i \in DOMAIN a PROVE a[i] < k
    BY DEF Below
  <2>1. ASSUME i \in DOMAIN s, a[i] = s[i] PROVE a[i] < k
    BY <1>4, <1>6, <2>1 DEF Below
  <2>. QED BY <1>3, <1>6, <2>1
<1>7. ASSUME NEW m \in Nat, m < n, Above(s, m) PROVE Above(a, m)
  BY <1>3, <1>7 DEF Above
<1>8. ASSUME NEW t \in Seq(Nat), Precedes(t, s), Below(t, n) PROVE Precedes(t, a)
  BY <1>3, <1>8 DEF Precedes, Below
<1>9. ASSUME NEW t \in Seq(Nat), Precedes(s, t), Above(t, n) PROVE Precedes(a, t)
  BY <1>3, <1>9 DEF Precedes, Above
<1>. QED BY <1>5, <1>6, <1>7, <1>8, <1>9 DEF a

LEMMA TailRises ==
    ASSUME NEW s \in Seq(Nat), s # << >>, Rising(s)
    PROVE  /\ Head(s) \in Nat
           /\ Tail(s) \in Seq(Nat)
           /\ Rising(Tail(s)) /\ Above(Tail(s), Head(s))
           /\ \A n : Below(s, n) => Below(Tail(s), n) /\ Head(s) < n
           /\ \A t : Precedes(t, s) => Precedes(t, Tail(s)) /\ Below(t, Head(s))
<1>. DEFINE r == Tail(s)
<1>1. /\ Head(s) = s[1] /\ Head(s) \in Nat /\ 1 \in DOMAIN s
      /\ r \in Seq(Nat) /\ Len(r) = Len(s) - 1
      /\ \A i \in 1 .. Len(r) : r[i] = s[i + 1]
  BY HeadTailProperties
<1>. HIDE DEF r
<1>2. \A i \in DOMAIN r : i + 1 \in DOMAIN s /\ r[i] = s[i + 1] /\ 1 < i + 1 /\ i \in Nat
  BY <1>1
<1>3. Rising(r)
  <2>. SUFFICES ASSUME NEW i \in DOMAIN r, NEW j \in DOMAIN r, i < j PROVE r[i] < r[j]
    BY DEF Rising
  <2>1. i + 1 < j + 1
    BY <1>2
  <2>. QED BY <1>2, <2>1 DEF Rising
<1>4. Above(r, Head(s))
  BY <1>1, <1>2 DEF Rising, Above
<1>5. \A n : Below(s, n) => Below(r, n) /\ Head(s) < n
  BY <1>1, <1>2 DEF Below
<1>6. \A t : Precedes(t, s) => Precedes(t, r) /\ Below(t, Head(s))
  BY <1>1, <1>2 DEF Precedes, Below
<1>. QED BY <1>1, <1>3, <1>4, <1>5, <1>6 DEF r
-----------------------------------------------------------------------------
(* MqttSource.  A message moves from the thread to the queue, to msg and to *)
(* handled; along that way the numbers rise, and all are below Fresh, the   *)
(* number of the message that will be queued next.                          *)

ThreadWork ==
    { << >>, <<"put", "set", "wake">>, <<"set", "wake">>, <<"wake">>,
      <<"set", "wake", "put">>, <<"wake", "put">>, <<"put">> }

\* The thread has yet to queue the message that arrived last.
HasPut(t) == t \in { <<"put", "set", "wake">>, <<"set", "wake", "put">>,
                     <<"wake", "put">>, <<"put">> }

Fresh == IF HasPut(thread) THEN arrived ELSE arrived + 1

SourceInv ==
    /\ SourceTypeOK
    /\ thread \in ThreadWork
    /\ HasPut(thread) => arrived # 0
    /\ Rising(handled) /\ Below(handled, Fresh)
    /\ Rising(queue) /\ Below(queue, Fresh)
    /\ Precedes(handled, queue)
    /\ msg # 0 => Below(handled, msg) /\ Above(queue, msg) /\ msg < Fresh
    /\ loop \in {"poll", "check", "dispatch"} => msg = 0
    /\ loop = "emit" => msg # 0

\* What the thread has left after its next step.
LEMMA WorkStep ==
    ASSUME NEW t \in ThreadWork, t # << >>
    PROVE  /\ Tail(t) \in ThreadWork
           /\ Head(t) = "put" => HasPut(t) /\ ~HasPut(Tail(t))
           /\ Head(t) # "put" => (HasPut(Tail(t)) <=> HasPut(t))
           /\ Head(t) \in {"put", "set", "wake"}
<1>1. CASE t = <<"put", "set", "wake">>
  BY <1>1 DEF ThreadWork, HasPut
<1>2. CASE t = <<"set", "wake">>
  BY <1>2 DEF ThreadWork, HasPut
<1>3. CASE t = <<"wake">>
  BY <1>3 DEF ThreadWork, HasPut
<1>4. CASE t = <<"set", "wake", "put">>
  BY <1>4 DEF ThreadWork, HasPut
<1>5. CASE t = <<"wake", "put">>
  BY <1>5 DEF ThreadWork, HasPut
<1>6. CASE t = <<"put">>
  BY <1>6 DEF ThreadWork, HasPut
<1>. QED BY <1>1, <1>2, <1>3, <1>4, <1>5, <1>6 DEF ThreadWork

LEMMA ThreadType == \A t \in ThreadWork : t \in Seq({"put", "set", "wake"})
<1>. DEFINE S == {"put", "set", "wake"}
<1>1. << >> \in Seq(S)
  OBVIOUS
<1>2. <<"put">> \in Seq(S) /\ <<"wake">> \in Seq(S)
  OBVIOUS
<1>3. <<"set", "wake">> \in Seq(S) /\ <<"wake", "put">> \in Seq(S)
  OBVIOUS
<1>4. <<"put", "set", "wake">> \in Seq(S) /\ <<"set", "wake", "put">> \in Seq(S)
  OBVIOUS
<1>. QED BY <1>1, <1>2, <1>3, <1>4 DEF ThreadWork

LEMMA MessagesType ==
    /\ \A m \in Messages : m \in Nat /\ m # 0 /\ m <= MaxMessages
    /\ \A s \in Seq(Messages) : s \in Seq(Nat)
<1>1. Messages \subseteq Nat /\ \A m \in Messages : m # 0 /\ m <= MaxMessages
  BY MaxMessagesAssumption DEF Messages
<1>. QED BY <1>1, SeqMonotonic

\* The numbers on their way, whatever happens to Fresh as long as it grows.
LEMMA FreshGrows ==
    ASSUME NEW s \in Seq(Nat), NEW m \in Nat, NEW n \in Nat, m <= n, Below(s, m)
    PROVE  Below(s, n)
  BY DEF Below

LEMMA FreshType == SourceInv => Fresh \in Nat /\ arrived \in Nat /\ arrived <= Fresh /\ Fresh <= arrived + 1
  BY MessagesType DEF SourceInv, SourceTypeOK, Fresh

LEMMA InitSourceInv == SourceInit => SourceInv
<1>. SUFFICES ASSUME SourceInit PROVE SourceInv
  OBVIOUS
<1>1. << >> \in Seq(Messages) /\ << >> \in Seq({"put", "set", "wake"})
  BY EmptySeq
<1>2. SourceTypeOK
  BY <1>1 DEF SourceInit, SourceTypeOK
<1>3. << >> \in ThreadWork /\ ~HasPut(<< >>)
  BY DEF ThreadWork, HasPut
<1>. QED BY <1>2, <1>3, EmptyRises DEF SourceInit, SourceInv

LEMMA ThreadKeepsInv ==
    ASSUME SourceInv, (\E o \in Arrivals : Arrive(o)) \/ PahoSteps
    PROVE  SourceInv'
<1>1. /\ Fresh \in Nat /\ arrived \in Nat /\ arrived <= Fresh /\ Fresh <= arrived + 1
      /\ handled \in Seq(Nat) /\ queue \in Seq(Nat)
      /\ msg \in Nat
  BY FreshType, MessagesType DEF SourceInv, SourceTypeOK
<1>2. CASE \E o \in Arrivals : Arrive(o)
  <2>1. /\ thread = << >> /\ arrived' = arrived + 1 /\ arrived' \in Messages
        /\ UNCHANGED <<clientVars, pending_event, wakeup, loopVars>>
    <3>1. arrived \in Nat /\ arrived < MaxMessages => arrived + 1 \in Messages
      BY MaxMessagesAssumption DEF Messages
    <3>. QED BY <1>1, <1>2, <3>1 DEF Arrive
  <2>2. thread' \in ThreadWork
    BY <1>2 DEF Arrive, Work, ThreadWork
  <2>3. Fresh' \in Nat /\ Fresh <= Fresh'
    <3>1. ~HasPut(thread)
      BY <2>1 DEF HasPut
    <3>. QED BY <1>1, <2>1, <3>1 DEF Fresh
  <2>4. Below(handled, Fresh') /\ Below(queue, Fresh') /\ (msg # 0 => msg < Fresh')
    BY <1>1, <2>3, FreshGrows DEF SourceInv
  <2>5. SourceTypeOK'
    BY <2>1, <2>2, ThreadType
       DEF SourceInv, SourceTypeOK, clientVars, loopVars
  <2>6. arrived' # 0
    BY <1>1, <2>1
  <2>. QED BY <2>1, <2>2, <2>4, <2>5, <2>6 DEF SourceInv, clientVars, loopVars
<1>3. CASE PahoSteps
  <2>1. thread # << >> /\ thread' = Tail(thread) /\ arrived' = arrived
    BY <1>3 DEF PahoSteps, Put, SetPending, WakeUp
  <2>2. thread' \in ThreadWork
    BY <2>1, WorkStep DEF SourceInv
  <2>3. CASE Head(thread) # "put"
    <3>1. /\ UNCHANGED <<clientVars, loopVars>>
          /\ pending_event' \in BOOLEAN /\ wakeup' \in BOOLEAN
      BY <1>3, <2>3 DEF PahoSteps, Put, SetPending, WakeUp, SourceInv, SourceTypeOK
    <3>2. SourceTypeOK'
      BY <2>1, <2>2, <3>1, ThreadType DEF SourceInv, SourceTypeOK, clientVars, loopVars
    <3>3. HasPut(thread') <=> HasPut(thread)
      BY <2>1, <2>3, WorkStep DEF SourceInv
    <3>4. Fresh' = Fresh
      BY <2>1, <3>3 DEF Fresh
    <3>. QED BY <2>1, <2>2, <3>1, <3>2, <3>3, <3>4 DEF SourceInv, clientVars, loopVars
  <2>4. CASE Head(thread) = "put"
    <3>1. /\ queue' = IF consuming THEN Append(queue, arrived) ELSE queue
          /\ UNCHANGED <<consuming, pending_event, wakeup, loopVars>>
      BY <1>3, <2>4 DEF PahoSteps, Put, SetPending, WakeUp
    <3>2. HasPut(thread) /\ ~HasPut(thread')
      BY <2>1, <2>4, WorkStep DEF SourceInv
    <3>3. Fresh = arrived /\ Fresh' = arrived + 1 /\ arrived \in Messages /\ arrived < Fresh'
      BY <1>1, <2>1, <3>2 DEF Fresh, SourceInv, SourceTypeOK
    <3>4. Below(handled, Fresh') /\ Below(queue, Fresh') /\ (msg # 0 => msg < Fresh')
      BY <1>1, <3>3, FreshGrows DEF SourceInv
    <3>5. /\ queue' \in Seq(Messages)
          /\ Rising(queue') /\ Below(queue', Fresh')
          /\ Precedes(handled, queue')
          /\ msg # 0 => Above(queue', msg)
      <4>1. CASE consuming
        <5>1. Rising(queue) /\ Below(queue, arrived) /\ Below(handled, arrived)
          BY <3>3 DEF SourceInv
        <5>2. /\ Rising(Append(queue, arrived))
              /\ Below(Append(queue, arrived), Fresh')
              /\ Precedes(handled, Append(queue, arrived))
              /\ msg # 0 => Above(Append(queue, arrived), msg)
          BY <1>1, <3>3, <5>1, AppendRises DEF SourceInv
        <5>3. Append(queue, arrived) \in Seq(Messages)
          BY <3>3, AppendProperties DEF SourceInv, SourceTypeOK
        <5>. QED BY <3>1, <4>1, <5>2, <5>3
      <4>2. CASE ~consuming
        BY <3>1, <3>4, <4>2 DEF SourceInv, SourceTypeOK
      <4>. QED BY <4>1, <4>2
    <3>6. SourceTypeOK'
      BY <2>1, <2>2, <3>1, <3>5, ThreadType DEF SourceInv, SourceTypeOK, loopVars
    <3>. QED BY <2>1, <2>2, <3>1, <3>2, <3>4, <3>5, <3>6 DEF SourceInv, loopVars
  <2>. QED BY <2>3, <2>4
<1>. QED BY <1>2, <1>3

\* Steps that leave thread and messages alone, but for a queue that is discarded.
LEMMA QuietKeepsInv ==
    ASSUME SourceInv,
           UNCHANGED <<threadVars, handled, msg>>,
           queue' \in {queue, << >>},
           consuming' \in BOOLEAN, pending_event' \in BOOLEAN, wakeup' \in BOOLEAN,
           loop' \in {"poll", "check", "dispatch", "store", "emit"},
           loop' \in {"poll", "check", "dispatch"} => msg = 0,
           loop' = "emit" => msg # 0
    PROVE  SourceInv'
<1>1. << >> \in Seq(Messages)
  BY EmptySeq
<1>2. SourceTypeOK'
  BY <1>1 DEF SourceInv, SourceTypeOK, threadVars
<1>3. Fresh' = Fresh
  BY DEF Fresh, threadVars
<1>4. /\ Rising(queue') /\ Below(queue', Fresh)
      /\ Precedes(handled, queue')
      /\ msg # 0 => Above(queue', msg)
  BY EmptyRises DEF SourceInv
<1>. QED BY <1>2, <1>3, <1>4 DEF SourceInv, threadVars

LEMMA LoopKeepsInv ==
    ASSUME SourceInv, MainLoop \/ StartConsuming
    PROVE  SourceInv'
<1>1. /\ Fresh \in Nat
      /\ handled \in Seq(Nat) /\ queue \in Seq(Nat)
      /\ msg \in Nat /\ msg \in Messages \cup {0}
  BY FreshType, MessagesType DEF SourceInv, SourceTypeOK
<1>2. CASE Woken \/ OtherSource
  BY <1>2, QuietKeepsInv
     DEF Woken, OtherSource, PollReturns, SourceInv, SourceTypeOK, clientVars
<1>3. CASE Check
  BY <1>3, QuietKeepsInv DEF Check, SourceInv, SourceTypeOK, clientVars
<1>4. CASE StorePending
  BY <1>4, QuietKeepsInv DEF StorePending, SourceInv, SourceTypeOK, clientVars
<1>5. CASE StartConsuming
  BY <1>5, QuietKeepsInv DEF StartConsuming, SourceInv, SourceTypeOK, loopVars
<1>6. CASE TryConsume
  <2>1. /\ loop = "dispatch" /\ loop' = "store" /\ msg = 0
        /\ UNCHANGED <<consuming, pending_event, wakeup, handled, threadVars>>
    BY <1>6 DEF TryConsume, SourceInv
  <2>2. Fresh' = Fresh
    BY <2>1 DEF Fresh, threadVars
  <2>3. CASE queue = << >>
    <3>1. msg' = 0 /\ queue' = queue
      BY <1>6, <2>3 DEF TryConsume
    <3>. QED BY <2>1, <3>1, QuietKeepsInv DEF SourceInv, SourceTypeOK
  <2>4. CASE queue # << >>
    <3>1. msg' = Head(queue) /\ queue' = Tail(queue)
      BY <1>6, <2>4 DEF TryConsume
    <3>2. queue \in Seq(Messages)
      BY DEF SourceInv, SourceTypeOK
    <3>3. msg' \in Messages /\ queue' \in Seq(Messages)
      BY <2>4, <3>1, <3>2, HeadTailProperties
    <3>4. /\ Rising(queue') /\ Above(queue', msg')
          /\ Below(queue', Fresh) /\ msg' < Fresh
          /\ Precedes(handled, queue') /\ Below(handled, msg')
      BY <1>1, <2>4, <3>1, TailRises DEF SourceInv
    <3>5. SourceTypeOK'
      BY <2>1, <3>3 DEF SourceInv, SourceTypeOK, threadVars
    <3>. QED BY <2>1, <2>2, <3>4, <3>5 DEF SourceInv, threadVars
  <2>. QED BY <2>3, <2>4
<1>7. ASSUME NEW accepted \in BOOLEAN, Emit(accepted) PROVE SourceInv'
  <2>1. /\ loop = "emit" /\ loop' = "poll"
        /\ handled' = Append(handled, msg) /\ msg' = 0
        /\ UNCHANGED <<pending_event, wakeup, threadVars>>
    BY <1>7 DEF Emit
  <2>2. queue' \in {queue, << >>} /\ consuming' \in BOOLEAN
    BY <1>7 DEF Emit, clientVars, SourceInv, SourceTypeOK
  <2>3. msg # 0 /\ msg \in Messages
    BY <1>1, <2>1 DEF SourceInv
  <2>4. Fresh' = Fresh
    BY <2>1 DEF Fresh, threadVars
  <2>5. /\ Rising(Append(handled, msg)) /\ Below(Append(handled, msg), Fresh)
        /\ Precedes(Append(handled, msg), queue)
    BY <1>1, <2>3, AppendRises DEF SourceInv
  <2>6. /\ Rising(queue') /\ Below(queue', Fresh)
        /\ Precedes(Append(handled, msg), queue')
    BY <2>2, <2>5, EmptyRises DEF SourceInv
  <2>7. SourceTypeOK'
    <3>1. << >> \in Seq(Messages)
      BY EmptySeq
    <3>2. handled' \in Seq(Messages)
      BY <2>1, <2>3, AppendProperties DEF SourceInv, SourceTypeOK
    <3>. QED BY <2>1, <2>2, <3>1, <3>2 DEF SourceInv, SourceTypeOK, threadVars
  <2>. QED BY <2>1, <2>4, <2>5, <2>6, <2>7 DEF SourceInv, threadVars
<1>. QED BY <1>2, <1>3, <1>4, <1>5, <1>6, <1>7 DEF MainLoop, Polling

LEMMA NewClientKeepsInv ==
    ASSUME SourceInv, NewClient
    PROVE  SourceInv'
<1>1. << >> \in Seq(Messages) /\ << >> \in Seq({"put", "set", "wake"})
  BY EmptySeq
<1>2. SourceTypeOK'
  BY <1>1 DEF NewClient, SourceInv, SourceTypeOK
<1>3. << >> \in ThreadWork /\ ~HasPut(<< >>)
  BY DEF ThreadWork, HasPut
<1>4. Fresh' \in Nat /\ Fresh <= Fresh'
  BY <1>3, FreshType DEF NewClient, Fresh
<1>5. Below(handled, Fresh')
  BY <1>4, FreshType, FreshGrows, MessagesType DEF SourceInv, SourceTypeOK
<1>. QED BY <1>2, <1>3, <1>5, EmptyRises DEF NewClient, SourceInv

LEMMA SourceNextInv == SourceInv /\ [SourceNext]_sourceVars => SourceInv'
<1>. SUFFICES ASSUME SourceInv, [SourceNext]_sourceVars PROVE SourceInv'
  OBVIOUS
<1>1. CASE UNCHANGED sourceVars
  BY <1>1, QuietKeepsInv
     DEF sourceVars, clientVars, loopVars, SourceInv, SourceTypeOK
<1>. QED BY <1>1, ThreadKeepsInv, LoopKeepsInv, NewClientKeepsInv DEF SourceNext

\* The inductive invariant of the hand-over between the two threads
\* (mqtt_client_proxy.h 11-134).
THEOREM SourceInvariance == SourceSpec => []SourceInv
<1>. QED BY InitSourceInv, SourceNextInv, PTL DEF SourceSpec

\* The variables of the hand-over keep their types (mqtt_client_proxy.h 11-93).
THEOREM SourceTypeCorrect == SourceSpec => []SourceTypeOK
<1>1. SourceInv => SourceTypeOK
  BY DEF SourceInv
<1>. QED BY <1>1, SourceInvariance, PTL

\* Messages are handled in the order they arrived and none twice, for any number
\* of them, both orders of queueing and calling back, and every stop, start and
\* loss of the client in between (mqtt_client_proxy.h 69-91, 115-134).
THEOREM AlwaysInOrder == SourceSpec => []InOrder
<1>1. SourceInv => InOrder
  <2>. SUFFICES ASSUME SourceInv PROVE InOrder
    OBVIOUS
  <2>1. /\ handled \in Seq(Nat) /\ queue \in Seq(Nat) /\ msg \in Nat
        /\ queue \in Seq(Messages)
    BY MessagesType DEF SourceInv, SourceTypeOK
  <2>2. \A i \in 1 .. Len(handled) - 1 : handled[i] < handled[i + 1]
    BY <2>1 DEF SourceInv, Rising
  <2>3. msg # 0 /\ handled # << >> => Last(handled) < msg
    BY <2>1 DEF SourceInv, Below, Last
  <2>4. queue # << >> => msg < Head(queue)
    <3>. SUFFICES ASSUME queue # << >> PROVE msg < Head(queue)
      OBVIOUS
    <3>1. Head(queue) = queue[1] /\ 1 \in DOMAIN queue /\ Head(queue) \in Messages
      BY <2>1, HeadTailProperties
    <3>2. CASE msg = 0
      BY <3>1, <3>2, MessagesType
    <3>3. CASE msg # 0
      BY <3>1, <3>3 DEF SourceInv, Above
    <3>. QED BY <3>2, <3>3
  <2>. QED BY <2>2, <2>3, <2>4 DEF InOrder
<1>. QED BY <1>1, SourceInvariance, PTL
-----------------------------------------------------------------------------
(* Service: to the hand-over, booting, crashing and settling are starts of  *)
(* consumption and new clients.                                             *)

LEMMA NextIsSource == [Next]_vars => [SourceNext]_sourceVars
<1>. SUFFICES ASSUME [Next]_vars PROVE [SourceNext]_sourceVars
  OBVIOUS
<1>1. CASE Connect \/ Settle
  BY <1>1 DEF Connect, Settle, SourceNext
<1>2. CASE SubscribeThrows \/ Die
  BY <1>2 DEF SubscribeThrows, Die, SourceNext
<1>3. CASE (\E o \in Arrivals : Receive(o)) \/ PahoStep \/ LoopStep
  BY <1>3 DEF Receive, PahoStep, LoopStep, SourceNext, MainLoop
<1>4. CASE OnMqttMessage
  <2>1. PICK sent \in BOOLEAN : Emit(sent)
    BY <1>4 DEF OnMqttMessage
  <2>. QED BY <2>1 DEF SourceNext, MainLoop
<1>5. CASE Subscribe \/ Heartbeat \/ Restart \/ BrokerGoes \/ BrokerComes \/ UNCHANGED vars
  BY <1>5 DEF Subscribe, Heartbeat, Restart, BrokerGoes, BrokerComes, vars
<1>. QED BY <1>1, <1>2, <1>3, <1>4, <1>5 DEF Next

\* The service hands messages over as MqttSource does, so they are handled in
\* order across boots and crashes too.
THEOREM ServiceUsesSource == Spec => SourceSpec
<1>1. Init => SourceInit
  BY DEF Init
<1>. QED BY <1>1, NextIsSource, PTL DEF Spec, SourceSpec
-----------------------------------------------------------------------------
(* Commands.                                                                *)

\* A service that does not consume has no message under way, a booting one
\* holds none back, and one that consumes is enabled.
ServiceInv ==
    /\ SourceInv
    /\ ServiceTypeOK
    /\ NoneForgotten
    /\ ConsumesIffFree
    /\ ~consuming => queue = << >> /\ msg = 0
    /\ consuming => mqtt_enabled = TRUE
    /\ main # "run" => slot = 0 /\ mqtt_enabled = TRUE
    /\ main = "subscribe" => consuming

LEMMA InitServiceInv == Init => ServiceInv
<1>. SUFFICES ASSUME Init PROVE ServiceInv
  OBVIOUS
<1>1. SourceInv
  BY InitSourceInv DEF Init
<1>2. << >> \in Seq(Messages) /\ << >> \o << >> = << >>
  BY EmptySeq, ConcatEmptySeq
<1>3. ServiceTypeOK
  BY <1>1, <1>2 DEF Init, ServiceTypeOK, SourceInv
<1>4. NoneForgotten
  BY <1>2 DEF Init, SourceInit, NoneForgotten, Held
<1>. QED BY <1>1, <1>3, <1>4 DEF Init, SourceInit, ServiceInv, ConsumesIffFree

\* Steps of the hand-over that bring no message to the Gateway.
LEMMA CarryKeepsInv ==
    ASSUME ServiceInv,
           (\E o \in Arrivals : Receive(o)) \/ PahoStep \/ LoopStep
    PROVE  ServiceInv'
<1>1. SourceInv'
  BY SourceNextInv DEF Receive, PahoStep, LoopStep, SourceNext, MainLoop, ServiceInv
<1>2. UNCHANGED <<consuming, handled, bootVars, commandVars>>
  BY DEF Receive, Arrive, PahoStep, PahoSteps, Put, SetPending, WakeUp, LoopStep, Polling,
         Woken, OtherSource, PollReturns, Check, TryConsume, StorePending,
         clientVars, loopVars
<1>3. ~consuming => queue' = << >> /\ msg' = 0
  BY DEF Receive, Arrive, PahoStep, PahoSteps, Put, SetPending, WakeUp, LoopStep, Polling,
         Woken, OtherSource, PollReturns, Check, TryConsume, StorePending,
         clientVars, loopVars, ServiceInv
<1>4. ServiceTypeOK'
  BY <1>1, <1>2 DEF ServiceInv, ServiceTypeOK, SourceInv, bootVars, commandVars
<1>5. NoneForgotten' /\ ConsumesIffFree'
  BY <1>2, <1>3 DEF ServiceInv, NoneForgotten, Held, ConsumesIffFree, bootVars, commandVars
<1>. QED BY <1>1, <1>2, <1>3, <1>4, <1>5 DEF ServiceInv, bootVars, commandVars

LEMMA OnMqttKeepsInv ==
    ASSUME ServiceInv, OnMqttMessage
    PROVE  ServiceInv'
<1>1. PICK sent \in BOOLEAN :
         /\ Emit(sent)
         /\ mqtt_enabled' = sent
         /\ slot' = IF mqtt_enabled /\ ~sent THEN msg ELSE slot
         /\ settled' = IF sent THEN Append(settled, msg) ELSE settled
  BY DEF OnMqttMessage
<1>2. main = "run" /\ UNCHANGED <<main, brokerUp, linked>>
  BY DEF OnMqttMessage, bootVars
<1>3. SourceInv'
  BY <1>1, SourceNextInv DEF SourceNext, MainLoop, ServiceInv
<1>4. /\ handled' = Append(handled, msg) /\ msg' = 0
      /\ IF sent THEN UNCHANGED <<consuming, queue>> ELSE consuming' = FALSE /\ queue' = << >>
      /\ msg \in Messages /\ msg # 0
  BY <1>1 DEF Emit, clientVars, ServiceInv, SourceInv, SourceTypeOK
<1>5. consuming /\ mqtt_enabled = TRUE /\ slot = 0
  BY <1>2, <1>4 DEF ServiceInv, ConsumesIffFree
<1>6. settled \in Seq(Messages) /\ handled = settled
  BY <1>5, ConcatEmptySeq DEF ServiceInv, ServiceTypeOK, NoneForgotten, Held
<1>7. Append(settled, msg) \in Seq(Messages)
      /\ Append(settled, msg) = settled \o <<msg>>
      /\ Append(settled, msg) \o << >> = Append(settled, msg)
  BY <1>4, <1>6, AppendProperties, AppendIsConcat, ConcatEmptySeq
<1>8. CASE sent = TRUE
  <2>1. /\ slot' = 0 /\ settled' = Append(settled, msg) /\ mqtt_enabled' = TRUE
        /\ UNCHANGED <<consuming, queue>>
    BY <1>1, <1>4, <1>5, <1>8
  <2>2. ServiceTypeOK'
    BY <1>2, <1>3, <1>7, <2>1 DEF ServiceInv, ServiceTypeOK, SourceInv
  <2>3. NoneForgotten'
    BY <1>4, <1>6, <1>7, <2>1 DEF NoneForgotten, Held
  <2>. QED BY <1>2, <1>3, <1>4, <1>5, <2>1, <2>2, <2>3 DEF ServiceInv, ConsumesIffFree
<1>9. CASE sent = FALSE
  <2>1. /\ slot' = msg /\ settled' = settled /\ mqtt_enabled' = FALSE
        /\ consuming' = FALSE /\ queue' = << >>
    BY <1>1, <1>4, <1>5, <1>9
  <2>2. ServiceTypeOK'
    BY <1>2, <1>3, <1>4, <2>1 DEF ServiceInv, ServiceTypeOK, SourceInv
  <2>3. NoneForgotten'
    BY <1>4, <1>6, <1>7, <2>1 DEF NoneForgotten, Held
  <2>. QED BY <1>2, <1>3, <1>4, <2>1, <2>2, <2>3 DEF ServiceInv, ConsumesIffFree
<1>. QED BY <1>8, <1>9

LEMMA SettleKeepsInv ==
    ASSUME ServiceInv, Settle
    PROVE  ServiceInv'
<1>1. SourceInv'
  BY SourceNextInv DEF Settle, SourceNext, ServiceInv
<1>2. /\ main = "run" /\ UNCHANGED <<main, brokerUp, linked, handled, msg>>
      /\ consuming' = TRUE /\ queue' = << >> /\ mqtt_enabled' = TRUE
      /\ slot # 0 /\ slot' = 0 /\ settled' = Append(settled, slot)
  BY DEF Settle, StartConsuming, bootVars, loopVars
<1>3. slot \in Messages /\ settled \in Seq(Messages)
  BY <1>2 DEF ServiceInv, ServiceTypeOK
<1>4. /\ Append(settled, slot) \in Seq(Messages)
      /\ Append(settled, slot) = settled \o <<slot>>
      /\ Append(settled, slot) \o << >> = Append(settled, slot)
  BY <1>3, AppendProperties, AppendIsConcat, ConcatEmptySeq
<1>5. ServiceTypeOK'
  BY <1>1, <1>2, <1>4 DEF ServiceInv, ServiceTypeOK, SourceInv
<1>6. handled = settled \o <<slot>>
  BY <1>2 DEF ServiceInv, NoneForgotten, Held
<1>7. NoneForgotten'
  BY <1>2, <1>4, <1>6 DEF NoneForgotten, Held
<1>. QED BY <1>1, <1>2, <1>5, <1>7 DEF ServiceInv, ConsumesIffFree

LEMMA DieKeepsInv ==
    ASSUME ServiceInv, Die
    PROVE  ServiceInv'
<1>1. SourceInv'
  BY SourceNextInv DEF Die, SourceNext, ServiceInv
<1>2. /\ main' = "dead" /\ consuming' = FALSE /\ queue' = << >> /\ msg' = 0
      /\ mqtt_enabled' = TRUE /\ slot' = 0 /\ settled' = settled \o Held
      /\ linked' = FALSE /\ UNCHANGED <<brokerUp, handled>>
  BY DEF Die, NewClient
<1>3. settled' = handled /\ handled \in Seq(Messages)
  BY <1>2 DEF ServiceInv, NoneForgotten, ServiceTypeOK, SourceTypeOK
<1>4. ServiceTypeOK'
  BY <1>1, <1>2, <1>3 DEF ServiceInv, ServiceTypeOK, SourceInv
<1>5. NoneForgotten'
  BY <1>2, <1>3, ConcatEmptySeq DEF NoneForgotten, Held
<1>. QED BY <1>1, <1>2, <1>4, <1>5 DEF ServiceInv, ConsumesIffFree

LEMMA BootKeepsInv ==
    ASSUME ServiceInv, Connect \/ Subscribe \/ SubscribeThrows \/ Restart
    PROVE  ServiceInv'
<1>1. SourceInv'
  BY SourceNextInv
     DEF Connect, Subscribe, SubscribeThrows, Restart, SourceNext, ServiceInv
<1>2. main # "run" /\ slot = 0 /\ mqtt_enabled = TRUE
  BY DEF Connect, Subscribe, SubscribeThrows, Restart, ServiceInv
<1>3. UNCHANGED <<handled, brokerUp, mqtt_enabled, slot, settled>>
  BY DEF Connect, StartConsuming, Subscribe, SubscribeThrows, NewClient, Restart,
         commandVars, sourceVars, loopVars
<1>4. linked' \in BOOLEAN /\ main' \in {"connect", "subscribe", "run", "dead"}
  BY DEF Connect, Subscribe, SubscribeThrows, Restart, ServiceInv, ServiceTypeOK
<1>5. ServiceTypeOK'
  BY <1>1, <1>3, <1>4 DEF ServiceInv, ServiceTypeOK, SourceInv
<1>6. NoneForgotten'
  BY <1>3 DEF ServiceInv, NoneForgotten, Held
<1>7. CASE Connect
  <2>1. main' = "subscribe" /\ consuming' = TRUE
    BY <1>7 DEF Connect, StartConsuming
  <2>. QED BY <1>1, <1>2, <1>3, <1>5, <1>6, <2>1 DEF ServiceInv, ConsumesIffFree
<1>8. CASE SubscribeThrows
  <2>1. main' = "connect" /\ consuming' = FALSE /\ queue' = << >> /\ msg' = 0
    BY <1>8 DEF SubscribeThrows, NewClient
  <2>. QED BY <1>1, <1>2, <1>3, <1>5, <1>6, <2>1 DEF ServiceInv, ConsumesIffFree
<1>9. CASE Subscribe \/ Restart
  <2>1. /\ UNCHANGED <<consuming, queue, msg>>
        /\ main' = "run" => consuming
        /\ main' # "subscribe"
    BY <1>9 DEF Subscribe, Restart, sourceVars, clientVars, loopVars, ServiceInv
  <2>. QED BY <1>1, <1>2, <1>3, <1>5, <1>6, <2>1 DEF ServiceInv, ConsumesIffFree
<1>. QED BY <1>7, <1>8, <1>9

\* The heartbeat, the broker, and steps that change nothing.
LEMMA IdleKeepsInv ==
    ASSUME ServiceInv, Heartbeat \/ BrokerGoes \/ BrokerComes \/ UNCHANGED vars
    PROVE  ServiceInv'
<1>1. SourceInv' /\ UNCHANGED <<consuming, queue, msg, handled>>
  <2>1. UNCHANGED sourceVars
    BY DEF Heartbeat, BrokerGoes, BrokerComes, vars
  <2>. QED BY <2>1, SourceNextInv DEF sourceVars, clientVars, loopVars, ServiceInv
<1>2. /\ UNCHANGED <<main, slot, settled>>
      /\ mqtt_enabled' \in {TRUE, mqtt_enabled}
      /\ brokerUp' \in BOOLEAN /\ linked' \in BOOLEAN
  BY DEF Heartbeat, BrokerGoes, BrokerComes, vars, bootVars, commandVars,
         ServiceInv, ServiceTypeOK
<1>3. ServiceTypeOK'
  BY <1>1, <1>2 DEF ServiceInv, ServiceTypeOK, SourceInv
<1>4. NoneForgotten' /\ ConsumesIffFree'
  BY <1>1, <1>2 DEF ServiceInv, NoneForgotten, Held, ConsumesIffFree
<1>. QED BY <1>1, <1>2, <1>3, <1>4 DEF ServiceInv

LEMMA NextServiceInv == ServiceInv /\ [Next]_vars => ServiceInv'
  BY CarryKeepsInv, OnMqttKeepsInv, SettleKeepsInv, DieKeepsInv, BootKeepsInv,
     IdleKeepsInv DEF Next

\* The inductive invariant: the event source's, the slot, and consumption (gateway.h
\* 106-181, mqtt_client_proxy.h 37-101).
THEOREM ServiceInvariance == Spec => []ServiceInv
<1>. QED BY InitServiceInv, NextServiceInv, PTL DEF Spec

\* Every variable of the whole service, both threads included, keeps its type.
THEOREM ServiceTypeCorrect == Spec => []ServiceTypeOK
<1>1. ServiceInv => ServiceTypeOK
  BY DEF ServiceInv
<1>. QED BY <1>1, ServiceInvariance, PTL

\* Every command handed to the Gateway leaves in the order of arrival or is the
\* one held back, through every crash, boot and outage (gateway.h 106-181).
THEOREM NeverForgotten == Spec => []NoneForgotten
<1>1. ServiceInv => NoneForgotten
  BY DEF ServiceInv
<1>. QED BY <1>1, ServiceInvariance, PTL

\* Consumption and the held back command exclude each other.
THEOREM AlwaysConsumesIffFree == Spec => []ConsumesIffFree
<1>1. ServiceInv => ConsumesIffFree
  BY DEF ServiceInv
<1>. QED BY <1>1, ServiceInvariance, PTL
=============================================================================

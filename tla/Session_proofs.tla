--------------------------- MODULE Session_proofs ---------------------------
(***************************************************************************)
(* Proofs about Session, for every number of devices and lights, any       *)
(* modulus of packet_seq and all bounds.                                   *)
(***************************************************************************)
EXTENDS Session, Induction, SequenceTheorems, TLAPS
-----------------------------------------------------------------------------
(* Sequence numbers.                                                        *)

NonZeroSeqs == 1 .. SeqModulus - 1

\* The sequence number of the packet after one with sequence number s ...
After(s) == IF s = SeqModulus - 1 THEN 1 ELSE s + 1

\* ... and that of the packet k places before it.
Before(s, k) == IF s > k THEN s - k ELSE s - k + (SeqModulus - 1)

NextSeq == NonZero(connectedDevice.packet_seq)

\* The history is the run of numbers that ends just before the next one.
RunsUpTo(s) ==
    \A i \in 1 .. Len(recent) : recent[i] = Before(s, Len(recent) + 1 - i)

SessionType ==
    /\ connectedDevice \in Connections \cup {None}
    /\ subscriptions \in [Devices -> 0 .. MaxSubscriptions]
    /\ recent \in Seq(Seqs)

RecentIsRun ==
    /\ Len(recent) < SeqModulus
    /\ connectedDevice = None => recent = << >>
    /\ connectedDevice # None => RunsUpTo(NextSeq)

IInv == SessionType /\ RecentIsRun /\ SlotsServed

\* What Send stores in packet_seq, and uses the next time.
LEMMA NextAfter ==
    ASSUME NEW s \in NonZeroSeqs
    PROVE  /\ (s + 1) % SeqModulus \in Seqs
           /\ NonZero((s + 1) % SeqModulus) = After(s)
<1>1. SeqModulus \in Nat /\ SeqModulus > 2
  BY ModulusAssumption
<1>2. CASE s = SeqModulus - 1
  <2>1. (s + 1) % SeqModulus = 0
    BY <1>1, <1>2
  <2>. QED
    BY <1>1, <1>2, <2>1 DEF NonZero, After, Seqs
<1>3. CASE s # SeqModulus - 1
  <2>1. s + 1 \in 0 .. SeqModulus - 1
    BY <1>1, <1>3 DEF NonZeroSeqs
  <2>2. (s + 1) % SeqModulus = s + 1
    BY <1>1, <2>1
  <2>. QED
    BY <1>1, <1>3, <2>1, <2>2 DEF NonZero, After, Seqs, NonZeroSeqs
<1>. QED
  BY <1>2, <1>3

LEMMA NonZeroIsNonZero ==
    ASSUME NEW s \in Seqs
    PROVE  NonZero(s) \in NonZeroSeqs
BY ModulusAssumption DEF Seqs, NonZero, NonZeroSeqs

\* One packet on, everything is one place further back.
LEMMA BeforeAfter ==
    ASSUME NEW s \in NonZeroSeqs
    PROVE  /\ After(s) \in NonZeroSeqs
           /\ Before(After(s), 1) = s
           /\ \A k \in 1 .. SeqModulus - 2 : Before(After(s), k + 1) = Before(s, k)
BY ModulusAssumption DEF NonZeroSeqs, After, Before

\* A run shorter than the modulus repeats nothing and leaves 0 out.
LEMMA RunIsFresh ==
    ASSUME IInv
    PROVE  SequenceFresh
<1>1. CASE connectedDevice = None
  BY <1>1 DEF IInv, RecentIsRun, SequenceFresh
<1>2. CASE connectedDevice # None
  <2>. DEFINE s == NextSeq
              n == Len(recent)
  <2>1. connectedDevice.packet_seq \in Seqs
    BY <1>2 DEF IInv, SessionType, Connections
  <2>2. s \in NonZeroSeqs
    BY <2>1, NonZeroIsNonZero DEF NextSeq
  <2>3. n \in Nat /\ n < SeqModulus /\ DOMAIN recent = 1 .. n
    BY DEF IInv, SessionType, RecentIsRun
  <2>4. \A i \in 1 .. n : recent[i] = Before(s, n + 1 - i)
    BY <1>2 DEF IInv, RecentIsRun, RunsUpTo
  <2>. HIDE DEF s, n
  <2>5. \A i \in 1 .. n : Before(s, n + 1 - i) # 0
    BY <2>2, <2>3, ModulusAssumption DEF NonZeroSeqs, Before
  <2>6. \A i, j \in 1 .. n : Before(s, n + 1 - i) = Before(s, n + 1 - j) => i = j
    BY <2>2, <2>3, ModulusAssumption DEF NonZeroSeqs, Before
  <2>. QED
    BY <2>3, <2>4, <2>5, <2>6 DEF SequenceFresh
<1>. QED
  BY <1>1, <1>2
-----------------------------------------------------------------------------
(* The inductive invariant.                                                 *)

LEMMA InitIInv == Init => IInv
<1>. SUFFICES ASSUME Init PROVE IInv
  OBVIOUS
<1>1. SessionType
  BY BoundsAssumption DEF Init, SessionType
<1>2. RecentIsRun
  BY ModulusAssumption DEF Init, RecentIsRun
<1>3. SlotsServed
  BY DEF Init, SlotsServed
<1>. QED
  BY <1>1, <1>2, <1>3 DEF IInv

\* A packet sent: the window moves on by one.
LEMMA SendKeeps ==
    ASSUME IInv, Send
    PROVE  IInv'
<1>. DEFINE s == NextSeq
            n == Len(recent)
            a == Append(recent, s)
<1>1. connectedDevice \in Connections /\ connectedDevice # None
  BY DEF IInv, SessionType, Send
<1>2. s \in NonZeroSeqs /\ s \in Seqs
  BY <1>1, NonZeroIsNonZero, ModulusAssumption DEF NextSeq, Connections, NonZeroSeqs, Seqs
<1>3. /\ recent \in Seq(Seqs) /\ n \in Nat /\ n < SeqModulus
      /\ \A i \in 1 .. n : recent[i] = Before(s, n + 1 - i)
  BY <1>1 DEF IInv, SessionType, RecentIsRun, RunsUpTo
<1>4. /\ connectedDevice' = [connectedDevice EXCEPT !.packet_seq = (s + 1) % SeqModulus]
      /\ recent' = Window(a)
      /\ subscriptions' = subscriptions
  BY DEF Send, NextSeq
<1>5. connectedDevice' \in Connections /\ NextSeq' = After(s)
  <2>1. (s + 1) % SeqModulus \in Seqs /\ NonZero((s + 1) % SeqModulus) = After(s)
    BY <1>2, NextAfter
  <2>2. /\ connectedDevice' \in Connections
        /\ connectedDevice'.packet_seq = (s + 1) % SeqModulus
    BY <1>1, <1>4, <2>1 DEF Connections
  <2>. QED
    BY <2>1, <2>2 DEF NextSeq
<1>. HIDE DEF s
<1>6. /\ a \in Seq(Seqs) /\ Len(a) = n + 1
      /\ a[n + 1] = s /\ \A i \in 1 .. n : a[i] = recent[i]
  BY <1>2, <1>3
<1>. HIDE DEF n, a
<1>7. /\ Before(After(s), 1) = s
      /\ \A k \in 1 .. SeqModulus - 2 : Before(After(s), k + 1) = Before(s, k)
  BY <1>2, BeforeAfter
<1>8. /\ recent' \in Seq(Seqs) /\ Len(recent') < SeqModulus
      /\ \A i \in 1 .. Len(recent') : recent'[i] = Before(After(s), Len(recent') + 1 - i)
  <2>1. CASE n + 1 < SeqModulus
    <3>1. recent' = a
      BY <1>4, <1>6, <2>1 DEF Window
    <3>2. ASSUME NEW i \in 1 .. n
          PROVE  a[i] = Before(After(s), n + 2 - i)
      <4>1. n + 1 - i \in 1 .. SeqModulus - 2
        BY <1>3, <2>1, ModulusAssumption
      <4>2. Before(After(s), (n + 1 - i) + 1) = Before(s, n + 1 - i)
        BY <1>7, <4>1
      <4>. QED
        BY <1>3, <1>6, <4>2
    <3>. QED
      BY <1>3, <1>6, <1>7, <2>1, <3>1, <3>2
  <2>2. CASE ~(n + 1 < SeqModulus)
    <3>1. n = SeqModulus - 1
      BY <1>3, <2>2, ModulusAssumption
    <3>2. recent' = Tail(a)
      BY <1>4, <1>6, <2>2 DEF Window
    <3>3. /\ recent' \in Seq(Seqs) /\ Len(recent') = n
          /\ \A i \in 1 .. n : recent'[i] = a[i + 1]
      <4>1. a # << >>
        BY <1>3, <1>6
      <4>2. /\ Tail(a) \in Seq(Seqs) /\ Len(Tail(a)) = Len(a) - 1
            /\ \A i \in 1 .. Len(Tail(a)) : Tail(a)[i] = a[i + 1]
        BY <1>6, <4>1, HeadTailProperties
      <4>3. Len(Tail(a)) = n
        BY <1>3, <1>6, <4>2
      <4>. QED
        BY <3>2, <4>2, <4>3
    <3>4. ASSUME NEW i \in 1 .. n
          PROVE  recent'[i] = Before(After(s), n + 1 - i)
      <4>1. CASE i = n
        BY <1>3, <1>6, <1>7, <3>3, <4>1
      <4>2. CASE i # n
        <5>1. i + 1 \in 1 .. n /\ n - i \in 1 .. SeqModulus - 2
          BY <1>3, <3>1, <4>2, ModulusAssumption
        <5>2. recent'[i] = Before(s, n + 1 - (i + 1))
          BY <1>3, <1>6, <3>3, <5>1
        <5>3. Before(After(s), (n - i) + 1) = Before(s, n - i)
          BY <1>7, <5>1
        <5>4. n + 1 - (i + 1) = n - i /\ (n - i) + 1 = n + 1 - i
          BY <1>3
        <5>. QED
          BY <5>2, <5>3, <5>4
      <4>. QED
        BY <4>1, <4>2
    <3>. QED
      BY <1>3, <3>1, <3>3, <3>4, ModulusAssumption
  <2>. QED
    BY <2>1, <2>2
<1>9. SessionType'
  BY <1>4, <1>5, <1>8 DEF IInv, SessionType
<1>10. RecentIsRun'
  BY <1>5, <1>8, NoneIsNoConnection DEF RecentIsRun, RunsUpTo
<1>11. SlotsServed'
  BY <1>1, <1>4 DEF IInv, SlotsServed, Connections
<1>. QED
  BY <1>9, <1>10, <1>11 DEF IInv

LEMMA PairKeeps ==
    ASSUME IInv, Pair
    PROVE  IInv'
<1>. DEFINE c == connectedDevice
            d == connectedDevice.addr
<1>1. /\ c \in Connections /\ c # None /\ d \in Devices
      /\ c.slots \in Nat /\ c.packet_seq \in Seqs
  BY BoundsAssumption DEF IInv, SessionType, Pair, Connections
<1>2. /\ subscriptions[d] \in Nat /\ subscriptions[d] < MaxSubscriptions
      /\ c.slots <= subscriptions[d]
  <2>1. subscriptions[d] \in 0 .. MaxSubscriptions
    BY <1>1 DEF IInv, SessionType
  <2>2. c.slots > 0 => subscriptions[d] >= c.slots
    BY <1>1 DEF IInv, SlotsServed
  <2>. QED
    BY <1>1, <2>1, <2>2, BoundsAssumption DEF Pair
<1>3. connectedDevice' = [c EXCEPT !.key = TRUE, !.slots = @ + 1]
  BY DEF Pair
<1>4. /\ connectedDevice' \in Connections
      /\ connectedDevice'.addr = d /\ connectedDevice'.key
      /\ connectedDevice'.packet_seq = c.packet_seq
      /\ connectedDevice'.slots = c.slots + 1
  <2>1. c.slots + 1 \in 0 .. MaxSubscriptions
    BY <1>1, <1>2, BoundsAssumption
  <2>. QED
    BY <1>1, <1>3, <2>1 DEF Connections
<1>5. /\ subscriptions' \in [Devices -> 0 .. MaxSubscriptions]
      /\ subscriptions'[d] = subscriptions[d] + 1
  <2>1. subscriptions[d] + 1 \in 0 .. MaxSubscriptions
    BY <1>2, BoundsAssumption
  <2>. QED
    BY <1>1, <2>1 DEF Pair, IInv, SessionType
<1>6. recent' = recent
  BY DEF Pair
<1>7. SessionType'
  BY <1>4, <1>5, <1>6 DEF IInv, SessionType
<1>8. RecentIsRun'
  <2>1. NextSeq' = NextSeq
    BY <1>4 DEF NextSeq
  <2>. QED
    BY <1>1, <1>4, <1>6, <2>1, NoneIsNoConnection DEF IInv, RecentIsRun, RunsUpTo
<1>9. SlotsServed'
  BY <1>1, <1>2, <1>4, <1>5 DEF SlotsServed
<1>. QED
  BY <1>7, <1>8, <1>9 DEF IInv

LEMMA ConnectKeeps ==
    ASSUME IInv, NEW d \in Devices, Connect(d)
    PROVE  IInv'
<1>1. /\ connectedDevice' \in Connections
      /\ connectedDevice'.slots = 0
      /\ recent' = << >>
      /\ subscriptions' = subscriptions
  BY ModulusAssumption, BoundsAssumption DEF Connect, Connections, Seqs
<1>2. SessionType'
  BY <1>1 DEF IInv, SessionType
<1>3. RecentIsRun'
  BY <1>1, NoneIsNoConnection, ModulusAssumption DEF RecentIsRun, RunsUpTo
<1>4. SlotsServed'
  BY <1>1 DEF SlotsServed
<1>. QED
  BY <1>2, <1>3, <1>4 DEF IInv

LEMMA EndKeeps ==
    ASSUME IInv, Drop \/ Restart
    PROVE  IInv'
<1>1. /\ connectedDevice' = None
      /\ recent' = << >>
      /\ subscriptions' \in [Devices -> 0 .. MaxSubscriptions]
  BY BoundsAssumption DEF Drop, Restart, IInv, SessionType
<1>2. SessionType'
  BY <1>1 DEF SessionType
<1>3. RecentIsRun'
  BY <1>1, ModulusAssumption DEF RecentIsRun
<1>4. SlotsServed'
  BY <1>1 DEF SlotsServed
<1>. QED
  BY <1>2, <1>3, <1>4 DEF IInv

LEMMA StutterKeeps ==
    ASSUME IInv, UNCHANGED <<connectedDevice, subscriptions, recent>>
    PROVE  IInv'
BY DEF IInv, SessionType, RecentIsRun, RunsUpTo, NextSeq, SlotsServed

LEMMA NextIInv == IInv /\ [Next]_vars => IInv'
<1>. SUFFICES ASSUME IInv, [Next]_vars PROVE IInv'
  OBVIOUS
<1>1. ASSUME NEW d \in Devices, Connect(d) PROVE IInv'
  BY <1>1, ConnectKeeps
<1>2. ASSUME NEW d \in Devices, Notify(d) PROVE IInv'
  BY <1>2, StutterKeeps DEF Notify
<1>3. CASE Drop \/ Restart
  BY <1>3, EndKeeps
<1>4. CASE Pair
  BY <1>4, PairKeeps
<1>5. CASE Send
  BY <1>5, SendKeeps
<1>6. CASE OnData
  BY <1>6, StutterKeeps DEF OnData
<1>7. CASE UNCHANGED vars
  BY <1>7, StutterKeeps DEF vars
<1>. QED
  BY <1>1, <1>2, <1>3, <1>4, <1>5, <1>6, <1>7 DEF Next

\* The inductive invariant holds.
THEOREM Invariance == Spec => []IInv
<1>1. Init => IInv
  BY InitIInv
<1>2. IInv /\ [Next]_vars => IInv'
  BY NextIInv
<1>. QED
  BY <1>1, <1>2, PTL DEF Spec

\* Whatever the width of packet_seq, and however often connections are replaced
\* and packets sent: no number is 0, and none recurs before all were used.
THEOREM SequenceAlwaysFresh == Spec => []SequenceFresh
<1>1. IInv => SequenceFresh
  BY RunIsFresh
<1>. QED
  BY <1>1, Invariance, PTL

\* A connection that is handed data has a key, and a subscription for each slot.
THEOREM SlotsAlwaysServed == Spec => []SlotsServed
<1>1. IInv => SlotsServed
  BY DEF IInv
<1>. QED
  BY <1>1, Invariance, PTL
-----------------------------------------------------------------------------
(* What is published.  The publications of the slots are concatenated, and   *)
(* each of them may be cut short by an exception.                            *)

\* In s a light is called available only after its configuration or state.
Ordered(s) ==
    \A i \in DOMAIN s :
        s[i].topic = "available" =>
            /\ i > 1
            /\ s[i - 1].topic \in {"config", "state"}
            /\ s[i - 1].node = s[i].node

OrderedMessages == {s \in Seq(Messages) : Ordered(s)}

LEMMA OrderedConcat ==
    ASSUME NEW s \in OrderedMessages, NEW t \in OrderedMessages
    PROVE  s \o t \in OrderedMessages
<1>. DEFINE u == s \o t
            n == Len(s)
<1>1. /\ s \in Seq(Messages) /\ t \in Seq(Messages) /\ Ordered(s) /\ Ordered(t)
      /\ n \in Nat /\ Len(t) \in Nat
      /\ DOMAIN s = 1 .. n /\ DOMAIN t = 1 .. Len(t)
  BY DEF OrderedMessages
<1>2. /\ u \in Seq(Messages)
      /\ DOMAIN u = 1 .. n + Len(t)
      /\ \A i \in 1 .. n + Len(t) : u[i] = IF i <= n THEN s[i] ELSE t[i - n]
  BY <1>1, ConcatProperties
<1>. HIDE DEF u, n
<1>3. ASSUME NEW i \in 1 .. n + Len(t), u[i].topic = "available"
      PROVE  /\ i > 1
             /\ u[i - 1].topic \in {"config", "state"}
             /\ u[i - 1].node = u[i].node
  <2>1. CASE i <= n
    <3>1. i \in DOMAIN s /\ u[i] = s[i]
      BY <1>1, <1>2, <2>1
    <3>2. i > 1 /\ s[i - 1].topic \in {"config", "state"} /\ s[i - 1].node = s[i].node
      BY <1>1, <1>3, <3>1 DEF Ordered
    <3>3. u[i - 1] = s[i - 1]
      BY <1>1, <1>2, <2>1, <3>2
    <3>. QED BY <3>1, <3>2, <3>3
  <2>2. CASE ~(i <= n)
    <3>1. i - n \in DOMAIN t /\ u[i] = t[i - n]
      BY <1>1, <1>2, <2>2
    <3>2. /\ i - n > 1
          /\ t[i - n - 1].topic \in {"config", "state"}
          /\ t[i - n - 1].node = t[i - n].node
      BY <1>1, <1>3, <3>1 DEF Ordered
    <3>3. i - 1 \in 1 .. n + Len(t) /\ ~(i - 1 <= n) /\ (i - 1) - n = i - n - 1
      BY <1>1, <3>2
    <3>4. u[i - 1] = t[i - n - 1]
      BY <1>2, <3>3
    <3>. QED BY <1>1, <3>1, <3>2, <3>3, <3>4
  <2>. QED BY <2>1, <2>2
<1>4. Ordered(u)
  BY <1>2, <1>3 DEF Ordered
<1>. QED BY <1>2, <1>4 DEF OrderedMessages, u

LEMMA ShortPrefixes ==
    ASSUME NEW m, NEW a
    PROVE  /\ Prefixes(<<m>>) = {<< >>, <<m>>}
           /\ Prefixes(<<m, a>>) = {<< >>, <<m>>, <<m, a>>}
<1>. DEFINE one == <<m>>
            two == <<m, a>>
            S == {m, a}
<1>1. /\ one \in Seq(S) /\ Len(one) = 1
      /\ two \in Seq(S) /\ Len(two) = 2
      /\ one[1] = m /\ two[1] = m
  OBVIOUS
<1>. HIDE DEF one, two, S
<1>2. SubSeq(one, 1, 0) = << >> /\ SubSeq(two, 1, 0) = << >>
  BY SubSeqEmpty
<1>3. SubSeq(one, 1, 1) = one /\ SubSeq(two, 1, 2) = two
  BY <1>1, SubSeqFull
<1>4. SubSeq(two, 1, 1) = one
  <2>1. /\ SubSeq(two, 1, 1) \in Seq(S) /\ Len(SubSeq(two, 1, 1)) = 1
        /\ SubSeq(two, 1, 1)[1] = two[1]
    BY <1>1
  <2>. QED BY <1>1, <2>1, SeqEqual
<1>5. 0 .. 1 = {0, 1} /\ 0 .. 2 = {0, 1, 2}
  OBVIOUS
<1>6. Prefixes(one) = {<< >>, one}
  BY <1>1, <1>2, <1>3, <1>5, Zenon DEF Prefixes
<1>7. Prefixes(two) = {<< >>, one, two}
  BY <1>1, <1>2, <1>3, <1>4, <1>5, Zenon DEF Prefixes
<1>. QED BY <1>6, <1>7 DEF one, two

LEMMA PublicationsOrdered ==
    ASSUME NEW report \in Reports, NEW src \in NodeIds, NEW id \in NodeIds
    PROVE  Outcomes(report, src, id) \subseteq OrderedMessages
<1>. DEFINE p == Publications(report, src, id)
<1>1. \/ p = << >>
      \/ \E m \in Messages : m.topic # "available" /\ p = <<m>>
      \/ \E m, a \in Messages : /\ m.topic \in {"config", "state"} /\ m.node = a.node
                               /\ p = <<m, a>>
  <2>. DEFINE M(t, n) == [topic |-> t, node |-> n]
  <2>1. \A t \in Topics, n \in NodeIds :
           M(t, n) \in Messages /\ M(t, n).topic = t /\ M(t, n).node = n
    BY DEF Messages
  <2>2. \/ p = <<M("config", id), M("available", id)>>
        \/ p = <<M("state", id), M("available", id)>>
        \/ p = <<M("status", src)>>
        \/ p = << >>
    BY DEF Publications, Reports
  <2>3. {"config", "available", "state", "status"} \subseteq Topics
    BY DEF Topics
  <2>. HIDE DEF M, p
  <2>. QED BY <2>1, <2>2, <2>3
<1>2. << >> \in OrderedMessages
  BY DEF OrderedMessages, Ordered
<1>3. ASSUME NEW m \in Messages, m.topic # "available"
      PROVE  <<m>> \in OrderedMessages
  BY <1>3 DEF OrderedMessages, Ordered
<1>4. ASSUME NEW m \in Messages, NEW a \in Messages,
             m.topic \in {"config", "state"}, m.node = a.node
      PROVE  <<m, a>> \in OrderedMessages /\ <<m>> \in OrderedMessages
  <2>1. <<m>> \in OrderedMessages
    BY <1>3, <1>4
  <2>2. <<m, a>> \in Seq(Messages) /\ DOMAIN <<m, a>> = {1, 2}
    OBVIOUS
  <2>3. Ordered(<<m, a>>)
    BY <1>4, <2>2 DEF Ordered
  <2>. QED BY <2>1, <2>2, <2>3 DEF OrderedMessages
<1>5. ASSUME NEW s \in Prefixes(p) PROVE s \in OrderedMessages
  <2>. HIDE DEF p
  <2>1. CASE p = << >>
    <3>1. s = << >>
      BY <2>1, SubSeqEmpty DEF Prefixes
    <3>. QED BY <1>2, <3>1
  <2>2. ASSUME NEW m \in Messages, m.topic # "available", p = <<m>>
        PROVE  s \in OrderedMessages
    <3>1. s \in {<< >>, <<m>>}
      BY <1>5, <2>2, ShortPrefixes
    <3>. QED BY <1>2, <1>3, <2>2, <3>1
  <2>3. ASSUME NEW m \in Messages, NEW a \in Messages,
               m.topic \in {"config", "state"}, m.node = a.node, p = <<m, a>>
        PROVE  s \in OrderedMessages
    <3>1. s \in {<< >>, <<m>>, <<m, a>>}
      BY <1>5, <2>3, ShortPrefixes
    <3>2. <<m, a>> \in OrderedMessages /\ <<m>> \in OrderedMessages
      BY <1>4, <2>3
    <3>. QED BY <1>2, <3>1, <3>2
  <2>. QED BY <1>1, <2>1, <2>2, <2>3
<1>. QED BY <1>5 DEF Outcomes

LEMMA OnDataPublishes ==
    ASSUME IInv, OnData
    PROVE  published' \in OrderedMessages
<1>. DEFINE slots == IF connectedDevice = None THEN 0 ELSE connectedDevice.slots
<1>1. slots \in Nat
  BY BoundsAssumption DEF IInv, SessionType, Connections
<1>2. PICK report \in Reports, src \in NodeIds, id \in NodeIds :
         \E out \in [1 .. slots -> Outcomes(report, src, id)] : published' = FlattenSeq(out)
  BY DEF OnData
<1>. HIDE DEF slots
<1>3. PICK out \in [1 .. slots -> Outcomes(report, src, id)] : published' = FlattenSeq(out)
  BY <1>2
<1>4. out \in [1 .. slots -> OrderedMessages]
  BY PublicationsOrdered
<1>5. << >> \in OrderedMessages
  BY DEF OrderedMessages, Ordered
<1>6. FlattenSeq(out) \in OrderedMessages
  BY <1>1, <1>4, <1>5, OrderedConcat, FlattenClosed
<1>. QED BY <1>3, <1>6

\* Together with the type of what SessionType does not speak of
PublishedInv ==
    /\ callbacks \in Seq(Devices)
    /\ published \in OrderedMessages

LEMMA NextPublished ==
    ASSUME IInv, PublishedInv, [Next]_vars
    PROVE  PublishedInv'
<1>1. << >> \in OrderedMessages
  BY DEF OrderedMessages, Ordered
<1>2. ASSUME NEW d \in Devices, Notify(d) PROVE PublishedInv'
  <2>1. subscriptions[d] \in Nat
    BY BoundsAssumption DEF IInv, SessionType
  <2>2. [i \in 1 .. subscriptions[d] |-> d] \in Seq(Devices)
    BY <2>1
  <2>3. callbacks' \in Seq(Devices) /\ published' = published
    BY <1>2, <2>2, ConcatProperties DEF Notify, PublishedInv
  <2>. QED BY <2>3 DEF PublishedInv
<1>3. CASE OnData
  <2>1. callbacks' \in Seq(Devices)
    BY <1>3, HeadTailProperties DEF OnData, PublishedInv
  <2>. QED BY <1>3, <2>1, OnDataPublishes DEF PublishedInv
<1>4. CASE Restart
  BY <1>1, <1>4 DEF Restart, PublishedInv
<1>5. CASE (\E d \in Devices : Connect(d)) \/ Drop \/ Pair \/ Send \/ UNCHANGED vars
  BY <1>5 DEF Connect, Drop, Pair, Send, vars, PublishedInv
<1>. QED BY <1>2, <1>3, <1>4, <1>5 DEF Next

LEMMA AlwaysPublished == Spec => []PublishedInv
<1>1. Init => PublishedInv
  BY DEF Init, PublishedInv, OrderedMessages, Ordered
<1>2. IInv /\ PublishedInv /\ [Next]_vars => PublishedInv'
  BY NextPublished
<1>. QED BY <1>1, <1>2, Invariance, PTL DEF Spec

\* For any number of slots and reports, and wherever a publication fails: a light is
\* called available only right after its configuration or state was published.
THEOREM AlwaysAvailableAfterReport == Spec => []AvailableAfterReport
<1>1. PublishedInv => AvailableAfterReport
  BY DEF PublishedInv, OrderedMessages, Ordered, AvailableAfterReport
<1>. QED BY <1>1, AlwaysPublished, PTL

\* The connection, the subscriptions, what waits and what is published keep their types.
THEOREM SessionTypeCorrect == Spec => []TypeOK
<1>1. IInv /\ PublishedInv => TypeOK
  BY DEF IInv, SessionType, PublishedInv, OrderedMessages, TypeOK
<1>. QED BY <1>1, Invariance, AlwaysPublished, PTL
=============================================================================

----------------------------- MODULE Induction -----------------------------
(***************************************************************************)
(* Induction over natural numbers, stated with sets, and what it says of   *)
(* the concatenation FlattenSeq of the community modules: its result is    *)
(* in every set that has the parts and is closed under concatenation.      *)
(***************************************************************************)
EXTENDS Integers, Sequences, SequencesExt, WellFoundedInduction, TLAPS

\* Every set of natural numbers with a member has a least one.
LEMMA Least ==
    ASSUME NEW T \in SUBSET Nat, T # {}
    PROVE  \E n \in T : \A m \in T : n <= m
<1>. DEFINE R == OpToRel(<, Nat)
<1>1. IsWellFoundedOn(R, Nat)
  BY NatLessThanWellFounded
<1>2. \A x, y \in Nat : <<x, y>> \in R <=> x < y
  BY DEF OpToRel
<1>. HIDE DEF R
<1>3. PICK n \in T : \A m \in T : ~ (<<m, n>> \in R)
  BY <1>1, WFMin
<1>4. ASSUME NEW m \in T PROVE n <= m
  <2>1. n \in Nat /\ m \in Nat
    OBVIOUS
  <2>2. ~ (m < n)
    BY <1>2, <1>3, <2>1
  <2>. QED BY <2>1, <2>2
<1>. QED BY <1>4

\* Induction: a set with 0 and the successors of its members has all numbers.
LEMMA SetInduction ==
    ASSUME NEW S, 0 \in S, \A n \in Nat : n \in S => n + 1 \in S
    PROVE  Nat \subseteq S
<1>. SUFFICES ASSUME Nat \ S # {} PROVE FALSE
  OBVIOUS
<1>1. PICK n \in Nat \ S : \A m \in Nat \ S : n <= m
  BY Least
<1>2. n # 0 /\ n - 1 \in Nat
  OBVIOUS
<1>3. n - 1 \in S
  BY <1>1, <1>2
<1>4. (n - 1) + 1 \in S
  BY <1>2, <1>3
<1>. QED BY <1>1, <1>4

\* The equation FlattenSeq solves, up to the n-th part.
Flattens(f, parts, n) ==
    f = [i \in 1 .. n |-> IF i = 1 THEN parts[i] ELSE f[i - 1] \o parts[i]]

\* The equation has a solution, so that CHOOSE finds one.
LEMMA FlattensExists ==
    ASSUME NEW parts
    PROVE  \A n \in Nat : \E f : Flattens(f, parts, n)
<1>. DEFINE S == {n \in Nat : \E f : Flattens(f, parts, n)}
<1>1. 0 \in S
  <2>1. Flattens(<< >>, parts, 0)
    BY DEF Flattens
  <2>. QED BY <2>1
<1>2. ASSUME NEW n \in Nat, n \in S PROVE n + 1 \in S
  <2>1. PICK f : Flattens(f, parts, n)
    BY <1>2
  <2>2. DOMAIN f = 1 .. n
    BY <2>1 DEF Flattens
  <2>. DEFINE last == IF n = 0 THEN parts[1] ELSE f[n] \o parts[n + 1]
              g == [i \in 1 .. n + 1 |-> IF i = n + 1 THEN last ELSE f[i]]
  <2>3. \A i \in 1 .. n + 1 : g[i] = IF i = 1 THEN parts[i] ELSE g[i - 1] \o parts[i]
    <3>1. ASSUME NEW i \in 1 .. n PROVE f[i] = IF i = 1 THEN parts[i] ELSE f[i - 1] \o parts[i]
      BY <2>1 DEF Flattens
    <3>2. ASSUME NEW i \in 1 .. n PROVE g[i] = IF i = 1 THEN parts[i] ELSE g[i - 1] \o parts[i]
      <4>1. g[i] = f[i] /\ (i # 1 => i - 1 \in 1 .. n + 1 /\ i - 1 # n + 1 /\ g[i - 1] = f[i - 1])
        OBVIOUS
      <4>. HIDE DEF g
      <4>. QED BY <3>1, <4>1
    <3>3. g[n + 1] = IF n + 1 = 1 THEN parts[n + 1] ELSE g[n] \o parts[n + 1]
      <4>1. g[n + 1] = last /\ (n # 0 => g[n] = f[n])
        OBVIOUS
      <4>. HIDE DEF g
      <4>. QED BY <4>1
    <3>. HIDE DEF g
    <3>4. \A i \in 1 .. n + 1 : i \in 1 .. n \/ i = n + 1
      OBVIOUS
    <3>5. (n + 1) - 1 = n
      OBVIOUS
    <3>. QED BY <3>2, <3>3, <3>4, <3>5
  <2>4. g = [i \in 1 .. n + 1 |-> g[i]]
    OBVIOUS
  <2>. HIDE DEF g
  <2>5. [i \in 1 .. n + 1 |-> g[i]]
           = [i \in 1 .. n + 1 |-> IF i = 1 THEN parts[i] ELSE g[i - 1] \o parts[i]]
    BY <2>3
  <2>6. Flattens(g, parts, n + 1)
    BY <2>4, <2>5 DEF Flattens
  <2>. QED BY <2>6
<1>. HIDE DEF S
<1>3. Nat \subseteq S
  BY <1>1, <1>2, SetInduction
<1>. QED BY <1>3 DEF S

\* What FlattenSeq makes of parts of G is in G, if G is closed under concatenation.
LEMMA FlattenClosed ==
    ASSUME NEW G, << >> \in G, \A s, t \in G : s \o t \in G,
           NEW n \in Nat, NEW parts \in [1 .. n -> G]
    PROVE  FlattenSeq(parts) \in G
<1>1. Len(parts) = n /\ (n = 0 => parts = << >>)
  OBVIOUS
<1>2. CASE n = 0
  BY <1>1, <1>2 DEF FlattenSeq
<1>3. CASE n # 0
  <2>. DEFINE F == CHOOSE f : Flattens(f, parts, n)
  <2>1. FlattenSeq(parts) = F[n]
    BY <1>1, <1>3 DEF FlattenSeq, Flattens
  <2>2. Flattens(F, parts, n)
    BY FlattensExists
  <2>. HIDE DEF F
  <2>3. \A i \in 1 .. n : F[i] = IF i = 1 THEN parts[i] ELSE F[i - 1] \o parts[i]
    BY <2>2 DEF Flattens
  <2>. DEFINE S == {m \in Nat : m \in 1 .. n => F[m] \in G}
  <2>4. 0 \in S
    OBVIOUS
  <2>5. ASSUME NEW m \in Nat, m \in S PROVE m + 1 \in S
    <3>. SUFFICES ASSUME m + 1 \in 1 .. n PROVE F[m + 1] \in G
      OBVIOUS
    <3>1. parts[m + 1] \in G
      OBVIOUS
    <3>2. CASE m = 0
      BY <2>3, <3>1, <3>2
    <3>3. CASE m # 0
      <4>1. m \in 1 .. n /\ (m + 1) - 1 = m /\ m + 1 # 1
        BY <3>3
      <4>2. F[m] \in G
        BY <2>5, <4>1
      <4>3. F[m + 1] = F[m] \o parts[m + 1]
        BY <2>3, <4>1
      <4>. QED BY <3>1, <4>2, <4>3
    <3>. QED BY <3>2, <3>3
  <2>. HIDE DEF S
  <2>6. Nat \subseteq S
    BY <2>4, <2>5, SetInduction
  <2>. QED BY <1>3, <2>1, <2>6 DEF S
<1>. QED BY <1>2, <1>3
=============================================================================

--------------------------- MODULE SequenceFacts ----------------------------
(***************************************************************************)
(* Facts that several proofs share: induction over the numbers as a fact   *)
(* about sets, which the provers can use, and facts about sequences.       *)
(***************************************************************************)
EXTENDS SequenceTheorems, WellFoundedInduction, TLAPS

\* A set of numbers has a least element.
LEMMA LeastNumber ==
    ASSUME NEW T, T \subseteq Nat, T # {}
    PROVE  \E n \in T : \A m \in T : n <= m
<1> DEFINE R == OpToRel(<, Nat)
<1>1. IsWellFoundedOn(R, Nat)
  BY NatLessThanWellFounded
<1>2. \A m, n \in Nat : m < n => <<m, n>> \in R
  BY DEF OpToRel
<1> HIDE DEF R
<1>3. PICK n \in T : \A m \in T : ~ (<<m, n>> \in R)
  BY <1>1, WFMin
<1>4. \A m \in T : ~ (m < n)
  BY <1>2, <1>3
<1>5. \A m \in T : n <= m
  BY <1>4
<1> QED
  BY <1>5

\* Induction over the numbers, with a set in the place of a predicate.
LEMMA SetInduction ==
    ASSUME NEW T, 0 \in T, \A n \in Nat : n \in T => n + 1 \in T
    PROVE  Nat \subseteq T
<1> SUFFICES ASSUME Nat \ T # {}
             PROVE  FALSE
  OBVIOUS
<1>1. PICK n \in Nat \ T : \A m \in Nat \ T : n <= m
  BY LeastNumber
<1>2. n # 0 /\ n - 1 \in Nat
  BY <1>1
<1>3. n - 1 \in T
  BY <1>1, <1>2
<1> QED
  BY <1>1, <1>2, <1>3

\* What an append leaves and adds.
LEMMA AppendFacts ==
    ASSUME NEW S, NEW s \in Seq(S), NEW e \in S
    PROVE  /\ Append(s, e) \in Seq(S)
           /\ Len(Append(s, e)) = Len(s) + 1
           /\ \A i \in 1 .. Len(s) : Append(s, e)[i] = s[i]
           /\ Append(s, e)[Len(s) + 1] = e
           /\ DOMAIN s = 1 .. Len(s)
           /\ DOMAIN Append(s, e) = 1 .. Len(s) + 1
           /\ Len(s) \in Nat
OBVIOUS

\* A sequence of one element.
LEMMA SingletonFacts ==
    ASSUME NEW S, NEW e \in S
    PROVE  /\ <<e>> \in Seq(S) /\ <<e>> # << >>
           /\ Len(<<e>>) = 1 /\ <<e>>[1] = e /\ Head(<<e>>) = e
OBVIOUS

\* A sequence of two elements.
LEMMA PairFacts ==
    ASSUME NEW S, NEW d \in S, NEW e \in S
    PROVE  /\ <<d, e>> \in Seq(S) /\ <<d, e>> # << >>
           /\ Len(<<d, e>>) = 2 /\ <<d, e>>[1] = d /\ <<d, e>>[2] = e
           /\ Head(<<d, e>>) = d
OBVIOUS

\* A sequence with a length is not empty.
LEMMA NotEmpty ==
    ASSUME NEW S, NEW s \in Seq(S), Len(s) >= 1
    PROVE  s # << >>
BY EmptySeq

\* Induction over the sequences, on their length.
LEMMA LengthInduction ==
    ASSUME NEW A, NEW T,
           \A s \in Seq(A) : (\A u \in Seq(A) : Len(u) < Len(s) => u \in T) => s \in T
    PROVE  Seq(A) \subseteq T
<1> DEFINE N == {n \in Nat : \A s \in Seq(A) : Len(s) < n => s \in T}
<1>1. 0 \in N
  BY LenProperties
<1>2. ASSUME NEW n \in Nat, n \in N
      PROVE  n + 1 \in N
  <2>1. SUFFICES ASSUME NEW s \in Seq(A), Len(s) < n + 1
                 PROVE  s \in T
    OBVIOUS
  <2>2. Len(s) \in Nat /\ \A u \in Seq(A) : Len(u) \in Nat
    BY LenProperties
  <2>3. ASSUME NEW u \in Seq(A), Len(u) < Len(s)
        PROVE  u \in T
    <3>1. Len(u) < n
      BY <2>1, <2>2, <2>3
    <3> QED
      BY <1>2, <3>1
  <2> QED
    BY <2>3
<1>3. Nat \subseteq N
  <2> HIDE DEF N
  <2> QED
    BY <1>1, <1>2, SetInduction
<1>4. ASSUME NEW s \in Seq(A)
      PROVE  s \in T
  <2>1. Len(s) + 1 \in N /\ Len(s) < Len(s) + 1
    <3>1. Len(s) \in Nat
      BY LenProperties
    <3> HIDE DEF N
    <3> QED
      BY <1>3, <3>1
  <2> QED
    BY <2>1
<1> QED
  BY <1>4

\* A function that says something at the front of a sequence and goes on with
\* what follows, a shorter one, exists.
Short(A, n) == {s \in Seq(A) : Len(s) <= n}

Unfolds(f, said, next, S) ==
    \A s \in S : f[s] = IF s = << >> THEN << >> ELSE said[s] \o f[next[s]]

LEMMA UnfoldsShort ==
    ASSUME NEW A, NEW B, NEW said \in [Seq(A) -> Seq(B)], NEW next \in [Seq(A) -> Seq(A)],
           \A s \in Seq(A) : s # << >> => Len(next[s]) < Len(s)
    PROVE  \A n \in Nat : \E f \in [Short(A, n) -> Seq(B)] :
               Unfolds(f, said, next, Short(A, n))
<1> DEFINE T == {n \in Nat : \E f \in [Short(A, n) -> Seq(B)] :
                              Unfolds(f, said, next, Short(A, n))}
<1>0. \A s \in Seq(A) : Len(s) \in Nat /\ (Len(s) = 0 <=> s = << >>)
  BY EmptySeq, LenProperties
<1>1. 0 \in T
  <2> DEFINE f == [s \in Short(A, 0) |-> << >>]
  <2>1. \A s \in Short(A, 0) : s = << >>
    BY <1>0 DEF Short
  <2>2. << >> \in Seq(B)
    OBVIOUS
  <2>3. f \in [Short(A, 0) -> Seq(B)]
    BY <2>2
  <2>4. Unfolds(f, said, next, Short(A, 0))
    BY <2>1 DEF Unfolds
  <2> QED
    BY <2>3, <2>4
<1>2. ASSUME NEW n \in Nat, n \in T
      PROVE  n + 1 \in T
  <2>1. PICK g \in [Short(A, n) -> Seq(B)] : Unfolds(g, said, next, Short(A, n))
    BY <1>2
  <2> DEFINE h(s) == IF s = << >> THEN << >> ELSE said[s] \o g[next[s]]
             f == [s \in Short(A, n + 1) |-> h(s)]
  <2>2. ASSUME NEW s \in Short(A, n + 1), s # << >>
        PROVE  next[s] \in Short(A, n) /\ next[s] \in Short(A, n + 1) /\ s \in Seq(A)
    <3>1. s \in Seq(A) /\ Len(s) <= n + 1
      BY DEF Short
    <3>2. next[s] \in Seq(A) /\ Len(next[s]) < Len(s)
      BY <2>2, <3>1
    <3>3. Len(next[s]) \in Nat /\ Len(s) \in Nat
      BY <1>0, <3>1, <3>2
    <3>4. Len(next[s]) <= n /\ Len(next[s]) <= n + 1
      BY <3>1, <3>2, <3>3
    <3> QED
      BY <3>1, <3>2, <3>4 DEF Short
  <2>3. f \in [Short(A, n + 1) -> Seq(B)]
    <3>1. ASSUME NEW s \in Short(A, n + 1)
          PROVE  h(s) \in Seq(B)
      <4>1. CASE s = << >>
        BY <4>1
      <4>2. CASE s # << >>
        <5>1. said[s] \in Seq(B) /\ g[next[s]] \in Seq(B)
          BY <2>2, <4>2
        <5> QED
          BY <4>2, <5>1, ConcatProperties
      <4> QED
        BY <4>1, <4>2
    <3> HIDE DEF h
    <3> QED
      BY <3>1
  <2>4. ASSUME NEW s \in Short(A, n)
        PROVE  s \in Short(A, n + 1) /\ f[s] = g[s]
    <3>1. s \in Short(A, n + 1)
      BY <1>0 DEF Short
    <3> QED
      BY <2>1, <3>1 DEF Unfolds
  <2>5. Unfolds(f, said, next, Short(A, n + 1))
    <3> SUFFICES ASSUME NEW s \in Short(A, n + 1), s # << >>
                 PROVE  f[s] = said[s] \o f[next[s]]
      BY DEF Unfolds
    <3>1. next[s] \in Short(A, n)
      BY <2>2
    <3>2. f[next[s]] = g[next[s]]
      BY <2>4, <3>1
    <3> QED
      BY <3>2
  <2> HIDE DEF f
  <2> QED
    BY <2>3, <2>5
<1>3. Nat \subseteq T
  <2> HIDE DEF T
  <2> QED
    BY <1>1, <1>2, SetInduction
<1> QED
  BY <1>3

LEMMA UnfoldsAgree ==
    ASSUME NEW A, NEW said, NEW next \in [Seq(A) -> Seq(A)],
           \A s \in Seq(A) : s # << >> => Len(next[s]) < Len(s),
           NEW m \in Nat, NEW n \in Nat, m <= n, NEW f, NEW g,
           Unfolds(f, said, next, Short(A, m)), Unfolds(g, said, next, Short(A, n))
    PROVE  \A s \in Short(A, m) : f[s] = g[s]
<1> DEFINE T == {s \in Seq(A) : Len(s) <= m => f[s] = g[s]}
<1>0. \A s \in Seq(A) : Len(s) \in Nat
  BY LenProperties
<1>1. ASSUME NEW s \in Seq(A), \A u \in Seq(A) : Len(u) < Len(s) => u \in T
      PROVE  s \in T
  <2>1. SUFFICES ASSUME Len(s) <= m
                 PROVE  f[s] = g[s]
    OBVIOUS
  <2>2. s \in Short(A, m) /\ s \in Short(A, n)
    BY <1>0, <2>1 DEF Short
  <2>3. CASE s = << >>
    BY <2>2, <2>3 DEF Unfolds
  <2>4. CASE s # << >>
    <3>1. next[s] \in Seq(A) /\ Len(next[s]) < Len(s)
      BY <2>4
    <3>2. Len(next[s]) <= m
      BY <1>0, <2>1, <3>1
    <3>3. f[next[s]] = g[next[s]]
      BY <1>1, <3>1, <3>2
    <3> QED
      BY <2>2, <2>4, <3>3 DEF Unfolds
  <2> QED
    BY <2>3, <2>4
<1>2. Seq(A) \subseteq T
  <2> HIDE DEF T
  <2> QED
    BY <1>1, LengthInduction
<1> QED
  BY <1>2 DEF Short

LEMMA UnfoldsExists ==
    ASSUME NEW A, NEW B, NEW said \in [Seq(A) -> Seq(B)], NEW next \in [Seq(A) -> Seq(A)],
           \A s \in Seq(A) : s # << >> => Len(next[s]) < Len(s)
    PROVE  \E f \in [Seq(A) -> Seq(B)] : Unfolds(f, said, next, Seq(A))
<1> DEFINE Good(n, f) == f \in [Short(A, n) -> Seq(B)] /\ Unfolds(f, said, next, Short(A, n))
           G(n) == CHOOSE f : Good(n, f)
           f == [s \in Seq(A) |-> G(Len(s))[s]]
<1>0. \A s \in Seq(A) : Len(s) \in Nat
  BY LenProperties
<1>1. ASSUME NEW n \in Nat
      PROVE  G(n) \in [Short(A, n) -> Seq(B)] /\ Unfolds(G(n), said, next, Short(A, n))
  <2>1. \E g : Good(n, g)
    BY UnfoldsShort
  <2> HIDE DEF Good
  <2>2. Good(n, G(n))
    BY <2>1
  <2> QED
    BY <2>2 DEF Good
<1> HIDE DEF G
<1>2. ASSUME NEW s \in Seq(A)
      PROVE  s \in Short(A, Len(s)) /\ f[s] = G(Len(s))[s] /\ f[s] \in Seq(B)
  <2>1. Len(s) \in Nat /\ s \in Short(A, Len(s))
    BY <1>0 DEF Short
  <2>2. G(Len(s))[s] \in Seq(B)
    BY <1>1, <2>1
  <2> QED
    BY <2>1, <2>2
<1>3. f \in [Seq(A) -> Seq(B)]
  BY <1>2
<1>4. ASSUME NEW m \in Nat, NEW n \in Nat, m <= n, NEW u \in Short(A, m)
      PROVE  G(m)[u] = G(n)[u]
  <2>1. Unfolds(G(m), said, next, Short(A, m)) /\ Unfolds(G(n), said, next, Short(A, n))
    BY <1>1
  <2>2. \A s \in Short(A, m) : G(m)[s] = G(n)[s]
    <3> DEFINE g == G(m)
               h == G(n)
    <3>1. Unfolds(g, said, next, Short(A, m)) /\ Unfolds(h, said, next, Short(A, n))
      BY <2>1
    <3> HIDE DEF g, h
    <3>2. \A s \in Short(A, m) : g[s] = h[s]
      BY <1>4, <3>1, UnfoldsAgree
    <3> QED
      BY <3>2 DEF g, h
  <2> QED
    BY <2>2
<1>5. Unfolds(f, said, next, Seq(A))
  <2> SUFFICES ASSUME NEW s \in Seq(A)
               PROVE  f[s] = IF s = << >> THEN << >> ELSE said[s] \o f[next[s]]
    BY DEF Unfolds
  <2> DEFINE n == Len(s)
             u == next[s]
  <2>1. G(n)[s] = IF s = << >> THEN << >> ELSE said[s] \o G(n)[u]
    BY <1>0, <1>1, <1>2 DEF Unfolds
  <2>2. CASE s = << >>
    BY <1>2, <2>1, <2>2
  <2>3. CASE s # << >>
    <3>1. u \in Seq(A) /\ Len(u) \in Nat /\ n \in Nat /\ Len(u) <= n
      <4>1. u \in Seq(A) /\ Len(u) < n /\ n \in Nat
        BY <1>0, <2>3
      <4>2. Len(u) \in Nat
        BY <1>0, <4>1
      <4> HIDE DEF n, u
      <4> QED
        BY <4>1, <4>2
    <3>2. G(Len(u))[u] = G(n)[u]
      <4>1. u \in Short(A, Len(u))
        BY <1>2, <3>1
      <4> HIDE DEF n, u
      <4> QED
        BY <1>4, <3>1, <4>1
    <3>3. f[s] = G(n)[s] /\ f[u] = G(Len(u))[u]
      BY <1>2, <3>1
    <3> HIDE DEF f, n, u
    <3>4. f[s] = said[s] \o f[u]
      BY <2>1, <2>3, <3>2, <3>3
    <3> QED
      BY <2>3, <3>4 DEF u
  <2> QED
    BY <2>2, <2>3
<1> HIDE DEF f
<1> QED
  BY <1>3, <1>5
=============================================================================

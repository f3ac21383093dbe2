--------------------------- MODULE FlattenLemmas ---------------------------
(***************************************************************************)
(* Lemmas about the operators on sequences and sets that the models are    *)
(* built from and that the libraries have no theorem on: the smallest and  *)
(* the largest index, FlattenSeq, SelectSeq.  The recursive functions      *)
(* under them are reasoned about with an induction over a set of numbers.  *)
(***************************************************************************)
EXTENDS Integers, SequencesExt, SequenceTheorems, WellFoundedInduction, TLAPS

\* Induction, for a property given as the set of the numbers that have it.
LEMMA SetInduction ==
  ASSUME NEW S, 0 \in S, \A n \in Nat : n \in S => n + 1 \in S
  PROVE  Nat \subseteq S
<1> DEFINE T == Nat \ S
<1> SUFFICES ASSUME T # {} PROVE FALSE
  OBVIOUS
<1>1. PICK x \in T : \A y \in T : ~ (<<y, x>> \in OpToRel(<, Nat))
  BY NatLessThanWellFounded, WFMin
<1>2. x \in Nat /\ x # 0
  OBVIOUS
<1>3. x - 1 \in Nat /\ x - 1 < x
  BY <1>2
<1>4. x - 1 \notin T
  BY <1>1, <1>2, <1>3 DEF OpToRel
<1>5. x - 1 + 1 \in S
  BY <1>3, <1>4
<1> QED
  BY <1>2, <1>5

\* The smallest element of a non-empty set of natural numbers.
LEMMA MinOfNats ==
  ASSUME NEW S \in SUBSET Nat, S # {}
  PROVE  Min(S) \in S /\ \A i \in S : Min(S) <= i
<1>1. PICK x \in S : \A y \in S : ~ (<<y, x>> \in OpToRel(<, Nat))
  BY NatLessThanWellFounded, WFMin
<1>2. ASSUME NEW y \in S, y < x PROVE FALSE
  BY <1>1, <1>2 DEF OpToRel
<1>3. \A y \in S : x <= y
  BY <1>2
<1> QED
  BY <1>3 DEF Min

\* The recursive function of FlattenSeq satisfies its equation.
LEMMA FlattenDefined ==
  ASSUME NEW S, NEW seqs \in Seq(Seq(S)), seqs # << >>
  PROVE  \E f : /\ f = [i \in 1..Len(seqs) |-> IF i = 1 THEN seqs[i] ELSE f[i - 1] \o seqs[i]]
                /\ FlattenSeq(seqs) = f[Len(seqs)]
<1> DEFINE Step(f, m) == [i \in 1..m |-> IF i = 1 THEN seqs[i] ELSE f[i - 1] \o seqs[i]]
           Good == {m \in Nat : \E f : f = Step(f, m)}
<1>1. 0 \in Good
  <2>1. << >> = Step(<< >>, 0)
    OBVIOUS
  <2> QED
    BY <2>1
<1>2. ASSUME NEW m \in Nat, m \in Good PROVE m + 1 \in Good
  <2>1. PICK f : f = Step(f, m)
    BY <1>2
  <2> DEFINE g == [i \in 1..m + 1 |-> IF i = m + 1 THEN IF i = 1 THEN seqs[i] ELSE f[i - 1] \o seqs[i] ELSE f[i]]
  <2>2. \A i \in 1..m : g[i] = f[i]
    OBVIOUS
  <2>3. ASSUME NEW i \in 1..m + 1 PROVE g[i] = IF i = 1 THEN seqs[i] ELSE g[i - 1] \o seqs[i]
    <3>1. CASE i = 1 /\ i = m + 1
      BY <3>1
    <3>2. CASE i # 1 /\ i = m + 1
      <4>1. i - 1 \in 1..m
        BY <3>2
      <4>2. g[i] = f[i - 1] \o seqs[i]
        BY <3>2, Zenon
      <4> QED
        BY <2>2, <3>2, <4>1, <4>2
    <3>3. CASE i # m + 1
      <4>1. i \in 1..m /\ (i # 1 => i - 1 \in 1..m)
        BY <3>3
      <4>2. f[i] = IF i = 1 THEN seqs[i] ELSE f[i - 1] \o seqs[i]
        BY <2>1, <4>1
      <4> QED
        BY <2>2, <4>1, <4>2
    <3> QED
      BY <3>1, <3>2, <3>3
  <2>4. g = Step(g, m + 1)
    <3> HIDE DEF g
    <3>1. g = [i \in 1..m + 1 |-> g[i]]
      BY DEF g
    <3> QED
      BY <2>3, <3>1
  <2>5. \E h : h = Step(h, m + 1)
    <3> HIDE DEF g
    <3> QED
      BY <2>4, Zenon
  <2> HIDE DEF Step
  <2>6. m + 1 \in Nat
    OBVIOUS
  <2> QED
    BY <2>5, <2>6, Zenon
<1>3. Len(seqs) \in Good
  <2> HIDE DEF Good
  <2> QED
    BY <1>1, <1>2, SetInduction, LenProperties
<1>4. \E f : f = Step(f, Len(seqs))
  BY <1>3
<1> DEFINE F == CHOOSE f : f = Step(f, Len(seqs))
<1>5. F = Step(F, Len(seqs))
  BY <1>4
<1>6. FlattenSeq(seqs) = F[Len(seqs)]
  <2>1. Len(seqs) # 0
    BY EmptySeq, LenProperties
  <2> QED
    BY <2>1 DEF FlattenSeq
<1> QED
  BY <1>5, <1>6

\* No element of a sequence is in P, or the first one that is has index x.
NoneIn(s, P) == \A i \in 1..Len(s) : s[i] \notin P

FirstIn(s, x, P) == x \in 1..Len(s) /\ s[x] \in P /\ \A i \in 1..x - 1 : s[i] \notin P

\* The first element that is in P of two sequences, one behind the other.
LEMMA ConcatFirst ==
  ASSUME NEW S, NEW s \in Seq(S), NEW t \in Seq(S), NEW P
  PROVE  /\ s \o t \in Seq(S)
         /\ NoneIn(s, P) /\ NoneIn(t, P) => NoneIn(s \o t, P)
         /\ \A x : FirstIn(s, x, P) => (s \o t)[x] = s[x] /\ FirstIn(s \o t, x, P)
         /\ \A x : NoneIn(s, P) /\ FirstIn(t, x, P) =>
              (s \o t)[Len(s) + x] = t[x] /\ FirstIn(s \o t, Len(s) + x, P)
<1> DEFINE u == s \o t
<1>1. /\ u \in Seq(S) /\ Len(u) = Len(s) + Len(t) /\ Len(s) \in Nat /\ Len(t) \in Nat
      /\ \A i \in 1..Len(s) : u[i] = s[i]
      /\ \A i \in 1..Len(t) : u[Len(s) + i] = t[i]
  <2>1. /\ u \in Seq(S) /\ Len(u) = Len(s) + Len(t) /\ Len(s) \in Nat /\ Len(t) \in Nat
        /\ \A i \in 1..Len(s) + Len(t) : u[i] = IF i <= Len(s) THEN s[i] ELSE t[i - Len(s)]
    BY ConcatProperties, LenProperties
  <2>2. ASSUME NEW i \in 1..Len(t) PROVE u[Len(s) + i] = t[i]
    BY <2>1
  <2> QED
    BY <2>1, <2>2
<1> HIDE DEF u
<1>2. \A i \in 1..Len(u) : i \in 1..Len(s) \/ (i - Len(s) \in 1..Len(t) /\ Len(s) + (i - Len(s)) = i)
  BY <1>1
<1>3. NoneIn(s, P) /\ NoneIn(t, P) => NoneIn(u, P)
  <2> SUFFICES ASSUME NoneIn(s, P), NoneIn(t, P), NEW i \in 1..Len(u) PROVE u[i] \notin P
    BY DEF NoneIn
  <2> QED
    BY <1>1, <1>2 DEF NoneIn
<1>4. ASSUME NEW x, FirstIn(s, x, P) PROVE u[x] = s[x] /\ FirstIn(u, x, P)
  <2>1. \A i \in 1..x - 1 : i \in 1..Len(s)
    BY <1>1, <1>4 DEF FirstIn
  <2> QED
    BY <1>1, <1>4, <2>1 DEF FirstIn
<1>5. ASSUME NEW x, NoneIn(s, P), FirstIn(t, x, P)
      PROVE  u[Len(s) + x] = t[x] /\ FirstIn(u, Len(s) + x, P)
  <2>1. x \in 1..Len(t) /\ Len(s) + x \in 1..Len(u) /\ u[Len(s) + x] = t[x]
    BY <1>1, <1>5 DEF FirstIn
  <2>2. ASSUME NEW i \in 1..Len(s) + x - 1, i \notin 1..Len(s) PROVE u[i] \notin P
    <3>1. i - Len(s) \in 1..x - 1 /\ i - Len(s) \in 1..Len(t) /\ Len(s) + (i - Len(s)) = i
      BY <1>1, <2>1, <2>2
    <3> QED
      BY <1>1, <1>5, <3>1 DEF FirstIn
  <2>3. \A i \in 1..Len(s) + x - 1 : u[i] \notin P
    BY <1>1, <1>5, <2>2 DEF NoneIn
  <2>4. u[Len(s) + x] \in P
    BY <1>5, <2>1 DEF FirstIn
  <2> QED
    BY <2>1, <2>3, <2>4 DEF FirstIn
<1> QED
  BY <1>1, <1>3, <1>4, <1>5 DEF u

\* s has the elements of the first n sequences, as far as the first one in P goes.
Flattened(seqs, n, s, P) ==
  /\ (\A l \in 1..n : NoneIn(seqs[l], P)) => NoneIn(s, P)
  /\ \A l \in 1..n : \A x \in 1..Len(seqs[l]) :
       FirstIn(seqs[l], x, P) /\ (\A m \in 1..l - 1 : NoneIn(seqs[m], P))
         => \E y \in 1..Len(s) : s[y] = seqs[l][x] /\ FirstIn(s, y, P)

\* One more sequence.
LEMMA FlattenedNext ==
  ASSUME NEW S, NEW seqs \in Seq(Seq(S)), NEW P, NEW n \in Nat, n + 1 \in 1..Len(seqs),
         NEW s \in Seq(S), Flattened(seqs, n, s, P)
  PROVE  s \o seqs[n + 1] \in Seq(S) /\ Flattened(seqs, n + 1, s \o seqs[n + 1], P)
<1> DEFINE t == seqs[n + 1]
           u == s \o t
<1>1. t \in Seq(S)
  OBVIOUS
<1>2. /\ u \in Seq(S)
      /\ NoneIn(s, P) /\ NoneIn(t, P) => NoneIn(u, P)
      /\ \A x : FirstIn(s, x, P) => u[x] = s[x] /\ FirstIn(u, x, P)
      /\ \A x : NoneIn(s, P) /\ FirstIn(t, x, P) => u[Len(s) + x] = t[x] /\ FirstIn(u, Len(s) + x, P)
  BY <1>1, ConcatFirst
<1> HIDE DEF u
<1>3. \A x : FirstIn(u, x, P) => x \in 1..Len(u)
  BY DEF FirstIn
<1>4. (\A l \in 1..n + 1 : NoneIn(seqs[l], P)) => NoneIn(u, P)
  BY <1>2 DEF Flattened
<1>5. ASSUME NEW l \in 1..n + 1, NEW x \in 1..Len(seqs[l]), FirstIn(seqs[l], x, P),
             \A m \in 1..l - 1 : NoneIn(seqs[m], P)
      PROVE  \E y \in 1..Len(u) : u[y] = seqs[l][x] /\ FirstIn(u, y, P)
  <2>1. CASE l \in 1..n
    <3>1. PICK y \in 1..Len(s) : s[y] = seqs[l][x] /\ FirstIn(s, y, P)
      BY <1>5, <2>1 DEF Flattened
    <3> QED
      BY <1>2, <1>3, <3>1
  <2>2. CASE l = n + 1
    <3>1. \A m \in 1..n : NoneIn(seqs[m], P)
      BY <1>5, <2>2
    <3>2. NoneIn(s, P)
      BY <3>1 DEF Flattened
    <3> QED
      BY <1>2, <1>3, <1>5, <2>2, <3>2
  <2> QED
    BY <2>1, <2>2
<1> QED
  BY <1>2, <1>4, <1>5 DEF u, Flattened

\* Concatenating sequences gives a sequence, and the first of its elements that is in
\* P is the first one of the first sequence that has one.
LEMMA FlattenFirst ==
  ASSUME NEW S, NEW seqs \in Seq(Seq(S)), NEW P
  PROVE  FlattenSeq(seqs) \in Seq(S) /\ Flattened(seqs, Len(seqs), FlattenSeq(seqs), P)
<1>1. CASE seqs = << >>
  <2>1. FlattenSeq(seqs) = << >> /\ Len(seqs) = 0
    BY <1>1 DEF FlattenSeq
  <2> QED
    BY <2>1 DEF Flattened, NoneIn
<1>2. CASE seqs # << >>
  <2>1. PICK f : /\ f = [i \in 1..Len(seqs) |-> IF i = 1 THEN seqs[i] ELSE f[i - 1] \o seqs[i]]
                 /\ FlattenSeq(seqs) = f[Len(seqs)]
    BY <1>2, FlattenDefined
  <2> DEFINE Good(n) == f[n] \in Seq(S) /\ Flattened(seqs, n, f[n], P)
             Ns == {n \in Nat : n + 1 \in 1..Len(seqs) => Good(n + 1)}
  <2>2. ASSUME NEW i \in 1..Len(seqs) PROVE f[i] = IF i = 1 THEN seqs[i] ELSE f[i - 1] \o seqs[i]
    BY <2>1, Zenon
  <2>3. Len(seqs) \in Nat /\ Len(seqs) # 0
    BY <1>2, EmptySeq, LenProperties
  <2>4. 0 \in Ns
    <3>1. f[1] = seqs[1] /\ seqs[1] \in Seq(S)
      BY <2>2, <2>3
    <3>2. \A l \in 1..1 : l = 1
      OBVIOUS
    <3>3. \A x : FirstIn(seqs[1], x, P) => x \in 1..Len(seqs[1])
      BY DEF FirstIn
    <3>4. Flattened(seqs, 1, seqs[1], P)
      BY <3>2, <3>3 DEF Flattened
    <3>5. Good(1)
      BY <3>1, <3>4
    <3> QED
      BY <3>5
  <2>5. ASSUME NEW n \in Nat, n \in Ns PROVE n + 1 \in Ns
    <3>1. ASSUME NEW k \in 1..Len(seqs), k = n + 1 + 1 PROVE Good(k)
      <4>1. n + 1 \in Nat /\ n + 1 \in 1..Len(seqs) /\ k # 1 /\ k - 1 = n + 1
        BY <2>3, <3>1
      <4>2. f[k] = f[n + 1] \o seqs[k]
        BY <2>2, <4>1
      <4>3. Good(n + 1)
        BY <2>5, <4>1
      <4>4. f[n + 1] \o seqs[k] \in Seq(S) /\ Flattened(seqs, k, f[n + 1] \o seqs[k], P)
        BY <3>1, <4>1, <4>3, FlattenedNext
      <4> QED
        BY <4>2, <4>4
    <3> HIDE DEF Good
    <3> QED
      BY <3>1
  <2> HIDE DEF Good
  <2>6. Len(seqs) - 1 \in Nat /\ Len(seqs) - 1 + 1 = Len(seqs) /\ Len(seqs) \in 1..Len(seqs)
    BY <2>3
  <2>7. Len(seqs) - 1 \in Ns
    <3> HIDE DEF Ns
    <3> QED
      BY <2>4, <2>5, <2>6, SetInduction
  <2>8. Good(Len(seqs))
    BY <2>6, <2>7
  <2> QED
    BY <2>1, <2>8 DEF Good
<1> QED
  BY <1>1, <1>2
=============================================================================

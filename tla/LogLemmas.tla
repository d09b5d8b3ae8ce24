----------------------------- MODULE LogLemmas ------------------------------
(***************************************************************************)
(* Facts about a log (a sequence) split into a part already consumed and   *)
(* what is left of it: how the parts change when the log grows and when    *)
(* one more entry is consumed.  And induction over the natural numbers,    *)
(* stated with a set (the induction theorems of the library take an        *)
(* operator), for what recursive functions compute.                        *)
(***************************************************************************)
EXTENDS Integers, Sequences, SequencesExt, SequenceTheorems, WellFoundedInduction, TLAPS

\* Appending to the last part of a concatenation appends to the whole.
LEMMA AppendToConcat ==
    ASSUME NEW S, NEW s \in Seq(S), NEW t \in Seq(S), NEW e \in S
    PROVE  s \o Append(t, e) = Append(s \o t, e)
<1>1. <<e>> \in Seq(S)
  OBVIOUS
<1>2. Append(t, e) = t \o <<e>> /\ s \o t \in Seq(S)
  BY AppendIsConcat, ConcatProperties
<1>3. Append(s \o t, e) = (s \o t) \o <<e>>
  BY <1>2, AppendIsConcat
<1> QED BY <1>1, <1>2, <1>3, ConcatAssociative

\* A sequence that is not empty is its head followed by its tail.
LEMMA HeadThenTail ==
    ASSUME NEW S, NEW s \in Seq(S), s # <<>>
    PROVE  /\ Head(s) \in S /\ Tail(s) \in Seq(S)
           /\ s = <<Head(s)>> \o Tail(s)
<1>1. Len(s) \in Nat \ {0}
  BY EmptySeq
<1>2. 1 \in 1..Len(s) /\ Len(s) \in 1..Len(s)
  BY <1>1
<1>3. SubSeq(s, 1, Len(s)) = <<s[1]>> \o SubSeq(s, 2, Len(s))
  BY <1>2, SubSeqRecursiveFirst
<1>4. SubSeq(s, 1, Len(s)) = s /\ Tail(s) = SubSeq(s, 2, Len(s)) /\ Head(s) = s[1]
  BY SubSeqFull, TailIsSubSeq
<1> QED BY <1>3, <1>4, HeadTailProperties

\* Consuming the first entry of what is left moves it to the consumed part.
LEMMA ConsumeOne ==
    ASSUME NEW S, NEW done \in Seq(S), NEW left \in Seq(S), NEW rest \in Seq(S), left # <<>>
    PROVE  done \o (left \o rest) = Append(done, Head(left)) \o (Tail(left) \o rest)
<1> DEFINE h == <<Head(left)>>
           t == Tail(left)
<1>1. h \in Seq(S) /\ t \in Seq(S) /\ left = h \o t /\ Head(left) \in S
  BY HeadThenTail
<1>2. Append(done, Head(left)) = done \o h
  BY <1>1, AppendIsConcat
<1> HIDE DEF h, t
<1>3. \A u, v, w \in Seq(S) : (u \o v) \o w = u \o (v \o w)
  BY ConcatAssociative
<1>4. t \o rest \in Seq(S)
  BY <1>1, ConcatProperties
<1>5. (h \o t) \o rest = h \o (t \o rest)
  BY <1>1, <1>3
<1>6. (done \o h) \o (t \o rest) = done \o (h \o (t \o rest))
  <2> DEFINE w == t \o rest
  <2>1. w \in Seq(S) /\ h \in Seq(S) /\ done \in Seq(S)
    BY <1>1, <1>4
  <2> HIDE DEF w
  <2>2. (done \o h) \o w = done \o (h \o w)
    BY <1>3, <2>1, Zenon
  <2> QED BY <2>2 DEF w
<1>7. done \o (left \o rest) = Append(done, Head(left)) \o (t \o rest)
  BY <1>1, <1>2, <1>5, <1>6
<1> QED BY <1>7 DEF t

\* The entry after the consumed part is the first of what is left.
LEMMA NextEntry ==
    ASSUME NEW S, NEW done \in Seq(S), NEW left \in Seq(S), NEW rest \in Seq(S), left # <<>>
    PROVE  /\ Len(done) < Len(done \o (left \o rest))
           /\ (done \o (left \o rest))[Len(done) + 1] = Head(left)
<1>1. left \o rest \in Seq(S) /\ Len(left \o rest) = Len(left) + Len(rest)
  BY ConcatProperties
<1>2. Len(done) \in Nat /\ Len(left) \in Nat \ {0} /\ Len(rest) \in Nat
  BY EmptySeq, LenProperties
<1>3. (left \o rest)[1] = left[1]
  <2>1. 1 \in 1..Len(left) + Len(rest) /\ 1 <= Len(left)
    BY <1>2
  <2> QED BY <2>1, ConcatProperties
<1>4. /\ Len(done \o (left \o rest)) = Len(done) + (Len(left) + Len(rest))
      /\ \A i \in 1..Len(done) + Len(left \o rest) :
            (done \o (left \o rest))[i] =
                IF i <= Len(done) THEN done[i] ELSE (left \o rest)[i - Len(done)]
  BY <1>1, ConcatProperties
<1>5. Len(done) + 1 \in 1..Len(done) + Len(left \o rest)
  BY <1>1, <1>2
<1>6. (done \o (left \o rest))[Len(done) + 1] = (left \o rest)[1]
  BY <1>2, <1>4, <1>5
<1> QED BY <1>2, <1>3, <1>4, <1>6

-----------------------------------------------------------------------------
\* Induction over the natural numbers, for a set.
LEMMA SetInduction ==
    ASSUME NEW T, 0 \in T, \A n \in Nat : n \in T => n + 1 \in T
    PROVE  \A n \in Nat : n \in T
<1> DEFINE R == OpToRel(<, Nat)
           F == Nat \ T
<1>1. IsWellFoundedOn(R, Nat)
  BY NatLessThanWellFounded
<1>r. \A x, y \in Nat : <<y, x>> \in R <=> y < x
  BY DEF OpToRel
<1> HIDE DEF R
<1>2. SUFFICES ASSUME F # {} PROVE FALSE
  OBVIOUS
<1>3. F \subseteq Nat
  OBVIOUS
<1> HIDE DEF F
<1>4. PICK x \in F : \A y \in F : ~ (<<y, x>> \in R)
  BY <1>1, <1>2, <1>3, WFMin
<1>5. x \in Nat /\ x \notin T /\ \A y \in Nat : y < x => y \in T
  BY <1>3, <1>4, <1>r DEF F
<1>6. x # 0
  BY <1>5
<1>7. x - 1 \in Nat /\ x - 1 < x /\ (x - 1) + 1 = x
  BY <1>5, <1>6
<1> QED BY <1>5, <1>7

\* f is what n steps, each of its own, make of base.
Iterates(f, base, step, n) == f[0] = base /\ \A k \in 1..n : f[k] = step[k][f[k - 1]]

\* The function exists that such a recursion defines.
LEMMA IterationExists ==
    ASSUME NEW V, NEW base \in V, NEW step, NEW n \in Nat, \A k \in 1..n, x \in V : step[k][x] \in V
    PROVE  \E f : f \in [0..n -> V] /\ Iterates(f, base, step, n)
<1> DEFINE Rec(f, m) == /\ f \in [0..m -> V] /\ f[0] = base
                        /\ \A k \in 1..m : f[k] = step[k][f[k - 1]]
           Built == {m \in Nat : m <= n => \E f : Rec(f, m)}
<1>1. 0 \in Built
  <2>1. Rec([k \in 0..0 |-> base], 0)
    OBVIOUS
  <2> HIDE DEF Rec
  <2> QED BY <2>1
<1>2. ASSUME NEW m \in Nat, m \in Built PROVE m + 1 \in Built
  <2> SUFFICES ASSUME m + 1 <= n PROVE \E f : Rec(f, m + 1)
    OBVIOUS
  <2>1. PICK f : Rec(f, m)
    BY <1>2
  <2> DEFINE last == step[m + 1][f[m]]
             g == [k \in 0..m + 1 |-> IF k = m + 1 THEN last ELSE f[k]]
  <2>2. last \in V
    <3>1. f[m] \in V /\ m + 1 \in 1..n
      BY <2>1
    <3> QED BY <3>1
  <2>3. g \in [0..m + 1 -> V]
    <3>1. \A k \in 0..m + 1 : (IF k = m + 1 THEN last ELSE f[k]) \in V
      <4> HIDE DEF last
      <4> QED BY <2>1, <2>2
    <3> HIDE DEF last
    <3> QED BY <3>1
  <2>4. g[0] = base
    BY <2>1
  <2>5. \A k \in 1..m + 1 : g[k] = step[k][g[k - 1]]
    <3> SUFFICES ASSUME NEW k \in 1..m + 1 PROVE g[k] = step[k][g[k - 1]]
      OBVIOUS
    <3>1. k - 1 \in 0..m /\ k - 1 # m + 1 /\ g[k - 1] = f[k - 1]
      OBVIOUS
    <3>2. CASE k = m + 1
      BY <3>1, <3>2
    <3>3. CASE k # m + 1
      <4>1. k \in 1..m /\ g[k] = f[k]
        BY <3>3
      <4> QED BY <2>1, <3>1, <4>1
    <3> QED BY <3>2, <3>3
  <2>6. Rec(g, m + 1)
    <3> HIDE DEF g
    <3> QED BY <2>3, <2>4, <2>5
  <2> HIDE DEF Rec, g
  <2> QED BY <2>6
<1>3. \A m \in Nat : m \in Built
  <2> HIDE DEF Built
  <2> QED BY <1>1, <1>2, SetInduction
<1>4. PICK f : Rec(f, n)
  <2> HIDE DEF Rec
  <2> QED BY <1>3
<1> QED BY <1>4 DEF Iterates

\* The concatenation of sequences over S is a sequence over S.
LEMMA FlattenType ==
    ASSUME NEW S, NEW seqs \in Seq(Seq(S))
    PROVE  FlattenSeq(seqs) \in Seq(S)
<1> DEFINE n == Len(seqs)
           Rec(f, m) == /\ f \in [1..m -> Seq(S)]
                        /\ \A i \in 1..m : f[i] = IF i = 1 THEN seqs[i] ELSE f[i-1] \o seqs[i]
           Built == {m \in Nat : m <= n => \E f : Rec(f, m)}
           Fun(f) == f = [i \in 1..n |-> IF i = 1 THEN seqs[i] ELSE f[i-1] \o seqs[i]]
           flatten == CHOOSE f : Fun(f)
<1>1. n \in Nat /\ \A i \in 1..n : seqs[i] \in Seq(S)
  OBVIOUS
<1>2. CASE n = 0
  BY <1>2 DEF FlattenSeq
<1>3. CASE n # 0
  <2>1. FlattenSeq(seqs) = flatten[n]
    BY <1>3 DEF FlattenSeq
  <2>2. 0 \in Built
    <3>1. Rec(<<>>, 0)
      OBVIOUS
    <3> HIDE DEF Rec
    <3> QED BY <3>1
  <2>3. ASSUME NEW m \in Nat, m \in Built PROVE m + 1 \in Built
    <3> HIDE DEF Rec
    <3> SUFFICES ASSUME m + 1 <= n
                 PROVE  \E f : Rec(f, m + 1)
      OBVIOUS
    <3>1. PICK f : Rec(f, m)
      BY <2>3, <1>1
    <3> USE DEF Rec
    <3> DEFINE last == IF m = 0 THEN seqs[1] ELSE f[m] \o seqs[m + 1]
               g == [i \in 1..m + 1 |-> IF i = m + 1 THEN last ELSE f[i]]
    <3>2. last \in Seq(S)
      <4>1. m + 1 \in 1..n /\ seqs[m + 1] \in Seq(S)
        BY <1>1
      <4>2. CASE m = 0
        BY <4>1, <4>2
      <4>3. CASE m # 0
        <5>1. f[m] \in Seq(S)
          BY <3>1, <4>3
        <5> QED BY <4>1, <4>3, <5>1, ConcatProperties
      <4> QED BY <4>2, <4>3
    <3>3. g \in [1..m + 1 -> Seq(S)]
      <4>1. \A i \in 1..m + 1 : (IF i = m + 1 THEN last ELSE f[i]) \in Seq(S)
        <5> HIDE DEF last
        <5> QED BY <3>1, <3>2
      <4> HIDE DEF last
      <4> QED BY <4>1
    <3>4. Rec(g, m + 1)
      <4> SUFFICES ASSUME NEW i \in 1..m + 1
                   PROVE  g[i] = IF i = 1 THEN seqs[i] ELSE g[i-1] \o seqs[i]
        BY <3>3
      <4>1. CASE i = m + 1
        <5>1. i # 1 => i - 1 = m /\ m \in 1..m /\ m # m + 1 /\ m # 0 /\ m \in 1..m + 1
          BY <4>1
        <5>2. i # 1 => g[m] = f[m]
          BY <5>1
        <5> QED BY <4>1, <5>1, <5>2
      <4>2. CASE i # m + 1
        <5>1. i \in 1..m /\ g[i] = f[i] /\ (i # 1 => i - 1 \in 1..m /\ g[i - 1] = f[i - 1])
          BY <4>2
        <5>2. f[i] = IF i = 1 THEN seqs[i] ELSE f[i-1] \o seqs[i]
          BY <3>1, <5>1
        <5> QED BY <5>1, <5>2
      <4> QED BY <4>1, <4>2
    <3> HIDE DEF Rec, g
    <3> QED BY <3>4
  <2>4. \A m \in Nat : m \in Built
    <3> HIDE DEF Built
    <3> QED BY <2>2, <2>3, SetInduction
  <2>5. Fun(flatten)
    <3>1. \E f : Rec(f, n)
      <4> HIDE DEF Rec
      <4> QED BY <2>4, <1>1
    <3>2. PICK f : Rec(f, n)
      BY <3>1
    <3>3. f = [i \in 1..n |-> f[i]]
      BY <3>2
    <3>4. Fun(f)
      BY <3>2, <3>3
    <3>5. Fun(flatten)
      <4> HIDE DEF Fun
      <4> QED BY <3>4
    <3> HIDE DEF flatten
    <3> QED BY <3>5
  <2> DEFINE Typed == {m \in Nat : m + 1 <= n => flatten[m + 1] \in Seq(S)}
  <2> HIDE DEF flatten
  <2>6. 0 \in Typed
    BY <1>1, <2>5
  <2>7. ASSUME NEW m \in Nat, m \in Typed PROVE m + 1 \in Typed
    <3> SUFFICES ASSUME m + 2 <= n PROVE flatten[m + 2] \in Seq(S)
      OBVIOUS
    <3>1. flatten[m + 1] \in Seq(S) /\ m + 2 \in 1..n /\ m + 2 # 1 /\ (m + 2) - 1 = m + 1
      BY <2>7, <1>1
    <3>2. flatten[m + 2] = flatten[m + 1] \o seqs[m + 2] /\ seqs[m + 2] \in Seq(S)
      BY <2>5, <3>1, <1>1
    <3> QED BY <3>1, <3>2, ConcatProperties
  <2>8. \A m \in Nat : m \in Typed
    <3> HIDE DEF Typed
    <3> QED BY <2>6, <2>7, SetInduction
  <2>9. n - 1 \in Nat /\ (n - 1) + 1 = n
    BY <1>1, <1>3
  <2> QED BY <2>1, <2>8, <2>9
<1> QED BY <1>2, <1>3
=============================================================================

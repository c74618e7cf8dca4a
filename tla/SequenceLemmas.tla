---------------------------- MODULE SequenceLemmas ----------------------------
(***************************************************************************)
(* Facts about natural numbers, sequences, and sums over finite sets that  *)
(* the proofs about the program's queues, batches and slices share.        *)
(***************************************************************************)
EXTENDS Integers, SequencesExt, SequenceTheorems, FiniteSetTheorems, WellFoundedInduction,
        Subsequences, TLAPS

\* A set of natural numbers that is not empty has a least element.
LEMMA NatMinimum ==
  ASSUME NEW T, T \subseteq Nat, T # {}
  PROVE  \E x \in T : \A y \in T : x <= y
<1> DEFINE R == OpToRel(<, Nat)
<1>1. IsWellFoundedOn(R, Nat)
  BY NatLessThanWellFounded
<1>2. \A x, y \in Nat : <<x, y>> \in R <=> x < y
  BY DEF OpToRel
<1> HIDE DEF R
<1>3. PICK x \in T : \A y \in T : ~ (<<y, x>> \in R)
  BY <1>1, WFMin
<1>4. ASSUME NEW y \in T PROVE x <= y
  <2>1. x \in Nat /\ y \in Nat
    OBVIOUS
  <2>2. ~(y < x)
    BY <1>2, <1>3, <2>1, Zenon
  <2> QED
    BY <2>1, <2>2
<1> QED
  BY <1>4

\* Induction, for a set of numbers: one that holds 0 and, with a number below
\* n, the next one, holds 0 .. n.
LEMMA UpTo ==
  ASSUME NEW n \in Nat, NEW P, 0 \in P, \A i \in 0 .. n - 1 : i \in P => i + 1 \in P
  PROVE  0 .. n \subseteq P
<1> SUFFICES ASSUME NEW bad \in 0 .. n, bad \notin P PROVE FALSE
  OBVIOUS
<1> DEFINE T == {i \in 0 .. n : i \notin P}
<1>1. PICK x \in T : \A y \in T : x <= y
  <2>1. T \subseteq Nat /\ T # {}
    OBVIOUS
  <2> HIDE DEF T
  <2> QED
    BY <2>1, NatMinimum
<1>2. x # 0 /\ x - 1 \in 0 .. n - 1
  BY <1>1
<1>3. x - 1 \in P
  BY <1>1, <1>2
<1> QED
  BY <1>1, <1>2, <1>3

\* A function whose domain is 1 .. n is a sequence of length n.
LEMMA FunctionIsSeq ==
  ASSUME NEW S, NEW n \in Nat, NEW f \in [1 .. n -> S]
  PROVE  f \in Seq(S) /\ Len(f) = n
<1>1. f \in Seq(S)
  BY SeqDef
<1>2. Len(f) \in Nat /\ DOMAIN f = 1 .. Len(f)
  BY <1>1, LenProperties
<1>3. 1 .. Len(f) = 1 .. n
  BY <1>2
<1> QED
  BY <1>1, <1>2, <1>3

\* The elements of a sequence are those of the set it is a sequence of.
LEMMA ToSetType ==
  ASSUME NEW S, NEW s \in Seq(S)
  PROVE  ToSet(s) \subseteq S /\ (ToSet(s) = {} <=> s = <<>>)
<1>1. DOMAIN s = 1 .. Len(s) /\ Len(s) \in Nat
  BY LenProperties
<1>2. ToSet(s) \subseteq S
  BY <1>1, ElementOfSeq DEF ToSet
<1>3. ASSUME s # <<>> PROVE ToSet(s) # {}
  <2>1. 1 \in DOMAIN s
    BY <1>1, <1>3, EmptySeq
  <2> QED
    BY <2>1 DEF ToSet
<1>4. ToSet(<<>>) = {}
  BY DEF ToSet
<1> QED
  BY <1>2, <1>3, <1>4

\* Appending adds one element, and keeps a sequence without repetitions so
\* when the element is new.
LEMMA ToSetAppend ==
  ASSUME NEW S, NEW s \in Seq(S), NEW e \in S
  PROVE  /\ Append(s, e) \in Seq(S)
         /\ ToSet(Append(s, e)) = ToSet(s) \union {e}
         /\ IsInjective(s) /\ e \notin ToSet(s) => IsInjective(Append(s, e))
<1> DEFINE t == Append(s, e)
<1>1. /\ t \in Seq(S) /\ Len(s) \in Nat
      /\ DOMAIN s = 1 .. Len(s) /\ DOMAIN t = 1 .. Len(s) + 1
      /\ \A i \in 1 .. Len(s) : t[i] = s[i]
      /\ t[Len(s) + 1] = e
  BY AppendProperties, LenProperties
<1> HIDE DEF t
<1>2. ToSet(t) = ToSet(s) \union {e}
  <2>1. ToSet(t) \subseteq ToSet(s) \union {e}
    BY <1>1 DEF ToSet
  <2>2. ToSet(s) \union {e} \subseteq ToSet(t)
    <3>1. e \in ToSet(t)
      BY <1>1 DEF ToSet
    <3>2. ASSUME NEW i \in DOMAIN s PROVE s[i] \in ToSet(t)
      BY <1>1 DEF ToSet
    <3> QED
      BY <3>1, <3>2 DEF ToSet
  <2> QED
    BY <2>1, <2>2
<1>3. ASSUME IsInjective(s), e \notin ToSet(s) PROVE IsInjective(t)
  <2>1. ASSUME NEW i \in DOMAIN t, NEW j \in DOMAIN t, t[i] = t[j] PROVE i = j
    <3>1. \A k \in DOMAIN s : s[k] # e
      BY <1>3 DEF ToSet
    <3> QED
      BY <1>1, <1>3, <2>1, <3>1 DEF IsInjective
  <2> QED
    BY <2>1 DEF IsInjective
<1> QED
  BY <1>1, <1>2, <1>3 DEF t

\* What is left of a sequence, without its first element.
LEMMA ToSetTail ==
  ASSUME NEW S, NEW s \in Seq(S), s # <<>>
  PROVE  /\ Head(s) \in S /\ Tail(s) \in Seq(S)
         /\ ToSet(s) = ToSet(Tail(s)) \union {Head(s)}
         /\ IsInjective(s) => IsInjective(Tail(s)) /\ Head(s) \notin ToSet(Tail(s))
<1> DEFINE h == Head(s)
           t == Tail(s)
<1>1. /\ h \in S /\ t \in Seq(S) /\ Len(s) \in Nat \ {0}
      /\ DOMAIN s = 1 .. Len(s) /\ DOMAIN t = 1 .. Len(s) - 1
      /\ h = s[1] /\ \A i \in 1 .. Len(s) - 1 : t[i] = s[i + 1]
  BY HeadTailProperties, LenProperties, EmptySeq
<1> HIDE DEF h, t
<1>2. ToSet(s) \subseteq ToSet(t) \union {h}
  <2> SUFFICES ASSUME NEW i \in DOMAIN s PROVE s[i] \in ToSet(t) \union {h}
    BY DEF ToSet
  <2>1. CASE i = 1
    BY <1>1, <2>1
  <2>2. CASE i # 1
    <3>1. i - 1 \in DOMAIN t /\ t[i - 1] = s[i]
      BY <1>1, <2>2
    <3> QED
      BY <3>1 DEF ToSet
  <2> QED
    BY <2>1, <2>2
<1>3. ToSet(t) \union {h} \subseteq ToSet(s)
  <2>1. h \in ToSet(s)
    BY <1>1 DEF ToSet
  <2>2. ASSUME NEW i \in DOMAIN t PROVE t[i] \in ToSet(s)
    <3>1. i + 1 \in DOMAIN s /\ t[i] = s[i + 1]
      BY <1>1
    <3> QED
      BY <3>1 DEF ToSet
  <2> QED
    BY <2>1, <2>2 DEF ToSet
<1>4. ASSUME IsInjective(s) PROVE IsInjective(t) /\ h \notin ToSet(t)
  <2>1. \A i \in DOMAIN t : i + 1 \in DOMAIN s /\ t[i] = s[i + 1] /\ i + 1 # 1
    BY <1>1
  <2>2. IsInjective(t)
    BY <1>1, <1>4, <2>1 DEF IsInjective
  <2>3. \A i \in DOMAIN t : t[i] # h
    BY <1>1, <1>4, <2>1 DEF IsInjective
  <2> QED
    BY <2>2, <2>3 DEF ToSet
<1> QED
  BY <1>1, <1>2, <1>3, <1>4 DEF h, t

\* The elements of a concatenation.
LEMMA ToSetConcat ==
  ASSUME NEW S, NEW s \in Seq(S), NEW t \in Seq(S)
  PROVE  ToSet(s \o t) = ToSet(s) \union ToSet(t)
<1> DEFINE u == s \o t
<1>1. /\ u \in Seq(S) /\ Len(s) \in Nat /\ Len(t) \in Nat
      /\ DOMAIN s = 1 .. Len(s) /\ DOMAIN t = 1 .. Len(t)
      /\ DOMAIN u = 1 .. Len(s) + Len(t)
      /\ \A i \in 1 .. Len(s) + Len(t) : u[i] = IF i <= Len(s) THEN s[i] ELSE t[i - Len(s)]
  BY ConcatProperties, LenProperties
<1> HIDE DEF u
<1>2. ASSUME NEW i \in DOMAIN u PROVE u[i] \in ToSet(s) \union ToSet(t)
  <2>1. CASE i <= Len(s)
    BY <1>1, <2>1 DEF ToSet
  <2>2. CASE i > Len(s)
    <3>1. i - Len(s) \in DOMAIN t /\ u[i] = t[i - Len(s)]
      BY <1>1, <2>2
    <3> QED
      BY <3>1 DEF ToSet
  <2> QED
    BY <1>1, <2>1, <2>2
<1>3. ASSUME NEW i \in DOMAIN s PROVE s[i] \in ToSet(u)
  BY <1>1 DEF ToSet
<1>4. ASSUME NEW i \in DOMAIN t PROVE t[i] \in ToSet(u)
  <2>1. i + Len(s) \in DOMAIN u /\ u[i + Len(s)] = t[i]
    BY <1>1
  <2> QED
    BY <2>1 DEF ToSet
<1>5. ToSet(u) \subseteq ToSet(s) \union ToSet(t)
  BY <1>2 DEF ToSet
<1>6. ToSet(s) \union ToSet(t) \subseteq ToSet(u)
  BY <1>3, <1>4 DEF ToSet
<1> QED
  BY <1>5, <1>6 DEF u

\* A sequence of one element.
LEMMA ToSetSingle ==
  ASSUME NEW S, NEW e \in S
  PROVE  <<e>> \in Seq(S) /\ <<e>> # <<>> /\ ToSet(<<e>>) = {e} /\ IsInjective(<<e>>)
<1>1. <<e>> \in Seq(S) /\ DOMAIN <<e>> = {1} /\ <<e>>[1] = e /\ Len(<<e>>) = 1
  OBVIOUS
<1>2. <<e>> # <<>>
  OBVIOUS
<1> QED
  BY <1>1, <1>2 DEF ToSet, IsInjective

\* An element that comes last comes last of the longer sequence.
LEMMA AppendLast ==
  ASSUME NEW S, NEW s \in Seq(S), NEW t \in Seq(S), NEW e \in S
  PROVE  s \o Append(t, e) = Append(s \o t, e)
<1>1. <<e>> \in Seq(S) /\ s \o t \in Seq(S)
  BY ConcatProperties
<1>2. \A u \in Seq(S) : Append(u, e) = u \o <<e>>
  BY AppendIsConcat
<1>3. s \o (t \o <<e>>) = (s \o t) \o <<e>>
  BY <1>1, ConcatAssociative
<1> QED
  BY <1>1, <1>2, <1>3

\* Inserting e before position k moves what was there and behind up by one.
LEMMA InsertAtProperties ==
  ASSUME NEW S, NEW s \in Seq(S), NEW e \in S, NEW k \in 1 .. Len(s) + 1
  PROVE  /\ InsertAt(s, k, e) \in Seq(S)
         /\ Len(InsertAt(s, k, e)) = Len(s) + 1
         /\ DOMAIN InsertAt(s, k, e) = 1 .. Len(s) + 1
         /\ \A i \in 1 .. k - 1 : InsertAt(s, k, e)[i] = s[i]
         /\ InsertAt(s, k, e)[k] = e
         /\ \A i \in k + 1 .. Len(s) + 1 : InsertAt(s, k, e)[i] = s[i - 1]
<1> DEFINE n == Len(s)
           front == SubSeq(s, 1, k - 1)
           upto == front \o <<e>>
           back == SubSeq(s, k, n)
           t == upto \o back
<1>0. n \in Nat /\ k \in 1 .. n + 1
  BY LenProperties
<1>1. /\ front \in Seq(S) /\ Len(front) = k - 1
      /\ \A i \in 1 .. k - 1 : front[i] = s[i]
  BY <1>0, SubSeqProperties
<1>2. /\ back \in Seq(S) /\ Len(back) = n - k + 1
      /\ \A i \in 1 .. n - k + 1 : back[i] = s[k + i - 1]
  BY <1>0, SubSeqProperties
<1>3. <<e>> \in Seq(S) /\ Len(<<e>>) = 1 /\ <<e>>[1] = e
  OBVIOUS
<1> HIDE DEF n, front, back
<1>4. /\ upto \in Seq(S) /\ Len(upto) = k
      /\ \A i \in 1 .. k : upto[i] = IF i <= k - 1 THEN front[i] ELSE <<e>>[i - (k - 1)]
  BY <1>0, <1>1, <1>3, ConcatProperties
<1>5. (\A i \in 1 .. k - 1 : upto[i] = s[i]) /\ upto[k] = e
  BY <1>0, <1>1, <1>3, <1>4
<1> HIDE DEF upto
<1>6. /\ t \in Seq(S) /\ Len(t) = n + 1
      /\ \A i \in 1 .. n + 1 : t[i] = IF i <= k THEN upto[i] ELSE back[i - k]
  <2>1. /\ t \in Seq(S) /\ Len(t) = Len(upto) + Len(back)
        /\ \A i \in 1 .. Len(upto) + Len(back) :
             t[i] = IF i <= Len(upto) THEN upto[i] ELSE back[i - Len(upto)]
    BY <1>2, <1>4, ConcatProperties
  <2>2. Len(upto) = k /\ Len(back) = n - k + 1 /\ Len(upto) + Len(back) = n + 1
    BY <1>0, <1>2, <1>4
  <2> HIDE DEF t
  <2> QED
    BY <2>1, <2>2
<1>7. DOMAIN t = 1 .. n + 1
  BY <1>6, LenProperties
<1>8. \A i \in 1 .. k - 1 : t[i] = s[i]
  BY <1>0, <1>5, <1>6
<1>9. t[k] = e
  BY <1>0, <1>5, <1>6
<1>10. ASSUME NEW i \in k + 1 .. n + 1 PROVE t[i] = s[i - 1]
  <2>1. i - k \in 1 .. n - k + 1 /\ k + (i - k) - 1 = i - 1
    BY <1>0
  <2> QED
    BY SMTT(30), <1>0, <1>2, <1>6, <2>1
<1>11. InsertAt(s, k, e) = t
  BY DEF InsertAt, t, upto, front, back, n
<1> QED
  BY <1>6, <1>7, <1>8, <1>9, <1>10, <1>11 DEF n

(***************************************************************************)
(* s is the recursive function that adds up the first n values of v.       *)
(***************************************************************************)
Adds(n, v, s) == s = [i \in 0 .. n |-> IF i = 0 THEN 0 ELSE s[i - 1] + v[i]]

\* There is such a function.
LEMMA AddsExist ==
  ASSUME NEW n \in Nat, NEW v \in [1 .. n -> Nat]
  PROVE  \E f : Adds(n, v, f)
<1> DEFINE P == {m \in 0 .. n : \E f : Adds(m, v, f)}
<1>1. 0 \in P
  <2> DEFINE f == [i \in 0 .. 0 |-> 0]
  <2>1. Adds(0, v, f)
    BY DEF Adds
  <2>2. 0 \in 0 .. n
    OBVIOUS
  <2> HIDE DEF f
  <2> QED
    BY <2>1, <2>2
<1>2. ASSUME NEW m \in 0 .. n - 1, m \in P PROVE m + 1 \in P
  <2>1. PICK f : Adds(m, v, f)
    BY <1>2
  <2> DEFINE g == [i \in 0 .. m + 1 |-> IF i = m + 1 THEN f[m] + v[m + 1] ELSE f[i]]
  <2>2. ASSUME NEW i \in 0 .. m + 1
        PROVE  g[i] = IF i = 0 THEN 0 ELSE g[i - 1] + v[i]
    <3>1. CASE i = m + 1
      <4>1. i # 0 /\ i - 1 = m /\ m \in 0 .. m + 1 /\ m # m + 1
        BY <3>1
      <4>2. g[i] = f[m] + v[m + 1] /\ g[m] = f[m]
        BY <3>1, <4>1
      <4> QED
        BY <3>1, <4>1, <4>2
    <3>2. CASE i \in 0 .. m
      <4>1. i # m + 1 /\ g[i] = f[i]
        BY <3>2
      <4>2. f[i] = IF i = 0 THEN 0 ELSE f[i - 1] + v[i]
        BY <2>1, <3>2 DEF Adds
      <4>3. i # 0 => g[i - 1] = f[i - 1]
        BY <3>2
      <4> QED
        BY <4>1, <4>2, <4>3
    <3> QED
      BY <3>1, <3>2
  <2>3. Adds(m + 1, v, g)
    BY <2>2 DEF Adds
  <2>4. m + 1 \in 0 .. n
    OBVIOUS
  <2> QED
    BY <2>3, <2>4
<1>3. n \in P
  <2> HIDE DEF P
  <2>1. 0 .. n \subseteq P
    BY <1>1, <1>2, UpTo
  <2> QED
    BY <2>1
<1> QED
  BY <1>3

\* It starts with zero and adds one value at a time.
LEMMA AddsDef ==
  ASSUME NEW n \in Nat, NEW v \in [1 .. n -> Nat], NEW s, Adds(n, v, s)
  PROVE  /\ s[0] = 0
         /\ \A i \in 1 .. n : s[i] = s[i - 1] + v[i]
         /\ \A i \in 0 .. n : s[i] \in Nat
<1>1. s = [i \in 0 .. n |-> IF i = 0 THEN 0 ELSE s[i - 1] + v[i]]
  BY DEF Adds
<1>2. s[0] = 0 /\ \A i \in 1 .. n : s[i] = s[i - 1] + v[i]
  BY <1>1
<1>3. 0 .. n \subseteq {i \in 0 .. n : s[i] \in Nat}
  <2> DEFINE P == {i \in 0 .. n : s[i] \in Nat}
  <2>1. 0 \in P
    BY <1>2
  <2>2. ASSUME NEW i \in 0 .. n - 1, i \in P PROVE i + 1 \in P
    <3>1. i + 1 \in 1 .. n /\ s[i + 1] = s[i] + v[i + 1] /\ v[i + 1] \in Nat
      BY <1>2
    <3> QED
      BY <2>2, <3>1
  <2> HIDE DEF P
  <2>3. 0 .. n \subseteq P
    BY <2>1, <2>2, UpTo
  <2> QED
    BY <2>3 DEF P
<1> QED
  BY <1>2, <1>3

\* A value more adds that value to the sum.
LEMMA AddsExtend ==
  ASSUME NEW n \in Nat, NEW v \in [1 .. n -> Nat], NEW w \in [1 .. n + 1 -> Nat],
         \A i \in 1 .. n : w[i] = v[i],
         NEW s, Adds(n, v, s), NEW t, Adds(n + 1, w, t)
  PROVE  t[n + 1] = s[n] + w[n + 1]
<1>1. s[0] = 0 /\ \A i \in 1 .. n : s[i] = s[i - 1] + v[i]
  BY AddsDef
<1>2. t[0] = 0 /\ \A i \in 1 .. n + 1 : t[i] = t[i - 1] + w[i]
  BY AddsDef, n + 1 \in Nat
<1> DEFINE P == {i \in 0 .. n : t[i] = s[i]}
<1>3. 0 \in P
  BY <1>1, <1>2
<1>4. ASSUME NEW i \in 0 .. n - 1, i \in P PROVE i + 1 \in P
  <2>1. i + 1 \in 1 .. n /\ i + 1 \in 1 .. n + 1 /\ (i + 1) - 1 = i
    OBVIOUS
  <2>2. s[i + 1] = s[i] + v[i + 1] /\ t[i + 1] = t[i] + w[i + 1]
    BY <1>1, <1>2, <2>1
  <2> QED
    BY <1>4, <2>1, <2>2
<1> HIDE DEF P
<1>5. n \in P
  <2>1. 0 .. n \subseteq P
    BY <1>3, <1>4, UpTo
  <2> QED
    BY <2>1
<1>6. t[n] = s[n] /\ t[n + 1] = t[n] + w[n + 1]
  BY <1>2, <1>5 DEF P
<1> QED
  BY <1>6

(***************************************************************************)
(* Induction over sequences, of a set instead of a property.               *)
(***************************************************************************)

\* A set that has the empty sequence, and with a sequence all that extend it by
\* one element, has every sequence.
LEMMA SeqInduction ==
  ASSUME NEW T, NEW P, <<>> \in P,
         \A s \in Seq(T), e \in T : s \in P => Append(s, e) \in P
  PROVE  Seq(T) \subseteq P
<1> SUFFICES ASSUME NEW s \in Seq(T) PROVE s \in P
  OBVIOUS
<1> DEFINE n == Len(s)
           R == {k \in 0 .. n : \A u \in Seq(T) : Len(u) = k => u \in P}
<1>1. n \in Nat
  BY LenProperties
<1>2. 0 \in R
  <2>1. \A u \in Seq(T) : Len(u) = 0 => u = <<>>
    BY EmptySeq
  <2> QED
    BY <1>1, <2>1
<1>3. ASSUME NEW k \in 0 .. n - 1, k \in R PROVE k + 1 \in R
  <2> SUFFICES ASSUME NEW u \in Seq(T), Len(u) = k + 1 PROVE u \in P
    BY <1>1
  <2>1. u # <<>>
    OBVIOUS
  <2>2. /\ SubSeq(u, 1, k) \in Seq(T) /\ Len(SubSeq(u, 1, k)) = k
        /\ u[k + 1] \in T /\ u = Append(SubSeq(u, 1, k), u[k + 1])
    <3>1. k \in Nat /\ k <= Len(u) /\ Len(u) - 1 = k
      BY <1>1
    <3>2. \A i \in 1 .. Len(u) : u[i] \in T
      BY ElementOfSeq
    <3>3. SubSeq(u, 1, k) \in Seq(T) /\ Len(SubSeq(u, 1, k)) = k
      BY <3>1
    <3>4. u = Append(SubSeq(u, 1, Len(u) - 1), u[Len(u)])
      BY <2>1
    <3> QED
      BY <3>1, <3>2, <3>3, <3>4
  <2>3. SubSeq(u, 1, k) \in P
    BY <1>3, <2>2
  <2> QED
    BY <2>2, <2>3
<1> HIDE DEF R, n
<1>4. 0 .. n \subseteq R
  BY <1>1, <1>2, <1>3, UpTo
<1>5. n \in R
  BY <1>1, <1>4
<1> QED
  BY <1>5 DEF R, n

(***************************************************************************)
(* The elements of a sequence that are in a set.                           *)
(***************************************************************************)

\* f is the recursive function of Among up to the n-th element.
Filters(n, s, S, f) ==
  f = [i \in 0 .. n |->
         IF i = 0 THEN <<>> ELSE IF s[i] \in S THEN Append(f[i - 1], s[i]) ELSE f[i - 1]]

\* There is such a function.
LEMMA FiltersExist ==
  ASSUME NEW n \in Nat, NEW s, NEW S
  PROVE  \E f : Filters(n, s, S, f)
<1> DEFINE P == {m \in 0 .. n : \E f : Filters(m, s, S, f)}
<1>1. 0 \in P
  <2> DEFINE f == [i \in 0 .. 0 |-> <<>>]
  <2>1. Filters(0, s, S, f)
    BY DEF Filters
  <2> HIDE DEF f
  <2> QED
    BY <2>1
<1>2. ASSUME NEW m \in 0 .. n - 1, m \in P PROVE m + 1 \in P
  <2>1. PICK f : Filters(m, s, S, f)
    BY <1>2
  <2> DEFINE g == [i \in 0 .. m + 1 |->
                     IF i = m + 1 THEN IF s[i] \in S THEN Append(f[m], s[i]) ELSE f[m]
                                  ELSE f[i]]
  <2>2. ASSUME NEW i \in 0 .. m + 1
        PROVE  g[i] = IF i = 0 THEN <<>>
                      ELSE IF s[i] \in S THEN Append(g[i - 1], s[i]) ELSE g[i - 1]
    <3>1. CASE i = m + 1
      <4>1. i # 0 /\ i - 1 = m /\ m \in 0 .. m + 1 /\ m # m + 1
        BY <3>1
      <4>2. g[i] = (IF s[i] \in S THEN Append(f[m], s[i]) ELSE f[m]) /\ g[m] = f[m]
        BY <3>1, <4>1
      <4> QED
        BY <3>1, <4>1, <4>2
    <3>2. CASE i \in 0 .. m
      <4>1. i # m + 1 /\ g[i] = f[i]
        BY <3>2
      <4>2. f[i] = IF i = 0 THEN <<>>
                   ELSE IF s[i] \in S THEN Append(f[i - 1], s[i]) ELSE f[i - 1]
        BY <2>1, <3>2 DEF Filters
      <4>3. i # 0 => g[i - 1] = f[i - 1]
        BY <3>2
      <4> QED
        BY <4>1, <4>2, <4>3
    <3> QED
      BY <3>1, <3>2
  <2>3. Filters(m + 1, s, S, g)
    BY <2>2 DEF Filters
  <2>4. m + 1 \in 0 .. n
    OBVIOUS
  <2> QED
    BY <2>3, <2>4
<1>3. n \in P
  <2> HIDE DEF P
  <2>1. 0 .. n \subseteq P
    BY <1>1, <1>2, UpTo
  <2> QED
    BY <2>1
<1> QED
  BY <1>3

\* The last value of it.
LEMMA AmongIsLast ==
  ASSUME NEW T, NEW s \in Seq(T), NEW S
  PROVE  \E f : Filters(Len(s), s, S, f) /\ Among(s, S) = f[Len(s)]
<1> DEFINE f == CHOOSE g : Filters(Len(s), s, S, g)
<1>1. Filters(Len(s), s, S, f)
  BY FiltersExist, LenProperties
<1>2. Among(s, S) = f[Len(s)]
  BY DEF Among, Filters
<1> HIDE DEF f
<1> QED
  BY <1>1, <1>2

\* Nothing of nothing.
LEMMA AmongEmpty ==
  ASSUME NEW S
  PROVE  Among(<<>>, S) = <<>>
<1>1. <<>> \in Seq({}) /\ Len(<<>>) = 0
  OBVIOUS
<1>2. PICK f : Filters(0, <<>>, S, f) /\ Among(<<>>, S) = f[0]
  BY <1>1, AmongIsLast
<1>3. f[0] = <<>>
  BY <1>2 DEF Filters
<1> QED
  BY <1>2, <1>3

\* One element more.
LEMMA AmongAppend ==
  ASSUME NEW T, NEW s \in Seq(T), NEW e \in T, NEW S
  PROVE  Among(Append(s, e), S) =
           IF e \in S THEN Append(Among(s, S), e) ELSE Among(s, S)
<1> DEFINE n == Len(s)
           u == Append(s, e)
<1>1. /\ n \in Nat /\ u \in Seq(T) /\ Len(u) = n + 1 /\ u[n + 1] = e
      /\ \A i \in 1 .. n : u[i] = s[i]
  BY AppendProperties, LenProperties
<1>2. PICK f : Filters(n, s, S, f) /\ Among(s, S) = f[n]
  BY AmongIsLast
<1> HIDE DEF u, n
<1>3. PICK g : Filters(n + 1, u, S, g) /\ Among(u, S) = g[n + 1]
  BY <1>1, AmongIsLast
<1> DEFINE P == {i \in 0 .. n : g[i] = f[i]}
<1>4. 0 \in P
  <2>1. f[0] = <<>>
    BY <1>1, <1>2 DEF Filters
  <2>2. g[0] = <<>>
    BY <1>1, <1>3 DEF Filters
  <2> QED
    BY <1>1, <2>1, <2>2
<1>5. ASSUME NEW i \in 0 .. n - 1, i \in P PROVE i + 1 \in P
  <2>1. /\ i + 1 \in 0 .. n /\ i + 1 \in 0 .. n + 1 /\ i + 1 # 0 /\ (i + 1) - 1 = i
        /\ i + 1 \in 1 .. n
    BY <1>1
  <2>2. f[i + 1] = IF s[i + 1] \in S THEN Append(f[i], s[i + 1]) ELSE f[i]
    BY <1>2, <2>1 DEF Filters
  <2>3. g[i + 1] = IF u[i + 1] \in S THEN Append(g[i], u[i + 1]) ELSE g[i]
    BY <1>3, <2>1 DEF Filters
  <2>4. u[i + 1] = s[i + 1]
    BY <1>1, <2>1
  <2> QED
    BY <1>5, <2>1, <2>2, <2>3, <2>4
<1>6. g[n] = f[n]
  <2> HIDE DEF P
  <2>1. 0 .. n \subseteq P
    BY <1>1, <1>4, <1>5, UpTo
  <2> QED
    BY <1>1, <2>1 DEF P
<1>7. g[n + 1] = IF u[n + 1] \in S THEN Append(g[n], u[n + 1]) ELSE g[n]
  <2>1. n + 1 \in 0 .. n + 1 /\ n + 1 # 0 /\ (n + 1) - 1 = n
    BY <1>1
  <2> QED
    BY <1>3, <2>1 DEF Filters
<1> QED
  BY <1>1, <1>2, <1>3, <1>6, <1>7 DEF u

\* It is a sequence of the elements of s in S.
LEMMA AmongType ==
  ASSUME NEW T, NEW s \in Seq(T), NEW S
  PROVE  Among(s, S) \in Seq(T) /\ ToSet(Among(s, S)) = ToSet(s) \intersect S
<1> DEFINE P == {u \in Seq(T) : /\ Among(u, S) \in Seq(T)
                                /\ ToSet(Among(u, S)) = ToSet(u) \intersect S}
<1>1. <<>> \in P
  <2>1. ToSet(<<>>) = {} /\ <<>> \in Seq(T)
    BY DEF ToSet
  <2> QED
    BY <2>1, AmongEmpty
<1>2. ASSUME NEW u \in Seq(T), NEW e \in T, u \in P PROVE Append(u, e) \in P
  <2>1. Append(u, e) \in Seq(T) /\ ToSet(Append(u, e)) = ToSet(u) \union {e}
    BY ToSetAppend
  <2>2. /\ Append(Among(u, S), e) \in Seq(T)
        /\ ToSet(Append(Among(u, S), e)) = ToSet(Among(u, S)) \union {e}
    BY <1>2, ToSetAppend
  <2>3. Among(Append(u, e), S) = IF e \in S THEN Append(Among(u, S), e) ELSE Among(u, S)
    BY AmongAppend
  <2> QED
    BY <1>2, <2>1, <2>2, <2>3
<1> HIDE DEF P
<1>3. s \in P
  BY <1>1, <1>2, SeqInduction
<1> QED
  BY <1>3 DEF P

\* Of two sequences, one behind the other.
LEMMA AmongConcat ==
  ASSUME NEW T, NEW s \in Seq(T), NEW t \in Seq(T), NEW S
  PROVE  Among(s \o t, S) = Among(s, S) \o Among(t, S)
<1> DEFINE P == {u \in Seq(T) : Among(s \o u, S) = Among(s, S) \o Among(u, S)}
<1>0. Among(s, S) \in Seq(T)
  BY AmongType
<1>1. <<>> \in P
  <2>1. s \o <<>> = s /\ Among(s, S) \o <<>> = Among(s, S) /\ <<>> \in Seq(T)
    BY <1>0, ConcatEmptySeq
  <2>2. Among(s \o <<>>, S) = Among(s, S) \o Among(<<>>, S)
    BY <2>1, AmongEmpty
  <2> QED
    BY <2>1, <2>2
<1>2. ASSUME NEW u \in Seq(T), NEW e \in T, u \in P PROVE Append(u, e) \in P
  <2>1. Append(u, e) \in Seq(T) /\ s \o u \in Seq(T) /\ Among(u, S) \in Seq(T)
    BY AmongType, AppendProperties, ConcatProperties
  <2>2. s \o Append(u, e) = Append(s \o u, e)
    OBVIOUS
  <2>3. Among(s, S) \o Append(Among(u, S), e) = Append(Among(s, S) \o Among(u, S), e)
    BY <1>0, <2>1
  <2>4. /\ Among(Append(s \o u, e), S) =
             IF e \in S THEN Append(Among(s \o u, S), e) ELSE Among(s \o u, S)
        /\ Among(Append(u, e), S) = IF e \in S THEN Append(Among(u, S), e) ELSE Among(u, S)
    BY <2>1, AmongAppend
  <2> QED
    BY <1>2, <2>1, <2>2, <2>3, <2>4
<1> HIDE DEF P
<1>3. t \in P
  BY <1>1, <1>2, SeqInduction
<1> QED
  BY <1>3 DEF P

\* Among twice.
LEMMA AmongAmong ==
  ASSUME NEW T, NEW s \in Seq(T), NEW S, NEW R
  PROVE  Among(Among(s, S), R) = Among(s, S \intersect R)
<1> DEFINE P == {u \in Seq(T) : Among(Among(u, S), R) = Among(u, S \intersect R)}
<1>1. <<>> \in P
  BY AmongEmpty
<1>2. ASSUME NEW u \in Seq(T), NEW e \in T, u \in P PROVE Append(u, e) \in P
  <2>1. Append(u, e) \in Seq(T) /\ Among(u, S) \in Seq(T)
    BY AmongType, AppendProperties
  <2>2. /\ Among(Append(u, e), S) = IF e \in S THEN Append(Among(u, S), e) ELSE Among(u, S)
        /\ Among(Append(u, e), S \intersect R) =
             IF e \in S \intersect R THEN Append(Among(u, S \intersect R), e)
                                     ELSE Among(u, S \intersect R)
        /\ Among(Append(Among(u, S), e), R) =
             IF e \in R THEN Append(Among(Among(u, S), R), e) ELSE Among(Among(u, S), R)
    BY <2>1, AmongAppend
  <2>3. Among(Among(u, S), R) = Among(u, S \intersect R)
    BY <1>2
  <2>4. Among(Among(Append(u, e), S), R) = Among(Append(u, e), S \intersect R)
    <3>1. CASE e \in S
      <4>1. e \in S \intersect R <=> e \in R
        BY <3>1
      <4> QED
        BY <2>2, <2>3, <3>1, <4>1
    <3>2. CASE e \notin S
      <4>1. e \notin S \intersect R
        BY <3>2
      <4> QED
        BY <2>2, <2>3, <3>2, <4>1
    <3> QED
      BY <3>1, <3>2
  <2> QED
    BY <2>1, <2>4
<1> HIDE DEF P
<1>3. s \in P
  BY <1>1, <1>2, SeqInduction
<1> QED
  BY <1>3 DEF P

\* Sets with the same elements of s select the same.
LEMMA AmongSame ==
  ASSUME NEW T, NEW s \in Seq(T), NEW S, NEW R,
         ToSet(s) \intersect S = ToSet(s) \intersect R
  PROVE  Among(s, S) = Among(s, R)
<1> DEFINE P == {u \in Seq(T) : ToSet(u) \intersect S = ToSet(u) \intersect R
                                  => Among(u, S) = Among(u, R)}
<1>1. <<>> \in P
  BY AmongEmpty
<1>2. ASSUME NEW u \in Seq(T), NEW e \in T, u \in P PROVE Append(u, e) \in P
  <2>1. Append(u, e) \in Seq(T) /\ ToSet(Append(u, e)) = ToSet(u) \union {e}
    BY ToSetAppend
  <2>2. /\ Among(Append(u, e), S) = IF e \in S THEN Append(Among(u, S), e) ELSE Among(u, S)
        /\ Among(Append(u, e), R) = IF e \in R THEN Append(Among(u, R), e) ELSE Among(u, R)
    BY AmongAppend
  <2>3. ASSUME ToSet(Append(u, e)) \intersect S = ToSet(Append(u, e)) \intersect R
        PROVE  Among(Append(u, e), S) = Among(Append(u, e), R)
    <3>1. e \in S <=> e \in R
      BY <2>1, <2>3
    <3>2. ToSet(u) \intersect S = ToSet(u) \intersect R
      <4>1. \A x \in ToSet(u) : x \in S <=> x \in R
        BY <2>1, <2>3
      <4> QED
        BY <4>1
    <3>3. Among(u, S) = Among(u, R)
      BY <1>2, <3>2
    <3> QED
      BY <2>2, <3>1, <3>3
  <2> QED
    BY <2>1, <2>3
<1> HIDE DEF P
<1>3. s \in P
  BY <1>1, <1>2, SeqInduction
<1> QED
  BY <1>3 DEF P

\* A set without an element of s selects nothing, one with all of them all.
LEMMA AmongNoneOrAll ==
  ASSUME NEW T, NEW s \in Seq(T), NEW S
  PROVE  /\ ToSet(s) \intersect S = {} => Among(s, S) = <<>>
         /\ ToSet(s) \subseteq S => Among(s, S) = s
<1>1. ToSet(s) \intersect S = {} => Among(s, S) = <<>>
  BY AmongType, ToSetType
<1>2. ToSet(s) \subseteq S => Among(s, S) = s
  <2> DEFINE P == {u \in Seq(T) : ToSet(u) \subseteq S => Among(u, S) = u}
  <2>1. <<>> \in P
    BY AmongEmpty
  <2>2. ASSUME NEW u \in Seq(T), NEW e \in T, u \in P PROVE Append(u, e) \in P
    <3>1. Append(u, e) \in Seq(T) /\ ToSet(Append(u, e)) = ToSet(u) \union {e}
      BY ToSetAppend
    <3> QED
      BY <2>2, <3>1, AmongAppend
  <2> HIDE DEF P
  <2>3. s \in P
    BY <2>1, <2>2, SeqInduction
  <2> QED
    BY <2>3 DEF P
<1> QED
  BY <1>1, <1>2

(***************************************************************************)
(* Sums over a finite set.                                                 *)
(***************************************************************************)

\* A set of sets that has each subset of D from which taking away any element
\* gives a member of it has every subset.
LEMMA SubsetInduction ==
  ASSUME NEW D, IsFiniteSet(D), NEW P,
         \A T \in SUBSET D : (\A x \in T : T \ {x} \in P) => T \in P
  PROVE  SUBSET D \subseteq P
<1> DEFINE n == Cardinality(D)
           R == {k \in 0 .. n : \A T \in SUBSET D : Cardinality(T) = k => T \in P}
<1>1. n \in Nat
  BY FS_CardinalityType
<1>2. \A T \in SUBSET D : IsFiniteSet(T) /\ Cardinality(T) \in 0 .. n
  <2> TAKE T \in SUBSET D
  <2>1. IsFiniteSet(T) /\ Cardinality(T) <= n
    BY FS_Subset
  <2> QED
    BY <2>1, FS_CardinalityType
<1>3. 0 \in R
  <2>1. \A T \in SUBSET D : Cardinality(T) = 0 => T = {}
    BY <1>2, FS_EmptySet
  <2> QED
    BY <1>1, <2>1
<1>4. ASSUME NEW k \in 0 .. n - 1, k \in R PROVE k + 1 \in R
  <2> SUFFICES ASSUME NEW T \in SUBSET D, Cardinality(T) = k + 1 PROVE T \in P
    BY <1>1
  <2>1. ASSUME NEW x \in T PROVE T \ {x} \in P
    <3>1. IsFiniteSet(T) /\ Cardinality(T \ {x}) = Cardinality(T) - 1
      BY <1>2, FS_RemoveElement
    <3>2. Cardinality(T \ {x}) = k
      BY <1>1, <3>1
    <3> QED
      BY <1>4, <3>2
  <2> QED
    BY <2>1
<1> HIDE DEF R, n
<1>5. 0 .. n \subseteq R
  BY <1>1, <1>3, <1>4, UpTo
<1> SUFFICES ASSUME NEW T \in SUBSET D PROVE T \in P
  OBVIOUS
<1> QED
  BY <1>2, <1>5 DEF R

\* The element that a sum takes next.
Chosen(T) == CHOOSE x \in T : TRUE

\* g is the recursive function that adds up the values of v over subsets of D.
SumsOver(DD, v, g) ==
  g = [T \in DD |-> IF T = {} THEN 0 ELSE v[Chosen(T)] + g[T \ {Chosen(T)}]]

\* There is such a function.
LEMMA SumsExist ==
  ASSUME NEW D, IsFiniteSet(D), NEW v
  PROVE  \E g : SumsOver(SUBSET D, v, g)
<1> DEFINE n == Cardinality(D)
           Level(k) == {T \in SUBSET D : Cardinality(T) <= k}
           R == {k \in 0 .. n : \E g : SumsOver(Level(k), v, g)}
<1>1. n \in Nat
  BY FS_CardinalityType
<1>2. \A T \in SUBSET D : IsFiniteSet(T) /\ Cardinality(T) \in 0 .. n
  <2> TAKE T \in SUBSET D
  <2>1. IsFiniteSet(T) /\ Cardinality(T) <= n
    BY FS_Subset
  <2> QED
    BY <2>1, FS_CardinalityType
<1>3. 0 \in R
  <2> DEFINE g == [T \in Level(0) |-> 0]
  <2>1. \A T \in Level(0) : T = {}
    BY <1>2, FS_EmptySet
  <2>2. SumsOver(Level(0), v, g)
    BY <2>1 DEF SumsOver
  <2> HIDE DEF g, Level
  <2> QED
    BY <1>1, <2>2
<1>4. ASSUME NEW k \in 0 .. n - 1, k \in R PROVE k + 1 \in R
  <2>1. PICK f : SumsOver(Level(k), v, f)
    BY <1>4
  <2> DEFINE g == [T \in Level(k + 1) |->
                     IF T = {} THEN 0 ELSE v[Chosen(T)] + f[T \ {Chosen(T)}]]
  <2>2. Level(k) \subseteq Level(k + 1)
    BY <1>1, <1>2
  <2>3. \A T \in Level(k + 1) : T # {} => Chosen(T) \in T /\ T \ {Chosen(T)} \in Level(k)
    <3> SUFFICES ASSUME NEW T \in Level(k + 1), T # {}
                 PROVE  Chosen(T) \in T /\ T \ {Chosen(T)} \in Level(k)
      OBVIOUS
    <3>1. Chosen(T) \in T
      BY DEF Chosen
    <3>2. Cardinality(T \ {Chosen(T)}) = Cardinality(T) - 1
      BY <1>2, <3>1, FS_RemoveElement
    <3> QED
      BY <1>1, <1>2, <3>1, <3>2
  <2>4. ASSUME NEW T \in Level(k) PROVE g[T] = f[T]
    <3>1. T \in Level(k + 1)
      BY <2>2
    <3> HIDE DEF Level
    <3>2. f[T] = IF T = {} THEN 0 ELSE v[Chosen(T)] + f[T \ {Chosen(T)}]
      BY <2>1 DEF SumsOver
    <3> QED
      BY <3>1, <3>2
  <2> HIDE DEF Level
  <2>5. ASSUME NEW T \in Level(k + 1)
        PROVE  g[T] = IF T = {} THEN 0 ELSE v[Chosen(T)] + g[T \ {Chosen(T)}]
    <3>1. T # {} => g[T \ {Chosen(T)}] = f[T \ {Chosen(T)}]
      BY <2>3, <2>4
    <3>2. g[T] = IF T = {} THEN 0 ELSE v[Chosen(T)] + f[T \ {Chosen(T)}]
      OBVIOUS
    <3> QED
      BY <3>1, <3>2
  <2>6. SumsOver(Level(k + 1), v, g)
    BY <2>5 DEF SumsOver
  <2>7. k + 1 \in 0 .. n
    BY <1>1
  <2> HIDE DEF g
  <2> QED
    BY <2>6, <2>7
<1>5. n \in R
  <2> HIDE DEF R, n
  <2>1. 0 .. n \subseteq R
    BY <1>1, <1>3, <1>4, UpTo
  <2> QED
    BY <1>1, <2>1
<1>6. Level(n) = SUBSET D
  BY <1>2
<1> HIDE DEF Level
<1> QED
  BY <1>5, <1>6

\* The sum of the values of v over D.
SumOver(v, D) == (CHOOSE g : SumsOver(SUBSET D, v, g))[D]

\* The sum is the value of any such function, of the same values.
LEMMA SumIsLast ==
  ASSUME NEW D, IsFiniteSet(D), NEW E, D \subseteq E,
         NEW v, NEW w, \A x \in D : v[x] = w[x],
         NEW g, SumsOver(SUBSET E, w, g)
  PROVE  g[D] = SumOver(v, D)
<1>1. PICK f : SumsOver(SUBSET D, v, f) /\ SumOver(v, D) = f[D]
  <2>1. \E f : SumsOver(SUBSET D, v, f)
    BY SumsExist
  <2> QED
    BY <2>1 DEF SumOver
<1> DEFINE P == {T \in SUBSET D : f[T] = g[T]}
<1>2. ASSUME NEW T \in SUBSET D, \A x \in T : T \ {x} \in P PROVE T \in P
  <2>1. T \in SUBSET E
    OBVIOUS
  <2>2. /\ f[T] = IF T = {} THEN 0 ELSE v[Chosen(T)] + f[T \ {Chosen(T)}]
        /\ g[T] = IF T = {} THEN 0 ELSE w[Chosen(T)] + g[T \ {Chosen(T)}]
    BY <1>1, <2>1 DEF SumsOver
  <2>3. CASE T = {}
    BY <2>2, <2>3
  <2>4. CASE T # {}
    <3>1. Chosen(T) \in T
      BY <2>4 DEF Chosen
    <3>2. f[T \ {Chosen(T)}] = g[T \ {Chosen(T)}] /\ v[Chosen(T)] = w[Chosen(T)]
      BY <1>2, <3>1
    <3> QED
      BY <2>2, <2>4, <3>2
  <2> QED
    BY <2>3, <2>4
<1> HIDE DEF P
<1>3. D \in P
  BY <1>2, SubsetInduction
<1> QED
  BY <1>1, <1>3 DEF P

\* Equal values have equal sums.
LEMMA SumSame ==
  ASSUME NEW D, IsFiniteSet(D), NEW v, NEW w, \A x \in D : v[x] = w[x]
  PROVE  SumOver(v, D) = SumOver(w, D)
<1>1. PICK g : SumsOver(SUBSET D, w, g)
  BY SumsExist
<1> QED
  BY <1>1, SumIsLast

\* Nothing to add.
LEMMA SumEmpty ==
  ASSUME NEW v
  PROVE  SumOver(v, {}) = 0
<1>1. IsFiniteSet({})
  BY FS_EmptySet
<1>2. PICK g : SumsOver(SUBSET {}, v, g)
  BY <1>1, SumsExist
<1>3. g[{}] = 0
  BY <1>2 DEF SumsOver
<1> QED
  BY <1>1, <1>2, <1>3, SumIsLast

\* The sum of natural numbers is one.
LEMMA SumType ==
  ASSUME NEW D, IsFiniteSet(D), NEW v, \A x \in D : v[x] \in Nat
  PROVE  SumOver(v, D) \in Nat
<1>1. PICK g : SumsOver(SUBSET D, v, g)
  BY SumsExist
<1> DEFINE P == {T \in SUBSET D : g[T] \in Nat}
<1>2. ASSUME NEW T \in SUBSET D, \A x \in T : T \ {x} \in P PROVE T \in P
  <2>1. g[T] = IF T = {} THEN 0 ELSE v[Chosen(T)] + g[T \ {Chosen(T)}]
    BY <1>1 DEF SumsOver
  <2>2. T # {} => Chosen(T) \in T
    BY DEF Chosen
  <2> QED
    BY <1>2, <2>1, <2>2
<1> HIDE DEF P
<1>3. D \in P
  BY <1>2, SubsetInduction
<1> QED
  BY <1>1, <1>3, SumIsLast DEF P

\* Any element may be the one that is added last.
LEMMA SumSplit ==
  ASSUME NEW D, IsFiniteSet(D), NEW v, \A x \in D : v[x] \in Nat, NEW x \in D
  PROVE  /\ SumOver(v, D) = v[x] + SumOver(v, D \ {x})
         /\ SumOver(v, D) \in Nat /\ SumOver(v, D \ {x}) \in Nat
<1> DEFINE s(T) == SumOver(v, T)
           P == {T \in SUBSET D : \A y \in T : s(T) = v[y] + s(T \ {y})}
<1>1. \A T \in SUBSET D : IsFiniteSet(T) /\ s(T) \in Nat
  BY FS_Subset, SumType
<1>2. PICK g : SumsOver(SUBSET D, v, g)
  BY SumsExist
<1>3. \A T \in SUBSET D : g[T] = s(T)
  BY <1>1, <1>2, SumIsLast
<1>4. ASSUME NEW T \in SUBSET D, \A y \in T : T \ {y} \in P PROVE T \in P
  <2> SUFFICES ASSUME NEW y \in T PROVE s(T) = v[y] + s(T \ {y})
    OBVIOUS
  <2> DEFINE c == Chosen(T)
  <2>1. c \in T
    BY DEF Chosen
  <2>2. g[T] = v[c] + g[T \ {c}]
    BY <1>2 DEF SumsOver
  <2> HIDE DEF c
  <2>3. s(T) = v[c] + s(T \ {c})
    BY <1>3, <2>1, <2>2
  <2>4. CASE y # c
    <3>1. T \ {c} \in P /\ y \in T \ {c} /\ T \ {y} \in P /\ c \in T \ {y}
      BY <1>4, <2>1, <2>4
    <3>2. s(T \ {c}) = v[y] + s((T \ {c}) \ {y}) /\ s(T \ {y}) = v[c] + s((T \ {y}) \ {c})
      BY <3>1
    <3>3. (T \ {c}) \ {y} = (T \ {y}) \ {c} /\ (T \ {c}) \ {y} \in SUBSET D
      OBVIOUS
    <3>4. /\ s((T \ {c}) \ {y}) \in Nat /\ s((T \ {y}) \ {c}) = s((T \ {c}) \ {y})
          /\ v[y] \in Nat /\ v[c] \in Nat
      BY <1>1, <2>1, <3>3
    <3> HIDE DEF s
    <3> QED
      BY ONLY <2>3, <3>2, <3>4
  <2> QED
    BY <2>3, <2>4
<1> HIDE DEF P
<1>5. D \in P
  BY <1>4, SubsetInduction
<1>6. D \ {x} \in SUBSET D /\ D \in SUBSET D
  OBVIOUS
<1> QED
  BY <1>1, <1>5, <1>6 DEF P

\* An element more.
LEMMA SumMore ==
  ASSUME NEW D, IsFiniteSet(D), NEW x, x \notin D, NEW v, \A y \in D \union {x} : v[y] \in Nat
  PROVE  SumOver(v, D \union {x}) = SumOver(v, D) + v[x]
<1> DEFINE E == D \union {x}
<1>1. IsFiniteSet(E)
  BY FS_AddElement
<1>2. x \in E /\ E \ {x} = D /\ v[x] \in Nat
  OBVIOUS
<1> HIDE DEF E
<1>3. \A y \in E : v[y] \in Nat
  BY DEF E
<1>4. SumOver(v, E) = v[x] + SumOver(v, E \ {x}) /\ SumOver(v, E \ {x}) \in Nat
  BY <1>1, <1>2, <1>3, SumSplit
<1> QED
  BY <1>2, <1>4 DEF E

\* One value changes.
LEMMA SumChanged ==
  ASSUME NEW D, IsFiniteSet(D), NEW x \in D, NEW v, NEW w,
         \A y \in D : v[y] \in Nat, \A y \in D \ {x} : w[y] = v[y], w[x] \in Nat,
         NEW d \in Nat, w[x] = v[x] + d
  PROVE  SumOver(w, D) = SumOver(v, D) + d
<1>1. \A y \in D : w[y] \in Nat
  OBVIOUS
<1>2. SumOver(v, D) = v[x] + SumOver(v, D \ {x}) /\ SumOver(v, D \ {x}) \in Nat
  BY SumSplit
<1>3. SumOver(w, D) = w[x] + SumOver(w, D \ {x})
  BY <1>1, SumSplit
<1>4. IsFiniteSet(D \ {x})
  BY FS_RemoveElement
<1>5. SumOver(w, D \ {x}) = SumOver(v, D \ {x})
  BY <1>4, SumSame
<1>6. v[x] \in Nat
  OBVIOUS
<1> QED
  BY <1>2, <1>3, <1>5, <1>6

\* The sum of zeros.
LEMMA SumZero ==
  ASSUME NEW D, IsFiniteSet(D), NEW v, \A x \in D : v[x] = 0
  PROVE  SumOver(v, D) = 0
<1> DEFINE P == {T \in SUBSET D : SumOver(v, T) = 0}
<1>1. ASSUME NEW T \in SUBSET D, \A x \in T : T \ {x} \in P PROVE T \in P
  <2>1. CASE T = {}
    BY <2>1, SumEmpty
  <2>2. CASE T # {}
    <3>1. PICK x \in T : TRUE
      BY <2>2
    <3>2. IsFiniteSet(T) /\ (\A y \in T : v[y] \in Nat) /\ v[x] = 0
      BY FS_Subset
    <3>3. SumOver(v, T) = v[x] + SumOver(v, T \ {x})
      BY <3>2, SumSplit
    <3>4. SumOver(v, T \ {x}) = 0
      BY <1>1
    <3> QED
      BY <3>2, <3>3, <3>4
  <2> QED
    BY <2>1, <2>2
<1> HIDE DEF P
<1>2. D \in P
  BY <1>1, SubsetInduction
<1> QED
  BY <1>2 DEF P

(***************************************************************************)
(* How often an element is in a sequence.                                  *)
(***************************************************************************)

Count(s, e) == Len(Among(s, {e}))

\* Counts are natural numbers, 0 where the element is not.
LEMMA CountType ==
  ASSUME NEW T, NEW s \in Seq(T), NEW e
  PROVE  /\ Count(s, e) \in Nat
         /\ e \in ToSet(s) => Count(s, e) >= 1
         /\ e \notin ToSet(s) => Count(s, e) = 0
<1>1. Among(s, {e}) \in Seq(T) /\ ToSet(Among(s, {e})) = ToSet(s) \intersect {e}
  BY AmongType
<1>2. Count(s, e) \in Nat
  BY <1>1, LenProperties DEF Count
<1>3. ASSUME e \in ToSet(s) PROVE Count(s, e) >= 1
  <2>1. e \in ToSet(Among(s, {e}))
    BY <1>1, <1>3
  <2>2. ToSet(<<>>) = {}
    BY DEF ToSet
  <2>4. Among(s, {e}) # <<>>
    BY <2>1, <2>2
  <2>3. Count(s, e) # 0
    BY <1>1, <2>4, EmptySeq DEF Count
  <2> QED
    BY <1>2, <2>3
<1>4. ASSUME e \notin ToSet(s) PROVE Count(s, e) = 0
  <2>1. ToSet(s) \intersect {e} = {}
    BY <1>4
  <2>2. Among(s, {e}) = <<>>
    BY <2>1, AmongNoneOrAll
  <2> QED
    BY <2>2 DEF Count
<1> QED
  BY <1>2, <1>3, <1>4

\* They add up.
LEMMA CountConcat ==
  ASSUME NEW T, NEW s \in Seq(T), NEW t \in Seq(T), NEW e
  PROVE  Count(s \o t, e) = Count(s, e) + Count(t, e)
<1>1. Among(s, {e}) \in Seq(T) /\ Among(t, {e}) \in Seq(T)
  BY AmongType
<1>2. Among(s \o t, {e}) = Among(s, {e}) \o Among(t, {e})
  BY AmongConcat
<1> QED
  BY <1>1, <1>2, ConcatProperties DEF Count

\* At most one in a sequence without repetition.
LEMMA CountInjective ==
  ASSUME NEW T, NEW s \in Seq(T), IsInjective(s), NEW e
  PROVE  Count(s, e) <= 1
<1> DEFINE P == {u \in Seq(T) : IsInjective(u) => Count(u, e) <= 1}
<1>1. <<>> \in P
  BY AmongEmpty DEF Count
<1>2. ASSUME NEW u \in Seq(T), NEW x \in T, u \in P PROVE Append(u, x) \in P
  <2> DEFINE w == Append(u, x)
  <2> SUFFICES ASSUME IsInjective(w) PROVE Count(w, e) <= 1
    BY AppendProperties
  <2>1. /\ w \in Seq(T) /\ Len(w) = Len(u) + 1 /\ Len(u) \in Nat
        /\ w[Len(u) + 1] = x /\ \A i \in 1 .. Len(u) : w[i] = u[i]
    BY AppendProperties, LenProperties
  <2>2. DOMAIN w = 1 .. Len(u) + 1 /\ DOMAIN u = 1 .. Len(u)
    BY <2>1, LenProperties
  <2> HIDE DEF w
  <2>3. IsInjective(u)
    BY <2>1, <2>2 DEF IsInjective
  <2>4. x \notin ToSet(u)
    BY <2>1, <2>2 DEF IsInjective, ToSet
  <2>5. Among(w, {e}) = IF x \in {e} THEN Append(Among(u, {e}), x) ELSE Among(u, {e})
    BY AmongAppend DEF w
  <2>6. CASE x = e
    <3>1. ToSet(u) \intersect {e} = {}
      BY <2>4, <2>6
    <3>2. Among(u, {e}) = <<>>
      BY <3>1, AmongNoneOrAll
    <3>3. Len(Append(<<>>, x)) = 1
      BY <2>1
    <3>4. x \in {e}
      BY <2>6
    <3>5. Among(w, {e}) = Append(<<>>, x)
      BY <2>5, <3>2, <3>4
    <3> HIDE DEF P
    <3>6. Count(w, e) = 1
      BY ONLY <3>3, <3>5 DEF Count
    <3> QED
      BY <3>6
  <2>7. CASE x # e
    BY <1>2, <2>3, <2>5, <2>7 DEF Count
  <2> QED
    BY <2>6, <2>7
<1> HIDE DEF P
<1>3. s \in P
  BY <1>1, <1>2, SeqInduction
<1> QED
  BY <1>3 DEF P
=============================================================================

---------------------------- MODULE QueueLemmas ----------------------------
(***************************************************************************)
(* Facts about queues without duplicates: what appending, taking the head  *)
(* and removing an element in the middle do to their length and range;     *)
(* that a set of positions has a first one; and induction and recursion    *)
(* along the positions of a sequence.                                      *)
(***************************************************************************)
EXTENDS Naturals, Integers, SequencesExt, SequenceTheorems, WellFoundedInduction, TLAPS

\* Removing the i-th element of a sequence.
LEMMA RemoveAtIsSeq ==
  ASSUME NEW S, NEW s \in Seq(S), NEW i \in 1..Len(s)
  PROVE  /\ RemoveAt(s, i) \in Seq(S)
         /\ Len(RemoveAt(s, i)) = Len(s) - 1
         /\ \A k \in 1..(Len(s) - 1) :
              RemoveAt(s, i)[k] = IF k < i THEN s[k] ELSE s[k + 1]
<1> DEFINE a == SubSeq(s, 1, i - 1)
           b == SubSeq(s, i + 1, Len(s))
<1>1. Len(s) \in Nat /\ i \in Int /\ 1 <= i /\ i <= Len(s)
  OBVIOUS
<1>2. /\ a \in Seq(S) /\ Len(a) = i - 1
      /\ \A k \in 1..(i - 1) : a[k] = s[k]
  <2>1. \A k \in 1..(i - 1) : s[k] \in S
    BY <1>1, ElementOfSeq
  <2> QED BY <1>1, <2>1, SubSeqProperties
<1>3. /\ b \in Seq(S) /\ Len(b) = Len(s) - i
      /\ \A k \in 1..(Len(s) - i) : b[k] = s[k + i]
  <2>1. \A k \in (i + 1)..Len(s) : s[k] \in S
    BY <1>1, ElementOfSeq
  <2>2. /\ b \in Seq(S)
        /\ Len(b) = IF i + 1 <= Len(s) THEN Len(s) - (i + 1) + 1 ELSE 0
        /\ \A k \in 1..(Len(s) - (i + 1) + 1) : b[k] = s[(i + 1) + k - 1]
    BY <1>1, <2>1, SubSeqProperties
  <2> QED BY <1>1, <2>2
<1> HIDE DEF a, b
<1>4. /\ a \o b \in Seq(S) /\ Len(a \o b) = Len(s) - 1
      /\ \A k \in 1..(Len(s) - 1) :
           (a \o b)[k] = IF k <= i - 1 THEN a[k] ELSE b[k - (i - 1)]
  <2>1. /\ a \o b \in Seq(S) /\ Len(a \o b) = Len(a) + Len(b)
        /\ \A k \in 1..(Len(a) + Len(b)) :
             (a \o b)[k] = IF k <= Len(a) THEN a[k] ELSE b[k - Len(a)]
    BY <1>2, <1>3, ConcatProperties
  <2>2. Len(a) + Len(b) = Len(s) - 1 /\ Len(a) = i - 1
    BY <1>1, <1>2, <1>3
  <2> QED BY <2>1, <2>2
<1>5. ASSUME NEW k \in 1..(Len(s) - 1)
      PROVE  (a \o b)[k] = IF k < i THEN s[k] ELSE s[k + 1]
  <2>1. CASE k < i
    <3>1. k \in 1..(i - 1) /\ k <= i - 1
      BY <2>1, <1>1
    <3>2. a[k] = s[k]
      BY <3>1, <1>2
    <3> QED BY <2>1, <3>1, <3>2, <1>4
  <2>2. CASE k >= i
    <3>1. k - (i - 1) \in 1..(Len(s) - i) /\ (k - (i - 1)) + i = k + 1
      BY <2>2, <1>1
    <3>2. b[k - (i - 1)] = s[k + 1]
      BY <3>1, <1>3
    <3>3. ~(k <= i - 1) /\ ~(k < i)
      BY <2>2, <1>1
    <3> QED BY <3>2, <3>3, <1>4
  <2>3. k < i \/ k >= i
    BY <1>1
  <2> QED BY <2>1, <2>2, <2>3
<1> QED BY <1>4, <1>5 DEF RemoveAt, a, b

\* What an injective sequence holds once its i-th element is removed.
LEMMA RemoveAtRange ==
  ASSUME NEW S, NEW s \in Seq(S), NEW i \in 1..Len(s), IsInjective(s)
  PROVE  /\ Range(RemoveAt(s, i)) = Range(s) \ {s[i]}
         /\ IsInjective(RemoveAt(s, i))
<1> DEFINE t == RemoveAt(s, i)
           shift(k) == IF k < i THEN k ELSE k + 1
<1>1. /\ t \in Seq(S) /\ Len(t) = Len(s) - 1
      /\ \A k \in 1..(Len(s) - 1) : t[k] = s[shift(k)]
  BY RemoveAtIsSeq
<1>2. /\ DOMAIN t = 1..(Len(s) - 1) /\ DOMAIN s = 1..Len(s) /\ Len(s) \in Nat
      /\ \A k \in 1..(Len(s) - 1) : shift(k) \in 1..Len(s) /\ shift(k) # i
  BY <1>1
<1> HIDE DEF t
<1>3. ASSUME NEW k \in 1..(Len(s) - 1), NEW j \in 1..(Len(s) - 1), t[k] = t[j]
      PROVE  k = j
  <2>1. shift(k) = shift(j)
    BY <1>1, <1>2, <1>3 DEF IsInjective
  <2> QED BY <2>1, <1>2
<1>4. IsInjective(t)
  BY <1>2, <1>3 DEF IsInjective
<1>5. ASSUME NEW e \in Range(t)
      PROVE  e \in Range(s) \ {s[i]}
  <2>1. PICK k \in 1..(Len(s) - 1) : e = t[k]
    BY <1>2 DEF Range
  <2>2. e = s[shift(k)] /\ shift(k) \in DOMAIN s /\ shift(k) # i /\ i \in DOMAIN s
    BY <2>1, <1>1, <1>2
  <2> QED BY <2>2 DEF Range, IsInjective
<1>6. ASSUME NEW e \in Range(s), e # s[i]
      PROVE  e \in Range(t)
  <2>1. PICK j \in 1..Len(s) : e = s[j]
    BY <1>2 DEF Range
  <2>2. PICK k \in 1..(Len(s) - 1) : shift(k) = j
    <3>1. CASE j < i
      <4>1. j \in 1..(Len(s) - 1) /\ shift(j) = j
        BY <3>1, <1>2
      <4> QED BY <4>1
    <3>2. CASE j > i
      <4>1. j - 1 \in 1..(Len(s) - 1) /\ shift(j - 1) = j
        BY <3>2, <1>2
      <4> QED BY <4>1
    <3> QED BY <2>1, <1>6, <3>1, <3>2, <1>2
  <2>3. e = t[k]
    BY <2>1, <2>2, <1>1
  <2> QED BY <2>3, <1>2 DEF Range
<1>7. Range(t) = Range(s) \ {s[i]}
  BY <1>5, <1>6
<1> QED BY <1>4, <1>7 DEF t

\* Appending a fresh element keeps a sequence injective and adds it alone.
LEMMA AppendRange ==
  ASSUME NEW S, NEW s \in Seq(S), NEW e \in S, IsInjective(s), e \notin Range(s)
  PROVE  /\ Append(s, e) \in Seq(S)
         /\ Range(Append(s, e)) = Range(s) \cup {e}
         /\ IsInjective(Append(s, e))
<1> DEFINE t == Append(s, e)
<1>1. /\ t \in Seq(S) /\ DOMAIN t = 1..(Len(s) + 1) /\ DOMAIN s = 1..Len(s)
      /\ Len(s) \in Nat /\ t[Len(s) + 1] = e
      /\ \A k \in 1..Len(s) : t[k] = s[k]
  OBVIOUS
<1> HIDE DEF t
<1>2. \A k \in 1..(Len(s) + 1) : k \in 1..Len(s) \/ k = Len(s) + 1
  BY <1>1
<1>3. Range(t) = Range(s) \cup {e}
  BY <1>1, <1>2 DEF Range
<1>4. IsInjective(t)
  BY <1>1, <1>2 DEF Range, IsInjective
<1> QED BY <1>1, <1>3, <1>4 DEF t

\* Taking the head of an injective sequence removes it alone.
LEMMA TailRange ==
  ASSUME NEW S, NEW s \in Seq(S), s # <<>>, IsInjective(s)
  PROVE  /\ Head(s) \in Range(s) /\ Tail(s) \in Seq(S)
         /\ Range(Tail(s)) = Range(s) \ {Head(s)}
         /\ IsInjective(Tail(s))
<1>1. 1 \in 1..Len(s) /\ Head(s) = s[1] /\ DOMAIN s = 1..Len(s)
  BY EmptySeq
<1>2. Tail(s) \in Seq(S) /\ Tail(s) = RemoveAt(s, 1)
  <2>1. /\ Tail(s) \in Seq(S) /\ Len(Tail(s)) = Len(s) - 1
        /\ \A k \in 1..(Len(s) - 1) : Tail(s)[k] = s[k + 1]
    BY HeadTailProperties
  <2>2. /\ RemoveAt(s, 1) \in Seq(S) /\ Len(RemoveAt(s, 1)) = Len(s) - 1
        /\ \A k \in 1..(Len(s) - 1) : RemoveAt(s, 1)[k] = s[k + 1]
    <3>1. \A k \in 1..(Len(s) - 1) : ~(k < 1)
      BY <1>1
    <3> QED BY <1>1, <3>1, RemoveAtIsSeq
  <2> QED BY <2>1, <2>2, SeqEqual
<1>3. Range(RemoveAt(s, 1)) = Range(s) \ {s[1]} /\ IsInjective(RemoveAt(s, 1))
  BY <1>1, RemoveAtRange
<1>4. s[1] \in Range(s)
  BY <1>1 DEF Range
<1> QED BY <1>1, <1>2, <1>3, <1>4

\* A set of naturals that is not empty has a least element.
LEMMA LeastIndex ==
  ASSUME NEW T, T \subseteq Nat, T # {}
  PROVE  \E i \in T : \A j \in T : i <= j
<1> DEFINE R == {ss \in Nat \X Nat : ss[1] < ss[2]}
<1>0. OpToRel(<, Nat) = R
  BY DEF OpToRel
<1>1. IsWellFoundedOn(R, Nat)
  BY <1>0, NatLessThanWellFounded, Zenon
<1>2. \E i \in T : \A j \in T : <<j, i>> \notin R
  <2> HIDE DEF R
  <2> QED BY <1>1, WFMin
<1>3. PICK i \in T : \A j \in T : <<j, i>> \notin R
  BY <1>2
<1>4. \A j \in T : i <= j
  <2> SUFFICES ASSUME NEW j \in T PROVE i <= j
    OBVIOUS
  <2>1. i \in Nat /\ j \in Nat
    OBVIOUS
  <2>2. ~(j < i)
    BY <1>3, <2>1
  <2> QED BY <2>1, <2>2
<1> QED BY <1>4

-----------------------------------------------------------------------------
(* Induction, with the property given as the set of numbers that have it,  *)
(* and the functions that recursion along a sequence defines.              *)

\* A set that holds 0 and the successor of what it holds has every number.
LEMMA Induct ==
  ASSUME NEW T, 0 \in T, \A k \in Nat : k \in T => k + 1 \in T
  PROVE  \A n \in Nat : n \in T
<1> DEFINE U == Nat \ T
<1>1. ASSUME U # {} PROVE FALSE
  <2>1. PICK i \in U : \A j \in U : i <= j
    BY <1>1, LeastIndex
  <2>2. i \in Nat /\ i # 0
    BY <2>1
  <2>3. i - 1 \in Nat /\ (i - 1) + 1 = i /\ ~(i <= i - 1)
    BY <2>2
  <2>4. i - 1 \in T
    BY <2>1, <2>3
  <2> QED BY <2>1, <2>3, <2>4
<1> QED BY <1>1

\* The same up to a bound.
LEMMA InductUpTo ==
  ASSUME NEW n \in Nat, NEW T, 0 \in T, \A k \in 1..n : k - 1 \in T => k \in T
  PROVE  \A k \in 0..n : k \in T
<1> DEFINE U == {k \in Nat : k <= n => k \in T}
<1>1. 0 \in U OBVIOUS
<1>2. ASSUME NEW k \in Nat, k \in U PROVE k + 1 \in U
  <2>1. CASE k + 1 <= n
    <3>1. k + 1 \in 1..n /\ (k + 1) - 1 = k /\ k <= n BY <2>1
    <3> QED BY <1>2, <3>1
  <2> QED BY <2>1
<1>3. \A k \in Nat : k \in U
  <2> HIDE DEF U
  <2> QED BY <1>1, <1>2, Induct
<1> QED BY <1>3

\* Two functions start alike and go on alike for n steps; they are alike so far.
GoAlike(f, g, n) == f[0] = g[0] /\ \A k \in 1..n : f[k - 1] = g[k - 1] => f[k] = g[k]
SameUpTo(f, g, n) == \A k \in 0..n : f[k] = g[k]

\* Two functions that start alike and go on alike are alike.
LEMMA SameRecursion ==
  ASSUME NEW n \in Nat, NEW f, NEW g, GoAlike(f, g, n)
  PROVE  SameUpTo(f, g, n)
<1> DEFINE T == {k \in 0..n : f[k] = g[k]}
<1>1. 0 \in T BY DEF GoAlike
<1>2. ASSUME NEW k \in 1..n, k - 1 \in T PROVE k \in T
  BY <1>2 DEF GoAlike
<1>3. \A k \in 0..n : k \in T
  <2> HIDE DEF T
  <2> QED BY <1>1, <1>2, InductUpTo
<1> QED BY <1>3 DEF SameUpTo

\* The function f starts with x and goes on with n steps.
Stepwise(f, n, x, step) == f[0] = x /\ \A k \in 1..n : f[k] = step[k][f[k - 1]]

\* There is such a function.
LEMMA Recursion ==
  ASSUME NEW n \in Nat, NEW S, NEW x \in S, NEW step \in [1..n -> [S -> S]]
  PROVE  \E f \in [0..n -> S] : Stepwise(f, n, x, step)
<1> DEFINE Goes(m, f) == f[0] = x /\ \A k \in 1..m : f[k] = step[k][f[k - 1]]
           T == {m \in 0..n : \E f \in [0..m -> S] : Goes(m, f)}
<1>1. 0 \in T
  <2> DEFINE f == [k \in 0..0 |-> x]
  <2>1. f \in [0..0 -> S] OBVIOUS
  <2>2. Goes(0, f) OBVIOUS
  <2> HIDE DEF f, Goes
  <2> QED BY <2>1, <2>2
<1>2. ASSUME NEW m \in 1..n, m - 1 \in T PROVE m \in T
  <2>1. PICK g \in [0..(m - 1) -> S] : Goes(m - 1, g)
    BY <1>2
  <2> DEFINE f == [k \in 0..m |-> IF k <= m - 1 THEN g[k] ELSE step[m][g[m - 1]]]
  <2>2. g[m - 1] \in S /\ step[m][g[m - 1]] \in S /\ m - 1 \in 0..(m - 1)
    BY <2>1
  <2>3. f \in [0..m -> S]
    BY <2>2
  <2>4. \A k \in 0..m : f[k] = IF k <= m - 1 THEN g[k] ELSE step[m][g[m - 1]]
    OBVIOUS
  <2> HIDE DEF f
  <2>5. f[0] = x
    BY <2>1, <2>4
  <2>6. ASSUME NEW k \in 1..m PROVE f[k] = step[k][f[k - 1]]
    <3>1. k - 1 \in 0..m /\ k \in 0..m /\ k - 1 <= m - 1 BY <2>2
    <3>2. f[k - 1] = g[k - 1] BY <2>4, <3>1
    <3>3. CASE k <= m - 1
      <4>1. k \in 1..(m - 1) BY <3>3
      <4> QED BY <2>1, <2>4, <3>1, <3>2, <3>3, <4>1
    <3>4. CASE ~(k <= m - 1)
      <4>1. k = m BY <3>4
      <4> QED BY <2>4, <3>1, <3>2, <3>4, <4>1
    <3> QED BY <3>3, <3>4
  <2>7. Goes(m, f)
    BY <2>5, <2>6
  <2> HIDE DEF Goes
  <2> QED BY <2>3, <2>7
<1>3. \A k \in 0..n : k \in T
  <2> HIDE DEF T
  <2> QED BY <1>1, <1>2, InductUpTo
<1>4. PICK f \in [0..n -> S] : Goes(n, f)
  <2>1. n \in T BY <1>3
  <2> QED BY <2>1
<1> QED BY <1>4 DEF Stepwise
=============================================================================

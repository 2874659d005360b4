------------------------------- MODULE Lemmas -------------------------------
(***************************************************************************)
(* What the proofs share.                                                  *)
(*                                                                         *)
(* Induction over the natural numbers, in the form the proofs about loops  *)
(* and searches need: a set of numbers has a least element, so what the    *)
(* first round has and every round keeps, the last round has; and the      *)
(* function that lists a loop's rounds exists.  Then what lists keep.      *)
(***************************************************************************)
EXTENDS Integers, SequencesExt, SequenceTheorems, WellFoundedInduction, TLAPS

Less == {ss \in Nat \X Nat : ss[1] < ss[2]}

\* Every set of indices has a least.
LEMMA LeastOf ==
  ASSUME NEW T, T \subseteq Nat, T # {}
  PROVE  \E x \in T : \A y \in T : x <= y
<1>1. IsWellFoundedOn(Less, Nat)
  <2>1. OpToRel(<, Nat) = Less
    BY DEF OpToRel, Less
  <2> QED BY <2>1, NatLessThanWellFounded
<1>2. PICK x \in T : \A y \in T : ~(<<y, x>> \in Less)
  BY <1>1, WFMin
<1>3. ASSUME NEW y \in T, y < x
      PROVE  FALSE
  <2>1. <<y, x>> \in Nat \X Nat /\ <<y, x>>[1] = y /\ <<y, x>>[2] = x
    OBVIOUS
  <2>2. <<y, x>> \in Less
    BY <1>3, <2>1 DEF Less
  <2> QED BY <1>2, <2>2
<1>4. \A y \in T : ~(y < x)
  BY <1>3
<1> QED BY <1>4

\* A set of indices with an upper bound has a greatest.
LEMMA GreatestOf ==
  ASSUME NEW N \in Nat, NEW T, T \subseteq 0..N, T # {}
  PROVE  \E x \in T : \A y \in T : y <= x
<1> DEFINE U == {N - y : y \in T}
<1>1. U \subseteq Nat /\ U # {}
  <2>1. \A y \in T : N - y \in Nat
    OBVIOUS
  <2>2. PICK y \in T : TRUE
    OBVIOUS
  <2>3. N - y \in U
    OBVIOUS
  <2> QED BY <2>1, <2>3
<1>2. PICK u \in U : \A v \in U : u <= v
  BY <1>1, LeastOf
<1>3. PICK x \in T : u = N - x
  OBVIOUS
<1>4. ASSUME NEW y \in T
      PROVE  y <= x
  <2>1. N - y \in U /\ x \in 0..N /\ y \in 0..N
    OBVIOUS
  <2>2. N - x <= N - y
    BY <2>1, <1>2, <1>3
  <2> QED BY <2>1, <2>2
<1> QED BY <1>4

\* What holds at 0 and is passed on holds up to the end.
LEMMA InductionUpTo ==
  ASSUME NEW N \in Nat, NEW T, 0 \in T, \A k \in 1..N : k - 1 \in T => k \in T
  PROVE  0..N \subseteq T
<1> DEFINE Bad == {k \in 0..N : k \notin T}
<1> SUFFICES ASSUME Bad # {}
             PROVE  FALSE
  OBVIOUS
<1>1. PICK k \in Bad : \A j \in Bad : k <= j
  BY LeastOf, Bad \subseteq Nat
<1>2. k \in 1..N /\ k - 1 \in 0..N
  OBVIOUS
<1>3. k - 1 \in T
  BY <1>1, <1>2
<1> QED BY <1>2, <1>3

\* The rounds of a loop: from x by step, N times.
LEMMA RoundsExist ==
  ASSUME NEW S, NEW x \in S, NEW step \in [S -> S], NEW N \in Nat
  PROVE  \E w \in [0..N -> S] : w = [k \in 0..N |-> IF k = 0 THEN x ELSE step[w[k - 1]]]
<1> DEFINE IsRun(w, m) == w[0] = x /\ \A k \in 1..m : w[k] = step[w[k - 1]]
           T == {m \in 0..N : \E w \in [0..m -> S] : IsRun(w, m)}
<1>1. 0 \in T
  <2> DEFINE w0 == [k \in 0..0 |-> x]
  <2>1. w0 \in [0..0 -> S] /\ w0[0] = x
    OBVIOUS
  <2> HIDE DEF w0
  <2>2. IsRun(w0, 0)
    BY <2>1
  <2>3. 0 \in 0..N
    OBVIOUS
  <2> QED BY <2>1, <2>2, <2>3
<1>2. ASSUME NEW m \in 1..N, m - 1 \in T
      PROVE  m \in T
  <2>1. PICK w \in [0..m - 1 -> S] : IsRun(w, m - 1)
    BY <1>2
  <2> DEFINE v == [k \in 0..m |-> IF k = m THEN step[w[m - 1]] ELSE w[k]]
  <2>2. v \in [0..m -> S]
    OBVIOUS
  <2>3. \A k \in 0..m - 1 : v[k] = w[k]
    OBVIOUS
  <2>4. IsRun(v, m)
    BY <2>1, <2>2, <2>3
  <2> HIDE DEF v
  <2> QED BY <2>2, <2>4
<1>3. N \in T
  <2> HIDE DEF T
  <2> QED BY <1>1, <1>2, InductionUpTo
<1>4. PICK w \in [0..N -> S] : IsRun(w, N)
  BY <1>3
<1>5. w = [k \in 0..N |-> IF k = 0 THEN x ELSE step[w[k - 1]]]
  <2>1. \A k \in 0..N : w[k] = IF k = 0 THEN x ELSE step[w[k - 1]]
    BY <1>4
  <2> QED BY <2>1
<1> QED BY <1>5

\* A loop for which N rounds are enough when it starts, and with every round
\* one less, has come to where a round changes nothing.
LEMMA LoopEnds ==
  ASSUME NEW S, NEW x \in S, NEW step \in [S -> S], NEW N \in Nat,
         NEW Enough, <<x, N>> \in Enough,
         \A s \in S, k \in Nat : <<s, k>> \in Enough =>
            step[s] = s \/ (k # 0 /\ <<step[s], k - 1>> \in Enough),
         NEW w, w[0] = x, \A k \in 1..N : w[k - 1] \in S => w[k] = step[w[k - 1]]
  PROVE  w[N] \in S /\ step[w[N]] = w[N]
<1> DEFINE T == {k \in 0..N : w[k] \in S /\ (step[w[k]] = w[k] \/ <<w[k], N - k>> \in Enough)}
<1>1. 0 \in T
  BY N - 0 = N
<1>2. ASSUME NEW k \in 1..N, k - 1 \in T
      PROVE  k \in T
  <2>1. w[k - 1] \in S /\ w[k] = step[w[k - 1]] /\ w[k] \in S
    BY <1>2
  <2>2. CASE step[w[k - 1]] = w[k - 1]
    BY <2>1, <2>2
  <2>3. CASE <<w[k - 1], N - (k - 1)>> \in Enough
    <3>1. N - (k - 1) \in Nat /\ (N - (k - 1)) - 1 = N - k
      OBVIOUS
    <3>2. step[w[k - 1]] = w[k - 1] \/ <<step[w[k - 1]], N - k>> \in Enough
      BY <2>1, <2>3, <3>1
    <3> QED BY <2>1, <2>2, <3>2
  <2> QED BY <1>2, <2>2, <2>3
<1>3. N \in T
  <2> HIDE DEF T
  <2> QED BY <1>1, <1>2, InductionUpTo
<1>4. N - N = 0 /\ 0 \in Nat
  OBVIOUS
<1>5. <<w[N], 0>> \in Enough => step[w[N]] = w[N]
  BY <1>3, <1>4
<1> QED BY <1>3, <1>4, <1>5

------------------------------------------------------------------------------
(* Lists: one is put at the end and one is taken out.                      *)

LEMMA RemoveAtPlaces ==
  ASSUME NEW S, NEW s \in Seq(S), NEW i \in 1..Len(s)
  PROVE  /\ RemoveAt(s, i) \in Seq(S)
         /\ Len(RemoveAt(s, i)) = Len(s) - 1
         /\ \A j \in 1..Len(s) - 1 : RemoveAt(s, i)[j] = IF j < i THEN s[j] ELSE s[j + 1]
<1> DEFINE l == SubSeq(s, 1, i - 1)
           r == SubSeq(s, i + 1, Len(s))
<1>1. /\ l \in Seq(S) /\ Len(l) = i - 1
      /\ \A j \in 1..i - 1 : l[j] = s[j]
  BY SubSeqProperties, LenProperties
<1>2. /\ r \in Seq(S) /\ Len(r) = Len(s) - i
      /\ \A j \in 1..Len(s) - i : r[j] = s[i + j]
  BY SubSeqProperties, LenProperties
<1> HIDE DEF l, r
<1>3. /\ l \o r \in Seq(S) /\ Len(l \o r) = Len(s) - 1
      /\ \A j \in 1..Len(s) - 1 : (l \o r)[j] = IF j < i THEN s[j] ELSE s[j + 1]
  <2>1. /\ l \o r \in Seq(S) /\ Len(l \o r) = Len(l) + Len(r)
        /\ \A j \in 1..Len(l) + Len(r) : (l \o r)[j] = IF j <= Len(l) THEN l[j] ELSE r[j - Len(l)]
    BY <1>1, <1>2, ConcatProperties
  <2>2. Len(s) \in Nat
    BY LenProperties
  <2>3. ASSUME NEW j \in 1..Len(s) - 1
        PROVE  (l \o r)[j] = IF j < i THEN s[j] ELSE s[j + 1]
    <3>1. CASE j < i
      BY <1>1, <1>2, <2>1, <2>2, <3>1
    <3>2. CASE ~(j < i)
      <4>1. j - (i - 1) \in 1..Len(s) - i /\ i + (j - (i - 1)) = j + 1
        BY <2>2, <3>2
      <4>2. (l \o r)[j] = r[j - (i - 1)]
        BY <1>1, <1>2, <2>1, <2>2, <3>2
      <4>3. r[j - (i - 1)] = s[i + (j - (i - 1))]
        BY <1>2, <4>1
      <4> QED BY <3>2, <4>1, <4>2, <4>3
    <3> QED BY <3>1, <3>2
  <2> QED BY <1>1, <1>2, <2>1, <2>2, <2>3
<1>4. RemoveAt(s, i) = l \o r
  BY DEF RemoveAt, l, r
<1> QED BY <1>3, <1>4

\* An element that occurs once is gone, the others are left, each once.
LEMMA RemoveFirstOut ==
  ASSUME NEW S, NEW s \in Seq(S), NEW e, IsInjective(s)
  PROVE  /\ RemoveFirst(s, e) \in Seq(S) /\ IsInjective(RemoveFirst(s, e))
         /\ ToSet(RemoveFirst(s, e)) = ToSet(s) \ {e}
<1>0. DOMAIN s = 1..Len(s) /\ Len(s) \in Nat
  BY LenProperties
<1>1. CASE ~\E i \in 1..Len(s) : s[i] = e
  BY <1>0, <1>1 DEF RemoveFirst, ToSet
<1>2. CASE \E i \in 1..Len(s) : s[i] = e
  <2>1. PICK i \in 1..Len(s) : s[i] = e
    BY <1>2
  <2> DEFINE I == {k \in 1..Len(s) : s[k] = e}
             r == RemoveAt(s, i)
  <2>2. I = {i}
    BY <1>0, <2>1 DEF IsInjective
  <2>3. Min(I) = i
    BY <2>2 DEF Min
  <2>4. RemoveFirst(s, e) = r
    BY <1>2, <2>2, <2>3 DEF RemoveFirst, SelectInSeq
  <2>5. /\ r \in Seq(S) /\ Len(r) = Len(s) - 1 /\ DOMAIN r = 1..Len(s) - 1
        /\ \A j \in 1..Len(s) - 1 : r[j] = IF j < i THEN s[j] ELSE s[j + 1]
    BY RemoveAtPlaces, LenProperties
  <2> HIDE DEF r
  <2> DEFINE at(j) == IF j < i THEN j ELSE j + 1
  <2>a. \A j \in 1..Len(s) - 1 : at(j) \in DOMAIN s /\ at(j) # i /\ r[j] = s[at(j)]
    BY <1>0, <2>5
  <2>b. \A j, k \in 1..Len(s) - 1 : at(j) = at(k) => j = k
    BY <1>0
  <2>6. IsInjective(r)
    <3> HIDE DEF at
    <3> QED BY <2>5, <2>a, <2>b DEF IsInjective
  <2>7. ToSet(r) \subseteq ToSet(s) \ {e}
    <3> HIDE DEF at
    <3> QED BY <1>0, <2>1, <2>5, <2>a DEF IsInjective, ToSet
  <2>8. ASSUME NEW x \in ToSet(s), x # e
        PROVE  x \in ToSet(r)
    <3>1. PICK k \in 1..Len(s) : s[k] = x
      BY <1>0 DEF ToSet
    <3>2. CASE k < i
      BY <1>0, <2>5, <3>1, <3>2 DEF ToSet
    <3>3. CASE k > i
      <4>1. k - 1 \in 1..Len(s) - 1 /\ ~(k - 1 < i) /\ r[k - 1] = s[k]
        BY <1>0, <2>5, <3>3
      <4> QED BY <2>5, <3>1, <4>1 DEF ToSet
    <3> QED BY <1>0, <2>1, <2>8, <3>1, <3>2, <3>3
  <2> QED BY <2>4, <2>5, <2>6, <2>7, <2>8
<1> QED BY <1>1, <1>2

LEMMA AppendIn ==
  ASSUME NEW S, NEW s \in Seq(S), NEW e \in S, IsInjective(s), e \notin ToSet(s)
  PROVE  /\ Append(s, e) \in Seq(S) /\ IsInjective(Append(s, e))
         /\ ToSet(Append(s, e)) = ToSet(s) \cup {e}
<1> DEFINE r == Append(s, e)
<1>1. /\ r \in Seq(S) /\ DOMAIN r = 1..Len(s) + 1 /\ DOMAIN s = 1..Len(s) /\ Len(s) \in Nat
      /\ r[Len(s) + 1] = e /\ \A i \in 1..Len(s) : r[i] = s[i]
  BY AppendProperties, LenProperties
<1> HIDE DEF r
<1>2. IsInjective(r)
  BY <1>1 DEF IsInjective, ToSet
<1>3. ToSet(r) = ToSet(s) \cup {e}
  <2>1. ToSet(r) \subseteq ToSet(s) \cup {e}
    BY <1>1 DEF ToSet
  <2>2. e \in ToSet(r) /\ ToSet(s) \subseteq ToSet(r)
    BY <1>1 DEF ToSet
  <2> QED BY <2>1, <2>2
<1> QED BY <1>1, <1>2, <1>3 DEF r
==============================================================================

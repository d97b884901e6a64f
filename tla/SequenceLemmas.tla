--------------------------- MODULE SequenceLemmas ---------------------------
(***************************************************************************)
(* Induction and folds, stated with sets and functions in the place of     *)
(* operators, so that they can be used for any predicate and any step that *)
(* a model folds over a sequence; sequences that hold nothing twice; and   *)
(* one sequence behind another.                                            *)
(***************************************************************************)
EXTENDS Naturals, Sequences, SequencesExt, SequenceTheorems, FiniteSetTheorems,
        WellFoundedInduction, TLAPS

-----------------------------------------------------------------------------
(* Induction: a set with 0 and the successor of each of its numbers has    *)
(* all natural numbers.                                                    *)
LEMMA SetInduction ==
  ASSUME NEW S, 0 \in S, \A n \in Nat : n \in S => n + 1 \in S
  PROVE  \A n \in Nat : n \in S
<1> SUFFICES ASSUME NEW m \in Nat, m \notin S PROVE FALSE
  OBVIOUS
<1> DEFINE R == OpToRel(<, Nat)
           T == {k \in Nat : k \notin S}
<1>1. T \subseteq Nat /\ T # {}
  OBVIOUS
<1>2. IsWellFoundedOn(R, Nat)
  BY NatLessThanWellFounded
<1> HIDE DEF R, T
<1>3. \E x \in T : \A y \in T : ~ (<<y, x>> \in R)
  BY <1>1, <1>2, WFMin
<1>4. PICK x \in T : \A y \in T : ~ (<<y, x>> \in R)
  BY <1>3
<1>5. x \in Nat /\ x \notin S /\ x # 0
  BY DEF T
<1>6. x - 1 \in Nat /\ (x - 1) + 1 = x
  BY <1>5
<1>7. x - 1 \notin S
  BY <1>5, <1>6
<1>8. x - 1 \in T
  BY <1>6, <1>7 DEF T
<1>9. <<x - 1, x>> \in R
  BY <1>5, <1>6 DEF R, OpToRel
<1> QED BY <1>4, <1>8, <1>9

(* The same up to a bound. *)
LEMMA BoundedInduction ==
  ASSUME NEW N \in Nat, NEW S, 0 \in S, \A n \in 0..N : n < N /\ n \in S => n + 1 \in S
  PROVE  \A n \in 0..N : n \in S
<1> DEFINE T == {n \in Nat : n <= N => n \in S}
<1>1. 0 \in T
  OBVIOUS
<1>2. \A n \in Nat : n \in T => n + 1 \in T
  OBVIOUS
<1> HIDE DEF T
<1>3. \A n \in Nat : n \in T
  BY <1>1, <1>2, SetInduction
<1> QED BY <1>3 DEF T

(* The greatest of the first k positions. *)
LEMMA MaxOfRange ==
  ASSUME NEW k \in Nat
  PROVE  Max(1..(k + 1)) = k + 1
<1>1. k + 1 \in 1..(k + 1) /\ \A y \in 1..(k + 1) : k + 1 >= y
  OBVIOUS
<1>2. \A x \in 1..(k + 1) : (\A y \in 1..(k + 1) : x >= y) => x = k + 1
  OBVIOUS
<1> QED BY <1>1, <1>2 DEF Max

LEMMA MaxWithTop ==
  ASSUME NEW k \in Nat, NEW s \in SUBSET (1..(k + 1)), k + 1 \in s
  PROVE  Max(s) = k + 1
<1>1. \A y \in s : y \in Nat /\ k + 1 >= y
  OBVIOUS
<1>2. \A x \in s : (\A y \in s : x >= y) => x = k + 1
  BY <1>1
<1> QED BY <1>1, <1>2 DEF Max

LEMMA MaxIn ==
  ASSUME NEW k \in Nat, NEW s \in SUBSET (1..k), s # {}
  PROVE  Max(s) \in s /\ s \ {Max(s)} \in SUBSET (1..k)
<1> DEFINE S == {n \in Nat : \A t \in SUBSET (1..n) : t # {} => \E x \in t : \A y \in t : x >= y}
<1>1. 0 \in S
  <2>1. \A t \in SUBSET (1..0) : t = {}
    OBVIOUS
  <2> QED BY <2>1
<1>2. ASSUME NEW n \in Nat, n \in S PROVE n + 1 \in S
  <2> SUFFICES ASSUME NEW t \in SUBSET (1..(n + 1)), t # {} PROVE \E x \in t : \A y \in t : x >= y
    OBVIOUS
  <2>1. CASE n + 1 \in t
    BY <2>1
  <2>2. CASE n + 1 \notin t
    BY <1>2, <2>2
  <2> QED BY <2>1, <2>2
<1> HIDE DEF S
<1>3. k \in S
  BY <1>1, <1>2, SetInduction
<1>4. \E x \in s : \A y \in s : x >= y
  BY <1>3 DEF S
<1> QED BY <1>4 DEF Max

LEMMA MinIn ==
  ASSUME NEW k \in Nat, NEW s \in SUBSET (1..k), s # {}
  PROVE  Min(s) \in s /\ \A y \in s : Min(s) <= y
<1> DEFINE S == {n \in Nat : \A t \in SUBSET (1..n) : t # {} => \E x \in t : \A y \in t : x <= y}
<1>1. 0 \in S
  <2>1. \A t \in SUBSET (1..0) : t = {}
    OBVIOUS
  <2> QED BY <2>1
<1>2. ASSUME NEW n \in Nat, n \in S PROVE n + 1 \in S
  <2> SUFFICES ASSUME NEW t \in SUBSET (1..(n + 1)), t # {} PROVE \E x \in t : \A y \in t : x <= y
    OBVIOUS
  <2> DEFINE u == t \ {n + 1}
  <2>1. u \in SUBSET (1..n)
    OBVIOUS
  <2>2. CASE u = {}
    <3>1. n + 1 \in t /\ \A y \in t : y = n + 1
      BY <2>2
    <3> QED BY <3>1
  <2>3. CASE u # {}
    <3>1. PICK x \in u : \A y \in u : x <= y
      BY <1>2, <2>1, <2>3
    <3>2. x \in t /\ x <= n + 1 /\ \A y \in t : y \in u \/ y = n + 1
      BY <2>1, <3>1
    <3> QED BY <3>1, <3>2
  <2> QED BY <2>2, <2>3
<1> HIDE DEF S
<1>3. k \in S
  BY <1>1, <1>2, SetInduction
<1>4. \E x \in s : \A y \in s : x <= y
  BY <1>3 DEF S
<1> QED BY <1>4 DEF Min

(* What MapThenFoldSet recurs on exists: the value at each set of          *)
(* positions follows from that at the set without its greatest one.        *)
Steps(F, X, N) == F \in [(1..N) \X X -> X]

IsFold(it, X, N, base, F) ==
  /\ it \in [SUBSET (1..N) -> X]
  /\ it[{}] = base
  /\ \A s \in SUBSET (1..N) : s # {} => it[s] = F[<<Max(s), it[s \ {Max(s)}]>>]

LEMMA FoldExists ==
  ASSUME NEW X, NEW N \in Nat, NEW base \in X, NEW F, Steps(F, X, N)
  PROVE  \E it : IsFold(it, X, N, base, F)
<1> USE DEF Steps
<1> DEFINE Next(it, s) == IF s = {} THEN base ELSE F[<<Max(s), it[s \ {Max(s)}]>>]
           Fits(k) == \E it \in [SUBSET (1..k) -> X] : \A s \in SUBSET (1..k) : it[s] = Next(it, s)
           S == {k \in Nat : k <= N => Fits(k)}
<1>1. Fits(0)
  <2>1. SUBSET (1..0) = {{}}
    OBVIOUS
  <2>2. [s \in SUBSET (1..0) |-> base] \in [SUBSET (1..0) -> X]
    OBVIOUS
  <2>3. \A s \in SUBSET (1..0) : [t \in SUBSET (1..0) |-> base][s] = base /\ s = {}
    BY <2>1
  <2> QED BY <2>2, <2>3
<1>2. ASSUME NEW k \in Nat, k + 1 <= N, Fits(k) PROVE Fits(k + 1)
  <2>1. PICK it \in [SUBSET (1..k) -> X] : \A s \in SUBSET (1..k) : it[s] = Next(it, s)
    BY <1>2
  <2> DEFINE more == [s \in SUBSET (1..(k + 1)) |->
                        IF k + 1 \in s THEN F[<<k + 1, it[s \ {k + 1}]>>] ELSE it[s]]
  <2>2. \A s \in SUBSET (1..(k + 1)) : k + 1 \notin s => s \in SUBSET (1..k)
    OBVIOUS
  <2>3. \A s \in SUBSET (1..(k + 1)) : s \ {k + 1} \in SUBSET (1..k)
    OBVIOUS
  <2>4. more \in [SUBSET (1..(k + 1)) -> X]
    <3> SUFFICES ASSUME NEW s \in SUBSET (1..(k + 1))
                 PROVE  (IF k + 1 \in s THEN F[<<k + 1, it[s \ {k + 1}]>>] ELSE it[s]) \in X
      OBVIOUS
    <3>1. CASE k + 1 \in s
      <4>1. it[s \ {k + 1}] \in X
        BY <2>3
      <4>2. k + 1 \in 1..N
        BY <1>2
      <4>3. F[<<k + 1, it[s \ {k + 1}]>>] \in X
        BY <4>1, <4>2, Zenon
      <4> QED BY <3>1, <4>3, Zenon
    <3>2. CASE k + 1 \notin s
      BY <2>2, <3>2
    <3> QED BY <3>1, <3>2
  <2>5. ASSUME NEW s \in SUBSET (1..(k + 1))
        PROVE  more[s] = Next(more, s)
    <3>1. CASE k + 1 \in s
      <4>1. Max(s) = k + 1
        BY <3>1, MaxWithTop
      <4>2. more[s \ {k + 1}] = it[s \ {k + 1}]
        BY <2>3
      <4> QED BY <3>1, <4>1, <4>2
    <3>2. CASE k + 1 \notin s
      <4>1. s \in SUBSET (1..k) /\ more[s] = it[s]
        BY <2>2, <3>2
      <4>2. CASE s = {}
        BY <4>1, <4>2, <2>1
      <4>3. CASE s # {}
        <5>1. s \ {Max(s)} \in SUBSET (1..k)
          BY <4>1, <4>3, MaxIn
        <5>2. more[s \ {Max(s)}] = it[s \ {Max(s)}]
          BY <5>1, k + 1 \notin s \ {Max(s)}, s \ {Max(s)} \in SUBSET (1..(k + 1))
        <5> QED BY <4>1, <4>3, <5>2, <2>1
      <4> QED BY <4>2, <4>3
    <3> QED BY <3>1, <3>2
  <2> QED BY <2>4, <2>5
<1> HIDE DEF Fits
<1>3. Fits(N)
  <2>1. 0 \in S /\ \A k \in Nat : k \in S => k + 1 \in S
    BY <1>1, <1>2
  <2> HIDE DEF S
  <2>2. N \in S
    BY <2>1, SetInduction
  <2> QED BY <2>2 DEF S
<1>4. PICK it \in [SUBSET (1..N) -> X] : \A s \in SUBSET (1..N) : it[s] = Next(it, s)
  BY <1>3 DEF Fits
<1>5. {} \in SUBSET (1..N)
  OBVIOUS
<1> QED BY <1>4, <1>5 DEF IsFold

(* Whatever recurs in this way has the values of the fold from the left.   *)
Recurs(h, X, N, base, F) ==
  /\ h[{}] = base
  /\ \A s \in SUBSET (1..N) :
       s # {} /\ h[s \ {Max(s)}] \in X => h[s] = F[<<Max(s), h[s \ {Max(s)}]>>]

IsLeftFold(f, h, X, N, base, F) ==
  /\ f \in [0..N -> X] /\ f[N] = h[1..N]
  /\ f[0] = base /\ \A k \in 1..N : f[k] = F[<<k, f[k - 1]>>]

LEMMA FoldValues ==
  ASSUME NEW X, NEW N \in Nat, NEW base \in X, NEW F, Steps(F, X, N),
         NEW h, Recurs(h, X, N, base, F)
  PROVE  \E f : IsLeftFold(f, h, X, N, base, F)
<1> USE DEF Recurs, Steps
<1> DEFINE f == [k \in 0..N |-> h[1..k]]
<1>1. f[0] = base
  <2>1. f[0] = h[1..0] /\ 1..0 = {}
    OBVIOUS
  <2> QED BY <2>1
<1>2. ASSUME NEW k \in 1..N, f[k - 1] \in X PROVE f[k] = F[<<k, f[k - 1]>>]
  <2>1. Max(1..k) = k
    <3>1. Max(1..((k - 1) + 1)) = (k - 1) + 1
      BY MaxOfRange, k - 1 \in Nat
    <3> QED BY <3>1
  <2>2. (1..k) \ {k} = 1..(k - 1) /\ f[k - 1] = h[1..(k - 1)] /\ f[k] = h[1..k]
    OBVIOUS
  <2>3. k \in 1..k /\ \A j \in 1..k : j \in 1..N
    OBVIOUS
  <2>4. 1..k \in SUBSET (1..N) /\ 1..k # {}
    BY <2>3
  <2> HIDE DEF f
  <2>5. h[1..k] = F[<<k, h[1..(k - 1)]>>]
    BY <1>2, <2>1, <2>2, <2>4
  <2> QED BY <2>2, <2>5
<1>3. f[N] = h[1..N] /\ DOMAIN f = 0..N
  OBVIOUS
<1>4. f = [k \in 0..N |-> f[k]]
  OBVIOUS
<1> HIDE DEF f
<1>5. \A k \in 0..N : f[k] \in X
  <2> DEFINE S == {k \in 0..N : f[k] \in X}
  <2>1. 0 \in S
    BY <1>1
  <2>2. ASSUME NEW k \in 0..N, k < N, k \in S PROVE k + 1 \in S
    <3>1. k + 1 \in 1..N /\ (k + 1) - 1 = k /\ f[k] \in X
      BY <2>2
    <3>2. f[k + 1] = F[<<k + 1, f[k]>>]
      BY <1>2, <3>1
    <3>3. <<k + 1, f[k]>> \in (1..N) \X X
      BY <3>1
    <3>4. F[<<k + 1, f[k]>>] \in X
      BY <3>3, Zenon
    <3> QED BY <3>1, <3>2, <3>4
  <2> HIDE DEF S
  <2>3. \A k \in 0..N : k \in S
    BY <2>1, <2>2, BoundedInduction
  <2> QED BY <2>3 DEF S
<1>6. f \in [0..N -> X]
  BY <1>4, <1>5
<1>7. \A k \in 1..N : k - 1 \in 0..N
  OBVIOUS
<1> QED BY <1>1, <1>2, <1>3, <1>5, <1>6, <1>7 DEF IsLeftFold

-----------------------------------------------------------------------------
(* What is left without the element at one place.                          *)
LEMMA RemovedAt ==
  ASSUME NEW S, NEW q \in Seq(S), NEW i \in DOMAIN q
  PROVE  /\ RemoveAt(q, i) \in Seq(S)
         /\ Len(RemoveAt(q, i)) = Len(q) - 1
         /\ \A j \in 1..Len(q) - 1 : RemoveAt(q, i)[j] = IF j < i THEN q[j] ELSE q[j + 1]
<1> DEFINE a == SubSeq(q, 1, i - 1)
           b == SubSeq(q, i + 1, Len(q))
<1>0. Len(q) \in Nat /\ i \in 1..Len(q) /\ \A j \in 1..Len(q) : q[j] \in S
  BY LenProperties
<1>1. /\ a \in Seq(S) /\ Len(a) = i - 1
      /\ \A j \in 1..i - 1 : a[j] = q[j]
  BY <1>0, SubSeqProperties
<1>2. /\ b \in Seq(S) /\ Len(b) = Len(q) - i
      /\ \A j \in 1..Len(q) - i : b[j] = q[i + j]
  BY <1>0, SubSeqProperties
<1> HIDE DEF a, b
<1>3. /\ a \o b \in Seq(S) /\ Len(a \o b) = Len(q) - 1
      /\ \A j \in 1..Len(q) - 1 : (a \o b)[j] = IF j <= i - 1 THEN a[j] ELSE b[j - (i - 1)]
  <2>1. /\ a \o b \in Seq(S) /\ Len(a \o b) = Len(a) + Len(b)
        /\ \A j \in 1..Len(a) + Len(b) : (a \o b)[j] = IF j <= Len(a) THEN a[j] ELSE b[j - Len(a)]
    BY <1>1, <1>2, ConcatProperties
  <2>2. Len(a) + Len(b) = Len(q) - 1
    BY <1>0, <1>1, <1>2
  <2> QED BY <1>1, <2>1, <2>2
<1>4. ASSUME NEW j \in 1..Len(q) - 1
      PROVE  (a \o b)[j] = IF j < i THEN q[j] ELSE q[j + 1]
  <2>1. CASE j < i
    BY <1>0, <1>1, <1>3, <2>1
  <2>2. CASE ~(j < i)
    <3>1. j - (i - 1) \in 1..Len(q) - i /\ i + (j - (i - 1)) = j + 1 /\ ~(j <= i - 1)
      BY <1>0, <2>2
    <3> QED BY <1>2, <1>3, <2>2, <3>1
  <2> QED BY <2>1, <2>2
<1> QED BY <1>3, <1>4 DEF RemoveAt, a, b

(* A sequence without repetitions stays one when something is removed, or *)
(* appended that it has not.                                               *)
LEMMA RemovedOnce ==
  ASSUME NEW S, NEW q \in Seq(S), NEW i \in DOMAIN q, IsInjective(q)
  PROVE  /\ ToSet(RemoveAt(q, i)) = ToSet(q) \ {q[i]}
         /\ IsInjective(RemoveAt(q, i))
<1> DEFINE r == RemoveAt(q, i)
<1>1. /\ Len(q) \in Nat /\ DOMAIN q = 1..Len(q) /\ i \in 1..Len(q)
      /\ r \in Seq(S) /\ Len(r) = Len(q) - 1
      /\ \A j \in 1..Len(q) - 1 : r[j] = IF j < i THEN q[j] ELSE q[j + 1]
  BY RemovedAt, LenProperties
<1>2. DOMAIN r = 1..Len(q) - 1
  BY <1>1, LenProperties
<1> HIDE DEF r
<1>3. \A j, k \in 1..Len(q) : q[j] = q[k] => j = k
  BY <1>1 DEF IsInjective
<1>4. ASSUME NEW j \in 1..Len(q) - 1
      PROVE  r[j] \in ToSet(q) \ {q[i]}
  <2>1. PICK k \in 1..Len(q) : k # i /\ r[j] = q[k]
    <3>1. j \in 1..Len(q) /\ j + 1 \in 1..Len(q) /\ (j < i => j # i) /\ (~(j < i) => j + 1 # i)
      BY <1>1
    <3> QED BY <1>1, <3>1
  <2> QED BY <1>1, <1>3, <2>1 DEF ToSet
<1>5. ASSUME NEW k \in 1..Len(q), k # i
      PROVE  \E j \in 1..Len(q) - 1 : r[j] = q[k]
  <2>1. CASE k < i
    <3>1. k \in 1..Len(q) - 1 /\ r[k] = q[k]
      BY <1>1, <2>1
    <3> QED BY <3>1
  <2>2. CASE k > i
    <3>1. k - 1 \in 1..Len(q) - 1 /\ r[k - 1] = q[k]
      BY <1>1, <2>2
    <3> QED BY <3>1
  <2> QED BY <1>1, <1>5, <2>1, <2>2
<1>6. ToSet(r) = ToSet(q) \ {q[i]}
  <2>1. ToSet(r) = {r[j] : j \in 1..Len(q) - 1} /\ ToSet(q) = {q[k] : k \in 1..Len(q)}
    BY <1>1, <1>2 DEF ToSet
  <2>2. ASSUME NEW x \in ToSet(q) \ {q[i]}
        PROVE  x \in ToSet(r)
    <3>1. PICK k \in 1..Len(q) : x = q[k]
      BY <2>1
    <3> QED BY <1>5, <2>1, <2>2, <3>1
  <2> QED BY <1>4, <2>1, <2>2
<1>7. \A j, k \in 1..Len(q) - 1 : r[j] = r[k] => j = k
  BY <1>1, <1>3
<1> QED BY <1>2, <1>6, <1>7 DEF IsInjective, r

LEMMA AppendedOnce ==
  ASSUME NEW S, NEW q \in Seq(S), NEW e \in S, e \notin ToSet(q), IsInjective(q)
  PROVE  /\ Append(q, e) \in Seq(S)
         /\ ToSet(Append(q, e)) = ToSet(q) \cup {e}
         /\ IsInjective(Append(q, e))
<1>1. /\ Append(q, e) \in Seq(S) /\ Len(q) \in Nat /\ DOMAIN q = 1..Len(q)
      /\ DOMAIN Append(q, e) = 1..Len(q) + 1
      /\ \A j \in 1..Len(q) : Append(q, e)[j] = q[j]
      /\ Append(q, e)[Len(q) + 1] = e
  BY AppendProperties, LenProperties
<1>2. \A j \in 1..Len(q) : q[j] # e
  BY <1>1 DEF ToSet
<1>3. ToSet(Append(q, e)) = ToSet(q) \cup {e}
  BY <1>1 DEF ToSet
<1>4. IsInjective(Append(q, e))
  BY <1>1, <1>2 DEF IsInjective
<1> QED BY <1>1, <1>3, <1>4

(* Such a sequence is as long as the set of its elements is large. *)
LEMMA InjectiveCount ==
  ASSUME NEW S, NEW q \in Seq(S), IsInjective(q)
  PROVE  Len(q) = Cardinality(ToSet(q))
<1>1. Len(q) \in Nat /\ DOMAIN q = 1..Len(q) /\ q \in [1..Len(q) -> S]
  BY LenProperties
<1>2. q \in [1..Len(q) -> ToSet(q)]
  BY <1>1 DEF ToSet
<1>3. \A t \in ToSet(q) : \E i \in 1..Len(q) : q[i] = t
  BY <1>1 DEF ToSet
<1>4. \A a, b \in 1..Len(q) : q[a] = q[b] => a = b
  BY <1>1 DEF IsInjective
<1>5. q \in Bijection(1..Len(q), ToSet(q))
  BY <1>1, <1>2, <1>3, <1>4 DEF Bijection, Injection, Surjection, IsInjective
<1>6. ExistsBijection(1..Len(q), ToSet(q))
  BY <1>5 DEF ExistsBijection
<1> QED BY <1>1, <1>6, FS_CountingElements

-----------------------------------------------------------------------------
(* Two sequences one after the other, with their lengths by name: u holds  *)
(* the first a elements of s and then those of t, n in all.                *)
Joined(u, X, s, a, t, n) ==
  u \in Seq(X) /\ Len(u) = n /\ \A i \in 1..n : u[i] = IF i <= a THEN s[i] ELSE t[i - a]

LEMMA ConcatIs ==
  ASSUME NEW X, NEW s \in Seq(X), NEW t \in Seq(X), NEW a \in Nat, NEW b \in Nat, NEW n \in Nat,
         a = Len(s), b = Len(t), n = a + b
  PROVE  Joined(s \o t, X, s, a, t, n)
<1>1. /\ s \o t \in Seq(X) /\ Len(s \o t) = n
      /\ \A i \in 1..n : (s \o t)[i] = IF i <= a THEN s[i] ELSE t[i - a]
  BY ConcatProperties
<1> QED BY <1>1 DEF Joined
=============================================================================

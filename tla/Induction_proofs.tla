-------------------------- MODULE Induction_proofs --------------------------
(***************************************************************************)
(* Induction over the naturals as statements about sets and functions, and *)
(* the existence of functions that are defined by recursion.  The lemmas   *)
(* of the library have operators as parameters, which no prover here       *)
(* instantiates; these follow from the well-foundedness of the naturals.   *)
(***************************************************************************)
EXTENDS Integers, Sequences, WellFoundedInduction, TLAPS

(* A set of naturals has a smallest member. *)
LEMMA SmallestMember ==
  ASSUME NEW S, S \subseteq Nat, S # {}
  PROVE  \E m \in S : \A k \in S : m <= k
<1>1. \E R : IsWellFoundedOn(R, Nat) /\ (\A k, m \in Nat : k < m => <<k, m>> \in R)
  <2> DEFINE R == OpToRel(<, Nat)
  <2>1. IsWellFoundedOn(R, Nat)
    BY NatLessThanWellFounded
  <2>2. \A k, m \in Nat : k < m => <<k, m>> \in R
    BY DEF OpToRel
  <2> HIDE DEF R
  <2> QED BY <2>1, <2>2
<1>2. PICK R : IsWellFoundedOn(R, Nat) /\ (\A k, m \in Nat : k < m => <<k, m>> \in R)
  BY <1>1
<1>3. PICK m \in S : \A k \in S : ~(<<k, m>> \in R)
  <2>1. IsWellFoundedOn(R, Nat)
    BY <1>2
  <2> QED BY <2>1, WFMin, Zenon
<1>4. \A k \in S : ~(k < m)
  BY <1>2, <1>3
<1> QED BY <1>4

(* A set of naturals that holds 0, and each successor of its members. *)
LEMMA SetInduction ==
  ASSUME NEW S, 0 \in S, \A m \in S : m \in Nat => m + 1 \in S
  PROVE  \A m \in Nat : m \in S
<1> DEFINE Missing == Nat \ S
<1>1. SUFFICES ASSUME Missing # {} PROVE FALSE
  OBVIOUS
<1>2. Missing \subseteq Nat
  OBVIOUS
<1>3. \E m \in Missing : \A k \in Missing : m <= k
  <2> HIDE DEF Missing
  <2> QED BY <1>1, <1>2, SmallestMember, Zenon
<1>4. PICK m \in Missing : \A k \in Missing : m <= k
  BY <1>3
<1>5. m \in Nat /\ m # 0
  BY <1>4
<1>6. m - 1 \in Nat /\ ~(m <= m - 1)
  BY <1>5
<1>7. m - 1 \in S
  BY <1>4, <1>6
<1>8. (m - 1) + 1 = m
  BY <1>5
<1> QED BY <1>4, <1>6, <1>7, <1>8

(* A bounded set of naturals has a largest member. *)
LEMMA LargestMember ==
  ASSUME NEW S, S \subseteq Nat, S # {}, NEW bound \in Nat, \A k \in S : k <= bound
  PROVE  \E m \in S : \A k \in S : k <= m
<1> DEFINE Below == {bound - k : k \in S}
<1>1. Below \subseteq Nat /\ Below # {}
  <2>1. \A k \in S : bound - k \in Nat
    OBVIOUS
  <2>2. PICK k \in S : TRUE
    OBVIOUS
  <2>3. bound - k \in Below
    BY <2>2
  <2> QED BY <2>1, <2>3
<1>2. \E d \in Below : \A e \in Below : d <= e
  <2> HIDE DEF Below
  <2> QED BY <1>1, SmallestMember, Zenon
<1>3. PICK d \in Below : \A e \in Below : d <= e
  BY <1>2
<1>4. PICK m \in S : d = bound - m
  BY <1>3
<1>5. \A k \in S : bound - m <= bound - k
  BY <1>3, <1>4
<1> QED BY <1>4, <1>5

(* A statement about 1..n, or about 0..n, from its first to its last case. *)
LEMMA UpTo ==
  ASSUME NEW n \in Nat, NEW S, 0 \in S, \A m \in 1..n : m - 1 \in S => m \in S
  PROVE  \A m \in 0..n : m \in S
<1> DEFINE T == {m \in Nat : m <= n => m \in S}
<1>1. 0 \in T
  OBVIOUS
<1>2. ASSUME NEW m \in T, m \in Nat PROVE m + 1 \in T
  <2>1. CASE m + 1 <= n
    <3>1. m \in S /\ m + 1 \in 1..n /\ (m + 1) - 1 = m
      BY <1>2, <2>1
    <3> QED BY <1>2, <3>1
  <2>2. CASE ~(m + 1 <= n)
    BY <1>2, <2>2
  <2> QED BY <2>1, <2>2
<1> HIDE DEF T
<1>3. \A m \in Nat : m \in T
  BY <1>1, <1>2, SetInduction
<1> QED BY <1>3 DEF T

(* A statement about 1..(n + 1), from its last to its first case. *)
LEMMA DownFrom ==
  ASSUME NEW n \in Nat, NEW S, n + 1 \in S,
         \A i \in 1..n : (\A j \in (i + 1)..(n + 1) : j \in S) => i \in S
  PROVE  \A i \in 1..(n + 1) : i \in S
<1> DEFINE Missing == {i \in 1..(n + 1) : i \notin S}
<1>1. SUFFICES ASSUME Missing # {} PROVE FALSE
  OBVIOUS
<1>2. Missing \subseteq Nat /\ \A i \in Missing : i <= n + 1
  OBVIOUS
<1>3. \E i \in Missing : \A j \in Missing : j <= i
  <2> HIDE DEF Missing
  <2>1. n + 1 \in Nat
    OBVIOUS
  <2> QED BY <1>1, <1>2, <2>1, LargestMember
<1>4. PICK i \in Missing : \A j \in Missing : j <= i
  BY <1>3
<1>5. i \in 1..n
  BY <1>4
<1>6. ASSUME NEW j \in (i + 1)..(n + 1) PROVE j \in S
  <2>1. j \in 1..(n + 1) /\ ~(j <= i)
    BY <1>5
  <2> QED BY <1>4, <2>1
<1> QED BY <1>4, <1>5, <1>6

-----------------------------------------------------------------------------
(* Functions defined by recursion exist.                                   *)

(* Each value depends on the one before. *)
Forward(f, n, S, base, step) ==
  f \in [0..n -> S] /\ f[0] = base /\ \A i \in 1..n : f[i] = step[i][f[i - 1]]

(* Each value depends on a later one. *)
Backward(f, n, S, base, step, next) ==
  f \in [1..(n + 1) -> S] /\ f[n + 1] = base /\ \A i \in 1..n : f[i] = step[i][f[next[i]]]

LEMMA ForwardRecursion ==
  ASSUME NEW n \in Nat, NEW S, NEW base \in S, NEW step \in [1..n -> [S -> S]]
  PROVE  \E f : Forward(f, n, S, base, step)
<1> DEFINE Good(f, m) == f[0] = base /\ \A i \in 1..m : f[i] = step[i][f[i - 1]]
           T == {m \in 0..n : \E f \in [0..m -> S] : Good(f, m)}
<1>1. 0 \in T
  <2> DEFINE f == [i \in 0..0 |-> base]
  <2>1. f \in [0..0 -> S] /\ f[0] = base
    OBVIOUS
  <2> HIDE DEF f
  <2>2. Good(f, 0)
    BY <2>1
  <2> HIDE DEF Good
  <2>3. \E h \in [0..0 -> S] : Good(h, 0)
    BY <2>1, <2>2
  <2> QED BY <2>3
<1>2. ASSUME NEW m \in 1..n, m - 1 \in T PROVE m \in T
  <2>1. PICK f \in [0..(m - 1) -> S] : Good(f, m - 1)
    BY <1>2
  <2> DEFINE last == step[m][f[m - 1]]
             g == [i \in 0..m |-> IF i = m THEN last ELSE f[i]]
  <2>2. m - 1 \in 0..(m - 1) /\ m \in 0..n /\ 0 \in 0..(m - 1)
    OBVIOUS
  <2>3. last \in S
    BY <2>2
  <2> HIDE DEF last
  <2>4. g \in [0..m -> S]
    BY <2>3
  <2>5. \A i \in 0..(m - 1) : g[i] = f[i]
    OBVIOUS
  <2>6. g[m] = last
    OBVIOUS
  <2> HIDE DEF g
  <2>7. g[0] = base
    BY <2>1, <2>2, <2>5
  <2>8. ASSUME NEW i \in 1..m PROVE g[i] = step[i][g[i - 1]]
    <3>1. CASE i = m
      BY <2>2, <2>5, <2>6, <3>1 DEF last
    <3>2. CASE i # m
      <4>1. i \in 1..(m - 1) /\ i \in 0..(m - 1) /\ i - 1 \in 0..(m - 1)
        BY <3>2
      <4> QED BY <2>1, <2>5, <4>1
    <3> QED BY <3>1, <3>2
  <2> QED BY <2>2, <2>4, <2>7, <2>8
<1> HIDE DEF T
<1>3. \A m \in 0..n : m \in T
  BY <1>1, <1>2, UpTo
<1>4. n \in T
  BY <1>3
<1>5. PICK f \in [0..n -> S] : Good(f, n)
  BY <1>4 DEF T
<1>6. Forward(f, n, S, base, step)
  BY <1>5 DEF Forward
<1> HIDE DEF T
<1> QED BY <1>6, Zenon

LEMMA BackwardRecursion ==
  ASSUME NEW n \in Nat, NEW S, NEW base \in S, NEW step \in [1..n -> [S -> S]],
         NEW next, \A i \in 1..n : next[i] \in (i + 1)..(n + 1)
  PROVE  \E f : Backward(f, n, S, base, step, next)
<1> DEFINE From(m) == (n + 1 - m)..(n + 1)
           Good(f, m) == /\ f[n + 1] = base
                         /\ \A i \in (n + 1 - m)..n : f[i] = step[i][f[next[i]]]
           T == {m \in 0..n : \E f \in [From(m) -> S] : Good(f, m)}
<1>1. 0 \in T
  <2> DEFINE f == [i \in From(0) |-> base]
  <2>1. f \in [From(0) -> S] /\ f[n + 1] = base
    OBVIOUS
  <2> HIDE DEF f
  <2>2. Good(f, 0)
    BY <2>1
  <2> HIDE DEF Good
  <2>3. \E h \in [From(0) -> S] : Good(h, 0)
    BY <2>1, <2>2
  <2> QED BY <2>3
<1>2. ASSUME NEW m \in 1..n, m - 1 \in T PROVE m \in T
  <2>1. PICK f \in [From(m - 1) -> S] : Good(f, m - 1)
    BY <1>2
  <2> DEFINE k == n + 1 - m
             first == step[k][f[next[k]]]
             g == [i \in From(m) |-> IF i = k THEN first ELSE f[i]]
  <2>2. /\ k \in 1..n /\ k \in Nat /\ m \in 0..n
        /\ From(m) = k..(n + 1) /\ From(m - 1) = (k + 1)..(n + 1)
    OBVIOUS
  <2>3. first \in S
    <3>1. next[k] \in From(m - 1)
      BY <2>2
    <3> QED BY <2>2, <3>1
  <2> HIDE DEF first
  <2>4. g \in [From(m) -> S]
    BY <2>2, <2>3
  <2>5. \A i \in (k + 1)..(n + 1) : g[i] = f[i]
    BY <2>2
  <2>6. g[k] = first
    BY <2>2
  <2> HIDE DEF g
  <2>7. g[n + 1] = base
    BY <2>1, <2>2, <2>5
  <2>8. ASSUME NEW i \in k..n PROVE g[i] = step[i][g[next[i]]]
    <3>1. next[i] \in (k + 1)..(n + 1) /\ i \in 1..n
      BY <2>2
    <3>2. CASE i = k
      BY <2>5, <2>6, <3>1, <3>2 DEF first
    <3>3. CASE i # k
      <4>1. i \in (k + 1)..(n + 1) /\ i \in (n + 1 - (m - 1))..n
        BY <2>2, <3>3
      <4> QED BY <2>1, <2>5, <3>1, <4>1
    <3> QED BY <3>2, <3>3
  <2> QED BY <2>2, <2>4, <2>7, <2>8
<1> HIDE DEF T
<1>3. \A m \in 0..n : m \in T
  BY <1>1, <1>2, UpTo
<1>4. n \in T
  BY <1>3
<1>5. PICK f \in [From(n) -> S] : Good(f, n)
  BY <1>4 DEF T
<1>6. From(n) = 1..(n + 1) /\ n + 1 - n = 1
  OBVIOUS
<1>7. Backward(f, n, S, base, step, next)
  BY <1>5, <1>6 DEF Backward
<1> QED BY <1>7, Zenon
=============================================================================

---------------------------- MODULE NaturalOrder ----------------------------
(***************************************************************************)
(* Induction over bounded natural numbers in the form of facts about sets, *)
(* which the proofs about recursive functions and greatest elements cite:  *)
(* they follow from the library's theorem that < is well founded on Nat.   *)
(***************************************************************************)
EXTENDS Integers, WellFoundedInduction, TLAPS

(* A set of numbers that is not empty has a least element.                 *)
LEMMA LeastNumber ==
  ASSUME NEW T, \A x \in T : x \in Nat, T # {}
  PROVE  \E x \in T : \A y \in T : x <= y
<1> DEFINE R == OpToRel(<, Nat)
<1>1. IsWellFoundedOn(R, Nat)
  BY NatLessThanWellFounded
<1>2. \A x, y \in Nat : y < x => <<y, x>> \in R
  BY DEF OpToRel
<1> HIDE DEF R
<1>3. T \subseteq Nat
  OBVIOUS
<1>4. PICK x \in T : \A y \in T : ~(<<y, x>> \in R)
  BY <1>1, <1>3, WFMin
<1>5. ASSUME NEW y \in T PROVE x <= y
  <2>1. x \in Nat /\ y \in Nat /\ ~(y < x)
    BY <1>2, <1>4
  <2> QED
    BY <2>1
<1> QED
  BY <1>5

(* A set of numbers up to n that is not empty has a greatest element: the    *)
(* least upper bound is one of its elements.                                 *)
LEMMA GreatestNumber ==
  ASSUME NEW n \in Nat, NEW T, \A x \in T : x \in 0..n, T # {}
  PROVE  \E x \in T : \A y \in T : y <= x
<1> DEFINE U == {k \in Nat : \A y \in T : y <= k}
<1>1. U # {} /\ \A k \in U : k \in Nat
  <2>1. n \in U
    OBVIOUS
  <2> QED BY <2>1
<1>2. PICK k \in U : \A j \in U : k <= j
  <2> HIDE DEF U
  <2> QED BY <1>1, LeastNumber
<1>3. k \in Nat /\ \A y \in T : y \in Nat /\ y <= k
  BY <1>2
<1>4. CASE k \in T
  BY <1>3, <1>4
<1>5. CASE k \notin T
  <2>1. PICK y \in T : TRUE
    OBVIOUS
  <2>2. k # 0
    BY <1>3, <1>5, <2>1
  <2>3. k - 1 \in Nat /\ \A z \in T : z <= k - 1
    BY <1>3, <1>5, <2>2
  <2>4. k - 1 \in U
    BY <2>3
  <2> HIDE DEF U
  <2> QED BY <1>2, <1>3, <2>4
<1> QED BY <1>4, <1>5

(* Induction up to m: the least number not in S has no place.              *)
LEMMA UpTo ==
  ASSUME NEW m \in Nat, NEW S, 0 \in S, \A n \in 1..m : n - 1 \in S => n \in S
  PROVE  \A n \in 0..m : n \in S
<1> DEFINE T == {n \in 0..m : n \notin S}
<1>1. CASE T = {}
  BY <1>1
<1>2. CASE T # {}
  <2>1. PICK x \in T : \A y \in T : x <= y
    <3>1. \A x \in T : x \in Nat
      OBVIOUS
    <3> HIDE DEF T
    <3> QED
      BY <1>2, <3>1, LeastNumber
  <2>2. x \in 1..m /\ x \notin S /\ x - 1 \in 0..m
    OBVIOUS
  <2>3. x - 1 \in T
    BY <2>2
  <2> QED
    BY <2>1, <2>2, <2>3
<1> QED
  BY <1>1, <1>2

\* f starts at base and takes the steps 1 to m.
Unfolds(f, m, D, base, step) ==
  /\ f \in [0..m -> D] /\ f[0] = base
  /\ \A n \in 1..m : f[n] = step[n][f[n - 1]]

(* A function is defined by its first value and by its steps: there is one   *)
(* that takes them, by induction over their number.                          *)
LEMMA Recursion ==
  ASSUME NEW m \in Nat, NEW D, NEW base \in D, NEW step \in [1..m -> [D -> D]]
  PROVE  \E f : Unfolds(f, m, D, base, step)
<1> DEFINE S == {k \in 0..m : \E f : Unfolds(f, k, D, base, step)}
<1>1. 0 \in S
  <2> DEFINE g == [i \in 0..0 |-> base]
  <2>1. Unfolds(g, 0, D, base, step)
    BY DEF Unfolds
  <2>2. 0 \in 0..m
    OBVIOUS
  <2> QED
    BY <2>1, <2>2
<1>2. ASSUME NEW k \in 1..m, k - 1 \in S PROVE k \in S
  <2>1. PICK f : Unfolds(f, k - 1, D, base, step)
    BY <1>2
  <2>2. f \in [0..(k - 1) -> D] /\ f[0] = base /\ \A n \in 1..(k - 1) : f[n] = step[n][f[n - 1]]
    BY <2>1 DEF Unfolds
  <2> DEFINE g == [i \in 0..k |-> IF i < k THEN f[i] ELSE step[k][f[k - 1]]]
  <2>3. g \in [0..k -> D]
    <3>1. k - 1 \in 0..(k - 1) /\ f[k - 1] \in D
      BY <2>2
    <3>2. step[k][f[k - 1]] \in D
      BY <3>1
    <3> QED
      BY <2>2, <3>2
  <2>4. g[0] = base
    BY <2>2
  <2>5. ASSUME NEW n \in 1..k PROVE g[n] = step[n][g[n - 1]]
    <3>1. g[n - 1] = f[n - 1]
      BY <2>2
    <3>2. CASE n < k
      BY <2>2, <3>1, <3>2
    <3>3. CASE n = k
      BY <3>1, <3>3
    <3> QED
      BY <3>2, <3>3
  <2> HIDE DEF g
  <2>6. Unfolds(g, k, D, base, step)
    BY <2>3, <2>4, <2>5 DEF Unfolds
  <2>7. k \in 0..m
    OBVIOUS
  <2> QED
    BY <2>6, <2>7
<1> HIDE DEF S
<1>3. m \in S
  <2>1. \A k \in 1..m : k - 1 \in S => k \in S
    BY <1>2
  <2>2. \A n \in 0..m : n \in S
    BY <1>1, <2>1, UpTo
  <2> QED
    BY <2>2
<1> QED
  BY <1>3 DEF S
=============================================================================

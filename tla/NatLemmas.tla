-------------------------------- MODULE NatLemmas --------------------------------
(***************************************************************************)
(* Facts about natural numbers that the proofs of several components cite:   *)
(* block and page numbers are quotients, indices are remainders, first fit   *)
(* takes the least element of a set.                                         *)
(***************************************************************************)
EXTENDS Integers, FiniteSetTheorems, WellFoundedInduction, TLAPS

(* Quotients are natural: block numbers and word counts are.                *)
LEMMA DivNat == \A a \in Nat, d \in Nat \ {0} : a \div d \in Nat
  BY SMT

(* Remainders lie below the divisor: truncated addresses, indices, ticks.   *)
LEMMA ModNat == \A a \in Nat, d \in Nat \ {0} : a % d \in 0 .. d - 1
  BY SMT

(* Between the divisor and twice the divisor, it is taken off once.         *)
LEMMA ModOnce == \A a \in Nat, d \in Nat \ {0} : a \in d .. 2 * d - 1 => a % d = a - d
  BY SMT

(* More memory gives no fewer blocks.                                       *)
LEMMA DivMonotone ==
  ASSUME NEW a \in Nat, NEW b \in Nat, NEW d \in Nat \ {0}, a <= b
  PROVE  a \div d <= b \div d
  BY SMT

(* Whole words never cover more blocks than there are (pmm.c:14).           *)
LEMMA DivMulBelow == \A a \in Nat, d \in Nat \ {0} : (a \div d) * d <= a
  BY SMT

(* A number below the divisor is its own remainder.                         *)
LEMMA DivSmall == \A a \in Nat, d \in Nat \ {0} : a < d => a \div d = 0 /\ a % d = a
  BY SMT

(* A quotient and its remainder determine the number.                       *)
LEMMA DivModSplit ==
  ASSUME NEW a \in Nat, NEW d \in Nat \ {0}
  PROVE  a = ((a \div d) * d) + (a % d)
  BY SMT

(* A number below n whole groups of d is in one of the n groups.            *)
LEMMA DivBelow ==
  ASSUME NEW a \in Nat, NEW n \in Nat, NEW d \in Nat \ {0}, a < n * d
  PROVE  a \div d < n
  BY SMT

(* Different blocks have different addresses.                               *)
LEMMA MulInjective ==
  ASSUME NEW a \in Nat, NEW b \in Nat, NEW d \in Nat \ {0}, a * d = b * d
  PROVE  a = b
  BY SMT

(* A multiple is the quotient times the divisor.                            *)
LEMMA Multiple ==
  ASSUME NEW a \in Nat, NEW d \in Nat \ {0}, a % d = 0
  PROVE  a = (a \div d) * d
<1>1. a = ((a \div d) * d) + (a % d)  BY DivModSplit
<1>2. (a \div d) * d \in Nat  BY DivNat
<1> QED  BY <1>1, <1>2

(* A product is a multiple of its factor.                                   *)
LEMMA ProductDiv == \A k \in Nat, d \in Nat \ {0} : (k * d) \div d = k /\ (k * d) % d = 0
  BY SMT

(* Every non-empty set of naturals has a least element: the strict order on *)
(* the intervals 0..x is well-founded because the intervals are finite.     *)
LEMMA LeastElement ==
  ASSUME NEW S \in SUBSET Nat, S # {}
  PROVE  \E x \in S : \A y \in S : x <= y
<1> DEFINE Down == {0 .. x : x \in S}
           R == StrictSubsetOrdering(Nat)
<1>1. Down \subseteq FiniteSubsetsOf(Nat)
  <2> SUFFICES ASSUME NEW x \in S PROVE 0 .. x \in FiniteSubsetsOf(Nat)
    OBVIOUS
  <2>1. IsFiniteSet(0 .. x)  BY FS_Interval
  <2> QED  BY <2>1 DEF FiniteSubsetsOf
<1>2. Down # {}  OBVIOUS
<1>3. IsWellFoundedOn(R, FiniteSubsetsOf(Nat))
  BY FS_StrictSubsetOrderingWellFounded
<1>4. PICK d \in Down : \A e \in Down : <<e, d>> \notin R
  <2> HIDE DEF Down, R
  <2> QED  BY <1>1, <1>2, <1>3, WFMin
<1>5. PICK x \in S : d = 0 .. x  OBVIOUS
<1>6. ASSUME NEW y \in S PROVE x <= y
  <2> SUFFICES ASSUME y < x PROVE FALSE
    OBVIOUS
  <2>1. x \in 0 .. x /\ x \notin 0 .. y  OBVIOUS
  <2>2. <<0 .. y, 0 .. x>> \in R  BY <2>1 DEF StrictSubsetOrdering
  <2> QED  BY <1>4, <1>5, <2>2
<1> QED  BY <1>6

(* What is divided determines quotient and remainder.                        *)
LEMMA Quotient ==
  ASSUME NEW q \in Nat, NEW r \in Nat, NEW d \in Nat \ {0}, r < d
  PROVE  (q * d + r) \div d = q /\ (q * d + r) % d = r
  BY SMT

(* Dividing twice: a digit is taken off, and then the next.                  *)
LEMMA DivDiv ==
  ASSUME NEW a \in Nat, NEW d \in Nat \ {0}, NEW e \in Nat \ {0}
  PROVE  a \div (d * e) = (a \div d) \div e
  BY SMT

(* A digit appended to a number that is kept below d.                       *)
LEMMA ModStep ==
  ASSUME NEW x \in Nat, NEW b \in Nat, NEW c \in Nat, NEW d \in Nat \ {0}
  PROVE  ((x % d) * b + c) % d = (x * b + c) % d
<1> DEFINE q == x \div d
           r == x % d
           y == r * b + c
           t == y \div d
           z == y % d
<1>1. q \in Nat /\ r \in Nat /\ x = q * d + r  BY DivNat, ModNat, DivModSplit
<1> HIDE DEF q, r
<1>2. y \in Nat  BY <1>1
<1> HIDE DEF y
<1>3. t \in Nat /\ z \in Nat /\ z < d /\ y = t * d + z
  BY <1>2, DivNat, ModNat, DivModSplit
<1> HIDE DEF t, z
<1>4. q * b + t \in Nat  BY <1>1, <1>3
<1>5. x * b + c = (q * b + t) * d + z
  <2>1. x * b + c = (q * b) * d + y  BY <1>1 DEF y
  <2> QED  BY <1>1, <1>3, <2>1
<1>6. (x * b + c) % d = z
  <2> DEFINE w == q * b + t
  <2>1. w \in Nat  BY <1>4
  <2> HIDE DEF w
  <2>2. (w * d + z) % d = z  BY <1>3, <2>1, Quotient
  <2> QED  BY <1>5, <2>2, Zenon DEF w
<1>7. y % d = z  BY DEF z
<1> QED  BY <1>6, <1>7 DEF y, r

(* Upwards from b, one after the other.                                     *)
LEMMA Climb ==
  ASSUME NEW Good, NEW b \in Nat, NEW n \in Nat, b \in Good,
         \A k \in b + 1 .. n : k - 1 \in Good => k \in Good
  PROVE  \A k \in b .. n : k \in Good
<1> DEFINE Bad == {k \in b .. n : k \notin Good}
<1> SUFFICES ASSUME Bad # {} PROVE FALSE
  OBVIOUS
<1>1. Bad \in SUBSET Nat  OBVIOUS
<1>2. PICK m \in Bad : \A y \in Bad : m <= y  BY <1>1, LeastElement
<1>3. m \in b + 1 .. n /\ m - 1 \in b .. n /\ ~(m <= m - 1)  BY <1>2
<1>4. m - 1 \notin Bad  BY <1>2, <1>3
<1> QED  BY <1>2, <1>3, <1>4

(* Values computed one from the other exist: a recursive function on b..n    *)
(* whose every value is made from its position and the value before it is    *)
(* what its definition says, and never leaves a set that a step keeps.       *)
Step(S, b, n, s0, step) == /\ b \in Nat /\ n \in Nat /\ b <= n /\ s0 \in S
                           /\ step \in [(b + 1 .. n) \X S -> S]
Stepped(S, b, n, s0, step, g) == /\ g \in [b .. n -> S] /\ g[b] = s0
                                 /\ \A k \in b + 1 .. n : g[k] = step[<<k, g[k - 1]>>]

LEMMA Stepping ==
  ASSUME NEW S, NEW b, NEW n, NEW s0, NEW step, Step(S, b, n, s0, step)
  PROVE  \E g : Stepped(S, b, n, s0, step, g)
<1> USE DEF Step
<1> DEFINE Ok(g, m) == /\ g \in [b .. m -> S] /\ g[b] = s0
                       /\ \A k \in b + 1 .. m : g[k] = step[<<k, g[k - 1]>>]
           Bad == {m \in b .. n : ~\E g : Ok(g, m)}
<1>1. Bad = {}
  <2> SUFFICES ASSUME Bad # {} PROVE FALSE
    OBVIOUS
  <2>1. Bad \in SUBSET Nat  OBVIOUS
  <2>2. PICK m \in Bad : \A y \in Bad : m <= y  BY <2>1, LeastElement
  <2>3. m # b
    <3>1. Ok([k \in b .. b |-> s0], b)  OBVIOUS
    <3> HIDE DEF Ok
    <3> QED  BY <2>2, <3>1
  <2>4. m \in b + 1 .. n /\ m - 1 \in b .. n /\ ~(m <= m - 1)  BY <2>2, <2>3
  <2>5. m - 1 \notin Bad  BY <2>2, <2>4
  <2>6. PICK g : Ok(g, m - 1)  BY <2>4, <2>5
  <2> DEFINE next == step[<<m, g[m - 1]>>]
             h == [k \in b .. m |-> IF k = m THEN next ELSE g[k]]
  <2>7. next \in S
    <3>1. g[m - 1] \in S  BY <2>4, <2>6
    <3> QED  BY <2>4, <3>1
  <2>8. h \in [b .. m -> S]
    <3> SUFFICES ASSUME NEW k \in b .. m PROVE (IF k = m THEN next ELSE g[k]) \in S
      OBVIOUS
    <3>1. k # m => k \in b .. m - 1  BY <2>4
    <3> HIDE DEF next
    <3> QED  BY <2>6, <2>7, <3>1
  <2>9. h[b] = s0
    <3>1. b \in b .. m /\ b # m  BY <2>4
    <3> QED  BY <2>6, <3>1
  <2>10. ASSUME NEW k \in b + 1 .. m PROVE h[k] = step[<<k, h[k - 1]>>]
    <3>1. k \in b .. m /\ k - 1 \in b .. m /\ k - 1 # m /\ h[k - 1] = g[k - 1]
      BY <2>4
    <3>2. CASE k = m  BY <3>1, <3>2
    <3>3. CASE k # m
      <4>1. k \in b + 1 .. m - 1  BY <2>4, <3>3
      <4>2. h[k] = g[k]  BY <3>1, <3>3
      <4> HIDE DEF h, next
      <4> QED  BY <2>6, <3>1, <4>1, <4>2
    <3> QED  BY <3>2, <3>3
  <2>11. Ok(h, m)  BY <2>8, <2>9, <2>10
  <2> HIDE DEF h, Ok
  <2> QED  BY <2>2, <2>11
<1>2. n \in b .. n  OBVIOUS
<1> HIDE DEF Ok
<1>3. \E g : Ok(g, n)  BY <1>1, <1>2
<1> QED  BY <1>3 DEF Ok, Stepped

(* A sequence of values that starts in a set and leaves it at no position    *)
(* stays in the set.                                                        *)
Stays(S, b, n, f) == /\ b \in Nat /\ n \in Nat /\ f[b] \in S
                     /\ \A k \in b + 1 .. n : f[k - 1] \in S => f[k] \in S

LEMMA Staying ==
  ASSUME NEW S, NEW b, NEW n, NEW f, Stays(S, b, n, f)
  PROVE  \A k \in b .. n : f[k] \in S
<1> USE DEF Stays
<1> DEFINE Bad == {k \in b .. n : f[k] \notin S}
<1> SUFFICES ASSUME Bad # {} PROVE FALSE
  OBVIOUS
<1>1. Bad \in SUBSET Nat  OBVIOUS
<1>2. PICK m \in Bad : \A y \in Bad : m <= y  BY <1>1, LeastElement
<1>3. m \in b + 1 .. n /\ m - 1 \in b .. n /\ ~(m <= m - 1)  BY <1>2
<1>4. m - 1 \notin Bad  BY <1>2, <1>3
<1> QED  BY <1>2, <1>3, <1>4

(* The same for numbers counted up from 0 at position 1.                    *)
LEMMA StepByStep ==
  ASSUME NEW n \in Nat, NEW step \in [Nat \X Nat -> Nat]
  PROVE  \E g \in [1 .. n -> Nat] :
           \A k \in 1 .. n : g[k] = IF k = 1 THEN 0 ELSE step[<<k - 1, g[k - 1]>>]
<1>1. CASE n = 0
  <2> DEFINE g == [k \in 1 .. n |-> 0]
  <2>1. 1 .. n = {}  BY <1>1
  <2>2. g \in [1 .. n -> Nat]  OBVIOUS
  <2> HIDE DEF g
  <2> QED  BY <2>1, <2>2
<1>2. CASE n # 0
  <2> DEFINE onward == [x \in (1 + 1 .. n) \X Nat |-> step[<<x[1] - 1, x[2]>>]]
  <2>1. onward \in [(1 + 1 .. n) \X Nat -> Nat]
    <3> SUFFICES ASSUME NEW x \in (1 + 1 .. n) \X Nat
                 PROVE  step[<<x[1] - 1, x[2]>>] \in Nat
      OBVIOUS
    <3>1. x[1] \in 1 + 1 .. n /\ x[2] \in Nat  OBVIOUS
    <3>2. x[1] - 1 \in Nat  BY <3>1
    <3> QED  BY <3>1, <3>2
  <2>2. 1 \in Nat /\ 0 \in Nat /\ 1 <= n  BY <1>2
  <2>3. PICK g \in [1 .. n -> Nat] :
          g[1] = 0 /\ \A k \in 1 + 1 .. n : g[k] = onward[<<k, g[k - 1]>>]
    <3>1. Step(Nat, 1, n, 0, onward)
      <4> HIDE DEF onward
      <4> QED  BY <2>1, <2>2 DEF Step
    <3> HIDE DEF onward
    <3>2. PICK g : Stepped(Nat, 1, n, 0, onward, g)  BY <3>1, Stepping
    <3> QED  BY <3>2 DEF Stepped
  <2>4. ASSUME NEW k \in 1 .. n, k # 1 PROVE g[k] = step[<<k - 1, g[k - 1]>>]
    <3>1. k \in 1 + 1 .. n /\ k - 1 \in 1 .. n  BY <2>4
    <3>2. onward[<<k, g[k - 1]>>] = step[<<k - 1, g[k - 1]>>]  BY <3>1
    <3> HIDE DEF onward
    <3> QED  BY <2>3, <3>1, <3>2
  <2> QED  BY <2>3, <2>4
<1> QED  BY <1>1, <1>2
================================================================================

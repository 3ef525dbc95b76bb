---------------------------- MODULE NumberLemmas ----------------------------
(***************************************************************************)
(* Facts about integers that the proofs of several modules need: products, *)
(* division and remainder by a positive number (page tables, sequence      *)
(* numbers, ring indices), and least elements.                             *)
(***************************************************************************)
EXTENDS Integers, WellFoundedInduction, TLAPS

(* A product is at least its factor. *)
LEMMA MulLemma ==
  ASSUME NEW b \in Nat, NEW d \in Int
  PROVE  /\ b * d \in Int
         /\ d >= 1 => b * d >= b
         /\ d <= -1 => b * d <= -b
         /\ d >= 0 => b * d >= 0
  BY SMT

(* Products keep their order, both ways. *)
LEMMA MulOrder ==
  ASSUME NEW b \in Nat \ {0}, NEW m \in Int, NEW n \in Int
  PROVE  /\ m <= n <=> m * b <= n * b
         /\ m < n <=> m * b < n * b
  <1> DEFINE d == n - m
  <1>1. b * d = n * b - m * b /\ n * b \in Int /\ m * b \in Int
    BY SMT
  <1>2. d >= 1 => b * d >= b
    BY MulLemma
  <1>3. d <= -1 => b * d <= -b
    BY MulLemma
  <1>4. d = 0 => b * d = 0
    OBVIOUS
  <1> QED
    BY <1>1, <1>2, <1>3, <1>4

(* Division with remainder: what it gives, and that nothing else does. *)
LEMMA IntDivModType ==
  ASSUME NEW a \in Int, NEW b \in Nat \ {0}
  PROVE  /\ a \div b \in Int
         /\ a % b \in 0 .. b - 1
         /\ a = b * (a \div b) + (a % b)
  BY SMT

LEMMA DivModType ==
  ASSUME NEW a \in Nat, NEW b \in Nat \ {0}
  PROVE  /\ a \div b \in Nat
         /\ a % b \in 0 .. b - 1
         /\ a = b * (a \div b) + (a % b)
  BY SMT

LEMMA IntDivModUnique ==
  ASSUME NEW b \in Nat \ {0}, NEW q \in Int, NEW r \in 0 .. b - 1
  PROVE  /\ (b * q + r) \div b = q
         /\ (b * q + r) % b = r
  <1> DEFINE a == b * q + r
  <1>1. a \in Int
    BY MulLemma
  <1>2. /\ a \div b \in Int
        /\ a % b \in 0 .. b - 1
        /\ a = b * (a \div b) + (a % b)
    BY <1>1, IntDivModType
  <1> DEFINE d == q - (a \div b)
  <1>3. b * d = (a % b) - r
    BY <1>2
  <1>4. d = 0
    BY <1>2, <1>3, MulLemma
  <1> QED
    BY <1>2, <1>4

LEMMA DivModUnique ==
  ASSUME NEW b \in Nat \ {0}, NEW q \in Nat, NEW r \in 0 .. b - 1
  PROVE  /\ (b * q + r) \div b = q
         /\ (b * q + r) % b = r
  BY IntDivModUnique

LEMMA ModSmall ==
  ASSUME NEW b \in Nat \ {0}, NEW a \in 0 .. b - 1
  PROVE  a % b = a
  <1>1. b * 0 + a = a
    OBVIOUS
  <1> QED
    BY <1>1, IntDivModUnique

(* Remainders may be taken at once or at the end. *)
LEMMA ModAdd ==
  ASSUME NEW b \in Nat \ {0}, NEW a \in Int, NEW c \in Int
  PROVE  ((a % b) + c) % b = (a + c) % b
  <1> DEFINE x == (a % b) + c
             q == (a \div b) + (x \div b)
             r == x % b
  <1>1. a % b \in Int /\ a \div b \in Int /\ a = b * (a \div b) + (a % b)
    BY IntDivModType
  <1>2. x \in Int
    BY <1>1
  <1>3. x \div b \in Int /\ r \in 0 .. b - 1 /\ x = b * (x \div b) + r
    BY <1>2, IntDivModType
  <1>4. q \in Int /\ a + c = b * q + r
    BY <1>1, <1>3
  <1> HIDE DEF q, r
  <1>5. (a + c) % b = r
    BY <1>3, <1>4, IntDivModUnique
  <1> QED
    BY <1>5 DEF r

(* Numbers less than b apart have different remainders. *)
LEMMA ModDistinct ==
  ASSUME NEW b \in Nat \ {0}, NEW a \in Int, NEW d \in Int, -b < d, d < b,
         (a + d) % b = a % b
  PROVE  d = 0
  <1> DEFINE q1 == a \div b
             q2 == (a + d) \div b
             r == a % b
  <1>1. q1 \in Int /\ r \in 0 .. b - 1 /\ a = b * q1 + r
    BY IntDivModType
  <1>2. a + d \in Int
    OBVIOUS
  <1>3. q2 \in Int /\ a + d = b * q2 + r
    BY <1>2, IntDivModType
  <1> HIDE DEF q1, q2, r
  <1> DEFINE e == q2 - q1
  <1>4. d = b * e /\ e \in Int
    BY <1>1, <1>3
  <1> HIDE DEF e
  <1>5. e = 0
    BY <1>4, MulLemma
  <1> QED
    BY <1>4, <1>5

(* A remainder by a multiple of b leaves the remainder by b. *)
LEMMA ModOfMod ==
  ASSUME NEW b \in Nat \ {0}, NEW m \in Nat \ {0}, m % b = 0, NEW a \in Int
  PROVE  (a % m) % b = a % b
  <1> DEFINE k == m \div b
             q == a \div m
             r == a % m
             p == r \div b
             s == r % b
  <1>1. k \in Int /\ m = b * k + 0
    BY IntDivModType
  <1>2. q \in Int /\ r \in Int /\ a = m * q + r
    BY IntDivModType
  <1>3. p \in Int /\ s \in 0 .. b - 1 /\ r = b * p + s
    BY <1>2, IntDivModType
  <1> HIDE DEF k, q, r, p, s
  <1>4. m = b * k
    BY <1>1
  <1> DEFINE kq == k * q
  <1>5. kq \in Int /\ m * q = b * kq
    BY <1>1, <1>2, <1>4, SMT
  <1> HIDE DEF kq
  <1>6. kq + p \in Int /\ b * (kq + p) = b * kq + b * p
    BY <1>3, <1>5, SMT
  <1>7. b * kq \in Int /\ b * p \in Int
    BY <1>3, <1>5, MulLemma
  <1>8. a = b * (kq + p) + s
    BY <1>2, <1>3, <1>5, <1>6, <1>7
  <1>9. a % b = s
    BY <1>3, <1>6, <1>8, IntDivModUnique
  <1> QED
    BY <1>9 DEF r, s

(* A non-empty set of numbers has a least one. *)
LEMMA LeastElement ==
  ASSUME NEW S \in SUBSET Nat, S # {}
  PROVE  \E n \in S : \A m \in S : n <= m
  <1> DEFINE lt == OpToRel(<, Nat)
  <1>1. PICK n \in S : \A m \in S : ~ (<<m, n>> \in lt)
    <2>1. IsWellFoundedOn(lt, Nat)
      BY NatLessThanWellFounded
    <2> HIDE DEF lt
    <2> QED
      BY <2>1, WFMin
  <1>2. \A m \in S : n <= m
    <2> TAKE m \in S
    <2>1. m \in Nat /\ n \in Nat
      OBVIOUS
    <2>2. ~ (m < n)
      BY <1>1, <2>1 DEF OpToRel
    <2> QED
      BY <2>1, <2>2
  <1> QED
    BY <1>2

(* Induction up to N, as a fact about sets *)
LEMMA UpTo ==
  ASSUME NEW N \in Nat, NEW S, 0 \in S, \A n \in 1 .. N : n - 1 \in S => n \in S
  PROVE  0 .. N \subseteq S
  <1> DEFINE Out == (0 .. N) \ S
  <1>1. Out = {}
    <2> SUFFICES ASSUME Out # {} PROVE FALSE
      OBVIOUS
    <2>0. Out \in SUBSET Nat
      OBVIOUS
    <2>1. PICK n \in Out : \A m \in Out : n <= m
      <3> HIDE DEF Out
      <3> QED
        BY <2>0, LeastElement
    <2>2. n \in 1 .. N
      OBVIOUS
    <2>3. n - 1 \in 0 .. N /\ ~ (n <= n - 1)
      BY <2>2
    <2>4. n - 1 \in S
      BY <2>1, <2>3
    <2> QED
      BY <2>2, <2>4
  <1> QED
    BY <1>1

=============================================================================

--------------------------- MODULE IpInputProofs ----------------------------
(***************************************************************************)
(* Proofs about module IpInput, for bytes of any width, segments of any    *)
(* length and every set of addresses.                                      *)
(*                                                                         *)
(* The loop of checksum_finalize is known by its equation only: OnesSum    *)
(* solves it and nothing else does.  So a folded sum is the one value of   *)
(* 0 .. WORD - 1 that is congruent to the sum modulo WORD - 1, 0 for no    *)
(* sum but 0.  A correct checksum makes the sum a multiple of WORD - 1;    *)
(* one damaged byte changes it by less than that.                          *)
(***************************************************************************)
EXTENDS IpInput, NumberLemmas, SequenceTheorems, TLAPS

-----------------------------------------------------------------------------
(* Sums *)
SumsTo(f, n, s) ==
  /\ s \in [0 .. n -> Int]
  /\ s[0] = 0
  /\ \A m \in 1 .. n : s[m] = s[m - 1] + f[m]

IsSum(f, s) == SumsTo(f, Len(f), s)

LEMMA SumExists ==
  ASSUME NEW f \in Seq(Int)
  PROVE  \E s : IsSum(f, s)
  <1> DEFINE N == Len(f)
             Good == {n \in 0 .. N : \E s : SumsTo(f, n, s)}
  <1>1. N \in Nat /\ \A n \in 1 .. N : f[n] \in Int
    OBVIOUS
  <1>2. 0 \in Good
    <2>1. SumsTo(f, 0, [n \in 0 .. 0 |-> 0])
      BY SMT DEF SumsTo
    <2>2. 0 \in 0 .. N
      BY <1>1
    <2> QED
      BY <2>1, <2>2, Zenon
  <1>3. \A n \in 1 .. N : n - 1 \in Good => n \in Good
    <2> SUFFICES ASSUME NEW n \in 1 .. N, n - 1 \in Good
                 PROVE  n \in Good
      OBVIOUS
    <2>1. PICK s : SumsTo(f, n - 1, s)
      OBVIOUS
    <2> DEFINE t == [m \in 0 .. n |-> IF m = n THEN s[n - 1] + f[n] ELSE s[m]]
    <2>2. s[n - 1] \in Int /\ f[n] \in Int
      BY <1>1, <2>1 DEF SumsTo
    <2>3. t \in [0 .. n -> Int] /\ t[0] = 0
      BY <1>1, <2>1, <2>2 DEF SumsTo
    <2>4. ASSUME NEW m \in 1 .. n
          PROVE  t[m] = t[m - 1] + f[m]
      BY <1>1, <2>1, <2>4, SMTT(30) DEF SumsTo
    <2>5. SumsTo(f, n, t)
      BY <2>3, <2>4 DEF SumsTo
    <2>6. n \in 0 .. N
      BY <1>1
    <2> QED
      BY <2>5, <2>6, Zenon
  <1>4. N \in Good
    <2> HIDE DEF Good
    <2>1. 0 .. N \subseteq Good
      BY <1>1, <1>2, <1>3, UpTo
    <2> QED
      BY <1>1, <2>1
  <1> QED
    BY <1>4 DEF IsSum

LEMMA TotalLemma ==
  ASSUME NEW f \in Seq(Int)
  PROVE  \E s : IsSum(f, s) /\ Total(f) = s[Len(f)]
  <1> DEFINE Eq(s) == s = [n \in 0 .. Len(f) |-> IF n = 0 THEN 0 ELSE s[n - 1] + f[n]]
             sum == CHOOSE s : Eq(s)
  <1>1. Len(f) \in Nat /\ \A n \in 1 .. Len(f) : f[n] \in Int
    OBVIOUS
  <1>2. PICK s : IsSum(f, s)
    BY SumExists
  <1>3. Eq(s)
    BY <1>1, <1>2 DEF IsSum, SumsTo
  <1>4. Eq(sum)
    BY <1>3, Zenon
  <1>5. Total(f) = sum[Len(f)]
    BY DEF Total
  <1> HIDE DEF sum
  <1>6. IsSum(f, sum)
    <2>1. DOMAIN sum = 0 .. Len(f)
      BY <1>4
    <2>2. sum[0] = 0 /\ \A n \in 1 .. Len(f) : sum[n] = sum[n - 1] + f[n]
      BY <1>1, <1>4, SMTT(30)
    <2> DEFINE Good == {n \in 0 .. Len(f) : sum[n] \in Int}
    <2>3. 0 \in Good /\ \A n \in 1 .. Len(f) : n - 1 \in Good => n \in Good
      BY <1>1, <2>2
    <2> HIDE DEF Good
    <2>4. 0 .. Len(f) \subseteq Good
      BY <1>1, <2>3, UpTo
    <2>5. \A n \in 0 .. Len(f) : sum[n] \in Int
      BY <2>4 DEF Good
    <2> QED
      BY <1>4, <2>1, <2>2, <2>5 DEF IsSum, SumsTo
  <1> QED
    BY <1>5, <1>6

LEMMA TotalNat ==
  ASSUME NEW f \in Seq(Nat)
  PROVE  Total(f) \in Nat
  <1>1. f \in Seq(Int) /\ Len(f) \in Nat /\ \A n \in 1 .. Len(f) : f[n] \in Nat
    OBVIOUS
  <1>2. PICK s : IsSum(f, s) /\ Total(f) = s[Len(f)]
    BY <1>1, TotalLemma
  <1> DEFINE Good == {n \in 0 .. Len(f) : s[n] \in Nat}
  <1>3. 0 \in Good /\ \A n \in 1 .. Len(f) : n - 1 \in Good => n \in Good
    BY <1>1, <1>2 DEF IsSum, SumsTo
  <1>4. Len(f) \in Good
    <2> HIDE DEF Good
    <2>1. 0 .. Len(f) \subseteq Good
      BY <1>1, <1>3, UpTo
    <2> QED
      BY <1>1, <2>1
  <1> QED
    BY <1>2, <1>4

(* One term changes, and the sum by as much. *)
LEMMA TotalChange ==
  ASSUME NEW f \in Seq(Int), NEW g \in Seq(Int), Len(g) = Len(f), NEW k \in 1 .. Len(f),
         \A n \in 1 .. Len(f) : n # k => g[n] = f[n]
  PROVE  Total(g) = Total(f) + (g[k] - f[k])
  <1>1. Len(f) \in Nat /\ \A n \in 1 .. Len(f) : f[n] \in Int /\ g[n] \in Int
    OBVIOUS
  <1>2. PICK s : IsSum(f, s) /\ Total(f) = s[Len(f)]
    BY TotalLemma
  <1>3. PICK t : IsSum(g, t) /\ Total(g) = t[Len(g)]
    BY TotalLemma
  <1> DEFINE Shift(n) == IF n < k THEN 0 ELSE g[k] - f[k]
             Good == {n \in 0 .. Len(f) : t[n] = s[n] + Shift(n)}
  <1>4. /\ s \in [0 .. Len(f) -> Int] /\ s[0] = 0
        /\ \A n \in 1 .. Len(f) : s[n] = s[n - 1] + f[n]
    BY <1>2 DEF IsSum, SumsTo
  <1>5. /\ t \in [0 .. Len(f) -> Int] /\ t[0] = 0
        /\ \A n \in 1 .. Len(f) : t[n] = t[n - 1] + g[n]
    BY <1>3 DEF IsSum, SumsTo
  <1>6. 0 \in Good
    BY <1>1, <1>4, <1>5
  <1>7. \A n \in 1 .. Len(f) : n - 1 \in Good => n \in Good
    <2> SUFFICES ASSUME NEW n \in 1 .. Len(f), t[n - 1] = s[n - 1] + Shift(n - 1)
                 PROVE  t[n] = s[n] + Shift(n)
      BY <1>1
    <2>1. t[n] = s[n - 1] + Shift(n - 1) + g[n] /\ s[n] = s[n - 1] + f[n]
      BY <1>4, <1>5
    <2>2. s[n - 1] \in Int /\ f[n] \in Int /\ g[n] \in Int /\ f[k] \in Int /\ g[k] \in Int
      <3>1. n - 1 \in 0 .. Len(f)
        BY <1>1
      <3>2. s[n - 1] \in Int
        BY <1>4, <3>1
      <3> QED
        BY <1>1, <3>2
    <2>3. CASE n = k
      BY <1>1, <2>1, <2>2, <2>3
    <2>4. CASE n # k
      <3>1. Shift(n - 1) = Shift(n) /\ g[n] = f[n]
        BY <2>4
      <3>2. Shift(n) \in Int
        BY <2>2
      <3> QED
        BY <2>1, <2>2, <3>1, <3>2, SMTT(30)
    <2> QED
      BY <2>3, <2>4
  <1>8. Len(f) \in Good
    <2> HIDE DEF Good
    <2>1. 0 .. Len(f) \subseteq Good
      BY <1>1, <1>6, <1>7, UpTo
    <2> QED
      BY <1>1, <2>1
  <1>9. Shift(Len(f)) = g[k] - f[k]
    BY <1>1
  <1> QED
    BY <1>2, <1>3, <1>8, <1>9

-----------------------------------------------------------------------------
(* The loop of folds *)
LEMMA WordLemma ==
  /\ BYTE \in Nat /\ BYTE >= 2
  /\ WORD \in Nat /\ WORD >= 2 * BYTE /\ WORD >= 4
  /\ (BYTE - 1) * BYTE = WORD - BYTE
  /\ \A a \in Bytes : a \in Nat /\ a * BYTE \in Nat /\ a * BYTE <= WORD - BYTE
  <1>1. BYTE \in Nat \ {0} /\ BYTE >= 2
    BY IpAssumption
  <1>2. WORD \in Nat /\ 2 * BYTE <= WORD
    BY <1>1, MulOrder, MulLemma DEF WORD
  <1>3. (BYTE - 1) * BYTE = WORD - BYTE
    BY <1>1, SMT DEF WORD
  <1>4. ASSUME NEW a \in Bytes
        PROVE  a \in Nat /\ a * BYTE \in Nat /\ a * BYTE <= WORD - BYTE
    <2>1. a \in Nat /\ a <= BYTE - 1
      BY <1>1 DEF Bytes
    <2>2. a * BYTE <= (BYTE - 1) * BYTE
      BY <1>1, <2>1, MulOrder
    <2>3. BYTE * a \in Nat
      BY <1>1, <2>1, MulLemma
    <2> QED
      BY <1>1, <1>3, <2>1, <2>2, <2>3
  <1> QED
    BY <1>1, <1>2, <1>3, <1>4

(* A fold takes multiples of WORD - 1 away, and never all of a sum. *)
FoldOnce(n) == (n % WORD) + (n \div WORD)

LEMMA FoldOnceLemma ==
  ASSUME NEW n \in Nat, n >= WORD
  PROVE  /\ FoldOnce(n) \in Nat /\ FoldOnce(n) < n /\ FoldOnce(n) >= 1
         /\ OnesSum(FoldOnce(n)) = OnesSum(n)
  <1> DEFINE M == WORD - 1
             q == n \div WORD
             r == n % WORD
  <1>1. WORD \in Nat /\ WORD >= 4 /\ M \in Nat \ {0} /\ WORD \in Nat \ {0}
    BY WordLemma
  <1>2. q \in Nat /\ r \in 0 .. WORD - 1 /\ n = WORD * q + r
    BY <1>1, DivModType
  <1> HIDE DEF q, r
  <1>3. WORD * q = M * q + q
    BY <1>1, <1>2
  <1>4. q >= 1
    BY <1>1, <1>2
  <1>5. M * q >= M /\ M * q \in Nat
    BY <1>1, <1>2, <1>4, MulLemma
  <1>6. FoldOnce(n) = r + q
    BY DEF FoldOnce, q, r
  <1>7. n = (r + q) + M * q
    BY <1>1, <1>2, <1>3, <1>5
  <1>8. FoldOnce(n) \in Nat /\ FoldOnce(n) < n /\ FoldOnce(n) >= 1
    BY <1>1, <1>2, <1>4, <1>5, <1>6, <1>7
  <1>9. (n - 1) % M = ((r + q) - 1) % M
    <2> DEFINE a == (r + q) - 1
               p == a \div M
               e == a % M
    <2>1. a \in Nat
      BY <1>2, <1>4
    <2>2. p \in Nat /\ e \in 0 .. M - 1 /\ a = M * p + e
      BY <1>1, <2>1, DivModType
    <2> HIDE DEF p, e
    <2>3. n - 1 = a + M * q
      BY <1>1, <1>2, <1>5, <1>7
    <2>4. M * (p + q) = M * p + M * q /\ M * p \in Nat
      BY <1>1, <1>2, <2>2, MulLemma, SMT
    <2> HIDE DEF a, M
    <2>5. n - 1 = M * (p + q) + e
      BY <1>5, <2>2, <2>3, <2>4
    <2>6. p + q \in Nat
      BY <1>2, <2>2
    <2>7. (n - 1) % M = e
      BY <1>1, <2>2, <2>5, <2>6, DivModUnique, SMTT(30)
    <2> QED
      BY <2>7 DEF a, e
  <1>10. n # 0 /\ r + q # 0
    BY <1>1, <1>2, <1>4
  <1> QED
    BY <1>6, <1>8, <1>9, <1>10 DEF OnesSum

LEMMA OnesSumLemma ==
  ASSUME NEW n \in Nat
  PROVE  /\ OnesSum(n) \in 0 .. (WORD - 1)
         /\ n < WORD => OnesSum(n) = n
  <1> DEFINE M == WORD - 1
  <1>1. WORD \in Nat /\ M \in Nat \ {0}
    BY WordLemma
  <1>2. CASE n = 0
    BY <1>1, <1>2 DEF OnesSum
  <1>3. CASE n # 0
    <2>1. n - 1 \in Nat
      BY <1>3
    <2>2. (n - 1) % M \in 0 .. M - 1
      BY <1>1, <2>1, DivModType
    <2>3. n < WORD => (n - 1) % M = n - 1
      BY <1>1, <2>1, ModSmall
    <2>4. OnesSum(n) = ((n - 1) % M) + 1
      BY <1>3 DEF OnesSum
    <2> QED
      BY <1>1, <2>1, <2>2, <2>3, <2>4
  <1> QED
    BY <1>2, <1>3

(* The one's complement sum solves the equation of the loop, and is the    *)
(* only function that does.                                                *)
FoldEquation(f) ==
  f = [n \in Nat |-> IF n < WORD THEN n ELSE f[FoldOnce(n)]]

LEMMA FoldedLemma == \A n \in Nat : Folded[n] = OnesSum(n)
  <1> DEFINE ones == [n \in Nat |-> OnesSum(n)]
  <1>1. FoldEquation(ones)
    <2>1. ASSUME NEW n \in Nat
          PROVE  ones[n] = IF n < WORD THEN n ELSE ones[FoldOnce(n)]
      <3>1. WORD \in Nat
        BY WordLemma
      <3>2. CASE n < WORD
        BY <3>2, OnesSumLemma
      <3>3. CASE ~ (n < WORD)
        <4>1. FoldOnce(n) \in Nat /\ OnesSum(FoldOnce(n)) = OnesSum(n)
          BY <3>1, <3>3, FoldOnceLemma
        <4> QED
          BY <3>3, <4>1
      <3> QED
        BY <3>2, <3>3
    <2>2. ones = [n \in Nat |-> IF n < WORD THEN n ELSE ones[FoldOnce(n)]]
      BY <2>1, Zenon
    <2> QED
      BY <2>2, Zenon DEF FoldEquation
  <1>2. Folded = CHOOSE f : FoldEquation(f)
    BY DEF Folded, FoldEquation, FoldOnce
  <1>3. FoldEquation(Folded)
    BY <1>1, <1>2, Zenon
  <1> DEFINE Wrong == {n \in Nat : Folded[n] # OnesSum(n)}
  <1>4. Wrong = {}
    <2> SUFFICES ASSUME Wrong # {} PROVE FALSE
      OBVIOUS
    <2>1. PICK n \in Wrong : \A m \in Wrong : n <= m
      BY LeastElement
    <2>2. n \in Nat /\ Folded[n] # OnesSum(n) /\ WORD \in Nat
      BY WordLemma
    <2>3. Folded[n] = IF n < WORD THEN n ELSE Folded[FoldOnce(n)]
      BY <1>3, <2>2 DEF FoldEquation
    <2>4. CASE n < WORD
      BY <2>2, <2>3, <2>4, OnesSumLemma
    <2>5. CASE n >= WORD
      <3>1. /\ FoldOnce(n) \in Nat /\ FoldOnce(n) < n
            /\ OnesSum(FoldOnce(n)) = OnesSum(n)
        BY <2>2, <2>5, FoldOnceLemma
      <3>2. FoldOnce(n) \in Wrong
        BY <2>2, <2>3, <2>5, <3>1
      <3> QED
        BY <2>1, <2>2, <3>1, <3>2
    <2> QED
      BY <2>2, <2>4, <2>5
  <1> QED
    BY <1>4

-----------------------------------------------------------------------------
(* The checksum of a sum: what completes it to a multiple of WORD - 1 *)
Whole(n) == n > 0 /\ n % (WORD - 1) = 0

LEMMA FinalizeLemma ==
  ASSUME NEW n \in Nat
  PROVE  /\ checksum_finalize(n) = WORD - 1 - OnesSum(n)
         /\ checksum_finalize(n) \in 0 .. (WORD - 1)
  <1>1. WORD \in Nat /\ OnesSum(n) \in 0 .. (WORD - 1)
    BY WordLemma, OnesSumLemma
  <1>2. checksum_finalize(n) = WORD - 1 - OnesSum(n)
    BY FoldedLemma DEF checksum_finalize
  <1> QED
    BY <1>1, <1>2

LEMMA Accepted ==
  ASSUME NEW n \in Nat
  PROVE  checksum_finalize(n) = 0 <=> Whole(n)
  <1> DEFINE M == WORD - 1
             p == (n - 1) \div M
             e == (n - 1) % M
             q == n \div M
  <1>1. WORD \in Nat /\ M \in Nat \ {0} /\ M >= 3
    BY WordLemma
  <1>2. checksum_finalize(n) = M - OnesSum(n)
    BY FinalizeLemma
  <1>3. CASE n = 0
    BY <1>1, <1>2, <1>3 DEF OnesSum, Whole
  <1>4. CASE n > 0
    <2>1. n - 1 \in Nat
      BY <1>4
    <2>2. p \in Nat /\ e \in 0 .. M - 1 /\ n - 1 = M * p + e
      BY <1>1, <2>1, DivModType
    <2>3. checksum_finalize(n) = 0 <=> e = M - 1
      <3>1. OnesSum(n) = e + 1
        BY <1>4 DEF OnesSum
      <3> HIDE DEF e
      <3> QED
        BY <1>1, <1>2, <2>2, <3>1
    <2>4. ASSUME e = M - 1 PROVE n % M = 0
      <3>1. n = M * (p + 1) + 0
        BY <1>1, <2>2, <2>4
      <3> HIDE DEF p, e, M
      <3>2. p + 1 \in Nat /\ 0 \in 0 .. M - 1
        BY <1>1, <2>2
      <3> QED
        BY <1>1, <3>1, <3>2, DivModUnique
    <2>5. ASSUME n % M = 0 PROVE e = M - 1
      <3>1. q \in Nat /\ n = M * q + 0
        BY <1>1, <2>5, DivModType
      <3> HIDE DEF q
      <3>2. q >= 1
        BY <1>1, <1>4, <3>1
      <3>3. n - 1 = M * (q - 1) + (M - 1)
        BY <1>1, <3>1
      <3> HIDE DEF M
      <3>4. q - 1 \in Nat /\ M - 1 \in 0 .. M - 1
        BY <1>1, <3>1, <3>2
      <3> QED
        BY <1>1, <3>3, <3>4, DivModUnique
    <2> HIDE DEF e
    <2> QED
      BY <1>4, <2>3, <2>4, <2>5 DEF Whole
  <1> QED
    BY <1>3, <1>4

LEMMA Completed ==
  ASSUME NEW n \in Nat
  PROVE  n + checksum_finalize(n) \in Nat /\ Whole(n + checksum_finalize(n))
  <1> DEFINE M == WORD - 1
             c == checksum_finalize(n)
             p == (n - 1) \div M
             e == (n - 1) % M
  <1>1. WORD \in Nat /\ M \in Nat \ {0} /\ M >= 3
    BY WordLemma
  <1>2. c = M - OnesSum(n) /\ c \in 0 .. M
    BY FinalizeLemma
  <1>3. \E k \in Nat : n + c = M * k /\ k >= 1
    <2>1. CASE n = 0
      <3>1. c = M
        BY <1>1, <1>2, <2>1 DEF OnesSum
      <3>2. n + c = M * 1
        BY <1>1, <2>1, <3>1
      <3> QED
        BY <3>2
    <2>2. CASE n > 0
      <3>1. n - 1 \in Nat
        BY <2>2
      <3>2. p \in Nat /\ e \in 0 .. M - 1 /\ n - 1 = M * p + e
        BY <1>1, <3>1, DivModType
      <3>3. OnesSum(n) = e + 1
        BY <2>2 DEF OnesSum
      <3> HIDE DEF p, e, c
      <3>4. n + c = M * (p + 1) /\ p + 1 \in Nat /\ p + 1 >= 1
        BY <1>1, <1>2, <3>2, <3>3
      <3> HIDE DEF M
      <3> QED
        BY <3>4
    <2> QED
      BY <2>1, <2>2
  <1> HIDE DEF c
  <1>4. PICK k \in Nat : n + c = M * k /\ k >= 1
    BY <1>3
  <1>5. M * k >= M /\ M * k \in Nat
    BY <1>1, <1>4, MulLemma
  <1>6. (M * k + 0) % M = 0
    <2> HIDE DEF M
    <2>1. 0 \in 0 .. M - 1
      BY <1>1
    <2> QED
      BY <1>1, <2>1, DivModUnique
  <1>7. M * k + 0 = M * k
    BY <1>5
  <1> QED
    BY <1>1, <1>4, <1>5, <1>6, <1>7 DEF Whole, c

LEMMA Disturbed ==
  ASSUME NEW n \in Nat, Whole(n), NEW d \in Int, d # 0, -(WORD - 1) < d, d < WORD - 1
  PROVE  ~ Whole(n + d)
  <1> DEFINE M == WORD - 1
  <1>1. WORD \in Nat /\ M \in Nat \ {0}
    BY WordLemma
  <1>2. n % M = 0
    BY DEF Whole
  <1> HIDE DEF M
  <1>3. -M < d /\ d < M
    BY DEF M
  <1>4. (n + d) % M # n % M
    <2> SUFFICES ASSUME (n + d) % M = n % M PROVE FALSE
      OBVIOUS
    <2>1. n \in Int
      OBVIOUS
    <2> QED
      BY <1>1, <1>3, <2>1, ModDistinct
  <1> QED
    BY <1>2, <1>4 DEF Whole, M

-----------------------------------------------------------------------------
(* Words of bytes *)
BigWords(s) == [n \in 1 .. WordCount(s) |-> Big(s[2 * n - 1], Byte(s, 2 * n))]
LittleWords(s) == [n \in 1 .. WordCount(s) |-> Little(s[2 * n - 1], Byte(s, 2 * n))]

LEMMA WordCountLemma ==
  ASSUME NEW s \in Seq(Nat)
  PROVE  /\ Len(s) \in Nat /\ WordCount(s) \in Nat
         /\ \A n \in 1 .. WordCount(s) : 2 * n - 1 \in 1 .. Len(s)
         /\ \A k \in 1 .. Len(s) : (k + 1) \div 2 \in 1 .. WordCount(s)
  BY SMT DEF WordCount

LEMMA FunctionIsSeq ==
  ASSUME NEW N \in Nat, NEW S, NEW f \in [1 .. N -> S]
  PROVE  f \in Seq(S) /\ Len(f) = N
  OBVIOUS

LEMMA WordsType ==
  ASSUME NEW s \in Seq(Nat)
  PROVE  /\ BigWords(s) \in Seq(Nat) /\ LittleWords(s) \in Seq(Nat)
         /\ Len(BigWords(s)) = WordCount(s) /\ Len(LittleWords(s)) = WordCount(s)
  <1>1. WordCount(s) \in Nat /\ BYTE \in Nat
    BY WordCountLemma, WordLemma
  <1>2. ASSUME NEW n \in 1 .. WordCount(s)
        PROVE  /\ Big(s[2 * n - 1], Byte(s, 2 * n)) \in Nat
               /\ Little(s[2 * n - 1], Byte(s, 2 * n)) \in Nat
    <2>1. s[2 * n - 1] \in Nat
      <3>1. 2 * n - 1 \in 1 .. Len(s)
        BY WordCountLemma
      <3> QED
        BY <3>1
    <2>2. Byte(s, 2 * n) \in Nat
      BY <1>1 DEF Byte
    <2> DEFINE a == s[2 * n - 1]
               b == Byte(s, 2 * n)
    <2> HIDE DEF a, b
    <2>3. BYTE * a \in Nat /\ BYTE * b \in Nat
      BY <1>1, <2>1, <2>2, MulLemma, SMTT(30) DEF a, b
    <2>4. a * BYTE = BYTE * a /\ b * BYTE = BYTE * b /\ a \in Nat /\ b \in Nat
      BY <1>1, <2>1, <2>2 DEF a, b
    <2>5. Big(a, b) \in Nat /\ Little(a, b) \in Nat
      BY <2>3, <2>4 DEF Big, Little
    <2> QED
      BY <2>5 DEF a, b
  <1>3. /\ BigWords(s) \in [1 .. WordCount(s) -> Nat]
        /\ LittleWords(s) \in [1 .. WordCount(s) -> Nat]
    BY <1>2 DEF BigWords, LittleWords
  <1> QED
    BY <1>1, <1>3, FunctionIsSeq

LEMMA SumsType ==
  ASSUME NEW s \in Seq(Nat)
  PROVE  BigSum(s) \in Nat /\ checksum_accumulate(s) \in Nat
  <1>1. BigWords(s) \in Seq(Nat) /\ LittleWords(s) \in Seq(Nat)
    BY WordsType
  <1>2. BigSum(s) = Total(BigWords(s)) /\ checksum_accumulate(s) = Total(LittleWords(s))
    BY DEF BigSum, checksum_accumulate, BigWords, LittleWords
  <1> QED
    BY <1>1, <1>2, TotalNat

LEMMA BytesLemma ==
  ASSUME NEW w \in 0 .. (WORD - 1)
  PROVE  /\ LittleBytes(w) \in Seq(Bytes) /\ BigBytes(w) \in Seq(Bytes)
         /\ Len(LittleBytes(w)) = 2
         /\ Little(LittleBytes(w)[1], LittleBytes(w)[2]) = w
  <1>1. BYTE \in Nat \ {0} /\ WORD \in Nat /\ w \in Nat
    BY WordLemma
  <1>2. w \div BYTE \in Nat /\ w % BYTE \in 0 .. BYTE - 1 /\ w = BYTE * (w \div BYTE) + (w % BYTE)
    BY <1>1, DivModType
  <1> DEFINE q == w \div BYTE
             r == w % BYTE
  <1> HIDE DEF q, r
  <1>3. q \in Nat /\ r \in Bytes /\ w = BYTE * q + r
    BY <1>2 DEF q, r, Bytes
  <1>4. q \in Bytes
    <2>1. BYTE * q < BYTE * BYTE
      BY <1>1, <1>3 DEF WORD, Bytes
    <2>2. q * BYTE < BYTE * BYTE
      BY <1>1, <1>3, <2>1
    <2>3. q < BYTE
      BY <1>1, <1>3, <2>2, MulOrder
    <2> QED
      BY <1>1, <1>3, <2>3 DEF Bytes
  <1>5. LittleBytes(w) = <<r, q>> /\ BigBytes(w) = <<q, r>>
    BY DEF LittleBytes, BigBytes, q, r
  <1>6. Little(r, q) = w
    BY <1>1, <1>3 DEF Little, Bytes
  <1>7. /\ <<r, q>> \in Seq(Bytes) /\ <<q, r>> \in Seq(Bytes)
        /\ Len(<<r, q>>) = 2 /\ <<r, q>>[1] = r /\ <<r, q>>[2] = q
    BY <1>3, <1>4
  <1> QED
    BY <1>5, <1>6, <1>7

LEMMA BytesAreNumbers ==
  /\ Bytes \subseteq Nat /\ 0 \in Bytes
  /\ \A s \in Seq(Bytes) : s \in Seq(Nat)
  <1>1. Bytes \subseteq Nat /\ 0 \in Bytes
    BY WordLemma DEF Bytes
  <1> QED
    BY <1>1, SeqMonotonic

(* The checksum field is the first word: storing a checksum there adds it  *)
(* to the sum.                                                             *)
LEMMA StoredSum ==
  ASSUME NEW c \in 0 .. (WORD - 1), NEW data \in Seq(Bytes)
  PROVE  checksum_accumulate(LittleBytes(c) \o data) = checksum_accumulate(Zero \o data) + c
  <1> DEFINE s == Zero \o data
             t == LittleBytes(c) \o data
  <1>1. LittleBytes(c) \in Seq(Bytes) /\ Len(LittleBytes(c)) = 2
    BY BytesLemma
  <1>2. Zero \in Seq(Bytes) /\ Len(Zero) = 2
    BY BytesAreNumbers DEF Zero
  <1>3. /\ s \in Seq(Bytes) /\ t \in Seq(Bytes)
        /\ Len(s) = Len(data) + 2 /\ Len(t) = Len(data) + 2
    <2>1. Len(data) \in Nat
      OBVIOUS
    <2>2. s \in Seq(Bytes) /\ Len(s) = Len(Zero) + Len(data)
      BY <1>2, ConcatProperties
    <2>3. t \in Seq(Bytes) /\ Len(t) = Len(LittleBytes(c)) + Len(data)
      BY <1>1, ConcatProperties
    <2> HIDE DEF s, t
    <2> QED
      BY <1>1, <1>2, <2>1, <2>2, <2>3
  <1>4. /\ t[1] = LittleBytes(c)[1] /\ t[2] = LittleBytes(c)[2]
        /\ s[1] = 0 /\ s[2] = 0
        /\ \A n \in 3 .. Len(s) : t[n] = s[n]
    <2>1. Len(data) \in Nat
      OBVIOUS
    <2>2. \A n \in 3 .. Len(s) : t[n] = data[n - 2] /\ s[n] = data[n - 2]
      BY <1>1, <1>2, <1>3, <2>1
    <2> QED
      BY <1>1, <1>2, <1>3, <2>1, <2>2 DEF Zero
  <1> HIDE DEF s, t
  <1>5. s \in Seq(Nat) /\ t \in Seq(Nat) /\ Len(s) \in Nat /\ Len(s) >= 2 /\ Len(t) = Len(s)
    BY <1>3, BytesAreNumbers
  <1>6. WordCount(t) = WordCount(s) /\ 1 \in 1 .. WordCount(s)
    BY <1>5 DEF WordCount
  <1>7. LittleWords(t)[1] = c /\ LittleWords(s)[1] = 0
    <2>1. Byte(t, 2) = t[2] /\ Byte(s, 2) = s[2]
      BY <1>5 DEF Byte
    <2>2. LittleWords(t)[1] = Little(t[1], t[2]) /\ LittleWords(s)[1] = Little(s[1], s[2])
      BY <1>6, <2>1 DEF LittleWords
    <2>3. Little(0, 0) = 0
      BY WordLemma DEF Little
    <2> QED
      BY <1>4, <2>2, <2>3, BytesLemma
  <1>8. ASSUME NEW n \in 1 .. WordCount(s), n # 1
        PROVE  LittleWords(t)[n] = LittleWords(s)[n]
    <2>1. 2 * n - 1 \in 3 .. Len(s) /\ (2 * n <= Len(s) => 2 * n \in 3 .. Len(s))
      BY <1>5, <1>8 DEF WordCount
    <2>2. t[2 * n - 1] = s[2 * n - 1] /\ Byte(t, 2 * n) = Byte(s, 2 * n)
      BY <1>4, <1>5, <2>1 DEF Byte
    <2> QED
      BY <1>6, <2>2 DEF LittleWords
  <1> DEFINE f == LittleWords(s)
             g == LittleWords(t)
  <1>9. /\ f \in Seq(Nat) /\ g \in Seq(Nat)
        /\ Len(f) = WordCount(s) /\ Len(g) = WordCount(s)
    BY <1>5, <1>6, WordsType
  <1>10. /\ g[1] = c /\ f[1] = 0 /\ 1 \in 1 .. Len(f) /\ Len(g) = Len(f)
         /\ \A n \in 1 .. Len(f) : n # 1 => g[n] = f[n]
    BY <1>6, <1>7, <1>8, <1>9
  <1>11. checksum_accumulate(s) = Total(f) /\ checksum_accumulate(t) = Total(g)
    BY DEF checksum_accumulate, LittleWords
  <1> HIDE DEF f, g
  <1>12. f \in Seq(Int) /\ g \in Seq(Int)
    BY <1>9, SeqMonotonic
  <1>13. Total(g) = Total(f) + (g[1] - f[1])
    BY <1>10, <1>12, TotalChange
  <1>14. Total(f) \in Nat
    BY <1>9, TotalNat
  <1>15. checksum_accumulate(t) = checksum_accumulate(s) + c
    BY <1>10, <1>11, <1>13, <1>14
  <1> QED
    BY <1>15 DEF s, t

(* One byte changes, and the sum by less than WORD - 1. *)
LEMMA DamagedSum ==
  ASSUME NEW s \in Seq(Bytes), NEW k \in 1 .. Len(s), NEW b \in Bytes, b # s[k]
  PROVE  \E d \in Int : /\ d # 0 /\ -(WORD - 1) < d /\ d < WORD - 1
                        /\ checksum_accumulate([s EXCEPT ![k] = b]) = checksum_accumulate(s) + d
  <1> DEFINE t == [s EXCEPT ![k] = b]
             m == (k + 1) \div 2
             d == LittleWords(t)[m] - LittleWords(s)[m]
  <1>1. /\ t \in Seq(Bytes) /\ Len(t) = Len(s) /\ t[k] = b
        /\ \A n \in 1 .. Len(s) : n # k => t[n] = s[n]
    OBVIOUS
  <1> HIDE DEF t
  <1>2. s \in Seq(Nat) /\ t \in Seq(Nat) /\ Len(s) \in Nat
    BY <1>1, BytesAreNumbers
  <1>3. m \in 1 .. WordCount(s) /\ WordCount(t) = WordCount(s)
    BY <1>1, <1>2, WordCountLemma DEF WordCount
  <1>4. k = 2 * m - 1 \/ k = 2 * m
    BY <1>2
  <1>5. 2 * m - 1 \in 1 .. Len(s)
    BY <1>2, <1>3, WordCountLemma
  <1> HIDE DEF m
  <1>6. /\ LittleWords(t)[m] = Little(t[2 * m - 1], Byte(t, 2 * m))
        /\ LittleWords(s)[m] = Little(s[2 * m - 1], Byte(s, 2 * m))
    BY <1>3 DEF LittleWords
  <1>7. s[k] \in Bytes /\ s[2 * m - 1] \in Bytes /\ Byte(s, 2 * m) \in Bytes
    <2>1. \A n \in 1 .. Len(s) : s[n] \in Bytes
      OBVIOUS
    <2>2. 2 * m <= Len(s) => 2 * m \in 1 .. Len(s)
      BY <1>2, <1>3, WordCountLemma
    <2> QED
      BY <1>5, <2>1, <2>2, BytesAreNumbers DEF Byte
  <1>8. d \in Int /\ d # 0 /\ -(WORD - 1) < d /\ d < WORD - 1
    <2>1. CASE k = 2 * m - 1
      <3>1. t[2 * m - 1] = b /\ Byte(t, 2 * m) = Byte(s, 2 * m)
        <4>1. 2 * m # k /\ (2 * m <= Len(s) => 2 * m \in 1 .. Len(s))
          BY <1>2, <1>3, <2>1, WordCountLemma
        <4> QED
          BY <1>1, <2>1, <4>1 DEF Byte
      <3> DEFINE z == Byte(s, 2 * m)
                 a == s[k]
      <3>2. d = Little(b, z) - Little(a, z)
        BY <1>6, <2>1, <3>1
      <3>3. z * BYTE \in Nat /\ a \in Nat /\ b \in Nat
        BY <1>7, WordLemma
      <3> HIDE DEF z, a, d
      <3>4. d = b - a
        BY <3>2, <3>3 DEF Little
      <3>5. BYTE \in Nat /\ WORD \in Nat /\ WORD >= 2 * BYTE /\ BYTE >= 2
        BY WordLemma
      <3>6. 0 <= a /\ a <= BYTE - 1 /\ 0 <= b /\ b <= BYTE - 1 /\ a # b
        BY <1>7, <3>5 DEF a, Bytes
      <3> QED
        BY <3>3, <3>4, <3>5, <3>6
    <2>2. CASE k = 2 * m
      <3>1. t[2 * m - 1] = s[2 * m - 1] /\ Byte(t, 2 * m) = b /\ Byte(s, 2 * m) = s[k]
        <4>1. 2 * m - 1 # k /\ 2 * m <= Len(s)
          BY <1>2, <1>3, <2>2, WordCountLemma
        <4> QED
          BY <1>1, <1>5, <2>2, <4>1 DEF Byte
      <3> DEFINE z == s[2 * m - 1]
                 a == s[k]
      <3>2. d = Little(z, b) - Little(z, a)
        BY <1>6, <3>1
      <3>3. /\ z \in Nat /\ a * BYTE \in Nat /\ b * BYTE \in Nat
            /\ a * BYTE <= WORD - BYTE /\ b * BYTE <= WORD - BYTE
        BY <1>7, WordLemma
      <3>4. a \in Nat /\ b \in Nat /\ a # b
        BY <1>7, WordLemma
      <3> HIDE DEF z, a, d
      <3>5. d = b * BYTE - a * BYTE
        BY <3>2, <3>3 DEF Little
      <3>6. BYTE \in Nat \ {0} /\ WORD \in Nat /\ BYTE >= 2
        BY WordLemma
      <3>7. a * BYTE # b * BYTE
        <4>1. a < b => a * BYTE < b * BYTE
          BY <3>4, <3>6, MulOrder
        <4>2. b < a => b * BYTE < a * BYTE
          BY <3>4, <3>6, MulOrder
        <4> QED
          BY <3>3, <3>4, <4>1, <4>2
      <3> QED
        BY <3>3, <3>5, <3>6, <3>7
    <2> QED
      BY <1>4, <2>1, <2>2
  <1>9. ASSUME NEW n \in 1 .. WordCount(s), n # m
        PROVE  LittleWords(t)[n] = LittleWords(s)[n]
    <2>1. /\ 2 * n - 1 \in 1 .. Len(s) /\ 2 * n - 1 # k /\ 2 * n # k
          /\ 2 * n <= Len(s) => 2 * n \in 1 .. Len(s)
      <3>1. 2 * n - 1 \in 1 .. Len(s)
        BY <1>2, WordCountLemma
      <3>2. WordCount(s) \in Nat
        BY <1>2, WordCountLemma
      <3> QED
        BY <1>2, <1>3, <1>4, <1>9, <3>1, <3>2
    <2>2. t[2 * n - 1] = s[2 * n - 1] /\ Byte(t, 2 * n) = Byte(s, 2 * n)
      BY <1>1, <2>1 DEF Byte
    <2> QED
      BY <1>3, <2>2 DEF LittleWords
  <1>10. /\ LittleWords(s) \in Seq(Nat) /\ LittleWords(t) \in Seq(Nat)
         /\ Len(LittleWords(s)) = WordCount(s) /\ Len(LittleWords(t)) = WordCount(s)
    BY <1>2, <1>3, WordsType
  <1>11. Total(LittleWords(t)) = Total(LittleWords(s)) + d
    <2> DEFINE f == LittleWords(s)
               g == LittleWords(t)
    <2>1. m \in 1 .. Len(f) /\ Len(g) = Len(f) /\ \A n \in 1 .. Len(f) : n # m => g[n] = f[n]
      BY <1>3, <1>9, <1>10
    <2>2. f \in Seq(Int) /\ g \in Seq(Int)
      BY <1>10, SeqMonotonic
    <2> HIDE DEF f, g
    <2>3. Total(g) = Total(f) + (g[m] - f[m])
      BY <2>1, <2>2, TotalChange
    <2> QED
      BY <2>3 DEF f, g
  <1>12. /\ checksum_accumulate(t) = Total(LittleWords(t))
         /\ checksum_accumulate(s) = Total(LittleWords(s))
    BY DEF checksum_accumulate, LittleWords
  <1> HIDE DEF d
  <1> QED
    BY <1>8, <1>11, <1>12 DEF t

-----------------------------------------------------------------------------
(* Packets *)
Packets == [src : Addrs, dst : Addrs, seg : Seq(Bytes), checksum : Seq(Bytes),
            at : Addrs, cut : Cuts]

Valid(p) == tcp_validate_checksum(p.src, p.dst, p.seg)

(* What tcp_compute_checksum adds to the sum of the segment *)
PseudoSum(src, dst, len) == BigSum(src) + BigSum(dst) + Swap(PROTO) + Swap(len)

LEMMA PseudoType ==
  ASSUME NEW src \in Addrs, NEW dst \in Addrs, NEW len \in Nat
  PROVE  PseudoSum(src, dst, len) \in Nat
  <1>1. \A a \in Addrs : a \in [1 .. 4 -> Bytes]
    BY IpAssumption
  <1>2. \A a \in Addrs : a \in Seq(Nat)
    BY <1>1, FunctionIsSeq, BytesAreNumbers
  <1>3. BigSum(src) \in Nat /\ BigSum(dst) \in Nat
    BY <1>2, SumsType
  <1>4. ASSUME NEW w \in Nat PROVE Swap(w) \in Nat
    <2>1. w \div BYTE \in Nat /\ w % BYTE \in Nat /\ BYTE \in Nat
      BY WordLemma, DivModType
    <2> DEFINE q == w \div BYTE
               r == w % BYTE
    <2> HIDE DEF q, r
    <2>2. BYTE * r \in Nat
      BY <2>1, MulLemma DEF r
    <2>3. q \in Nat /\ r \in Nat /\ r * BYTE = BYTE * r
      BY <2>1 DEF q, r
    <2>4. Little(q, r) \in Nat
      BY <2>2, <2>3 DEF Little
    <2> QED
      BY <2>4 DEF Swap, q, r
  <1>5. PROTO \in Nat
    BY IpAssumption, BytesAreNumbers
  <1>6. Swap(PROTO) \in Nat /\ Swap(len) \in Nat
    BY <1>4, <1>5
  <1> QED
    BY <1>3, <1>6 DEF PseudoSum

(* A segment is valid if its sum with the pseudo-header is whole. *)
LEMMA ValidLemma ==
  ASSUME NEW src \in Addrs, NEW dst \in Addrs, NEW seg \in Seq(Bytes)
  PROVE  /\ PseudoSum(src, dst, Len(seg)) \in Nat
         /\ checksum_accumulate(seg) \in Nat
         /\ tcp_compute_checksum(src, dst, seg)
              = checksum_finalize(PseudoSum(src, dst, Len(seg)) + checksum_accumulate(seg))
         /\ tcp_validate_checksum(src, dst, seg)
              <=> Whole(PseudoSum(src, dst, Len(seg)) + checksum_accumulate(seg))
  <1> DEFINE n == PseudoSum(src, dst, Len(seg)) + checksum_accumulate(seg)
  <1>1. seg \in Seq(Nat) /\ Len(seg) \in Nat
    BY BytesAreNumbers
  <1>2. PseudoSum(src, dst, Len(seg)) \in Nat /\ checksum_accumulate(seg) \in Nat
    BY <1>1, PseudoType, SumsType
  <1>3. n \in Nat
    BY <1>2
  <1>4. tcp_compute_checksum(src, dst, seg) = checksum_finalize(n)
    BY DEF tcp_compute_checksum, PseudoSum
  <1> HIDE DEF n
  <1>5. tcp_validate_checksum(src, dst, seg) <=> Whole(n)
    BY <1>3, <1>4, Accepted DEF tcp_validate_checksum
  <1> QED
    BY <1>2, <1>4, <1>5 DEF n

LEMMA SentValid ==
  ASSUME NEW src \in Addrs, NEW dst \in Addrs, NEW data \in Seq(Bytes)
  PROVE  LET seg == LittleBytes(tcp_compute_checksum(src, dst, Zero \o data)) \o data
         IN seg \in Seq(Bytes) /\ tcp_validate_checksum(src, dst, seg)
  <1> DEFINE blank == Zero \o data
             n == PseudoSum(src, dst, Len(blank)) + checksum_accumulate(blank)
             c == tcp_compute_checksum(src, dst, blank)
             seg == LittleBytes(c) \o data
  <1>1. Zero \in Seq(Bytes) /\ Len(Zero) = 2 /\ Len(data) \in Nat
    BY BytesAreNumbers DEF Zero
  <1>2. blank \in Seq(Bytes) /\ Len(blank) = Len(Zero) + Len(data)
    BY <1>1, ConcatProperties
  <1> HIDE DEF blank
  <1>3. /\ PseudoSum(src, dst, Len(blank)) \in Nat /\ checksum_accumulate(blank) \in Nat
        /\ c = checksum_finalize(n)
    BY <1>2, ValidLemma
  <1> HIDE DEF c
  <1>4. n \in Nat
    BY <1>3
  <1> HIDE DEF n
  <1>5. c \in 0 .. (WORD - 1) /\ Whole(n + c)
    BY <1>3, <1>4, FinalizeLemma, Completed
  <1>6. LittleBytes(c) \in Seq(Bytes) /\ Len(LittleBytes(c)) = 2
    BY <1>5, BytesLemma
  <1>7. seg \in Seq(Bytes) /\ Len(seg) = Len(blank)
    <2>1. seg \in Seq(Bytes) /\ Len(seg) = Len(LittleBytes(c)) + Len(data)
      BY <1>6, ConcatProperties
    <2> HIDE DEF seg
    <2> QED
      BY <1>1, <1>2, <1>6, <2>1
  <1>8. checksum_accumulate(seg) = checksum_accumulate(blank) + c
    BY <1>5, StoredSum DEF blank
  <1> HIDE DEF seg
  <1>9. PseudoSum(src, dst, Len(seg)) + checksum_accumulate(seg) = n + c
    BY <1>3, <1>5, <1>7, <1>8, WordLemma DEF n
  <1>10. tcp_validate_checksum(src, dst, seg)
    BY <1>5, <1>7, <1>9, ValidLemma
  <1> QED
    BY <1>7, <1>10 DEF seg, c, blank

LEMMA DamagedInvalid ==
  ASSUME NEW src \in Addrs, NEW dst \in Addrs, NEW seg \in Seq(Bytes),
         tcp_validate_checksum(src, dst, seg),
         NEW k \in 1 .. Len(seg), NEW b \in Bytes, b # seg[k]
  PROVE  /\ [seg EXCEPT ![k] = b] \in Seq(Bytes)
         /\ ~ tcp_validate_checksum(src, dst, [seg EXCEPT ![k] = b])
  <1> DEFINE bad == [seg EXCEPT ![k] = b]
             n == PseudoSum(src, dst, Len(seg)) + checksum_accumulate(seg)
  <1>1. bad \in Seq(Bytes) /\ Len(bad) = Len(seg)
    BY ExceptSeq
  <1>2. /\ PseudoSum(src, dst, Len(seg)) \in Nat /\ checksum_accumulate(seg) \in Nat
        /\ Whole(n)
    BY ValidLemma
  <1>3. PICK d \in Int : /\ d # 0 /\ -(WORD - 1) < d /\ d < WORD - 1
                         /\ checksum_accumulate(bad) = checksum_accumulate(seg) + d
    BY DamagedSum
  <1> HIDE DEF bad
  <1>4. n \in Nat /\ PseudoSum(src, dst, Len(bad)) + checksum_accumulate(bad) = n + d
    BY <1>1, <1>2, <1>3
  <1> HIDE DEF n
  <1>5. ~ Whole(n + d)
    BY <1>2, <1>3, <1>4, Disturbed
  <1>6. ~ tcp_validate_checksum(src, dst, bad)
    BY <1>1, <1>4, <1>5, ValidLemma
  <1> QED
    BY <1>1, <1>6 DEF bad

LEMMA HeaderType ==
  ASSUME NEW p, p.src \in Addrs, p.dst \in Addrs, p.seg \in Seq(Bytes)
  PROVE  BigSum(Header(p)) \in Nat
  <1>1. \A a \in Addrs : a \in [1 .. 4 -> Bytes]
    BY IpAssumption
  <1>2. p.src \in Seq(Nat) /\ p.dst \in Seq(Nat)
    BY <1>1, FunctionIsSeq, BytesAreNumbers
  <1>3. BigBytes(Len(p.seg)) \in Seq(Nat)
    <2> DEFINE w == Len(p.seg)
    <2>1. w \in Nat /\ BYTE \in Nat \ {0}
      BY WordLemma
    <2> HIDE DEF w
    <2>2. w \div BYTE \in Nat /\ w % BYTE \in Nat
      BY <2>1, DivModType
    <2>3. <<w \div BYTE, w % BYTE>> \in Seq(Nat)
      BY <2>2
    <2> QED
      BY <2>3 DEF BigBytes, w
  <1>4. BigBytes(Len(p.seg)) \o p.src \in Seq(Nat)
    BY <1>2, <1>3, ConcatProperties
  <1>5. Header(p) \in Seq(Nat)
    BY <1>2, <1>4, ConcatProperties DEF Header
  <1> QED
    BY <1>5, SumsType

LEMMA InternetLemma ==
  ASSUME NEW n \in Nat
  PROVE  /\ BigBytes(checksum_finalize(n)) = Internet(n)
         /\ Internet(n) \in Seq(Bytes) /\ Len(Internet(n)) = 2
  <1>1. checksum_finalize(n) = WORD - 1 - OnesSum(n) /\ checksum_finalize(n) \in 0 .. (WORD - 1)
    BY FinalizeLemma
  <1>2. BigBytes(checksum_finalize(n)) = Internet(n)
    BY <1>1 DEF Internet
  <1>3. BigBytes(checksum_finalize(n)) \in Seq(Bytes)
    BY <1>1, BytesLemma
  <1>4. Len(BigBytes(checksum_finalize(n))) = 2
    BY DEF BigBytes
  <1> QED
    BY <1>2, <1>3, <1>4

-----------------------------------------------------------------------------
(* A packet of ours is as ipv4_send made it until it is damaged. *)
AsSent(p) == p.cut = "nothing" /\ p.dst = p.at /\ HeaderOK(p) /\ Valid(p)

IpInv ==
  /\ packet = << >> => verdict = "none"
  /\ packet # << >> => packet \in Packets
  /\ origin \in {"self", "damaged"} => packet \in Packets
  /\ origin = "self" => AsSent(packet)
  /\ origin = "damaged" => ~ Valid(packet)
  /\ OwnPacketsDelivered
  /\ DamageNotDelivered

LEMMA SegsLemma ==
  ASSUME NEW data \in Segs
  PROVE  data \in Seq(Bytes)
  <1>1. PICK n \in 1 .. MaxSeg : data \in [1 .. n -> Bytes]
    BY DEF Segs
  <1>2. n \in Nat
    BY IpAssumption
  <1> QED
    BY <1>1, <1>2, FunctionIsSeq

LEMMA SendInv ==
  ASSUME IpInv, NEW dst \in Addrs \ {aether_ip}, NEW data \in Segs, ipv4_send(dst, data)
  PROVE  IpInv'
  <1> DEFINE seg == LittleBytes(tcp_compute_checksum(aether_ip, dst, Zero \o data)) \o data
             hdr == Header([src |-> aether_ip, dst |-> dst, seg |-> seg])
             sum == ipv4_checksum(hdr)
  <1>1. /\ packet = << >>
        /\ packet' = [src |-> aether_ip, dst |-> dst, seg |-> seg,
                      checksum |-> LittleBytes(sum), at |-> dst, cut |-> "nothing"]
        /\ origin' = "self" /\ verdict' = verdict
    BY Zenon DEF ipv4_send
  <1>2. aether_ip \in Addrs /\ data \in Seq(Bytes)
    BY IpAssumption, SegsLemma
  <1>3. seg \in Seq(Bytes) /\ tcp_validate_checksum(aether_ip, dst, seg)
    BY <1>2, SentValid
  <1> HIDE DEF seg
  <1>4. BigSum(hdr) \in Nat
    <2> DEFINE p == [src |-> aether_ip, dst |-> dst, seg |-> seg]
    <2>1. p.src \in Addrs /\ p.dst \in Addrs /\ p.seg \in Seq(Bytes)
      BY <1>2, <1>3
    <2> HIDE DEF p
    <2>2. BigSum(Header(p)) \in Nat
      BY <2>1, HeaderType
    <2> QED
      BY <2>2 DEF p
  <1>5. hdr = Header(packet')
    BY <1>1 DEF Header
  <1> HIDE DEF hdr
  <1>6. sum \in 0 .. (WORD - 1)
    BY <1>4, FinalizeLemma DEF ipv4_checksum
  <1> HIDE DEF sum
  <1>7. /\ LittleBytes(sum) \in Seq(Bytes)
        /\ Little(LittleBytes(sum)[1], LittleBytes(sum)[2]) = sum
    BY <1>6, BytesLemma
  <1>8. packet' \in Packets
    BY <1>1, <1>2, <1>3, <1>7 DEF Packets, Cuts
  <1>9. /\ packet'.src = aether_ip /\ packet'.dst = dst /\ packet'.seg = seg
        /\ packet'.checksum = LittleBytes(sum) /\ packet'.at = dst /\ packet'.cut = "nothing"
    BY <1>1
  <1>10. HeaderOK(packet')
    BY <1>5, <1>7, <1>9 DEF HeaderOK, sum
  <1>11. Valid(packet')
    BY <1>3, <1>9 DEF Valid
  <1>12. AsSent(packet)'
    BY <1>9, <1>10, <1>11 DEF AsSent
  <1>13. verdict' = "none"
    BY <1>1 DEF IpInv
  <1> QED
    BY <1>1, <1>8, <1>12, <1>13 DEF IpInv, OwnPacketsDelivered, DamageNotDelivered

LEMMA PeerInv ==
  ASSUME IpInv, NEW src \in Addrs, NEW dst \in Addrs, NEW data \in Segs, NEW cut \in Cuts,
         PeerSends(src, dst, data, cut)
  PROVE  IpInv'
  <1> DEFINE sum == BigSum(src) + BigSum(dst) + PROTO + Len(data) + 2 + BigSum(Zero \o data)
             seg == Internet(sum) \o data
             hdr == Header([src |-> src, dst |-> dst, seg |-> seg])
  <1>1. /\ packet = << >>
        /\ packet' = [src |-> src, dst |-> dst, seg |-> seg,
                      checksum |-> Internet(BigSum(hdr)), at |-> aether_ip, cut |-> cut]
        /\ origin' = "peer" /\ verdict' = verdict
    BY Zenon DEF PeerSends
  <1>2. aether_ip \in Addrs /\ data \in Seq(Bytes)
    BY IpAssumption, SegsLemma
  <1>3. sum \in Nat
    <2>1. \A a \in Addrs : a \in [1 .. 4 -> Bytes]
      BY IpAssumption
    <2>2. src \in Seq(Nat) /\ dst \in Seq(Nat)
      BY <2>1, FunctionIsSeq, BytesAreNumbers
    <2>3. Zero \in Seq(Bytes)
      BY BytesAreNumbers DEF Zero
    <2>4. Zero \o data \in Seq(Bytes)
      BY <1>2, <2>3, ConcatProperties
    <2>5. Zero \o data \in Seq(Nat)
      BY <2>4, BytesAreNumbers
    <2>6. BigSum(src) \in Nat /\ BigSum(dst) \in Nat /\ BigSum(Zero \o data) \in Nat
      BY <2>2, <2>5, SumsType
    <2>7. PROTO \in Nat /\ Len(data) \in Nat
      BY <1>2, IpAssumption, BytesAreNumbers
    <2> QED
      BY <2>6, <2>7
  <1> HIDE DEF sum
  <1>4. seg \in Seq(Bytes)
    <2>1. Internet(sum) \in Seq(Bytes)
      BY <1>3, InternetLemma
    <2> QED
      BY <1>2, <2>1, ConcatProperties
  <1> HIDE DEF seg
  <1>5. BigSum(hdr) \in Nat
    <2> DEFINE p == [src |-> src, dst |-> dst, seg |-> seg]
    <2>1. p.src \in Addrs /\ p.dst \in Addrs /\ p.seg \in Seq(Bytes)
      BY <1>4
    <2> HIDE DEF p
    <2>2. BigSum(Header(p)) \in Nat
      BY <2>1, HeaderType
    <2> QED
      BY <2>2 DEF p
  <1> HIDE DEF hdr
  <1>6. Internet(BigSum(hdr)) \in Seq(Bytes)
    BY <1>5, InternetLemma
  <1>7. packet' \in Packets
    BY <1>1, <1>2, <1>4, <1>6 DEF Packets
  <1>8. verdict' = "none"
    BY <1>1 DEF IpInv
  <1> QED
    BY <1>1, <1>7, <1>8 DEF IpInv, OwnPacketsDelivered, DamageNotDelivered

LEMMA DamageInv ==
  ASSUME IpInv, NEW k, NEW b \in Bytes, Damage(k, b)
  PROVE  IpInv'
  <1>1. /\ packet # << >> /\ origin = "self" /\ verdict = "none"
        /\ k \in DOMAIN packet.seg /\ b # packet.seg[k]
        /\ packet' = [packet EXCEPT !.seg[k] = b]
        /\ origin' = "damaged" /\ verdict' = verdict
    BY DEF Damage
  <1>2. packet \in Packets /\ Valid(packet)
    BY <1>1 DEF IpInv, AsSent
  <1>3. packet.src \in Addrs /\ packet.dst \in Addrs /\ packet.seg \in Seq(Bytes)
    BY <1>2 DEF Packets
  <1>4. k \in 1 .. Len(packet.seg)
    BY <1>1, <1>3
  <1> DEFINE bad == [packet.seg EXCEPT ![k] = b]
  <1>5. bad \in Seq(Bytes) /\ ~ tcp_validate_checksum(packet.src, packet.dst, bad)
    BY <1>1, <1>2, <1>3, <1>4, DamagedInvalid DEF Valid
  <1>6. packet' = [packet EXCEPT !.seg = bad]
    BY <1>1, <1>2 DEF Packets
  <1> HIDE DEF bad
  <1>7. packet' \in Packets
    BY <1>2, <1>5, <1>6 DEF Packets
  <1>8. packet'.src = packet.src /\ packet'.dst = packet.dst /\ packet'.seg = bad
    BY <1>2, <1>6 DEF Packets
  <1>9. ~ Valid(packet')
    BY <1>5, <1>8 DEF Valid
  <1> QED
    BY <1>1, <1>7, <1>9 DEF IpInv, OwnPacketsDelivered, DamageNotDelivered

LEMMA ReceiveInv ==
  ASSUME IpInv, Malformed \/ HeaderBad \/ Ignored \/ SegmentBad \/ Delivered
  PROVE  IpInv'
  <1>1. packet # << >> /\ packet' = packet /\ origin' = origin
    BY DEF Malformed, HeaderBad, Ignored, SegmentBad, Delivered, ToTcp, Arriving, Stop
  <1>2. OwnPacketsDelivered'
    <2> SUFFICES ASSUME origin = "self" PROVE verdict' \in {"none", "delivered"}
      BY <1>1 DEF OwnPacketsDelivered
    <2>1. AsSent(packet)
      BY DEF IpInv
    <2> QED
      BY <2>1 DEF AsSent, Valid, Malformed, HeaderBad, Ignored, SegmentBad, Delivered, ToTcp, Stop
  <1>3. DamageNotDelivered'
    <2> SUFFICES ASSUME origin = "damaged" PROVE verdict' # "delivered"
      BY <1>1 DEF DamageNotDelivered
    <2>1. ~ Valid(packet)
      BY DEF IpInv
    <2> QED
      BY <2>1 DEF Valid, Malformed, HeaderBad, Ignored, SegmentBad, Delivered, ToTcp, Stop
  <1> QED
    BY <1>1, <1>2, <1>3 DEF IpInv

LEMMA IpInvariant == Spec => []IpInv
  <1>1. Init => IpInv
    BY DEF Init, IpInv, OwnPacketsDelivered, DamageNotDelivered
  <1>2. IpInv /\ [Next]_vars => IpInv'
    <2> SUFFICES ASSUME IpInv, [Next]_vars PROVE IpInv'
      OBVIOUS
    <2>1. ASSUME NEW a \in Addrs \ {aether_ip}, NEW data \in Segs, ipv4_send(a, data)
          PROVE  IpInv'
      BY <2>1, SendInv
    <2>2. ASSUME NEW a \in Addrs \ {aether_ip}, NEW data \in Segs, NEW dst \in Addrs \ {a},
                 NEW cut \in Cuts, PeerSends(a, dst, data, cut)
          PROVE  IpInv'
      BY <2>2, PeerInv
    <2>3. ASSUME NEW n \in 1 .. (MaxSeg + 2), NEW b \in Bytes, Damage(n, b)
          PROVE  IpInv'
      BY <2>3, DamageInv
    <2>4. ASSUME Malformed \/ HeaderBad \/ Ignored \/ SegmentBad \/ Delivered
          PROVE  IpInv'
      BY <2>4, ReceiveInv
    <2>5. CASE Done
      BY <2>5 DEF Done, IpInv, OwnPacketsDelivered, DamageNotDelivered
    <2>6. CASE UNCHANGED vars
      BY <2>6 DEF vars, IpInv, OwnPacketsDelivered, DamageNotDelivered
    <2> QED
      BY <2>1, <2>2, <2>3, <2>4, <2>5, <2>6 DEF Next
  <1> QED
    BY <1>1, <1>2, PTL DEF Spec

(* ipv4_checksum, with its loop of folds, is the Internet checksum of every *)
(* header, however long the carries.                                       *)
THEOREM ChecksumIsInternet == Spec => []HeaderSumIsInternet
  <1>1. IpInv => HeaderSumIsInternet
    <2> SUFFICES ASSUME packet \in Packets
                 PROVE  BigBytes(ipv4_checksum(Header(packet))) = Internet(BigSum(Header(packet)))
      BY DEF IpInv, HeaderSumIsInternet
    <2>1. packet.src \in Addrs /\ packet.dst \in Addrs /\ packet.seg \in Seq(Bytes)
      BY DEF Packets
    <2>2. BigSum(Header(packet)) \in Nat
      BY <2>1, HeaderType
    <2> QED
      BY <2>2, InternetLemma DEF ipv4_checksum
  <1> QED
    BY <1>1, IpInvariant, PTL

(* Whatever is sent from here arrives at the TCP layer of a machine that   *)
(* runs this code: the receiver's sum is the sender's plus its completion. *)
THEOREM OwnPacketsArrive == Spec => []OwnPacketsDelivered
  <1>1. IpInv => OwnPacketsDelivered
    BY DEF IpInv
  <1> QED
    BY <1>1, IpInvariant, PTL

(* A byte changed anywhere in a segment changes the sum by less than       *)
(* WORD - 1, so tcp_validate_checksum refuses it.                          *)
THEOREM DamageIsSeen == Spec => []DamageNotDelivered
  <1>1. IpInv => DamageNotDelivered
    BY DEF IpInv
  <1> QED
    BY <1>1, IpInvariant, PTL

=============================================================================

------------------------------- MODULE FpuProofs -------------------------------
(***************************************************************************)
(* Proofs about Fpu, for every width of exponent and fraction: the         *)
(* registers hold canonical floats, and whatever a program computes with   *)
(* them is rounded as FloatsRound says.  An integer that has lost bits     *)
(* still compares with the multiples of 2, then of 4, as the exact value   *)
(* does (Tracks); that is what a significand keeps from the first shift to *)
(* the last, and all that rounding looks at.  The arithmetic with powers   *)
(* of two that it begins with is also that of MachineProofs.               *)
(***************************************************************************)
EXTENDS Fpu, FiniteSetTheorems, TLAPS

-----------------------------------------------------------------------------
\* Integers and powers of two.

\* A set of numbers has a smallest one.
LEMMA Smallest ==
    ASSUME NEW S \in SUBSET Nat, S # {}
    PROVE  \E x \in S : \A y \in S : x <= y
  <1> DEFINE R == OpToRel(<, Nat)
  <1>1. IsWellFoundedOn(R, Nat)
    BY NatLessThanWellFounded
  <1> HIDE DEF R
  <1>2. PICK x \in S : \A y \in S : ~(<<y, x>> \in R)
    BY <1>1, WFMin
  <1>3. \A y \in S : ~(y < x)
    BY <1>2 DEF R, OpToRel
  <1>4. QED
    BY <1>3

LEMMA RemainderIs ==
    ASSUME NEW x \in Int, NEW d \in Nat \ {0}
    PROVE  /\ x \div d \in Int /\ x % d \in 0..(d - 1) /\ x % d \in Nat
           /\ x = d * (x \div d) + (x % d)
  OBVIOUS

LEMMA SmallerProduct ==
    ASSUME NEW d \in Nat, NEW p \in Int, NEW q \in Int, p < q
    PROVE  d * p + d <= d * q
  <1>1. PICK k \in Nat : q = p + 1 + k
    <2>1. q - p - 1 \in Nat /\ q = p + 1 + (q - p - 1)
      OBVIOUS
    <2>2. QED
      BY <2>1
  <1>2. d * q = d * p + d + d * k
    BY <1>1
  <1>3. d * k \in Nat /\ d * p \in Int
    OBVIOUS
  <1>4. QED
    BY <1>2, <1>3

LEMMA NoLarger ==
    ASSUME NEW x \in Nat, NEW d \in Nat \ {0}
    PROVE  x \div d \in 0..x
  <1>1. PICK q \in Int, r \in 0..(d - 1) : q = x \div d /\ x = d * q + r
    <2>1. x \div d \in Int /\ x % d \in 0..(d - 1) /\ x = d * (x \div d) + (x % d)
      BY RemainderIs
    <2>2. QED
      BY <2>1, Zenon
  <1>2. q >= 0
    <2>1. d \in Nat /\ 0 \in Int /\ d * 0 = 0
      OBVIOUS
    <2>2. q < 0 => d * q + d <= d * 0
      BY <2>1, SmallerProduct, Zenon
    <2>3. PICK p \in Int : p = d * q
      OBVIOUS
    <2>4. QED
      BY <1>1, <2>1, <2>2, <2>3
  <1>3. q <= d * q
    <2>1. PICK j \in Nat : d = j + 1
      <3>1. d - 1 \in Nat /\ d = (d - 1) + 1
        OBVIOUS
      <3>2. QED
        BY <3>1
    <2>2. q \in Nat /\ j * q \in Nat
      BY <1>2
    <2>3. d * q = j * q + q
      BY <2>1, <2>2
    <2>4. QED
      BY <2>2, <2>3
  <1>4. PICK p \in Int : p = d * q
    OBVIOUS
  <1>5. QED
    BY <1>1, <1>2, <1>3, <1>4

LEMMA RemainderBy ==
    ASSUME NEW x \in Int, NEW d \in Nat \ {0}, NEW q \in Int, NEW r \in 0..(d - 1),
           x = d * q + r
    PROVE  x \div d = q /\ x % d = r
  <1>1. PICK p \in Int, s \in 0..(d - 1) : p = x \div d /\ s = x % d /\ x = d * p + s
    BY RemainderIs
  <1>2. PICK dp \in Int, dq \in Int : dp = d * p /\ dq = d * q
    OBVIOUS
  <1>3. ~(p < q)
    <2>1. p < q => dp + d <= dq
      BY <1>2, SmallerProduct
    <2>2. QED
      BY <1>1, <1>2, <2>1
  <1>4. ~(q < p)
    <2>1. q < p => dq + d <= dp
      BY <1>2, SmallerProduct
    <2>2. QED
      BY <1>1, <1>2, <2>1
  <1>5. p = q
    BY <1>3, <1>4
  <1>6. s = r
    BY <1>1, <1>5
  <1>7. QED
    BY <1>1, <1>5, <1>6

\* What is less than d is its own remainder, and less than twice d it is that or
\* d more; below zero it is d less.
LEMMA RemainderSmall ==
    ASSUME NEW d \in Nat \ {0}, NEW x \in 0..(d - 1)
    PROVE  x % d = x /\ x \div d = 0
  <1>1. x = d * 0 + x
    OBVIOUS
  <1>2. QED
    BY <1>1, RemainderBy

LEMMA RemainderOver ==
    ASSUME NEW d \in Nat \ {0}, NEW x \in d..(2 * d - 1)
    PROVE  x % d = x - d /\ x \div d = 1
  <1>1. x = d * 1 + (x - d) /\ x - d \in 0..(d - 1)
    OBVIOUS
  <1>2. QED
    BY <1>1, RemainderBy

LEMMA RemainderUnder ==
    ASSUME NEW d \in Nat \ {0}, NEW x \in (-d)..(-1)
    PROVE  x % d = x + d /\ x \div d = -1
  <1>1. x = d * (-1) + (x + d) /\ x + d \in 0..(d - 1) /\ -1 \in Int
    OBVIOUS
  <1>2. QED
    BY <1>1, RemainderBy

\* Multiples of d do not count.
LEMMA RemainderPlus ==
    ASSUME NEW x \in Int, NEW d \in Nat \ {0}, NEW k \in Int
    PROVE  /\ (x + d * k) % d = x % d
           /\ (x + d * k) \div d = (x \div d) + k
  <1>1. PICK p \in Int, s \in 0..(d - 1) : p = x \div d /\ s = x % d /\ x = d * p + s
    BY RemainderIs
  <1>2. x + d * k = d * (p + k) + s
    BY <1>1
  <1>3. x + d * k \in Int /\ p + k \in Int
    BY <1>1
  <1>4. QED
    BY <1>1, <1>2, <1>3, RemainderBy

LEMMA RemainderSame ==
    ASSUME NEW x \in Int, NEW y \in Int, NEW d \in Nat \ {0}, \E k \in Int : x = y + d * k
    PROVE  x % d = y % d
  <1>1. PICK k \in Int : x = y + d * k
    OBVIOUS
  <1>2. (y + d * k) % d = y % d
    BY RemainderPlus
  <1>3. QED
    BY <1>1, <1>2

\* Remainders can be taken early.
LEMMA RemainderOfSum ==
    ASSUME NEW x \in Int, NEW y \in Int, NEW d \in Nat \ {0}
    PROVE  /\ (x + y) % d = ((x % d) + y) % d
           /\ (x + y) % d = (x + (y % d)) % d
           /\ (x - y) % d = ((x % d) - y) % d
           /\ (x - y) % d = (x - (y % d)) % d
  <1>1. PICK p \in Int, s \in Int : p = x \div d /\ s = x % d /\ x = d * p + s
    BY RemainderIs
  <1>2. PICK q \in Int, t \in Int : q = y \div d /\ t = y % d /\ y = d * q + t
    BY RemainderIs
  <1>3. PICK m \in Int : m = -q
    OBVIOUS
  <1>4. (x + y) % d = (s + y) % d
    <2>1. x + y = (s + y) + d * p /\ x + y \in Int /\ s + y \in Int
      BY <1>1
    <2>2. \E k \in Int : x + y = (s + y) + d * k
      BY <2>1, Zenon
    <2>3. QED
      BY <2>1, <2>2, RemainderSame, ZenonT(60)
  <1>5. (x + y) % d = (x + t) % d
    <2>1. x + y = (x + t) + d * q /\ x + y \in Int /\ x + t \in Int
      BY <1>2
    <2>2. \E k \in Int : x + y = (x + t) + d * k
      BY <2>1, Zenon
    <2>3. QED
      BY <2>1, <2>2, RemainderSame, ZenonT(60)
  <1>6. (x - y) % d = (s - y) % d
    <2>1. x - y = (s - y) + d * p /\ x - y \in Int /\ s - y \in Int
      BY <1>1
    <2>2. \E k \in Int : x - y = (s - y) + d * k
      BY <2>1, Zenon
    <2>3. QED
      BY <2>1, <2>2, RemainderSame, ZenonT(60)
  <1>7. (x - y) % d = (x - t) % d
    <2>1. x - y = (x - t) + d * m /\ x - y \in Int /\ x - t \in Int
      BY <1>2, <1>3
    <2>2. \E k \in Int : x - y = (x - t) + d * k
      BY <2>1, Zenon
    <2>3. QED
      BY <2>1, <2>2, RemainderSame, ZenonT(60)
  <1>8. QED
    BY <1>1, <1>2, <1>4, <1>5, <1>6, <1>7

LEMMA PowerIs ==
    ASSUME NEW n \in Nat
    PROVE  /\ IsFiniteSet(SUBSET (1..n)) /\ Cardinality(SUBSET (1..n)) = 2^n
           /\ 2^n \in Nat \ {0}
  <1>1. IsFiniteSet(1..n) /\ Cardinality(1..n) = n
    BY FS_Interval
  <1>2. IsFiniteSet(SUBSET (1..n)) /\ Cardinality(SUBSET (1..n)) = 2^n
    BY <1>1, FS_SUBSET
  <1>3. SUBSET (1..n) # {}
    OBVIOUS
  <1>4. Cardinality(SUBSET (1..n)) \in Nat /\ Cardinality(SUBSET (1..n)) # 0
    BY <1>2, <1>3, FS_CardinalityType, FS_EmptySet
  <1>5. QED
    BY <1>2, <1>4

\* The subsets of 1..(n + 1) are those without and those with its last element.
LEMMA PowerNext ==
    ASSUME NEW n \in Nat
    PROVE  2^(n + 1) = 2 * 2^n
  <1> DEFINE S == SUBSET (1..n)
             T == {A \cup {n + 1} : A \in S}
             f == [A \in S |-> A \cup {n + 1}]
  <1>1. IsFiniteSet(S) /\ Cardinality(S) = 2^n /\ 2^n \in Nat
    BY PowerIs
  <1>2. Cardinality(SUBSET (1..(n + 1))) = 2^(n + 1)
    BY PowerIs
  <1>3. SUBSET (1..(n + 1)) = S \cup T
    <2>1. 1..(n + 1) = (1..n) \cup {n + 1}
      OBVIOUS
    <2>2. ASSUME NEW A \in SUBSET ((1..n) \cup {n + 1})
          PROVE  A \in S \cup T
      <3>1. CASE n + 1 \in A
        <4>1. A \ {n + 1} \in S /\ A = (A \ {n + 1}) \cup {n + 1}
          BY <3>1, Zenon
        <4>2. QED
          BY <4>1, Zenon
      <3>2. CASE n + 1 \notin A
        BY <3>2
      <3>3. QED
        BY <3>1, <3>2
    <2>3. S \cup T \subseteq SUBSET ((1..n) \cup {n + 1})
      BY Zenon
    <2>4. QED
      BY <2>1, <2>2, <2>3, Zenon
  <1>4. S \cap T = {}
    <2>1. n + 1 \notin 1..n
      OBVIOUS
    <2>2. QED
      BY <2>1, Zenon
  <1>5. f \in Bijection(S, T)
    <2>1. f \in [S -> T] /\ \A t \in T : \E A \in S : f[A] = t
      BY Zenon
    <2>2. n + 1 \notin 1..n
      OBVIOUS
    <2>3. ASSUME NEW A \in S, NEW B \in S, f[A] = f[B]
          PROVE  A = B
      BY <2>2, <2>3, Zenon
    <2>4. f \in Injection(S, T) /\ f \in Surjection(S, T)
      BY <2>1, <2>3, Zenon DEF Injection, Surjection, IsInjective
    <2>5. QED
      BY <2>4, Zenon DEF Bijection
  <1>6. IsFiniteSet(T) /\ Cardinality(T) = Cardinality(S)
    BY <1>1, <1>5, FS_Bijection, ZenonT(60) DEF ExistsBijection
  <1>7. Cardinality(S \cup T) = Cardinality(S) + Cardinality(T) - Cardinality(S \cap T)
    BY <1>1, <1>6, FS_Union
  <1>8. Cardinality(S \cap T) = 0
    BY <1>4, FS_EmptySet
  <1> HIDE DEF S, T
  <1>9. PICK a \in Nat : a = 2^n
    BY <1>1
  <1>10. Cardinality(S \cup T) = a + a - 0
    BY <1>1, <1>6, <1>7, <1>8, <1>9, Zenon
  <1>11. 2^(n + 1) = a + a - 0
    BY <1>2, <1>3, <1>10, Zenon
  <1>12. QED
    BY <1>9, <1>11

LEMMA PowerSplit ==
    ASSUME NEW m \in Nat, NEW n \in Nat
    PROVE  2^(m + n) = 2^m * 2^n
  <1> DEFINE S == {k \in Nat : 2^(m + k) # 2^m * 2^k}
  <1>1. CASE S # {}
    <2>1. PICK k \in S : \A j \in S : k <= j
      BY <1>1, Smallest, Zenon
    <2>2. k # 0
      <3>1. PICK a \in Nat : a = 2^m
        BY PowerIs
      <3>2. m + 0 = m /\ a * 1 = a /\ 2^0 = 1
        OBVIOUS
      <3>3. QED
        BY <2>1, <3>1, <3>2, Zenon
    <2>3. PICK i \in Nat : k = i + 1
      <3>1. k - 1 \in Nat /\ k = (k - 1) + 1
        BY <2>1, <2>2
      <3>2. QED
        BY <3>1
    <2>4. 2^(m + i) = 2^m * 2^i
      <3>1. i \notin S
        BY <2>1, <2>3
      <3>2. QED
        BY <3>1
    <2>5. PICK a \in Nat, b \in Nat : a = 2^m /\ b = 2^i
      BY PowerIs
    <2>6. 2^(i + 1) = 2 * b
      BY <2>5, PowerNext
    <2>7. 2^((m + i) + 1) = 2 * (a * b)
      <3>1. m + i \in Nat
        OBVIOUS
      <3>2. 2^((m + i) + 1) = 2 * 2^(m + i)
        BY <3>1, PowerNext
      <3>3. QED
        BY <2>4, <2>5, <3>2
    <2>8. m + k = (m + i) + 1
      BY <2>3
    <2>9. 2 * (a * b) = a * (2 * b)
      OBVIOUS
    <2>10. 2^(m + k) = 2^m * 2^k
      BY <2>3, <2>5, <2>6, <2>7, <2>8, <2>9, Zenon
    <2>11. QED
      BY <2>1, <2>10
  <1>2. CASE S = {}
    BY <1>2
  <1>3. QED
    BY <1>1, <1>2

\* The weights of bits: the top one of n is half of all they can hold.
LEMMA Halves ==
    ASSUME NEW n \in Nat \ {0}
    PROVE  /\ n - 1 \in Nat /\ 2^(n - 1) \in Nat \ {0} /\ 2^n \in Nat \ {0}
           /\ 2^n = 2 * 2^(n - 1)
  <1>1. PICK m \in Nat : m = n - 1 /\ n = m + 1
    <2>1. n - 1 \in Nat /\ n = (n - 1) + 1
      OBVIOUS
    <2>2. QED
      BY <2>1
  <1>2. 2^(m + 1) = 2 * 2^m
    BY PowerNext
  <1>3. 2^m \in Nat \ {0} /\ 2^n \in Nat \ {0}
    BY PowerIs, Zenon
  <1>4. QED
    BY <1>1, <1>2, <1>3, Zenon

LEMMA PowerDivides ==
    ASSUME NEW m \in Nat, NEW n \in Nat, m <= n
    PROVE  \E k \in Nat \ {0} : 2^n = 2^m * k
  <1>1. n - m \in Nat /\ n = m + (n - m)
    OBVIOUS
  <1>2. PICK j \in Nat : n = m + j
    BY <1>1
  <1>3. 2^n = 2^m * 2^j /\ 2^j \in Nat \ {0}
    BY <1>2, PowerSplit, PowerIs
  <1>4. QED
    BY <1>3, Zenon

LEMMA PowerOrder ==
    ASSUME NEW m \in Nat, NEW n \in Nat, m <= n
    PROVE  2^m <= 2^n /\ (2^m # 2^n => 2 * 2^m <= 2^n)
  <1>1. PICK M \in Nat \ {0}, V \in Nat \ {0} : M = 2^m /\ V = 2^n
    BY PowerIs
  <1>2. PICK k \in Nat \ {0} : V = M * k
    BY <1>1, PowerDivides
  <1>3. M * 1 = M
    OBVIOUS
  <1>4. CASE k > 1
    <2>1. M * 1 + M <= M * k
      BY <1>4, SmallerProduct
    <2>2. QED
      BY <1>1, <1>2, <1>3, <2>1
  <1>5. QED
    BY <1>1, <1>2, <1>3, <1>4

\* A register of which fewer bits are looked at.
LEMMA MaskTwice ==
    ASSUME NEW m \in Nat, NEW n \in Nat, m <= n, NEW x \in Int
    PROVE  /\ (x % 2^n) % 2^m = x % 2^m
           /\ x % 2^n \in 0..(2^n - 1) /\ x % 2^m \in 0..(2^m - 1)
           /\ x % 2^n \in Nat /\ x % 2^m \in Nat
  <1>1. PICK M \in Nat \ {0}, V \in Nat \ {0} : M = 2^m /\ V = 2^n
    BY PowerIs
  <1>2. PICK k \in Nat : V = M * k
    BY <1>1, PowerDivides
  <1>3. PICK p \in Int, s \in Int : s = x % V /\ x = V * p + s
    BY RemainderIs
  <1>4. x = s + M * (k * p)
    <2>1. V * p = M * (k * p)
      <3>1. (M * k) * p = M * (k * p)
        OBVIOUS
      <3>2. QED
        BY <1>2, <3>1, Zenon
    <2>2. V * p \in Int
      OBVIOUS
    <2>3. QED
      BY <1>3, <2>1, <2>2
  <1>5. \E j \in Int : x = s + M * j
    <2>1. k * p \in Int
      OBVIOUS
    <2>2. QED
      BY <1>4, <2>1, Zenon
  <1>6. x % M = s % M
    BY <1>5, RemainderSame, Zenon
  <1>7. /\ x % V \in 0..(V - 1) /\ x % M \in 0..(M - 1)
        /\ x % V \in Nat /\ x % M \in Nat
    BY RemainderIs
  <1>8. QED
    BY <1>1, <1>3, <1>6, <1>7, Zenon

LEMMA ProductBelow ==
    ASSUME NEW M \in Nat \ {0}, NEW a \in 0..(M - 1), NEW b \in 0..(M - 1)
    PROVE  a * b \in 0..(M * M - 1)
  <1>1. a \in Nat /\ b \in Nat /\ a \in Int /\ b \in Int /\ M \in Int /\ a < M /\ b < M /\ M \in Nat
    OBVIOUS
  <1>2. a * b + a <= a * M /\ M * a + M <= M * M
    BY <1>1, SmallerProduct, Zenon
  <1>3. a * b \in Nat /\ a * M = M * a
    BY <1>1
  <1>4. PICK p \in Nat, q \in Int, r \in Int : p = a * b /\ q = M * a /\ r = M * M
    BY <1>1, <1>3
  <1>5. p \in 0..(r - 1)
    BY <1>1, <1>2, <1>3, <1>4
  <1>6. QED
    BY <1>4, <1>5, Zenon

-----------------------------------------------------------------------------
\* Floats.

LEMMA FloatNumbers ==
    /\ FRAC \in Nat \ {0} /\ FRAC >= 4 /\ WIDE \in Nat \ {0} /\ WIDE > 2 * FRAC + 5
    /\ MAXE \in Nat /\ BIAS \in Int /\ NR_REGS \in Nat \ {0} /\ MaxLoads \in Nat
    /\ 2^FRAC \in Nat \ {0} /\ 2^(FRAC + 1) = 2 * 2^FRAC
    /\ 2^(FRAC - 1) \in 0..(2^FRAC - 1) /\ 2^WIDE \in Nat \ {0} /\ Lead \in Nat \ {0}
  <1>1. /\ FRAC \in Nat \ {0} /\ FRAC >= 4 /\ WIDE \in Nat \ {0} /\ WIDE > 2 * FRAC + 5
        /\ EXP \in Nat \ {0} /\ NR_REGS \in Nat \ {0} /\ MaxLoads \in Nat
    BY FloatShape
  <1>2. 2^EXP \in Nat \ {0} /\ 2^(EXP - 1) \in Nat \ {0}
    BY <1>1, Halves
  <1>3. PICK h \in Nat \ {0}, f \in Nat \ {0} : h = 2^(FRAC - 1) /\ f = 2^FRAC /\ f = 2 * h
    BY <1>1, Halves
  <1>4. FRAC \in Nat /\ FRAC + 3 \in Nat /\ WIDE \in Nat
    BY <1>1
  <1>5. 2^(FRAC + 1) = 2 * 2^FRAC /\ 2^(FRAC + 3) \in Nat \ {0} /\ 2^WIDE \in Nat \ {0}
    BY <1>4, PowerNext, PowerIs, Zenon
  <1>6. h \in 0..(f - 1)
    BY <1>3
  <1>7. MAXE \in Nat /\ BIAS \in Int
    BY <1>2 DEF MAXE, BIAS
  <1>8. QED
    BY <1>1, <1>3, <1>5, <1>6, <1>7 DEF Lead

LEMMA CornersAreFloats ==
    ASSUME NEW s \in {0, 1}
    PROVE  Zero(s) \in Float /\ Inf(s) \in Float /\ NaN(s) \in Float
  <1>1. PICK f \in Nat \ {0}, h \in Nat : f = 2^FRAC /\ h = 2^(FRAC - 1) /\ h \in 0..(f - 1)
    BY FloatNumbers
  <1>2. MAXE \in Nat /\ 0 \in 0..(f - 1)
    BY FloatNumbers
  <1>3. QED
    BY <1>1, <1>2 DEF Zero, Inf, NaN, Float

LEMMA FewestIs ==
    ASSUME NEW K, K \subseteq Nat, K # {}
    PROVE  Fewest(K) \in K /\ \A j \in K : Fewest(K) <= j
  <1>1. \E k \in K : \A j \in K : k <= j
    BY Smallest
  <1>2. QED
    BY <1>1, Zenon DEF Fewest

LEMMA JammedIs ==
    ASSUME NEW x \in Nat, NEW k \in Nat
    PROVE  /\ Jammed(x, k) \in Nat /\ Jammed(x, k) <= x
           /\ x < 2^k => Jammed(x, k) <= 1
  <1>1. PICK S \in Nat \ {0} : S = 2^k
    BY PowerIs
  <1>2. PICK q \in Int, r \in 0..(S - 1) : q = x \div S /\ r = x % S /\ x = S * q + r
    <2>1. x \div S \in Int /\ x % S \in 0..(S - 1) /\ x = S * (x \div S) + (x % S)
      BY RemainderIs
    <2>2. QED
      BY <2>1, Zenon
  <1>3. q \in 0..x
    BY <1>2, NoLarger
  <1>4. r # 0 => q < x
    <2>1. CASE S = 1
      BY <2>1
    <2>2. CASE q < 1
      BY <1>2, <1>3, <2>2
    <2>3. CASE S > 1 /\ q >= 1
      <3>1. q \in Nat /\ 1 \in Int /\ S \in Int /\ q * 1 = q
        BY <1>3
      <3>2. q * 1 + q <= q * S
        BY <2>3, <3>1, SmallerProduct, Zenon
      <3>3. PICK p \in Int : p = S * q /\ p = q * S
        OBVIOUS
      <3>4. QED
        BY <1>2, <2>3, <3>1, <3>2, <3>3
    <2>4. QED
      BY <1>3, <2>1, <2>2, <2>3
  <1>6. PICK b \in {0, 1} : Jammed(x, k) = q + b /\ (b = 1 => r # 0)
    BY <1>1, <1>2 DEF Jammed
  <1>7. q + b \in Nat /\ q + b <= x
    BY <1>3, <1>4, <1>6
  <1>8. x < S => q = 0
    <2>1. x < S => x \in 0..(S - 1)
      OBVIOUS
    <2>2. QED
      BY <1>2, <2>1, RemainderSmall
  <1>9. QED
    BY <1>1, <1>6, <1>7, <1>8

LEMMA SignificandIs ==
    ASSUME NEW f \in Float
    PROVE  /\ sig(f) \in Nat /\ sig(f) < 2^(FRAC + 1) /\ (f \notin Zeros => sig(f) # 0)
           /\ scale(f) \in Nat /\ f.exponent \in 0..MAXE /\ f.sign \in {0, 1}
  <1>1. PICK F \in Nat \ {0} : F = 2^FRAC /\ 2^(FRAC + 1) = 2 * F
    BY FloatNumbers
  <1>2. /\ f.exponent \in 0..MAXE /\ f.sign \in {0, 1} /\ f.fraction \in 0..(F - 1)
        /\ f = [sign |-> f.sign, exponent |-> f.exponent, fraction |-> f.fraction]
    BY <1>1 DEF Float
  <1>3. sig(f) \in Nat /\ sig(f) < 2 * F
    BY <1>1, <1>2 DEF sig
  <1>4. sig(f) = 0 => f.fraction = 0 /\ f.exponent = 0
    BY <1>1, <1>2 DEF sig
  <1>5. f.fraction = 0 /\ f.exponent = 0 => f \in Zeros
    BY <1>2 DEF Zeros, Zero
  <1>6. scale(f) \in Nat
    BY <1>2, FloatNumbers DEF scale
  <1>7. QED
    BY <1>1, <1>2, <1>3, <1>4, <1>5, <1>6

\* Whatever is not too large for its integer is normalized and rounded to a float.
LEMMA NormalizedIs ==
    ASSUME NEW e \in Int, NEW x \in 0..(2^WIDE - 1)
    PROVE  Normalized(e, x).exp \in Nat /\ Normalized(e, x).sig \in Nat
  <1>1. /\ WIDE \in Nat /\ MAXE \in Nat /\ Lead \in Nat \ {0}
        /\ 2^WIDE \in Nat /\ 0 \in Nat /\ 1 \in Nat
    BY FloatNumbers
  <1>2. x \in Nat /\ x < 2^WIDE
    BY <1>1
  <1>3. RightShift(e, x) \in Nat
    <2> DEFINE K == {k \in 0..WIDE : LET g == Jammed(x, k) IN
                        ~(g >= 2 * Lead /\ e + k < MAXE) /\ ~(g > 4 /\ e + k < 0)}
    <2>1. Jammed(x, WIDE) \in Nat /\ Jammed(x, WIDE) <= 1
      BY <1>1, <1>2, JammedIs
    <2>2. WIDE \in K
      BY <1>1, <2>1
    <2>3. K \subseteq Nat
      OBVIOUS
    <2>4. RightShift(e, x) = Fewest(K)
      BY DEF RightShift
    <2> HIDE DEF K
    <2>5. QED
      BY <2>2, <2>3, <2>4, FewestIs
  <1>4. ASSUME e > 0
        PROVE  LeftShift(e, x) \in 0..e
    <2> DEFINE K == {k \in 0..e : x * 2^k >= Lead \/ k = e}
    <2>1. e \in K /\ K \subseteq Nat /\ K \subseteq 0..e
      BY <1>4
    <2>2. LeftShift(e, x) = Fewest(K)
      BY DEF LeftShift
    <2> HIDE DEF K
    <2>3. QED
      BY <2>1, <2>2, FewestIs
  <1>5. CASE x >= 2 * Lead \/ e < 0
    <2>1. PICK k \in Nat : k = RightShift(e, x)
      BY <1>3
    <2>2. PICK g \in Nat : g = Jammed(Jammed(x, k), IF e + k = 0 THEN 1 ELSE 0)
      <3>1. Jammed(x, k) \in Nat
        BY <1>2, JammedIs
      <3>2. Jammed(Jammed(x, k), 1) \in Nat /\ Jammed(Jammed(x, k), 0) \in Nat
        BY <3>1, JammedIs
      <3>3. QED
        BY <3>2
    <2>3. Normalized(e, x) = IF e + k >= MAXE THEN [exp |-> MAXE, sig |-> 0]
                             ELSE IF e + k < 0 THEN [exp |-> 0, sig |-> 0]
                             ELSE [exp |-> e + k, sig |-> g]
      BY <1>5, <2>1, <2>2 DEF Normalized
    <2>4. QED
      BY <1>1, <2>3
  <1>6. CASE ~(x >= 2 * Lead \/ e < 0) /\ x < Lead /\ e > 0
    <2>1. PICK k \in 0..e : k = LeftShift(e, x)
      BY <1>4, <1>6
    <2>2. x * 2^k \in Nat
      <3>1. k \in Nat
        OBVIOUS
      <3>2. PICK S \in Nat : S = 2^k
        BY <3>1, PowerIs
      <3>3. x * S \in Nat
        BY <1>2
      <3>4. QED
        BY <3>2, <3>3
    <2>3. PICK g \in Nat : g = Jammed(x * 2^k, IF e = k THEN 1 ELSE 0)
      <3>1. Jammed(x * 2^k, 1) \in Nat /\ Jammed(x * 2^k, 0) \in Nat
        BY <1>1, <2>2, JammedIs
      <3>2. QED
        BY <3>1
    <2>4. Normalized(e, x) = [exp |-> e - k, sig |-> g]
      BY <1>6, <2>1, <2>3 DEF Normalized
    <2>5. QED
      BY <2>4
  <1>7. CASE ~(x >= 2 * Lead \/ e < 0) /\ ~(x < Lead /\ e > 0)
    <2>1. Normalized(e, x) = [exp |-> IF e = 0 /\ x >= Lead THEN 1 ELSE e, sig |-> x]
      BY <1>7 DEF Normalized
    <2>2. QED
      BY <1>2, <1>7, <2>1
  <1>8. QED
    BY <1>5, <1>6, <1>7

LEMMA PackedIs ==
    ASSUME NEW s \in {0, 1}, NEW e \in Nat, NEW q \in Nat
    PROVE  Packed(s, e, q) \in Float
  <1>1. PICK F \in Nat \ {0} : F = 2^FRAC /\ 2^(FRAC + 1) = 2 * F
    BY FloatNumbers
  <1> DEFINE c == q >= 2^(FRAC + 1)
             x == IF c /\ e < MAXE THEN e + 1 ELSE e
             f == (IF c THEN q \div 2 ELSE q) % 2^FRAC
  <1>2. MAXE \in Nat /\ x \in Nat
    BY FloatNumbers
  <1>3. f \in 0..(F - 1)
    <2>1. (IF c THEN q \div 2 ELSE q) \in Int
      OBVIOUS
    <2>2. QED
      BY <1>1, <2>1, RemainderIs
  <1>4. Packed(s, e, q) = IF x >= MAXE THEN Inf(s)
                          ELSE [sign |-> s, exponent |-> x, fraction |-> f]
    BY DEF Packed
  <1> HIDE DEF x, f
  <1>5. CASE x >= MAXE
    BY <1>4, <1>5, CornersAreFloats
  <1>6. CASE ~(x >= MAXE)
    BY <1>1, <1>2, <1>3, <1>4, <1>6 DEF Float
  <1>7. QED
    BY <1>5, <1>6

LEMMA NormalizeIs ==
    ASSUME NEW s \in {0, 1}, NEW e \in Int, NEW x \in 0..(2^WIDE - 1)
    PROVE  internal_normalize(s, e, x) \in Float
  <1>1. PICK a \in Nat, g \in Nat : a = Normalized(e, x).exp /\ g = Normalized(e, x).sig
    BY NormalizedIs
  <1>2. Rounded(g) \in Nat
    BY DEF Rounded
  <1>3. internal_normalize(s, e, x) = Packed(s, a, Rounded(g))
    BY <1>1 DEF internal_normalize
  <1>4. QED
    BY <1>2, <1>3, PackedIs

\* The widest integers that are worked with.
LEMMA WideIs ==
    /\ 2^(2 * FRAC + 2) < 2^WIDE /\ 2^(FRAC + 5) < 2^WIDE /\ 2^(FRAC + 1) < 2^WIDE
    /\ 2^(FRAC + 5) = 16 * 2^(FRAC + 1) /\ 2^(2 * FRAC + 2) = 2^(FRAC + 1) * 2^(FRAC + 1)
    /\ 2^(FRAC + 1) \in Nat \ {0}
  <1>1. PICK f \in Nat, w \in Nat : f = FRAC /\ w = WIDE /\ f >= 4 /\ w > 2 * f + 5
    BY FloatNumbers
  <1>2. ASSUME NEW m \in Nat, m < w
        PROVE  2^m < 2^w
    <2>1. m + 1 \in Nat /\ m + 1 <= w
      BY <1>2
    <2>2. 2^(m + 1) <= 2^w /\ 2^(m + 1) = 2 * 2^m /\ 2^m \in Nat \ {0} /\ 2^w \in Nat \ {0}
      BY <2>1, PowerOrder, PowerNext, PowerIs, Zenon
    <2>3. PICK a \in Nat \ {0}, b \in Nat : a = 2^m /\ b = 2^w /\ 2 * a <= b
      BY <2>2
    <2>4. QED
      BY <2>3
  <1>3. 2^(2 * f + 2) < 2^w /\ 2^(f + 5) < 2^w /\ 2^(f + 1) < 2^w
    BY <1>1, <1>2
  <1>4. 2^(f + 5) = 16 * 2^(f + 1)
    <2>1. (f + 1) + 4 = f + 5 /\ f + 1 \in Nat /\ 4 \in Nat /\ 2^4 = 16
      OBVIOUS
    <2>2. 2^((f + 1) + 4) = 2^(f + 1) * 2^4
      BY <2>1, PowerSplit, Zenon
    <2>3. PICK a \in Nat : a = 2^(f + 1)
      BY <2>1, PowerIs
    <2>4. a * 16 = 16 * a
      OBVIOUS
    <2>5. QED
      BY <2>1, <2>2, <2>3, <2>4, Zenon
  <1>5. 2^(2 * f + 2) = 2^(f + 1) * 2^(f + 1)
    <2>1. (f + 1) + (f + 1) = 2 * f + 2 /\ f + 1 \in Nat
      OBVIOUS
    <2>2. 2^((f + 1) + (f + 1)) = 2^(f + 1) * 2^(f + 1)
      BY <2>1, PowerSplit, Zenon
    <2>3. QED
      BY <2>1, <2>2, Zenon
  <1>6. 2^(f + 1) \in Nat \ {0}
    <2>1. f + 1 \in Nat
      OBVIOUS
    <2>2. QED
      BY <2>1, PowerIs, Zenon
  <1>7. QED
    BY <1>1, <1>3, <1>4, <1>5, <1>6, Zenon

LEMMA SignOfIs ==
    ASSUME NEW a \in Float, NEW b \in Float
    PROVE  /\ SignOf(a, b) \in {0, 1}
           /\ Zero(SignOf(a, b)) \in Float /\ Inf(SignOf(a, b)) \in Float /\ NaNOf(a, b) \in Float
  <1>1. PICK s \in {0, 1}, t \in {0, 1} : s = a.sign /\ t = b.sign
    BY SignificandIs
  <1>2. SignOf(a, b) \in {0, 1}
    BY <1>1 DEF SignOf
  <1>3. QED
    BY <1>2, CornersAreFloats DEF NaNOf

-----------------------------------------------------------------------------
\* How floats are rounded.  Of a value P / U the unit keeps an integer x that
\* compares with the multiples of m as the value does: Tracks where x may have
\* lost what the value is above such a multiple, Meets where it has not.

Tracks(m, x, P, U) == \A n \in Int :
    /\ x < m * n <=> P < (m * n) * U
    /\ m * n < x => (m * n) * U < P
Meets(m, x, P, U) == \A n \in Int : x = m * n => P = (m * n) * U

\* A bit that falls out and sticks tells a number from the even ones.
LEMMA JammedTells ==
    ASSUME NEW x \in Int, NEW k \in Nat, NEW n \in Int
    PROVE  /\ Jammed(x, k) < 2 * n <=> x < 2^k * (2 * n)
           /\ 2 * n < Jammed(x, k) <=> 2^k * (2 * n) < x
           /\ Jammed(x, k) \in Int
  <1>1. PICK K \in Nat \ {0} : K = 2^k
    BY PowerIs
  <1>2. PICK d \in Int, r \in 0..(K - 1) : d = x \div K /\ r = x % K /\ x = K * d + r
    <2>1. x \div K \in Int /\ x % K \in 0..(K - 1) /\ x = K * (x \div K) + (x % K)
      BY RemainderIs
    <2>2. QED
      BY <2>1, Zenon
  <1>3. PICK J \in Int : /\ J = Jammed(x, k)
                         /\ J = d + IF r # 0 /\ d % 2 = 0 THEN 1 ELSE 0
    <2>1. Jammed(x, k) = d + IF r # 0 /\ d % 2 = 0 THEN 1 ELSE 0
      BY <1>1, <1>2, Zenon DEF Jammed
    <2>2. PICK o \in {0, 1} : o = IF r # 0 /\ d % 2 = 0 THEN 1 ELSE 0
      OBVIOUS
    <2>3. d + o \in Int
      OBVIOUS
    <2>4. QED
      BY <2>1, <2>2, <2>3, Zenon
  <1>4. PICK m \in Int : m = 2 * n
    OBVIOUS
  <1>5. PICK pd \in Int, pm \in Int : pd = K * d /\ pm = K * m
    OBVIOUS
  <1>6. d < m => pd + K <= pm
    BY <1>5, SmallerProduct
  <1>7. m < d => pm + K <= pd
    BY <1>5, SmallerProduct
  <1>8. d = m => pd = pm /\ d % 2 = 0
    BY <1>4, <1>5
  <1>9. d + 1 = m => d % 2 = 1
    BY <1>4
  <1>10. (J < m <=> x < pm) /\ (m < J <=> pm < x)
    <2>1. CASE d < m
      <3>1. J < m
        BY <1>3, <1>9, <2>1
      <3>2. QED
        BY <1>2, <1>5, <1>6, <2>1, <3>1
    <2>2. CASE m < d
      BY <1>2, <1>3, <1>5, <1>7, <2>2
    <2>3. CASE d = m
      BY <1>2, <1>3, <1>5, <1>8, <2>3
    <2>4. QED
      BY <2>1, <2>2, <2>3
  <1>11. QED
    BY <1>1, <1>3, <1>4, <1>5, <1>10

LEMMA JammedTracks ==
    ASSUME NEW x \in Int, NEW k \in Nat, NEW P \in Int, NEW U \in Int,
           Tracks(2, x, P, U)
    PROVE  /\ Tracks(2, Jammed(x, k), P, U * 2^k)
           /\ Meets(2, x, P, U) => Meets(2, Jammed(x, k), P, U * 2^k)
  <1>1. PICK K \in Nat \ {0} : K = 2^k
    BY PowerIs
  <1>2. PICK J \in Int : J = Jammed(x, k)
    BY JammedTells
  <1>3. ASSUME NEW n \in Int
        PROVE  /\ J < 2 * n <=> P < (2 * n) * (U * K)
               /\ 2 * n < J => (2 * n) * (U * K) < P
               /\ Meets(2, x, P, U) /\ J = 2 * n => P = (2 * n) * (U * K)
    <2>1. (J < 2 * n <=> x < K * (2 * n)) /\ (2 * n < J <=> K * (2 * n) < x)
      BY <1>1, <1>2, JammedTells
    <2>2. PICK j \in Int : j = n * K
      OBVIOUS
    <2>3. K * (2 * n) = 2 * j
      BY <2>2
    <2>4. (2 * n) * (U * K) = (2 * j) * U
      <3>1. (2 * n) * (U * K) = (2 * (n * K)) * U
        OBVIOUS
      <3>2. QED
        BY <2>2, <3>1, Zenon
    <2>5. PICK V \in Int : V = (2 * j) * U
      OBVIOUS
    <2>6. (x < 2 * j <=> P < V) /\ (2 * j < x => V < P)
      BY <2>5 DEF Tracks
    <2>7. Meets(2, x, P, U) /\ x = 2 * j => P = V
      BY <2>5 DEF Meets
    <2>8. QED
      BY <2>1, <2>3, <2>4, <2>5, <2>6, <2>7
  <1>4. QED
    BY <1>1, <1>2, <1>3 DEF Tracks, Meets

\* The multiples of 4 are multiples of 2.
LEMMA TracksByFour ==
    ASSUME NEW x \in Int, NEW P \in Int, NEW U \in Int, Tracks(2, x, P, U)
    PROVE  Tracks(4, x, P, U) /\ (Meets(2, x, P, U) => Meets(4, x, P, U))
  <1>1. ASSUME NEW n \in Int
        PROVE  /\ x < 4 * n <=> P < (4 * n) * U
               /\ 4 * n < x => (4 * n) * U < P
               /\ Meets(2, x, P, U) /\ x = 4 * n => P = (4 * n) * U
    <2>1. PICK j \in Int : j = 2 * n /\ 2 * j = 4 * n
      OBVIOUS
    <2>2. /\ x < 2 * j <=> P < (2 * j) * U
          /\ 2 * j < x => (2 * j) * U < P
      BY DEF Tracks
    <2>3. Meets(2, x, P, U) /\ x = 2 * j => P = (2 * j) * U
      BY DEF Meets
    <2>4. QED
      BY <2>1, <2>2, <2>3, Zenon
  <1>2. QED
    BY <1>1 DEF Tracks, Meets

\* Q units of size U are as near to the value P / (8 * U) units as any other
\* number of them, and if another is as near Q is even.
Within(Q, U, P) ==
    /\ 8 * (Q * U) - 4 * U <= P /\ P <= 8 * (Q * U) + 4 * U
    /\ (P = 8 * (Q * U) - 4 * U \/ P = 8 * (Q * U) + 4 * U) => Q % 2 = 0

\* What is rounded is the nearest; or its even neighbour below, where half a unit
\* is left and what was lost above it cannot be seen.
LEMMA RoundedWithin ==
    ASSUME NEW G \in Nat, NEW P \in Int, NEW U \in Nat \ {0}, Tracks(4, G, P, U),
           NEW Q, Q = Rounded(G)
    PROVE  /\ Q \in Nat /\ G <= 8 * Q + 4 /\ 8 * Q <= G + 4
           /\ \/ Within(Q, U, P)
              \/ Within(Q + 1, U, P) /\ Q % 2 = 0 /\ G = 8 * Q + 4
           /\ Meets(4, G, P, U) => Within(Q, U, P)
  <1>1. PICK c \in Nat, r \in 0..7 : c = G \div 8 /\ r = G % 8 /\ G = 8 * c + r
    OBVIOUS
  <1>2. Q = c + IF r > 4 \/ (r = 4 /\ c % 2 = 1) THEN 1 ELSE 0
    BY <1>1, Zenon DEF Rounded
  <1>3. PICK V \in Int : V = c * U
    OBVIOUS
  <1>4. /\ (4 * (2 * c)) * U = 8 * V
        /\ (4 * (2 * c + 1)) * U = 8 * V + 4 * U
        /\ (4 * (2 * c + 2)) * U = 8 * V + 8 * U
        /\ (c + 1) * U = V + U
    BY <1>3
  <1>5. 2 * c \in Int /\ 2 * c + 1 \in Int /\ 2 * c + 2 \in Int
    OBVIOUS
  <1>6. ~(P < 8 * V)
    <2>1. G < 4 * (2 * c) <=> P < 8 * V
      BY <1>4, <1>5, Zenon DEF Tracks
    <2>2. QED
      BY <1>1, <2>1
  <1>7. /\ G < 4 * (2 * c + 1) <=> P < 8 * V + 4 * U
        /\ 4 * (2 * c + 1) < G => 8 * V + 4 * U < P
        /\ Meets(4, G, P, U) /\ G = 4 * (2 * c + 1) => P = 8 * V + 4 * U
    BY <1>4, <1>5, Zenon DEF Tracks, Meets
  <1>8. P < 8 * V + 8 * U
    <2>1. G < 4 * (2 * c + 2) <=> P < 8 * V + 8 * U
      BY <1>4, <1>5, Zenon DEF Tracks
    <2>2. QED
      BY <1>1, <2>1
  <1>9. CASE r < 4
    <2>1. Q = c
      BY <1>2, <1>9
    <2>2. G < 4 * (2 * c + 1)
      BY <1>1, <1>9
    <2>3. Within(Q, U, P)
      BY <1>3, <1>6, <1>7, <2>1, <2>2 DEF Within
    <2>4. QED
      BY <1>1, <1>9, <2>1, <2>3
  <1>10. CASE r > 4
    <2>1. Q = c + 1
      BY <1>2, <1>10
    <2>2. 4 * (2 * c + 1) < G
      BY <1>1, <1>10
    <2>3. Within(Q, U, P)
      BY <1>3, <1>4, <1>7, <1>8, <2>1, <2>2 DEF Within
    <2>4. QED
      BY <1>1, <1>10, <2>1, <2>3
  <1>11. CASE r = 4 /\ c % 2 = 1
    <2>1. Q = c + 1 /\ Q % 2 = 0
      BY <1>2, <1>11
    <2>2. G = 4 * (2 * c + 1)
      BY <1>1, <1>11
    <2>3. Within(Q, U, P)
      BY <1>3, <1>4, <1>7, <1>8, <2>1, <2>2 DEF Within
    <2>4. QED
      BY <1>1, <1>11, <2>1, <2>3
  <1>12. CASE r = 4 /\ c % 2 = 0
    <2>1. Q = c /\ Q % 2 = 0
      BY <1>2, <1>12
    <2>2. G = 4 * (2 * c + 1) /\ G = 8 * Q + 4
      BY <1>1, <1>12, <2>1
    <2>3. P >= 8 * V + 4 * U
      BY <1>3, <1>7, <2>2
    <2>4. P = 8 * V + 4 * U => Within(Q, U, P)
      BY <1>3, <2>1 DEF Within
    <2>5. P # 8 * V + 4 * U => Within(Q + 1, U, P)
      BY <1>3, <1>4, <1>8, <2>1, <2>3 DEF Within
    <2>6. Meets(4, G, P, U) => P = 8 * V + 4 * U
      BY <1>7, <2>2
    <2>7. QED
      BY <1>1, <2>1, <2>2, <2>4, <2>5, <2>6
  <1>13. QED
    <2>1. c % 2 = 0 \/ c % 2 = 1
      OBVIOUS
    <2>2. QED
      BY <1>9, <1>10, <1>11, <1>12, <2>1

\* Nearer than any other number of units.
LEMMA NearestUnits ==
    ASSUME NEW Q \in Nat, NEW U \in Nat \ {0}, NEW p \in Nat, Within(Q, U, 8 * p), NEW m \in Nat
    PROVE  /\ Distance(Q * U, p) \in Int /\ Distance(m * U, p) \in Int
           /\ Distance(Q * U, p) <= Distance(m * U, p)
           /\ Distance(Q * U, p) = Distance(m * U, p) => m = Q \/ Q % 2 = 0
  <1>1. PICK V \in Int, M \in Int : V = Q * U /\ M = m * U /\ V = U * Q /\ M = U * m
    OBVIOUS
  <1>2. m < Q => M + U <= V
    BY <1>1, SmallerProduct
  <1>3. Q < m => V + U <= M
    BY <1>1, SmallerProduct
  <1>4. /\ 8 * V - 4 * U <= 8 * p /\ 8 * p <= 8 * V + 4 * U
        /\ (8 * p = 8 * V - 4 * U \/ 8 * p = 8 * V + 4 * U) => Q % 2 = 0
    BY <1>1 DEF Within
  <1>5. CASE m = Q
    BY <1>1, <1>5 DEF Distance
  <1>6. CASE m < Q
    BY <1>1, <1>2, <1>4, <1>6 DEF Distance
  <1>7. CASE Q < m
    BY <1>1, <1>3, <1>4, <1>7 DEF Distance
  <1>8. QED
    BY <1>5, <1>6, <1>7

-----------------------------------------------------------------------------
\* The sizes of floats.

LEMMA LargestIs ==
    /\ MAXE \in Nat \ {0} /\ MAXE - 1 \in Nat /\ 2^(MAXE - 1) \in Nat \ {0}
    /\ 2^FRAC \in Nat \ {0} /\ 2^(FRAC + 1) = 2 * 2^FRAC /\ 2^FRAC % 2 = 0
    /\ Lead = 8 * 2^FRAC /\ FRAC \in Nat /\ 2^FRAC = 2 * 2^(FRAC - 1)
    /\ 2^(FRAC - 1) \in Nat \ {0}
  <1>1. EXP \in Nat \ {0} /\ FRAC \in Nat \ {0}
    BY FloatShape
  <1>2. PICK a \in Nat \ {0}, b \in Nat \ {0} : a = 2^EXP /\ b = 2^(EXP - 1) /\ a = 2 * b
    BY <1>1, Halves
  <1>3. MAXE \in Nat \ {0} /\ MAXE - 1 \in Nat
    BY <1>2 DEF MAXE
  <1>4. 2^(MAXE - 1) \in Nat \ {0}
    BY <1>3, PowerIs, Zenon
  <1>5. PICK f \in Nat \ {0}, h \in Nat \ {0} : f = 2^FRAC /\ h = 2^(FRAC - 1) /\ f = 2 * h
    BY <1>1, Halves
  <1>6. f % 2 = 0
    BY <1>5
  <1>7. FRAC \in Nat /\ 3 \in Nat /\ 2^3 = 8
    BY <1>1
  <1>8. 2^(FRAC + 3) = f * 8
    BY <1>5, <1>7, PowerSplit, ZenonT(60)
  <1>9. Lead = 8 * f
    BY <1>8 DEF Lead
  <1>10. 2^(FRAC + 1) = 2 * 2^FRAC
    BY <1>7, PowerNext, Zenon
  <1>11. QED
    BY <1>3, <1>4, <1>5, <1>6, <1>7, <1>9, <1>10

LEMMA ScaleIs ==
    ASSUME NEW f \in Float
    PROVE  /\ scale(f) \in Nat \ {0} /\ scale(f) <= MAXE /\ scale(f) - 1 \in Nat
           /\ f.fraction \in 0..(2^FRAC - 1) /\ sig(f) \in 0..(2 * 2^FRAC - 1)
           /\ f.exponent # 0 => sig(f) = f.fraction + 2^FRAC /\ scale(f) = f.exponent
           /\ f.exponent = 0 => sig(f) = f.fraction /\ scale(f) = 1
  <1>1. PICK F \in Nat \ {0} : F = 2^FRAC
    BY LargestIs
  <1>2. f.exponent \in 0..MAXE /\ f.fraction \in 0..(F - 1)
    BY <1>1 DEF Float
  <1>3. QED
    BY <1>1, <1>2, LargestIs DEF scale, sig

\* A float is a number of the units of its exponent and of any smaller one, and
\* is below all that have a larger one.
LEMMA SizeIs ==
    ASSUME NEW f \in Float, NEW E \in 1..MAXE
    PROVE  /\ Size(f) \in Nat
           /\ E <= scale(f) => \E m \in Nat : Size(f) = m * 2^(E - 1)
           /\ scale(f) < E => Size(f) < 2^FRAC * 2^(E - 1)
  <1>1. PICK F \in Nat \ {0} : F = 2^FRAC
    BY LargestIs
  <1>2. PICK s \in Nat, c \in Nat : s = sig(f) /\ c = scale(f) - 1 /\ s < 2 * F
    <2>1. sig(f) \in Nat /\ sig(f) < 2 * F /\ scale(f) - 1 \in Nat
      BY <1>1, ScaleIs
    <2>2. QED
      BY <2>1, Zenon
  <1>3. PICK C \in Nat \ {0} : C = 2^c
    BY PowerIs
  <1>4. Size(f) = s * C /\ s * C \in Nat
    BY <1>2, <1>3 DEF Size
  <1>5. PICK n \in Nat : n = E - 1
    <2>1. E - 1 \in Nat
      BY LargestIs
    <2>2. QED
      BY <2>1, Zenon
  <1>6. PICK u \in Nat \ {0} : u = 2^n
    BY PowerIs
  <1>7. ASSUME E <= scale(f)
        PROVE  \E m \in Nat : Size(f) = m * u
    <2>1. n <= c
      BY <1>2, <1>5, <1>7, ScaleIs, LargestIs
    <2>2. PICK k \in Nat : C = u * k
      BY <1>3, <1>6, <2>1, PowerDivides
    <2>3. s * C = (s * k) * u /\ s * k \in Nat
      BY <2>2
    <2>4. QED
      BY <1>4, <2>3
  <1>8. ASSUME scale(f) < E
        PROVE  Size(f) < F * u
    <2>1. c + 1 <= n /\ c + 1 \in Nat
      BY <1>2, <1>5, <1>8, ScaleIs, LargestIs
    <2>2. 2 * C <= u
      <3>1. 2^(c + 1) <= u /\ 2^(c + 1) = 2 * C
        BY <1>3, <1>6, <2>1, PowerOrder, PowerNext, Zenon
      <3>2. QED
        BY <3>1
    <2>3. C * s + C <= C * (2 * F)
      <3>1. C \in Nat /\ s \in Int /\ 2 * F \in Int
        OBVIOUS
      <3>2. QED
        BY <1>2, <3>1, SmallerProduct, Zenon
    <2>4. F * (2 * C) <= F * u
      <3>1. CASE 2 * C = u
        BY <3>1
      <3>2. CASE 2 * C < u
        <4>1. F \in Nat /\ 2 * C \in Int /\ u \in Int
          OBVIOUS
        <4>2. F * (2 * C) + F <= F * u
          BY <3>2, <4>1, SmallerProduct, Zenon
        <4>3. F * (2 * C) \in Int /\ F * u \in Int
          OBVIOUS
        <4>4. QED
          BY <4>2, <4>3
      <3>3. QED
        BY <2>2, <3>1, <3>2
    <2>5. PICK a \in Int, b \in Int, d \in Int : a = s * C /\ b = F * C /\ d = F * u
      OBVIOUS
    <2>6. C * s = a /\ C * (2 * F) = 2 * b /\ F * (2 * C) = 2 * b
      BY <2>5
    <2>7. a < d
      BY <2>3, <2>4, <2>5, <2>6
    <2>8. QED
      BY <1>4, <2>5, <2>7
  <1>9. QED
    BY <1>1, <1>4, <1>5, <1>6, <1>7, <1>8

LEMMA SizableIs ==
    ASSUME NEW g \in Sizable
    PROVE  /\ g \in Float /\ g.sign = 0
           /\ g = Inf(0) \/ (g.exponent # MAXE /\ (scale(g) < MAXE \/ MAXE = 1))
           /\ Size(g) \in Nat
  <1>1. g \in Float /\ g.sign = 0 /\ (g.exponent # MAXE \/ g = Inf(0))
    <2>1. Inf(0) \in Float /\ Inf(0).sign = 0
      BY CornersAreFloats DEF Inf
    <2>2. QED
      BY <2>1 DEF Sizable
  <1>2. 1 \in 1..MAXE
    BY LargestIs
  <1>3. Size(g) \in Nat
    BY <1>1, <1>2, SizeIs
  <1>4. g.exponent # MAXE => scale(g) < MAXE \/ MAXE = 1
    <2>1. g.exponent \in 0..MAXE
      BY <1>1, SignificandIs
    <2>2. QED
      BY <2>1, LargestIs DEF scale
  <1>5. QED
    BY <1>1, <1>3, <1>4

LEMMA InfinityIs ==
    ASSUME NEW s \in {0, 1}
    PROVE  /\ Inf(s) \in Float /\ Inf(s).sign = s /\ Inf(s).exponent = MAXE
           /\ Inf(s).fraction = 0
           /\ Size(Inf(s)) = 2^FRAC * 2^(MAXE - 1)
  <1>1. Inf(s) \in Float /\ Inf(s).sign = s /\ Inf(s).exponent = MAXE /\ Inf(s).fraction = 0
    BY CornersAreFloats DEF Inf
  <1>2. MAXE # 0 /\ 2^FRAC \in Nat /\ 0 + 2^FRAC = 2^FRAC
    BY LargestIs
  <1>3. sig(Inf(s)) = 2^FRAC /\ scale(Inf(s)) = MAXE
    BY <1>1, <1>2, ScaleIs
  <1>4. QED
    BY <1>1, <1>3 DEF Size

\* What is within half a unit of a value is the float nearest to it.
LEMMA WithinNearest ==
    ASSUME NEW f \in Float, NEW E \in 1..MAXE, NEW p \in Nat, NEW q \in Nat \ {0}, NEW Q \in Nat,
           Size(f) = Q * 2^(E - 1), Within(Q, q * 2^(E - 1), 8 * p),
           Q % 2 = 0 => f.fraction % 2 = 0,
           E = 1 \/ 2^FRAC * (q * 2^(E - 1)) <= p
    PROVE  Nearest(f, p, q)
  <1>1. PICK F \in Nat \ {0} : F = 2^FRAC
    BY LargestIs
  <1>2. PICK u \in Nat \ {0} : u = 2^(E - 1)
    <2>1. E - 1 \in Nat
      BY LargestIs
    <2>2. QED
      BY <2>1, PowerIs
  <1>3. PICK U \in Nat \ {0} : U = q * u
    <2>1. q * u \in Nat /\ q * u # 0
      OBVIOUS
    <2>2. QED
      BY <2>1
  <1>4. Within(Q, U, 8 * p)
    BY <1>2, <1>3
  <1>5. Size(f) * q = Q * U
    BY <1>2, <1>3
  <1>6. ASSUME NEW g \in Sizable
        PROVE  \/ Distance(Size(f) * q, p) < Distance(Size(g) * q, p)
               \/ /\ Distance(Size(f) * q, p) = Distance(Size(g) * q, p)
                  /\ Size(g) = Size(f) \/ f.fraction % 2 = 0
    <2>1. g \in Float
      BY SizableIs
    <2>2. CASE E <= scale(g)
      <3>1. PICK m \in Nat : Size(g) = m * u
        BY <1>2, <2>1, <2>2, SizeIs
      <3>2. Size(g) * q = m * U
        BY <1>3, <3>1
      <3>3. m = Q => Size(g) = Size(f)
        BY <1>2, <3>1
      <3>4. /\ Distance(Q * U, p) \in Int /\ Distance(m * U, p) \in Int
            /\ Distance(Q * U, p) <= Distance(m * U, p)
            /\ Distance(Q * U, p) = Distance(m * U, p) => m = Q \/ Q % 2 = 0
        BY <1>4, NearestUnits, Zenon
      <3>5. PICK x \in Int, y \in Int : x = Distance(Q * U, p) /\ y = Distance(m * U, p)
        BY <3>4
      <3>6. x < y \/ x = y
        BY <3>4, <3>5
      <3>7. QED
        BY <1>5, <3>2, <3>3, <3>4, <3>5, <3>6, Zenon
    <2>3. CASE scale(g) < E
      <3>1. PICK z \in Nat : z = Size(g) /\ z < F * u
        BY <1>1, <1>2, <2>1, <2>3, SizeIs
      <3>2. F * U <= p
        BY <1>1, <1>2, <1>3, <2>1, <2>3, ScaleIs
      <3>3. PICK w \in Int : w = F * u
        OBVIOUS
      <3>4. q * z + q <= q * w
        BY <3>1, <3>3, SmallerProduct
      <3>5. q * w = F * U
        BY <1>3, <3>3
      <3>6. PICK a \in Int, b \in Int, c \in Int : a = q * z /\ b = F * U /\ c = Q * U /\ z * q = a
        OBVIOUS
      <3>7. Distance(Q * U, p) <= Distance(F * U, p)
        <4>1. F \in Nat
          OBVIOUS
        <4>2. QED
          BY <1>4, <4>1, NearestUnits, Zenon
      <3>8. Distance(c, p) < Distance(a, p)
        BY <3>2, <3>4, <3>5, <3>6, <3>7 DEF Distance
      <3>9. QED
        BY <1>5, <3>1, <3>6, <3>8
    <2>4. QED
      BY <2>1, <2>2, <2>3, ScaleIs
  <1>7. QED
    BY <1>6, Zenon DEF Nearest

\* Whatever is too large is infinite.
LEMMA NearestInf ==
    ASSUME NEW s \in {0, 1}, NEW p \in Nat, NEW q \in Nat \ {0},
           (2^FRAC * 2^(MAXE - 1)) * q <= p
    PROVE  Nearest(Inf(s), p, q)
  <1>1. PICK I \in Nat : I = 2^FRAC * 2^(MAXE - 1)
    <2>1. 2^FRAC * 2^(MAXE - 1) \in Nat
      BY LargestIs
    <2>2. QED
      BY <2>1
  <1>2. Size(Inf(s)) = I /\ Inf(s).fraction % 2 = 0 /\ Size(Inf(0)) = I
    BY <1>1, InfinityIs
  <1>3. ASSUME NEW g \in Sizable
        PROVE  \/ Distance(Size(Inf(s)) * q, p) < Distance(Size(g) * q, p)
               \/ /\ Distance(Size(Inf(s)) * q, p) = Distance(Size(g) * q, p)
                  /\ Size(g) = Size(Inf(s)) \/ Inf(s).fraction % 2 = 0
    <2>1. PICK z \in Nat : z = Size(g)
      BY SizableIs
    <2>2. z <= I
      <3>1. CASE g = Inf(0)
        BY <1>2, <2>1, <3>1
      <3>2. CASE scale(g) < MAXE
        <4>1. MAXE \in 1..MAXE /\ g \in Float
          BY LargestIs, SizableIs
        <4>2. Size(g) < I
          BY <1>1, <3>2, <4>1, SizeIs
        <4>3. QED
          BY <2>1, <4>2
      <3>3. CASE MAXE = 1 /\ g.exponent # MAXE
        <4>1. g \in Float /\ g.exponent = 0
          BY <3>3, SizableIs, SignificandIs
        <4>2. PICK F \in Nat \ {0} : F = 2^FRAC
          BY LargestIs
        <4>3. sig(g) \in 0..(F - 1) /\ scale(g) = 1
          BY <4>1, <4>2, ScaleIs
        <4>4. 1 - 1 = 0 /\ 2^0 = 1 /\ sig(g) * 1 = sig(g) /\ F * 1 = F
          BY <4>3
        <4>5. Size(g) = sig(g)
          BY <4>3, <4>4, Zenon DEF Size
        <4>6. I = F
          BY <1>1, <3>3, <4>2, <4>4, Zenon
        <4>7. QED
          BY <2>1, <4>3, <4>5, <4>6
      <3>4. QED
        BY <3>1, <3>2, <3>3, SizableIs
    <2>3. z < I => q * z + q <= q * I
      BY SmallerProduct
    <2>4. PICK a \in Int, b \in Int : a = z * q /\ b = I * q /\ a = q * z /\ b = q * I
      OBVIOUS
    <2>5. b <= p
      BY <1>1, <2>4
    <2>6. CASE z = I
      BY <1>2, <2>1, <2>6
    <2>7. CASE z < I
      <3>1. Distance(b, p) < Distance(a, p)
        BY <2>3, <2>4, <2>5, <2>7 DEF Distance
      <3>2. QED
        BY <1>2, <2>1, <2>4, <3>1
    <2>8. QED
      BY <2>2, <2>6, <2>7
  <1>4. QED
    BY <1>3, Zenon DEF Nearest

\* What is packed has the size that was rounded to: with its leading 1, of an
\* exponent that is not the largest, and without.
LEMMA PackedNormal ==
    ASSUME NEW s \in {0, 1}, NEW E \in 1..(MAXE - 1), NEW Q \in (2^FRAC)..(2 * 2^FRAC)
    PROVE  LET r == Packed(s, E, Q) IN
           /\ r \in Float /\ r.sign = s /\ (r.exponent = MAXE => r = Inf(s))
           /\ Size(r) = Q * 2^(E - 1) /\ (Q % 2 = 0 => r.fraction % 2 = 0)
  <1>1. PICK F \in Nat \ {0}, h \in Nat : F = 2^FRAC /\ F = 2 * h /\ 2^(FRAC + 1) = 2 * F
    BY LargestIs
  <1>2. PICK M \in Nat \ {0} : M = MAXE
    BY LargestIs
  <1>3. E \in 1..(M - 1) /\ E \in Nat \ {0} /\ E - 1 \in Nat /\ E \in Nat /\ Q \in F..(2 * F)
    BY <1>1, <1>2
  <1>4. PICK u \in Nat \ {0} : u = 2^(E - 1) /\ 2^E = 2 * u
    BY <1>3, Halves
  <1>5. CASE Q = 2 * F
    <2>1. Q \div 2 = F /\ F % F = 0 /\ Q >= 2 * F /\ E < M
      <3>1. F = F * 1 + 0 /\ 0 \in 0..(F - 1) /\ 1 \in Int
        OBVIOUS
      <3>2. F % F = 0
        BY <3>1, RemainderBy
      <3>3. QED
        BY <1>3, <1>5, <3>2
    <2>2. Packed(s, E, Q) = IF E + 1 >= M THEN Inf(s)
                            ELSE [sign |-> s, exponent |-> E + 1, fraction |-> 0]
      BY <1>1, <1>2, <2>1, Zenon DEF Packed
    <2>3. Q * u = F * (2 * u)
      BY <1>5
    <2>4. CASE E + 1 >= M
      <3>1. MAXE = E + 1 /\ MAXE - 1 = E
        BY <1>2, <1>3, <2>4
      <3>2. Size(Inf(s)) = F * (2 * u)
        BY <1>1, <1>4, <3>1, InfinityIs
      <3>3. Inf(s).fraction % 2 = 0
        BY InfinityIs
      <3>4. QED
        BY <1>4, <2>2, <2>3, <2>4, <3>2, <3>3, InfinityIs
    <2>5. CASE E + 1 < M
      <3>1. PICK r : r = [sign |-> s, exponent |-> E + 1, fraction |-> 0]
        OBVIOUS
      <3>2. r \in Float /\ r.sign = s /\ r.exponent = E + 1 /\ r.fraction = 0
        BY <1>1, <1>2, <1>3, <2>5, <3>1 DEF Float
      <3>3. sig(r) = F /\ scale(r) = E + 1
        BY <1>1, <1>3, <3>2, ScaleIs
      <3>4. (E + 1) - 1 = E
        BY <1>3
      <3>5. Size(r) = F * (2 * u)
        BY <1>4, <3>3, <3>4, Zenon DEF Size
      <3>6. r.fraction % 2 = 0 /\ r.exponent # MAXE
        BY <1>2, <1>3, <2>5, <3>2
      <3>7. Packed(s, E, Q) = r
        BY <1>3, <2>2, <2>5, <3>1
      <3>8. QED
        BY <1>4, <2>3, <3>2, <3>5, <3>6, <3>7
    <2>6. QED
      BY <1>3, <2>4, <2>5
  <1>6. CASE Q < 2 * F
    <2>1. Q - F \in 0..(F - 1) /\ Q % F = Q - F
      <3>1. Q \in F..(2 * F - 1)
        BY <1>3, <1>6
      <3>2. Q % F = Q - F
        BY <3>1, RemainderOver
      <3>3. QED
        BY <3>1, <3>2
    <2>2. PICK r : r = [sign |-> s, exponent |-> E, fraction |-> Q - F]
      OBVIOUS
    <2>3. Packed(s, E, Q) = r
      <3>1. ~(Q >= 2 * F) /\ ~(E >= M)
        BY <1>3, <1>6
      <3>2. QED
        BY <1>1, <1>2, <2>1, <2>2, <3>1, Zenon DEF Packed
    <2>4. r \in Float /\ r.sign = s /\ r.exponent = E /\ r.fraction = Q - F
      BY <1>1, <1>2, <1>3, <2>1, <2>2 DEF Float
    <2>5. sig(r) = Q /\ scale(r) = E
      <3>1. sig(r) = r.fraction + F /\ scale(r) = r.exponent
        BY <1>1, <1>3, <2>4, ScaleIs
      <3>2. QED
        BY <1>3, <2>4, <3>1
    <2>6. Size(r) = Q * u
      BY <1>4, <2>5, Zenon DEF Size
    <2>7. Q % 2 = 0 => r.fraction % 2 = 0
      BY <1>1, <1>3, <2>4
    <2>8. r.exponent # MAXE
      BY <1>2, <1>3, <2>4
    <2>9. QED
      BY <1>4, <2>3, <2>4, <2>6, <2>7, <2>8
  <1>7. QED
    BY <1>3, <1>5, <1>6

LEMMA PackedDenormal ==
    ASSUME NEW s \in {0, 1}, NEW Q \in 0..(2^FRAC)
    PROVE  LET r == Packed(s, 0, Q) IN
           /\ r \in Float /\ r.sign = s /\ r.exponent # MAXE
           /\ Q < 2^FRAC => Size(r) = Q * 2^(1 - 1) /\ (Q % 2 = 0 => r.fraction % 2 = 0)
  <1>1. PICK F \in Nat \ {0} : F = 2^FRAC /\ 2^(FRAC + 1) = 2 * F
    BY LargestIs
  <1>2. PICK M \in Nat \ {0} : M = MAXE
    BY LargestIs
  <1>3. Q \in 0..F
    BY <1>1
  <1>4. PICK f \in 0..(F - 1) : f = Q % F
    <2>1. Q \in Int
      BY <1>3
    <2>2. Q % F \in 0..(F - 1)
      BY <2>1, RemainderIs
    <2>3. QED
      BY <2>2, Zenon
  <1>5. PICK r : r = [sign |-> s, exponent |-> 0, fraction |-> f]
    OBVIOUS
  <1>6. Packed(s, 0, Q) = r
    <2>1. ~(Q >= 2 * F) /\ ~(0 >= M)
      BY <1>3
    <2>2. QED
      BY <1>1, <1>2, <1>4, <1>5, <2>1, Zenon DEF Packed
  <1>7. r \in Float /\ r.sign = s /\ r.exponent = 0 /\ r.fraction = f /\ r.exponent # MAXE
    BY <1>1, <1>2, <1>5 DEF Float
  <1>8. ASSUME Q < F
        PROVE  Size(r) = Q * 2^(1 - 1) /\ f = Q
    <2>1. Q \in 0..(F - 1)
      BY <1>3, <1>8
    <2>2. f = Q
      BY <1>4, <2>1, RemainderSmall
    <2>3. sig(r) = Q /\ scale(r) = 1
      BY <1>7, <2>2, ScaleIs
    <2>4. QED
      BY <2>2, <2>3, Zenon DEF Size
  <1>9. QED
    BY <1>1, <1>6, <1>7, <1>8

-----------------------------------------------------------------------------
\* How far a significand is shifted.

\* A significand of exponent E keeps what the value p / q is compared with.
Keeps(G, E, p, q, sticky) ==
    /\ Tracks(4, G, 8 * p, q * 2^(E - 1))
    /\ sticky => Meets(4, G, 8 * p, q * 2^(E - 1))

TooLarge(n, p, q) == n.exp \in Nat /\ n.exp >= MAXE /\ (2^FRAC * 2^(MAXE - 1)) * q <= p
TooSmall(n, p, q) == n.exp = 0 /\ n.sig = 0 /\ 2 * p < q
Normal(n, p, q, sticky) ==
    /\ n.exp \in 1..(MAXE - 1) /\ n.sig \in Lead..(2 * Lead - 1)
    /\ Keeps(n.sig, n.exp, p, q, sticky)
Denormal(n, p, q, sticky) ==
    n.exp = 0 /\ n.sig \in 0..(Lead - 1) /\ Keeps(n.sig, 1, p, q, sticky)
Normalizes(n, p, q, sticky) ==
    TooLarge(n, p, q) \/ TooSmall(n, p, q) \/ Normal(n, p, q, sticky) \/ Denormal(n, p, q, sticky)

\* The same power of two on both sides does not count.
LEMMA Cancelled ==
    ASSUME NEW E \in Nat \ {0}, NEW a \in Nat, NEW c \in Nat, c = a + (E - 1),
           NEW p \in Nat, NEW q \in Nat \ {0}, NEW G \in Int, NEW sticky,
           Tracks(4, G, (8 * p) * 2^a, q * 2^c),
           sticky => Meets(4, G, (8 * p) * 2^a, q * 2^c)
    PROVE  Keeps(G, E, p, q, sticky)
  <1>1. PICK A \in Nat \ {0} : A = 2^a
    BY PowerIs
  <1>2. PICK u \in Nat \ {0} : u = 2^(E - 1) /\ 2^c = A * u
    <2>1. E - 1 \in Nat
      OBVIOUS
    <2>2. 2^(E - 1) \in Nat \ {0} /\ 2^(a + (E - 1)) = 2^a * 2^(E - 1)
      BY <2>1, PowerIs, PowerSplit, Zenon
    <2>3. QED
      BY <1>1, <2>2, Zenon
  <1>3. PICK P \in Nat, U \in Nat : P = 8 * p /\ U = q * u
    OBVIOUS
  <1>4. q * 2^c = A * U
    <2>1. q * (A * u) = A * (q * u)
      OBVIOUS
    <2>2. QED
      BY <1>2, <1>3, <2>1, Zenon
  <1>5. ASSUME NEW n \in Int
        PROVE  /\ G < 4 * n <=> P < (4 * n) * U
               /\ 4 * n < G => (4 * n) * U < P
               /\ sticky /\ G = 4 * n => P = (4 * n) * U
    <2>1. PICK V \in Int : V = (4 * n) * U
      OBVIOUS
    <2>2. (4 * n) * (A * U) = A * V
      BY <2>1
    <2>3. P * A = A * P
      OBVIOUS
    <2>4. (G < 4 * n <=> A * P < A * V) /\ (4 * n < G => A * V < A * P)
      BY <1>1, <1>3, <1>4, <2>2, <2>3, Zenon DEF Tracks
    <2>5. sticky /\ G = 4 * n => A * P = A * V
      BY <1>1, <1>3, <1>4, <2>2, <2>3, Zenon DEF Meets
    <2>6. PICK y \in Int, z \in Int : y = A * P /\ z = A * V
      OBVIOUS
    <2>7. P < V => y + A <= z
      BY <2>6, SmallerProduct
    <2>8. V < P => z + A <= y
      BY <2>6, SmallerProduct
    <2>9. P = V => y = z
      BY <2>6
    <2>10. (y < z <=> P < V) /\ (z < y <=> V < P) /\ (y = z <=> P = V)
      BY <2>7, <2>8, <2>9
    <2>11. QED
      BY <2>1, <2>4, <2>5, <2>6, <2>10
  <1>6. QED
    BY <1>2, <1>3, <1>5 DEF Keeps, Tracks, Meets

LEMMA JammedByNone == ASSUME NEW x \in Nat PROVE Jammed(x, 0) = x
  <1>1. 2^0 = 1 /\ x \div 1 = x /\ x % 1 = 0
    OBVIOUS
  <1>2. x + 0 = x
    OBVIOUS
  <1>3. Jammed(x, 0) = x + 0
    BY <1>1, Zenon DEF Jammed
  <1>4. QED
    BY <1>2, <1>3, Zenon

LEMMA ShiftedRight ==
    ASSUME NEW x \in Nat, NEW k \in Nat, NEW P \in Int, NEW q \in Nat, NEW b \in Nat, NEW sticky,
           Tracks(2, x, P, q * 2^b), sticky => Meets(2, x, P, q * 2^b)
    PROVE  /\ Jammed(x, k) \in Nat /\ b + k \in Nat
           /\ Tracks(2, Jammed(x, k), P, q * 2^(b + k))
           /\ Tracks(4, Jammed(x, k), P, q * 2^(b + k))
           /\ sticky => /\ Meets(2, Jammed(x, k), P, q * 2^(b + k))
                        /\ Meets(4, Jammed(x, k), P, q * 2^(b + k))
  <1>1. PICK B \in Nat, K \in Nat : B = 2^b /\ K = 2^k /\ 2^(b + k) = B * K
    BY PowerIs, PowerSplit
  <1>2. (q * B) * K = q * (B * K) /\ q * B \in Int /\ q * (B * K) \in Int /\ x \in Int
    OBVIOUS
  <1>3. PICK J \in Nat : J = Jammed(x, k)
    BY JammedIs
  <1>4. /\ Tracks(2, J, P, q * (B * K))
        /\ Meets(2, x, P, q * B) => Meets(2, J, P, q * (B * K))
    BY <1>1, <1>2, <1>3, JammedTracks, ZenonT(60)
  <1>5. J \in Int
    OBVIOUS
  <1>6. /\ Tracks(4, J, P, q * (B * K))
        /\ Meets(2, J, P, q * (B * K)) => Meets(4, J, P, q * (B * K))
    BY <1>2, <1>4, <1>5, TracksByFour, Zenon
  <1>7. b + k \in Nat
    OBVIOUS
  <1>8. QED
    BY <1>1, <1>3, <1>4, <1>6, <1>7, Zenon

\* What begins at Lead or beyond it and has the largest exponent or beyond is at
\* least the first number that is too large.
LEMMA LargeIs ==
    ASSUME NEW E \in Nat \ {0}, MAXE <= E, NEW g \in Nat, Lead <= g,
           NEW p \in Nat, NEW q \in Nat \ {0}, NEW sticky, Keeps(g, E, p, q, sticky)
    PROVE  (2^FRAC * 2^(MAXE - 1)) * q <= p
  <1>1. PICK F \in Nat \ {0} : F = 2^FRAC /\ Lead = 8 * F
    BY LargestIs
  <1>2. PICK M \in Nat \ {0} : M = MAXE
    BY LargestIs
  <1>3. PICK u \in Nat \ {0}, v \in Nat \ {0} : u = 2^(E - 1) /\ v = 2^(M - 1) /\ v <= u
    <2>1. E - 1 \in Nat /\ M - 1 \in Nat /\ M - 1 <= E - 1
      BY <1>2
    <2>2. /\ 2^(E - 1) \in Nat \ {0} /\ 2^(M - 1) \in Nat \ {0}
          /\ 2^(M - 1) <= 2^(E - 1)
      BY <2>1, PowerIs, PowerOrder, Zenon
    <2>3. QED
      BY <2>2, Zenon
  <1>4. PICK w \in Int : w = q * u
    OBVIOUS
  <1>5. PICK z \in Int : z = F * w
    OBVIOUS
  <1>6. ~(8 * p < 8 * z)
    <2>1. g < 4 * (2 * F) <=> 8 * p < (4 * (2 * F)) * w
      <3>1. 2 * F \in Int
        OBVIOUS
      <3>2. QED
        BY <1>3, <1>4, <3>1, Zenon DEF Keeps, Tracks
    <2>2. (4 * (2 * F)) * w = 8 * z
      BY <1>5
    <2>3. QED
      BY <1>1, <2>1, <2>2
  <1>7. PICK h \in Nat : h = F * q
    OBVIOUS
  <1>8. v < u => h * v + h <= h * u
    BY SmallerProduct
  <1>9. PICK y \in Int : y = h * v
    OBVIOUS
  <1>10. h * u = z
    BY <1>4, <1>5, <1>7
  <1>11. (F * v) * q = y
    BY <1>7, <1>9
  <1>12. v = u => y = z
    BY <1>9, <1>10
  <1>13. y <= p
    BY <1>3, <1>6, <1>8, <1>9, <1>10, <1>12
  <1>14. QED
    BY <1>1, <1>2, <1>3, <1>11, <1>13, Zenon

\* The fewest places that bring a significand below 2 * Lead or its exponent to
\* the largest, or what is left of it to nothing.
LEMMA RightShiftIs ==
    ASSUME NEW e \in Int, NEW x \in 0..(2^WIDE - 1)
    PROVE  LET k == RightShift(e, x) IN
           /\ k \in Nat
           /\ ~(Jammed(x, k) >= 2 * Lead /\ e + k < MAXE) /\ ~(Jammed(x, k) > 4 /\ e + k < 0)
           /\ k # 0 => \/ Jammed(x, k - 1) >= 2 * Lead /\ e + k - 1 < MAXE
                       \/ Jammed(x, k - 1) > 4 /\ e + k - 1 < 0
  <1> DEFINE Fit(k) == /\ ~(Jammed(x, k) >= 2 * Lead /\ e + k < MAXE)
                       /\ ~(Jammed(x, k) > 4 /\ e + k < 0)
             K == {k \in 0..WIDE : Fit(k)}
  <1>1. /\ WIDE \in Nat /\ Lead \in Nat \ {0} /\ 2^WIDE \in Nat
    BY FloatNumbers
  <1>2. x \in Nat /\ x < 2^WIDE
    BY <1>1
  <1>3. WIDE \in K
    <2>1. Jammed(x, WIDE) \in Nat /\ Jammed(x, WIDE) <= 1
      BY <1>1, <1>2, JammedIs
    <2>2. QED
      BY <1>1, <2>1
  <1>4. K \subseteq Nat
    OBVIOUS
  <1>5. RightShift(e, x) = Fewest(K)
    BY DEF RightShift
  <1>6. PICK k \in Nat : k = RightShift(e, x) /\ k \in K /\ \A j \in K : k <= j
    <2> HIDE DEF K
    <2>1. QED
      BY <1>3, <1>4, <1>5, FewestIs
  <1>7. k # 0 => ~Fit(k - 1)
    <2>1. k # 0 => k - 1 \in 0..WIDE /\ k - 1 < k
      BY <1>1, <1>6
    <2>2. QED
      BY <1>6, <2>1
  <1>8. k # 0 => e + (k - 1) = e + k - 1
    OBVIOUS
  <1>9. QED
    BY <1>6, <1>7, <1>8

LEMMA NormalizedRight ==
    ASSUME NEW e \in Int, NEW x \in 0..(2^WIDE - 1), x >= 2 * Lead \/ e < 0,
           NEW p \in Nat, NEW q \in Nat \ {0}, NEW a \in Nat, NEW b \in Nat, b - a = e - 1,
           NEW sticky,
           Tracks(2, x, (8 * p) * 2^a, q * 2^b), sticky => Meets(2, x, (8 * p) * 2^a, q * 2^b)
    PROVE  Normalizes(Normalized(e, x), p, q, sticky)
  <1>1. PICK F \in Nat \ {0}, D \in Nat \ {0} : F = 2^FRAC /\ D = Lead /\ D = 8 * F
    BY LargestIs
  <1>2. PICK M \in Nat \ {0} : M = MAXE
    BY LargestIs
  <1>3. x \in Nat
    BY FloatNumbers
  <1>4. PICK k \in Nat : k = RightShift(e, x)
    BY RightShiftIs
  <1>5. PICK g \in Nat : g = Jammed(x, k)
    BY <1>3, JammedIs
  <1>6. PICK E \in Int : E = e + k
    OBVIOUS
  <1>7. ~(g >= 2 * D /\ E < M) /\ ~(g > 4 /\ E < 0)
    BY <1>1, <1>2, <1>4, <1>5, <1>6, RightShiftIs
  <1>8. k # 0 /\ E >= 1 => g >= D
    <2>1. ASSUME k # 0, E >= 1
          PROVE  g >= D
      <3>1. k - 1 \in Nat
        BY <2>1
      <3>2. PICK y \in Nat : y = Jammed(x, k - 1)
        BY <1>3, <3>1, JammedIs
      <3>3. y >= 2 * D
        BY <1>1, <1>4, <1>6, <2>1, <3>2, RightShiftIs
      <3>4. PICK S \in Nat \ {0}, T \in Nat \ {0} : S = 2^(k - 1) /\ T = 2^k /\ T = 2 * S
        BY <2>1, Halves
      <3>5. 4 * F \in Int /\ 8 * F \in Int /\ x \in Int
        BY <1>3
      <3>6. Jammed(x, k) < 2 * (4 * F) <=> x < 2^k * (2 * (4 * F))
        BY <3>5, JammedTells
      <3>7. Jammed(x, k - 1) < 2 * (8 * F) <=> x < 2^(k - 1) * (2 * (8 * F))
        BY <3>1, <3>5, JammedTells
      <3>8. T * (2 * (4 * F)) = S * (2 * (8 * F))
        BY <3>4
      <3>9. PICK V \in Int : V = S * (2 * (8 * F))
        OBVIOUS
      <3>10. g < 8 * F <=> x < V
        <4>1. 2 * (4 * F) = 8 * F
          OBVIOUS
        <4>2. QED
          BY <1>5, <3>4, <3>6, <3>8, <3>9, <4>1, Zenon
      <3>11. y < 16 * F <=> x < V
        <4>1. 2 * (8 * F) = 16 * F
          OBVIOUS
        <4>2. QED
          BY <3>2, <3>4, <3>7, <3>9, <4>1, Zenon
      <3>12. QED
        BY <1>1, <3>3, <3>10, <3>11
    <2>2. QED
      BY <2>1
  <1>9. k = 0 => g = x /\ E = e
    BY <1>3, <1>5, <1>6, JammedByNone
  <1>10. E >= 1 => g >= D
    BY <1>1, <1>8, <1>9
  <1>11. PICK P \in Nat : P = (8 * p) * 2^a
    <2>1. PICK A \in Nat : A = 2^a
      BY PowerIs
    <2>2. (8 * p) * A \in Nat
      OBVIOUS
    <2>3. QED
      BY <2>1, <2>2, Zenon
  <1>12. PICK c \in Nat : c = b + k
    OBVIOUS
  <1>13. /\ Tracks(2, g, P, q * 2^c) /\ Tracks(4, g, P, q * 2^c)
         /\ sticky => Meets(2, g, P, q * 2^c) /\ Meets(4, g, P, q * 2^c)
    <2>1. P \in Int /\ q \in Nat
      OBVIOUS
    <2>2. QED
      BY <1>3, <1>5, <1>11, <1>12, <2>1, ShiftedRight, Zenon
  <1>14. c - a = E - 1
    BY <1>6, <1>12
  <1>15. PICK n : n = Normalized(e, x)
    OBVIOUS
  <1>16. n = IF E >= M THEN [exp |-> MAXE, sig |-> 0]
             ELSE IF E < 0 THEN [exp |-> 0, sig |-> 0]
             ELSE [exp |-> E, sig |-> Jammed(g, IF E = 0 THEN 1 ELSE 0)]
    BY <1>2, <1>4, <1>5, <1>6, <1>15, Zenon DEF Normalized
  <1>17. CASE E >= M
    <2>1. n.exp = M
      BY <1>2, <1>16, <1>17
    <2>2. E \in Nat \ {0} /\ c = a + (E - 1) /\ E - 1 \in Nat /\ M - 1 \in Nat /\ M - 1 <= E - 1
      BY <1>14, <1>17
    <2>3. Keeps(g, E, p, q, sticky)
      <3>1. g \in Int
        OBVIOUS
      <3>2. QED
        BY <1>11, <1>13, <2>2, <3>1, Cancelled, Zenon
    <2>4. (2^FRAC * 2^(MAXE - 1)) * q <= p
      BY <1>1, <1>2, <1>10, <1>17, <2>2, <2>3, LargeIs
    <2>5. TooLarge(n, p, q)
      BY <1>2, <2>1, <2>4 DEF TooLarge
    <2>6. QED
      BY <1>15, <2>5 DEF Normalizes
  <1>18. CASE E < 0
    <2>1. n.exp = 0 /\ n.sig = 0
      BY <1>16, <1>18
    <2>2. PICK A \in Nat \ {0}, C \in Nat \ {0} : A = 2^a /\ C = 2^c
      BY PowerIs
    <2>3. 4 * C <= A
      <3>1. c + 1 + 1 <= a /\ c + 1 \in Nat /\ c + 1 + 1 \in Nat
        BY <1>14, <1>18
      <3>2. 2^(c + 1) = 2 * C /\ 2^(c + 1 + 1) = 2 * 2^(c + 1) /\ 2^(c + 1 + 1) <= A
        BY <2>2, <3>1, PowerNext, PowerOrder, Zenon
      <3>3. 2^(c + 1 + 1) = 2 * (2 * C)
        BY <3>2, Zenon
      <3>4. 2 * (2 * C) <= A
        BY <3>2, <3>3
      <3>5. QED
        BY <3>4
    <2>4. P < 6 * (q * C)
      <3>1. g < 2 * 3 <=> P < (2 * 3) * (q * C)
        <4>1. 3 \in Int
          OBVIOUS
        <4>2. QED
          BY <1>13, <2>2, <4>1, Zenon DEF Tracks
      <3>2. g < 2 * 3
        BY <1>7, <1>18
      <3>3. QED
        BY <3>1, <3>2
    <2>5. PICK r \in Nat, s \in Nat : r = A * p /\ s = q * C
      OBVIOUS
    <2>6. P = 8 * r
      BY <1>11, <2>2, <2>5
    <2>7. 4 * s <= A * q
      <3>1. 4 * C < A => q * (4 * C) + q <= q * A
        BY SmallerProduct
      <3>2. q * (4 * C) = 4 * s /\ q * A = A * q /\ A * q \in Int
        BY <2>5
      <3>3. 4 * C = A => 4 * s = A * q
        BY <3>2
      <3>4. QED
        BY <2>3, <2>5, <3>1, <3>2, <3>3
    <2>8. PICK t \in Int : t = A * q
      OBVIOUS
    <2>9. 2 * r < t
      BY <2>4, <2>5, <2>6, <2>7, <2>8
    <2>10. A * (2 * p) = 2 * r
      BY <2>5
    <2>11. 2 * p < q
      <3>1. q < 2 * p => A * q + A <= A * (2 * p)
        BY SmallerProduct
      <3>2. q = 2 * p => A * q = A * (2 * p)
        OBVIOUS
      <3>3. QED
        BY <2>8, <2>9, <2>10, <3>1, <3>2
    <2>12. QED
      BY <1>15, <2>1, <2>11 DEF Normalizes, TooSmall
  <1>19. CASE E >= 1 /\ E < M
    <2>1. n = [exp |-> E, sig |-> g]
      <3>1. ~(E >= M) /\ ~(E < 0) /\ ~(E = 0)
        BY <1>19
      <3>2. n = [exp |-> E, sig |-> Jammed(g, 0)]
        BY <1>16, <3>1, Zenon
      <3>3. QED
        BY <3>2, JammedByNone
    <2>2. E \in Nat \ {0} /\ c = a + (E - 1)
      BY <1>14, <1>19
    <2>3. Keeps(g, E, p, q, sticky)
      <3>1. g \in Int
        OBVIOUS
      <3>2. QED
        BY <1>11, <1>13, <2>2, <3>1, Cancelled, Zenon
    <2>4. E \in 1..(MAXE - 1) /\ g \in Lead..(2 * Lead - 1)
      BY <1>1, <1>2, <1>7, <1>10, <1>19
    <2>5. n.exp = E /\ n.sig = g
      BY <2>1
    <2>6. Normal(n, p, q, sticky)
      BY <2>3, <2>4, <2>5, Zenon DEF Normal
    <2>7. QED
      BY <1>15, <2>6, Zenon DEF Normalizes
  <1>20. CASE E = 0
    <2>1. PICK h \in Nat : h = Jammed(g, 1)
      BY JammedIs
    <2>2. n = [exp |-> 0, sig |-> h]
      <3>1. ~(E >= M) /\ ~(E < 0)
        BY <1>20
      <3>2. QED
        BY <1>16, <1>20, <2>1, <3>1, Zenon
    <2>3. h < D
      <3>1. 1 \in Nat /\ 4 * F \in Int /\ g \in Int /\ 2^1 = 2
        OBVIOUS
      <3>2. Jammed(g, 1) < 2 * (4 * F) <=> g < 2^1 * (2 * (4 * F))
        BY <3>1, JammedTells, Zenon
      <3>3. h < 2 * (4 * F) <=> g < 2 * (2 * (4 * F))
        BY <2>1, <3>1, <3>2, Zenon
      <3>4. QED
        BY <1>1, <1>7, <1>20, <3>3
    <2>4. PICK d \in Nat : d = c + 1 /\ d = a + (1 - 1)
      <3>1. c + 1 \in Nat /\ c + 1 = a + (1 - 1)
        BY <1>14, <1>20
      <3>2. QED
        BY <3>1, Zenon
    <2>5. Tracks(4, h, P, q * 2^d) /\ (sticky => Meets(4, h, P, q * 2^d))
      <3>1. P \in Int /\ q \in Nat /\ 1 \in Nat
        OBVIOUS
      <3>2. QED
        BY <1>13, <2>1, <2>4, <3>1, ShiftedRight, Zenon
    <2>6. Keeps(h, 1, p, q, sticky)
      <3>1. h \in Int /\ 1 \in Nat \ {0}
        OBVIOUS
      <3>2. QED
        BY <1>11, <2>4, <2>5, <3>1, Cancelled, Zenon
    <2>7. n.exp = 0 /\ n.sig = h /\ h \in 0..(Lead - 1)
      BY <1>1, <2>2, <2>3
    <2>8. Denormal(n, p, q, sticky)
      BY <2>6, <2>7, Zenon DEF Denormal
    <2>9. QED
      BY <1>15, <2>8, Zenon DEF Normalizes
  <1>21. QED
    BY <1>17, <1>18, <1>19, <1>20

\* The fewest places that bring a significand to Lead, or as many as its
\* exponent allows.
LEMMA LeftShiftIs ==
    ASSUME NEW e \in Nat \ {0}, NEW x \in Nat, x < Lead
    PROVE  LET k == LeftShift(e, x) IN
           /\ k \in Nat \ {0} /\ k <= e /\ x * 2^(k - 1) < Lead
           /\ x * 2^k >= Lead \/ k = e
  <1> DEFINE Fit(k) == x * 2^k >= Lead \/ k = e
             K == {k \in 0..e : Fit(k)}
  <1>1. e \in K /\ K \subseteq Nat
    OBVIOUS
  <1>2. LeftShift(e, x) = Fewest(K)
    BY DEF LeftShift
  <1>3. PICK k \in Nat : k = LeftShift(e, x) /\ k \in K /\ \A j \in K : k <= j
    <2> HIDE DEF K
    <2>1. QED
      BY <1>1, <1>2, FewestIs
  <1>4. PICK D \in Nat \ {0} : D = Lead
    BY LargestIs
  <1>5. k # 0
    <2>1. 2^0 = 1 /\ x * 1 = x /\ ~(x >= D)
      BY <1>4
    <2>2. ~Fit(0)
      BY <1>4, <2>1, Zenon
    <2>3. QED
      BY <1>3, <2>2
  <1>6. k - 1 \in 0..e /\ k - 1 < k
    BY <1>3, <1>5
  <1>7. ~Fit(k - 1)
    BY <1>3, <1>6
  <1>8. PICK S \in Nat : S = 2^(k - 1)
    <2>1. k - 1 \in Nat
      BY <1>6
    <2>2. QED
      BY <2>1, PowerIs
  <1>9. x * S < D
    <2>1. x * S \in Nat
      OBVIOUS
    <2>2. ~(x * S >= D)
      BY <1>4, <1>7, <1>8, Zenon
    <2>3. QED
      BY <2>1, <2>2
  <1>10. QED
    BY <1>3, <1>4, <1>5, <1>8, <1>9

\* A significand that is what the value is can be shifted to the left, and by one
\* place also one to which a bit has stuck.
LEMMA ShiftedLeft ==
    ASSUME NEW x \in Nat, NEW k \in Nat, NEW p \in Nat, NEW q \in Nat \ {0}, NEW a \in Nat, NEW b \in Nat,
           Tracks(2, x, (8 * p) * 2^a, q * 2^b), NEW sticky,
           sticky => Meets(2, x, (8 * p) * 2^a, q * 2^b),
           (8 * p) * 2^a = x * (q * 2^b) \/ k = 1
    PROVE  /\ x * 2^k \in Nat /\ a + k \in Nat
           /\ Tracks(4, x * 2^k, (8 * p) * 2^(a + k), q * 2^b)
           /\ sticky => Meets(4, x * 2^k, (8 * p) * 2^(a + k), q * 2^b)
  <1>1. PICK A \in Nat \ {0}, K \in Nat \ {0} : A = 2^a /\ K = 2^k /\ 2^(a + k) = A * K
    BY PowerIs, PowerSplit, ZenonT(60)
  <1>2. PICK U \in Nat \ {0} : U = q * 2^b
    <2>1. PICK B \in Nat \ {0} : B = 2^b
      BY PowerIs
    <2>2. q * B \in Nat /\ q * B # 0
      OBVIOUS
    <2>3. QED
      BY <2>1, <2>2, Zenon
  <1>3. PICK P \in Nat : P = (8 * p) * A
    OBVIOUS
  <1>4. PICK X \in Nat : X = x * K
    OBVIOUS
  <1>5. (8 * p) * (A * K) = K * P
    BY <1>3
  <1>6. ASSUME NEW n \in Int, P = x * U
        PROVE  /\ X < 4 * n <=> K * P < (4 * n) * U
               /\ 4 * n < X => (4 * n) * U < K * P
               /\ X = 4 * n => K * P = (4 * n) * U
    <2>1. PICK m \in Int, y \in Int, z \in Int : m = 4 * n /\ y = U * X /\ z = U * m
      OBVIOUS
    <2>2. K * (x * U) = y
      BY <1>4, <2>1
    <2>3. K * P = y /\ m * U = z
      BY <1>6, <2>1, <2>2
    <2>4. X < m => y + U <= z
      BY <2>1, SmallerProduct
    <2>5. m < X => z + U <= y
      BY <2>1, SmallerProduct
    <2>6. X = m => y = z
      BY <2>1
    <2>7. (X < m <=> y < z) /\ (m < X => z < y) /\ (X = m => y = z)
      BY <2>4, <2>5, <2>6
    <2>8. QED
      BY <2>1, <2>3, <2>7, Zenon
  <1>7. ASSUME NEW n \in Int, k = 1
        PROVE  /\ X < 4 * n <=> K * P < (4 * n) * U
               /\ 4 * n < X => (4 * n) * U < K * P
               /\ sticky /\ X = 4 * n => K * P = (4 * n) * U
    <2>1. K = 2
      <3>1. 2^1 = 2
        OBVIOUS
      <3>2. QED
        BY <1>1, <1>7, <3>1, Zenon
    <2>2. PICK z \in Int : z = (2 * n) * U
      OBVIOUS
    <2>3. (4 * n) * U = 2 * z /\ K * P = 2 * P /\ X = 2 * x
      BY <1>4, <2>1, <2>2
    <2>4. (x < 2 * n <=> P < z) /\ (2 * n < x => z < P)
      BY <1>1, <1>2, <1>3, <2>2, Zenon DEF Tracks
    <2>5. sticky /\ x = 2 * n => P = z
      BY <1>1, <1>2, <1>3, <2>2, Zenon DEF Meets
    <2>6. X < 4 * n <=> x < 2 * n
      BY <2>3
    <2>7. 4 * n < X <=> 2 * n < x
      BY <2>3
    <2>8. X = 4 * n <=> x = 2 * n
      BY <2>3
    <2>9. (P < z <=> 2 * P < 2 * z) /\ (z < P <=> 2 * z < 2 * P)
      OBVIOUS
    <2>10. QED
      BY <2>3, <2>4, <2>5, <2>6, <2>7, <2>8, <2>9, Zenon
  <1>8. ASSUME NEW n \in Int
        PROVE  /\ X < 4 * n <=> K * P < (4 * n) * U
               /\ 4 * n < X => (4 * n) * U < K * P
               /\ sticky /\ X = 4 * n => K * P = (4 * n) * U
    <2>1. P = x * U \/ k = 1
      BY <1>1, <1>2, <1>3, Zenon
    <2>2. QED
      BY <1>6, <1>7, <2>1, Zenon
  <1>9. a + k \in Nat
    OBVIOUS
  <1>10. QED
    BY <1>1, <1>2, <1>4, <1>5, <1>8, <1>9, Zenon DEF Tracks, Meets

LEMMA NormalizedLeft ==
    ASSUME NEW e \in Nat \ {0}, NEW x \in Nat, x < Lead,
           NEW p \in Nat, NEW q \in Nat \ {0}, NEW a \in Nat, NEW b \in Nat, b - a = e - 1,
           NEW sticky,
           Tracks(2, x, (8 * p) * 2^a, q * 2^b), sticky => Meets(2, x, (8 * p) * 2^a, q * 2^b),
           (8 * p) * 2^a = x * (q * 2^b) \/ (Lead <= 2 * x /\ e >= 2)
    PROVE  Normalizes(Normalized(e, x), p, q, sticky)
  <1>1. PICK F \in Nat \ {0}, D \in Nat \ {0} : F = 2^FRAC /\ D = Lead /\ D = 8 * F
    BY LargestIs
  <1>2. PICK M \in Nat \ {0} : M = MAXE
    BY LargestIs
  <1>3. PICK k \in Nat \ {0} : k = LeftShift(e, x) /\ k <= e /\ x * 2^(k - 1) < D
    BY <1>1, LeftShiftIs
  <1>4. PICK j \in Nat : j = k - 1
    OBVIOUS
  <1>5. PICK S \in Nat \ {0} : S = 2^j /\ 2^k = 2 * S
    BY <1>4, Halves
  <1>6. PICK y \in Nat : y = x * S /\ y < D
    <2>1. x * S \in Nat /\ x * S < D
      BY <1>3, <1>4, <1>5
    <2>2. QED
      BY <2>1
  <1>7. x * 2^k = 2 * y
    BY <1>5, <1>6
  <1>8. ASSUME (8 * p) * 2^a # x * (q * 2^b)
        PROVE  k = 1 /\ e >= 2
    <2>1. D <= 2 * x /\ e >= 2
      BY <1>1, <1>8
    <2>2. ASSUME j >= 1
          PROVE  S >= 2
      <3>1. 1 \in Nat /\ 2^1 = 2
        OBVIOUS
      <3>2. 2^1 <= 2^j
        BY <2>2, <3>1, PowerOrder, Zenon
      <3>3. QED
        BY <1>5, <3>1, <3>2
    <2>3. S >= 2 => y >= 2 * x
      <3>1. S > 2 => x * 2 + x <= x * S
        BY SmallerProduct
      <3>2. S = 2 => x * S = 2 * x
        OBVIOUS
      <3>3. QED
        BY <1>6, <3>1, <3>2
    <2>4. QED
      BY <1>4, <1>6, <2>1, <2>2, <2>3
  <1>9. ~(x >= 2 * Lead \/ e < 0) /\ x < Lead /\ e > 0
    BY <1>1
  <1>10. PICK n : n = Normalized(e, x)
    OBVIOUS
  <1>11. n = [exp |-> e - k, sig |-> Jammed(2 * y, IF e = k THEN 1 ELSE 0)]
    BY <1>3, <1>7, <1>9, <1>10, Zenon DEF Normalized
  <1>12. CASE e = k
    <2>1. Jammed(2 * y, 1) = y
      <3>1. 2^1 = 2 /\ (2 * y) \div 2 = y /\ (2 * y) % 2 = 0 /\ y + 0 = y
        OBVIOUS
      <3>2. Jammed(2 * y, 1) = y + 0
        BY <3>1, Zenon DEF Jammed
      <3>3. QED
        BY <3>1, <3>2, Zenon
    <2>2. e - k = 0
      BY <1>12
    <2>3. n.exp = 0 /\ n.sig = y
      BY <1>11, <1>12, <2>1, <2>2
    <2>4. (8 * p) * 2^a = x * (q * 2^b)
      BY <1>8, <1>12
    <2>5. PICK c \in Nat : c = a + j
      OBVIOUS
    <2>6. /\ Tracks(4, y, (8 * p) * 2^c, q * 2^b)
          /\ sticky => Meets(4, y, (8 * p) * 2^c, q * 2^b)
      BY <1>5, <1>6, <2>4, <2>5, ShiftedLeft, Zenon
    <2>7. b = c + (1 - 1) /\ 1 \in Nat \ {0} /\ y \in Int
      BY <1>4, <1>12, <2>5
    <2>8. Keeps(y, 1, p, q, sticky)
      BY <2>6, <2>7, Cancelled, Zenon
    <2>9. y \in 0..(Lead - 1)
      BY <1>1, <1>6
    <2>10. Denormal(n, p, q, sticky)
      BY <2>3, <2>8, <2>9, Zenon DEF Denormal
    <2>11. QED
      BY <1>10, <2>10, Zenon DEF Normalizes
  <1>13. CASE e # k
    <2>1. PICK E \in Nat \ {0} : E = e - k
      BY <1>3, <1>13
    <2>2. n.exp = E /\ n.sig = 2 * y
      <3>1. 2 * y \in Nat
        OBVIOUS
      <3>2. n = [exp |-> E, sig |-> Jammed(2 * y, 0)]
        BY <1>11, <1>13, <2>1, Zenon
      <3>3. QED
        BY <3>1, <3>2, JammedByNone
    <2>3. 2 * y >= D
      <3>1. x * 2^k >= Lead
        BY <1>3, <1>13, LeftShiftIs
      <3>2. QED
        BY <1>1, <1>7, <3>1
    <2>4. PICK c \in Nat : c = a + k
      OBVIOUS
    <2>5. /\ Tracks(4, 2 * y, (8 * p) * 2^c, q * 2^b)
          /\ sticky => Meets(4, 2 * y, (8 * p) * 2^c, q * 2^b)
      <3>1. k \in Nat /\ ((8 * p) * 2^a = x * (q * 2^b) \/ k = 1)
        BY <1>8
      <3>2. QED
        BY <1>7, <2>4, <3>1, ShiftedLeft, Zenon
    <2>6. b = c + (E - 1)
      BY <2>1, <2>4
    <2>7. Keeps(2 * y, E, p, q, sticky)
      <3>1. 2 * y \in Int
        OBVIOUS
      <3>2. QED
        BY <2>5, <2>6, <3>1, Cancelled, Zenon
    <2>8. CASE E >= M
      <3>1. 2 * y \in Nat
        OBVIOUS
      <3>2. (2^FRAC * 2^(MAXE - 1)) * q <= p
        BY <1>1, <1>2, <2>3, <2>7, <2>8, <3>1, LargeIs
      <3>3. TooLarge(n, p, q)
        BY <1>2, <2>2, <2>8, <3>2 DEF TooLarge
      <3>4. QED
        BY <1>10, <3>3 DEF Normalizes
    <2>9. CASE E < M
      <3>1. E \in 1..(MAXE - 1) /\ 2 * y \in Lead..(2 * Lead - 1)
        BY <1>1, <1>2, <1>6, <2>3, <2>9
      <3>2. Normal(n, p, q, sticky)
        BY <2>2, <2>7, <3>1, Zenon DEF Normal
      <3>3. QED
        BY <1>10, <3>2, Zenon DEF Normalizes
    <2>10. QED
      BY <2>8, <2>9
  <1>14. QED
    BY <1>12, <1>13

\* Neither too large nor too small.
LEMMA NormalizedAsItIs ==
    ASSUME NEW e \in Nat, NEW x \in Nat, x < 2 * Lead, x >= Lead \/ e = 0,
           NEW p \in Nat, NEW q \in Nat \ {0}, NEW a \in Nat, NEW b \in Nat,
           b - a = (IF e = 0 THEN 1 ELSE e) - 1, NEW sticky,
           Tracks(2, x, (8 * p) * 2^a, q * 2^b), sticky => Meets(2, x, (8 * p) * 2^a, q * 2^b)
    PROVE  Normalizes(Normalized(e, x), p, q, sticky)
  <1>1. PICK F \in Nat \ {0}, D \in Nat \ {0} : F = 2^FRAC /\ D = Lead /\ D = 8 * F
    BY LargestIs
  <1>2. PICK M \in Nat \ {0} : M = MAXE
    BY LargestIs
  <1>3. PICK E \in Nat \ {0} : E = (IF e = 0 THEN 1 ELSE e) /\ b = a + (E - 1)
    OBVIOUS
  <1>4. PICK n : n = Normalized(e, x)
    OBVIOUS
  <1>5. n = [exp |-> IF e = 0 /\ x >= D THEN 1 ELSE e, sig |-> x]
    <2>1. ~(x >= 2 * Lead \/ e < 0) /\ ~(x < Lead /\ e > 0)
      BY <1>1
    <2>2. QED
      BY <1>1, <1>4, <2>1, Zenon DEF Normalized
  <1>6. PICK P \in Int, U \in Int : P = (8 * p) * 2^a /\ U = q * 2^b
    <2>1. PICK A \in Int, B \in Int : A = 2^a /\ B = 2^b
      BY PowerIs
    <2>2. (8 * p) * A \in Int /\ q * B \in Int
      OBVIOUS
    <2>3. QED
      BY <2>1, <2>2, Zenon
  <1>7. Keeps(x, E, p, q, sticky)
    <2>1. x \in Int
      OBVIOUS
    <2>2. Tracks(4, x, P, U) /\ (sticky => Meets(4, x, P, U))
      BY <1>6, <2>1, TracksByFour, Zenon
    <2>3. QED
      BY <1>3, <1>6, <2>1, <2>2, Cancelled, Zenon
  <1>8. CASE x >= D /\ E >= M
    <2>1. (2^FRAC * 2^(MAXE - 1)) * q <= p
      BY <1>1, <1>2, <1>7, <1>8, LargeIs
    <2>2. n.exp = E
      BY <1>3, <1>5, <1>8
    <2>3. TooLarge(n, p, q)
      BY <1>2, <1>8, <2>1, <2>2 DEF TooLarge
    <2>4. QED
      BY <1>4, <2>3 DEF Normalizes
  <1>9. CASE x >= D /\ E < M
    <2>1. n.exp = E /\ n.sig = x
      BY <1>3, <1>5, <1>9
    <2>2. E \in 1..(MAXE - 1) /\ x \in Lead..(2 * Lead - 1)
      BY <1>1, <1>2, <1>9
    <2>3. Normal(n, p, q, sticky)
      BY <1>7, <2>1, <2>2, Zenon DEF Normal
    <2>4. QED
      BY <1>4, <2>3, Zenon DEF Normalizes
  <1>10. CASE x < D
    <2>1. e = 0 /\ E = 1 /\ ~(x >= D)
      BY <1>1, <1>3, <1>10
    <2>2. n.exp = 0 /\ n.sig = x /\ x \in 0..(Lead - 1)
      BY <1>1, <1>5, <1>10, <2>1
    <2>3. Denormal(n, p, q, sticky)
      BY <1>7, <2>1, <2>2, Zenon DEF Denormal
    <2>4. QED
      BY <1>4, <2>3, Zenon DEF Normalizes
  <1>11. QED
    BY <1>8, <1>9, <1>10

-----------------------------------------------------------------------------
\* What a normalized significand is rounded and packed to.

LEMMA SizableAre ==
    ASSUME NEW s \in {0, 1}, NEW r \in Float, r.exponent = MAXE => r = Inf(s)
    PROVE  \E g \in Sizable : Size(g) = Size(r) /\ g.fraction = r.fraction
  <1> DEFINE g == [r EXCEPT !.sign = 0]
  <1>1. g \in Float /\ g.sign = 0 /\ g.exponent = r.exponent /\ g.fraction = r.fraction
    BY DEF Float
  <1>2. sig(g) = sig(r) /\ scale(g) = scale(r)
    BY <1>1 DEF sig, scale
  <1>3. Size(g) = Size(r)
    BY <1>2, Zenon DEF Size
  <1>4. r.exponent = MAXE => g = Inf(0)
    <2>1. Inf(s) = [sign |-> s, exponent |-> MAXE, fraction |-> 0]
      BY DEF Inf
    <2>2. r.exponent = MAXE => g = [sign |-> 0, exponent |-> MAXE, fraction |-> 0]
      BY <2>1
    <2>3. QED
      BY <2>2 DEF Inf
  <1>5. g \in Sizable
    BY <1>1, <1>4 DEF Sizable
  <1> HIDE DEF g
  <1>6. QED
    BY <1>1, <1>3, <1>5

LEMMA NearestIsOrBelow ==
    ASSUME NEW s \in {0, 1}, NEW r \in Float, r.exponent = MAXE => r = Inf(s),
           NEW p \in Nat, NEW q \in Nat \ {0}, Nearest(r, p, q)
    PROVE  NearestOrBelow(r, p, q)
  <1>1. PICK g \in Sizable : Size(g) = Size(r) /\ g.fraction = r.fraction
    BY SizableAre
  <1>2. Nearest(g, p, q)
    BY <1>1, Zenon DEF Nearest
  <1>3. PICK z \in Nat : z = Size(g)
    BY SizableIs
  <1>4. \A h \in Sizable : Size(h) \in Nat
    BY SizableIs
  <1>5. \A h \in Sizable : ~(z < Size(h) /\ Size(h) < z)
    BY <1>4
  <1>6. Size(r) <= Size(g)
    BY <1>1, <1>3
  <1>7. \A h \in Sizable : ~(Size(r) < Size(h) /\ Size(h) < Size(g))
    BY <1>1, <1>3, <1>5
  <1>8. QED
    BY <1>2, <1>6, <1>7, Zenon DEF NearestOrBelow

\* Half a unit below the nearest there is no other float.
LEMMA NextBelow ==
    ASSUME NEW E \in 1..MAXE, NEW Q \in Nat, NEW r \in Float, NEW g \in Sizable,
           Size(r) = Q * 2^(E - 1), Size(g) = (Q + 1) * 2^(E - 1),
           NEW p \in Nat, NEW q \in Nat \ {0}, Nearest(g, p, q), E = 1 \/ 2^FRAC <= Q
    PROVE  NearestOrBelow(r, p, q)
  <1>1. PICK F \in Nat \ {0} : F = 2^FRAC
    BY LargestIs
  <1>2. PICK u \in Nat \ {0} : u = 2^(E - 1)
    <2>1. E - 1 \in Nat
      BY LargestIs
    <2>2. QED
      BY <2>1, PowerIs
  <1>3. PICK y \in Nat : y = Q * u /\ y = u * Q /\ (Q + 1) * u = y + u
    OBVIOUS
  <1>4. Size(r) = y /\ Size(g) = y + u
    BY <1>2, <1>3
  <1>5. ASSUME NEW h \in Sizable
        PROVE  ~(y < Size(h) /\ Size(h) < y + u)
    <2>1. h \in Float
      BY SizableIs
    <2>2. CASE E <= scale(h)
      <3>1. PICK m \in Nat : Size(h) = m * u
        BY <1>2, <2>1, <2>2, SizeIs
      <3>2. PICK z \in Int : z = m * u /\ z = u * m
        OBVIOUS
      <3>3. m < Q => z + u <= y
        BY <1>3, <3>2, SmallerProduct
      <3>4. Q < m => y + u <= z
        BY <1>3, <3>2, SmallerProduct
      <3>5. m = Q => z = y
        BY <1>3, <3>2
      <3>6. QED
        BY <3>1, <3>2, <3>3, <3>4, <3>5
    <2>3. CASE scale(h) < E
      <3>1. PICK z \in Nat : z = Size(h) /\ z < F * u
        BY <1>1, <1>2, <2>1, <2>3, SizeIs
      <3>2. F <= Q
        BY <1>1, <2>1, <2>3, ScaleIs
      <3>3. PICK w \in Int : w = F * u /\ w = u * F
        OBVIOUS
      <3>4. F < Q => w + u <= y
        BY <1>3, <3>3, SmallerProduct
      <3>5. F = Q => w = y
        BY <1>3, <3>3
      <3>6. QED
        BY <3>1, <3>2, <3>3, <3>4, <3>5
    <2>4. QED
      BY <2>1, <2>2, <2>3, ScaleIs
  <1>6. Size(r) <= Size(g)
    BY <1>4
  <1>7. \A h \in Sizable : ~(Size(r) < Size(h) /\ Size(h) < Size(g))
    BY <1>4, <1>5, Zenon
  <1>8. QED
    BY <1>6, <1>7, Zenon DEF NearestOrBelow

\* r has sign s and is p / q rounded: to the nearest if nothing was lost of it.
RoundedTo(r, s, p, q, sticky) ==
    /\ r \in Float /\ r.sign = s /\ (r.exponent = MAXE => r = Inf(s))
    /\ NearestOrBelow(r, p, q) \/ UpToNormal(p, q)
    /\ sticky => Nearest(r, p, q) \/ UpToNormal(p, q)

LEMMA LargeRounds ==
    ASSUME NEW s \in {0, 1}, NEW n, NEW p \in Nat, NEW q \in Nat \ {0}, TooLarge(n, p, q), NEW sticky
    PROVE  RoundedTo(Packed(s, n.exp, Rounded(n.sig)), s, p, q, sticky)
  <1>1. PICK e \in Nat, M \in Nat : e = n.exp /\ M = MAXE /\ e >= M
    BY LargestIs DEF TooLarge
  <1>2. ~(e < M)
    BY <1>1
  <1>3. Packed(s, n.exp, Rounded(n.sig)) = Inf(s)
    BY <1>1, <1>2, Zenon DEF Packed
  <1>4. Nearest(Inf(s), p, q)
    BY NearestInf DEF TooLarge
  <1>5. NearestOrBelow(Inf(s), p, q)
    BY <1>4, InfinityIs, NearestIsOrBelow
  <1>6. QED
    BY <1>3, <1>4, <1>5, InfinityIs, Zenon DEF RoundedTo

LEMMA SmallRounds ==
    ASSUME NEW s \in {0, 1}, NEW n, NEW p \in Nat, NEW q \in Nat \ {0}, TooSmall(n, p, q), NEW sticky
    PROVE  RoundedTo(Packed(s, n.exp, Rounded(n.sig)), s, p, q, sticky)
  <1>1. n.exp = 0 /\ n.sig = 0 /\ 2 * p < q
    BY DEF TooSmall
  <1>2. Rounded(0) = 0
    BY DEF Rounded
  <1>3. PICK F \in Nat \ {0} : F = 2^FRAC
    BY LargestIs
  <1>4. 0 \in 0..F /\ 0 < F
    OBVIOUS
  <1>5. PICK r : r = Packed(s, 0, 0)
    OBVIOUS
  <1>6. /\ r \in Float /\ r.sign = s /\ r.exponent # MAXE
        /\ Size(r) = 0 * 2^(1 - 1) /\ (0 % 2 = 0 => r.fraction % 2 = 0)
    BY <1>3, <1>4, <1>5, PackedDenormal, Zenon
  <1>7. 1 \in 1..MAXE /\ 1 - 1 = 0 /\ 2^0 = 1 /\ q * 1 = q /\ 0 * q = 0
    BY LargestIs
  <1>8. Within(0, q * 2^(1 - 1), 8 * p)
    BY <1>1, <1>7 DEF Within
  <1>9. Nearest(r, p, q)
    BY <1>6, <1>7, <1>8, WithinNearest
  <1>10. NearestOrBelow(r, p, q)
    BY <1>6, <1>9, NearestIsOrBelow
  <1>11. Packed(s, n.exp, Rounded(n.sig)) = r
    BY <1>1, <1>2, <1>5
  <1>12. QED
    BY <1>6, <1>9, <1>10, <1>11, Zenon DEF RoundedTo

LEMMA NormalRounds ==
    ASSUME NEW s \in {0, 1}, NEW n, NEW p \in Nat, NEW q \in Nat \ {0}, NEW sticky,
           Normal(n, p, q, sticky)
    PROVE  RoundedTo(Packed(s, n.exp, Rounded(n.sig)), s, p, q, sticky)
  <1>1. PICK F \in Nat \ {0} : F = 2^FRAC /\ Lead = 8 * F
    BY LargestIs
  <1>2. PICK E \in Nat, G \in Nat :
            E = n.exp /\ G = n.sig /\ E \in 1..(MAXE - 1) /\ G \in (8 * F)..(16 * F - 1)
    BY <1>1, LargestIs DEF Normal
  <1>3. Keeps(G, E, p, q, sticky)
    BY <1>2, Zenon DEF Normal
  <1>4. PICK u \in Nat \ {0} : u = 2^(E - 1)
    <2>1. E - 1 \in Nat
      BY <1>2, LargestIs
    <2>2. QED
      BY <2>1, PowerIs
  <1>5. PICK U \in Nat \ {0} : U = q * u
    <2>1. q * u \in Nat /\ q * u # 0
      OBVIOUS
    <2>2. QED
      BY <2>1
  <1>6. Tracks(4, G, 8 * p, U) /\ (sticky => Meets(4, G, 8 * p, U))
    BY <1>3, <1>4, <1>5, Zenon DEF Keeps
  <1>7. F * U <= p
    <2>1. PICK V \in Int : V = F * U
      OBVIOUS
    <2>2. (4 * (2 * F)) * U = 8 * V /\ 2 * F \in Int
      BY <2>1
    <2>3. G < 4 * (2 * F) <=> 8 * p < 8 * V
      BY <1>6, <2>2, Zenon DEF Tracks
    <2>4. QED
      BY <1>2, <2>1, <2>3
  <1>8. PICK Q : Q = Rounded(G)
    OBVIOUS
  <1>9. /\ Q \in Nat /\ G <= 8 * Q + 4 /\ 8 * Q <= G + 4
        /\ \/ Within(Q, U, 8 * p)
           \/ Within(Q + 1, U, 8 * p) /\ Q % 2 = 0 /\ G = 8 * Q + 4
        /\ sticky => Within(Q, U, 8 * p)
    <2>1. 8 * p \in Int
      OBVIOUS
    <2>2. QED
      BY <1>6, <1>8, <2>1, RoundedWithin, Zenon
  <1>10. Q \in F..(2 * F)
    BY <1>2, <1>9
  <1>11. PICK r : r = Packed(s, E, Q)
    OBVIOUS
  <1>12. /\ r \in Float /\ r.sign = s /\ (r.exponent = MAXE => r = Inf(s))
         /\ Size(r) = Q * 2^(E - 1) /\ (Q % 2 = 0 => r.fraction % 2 = 0)
    BY <1>1, <1>2, <1>10, <1>11, PackedNormal, Zenon
  <1>13. E \in 1..MAXE
    BY <1>2, LargestIs
  <1>14. ASSUME Within(Q, U, 8 * p)
         PROVE  Nearest(r, p, q) /\ NearestOrBelow(r, p, q)
    <2>1. Nearest(r, p, q)
      BY <1>1, <1>4, <1>5, <1>7, <1>9, <1>12, <1>13, <1>14, WithinNearest, Zenon
    <2>2. QED
      BY <1>12, <2>1, NearestIsOrBelow
  <1>15. ASSUME Within(Q + 1, U, 8 * p), Q % 2 = 0, G = 8 * Q + 4
         PROVE  NearestOrBelow(r, p, q)
    <2>1. Q + 1 \in F..(2 * F) /\ (Q + 1) % 2 # 0 /\ Q + 1 \in Nat
      BY <1>2, <1>9, <1>10, <1>15
    <2>2. PICK t : t = Packed(0, E, Q + 1)
      OBVIOUS
    <2>3. /\ t \in Float /\ t.sign = 0 /\ (t.exponent = MAXE => t = Inf(0))
          /\ Size(t) = (Q + 1) * 2^(E - 1)
      BY <1>1, <1>2, <2>1, <2>2, PackedNormal
    <2>4. t \in Sizable
      BY <2>3 DEF Sizable
    <2>5. Nearest(t, p, q)
      BY <1>1, <1>4, <1>5, <1>7, <1>13, <1>15, <2>1, <2>3, WithinNearest, Zenon
    <2>6. E = 1 \/ 2^FRAC <= Q
      BY <1>1, <1>10
    <2>7. QED
      BY <1>9, <1>12, <1>13, <2>3, <2>4, <2>5, <2>6, NextBelow, Zenon
  <1>16. Packed(s, n.exp, Rounded(n.sig)) = r
    BY <1>2, <1>8, <1>11
  <1>17. QED
    BY <1>9, <1>12, <1>14, <1>15, <1>16, Zenon DEF RoundedTo

LEMMA DenormalRounds ==
    ASSUME NEW s \in {0, 1}, NEW n, NEW p \in Nat, NEW q \in Nat \ {0}, NEW sticky,
           Denormal(n, p, q, sticky)
    PROVE  RoundedTo(Packed(s, n.exp, Rounded(n.sig)), s, p, q, sticky)
  <1>1. PICK F \in Nat \ {0} : F = 2^FRAC /\ Lead = 8 * F /\ F % 2 = 0
    BY LargestIs
  <1>2. PICK G \in Nat : n.exp = 0 /\ G = n.sig /\ G \in 0..(8 * F - 1)
    BY <1>1 DEF Denormal
  <1>3. Keeps(G, 1, p, q, sticky)
    BY <1>2, Zenon DEF Denormal
  <1>4. 2^(1 - 1) = 1 /\ q * 1 = q /\ 1 \in 1..MAXE /\ F * 1 = F
    <2>1. 1 - 1 = 0 /\ 2^0 = 1
      OBVIOUS
    <2>2. QED
      BY <2>1, LargestIs
  <1>5. Tracks(4, G, 8 * p, q) /\ (sticky => Meets(4, G, 8 * p, q))
    BY <1>3, <1>4, Zenon DEF Keeps
  <1>6. p < F * q
    <2>1. PICK V \in Int : V = F * q
      OBVIOUS
    <2>2. (4 * (2 * F)) * q = 8 * V /\ 2 * F \in Int
      BY <2>1
    <2>3. G < 4 * (2 * F) <=> 8 * p < 8 * V
      BY <1>5, <2>2, Zenon DEF Tracks
    <2>4. QED
      BY <1>2, <2>1, <2>3
  <1>7. PICK Q : Q = Rounded(G)
    OBVIOUS
  <1>8. /\ Q \in Nat /\ G <= 8 * Q + 4 /\ 8 * Q <= G + 4
        /\ \/ Within(Q, q, 8 * p)
           \/ Within(Q + 1, q, 8 * p) /\ Q % 2 = 0 /\ G = 8 * Q + 4
        /\ sticky => Within(Q, q, 8 * p)
    <2>1. 8 * p \in Int
      OBVIOUS
    <2>2. QED
      BY <1>5, <1>7, <2>1, RoundedWithin, Zenon
  <1>9. Q \in 0..F
    BY <1>2, <1>8
  <1>10. PICK r : r = Packed(s, 0, Q)
    OBVIOUS
  <1>11. /\ r \in Float /\ r.sign = s /\ r.exponent # MAXE
         /\ Q < F => Size(r) = Q * 2^(1 - 1) /\ (Q % 2 = 0 => r.fraction % 2 = 0)
    BY <1>1, <1>9, <1>10, PackedDenormal, Zenon
  <1>12. ASSUME Within(Q, q, 8 * p), Q < F
         PROVE  Nearest(r, p, q) /\ NearestOrBelow(r, p, q)
    <2>1. Nearest(r, p, q)
      BY <1>4, <1>8, <1>11, <1>12, WithinNearest, Zenon
    <2>2. QED
      BY <1>11, <2>1, NearestIsOrBelow
  <1>13. ASSUME Within(Q + 1, q, 8 * p), Q % 2 = 0, G = 8 * Q + 4
         PROVE  NearestOrBelow(r, p, q) /\ Q < F
    <2>1. Q + 1 \in 0..F /\ (Q + 1) % 2 # 0 /\ Q + 1 \in Nat /\ Q + 1 < F /\ Q < F
      BY <1>1, <1>2, <1>8, <1>9, <1>13
    <2>2. PICK t : t = Packed(0, 0, Q + 1)
      OBVIOUS
    <2>3. t \in Float /\ t.sign = 0 /\ t.exponent # MAXE /\ Size(t) = (Q + 1) * 2^(1 - 1)
      BY <1>1, <2>1, <2>2, PackedDenormal
    <2>4. t \in Sizable
      BY <2>3 DEF Sizable
    <2>5. Nearest(t, p, q)
      BY <1>4, <1>13, <2>1, <2>3, WithinNearest, ZenonT(60)
    <2>6. QED
      BY <1>4, <1>8, <1>11, <2>1, <2>3, <2>4, <2>5, NextBelow, Zenon
  <1>14. ASSUME Q = F, Within(Q, q, 8 * p)
         PROVE  UpToNormal(p, q)
    <2>1. PICK f : f = [sign |-> 0, exponent |-> 1, fraction |-> 0]
      OBVIOUS
    <2>2. f \in Float /\ f.fraction = 0 /\ f.exponent = 1 /\ f.fraction % 2 = 0
      BY <1>1, <2>1, LargestIs DEF Float
    <2>3. sig(f) = F /\ scale(f) = 1
      <3>1. 0 + F = F
        OBVIOUS
      <3>2. QED
        BY <1>1, <2>2, <3>1, ScaleIs
    <2>4. Size(f) = Q * 2^(1 - 1)
      BY <1>14, <2>3, Zenon DEF Size
    <2>5. Nearest(f, p, q)
      BY <1>4, <1>8, <1>14, <2>2, <2>4, WithinNearest, ZenonT(60)
    <2>6. QED
      BY <1>1, <1>6, <2>1, <2>5, Zenon DEF UpToNormal
  <1>15. Packed(s, n.exp, Rounded(n.sig)) = r
    BY <1>2, <1>7, <1>10
  <1>16. CASE Q = F
    BY <1>8, <1>11, <1>13, <1>14, <1>15, <1>16, Zenon DEF RoundedTo
  <1>17. CASE Q < F
    BY <1>8, <1>11, <1>12, <1>13, <1>15, <1>17, Zenon DEF RoundedTo
  <1>18. QED
    BY <1>9, <1>16, <1>17

\* What is normalized, rounded and packed is the value rounded.
LEMMA NormalizedRounds ==
    ASSUME NEW s \in {0, 1}, NEW e, NEW x, NEW p \in Nat, NEW q \in Nat \ {0}, NEW sticky,
           Normalizes(Normalized(e, x), p, q, sticky)
    PROVE  RoundedTo(internal_normalize(s, e, x), s, p, q, sticky)
  <1>1. PICK n : n = Normalized(e, x)
    OBVIOUS
  <1>2. internal_normalize(s, e, x) = Packed(s, n.exp, Rounded(n.sig))
    BY <1>1, Zenon DEF internal_normalize
  <1>3. \/ TooLarge(n, p, q) \/ TooSmall(n, p, q)
        \/ Normal(n, p, q, sticky) \/ Denormal(n, p, q, sticky)
    BY <1>1, Zenon DEF Normalizes
  <1>4. QED
    BY <1>2, <1>3, LargeRounds, SmallRounds, NormalRounds, DenormalRounds, Zenon

-----------------------------------------------------------------------------
\* Sums and differences.

\* A shifted significand, of either sign, and an even number: their sum compares
\* with every even number as the sum of the values does.
LEMMA SumSticks ==
    ASSUME NEW S \in Int, NEW d \in Nat, NEW L \in Nat \ {0}, NEW t \in Int, NEW n \in Int
    PROVE  LET J == Jammed(S, d)  U == L * 2^d IN
           /\ J + 2 * t < 2 * n <=> S * L + 2 * (t * U) < (2 * n) * U
           /\ 2 * n < J + 2 * t <=> (2 * n) * U < S * L + 2 * (t * U)
           /\ -J + 2 * t < 2 * n <=> -(S * L) + 2 * (t * U) < (2 * n) * U
           /\ 2 * n < -J + 2 * t <=> (2 * n) * U < -(S * L) + 2 * (t * U)
  <1>1. PICK K \in Nat \ {0} : K = 2^d
    BY PowerIs
  <1>2. PICK J \in Int : J = Jammed(S, d)
    BY JammedTells
  <1>3. PICK U \in Int : U = L * K
    OBVIOUS
  <1>4. PICK v \in Int, w \in Int, y \in Int : v = t * U /\ w = n * U /\ y = S * L
    OBVIOUS
  <1>5. (2 * n) * U = 2 * w
    BY <1>4
  <1>6. ASSUME NEW m \in Int
        PROVE  (J < 2 * m <=> y < 2 * (m * U)) /\ (2 * m < J <=> 2 * (m * U) < y)
    <2>1. (J < 2 * m <=> S < K * (2 * m)) /\ (2 * m < J <=> K * (2 * m) < S)
      BY <1>1, <1>2, JammedTells
    <2>2. PICK z \in Int, r \in Int : z = K * (2 * m) /\ r = L * z
      OBVIOUS
    <2>3. r = 2 * (m * U) /\ L * S = y
      BY <1>3, <1>4, <2>2
    <2>4. S < z => y + L <= r
      BY <2>2, <2>3, SmallerProduct
    <2>5. z < S => r + L <= y
      BY <2>2, <2>3, SmallerProduct
    <2>6. z = S => r = y
      BY <2>2, <2>3
    <2>7. (S < z <=> y < r) /\ (z < S <=> r < y)
      BY <2>4, <2>5, <2>6
    <2>8. QED
      BY <2>1, <2>2, <2>3, <2>7
  <1>7. PICK i \in Int, j \in Int : i = n - t /\ j = t - n
    OBVIOUS
  <1>8. i * U = w - v /\ j * U = v - w
    BY <1>4, <1>7
  <1>9. (J < 2 * i <=> y < 2 * (w - v)) /\ (2 * i < J <=> 2 * (w - v) < y)
    BY <1>6, <1>8
  <1>10. (J < 2 * j <=> y < 2 * (v - w)) /\ (2 * j < J <=> 2 * (v - w) < y)
    BY <1>6, <1>8
  <1>11. /\ J + 2 * t < 2 * n <=> y + 2 * v < 2 * w
         /\ 2 * n < J + 2 * t <=> 2 * w < y + 2 * v
    BY <1>7, <1>9
  <1>12. /\ -J + 2 * t < 2 * n <=> -y + 2 * v < 2 * w
         /\ 2 * n < -J + 2 * t <=> 2 * w < -y + 2 * v
    BY <1>7, <1>10
  <1>13. QED
    BY <1>1, <1>2, <1>3, <1>4, <1>5, <1>11, <1>12

\* Three places take nothing off a significand with its three extra bits.
LEMMA JammedExactly ==
    ASSUME NEW m \in Nat, NEW d \in 0..3
    PROVE  8 * m = 2^d * Jammed(8 * m, d)
  <1>1. 2^0 = 1 /\ 2^1 = 2 /\ 2^2 = 4 /\ 2^3 = 8
    OBVIOUS
  <1>2. /\ (8 * m) \div 1 = 8 * m /\ (8 * m) % 1 = 0
        /\ (8 * m) \div 2 = 4 * m /\ (8 * m) % 2 = 0
        /\ (8 * m) \div 4 = 2 * m /\ (8 * m) % 4 = 0
        /\ (8 * m) \div 8 = m /\ (8 * m) % 8 = 0
    OBVIOUS
  <1>3. 8 * m + 0 = 8 * m /\ 4 * m + 0 = 4 * m /\ 2 * m + 0 = 2 * m /\ m + 0 = m
    OBVIOUS
  <1>4. d = 0 => Jammed(8 * m, d) = 8 * m
    BY <1>1, <1>2, <1>3, Zenon DEF Jammed
  <1>5. d = 1 => Jammed(8 * m, d) = 4 * m
    BY <1>1, <1>2, <1>3, Zenon DEF Jammed
  <1>6. d = 2 => Jammed(8 * m, d) = 2 * m
    BY <1>1, <1>2, <1>3, Zenon DEF Jammed
  <1>7. d = 3 => Jammed(8 * m, d) = m
    BY <1>1, <1>2, <1>3, Zenon DEF Jammed
  <1>8. QED
    <2>1. d = 0 \/ d = 1 \/ d = 2 \/ d = 3
      OBVIOUS
    <2>2. 1 * (8 * m) = 8 * m /\ 2 * (4 * m) = 8 * m /\ 4 * (2 * m) = 8 * m
      OBVIOUS
    <2>3. QED
      BY <1>1, <1>4, <1>5, <1>6, <1>7, <2>1, <2>2, Zenon

\* A whole number of the smallest units is not rounded up to a normal number.
LEMMA WholeIsNotUpToNormal ==
    ASSUME NEW p \in Nat
    PROVE  ~UpToNormal(p, 1)
  <1>1. PICK F \in Nat \ {0} : F = 2^FRAC
    BY LargestIs
  <1> DEFINE f == [sign |-> 0, exponent |-> 1, fraction |-> 0]
             g == [sign |-> 0, exponent |-> 0, fraction |-> p]
  <1>2. ASSUME UpToNormal(p, 1)
        PROVE  FALSE
    <2>1. p < F * 1 /\ Nearest(f, p, 1)
      BY <1>1, <1>2 DEF UpToNormal
    <2>2. p < F /\ F * 1 = F /\ p * 1 = p
      BY <2>1
    <2>3. f \in Float /\ f.exponent = 1 /\ f.fraction = 0
      BY <1>1, LargestIs DEF Float
    <2>4. g \in Float /\ g.exponent = 0 /\ g.fraction = p /\ g.sign = 0
      BY <1>1, <2>2, LargestIs DEF Float
    <2>5. g \in Sizable
      BY <2>4, LargestIs DEF Sizable
    <2>6. sig(f) = F /\ scale(f) = 1 /\ sig(g) = p /\ scale(g) = 1
      BY <1>1, <2>3, <2>4, ScaleIs
    <2>7. 1 - 1 = 0 /\ 2^0 = 1
      OBVIOUS
    <2> HIDE DEF f, g
    <2>8. Size(f) = F /\ Size(g) = p
      BY <2>2, <2>6, <2>7, Zenon DEF Size
    <2>9. \/ Distance(F * 1, p) < Distance(p * 1, p)
          \/ Distance(F * 1, p) = Distance(p * 1, p)
      BY <2>1, <2>5, <2>8, Zenon DEF Nearest
    <2>10. QED
      BY <2>2, <2>9 DEF Distance
  <1>3. QED
    BY <1>2

\* The sum of the shifted significand and the other is what the sum of the two
\* floats is compared with, and is exact or large enough.
LEMMA SumNormalizes ==
    ASSUME NEW e \in Nat, NEW x \in Nat, NEW p \in Nat, NEW c \in Nat,
           c = (IF e = 0 THEN 1 ELSE e) - 1, x < 2^WIDE, e = 0 => x < 2 * Lead,
           Tracks(2, x, 8 * p, 2^c), Meets(2, x, 8 * p, 2^c),
           8 * p = x * 2^c \/ (Lead <= 2 * x /\ e >= 2)
    PROVE  Normalizes(Normalized(e, x), p, 1, TRUE)
  <1>1. PICK u \in Nat : u = 2^c
    BY PowerIs
  <1>2. (8 * p) * 2^0 = 8 * p /\ 1 * 2^c = 2^c /\ 0 \in Nat /\ 1 \in Nat \ {0}
    <2>1. 2^0 = 1 /\ (8 * p) * 1 = 8 * p /\ 1 * u = u
      OBVIOUS
    <2>2. QED
      BY <1>1, <2>1
  <1>3. Tracks(2, x, (8 * p) * 2^0, 1 * 2^c) /\ (TRUE => Meets(2, x, (8 * p) * 2^0, 1 * 2^c))
    BY <1>2, Zenon
  <1>4. (8 * p) * 2^0 = x * (1 * 2^c) \/ (Lead <= 2 * x /\ e >= 2)
    BY <1>2, Zenon
  <1>5. PICK D \in Nat \ {0} : D = Lead
    BY LargestIs
  <1>6. x \in 0..(2^WIDE - 1) /\ e \in Int
    BY FloatNumbers
  <1>7. CASE x >= 2 * D
    <2>1. c - 0 = e - 1
      BY <1>5, <1>7
    <2>2. QED
      BY <1>2, <1>3, <1>5, <1>6, <1>7, <2>1, NormalizedRight, Zenon
  <1>8. CASE x < D /\ e # 0
    <2>1. c - 0 = e - 1 /\ e \in Nat \ {0}
      BY <1>8
    <2>2. QED
      BY <1>2, <1>3, <1>4, <1>5, <1>8, <2>1, NormalizedLeft, Zenon
  <1>9. CASE x < 2 * D /\ (x >= D \/ e = 0)
    <2>1. c - 0 = (IF e = 0 THEN 1 ELSE e) - 1
      OBVIOUS
    <2>2. QED
      BY <1>2, <1>3, <1>5, <1>9, <2>1, NormalizedAsItIs, Zenon
  <1>10. \/ x >= 2 * D
         \/ x < D /\ e # 0
         \/ x < 2 * D /\ (x >= D \/ e = 0)
    OBVIOUS
  <1>11. QED
    BY <1>7, <1>8, <1>9, <1>10, Zenon

LEMMA AddedRounds ==
    ASSUME NEW l \in Float, NEW h \in Float, l.exponent <= h.exponent
    PROVE  LET W0 == Negated(l, Size(l)) + Negated(h, Size(h))
               s == IF W0 < 0 THEN 1 ELSE 0 IN
           /\ W0 \in Int /\ Added(l, h) \in Float /\ Added(l, h).sign = s
           /\ Added(l, h).exponent = MAXE => Added(l, h) = Inf(s)
           /\ Nearest(Added(l, h), Distance(W0, 0), 1)
  <1>1. PICK F \in Nat \ {0}, w \in Nat : F = 2^FRAC /\ Lead = 8 * F /\ w = 2^WIDE /\ 32 * F < w
    <2>1. PICK F \in Nat \ {0}, w \in Nat : F = 2^FRAC /\ Lead = 8 * F /\ w = 2^WIDE
      BY LargestIs, FloatNumbers
    <2>2. 2^(FRAC + 1) = 2 * F
      BY <2>1, LargestIs
    <2>3. 16 * (2 * F) < w
      BY <2>1, <2>2, WideIs
    <2>4. QED
      BY <2>1, <2>3
  <1>2. PICK sl \in 0..(2 * F - 1), sh \in 0..(2 * F - 1) : sl = sig(l) /\ sh = sig(h)
    BY <1>1, ScaleIs
  <1>3. PICK i \in Nat, d \in Nat, c \in Nat, e \in Nat :
            /\ i = scale(l) - 1 /\ d = scale(h) - scale(l) /\ c = i + d
            /\ e = h.exponent /\ c = scale(h) - 1 /\ c = (IF e = 0 THEN 1 ELSE e) - 1
            /\ (e = 0 => sl < F /\ sh < F) /\ (e # 0 => sh >= F)
    <2>1. PICK e \in Nat, f \in Nat : e = h.exponent /\ f = l.exponent
      BY SignificandIs, LargestIs
    <2>2. /\ scale(h) = IF e = 0 THEN 1 ELSE e
          /\ scale(l) = IF f = 0 THEN 1 ELSE f
      BY <2>1 DEF scale
    <2>3. /\ e # 0 => sh >= F
          /\ e = 0 => sh < F
          /\ f = 0 => sl < F
      BY <1>1, <1>2, <2>1, ScaleIs
    <2>4. f <= e
      BY <2>1
    <2>5. /\ scale(l) - 1 \in Nat /\ scale(h) - scale(l) \in Nat /\ scale(h) - 1 \in Nat
          /\ (scale(l) - 1) + (scale(h) - scale(l)) = scale(h) - 1
      BY <2>2, <2>4
    <2>6. PICK i \in Nat, d \in Nat, c \in Nat :
                i = scale(l) - 1 /\ d = scale(h) - scale(l) /\ c = scale(h) - 1 /\ c = i + d
      BY <2>5, Zenon
    <2>7. c = (IF e = 0 THEN 1 ELSE e) - 1
      BY <2>2, <2>6
    <2>8. e = 0 => f = 0
      BY <2>4
    <2>9. QED
      BY <2>1, <2>3, <2>6, <2>7, <2>8, Zenon
  <1>4. PICK L \in Nat \ {0}, K \in Nat \ {0}, U \in Nat \ {0} :
            L = 2^i /\ K = 2^d /\ U = 2^c /\ U = L * K
    <2>1. 2^i \in Nat \ {0} /\ 2^d \in Nat \ {0} /\ 2^(i + d) = 2^i * 2^d
      BY PowerIs, PowerSplit, Zenon
    <2>2. PICK L \in Nat \ {0}, K \in Nat \ {0} : L = 2^i /\ K = 2^d
      BY <2>1, Zenon
    <2>3. 2^c = L * K
      BY <1>3, <2>1, <2>2, Zenon
    <2>4. L * K \in Nat \ {0}
      OBVIOUS
    <2>5. QED
      BY <2>2, <2>3, <2>4, Zenon
  <1>5. PICK J \in Nat : J = Jammed(8 * sl, d) /\ J <= 8 * sl
    <2>1. 8 * sl \in Nat
      BY <1>1
    <2>2. QED
      BY <2>1, JammedIs
  <1>6. PICK t \in Int : t = IF h.sign = 1 THEN -(4 * sh) ELSE 4 * sh
    OBVIOUS
  <1>7. PICK y \in Int, v \in Int : y = (8 * sl) * L /\ v = t * U
    OBVIOUS
  <1>8. PICK o \in Int : o = Negated(l, J) + Negated(h, 8 * sh)
    BY DEF Negated
  <1>9. o = (IF l.sign = 1 THEN -J ELSE J) + 2 * t
    BY <1>6, <1>8 DEF Negated
  <1>10. PICK Z \in Int : /\ Z = Negated(l, Size(l)) + Negated(h, Size(h))
                          /\ 8 * Z = (IF l.sign = 1 THEN -y ELSE y) + 2 * v
    <2>1. PICK m \in Nat, n \in Nat : m = sl * L /\ n = sh * U
      OBVIOUS
    <2>2. Size(l) = m /\ Size(h) = n
      BY <1>2, <1>3, <1>4, <2>1, Zenon DEF Size
    <2>3. y = 8 * m /\ 2 * v = IF h.sign = 1 THEN -(8 * n) ELSE 8 * n
      BY <1>6, <1>7, <2>1
    <2>4. PICK Z \in Int : Z = Negated(l, m) + Negated(h, n)
      BY DEF Negated
    <2>5. 8 * Z = (IF l.sign = 1 THEN -y ELSE y) + 2 * v
      BY <2>3, <2>4 DEF Negated
    <2>6. QED
      BY <2>2, <2>4, <2>5
  <1>11. PICK V \in Int : V = 8 * Z
    OBVIOUS
  <1>12. ASSUME NEW n \in Int
         PROVE  (o < 2 * n <=> V < (2 * n) * U) /\ (2 * n < o <=> (2 * n) * U < V)
    <2>1. /\ J + 2 * t < 2 * n <=> y + 2 * v < (2 * n) * U
          /\ 2 * n < J + 2 * t <=> (2 * n) * U < y + 2 * v
          /\ -J + 2 * t < 2 * n <=> -y + 2 * v < (2 * n) * U
          /\ 2 * n < -J + 2 * t <=> (2 * n) * U < -y + 2 * v
      <3> DEFINE S == 8 * sl
      <3>1. S \in Int
        OBVIOUS
      <3>2. J = Jammed(S, d) /\ L * 2^d = U /\ S * L = y /\ t * U = v
        BY <1>4, <1>5, <1>7, Zenon
      <3> HIDE DEF S
      <3>3. /\ Jammed(S, d) + 2 * t < 2 * n <=> S * L + 2 * (t * (L * 2^d)) < (2 * n) * (L * 2^d)
            /\ 2 * n < Jammed(S, d) + 2 * t <=> (2 * n) * (L * 2^d) < S * L + 2 * (t * (L * 2^d))
            /\ -Jammed(S, d) + 2 * t < 2 * n
                <=> -(S * L) + 2 * (t * (L * 2^d)) < (2 * n) * (L * 2^d)
            /\ 2 * n < -Jammed(S, d) + 2 * t
                <=> (2 * n) * (L * 2^d) < -(S * L) + 2 * (t * (L * 2^d))
        BY <3>1, SumSticks, Zenon
      <3>4. QED
        BY <3>2, <3>3
    <2>2. CASE l.sign = 1
      BY <1>9, <1>10, <1>11, <2>1, <2>2
    <2>3. CASE l.sign # 1
      BY <1>9, <1>10, <1>11, <2>1, <2>3
    <2>4. QED
      BY <2>2, <2>3
  <1>13. o < 0 <=> Z < 0
    <2>1. 0 \in Int /\ 2 * 0 = 0 /\ 0 * U = 0
      OBVIOUS
    <2>2. o < 0 <=> V < 0
      BY <1>12, <2>1, Zenon
    <2>3. QED
      BY <1>11, <2>2
  <1>14. PICK p \in Nat, x \in Nat :
            /\ p = Distance(Z, 0) /\ x = (IF o < 0 THEN -o ELSE o)
            /\ 8 * p = IF o < 0 THEN -V ELSE V
    BY <1>11, <1>13 DEF Distance
  <1>15. ASSUME NEW n \in Int
         PROVE  /\ x < 2 * n <=> 8 * p < (2 * n) * U
                /\ 2 * n < x => (2 * n) * U < 8 * p
                /\ x = 2 * n => 8 * p = (2 * n) * U
    <2>1. PICK m \in Int, z \in Int : m = -n /\ z = (2 * n) * U
      OBVIOUS
    <2>2. (2 * m) * U = -z /\ 2 * m = -(2 * n)
      BY <2>1
    <2>3. (o < 2 * n <=> V < z) /\ (2 * n < o <=> z < V)
      BY <1>12, <2>1
    <2>4. (o < 2 * m <=> V < -z) /\ (2 * m < o <=> -z < V)
      BY <1>12, <2>2
    <2>5. QED
      BY <1>14, <2>1, <2>2, <2>3, <2>4
  <1>16. Tracks(2, x, 8 * p, 2^c) /\ Meets(2, x, 8 * p, 2^c)
    BY <1>4, <1>15 DEF Tracks, Meets
  <1>17. x <= 8 * sl + 8 * sh /\ x >= 8 * sh - J
    BY <1>5, <1>6, <1>9, <1>14
  <1>18. x < 2^WIDE /\ (e = 0 => x < 2 * Lead)
    BY <1>1, <1>3, <1>17
  <1>19. 8 * p = x * 2^c \/ (Lead <= 2 * x /\ e >= 2)
    <2>1. CASE d <= 3
      <3>1. 8 * sl = K * J
        <4>1. d \in 0..3 /\ sl \in Nat
          BY <1>1, <2>1
        <4>2. QED
          BY <1>4, <1>5, <4>1, JammedExactly
      <3>2. y = J * U
        <4>1. (K * J) * L = J * (L * K)
          OBVIOUS
        <4>2. QED
          BY <1>4, <1>7, <3>1, <4>1, Zenon
      <3>3. PICK r \in Int : r = o * U
        OBVIOUS
      <3>4. V = r
        <4>1. l.sign = 1 => o * U = -(J * U) + 2 * (t * U)
          <5>1. (-J + 2 * t) * U = -(J * U) + 2 * (t * U)
            OBVIOUS
          <5>2. QED
            BY <1>9, <5>1
        <4>2. l.sign # 1 => o * U = J * U + 2 * (t * U)
          <5>1. (J + 2 * t) * U = J * U + 2 * (t * U)
            OBVIOUS
          <5>2. QED
            BY <1>9, <5>1
        <4>3. PICK k \in Int : k = J * U
          OBVIOUS
        <4>4. QED
          BY <1>7, <1>10, <1>11, <3>2, <3>3, <4>1, <4>2, <4>3
      <3>5. x * U = IF o < 0 THEN -r ELSE r
        <4>1. (-o) * U = -r
          BY <3>3
        <4>2. QED
          BY <1>14, <3>3, <4>1
      <3>6. QED
        BY <1>4, <1>14, <3>4, <3>5
    <2>2. CASE d > 3
      <3>1. e >= 2 /\ sh >= F
        BY <1>3, <2>2
      <3>2. K >= 16
        <4>1. 4 \in Nat /\ 4 <= d /\ 2^4 = 16
          BY <2>2
        <4>2. 2^4 <= 2^d
          BY <4>1, PowerOrder, Zenon
        <4>3. QED
          BY <1>4, <4>1, <4>2
      <3>3. J < 4 * F
        <4>1. 2 * F \in Int /\ 8 * sl \in Int
          OBVIOUS
        <4>2. J < 2 * (2 * F) <=> 8 * sl < K * (2 * (2 * F))
          BY <1>4, <1>5, <4>1, JammedTells
        <4>3. PICK a \in Int : a = K * F
          OBVIOUS
        <4>4. K * (2 * (2 * F)) = 4 * a
          BY <4>3
        <4>5. a >= 16 * F
          <5>1. K > 16 => F * 16 + F <= F * K
            BY SmallerProduct
          <5>2. F * K = a
            BY <4>3
          <5>3. K = 16 => a = 16 * F
            BY <4>3
          <5>4. QED
            BY <3>2, <4>3, <5>1, <5>2, <5>3
        <4>6. QED
          BY <4>2, <4>4, <4>5
      <3>4. QED
        BY <1>1, <1>17, <3>1, <3>3
    <2>3. QED
      BY <2>1, <2>2
  <1>20. Normalizes(Normalized(e, x), p, 1, TRUE)
    BY <1>3, <1>16, <1>18, <1>19, SumNormalizes
  <1>21. PICK s \in {0, 1} : s = IF Z < 0 THEN 1 ELSE 0
    OBVIOUS
  <1>22. RoundedTo(internal_normalize(s, e, x), s, p, 1, TRUE)
    <2>1. 1 \in Nat \ {0}
      OBVIOUS
    <2>2. QED
      BY <1>20, <2>1, NormalizedRounds, Zenon
  <1>23. Added(l, h) = internal_normalize(s, e, x)
    <2>1. Added(l, h) = IF o < 0 THEN internal_normalize(1, e, -o)
                        ELSE internal_normalize(0, e, o)
      BY <1>2, <1>3, <1>5, <1>8, Zenon DEF Added
    <2>2. QED
      BY <1>13, <1>14, <1>21, <2>1
  <1>24. /\ Added(l, h) \in Float /\ Added(l, h).sign = s
         /\ Added(l, h).exponent = MAXE => Added(l, h) = Inf(s)
         /\ Nearest(Added(l, h), p, 1)
    BY <1>22, <1>23, WholeIsNotUpToNormal, Zenon DEF RoundedTo
  <1>25. QED
    BY <1>10, <1>14, <1>21, <1>24, Zenon

-----------------------------------------------------------------------------
\* The five kinds of canonical floats.

LEMMA KindsAre ==
    ASSUME NEW s \in {0, 1}
    PROVE  /\ Zero(s) \in Float /\ Zero(s).sign = s /\ Zero(s).exponent = 0 /\ Zero(s).fraction = 0
           /\ Inf(s) \in Float /\ Inf(s).sign = s /\ Inf(s).exponent = MAXE /\ Inf(s).fraction = 0
           /\ NaN(s) \in Float /\ NaN(s).sign = s /\ NaN(s).exponent = MAXE
           /\ NaN(s).fraction # 0 /\ MAXE # 0
           /\ Zero(s) \in Zeros /\ Inf(s) \in Infs /\ NaN(s) \in NaNs
  <1>1. Zero(s) \in Float /\ Inf(s) \in Float /\ NaN(s) \in Float
    BY CornersAreFloats
  <1>2. MAXE # 0 /\ 2^(FRAC - 1) # 0
    BY LargestIs
  <1>3. Zero(s) \in Zeros /\ Inf(s) \in Infs /\ NaN(s) \in NaNs
    BY DEF Zeros, Infs, NaNs
  <1>4. QED
    BY <1>1, <1>2, <1>3 DEF Zero, Inf, NaN

LEMMA KindIs ==
    ASSUME NEW f
    PROVE  /\ f \in Zeros <=> \E s \in {0, 1} : f = Zero(s)
           /\ f \in Infs <=> \E s \in {0, 1} : f = Inf(s)
           /\ f \in NaNs <=> \E s \in {0, 1} : f = NaN(s)
  BY DEF Zeros, Infs, NaNs

\* No float is of two kinds, and its kind and sign are all there is to a zero,
\* an infinity and a NaN.
LEMMA CanonicalIs ==
    ASSUME NEW f \in Canonical
    PROVE  /\ f \in Float /\ f.sign \in {0, 1}
           /\ f \in Zeros => f = Zero(f.sign) /\ Finite(f) /\ f \notin Infs /\ f \notin NaNs
           /\ f \in Infs => f = Inf(f.sign) /\ ~Finite(f) /\ f \notin Zeros /\ f \notin NaNs
           /\ f \in NaNs => f = NaN(f.sign) /\ ~Finite(f) /\ f \notin Zeros /\ f \notin Infs
           /\ ~Finite(f) => f \in Infs \/ f \in NaNs
           /\ Finite(f) <=> f.exponent # MAXE
  <1>1. f \in Float /\ f.sign \in {0, 1}
    BY SignificandIs DEF Canonical, Float
  <1>2. Finite(f) <=> f.exponent # MAXE
    BY DEF Finite
  <1>3. ASSUME f \in Zeros
        PROVE  f = Zero(f.sign) /\ f.exponent = 0 /\ MAXE # 0
    <2>1. PICK s \in {0, 1} : f = Zero(s)
      BY <1>3, KindIs
    <2>2. QED
      BY <2>1, KindsAre
  <1>4. ASSUME f \in Infs
        PROVE  f = Inf(f.sign) /\ f.exponent = MAXE /\ f.fraction = 0
    <2>1. PICK s \in {0, 1} : f = Inf(s)
      BY <1>4, KindIs
    <2>2. QED
      BY <2>1, KindsAre
  <1>5. ASSUME f \in NaNs
        PROVE  f = NaN(f.sign) /\ f.exponent = MAXE /\ f.fraction # 0
    <2>1. PICK s \in {0, 1} : f = NaN(s)
      BY <1>5, KindIs
    <2>2. QED
      BY <2>1, KindsAre
  <1>6. f.exponent = MAXE => f \in Infs \/ f \in NaNs
    BY DEF Canonical
  <1>7. QED
    BY <1>1, <1>2, <1>3, <1>4, <1>5, <1>6, Zenon

\* Every zero, infinity and NaN is canonical, and what is packed is, and no NaN.
LEMMA CanonicalAre ==
    /\ \A s \in {0, 1} : Zero(s) \in Canonical /\ Inf(s) \in Canonical /\ NaN(s) \in Canonical
    /\ \A r \in Float, s \in {0, 1} :
            (r.exponent = MAXE => r = Inf(s)) => r \in Canonical /\ r \notin NaNs
  <1>1. ASSUME NEW s \in {0, 1}
        PROVE  Zero(s) \in Canonical /\ Inf(s) \in Canonical /\ NaN(s) \in Canonical
    <2>1. Inf(s) \in Infs \cup NaNs /\ NaN(s) \in Infs \cup NaNs
      BY KindsAre
    <2>2. QED
      BY <2>1, KindsAre DEF Canonical
  <1>2. ASSUME NEW r \in Float, NEW s \in {0, 1}, r.exponent = MAXE => r = Inf(s)
        PROVE  r \in Canonical /\ r \notin NaNs
    <2>1. r.exponent = MAXE => r \in Infs
      BY <1>2, KindsAre
    <2>2. r \in Canonical
      BY <2>1 DEF Canonical
    <2>3. r \in NaNs => r.exponent = MAXE
      BY KindIs, KindsAre, Zenon
    <2>4. QED
      BY <2>1, <2>2, <2>3, CanonicalIs, Zenon
  <1>3. QED
    BY <1>1, <1>2, Zenon

LEMMA ZeroIs ==
    ASSUME NEW f \in Float
    PROVE  /\ f \in Zeros => Size(f) = 0 /\ f.exponent = 0 /\ f.fraction = 0
           /\ f \notin Zeros => sig(f) # 0
  <1>1. f \in Zeros => f.exponent = 0 /\ f.fraction = 0
    BY KindIs, KindsAre, Zenon
  <1>2. f \in Zeros => Size(f) = 0
    <2>1. 1 - 1 = 0 /\ 2^0 = 1 /\ 0 * 1 = 0
      OBVIOUS
    <2>2. QED
      BY <1>1, <2>1, ScaleIs, Zenon DEF Size
  <1>3. f \notin Zeros => sig(f) # 0
    BY SignificandIs
  <1>4. QED
    BY <1>1, <1>2, <1>3

LEMMA NearestExact ==
    ASSUME NEW f \in Float, NEW p \in Nat, NEW q \in Nat \ {0}, Size(f) * q = p
    PROVE  Nearest(f, p, q)
  <1>1. 1 \in 1..MAXE
    BY LargestIs
  <1>2. PICK z \in Nat : z = Size(f)
    BY <1>1, SizeIs
  <1>3. ASSUME NEW g \in Sizable
        PROVE  LET df == Distance(Size(f) * q, p)  dg == Distance(Size(g) * q, p)
               IN df < dg \/ (df = dg /\ (Size(g) = Size(f) \/ f.fraction % 2 = 0))
    <2>1. PICK y \in Nat : y = Size(g)
      BY SizableIs
    <2>2. PICK w \in Nat : w = y * q
      OBVIOUS
    <2>3. w = p => y = z
      <3>1. PICK m \in Int, n \in Int : m = q * y /\ n = q * z
        OBVIOUS
      <3>2. m = w /\ n = p
        BY <1>2, <2>2, <3>1
      <3>3. y < z => m + q <= n
        BY <3>1, SmallerProduct
      <3>4. z < y => n + q <= m
        BY <3>1, SmallerProduct
      <3>5. QED
        BY <3>2, <3>3, <3>4
    <2>4. Distance(p, p) = 0 /\ Distance(w, p) \in Nat /\ (Distance(w, p) = 0 => w = p)
      BY DEF Distance
    <2>5. Distance(Size(f) * q, p) = 0 /\ Distance(Size(g) * q, p) = Distance(w, p)
      BY <2>1, <2>2, <2>4
    <2>6. PICK d \in Nat : d = Distance(w, p)
      BY <2>4
    <2>7. d = 0 => Size(g) = Size(f)
      BY <1>2, <2>1, <2>3, <2>4, <2>6
    <2>8. QED
      BY <2>5, <2>6, <2>7
  <1>4. QED
    BY <1>3, Zenon DEF Nearest

\* Of a significand nothing is lost: it tracks the value and meets it.
LEMMA ExactTracks ==
    ASSUME NEW x \in Int, NEW P \in Int, NEW U \in Nat \ {0}, P = x * U
    PROVE  Tracks(2, x, P, U) /\ Meets(2, x, P, U)
  <1>1. ASSUME NEW n \in Int
        PROVE  /\ x < 2 * n <=> P < (2 * n) * U
               /\ 2 * n < x => (2 * n) * U < P
               /\ x = 2 * n => P = (2 * n) * U
    <2>1. PICK m \in Int, z \in Int, y \in Int : m = 2 * n /\ z = U * m /\ y = U * x
      OBVIOUS
    <2>2. x < m => y + U <= z
      BY <2>1, SmallerProduct
    <2>3. m < x => z + U <= y
      BY <2>1, SmallerProduct
    <2>4. y = P /\ (2 * n) * U = z
      BY <2>1
    <2>5. x = m => P = z
      BY <2>1
    <2>6. QED
      BY <2>1, <2>2, <2>3, <2>4, <2>5
  <1>2. QED
    BY <1>1 DEF Tracks, Meets

\* Powers for a product: two exponents whose difference is e - 1.
LEMMA FloorTracks ==
    ASSUME NEW A \in Nat, NEW B \in Nat \ {0}, NEW x, x = A \div B
    PROVE  x \in Nat /\ Tracks(2, x, A, B)
  <1>1. PICK y \in Int, r \in 0..(B - 1) : y = A \div B /\ A = B * y + r
    <2>1. A \in Int /\ A \div B \in Int /\ A % B \in 0..(B - 1) /\ A = B * (A \div B) + (A % B)
      BY RemainderIs
    <2>2. QED
      BY <2>1, Zenon
  <1>2. A \div B \in 0..A
    BY NoLarger
  <1>3. ASSUME NEW n \in Int
        PROVE  /\ y < 2 * n <=> A < (2 * n) * B
               /\ 2 * n < y => (2 * n) * B < A
    <2>1. PICK m \in Int, z \in Int, w \in Int : m = 2 * n /\ z = B * m /\ w = B * y
      OBVIOUS
    <2>2. y < m => w + B <= z
      BY <2>1, SmallerProduct
    <2>3. m < y => z + B <= w
      BY <2>1, SmallerProduct
    <2>4. (2 * n) * B = z /\ A = w + r
      BY <1>1, <2>1
    <2>5. y = m => w = z
      BY <2>1
    <2>6. QED
      BY <2>1, <2>2, <2>3, <2>4, <2>5
  <1>4. QED
    BY <1>1, <1>2, <1>3 DEF Tracks

-----------------------------------------------------------------------------
\* The corner cases, and what is computed beside them.

\* Signs are multiplied like truth values.
LEMMA SignsTimes ==
    \A s, t \in {0, 1} : s * t \in {0, 1} /\ (s * t = 1 <=> s = 1 /\ t = 1) /\ 1 - s \in {0, 1}
  <1>1. 0 * 0 = 0 /\ 0 * 1 = 0 /\ 1 * 0 = 0 /\ 1 * 1 = 1 /\ 1 - 0 = 1 /\ 1 - 1 = 0
    OBVIOUS
  <1>2. QED
    BY <1>1

\* The NaN that results is the only one among the operands, the positive one of
\* two, and the negative one without any.
LEMMA NaNIs ==
    ASSUME NEW a, NEW b
    PROVE  /\ NaN(0) # NaN(1) /\ NaNOf(a, b) = ResultNaN(a, b)
           /\ a = NaN(0) \/ b = NaN(0) => ResultNaN(a, b) = NaN(0)
           /\ a \in NaNs /\ ~(a = NaN(1) /\ b = NaN(0)) => ResultNaN(a, b) = a
           /\ b \in NaNs /\ ~(a = NaN(0) /\ b = NaN(1)) => ResultNaN(a, b) = b
           /\ a \notin NaNs /\ b \notin NaNs => ResultNaN(a, b) = NaN(1)
  <1>1. NaN(0) # NaN(1)
    BY DEF NaN
  <1>2. ResultNaN(a, b) = IF a = NaN(0) \/ b = NaN(0) THEN NaN(0) ELSE NaN(1)
    BY DEF ResultNaN
  <1>3. NaNOf(a, b) = IF a = NaN(0) \/ b = NaN(0) THEN NaN(0) ELSE NaN(1)
    BY DEF NaNOf
  <1>4. \A f : f \in NaNs <=> f = NaN(0) \/ f = NaN(1)
    BY DEF NaNs
  <1>5. QED
    BY <1>1, <1>2, <1>3, <1>4

LEMMA RowIs ==
    ASSUME NEW table, NEW a, NEW b, Covers(table, a, b)
    PROVE  \E r \in table : r[1] = a /\ r[2] = b /\ TableEntry(table, a, b) = r[3]
  <1> DEFINE c == CHOOSE r \in table : r[1] = a /\ r[2] = b
  <1>1. c \in table /\ c[1] = a /\ c[2] = b
    BY Zenon DEF Covers
  <1>2. TableEntry(table, a, b) = c[3]
    BY DEF TableEntry
  <1> HIDE DEF c
  <1>3. QED
    BY <1>1, <1>2

LEMMA AddCorners ==
    ASSUME NEW a \in Canonical, NEW b \in Canonical
    PROVE  /\ Covers(corner_add, a, b) =>
                LET r == TableEntry(corner_add, a, b) IN
                \/ a \in Zeros /\ b \in Zeros /\ r = Zero(a.sign * b.sign)
                \/ {a, b} = Infs /\ r = NaN(1)
                \/ a \in Infs /\ b \in NaNs /\ r = b
                \/ a = NaN(1) /\ b = NaN(0) /\ r = b
           /\ ~Covers(corner_add, a, b) =>
                /\ ~(a \in Zeros /\ b \in Zeros) /\ {a, b} # Infs
                /\ ~(a \in Infs /\ b \in NaNs) /\ ~(a = NaN(1) /\ b = NaN(0))
  <1> DEFINE R == {<<Zero(s), Zero(t), Zero(s * t)>> : s, t \in Bits}
             S == {<<Inf(s), Inf(1 - s), NaN(1)>> : s \in Bits}
             T == {<<Inf(s), NaN(t), NaN(t)>> : s, t \in Bits}
             U == {<<NaN(1), NaN(0), NaN(0)>>}
  <1>1. corner_add = R \cup S \cup T \cup U /\ Bits = {0, 1}
    BY DEF corner_add, Bits
  <1>2. ASSUME Covers(corner_add, a, b)
        PROVE  LET r == TableEntry(corner_add, a, b) IN
                \/ a \in Zeros /\ b \in Zeros /\ r = Zero(a.sign * b.sign)
                \/ {a, b} = Infs /\ r = NaN(1)
                \/ a \in Infs /\ b \in NaNs /\ r = b
                \/ a = NaN(1) /\ b = NaN(0) /\ r = b
    <2>1. PICK r \in R \cup S \cup T \cup U :
                r[1] = a /\ r[2] = b /\ TableEntry(corner_add, a, b) = r[3]
      BY <1>1, <1>2, RowIs, SMTT(60)
    <2>2. CASE r \in R
      <3>1. PICK s \in {0, 1}, t \in {0, 1} : r = <<Zero(s), Zero(t), Zero(s * t)>>
        BY <1>1, <2>2
      <3>2. a = Zero(s) /\ b = Zero(t) /\ TableEntry(corner_add, a, b) = Zero(s * t)
        BY <2>1, <3>1
      <3>3. a.sign = s /\ b.sign = t /\ a \in Zeros /\ b \in Zeros
        <4>1. /\ Zero(s).sign = s /\ Zero(s) \in Zeros
              /\ Zero(t).sign = t /\ Zero(t) \in Zeros
          BY KindsAre
        <4>2. QED
          BY <3>2, <4>1
      <3>4. QED
        BY <3>2, <3>3
    <2>3. CASE r \in S
      <3>1. PICK s \in {0, 1} : r = <<Inf(s), Inf(1 - s), NaN(1)>>
        BY <1>1, <2>3
      <3>2. a = Inf(s) /\ b = Inf(1 - s) /\ TableEntry(corner_add, a, b) = NaN(1)
        BY <2>1, <3>1
      <3>3. {a, b} = Infs
        BY <3>2 DEF Infs
      <3>4. QED
        BY <3>2, <3>3
    <2>4. CASE r \in T
      <3>1. PICK s \in {0, 1}, t \in {0, 1} : r = <<Inf(s), NaN(t), NaN(t)>>
        BY <1>1, <2>4
      <3>2. a = Inf(s) /\ b = NaN(t) /\ TableEntry(corner_add, a, b) = NaN(t)
        BY <2>1, <3>1
      <3>3. QED
        BY <3>2, KindsAre
    <2>5. CASE r \in U
      <3>1. a = NaN(1) /\ b = NaN(0) /\ TableEntry(corner_add, a, b) = NaN(0)
        BY <2>1, <2>5
      <3>2. QED
        BY <3>1
    <2>6. QED
      BY <2>1, <2>2, <2>3, <2>4, <2>5
  <1>3. ASSUME NEW r \in R \cup S \cup T \cup U, r[1] = a, r[2] = b
        PROVE  Covers(corner_add, a, b)
    BY <1>1, <1>3 DEF Covers
  <1> HIDE DEF R, S, T, U
  <1>4. a \in Zeros /\ b \in Zeros => Covers(corner_add, a, b)
    <2>1. ASSUME NEW s \in {0, 1}, NEW t \in {0, 1}, a = Zero(s), b = Zero(t)
          PROVE  Covers(corner_add, a, b)
      <3>1. <<a, b, Zero(s * t)>> \in R
        BY <1>1, <2>1 DEF R
      <3>2. QED
        BY <1>3, <3>1
    <2>2. QED
      BY <2>1, KindIs
  <1>5. {a, b} = Infs => Covers(corner_add, a, b)
    <2>1. Inf(0) # Inf(1)
      BY DEF Inf
    <2>2. {a, b} = Infs => (a = Inf(0) /\ b = Inf(1)) \/ (a = Inf(1) /\ b = Inf(0))
      BY <2>1 DEF Infs
    <2>3. <<Inf(0), Inf(1), NaN(1)>> \in S /\ <<Inf(1), Inf(0), NaN(1)>> \in S
      <3>1. 1 - 0 = 1 /\ 1 - 1 = 0
        OBVIOUS
      <3>2. <<Inf(0), Inf(1 - 0), NaN(1)>> \in S /\ <<Inf(1), Inf(1 - 1), NaN(1)>> \in S
        BY <1>1, Zenon DEF S
      <3>3. QED
        BY <3>1, <3>2, Zenon
    <2>4. QED
      BY <1>3, <2>2, <2>3
  <1>6. a \in Infs /\ b \in NaNs => Covers(corner_add, a, b)
    <2>1. ASSUME NEW s \in {0, 1}, NEW t \in {0, 1}, a = Inf(s), b = NaN(t)
          PROVE  Covers(corner_add, a, b)
      <3>1. <<a, b, NaN(t)>> \in T
        BY <1>1, <2>1 DEF T
      <3>2. QED
        BY <1>3, <3>1
    <2>2. QED
      BY <2>1, KindIs
  <1>7. a = NaN(1) /\ b = NaN(0) => Covers(corner_add, a, b)
    <2>1. <<NaN(1), NaN(0), NaN(0)>> \in U
      BY DEF U
    <2>2. QED
      BY <1>3, <2>1
  <1>8. QED
    BY <1>2, <1>4, <1>5, <1>6, <1>7, Zenon

LEMMA SubCorners ==
    ASSUME NEW a \in Canonical, NEW b \in Canonical
    PROVE  /\ Covers(corner_sub, a, b) =>
                LET r == TableEntry(corner_sub, a, b) IN
                \/ a \in Zeros /\ b \in Zeros /\ r = Zero(a.sign * (1 - b.sign))
                \/ a \in NaNs /\ b \in NaNs /\ r = ResultNaN(a, b)
           /\ ~Covers(corner_sub, a, b) =>
                ~(a \in Zeros /\ b \in Zeros) /\ ~(a \in NaNs /\ b \in NaNs)
  <1> DEFINE R == {<<Zero(s), Zero(t), Zero(s * (1 - t))>> : s, t \in Bits}
             S == {<<NaN(s), NaN(t), NaN(s * t)>> : s, t \in Bits}
  <1>1. corner_sub = R \cup S /\ Bits = {0, 1}
    BY DEF corner_sub, Bits
  <1>2. ASSUME Covers(corner_sub, a, b)
        PROVE  LET r == TableEntry(corner_sub, a, b) IN
                \/ a \in Zeros /\ b \in Zeros /\ r = Zero(a.sign * (1 - b.sign))
                \/ a \in NaNs /\ b \in NaNs /\ r = ResultNaN(a, b)
    <2>1. PICK r \in R \cup S : r[1] = a /\ r[2] = b /\ TableEntry(corner_sub, a, b) = r[3]
      <3> HIDE DEF R, S
      <3>1. QED
        BY <1>1, <1>2, RowIs
    <2>2. CASE r \in R
      <3>1. PICK s \in {0, 1}, t \in {0, 1} : r = <<Zero(s), Zero(t), Zero(s * (1 - t))>>
        BY <1>1, <2>2
      <3>2. a = Zero(s) /\ b = Zero(t) /\ TableEntry(corner_sub, a, b) = Zero(s * (1 - t))
        BY <2>1, <3>1
      <3>3. a.sign = s /\ b.sign = t /\ a \in Zeros /\ b \in Zeros
        <4>1. /\ Zero(s).sign = s /\ Zero(s) \in Zeros
              /\ Zero(t).sign = t /\ Zero(t) \in Zeros
          BY KindsAre
        <4>2. QED
          BY <3>2, <4>1
      <3>4. QED
        BY <3>2, <3>3
    <2>3. CASE r \in S
      <3>1. PICK s \in {0, 1}, t \in {0, 1} : r = <<NaN(s), NaN(t), NaN(s * t)>>
        BY <1>1, <2>3
      <3>2. a = NaN(s) /\ b = NaN(t) /\ TableEntry(corner_sub, a, b) = NaN(s * t)
        BY <2>1, <3>1
      <3>3. a \in NaNs /\ b \in NaNs
        BY <3>2, KindsAre
      <3>4. NaN(s * t) = ResultNaN(a, b)
        <4>1. CASE s = 1 /\ t = 1
          <5>1. s * t = 1 /\ a = NaN(1) /\ b = NaN(1)
            BY <3>2, <4>1, SignsTimes
          <5>2. ResultNaN(a, b) = NaN(1)
            BY <3>3, <5>1, NaNIs
          <5>3. QED
            BY <5>1, <5>2
        <4>2. CASE ~(s = 1 /\ t = 1)
          <5>1. s * t = 0 /\ (a = NaN(0) \/ b = NaN(0))
            BY <3>2, <4>2, SignsTimes
          <5>2. ResultNaN(a, b) = NaN(0)
            BY <5>1, NaNIs
          <5>3. QED
            BY <5>1, <5>2
        <4>3. QED
          BY <4>1, <4>2
      <3>5. QED
        BY <3>2, <3>3, <3>4
    <2>4. QED
      BY <2>1, <2>2, <2>3
  <1>3. ASSUME NEW s \in {0, 1}, NEW t \in {0, 1}
        PROVE  /\ a = Zero(s) /\ b = Zero(t) => Covers(corner_sub, a, b)
               /\ a = NaN(s) /\ b = NaN(t) => Covers(corner_sub, a, b)
    <2>1. /\ <<Zero(s), Zero(t), Zero(s * (1 - t))>> \in R
          /\ <<NaN(s), NaN(t), NaN(s * t)>> \in S
      BY <1>1
    <2> HIDE DEF R, S
    <2>2. /\ <<Zero(s), Zero(t), Zero(s * (1 - t))>> \in corner_sub
          /\ <<NaN(s), NaN(t), NaN(s * t)>> \in corner_sub
      BY <1>1, <2>1
    <2>3. QED
      BY <2>2 DEF Covers
  <1> HIDE DEF R, S
  <1>4. /\ a \in Zeros /\ b \in Zeros => Covers(corner_sub, a, b)
        /\ a \in NaNs /\ b \in NaNs => Covers(corner_sub, a, b)
    BY <1>3, KindIs
  <1>5. QED
    BY <1>2, <1>4, Zenon

LEMMA MulCorners ==
    ASSUME NEW a \in Canonical, NEW b \in Canonical
    PROVE  Covers(corner_mul, a, b) =>
                /\ TableEntry(corner_mul, a, b) = NaN(1)
                /\ (a \in Zeros /\ b \in Infs) \/ (a \in Infs /\ b \in Zeros)
  <1> DEFINE R == {<<Zero(s), Inf(t), NaN(1)>> : s, t \in Bits}
             S == {<<Inf(s), Zero(t), NaN(1)>> : s, t \in Bits}
  <1>1. corner_mul = R \cup S /\ Bits = {0, 1}
    BY DEF corner_mul, Bits
  <1>2. ASSUME Covers(corner_mul, a, b)
        PROVE  /\ TableEntry(corner_mul, a, b) = NaN(1)
               /\ (a \in Zeros /\ b \in Infs) \/ (a \in Infs /\ b \in Zeros)
    <2>1. PICK r \in R \cup S : r[1] = a /\ r[2] = b /\ TableEntry(corner_mul, a, b) = r[3]
      BY <1>1, <1>2, RowIs
    <2>2. PICK s \in {0, 1}, t \in {0, 1} :
                \/ r = <<Zero(s), Inf(t), NaN(1)>>
                \/ r = <<Inf(s), Zero(t), NaN(1)>>
      BY <1>1
    <2>3. TableEntry(corner_mul, a, b) = NaN(1)
      BY <2>1, <2>2
    <2>4. (a = Zero(s) /\ b = Inf(t)) \/ (a = Inf(s) /\ b = Zero(t))
      BY <2>1, <2>2
    <2>5. QED
      BY <2>3, <2>4, KindsAre
  <1> HIDE DEF R, S
  <1>3. QED
    BY <1>2

LEMMA MulCovers ==
    ASSUME NEW a, NEW b, ~Covers(corner_mul, a, b)
    PROVE  ~(a \in Zeros /\ b \in Infs) /\ ~(a \in Infs /\ b \in Zeros)
  <1> DEFINE R == {<<Zero(s), Inf(t), NaN(1)>> : s, t \in Bits}
             S == {<<Inf(s), Zero(t), NaN(1)>> : s, t \in Bits}
  <1>1. corner_mul = R \cup S /\ Bits = {0, 1}
    BY DEF corner_mul, Bits
  <1>2. ASSUME NEW s \in {0, 1}, NEW t \in {0, 1}
        PROVE  ~(a = Zero(s) /\ b = Inf(t)) /\ ~(a = Inf(s) /\ b = Zero(t))
    <2>1. <<Zero(s), Inf(t), NaN(1)>> \in corner_mul /\ <<Inf(s), Zero(t), NaN(1)>> \in corner_mul
      BY <1>1
    <2>2. QED
      BY <2>1 DEF Covers
  <1>3. QED
    BY <1>2, KindIs

LEMMA DivCorners ==
    ASSUME NEW a \in Canonical, NEW b \in Canonical
    PROVE  /\ Covers(corner_div, a, b) =>
                LET r == TableEntry(corner_div, a, b) IN
                \/ r = NaN(1) /\ ((a \in Zeros /\ b \in Zeros) \/ (a \in Infs /\ b \in Infs))
                \/ a \in Infs /\ b \in Zeros /\ r = Inf(SignOf(a, b))
           /\ ~Covers(corner_div, a, b) =>
                ~(a \in Zeros /\ b \in Zeros) /\ ~(a \in Infs /\ b \in Infs)
  <1> DEFINE R == {<<Zero(s), Zero(t), NaN(1)>> : s, t \in Bits}
             S == {<<Inf(s), Zero(t), Inf((s + t) % 2)>> : s, t \in Bits}
             T == {<<Inf(s), Inf(t), NaN(1)>> : s, t \in Bits}
  <1>1. corner_div = R \cup S \cup T /\ Bits = {0, 1}
    BY DEF corner_div, Bits
  <1>2. ASSUME Covers(corner_div, a, b)
        PROVE  LET r == TableEntry(corner_div, a, b) IN
                \/ r = NaN(1) /\ ((a \in Zeros /\ b \in Zeros) \/ (a \in Infs /\ b \in Infs))
                \/ a \in Infs /\ b \in Zeros /\ r = Inf(SignOf(a, b))
    <2>1. PICK r \in R \cup S \cup T : r[1] = a /\ r[2] = b /\ TableEntry(corner_div, a, b) = r[3]
      BY <1>1, <1>2, RowIs
    <2>2. PICK s \in {0, 1}, t \in {0, 1} :
                \/ r = <<Zero(s), Zero(t), NaN(1)>>
                \/ r = <<Inf(s), Zero(t), Inf((s + t) % 2)>>
                \/ r = <<Inf(s), Inf(t), NaN(1)>>
      BY <1>1
    <2>3. \/ a = Zero(s) /\ b = Zero(t) /\ TableEntry(corner_div, a, b) = NaN(1)
          \/ a = Inf(s) /\ b = Zero(t) /\ TableEntry(corner_div, a, b) = Inf((s + t) % 2)
          \/ a = Inf(s) /\ b = Inf(t) /\ TableEntry(corner_div, a, b) = NaN(1)
      BY <2>1, <2>2
    <2>4. /\ Zero(s) \in Zeros /\ Zero(t) \in Zeros /\ Zero(t).sign = t
          /\ Inf(s) \in Infs /\ Inf(t) \in Infs /\ Inf(s).sign = s
      BY KindsAre
    <2>5. a = Inf(s) /\ b = Zero(t) => (s + t) % 2 = SignOf(a, b)
      BY <2>4 DEF SignOf
    <2>6. QED
      BY <2>3, <2>4, <2>5
  <1>3. ASSUME NEW s \in {0, 1}, NEW t \in {0, 1}, ~Covers(corner_div, a, b)
        PROVE  ~(a = Zero(s) /\ b = Zero(t)) /\ ~(a = Inf(s) /\ b = Inf(t))
    <2>1. <<Zero(s), Zero(t), NaN(1)>> \in corner_div /\ <<Inf(s), Inf(t), NaN(1)>> \in corner_div
      BY <1>1
    <2>2. QED
      BY <1>3, <2>1 DEF Covers
  <1> HIDE DEF R, S, T
  <1>4. ~Covers(corner_div, a, b) => ~(a \in Zeros /\ b \in Zeros) /\ ~(a \in Infs /\ b \in Infs)
    BY <1>3, KindIs
  <1>5. QED
    BY <1>2, <1>4, Zenon

-----------------------------------------------------------------------------
\* Sums and differences of canonical floats.

LEMMA SizeOf == ASSUME NEW f \in Float PROVE Size(f) \in Nat /\ Negated(f, Size(f)) \in Int
  <1>1. 1 \in 1..MAXE
    BY LargestIs
  <1>2. PICK z \in Nat : z = Size(f)
    BY <1>1, SizeIs
  <1>3. Negated(f, z) \in Int
    BY DEF Negated
  <1>4. QED
    BY <1>2, <1>3

LEMMA SizeIsSome ==
    ASSUME NEW f \in Float, f \notin Zeros
    PROVE  Size(f) \in Nat \ {0}
  <1>1. PICK y \in Nat \ {0} : y = sig(f)
    BY SignificandIs
  <1>2. PICK j \in Nat : j = scale(f) - 1
    BY ScaleIs
  <1>3. PICK u \in Nat \ {0} : u = 2^j
    BY PowerIs
  <1>4. y * u \in Nat \ {0}
    OBVIOUS
  <1>5. QED
    BY <1>1, <1>2, <1>3, <1>4, Zenon DEF Size

LEMMA SumMeans ==
    ASSUME NEW a, NEW b, NEW r, NEW x,
           x = Negated(a, Size(a)) + Negated(b, Size(b)),
           Nearest(r, Distance(x, 0), 1),
           r.sign = IF x = 0 THEN a.sign * b.sign ELSE IF x < 0 THEN 1 ELSE 0
    PROVE  SumRounds(a, b, r)
  BY Zenon DEF SumRounds

\* The sum with a zero is the other summand.
LEMMA ZeroSums ==
    ASSUME NEW a \in Canonical, NEW b \in Canonical, NEW r \in Float,
           \/ a \in Zeros /\ b \notin Zeros /\ r = b
           \/ b \in Zeros /\ a \notin Zeros /\ r = a
           \/ a \in Zeros /\ b \in Zeros /\ r = Zero(a.sign * b.sign)
    PROVE  SumRounds(a, b, r)
  <1>1. /\ a \in Float /\ b \in Float
        /\ a.sign \in {0, 1} /\ b.sign \in {0, 1} /\ r.sign \in {0, 1}
    BY CanonicalIs, SignificandIs DEF Float
  <1>2. PICK m \in Nat, n \in Nat, o \in Nat : m = Size(a) /\ n = Size(b) /\ o = Size(r)
    BY <1>1, SizeOf
  <1>3. m = 0 <=> a \in Zeros
    BY <1>1, <1>2, ZeroIs, SizeIsSome
  <1>4. n = 0 <=> b \in Zeros
    BY <1>1, <1>2, ZeroIs, SizeIsSome
  <1>5. PICK p \in {0, 1} : p = a.sign * b.sign
    BY <1>1, SignsTimes
  <1>6. PICK x \in Int : x = Negated(a, m) + Negated(b, n)
    BY DEF Negated
  <1>7. \/ m = 0 /\ n # 0 /\ r = b /\ o = n
        \/ n = 0 /\ m # 0 /\ r = a /\ o = m
        \/ m = 0 /\ n = 0 /\ o = 0 /\ r.sign = p
    <2>1. r = Zero(p) => o = 0 /\ r.sign = p
      BY <1>2, ZeroIs, KindsAre
    <2>2. QED
      BY <1>2, <1>3, <1>4, <1>5, <2>1
  <1>8. o = Distance(x, 0) /\ r.sign = IF x = 0 THEN p ELSE IF x < 0 THEN 1 ELSE 0
    <2>1. CASE m = 0 /\ n # 0 /\ r = b /\ o = n
      BY <1>1, <1>6, <2>1 DEF Negated, Distance
    <2>2. CASE n = 0 /\ m # 0 /\ r = a /\ o = m
      BY <1>1, <1>6, <2>2 DEF Negated, Distance
    <2>3. CASE m = 0 /\ n = 0 /\ o = 0 /\ r.sign = p
      BY <1>6, <2>3 DEF Negated, Distance
    <2>4. QED
      BY <1>7, <2>1, <2>2, <2>3
  <1>9. Nearest(r, Distance(x, 0), 1)
    <2>1. Size(r) * 1 = o /\ 1 \in Nat \ {0}
      BY <1>2
    <2>2. QED
      BY <1>8, <2>1, NearestExact, Zenon
  <1>10. QED
    BY <1>2, <1>5, <1>6, <1>8, <1>9, SumMeans, Zenon

\* A sum that cancels is a positive zero, as its summands have different signs.
LEMMA AddedSums ==
    ASSUME NEW a \in Float, NEW b \in Float, NEW r, a \notin Zeros, b \notin Zeros,
           r = IF a.exponent > b.exponent THEN Added(b, a) ELSE Added(a, b)
    PROVE  r \in Canonical /\ r \notin NaNs /\ SumRounds(a, b, r)
  <1>1. PICK m \in Nat, n \in Nat : m = a.exponent /\ n = b.exponent
    BY SignificandIs, LargestIs
  <1>2. PICK y \in Int, z \in Int : y = Negated(a, Size(a)) /\ z = Negated(b, Size(b))
    BY SizeOf
  <1>3. PICK x \in Int, s \in {0, 1} : x = y + z /\ x = z + y /\ s = IF x < 0 THEN 1 ELSE 0
    <2>1. y + z \in Int /\ y + z = z + y
      OBVIOUS
    <2>2. PICK x \in Int : x = y + z /\ x = z + y
      BY <2>1, Zenon
    <2>3. PICK s \in {0, 1} : s = IF x < 0 THEN 1 ELSE 0
      OBVIOUS
    <2>4. QED
      BY <2>2, <2>3
  <1>4. /\ r \in Float /\ r.sign = s
        /\ r.exponent = MAXE => r = Inf(s)
        /\ Nearest(r, Distance(x, 0), 1)
    <2>1. CASE m > n
      <3>1. b.exponent <= a.exponent /\ r = Added(b, a)
        BY <1>1, <2>1
      <3>2. QED
        BY <1>2, <1>3, <3>1, AddedRounds, Zenon
    <2>2. CASE ~(m > n)
      <3>1. a.exponent <= b.exponent /\ r = Added(a, b)
        BY <1>1, <2>2
      <3>2. QED
        BY <1>2, <1>3, <3>1, AddedRounds, Zenon
    <2>3. QED
      BY <2>1, <2>2
  <1>5. r \in Canonical /\ r \notin NaNs
    BY <1>4, CanonicalAre
  <1>6. x = 0 => a.sign * b.sign = 0
    <2>1. a.sign \in {0, 1} /\ b.sign \in {0, 1}
      BY SignificandIs DEF Float
    <2>2. PICK k \in Nat \ {0}, l \in Nat \ {0} : k = Size(a) /\ l = Size(b)
      BY SizeIsSome
    <2>3. x = 0 => ~(a.sign = 1 /\ b.sign = 1)
      <3>1. y = Negated(a, k) /\ z = Negated(b, l)
        BY <1>2, <2>2
      <3>2. a.sign = 1 /\ b.sign = 1 => y = -k /\ z = -l
        BY <3>1 DEF Negated
      <3>3. QED
        BY <1>3, <3>2
    <2>4. QED
      BY <2>1, <2>3, SignsTimes
  <1>7. r.sign = IF x = 0 THEN a.sign * b.sign ELSE IF x < 0 THEN 1 ELSE 0
    BY <1>3, <1>4, <1>6
  <1>8. QED
    BY <1>2, <1>3, <1>4, <1>5, <1>7, SumMeans, Zenon

LEMMA AddComputes ==
    ASSUME NEW a \in Canonical, NEW b \in Canonical
    PROVE  LET r == internal_float_add(b, a) IN
           /\ r \in Canonical
           /\ r \in NaNs <=> a \in NaNs \/ b \in NaNs \/ {a, b} = Infs
           /\ IF r \in NaNs THEN r = ResultNaN(a, b)
              ELSE IF Finite(a) /\ Finite(b) THEN SumRounds(a, b, r)
              ELSE r = IF a \in Infs THEN a ELSE b
  <1> DEFINE E == TableEntry(corner_add, a, b)
             C == Covers(corner_add, a, b)
             A == IF a.exponent > b.exponent THEN Added(b, a) ELSE Added(a, b)
  <1>1. PICK r : r = internal_float_add(b, a)
    OBVIOUS
  <1>2. r = IF C THEN E
            ELSE IF a \in Zeros THEN b
            ELSE IF b \in Zeros THEN a
            ELSE IF a.exponent = MAXE THEN a
            ELSE IF b.exponent = MAXE THEN b
            ELSE A
    BY <1>1, Zenon DEF internal_float_add
  <1>3. /\ C => \/ a \in Zeros /\ b \in Zeros /\ E = Zero(a.sign * b.sign)
                \/ {a, b} = Infs /\ E = NaN(1)
                \/ a \in Infs /\ b \in NaNs /\ E = b
                \/ a = NaN(1) /\ b = NaN(0) /\ E = b
        /\ ~C => /\ ~(a \in Zeros /\ b \in Zeros) /\ {a, b} # Infs
                 /\ ~(a \in Infs /\ b \in NaNs) /\ ~(a = NaN(1) /\ b = NaN(0))
    BY AddCorners
  <1>4. /\ a \in Float /\ b \in Float /\ a.sign \in {0, 1} /\ b.sign \in {0, 1}
        /\ Finite(a) <=> a.exponent # MAXE
        /\ Finite(b) <=> b.exponent # MAXE
        /\ ~Finite(a) => a \in Infs \/ a \in NaNs
        /\ ~Finite(b) => b \in Infs \/ b \in NaNs
        /\ a \in Zeros => Finite(a) /\ a \notin Infs /\ a \notin NaNs
        /\ b \in Zeros => Finite(b) /\ b \notin Infs /\ b \notin NaNs
        /\ a \in Infs => ~Finite(a) /\ a \notin NaNs
        /\ b \in Infs => ~Finite(b) /\ b \notin NaNs
        /\ a \in NaNs => ~Finite(a) /\ a \notin Infs
        /\ b \in NaNs => ~Finite(b) /\ b \notin Infs
    BY CanonicalIs
  <1>5. a \notin Zeros /\ b \notin Zeros => A \in Canonical /\ A \notin NaNs /\ SumRounds(a, b, A)
    BY <1>4, AddedSums
  <1>6. {a, b} = Infs => a \in Infs /\ b \in Infs
    OBVIOUS
  <1>7. /\ a \in NaNs /\ ~(a = NaN(1) /\ b = NaN(0)) => ResultNaN(a, b) = a
        /\ b \in NaNs /\ ~(a = NaN(0) /\ b = NaN(1)) => ResultNaN(a, b) = b
        /\ a = NaN(0) \/ b = NaN(0) => ResultNaN(a, b) = NaN(0)
        /\ a \notin NaNs /\ b \notin NaNs => ResultNaN(a, b) = NaN(1)
        /\ NaN(0) \in NaNs /\ NaN(1) \in NaNs
    BY NaNIs, KindsAre
  <1> HIDE DEF E, C, A
  <1>8. CASE C
    <2>1. CASE a \in Zeros /\ b \in Zeros /\ E = Zero(a.sign * b.sign)
      <3>1. PICK s \in {0, 1} : s = a.sign * b.sign
        BY <1>4, SignsTimes
      <3>2. r = Zero(s)
        BY <1>2, <1>8, <2>1, <3>1
      <3>3. r \in Canonical /\ r \in Zeros /\ r \in Float
        BY <3>2, CanonicalAre, KindsAre
      <3>4. r \notin NaNs
        BY <3>3, CanonicalIs
      <3>5. SumRounds(a, b, r)
        BY <2>1, <3>1, <3>2, <3>3, ZeroSums
      <3>6. QED
        BY <1>1, <1>4, <1>6, <2>1, <3>3, <3>4, <3>5, Zenon
    <2>2. CASE {a, b} = Infs /\ E = NaN(1)
      <3>1. r = NaN(1) /\ r \in Canonical /\ r \in NaNs
        BY <1>2, <1>8, <2>2, CanonicalAre, KindsAre
      <3>2. QED
        BY <1>1, <1>4, <1>6, <1>7, <2>2, <3>1, Zenon
    <2>3. CASE a \in Infs /\ b \in NaNs /\ E = b
      BY <1>1, <1>2, <1>4, <1>8, <1>7, <2>3, Zenon
    <2>4. CASE a = NaN(1) /\ b = NaN(0) /\ E = b
      BY <1>1, <1>2, <1>4, <1>8, <1>7, <2>4, Zenon
    <2>5. QED
      BY <1>3, <1>8, <2>1, <2>2, <2>3, <2>4, Zenon
  <1>9. CASE ~C /\ a \in Zeros
    <2>1. r = b
      BY <1>2, <1>9
    <2>2. SumRounds(a, b, r)
      BY <1>3, <1>4, <1>9, <2>1, ZeroSums, Zenon
    <2>3. QED
      BY <1>1, <1>3, <1>4, <1>6, <1>9, <1>7, <2>1, <2>2, Zenon
  <1>10. CASE ~C /\ a \notin Zeros /\ b \in Zeros
    <2>1. r = a
      BY <1>2, <1>10
    <2>2. SumRounds(a, b, r)
      BY <1>4, <1>10, <2>1, ZeroSums, Zenon
    <2>3. QED
      BY <1>1, <1>3, <1>4, <1>6, <1>10, <1>7, <2>1, <2>2, Zenon
  <1>11. CASE ~C /\ a \notin Zeros /\ b \notin Zeros
    <2>1. CASE a.exponent = MAXE
      <3>1. r = a
        BY <1>2, <1>11, <2>1
      <3>2. QED
        BY <1>1, <1>3, <1>4, <1>11, <1>7, <2>1, <3>1, Zenon
    <2>2. CASE a.exponent # MAXE /\ b.exponent = MAXE
      <3>1. r = b
        BY <1>2, <1>11, <2>2
      <3>2. QED
        BY <1>1, <1>3, <1>4, <1>6, <1>11, <1>7, <2>2, <3>1, Zenon
    <2>3. CASE a.exponent # MAXE /\ b.exponent # MAXE
      <3>1. r = A
        BY <1>2, <1>11, <2>3
      <3>2. QED
        BY <1>1, <1>3, <1>4, <1>5, <1>11, <2>3, <3>1, Zenon
    <2>4. QED
      BY <2>1, <2>2, <2>3, Zenon
  <1>12. QED
    BY <1>8, <1>9, <1>10, <1>11, Zenon

LEMMA SameFloat ==
    ASSUME NEW f \in Float, NEW g \in Float,
           f.sign = g.sign, f.exponent = g.exponent, f.fraction = g.fraction
    PROVE  f = g
  BY DEF Float

\* A difference is the sum with what is subtracted negated.
LEMMA SubComputes ==
    ASSUME NEW a \in Canonical, NEW b \in Canonical
    PROVE  LET r == internal_float_sub(b, a)  n == Addend("sub", b) IN
           /\ r \in Canonical
           /\ r \in NaNs <=> a \in NaNs \/ b \in NaNs \/ (a = b /\ a \in Infs)
           /\ IF r \in NaNs THEN r = ResultNaN(a, b)
              ELSE IF Finite(a) /\ Finite(b) THEN SumRounds(a, n, r)
              ELSE r = IF a \in Infs THEN a ELSE n
  <1> DEFINE E == TableEntry(corner_sub, a, b)
             C == Covers(corner_sub, a, b)
             n == [b EXCEPT !.sign = 1 - @]
             A == internal_float_add(n, a)
  <1>1. PICK r : r = internal_float_sub(b, a)
    OBVIOUS
  <1>2. r = IF C THEN E ELSE IF a \in NaNs THEN a ELSE IF b \in NaNs THEN b ELSE A
    BY <1>1, Zenon DEF internal_float_sub
  <1>3. /\ C => \/ a \in Zeros /\ b \in Zeros /\ E = Zero(a.sign * (1 - b.sign))
                \/ a \in NaNs /\ b \in NaNs /\ E = ResultNaN(a, b)
        /\ ~C => ~(a \in NaNs /\ b \in NaNs)
    BY SubCorners
  <1>4. /\ a \in Float /\ b \in Float /\ a.sign \in {0, 1} /\ b.sign \in {0, 1}
        /\ ~Finite(a) => a \in Infs \/ a \in NaNs
        /\ ~Finite(b) => b \in Infs \/ b \in NaNs
        /\ a \in Zeros => Finite(a) /\ a \notin Infs /\ a \notin NaNs
        /\ b \in Zeros => Finite(b) /\ b \notin Infs /\ b \notin NaNs
        /\ a \in Infs => ~Finite(a) /\ a \notin NaNs
        /\ b \in Infs => ~Finite(b) /\ b \notin NaNs
        /\ a \in NaNs => ~Finite(a) /\ a \notin Infs
        /\ b \in NaNs => ~Finite(b) /\ b \notin Infs
    BY CanonicalIs
  <1>5. /\ n \in Float /\ n.sign = 1 - b.sign /\ n.exponent = b.exponent
        /\ n.fraction = b.fraction
    <2>1. 1 - b.sign \in {0, 1}
      BY <1>4, SignsTimes
    <2>2. QED
      BY <1>4, <2>1 DEF Float
  <1>6. Addend("sub", b) = n
    BY DEF Addend
  <1>7. /\ a \in NaNs /\ ~(a = NaN(1) /\ b = NaN(0)) => ResultNaN(a, b) = a
        /\ b \in NaNs /\ ~(a = NaN(0) /\ b = NaN(1)) => ResultNaN(a, b) = b
        /\ a \notin NaNs /\ b \notin NaNs => ResultNaN(a, b) = NaN(1)
        /\ a = NaN(0) \/ b = NaN(0) => ResultNaN(a, b) = NaN(0)
        /\ NaN(0) \in NaNs /\ NaN(1) \in NaNs
        /\ NaN(0) \in Canonical /\ NaN(1) \in Canonical
    BY NaNIs, KindsAre, CanonicalAre
  <1>8. ASSUME NEW s \in {0, 1}
        PROVE  /\ b = Zero(s) => n = Zero(1 - s) /\ 1 - s \in {0, 1}
               /\ b = Inf(s) => n = Inf(1 - s) /\ 1 - s \in {0, 1}
    BY DEF Zero, Inf
  <1>9. n \in Canonical \/ b \in NaNs
    <2>1. b \in Infs => n \in Infs
      BY <1>8, KindIs
    <2>2. b.exponent = MAXE => b \in Infs \/ b \in NaNs
      BY DEF Canonical
    <2>3. QED
      BY <1>5, <2>1, <2>2 DEF Canonical
  <1>10. {a, n} = Infs <=> a = b /\ a \in Infs
    <2>1. Inf(0) # Inf(1)
      BY DEF Inf
    <2>2. n = Inf(0) => b = Inf(1)
      <3>1. ASSUME n = Inf(0)
            PROVE  b.sign = 1 /\ b.exponent = MAXE /\ b.fraction = 0
        <4>1. n.sign = 0 /\ n.exponent = MAXE /\ n.fraction = 0
          BY <3>1, KindsAre
        <4>2. QED
          BY <1>4, <1>5, <4>1
      <3>2. QED
        BY <1>4, <3>1, KindsAre, SameFloat
    <2>3. n = Inf(1) => b = Inf(0)
      <3>1. ASSUME n = Inf(1)
            PROVE  b.sign = 0 /\ b.exponent = MAXE /\ b.fraction = 0
        <4>1. n.sign = 1 /\ n.exponent = MAXE /\ n.fraction = 0
          BY <3>1, KindsAre
        <4>2. QED
          BY <1>4, <1>5, <4>1
      <3>2. QED
        BY <1>4, <3>1, KindsAre, SameFloat
    <2>4. b = Inf(0) => n = Inf(1)
      BY <1>8
    <2>5. b = Inf(1) => n = Inf(0)
      BY <1>8
    <2> HIDE DEF n
    <2>6. QED
      BY <2>1, <2>2, <2>3, <2>4, <2>5 DEF Infs
  <1> HIDE DEF E, C, n, A
  <1>11. ASSUME b \notin NaNs
         PROVE  n \notin NaNs
    <2>1. ASSUME NEW s \in {0, 1}, n = NaN(s)
          PROVE  b \in NaNs
      <3>1. n.sign = s /\ n.exponent = MAXE /\ n.fraction = NaN(s).fraction
        BY <2>1, KindsAre
      <3>2. PICK t \in {0, 1} : t = 1 - s
        BY SignsTimes
      <3>3. b.sign = t /\ b.exponent = MAXE /\ b.fraction = NaN(s).fraction
        BY <1>4, <1>5, <3>1, <3>2
      <3>4. NaN(t).fraction = NaN(s).fraction
        BY DEF NaN
      <3>5. b = NaN(t)
        BY <1>4, <3>3, <3>4, KindsAre, SameFloat
      <3>6. QED
        BY <3>5, KindIs
    <2>2. QED
      BY <1>11, <2>1, KindIs
  <1>12. CASE C /\ a \in Zeros /\ b \in Zeros /\ E = Zero(a.sign * (1 - b.sign))
    <2>1. PICK s \in {0, 1} : s = a.sign * (1 - b.sign) /\ s = a.sign * n.sign
      BY <1>4, <1>5, SignsTimes
    <2>2. r = Zero(s)
      BY <1>2, <1>12, <2>1
    <2>3. r \in Canonical /\ r \in Zeros /\ r \in Float
      BY <2>2, CanonicalAre, KindsAre
    <2>4. r \notin NaNs
      BY <2>3, CanonicalIs
    <2>5. n \in Zeros
      BY <1>8, <1>12, KindIs
    <2>6. SumRounds(a, n, r)
      BY <1>4, <1>9, <1>12, <2>1, <2>2, <2>3, <2>5, ZeroSums
    <2>7. QED
      BY <1>1, <1>4, <1>6, <1>12, <2>3, <2>4, <2>6, Zenon
  <1> HIDE DEF E, C, n, A
  <1>13. CASE C /\ a \in NaNs /\ b \in NaNs /\ E = ResultNaN(a, b)
    <2>1. r = ResultNaN(a, b)
      BY <1>2, <1>13
    <2>2. r \in NaNs /\ r \in Canonical
      BY <1>7, <1>13, <2>1, Zenon
    <2>3. QED
      BY <1>1, <1>13, <2>1, <2>2, Zenon
  <1>14. CASE ~C /\ a \in NaNs
    <2>1. r = a /\ b \notin NaNs
      BY <1>2, <1>3, <1>14
    <2>2. QED
      BY <1>1, <1>4, <1>7, <1>14, <2>1, Zenon
  <1>15. CASE ~C /\ a \notin NaNs /\ b \in NaNs
    <2>1. r = b
      BY <1>2, <1>15
    <2>2. QED
      BY <1>1, <1>4, <1>7, <1>15, <2>1, Zenon
  <1>16. CASE ~C /\ a \notin NaNs /\ b \notin NaNs
    <2>1. r = A /\ n \in Canonical /\ n \notin NaNs
      BY <1>2, <1>9, <1>11, <1>16
    <2>2. /\ A \in Canonical
          /\ A \in NaNs <=> a \in NaNs \/ n \in NaNs \/ {a, n} = Infs
          /\ IF A \in NaNs THEN A = ResultNaN(a, n)
             ELSE IF Finite(a) /\ Finite(n) THEN SumRounds(a, n, A)
             ELSE A = IF a \in Infs THEN a ELSE n
      BY <2>1, AddComputes DEF A
    <2>3. Finite(n) <=> Finite(b)
      BY <1>5 DEF Finite
    <2>4. ResultNaN(a, n) = NaN(1)
      BY <1>16, <2>1, NaNIs, Zenon
    <2>5. QED
      BY <1>1, <1>6, <1>7, <1>10, <1>16, <2>1, <2>2, <2>3, <2>4, Zenon
  <1>17. QED
    BY <1>3, <1>12, <1>13, <1>14, <1>15, <1>16, Zenon

-----------------------------------------------------------------------------
\* Products.

LEMMA OneIs ==
    /\ BIAS \in Nat /\ BIAS + FRAC - 1 \in Nat /\ One \in Nat \ {0}
  <1>1. EXP \in Nat \ {0} /\ FRAC \in Nat \ {0} /\ FRAC >= 4
    BY FloatShape
  <1>2. 2^(EXP - 1) \in Nat \ {0}
    BY <1>1, Halves
  <1>3. BIAS \in Nat
    BY <1>2 DEF BIAS
  <1>4. BIAS + FRAC - 1 \in Nat
    BY <1>1, <1>3
  <1>5. 2^(BIAS + FRAC - 1) \in Nat \ {0}
    BY <1>4, PowerIs, Zenon
  <1>6. QED
    BY <1>3, <1>4, <1>5 DEF One

\* Nothing is lost of a product before it is normalized.
LEMMA ExactNormalizes ==
    ASSUME NEW e \in Int, NEW x \in Nat, x < 2^WIDE, e = 0 => x >= 2 * Lead,
           NEW p \in Nat, NEW q \in Nat \ {0}, NEW a \in Nat, NEW b \in Nat, b - a = e - 1,
           (8 * p) * 2^a = x * (q * 2^b)
    PROVE  Normalizes(Normalized(e, x), p, q, TRUE)
  <1>1. PICK D \in Nat \ {0} : D = Lead
    BY LargestIs
  <1>2. x \in 0..(2^WIDE - 1)
    BY FloatNumbers
  <1>3. PICK u \in Nat \ {0}, v \in Nat \ {0} : u = 2^a /\ v = 2^b
    BY PowerIs
  <1>4. PICK U \in Nat \ {0}, P \in Int : U = q * 2^b /\ P = (8 * p) * 2^a
    <2>1. q * v \in Nat \ {0} /\ (8 * p) * u \in Int
      OBVIOUS
    <2>2. QED
      BY <1>3, <2>1, Zenon
  <1>5. x \in Int /\ P = x * U
    BY <1>4
  <1>6. Tracks(2, x, P, U) /\ Meets(2, x, P, U)
    BY <1>5, ExactTracks, Zenon
  <1>7. Tracks(2, x, (8 * p) * 2^a, q * 2^b) /\ (TRUE => Meets(2, x, (8 * p) * 2^a, q * 2^b))
    BY <1>4, <1>6, Zenon
  <1>8. CASE x >= 2 * D \/ e < 0
    BY <1>1, <1>2, <1>7, <1>8, NormalizedRight, Zenon
  <1>9. CASE x < D /\ e > 0
    <2>1. e \in Nat \ {0}
      BY <1>9
    <2>2. x < Lead
      BY <1>1, <1>9
    <2>3. QED
      BY <1>7, <2>1, <2>2, NormalizedLeft, Zenon
  <1>10. CASE x >= D /\ x < 2 * D /\ e > 0
    <2>1. e \in Nat /\ b - a = (IF e = 0 THEN 1 ELSE e) - 1
      BY <1>10
    <2>2. x < 2 * Lead /\ (x >= Lead \/ e = 0)
      BY <1>1, <1>10
    <2>3. QED
      BY <1>7, <2>1, <2>2, NormalizedAsItIs, Zenon
  <1>11. \/ x >= 2 * D \/ e < 0
         \/ x < D /\ e > 0
         \/ x >= D /\ x < 2 * D /\ e > 0
    BY <1>1
  <1>12. QED
    BY <1>8, <1>9, <1>10, <1>11, Zenon

LEMMA ProductNormalizes ==
    ASSUME NEW a \in Float, NEW b \in Float, ~Unshifted(a, b)
    PROVE  Normalizes(Normalized(scale(a) - BIAS + scale(b) - (FRAC - 3), sig(a) * sig(b)),
                      Size(a) * Size(b), One, TRUE)
  <1>1. PICK i \in Nat, j \in Nat, o \in Nat, e \in Int :
            /\ i = scale(a) - 1 /\ j = scale(b) - 1 /\ o = BIAS + FRAC - 1
            /\ e = scale(a) - BIAS + scale(b) - (FRAC - 3) /\ e - 1 = (i + j + 3) - o
            /\ e = 0 <=> scale(a) + scale(b) = BIAS + FRAC - 3
    <2>1. scale(a) \in Nat \ {0} /\ scale(b) \in Nat \ {0} /\ BIAS \in Nat /\ FRAC \in Nat
      BY ScaleIs, OneIs, LargestIs
    <2>2. PICK m \in Nat \ {0}, n \in Nat \ {0}, c \in Nat, f \in Nat :
                m = scale(a) /\ n = scale(b) /\ c = BIAS /\ f = FRAC
      BY <2>1, Zenon
    <2>3. c + f - 1 \in Nat
      BY <2>2, OneIs
    <2>4. m - c + n - (f - 3) \in Int /\ m - 1 \in Nat /\ n - 1 \in Nat
      OBVIOUS
    <2>5. m - c + n - (f - 3) - 1 = ((m - 1) + (n - 1) + 3) - (c + f - 1)
      OBVIOUS
    <2>6. m - c + n - (f - 3) = 0 <=> m + n = c + f - 3
      OBVIOUS
    <2>7. PICK i \in Nat, j \in Nat, o \in Nat, e \in Int :
                /\ i = m - 1 /\ j = n - 1 /\ o = c + f - 1 /\ e = m - c + n - (f - 3)
                /\ e - 1 = (i + j + 3) - o
                /\ e = 0 <=> m + n = c + f - 3
      <3>1. PICK i \in Nat, j \in Nat, o \in Nat, e \in Int :
                i = m - 1 /\ j = n - 1 /\ o = c + f - 1 /\ e = m - c + n - (f - 3)
        BY <2>3, <2>4, Zenon
      <3>2. QED
        BY <2>5, <2>6, <3>1
    <2>8. QED
      BY <2>2, <2>7
  <1>2. PICK P \in Nat \ {0}, w \in Nat : P = 2^(FRAC + 1) /\ w = 2^WIDE /\ P * P < w
    <2>1. 2^(FRAC + 1) \in Nat \ {0} /\ 2^WIDE \in Nat /\ 2^(FRAC + 1) * 2^(FRAC + 1) < 2^WIDE
      BY WideIs, FloatNumbers
    <2>2. QED
      BY <2>1, Zenon
  <1>3. PICK s \in 0..(P - 1), t \in 0..(P - 1) : s = sig(a) /\ t = sig(b)
    BY <1>2, SignificandIs
  <1>4. PICK x \in Nat : x = s * t /\ x < w
    <2>1. s * t \in 0..(P * P - 1)
      BY ProductBelow
    <2>2. PICK q \in Int : q = P * P
      OBVIOUS
    <2>3. QED
      BY <1>2, <2>1, <2>2
  <1>5. PICK A \in Nat \ {0}, B \in Nat \ {0}, O \in Nat \ {0} : A = 2^i /\ B = 2^j /\ O = 2^o
    BY PowerIs
  <1>6. PICK p \in Nat : p = Size(a) * Size(b) /\ p = x * (A * B)
    <2>1. Size(a) = s * A /\ Size(b) = t * B
      BY <1>1, <1>3, <1>5, Zenon DEF Size
    <2>2. (s * A) * (t * B) = (s * t) * (A * B) /\ (s * A) * (t * B) \in Nat
      OBVIOUS
    <2>3. QED
      BY <1>4, <2>1, <2>2
  <1>7. One = O
    BY <1>1, <1>5 DEF One
  <1>8. i + j + 3 \in Nat /\ 2^(i + j + 3) = 8 * (A * B)
    <2>1. i + j \in Nat /\ i + j + 3 \in Nat /\ 3 \in Nat /\ 2^3 = 8
      OBVIOUS
    <2>2. 2^(i + j) = A * B
      BY <1>5, PowerSplit, Zenon
    <2>3. 2^((i + j) + 3) = 2^(i + j) * 2^3
      BY <2>1, PowerSplit, Zenon
    <2>4. (A * B) * 8 = 8 * (A * B)
      OBVIOUS
    <2>5. QED
      BY <2>1, <2>2, <2>3, <2>4, Zenon
  <1>9. PICK c \in Nat : c = i + j + 3
    BY <1>8, Zenon
  <1>10. PICK C \in Nat \ {0} : C = 2^c /\ C = 8 * (A * B)
    BY <1>8, <1>9, PowerIs
  <1>11. 8 * p = x * C
    BY <1>6, <1>10
  <1>12. PICK k \in Nat, l \in Nat : l - k = e - 1 /\ c + k = o + l
    <2>1. CASE c >= o
      <3>1. c - o \in Nat /\ (c - o) - 0 = e - 1 /\ c + 0 = o + (c - o)
        BY <1>1, <1>9, <2>1
      <3>2. QED
        BY <3>1
    <2>2. CASE ~(c >= o)
      <3>1. o - c \in Nat /\ 0 - (o - c) = e - 1 /\ c + (o - c) = o + 0
        BY <1>1, <1>9, <2>2
      <3>2. QED
        BY <3>1
    <2>3. QED
      BY <2>1, <2>2
  <1>13. PICK K \in Nat \ {0}, L \in Nat \ {0} : K = 2^k /\ L = 2^l /\ C * K = O * L
    <2>1. 2^(c + k) = 2^c * 2^k /\ 2^(o + l) = 2^o * 2^l
      BY PowerSplit, Zenon
    <2>2. 2^c * 2^k = 2^o * 2^l
      BY <1>12, <2>1, Zenon
    <2>3. 2^k \in Nat \ {0} /\ 2^l \in Nat \ {0}
      BY PowerIs
    <2>4. QED
      BY <1>5, <1>10, <2>2, <2>3, Zenon
  <1>14. (8 * p) * 2^k = x * (One * 2^l)
    <2>1. (x * C) * K = x * (C * K)
      OBVIOUS
    <2>2. QED
      BY <1>7, <1>11, <1>13, <2>1, Zenon
  <1>15. e = 0 => x >= 2 * Lead
    <2>1. PICK D \in Nat \ {0} : D = Lead
      BY LargestIs
    <2>2. e = 0 => ~(x < 2 * D)
      BY <1>1, <1>3, <1>4, <2>1 DEF Unshifted
    <2>3. QED
      BY <2>1, <2>2
  <1>16. Normalizes(Normalized(e, x), p, One, TRUE)
    BY <1>2, <1>4, <1>12, <1>14, <1>15, OneIs, ExactNormalizes, Zenon
  <1>17. QED
    BY <1>1, <1>3, <1>4, <1>6, <1>16, Zenon

LEMMA ProductFits ==
    ASSUME NEW a \in Float, NEW b \in Float
    PROVE  /\ scale(a) - BIAS + scale(b) - (FRAC - 3) \in Int
           /\ sig(a) * sig(b) \in 0..(2^WIDE - 1)
  <1>1. PICK P \in Nat \ {0}, w \in Nat : P = 2^(FRAC + 1) /\ w = 2^WIDE /\ P * P < w
    <2>1. 2^(FRAC + 1) \in Nat \ {0} /\ 2^WIDE \in Nat /\ 2^(FRAC + 1) * 2^(FRAC + 1) < 2^WIDE
      BY WideIs, FloatNumbers
    <2>2. QED
      BY <2>1, Zenon
  <1>2. PICK x \in 0..(P - 1), y \in 0..(P - 1) : x = sig(a) /\ y = sig(b)
    BY <1>1, SignificandIs
  <1>3. x * y \in 0..(P * P - 1)
    BY ProductBelow
  <1>4. PICK p \in Int, q \in Int : p = x * y /\ q = P * P
    OBVIOUS
  <1>5. p \in 0..(w - 1)
    BY <1>1, <1>3, <1>4
  <1>6. sig(a) * sig(b) \in 0..(2^WIDE - 1)
    BY <1>1, <1>2, <1>4, <1>5, Zenon
  <1>7. scale(a) - BIAS + scale(b) - (FRAC - 3) \in Int
    BY SignificandIs, FloatNumbers
  <1>8. QED
    BY <1>6, <1>7

\* What is normalized keeps its sign and is a number or an infinity.
LEMMA NormalizeKeeps ==
    ASSUME NEW s \in {0, 1}, NEW e \in Int, NEW x \in 0..(2^WIDE - 1)
    PROVE  LET r == internal_normalize(s, e, x) IN
           r \in Canonical /\ r \notin NaNs /\ r.sign = s
  <1>1. PICK a \in Nat, g \in Nat : a = Normalized(e, x).exp /\ g = Normalized(e, x).sig
    BY NormalizedIs
  <1>2. PICK q \in Nat : q = Rounded(g)
    BY DEF Rounded
  <1>3. PICK r \in Float : r = internal_normalize(s, e, x)
    BY NormalizeIs
  <1>4. r = Packed(s, a, q)
    BY <1>1, <1>2, <1>3, Zenon DEF internal_normalize
  <1> DEFINE c == q >= 2^(FRAC + 1)
             y == IF c /\ a < MAXE THEN a + 1 ELSE a
             f == (IF c THEN q \div 2 ELSE q) % 2^FRAC
  <1>5. r = IF y >= MAXE THEN Inf(s) ELSE [sign |-> s, exponent |-> y, fraction |-> f]
    BY <1>4 DEF Packed
  <1>6. y \in Nat /\ MAXE \in Nat
    BY LargestIs
  <1> HIDE DEF c, y, f
  <1>7. r.sign = s /\ (r.exponent = MAXE => r = Inf(s))
    BY <1>5, <1>6, KindsAre
  <1>8. QED
    BY <1>3, <1>7, CanonicalAre, Zenon

LEMMA MulComputes ==
    ASSUME NEW a \in Canonical, NEW b \in Canonical
    PROVE  LET r == internal_float_mul(b, a) IN
           /\ r \in Canonical
           /\ r \in NaNs <=>
                \/ {a, b} \cap NaNs # {}
                \/ {a, b} \cap Infs # {} /\ {a, b} \cap Zeros # {}
           /\ IF r \in NaNs THEN r = ResultNaN(a, b)
              ELSE IF Finite(a) /\ Finite(b) THEN ProductRounds(a, b, r)
              ELSE r = Inf(SignOf(a, b))
  <1> DEFINE E == TableEntry(corner_mul, a, b)
             C == Covers(corner_mul, a, b)
             N == internal_normalize(SignOf(a, b), scale(a) - BIAS + scale(b) - (FRAC - 3), sig(a) * sig(b))
  <1>1. PICK r : r = internal_float_mul(b, a)
    OBVIOUS
  <1>2. PICK s \in {0, 1} : s = SignOf(a, b)
    BY CanonicalIs, SignOfIs
  <1>3. r = IF C THEN E
            ELSE IF {a, b} \cap NaNs # {} THEN NaNOf(a, b)
            ELSE IF {a, b} \cap Zeros # {} THEN Zero(s)
            ELSE IF {a, b} \cap Infs # {} THEN Inf(s)
            ELSE N
    BY <1>1, <1>2, Zenon DEF internal_float_mul
  <1>4. C => E = NaN(1) /\ ((a \in Zeros /\ b \in Infs) \/ (a \in Infs /\ b \in Zeros))
    BY MulCorners
  <1>5. ~C => ~(a \in Zeros /\ b \in Infs) /\ ~(a \in Infs /\ b \in Zeros)
    BY MulCovers
  <1>6. /\ a \in Float /\ b \in Float
        /\ ~Finite(a) => a \in Infs \/ a \in NaNs
        /\ ~Finite(b) => b \in Infs \/ b \in NaNs
        /\ a \in Zeros => Finite(a) /\ a \notin Infs /\ a \notin NaNs
        /\ b \in Zeros => Finite(b) /\ b \notin Infs /\ b \notin NaNs
        /\ a \in Infs => ~Finite(a) /\ a \notin NaNs
        /\ b \in Infs => ~Finite(b) /\ b \notin NaNs
        /\ a \in NaNs => ~Finite(a) /\ a \notin Infs
        /\ b \in NaNs => ~Finite(b) /\ b \notin Infs
    BY CanonicalIs
  <1>7. /\ {a, b} \cap NaNs # {} <=> a \in NaNs \/ b \in NaNs
        /\ {a, b} \cap Zeros # {} <=> a \in Zeros \/ b \in Zeros
        /\ {a, b} \cap Infs # {} <=> a \in Infs \/ b \in Infs
    OBVIOUS
  <1>8. /\ NaN(0) \in NaNs /\ NaN(1) \in NaNs /\ NaN(0) \in Canonical /\ NaN(1) \in Canonical
        /\ Zero(s) \in Zeros /\ Zero(s) \in Canonical /\ Zero(s) \notin NaNs /\ Zero(s).sign = s
        /\ Inf(s) \in Infs /\ Inf(s) \in Canonical /\ Inf(s) \notin NaNs
    <2>1. /\ NaN(0) \in NaNs /\ NaN(1) \in NaNs /\ NaN(0) \in Canonical /\ NaN(1) \in Canonical
          /\ Zero(s) \in Zeros /\ Zero(s) \in Canonical /\ Zero(s).sign = s
          /\ Inf(s) \in Infs /\ Inf(s) \in Canonical
      BY CanonicalAre, KindsAre
    <2>2. QED
      BY <2>1, CanonicalIs
  <1>9. /\ NaNOf(a, b) \in NaNs /\ NaNOf(a, b) \in Canonical
        /\ NaNOf(a, b) = ResultNaN(a, b)
        /\ a \notin NaNs /\ b \notin NaNs => ResultNaN(a, b) = NaN(1)
    <2>1. NaNOf(a, b) \in NaNs /\ NaNOf(a, b) \in Canonical
      BY <1>8 DEF NaNOf
    <2>2. QED
      BY <2>1, NaNIs, Zenon
  <1>10. /\ N \in Canonical /\ N \notin NaNs /\ N.sign = s
         /\ Nearest(N, Size(a) * Size(b), One) \/ Unshifted(a, b)
                \/ UpToNormal(Size(a) * Size(b), One)
    <2>1. /\ scale(a) - BIAS + scale(b) - (FRAC - 3) \in Int
          /\ sig(a) * sig(b) \in 0..(2^WIDE - 1)
      BY <1>6, ProductFits
    <2>2. N \in Canonical /\ N \notin NaNs /\ N.sign = s
      BY <1>2, <2>1, NormalizeKeeps, Zenon
    <2>3. PICK p \in Nat : p = Size(a) * Size(b)
      <3>1. PICK m \in Nat, n \in Nat : m = Size(a) /\ n = Size(b)
        BY <1>6, SizeOf
      <3>2. m * n \in Nat
        OBVIOUS
      <3>3. QED
        BY <3>1, <3>2
    <2>4. ASSUME ~Unshifted(a, b)
          PROVE  Nearest(N, p, One) \/ UpToNormal(p, One)
      <3>1. RoundedTo(N, s, p, One, TRUE)
        BY <1>2, <1>6, <2>3, <2>4, OneIs, ProductNormalizes, NormalizedRounds, Zenon
      <3>2. QED
        BY <3>1, Zenon DEF RoundedTo
    <2>5. QED
      BY <2>2, <2>3, <2>4, Zenon
  <1> HIDE DEF E, C, N
  <1>11. CASE C
    BY <1>1, <1>3, <1>4, <1>6, <1>7, <1>8, <1>9, <1>11, Zenon
  <1>12. CASE ~C /\ {a, b} \cap NaNs # {}
    <2>1. r = NaNOf(a, b)
      BY <1>3, <1>12
    <2>2. QED
      BY <1>1, <1>6, <1>7, <1>9, <1>12, <2>1, Zenon
  <1>13. CASE ~C /\ {a, b} \cap NaNs = {} /\ {a, b} \cap Zeros # {}
    <2>1. r = Zero(s)
      BY <1>3, <1>13
    <2>2. Nearest(r, Size(a) * Size(b), One) /\ r.sign = s
      <3>1. PICK m \in Nat, n \in Nat : m = Size(a) /\ n = Size(b)
        BY <1>6, SizeOf
      <3>2. m = 0 \/ n = 0
        BY <1>6, <1>7, <1>13, <3>1, ZeroIs
      <3>3. m * n = 0 /\ 0 \in Nat
        BY <3>2
      <3>4. r \in Float /\ Size(r) = 0
        BY <1>8, <2>1, KindsAre, ZeroIs
      <3>5. 0 * One = 0 /\ One \in Nat \ {0}
        BY OneIs
      <3>6. Size(r) * One = 0
        BY <3>4, <3>5
      <3>7. Nearest(r, 0, One)
        BY <3>3, <3>4, <3>5, <3>6, NearestExact, Zenon
      <3>8. QED
        BY <1>8, <2>1, <3>1, <3>3, <3>7, Zenon
    <2>3. ProductRounds(a, b, r)
      BY <1>2, <2>2, Zenon DEF ProductRounds
    <2>4. QED
      BY <1>1, <1>5, <1>6, <1>7, <1>8, <1>13, <2>1, <2>3, Zenon
  <1>14. CASE ~C /\ {a, b} \cap NaNs = {} /\ {a, b} \cap Zeros = {} /\ {a, b} \cap Infs # {}
    <2>1. r = Inf(s)
      BY <1>3, <1>14
    <2>2. QED
      BY <1>1, <1>2, <1>6, <1>7, <1>8, <1>14, <2>1, Zenon
  <1>15. CASE ~C /\ {a, b} \cap NaNs = {} /\ {a, b} \cap Zeros = {} /\ {a, b} \cap Infs = {}
    <2>1. r = N
      BY <1>3, <1>15
    <2>2. ProductRounds(a, b, r)
      BY <1>2, <1>10, <2>1, Zenon DEF ProductRounds
    <2>3. QED
      BY <1>1, <1>6, <1>7, <1>10, <1>15, <2>1, <2>2, Zenon
  <1>16. QED
    BY <1>11, <1>12, <1>13, <1>14, <1>15, Zenon

-----------------------------------------------------------------------------
\* Quotients.

LEMMA TracksTimes ==
    ASSUME NEW x \in Int, NEW P \in Int, NEW U \in Int, NEW V \in Nat \ {0}, Tracks(2, x, P, U)
    PROVE  Tracks(2, x, P * V, U * V)
  <1>1. ASSUME NEW n \in Int
        PROVE  /\ x < 2 * n <=> P * V < (2 * n) * (U * V)
               /\ 2 * n < x => (2 * n) * (U * V) < P * V
    <2>1. PICK R \in Int : R = (2 * n) * U
      OBVIOUS
    <2>2. (x < 2 * n <=> P < R) /\ (2 * n < x => R < P)
      BY <2>1 DEF Tracks
    <2>3. PICK y \in Int, z \in Int : y = V * P /\ z = V * R
      OBVIOUS
    <2>4. P < R => y + V <= z
      BY <2>3, SmallerProduct
    <2>5. R < P => z + V <= y
      BY <2>3, SmallerProduct
    <2>6. P = R => y = z
      BY <2>3
    <2>7. P * V = y /\ (2 * n) * (U * V) = z
      <3>1. (2 * n) * (U * V) = V * ((2 * n) * U)
        OBVIOUS
      <3>2. P * V = V * P
        OBVIOUS
      <3>3. QED
        BY <2>1, <2>3, <3>1, <3>2, Zenon
    <2>8. QED
      BY <2>2, <2>3, <2>4, <2>5, <2>6, <2>7
  <1>2. QED
    BY <1>1 DEF Tracks

LEMMA UpIs ==
    ASSUME NEW x \in Nat \ {0}, x < 2^(FRAC + 1)
    PROVE  Up(x) \in Nat /\ x * 2^Up(x) \in 0..(2^WIDE - 1)
  <1>1. PICK h \in Nat \ {0}, w \in Nat \ {0} : h = 2^(WIDE - 1) /\ w = 2^WIDE /\ w = 2 * h
    BY FloatNumbers, Halves
  <1>2. x < w
    <2>1. PICK P \in Nat : P = 2^(FRAC + 1) /\ P < w
      BY <1>1, WideIs
    <2>2. QED
      BY <2>1
  <1> DEFINE K == {k \in 0..WIDE : x * 2^k >= 2^(WIDE - 1)}
  <1>3. K \subseteq Nat /\ WIDE \in K
    <2>1. WIDE \in 0..WIDE
      BY FloatNumbers
    <2>2. x * w >= h
      <3>1. PICK j \in Nat : x = j + 1
        <4>1. x - 1 \in Nat /\ x = (x - 1) + 1
          OBVIOUS
        <4>2. QED
          BY <4>1
      <3>2. j * w \in Nat
        OBVIOUS
      <3>3. x * w = j * w + w
        BY <3>1
      <3>4. QED
        BY <1>1, <3>2, <3>3
    <2>3. QED
      BY <1>1, <2>1, <2>2
  <1>4. Up(x) = Fewest(K)
    BY DEF Up
  <1>5. PICK u \in Nat : u = Up(x) /\ \A k \in K : u <= k
    <2> HIDE DEF K
    <2>1. QED
      BY <1>3, <1>4, FewestIs
  <1>6. u <= WIDE
    BY <1>3, <1>5
  <1>7. CASE u = 0
    <2>1. 2^0 = 1 /\ x * 1 = x
      OBVIOUS
    <2>2. x * 2^u = x
      BY <1>7, <2>1
    <2>3. x \in 0..(w - 1)
      BY <1>2
    <2>4. QED
      BY <1>1, <1>5, <2>2, <2>3
  <1>8. CASE u # 0
    <2>1. PICK S \in Nat \ {0}, T \in Nat \ {0} : S = 2^(u - 1) /\ T = 2^u /\ T = 2 * S
      BY <1>8, Halves
    <2>2. u - 1 \in 0..WIDE /\ u - 1 < u
      BY <1>6, <1>8, FloatNumbers
    <2>3. u - 1 \notin K
      BY <1>5, <2>2
    <2>4. PICK p \in Nat : p = x * S
      OBVIOUS
    <2>5. p < h
      BY <1>1, <2>1, <2>2, <2>3, <2>4
    <2>6. x * T = 2 * p
      BY <2>1, <2>4
    <2>7. x * T \in 0..(w - 1)
      BY <1>1, <2>5, <2>6
    <2>8. QED
      BY <1>1, <1>5, <2>1, <2>7
  <1>9. QED
    BY <1>7, <1>8

\* The dividend reaches the top of its integer.
LEMMA UpReaches ==
    ASSUME NEW x \in Nat \ {0}, x < 2^(FRAC + 1)
    PROVE  Up(x) \in Nat /\ x * 2^Up(x) \in 2^(WIDE - 1)..(2^WIDE - 1)
  <1>1. PICK h \in Nat \ {0}, w \in Nat \ {0} : h = 2^(WIDE - 1) /\ w = 2^WIDE /\ w = 2 * h
    BY FloatNumbers, Halves
  <1> DEFINE K == {k \in 0..WIDE : x * 2^k >= 2^(WIDE - 1)}
  <1>2. WIDE \in K
    <2>1. WIDE \in 0..WIDE
      BY FloatNumbers
    <2>2. PICK j \in Nat : x = j + 1
      <3>1. x - 1 \in Nat /\ x = (x - 1) + 1
        OBVIOUS
      <3>2. QED
        BY <3>1
    <2>3. j * w \in Nat /\ (j + 1) * w = j * w + w
      OBVIOUS
    <2>4. x * w >= h
      BY <1>1, <2>2, <2>3
    <2>5. QED
      BY <1>1, <2>1, <2>4
  <1>3. Up(x) = Fewest(K) /\ K \subseteq Nat
    BY DEF Up
  <1>4. PICK u \in Nat : u = Up(x) /\ u \in K
    <2> HIDE DEF K
    <2>1. QED
      BY <1>2, <1>3, FewestIs
  <1>5. PICK y \in Nat : y = x * 2^u /\ y >= h
    <2>1. PICK z \in Nat : z = 2^u
      BY PowerIs
    <2>2. x * z \in Nat /\ x * z >= h
      BY <1>1, <1>4, <2>1
    <2>3. QED
      BY <2>1, <2>2
  <1>6. x * 2^Up(x) \in 0..(2^WIDE - 1)
    BY UpIs
  <1>7. y \in h..(w - 1)
    BY <1>1, <1>4, <1>5, <1>6
  <1>8. QED
    BY <1>1, <1>4, <1>5, <1>7

LEMMA MultipleBy ==
    ASSUME NEW x \in Nat, NEW m \in Nat, NEW J \in Nat \ {0}, x = m * J
    PROVE  x \div J = m
  <1>1. x \in Int /\ x \div J \in Int /\ x % J \in 0..(J - 1) /\ x = J * (x \div J) + (x % J)
    <2>1. x \in Int
      OBVIOUS
    <2>2. QED
      BY <2>1, RemainderIs, Zenon
  <1>2. PICK q \in Int, r \in 0..(J - 1) : q = x \div J /\ x = J * q + r
    BY <1>1, Zenon
  <1>3. PICK y \in Int, z \in Int : y = J * q /\ z = J * m
    OBVIOUS
  <1>4. z = x /\ x = y + r
    BY <1>2, <1>3
  <1>5. q < m => y + J <= z
    BY <1>3, SmallerProduct
  <1>6. m < q => z + J <= y
    BY <1>3, SmallerProduct
  <1>7. QED
    BY <1>2, <1>3, <1>4, <1>5, <1>6

\* An odd number is left of a significand after some shift.
LEMMA DownOdd ==
    ASSUME NEW x \in Nat \ {0}, x < 2^(FRAC + 1)
    PROVE  {k \in 0..FRAC : (x \div 2^k) % 2 = 1} # {}
  <1> DEFINE K == {k \in 0..FRAC : (x \div 2^k) % 2 = 1}
             S == {k \in Nat : x < 2^(k + 1)}
  <1>1. FRAC \in Nat
    BY FloatNumbers
  <1>2. PICK k \in Nat : k \in S /\ \A j \in S : k <= j
    <2>1. FRAC \in S
      BY <1>1
    <2>2. S \in SUBSET Nat /\ S # {}
      BY <2>1
    <2> HIDE DEF S
    <2>3. QED
      BY <2>2, Smallest
  <1>3. k \in 0..FRAC
    BY <1>1, <1>2
  <1>4. PICK D \in Nat \ {0} : D = 2^k /\ 2^(k + 1) = 2 * D
    BY PowerIs, PowerNext
  <1>5. D <= x
    <2>1. CASE k = 0
      BY <1>4, <2>1
    <2>2. CASE k # 0
      <3>1. k - 1 \in Nat /\ k - 1 \notin S /\ (k - 1) + 1 = k
        BY <1>2, <2>2
      <3>2. ~(x < D)
        BY <1>4, <3>1
      <3>3. QED
        BY <3>2
    <2>3. QED
      BY <2>1, <2>2
  <1>6. x \div D = 1
    <2>1. x \in D..(2 * D - 1)
      BY <1>2, <1>4, <1>5
    <2>2. QED
      BY <2>1, RemainderOver, Zenon
  <1>7. k \in K
    <2>1. 1 % 2 = 1
      OBVIOUS
    <2>2. QED
      BY <1>3, <1>4, <1>6, <2>1
  <1>8. QED
    BY <1>7

LEMMA DownIs ==
    ASSUME NEW x \in Nat \ {0}, x < 2^(FRAC + 1)
    PROVE  Down(x) \in Nat /\ x \div 2^Down(x) \in Nat \ {0}
  <1> DEFINE K == {k \in 0..FRAC : (x \div 2^k) % 2 = 1}
  <1>1. Down(x) = Fewest(K) /\ K \subseteq Nat /\ K # {}
    BY DownOdd DEF Down
  <1>2. PICK d \in Nat : d = Down(x) /\ d \in K
    <2> HIDE DEF K
    <2>1. QED
      BY <1>1, FewestIs
  <1>3. PICK E \in Nat \ {0} : E = 2^d
    BY PowerIs
  <1>4. x \div E \in 0..x
    <2>1. x \in Nat
      OBVIOUS
    <2>2. QED
      BY <2>1, NoLarger, Zenon
  <1>5. (x \div E) % 2 = 1 /\ 0 % 2 = 0
    BY <1>2, <1>3
  <1>6. x \div E \in Nat \ {0}
    BY <1>4, <1>5
  <1>7. QED
    BY <1>2, <1>3, <1>6

\* The divisor loses nothing on its way to the bottom.
LEMMA DownDivides ==
    ASSUME NEW x \in Nat \ {0}, x < 2^(FRAC + 1)
    PROVE  /\ Down(x) \in Nat /\ x \div 2^Down(x) \in Nat \ {0}
           /\ x = (x \div 2^Down(x)) * 2^Down(x)
  <1> DEFINE K == {k \in 0..FRAC : (x \div 2^k) % 2 = 1}
  <1>1. Down(x) \in Nat /\ x \div 2^Down(x) \in Nat \ {0}
    BY DownIs
  <1>2. PICK d \in Nat : d = Down(x)
    BY <1>1
  <1>3. d \in 0..FRAC /\ \A k \in K : d <= k
    <2>1. K \subseteq Nat /\ Down(x) = Fewest(K)
      BY DEF Down
    <2>2. K # {}
      BY DownOdd
    <2> HIDE DEF K
    <2>3. d \in K /\ \A k \in K : d <= k
      BY <1>2, <2>1, <2>2, FewestIs
    <2>4. QED
      BY <2>3 DEF K
  <1> DEFINE S == {k \in Nat : k <= d /\ ~\E m \in Nat : x = m * 2^k}
  <1>4. S = {}
    <2>1. SUFFICES ASSUME S # {}
                   PROVE  FALSE
      OBVIOUS
    <2>2. PICK k \in Nat : k \in S /\ \A j \in S : k <= j
      <3>1. S \in SUBSET Nat
        OBVIOUS
      <3> HIDE DEF S
      <3>2. QED
        BY <2>1, <3>1, Smallest
    <2>3. k # 0
      <3>1. 2^0 = 1 /\ x = x * 1 /\ x \in Nat
        OBVIOUS
      <3>2. QED
        BY <2>2, <3>1
    <2>4. PICK j \in Nat : j = k - 1 /\ j + 1 = k /\ j < d
      <3>1. k - 1 \in Nat /\ (k - 1) + 1 = k /\ k - 1 < d
        BY <2>2, <2>3
      <3>2. QED
        BY <3>1
    <2>5. PICK J \in Nat \ {0} : J = 2^j /\ 2^k = 2 * J
      BY <2>4, PowerIs, PowerNext
    <2>6. PICK m \in Nat : x = m * J
      <3>1. j \notin S
        <4> HIDE DEF S
        <4>1. QED
          BY <2>2, <2>4
      <3>2. QED
        BY <2>4, <2>5, <3>1
    <2>7. x \div J = m
      BY <2>6, MultipleBy
    <2>8. j \notin K /\ j \in 0..FRAC
      BY <1>3, <2>4, FloatNumbers
    <2>9. m % 2 # 1
      BY <2>5, <2>7, <2>8
    <2>10. PICK n \in Nat : m = 2 * n
      <3>1. m = 2 * (m \div 2) /\ m \div 2 \in Nat
        BY <2>9
      <3>2. QED
        BY <3>1
    <2>11. x = n * (2 * J)
      BY <2>6, <2>10
    <2>12. QED
      BY <2>2, <2>5, <2>11
  <1>5. PICK m \in Nat : x = m * 2^d
    <2>1. d <= d
      OBVIOUS
    <2>2. d \notin S
      <3> HIDE DEF S
      <3>1. QED
        BY <1>4
    <2>3. QED
      BY <2>1, <2>2
  <1>6. PICK D \in Nat \ {0} : D = 2^d
    BY PowerIs
  <1>7. x \div D = m
    BY <1>5, <1>6, MultipleBy
  <1>8. QED
    BY <1>1, <1>2, <1>5, <1>6, <1>7, Zenon

\* What the division leaves is tracked, and has digits enough.
LEMMA QuotientTracks ==
    ASSUME NEW y \in Nat \ {0}, y < 2^(FRAC + 1), NEW z \in Nat \ {0}, z < 2^(FRAC + 1),
           NEW x, x = (y * 2^Up(y)) \div (z \div 2^Down(z))
    PROVE  /\ x \in 0..(2^WIDE - 1) /\ x >= 2 * Lead /\ Up(y) \in Nat /\ Down(z) \in Nat
           /\ Tracks(2, x, (y * 2^Up(y)) * 2^Down(z), z)
  <1>1. PICK u \in Nat, d \in Nat : u = Up(y) /\ d = Down(z)
    BY UpReaches, DownDivides
  <1>2. PICK h \in Nat \ {0}, w \in Nat \ {0} : h = 2^(WIDE - 1) /\ w = 2^WIDE /\ w = 2 * h
    BY FloatNumbers, Halves
  <1>3. PICK X \in h..(w - 1) : X = y * 2^u
    BY <1>1, <1>2, UpReaches
  <1>4. PICK D \in Nat \ {0} : D = 2^d
    BY PowerIs
  <1>5. PICK B \in Nat \ {0} : B = z \div D /\ z = B * D
    BY <1>1, <1>4, DownDivides
  <1>6. X \in Nat /\ x = X \div B
    BY <1>1, <1>3, <1>4, <1>5
  <1>7. x \in Nat /\ Tracks(2, x, X, B)
    BY <1>6, FloorTracks
  <1>8. x \in 0..X
    BY <1>6, NoLarger
  <1>9. PICK G \in Nat \ {0} : G = 2^(FRAC + 1) /\ Lead = 4 * G
    <2>1. 2^(FRAC + 1) = 2 * 2^FRAC /\ Lead = 8 * 2^FRAC /\ 2^FRAC \in Nat \ {0}
      BY LargestIs
    <2>2. PICK F \in Nat \ {0} : F = 2^FRAC
      BY <2>1
    <2>3. QED
      BY <2>1, <2>2
  <1>10. B < G
    <2>1. z < G
      BY <1>9
    <2>2. B <= z
      <3>1. z \div D \in 0..z
        BY NoLarger
      <3>2. QED
        BY <1>5, <3>1
    <2>3. QED
      BY <2>1, <2>2
  <1>11. PICK g \in Nat : g = G * G /\ 8 * g <= h
    <2>1. PICK f \in Nat : f = FRAC /\ 2 * f + 5 <= WIDE - 1 /\ WIDE - 1 \in Nat
      BY FloatNumbers
    <2>2. 2 * f + 2 \in Nat /\ 2 * f + 5 \in Nat /\ 3 \in Nat /\ (2 * f + 2) + 3 = 2 * f + 5
      OBVIOUS
    <2>3. 2^(2 * f + 5) <= 2^(WIDE - 1)
      BY <2>1, <2>2, PowerOrder, Zenon
    <2>4. 2^((2 * f + 2) + 3) = 2^(2 * f + 2) * 2^3
      BY <2>2, PowerSplit, Zenon
    <2>5. 2^(2 * f + 2) = G * G
      BY <1>9, <2>1, WideIs, Zenon
    <2>6. PICK g \in Nat : g = G * G
      OBVIOUS
    <2>7. 2^3 = 8
      OBVIOUS
    <2>8. 2^(2 * f + 5) = g * 8
      BY <2>2, <2>4, <2>5, <2>6, <2>7, Zenon
    <2>9. g * 8 <= h
      BY <1>2, <2>3, <2>8, Zenon
    <2>10. QED
      BY <2>6, <2>9
  <1>12. x >= 2 * Lead
    <2>1. (8 * G) * B <= X
      <3>1. PICK b \in Int : b = G * B
        OBVIOUS
      <3>2. b + G <= g
        <4>1. G * B + G <= G * G
          BY <1>10, SmallerProduct
        <4>2. QED
          BY <1>11, <3>1, <4>1
      <3>3. (8 * G) * B = 8 * b
        BY <3>1
      <3>4. 8 * b <= X
        BY <1>2, <1>3, <1>11, <3>2
      <3>5. QED
        BY <3>3, <3>4
    <2>2. PICK n \in Int : n = 4 * G /\ 2 * n = 8 * G
      OBVIOUS
    <2>3. x < 2 * n <=> X < (2 * n) * B
      BY <1>7 DEF Tracks
    <2>4. ~(X < (2 * n) * B)
      <3>1. (2 * n) * B = (8 * G) * B
        BY <2>2
      <3>2. (8 * G) * B \in Int
        OBVIOUS
      <3>3. PICK c \in Int : c = (8 * G) * B
        BY <3>2
      <3>4. QED
        BY <1>6, <2>1, <3>1, <3>3
    <2>5. ~(x < 8 * G)
      BY <2>2, <2>3, <2>4
    <2>6. QED
      BY <1>7, <1>9, <2>5
  <1>13. Tracks(2, x, X * D, B * D)
    <2>1. x \in Int /\ X \in Int /\ B \in Int
      BY <1>6, <1>7
    <2>2. QED
      BY <1>7, <2>1, TracksTimes, Zenon
  <1>14. x \in 0..(w - 1)
    BY <1>3, <1>8
  <1>15. QED
    BY <1>1, <1>2, <1>3, <1>4, <1>5, <1>12, <1>13, <1>14, Zenon

LEMMA QuotientNormalizes ==
    ASSUME NEW a \in Float, NEW b \in Float, a \notin Zeros, b \notin Zeros
    PROVE  LET u == Up(sig(a))  d == Down(sig(b))
               e == scale(a) - scale(b) + BIAS - (u + d - FRAC - 3)
               x == (sig(a) * 2^u) \div (sig(b) \div 2^d) IN
           /\ e \in Int /\ x \in 0..(2^WIDE - 1) /\ Size(b) \in Nat \ {0}
           /\ Normalizes(Normalized(e, x), Size(a) * One, Size(b), FALSE)
  <1>1. PICK y \in Nat \ {0}, z \in Nat \ {0} :
            y = sig(a) /\ z = sig(b) /\ y < 2^(FRAC + 1) /\ z < 2^(FRAC + 1)
    BY SignificandIs
  <1>2. PICK x : x = (y * 2^Up(y)) \div (z \div 2^Down(z))
    OBVIOUS
  <1>3. /\ x \in 0..(2^WIDE - 1) /\ x >= 2 * Lead /\ Up(y) \in Nat /\ Down(z) \in Nat
        /\ Tracks(2, x, (y * 2^Up(y)) * 2^Down(z), z)
    BY <1>1, <1>2, QuotientTracks, Zenon
  <1>4. PICK u \in Nat, d \in Nat : u = Up(y) /\ d = Down(z)
    BY <1>3, Zenon
  <1>5. PICK i \in Nat, j \in Nat, o \in Nat, e \in Int :
            /\ i = scale(a) - 1 /\ j = scale(b) - 1 /\ o = BIAS + FRAC - 1
            /\ e = scale(a) - scale(b) + BIAS - (u + d - FRAC - 3)
            /\ e - 1 = (i + o + 3) - (u + d + j)
    <2>1. scale(a) \in Nat \ {0} /\ scale(b) \in Nat \ {0} /\ BIAS \in Nat /\ FRAC \in Nat
      BY ScaleIs, OneIs, LargestIs
    <2>2. PICK m \in Nat \ {0}, n \in Nat \ {0}, c \in Nat, f \in Nat :
                m = scale(a) /\ n = scale(b) /\ c = BIAS /\ f = FRAC
      BY <2>1, Zenon
    <2>3. c + f - 1 \in Nat
      BY <2>2, OneIs
    <2>4. PICK i \in Nat, j \in Nat, o \in Nat, e \in Int :
                i = m - 1 /\ j = n - 1 /\ o = c + f - 1 /\ e = m - n + c - (u + d - f - 3)
      <3>1. m - 1 \in Nat /\ n - 1 \in Nat /\ m - n + c - (u + d - f - 3) \in Int
        OBVIOUS
      <3>2. QED
        BY <2>3, <3>1, Zenon
    <2>5. e - 1 = (i + o + 3) - (u + d + j)
      BY <2>4
    <2>6. QED
      BY <2>2, <2>4, <2>5
  <1>6. PICK k \in Nat, l \in Nat : k = u + d + j /\ l = i + o + 3 /\ l - k = e - 1
    <2>1. u + d + j \in Nat /\ i + o + 3 \in Nat
      OBVIOUS
    <2>2. QED
      BY <1>5, <2>1
  <1>7. PICK A \in Nat \ {0}, B \in Nat \ {0}, O \in Nat \ {0}, U \in Nat \ {0}, D \in Nat \ {0} :
            A = 2^i /\ B = 2^j /\ O = 2^o /\ U = 2^u /\ D = 2^d
    BY PowerIs
  <1>8. Size(a) = y * A /\ Size(b) = z * B /\ One = O
    BY <1>1, <1>5, <1>7, Zenon DEF Size, One
  <1>9. PICK p \in Nat, q \in Nat \ {0} : p = Size(a) * One /\ q = Size(b) /\ p = (y * A) * O /\ q = z * B
    <2>1. (y * A) * O \in Nat /\ z * B \in Nat \ {0}
      OBVIOUS
    <2>2. QED
      BY <1>8, <2>1, Zenon
  <1>10. 2^k = (U * D) * B
    <2>1. u + d \in Nat
      OBVIOUS
    <2>2. 2^((u + d) + j) = 2^(u + d) * 2^j /\ 2^(u + d) = 2^u * 2^d
      BY <2>1, PowerSplit, Zenon
    <2>3. QED
      BY <1>6, <1>7, <2>2, Zenon
  <1>11. 2^l = (A * O) * 8
    <2>1. i + o \in Nat /\ 3 \in Nat /\ 2^3 = 8
      OBVIOUS
    <2>2. 2^((i + o) + 3) = 2^(i + o) * 2^3 /\ 2^(i + o) = 2^i * 2^o
      BY <2>1, PowerSplit, Zenon
    <2>3. QED
      BY <1>6, <1>7, <2>1, <2>2, Zenon
  <1>12. PICK V \in Nat \ {0} : V = B * ((A * O) * 8)
    <2>1. B * ((A * O) * 8) \in Nat \ {0}
      OBVIOUS
    <2>2. QED
      BY <2>1, Zenon
  <1>13. PICK P \in Int : P = (y * U) * D
    OBVIOUS
  <1>14. Tracks(2, x, P * V, z * V)
    <2>1. x \in Int /\ z \in Int /\ Tracks(2, x, P, z)
      <3>1. x \in Int
        BY <1>3, FloatNumbers
      <3>2. Tracks(2, x, P, z)
        BY <1>3, <1>4, <1>7, <1>13, Zenon
      <3>3. QED
        BY <3>1, <3>2
    <2>2. QED
      BY <2>1, TracksTimes, Zenon
  <1>15. (8 * p) * 2^k = P * V
    <2>1. (8 * ((y * A) * O)) * ((U * D) * B) = ((y * U) * D) * (B * ((A * O) * 8))
      OBVIOUS
    <2>2. QED
      BY <1>9, <1>10, <1>12, <1>13, <2>1, Zenon
  <1>16. q * 2^l = z * V
    <2>1. (z * B) * ((A * O) * 8) = z * (B * ((A * O) * 8))
      OBVIOUS
    <2>2. QED
      BY <1>9, <1>11, <1>12, <2>1, Zenon
  <1>17. Tracks(2, x, (8 * p) * 2^k, q * 2^l)
    BY <1>14, <1>15, <1>16, Zenon
  <1>18. Normalizes(Normalized(e, x), p, q, FALSE)
    <2>1. FALSE => Meets(2, x, (8 * p) * 2^k, q * 2^l)
      OBVIOUS
    <2>2. x >= 2 * Lead \/ e < 0
      BY <1>3, Zenon
    <2>3. x \in 0..(2^WIDE - 1)
      BY <1>3, Zenon
    <2>4. QED
      BY <1>6, <1>17, <2>1, <2>2, <2>3, NormalizedRight, Zenon
  <1>19. QED
    BY <1>1, <1>2, <1>3, <1>4, <1>5, <1>9, <1>18, Zenon

LEMMA DivComputes ==
    ASSUME NEW a \in Canonical, NEW b \in Canonical
    PROVE  LET r == internal_float_div(b, a) IN
           /\ r \in Canonical
           /\ r \in NaNs <=>
                \/ {a, b} \cap NaNs # {}
                \/ a \in Infs /\ b \in Infs
                \/ a \in Zeros /\ b \in Zeros
           /\ IF r \in NaNs THEN r = ResultNaN(a, b)
              ELSE IF Finite(a) /\ Finite(b) /\ b \notin Zeros THEN QuotientRounds(a, b, r)
              ELSE r = IF Finite(a) /\ b \in Infs THEN Zero(SignOf(a, b)) ELSE Inf(SignOf(a, b))
  <1> DEFINE E == TableEntry(corner_div, a, b)
             C == Covers(corner_div, a, b)
             u == Up(sig(a))
             d == Down(sig(b))
             e == scale(a) - scale(b) + BIAS - (u + d - FRAC - 3)
             x == (sig(a) * 2^u) \div (sig(b) \div 2^d)
             N == internal_normalize(SignOf(a, b), e, x)
  <1>1. PICK r : r = internal_float_div(b, a)
    OBVIOUS
  <1>2. PICK s \in {0, 1} : s = SignOf(a, b)
    BY CanonicalIs, SignOfIs
  <1>3. r = IF C THEN E
            ELSE IF {a, b} \cap NaNs # {} THEN NaNOf(a, b)
            ELSE IF a \in Infs \/ b \in Zeros THEN Inf(s)
            ELSE IF a \in Zeros \/ b \in Infs THEN Zero(s)
            ELSE N
    BY <1>1, <1>2, Zenon DEF internal_float_div
  <1>4. C => \/ E = NaN(1) /\ ((a \in Zeros /\ b \in Zeros) \/ (a \in Infs /\ b \in Infs))
             \/ a \in Infs /\ b \in Zeros /\ E = Inf(s)
    BY <1>2, DivCorners
  <1>5. ~C => ~(a \in Zeros /\ b \in Zeros) /\ ~(a \in Infs /\ b \in Infs)
    BY DivCorners
  <1>6. /\ a \in Float /\ b \in Float
        /\ ~Finite(a) => a \in Infs \/ a \in NaNs
        /\ ~Finite(b) => b \in Infs \/ b \in NaNs
        /\ a \in Zeros => Finite(a) /\ a \notin Infs /\ a \notin NaNs
        /\ b \in Zeros => Finite(b) /\ b \notin Infs /\ b \notin NaNs
        /\ a \in Infs => ~Finite(a) /\ a \notin NaNs
        /\ b \in Infs => ~Finite(b) /\ b \notin NaNs
        /\ a \in NaNs => ~Finite(a) /\ a \notin Infs /\ a \notin Zeros
        /\ b \in NaNs => ~Finite(b) /\ b \notin Infs /\ b \notin Zeros
    BY CanonicalIs
  <1>7. {a, b} \cap NaNs # {} <=> a \in NaNs \/ b \in NaNs
    OBVIOUS
  <1>8. /\ NaN(0) \in NaNs /\ NaN(1) \in NaNs /\ NaN(0) \in Canonical /\ NaN(1) \in Canonical
        /\ Zero(s) \in Zeros /\ Zero(s) \in Canonical /\ Zero(s) \notin NaNs /\ Zero(s).sign = s
        /\ \A f \in Infs : f \in Canonical /\ f \notin NaNs
        /\ Inf(s) \in Infs
    <2>1. /\ NaN(0) \in NaNs /\ NaN(1) \in NaNs /\ NaN(0) \in Canonical /\ NaN(1) \in Canonical
          /\ Zero(s) \in Zeros /\ Zero(s) \in Canonical /\ Zero(s).sign = s
          /\ Inf(s) \in Infs
      BY CanonicalAre, KindsAre
    <2>2. \A f \in Infs : f \in Canonical
      BY CanonicalAre, KindIs
    <2>3. QED
      BY <2>1, <2>2, CanonicalIs
  <1>9. /\ NaNOf(a, b) \in NaNs /\ NaNOf(a, b) \in Canonical
        /\ NaNOf(a, b) = ResultNaN(a, b)
        /\ a \notin NaNs /\ b \notin NaNs => ResultNaN(a, b) = NaN(1)
    <2>1. NaNOf(a, b) \in NaNs /\ NaNOf(a, b) \in Canonical
      BY <1>8 DEF NaNOf
    <2>2. QED
      BY <2>1, NaNIs, Zenon
  <1>10. ASSUME a \notin Zeros, b \notin Zeros
         PROVE  /\ N \in Canonical /\ N \notin NaNs /\ N.sign = s
                /\ \/ NearestOrBelow(N, Size(a) * One, Size(b))
                   \/ UpToNormal(Size(a) * One, Size(b))
    <2>1. /\ e \in Int /\ x \in 0..(2^WIDE - 1) /\ Size(b) \in Nat \ {0}
          /\ Normalizes(Normalized(e, x), Size(a) * One, Size(b), FALSE)
      BY <1>6, <1>10, QuotientNormalizes, Zenon
    <2> HIDE DEF e, x
    <2>2. N \in Canonical /\ N \notin NaNs /\ N.sign = s
      BY <1>2, <2>1, NormalizeKeeps, Zenon
    <2>3. PICK p \in Nat : p = Size(a) * One
      <3>1. PICK m \in Nat, n \in Nat : m = Size(a) /\ n = One
        BY <1>6, SizeOf, OneIs
      <3>2. m * n \in Nat
        OBVIOUS
      <3>3. QED
        BY <3>1, <3>2
    <2>4. RoundedTo(N, s, p, Size(b), FALSE)
      BY <1>2, <2>1, <2>3, NormalizedRounds, Zenon
    <2>5. NearestOrBelow(N, p, Size(b)) \/ UpToNormal(p, Size(b))
      BY <2>4, Zenon DEF RoundedTo
    <2>6. QED
      BY <2>2, <2>3, <2>5, Zenon
  <1> HIDE DEF E, C, N
  <1>11. CASE C
    BY <1>1, <1>2, <1>3, <1>4, <1>6, <1>7, <1>8, <1>9, <1>11, Zenon
  <1>12. CASE ~C /\ {a, b} \cap NaNs # {}
    <2>1. r = NaNOf(a, b)
      BY <1>3, <1>12
    <2>2. QED
      BY <1>1, <1>6, <1>7, <1>9, <1>12, <2>1, Zenon
  <1>13. CASE ~C /\ {a, b} \cap NaNs = {} /\ (a \in Infs \/ b \in Zeros)
    <2>1. r = Inf(s)
      BY <1>3, <1>13
    <2>2. QED
      BY <1>1, <1>2, <1>5, <1>6, <1>7, <1>8, <1>13, <2>1, Zenon
  <1>14. CASE /\ ~C /\ {a, b} \cap NaNs = {} /\ ~(a \in Infs \/ b \in Zeros)
              /\ a \in Zeros \/ b \in Infs
    <2>1. r = Zero(s)
      BY <1>3, <1>14
    <2>2. ASSUME Finite(b)
          PROVE  QuotientRounds(a, b, r)
      <3>1. a \in Zeros /\ b \notin Zeros
        BY <1>6, <1>14, <2>2, Zenon
      <3>2. PICK z \in Nat \ {0} : z = Size(b)
        BY <1>6, <3>1, SizeIsSome
      <3>3. Size(a) = 0 /\ r \in Float /\ Size(r) = 0 /\ r.exponent = 0 /\ r.sign = s
        BY <1>6, <1>8, <2>1, <3>1, KindsAre, ZeroIs
      <3>4. 0 * One = 0 /\ 0 * z = 0 /\ 0 \in Nat
        BY OneIs
      <3>5. Size(r) * z = 0
        BY <3>3, <3>4, Zenon
      <3>6. Nearest(r, 0, z)
        BY <3>3, <3>4, <3>5, NearestExact, Zenon
      <3>7. r.exponent = MAXE => r = Inf(s)
        BY <3>3, LargestIs
      <3>8. NearestOrBelow(r, 0, z)
        BY <3>3, <3>4, <3>6, <3>7, NearestIsOrBelow, Zenon
      <3>9. QED
        BY <1>2, <3>2, <3>3, <3>4, <3>8, Zenon DEF QuotientRounds
    <2>3. QED
      BY <1>1, <1>2, <1>5, <1>6, <1>7, <1>8, <1>14, <2>1, <2>2, Zenon
  <1>15. CASE /\ ~C /\ {a, b} \cap NaNs = {} /\ ~(a \in Infs \/ b \in Zeros)
              /\ ~(a \in Zeros \/ b \in Infs)
    <2>1. r = N
      BY <1>3, <1>15
    <2>2. QuotientRounds(a, b, r)
      BY <1>2, <1>10, <1>15, <2>1, Zenon DEF QuotientRounds
    <2>3. QED
      BY <1>1, <1>6, <1>7, <1>10, <1>15, <2>1, <2>2, Zenon
  <1>16. QED
    BY <1>11, <1>12, <1>13, <1>14, <1>15, Zenon

LEMMA OperationComputes ==
    ASSUME NEW op \in {"add", "sub", "mul", "div"}, NEW a \in Canonical, NEW b \in Canonical
    PROVE  LET r == Computed(op, b, a) IN
           /\ r \in Canonical
           /\ r \in NaNs <=> Invalid(op, a, b)
           /\ IF Invalid(op, a, b) THEN r = ResultNaN(a, b)
              ELSE IF ~Finite(a) \/ ~Finite(b) \/ (op = "div" /\ b \in Zeros)
              THEN r = Unrounded(op, a, b)
              ELSE /\ op \in {"add", "sub"} => SumRounds(a, Addend(op, b), r)
                   /\ op = "mul" => ProductRounds(a, b, r)
                   /\ op = "div" => QuotientRounds(a, b, r)
  <1>1. /\ {a, b} \cap NaNs # {} <=> a \in NaNs \/ b \in NaNs
        /\ {a, b} \subseteq Infs <=> a \in Infs /\ b \in Infs
        /\ {a, b} \subseteq Zeros <=> a \in Zeros /\ b \in Zeros
    OBVIOUS
  <1>2. CASE op = "add"
    <2>1. Computed(op, b, a) = internal_float_add(b, a)
      BY <1>2 DEF Computed
    <2>2. Invalid(op, a, b) <=> a \in NaNs \/ b \in NaNs \/ {a, b} = Infs
      BY <1>1, <1>2 DEF Invalid
    <2>3. op # "mul" /\ op # "div"
      BY <1>2
    <2>4. PICK r : r = internal_float_add(b, a)
      OBVIOUS
    <2>5. /\ r \in Canonical /\ (r \in NaNs <=> Invalid(op, a, b))
          /\ IF r \in NaNs THEN r = ResultNaN(a, b)
             ELSE IF Finite(a) /\ Finite(b) THEN SumRounds(a, b, r)
             ELSE r = IF a \in Infs THEN a ELSE b
      BY <2>2, <2>4, AddComputes, Zenon
    <2>6. Addend(op, b) = b /\ Unrounded(op, a, b) = IF a \in Infs THEN a ELSE b
      <3>1. Addend(op, b) = b
        BY <1>2 DEF Addend
      <3>2. QED
        BY <1>2, <3>1 DEF Unrounded
    <2>7. QED
      BY <2>1, <2>3, <2>4, <2>5, <2>6, Zenon
  <1>3. CASE op = "sub"
    <2>1. Computed(op, b, a) = internal_float_sub(b, a)
      BY <1>3 DEF Computed
    <2>2. Invalid(op, a, b) <=> a \in NaNs \/ b \in NaNs \/ (a = b /\ a \in Infs)
      BY <1>1, <1>3 DEF Invalid
    <2>3. op # "mul" /\ op # "div"
      BY <1>3
    <2>4. PICK r : r = internal_float_sub(b, a)
      OBVIOUS
    <2>5. /\ r \in Canonical /\ (r \in NaNs <=> Invalid(op, a, b))
          /\ IF r \in NaNs THEN r = ResultNaN(a, b)
             ELSE IF Finite(a) /\ Finite(b) THEN SumRounds(a, Addend("sub", b), r)
             ELSE r = IF a \in Infs THEN a ELSE Addend("sub", b)
      BY <2>2, <2>4, SubComputes, Zenon
    <2>6. /\ Addend(op, b) = Addend("sub", b)
          /\ Unrounded(op, a, b) = IF a \in Infs THEN a ELSE Addend("sub", b)
      BY <1>3 DEF Unrounded
    <2>7. QED
      BY <2>1, <2>3, <2>4, <2>5, <2>6, Zenon
  <1>4. CASE op = "mul"
    <2>1. Computed(op, b, a) = internal_float_mul(b, a)
      BY <1>4 DEF Computed
    <2>2. Invalid(op, a, b) <=> \/ {a, b} \cap NaNs # {}
                                \/ {a, b} \cap Infs # {} /\ {a, b} \cap Zeros # {}
      BY <1>4 DEF Invalid
    <2>3. op \notin {"add", "sub"} /\ op # "div"
      BY <1>4
    <2>4. Unrounded(op, a, b) = Inf(SignOf(a, b))
      BY <1>4 DEF Unrounded
    <2>5. QED
      BY <2>1, <2>2, <2>3, <2>4, MulComputes, Zenon
  <1>5. CASE op = "div"
    <2>1. Computed(op, b, a) = internal_float_div(b, a)
      BY <1>5 DEF Computed
    <2>2. Invalid(op, a, b) <=> \/ {a, b} \cap NaNs # {}
                                \/ a \in Infs /\ b \in Infs
                                \/ a \in Zeros /\ b \in Zeros
      BY <1>1, <1>5 DEF Invalid
    <2>3. op \notin {"add", "sub"} /\ op # "mul"
      BY <1>5
    <2>4. Unrounded(op, a, b) = IF Finite(a) /\ b \in Infs THEN Zero(SignOf(a, b))
                                ELSE Inf(SignOf(a, b))
      BY <1>5 DEF Unrounded
    <2>5. QED
      BY <1>5, <2>1, <2>2, <2>3, <2>4, DivComputes, Zenon
  <1>6. QED
    BY <1>2, <1>3, <1>4, <1>5

-----------------------------------------------------------------------------
\* The registers, and the last computation.

LEMMA RegisterIs ==
    /\ Indexes \subseteq Nat /\ 0 \in Indexes /\ NR_REGS - 1 \in Indexes
    /\ \A t \in Indexes, i \in Int : (t + i) % NR_REGS \in Indexes
  <1>1. PICK R \in Nat \ {0} : R = NR_REGS
    BY FloatNumbers
  <1>2. Indexes = 0..(R - 1)
    BY <1>1 DEF Indexes
  <1>3. \A t \in 0..(R - 1), i \in Int : (t + i) % R \in 0..(R - 1)
    OBVIOUS
  <1>4. QED
    BY <1>1, <1>2, <1>3

\* What is computed with is loaded or in a register, and what is computed is
\* rounded.
LEMMA ComputeIs ==
    ASSUME FpuTypeOK, NEW op \in {"add", "sub", "mul", "div"}, NEW b \in Canonical,
           NEW dest \in Indexes, Compute(op, b, dest)
    PROVE  /\ regStack' \in [Indexes -> Canonical] /\ loads' = loads
           /\ {last'.a, last'.b, last'.res} \subseteq Canonical
           /\ last'.op \in {"none", "add", "sub", "mul", "div"}
           /\ FloatsRound'
  <1>1. PICK a \in Canonical : a = regStack[top]
    BY DEF FpuTypeOK
  <1>2. PICK r : r = Computed(op, b, a)
    OBVIOUS
  <1>3. /\ r \in Canonical
        /\ r \in NaNs <=> Invalid(op, a, b)
        /\ IF Invalid(op, a, b) THEN r = ResultNaN(a, b)
           ELSE IF ~Finite(a) \/ ~Finite(b) \/ (op = "div" /\ b \in Zeros)
           THEN r = Unrounded(op, a, b)
           ELSE /\ op \in {"add", "sub"} => SumRounds(a, Addend(op, b), r)
                /\ op = "mul" => ProductRounds(a, b, r)
                /\ op = "div" => QuotientRounds(a, b, r)
    BY <1>2, OperationComputes, ZenonT(60)
  <1>4. /\ last' = [op |-> op, a |-> a, b |-> b, res |-> r]
        /\ regStack' = [regStack EXCEPT ![dest] = r] /\ loads' = loads
    BY <1>1, <1>2 DEF Compute
  <1>5. last'.op = op /\ last'.a = a /\ last'.b = b /\ last'.res = r
    BY <1>4
  <1>6. FloatsRound'
    BY <1>3, <1>5, Zenon DEF FloatsRound
  <1>7. regStack' \in [Indexes -> Canonical]
    BY <1>3, <1>4 DEF FpuTypeOK
  <1>8. QED
    BY <1>3, <1>4, <1>5, <1>6, <1>7

LEMMA FpuStep ==
    ASSUME FpuTypeOK, FloatsRound, [FpuNext]_fpuVars
    PROVE  FpuTypeOK' /\ FloatsRound'
  <1>1. /\ regStack \in [Indexes -> Canonical] /\ top \in Indexes
        /\ loads \in 0..MaxLoads /\ {last.a, last.b, last.res} \subseteq Canonical
        /\ last.op \in {"none", "add", "sub", "mul", "div"}
    BY DEF FpuTypeOK
  <1>2. ASSUME NEW pop \in BOOLEAN, Popped(pop)
        PROVE  top' \in Indexes
    BY <1>1, <1>2, RegisterIs DEF Popped, Reg
  <1>3. \A idx \in Indexes : Reg(idx) \in Indexes /\ regStack[Reg(idx)] \in Canonical
    <2>1. \A idx \in Indexes : Reg(idx) \in Indexes
      BY <1>1, RegisterIs DEF Reg
    <2>2. QED
      BY <1>1, <2>1
  <1>4. last' = last => FloatsRound'
    BY Zenon DEF FloatsRound
  <1>5. CASE fpu_store
    BY <1>1, <1>2, <1>4, <1>5 DEF fpu_store, FpuTypeOK
  <1>6. ASSUME NEW val \in Loadable, fpu_load(val)
        PROVE  FpuTypeOK' /\ FloatsRound'
    <2>1. val \in Canonical
      BY FloatShape
    <2>2. top' \in Indexes
      BY <1>1, <1>6, RegisterIs DEF fpu_load, Indexes
    <2>3. regStack' \in [Indexes -> Canonical]
      BY <1>1, <1>6, <2>1, <2>2 DEF fpu_load
    <2>4. loads' \in 0..MaxLoads /\ last' = last
      BY <1>1, <1>6, FloatNumbers DEF fpu_load
    <2>5. QED
      BY <1>1, <1>4, <2>2, <2>3, <2>4 DEF FpuTypeOK
  <1>7. ASSUME NEW val \in Loadable, NEW op \in {"add", "sub", "mul", "div"}, fpu_op(op, val)
        PROVE  FpuTypeOK' /\ FloatsRound'
    <2>1. val \in Canonical
      BY FloatShape
    <2>2. Compute(op, val, top) /\ Popped(FALSE)
      BY <1>7 DEF fpu_op
    <2>3. QED
      BY <1>1, <1>2, <2>1, <2>2, ComputeIs DEF FpuTypeOK
  <1>8. ASSUME NEW idx \in Indexes, fpu_xch(idx)
        PROVE  FpuTypeOK' /\ FloatsRound'
    <2>1. regStack' \in [Indexes -> Canonical]
      BY <1>1, <1>3, <1>8 DEF fpu_xch
    <2>2. QED
      BY <1>1, <1>4, <1>8, <2>1 DEF fpu_xch, FpuTypeOK
  <1>9. ASSUME NEW idx \in Indexes, NEW pop \in BOOLEAN, fpu_copy(idx, pop)
        PROVE  FpuTypeOK' /\ FloatsRound'
    <2>1. regStack' \in [Indexes -> Canonical]
      BY <1>1, <1>3, <1>9 DEF fpu_copy
    <2>2. QED
      BY <1>1, <1>2, <1>4, <1>9, <2>1 DEF fpu_copy, FpuTypeOK
  <1>10. ASSUME NEW idx \in Indexes, NEW op \in {"add", "mul"}, fpu_op_idx(op, idx)
         PROVE  FpuTypeOK' /\ FloatsRound'
    <2>1. PICK dest \in Indexes, pop \in BOOLEAN :
                Compute(op, regStack[Reg(idx)], dest) /\ Popped(pop)
      BY <1>1, <1>3, <1>10 DEF fpu_op_idx
    <2>2. op \in {"add", "sub", "mul", "div"}
      OBVIOUS
    <2>3. QED
      BY <1>1, <1>2, <1>3, <2>1, <2>2, ComputeIs DEF FpuTypeOK
  <1>11. CASE UNCHANGED fpuVars
    BY <1>1, <1>4, <1>11 DEF fpuVars, FpuTypeOK
  <1>12. QED
    BY <1>5, <1>6, <1>7, <1>8, <1>9, <1>10, <1>11 DEF FpuNext

LEMMA FpuStarts == FpuInit => FpuTypeOK /\ FloatsRound
  <1>1. Zero(0) \in Canonical
    BY CanonicalAre
  <1>2. 0 \in Indexes /\ 0 \in 0..MaxLoads
    BY RegisterIs, FloatNumbers
  <1>3. QED
    BY <1>1, <1>2 DEF FpuInit, FpuTypeOK, FloatsRound, Indexes

\* The registers hold canonical floats and every result is the host's: rounded,
\* or the NaN, infinity or zero, with its sign, that its operands call for; for
\* any widths of exponent and fraction and whatever is loaded.
THEOREM FpuIsSound == FpuInit /\ [][FpuNext]_fpuVars => [](FpuTypeOK /\ FloatsRound)
  <1>1. FpuTypeOK /\ FloatsRound /\ [FpuNext]_fpuVars => (FpuTypeOK /\ FloatsRound)'
    BY FpuStep
  <1>2. QED
    BY <1>1, FpuStarts, PTL
===============================================================================

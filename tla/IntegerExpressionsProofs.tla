---------------------- MODULE IntegerExpressionsProofs ----------------------
(***************************************************************************)
(* Integers of every width: what conversions, carriers, assignments and    *)
(* steps do; the routine a call takes, and the one a name used as a value  *)
(* means, for all routines, actuals, classes and operators; and that what  *)
(* a program computes, and what the compiler evaluates, is what the        *)
(* operations mean for numbers.                                            *)
(***************************************************************************)
EXTENDS IntegerExpressions, FiniteSetTheorems, FunctionTheorems, WellFoundedInduction, TLAPS

LEMMA Smallest ==
  ASSUME NEW R \in SUBSET Nat, R # {}
  PROVE  \E k \in R : \A j \in R : k <= j
<1>1. PICK Below : Below = {ss \in Nat \X Nat : ss[1] < ss[2]}
  OBVIOUS
<1>2. IsWellFoundedOn(Below, Nat)
  BY <1>1, NatLessThanWellFounded DEF OpToRel
<1>3. PICK k \in R : \A j \in R : ~(<<j, k>> \in Below)
  BY <1>2, WFMin
<1>4. ASSUME NEW j \in R PROVE k <= j
  <2>1. j < k => <<j, k>> \in Below
    BY <1>1, <1>3
  <2>. QED BY <2>1, <1>3
<1>. QED BY <1>3, <1>4

-----------------------------------------------------------------------------
(* Powers of two, quotients and remainders.                                *)

\* The provers have no rule for ^, but the size of a powerset is one.
LEMMA PowerIsSize ==
  ASSUME NEW n \in Nat
  PROVE  IsFiniteSet(SUBSET (1 .. n)) /\ Cardinality(SUBSET (1 .. n)) = 2 ^ n
<1>1. IsFiniteSet(1 .. n) /\ Cardinality(1 .. n) = n
  BY FS_Interval
<1>. QED BY <1>1, FS_SUBSET

LEMMA Powers ==
  ASSUME NEW n \in Nat
  PROVE  /\ 2 ^ n \in Nat /\ 2 ^ n >= 1
         /\ 2 ^ (n + 1) = 2 * 2 ^ n
<1>. DEFINE S == SUBSET (1 .. n)
            T == {A \cup {n + 1} : A \in S}
            f == [A \in S |-> A \cup {n + 1}]
<1>1. IsFiniteSet(S) /\ Cardinality(S) = 2 ^ n
  BY PowerIsSize
<1>2. IsFiniteSet(SUBSET (1 .. n + 1)) /\ Cardinality(SUBSET (1 .. n + 1)) = 2 ^ (n + 1)
  BY PowerIsSize, n + 1 \in Nat
<1>3. \A A \in S : n + 1 \notin A
  OBVIOUS
<1>4. ExistsBijection(S, T)
  <2>1. f \in Surjection(S, T)
    BY DEF Surjection
  <2>2. \A A, B \in S : A \cup {n + 1} = B \cup {n + 1} => A = B
    <3>1. \A A \in S : A = (A \cup {n + 1}) \ {n + 1}
      BY <1>3
    <3>. QED BY <3>1
  <2>. HIDE DEF S
  <2>3. f \in [S -> T] /\ \A A \in S : f[A] = A \cup {n + 1}
    OBVIOUS
  <2>. HIDE DEF f, T
  <2>4. f \in Injection(S, T)
    BY <2>2, <2>3 DEF Injection, IsInjective
  <2>. QED BY <2>1, <2>4 DEF ExistsBijection, Bijection
<1>5. IsFiniteSet(T) /\ Cardinality(T) = Cardinality(S)
  BY <1>1, <1>4, FS_Bijection
<1>6. SUBSET (1 .. n + 1) = S \cup T
  <2>1. ASSUME NEW B \in SUBSET (1 .. n + 1) PROVE B \in S \cup T
    <3>1. B \ {n + 1} \in S
      OBVIOUS
    <3>2. n + 1 \in B => B = (B \ {n + 1}) \cup {n + 1}
      OBVIOUS
    <3>3. n + 1 \notin B => B = B \ {n + 1}
      OBVIOUS
    <3>4. n + 1 \in B => B \in T
      BY <3>1, <3>2
    <3>5. n + 1 \notin B => B \in S
      BY <3>1, <3>3
    <3>. QED BY <3>4, <3>5
  <2>2. \A A \in S : A \in SUBSET (1 .. n + 1) /\ A \cup {n + 1} \in SUBSET (1 .. n + 1)
    <3>1. \A i \in 1 .. n : i \in 1 .. n + 1
      OBVIOUS
    <3>2. n + 1 \in 1 .. n + 1
      OBVIOUS
    <3>. QED BY <3>1, <3>2
  <2>3. S \cup T \subseteq SUBSET (1 .. n + 1)
    <3>1. ASSUME NEW B \in S \cup T PROVE B \in SUBSET (1 .. n + 1)
      <4>1. CASE B \in S
        BY <4>1, <2>2
      <4>2. CASE B \in T
        <5>1. PICK A \in S : B = A \cup {n + 1}
          BY <4>2
        <5>2. A \cup {n + 1} \in SUBSET (1 .. n + 1)
          BY <2>2
        <5>. QED BY <5>1, <5>2
      <4>. QED BY <4>1, <4>2
    <3>. HIDE DEF S, T
    <3>. QED BY <3>1
  <2>. HIDE DEF S, T
  <2>. QED BY <2>1, <2>3
<1>7. S \cap T = {}
  BY <1>3
<1>8. Cardinality(S \cup T) = Cardinality(S) + Cardinality(T) - Cardinality(S \cap T)
  BY <1>1, <1>5, FS_Union
<1>9. Cardinality(S \cap T) = 0
  BY <1>7, FS_EmptySet
<1>10. 2 ^ n \in Nat
  BY <1>1, FS_CardinalityType
<1>11. 2 ^ n # 0
  <2>1. S # {}
    OBVIOUS
  <2>. QED BY <1>1, <2>1, FS_EmptySet
<1>. HIDE DEF S, T
<1>12. Cardinality(S) = 2 ^ n /\ Cardinality(T) = 2 ^ n /\ 2 ^ (n + 1) = Cardinality(S \cup T)
  BY <1>1, <1>2, <1>5, <1>6
<1>. QED BY <1>8, <1>9, <1>10, <1>11, <1>12

LEMMA PowerDivides ==
  ASSUME NEW m \in Nat, NEW n \in Nat, m <= n
  PROVE  \E k \in Nat \ {0} : 2 ^ n = k * 2 ^ m
<1>. DEFINE Bad == {d \in Nat : ~ \E k \in Nat \ {0} : 2 ^ (m + d) = k * 2 ^ m}
<1>1. SUFFICES Bad = {}
  <2>1. n - m \in Nat /\ m + (n - m) = n
    OBVIOUS
  <2>. QED BY <1>1, <2>1
<1>2. SUFFICES ASSUME Bad # {} PROVE FALSE
  OBVIOUS
<1>3. PICK d \in Bad : \A j \in Bad : d <= j
  BY <1>2, Smallest
<1>4. d # 0
  <2>1. m + 0 = m /\ 2 ^ m \in Nat
    BY Powers
  <2>2. 2 ^ m = 1 * 2 ^ m
    BY <2>1
  <2>3. 2 ^ (m + 0) = 2 ^ m
    BY <2>1
  <2>4. 0 \notin Bad
    BY <2>2, <2>3
  <2>. QED BY <1>3, <2>4
<1>5. d - 1 \in Nat /\ d - 1 \notin Bad
  BY <1>3, <1>4
<1>6. PICK k \in Nat \ {0} : 2 ^ (m + (d - 1)) = k * 2 ^ m
  BY <1>5
<1>7. (m + (d - 1)) \in Nat /\ (m + (d - 1)) + 1 = m + d
  BY <1>5
<1>8. 2 ^ (m + d) = 2 * 2 ^ (m + (d - 1))
  BY <1>7, Powers
<1>9. PICK p \in Nat : p = 2 ^ m
  BY Powers
<1>10. 2 * (k * p) = (2 * k) * p
  OBVIOUS
<1>11. 2 ^ (m + d) = (2 * k) * 2 ^ m /\ 2 * k \in Nat \ {0}
  BY <1>6, <1>8, <1>9, <1>10
<1>. QED BY <1>3, <1>11

LEMMA Multiples ==
  ASSUME NEW b \in Nat \ {0}, NEW k \in Int
  PROVE  k * b \in Int /\ (k >= 1 => k * b >= b) /\ (k <= -1 => k * b <= -b) /\ (k = 0 => k * b = 0)
<1>1. CASE k >= 1
  <2>1. (k - 1) * b >= 0
    BY <1>1
  <2>. QED BY <2>1, <1>1
<1>2. CASE k <= -1
  <2>1. (-1 - k) * b >= 0
    BY <1>2
  <2>. QED BY <2>1, <1>2
<1>3. CASE k = 0
  BY <1>3
<1>. QED BY <1>1, <1>2, <1>3

LEMMA PowersGrow ==
  ASSUME NEW m \in Nat, NEW n \in Nat, m <= n
  PROVE  2 ^ m <= 2 ^ n
<1>1. PICK k \in Nat \ {0} : 2 ^ n = k * 2 ^ m
  BY PowerDivides
<1>2. PICK p \in Nat \ {0} : p = 2 ^ m
  BY Powers
<1>. QED BY <1>1, <1>2, Multiples

LEMMA Quotients ==
  ASSUME NEW b \in Nat \ {0}, NEW v \in Int
  PROVE  /\ v \div b \in Int /\ v % b \in 0 .. b - 1
         /\ v = (v \div b) * b + (v % b)
<1>1. v \div b \in Int /\ v % b \in 0 .. b - 1
  OBVIOUS
<1>2. v = b * (v \div b) + (v % b)
  BY Z3
<1>3. PICK d \in Int : d = v \div b
  BY <1>1
<1>4. PICK m \in 0 .. b - 1 : m = v % b
  BY <1>1
<1>5. v = d * b + m
  <2>1. b * d = d * b
    OBVIOUS
  <2>. QED BY <1>2, <1>3, <1>4, <2>1
<1>6. v = (v \div b) * b + (v % b)
  BY ONLY <1>3, <1>4, <1>5, Zenon
<1>. QED BY ONLY <1>1, <1>6, Zenon

LEMMA QuotientIsUnique ==
  ASSUME NEW b \in Nat \ {0}, NEW q \in Int, NEW r \in 0 .. b - 1, NEW v \in Int, v = q * b + r
  PROVE  v \div b = q /\ v % b = r
<1>1. /\ v = (v \div b) * b + (v % b)
      /\ v \div b \in Int /\ v % b \in 0 .. b - 1
  BY Quotients
<1>2. PICK d \in Int : d = q - (v \div b)
  BY <1>1
<1>3. d * b = (v % b) - r
  BY <1>1, <1>2
<1>4. d >= 1 => d * b >= b
  BY Multiples
<1>5. d <= -1 => d * b <= -b
  BY Multiples
<1>6. d = 0
  BY <1>1, <1>3, <1>4, <1>5
<1>. QED BY <1>1, <1>2, <1>3, <1>6

LEMMA SmallRemainders ==
  ASSUME NEW b \in Nat \ {0}, NEW v \in Int
  PROVE  /\ v \in 0 .. b - 1 => v % b = v
         /\ v \in -b .. -1 => v % b = v + b
<1>1. ASSUME v \in 0 .. b - 1 PROVE v % b = v
  <2>1. v = 0 * b + v
    OBVIOUS
  <2>. QED BY <1>1, <2>1, QuotientIsUnique
<1>2. ASSUME v \in -b .. -1 PROVE v % b = v + b
  <2>1. v = (-1) * b + (v + b) /\ v + b \in 0 .. b - 1
    BY <1>2
  <2>. QED BY <2>1, QuotientIsUnique
<1>. QED BY <1>1, <1>2

-----------------------------------------------------------------------------
(* Types and their numbers.                                                *)

Size(t) == 2 ^ Bits(t)

LEMMA TypeBounds ==
  ASSUME NEW t \in Types
  PROVE  /\ Bits(t) \in Nat \ {0}
         /\ Size(t) \in Nat \ {0} /\ Low(t) \in Int /\ High(t) \in Nat
         /\ High(t) - Low(t) + 1 = Size(t)
         /\ t.kind = "signed" => Low(t) = -(High(t) + 1) /\ Size(t) = 2 * (High(t) + 1)
         /\ t.kind = "unsigned" => Low(t) = 0 /\ High(t) + 1 = Size(t)
<1>1. Bits(t) \in Nat \ {0}
  BY WidthAssumption DEF Types, Bits, Sizes
<1>2. PICK b \in Nat : b = Bits(t) - 1
  BY <1>1
<1>3. PICK p \in Nat : p = 2 ^ b /\ p >= 1
  BY Powers
<1>4. 2 ^ Bits(t) = 2 * p
  <2>1. b + 1 = Bits(t)
    BY <1>1, <1>2
  <2>2. 2 ^ (b + 1) = 2 * 2 ^ b
    BY Powers
  <2>. QED BY <1>3, <2>1, <2>2
<1>5. t.kind \in {"signed", "unsigned"}
  BY DEF Types
<1>. QED BY <1>1, <1>2, <1>3, <1>4, <1>5 DEF Low, High, Size

\* A wider type.
LEMMA Widening ==
  ASSUME NEW s \in Types, NEW t \in Types, Bits(s) <= Bits(t)
  PROVE  /\ \E k \in Nat \ {0} : Size(t) = k * Size(s)
         /\ Size(s) <= Size(t)
         /\ s.kind = t.kind => Low(t) <= Low(s) /\ High(s) <= High(t)
         /\ s.kind = "signed" => High(s) <= High(t)
<1>1. Bits(s) \in Nat \ {0} /\ Bits(t) \in Nat \ {0}
  BY TypeBounds
<1>2. (\E k \in Nat \ {0} : Size(t) = k * Size(s)) /\ Size(s) <= Size(t)
  BY <1>1, PowerDivides, PowersGrow DEF Size
<1>3. s.kind \in {"signed", "unsigned"} /\ t.kind \in {"signed", "unsigned"}
  BY DEF Types
<1>. QED BY <1>2, <1>3, TypeBounds

LEMMA Narrower ==
  ASSUME NEW s \in Types, NEW t \in Types, Bits(s) < Bits(t)
  PROVE  2 * Size(s) <= Size(t)
<1>1. Bits(s) \in Nat /\ Bits(t) \in Nat
  BY TypeBounds
<1>2. 2 ^ (Bits(s) + 1) <= 2 ^ Bits(t) /\ 2 ^ (Bits(s) + 1) = 2 * 2 ^ Bits(s)
  BY <1>1, Powers, PowersGrow
<1>. QED BY <1>2 DEF Size

\* Two numbers that differ by a multiple of a type's size.
Congruent(t, x, y) == \E k \in Int : x = y + k * Size(t)

LEMMA Conversion ==
  ASSUME NEW t \in Types, NEW v \in Int
  PROVE  /\ As(t, v) \in Int /\ Fits(As(t, v), t) /\ Congruent(t, As(t, v), v)
         /\ Fits(v, t) => As(t, v) = v
<1>. DEFINE n == Size(t)
            q == v \div n
            r == v % n
<1>1. n \in Nat \ {0} /\ Low(t) \in Int /\ High(t) \in Nat /\ High(t) - Low(t) + 1 = n
  BY TypeBounds
<1>2. q \in Int /\ r \in 0 .. n - 1 /\ v = q * n + r
  BY <1>1, Quotients
<1>3. As(t, v) = IF r > High(t) THEN r - n ELSE r
  BY DEF As, integer_from_bits, Size
<1>4. Low(t) <= 0
  BY TypeBounds DEF Types
<1>. HIDE DEF n, q, r
<1>5. As(t, v) \in Int /\ Fits(As(t, v), t)
  BY <1>1, <1>2, <1>3, <1>4 DEF Fits
<1>6. Congruent(t, As(t, v), v)
  <2>1. PICK c \in Int : c = q * n
    BY <1>1, <1>2
  <2>2. (-q) * n = -c /\ (-q - 1) * n = -c - n
    BY <1>1, <1>2, <2>1
  <2>3. r = v + (-q) * n /\ r - n = v + (-q - 1) * n
    BY <1>1, <1>2, <2>1, <2>2
  <2>4. -q \in Int /\ -q - 1 \in Int
    BY <1>2
  <2>. QED BY <1>3, <2>3, <2>4 DEF Congruent, n
<1>7. ASSUME Fits(v, t) PROVE As(t, v) = v
  <2>1. CASE v >= 0
    <3>1. v \in 0 .. n - 1
      BY <1>1, <1>4, <1>7, <2>1 DEF Fits
    <3>2. v % n = v
      BY <1>1, <3>1, SmallRemainders
    <3>3. r = v
      BY <3>2 DEF r
    <3>. QED BY <1>1, <1>3, <1>7, <3>3 DEF Fits
  <2>2. CASE v < 0
    <3>1. v \in -n .. -1
      BY <1>1, <1>7, <2>2 DEF Fits
    <3>2. r = v + n
      <4>1. v % n = v + n
        BY <1>1, <3>1, SmallRemainders
      <4>. QED BY <4>1 DEF r
    <3>. QED BY <1>1, <1>3, <1>7, <3>2 DEF Fits
  <2>. QED BY <2>1, <2>2
<1>. QED BY <1>5, <1>6, <1>7

LEMMA OneRepresentative ==
  ASSUME NEW t \in Types, NEW x \in Int, NEW y \in Int, Fits(x, t), Fits(y, t), Congruent(t, x, y)
  PROVE  x = y
<1>1. PICK k \in Int : x = y + k * Size(t)
  BY DEF Congruent
<1>2. /\ Size(t) \in Nat \ {0} /\ k * Size(t) \in Int /\ (k >= 1 => k * Size(t) >= Size(t))
      /\ (k <= -1 => k * Size(t) <= -Size(t)) /\ (k = 0 => k * Size(t) = 0)
  BY TypeBounds, Multiples
<1>3. Low(t) \in Int /\ High(t) \in Nat /\ High(t) - Low(t) + 1 = Size(t)
  BY TypeBounds
<1>. QED BY <1>1, <1>2, <1>3 DEF Fits

LEMMA CongruentSteps ==
  ASSUME NEW t \in Types, NEW x \in Int, NEW y \in Int, NEW z \in Int
  PROVE  /\ Congruent(t, x, x)
         /\ Congruent(t, x, y) => Congruent(t, y, x) /\ (x - y) % Size(t) = 0
         /\ Congruent(t, x, y) /\ Congruent(t, y, z) => Congruent(t, x, z)
<1>. DEFINE n == Size(t)
<1>1. n \in Nat \ {0}
  BY TypeBounds
<1>. HIDE DEF n
<1>2. Congruent(t, x, x)
  <2>1. x = x + 0 * n /\ 0 \in Int
    BY <1>1
  <2>. QED BY <2>1 DEF Congruent, n
<1>3. ASSUME Congruent(t, x, y) PROVE Congruent(t, y, x) /\ (x - y) % n = 0
  <2>1. PICK k \in Int : x = y + k * n
    BY <1>3 DEF Congruent, n
  <2>2. k * n \in Int /\ (-k) * n = -(k * n) /\ -k \in Int
    BY <1>1
  <2>3. y = x + (-k) * n
    BY <2>1, <2>2
  <2>4. x - y = k * n + 0 /\ 0 \in 0 .. n - 1
    BY <1>1, <2>1, <2>2
  <2>5. (x - y) % n = 0
    BY <1>1, <2>4, QuotientIsUnique
  <2>. QED BY <2>2, <2>3, <2>5 DEF Congruent, n
<1>4. ASSUME Congruent(t, x, y), Congruent(t, y, z) PROVE Congruent(t, x, z)
  <2>1. PICK j \in Int : x = y + j * n
    BY <1>4 DEF Congruent, n
  <2>2. PICK k \in Int : y = z + k * n
    BY <1>4 DEF Congruent, n
  <2>3. (j + k) * n = j * n + k * n /\ j * n \in Int /\ k * n \in Int /\ j + k \in Int
    BY <1>1
  <2>4. x = z + (j + k) * n
    BY <2>1, <2>2, <2>3
  <2>. QED BY <2>3, <2>4 DEF Congruent, n
<1>. QED BY <1>2, <1>3, <1>4 DEF n

LEMMA CongruentSums ==
  ASSUME NEW t \in Types, NEW a \in Int, NEW b \in Int, NEW c \in Int, NEW d \in Int,
         Congruent(t, a, b), Congruent(t, c, d)
  PROVE  Congruent(t, a + c, b + d) /\ Congruent(t, a - c, b - d)
<1>. DEFINE n == Size(t)
<1>1. n \in Nat \ {0}
  BY TypeBounds
<1>. HIDE DEF n
<1>2. PICK j \in Int : a = b + j * n
  BY DEF Congruent, n
<1>3. PICK k \in Int : c = d + k * n
  BY DEF Congruent, n
<1>4. (j + k) * n = j * n + k * n /\ (j - k) * n = j * n - k * n
      /\ j * n \in Int /\ k * n \in Int /\ j + k \in Int /\ j - k \in Int
  BY <1>1
<1>5. a + c = (b + d) + (j + k) * n /\ a - c = (b - d) + (j - k) * n
  BY <1>2, <1>3, <1>4
<1>. QED BY <1>4, <1>5 DEF Congruent, n

LEMMA CongruentNarrower ==
  ASSUME NEW s \in Types, NEW t \in Types, Bits(s) <= Bits(t), NEW x \in Int, NEW y \in Int, Congruent(t, x, y)
  PROVE  Congruent(s, x, y)
<1>1. PICK k \in Int : x = y + k * Size(t)
  BY DEF Congruent
<1>2. PICK m \in Nat : Size(t) = m * Size(s)
  BY Widening
<1>3. PICK n \in Nat : n = Size(s)
  BY TypeBounds
<1>4. k * (m * n) = (k * m) * n /\ k * m \in Int
  OBVIOUS
<1>. QED BY <1>1, <1>2, <1>3, <1>4 DEF Congruent

LEMMA TopOnes ==
  ASSUME NEW t \in Types, t.kind = "unsigned", NEW k \in Int
  PROVE  As(t, k * Size(t) - 1) = High(t)
<1>1. Size(t) \in Nat \ {0} /\ High(t) \in Nat /\ High(t) + 1 = Size(t) /\ Low(t) = 0
  BY TypeBounds
<1>2. PICK n \in Nat \ {0} : n = Size(t)
  BY <1>1
<1>3. PICK v \in Int : v = k * n - 1
  <2>1. k * n \in Int
    OBVIOUS
  <2>. QED BY <2>1
<1>4. v = High(t) + (k - 1) * n /\ k - 1 \in Int
  <2>1. (k - 1) * n = k * n - n
    OBVIOUS
  <2>2. k * n \in Int
    OBVIOUS
  <2>. QED BY <1>1, <1>2, <1>3, <2>1, <2>2
<1>5. Congruent(t, v, High(t))
  BY <1>2, <1>4 DEF Congruent
<1>6. As(t, v) \in Int /\ Fits(As(t, v), t) /\ Congruent(t, As(t, v), v)
  BY Conversion
<1>7. Congruent(t, As(t, v), High(t))
  BY <1>1, <1>5, <1>6, CongruentSteps
<1>8. Fits(High(t), t) /\ High(t) \in Int
  BY <1>1 DEF Fits
<1>. QED BY <1>2, <1>3, <1>6, <1>7, <1>8, OneRepresentative

-----------------------------------------------------------------------------
(* Assignments.                                                            *)

LEMMA SameSize ==
  ASSUME NEW t \in Types
  PROVE  /\ Unsigned(t.size) \in Types /\ Bits(Unsigned(t.size)) = Bits(t)
         /\ Unsigned(t.size).kind = "unsigned" /\ Size(Unsigned(t.size)) = Size(t)
BY DEF Types, Unsigned, Bits, Size

LEMMA AssignmentIsExact ==
  ASSUME NEW D \in Types, NEW S \in Types, NEW v \in Int, Fits(v, S)
  PROVE  Assign(D, S, v, TRUE, FALSE) = IF Fits(v, D) THEN Returns(v) ELSE Raises("range")
<1>. DEFINE U == Unsigned(S.size)
            out == IF S.kind = D.kind THEN v < As(S, Low(D)) \/ v > As(S, High(D))
                   ELSE IF S.kind = "signed" THEN v < 0 \/ As(U, v) > As(U, High(D))
                   ELSE v > As(S, High(D))
<1>1. /\ Low(S) \in Int /\ High(S) \in Nat /\ Low(D) \in Int /\ High(D) \in Nat
      /\ Bits(S) \in Nat \ {0} /\ Bits(D) \in Nat \ {0} /\ Size(S) \in Nat \ {0}
      /\ Low(S) <= 0 /\ Low(D) <= 0
  BY TypeBounds DEF Types
<1>2. S.kind \in {"signed", "unsigned"} /\ D.kind \in {"signed", "unsigned"}
  BY DEF Types
<1>3. Fits(v, D) => As(D, v) = v
  BY Conversion
<1>4. CASE ~(Bits(S) > Bits(D) \/ S.kind # D.kind)
  <2>1. Low(D) <= Low(S) /\ High(S) <= High(D)
    BY <1>1, <1>4, Widening
  <2>2. Fits(v, D)
    BY <1>1, <2>1 DEF Fits
  <2>. QED BY <1>3, <1>4, <2>2 DEF Assign
<1>5. CASE Bits(S) > Bits(D) \/ S.kind # D.kind
  <2>1. out <=> ~Fits(v, D)
    <3>1. CASE S.kind = D.kind
      <4>1. Low(S) <= Low(D) /\ High(D) <= High(S)
        BY <1>1, <1>5, <3>1, Widening
      <4>2. As(S, Low(D)) = Low(D) /\ As(S, High(D)) = High(D)
        BY <1>1, <4>1, Conversion DEF Fits
      <4>. QED BY <1>1, <3>1, <4>2 DEF Fits
    <3>2. CASE S.kind = "signed" /\ D.kind = "unsigned"
      <4>1. /\ U \in Types /\ Low(U) = 0 /\ High(U) \in Nat /\ High(U) + 1 = Size(S) /\ Bits(U) = Bits(S)
            /\ Size(U) = Size(S) /\ High(S) <= High(U) /\ U.kind = "unsigned"
        BY <3>2, SameSize, TypeBounds
      <4>2. Low(D) = 0 /\ High(D) + 1 = Size(D)
        BY <3>2, TypeBounds
      <4>3. v >= 0 => As(U, v) = v
        BY <1>1, <4>1, Conversion DEF Fits
      <4>4. CASE Bits(D) <= Bits(S)
        <5>1. High(D) <= High(U)
          BY <3>2, <4>1, <4>4, Widening
        <5>2. As(U, High(D)) = High(D)
          BY <1>1, <4>1, <5>1, Conversion DEF Fits
        <5>. QED BY <1>1, <3>2, <4>2, <4>3, <5>2 DEF Fits
      <4>5. CASE Bits(S) < Bits(D)
        <5>1. PICK k \in Nat : Size(D) = k * Size(U)
          <6>1. Bits(U) <= Bits(D)
            BY <1>1, <4>1, <4>5
          <6>. HIDE DEF U
          <6>. QED BY <4>1, <6>1, Widening
        <5>2. High(D) = k * Size(U) - 1
          BY <1>1, <4>1, <4>2, <5>1
        <5>3. As(U, High(D)) = High(U)
          BY <4>1, <5>2, TopOnes
        <5>4. High(S) <= High(D)
          BY <1>1, <3>2, <4>5, Widening
        <5>. QED BY <1>1, <3>2, <4>1, <4>2, <4>3, <5>3, <5>4 DEF Fits
      <4>. QED BY <1>1, <4>4, <4>5
    <3>3. CASE S.kind = "unsigned" /\ D.kind = "signed"
      <4>1. Low(S) = 0 /\ High(S) + 1 = Size(S) /\ Size(D) = 2 * (High(D) + 1) /\ Size(D) \in Nat
        BY <3>3, TypeBounds
      <4>2. CASE Bits(D) <= Bits(S)
        <5>1. High(D) <= High(S)
          BY <3>3, <4>2, Widening
        <5>2. As(S, High(D)) = High(D)
          BY <1>1, <4>1, <5>1, Conversion DEF Fits
        <5>. QED BY <1>1, <3>3, <4>1, <5>2 DEF Fits
      <4>3. CASE Bits(S) < Bits(D)
        <5>1. Bits(D) - 1 \in Nat /\ Bits(S) <= Bits(D) - 1 /\ (Bits(D) - 1) + 1 = Bits(D)
          BY <1>1, <4>3
        <5>2. PICK k \in Nat \ {0} : 2 ^ (Bits(D) - 1) = k * Size(S)
          BY <1>1, <5>1, PowerDivides DEF Size
        <5>3. High(D) = k * Size(S) - 1
          BY <3>3, <5>2 DEF High
        <5>4. As(S, High(D)) = High(S)
          BY <3>3, <5>3, TopOnes
        <5>5. k * Size(S) >= Size(S)
          BY <1>1, Multiples
        <5>6. High(S) <= High(D)
          BY <1>1, <4>1, <5>3, <5>5, Multiples
        <5>. QED BY <1>1, <3>3, <4>1, <5>4, <5>6 DEF Fits
      <4>. QED BY <1>1, <4>2, <4>3
    <3>. QED BY <1>2, <3>1, <3>2, <3>3
  <2>. QED BY <1>3, <1>5, <2>1 DEF Assign, range_check_assign
<1>. QED BY <1>4, <1>5

-----------------------------------------------------------------------------
(* Carriers.                                                               *)

IsWithin(s, t) == Low(t) <= Low(s) /\ High(s) <= High(t)
Mismatch(l, r) == Unsigned(64) \in {l, r} /\ "signed" \in {l.kind, r.kind}

LEMMA Inclusion ==
  ASSUME NEW s \in Types, NEW t \in Types
  PROVE  /\ s.size <= t.size => Bits(s) <= Bits(t)
         /\ s.kind = t.kind /\ s.size <= t.size => IsWithin(s, t)
         /\ t.kind = "signed" /\ s.size < t.size => IsWithin(s, t)
         /\ IsWithin(s, t) => \A v \in Int : Fits(v, s) => Fits(v, t)
<1>1. s.size \in Sizes /\ t.size \in Sizes
  BY DEF Types
<1>2. s.size < t.size => Bits(s) < Bits(t)
  BY <1>1, WidthAssumption DEF Bits, Sizes
<1>3. s.size = t.size => Bits(s) = Bits(t)
  BY DEF Bits
<1>4. s.size <= t.size => Bits(s) <= Bits(t)
  BY <1>1, <1>2, <1>3, TypeBounds DEF Sizes
<1>5. s.kind = t.kind /\ s.size <= t.size => IsWithin(s, t)
  BY <1>4, Widening DEF IsWithin
<1>6. ASSUME t.kind = "signed", s.size < t.size PROVE IsWithin(s, t)
  <2>1. 2 * Size(s) <= Size(t)
    BY <1>2, <1>6, Narrower
  <2>2. s.kind \in {"signed", "unsigned"}
    BY DEF Types
  <2>. QED BY <1>6, <2>1, <2>2, TypeBounds DEF IsWithin
<1>7. ASSUME IsWithin(s, t), NEW v \in Int, Fits(v, s) PROVE Fits(v, t)
  BY <1>7, TypeBounds DEF IsWithin, Fits
<1>. QED BY <1>4, <1>5, <1>6, <1>7

LEMMA ArithmeticCarrier ==
  ASSUME NEW l \in Types, NEW r \in Types, NEW op, NEW p \in {32, 64}
  PROVE  LET R == integer_arithmetic_primitive(op, l, r, p) IN
         /\ R \in Types /\ R.size \in {32, 64}
         /\ l.size <= R.size /\ r.size <= R.size
         /\ ~Mismatch(l, r) => IsWithin(l, R) /\ IsWithin(r, R)
         /\ R.kind = "unsigned" /\ "signed" \in {l.kind, r.kind} => R = Unsigned(64) /\ Unsigned(64) \in {l, r}
<1>. DEFINE R == integer_arithmetic_primitive(op, l, r, p)
            signed == "signed" \in {l.kind, r.kind} \/ op = "sub"
<1>1. /\ l.size \in Sizes /\ r.size \in Sizes /\ l.kind \in {"signed", "unsigned"} /\ r.kind \in {"signed", "unsigned"}
      /\ l = [kind |-> l.kind, size |-> l.size] /\ r = [kind |-> r.kind, size |-> r.size]
  BY DEF Types
<1>2. \A s \in {32, 64} : Signed(s) \in Types /\ Unsigned(s) \in Types
  BY DEF Types, Sizes, Signed, Unsigned
<1>3. CASE Signed(64) \in {l, r}
  <2>1. R = Signed(64)
    BY <1>3 DEF integer_arithmetic_primitive
  <2>2. ~Mismatch(l, r) => \A t \in {l, r} : t.kind = "signed" \/ t.size < 64
    BY <1>1, <1>3 DEF Mismatch, Signed, Unsigned, Sizes
  <2>. QED BY <1>1, <1>2, <2>1, <2>2, Inclusion DEF Signed, Sizes
<1>4. CASE Signed(64) \notin {l, r} /\ Unsigned(64) \in {l, r}
  <2>1. R = Unsigned(64)
    BY <1>4 DEF integer_arithmetic_primitive
  <2>2. ~Mismatch(l, r) => l.kind = "unsigned" /\ r.kind = "unsigned"
    BY <1>1, <1>4 DEF Mismatch
  <2>. QED BY <1>1, <1>2, <1>4, <2>1, <2>2, Inclusion DEF Unsigned, Sizes
<1>5. CASE Signed(64) \notin {l, r} /\ Unsigned(64) \notin {l, r}
  <2>1. l.size < 64 /\ r.size < 64
    BY <1>1, <1>5 DEF Signed, Unsigned, Sizes
  <2>2. CASE p = 32 /\ Unsigned(32) \in {l, r} /\ signed
    <3>1. R = Signed(64)
      BY <1>5, <2>2 DEF integer_arithmetic_primitive
    <3>. QED BY <1>1, <1>2, <2>1, <3>1, Inclusion DEF Signed, Sizes
  <2>3. CASE ~(p = 32 /\ Unsigned(32) \in {l, r}) /\ signed
    <3>1. R = Signed(p)
      BY <1>5, <2>3 DEF integer_arithmetic_primitive
    <3>2. \A t \in {l, r} : t.size <= p /\ (t.kind = "signed" \/ t.size < p)
      BY <1>1, <2>1, <2>3 DEF Unsigned, Sizes
    <3>. QED BY <1>1, <1>2, <3>1, <3>2, Inclusion DEF Signed, Sizes
  <2>4. CASE ~signed
    <3>1. R = Unsigned(p)
      BY <1>5, <2>4 DEF integer_arithmetic_primitive
    <3>2. l.kind = "unsigned" /\ r.kind = "unsigned"
      BY <1>1, <2>4
    <3>. QED BY <1>1, <1>2, <2>1, <3>1, <3>2, Inclusion DEF Unsigned, Sizes
  <2>. QED BY <2>2, <2>3, <2>4
<1>. QED BY <1>3, <1>4, <1>5

-----------------------------------------------------------------------------
(* Steps.                                                                  *)

\* What a step works with.
Stepped(op, a, b) == IF op = "add" THEN a + b ELSE a - b

LEMMA StepOutcome ==
  ASSUME NEW op \in {"add", "sub"}, NEW T \in Types, NEW R \in Types, NEW q \in BOOLEAN, NEW c \in BOOLEAN,
         NEW v \in Int, NEW delta \in Int, NEW low \in Int, NEW high \in Int,
         NEW run, run = ordinal_step(op, T, R, q, c, v, As(R, delta), low, high)
  PROVE  \E y \in Int :
           /\ Fits(y, R) /\ Congruent(R, y, Stepped(op, v, delta))
           /\ Fits(v, R) /\ Fits(delta, R) /\ Fits(Stepped(op, v, delta), R) => y = Stepped(op, v, delta)
           /\ Fine(run) => run.value = As(T, y) /\ (c => As(R, low) <= y /\ y <= As(R, high))
           /\ ~Fine(run) => \/ q /\ (Fits(v, R) /\ Fits(delta, R) => ~Fits(Stepped(op, v, delta), R))
                            \/ c /\ ~(As(R, low) <= y /\ y <= As(R, high))
<1>. DEFINE a == As(R, v)
            b == As(R, delta)
            x == Exact(op, a, b)
            y == As(R, x)
            n == Stepped(op, v, delta)
<1>1. /\ a \in Int /\ Fits(a, R) /\ Congruent(R, a, v) /\ (Fits(v, R) => a = v)
      /\ b \in Int /\ Fits(b, R) /\ Congruent(R, b, delta) /\ (Fits(delta, R) => b = delta)
      /\ As(R, b) = b
  BY Conversion
<1>. HIDE DEF a, b
<1>2. x = (IF op = "add" THEN a + b ELSE a - b) /\ x \in Int /\ n \in Int
  BY <1>1 DEF Exact, Stepped
<1>3. Congruent(R, x, n)
  <2>1. Congruent(R, a + b, v + delta) /\ Congruent(R, a - b, v - delta)
    BY <1>1, CongruentSums
  <2>2. CASE op = "add"
    BY <1>2, <2>1, <2>2 DEF Stepped
  <2>3. CASE op = "sub"
    BY <1>2, <2>1, <2>3 DEF Stepped
  <2>. QED BY <2>2, <2>3
<1>4. Fits(v, R) /\ Fits(delta, R) => x = n
  BY <1>1, <1>2 DEF Stepped
<1>. HIDE DEF x, n
<1>5. y \in Int /\ Fits(y, R) /\ Congruent(R, y, x) /\ (Fits(x, R) => y = x)
  BY <1>2, Conversion
<1>. HIDE DEF y
<1>6. Congruent(R, y, n)
  BY <1>2, <1>3, <1>5, CongruentSteps
<1>7. PICK r : r = IF q THEN op_checked(op, R, v, b) ELSE wrap_op(op, R, v, b)
  OBVIOUS
<1>8. r = Returns(y) \/ (r = Raises("overflow") /\ q /\ ~Fits(x, R))
  BY <1>1, <1>7 DEF op_checked, wrap_op, a, x, y
<1>9. run = IF ~Fine(r) THEN r
            ELSE IF c /\ (r.value < As(R, low) \/ r.value > As(R, high)) THEN Raises("range")
            ELSE Returns(As(T, r.value))
  BY <1>7 DEF ordinal_step, ordinal_from_carrier, b
<1>10. /\ Fine(Returns(y)) /\ Returns(y).value = y /\ ~Fine(Raises("overflow")) /\ ~Fine(Raises("range"))
       /\ Fine(Returns(As(T, y))) /\ Returns(As(T, y)).value = As(T, y)
  BY DEF Fine, Returns, Raises
<1>11. As(R, low) \in Int /\ As(R, high) \in Int
  BY Conversion
<1>12. CASE r = Returns(y)
  <2>1. CASE c /\ (y < As(R, low) \/ y > As(R, high))
    <3>1. ~Fine(run) /\ ~(As(R, low) <= y /\ y <= As(R, high))
      BY <1>5, <1>9, <1>10, <1>11, <1>12, <2>1
    <3>. QED BY <1>4, <1>5, <1>6, <2>1, <3>1 DEF n
  <2>2. CASE ~(c /\ (y < As(R, low) \/ y > As(R, high)))
    <3>1. Fine(run) /\ run.value = As(T, y)
      BY <1>9, <1>10, <1>12, <2>2
    <3>2. c => As(R, low) <= y /\ y <= As(R, high)
      BY <1>5, <1>11, <2>2
    <3>. QED BY <1>4, <1>5, <1>6, <3>1, <3>2 DEF n
  <2>. QED BY <2>1, <2>2
<1>13. CASE r = Raises("overflow") /\ q /\ ~Fits(x, R)
  <2>1. ~Fine(run)
    BY <1>9, <1>10, <1>13
  <2>. QED BY <1>4, <1>5, <1>6, <1>13, <2>1 DEF n
<1>. QED BY <1>8, <1>12, <1>13

\* The bounds of a cell hold the result of a checked step, in whatever carrier.
LEMMA BoundsHold ==
  ASSUME NEW T \in Types, NEW R \in Types, Bits(T) <= Bits(R), 1 <= High(R),
         NEW low \in Int, NEW high \in Int, Fits(low, T), Fits(high, T), low <= 1, 0 <= high,
         NEW y \in Int, Fits(y, R), As(R, low) <= y, y <= As(R, high)
  PROVE  low <= y /\ y <= high
<1>1. /\ Low(T) \in Int /\ High(T) \in Nat /\ Low(R) \in Int /\ High(R) \in Nat /\ Size(R) \in Nat \ {0}
      /\ Size(T) \in Nat \ {0} /\ Size(T) <= Size(R)
      /\ High(T) - Low(T) + 1 = Size(T) /\ High(R) - Low(R) + 1 = Size(R) /\ Low(T) <= 0 /\ Low(R) <= 0
  BY TypeBounds, Widening DEF Types
<1>2. \A v \in {low, high} : Fits(v, R) => As(R, v) = v
  BY Conversion
<1>3. T.kind \in {"signed", "unsigned"} /\ R.kind \in {"signed", "unsigned"}
  BY DEF Types
<1>4. CASE Fits(low, R) /\ Fits(high, R)
  BY <1>2, <1>4
<1>5. CASE ~Fits(high, R)
  <2>1. high > High(R)
    BY <1>1, <1>5 DEF Fits
  <2>2. Fits(low, R)
    <3>1. low <= High(R)
      BY <1>1
    <3>2. Low(R) <= low
      <4>1. T.kind = "unsigned" \/ (T.kind = "signed" /\ High(T) <= High(R))
        BY <1>3, Widening
      <4>2. T.kind = "unsigned"
        BY <1>1, <2>1, <4>1 DEF Fits
      <4>3. Low(T) = 0
        BY <4>2, TypeBounds
      <4>. QED BY <1>1, <4>3 DEF Fits
    <3>. QED BY <3>1, <3>2 DEF Fits
  <2>3. PICK h \in Int : h = high - Size(R)
    BY <1>1
  <2>4. Fits(h, R) /\ h < 0
    BY <1>1, <2>1, <2>3 DEF Fits
  <2>5. Congruent(R, h, high)
    <3>1. (-1) * Size(R) = -Size(R)
      BY <1>1
    <3>2. h = high + (-1) * Size(R)
      BY <1>1, <2>3, <3>1
    <3>. QED BY <3>2 DEF Congruent
  <2>6. As(R, high) = h
    <3>1. As(R, high) \in Int /\ Fits(As(R, high), R) /\ Congruent(R, As(R, high), high)
      BY Conversion
    <3>2. Congruent(R, As(R, high), h)
      BY <2>5, <3>1, CongruentSteps
    <3>. QED BY <2>4, <3>1, <3>2, OneRepresentative
  <2>7. Low(T) = 0
    <3>1. T.kind = "unsigned" \/ (T.kind = "signed" /\ High(T) <= High(R))
      BY <1>3, Widening
    <3>2. T.kind = "unsigned"
      BY <1>1, <2>1, <3>1 DEF Fits
    <3>. QED BY <3>2, TypeBounds
  <2>. QED BY <1>1, <1>2, <2>2, <2>4, <2>6, <2>7 DEF Fits
<1>6. CASE Fits(high, R) /\ ~Fits(low, R)
  <2>1. low < Low(R)
    BY <1>1, <1>6 DEF Fits
  <2>2. PICK l \in Int : l = low + Size(R)
    BY <1>1
  <2>3. Fits(l, R) /\ l > high
    <3>1. high - low < Size(T)
      BY <1>1 DEF Fits
    <3>. QED BY <1>1, <2>1, <2>2, <3>1, <1>6 DEF Fits
  <2>4. Congruent(R, l, low)
    <3>1. l = low + 1 * Size(R)
      BY <1>1, <2>2
    <3>. QED BY <3>1 DEF Congruent
  <2>5. As(R, low) = l
    <3>1. As(R, low) \in Int /\ Fits(As(R, low), R) /\ Congruent(R, As(R, low), low)
      BY Conversion
    <3>2. Congruent(R, As(R, low), l)
      BY <2>4, <3>1, CongruentSteps
    <3>. QED BY <2>3, <3>1, <3>2, OneRepresentative
  <2>. QED BY <1>2, <1>6, <2>3, <2>5
<1>. QED BY <1>4, <1>5, <1>6

\* A subrange's cell holds its bounds.
LEMMA DomainBounds ==
  ASSUME NEW d \in Domains
  PROVE  /\ d.storage \in Types /\ d.low \in Int /\ d.high \in Int
         /\ Fits(d.low, d.storage) /\ Fits(d.high, d.storage) /\ d.low <= 1 /\ 0 <= d.high
<1>1. CASE \E t \in Types : d = [storage |-> t, low |-> Low(t), high |-> High(t)]
  <2>1. PICK t \in Types : d = [storage |-> t, low |-> Low(t), high |-> High(t)]
    BY <1>1
  <2>2. Low(t) \in Int /\ High(t) \in Nat /\ Low(t) <= 0
    BY TypeBounds DEF Types
  <2>. QED BY <2>1, <2>2 DEF Fits
<1>2. CASE \E l \in {-1, 0, 1}, h \in {1, High(Signed(16)), High(Unsigned(16)) - 1} :
             d = [storage |-> ordinal_integer_primitive_for_domain(l, h), low |-> l, high |-> h]
  <2>1. PICK l \in {-1, 0, 1}, h \in {1, High(Signed(16)), High(Unsigned(16)) - 1} :
             d = [storage |-> ordinal_integer_primitive_for_domain(l, h), low |-> l, high |-> h]
    BY <1>2
  <2>. DEFINE kind == IF l < 0 THEN "signed" ELSE "unsigned"
              cell(s) == [kind |-> kind, size |-> s]
              holding == {s \in {8, 16, 32} : \A v \in {l, h} : Fits(v, cell(s))}
  <2>2. ordinal_integer_primitive_for_domain(l, h) = cell(IF holding = {} THEN 64 ELSE Min(holding))
    BY DEF ordinal_integer_primitive_for_domain, Narrowest
  <2>3. \A s \in Sizes : cell(s) \in Types
    BY DEF Types
  <2>4. h \in Nat /\ h >= 1 /\ h <= High(Unsigned(16)) /\ h <= High(Signed(32)) /\ h <= High(Unsigned(32))
    <3>1. \A s \in Sizes : Signed(s) \in Types /\ Unsigned(s) \in Types
      BY DEF Types, Signed, Unsigned
    <3>2. Bits(Unsigned(16)) < Bits(Signed(32)) /\ Bits(Signed(8)) < Bits(Signed(16))
          /\ Bits(Unsigned(32)) = Bits(Signed(32)) /\ Bits(Signed(16)) = Bits(Unsigned(16))
      BY WidthAssumption DEF Bits, Signed, Unsigned, Sizes
    <3>3. /\ 2 * Size(Unsigned(16)) <= Size(Signed(32)) /\ 2 * Size(Signed(8)) <= Size(Signed(16))
          /\ Size(Unsigned(32)) = Size(Signed(32)) /\ Size(Signed(16)) = Size(Unsigned(16))
      <4>1. \A s \in Sizes : s \in {8, 16, 32, 64}
        BY DEF Sizes
      <4>2. 2 * Size(Unsigned(16)) <= Size(Signed(32)) /\ 2 * Size(Signed(8)) <= Size(Signed(16))
        BY <3>1, <3>2, Narrower DEF Sizes
      <4>. QED BY <3>2, <4>2 DEF Size
    <3>4. /\ High(Signed(16)) \in Nat /\ 2 * (High(Signed(16)) + 1) = Size(Signed(16))
          /\ High(Unsigned(16)) \in Nat /\ High(Unsigned(16)) + 1 = Size(Unsigned(16))
          /\ High(Signed(32)) \in Nat /\ 2 * (High(Signed(32)) + 1) = Size(Signed(32))
          /\ High(Unsigned(32)) \in Nat /\ High(Unsigned(32)) + 1 = Size(Unsigned(32))
          /\ High(Signed(8)) \in Nat /\ 2 * (High(Signed(8)) + 1) = Size(Signed(8))
      BY <3>1, TypeBounds DEF Signed, Unsigned, Sizes
    <3>. QED BY <3>3, <3>4
  <2>5. 32 \in holding
    <3>1. CASE l < 0
      <4>1. cell(32) = Signed(32) /\ l = -1
        BY <3>1 DEF Signed
      <4>2. Signed(32) \in Types /\ Signed(32).kind = "signed"
        BY DEF Types, Sizes, Signed
      <4>3. Low(Signed(32)) <= -1 /\ Low(Signed(32)) \in Int /\ High(Signed(32)) \in Nat
        BY <4>2, TypeBounds
      <4>. QED BY <2>4, <4>1, <4>3 DEF Fits
    <3>2. CASE ~(l < 0)
      <4>1. cell(32) = Unsigned(32) /\ l \in {0, 1}
        BY <3>2 DEF Unsigned
      <4>2. Unsigned(32) \in Types /\ Unsigned(32).kind = "unsigned"
        BY DEF Types, Sizes, Unsigned
      <4>3. Low(Unsigned(32)) = 0 /\ High(Unsigned(32)) \in Nat
        BY <4>2, TypeBounds
      <4>. QED BY <2>4, <4>1, <4>3 DEF Fits
    <3>. QED BY <3>1, <3>2
  <2>6. Min(holding) \in holding
    <3>1. holding \in SUBSET Nat /\ holding # {}
      BY <2>5
    <3>. HIDE DEF holding
    <3>2. \E k \in holding : \A j \in holding : k <= j
      BY <3>1, Smallest
    <3>. QED BY <3>2 DEF Min
  <2>7. d.storage = cell(Min(holding)) /\ d.low = l /\ d.high = h
    BY <2>1, <2>2, <2>5
  <2>8. \A v \in {l, h} : Fits(v, cell(Min(holding)))
    BY <2>6
  <2>9. Min(holding) \in Sizes
    BY <2>6 DEF Sizes
  <2>. QED BY <2>3, <2>4, <2>7, <2>8, <2>9
<1>. QED BY <1>1, <1>2 DEF Domains

\* The carrier of a step holds the bits of the variable's cell.
LEMMA StepCarrier ==
  ASSUME NEW T \in Types, NEW D \in Types, NEW add \in BOOLEAN, NEW q \in BOOLEAN, NEW c \in BOOLEAN,
         NEW p \in Targets
  PROVE  LET R == bind_intrinsic_operation(add, T, D, q, c, p) IN
         /\ R \in Types /\ Bits(T) <= Bits(R)
         /\ q \/ c => /\ 1 <= High(R)
                      /\ ~Mismatch(T, D) => IsWithin(T, R) /\ IsWithin(D, R)
<1>. DEFINE op == IF add THEN "add" ELSE "sub"
            R == bind_intrinsic_operation(add, T, D, q, c, p)
            A == integer_arithmetic_primitive(op, T, D, p)
<1>1. /\ A \in Types /\ A.size \in {32, 64} /\ T.size <= A.size
      /\ ~Mismatch(T, D) => IsWithin(T, A) /\ IsWithin(D, A)
  BY ArithmeticCarrier DEF Targets
<1>2. R = IF q \/ c THEN A ELSE T
  BY DEF bind_intrinsic_operation
<1>. HIDE DEF A, R
<1>3. Bits(T) <= Bits(A)
  BY <1>1, Inclusion
<1>4. Bits(T) \in Nat
  BY TypeBounds
<1>5. 1 <= High(A)
  <2>1. PICK b \in Types : b = Signed(8)
    BY DEF Types, Sizes, Signed
  <2>2. Bits(b) < Bits(A)
    BY <1>1, <2>1, WidthAssumption DEF Bits, Signed, Sizes
  <2>3. 2 * Size(b) <= Size(A)
    BY <1>1, <2>2, Narrower
  <2>4. Size(b) \in Nat /\ Size(b) = 2 * (High(b) + 1) /\ High(b) \in Nat
    BY <2>1, TypeBounds DEF Signed
  <2>5. High(A) \in Nat /\ (Size(A) = 2 * (High(A) + 1) \/ Size(A) = High(A) + 1)
    BY <1>1, TypeBounds DEF Types
  <2>. QED BY <2>3, <2>4, <2>5
<1>. QED BY <1>1, <1>2, <1>3, <1>4, <1>5 DEF R

LEMMA VariablesFit ==
  ASSUME NEW x \in Variables
  PROVE  x.type \in Types /\ x.value \in Int /\ Fits(x.value, x.type)
<1>1. PICK t \in Types : x \in {[type |-> t, const |-> FALSE, value |-> v] : v \in Samples(t)}
  BY DEF Variables
<1>2. PICK v \in Samples(t) : x = [type |-> t, const |-> FALSE, value |-> v]
  BY <1>1
<1>. QED BY <1>1, <1>2, SamplesAssumption

\* A step of a variable that is in its bounds.
LEMMA StepsHold ==
  ASSUME NEW d \in Domains, NEW delta \in Variables, NEW add \in BOOLEAN, NEW q \in BOOLEAN, NEW c \in BOOLEAN,
         NEW p \in Targets, NEW v \in Samples(d.storage), d.low <= v, v <= d.high,
         NEW run, run = Step(add, d.storage, d.low, d.high, v, delta.type, delta.value, q, c, p),
         NEW n, n = v + (IF add THEN delta.value ELSE -delta.value),
         NEW R, R = bind_intrinsic_operation(add, d.storage, delta.type, q, c, p)
  PROVE  /\ Fine(run) => (run.value - n) % 2 ^ Bits(d.storage) = 0
         /\ Fine(run) /\ c => d.low <= run.value /\ run.value <= d.high
         /\ Fine(run) /\ c /\ Fits(n, R) /\ ~Mismatch(d.storage, delta.type) => run.value = n
         /\ ~Fine(run) => \/ n < d.low \/ n > d.high \/ ~Fits(n, R)
                          \/ Mismatch(d.storage, delta.type)
<1>. DEFINE T == d.storage
            D == delta.type
            e == delta.value
            low == d.low
            high == d.high
            op == IF add THEN "add" ELSE "sub"
<1>1. /\ T \in Types /\ low \in Int /\ high \in Int /\ Fits(low, T) /\ Fits(high, T) /\ low <= 1 /\ 0 <= high
  BY DomainBounds
<1>2. D \in Types /\ e \in Int /\ Fits(e, D)
  BY VariablesFit
<1>3. v \in Int /\ Fits(v, T) /\ low <= v /\ v <= high
  BY <1>1, SamplesAssumption
<1>4. /\ R \in Types /\ Bits(T) <= Bits(R)
      /\ q \/ c => /\ 1 <= High(R)
                   /\ ~Mismatch(T, D) => IsWithin(T, R) /\ IsWithin(D, R)
  BY <1>1, <1>2, StepCarrier
<1>5. run = ordinal_step(op, T, R, q, c, v, As(R, e), low, high)
  BY DEF Step
<1>6. op \in {"add", "sub"} /\ n = Stepped(op, v, e) /\ n \in Int
  BY <1>2, <1>3 DEF Stepped
<1>. HIDE DEF T, D, e, low, high, op
<1>7. PICK y \in Int :
        /\ Fits(y, R) /\ Congruent(R, y, n)
        /\ Fits(v, R) /\ Fits(e, R) /\ Fits(n, R) => y = n
        /\ Fine(run) => run.value = As(T, y) /\ (c => As(R, low) <= y /\ y <= As(R, high))
        /\ ~Fine(run) => \/ q /\ (Fits(v, R) /\ Fits(e, R) => ~Fits(n, R))
                         \/ c /\ ~(As(R, low) <= y /\ y <= As(R, high))
  <2>1. \E y \in Int :
        /\ Fits(y, R) /\ Congruent(R, y, Stepped(op, v, e))
        /\ Fits(v, R) /\ Fits(e, R) /\ Fits(Stepped(op, v, e), R) => y = Stepped(op, v, e)
        /\ Fine(run) => run.value = As(T, y) /\ (c => As(R, low) <= y /\ y <= As(R, high))
        /\ ~Fine(run) => \/ q /\ (Fits(v, R) /\ Fits(e, R) => ~Fits(Stepped(op, v, e), R))
                         \/ c /\ ~(As(R, low) <= y /\ y <= As(R, high))
    BY <1>1, <1>2, <1>3, <1>4, <1>5, <1>6, StepOutcome
  <2>. QED BY <1>6, <2>1
<1>8. As(T, y) \in Int /\ Congruent(T, As(T, y), y) /\ (Fits(y, T) => As(T, y) = y)
  BY <1>1, Conversion
<1>9. (q \/ c) /\ ~Mismatch(T, D) =>
        \A w \in Int : (Fits(w, T) => Fits(w, R)) /\ (Fits(w, D) => Fits(w, R))
  BY <1>1, <1>2, <1>4, Inclusion
<1>10. ASSUME Fine(run) PROVE (run.value - n) % 2 ^ Bits(T) = 0
  <2>1. Congruent(T, y, n)
    BY <1>1, <1>4, <1>6, <1>7, CongruentNarrower
  <2>2. Congruent(T, As(T, y), n)
    BY <1>1, <1>6, <1>8, <2>1, CongruentSteps
  <2>3. (As(T, y) - n) % Size(T) = 0
    BY <1>1, <1>6, <1>8, <2>2, CongruentSteps
  <2>. QED BY <1>7, <1>10, <2>3 DEF Size
<1>11. ASSUME Fine(run), c PROVE low <= y /\ y <= high /\ run.value = y
  <2>1. low <= y /\ y <= high
    BY <1>1, <1>4, <1>7, <1>11, BoundsHold
  <2>2. Fits(y, T)
    <3>1. Low(T) \in Int /\ High(T) \in Int
      BY <1>1, TypeBounds
    <3>. QED BY <1>1, <2>1, <3>1 DEF Fits
  <2>. QED BY <1>7, <1>8, <1>11, <2>1, <2>2
<1>12. ASSUME Fine(run), c, Fits(n, R), ~Mismatch(T, D) PROVE run.value = n
  BY <1>2, <1>3, <1>7, <1>9, <1>11, <1>12
<1>13. ASSUME ~Fine(run), ~Mismatch(T, D), Fits(n, R) PROVE n < low \/ n > high
  <2>1. (q \/ c) /\ Fits(v, R) /\ Fits(e, R) /\ Fits(low, R) /\ Fits(high, R)
    BY <1>1, <1>2, <1>3, <1>7, <1>9, <1>13
  <2>2. As(R, low) = low /\ As(R, high) = high
    BY <1>1, <1>4, <2>1, Conversion
  <2>3. y = n /\ ~(low <= y /\ y <= high)
    BY <1>7, <1>13, <2>1, <2>2
  <2>. QED BY <1>1, <1>6, <2>3
<1>14. Fine(run) /\ c => low <= run.value /\ run.value <= high
  BY <1>11
<1>. QED BY <1>10, <1>12, <1>13, <1>14 DEF T, D, e, low, high

\* Every assignment and every step, whatever the widths: none leaves a variable
\* with a number that it does not have. (emit_assign, bound_ordinal_step_to_cxx.)
THEOREM RangeCorrect == Spec => []VariablesStayInRange
<1>1. Init => VariablesStayInRange
  BY DEF Init, Idle, VariablesStayInRange, StepsStayInRange, AssignmentsAreExactOrRaise
<1>2. VariablesStayInRange /\ [Next]_vars => VariablesStayInRange'
  <2>. SUFFICES ASSUME VariablesStayInRange, [Next]_vars PROVE VariablesStayInRange'
    OBVIOUS
  <2>. DEFINE Other == expr'.kind \notin {"step", "assignment"}
  <2>1. Other => VariablesStayInRange'
    BY DEF VariablesStayInRange, StepsStayInRange, AssignmentsAreExactOrRaise
  <2>2. CASE OrdinalStep
    <3>1. PICK d \in Domains, delta \in Variables, add \in BOOLEAN, q \in BOOLEAN, c \in BOOLEAN, p \in Targets :
            \E v \in {w \in Samples(d.storage) : d.low <= w /\ w <= d.high} :
              expr' = [kind |-> "step", domain |-> d, value |-> v, delta |-> delta, add |-> add,
                       q_check |-> q, r_check |-> c, target |-> p,
                       run |-> Step(add, d.storage, d.low, d.high, v, delta.type, delta.value, q, c, p)]
      BY <2>2 DEF OrdinalStep
    <3>2. PICK v \in {w \in Samples(d.storage) : d.low <= w /\ w <= d.high} :
              expr' = [kind |-> "step", domain |-> d, value |-> v, delta |-> delta, add |-> add,
                       q_check |-> q, r_check |-> c, target |-> p,
                       run |-> Step(add, d.storage, d.low, d.high, v, delta.type, delta.value, q, c, p)]
      BY <3>1
    <3>3. PICK run : run = Step(add, d.storage, d.low, d.high, v, delta.type, delta.value, q, c, p)
      OBVIOUS
    <3>4. PICK n : n = v + (IF add THEN delta.value ELSE -delta.value)
      OBVIOUS
    <3>5. PICK R : R = bind_intrinsic_operation(add, d.storage, delta.type, q, c, p)
      OBVIOUS
    <3>6. v \in Samples(d.storage) /\ d.low <= v /\ v <= d.high
      OBVIOUS
    <3>7. /\ Fine(run) => (run.value - n) % 2 ^ Bits(d.storage) = 0
          /\ Fine(run) /\ c => d.low <= run.value /\ run.value <= d.high
          /\ Fine(run) /\ c /\ Fits(n, R) /\ ~Mismatch(d.storage, delta.type) => run.value = n
          /\ ~Fine(run) => \/ n < d.low \/ n > d.high \/ ~Fits(n, R)
                           \/ Mismatch(d.storage, delta.type)
      BY <3>3, <3>4, <3>5, <3>6, StepsHold
    <3>8. Mismatch(d.storage, delta.type) <=> Clash([type |-> d.storage], delta)
      BY DEF Mismatch, Clash
    <3>9. /\ expr'.kind = "step" /\ expr'.domain = d /\ expr'.delta = delta /\ expr'.run = run
          /\ expr'.value = v /\ expr'.add = add /\ expr'.q_check = q /\ expr'.r_check = c /\ expr'.target = p
      BY <3>2, <3>3
    <3>10. StepsStayInRange'
      BY <3>4, <3>5, <3>7, <3>8, <3>9 DEF StepsStayInRange
    <3>11. AssignmentsAreExactOrRaise'
      BY <3>9 DEF AssignmentsAreExactOrRaise
    <3>. QED BY <3>10, <3>11 DEF VariablesStayInRange
  <2>3. CASE Assignment
    <3>1. PICK dst \in Types, x \in Variables, c \in BOOLEAN, special \in BOOLEAN :
            expr' = [kind |-> "assignment", dst |-> dst, x |-> x, r_check |-> c, special |-> special,
                     run |-> Assign(dst, x.type, x.value, c, special)]
      BY <2>3 DEF Assignment
    <3>2. x.type \in Types /\ x.value \in Int /\ Fits(x.value, x.type)
      BY VariablesFit
    <3>3. c /\ ~special => Assign(dst, x.type, x.value, c, special)
                           = IF Fits(x.value, dst) THEN Returns(x.value) ELSE Raises("range")
      BY <3>2, AssignmentIsExact
    <3>4. AssignmentsAreExactOrRaise'
      BY <3>1, <3>3 DEF AssignmentsAreExactOrRaise
    <3>5. StepsStayInRange'
      BY <3>1 DEF StepsStayInRange
    <3>. QED BY <3>4, <3>5 DEF VariablesStayInRange
  <2>4. CASE UNCHANGED vars
    BY <2>4 DEF vars, VariablesStayInRange, StepsStayInRange, AssignmentsAreExactOrRaise
  <2>5. CASE Finish
    BY <2>1, <2>5 DEF Finish, Idle
  <2>6. CASE BinaryExpression
    BY <2>1, <2>6 DEF BinaryExpression
  <2>7. CASE ConstantExpression
    BY <2>1, <2>7 DEF ConstantExpression
  <2>8. CASE Negation
    BY <2>1, <2>8 DEF Negation
  <2>9. CASE Function
    BY <2>1, <2>9 DEF Function
  <2>10. CASE ConstantStep
    BY <2>1, <2>10 DEF ConstantStep
  <2>11. CASE Helper
    BY <2>1, <2>11 DEF Helper
  <2>12. CASE Call
    BY <2>1, <2>12 DEF Call
  <2>13. CASE ProcValue
    BY <2>1, <2>13 DEF ProcValue
  <2>. QED BY <2>2, <2>3, <2>4, <2>5, <2>6, <2>7, <2>8, <2>9, <2>10, <2>11, <2>12, <2>13 DEF Next
<1>. QED BY <1>1, <1>2, PTL DEF Spec

-----------------------------------------------------------------------------
(* The greatest of some numbers.                                           *)

LEMMA Largest ==
  ASSUME NEW k \in Nat, NEW R \in SUBSET (1 .. k), R # {}
  PROVE  Max(R) \in R /\ \A j \in R : j <= Max(R)
<1>1. PICK Gaps \in SUBSET Nat : Gaps = {k - i : i \in R}
  <2>1. {k - i : i \in R} \in SUBSET Nat
    OBVIOUS
  <2>. QED BY <2>1
<1>2. PICK g \in Gaps : \A j \in Gaps : g <= j
  <2>1. Gaps # {}
    BY <1>1
  <2>. QED BY <2>1, Smallest
<1>3. PICK m \in R : g = k - m
  BY <1>1, <1>2
<1>4. ASSUME NEW j \in R PROVE j <= m
  <2>1. k - j \in Gaps
    BY <1>1
  <2>2. k - m <= k - j
    BY <1>2, <1>3, <2>1
  <2>. QED BY <2>2, <1>3
<1>5. \E x \in R : \A y \in R : x >= y
  BY <1>4
<1>. QED BY <1>5 DEF Max

-----------------------------------------------------------------------------
(* One pass over the candidates.                                           *)

\* What is left of the candidates of a call: scores of the same actuals.
AreScored(scored) ==
  /\ DOMAIN scored # {} /\ \E n \in Nat : DOMAIN scored \subseteq 1 .. n
  /\ \A i, j \in DOMAIN scored : DOMAIN scored[i].scores = DOMAIN scored[j].scores
LastPlace(scored) == Max(DOMAIN scored)
IsPass(scored, k, best) == best = [i \in 0 .. k |-> IF i = 0 THEN 0 ELSE Kept(scored, i, best[i - 1])]

LEMMA LastFacts ==
  ASSUME NEW scored, AreScored(scored)
  PROVE  LastPlace(scored) \in DOMAIN scored /\ LastPlace(scored) \in Nat \ {0} /\ \A i \in DOMAIN scored : i \in 1 .. LastPlace(scored)
<1>1. PICK n \in Nat : DOMAIN scored \subseteq 1 .. n
  BY DEF AreScored
<1>2. LastPlace(scored) \in DOMAIN scored /\ \A i \in DOMAIN scored : i <= LastPlace(scored)
  BY <1>1, Largest DEF AreScored, LastPlace
<1>. QED BY <1>1, <1>2

LEMMA PassExists ==
  ASSUME NEW scored, NEW n \in Nat
  PROVE  \E best : IsPass(scored, n, best)
<1>. DEFINE None == {k \in Nat : ~ \E best : IsPass(scored, k, best)}
<1>1. SUFFICES ASSUME None # {} PROVE FALSE
  OBVIOUS
<1>2. PICK k \in None : \A j \in None : k <= j
  BY <1>1, Smallest
<1>3. CASE k = 0
  <2>1. PICK best : best = [i \in 0 .. 0 |-> 0]
    OBVIOUS
  <2>2. IsPass(scored, 0, best)
    BY <2>1 DEF IsPass
  <2>. QED BY <1>2, <1>3, <2>2
<1>4. CASE k # 0
  <2>1. k - 1 \in Nat /\ k - 1 \notin None
    BY <1>2, <1>4
  <2>2. PICK best : IsPass(scored, k - 1, best)
    BY <2>1
  <2>3. PICK more : more = [i \in 0 .. k |-> IF i = k THEN Kept(scored, k, best[k - 1]) ELSE best[i]]
    OBVIOUS
  <2>4. ASSUME NEW i \in 0 .. k PROVE more[i] = IF i = 0 THEN 0 ELSE Kept(scored, i, more[i - 1])
    <3>1. CASE i = k
      BY <3>1, <1>4, <2>3
    <3>2. CASE i # k
      <4>1. i \in 0 .. k - 1 /\ more[i] = best[i] /\ (i # 0 => more[i - 1] = best[i - 1])
        BY <3>2, <2>3
      <4>2. best[i] = IF i = 0 THEN 0 ELSE Kept(scored, i, best[i - 1])
        BY <4>1, <2>2 DEF IsPass
      <4>. QED BY <4>1, <4>2
    <3>. QED BY <3>1, <3>2
  <2>5. IsPass(scored, k, more)
    BY <2>3, <2>4 DEF IsPass
  <2>. QED BY <2>5, <1>2
<1>. QED BY <1>3, <1>4

LEMMA SurvivorIsLast ==
  ASSUME NEW scored, AreScored(scored)
  PROVE  \E best : /\ best[0] = 0 /\ Survivor(scored) = best[LastPlace(scored)]
                   /\ \A i \in 1 .. LastPlace(scored) : best[i] = Kept(scored, i, best[i - 1])
<1>1. PICK best : IsPass(scored, LastPlace(scored), best) /\ Survivor(scored) = best[LastPlace(scored)]
  <2>1. \E some : IsPass(scored, LastPlace(scored), some)
    BY LastFacts, PassExists
  <2>. DEFINE best == CHOOSE f : f = [i \in 0 .. Max(DOMAIN scored) |->
                                        IF i = 0 THEN 0 ELSE Kept(scored, i, f[i - 1])]
  <2>2. IsPass(scored, LastPlace(scored), best)
    BY <2>1 DEF IsPass, LastPlace
  <2>3. Survivor(scored) = best[LastPlace(scored)]
    BY DEF Survivor, LastPlace
  <2>. QED BY <2>2, <2>3
<1>2. \A i \in 0 .. LastPlace(scored) : best[i] = IF i = 0 THEN 0 ELSE Kept(scored, i, best[i - 1])
  BY <1>1 DEF IsPass
<1>3. LastPlace(scored) \in Nat
  BY LastFacts
<1>4. best[0] = 0
  BY <1>2, <1>3
<1>5. \A i \in 1 .. LastPlace(scored) : best[i] = Kept(scored, i, best[i - 1])
  BY <1>2, <1>3
<1>. QED BY <1>1, <1>4, <1>5

\* What the pass leaves is one of the candidates.
LEMMA SurvivorIsLeft ==
  ASSUME NEW scored, AreScored(scored)
  PROVE  Survivor(scored) \in DOMAIN scored
<1>1. PICK best : /\ best[0] = 0 /\ Survivor(scored) = best[LastPlace(scored)]
                  /\ \A i \in 1 .. LastPlace(scored) : best[i] = Kept(scored, i, best[i - 1])
  BY SurvivorIsLast
<1>. DEFINE Wrong == {k \in 0 .. LastPlace(scored) : best[k] \notin {0} \cup DOMAIN scored}
<1>2. Wrong = {}
  <2>1. SUFFICES ASSUME Wrong # {} PROVE FALSE
    OBVIOUS
  <2>2. Wrong \in SUBSET Nat
    BY LastFacts
  <2>3. PICK k \in Wrong : \A j \in Wrong : k <= j
    BY <2>1, <2>2, Smallest
  <2>4. k # 0 /\ k \in 1 .. LastPlace(scored) /\ k - 1 \in 0 .. LastPlace(scored) /\ k - 1 \notin Wrong
    BY <1>1, <2>3, LastFacts
  <2>5. best[k] = best[k - 1] \/ best[k] \in DOMAIN scored
    BY <1>1, <2>4 DEF Kept
  <2>. QED BY <2>3, <2>4, <2>5
<1>3. LastPlace(scored) - 1 \in 0 .. LastPlace(scored) /\ LastPlace(scored) \in 1 .. LastPlace(scored) /\ LastPlace(scored) \in DOMAIN scored
  BY LastFacts
<1>4. best[LastPlace(scored) - 1] \in {0} \cup DOMAIN scored
  BY <1>2, <1>3
<1>5. best[LastPlace(scored)] = Kept(scored, LastPlace(scored), best[LastPlace(scored) - 1])
  BY <1>1, <1>3
<1>. QED BY <1>1, <1>3, <1>4, <1>5 DEF Kept

BeatsAll(scored, m) ==
  m \in DOMAIN scored /\ \A i \in DOMAIN scored \ {m} : conversion_candidate_dominates(scored[m], scored[i])

\* Of two candidates at most one beats the other.
LEMMA OneBeats ==
  ASSUME NEW c, NEW d, DOMAIN c.scores = DOMAIN d.scores, conversion_candidate_dominates(c, d)
  PROVE  ~conversion_candidate_dominates(d, c)
BY DEF conversion_candidate_dominates

\* What beats all others is left, wherever it stands.
LEMMA BestSurvives ==
  ASSUME NEW scored, AreScored(scored), NEW m, BeatsAll(scored, m)
  PROVE  Survivor(scored) = m
<1>1. PICK best : /\ best[0] = 0 /\ Survivor(scored) = best[LastPlace(scored)]
                  /\ \A i \in 1 .. LastPlace(scored) : best[i] = Kept(scored, i, best[i - 1])
  BY SurvivorIsLast
<1>2. m \in DOMAIN scored /\ m \in 1 .. LastPlace(scored) /\ LastPlace(scored) \in Nat
  BY LastFacts DEF BeatsAll
<1>3. \A i \in DOMAIN scored \ {m} : /\ conversion_candidate_dominates(scored[m], scored[i])
                                     /\ ~conversion_candidate_dominates(scored[i], scored[m])
  BY <1>2, OneBeats DEF BeatsAll, AreScored
<1>. DEFINE Right(k) == IF k < m THEN best[k] \in {0} \cup (DOMAIN scored \ {m}) ELSE best[k] = m
            Wrong == {k \in 0 .. LastPlace(scored) : ~Right(k)}
<1>4. Wrong = {}
  <2>1. SUFFICES ASSUME Wrong # {} PROVE FALSE
    OBVIOUS
  <2>2. Wrong \in SUBSET Nat
    BY <1>2
  <2>3. PICK k \in Wrong : \A j \in Wrong : k <= j
    BY <2>1, <2>2, Smallest
  <2>4. k # 0 /\ k \in 1 .. LastPlace(scored) /\ k - 1 \in 0 .. LastPlace(scored) /\ k - 1 \notin Wrong
    BY <1>1, <1>2, <2>3
  <2>5. Right(k - 1) /\ ~Right(k)
    BY <2>3, <2>4
  <2>6. best[k] = Kept(scored, k, best[k - 1])
    BY <1>1, <2>4
  <2>7. CASE k < m
    <3>1. best[k - 1] \in {0} \cup (DOMAIN scored \ {m}) /\ k # m
      BY <2>7, <2>5, <2>4, <1>2
    <3>. QED BY <3>1, <2>5, <2>6, <2>7 DEF Kept
  <2>8. CASE k = m
    <3>1. best[k - 1] \in {0} \cup (DOMAIN scored \ {m})
      BY <2>8, <2>5, <2>4, <1>2
    <3>. QED BY <3>1, <2>5, <2>6, <2>8, <1>2, <1>3 DEF Kept
  <2>9. CASE k > m
    <3>1. best[k - 1] = m /\ k # m /\ m # 0
      BY <2>9, <2>5, <2>4, <1>2
    <3>2. best[k] = m
      BY <3>1, <2>6, <1>3 DEF Kept
    <3>. QED BY <3>2, <2>5, <2>9, <2>4, <1>2
  <2>. QED BY <2>7, <2>8, <2>9, <2>4, <1>2
<1>5. LastPlace(scored) \in 0 .. LastPlace(scored) /\ ~(LastPlace(scored) < m)
  BY <1>2
<1>. QED BY <1>1, <1>4, <1>5

\* So the pick is what beats all others, or there is no such thing.
LEMMA PickOfPass ==
  ASSUME NEW scored, AreScored(scored)
  PROVE  \/ \E m \in DOMAIN scored : BeatsAll(scored, m) /\ pick_dominating(scored) = Picked(scored[m].decl)
         \/ (\A m \in DOMAIN scored : ~BeatsAll(scored, m)) /\ pick_dominating(scored) = Ambiguous
<1>1. Survivor(scored) \in DOMAIN scored
  BY SurvivorIsLeft
<1>2. CASE BeatsAll(scored, Survivor(scored))
  BY <1>1, <1>2 DEF pick_dominating, BeatsAll
<1>3. CASE ~BeatsAll(scored, Survivor(scored))
  <2>1. pick_dominating(scored) = Ambiguous
    BY <1>1, <1>3 DEF pick_dominating, BeatsAll
  <2>2. \A m \in DOMAIN scored : ~BeatsAll(scored, m)
    BY <1>3, BestSurvives
  <2>. QED BY <2>1, <2>2
<1>. QED BY <1>2, <1>3

-----------------------------------------------------------------------------
(* The cost of a conversion of an integer.                                 *)

EarlyRanks == {"Exact", "Equal", "IntDomainCompatible"}
OtherKinds == {"SetCompatible", "ClassHierarchy"}

LEMMA EarlierRank ==
  ASSUME NEW q \in EarlyRanks, NEW r \in ToSet(Ranks), r \notin EarlyRanks, r \notin OtherKinds
  PROVE  Position[q] < Position[r]
<1>1. Len(Ranks) = 16 /\ DOMAIN Ranks = 1 .. 16
  BY DEF Ranks
<1>2. /\ Ranks[1] = "Exact" /\ Ranks[2] = "Equal" /\ Ranks[3] = "SetCompatible" /\ Ranks[4] = "ClassHierarchy"
      /\ Ranks[5] = "IntDomainCompatible" /\ \A i \in 6 .. 16 : Ranks[i] \notin EarlyRanks
  BY DEF Ranks, EarlyRanks
<1>3. ASSUME NEW x \in ToSet(Ranks) PROVE Position[x] \in 1 .. 16 /\ Ranks[Position[x]] = x
  <2>1. \E i \in DOMAIN Ranks : Ranks[i] = x
    BY DEF ToSet
  <2>2. Position[x] = CHOOSE i \in DOMAIN Ranks : Ranks[i] = x
    BY DEF Position
  <2>. QED BY <2>1, <2>2, <1>1
<1>4. q \in ToSet(Ranks)
  BY <1>1, <1>2 DEF ToSet, EarlyRanks
<1>5. Position[q] \in 1 .. 16 /\ Ranks[Position[q]] = q /\ Position[r] \in 1 .. 16 /\ Ranks[Position[r]] = r
  BY <1>3, <1>4
<1>6. Position[q] \in 1 .. 5
  BY <1>2, <1>5
<1>7. Position[r] \in 6 .. 16
  <2>1. \A i \in 1 .. 16 : i \in 6 .. 16 \/ i = 1 \/ i = 2 \/ i = 3 \/ i = 4 \/ i = 5
    OBVIOUS
  <2>. QED BY <1>2, <1>5, <2>1 DEF EarlyRanks, OtherKinds
<1>. QED BY <1>6, <1>7

Ranked(s) == s = NotViable \/ s.rank \in ToSet(Ranks)

LEMMA RankNames ==
  /\ ToSet(Ranks) = {"Exact", "Equal", "SetCompatible", "ClassHierarchy", "IntDomainCompatible",
           "IntWideningSameSign", "RealWidening", "RealNarrowing", "StringSameTagWiden",
           "StringToShortString", "StringToAnsiString", "OrdinalSignChange", "IntNarrowing",
           "IntegerToReal", "PointerValueConversion", "Operator"}
<1>1. Len(Ranks) = 16 /\ DOMAIN Ranks = 1 .. 16
  BY DEF Ranks
<1>2. \A i \in 1 .. 16 : i = 1 \/ i = 2 \/ i = 3 \/ i = 4 \/ i = 5 \/ i = 6 \/ i = 7 \/ i = 8 \/ i = 9 \/ i = 10
         \/ i = 11 \/ i = 12 \/ i = 13 \/ i = 14 \/ i = 15 \/ i = 16
  OBVIOUS
<1>. QED BY <1>1, <1>2 DEF Ranks, ToSet

LEMMA ConversionRanked ==
  ASSUME NEW arg, NEW param, NEW var_param
  PROVE  /\ Ranked(rank_conversion(arg, param, var_param))
         /\ rank_conversion(arg, param, var_param).rank # "IntDomainCompatible"
BY RankNames DEF rank_conversion, Ranked, Score, ScoreIf, Else, Viable, NotViable, classify_set_conversion,
   HierarchyScore, WideningScore, SignChangeScore, RealScore, StringScore

\* What an actual that is an integer is asked for beside its conversion.
DomainOf(arg) == integer_actual_domain_for_expr(arg)
IsIntegral(arg) == DomainOf(arg) # NoDomain
ConstantsAreIntegers(arg) == arg.form = "constant" => IsInt(arg.type)
Room(arg, formal) == rank_integer_domain_conversion(DomainOf(arg), formal.type, formal.var_param)

LEMMA IntegralActual ==
  ASSUME NEW arg, IsIntegral(arg), ConstantsAreIntegers(arg)
  PROVE  arg.form \in {"constant", "value"} /\ Shape(arg.type).tag \in {"int", "subrange"}
<1>1. CASE arg.form = "constant"
  BY <1>1 DEF ConstantsAreIntegers, IsInt, Shape
<1>2. CASE arg.form # "constant"
  BY <1>2 DEF IsIntegral, DomainOf, integer_actual_domain_for_expr, integer_actual_domain_for_type
<1>. QED BY <1>1, <1>2

LEMMA IntegralConversion ==
  ASSUME NEW arg, NEW param, NEW var_param, Shape(arg).tag \in {"int", "subrange"}
  PROVE  rank_conversion(arg, param, var_param).rank \notin OtherKinds
<1>1. ~Inherits(Shape(arg), Shape(param))
  BY DEF Inherits, SameClassKind
<1>2. classify_set_conversion(Shape(arg), Shape(param), var_param).rank \notin OtherKinds \/ Shape(arg).tag = Shape(param).tag
  BY DEF classify_set_conversion, NotViable, Score, OtherKinds
<1>. QED
  BY <1>1, <1>2 DEF rank_conversion, OtherKinds, Score, ScoreIf, Else, Viable, NotViable,
     WideningScore, SignChangeScore, RealScore, StringScore

LEMMA RoomFacts ==
  ASSUME NEW arg, NEW formal
  PROVE  /\ Viable(Room(arg, formal)) <=>
              ~formal.var_param /\ IsInt(formal.type) /\ integer_domain_fits_primitive(DomainOf(arg), IntOf(formal.type))
         /\ Viable(Room(arg, formal)) => Room(arg, formal).rank = "IntDomainCompatible"
BY DEF Room, rank_integer_domain_conversion, Viable, NotViable, Score

LEMMA IntegralScore ==
  ASSUME NEW arg, NEW formal, NEW operators, IsIntegral(arg), ConstantsAreIntegers(arg)
  PROVE  LET s == score_argument_conversion(arg, formal, operators)
         IN /\ Ranked(s) /\ s.rank \notin OtherKinds
            /\ Viable(Room(arg, formal)) => s = Room(arg, formal) \/ s.rank = "Exact"
            /\ ~Viable(Room(arg, formal)) => s.rank # "IntDomainCompatible"
<1>. DEFINE s == score_argument_conversion(arg, formal, operators)
            q == Room(arg, formal)
            direct == rank_conversion(arg.type, formal.type, formal.var_param)
            pointers == ~formal.var_param /\ classify_pointer_conversion(Shape(formal.type), Shape(arg.type))
            operator == ~formal.var_param /\ find_assignment_operator(operators, arg.type, formal.type)
            p == Shape(formal.type)
            rest == IF direct.rank = "Exact" THEN direct
                    ELSE Else(ScoreIf(pointers, "PointerValueConversion"),
                              Else(q, Else(direct, ScoreIf(operator, "Operator"))))
<1>1. arg.form \in {"constant", "value"} /\ Shape(arg.type).tag \in {"int", "subrange"}
  BY IntegralActual
<1>2. s = IF p.tag = "Pointer" /\ arg.type = formal.type THEN Score("Exact", 0)
          ELSE IF p.tag = "Pointer" /\ type_is_pointerish(Shape(arg.type)) THEN Score("PointerValueConversion", 0)
          ELSE rest
  BY <1>1, SMTT(30) DEF score_argument_conversion, Room, DomainOf, IsIntegral
<1>3. ~type_is_pointerish(Shape(arg.type)) /\ ~pointers
  BY <1>1 DEF type_is_pointerish, classify_pointer_conversion, native_pointer
<1>4. ~(p.tag = "Pointer" /\ arg.type = formal.type)
  BY <1>1
<1>5. s = IF direct.rank = "Exact" THEN direct ELSE Else(q, Else(direct, ScoreIf(operator, "Operator")))
  <2>1. ~Viable(ScoreIf(pointers, "PointerValueConversion"))
    BY <1>3 DEF Viable, ScoreIf
  <2>2. s = rest
    BY <1>2, <1>3, <1>4
  <2>. HIDE DEF pointers, q, operator
  <2>. QED BY <2>1, <2>2 DEF Else
<1>6. Ranked(direct) /\ direct.rank # "IntDomainCompatible" /\ direct.rank \notin OtherKinds
  BY <1>1, ConversionRanked, IntegralConversion
<1>7. Viable(q) => q.rank = "IntDomainCompatible"
  BY RoomFacts
<1>8. ScoreIf(operator, "Operator") = NotViable \/ ScoreIf(operator, "Operator").rank = "Operator"
  BY DEF ScoreIf, Score
<1>9. NotViable.rank = "NotViable"
  BY DEF NotViable, Score
<1>. HIDE DEF s, q, direct, operator
<1>10. /\ Ranked(s) /\ s.rank \notin OtherKinds
       /\ Viable(q) => s = q \/ s.rank = "Exact"
       /\ ~Viable(q) => s.rank # "IntDomainCompatible"
  BY <1>5, <1>6, <1>7, <1>8, <1>9, RankNames DEF Ranked, Else, Viable, OtherKinds
<1>. QED BY <1>10 DEF s, q

-----------------------------------------------------------------------------
(* The candidates whose integer formals hold the domains come first.       *)

TakesAll(r, args, operators) == AllViable(Scored(r, args, operators))
HoldsAll(r, args, operators) == AllViable(DomainScored(Scored(r, args, operators), args))
ScoreAt(r, args, operators, i) == score_argument_conversion(args[i], Formals(r)[i], operators)
ConstantsFit(args) == \A i \in DOMAIN args : ConstantsAreIntegers(args[i])

LEMMA ScoresAre ==
  ASSUME NEW r, NEW args, NEW operators
  PROVE  /\ Scored(r, args, operators).decl = r
         /\ DOMAIN Scored(r, args, operators).scores = DOMAIN args
         /\ \A i \in DOMAIN args : Scored(r, args, operators).scores[i] = ScoreAt(r, args, operators, i)
         /\ TakesAll(r, args, operators) <=> \A i \in DOMAIN args : Viable(ScoreAt(r, args, operators, i))
         /\ HoldsAll(r, args, operators) <=>
              \A i \in DOMAIN args : Viable(DomainScore(r, args, i, ScoreAt(r, args, operators, i)))
BY DEF Scored, ScoreAt, TakesAll, HoldsAll, AllViable, DomainScored

LEMMA DomainScoreIs ==
  ASSUME NEW r, NEW args, NEW operators, ConstantsFit(args), NEW i \in DOMAIN args,
         Viable(ScoreAt(r, args, operators, i))
  PROVE  LET s == ScoreAt(r, args, operators, i)
         IN IF Viable(DomainScore(r, args, i, s))
            THEN DomainScore(r, args, i, s) = s /\ (IsIntegral(args[i]) => s.rank \in EarlyRanks)
            ELSE IsIntegral(args[i]) /\ s.rank \in ToSet(Ranks) /\ s.rank \notin EarlyRanks /\ s.rank \notin OtherKinds
<1>. DEFINE s == ScoreAt(r, args, operators, i)
            q == Room(args[i], Formals(r)[i])
<1>1. DomainScore(r, args, i, s) = IF ~IsIntegral(args[i]) \/ s.rank \in {"Exact", "Equal"} THEN s ELSE q
  BY DEF DomainScore, IsIntegral, DomainOf, Room
<1>2. IsIntegral(args[i]) => /\ Ranked(s) /\ s.rank \notin OtherKinds
                             /\ Viable(q) => s = q \/ s.rank = "Exact"
                             /\ ~Viable(q) => s.rank # "IntDomainCompatible"
  BY IntegralScore DEF ConstantsFit, ScoreAt
<1>3. Viable(q) => q.rank = "IntDomainCompatible"
  BY RoomFacts
<1>4. Viable(s)
  OBVIOUS
<1>. HIDE DEF s, q
<1>5. IF Viable(DomainScore(r, args, i, s))
      THEN DomainScore(r, args, i, s) = s /\ (IsIntegral(args[i]) => s.rank \in EarlyRanks)
      ELSE IsIntegral(args[i]) /\ s.rank \in ToSet(Ranks) /\ s.rank \notin EarlyRanks /\ s.rank \notin OtherKinds
  BY <1>1, <1>2, <1>3, <1>4 DEF Ranked, Viable, EarlyRanks
<1>. QED BY <1>5 DEF s

\* To hold the domains changes no score of a candidate that takes the actuals.
LEMMA HoldingKeepsScores ==
  ASSUME NEW r, NEW args, NEW operators, ConstantsFit(args), TakesAll(r, args, operators), HoldsAll(r, args, operators)
  PROVE  DomainScored(Scored(r, args, operators), args) = Scored(r, args, operators)
<1>1. \A i \in DOMAIN args : DomainScore(r, args, i, ScoreAt(r, args, operators, i)) = ScoreAt(r, args, operators, i)
  BY ScoresAre, DomainScoreIs
<1>. QED BY <1>1 DEF DomainScored, Scored, ScoreAt

\* One that does not hold the domains beats none that does.
LEMMA HoldersAreNotBeaten ==
  ASSUME NEW args, NEW operators, ConstantsFit(args),
         NEW r, TakesAll(r, args, operators), ~HoldsAll(r, args, operators),
         NEW p, TakesAll(p, args, operators), HoldsAll(p, args, operators)
  PROVE  ~conversion_candidate_dominates(Scored(r, args, operators), Scored(p, args, operators))
<1>1. PICK i \in DOMAIN args : ~Viable(DomainScore(r, args, i, ScoreAt(r, args, operators, i)))
  BY ScoresAre
<1>2. Viable(ScoreAt(r, args, operators, i)) /\ Viable(ScoreAt(p, args, operators, i))
      /\ Viable(DomainScore(p, args, i, ScoreAt(p, args, operators, i)))
  BY ScoresAre
<1>3. /\ IsIntegral(args[i]) /\ ScoreAt(r, args, operators, i).rank \in ToSet(Ranks)
      /\ ScoreAt(r, args, operators, i).rank \notin EarlyRanks /\ ScoreAt(r, args, operators, i).rank \notin OtherKinds
  BY <1>1, <1>2, DomainScoreIs
<1>4. ScoreAt(p, args, operators, i).rank \in EarlyRanks
  BY <1>2, <1>3, DomainScoreIs
<1>5. conversion_score_less(ScoreAt(p, args, operators, i), ScoreAt(r, args, operators, i))
  BY <1>3, <1>4, EarlierRank DEF conversion_score_less
<1>. QED BY <1>5, ScoresAre DEF conversion_candidate_dominates

-----------------------------------------------------------------------------
(* The outcome of a call, whatever the order of the declarations.          *)

OfItsArity(V, args) == {r \in V : ArityOk(r, args)}
Takers(V, args, operators) == {r \in OfItsArity(V, args) : TakesAll(r, args, operators)}
Holders(V, args, operators) == {r \in Takers(V, args, operators) : HoldsAll(r, args, operators)}
Asked(args) == \E i \in DOMAIN args : IsIntegral(args[i])
Pool(V, args, operators) ==
  IF Asked(args) /\ Holders(V, args, operators) # {} THEN Holders(V, args, operators) ELSE Takers(V, args, operators)
Surpasses(r, s, args, operators) ==
  conversion_candidate_dominates(Scored(r, args, operators), Scored(s, args, operators))
Wins(r, P, args, operators) == r \in P /\ \A s \in P \ {r} : Surpasses(r, s, args, operators)
BestOf(P, args, operators, outcome) ==
  \/ \E r \in P : Wins(r, P, args, operators) /\ outcome = Picked(r)
  \/ (\A r \in P : ~Wins(r, P, args, operators)) /\ outcome = Ambiguous
IsOutcome(V, args, operators, outcome) ==
  IF Takers(V, args, operators) = {} THEN outcome = Unresolved
  ELSE BestOf(Pool(V, args, operators), args, operators, outcome)

LEMMA OneSurpasses ==
  ASSUME NEW r, NEW s, NEW args, NEW operators, Surpasses(r, s, args, operators)
  PROVE  ~Surpasses(s, r, args, operators)
BY ScoresAre, OneBeats DEF Surpasses

LEMMA OneOutcome ==
  ASSUME NEW V, NEW args, NEW operators, NEW o, NEW p,
         IsOutcome(V, args, operators, o), IsOutcome(V, args, operators, p)
  PROVE  o = p
<1>1. CASE Takers(V, args, operators) = {}
  BY <1>1 DEF IsOutcome
<1>2. CASE Takers(V, args, operators) # {}
  <2>. DEFINE P == Pool(V, args, operators)
  <2>1. BestOf(P, args, operators, o) /\ BestOf(P, args, operators, p)
    BY <1>2 DEF IsOutcome
  <2>2. ASSUME NEW r \in P, NEW s \in P, Wins(r, P, args, operators), Wins(s, P, args, operators) PROVE r = s
    BY <2>2, OneSurpasses DEF Wins
  <2>. HIDE DEF P
  <2>. QED BY <2>1, <2>2 DEF BestOf
<1>. QED BY <1>1, <1>2

LEMMA OrderFacts ==
  ASSUME NEW V, IsFiniteSet(V), NEW order \in SetToSeqs(V)
  PROVE  \E n \in Nat : /\ n = Cardinality(V) /\ DOMAIN order = 1 .. n /\ \A i \in 1 .. n : order[i] \in V
                        /\ \A i, j \in 1 .. n : order[i] = order[j] => i = j
                        /\ \A r \in V : \E i \in 1 .. n : order[i] = r
<1>1. Cardinality(V) \in Nat
  BY FS_CardinalityType
<1>2. PICK n \in Nat : n = Cardinality(V)
  BY <1>1
<1>3. order \in [1 .. n -> V] /\ \A i, j \in 1 .. n : i # j => order[i] # order[j]
  BY <1>2 DEF SetToSeqs
<1>4. order \in Injection(1 .. n, V)
  BY <1>3 DEF Injection, IsInjective
<1>5. Cardinality(1 .. n) = n
  BY FS_Interval
<1>6. order \in Surjection(1 .. n, V)
  BY <1>2, <1>4, <1>5, FS_Injection
<1>7. \A r \in V : \E i \in 1 .. n : order[i] = r
  BY <1>6 DEF Surjection
<1>. QED BY <1>2, <1>3, <1>7

LEMMA AnOrderExists ==
  ASSUME NEW V, IsFiniteSet(V)
  PROVE  SetToSeqs(V) # {}
<1>1. PICK f \in Bijection(1 .. Cardinality(V), V) : TRUE
  BY FS_CardinalityType DEF ExistsBijection
<1>2. f \in [1 .. Cardinality(V) -> V] /\ \A i, j \in 1 .. Cardinality(V) : i # j => f[i] # f[j]
  BY <1>1 DEF Bijection, Injection, IsInjective
<1>. QED BY <1>2 DEF SetToSeqs

\* The places I of an order hold the routines P.
LEMMA PassPicksBest ==
  ASSUME NEW args, NEW operators, NEW order, NEW n \in Nat, NEW I \in SUBSET (1 .. n), I # {},
         NEW P, P = {order[i] : i \in I},
         \A i, j \in I : order[i] = order[j] => i = j,
         NEW scored, DOMAIN scored = I, \A i \in I : scored[i] = Scored(order[i], args, operators)
  PROVE  BestOf(P, args, operators, pick_dominating(scored))
<1>1. AreScored(scored)
  <2>1. \A i \in I : DOMAIN scored[i].scores = DOMAIN args
    BY ScoresAre
  <2>2. \E m \in Nat : I \subseteq 1 .. m
    OBVIOUS
  <2>. QED BY <2>1, <2>2 DEF AreScored
<1>2. ASSUME NEW i \in I, NEW j \in I
      PROVE  conversion_candidate_dominates(scored[i], scored[j]) <=> Surpasses(order[i], order[j], args, operators)
  BY DEF Surpasses
<1>3. ASSUME NEW i \in I PROVE BeatsAll(scored, i) <=> Wins(order[i], P, args, operators)
  <2>1. \A s \in P \ {order[i]} : \E j \in I \ {i} : s = order[j]
    OBVIOUS
  <2>2. \A j \in I \ {i} : order[j] \in P \ {order[i]}
    OBVIOUS
  <2>3. ASSUME BeatsAll(scored, i) PROVE Wins(order[i], P, args, operators)
    <3>1. ASSUME NEW s \in P \ {order[i]} PROVE Surpasses(order[i], s, args, operators)
      <4>1. PICK j \in I \ {i} : s = order[j]
        BY <2>1
      <4>. QED BY <4>1, <1>2, <2>3 DEF BeatsAll
    <3>. QED BY <3>1 DEF Wins
  <2>4. ASSUME Wins(order[i], P, args, operators) PROVE BeatsAll(scored, i)
    <3>1. ASSUME NEW j \in I \ {i} PROVE conversion_candidate_dominates(scored[i], scored[j])
      <4>1. order[j] \in P \ {order[i]}
        BY <2>2
      <4>. QED BY <4>1, <1>2, <2>4 DEF Wins
    <3>. QED BY <3>1 DEF BeatsAll
  <2>. QED BY <2>3, <2>4
<1>4. \A i \in I : scored[i].decl = order[i]
  BY ScoresAre
<1>5. CASE \E i \in I : BeatsAll(scored, i) /\ pick_dominating(scored) = Picked(scored[i].decl)
  BY <1>5, <1>3, <1>4 DEF BestOf
<1>6. CASE (\A i \in I : ~BeatsAll(scored, i)) /\ pick_dominating(scored) = Ambiguous
  BY <1>6, <1>3 DEF BestOf
<1>. QED BY <1>1, <1>5, <1>6, PickOfPass

LEMMA EveryOrder ==
  ASSUME NEW V, IsFiniteSet(V), NEW order \in SetToSeqs(V), NEW args, NEW operators, ConstantsFit(args),
         Cardinality(OfItsArity(V, args)) # 1
  PROVE  IsOutcome(V, args, operators, resolve_candidates(order, args, operators))
<1>. DEFINE I == {i \in DOMAIN order : ArityOk(order[i], args)}
            scored == [i \in I |-> Scored(order[i], args, operators)]
            T == {i \in I : TakesAll(order[i], args, operators)}
            H == {i \in T : HoldsAll(order[i], args, operators)}
            viable == OnlyViable(scored)
            in_domain == OnlyViable([i \in DOMAIN viable |-> DomainScored(viable[i], args)])
            outcome == pick_overload_from_candidates(scored, args)
<1>1. PICK n \in Nat : /\ DOMAIN order = 1 .. n /\ \A i \in 1 .. n : order[i] \in V
                       /\ \A i, j \in 1 .. n : order[i] = order[j] => i = j
                       /\ \A r \in V : \E i \in 1 .. n : order[i] = r
  BY OrderFacts
<1>2. I \in SUBSET (1 .. n) /\ T \in SUBSET I /\ H \in SUBSET T /\ IsFiniteSet(1 .. n)
  BY <1>1, FS_Interval
<1>3. /\ OfItsArity(V, args) = {order[i] : i \in I} /\ Takers(V, args, operators) = {order[i] : i \in T}
      /\ Holders(V, args, operators) = {order[i] : i \in H}
  BY <1>1 DEF OfItsArity, Takers, Holders
<1>4. Cardinality(I) # 1
  <2>1. SUFFICES ASSUME Cardinality(I) = 1 PROVE FALSE
    OBVIOUS
  <2>2. IsFiniteSet(I)
    BY <1>2, FS_Subset
  <2>3. PICK i : I = {i}
    BY <2>1, <2>2, FS_Singleton
  <2>4. OfItsArity(V, args) = {order[i]}
    BY <1>3, <2>3
  <2>. QED BY <2>4, FS_Singleton
<1>5. resolve_candidates(order, args, operators) = outcome
  BY <1>4 DEF resolve_candidates
<1>6. DOMAIN viable = T /\ \A i \in T : viable[i] = Scored(order[i], args, operators)
  BY DEF OnlyViable, Restrict, TakesAll
<1>7. DOMAIN in_domain = H /\ \A i \in H : in_domain[i] = Scored(order[i], args, operators)
  <2>. HIDE DEF viable
  <2>1. /\ DOMAIN in_domain = {i \in T : AllViable(DomainScored(viable[i], args))}
        /\ \A i \in DOMAIN in_domain : in_domain[i] = DomainScored(viable[i], args)
    BY <1>6 DEF OnlyViable, Restrict
  <2>2. DOMAIN in_domain = H
    BY <1>6, <2>1 DEF HoldsAll
  <2>3. \A i \in H : DomainScored(Scored(order[i], args, operators), args) = Scored(order[i], args, operators)
    BY HoldingKeepsScores
  <2>. QED BY <1>6, <2>1, <2>2, <2>3
<1>8. outcome = IF T = {} THEN Unresolved
                ELSE IF Cardinality(T) = 1 THEN Picked(TheOnly(viable).decl)
                ELSE IF Asked(args) /\ H # {} THEN pick_dominating(in_domain)
                ELSE pick_dominating(viable)
  <2>1. Asked(args) <=> \E i \in DOMAIN args : integer_actual_domain_for_expr(args[i]) # NoDomain
    BY DEF Asked, IsIntegral, DomainOf
  <2>2. outcome = IF DOMAIN viable = {} THEN Unresolved
                ELSE IF Cardinality(DOMAIN viable) = 1 THEN Picked(TheOnly(viable).decl)
                ELSE IF Asked(args) /\ DOMAIN in_domain # {} THEN pick_dominating(in_domain)
                ELSE pick_dominating(viable)
    BY <2>1 DEF pick_overload_from_candidates
  <2>. QED BY <2>2, <1>6, <1>7
<1>. HIDE DEF scored, viable, in_domain, outcome, I, T, H
<1>9. CASE T = {}
  BY <1>3, <1>5, <1>8, <1>9 DEF IsOutcome
<1>10. ASSUME NEW S \in SUBSET T, S # {}, NEW f, DOMAIN f = S, \A i \in S : f[i] = Scored(order[i], args, operators)
       PROVE  BestOf({order[i] : i \in S}, args, operators, pick_dominating(f))
  <2>1. S \in SUBSET (1 .. n) /\ \A i, j \in S : order[i] = order[j] => i = j
    BY <1>1, <1>2
  <2>. QED BY <1>10, <2>1, PassPicksBest
<1>11. CASE T # {} /\ Cardinality(T) = 1
  <2>1. IsFiniteSet(T)
    BY <1>2, FS_Subset
  <2>2. PICK i : T = {i}
    BY <1>11, <2>1, FS_Singleton
  <2>3. Takers(V, args, operators) = {order[i]} /\ Pool(V, args, operators) = {order[i]}
    BY <1>2, <1>3, <2>2 DEF Pool
  <2>4. TheOnly(viable).decl = order[i]
    BY <1>6, <2>2, ScoresAre DEF TheOnly
  <2>5. BestOf({order[i]}, args, operators, Picked(order[i]))
    BY DEF BestOf, Wins
  <2>. QED BY <1>5, <1>8, <1>11, <2>3, <2>4, <2>5 DEF IsOutcome
<1>12. CASE T # {} /\ Cardinality(T) # 1
  <2>1. Takers(V, args, operators) # {}
    BY <1>3, <1>12
  <2>2. CASE Asked(args) /\ H # {}
    <3>1. Pool(V, args, operators) = {order[i] : i \in H}
      BY <1>3, <2>2 DEF Pool
    <3>2. BestOf({order[i] : i \in H}, args, operators, pick_dominating(in_domain))
      BY <1>2, <1>7, <1>10, <2>2
    <3>. QED BY <1>5, <1>8, <1>12, <2>1, <2>2, <3>1, <3>2 DEF IsOutcome
  <2>3. CASE ~(Asked(args) /\ H # {})
    <3>1. Pool(V, args, operators) = {order[i] : i \in T}
      BY <1>3, <2>3 DEF Pool
    <3>2. BestOf({order[i] : i \in T}, args, operators, pick_dominating(viable))
      BY <1>6, <1>10, <1>12
    <3>. QED BY <1>5, <1>8, <1>12, <2>1, <2>3, <3>1, <3>2 DEF IsOutcome
  <2>. QED BY <2>2, <2>3
<1>. QED BY <1>9, <1>11, <1>12

-----------------------------------------------------------------------------
(* The expression that was evaluated is what its action says of it.        *)

\* An actual, and a formal that one stands for, has a type.
Typed(V, args) ==
  \A i \in DOMAIN args : /\ IsType(args[i].type)
                         /\ \A r \in OfItsArity(V, args) : IsType(Formals(r)[i].type)
IsCall(e) ==
  /\ IsFiniteSet(e.routines) /\ ConstantsFit(e.args) /\ Typed(e.routines, e.args)
  /\ e.picks = {resolve_candidates(order, e.args, e.operators) : order \in SetToSeqs(e.routines)}
IsProcValue(e) ==
  /\ e.name \in ProcNames /\ e.target \in ProcTypes /\ e.conversion \in BOOLEAN
  /\ e.written = maybe_convert_proc_value(e.name, e.target, e.conversion)
  /\ e.accepted = score_procedural_argument_conversion(e.name, e.target)
ExpressionInv ==
  /\ expr.kind = "call" => IsCall(expr)
  /\ expr.kind = "procedural" => IsProcValue(expr)

LEMMA ExpressionStep == ExpressionInv /\ [Next]_vars => ExpressionInv'
<1>1. SUFFICES ASSUME ExpressionInv, [Next]_vars PROVE ExpressionInv'
  OBVIOUS
<1>2. SUFFICES ASSUME expr'.kind \in {"call", "procedural"}, Next PROVE ExpressionInv'
  BY <1>1 DEF ExpressionInv, IsCall, IsProcValue, vars
<1>3. Call \/ ProcValue
  <2>1. ~Finish
    BY <1>2 DEF Finish, Idle
  <2>2. ~BinaryExpression
    BY <1>2 DEF BinaryExpression
  <2>3. ~ConstantExpression
    <3>1. SUFFICES ASSUME ConstantExpression PROVE FALSE
      OBVIOUS
    <3>2. \E op, x, y, p, run : expr' = [kind |-> "constant", op |-> op, x |-> x, y |-> y, target |-> p,
                                        folded |-> eval_const_int_expr(op, x, y), run |-> run]
      BY <3>1, Zenon DEF ConstantExpression
    <3>. QED BY <1>2, <3>2
  <2>4. ~Negation
    BY <1>2 DEF Negation
  <2>5. ~Function
    BY <1>2 DEF Function
  <2>6. ~Assignment
    BY <1>2 DEF Assignment
  <2>7. ~OrdinalStep /\ ~ConstantStep
    BY <1>2 DEF OrdinalStep, ConstantStep
  <2>8. ~Helper
    BY <1>2 DEF Helper
  <2>. QED BY <1>2, <2>1, <2>2, <2>3, <2>4, <2>5, <2>6, <2>7, <2>8 DEF Next
<1>4. CASE Call
  <2>. DEFINE Made(g, routines, args) ==
                LET visible == gather_callable_in_pascal_scope(routines) IN
                expr' = [kind |-> "call", routines |-> visible, args |-> args, operators |-> g.operators,
                         picks |-> {resolve_candidates(order, args, g.operators) : order \in SetToSeqs(visible)}]
  <2>1. PICK g \in CallGroups : \E k \in 1 .. g.most : \E routines \in kSubset(k, g.routines) :
                                 \E args \in [1 .. g.arity -> g.actuals] : Made(g, routines, args)
    BY <1>4 DEF Call
  <2>2. PICK k \in 1 .. g.most : \E routines \in kSubset(k, g.routines) :
                                 \E args \in [1 .. g.arity -> g.actuals] : Made(g, routines, args)
    BY <2>1
  <2>3. PICK routines \in kSubset(k, g.routines), args \in [1 .. g.arity -> g.actuals] : Made(g, routines, args)
    BY <2>2
  <2>. DEFINE visible == gather_callable_in_pascal_scope(routines)
  <2>4. IsFiniteSet(visible)
    <3>1. IsFiniteSet(g.routines) /\ visible \in SUBSET g.routines
      BY CallsAssumption DEF kSubset, gather_callable_in_pascal_scope
    <3>. QED BY <3>1, FS_Subset
  <2>5. ConstantsFit(args)
    BY CallsAssumption DEF ConstantsFit, ConstantsAreIntegers
  <2>7. Typed(visible, args)
    <3>1. args \in [1 .. g.arity -> g.actuals] /\ g.arity \in Nat
      BY CallsAssumption
    <3>2. Len(args) = g.arity
      <4>1. args \in Seq(g.actuals)
        BY <3>1
      <4>. QED BY <3>1, <4>1
    <3>3. \A i \in DOMAIN args : IsType(args[i].type)
      BY <3>1, CallsAssumption
    <3>4. ASSUME NEW i \in DOMAIN args, NEW r \in OfItsArity(visible, args) PROVE IsType(Formals(r)[i].type)
      <4>1. r \in g.routines /\ Len(args) <= Len(Formals(r))
        BY DEF kSubset, gather_callable_in_pascal_scope, OfItsArity, ArityOk
      <4>2. PICK f : f = Formals(r)
        OBVIOUS
      <4>3. f \in Seq(ToSet(f)) /\ \A x \in ToSet(f) : IsType(x.type)
        BY <4>1, <4>2, CallsAssumption
      <4>4. i \in DOMAIN f
        BY <3>1, <3>2, <4>1, <4>2, <4>3
      <4>5. f[i] \in ToSet(f)
        BY <4>4 DEF ToSet
      <4>. QED BY <4>2, <4>3, <4>5
    <3>. QED BY <3>3, <3>4 DEF Typed
  <2>. HIDE DEF visible
  <2>6. /\ expr'.kind = "call" /\ expr'.routines = visible /\ expr'.args = args /\ expr'.operators = g.operators
        /\ expr'.picks = {resolve_candidates(order, args, g.operators) : order \in SetToSeqs(visible)}
    BY <2>3 DEF visible
  <2>. QED BY <2>4, <2>5, <2>6, <2>7 DEF ExpressionInv, IsCall
<1>5. CASE ProcValue
  BY <1>5 DEF ProcValue, ExpressionInv, IsProcValue
<1>. QED BY <1>3, <1>4, <1>5

-----------------------------------------------------------------------------
(* Calls.                                                                  *)

LEMMA TheOutcome ==
  ASSUME IsCall(expr), Cardinality(OfArity) # 1
  PROVE  \E o : expr.picks = {o} /\ IsOutcome(expr.routines, expr.args, expr.operators, o)
<1>1. IsFiniteSet(expr.routines) /\ ConstantsFit(expr.args)
      /\ expr.picks = {resolve_candidates(order, expr.args, expr.operators) : order \in SetToSeqs(expr.routines)}
  BY DEF IsCall
<1>2. Cardinality(OfItsArity(expr.routines, expr.args)) # 1
  BY DEF OfArity, OfItsArity
<1>3. PICK some \in SetToSeqs(expr.routines) : TRUE
  BY <1>1, AnOrderExists
<1>4. \A order \in SetToSeqs(expr.routines) :
        IsOutcome(expr.routines, expr.args, expr.operators, resolve_candidates(order, expr.args, expr.operators))
  BY <1>1, <1>2, EveryOrder
<1>5. \A order \in SetToSeqs(expr.routines) :
        resolve_candidates(order, expr.args, expr.operators) = resolve_candidates(some, expr.args, expr.operators)
  BY <1>4, OneOutcome
<1>6. expr.picks = {resolve_candidates(some, expr.args, expr.operators)}
  BY <1>1, <1>5
<1>. QED BY <1>4, <1>6

LEMMA CallsFromInv == ExpressionInv => CallsPickTheBest
<1>1. SUFFICES ASSUME ExpressionInv, expr.kind = "call", Cardinality(OfArity) > 1
      PROVE  LET viable == {r \in OfArity : Takes(r)} IN
             /\ Cardinality(expr.picks) = 1
             /\ Unresolved \in expr.picks <=> viable = {}
             /\ \A p \in expr.picks : p.verdict = "picked" =>
                  p.decl \in viable /\ \A r \in viable : ~Beats(r, p.decl)
             /\ \A r \in viable : (\A s \in viable \ {r} : Beats(r, s)) => expr.picks = {Picked(r)}
  BY DEF CallsPickTheBest
<1>. DEFINE args == expr.args
            operators == expr.operators
            V == Takers(expr.routines, args, operators)
            P == Pool(expr.routines, args, operators)
<1>2. IsCall(expr) /\ ConstantsFit(args)
  BY <1>1 DEF ExpressionInv, IsCall
<1>3. PICK o : expr.picks = {o} /\ IsOutcome(expr.routines, args, operators, o)
  BY <1>1, <1>2, TheOutcome
<1>4. V = {r \in OfArity : Takes(r)}
  BY DEF Takers, OfItsArity, OfArity, Takes, TakesAll
<1>5. \A r, s : Beats(r, s) <=> Surpasses(r, s, args, operators)
  BY DEF Beats, Surpasses
<1>6. P \subseteq V /\ (V # {} => P # {}) /\ \A r \in V : TakesAll(r, args, operators)
  BY DEF Pool, Holders, Takers
<1>7. ASSUME NEW p \in P, NEW s \in V \ P PROVE ~Surpasses(s, p, args, operators)
  <2>1. HoldsAll(p, args, operators) /\ ~HoldsAll(s, args, operators)
    BY <1>7 DEF Pool, Holders
  <2>. QED BY <2>1, <1>2, <1>6, HoldersAreNotBeaten DEF Surpasses
<1>8. \A r : Picked(r) # Unresolved /\ Picked(r) # Ambiguous /\ Picked(r).verdict = "picked" /\ Picked(r).decl = r
  BY DEF Picked, Unresolved, Ambiguous
<1>9. Unresolved.verdict # "picked" /\ Ambiguous.verdict # "picked" /\ Unresolved # Ambiguous
  BY DEF Unresolved, Ambiguous
<1>. HIDE DEF V, P
<1>10. IF V = {} THEN o = Unresolved ELSE BestOf(P, args, operators, o)
  BY <1>3 DEF IsOutcome, V, P
<1>11. Cardinality(expr.picks) = 1
  BY <1>3, FS_Singleton
<1>12. Unresolved \in expr.picks <=> V = {}
  BY <1>3, <1>8, <1>9, <1>10 DEF BestOf
<1>13. ASSUME o.verdict = "picked" PROVE o.decl \in V /\ \A r \in V : ~Surpasses(r, o.decl, args, operators)
  <2>1. PICK p \in P : Wins(p, P, args, operators) /\ o = Picked(p)
    BY <1>9, <1>10, <1>13 DEF BestOf
  <2>2. \A r \in P : ~Surpasses(r, p, args, operators)
    BY <2>1, OneSurpasses DEF Wins
  <2>. QED BY <2>1, <2>2, <1>6, <1>7, <1>8
<1>14. ASSUME NEW r \in V, \A s \in V \ {r} : Surpasses(r, s, args, operators) PROVE o = Picked(r)
  <2>1. r \in P
    BY <1>6, <1>7, <1>14
  <2>2. Wins(r, P, args, operators)
    BY <2>1, <1>6, <1>14 DEF Wins
  <2>3. \A q \in P : Wins(q, P, args, operators) => q = r
    BY <2>1, <2>2, OneSurpasses DEF Wins
  <2>. QED BY <2>1, <2>2, <2>3, <1>10, <1>14 DEF BestOf
<1>. QED BY <1>3, <1>4, <1>5, <1>11, <1>12, <1>13, <1>14

-----------------------------------------------------------------------------
(* Calls with variables of integer types.                                  *)

\* WholeTypes, and Holds, for some actuals and routines.
Whole(V, args) ==
  \A i \in DOMAIN args :
    /\ args[i].form = "value" /\ Shape(args[i].type).tag # "subrange"
    /\ \A r \in OfItsArity(V, args) : Shape(Formals(r)[i].type).tag # "subrange"
RoomAt(arg, formal) ==
  IsInt(arg.type) =>
    /\ IsInt(formal.type)
    /\ Fits(Low(IntOf(arg.type)), IntOf(formal.type)) /\ Fits(High(IntOf(arg.type)), IntOf(formal.type))

LEMMA WholeDomains ==
  ASSUME NEW arg, arg.form = "value", IsType(arg.type), Shape(arg.type).tag # "subrange"
  PROVE  /\ IsIntegral(arg) <=> IsInt(arg.type)
         /\ IsInt(arg.type) => /\ DomainOf(arg).low = Low(IntOf(arg.type)) /\ DomainOf(arg).high = High(IntOf(arg.type))
                               /\ Numbers(arg) = {Low(IntOf(arg.type)), High(IntOf(arg.type))}
         /\ ~IsInt(arg.type) => Numbers(arg) = {}
<1>1. IsInt(arg.type) <=> Shape(arg.type).tag = "int"
  BY DEF IsInt, Shape
<1>2. IsInt(arg.type) => Shape(arg.type).int = IntOf(arg.type) /\ IntOf(arg.type).kind # "none"
  BY DEF IsInt, Shape, IntOf, IsType, Types
<1>3. DomainOf(arg) = IF IsInt(arg.type)
                      THEN Domain(Low(IntOf(arg.type)), High(IntOf(arg.type)), IntOf(arg.type).kind)
                      ELSE NoDomain
  BY <1>1, <1>2 DEF DomainOf, integer_actual_domain_for_expr, integer_actual_domain_for_type
<1>4. IsInt(arg.type) => Domain(Low(IntOf(arg.type)), High(IntOf(arg.type)), IntOf(arg.type).kind) # NoDomain
  BY <1>2 DEF Domain, NoDomain
<1>5. arg.type.tag # "subrange"
  BY DEF Shape
<1>. QED BY <1>3, <1>4, <1>5 DEF IsIntegral, Domain, Numbers

\* What a formal passed by reference takes of an integer type is that type.
LEMMA ReferencesAreSame ==
  ASSUME NEW arg, NEW formal, NEW operators, IsIntegral(arg), ConstantsAreIntegers(arg),
         Shape(arg.type).tag = "int", formal.var_param = TRUE,
         Viable(score_argument_conversion(arg, formal, operators))
  PROVE  score_argument_conversion(arg, formal, operators).rank \in {"Exact", "Equal"}
<1>. DEFINE s == score_argument_conversion(arg, formal, operators)
            direct == rank_conversion(arg.type, formal.type, TRUE)
            p == Shape(formal.type)
<1>1. arg.form \in {"constant", "value"}
  BY IntegralActual
<1>2. ~type_is_pointerish(Shape(arg.type)) /\ ~(p.tag = "Pointer" /\ arg.type = formal.type)
  BY DEF type_is_pointerish
<1>3. direct.rank \in {"Exact", "Equal"} \/ direct = NotViable
  BY DEF rank_conversion, classify_set_conversion, ScoreIf, Score, NotViable
<1>4. ~Viable(Room(arg, formal))
  BY RoomFacts
<1>5. s = direct \/ s = NotViable
  <2>1. ScoreIf(FALSE, "PointerValueConversion") = NotViable /\ ScoreIf(FALSE, "Operator") = NotViable
    BY DEF ScoreIf
  <2>2. ~Viable(NotViable)
    BY DEF Viable
  <2>. QED
    BY <1>1, <1>2, <1>4, <2>1, <2>2 DEF score_argument_conversion, Else, Room, DomainOf, IsIntegral
<1>. QED BY <1>3, <1>5 DEF Viable

\* An early rank is given to a formal that has room.
LEMMA EarlyHasRoom ==
  ASSUME NEW arg, NEW formal, NEW operators, arg.form = "value", IsType(arg.type), IsType(formal.type),
         IsInt(arg.type), Shape(arg.type).tag # "subrange", Shape(formal.type).tag # "subrange",
         score_argument_conversion(arg, formal, operators).rank \in EarlyRanks
  PROVE  RoomAt(arg, formal)
<1>. DEFINE s == score_argument_conversion(arg, formal, operators)
            q == Room(arg, formal)
            a == Shape(arg.type)
            p == Shape(formal.type)
            direct == rank_conversion(arg.type, formal.type, formal.var_param)
<1>1. IsIntegral(arg) /\ ConstantsAreIntegers(arg) /\ a.tag = "int" /\ a.int = IntOf(arg.type)
  BY WholeDomains DEF ConstantsAreIntegers, IsInt, Shape, IntOf
<1>2. IntOf(arg.type) \in Types
  BY DEF IsType
<1>3. /\ Low(IntOf(arg.type)) \in Int /\ High(IntOf(arg.type)) \in Int
      /\ Low(IntOf(arg.type)) <= High(IntOf(arg.type))
  BY <1>2, TypeBounds DEF Types
<1>4. CASE Viable(q)
  <2>1. IsInt(formal.type) /\ integer_domain_fits_primitive(DomainOf(arg), IntOf(formal.type))
    BY <1>4, RoomFacts
  <2>2. Low(IntOf(formal.type)) \in Int /\ High(IntOf(formal.type)) \in Int
    BY <2>1, TypeBounds DEF IsType
  <2>3. DomainOf(arg).low = Low(IntOf(arg.type)) /\ DomainOf(arg).high = High(IntOf(arg.type))
    BY WholeDomains
  <2>. QED BY <1>3, <2>1, <2>2, <2>3 DEF RoomAt, Fits, integer_domain_fits_primitive
<1>5. CASE ~Viable(q)
  <2>1. s.rank \in {"Exact", "Equal"}
    BY <1>1, <1>5, IntegralScore DEF EarlyRanks
  <2>2. s = direct \/ s = q \/ s = NotViable \/ s.rank \in {"PointerValueConversion", "Operator"}
        \/ (p.tag = "Pointer" /\ arg.type = formal.type)
    BY DEF score_argument_conversion, Else, ScoreIf, Score, Room, DomainOf
  <2>3. q = NotViable /\ NotViable.rank = "NotViable" /\ (p.tag # "Pointer" \/ arg.type # formal.type)
    BY <1>1, <1>5 DEF Viable, NotViable, Score
  <2>4. direct.rank \in {"Exact", "Equal"}
    BY <1>1, <1>5, <2>1, <2>2, <2>3 DEF Viable, NotViable, Score
  <2>5. formal.type = arg.type \/ strip_conversion_wrapper(a) = strip_conversion_wrapper(p)
    BY <2>4 DEF rank_conversion, classify_set_conversion, HierarchyScore, WideningScore, SignChangeScore,
       RealScore, StringScore, Else, ScoreIf, Score, NotViable
  <2>6. ASSUME strip_conversion_wrapper(a) = strip_conversion_wrapper(p) PROVE p = a
    <3>1. Shape(a) = a /\ Shape(p) = p
      BY <1>1 DEF Shape, IsType
    <3>. QED BY <1>1, <2>6, <3>1 DEF strip_conversion_wrapper
  <2>7. p = a
    BY <2>5, <2>6
  <2>8. IsInt(formal.type) /\ IntOf(formal.type) = IntOf(arg.type)
    BY <1>1, <2>7 DEF IsInt, IntOf, Shape
  <2>. QED BY <1>3, <2>8 DEF RoomAt, Fits
<1>. QED BY <1>4, <1>5

\* To hold the domains is to have room for every number.
LEMMA HoldingIsRoom ==
  ASSUME NEW V, NEW args, NEW operators, ConstantsFit(args), Typed(V, args), Whole(V, args),
         NEW r \in Takers(V, args, operators)
  PROVE  HoldsAll(r, args, operators) <=> \A i \in DOMAIN args : RoomAt(args[i], Formals(r)[i])
<1>1. r \in OfItsArity(V, args) /\ \A i \in DOMAIN args : Viable(ScoreAt(r, args, operators, i))
  BY ScoresAre DEF Takers
<1>2. SUFFICES ASSUME NEW i \in DOMAIN args
      PROVE  Viable(DomainScore(r, args, i, ScoreAt(r, args, operators, i))) <=> RoomAt(args[i], Formals(r)[i])
  BY ScoresAre
<1>. DEFINE arg == args[i]
            formal == Formals(r)[i]
            s == score_argument_conversion(arg, formal, operators)
<1>3. /\ arg.form = "value" /\ IsType(arg.type) /\ IsType(formal.type) /\ Shape(arg.type).tag # "subrange"
      /\ Shape(formal.type).tag # "subrange" /\ ConstantsAreIntegers(arg)
  BY <1>1 DEF Typed, Whole, ConstantsFit
<1>4. Viable(s) /\ s = ScoreAt(r, args, operators, i)
  BY <1>1 DEF ScoreAt
<1>5. DomainScore(r, args, i, s) = IF ~IsIntegral(arg) \/ s.rank \in {"Exact", "Equal"} THEN s ELSE Room(arg, formal)
  BY DEF DomainScore, IsIntegral, DomainOf, Room
<1>6. IsIntegral(arg) <=> IsInt(arg.type)
  BY <1>3, WholeDomains
<1>. HIDE DEF arg, formal, s
<1>7. CASE ~IsInt(arg.type)
  BY <1>4, <1>5, <1>6, <1>7 DEF RoomAt, arg, formal
<1>8. CASE IsInt(arg.type)
  <2>1. ASSUME Viable(DomainScore(r, args, i, s)) PROVE RoomAt(arg, formal)
    <3>1. s.rank \in EarlyRanks
      BY <1>4, <1>6, <1>8, <2>1, DomainScoreIs DEF arg
    <3>. QED BY <1>3, <1>8, <3>1, EarlyHasRoom DEF s
  <2>2. ASSUME RoomAt(arg, formal) PROVE Viable(DomainScore(r, args, i, s))
    <3>1. Shape(arg.type).tag = "int"
      BY <1>8, <1>3 DEF IsInt, Shape
    <3>2. CASE formal.var_param = TRUE
      <4>1. s.rank \in {"Exact", "Equal"}
        BY <1>3, <1>4, <1>6, <1>8, <3>1, <3>2, ReferencesAreSame DEF s
      <4>. QED BY <1>4, <1>5, <4>1
    <3>3. CASE ~formal.var_param
      <4>1. integer_domain_fits_primitive(DomainOf(arg), IntOf(formal.type)) /\ IsInt(formal.type)
        BY <1>3, <1>8, <2>2, WholeDomains DEF RoomAt, Fits, integer_domain_fits_primitive
      <4>2. Viable(Room(arg, formal))
        BY <3>3, <4>1, RoomFacts
      <4>. QED BY <1>4, <1>5, <4>2
    <3>. QED BY <3>2, <3>3
  <2>. QED BY <1>4, <2>1, <2>2 DEF arg, formal
<1>. QED BY <1>7, <1>8

LEMMA OneOfArity ==
  ASSUME NEW V, IsFiniteSet(V), NEW order \in SetToSeqs(V), NEW args, NEW operators,
         Cardinality(OfItsArity(V, args)) = 1, NEW r \in OfItsArity(V, args)
  PROVE  resolve_candidates(order, args, operators) = Picked(r)
<1>. DEFINE I == {i \in DOMAIN order : ArityOk(order[i], args)}
            scored == [i \in I |-> Scored(order[i], args, operators)]
<1>1. PICK n \in Nat : /\ DOMAIN order = 1 .. n /\ \A i \in 1 .. n : order[i] \in V
                       /\ \A i, j \in 1 .. n : order[i] = order[j] => i = j
                       /\ \A q \in V : \E i \in 1 .. n : order[i] = q
  BY OrderFacts
<1>2. OfItsArity(V, args) = {r}
  <2>1. IsFiniteSet(OfItsArity(V, args))
    BY FS_Subset DEF OfItsArity
  <2>2. PICK q : OfItsArity(V, args) = {q}
    BY <2>1, FS_Singleton
  <2>. QED BY <2>2
<1>3. PICK i \in 1 .. n : order[i] = r
  BY <1>1 DEF OfItsArity
<1>4. I = {i}
  BY <1>1, <1>2, <1>3 DEF OfItsArity
<1>5. Cardinality(I) = 1 /\ DOMAIN scored = {i} /\ scored[i].decl = r
  <2>1. Cardinality({i}) = 1
    BY FS_Singleton
  <2>2. DOMAIN scored = I /\ scored[i] = Scored(order[i], args, operators)
    BY <1>4
  <2>. QED BY <1>3, <1>4, <2>1, <2>2, ScoresAre
<1>6. TheOnly(scored).decl = r
  BY <1>5 DEF TheOnly
<1>. QED BY <1>5, <1>6 DEF resolve_candidates

LEMMA HoldsIsRoom ==
  ASSUME NEW V, V = expr.routines, NEW args, args = expr.args, Typed(V, args), Whole(V, args), NEW r \in OfArity
  PROVE  Holds(r) <=> \A i \in DOMAIN args : RoomAt(args[i], Formals(r)[i])
<1>1. r \in OfItsArity(V, args)
  BY DEF OfArity, OfItsArity
<1>2. ASSUME NEW i \in DOMAIN args
      PROVE  /\ IsInt(args[i].type) =>
                  Numbers(args[i]) = {Low(IntOf(args[i].type)), High(IntOf(args[i].type))}
             /\ ~IsInt(args[i].type) => Numbers(args[i]) = {}
             /\ Formals(r)[i].type.tag # "subrange"
  <2>1. args[i].form = "value" /\ IsType(args[i].type) /\ Shape(args[i].type).tag # "subrange"
        /\ Shape(Formals(r)[i].type).tag # "subrange"
    BY <1>1 DEF Typed, Whole
  <2>. QED BY <2>1, WholeDomains DEF Shape
<1>. QED BY <1>2 DEF Holds, RoomAt

LEMMA IntegerCallsFromInv == ExpressionInv => IntegerCallsHoldTheirDomain
<1>. DEFINE V == expr.routines
            args == expr.args
            operators == expr.operators
<1>1. SUFFICES ASSUME ExpressionInv, expr.kind = "call", WholeTypes, NEW p \in expr.picks, p.verdict = "picked",
                      NEW r \in OfArity, Takes(r), Holds(r)
      PROVE  Holds(p.decl)
  BY DEF IntegerCallsHoldTheirDomain, PickHolds
<1>2. IsCall(expr) /\ IsFiniteSet(V) /\ ConstantsFit(args) /\ Typed(V, args)
  BY <1>1 DEF ExpressionInv, IsCall
<1>3. OfArity = OfItsArity(V, args)
  BY DEF OfArity, OfItsArity
<1>4. Whole(V, args)
  BY <1>1, <1>3 DEF WholeTypes, Whole
<1>5. CASE Cardinality(OfArity) = 1
  <2>1. PICK order \in SetToSeqs(V) : p = resolve_candidates(order, args, operators)
    BY <1>2 DEF IsCall
  <2>2. p = Picked(r)
    BY <1>2, <1>3, <1>5, <2>1, OneOfArity
  <2>. QED BY <1>1, <2>2 DEF Picked
<1>6. CASE Cardinality(OfArity) # 1
  <2>1. IsOutcome(V, args, operators, p)
    BY <1>2, <1>6, TheOutcome
  <2>2. r \in Takers(V, args, operators)
    BY <1>1, <1>3 DEF Takers, Takes, TakesAll
  <2>3. HoldsAll(r, args, operators)
    BY <1>1, <1>2, <1>4, <2>2, HoldingIsRoom, HoldsIsRoom
  <2>4. PICK q \in Pool(V, args, operators) : p = Picked(q)
    BY <1>1, <2>1, <2>2 DEF IsOutcome, BestOf, Ambiguous
  <2>5. q \in Takers(V, args, operators) /\ q \in OfArity /\ p.decl = q
    BY <1>3, <2>4 DEF Pool, Holders, Takers, Picked
  <2>6. CASE Asked(args)
    <3>1. HoldsAll(q, args, operators)
      BY <2>2, <2>3, <2>4, <2>6 DEF Pool, Holders
    <3>2. \A i \in DOMAIN args : RoomAt(args[i], Formals(q)[i])
      BY <1>2, <1>4, <2>5, <3>1, HoldingIsRoom
    <3>. QED BY <1>2, <1>4, <2>5, <3>2, HoldsIsRoom
  <2>7. CASE ~Asked(args)
    <3>1. \A i \in DOMAIN args : ~IsInt(args[i].type)
      BY <1>2, <1>4, <2>7, WholeDomains DEF Asked, Whole, Typed
    <3>2. \A i \in DOMAIN args : RoomAt(args[i], Formals(q)[i])
      BY <3>1 DEF RoomAt
    <3>. QED BY <1>2, <1>4, <2>5, <3>2, HoldsIsRoom
  <2>. QED BY <2>6, <2>7
<1>. QED BY <1>5, <1>6

\* A call with variables of integer types goes to a routine that holds all their
\* values whenever one is there: for integers of all widths, plain or distinct.
\* (pick_integer_domain_overload.)
THEOREM IntegerCallsCorrect == Spec => []IntegerCallsHoldTheirDomain
<1>1. Init => ExpressionInv
  BY DEF Init, Idle, ExpressionInv
<1>2. ExpressionInv /\ [Next]_vars => ExpressionInv'
  BY ExpressionStep
<1>. QED BY <1>1, <1>2, IntegerCallsFromInv, PTL DEF Spec

-----------------------------------------------------------------------------
(* Names that are used as values.                                          *)

LEMMA SequenceOf ==
  ASSUME NEW p, p \in Seq(ToSet(p))
  PROVE  Len(p) \in Nat /\ DOMAIN p = 1 .. Len(p) /\ p = [i \in 1 .. Len(p) |-> p[i]]
OBVIOUS

\* A signature is as far from itself as from no other that may be adapted to it.
LEMMA Distances ==
  ASSUME NEW s, NEW t, IsSignature(s), IsSignature(t)
  PROVE  /\ procedural_value_signature_distance(s, t) \in Nat
         /\ s = t => procedural_value_signature_distance(s, t) = 0
         /\ \A adapters \in BOOLEAN :
              signature_matches(s, t, adapters) /\ procedural_value_signature_distance(s, t) = 0 => s = t
<1>1. Len(s.params) \in Nat /\ DOMAIN s.params = 1 .. Len(s.params)
      /\ s.params = [i \in 1 .. Len(s.params) |-> s.params[i]]
  BY SequenceOf DEF IsSignature
<1>2. t.params = [i \in 1 .. Len(t.params) |-> t.params[i]]
  BY SequenceOf DEF IsSignature
<1>3. IsFiniteSet(Changed(s, t))
  <2>1. IsFiniteSet(1 .. Len(s.params)) /\ Changed(s, t) \in SUBSET (1 .. Len(s.params))
    BY <1>1, FS_Interval DEF Changed
  <2>. QED BY <2>1, FS_Subset
<1>4. Cardinality(Changed(s, t)) \in Nat /\ (Cardinality(Changed(s, t)) = 0 <=> Changed(s, t) = {})
  BY <1>3, FS_CardinalityType, FS_EmptySet
<1>5. s = t => Changed(s, t) = {}
  BY DEF Changed
<1>6. ASSUME Changed(s, t) = {}, s.result = t.result, Len(s.params) = Len(t.params) PROVE s = t
  <2>1. \A i \in 1 .. Len(s.params) : s.params[i] = t.params[i]
    BY <1>1, <1>6 DEF Changed
  <2>2. s.params = t.params
    BY <2>1, <1>1, <1>2, <1>6
  <2>. QED BY <2>2, <1>6 DEF IsSignature
<1>. QED BY <1>4, <1>5, <1>6 DEF procedural_value_signature_distance, signature_matches

\* Every declaration has a signature, and no two have the same.
AreDeclarations(decls) ==
  /\ \A d \in decls : IsSignature(d.signature) /\ d # Nothing
  /\ \A d, e \in decls : d.signature = e.signature => d = e

LEMMA ClosestFacts ==
  ASSUME NEW decls, AreDeclarations(decls), NEW target, IsSignature(target), NEW adapters \in BOOLEAN
  PROVE  /\ Closest(decls, target, adapters) # Nothing =>
              /\ Closest(decls, target, adapters) \in decls
              /\ signature_matches(Closest(decls, target, adapters).signature, target, adapters)
              /\ \A d \in decls \ {Closest(decls, target, adapters)} :
                   signature_matches(d.signature, target, adapters) =>
                     procedural_value_signature_distance(Closest(decls, target, adapters).signature, target)
                       < procedural_value_signature_distance(d.signature, target)
         /\ \A d \in decls : d.signature = target => Closest(decls, target, adapters) = d
<1>. DEFINE fitting == {d \in decls : signature_matches(d.signature, target, adapters)}
            far(d) == procedural_value_signature_distance(d.signature, target)
            closest(d) == \A e \in fitting \ {d} : far(d) < far(e)
            c == Closest(decls, target, adapters)
<1>1. c = IF \E d \in fitting : closest(d) THEN CHOOSE d \in fitting : closest(d) ELSE Nothing
  BY DEF Closest
<1>2. c # Nothing => c \in fitting /\ closest(c)
  BY <1>1
<1>3. ASSUME NEW d \in decls, d.signature = target PROVE c = d
  <2>1. d \in fitting
    BY <1>3 DEF signature_matches
  <2>2. far(d) = 0
    BY <1>3, Distances
  <2>3. ASSUME NEW e \in fitting \ {d} PROVE far(e) \in Nat /\ far(e) # 0
    <3>1. IsSignature(e.signature) /\ e.signature # target
      BY <1>3, <2>3 DEF AreDeclarations
    <3>. QED BY <3>1, <2>3, Distances
  <2>. HIDE DEF far, fitting
  <2>4. closest(d)
    BY <2>2, <2>3
  <2>5. \A e \in fitting : closest(e) => e = d
    BY <2>1, <2>2, <2>3
  <2>. QED BY <1>1, <2>1, <2>4, <2>5
<1>. QED BY <1>2, <1>3

LEMMA MethodsAreDeclarations ==
  ASSUME NEW name \in ProcNames
  PROVE  /\ AreDeclarations(Methods(name)) /\ (name.methods = <<>> => Methods(name) = {})
         /\ \A d \in Methods(name) : d = Method(d.signature) /\ d.what = "method" /\ d.signature \in ToSet(name.methods)
<1>1. \A m \in ToSet(name.methods) : IsSignature(m)
  BY CallsAssumption
<1>2. \A m : Method(m).signature = m /\ Method(m).what = "method" /\ Method(m) # Nothing
  BY DEF Method, Nothing
<1>3. name.methods = <<>> => ToSet(name.methods) = {}
  BY DEF ToSet
<1>. QED BY <1>1, <1>2, <1>3 DEF Methods, AreDeclarations

\* Routines of one unit do not hide each other.
LEMMA RoutinesAreDeclarations ==
  ASSUME NEW name \in ProcNames, ~FurtherUnit(name)
  PROVE  /\ RoutinesNamed(name) = ToSet(name.routines)
         /\ AreDeclarations(Routines(ToSet(name.routines)))
         /\ \A d \in Routines(ToSet(name.routines)) :
              /\ d.what = "routine" /\ d = RoutineOf(d.frame, d.signature)
              /\ \E r \in ToSet(name.routines) : d = RoutineOf(r.frame, r.signature)
         /\ \A r, q \in ToSet(name.routines) : r.frame = q.frame /\ r.frame \in Int
<1>. DEFINE R == ToSet(name.routines)
<1>1. \A r \in R : r.frame \in Int /\ IsSignature(r.signature)
  BY CallsAssumption
<1>2. \A r, q \in R : r.frame = q.frame
  BY DEF FurtherUnit
<1>3. RoutinesNamed(name) = R
  <2>1. ASSUME NEW r \in R, NEW f \in Innermost .. (r.frame - 1) PROVE InFrame(R, f) = {}
    <3>1. \A q \in R : q.frame # f
      BY <1>1, <1>2 DEF Innermost
    <3>. QED BY <3>1 DEF InFrame
  <2>. HIDE DEF R
  <2>2. gather_callable_in_pascal_scope(R) = R
    BY <2>1 DEF gather_callable_in_pascal_scope
  <2>. QED BY <2>2 DEF R, RoutinesNamed
<1>4. \A f, m : /\ RoutineOf(f, m).frame = f /\ RoutineOf(f, m).signature = m
                /\ RoutineOf(f, m).what = "routine" /\ RoutineOf(f, m) # Nothing
  BY DEF RoutineOf, Nothing
<1>5. \A d \in Routines(R) : \E r \in R : d = RoutineOf(r.frame, r.signature)
  BY DEF Routines
<1>6. AreDeclarations(Routines(R))
  BY <1>1, <1>2, <1>4, <1>5 DEF AreDeclarations
<1>. QED BY <1>1, <1>2, <1>3, <1>4, <1>5, <1>6

\* What the property says of a name.
Bound(name, target, conversion, written, accepted) ==
  /\ accepted <=> Meanings(name, target) # {}
  /\ Meanings(name, target) # {} => Meanings(name, target) = {written}
  /\ conversion /\ written.what \in {"method", "routine"} =>
       \A d \in Methods(name) \cup Routines(ToSet(name.routines)) :
         /\ d.what = written.what /\ d # written
         /\ signature_matches(d.signature, target.signature, TRUE)
         => procedural_value_signature_distance(written.signature, target.signature)
              < procedural_value_signature_distance(d.signature, target.signature)
Written(name, target, conversion) == maybe_convert_proc_value(name, target, conversion)
Accepted(name, target) == score_procedural_argument_conversion(name, target)
Names(name, target, conversion) ==
  Bound(name, target, conversion, Written(name, target, conversion), Accepted(name, target))

LEMMA LocalNamesBound ==
  ASSUME NEW name \in ProcNames, NEW target \in ProcTypes, NEW conversion \in BOOLEAN,
         ~HiddenMethod(name), name.local # <<>>
  PROVE  Names(name, target, conversion)
<1>1. name.methods = <<>> /\ Methods(name) = {}
  BY MethodsAreDeclarations DEF HiddenMethod
<1>2. Meanings(name, target) = IF name.local[1] = target THEN {Variable} ELSE {}
  BY DEF Meanings
<1>3. Accepted(name, target) <=> name.local[1] = target
  BY DEF Accepted, score_procedural_argument_conversion
<1>4. resolve_method_value_binding(name, target, conversion) = Nothing
  BY <1>1 DEF resolve_method_value_binding, Closest
<1>5. \A s : NameText(name, s) = Variable
  BY DEF NameText
<1>6. Written(name, target, conversion) = Variable
  BY <1>4, <1>5 DEF Written, maybe_convert_proc_value
<1>7. Variable.what = "variable"
  BY DEF Variable
<1>. QED BY <1>2, <1>3, <1>6, <1>7 DEF Names, Bound

LEMMA MethodNamesBound ==
  ASSUME NEW name \in ProcNames, NEW target \in ProcTypes, NEW conversion \in BOOLEAN,
         name.local = <<>>, name.methods # <<>>
  PROVE  Names(name, target, conversion)
<1>. DEFINE M == Methods(name)
            s == target.signature
<1>1. AreDeclarations(M) /\ \A d \in M : d = Method(d.signature) /\ d.what = "method" /\ d.signature \in ToSet(name.methods)
  BY MethodsAreDeclarations
<1>2. IsSignature(s)
  BY CallsAssumption
<1>3. Meanings(name, target) = {Method(m) : m \in {n \in ToSet(name.methods) : target.of_object /\ n = s}}
  BY DEF Meanings
<1>4. \A m \in ToSet(name.methods) : Method(m) \in M /\ Method(m).signature = m
  BY DEF Methods, Method
<1>5. CASE target.of_object
  <2>1. Meanings(name, target) = {d \in M : d.signature = s}
    BY <1>1, <1>3, <1>4, <1>5
  <2>2. Accepted(name, target) <=> Closest(M, s, FALSE) # Nothing
    BY <1>5 DEF Accepted, score_procedural_argument_conversion, resolve_method_value_binding
  <2>3. Written(name, target, conversion) = Closest(M, s, conversion)
    BY <1>5 DEF Written, maybe_convert_proc_value, resolve_method_value_binding
  <2>4. \A b \in BOOLEAN : \A d \in M : d.signature = s => Closest(M, s, b) = d
    BY <1>1, <1>2, ClosestFacts
  <2>5. Closest(M, s, FALSE) # Nothing => Closest(M, s, FALSE) \in M /\ Closest(M, s, FALSE).signature = s
    BY <1>1, <1>2, ClosestFacts DEF signature_matches
  <2>6. Accepted(name, target) <=> Meanings(name, target) # {}
    <3>1. FALSE \in BOOLEAN
      OBVIOUS
    <3>2. \A d \in M : d.signature = s => Closest(M, s, FALSE) = d
      BY <2>4, <3>1, Zenon
    <3>3. \A d \in M : d # Nothing
      BY <1>1 DEF AreDeclarations
    <3>. HIDE DEF M, s
    <3>4. Closest(M, s, FALSE) # Nothing <=> {d \in M : d.signature = s} # {}
      <4>. DEFINE c == Closest(M, s, FALSE)
      <4>1. c # Nothing => c \in M /\ c.signature = s
        BY <2>5
      <4>2. \A d \in M : d.signature = s => c = d
        BY <3>2
      <4>. HIDE DEF c
      <4>3. c # Nothing <=> {d \in M : d.signature = s} # {}
        BY <3>3, <4>1, <4>2
      <4>. QED BY <4>3 DEF c
    <3>. QED BY <2>1, <2>2, <3>4
  <2>7. Meanings(name, target) # {} => Meanings(name, target) = {Written(name, target, conversion)}
    BY <1>1, <2>1, <2>3, <2>4 DEF AreDeclarations
  <2>8. ASSUME conversion, Written(name, target, conversion).what \in {"method", "routine"},
               NEW d \in M \cup Routines(ToSet(name.routines)),
               d.what = Written(name, target, conversion).what, d # Written(name, target, conversion),
               signature_matches(d.signature, s, TRUE)
        PROVE  procedural_value_signature_distance(Written(name, target, conversion).signature, s)
                 < procedural_value_signature_distance(d.signature, s)
    <3>1. Written(name, target, conversion) # Nothing
      <4>1. Nothing.what \notin {"method", "routine"}
        BY DEF Nothing
      <4>. DEFINE w == Written(name, target, conversion)
      <4>2. w.what \in {"method", "routine"}
        BY <2>8
      <4>. HIDE DEF w
      <4>3. w # Nothing
        BY <4>1, <4>2
      <4>. QED BY <4>3 DEF w
    <3>2. Written(name, target, conversion) \in M
      BY <1>1, <1>2, <2>3, <3>1, ClosestFacts
    <3>3. d \in M
      <4>1. \A e \in Routines(ToSet(name.routines)) : e.what = "routine"
        BY DEF Routines, RoutineOf
      <4>. QED BY <1>1, <2>8, <3>2, <4>1
    <3>4. signature_matches(d.signature, s, conversion)
      BY <2>8
    <3>. QED BY <1>1, <1>2, <2>3, <2>8, <3>1, <3>3, <3>4, ClosestFacts
  <2>. QED BY <2>6, <2>7, <2>8 DEF Names, Bound
<1>6. CASE ~target.of_object
  <2>1. Meanings(name, target) = {}
    BY <1>3, <1>6
  <2>2. ~Accepted(name, target)
    BY <1>6 DEF Accepted, score_procedural_argument_conversion, resolve_plain_proc_value_binding
  <2>3. Written(name, target, conversion) = Nothing
    BY <1>6 DEF Written, maybe_convert_proc_value, NameText
  <2>. QED BY <2>1, <2>2, <2>3 DEF Names, Bound, Nothing
<1>. QED BY <1>5, <1>6

LEMMA RoutineNamesBound ==
  ASSUME NEW name \in ProcNames, NEW target \in ProcTypes, NEW conversion \in BOOLEAN,
         ~FurtherUnit(name), name.local = <<>>, name.methods = <<>>
  PROVE  Names(name, target, conversion)
<1>. DEFINE R == ToSet(name.routines)
            D == Routines(R)
            s == target.signature
<1>1. RoutinesNamed(name) = R /\ AreDeclarations(D) /\ \A r, q \in R : r.frame = q.frame /\ r.frame \in Int
  BY RoutinesAreDeclarations
<1>2. \A d \in D : d.what = "routine" /\ d = RoutineOf(d.frame, d.signature)
                   /\ \E r \in R : d = RoutineOf(r.frame, r.signature)
  BY RoutinesAreDeclarations
<1>3. IsSignature(s)
  BY CallsAssumption
<1>4. Methods(name) = {}
  BY MethodsAreDeclarations
<1>5. \A r \in R : RoutineOf(r.frame, r.signature) \in D /\ RoutineOf(r.frame, r.signature).signature = r.signature
                   /\ RoutineOf(r.frame, r.signature).frame = r.frame
  BY DEF Routines, RoutineOf
<1>6. CASE target.of_object
  <2>1. Meanings(name, target) = {}
    BY <1>6 DEF Meanings, Routines
  <2>2. ASSUME NEW b \in BOOLEAN PROVE resolve_method_value_binding(name, target, b) = Nothing
    BY <1>4 DEF resolve_method_value_binding, Closest
  <2>3. ~Accepted(name, target)
    BY <1>6, <2>2 DEF Accepted, score_procedural_argument_conversion
  <2>4. Written(name, target, conversion) = Nothing
    BY <1>6, <2>2 DEF Written, maybe_convert_proc_value
  <2>. QED BY <2>1, <2>3, <2>4 DEF Names, Bound, Nothing
<1>7. CASE ~target.of_object
  <2>1. Meanings(name, target) = {d \in D : d.signature = s}
    <3>. DEFINE fit == {r \in R : r.signature = s}
                nearest == {q \in fit : \A o \in fit : q.frame <= o.frame}
    <3>1. Meanings(name, target) = Routines({q \in {r \in R : ~target.of_object /\ r.signature = s} :
                                      \A o \in {r \in R : ~target.of_object /\ r.signature = s} : q.frame <= o.frame})
      BY <1>1 DEF Meanings
    <3>2. Meanings(name, target) = Routines(nearest)
      BY <3>1, <1>7
    <3>3. \A q, o \in fit : q.frame <= o.frame
      BY <1>1
    <3>4. nearest = fit
      BY <3>3
    <3>. QED BY <3>2, <3>4, <1>2, <1>5 DEF Routines
  <2>2. \A b \in BOOLEAN : resolve_plain_proc_value_binding(name, target, b) = Closest(D, s, b)
    BY <1>1 DEF resolve_plain_proc_value_binding
  <2>3. Accepted(name, target) <=> Closest(D, s, FALSE) # Nothing
    BY <1>7, <2>2 DEF Accepted, score_procedural_argument_conversion
  <2>4. Closest(D, s, FALSE) # Nothing => Closest(D, s, FALSE) \in D /\ Closest(D, s, FALSE).signature = s
    BY <1>1, <1>3, ClosestFacts DEF signature_matches
  <2>5. \A b \in BOOLEAN : \A d \in D : d.signature = s => Closest(D, s, b) = d
    BY <1>1, <1>3, ClosestFacts
  <2>6. Accepted(name, target) <=> Meanings(name, target) # {}
    BY <1>1, <2>1, <2>3, <2>4, <2>5 DEF AreDeclarations
  <2>. DEFINE c == Closest(D, s, conversion)
              wanted == IF c = Nothing THEN s ELSE c.signature
              w == Written(name, target, conversion)
  <2>7. w = NameText(name, wanted)
    BY <1>7, <2>2 DEF Written, maybe_convert_proc_value
  <2>8. c # Nothing => c \in D
    BY <1>1, <1>3, ClosestFacts
  <2>9. w = Nothing \/ (w \in D /\ w.signature = wanted)
    <3>. DEFINE nearest == {r \in R : \A q \in R : r.frame <= q.frame}
                fitting == {r \in nearest : r.signature = wanted}
    <3>1. w = IF fitting = {} THEN Nothing
              ELSE RoutineOf((CHOOSE r \in fitting : TRUE).frame, (CHOOSE r \in fitting : TRUE).signature)
      BY <2>7 DEF NameText
    <3>2. fitting # {} => (CHOOSE r \in fitting : TRUE) \in fitting
      OBVIOUS
    <3>. QED BY <3>1, <3>2, <1>5
  <2>10. (\E d \in D : d.signature = wanted) => w # Nothing
    <3>. DEFINE nearest == {r \in R : \A q \in R : r.frame <= q.frame}
                fitting == {r \in nearest : r.signature = wanted}
    <3>1. w = IF fitting = {} THEN Nothing
              ELSE RoutineOf((CHOOSE r \in fitting : TRUE).frame, (CHOOSE r \in fitting : TRUE).signature)
      BY <2>7 DEF NameText
    <3>2. \A r \in R : r \in nearest
      BY <1>1
    <3>3. ASSUME NEW d \in D, d.signature = wanted PROVE fitting # {}
      <4>1. PICK r \in R : d = RoutineOf(r.frame, r.signature)
        BY <1>2
      <4>2. r \in fitting
        BY <3>2, <3>3, <4>1, <1>5
      <4>. QED BY <4>2
    <3>4. \A f, m : RoutineOf(f, m) # Nothing
      BY DEF RoutineOf, Nothing
    <3>. QED BY <3>1, <3>3, <3>4
  <2>. HIDE DEF w, wanted, c, D
  <2>11. w # Nothing => w = c
    <3>1. CASE c # Nothing
      BY <3>1, <2>8, <2>9, <1>1 DEF AreDeclarations, wanted
    <3>2. CASE c = Nothing
      <4>1. ASSUME w # Nothing PROVE FALSE
        <5>1. w \in D /\ w.signature = s
          BY <2>9, <3>2, <4>1 DEF wanted
        <5>. QED BY <5>1, <2>5, <3>2, <4>1 DEF c
      <4>. QED BY <4>1
    <3>. QED BY <3>1, <3>2
  <2>12. ASSUME NEW d \in D, d.signature = s PROVE w = d
    <3>1. c = d
      BY <2>5, <2>12 DEF c
    <3>2. wanted = s
      BY <3>1, <2>12 DEF wanted
    <3>. QED BY <3>1, <3>2, <2>10, <2>11, <2>12
  <2>13. Meanings(name, target) # {} => Meanings(name, target) = {w}
    BY <2>1, <2>12
  <2>14. ASSUME conversion, w.what \in {"method", "routine"}, NEW d \in Methods(name) \cup D, d # w,
                signature_matches(d.signature, s, TRUE)
         PROVE  procedural_value_signature_distance(w.signature, s) < procedural_value_signature_distance(d.signature, s)
    <3>1. w # Nothing
      BY <2>14 DEF Nothing
    <3>2. w = c /\ c # Nothing /\ d \in D
      BY <2>11, <2>14, <3>1, <1>4
    <3>3. signature_matches(d.signature, s, conversion)
      BY <2>14
    <3>. QED BY <1>1, <1>3, <2>14, <3>2, <3>3, ClosestFacts DEF c
  <2>. QED BY <2>6, <2>13, <2>14 DEF Names, Bound, w, D
<1>. QED BY <1>6, <1>7

LEMMA NamesFromInv == ExpressionInv => NamesAreBoundByType
<1>1. SUFFICES ASSUME ExpressionInv, expr.kind = "procedural", ~HiddenMethod(expr.name), ~FurtherUnit(expr.name)
      PROVE  Bound(expr.name, expr.target, expr.conversion, expr.written, expr.accepted)
  BY DEF NamesAreBoundByType, Bound
<1>2. IsProcValue(expr)
  BY <1>1 DEF ExpressionInv
<1>3. Names(expr.name, expr.target, expr.conversion)
  BY <1>1, <1>2, LocalNamesBound, MethodNamesBound, RoutineNamesBound DEF IsProcValue
<1>. QED BY <1>2, <1>3 DEF IsProcValue, Names, Written, Accepted

\* What a call picks, or a name stands for, is the routine that fits best, and in
\* whatever order the routines are declared: for all routines, operators and
\* class hierarchies.
THEOREM PickCorrect == Spec => []PickIsTheBest
<1>1. Init => ExpressionInv
  BY DEF Init, Idle, ExpressionInv
<1>2. ExpressionInv /\ [Next]_vars => ExpressionInv'
  BY ExpressionStep
<1>3. ExpressionInv => PickIsTheBest
  BY CallsFromInv, NamesFromInv DEF PickIsTheBest
<1>. QED BY <1>1, <1>2, <1>3, PTL DEF Spec

-----------------------------------------------------------------------------
(* The bits of a number: Binary(v, i) of IntegerExpressions.               *)

LEMMA PowerSum ==
  ASSUME NEW m \in Nat, NEW n \in Nat
  PROVE  2 ^ (m + n) = 2 ^ m * 2 ^ n
<1>. DEFINE Bad == {d \in Nat : 2 ^ (m + d) # 2 ^ m * 2 ^ d}
<1>1. SUFFICES ASSUME Bad # {} PROVE FALSE
  OBVIOUS
<1>2. PICK d \in Bad : \A j \in Bad : d <= j
  BY <1>1, Smallest
<1>3. PICK p \in Nat : p = 2 ^ m
  BY Powers
<1>4. d # 0
  <2>1. SUFFICES 2 ^ (m + 0) = 2 ^ m * 2 ^ 0
    BY <1>2
  <2>2. m + 0 = m /\ 2 ^ 0 = 1
    OBVIOUS
  <2>. QED BY <1>3, <2>2
<1>5. PICK e \in Nat : d = e + 1
  <2>1. d - 1 \in Nat /\ d = (d - 1) + 1
    BY <1>2, <1>4
  <2>. QED BY <2>1
<1>6. 2 ^ (m + e) = p * 2 ^ e
  BY <1>2, <1>3, <1>5
<1>7. (m + e) + 1 = m + d /\ m + e \in Nat
  BY <1>5
<1>8. 2 ^ (m + d) = 2 * 2 ^ (m + e) /\ 2 ^ d = 2 * 2 ^ e
  BY <1>5, <1>7, Powers
<1>9. PICK q \in Nat : q = 2 ^ e
  BY Powers
<1>10. 2 * (p * q) = p * (2 * q)
  OBVIOUS
<1>. QED BY <1>2, <1>3, <1>6, <1>8, <1>9, <1>10

LEMMA QuotientOfQuotient ==
  ASSUME NEW v \in Int, NEW a \in Nat \ {0}, NEW b \in Nat \ {0}
  PROVE  (v \div a) \div b = v \div (a * b)
<1>1. PICK q \in Int, r \in 0 .. a - 1 : q = v \div a /\ v = q * a + r
  BY Quotients
<1>2. PICK s \in Int, t \in 0 .. b - 1 : s = q \div b /\ q = s * b + t
  BY Quotients
<1>3. v = s * (a * b) + (t * a + r)
  <2>1. (s * b + t) * a = s * (a * b) + t * a
    OBVIOUS
  <2>2. PICK x \in Int, y \in Int : x = s * (a * b) /\ y = t * a
    OBVIOUS
  <2>3. q * a = x + y
    BY <1>2, <2>1, <2>2
  <2>. QED BY <1>1, <2>2, <2>3
<1>4. a * b \in Nat \ {0} /\ t * a + r \in 0 .. a * b - 1
  <2>1. t * a >= 0 /\ (b - 1 - t) * a >= 0
    OBVIOUS
  <2>2. (b - 1 - t) * a = a * b - a - t * a /\ a * b \in Nat /\ t * a \in Int
    OBVIOUS
  <2>3. a * b # 0
    OBVIOUS
  <2>. QED BY <2>1, <2>2, <2>3
<1>5. v \div (a * b) = s
  BY <1>3, <1>4, QuotientIsUnique
<1>. QED BY <1>1, <1>2, <1>5

LEMMA AddMultiple ==
  ASSUME NEW v \in Int, NEW k \in Int, NEW b \in Nat \ {0}
  PROVE  /\ (v + k * b) \div b = (v \div b) + k
         /\ (v + k * b) % b = v % b
<1>1. PICK q \in Int, r \in 0 .. b - 1 : q = v \div b /\ r = v % b /\ v = q * b + r
  BY Quotients
<1>2. v + k * b = (q + k) * b + r /\ v + k * b \in Int
  <2>1. (q + k) * b = q * b + k * b /\ q * b \in Int /\ k * b \in Int
    OBVIOUS
  <2>. QED BY <1>1, <2>1
<1>3. PICK c \in Int : c = q + k
  OBVIOUS
<1>4. PICK w \in Int : w = v + k * b
  BY <1>2
<1>5. w \div b = c /\ w % b = r
  BY <1>2, <1>3, <1>4, QuotientIsUnique
<1>. QED BY <1>1, <1>3, <1>4, <1>5

LEMMA PowerNat ==
  ASSUME NEW n \in Nat
  PROVE  2 ^ n \in Nat \ {0}
BY Powers

\* The low bits of a number are those of its remainder.
LEMMA SameLowBits ==
  ASSUME NEW v \in Int, NEW k \in Int, NEW n \in Nat, NEW i \in Nat, i < n
  PROVE  Binary(v + k * 2 ^ n, i) <=> Binary(v, i)
<1>1. PICK m \in Nat : 2 ^ n = m * 2 ^ (i + 1)
  BY PowerDivides
<1>2. PICK p \in Nat \ {0} : p = 2 ^ i /\ 2 ^ (i + 1) = 2 * p
  BY Powers
<1>3. k * 2 ^ n = (2 * (k * m)) * p /\ k * m \in Int
  <2>1. k * (m * (2 * p)) = (2 * (k * m)) * p
    OBVIOUS
  <2>. QED BY <1>1, <1>2, <2>1
<1>4. PICK j \in Int : j = k * m
  BY <1>3
<1>5. (v + (2 * j) * p) \div p = (v \div p) + 2 * j
  <2>1. PICK c \in Int : c = 2 * j
    OBVIOUS
  <2>2. (v + c * p) \div p = (v \div p) + c
    BY AddMultiple
  <2>. QED BY <2>1, <2>2
<1>6. PICK x \in Int : x = v \div p
  BY Quotients
<1>7. (x + j * 2) % 2 = x % 2
  BY AddMultiple
<1>8. x + 2 * j = x + j * 2
  OBVIOUS
<1>. QED BY <1>2, <1>3, <1>4, <1>5, <1>6, <1>7, <1>8 DEF Binary

LEMMA RemainderBits ==
  ASSUME NEW v \in Int, NEW n \in Nat, NEW i \in Nat, i < n
  PROVE  Binary(v % 2 ^ n, i) <=> Binary(v, i)
<1>1. PICK p \in Nat \ {0} : p = 2 ^ n
  BY Powers
<1>2. v % p \in Int /\ v \div p \in Int /\ v = (v \div p) * p + (v % p)
  BY Quotients
<1>3. PICK q \in Int, r \in Int : q = v \div p /\ r = v % p
  BY <1>2
<1>4. v = r + q * p
  <2>1. q * p \in Int
    OBVIOUS
  <2>. QED BY <1>2, <1>3, <2>1
<1>. QED BY <1>1, <1>3, <1>4, SameLowBits

LEMMA HighBits ==
  ASSUME NEW v \in Int, NEW s \in Nat, NEW i \in Nat
  PROVE  Binary(v \div 2 ^ s, i) <=> Binary(v, s + i)
<1>1. PICK p \in Nat \ {0}, q \in Nat \ {0} : p = 2 ^ s /\ q = 2 ^ i
  BY PowerNat
<1>2. (v \div p) \div q = v \div (p * q) /\ p * q = 2 ^ (s + i)
  BY <1>1, QuotientOfQuotient, PowerSum
<1>. QED BY <1>1, <1>2 DEF Binary

\* A number put together from a high part and a low part.
LEMMA JoinedBits ==
  ASSUME NEW s \in Nat, NEW y \in Int, NEW x \in 0 .. 2 ^ s - 1, NEW i \in Nat
  PROVE  Binary(y * 2 ^ s + x, i) <=> IF i < s THEN Binary(x, i) ELSE Binary(y, i - s)
<1>1. PICK p \in Nat \ {0} : p = 2 ^ s
  BY PowerNat
<1>2. PICK v \in Int : v = y * p + x
  <2>1. y * p \in Int
    OBVIOUS
  <2>. QED BY <1>1, <2>1
<1>3. v \div p = y /\ v % p = x
  BY <1>1, <1>2, QuotientIsUnique
<1>4. i < s => (Binary(v, i) <=> Binary(x, i))
  BY <1>1, <1>3, RemainderBits
<1>5. ASSUME i >= s PROVE Binary(v, i) <=> Binary(y, i - s)
  <2>1. i - s \in Nat /\ s + (i - s) = i
    BY <1>5
  <2>2. Binary(v \div 2 ^ s, i - s) <=> Binary(v, s + (i - s))
    BY <2>1, HighBits
  <2>. QED BY <1>1, <1>3, <2>1, <2>2
<1>. QED BY <1>1, <1>2, <1>4, <1>5

\* A number has its top bit or it does not.
LEMMA TopBit ==
  ASSUME NEW n \in Nat, NEW v \in 0 .. 2 ^ (n + 1) - 1
  PROVE  /\ v % 2 ^ n \in 0 .. 2 ^ n - 1
         /\ v = (v % 2 ^ n) + IF Binary(v, n) THEN 2 ^ n ELSE 0
<1>1. PICK p \in Nat \ {0} : p = 2 ^ n /\ 2 ^ (n + 1) = 2 * p
  BY Powers
<1>2. v \in Nat /\ v < 2 * p
  BY <1>1
<1>3. PICK q \in Int, r \in 0 .. p - 1 : q = v \div p /\ r = v % p /\ v = q * p + r
  BY <1>2, Quotients
<1>4. /\ q * p \in Int /\ (q >= 1 => q * p >= p) /\ (q <= -1 => q * p <= -p) /\ (q = 0 => q * p = 0)
      /\ (q >= 2 => (q - 2) * p >= 0) /\ (q - 2) * p = q * p - 2 * p
  BY Multiples
<1>5. q \in {0, 1}
  BY <1>2, <1>3, <1>4
<1>6. Binary(v, n) <=> q = 1
  <2>1. Binary(v, n) <=> q % 2 = 1
    BY <1>1, <1>3 DEF Binary
  <2>2. 0 % 2 = 0 /\ 1 % 2 = 1
    OBVIOUS
  <2>. QED BY <1>5, <2>1, <2>2
<1>. QED BY <1>1, <1>2, <1>3, <1>5, <1>6

LEMMA BitsDetermine ==
  ASSUME NEW n \in Nat, NEW x \in 0 .. 2 ^ n - 1, NEW y \in 0 .. 2 ^ n - 1,
         \A i \in 0 .. n - 1 : Binary(x, i) <=> Binary(y, i)
  PROVE  x = y
<1>. DEFINE Bad == {m \in Nat : \E u, v \in 0 .. 2 ^ m - 1 :
                      u # v /\ \A i \in 0 .. m - 1 : Binary(u, i) <=> Binary(v, i)}
<1>1. SUFFICES ASSUME Bad # {} PROVE FALSE
  OBVIOUS
<1>2. PICK m \in Bad : \A j \in Bad : m <= j
  BY <1>1, Smallest
<1>3. PICK u \in 0 .. 2 ^ m - 1, v \in 0 .. 2 ^ m - 1 :
        u # v /\ \A i \in 0 .. m - 1 : Binary(u, i) <=> Binary(v, i)
  BY <1>2
<1>4. m # 0
  <2>1. 2 ^ 0 = 1
    OBVIOUS
  <2>2. SUFFICES ASSUME m = 0 PROVE FALSE
    OBVIOUS
  <2>3. u \in 0 .. 0 /\ v \in 0 .. 0
    BY <1>3, <2>1, <2>2
  <2>. QED BY <1>3, <2>3
<1>5. PICK k \in Nat : m = k + 1
  <2>1. m - 1 \in Nat /\ m = (m - 1) + 1
    BY <1>2, <1>4
  <2>. QED BY <2>1
<1>6. /\ u % 2 ^ k \in 0 .. 2 ^ k - 1 /\ u = (u % 2 ^ k) + IF Binary(u, k) THEN 2 ^ k ELSE 0
      /\ v % 2 ^ k \in 0 .. 2 ^ k - 1 /\ v = (v % 2 ^ k) + IF Binary(v, k) THEN 2 ^ k ELSE 0
  BY <1>3, <1>5, TopBit
<1>7. u \in Int /\ v \in Int /\ 2 ^ k \in Nat
  BY <1>3, <1>5, PowerNat
<1>8. \A i \in 0 .. k - 1 : Binary(u % 2 ^ k, i) <=> Binary(v % 2 ^ k, i)
  BY <1>3, <1>5, <1>7, RemainderBits
<1>9. u % 2 ^ k = v % 2 ^ k
  <2>1. k \notin Bad
    BY <1>2, <1>5
  <2>. QED BY <1>6, <1>8, <2>1
<1>10. Binary(u, k) <=> Binary(v, k)
  BY <1>3, <1>5
<1>. QED BY <1>3, <1>6, <1>9, <1>10

LEMMA BitsExist ==
  ASSUME NEW n \in Nat, NEW S \in SUBSET (0 .. n - 1)
  PROVE  \E v \in 0 .. 2 ^ n - 1 : \A i \in 0 .. n - 1 : Binary(v, i) <=> i \in S
<1>. DEFINE Has(m, T) == \E v \in 0 .. 2 ^ m - 1 : \A i \in 0 .. m - 1 : Binary(v, i) <=> i \in T
            Bad == {m \in Nat : \E T \in SUBSET Nat : ~Has(m, T)}
<1>1. SUFFICES ASSUME Bad # {} PROVE FALSE
  <2>1. S \in SUBSET Nat
    OBVIOUS
  <2>. QED BY <1>1, <2>1
<1>2. PICK m \in Bad : \A j \in Bad : m <= j
  BY <1>1, Smallest
<1>3. PICK T \in SUBSET Nat : ~Has(m, T)
  BY <1>2
<1>4. m # 0
  <2>1. 2 ^ 0 = 1
    OBVIOUS
  <2>2. 0 \in 0 .. 2 ^ 0 - 1
    BY <2>1
  <2>3. Has(0, T)
    BY <2>2
  <2>. QED BY <1>3, <2>3
<1>5. PICK k \in Nat : m = k + 1
  <2>1. m - 1 \in Nat /\ m = (m - 1) + 1
    BY <1>2, <1>4
  <2>. QED BY <2>1
<1>6. Has(k, T)
  BY <1>2, <1>5
<1>7. PICK v \in 0 .. 2 ^ k - 1 : \A i \in 0 .. k - 1 : Binary(v, i) <=> i \in T
  BY <1>6
<1>8. PICK p \in Nat \ {0} : p = 2 ^ k /\ 2 ^ (k + 1) = 2 * p
  BY Powers
<1>9. PICK b \in {0, 1} : b = IF k \in T THEN 1 ELSE 0
  OBVIOUS
<1>10. b * p + v \in 0 .. 2 ^ m - 1
  BY <1>5, <1>7, <1>8, <1>9
<1>11. Binary(b, 0) <=> k \in T
  <2>1. 2 ^ 0 = 1
    OBVIOUS
  <2>2. b \div 1 = b /\ b % 2 = b
    BY <1>9
  <2>. QED BY <1>9, <2>1, <2>2 DEF Binary
<1>12. ASSUME NEW i \in 0 .. m - 1 PROVE Binary(b * 2 ^ k + v, i) <=> i \in T
  <2>1. Binary(b * 2 ^ k + v, i) <=> IF i < k THEN Binary(v, i) ELSE Binary(b, i - k)
    <3>1. b \in Int /\ i \in Nat
      BY <1>5, <1>9
    <3>. QED BY <1>7, <3>1, JoinedBits
  <2>2. i < k \/ i = k
    BY <1>5
  <2>. QED BY <1>5, <1>7, <1>11, <2>1, <2>2
<1>13. Has(m, T)
  BY <1>8, <1>10, <1>12
<1>. QED BY <1>3, <1>13

-----------------------------------------------------------------------------
(* The sum of the powers of two at some places is the number with these    *)
(* bits.                                                                   *)

HasBits(v, n, S) == v \in 0 .. 2 ^ n - 1 /\ \A i \in 0 .. n - 1 : Binary(v, i) <=> i \in S
SumOf(S) == MapThenSumSet(LAMBDA i : 2 ^ i, S)

LEMMA WithoutBit ==
  ASSUME NEW n \in Nat, NEW S \in SUBSET (0 .. n - 1), NEW v, HasBits(v, n, S), NEW i \in S
  PROVE  HasBits(v - 2 ^ i, n, S \ {i})
<1>. DEFINE y == v \div 2 ^ (i + 1)
            z == v % 2 ^ (i + 1)
            x == z % 2 ^ i
<1>1. i \in 0 .. n - 1 /\ v \in 0 .. 2 ^ n - 1 /\ Binary(v, i)
  BY DEF HasBits
<1>2. PICK p \in Nat \ {0} : p = 2 ^ i /\ 2 ^ (i + 1) = 2 * p
  BY Powers
<1>3. v \in Int /\ 2 * p \in Nat \ {0}
  BY <1>1, <1>2, PowerNat
<1>4. v = y * (2 * p) + z /\ y \in Int /\ z \in 0 .. 2 * p - 1
  BY <1>2, <1>3, Quotients
<1>5. Binary(z, i)
  BY <1>1, RemainderBits, i + 1 \in Nat, i < i + 1
<1>6. x \in 0 .. p - 1 /\ z = x + p
  BY <1>1, <1>2, <1>4, <1>5, TopBit
<1>. HIDE DEF y, z, x
<1>7. v - p = y * (2 * p) + x /\ v - p \in 0 .. 2 ^ n - 1
  <2>1. PICK c \in Int : c = y * (2 * p)
    BY <1>4
  <2>2. v - p = c + x /\ c + x + p = v
    BY <1>3, <1>4, <1>6, <2>1
  <2>3. y >= 0
    <3>1. (y <= -1 => y * (2 * p) <= -(2 * p))
      BY <1>3, <1>4, Multiples
    <3>. QED BY <1>1, <1>4, <3>1
  <2>4. c >= 0
    BY <1>3, <1>4, <2>1, <2>3
  <2>. QED BY <1>1, <1>6, <2>1, <2>2, <2>4
<1>8. ASSUME NEW j \in 0 .. n - 1 PROVE Binary(v - p, j) <=> j \in S \ {i}
  <2>0. j \in Nat /\ i \in Nat /\ i + 1 \in Nat
    BY <1>1
  <2>1. Binary(v - p, j) <=> IF j < i + 1 THEN Binary(x, j) ELSE Binary(y, j - (i + 1))
    <3>1. x \in 0 .. 2 ^ (i + 1) - 1 /\ y \in Int
      BY <1>2, <1>4, <1>6
    <3>2. Binary(y * 2 ^ (i + 1) + x, j) <=> IF j < i + 1 THEN Binary(x, j) ELSE Binary(y, j - (i + 1))
      BY <2>0, <3>1, JoinedBits
    <3>. QED BY <1>2, <1>7, <3>2
  <2>2. CASE j < i
    <3>1. Binary(x, j) <=> Binary(z, j)
      BY <1>1, <1>4, <2>0, <2>2, RemainderBits DEF x
    <3>2. Binary(z, j) <=> Binary(v, j)
      <4>1. j < i + 1
        BY <2>0, <2>2
      <4>. QED BY <1>3, <2>0, <4>1, RemainderBits DEF z
    <3>. QED BY <1>1, <2>0, <2>1, <2>2, <3>1, <3>2 DEF HasBits
  <2>3. CASE j = i
    <3>1. x = 0 * p + x /\ x \in Int
      BY <1>6
    <3>2. x \div p = 0
      BY <1>6, <3>1, QuotientIsUnique
    <3>3. 0 % 2 = 0
      OBVIOUS
    <3>4. ~Binary(x, j)
      BY <1>2, <2>3, <3>2, <3>3 DEF Binary
    <3>. QED BY <2>0, <2>1, <2>3, <3>4
  <2>4. CASE j > i
    <3>1. j - (i + 1) \in Nat /\ (i + 1) + (j - (i + 1)) = j /\ ~(j < i + 1)
      BY <2>0, <2>4
    <3>2. Binary(y, j - (i + 1)) <=> Binary(v, j)
      BY <1>3, <2>0, <3>1, HighBits DEF y
    <3>. QED BY <1>1, <2>0, <2>1, <2>4, <3>1, <3>2 DEF HasBits
  <2>. QED BY <2>0, <2>2, <2>3, <2>4
<1>. QED BY <1>2, <1>7, <1>8 DEF HasBits

LEMMA SumIsNumber ==
  ASSUME NEW n \in Nat, NEW S \in SUBSET (0 .. n - 1), NEW v, HasBits(v, n, S)
  PROVE  SumOf(S) = v
<1>. DEFINE AtAny(s) == CHOOSE x \in s : TRUE
            Sums(G) == G = [s \in SUBSET S |-> IF s = {} THEN 0 ELSE 2 ^ AtAny(s) + G[s \ {AtAny(s)}]]
            F == [s \in SUBSET S |-> CHOOSE u \in 0 .. 2 ^ n - 1 : HasBits(u, n, s)]
<1>1. SumOf(S) = (CHOOSE G : Sums(G))[S]
  BY DEF SumOf, MapThenSumSet, MapThenFoldSet
<1>2. ASSUME NEW s \in SUBSET S PROVE F[s] \in 0 .. 2 ^ n - 1 /\ HasBits(F[s], n, s)
  <2>1. s \in SUBSET (0 .. n - 1)
    OBVIOUS
  <2>2. \E u \in 0 .. 2 ^ n - 1 : HasBits(u, n, s)
    BY <2>1, BitsExist DEF HasBits
  <2>3. F[s] = CHOOSE u \in 0 .. 2 ^ n - 1 : HasBits(u, n, s)
    OBVIOUS
  <2>. QED BY <2>2, <2>3
<1>3. ASSUME NEW s \in SUBSET S, NEW u, HasBits(u, n, s) PROVE F[s] = u
  BY <1>2, <1>3, BitsDetermine DEF HasBits
<1>. HIDE DEF F
<1>4. ASSUME NEW s \in SUBSET S, s # {}
      PROVE  AtAny(s) \in s /\ 2 ^ AtAny(s) \in Nat \ {0} /\ F[s] = 2 ^ AtAny(s) + F[s \ {AtAny(s)}]
  <2>1. AtAny(s) \in s
    BY <1>4
  <2>2. HasBits(F[s] - 2 ^ AtAny(s), n, s \ {AtAny(s)})
    BY <1>2, <2>1, WithoutBit
  <2>3. F[s \ {AtAny(s)}] = F[s] - 2 ^ AtAny(s)
    BY <1>3, <2>2
  <2>4. 2 ^ AtAny(s) \in Nat \ {0} /\ F[s] \in Nat
    <3>. HIDE DEF AtAny
    <3>1. 2 ^ n \in Nat
      BY PowerNat
    <3>3. AtAny(s) \in 0 .. n - 1
      BY <2>1
    <3>2. F[s] \in 0 .. 2 ^ n - 1
      BY <1>2
    <3>4. AtAny(s) \in Nat
      BY <3>3
    <3>. QED BY <3>1, <3>2, <3>4, PowerNat
  <2>. QED BY <2>1, <2>3, <2>4
<1>5. F[{}] = 0
  <2>1. HasBits(0, n, {})
    <3>1. 2 ^ n \in Nat \ {0} /\ 0 % 2 = 0
      BY PowerNat
    <3>2. ASSUME NEW i \in 0 .. n - 1 PROVE ~Binary(0, i)
      <4>1. PICK p \in Nat \ {0} : p = 2 ^ i
        BY PowerNat
      <4>2. 0 = 0 * p + 0 /\ 0 \in 0 .. p - 1
        OBVIOUS
      <4>3. 0 \div p = 0
        BY <4>2, QuotientIsUnique
      <4>. QED BY <3>1, <4>1, <4>3 DEF Binary
    <3>. QED BY <3>1, <3>2 DEF HasBits
  <2>. QED BY <1>3, <2>1
<1>. HIDE DEF AtAny
<1>6. Sums(F)
  <2>1. DOMAIN F = SUBSET S /\ F = [s \in SUBSET S |-> F[s]]
    BY DEF F
  <2>2. \A s \in SUBSET S : F[s] = IF s = {} THEN 0 ELSE 2 ^ AtAny(s) + F[s \ {AtAny(s)}]
    BY <1>4, <1>5
  <2>. QED BY <2>1, <2>2
<1>7. ASSUME NEW G, Sums(G) PROVE G[S] = F[S]
  <2>. DEFINE Bad == {F[s] : s \in {t \in SUBSET S : G[t] # F[t]}}
  <2>1. \A s \in SUBSET S : G[s] = IF s = {} THEN 0 ELSE 2 ^ AtAny(s) + G[s \ {AtAny(s)}]
    BY <1>7
  <2>2. SUFFICES ASSUME Bad # {} PROVE FALSE
    OBVIOUS
  <2>3. Bad \in SUBSET Nat
    BY <1>2
  <2>4. PICK m \in Bad : \A j \in Bad : m <= j
    BY <2>2, <2>3, Smallest
  <2>5. PICK s \in SUBSET S : G[s] # F[s] /\ m = F[s]
    BY <2>4
  <2>6. s # {}
    BY <1>5, <2>1, <2>5
  <2>7. PICK r \in SUBSET S : r = s \ {AtAny(s)}
    OBVIOUS
  <2>8. F[s] = 2 ^ AtAny(s) + F[r] /\ 2 ^ AtAny(s) \in Nat \ {0} /\ G[s] = 2 ^ AtAny(s) + G[r]
    BY <1>4, <2>1, <2>6, <2>7
  <2>9. F[r] \in Nat /\ F[s] \in Nat
    BY <1>2
  <2>10. G[r] # F[r]
    BY <2>5, <2>8
  <2>11. F[r] \in Bad
    BY <2>10
  <2>12. F[s] <= F[r]
    BY <2>4, <2>5, <2>11
  <2>. HIDE DEF Bad
  <2>. QED BY <2>8, <2>9, <2>12
<1>8. (CHOOSE G : Sums(G))[S] = F[S]
  <2>. HIDE DEF Sums
  <2>1. Sums(CHOOSE G : Sums(G))
    BY <1>6
  <2>. QED BY <1>7, <2>1
<1>9. F[S] = v
  BY <1>3
<1>. QED BY <1>1, <1>8, <1>9 DEF AtAny

-----------------------------------------------------------------------------
(* Bit patterns of a type: OnesOf and FromOnes.                            *)

SameBits(n, x, y) == \A i \in 0 .. n - 1 : Binary(x, i) <=> Binary(y, i)

LEMMA CongruentBits ==
  ASSUME NEW t \in Types, NEW x \in Int, NEW y \in Int
  PROVE  Congruent(t, x, y) <=> SameBits(Bits(t), x, y)
<1>1. Bits(t) \in Nat /\ Size(t) = 2 ^ Bits(t) /\ Size(t) \in Nat \ {0}
  BY TypeBounds DEF Size
<1>2. ASSUME Congruent(t, x, y) PROVE SameBits(Bits(t), x, y)
  <2>1. PICK k \in Int : x = y + k * Size(t)
    BY <1>2 DEF Congruent
  <2>2. ASSUME NEW i \in 0 .. Bits(t) - 1 PROVE Binary(y + k * 2 ^ Bits(t), i) <=> Binary(y, i)
    <3>1. i \in Nat /\ i < Bits(t)
      BY <1>1
    <3>. QED BY <1>1, <3>1, SameLowBits
  <2>. QED BY <1>1, <2>1, <2>2 DEF SameBits
<1>3. ASSUME SameBits(Bits(t), x, y) PROVE Congruent(t, x, y)
  <2>1. /\ x \div Size(t) \in Int /\ x % Size(t) \in 0 .. Size(t) - 1 /\ x = (x \div Size(t)) * Size(t) + (x % Size(t))
        /\ y \div Size(t) \in Int /\ y % Size(t) \in 0 .. Size(t) - 1 /\ y = (y \div Size(t)) * Size(t) + (y % Size(t))
    BY <1>1, Quotients
  <2>2. ASSUME NEW i \in 0 .. Bits(t) - 1 PROVE Binary(x % 2 ^ Bits(t), i) <=> Binary(y % 2 ^ Bits(t), i)
    <3>1. i \in Nat /\ i < Bits(t)
      BY <1>1
    <3>2. Binary(x % 2 ^ Bits(t), i) <=> Binary(x, i)
      BY <1>1, <3>1, RemainderBits
    <3>3. Binary(y % 2 ^ Bits(t), i) <=> Binary(y, i)
      BY <1>1, <3>1, RemainderBits
    <3>. QED BY <1>3, <3>2, <3>3 DEF SameBits
  <2>3. x % Size(t) = y % Size(t)
    BY <1>1, <2>1, <2>2, BitsDetermine
  <2>4. PICK q \in Int, s \in Int, r \in Int : q = x \div Size(t) /\ s = y \div Size(t) /\ r = x % Size(t)
    BY <2>1
  <2>5. PICK n \in Nat \ {0} : n = Size(t)
    BY <1>1
  <2>6. x = q * n + r /\ y = s * n + r
    BY <2>1, <2>3, <2>4, <2>5
  <2>7. x = y + (q - s) * n /\ q - s \in Int
    <3>1. (q - s) * n = q * n - s * n /\ q * n \in Int /\ s * n \in Int
      OBVIOUS
    <3>. QED BY <2>6, <3>1
  <2>. QED BY <2>5, <2>7 DEF Congruent
<1>. QED BY <1>2, <1>3

LEMMA OnesAreBits ==
  ASSUME NEW t \in Types, NEW v \in Int
  PROVE  /\ OnesOf(t, v) = {i \in 0 .. Bits(t) - 1 : Binary(v, i)}
         /\ OnesOf(t, As(t, v)) = OnesOf(t, v)
<1>1. \A x : OnesOf(t, x) = {i \in 0 .. Bits(t) - 1 : Binary(x, i)}
  BY DEF OnesOf, Binary
<1>2. SameBits(Bits(t), As(t, v), v)
  BY Conversion, CongruentBits
<1>. QED BY <1>1, <1>2 DEF SameBits

LEMMA PatternNumber ==
  ASSUME NEW t \in Types, NEW S \in SUBSET (0 .. Bits(t) - 1)
  PROVE  /\ SumOf(S) \in 0 .. Size(t) - 1 /\ HasBits(SumOf(S), Bits(t), S)
         /\ FromOnes(t, S) = As(t, SumOf(S))
         /\ FromOnes(t, S) \in Int /\ Fits(FromOnes(t, S), t)
         /\ \A i \in 0 .. Bits(t) - 1 : Binary(FromOnes(t, S), i) <=> i \in S
<1>1. Bits(t) \in Nat /\ Size(t) = 2 ^ Bits(t) /\ Size(t) \in Nat \ {0}
  BY TypeBounds DEF Size
<1>2. SumOf(S) \in 0 .. Size(t) - 1 /\ HasBits(SumOf(S), Bits(t), S)
  <2>1. PICK v \in 0 .. 2 ^ Bits(t) - 1 : \A i \in 0 .. Bits(t) - 1 : Binary(v, i) <=> i \in S
    BY <1>1, BitsExist
  <2>2. HasBits(v, Bits(t), S)
    BY <2>1 DEF HasBits
  <2>3. SumOf(S) = v
    BY <1>1, <2>2, SumIsNumber
  <2>. QED BY <1>1, <2>2, <2>3 DEF HasBits
<1>3. PICK u \in 0 .. Size(t) - 1 : u = SumOf(S)
  BY <1>2
<1>4. FromOnes(t, S) = As(t, u)
  <2>1. u % Size(t) = u
    BY <1>1, SmallRemainders
  <2>2. FromOnes(t, S) = integer_from_bits(t, u)
    BY <1>3 DEF FromOnes, SumOf
  <2>. QED BY <1>1, <2>1, <2>2 DEF As
<1>5. u \in Int
  BY <1>1
<1>6. As(t, u) \in Int /\ Fits(As(t, u), t) /\ SameBits(Bits(t), As(t, u), u)
  BY <1>5, Conversion, CongruentBits
<1>7. \A i \in 0 .. Bits(t) - 1 : Binary(As(t, u), i) <=> i \in S
  BY <1>2, <1>3, <1>6 DEF SameBits, HasBits
<1>. QED BY <1>2, <1>3, <1>4, <1>6, <1>7

\* A pattern is the number of the type that has its bits.
LEMMA PatternIs ==
  ASSUME NEW t \in Types, NEW S \in SUBSET (0 .. Bits(t) - 1), NEW x \in Int, Fits(x, t),
         \A i \in 0 .. Bits(t) - 1 : Binary(x, i) <=> i \in S
  PROVE  FromOnes(t, S) = x
<1>1. /\ FromOnes(t, S) \in Int /\ Fits(FromOnes(t, S), t)
      /\ \A i \in 0 .. Bits(t) - 1 : Binary(FromOnes(t, S), i) <=> i \in S
  BY PatternNumber
<1>2. SameBits(Bits(t), FromOnes(t, S), x)
  BY <1>1 DEF SameBits
<1>3. Congruent(t, FromOnes(t, S), x)
  BY <1>1, <1>2, CongruentBits
<1>. QED BY <1>1, <1>3, OneRepresentative

\* Above the bits of its type a number has its sign.
LEMMA SignBits ==
  ASSUME NEW n \in Nat, NEW v \in Int, -(2 ^ n) <= v, v <= 2 ^ n - 1, NEW i \in Nat, i >= n
  PROVE  Binary(v, i) <=> v < 0
<1>1. PICK p \in Nat \ {0} : p = 2 ^ i
  BY PowerNat
<1>2. 2 ^ n <= p /\ 2 ^ n \in Nat
  BY <1>1, PowersGrow, PowerNat
<1>3. CASE v >= 0
  <2>1. v = 0 * p + v /\ v \in 0 .. p - 1
    BY <1>2, <1>3
  <2>2. v \div p = 0 /\ 0 % 2 = 0
    BY <2>1, QuotientIsUnique
  <2>. QED BY <1>1, <1>3, <2>2 DEF Binary
<1>4. CASE v < 0
  <2>1. v = (-1) * p + (v + p) /\ v + p \in 0 .. p - 1
    BY <1>2, <1>4
  <2>2. PICK w \in -2 .. -1 : w = -1
    OBVIOUS
  <2>3. v \div p = w
    BY <2>1, <2>2, QuotientIsUnique
  <2>4. w % 2 = w + 2
    BY SmallRemainders
  <2>. QED BY <1>1, <1>4, <2>2, <2>3, <2>4 DEF Binary
<1>. QED BY <1>3, <1>4

LEMMA FittingBits ==
  ASSUME NEW t \in Types, NEW v \in Int, Fits(v, t), NEW i \in Nat
  PROVE  /\ i >= Bits(t) => (Binary(v, i) <=> v < 0)
         /\ t.kind = "signed" /\ i = Bits(t) - 1 => (Binary(v, i) <=> v < 0)
         /\ t.kind = "unsigned" => v >= 0
<1>1. /\ Bits(t) \in Nat \ {0} /\ Size(t) = 2 ^ Bits(t) /\ Size(t) \in Nat \ {0} /\ t.kind \in {"signed", "unsigned"}
      /\ Low(t) \in Int /\ High(t) \in Nat
      /\ t.kind = "signed" => Low(t) = -(High(t) + 1) /\ Size(t) = 2 * (High(t) + 1)
      /\ t.kind = "unsigned" => Low(t) = 0 /\ High(t) + 1 = Size(t)
  BY TypeBounds DEF Size, Types
<1>2. -(2 ^ Bits(t)) <= v /\ v <= 2 ^ Bits(t) - 1
  BY <1>1 DEF Fits
<1>3. i >= Bits(t) => (Binary(v, i) <=> v < 0)
  BY <1>1, <1>2, SignBits
<1>4. ASSUME t.kind = "signed", i = Bits(t) - 1 PROVE Binary(v, i) <=> v < 0
  <2>1. i + 1 = Bits(t)
    BY <1>1, <1>4
  <2>2. 2 ^ Bits(t) = 2 * 2 ^ i /\ 2 ^ i \in Nat
    BY <2>1, Powers
  <2>3. High(t) + 1 = 2 ^ i
    BY <1>1, <1>4, <2>2
  <2>4. -(2 ^ i) <= v /\ v <= 2 ^ i - 1
    BY <1>1, <1>4, <2>3 DEF Fits
  <2>. QED BY <2>4, SignBits
<1>. QED BY <1>1, <1>3, <1>4 DEF Fits

-----------------------------------------------------------------------------
(* Numbers made of bits and a sign: NumberOfBits of IntegerExpressions.    *)

LEMMA BitsAndSign ==
  ASSUME NEW n \in Nat, NEW S \in SUBSET (0 .. n - 1), NEW neg \in BOOLEAN,
         NEW v, v = SumOf(S) - (IF neg THEN 2 ^ n ELSE 0)
  PROVE  /\ v \in Int /\ (v < 0 <=> neg)
         /\ \A i \in 0 .. n - 1 : Binary(v, i) <=> i \in S
<1>1. PICK u \in 0 .. 2 ^ n - 1 : \A i \in 0 .. n - 1 : Binary(u, i) <=> i \in S
  BY BitsExist
<1>2. SumOf(S) = u
  BY <1>1, SumIsNumber DEF HasBits
<1>3. PICK p \in Nat \ {0} : p = 2 ^ n
  BY PowerNat
<1>4. v = u - (IF neg THEN p ELSE 0) /\ v \in Int /\ (v < 0 <=> neg)
  BY <1>1, <1>2, <1>3
<1>5. PICK k \in {0, -1} : k = IF neg THEN -1 ELSE 0
  OBVIOUS
<1>6. v = u + k * p
  BY <1>4, <1>5
<1>7. ASSUME NEW i \in 0 .. n - 1 PROVE Binary(v, i) <=> i \in S
  <2>1. Binary(u + k * 2 ^ n, i) <=> Binary(u, i)
    <3>1. k \in Int /\ u \in Int /\ i \in Nat /\ i < n
      BY <1>5
    <3>. QED BY <3>1, SameLowBits
  <2>. QED BY <1>1, <1>3, <1>6, <2>1
<1>. QED BY <1>4, <1>7

LEMMA BitsAndSignDetermine ==
  ASSUME NEW n \in Nat, NEW S \in SUBSET (0 .. n - 1), NEW neg \in BOOLEAN,
         NEW x \in Int, -(2 ^ n) <= x, x <= 2 ^ n - 1, x < 0 <=> neg,
         \A i \in 0 .. n - 1 : Binary(x, i) <=> i \in S
  PROVE  SumOf(S) - (IF neg THEN 2 ^ n ELSE 0) = x
<1>1. PICK p \in Nat \ {0} : p = 2 ^ n
  BY PowerNat
<1>2. PICK k \in {0, 1} : k = IF neg THEN 1 ELSE 0
  OBVIOUS
<1>3. PICK u \in 0 .. p - 1 : u = x + k * p
  BY <1>1, <1>2
<1>4. ASSUME NEW i \in 0 .. n - 1 PROVE Binary(u, i) <=> i \in S
  <2>1. k \in Int /\ i \in Nat /\ i < n
    BY <1>2
  <2>2. Binary(x + k * 2 ^ n, i) <=> Binary(x, i)
    BY <2>1, SameLowBits
  <2>. QED BY <1>1, <1>3, <2>2
<1>5. SumOf(S) = u
  BY <1>1, <1>4, SumIsNumber DEF HasBits
<1>. QED BY <1>1, <1>2, <1>3, <1>5

-----------------------------------------------------------------------------
(* Operands and carriers of expressions.                                   *)

LEMMA TypeNames ==
  /\ \A s \in Sizes : /\ Signed(s) \in Types /\ Signed(s).kind = "signed" /\ Signed(s).size = s
                      /\ Unsigned(s) \in Types /\ Unsigned(s).kind = "unsigned" /\ Unsigned(s).size = s
  /\ \A t \in Types : /\ t.kind \in {"signed", "unsigned"} /\ t.size \in Sizes
                      /\ t = IF t.kind = "signed" THEN Signed(t.size) ELSE Unsigned(t.size)
<1>1. \A s \in Sizes : /\ Signed(s) \in Types /\ Signed(s).kind = "signed" /\ Signed(s).size = s
                       /\ Unsigned(s) \in Types /\ Unsigned(s).kind = "unsigned" /\ Unsigned(s).size = s
  BY DEF Types, Signed, Unsigned
<1>2. ASSUME NEW t \in Types
      PROVE  /\ t.kind \in {"signed", "unsigned"} /\ t.size \in Sizes
             /\ t = IF t.kind = "signed" THEN Signed(t.size) ELSE Unsigned(t.size)
  BY DEF Types, Signed, Unsigned
<1>. QED BY <1>1, <1>2

\* The largest types.
LEMMA LargestTypes ==
  ASSUME NEW t \in Types
  PROVE  /\ Low(Signed(64)) <= Low(t) /\ High(t) <= High(Unsigned(64))
         /\ Low(Unsigned(64)) = 0 /\ Low(t) <= 0
<1>1. t.size \in Sizes /\ t.kind \in {"signed", "unsigned"} /\ Signed(64) \in Types /\ Unsigned(64) \in Types
      /\ Signed(64).size = 64 /\ Unsigned(64).size = 64 /\ Signed(64).kind = "signed" /\ Unsigned(64).kind = "unsigned"
  BY TypeNames DEF Sizes
<1>2. Bits(t) <= Bits(Signed(64)) /\ Bits(t) <= Bits(Unsigned(64))
  BY <1>1, Inclusion DEF Sizes
<1>3. t.kind = "signed" => Low(Signed(64)) <= Low(t) /\ High(t) <= High(Unsigned(64))
  BY <1>1, <1>2, Widening
<1>4. t.kind = "unsigned" => Low(t) = 0 /\ High(t) <= High(Unsigned(64)) /\ Low(Signed(64)) <= 0
  BY <1>1, <1>2, Widening, TypeBounds
<1>5. Low(Unsigned(64)) = 0 /\ Low(t) <= 0
  BY <1>1, TypeBounds
<1>. QED BY <1>1, <1>3, <1>4, <1>5

LEMMA OperandsFit ==
  ASSUME NEW x \in Operands
  PROVE  x.type \in Types /\ x.const \in BOOLEAN /\ x.value \in Int /\ Fits(x.value, x.type)
<1>1. CASE x \in Variables
  <2>1. PICK t \in Types : x \in {[type |-> t, const |-> FALSE, value |-> v] : v \in Samples(t)}
    BY <1>1 DEF Variables
  <2>2. PICK v \in Samples(t) : x = [type |-> t, const |-> FALSE, value |-> v]
    BY <2>1
  <2>3. v \in Int /\ Fits(v, t)
    BY SamplesAssumption
  <2>. QED BY <2>2, <2>3
<1>2. CASE x \in Literals
  <2>1. PICK v \in UNION {Samples(t) : t \in Types} : x = [type |-> LiteralType(v), const |-> TRUE, value |-> v]
    BY <1>2 DEF Literals
  <2>2. PICK t \in Types : v \in Samples(t)
    BY <2>1
  <2>3. v \in Int /\ Fits(v, t)
    BY <2>2, SamplesAssumption
  <2>4. Low(Signed(64)) <= v /\ v <= High(Unsigned(64)) /\ Low(Unsigned(64)) = 0
        /\ High(Signed(64)) \in Nat /\ Low(Signed(64)) \in Int /\ High(Unsigned(64)) \in Nat
    <3>1. Signed(64) \in Types /\ Unsigned(64) \in Types
      BY TypeNames DEF Sizes
    <3>2. /\ Low(t) \in Int /\ High(t) \in Nat /\ High(Signed(64)) \in Nat /\ Low(Signed(64)) \in Int
          /\ High(Unsigned(64)) \in Nat
      BY <3>1, TypeBounds
    <3>. QED BY <2>3, <3>2, LargestTypes DEF Fits
  <2>5. CASE v > High(Signed(64))
    <3>1. LiteralType(v) = Unsigned(64) /\ Unsigned(64) \in Types
      BY <2>5, TypeNames DEF LiteralType, Sizes
    <3>. QED BY <2>1, <2>3, <2>4, <2>5, <3>1 DEF Fits
  <2>6. CASE ~(v > High(Signed(64)))
    <3>. DEFINE fitting == {s \in {8, 16, 32} : Fits(v, Signed(s)) \/ Fits(v, Unsigned(s))}
    <3>1. LiteralType(v) = IF fitting = {} THEN Signed(64)
                           ELSE IF Fits(v, Signed(Min(fitting))) THEN Signed(Min(fitting)) ELSE Unsigned(Min(fitting))
      BY <2>6 DEF LiteralType, primitive_info_for_value
    <3>2. CASE fitting = {}
      <4>1. LiteralType(v) = Signed(64) /\ Signed(64) \in Types
        BY <3>1, <3>2, TypeNames DEF Sizes
      <4>. QED BY <2>1, <2>3, <2>4, <2>6, <4>1 DEF Fits
    <3>3. CASE fitting # {}
      <4>1. fitting \in SUBSET Nat /\ fitting \in SUBSET Sizes /\ \A s \in fitting : Fits(v, Signed(s)) \/ Fits(v, Unsigned(s))
        BY DEF Sizes
      <4>. HIDE DEF fitting
      <4>2. Min(fitting) \in fitting
        <5>1. \E k \in fitting : \A j \in fitting : k <= j
          BY <3>3, <4>1, Smallest
        <5>. QED BY <5>1 DEF Min
      <4>3. Signed(Min(fitting)) \in Types /\ Unsigned(Min(fitting)) \in Types
        BY <4>1, <4>2, TypeNames
      <4>. QED BY <2>1, <2>3, <3>1, <3>3, <4>1, <4>2, <4>3
    <3>. QED BY <3>2, <3>3
  <2>. QED BY <2>5, <2>6
<1>. QED BY <1>1, <1>2 DEF Operands

-----------------------------------------------------------------------------
(* Sums, differences and products.                                         *)

LEMMA CongruentProducts ==
  ASSUME NEW t \in Types, NEW a \in Int, NEW b \in Int, NEW c \in Int, NEW d \in Int,
         Congruent(t, a, b), Congruent(t, c, d)
  PROVE  Congruent(t, a * c, b * d)
<1>1. PICK n \in Nat \ {0} : n = Size(t)
  BY TypeBounds
<1>2. PICK j \in Int : a = b + j * n
  BY <1>1 DEF Congruent
<1>3. PICK k \in Int : c = d + k * n
  BY <1>1 DEF Congruent
<1>4. (b + j * n) * (d + k * n) = b * d + (b * k + j * d + j * (k * n)) * n
  OBVIOUS
<1>5. b * k + j * d + j * (k * n) \in Int
  OBVIOUS
<1>. QED BY <1>1, <1>2, <1>3, <1>4, <1>5 DEF Congruent

LEMMA Reduced ==
  ASSUME NEW t \in Types, NEW r \in Int, NEW n \in Int, Congruent(t, r, n)
  PROVE  /\ As(t, r) \in Int /\ Fits(As(t, r), t) /\ (As(t, r) - n) % Size(t) = 0
         /\ Fits(n, t) => As(t, r) = n
<1>1. As(t, r) \in Int /\ Fits(As(t, r), t) /\ Congruent(t, As(t, r), r)
  BY Conversion
<1>2. Congruent(t, As(t, r), n)
  BY <1>1, CongruentSteps
<1>3. (As(t, r) - n) % Size(t) = 0
  BY <1>1, <1>2, CongruentSteps
<1>. QED BY <1>1, <1>2, <1>3, OneRepresentative

\* What is expected of a run in carrier R whose operation means n.
IsExact(run, R, n, checked) ==
  IF Fits(n, R) THEN run = Returns(n)
  ELSE IF checked /\ R.kind = "signed" THEN run = Raises("overflow")
  ELSE Fine(run) /\ Fits(run.value, R) /\ (run.value - n) % Size(R) = 0

LEMMA Outcomes ==
  ASSUME NEW v
  PROVE  /\ Fine(Returns(v)) /\ Returns(v).value = v
         /\ ~Fine(Raises("overflow")) /\ ~Fine(Raises("range")) /\ ~Fine(Raises("div by zero"))
BY DEF Fine, Returns, Raises

LEMMA ExactIsInt ==
  ASSUME NEW op \in Arithmetic, NEW a \in Int, NEW b \in Int
  PROVE  /\ Exact(op, a, b) \in Int
         /\ op = "add" => Exact(op, a, b) = a + b
         /\ op = "sub" => Exact(op, a, b) = a - b
         /\ op = "mul" => Exact(op, a, b) = a * b
<1>1. a * b \in Int /\ a + b \in Int /\ a - b \in Int
  OBVIOUS
<1>2. op \in {"add", "sub", "mul"}
  BY DEF Arithmetic
<1>3. CASE op = "add"
  BY <1>1, <1>3 DEF Exact
<1>4. CASE op = "sub"
  BY <1>1, <1>4 DEF Exact
<1>5. CASE op = "mul"
  BY <1>1, <1>5 DEF Exact
<1>. QED BY <1>2, <1>3, <1>4, <1>5

LEMMA ArithmeticRun ==
  ASSUME NEW op \in Arithmetic, NEW R \in Types, NEW a \in Int, NEW b \in Int, NEW q \in BOOLEAN,
         NEW run, run = IF q THEN op_checked(op, R, a, b) ELSE wrap_op(op, R, a, b)
  PROVE  /\ Fine(run) => (run.value - Exact(op, a, b)) % Size(R) = 0
         /\ Fits(a, R) /\ Fits(b, R) => IsExact(run, R, Exact(op, a, b), q)
<1>. DEFINE x == As(R, a)
            y == As(R, b)
            r == Exact(op, x, y)
            n == Exact(op, a, b)
<1>1. /\ x \in Int /\ Congruent(R, x, a) /\ (Fits(a, R) => x = a)
      /\ y \in Int /\ Congruent(R, y, b) /\ (Fits(b, R) => y = b)
  BY Conversion
<1>2. run = IF q /\ ~Fits(r, R) /\ R.kind = "signed" THEN Raises("overflow") ELSE Returns(As(R, r))
  BY DEF op_checked, wrap_op
<1>. HIDE DEF x, y
<1>3. r \in Int /\ n \in Int /\ Congruent(R, r, n)
  <2>1. op \in {"add", "sub", "mul"}
    BY DEF Arithmetic
  <2>2. Congruent(R, x + y, a + b) /\ Congruent(R, x - y, a - b) /\ Congruent(R, x * y, a * b)
    BY <1>1, CongruentSums, CongruentProducts
  <2>. QED BY <1>1, <2>1, <2>2, ExactIsInt
<1>4. As(R, r) \in Int /\ Fits(As(R, r), R) /\ (As(R, r) - n) % Size(R) = 0 /\ (Fits(n, R) => As(R, r) = n)
  BY <1>3, Reduced
<1>5. Fits(a, R) /\ Fits(b, R) => r = n
  BY <1>1
<1>. HIDE DEF r, n
<1>6. Fine(run) => run = Returns(As(R, r))
  BY <1>2, Outcomes
<1>7. Fine(run) => (run.value - n) % Size(R) = 0
  BY <1>4, <1>6, Outcomes
<1>8. ASSUME Fits(a, R), Fits(b, R) PROVE IsExact(run, R, n, q)
  BY <1>2, <1>4, <1>5, <1>8, Outcomes DEF IsExact
<1>. QED BY <1>7, <1>8 DEF n

-----------------------------------------------------------------------------
(* Division.                                                               *)

\* The quotient and what is left: the division that truncates toward zero.
IsQuotient(a, b, q) ==
  Abs(a - q * b) < Abs(b) /\ (a - q * b = 0 \/ (a - q * b < 0) = (a < 0))

LEMMA TruncatedIs ==
  ASSUME NEW a \in Int, NEW b \in Int, b # 0
  PROVE  /\ Truncated(a, b) \in -Abs(a) .. Abs(a) /\ IsQuotient(a, b, Truncated(a, b))
         /\ Abs(b) >= 2 => 2 * Abs(Truncated(a, b)) <= Abs(a)
         /\ a - Truncated(a, b) * b = IF a < 0 THEN -(Abs(a) % Abs(b)) ELSE Abs(a) % Abs(b)
<1>1. PICK m \in Nat : m = Abs(a) /\ (a >= 0 => a = m) /\ (a < 0 => a = -m)
  BY DEF Abs
<1>2. PICK n \in Nat \ {0} : n = Abs(b) /\ (b >= 0 => b = n) /\ (b < 0 => b = -n)
  BY DEF Abs
<1>3. PICK k \in Int, r \in 0 .. n - 1 : k = m \div n /\ r = m % n /\ m = k * n + r
  BY Quotients
<1>4. k >= 0
  <2>. SUFFICES ASSUME k <= -1 PROVE FALSE
    OBVIOUS
  <2>. QED BY <1>3, Multiples
<1>5. k * n >= k /\ (n >= 2 => k * n >= 2 * k)
  <2>1. PICK j \in Nat : n = j + 1
    <3>1. n - 1 \in Nat /\ n = (n - 1) + 1
      OBVIOUS
    <3>. QED BY <3>1
  <2>2. k * (j + 1) = k * j + k /\ k * j \in Nat
    BY <1>4
  <2>3. ASSUME n >= 2 PROVE k * n >= 2 * k
    <3>1. PICK i \in Nat : j = i + 1
      <4>1. j - 1 \in Nat
        BY <2>1, <2>3
      <4>2. j = (j - 1) + 1
        OBVIOUS
      <4>. QED BY <4>1, <4>2
    <3>2. k * (i + 1) = k * i + k /\ k * i \in Nat
      BY <1>4
    <3>. QED BY <2>1, <2>2, <3>1, <3>2
  <2>. QED BY <2>1, <2>2, <2>3
<1>6. k <= m /\ (n >= 2 => 2 * k <= m)
  BY <1>3, <1>5
<1>7. PICK q \in Int : q = Truncated(a, b) /\ q = IF (a < 0) = (b < 0) THEN k ELSE -k
  BY <1>1, <1>2, <1>3 DEF Truncated
<1>8. (-k) * n = -(k * n) /\ k * (-n) = -(k * n) /\ (-k) * (-n) = k * n
  OBVIOUS
<1>9. a - q * b = IF a < 0 THEN -r ELSE r
  <2>1. CASE a < 0 /\ b < 0
    BY <1>1, <1>2, <1>3, <1>7, <1>8, <2>1
  <2>2. CASE a < 0 /\ b >= 0
    BY <1>1, <1>2, <1>3, <1>7, <1>8, <2>2
  <2>3. CASE a >= 0 /\ b < 0
    BY <1>1, <1>2, <1>3, <1>7, <1>8, <2>3
  <2>4. CASE a >= 0 /\ b >= 0
    BY <1>1, <1>2, <1>3, <1>7, <1>8, <2>4
  <2>. QED BY <2>1, <2>2, <2>3, <2>4
<1>10. PICK s \in Int : s = a - q * b /\ s = IF a < 0 THEN -r ELSE r
  BY <1>9
<1>11. Abs(s) < n /\ (s = 0 \/ (s < 0) = (a < 0))
  BY <1>10 DEF Abs
<1>12. IsQuotient(a, b, q)
  BY <1>2, <1>10, <1>11 DEF IsQuotient
<1>13. q \in -m .. m /\ (n >= 2 => 2 * Abs(q) <= m)
  BY <1>4, <1>6, <1>7 DEF Abs
<1>14. a - q * b = IF a < 0 THEN -(Abs(a) % Abs(b)) ELSE Abs(a) % Abs(b)
  BY <1>1, <1>2, <1>3, <1>9
<1>. QED BY <1>1, <1>2, <1>7, <1>12, <1>13, <1>14

LEMMA OneQuotient ==
  ASSUME NEW a \in Int, NEW b \in Int, b # 0, NEW q \in Int, NEW k \in Int, IsQuotient(a, b, q), IsQuotient(a, b, k)
  PROVE  q = k
<1>1. PICK n \in Nat \ {0} : n = Abs(b) /\ (b >= 0 => b = n) /\ (b < 0 => b = -n)
  BY DEF Abs
<1>2. PICK r \in Int : r = a - q * b
  OBVIOUS
<1>3. PICK s \in Int : s = a - k * b
  OBVIOUS
<1>4. Abs(r) < n /\ (r = 0 \/ (r < 0) = (a < 0)) /\ Abs(s) < n /\ (s = 0 \/ (s < 0) = (a < 0))
  BY <1>1, <1>2, <1>3 DEF IsQuotient
<1>5. r - s < n /\ s - r < n
  BY <1>4 DEF Abs
<1>6. PICK d \in Int : d = k - q
  OBVIOUS
<1>7. d * b = r - s
  <2>1. (k - q) * b = k * b - q * b
    OBVIOUS
  <2>. QED BY <1>2, <1>3, <1>6, <2>1
<1>8. d * n < n /\ -(d * n) < n
  <2>1. d * (-n) = -(d * n)
    OBVIOUS
  <2>2. CASE b >= 0
    BY <1>1, <1>5, <1>7, <2>2
  <2>3. CASE b < 0
    BY <1>1, <1>5, <1>7, <2>1, <2>3
  <2>. QED BY <2>2, <2>3
<1>9. d = 0
  BY <1>8, Multiples
<1>. QED BY <1>6, <1>9

LEMMA QuotientIs ==
  ASSUME NEW a \in Int, NEW b \in Int, b # 0
  PROVE  Quotient(a, b) = Truncated(a, b)
<1>1. Truncated(a, b) \in -Abs(a) .. Abs(a) /\ IsQuotient(a, b, Truncated(a, b)) /\ Abs(a) \in Int
  BY TruncatedIs DEF Abs
<1>2. Quotient(a, b) = CHOOSE q \in -Abs(a) .. Abs(a) : IsQuotient(a, b, q)
  BY DEF Quotient, IsQuotient
<1>3. PICK c : c = CHOOSE q \in -Abs(a) .. Abs(a) : IsQuotient(a, b, q)
  OBVIOUS
<1>4. c \in -Abs(a) .. Abs(a) /\ IsQuotient(a, b, c)
  BY <1>1, <1>3
<1>5. c \in Int /\ Truncated(a, b) \in Int
  BY <1>1, <1>4
<1>. QED BY <1>1, <1>2, <1>3, <1>4, <1>5, OneQuotient
\* What division does in a carrier that holds both operands.
LEMMA DivisionRun ==
  ASSUME NEW R \in Types, NEW a \in Int, NEW b \in Int, b # 0, Fits(a, R), Fits(b, R), NEW q \in BOOLEAN
  PROVE  /\ Quotient(a, b) \in Int /\ a - b * Quotient(a, b) \in Int
         /\ IsExact(int_div(R, q, a, b), R, Quotient(a, b), q)
         /\ Fits(a - b * Quotient(a, b), R) /\ int_mod(R, a, b) = Returns(a - b * Quotient(a, b))
         /\ Abs(Quotient(a, b)) <= Abs(a) /\ Abs(a - b * Quotient(a, b)) <= Abs(a)
<1>1. /\ Low(R) \in Int /\ High(R) \in Nat /\ Size(R) \in Nat \ {0}
      /\ R.kind = "signed" => Low(R) = -(High(R) + 1) /\ Size(R) = 2 * (High(R) + 1)
      /\ R.kind = "unsigned" => Low(R) = 0 /\ High(R) + 1 = Size(R)
      /\ R.kind \in {"signed", "unsigned"}
  BY TypeBounds, TypeNames
<1>2. As(R, a) = a /\ As(R, b) = b
  BY Conversion
<1>3. PICK k \in Int : k = Quotient(a, b) /\ k = Truncated(a, b) /\ k \in -Abs(a) .. Abs(a) /\ IsQuotient(a, b, k)
                      /\ (Abs(b) >= 2 => 2 * Abs(k) <= Abs(a))
  <2>1. Abs(a) \in Int
    BY DEF Abs
  <2>. QED BY <2>1, QuotientIs, TruncatedIs
<1>4. PICK r \in Int : r = a - b * k /\ r = a - k * b
  OBVIOUS
<1>5. Abs(r) < Abs(b) /\ (r = 0 \/ (r < 0) = (a < 0))
  BY <1>3, <1>4 DEF IsQuotient
<1>6. Abs(k) <= Abs(a)
  BY <1>3 DEF Abs
<1>7. Abs(r) <= Abs(a)
  <2>1. CASE k = 0
    <3>1. 0 * b = 0 /\ b * 0 = 0
      OBVIOUS
    <3>2. r = a - 0 * b
      BY <1>4, <2>1
    <3>3. r = a
      BY <3>1, <3>2
    <3>4. Abs(a) \in Int
      BY DEF Abs
    <3>. QED BY <3>3, <3>4
  <2>2. CASE k # 0
    <3>1. PICK n \in Nat \ {0} : n = Abs(b) /\ (b >= 0 => b = n) /\ (b < 0 => b = -n)
      BY DEF Abs
    <3>2. k * n >= n \/ k * n <= -n
      BY <2>2, Multiples
    <3>3. k * (-n) = -(k * n)
      OBVIOUS
    <3>4. k * b >= n \/ k * b <= -n
      BY <3>1, <3>2, <3>3
    <3>5. PICK c \in Int : c = k * b
      OBVIOUS
    <3>. QED BY <1>4, <1>5, <3>1, <3>4, <3>5 DEF Abs
  <2>. QED BY <2>1, <2>2
<1>8. Fits(r, R)
  <2>1. CASE R.kind = "signed"
    BY <1>1, <1>5, <2>1 DEF Fits, Abs
  <2>2. CASE R.kind = "unsigned"
    BY <1>1, <1>5, <2>2 DEF Fits, Abs
  <2>. QED BY <1>1, <2>1, <2>2
<1>9. As(R, r) = r /\ As(R, 0) = 0
  <2>1. Fits(0, R)
    BY <1>1 DEF Fits
  <2>. QED BY <1>8, <2>1, Conversion
<1>10. int_mod(R, a, b) = Returns(r)
  <2>1. CASE R.kind = "signed" /\ a = Low(R) /\ b = -1
    <3>1. r = 0
      BY <1>5, <2>1 DEF Abs
    <3>. QED BY <1>2, <2>1, <3>1 DEF int_mod
  <2>2. CASE ~(R.kind = "signed" /\ a = Low(R) /\ b = -1)
    BY <1>2, <1>3, <1>4, <1>9, <2>2 DEF int_mod
  <2>. QED BY <2>1, <2>2
<1>11. IsExact(int_div(R, q, a, b), R, k, q)
  <2>1. CASE R.kind = "signed" /\ a = Low(R) /\ b = -1
    <3>1. r = 0
      BY <1>5, <2>1 DEF Abs
    <3>2. k * (-1) = -k
      OBVIOUS
    <3>3. k = High(R) + 1 /\ a - k = -Size(R)
      BY <1>1, <1>4, <2>1, <3>1, <3>2
    <3>4. (a - k) % Size(R) = 0
      <4>1. Congruent(R, a, k)
        <5>1. a = k + (-1) * Size(R)
          BY <1>1, <3>3
        <5>. QED BY <5>1 DEF Congruent
      <4>. QED BY <4>1, CongruentSteps
    <3>5. ~Fits(k, R)
      BY <1>1, <3>3 DEF Fits
    <3>6. int_div(R, q, a, b) = IF q THEN Raises("overflow") ELSE Returns(a)
      BY <1>2, <2>1 DEF int_div
    <3>. QED BY <2>1, <3>4, <3>5, <3>6, Outcomes DEF IsExact
  <2>2. CASE ~(R.kind = "signed" /\ a = Low(R) /\ b = -1)
    <3>1. int_div(R, q, a, b) = Returns(As(R, k))
      BY <1>2, <1>3, <2>2 DEF int_div
    <3>2. Fits(k, R)
      <4>1. CASE R.kind = "signed"
        <5>1. CASE a # Low(R)
          BY <1>1, <1>6, <4>1, <5>1 DEF Fits, Abs
        <5>2. CASE a = Low(R) /\ b = 1
          <6>1. k * 1 = k
            OBVIOUS
          <6>2. r = 0
            BY <1>5, <5>2 DEF Abs
          <6>. QED BY <1>4, <5>2, <6>1, <6>2
        <5>3. CASE a = Low(R) /\ b # 1
          <6>1. Abs(b) >= 2
            BY <2>2, <4>1, <5>3 DEF Abs
          <6>. QED BY <1>1, <1>3, <4>1, <5>3, <6>1 DEF Fits, Abs
        <5>. QED BY <5>1, <5>2, <5>3
      <4>2. CASE R.kind = "unsigned"
        <5>1. a >= 0 /\ b >= 1 /\ Abs(a) = a
          BY <1>1, <4>2 DEF Fits, Abs
        <5>2. k >= 0
          <6>. SUFFICES ASSUME k <= -1 PROVE FALSE
            OBVIOUS
          <6>1. k * b <= -b /\ k * b \in Int
            BY <5>1, Multiples
          <6>. QED BY <1>4, <1>5, <5>1, <6>1 DEF Abs
        <5>. QED BY <1>1, <1>6, <4>2, <5>1, <5>2 DEF Fits, Abs
      <4>. QED BY <1>1, <4>1, <4>2
    <3>3. As(R, k) = k
      BY <3>2, Conversion
    <3>. QED BY <3>1, <3>2, <3>3 DEF IsExact
  <2>. QED BY <2>1, <2>2
<1>. QED BY <1>3, <1>4, <1>6, <1>7, <1>8, <1>10, <1>11

LEMMA ByZero ==
  ASSUME NEW R \in Types, NEW a \in Int, NEW q
  PROVE  int_div(R, q, a, 0) = Raises("div by zero") /\ int_mod(R, a, 0) = Raises("div by zero")
<1>1. Fits(0, R)
  BY TypeBounds, TypeNames DEF Fits
<1>2. As(R, 0) = 0
  BY <1>1, Conversion
<1>. QED BY <1>2 DEF int_div, int_mod

-----------------------------------------------------------------------------
(* Operands of half the target's width.                                    *)

LEMMA ProductBounds ==
  ASSUME NEW m \in Nat, NEW n \in Nat, NEW a \in -m .. m, NEW b \in -n .. n
  PROVE  a * b \in Int /\ m * n \in Int /\ -(m * n) <= a * b /\ a * b <= m * n
<1>1. m - a >= 0 /\ m + a >= 0 /\ n - b >= 0 /\ n + b >= 0
  OBVIOUS
<1>2. (m - a) * (n - b) >= 0 /\ (m + a) * (n + b) >= 0 /\ (m - a) * (n + b) >= 0 /\ (m + a) * (n - b) >= 0
  BY <1>1
<1>3. /\ (m - a) * (n - b) = m * n - m * b - a * n + a * b
      /\ (m + a) * (n + b) = m * n + m * b + a * n + a * b
      /\ (m - a) * (n + b) = m * n + m * b - a * n - a * b
      /\ (m + a) * (n - b) = m * n - m * b + a * n - a * b
  OBVIOUS
<1>4. a * b \in Int /\ m * n \in Int /\ m * b \in Int /\ a * n \in Int
  OBVIOUS
<1>. QED BY <1>2, <1>3, <1>4

\* The bounds of narrow operands, and of a carrier, by one number.
LEMMA NarrowBounds ==
  ASSUME NEW l \in Types, NEW r \in Types, NEW p \in {32, 64}, Narrow(l, p), Narrow(r, p),
         NEW R \in Types, p <= R.size
  PROVE  \E D \in Nat \ {0} :
           /\ \A t \in {l, r}, v \in Int : Fits(v, t) =>
                /\ t.kind = "signed" => -D <= v /\ v <= D - 1
                /\ t.kind = "unsigned" => 0 <= v /\ v <= 2 * D - 1
           /\ R.kind = "signed" => Low(R) = -(High(R) + 1) /\ 2 * (D * D) <= High(R) + 1 /\ 4 <= High(R) + 1
           /\ R.kind = "unsigned" => Low(R) = 0 /\ 4 * (D * D) <= High(R) + 1
<1>1. PICK K \in Nat \ {0} : Bits(l) <= K /\ Bits(r) <= K /\ 2 * K <= Width[p]
  <2>1. Bits(l) \in Nat \ {0} /\ Bits(r) \in Nat \ {0} /\ 2 * Bits(l) <= Width[p] /\ 2 * Bits(r) <= Width[p]
    BY TypeBounds DEF Narrow
  <2>. QED BY <2>1
<1>2. PICK k \in Nat : K = k + 1
  <2>1. K - 1 \in Nat /\ K = (K - 1) + 1
    OBVIOUS
  <2>. QED BY <2>1
<1>3. PICK D \in Nat \ {0} : D = 2 ^ k /\ 2 ^ K = 2 * D
  BY <1>2, Powers
<1>4. ASSUME NEW t \in {l, r}, NEW v \in Int, Fits(v, t)
      PROVE  /\ t.kind = "signed" => -D <= v /\ v <= D - 1
             /\ t.kind = "unsigned" => 0 <= v /\ v <= 2 * D - 1
  <2>1. Size(t) <= 2 * D /\ Bits(t) \in Nat
    <3>1. Bits(t) \in Nat /\ Bits(t) <= K /\ t \in Types
      BY <1>1, TypeBounds
    <3>. QED BY <1>3, <3>1, PowersGrow DEF Size
  <2>2. t \in Types
    OBVIOUS
  <2>. QED BY <1>4, <2>1, <2>2, TypeBounds DEF Fits
<1>5. Width[p] <= Bits(R) /\ 3 <= Bits(R) /\ Bits(R) \in Nat
  <2>1. /\ Width[8] \in Nat \ {0} /\ Width[16] \in Nat \ {0} /\ Width[32] \in Nat \ {0} /\ Width[64] \in Nat \ {0}
        /\ Width[8] < Width[16] /\ Width[16] < Width[32] /\ Width[32] < Width[64]
    BY WidthAssumption DEF Sizes
  <2>2. R.size \in {8, 16, 32, 64}
    BY TypeNames DEF Sizes
  <2>3. R.size = p \/ (p = 32 /\ R.size = 64)
    BY <2>2
  <2>. QED BY <2>1, <2>3 DEF Bits
<1>6. 4 * (D * D) <= Size(R) /\ 8 <= Size(R)
  <2>1. 2 ^ (K + K) = (2 * D) * (2 * D) /\ (2 * D) * (2 * D) = 4 * (D * D)
    <3>1. 2 ^ (K + K) = 2 ^ K * 2 ^ K
      BY PowerSum
    <3>2. (2 * D) * (2 * D) = 4 * (D * D)
      OBVIOUS
    <3>. QED BY <1>3, <3>1, <3>2
  <2>2. 2 ^ 3 = 8
    <3>1. 2 ^ 0 = 1 /\ 2 ^ (0 + 1) = 2 * 2 ^ 0 /\ 2 ^ (1 + 1) = 2 * 2 ^ 1 /\ 2 ^ (2 + 1) = 2 * 2 ^ 2
      BY Powers
    <3>. QED BY <3>1
  <2>3. K + K \in Nat /\ K + K <= Bits(R)
    BY <1>1, <1>5, WidthAssumption DEF Sizes
  <2>4. 2 ^ (K + K) <= Size(R) /\ 2 ^ 3 <= Size(R)
    BY <1>5, <2>3, PowersGrow DEF Size
  <2>. QED BY <2>1, <2>2, <2>4
<1>7. /\ R.kind = "signed" => Low(R) = -(High(R) + 1) /\ 2 * (D * D) <= High(R) + 1 /\ 4 <= High(R) + 1
      /\ R.kind = "unsigned" => Low(R) = 0 /\ 4 * (D * D) <= High(R) + 1
  <2>1. PICK e \in Nat : e = D * D
    OBVIOUS
  <2>. QED BY <1>6, <2>1, TypeBounds
<1>. QED BY <1>4, <1>7

LEMMA Squares ==
  ASSUME NEW D \in Nat \ {0}
  PROVE  /\ D * D \in Nat /\ D <= D * D
         /\ D * (2 * D - 1) = 2 * (D * D) - D
         /\ (2 * D - 1) * (2 * D - 1) = 4 * (D * D) - 4 * D + 1
         /\ D >= 2 => 2 * D <= D * D
<1>1. D * D = D + D * (D - 1) /\ D * (D - 1) >= 0
  OBVIOUS
<1>2. ASSUME D >= 2 PROVE 2 * D <= D * D
  <2>1. D * D = 2 * D + D * (D - 2)
    OBVIOUS
  <2>2. D - 2 \in Nat
    BY <1>2
  <2>3. D * (D - 2) >= 0
    BY <2>2
  <2>. QED BY <2>1, <2>3
<1>3. D * (2 * D - 1) = 2 * (D * D) - D
  OBVIOUS
<1>4. (2 * D - 1) * (2 * D - 1) = 4 * (D * D) - 4 * D + 1
  OBVIOUS
<1>. QED BY <1>1, <1>2, <1>3, <1>4

LEMMA NarrowSizes ==
  ASSUME NEW t \in Types, NEW p \in {32, 64}, Narrow(t, p)
  PROVE  t.size < p
<1>1. /\ Width[8] \in Nat \ {0} /\ Width[16] \in Nat \ {0} /\ Width[32] \in Nat \ {0} /\ Width[64] \in Nat \ {0}
      /\ Width[32] < Width[64]
  BY WidthAssumption DEF Sizes
<1>2. t.size \in {8, 16, 32, 64}
  BY TypeNames DEF Sizes
<1>3. t.size # 64 /\ (p = 32 => t.size # 32)
  BY <1>1 DEF Narrow, Bits
<1>. QED BY <1>2, <1>3

\* Narrow operands are exact in every carrier of their operation.
LEMMA NarrowArithmetic ==
  ASSUME NEW op \in Arithmetic, NEW l \in Types, NEW r \in Types, NEW p \in {32, 64}, Narrow(l, p), Narrow(r, p),
         NEW a \in Int, NEW b \in Int, Fits(a, l), Fits(b, r),
         NEW R, R = integer_arithmetic_primitive(op, l, r, p)
  PROVE  Fits(a, R) /\ Fits(b, R) /\ Fits(Exact(op, a, b), R)
<1>1. /\ l.size < p /\ r.size < p
      /\ l.kind \in {"signed", "unsigned"} /\ r.kind \in {"signed", "unsigned"} /\ l.size \in Sizes /\ r.size \in Sizes
  BY NarrowSizes, TypeNames
<1>2. /\ Unsigned(p) \notin {l, r} /\ Unsigned(64) \notin {l, r} /\ Signed(64) \notin {l, r}
      /\ (p = 32 => Unsigned(32) \notin {l, r})
  BY <1>1 DEF Signed, Unsigned, Sizes
<1>3. ~Mismatch(l, r)
  BY <1>2 DEF Mismatch
<1>4. R \in Types /\ IsWithin(l, R) /\ IsWithin(r, R)
  BY <1>3, ArithmeticCarrier
<1>5. R = IF "signed" \in {l.kind, r.kind} \/ op = "sub" THEN Signed(p) ELSE Unsigned(p)
  BY <1>2 DEF integer_arithmetic_primitive
<1>6. R.size = p /\ (R.kind = "signed" <=> "signed" \in {l.kind, r.kind} \/ op = "sub") /\ R.kind \in {"signed", "unsigned"}
  BY <1>5, TypeNames DEF Sizes
<1>7. PICK D \in Nat \ {0} :
           /\ \A t \in {l, r}, v \in Int : Fits(v, t) =>
                /\ t.kind = "signed" => -D <= v /\ v <= D - 1
                /\ t.kind = "unsigned" => 0 <= v /\ v <= 2 * D - 1
           /\ R.kind = "signed" => Low(R) = -(High(R) + 1) /\ 2 * (D * D) <= High(R) + 1 /\ 4 <= High(R) + 1
           /\ R.kind = "unsigned" => Low(R) = 0 /\ 4 * (D * D) <= High(R) + 1
  BY <1>4, <1>6, NarrowBounds
<1>8. /\ l.kind = "signed" => -D <= a /\ a <= D - 1
      /\ l.kind = "unsigned" => 0 <= a /\ a <= 2 * D - 1
      /\ r.kind = "signed" => -D <= b /\ b <= D - 1
      /\ r.kind = "unsigned" => 0 <= b /\ b <= 2 * D - 1
  BY <1>7
<1>9. PICK e \in Nat : /\ e = D * D /\ D <= e /\ D * (2 * D - 1) = 2 * e - D
                       /\ (2 * D - 1) * (2 * D - 1) = 4 * e - 4 * D + 1 /\ (D >= 2 => 2 * D <= e)
  BY Squares
<1>10. /\ R.kind = "signed" => Low(R) = -(High(R) + 1) /\ 2 * e <= High(R) + 1 /\ 4 <= High(R) + 1
       /\ R.kind = "unsigned" => Low(R) = 0 /\ 4 * e <= High(R) + 1
  BY <1>7, <1>9
<1>11. Low(R) \in Int /\ High(R) \in Int
  BY <1>4, TypeBounds
<1>12. Fits(a + b, R)
  <2>1. CASE R.kind = "signed"
    BY <1>1, <1>6, <1>8, <1>9, <1>10, <1>11, <2>1 DEF Fits
  <2>2. CASE R.kind = "unsigned"
    BY <1>1, <1>6, <1>8, <1>9, <1>10, <1>11, <2>2 DEF Fits
  <2>. QED BY <1>6, <2>1, <2>2
<1>13. R.kind = "signed" => Fits(a - b, R)
  BY <1>1, <1>8, <1>9, <1>10, <1>11 DEF Fits
<1>14. op # "sub" => Fits(a * b, R)
  <2>0. PICK c \in Int : c = a * b
    OBVIOUS
  <2>1. CASE l.kind = "signed" /\ r.kind = "signed"
    <3>1. a \in -D .. D /\ b \in -D .. D
      BY <1>8, <2>1
    <3>2. -e <= c /\ c <= e
      BY <1>9, <2>0, <3>1, ProductBounds
    <3>. QED BY <1>6, <1>9, <1>10, <1>11, <2>0, <2>1, <3>2 DEF Fits
  <2>2. CASE l.kind = "signed" /\ r.kind = "unsigned"
    <3>1. a \in -D .. D /\ b \in -(2 * D - 1) .. 2 * D - 1 /\ 2 * D - 1 \in Nat
      BY <1>8, <2>2
    <3>2. -(2 * e - D) <= c /\ c <= 2 * e - D
      BY <1>9, <2>0, <3>1, ProductBounds
    <3>. QED BY <1>6, <1>9, <1>10, <1>11, <2>0, <2>2, <3>2 DEF Fits
  <2>3. CASE l.kind = "unsigned" /\ r.kind = "signed"
    <3>1. b \in -D .. D /\ a \in -(2 * D - 1) .. 2 * D - 1 /\ 2 * D - 1 \in Nat
      BY <1>8, <2>3
    <3>2. b * a = c
      BY <2>0
    <3>3. -(2 * e - D) <= c /\ c <= 2 * e - D
      BY <1>9, <3>1, <3>2, ProductBounds
    <3>. QED BY <1>6, <1>9, <1>10, <1>11, <2>0, <2>3, <3>3 DEF Fits
  <2>4. CASE l.kind = "unsigned" /\ r.kind = "unsigned" /\ op # "sub"
    <3>1. a \in -(2 * D - 1) .. 2 * D - 1 /\ b \in -(2 * D - 1) .. 2 * D - 1 /\ 2 * D - 1 \in Nat
      BY <1>8, <2>4
    <3>2. c <= 4 * e - 4 * D + 1
      BY <1>9, <2>0, <3>1, ProductBounds
    <3>3. a >= 0 /\ b >= 0
      BY <1>8, <2>4
    <3>4. c >= 0
      BY <2>0, <3>3
    <3>. QED BY <1>6, <1>9, <1>10, <1>11, <2>0, <2>4, <3>2, <3>4 DEF Fits
  <2>. QED BY <1>1, <2>1, <2>2, <2>3, <2>4
<1>15. op \in {"add", "sub", "mul"}
  BY DEF Arithmetic
<1>16. Fits(Exact(op, a, b), R)
  BY <1>6, <1>12, <1>13, <1>14, <1>15, ExactIsInt
<1>. QED BY <1>4, <1>16, Inclusion

-----------------------------------------------------------------------------
(* Bit operations.                                                         *)

\* The bit of the result.
BitOf(op, c, d) == CASE op = "and" -> c /\ d [] op = "or" -> c \/ d [] op = "xor" -> c # d
PatternOf(op, a, b, n) == {i \in 0 .. n - 1 : BitOf(op, Binary(a, i), Binary(b, i))}

LEMMA MeaningOfBits ==
  ASSUME NEW op \in Bitwise, NEW a \in Int, NEW b \in Int
  PROVE  Meaning(op, a, b) = SumOf(PatternOf(op, a, b, Beyond))
                             - (IF BitOf(op, Binary(a, Beyond), Binary(b, Beyond)) THEN 2 ^ Beyond ELSE 0)
<1>1. op \in {"and", "or", "xor"} /\ op \notin Arithmetic /\ op # "div" /\ op # "mod"
  BY DEF Bitwise, Arithmetic
<1>2. CASE op = "and"
  BY <1>1, <1>2 DEF Meaning, NumberOfBits, SumOf, PatternOf, BitOf
<1>3. CASE op = "or"
  BY <1>1, <1>3 DEF Meaning, NumberOfBits, SumOf, PatternOf, BitOf
<1>4. CASE op = "xor"
  BY <1>1, <1>4 DEF Meaning, NumberOfBits, SumOf, PatternOf, BitOf
<1>. QED BY <1>1, <1>2, <1>3, <1>4

LEMMA BitValues ==
  ASSUME NEW op \in Bitwise, NEW c \in BOOLEAN, NEW d \in BOOLEAN
  PROVE  /\ BitOf(op, c, d) \in BOOLEAN
         /\ ~c /\ ~d => ~BitOf(op, c, d)
         /\ op = "and" /\ (~c \/ ~d) => ~BitOf(op, c, d)
<1>1. op \in {"and", "or", "xor"}
  BY DEF Bitwise
<1>2. CASE op = "and"
  BY <1>2 DEF BitOf
<1>3. CASE op = "or"
  BY <1>3 DEF BitOf
<1>4. CASE op = "xor"
  BY <1>4 DEF BitOf
<1>. QED BY <1>1, <1>2, <1>3, <1>4

LEMMA BitsAreBoolean ==
  ASSUME NEW v \in Int, NEW i \in Nat
  PROVE  Binary(v, i) \in BOOLEAN
BY DEF Binary

\* The helper sets the bits of the result.
LEMMA BitwiseBits ==
  ASSUME NEW op \in Bitwise, NEW R \in Types, NEW a \in Int, NEW b \in Int
  PROVE  bitwise(op, R, a, b) = FromOnes(R, PatternOf(op, a, b, Bits(R)))
<1>1. PICK w \in Nat \ {0} : w = Bits(R)
  BY TypeBounds
<1>2. /\ OnesOf(R, As(R, a)) = {i \in 0 .. w - 1 : Binary(a, i)}
      /\ OnesOf(R, As(R, b)) = {i \in 0 .. w - 1 : Binary(b, i)}
  BY <1>1, OnesAreBits
<1>3. op \in {"and", "or", "xor"}
  BY DEF Bitwise
<1>4. CASE op = "and"
  <2>1. {i \in 0 .. w - 1 : Binary(a, i)} \cap {i \in 0 .. w - 1 : Binary(b, i)} = PatternOf(op, a, b, w)
    BY <1>4 DEF PatternOf, BitOf
  <2>. QED BY <1>1, <1>2, <1>4, <2>1 DEF bitwise
<1>5. CASE op = "or"
  <2>1. {i \in 0 .. w - 1 : Binary(a, i)} \cup {i \in 0 .. w - 1 : Binary(b, i)} = PatternOf(op, a, b, w)
    BY <1>5 DEF PatternOf, BitOf
  <2>. QED BY <1>1, <1>2, <1>5, <2>1 DEF bitwise
<1>6. CASE op = "xor"
  <2>1. \A i \in 0 .. w - 1 : Binary(a, i) \in BOOLEAN /\ Binary(b, i) \in BOOLEAN
    BY BitsAreBoolean
  <2>. DEFINE A == {i \in 0 .. w - 1 : Binary(a, i)}
              B == {i \in 0 .. w - 1 : Binary(b, i)}
  <2>2. (B \ A) \cup (A \ B) = PatternOf(op, a, b, w)
    BY <1>6, <2>1 DEF PatternOf, BitOf
  <2>. QED BY <1>1, <1>2, <1>6, <2>2 DEF bitwise
<1>. QED BY <1>3, <1>4, <1>5, <1>6

\* A carrier that holds both operands, or for "and" the unsigned one, holds what
\* the operation means.
LEMMA BitwiseRun ==
  ASSUME NEW op \in Bitwise, NEW R \in Types, NEW a \in Int, NEW b \in Int,
         \/ Fits(a, R) /\ Fits(b, R)
         \/ op = "and" /\ R.kind = "unsigned" /\ (Fits(a, R) \/ Fits(b, R))
  PROVE  /\ bitwise(op, R, a, b) = Meaning(op, a, b)
         /\ Meaning(op, a, b) \in Int /\ Fits(Meaning(op, a, b), R)
<1>1. PICK w \in Nat \ {0} : w = Bits(R) /\ w <= Width[64]
  <2>1. Bits(R) <= Bits(Signed(64)) /\ Bits(Signed(64)) = Width[64]
    BY TypeNames, Inclusion DEF Bits, Sizes, Signed
  <2>. QED BY <2>1, TypeBounds
<1>2. PICK n \in Nat : n = Beyond /\ w < n
  BY <1>1, WidthAssumption DEF Beyond, Sizes
<1>3. PICK S : S = PatternOf(op, a, b, w)
  OBVIOUS
<1>4. S \in SUBSET (0 .. w - 1)
  BY <1>3 DEF PatternOf
<1>5. PICK x \in Int : x = FromOnes(R, S) /\ Fits(x, R) /\ \A i \in 0 .. w - 1 : Binary(x, i) <=> i \in S
  BY <1>1, <1>4, PatternNumber
<1>. DEFINE P(i) == BitOf(op, Binary(a, i), Binary(b, i))
<1>6. \A i \in 0 .. w - 1 : Binary(x, i) <=> P(i)
  BY <1>3, <1>5 DEF PatternOf
<1>7. R.kind \in {"signed", "unsigned"}
  BY TypeNames
<1>8. ASSUME NEW i \in Nat, i >= w PROVE P(i) <=> x < 0
  <2>1. Binary(a, i) \in BOOLEAN /\ Binary(b, i) \in BOOLEAN
    BY BitsAreBoolean
  <2>2. CASE R.kind = "signed"
    <3>1. Fits(a, R) /\ Fits(b, R)
      BY <2>2
    <3>2. /\ Binary(a, i) <=> Binary(a, w - 1)
          /\ Binary(b, i) <=> Binary(b, w - 1)
          /\ Binary(x, w - 1) <=> x < 0
      BY <1>1, <1>5, <1>8, <2>2, <3>1, FittingBits
    <3>3. Binary(a, w - 1) \in BOOLEAN /\ Binary(b, w - 1) \in BOOLEAN /\ w - 1 \in 0 .. w - 1
      BY BitsAreBoolean
    <3>4. Binary(a, i) = Binary(a, w - 1) /\ Binary(b, i) = Binary(b, w - 1)
      BY <2>1, <3>2, <3>3
    <3>5. P(i) = P(w - 1)
      BY <3>4
    <3>. QED BY <1>6, <3>2, <3>3, <3>5
  <2>3. CASE R.kind = "unsigned"
    <3>1. x >= 0
      BY <1>5, <2>3, FittingBits
    <3>2. /\ Fits(a, R) => ~Binary(a, i)
          /\ Fits(b, R) => ~Binary(b, i)
      BY <1>1, <1>8, <2>3, FittingBits
    <3>3. ~P(i)
      BY <2>1, <3>2, BitValues
    <3>. QED BY <3>1, <3>3
  <2>. QED BY <1>7, <2>2, <2>3
<1>9. \A i \in 0 .. n - 1 : Binary(x, i) <=> P(i)
  <2>. SUFFICES ASSUME NEW i \in 0 .. n - 1 PROVE Binary(x, i) <=> P(i)
    OBVIOUS
  <2>1. CASE i < w
    BY <1>6, <2>1
  <2>2. CASE i >= w
    BY <1>1, <1>5, <1>8, <2>2, FittingBits
  <2>. QED BY <2>1, <2>2
<1>10. PICK T : T = PatternOf(op, a, b, n)
  OBVIOUS
<1>11. T \in SUBSET (0 .. n - 1) /\ \A i \in 0 .. n - 1 : Binary(x, i) <=> i \in T
  BY <1>9, <1>10 DEF PatternOf
<1>12. PICK neg \in BOOLEAN : neg = P(n)
  BY BitsAreBoolean, BitValues
<1>13. x < 0 <=> neg
  BY <1>2, <1>8, <1>12
<1>14. -(2 ^ n) <= x /\ x <= 2 ^ n - 1
  <2>1. Size(R) <= 2 ^ n /\ 2 ^ n \in Nat
    BY <1>1, <1>2, PowersGrow, PowerNat DEF Size
  <2>. QED BY <1>5, <1>7, <2>1, TypeBounds DEF Fits
<1>15. SumOf(T) - (IF neg THEN 2 ^ n ELSE 0) = x
  BY <1>11, <1>13, <1>14, BitsAndSignDetermine
<1>16. Meaning(op, a, b) = x
  BY <1>2, <1>10, <1>12, <1>15, MeaningOfBits
<1>17. bitwise(op, R, a, b) = x
  BY <1>1, <1>3, <1>5, BitwiseBits
<1>. QED BY <1>5, <1>16, <1>17

-----------------------------------------------------------------------------
(* What the compiler binds holds the operands.                             *)

LEMMA MixedPair ==
  ASSUME NEW l \in Types, NEW r \in Types, Mixed(l, r)
  PROVE  LET s == SignedOf(l, r) u == UnsignedOf(l, r) IN
         /\ s \in Types /\ s.kind = "signed" /\ u \in Types /\ u.kind = "unsigned"
         /\ s \in {l, r} /\ u \in {l, r} /\ {l, r} = {s, u}
BY TypeNames DEF Mixed, SignedOf, UnsignedOf

LEMMA SameKindCarrier ==
  ASSUME NEW l \in Types, NEW r \in Types, ~Mixed(l, r)
  PROVE  LET R == common_integer_primitive(l, r) IN
         R \in Types /\ R.kind = l.kind /\ IsWithin(l, R) /\ IsWithin(r, R)
<1>1. l.kind = r.kind /\ l.size \in Sizes /\ r.size \in Sizes /\ l.kind \in {"signed", "unsigned"}
  BY TypeNames DEF Mixed
<1>2. PICK s \in Sizes : s = Larger(l.size, r.size) /\ l.size <= s /\ r.size <= s
  BY <1>1 DEF Larger, Sizes
<1>3. PICK R \in Types : R = [kind |-> l.kind, size |-> s]
  BY <1>1 DEF Types
<1>4. common_integer_primitive(l, r) = R
  BY <1>2, <1>3 DEF common_integer_primitive
<1>5. IsWithin(l, R) /\ IsWithin(r, R)
  BY <1>1, <1>2, <1>3, Inclusion
<1>. QED BY <1>3, <1>4, <1>5

LEMMA CommonCarrier ==
  ASSUME NEW l \in Types, NEW r \in Types
  PROVE  LET R == common_integer_primitive(l, r) IN
         /\ R \in Types
         /\ ~Mismatch(l, r) => IsWithin(l, R) /\ IsWithin(r, R)
<1>1. CASE ~Mixed(l, r)
  BY <1>1, SameKindCarrier
<1>2. CASE Mixed(l, r)
  <2>1. PICK s \in Types, u \in Types : /\ s = SignedOf(l, r) /\ u = UnsignedOf(l, r)
                                        /\ s.kind = "signed" /\ u.kind = "unsigned" /\ {l, r} = {s, u}
    BY <1>2, MixedPair
  <2>2. PICK R : R = common_integer_primitive(l, r)
    OBVIOUS
  <2>3. R = IF s.size > u.size THEN Signed(s.size)
            ELSE IF u.size < 64 THEN Signed(IF u.size < 16 THEN 16 ELSE IF u.size < 32 THEN 32 ELSE 64)
            ELSE Unsigned(64)
    BY <1>2, <2>1, <2>2 DEF common_integer_primitive
  <2>4. s.size \in {8, 16, 32, 64} /\ u.size \in {8, 16, 32, 64} /\ s = Signed(s.size) /\ u = Unsigned(u.size)
    BY <2>1, TypeNames DEF Sizes
  <2>5. CASE s.size > u.size
    <3>1. R = s
      BY <2>3, <2>4, <2>5
    <3>2. IsWithin(u, s) /\ IsWithin(s, s)
      BY <2>1, <2>4, <2>5, Inclusion
    <3>. QED BY <2>1, <2>2, <3>1, <3>2
  <2>6. CASE ~(s.size > u.size) /\ u.size < 64
    <3>1. PICK z \in Sizes : z = (IF u.size < 16 THEN 16 ELSE IF u.size < 32 THEN 32 ELSE 64) /\ u.size < z /\ s.size < z
      BY <2>4, <2>6 DEF Sizes
    <3>2. R = Signed(z) /\ R \in Types /\ R.kind = "signed" /\ R.size = z
      BY <2>3, <2>6, <3>1, TypeNames
    <3>3. IsWithin(u, R) /\ IsWithin(s, R)
      BY <3>1, <3>2, Inclusion
    <3>. QED BY <2>1, <2>2, <3>2, <3>3
  <2>7. CASE ~(s.size > u.size) /\ ~(u.size < 64)
    <3>1. R = Unsigned(64) /\ R \in Types /\ u = Unsigned(64)
      <4>1. u.size = 64
        BY <2>4, <2>7
      <4>. QED BY <2>3, <2>4, <2>7, <4>1, TypeNames DEF Sizes
    <3>2. Unsigned(64) \in {l, r} /\ "signed" \in {l.kind, r.kind}
      BY <2>1, <3>1
    <3>3. Mismatch(l, r)
      BY <3>2 DEF Mismatch
    <3>. QED BY <2>2, <3>1, <3>3
  <2>. QED BY <2>5, <2>6, <2>7
<1>. QED BY <1>1, <1>2

LEMMA BitwiseCarrier ==
  ASSUME NEW op \in Bitwise, NEW l \in Types, NEW r \in Types, NEW p \in {32, 64}
  PROVE  LET R == integer_bitwise_primitive(op, l, r, p) IN
         /\ R \in Types
         /\ ~Mismatch(l, r) => \/ IsWithin(l, R) /\ IsWithin(r, R)
                               \/ op = "and" /\ R.kind = "unsigned" /\ (IsWithin(l, R) \/ IsWithin(r, R))
<1>1. PICK R : R = integer_bitwise_primitive(op, l, r, p)
  OBVIOUS
<1>2. CASE op = "and" /\ Mixed(l, r) /\ UnsignedOf(l, r).size >= Larger(SignedOf(l, r).size, 32)
  <2>1. R = UnsignedOf(l, r)
    BY <1>1, <1>2 DEF integer_bitwise_primitive
  <2>2. R \in Types /\ R.kind = "unsigned" /\ R \in {l, r}
    BY <1>2, <2>1, MixedPair
  <2>3. R.size \in Nat
    BY <2>2, TypeNames DEF Sizes
  <2>4. IsWithin(R, R)
    BY <2>2, <2>3, Inclusion
  <2>. QED BY <1>1, <1>2, <2>2, <2>4
<1>3. CASE \/ op = "and" /\ ~(Mixed(l, r) /\ UnsignedOf(l, r).size >= Larger(SignedOf(l, r).size, 32))
           \/ op # "and" /\ ~Mixed(l, r) /\ l.size < 64 /\ r.size < 64
  <2>1. R = common_integer_primitive(l, r)
    BY <1>1, <1>3 DEF integer_bitwise_primitive
  <2>. QED BY <1>1, <2>1, CommonCarrier
<1>4. CASE op # "and" /\ ~(~Mixed(l, r) /\ l.size < 64 /\ r.size < 64)
  <2>1. R = integer_arithmetic_primitive("add", l, r, p)
    BY <1>1, <1>4 DEF integer_bitwise_primitive
  <2>. QED BY <1>1, <2>1, ArithmeticCarrier
<1>. QED BY <1>2, <1>3, <1>4

LEMMA DivisionCarrier ==
  ASSUME NEW x, NEW y, x.type \in Types, y.type \in Types, x.value \in Int, y.value \in Int,
         Fits(x.value, x.type), Fits(y.value, y.type), NEW p \in {32, 64}
  PROVE  LET R == integer_division_primitive(x, y, p) IN
         /\ R \in Types /\ p <= R.size
         /\ ~Mismatch(x.type, y.type) => Fits(x.value, R) /\ Fits(y.value, R)
         /\ x.type.size < p /\ y.type.size < p => R.kind = "signed"
<1>. DEFINE l == IF /\ y.type.kind = "unsigned"
                    /\ \/ const_expr_fits_primitive(x, y.type)
                       \/ x.type.kind = "unsigned" /\ y.type.size >= x.type.size
                 THEN y.type ELSE x.type
            r == IF /\ x.type.kind = "unsigned"
                    /\ \/ const_expr_fits_primitive(y, x.type)
                       \/ y.type.kind = "unsigned" /\ x.type.size >= y.type.size
                 THEN x.type ELSE y.type
            signed == "signed" \in {l.kind, r.kind}
            native == Unsigned(p) \in {l, r}
            R == integer_division_primitive(x, y, p)
<1>1. l \in {x.type, y.type} /\ Fits(x.value, l)
  <2>1. CASE y.type.kind = "unsigned" /\ x.type.kind = "unsigned" /\ y.type.size >= x.type.size
    <3>1. x.type.size \in Nat /\ y.type.size \in Nat
      BY TypeNames DEF Sizes
    <3>2. Fits(x.value, y.type)
      BY <2>1, <3>1, Inclusion
    <3>. QED BY <3>2
  <2>2. CASE ~(y.type.kind = "unsigned" /\ x.type.kind = "unsigned" /\ y.type.size >= x.type.size)
    BY <2>2 DEF const_expr_fits_primitive
  <2>. QED BY <2>1, <2>2
<1>2. r \in {x.type, y.type} /\ Fits(y.value, r)
  <2>1. CASE y.type.kind = "unsigned" /\ x.type.kind = "unsigned" /\ x.type.size >= y.type.size
    <3>1. x.type.size \in Nat /\ y.type.size \in Nat
      BY TypeNames DEF Sizes
    <3>2. Fits(y.value, x.type)
      BY <2>1, <3>1, Inclusion
    <3>. QED BY <3>2
  <2>2. CASE ~(y.type.kind = "unsigned" /\ x.type.kind = "unsigned" /\ x.type.size >= y.type.size)
    BY <2>2 DEF const_expr_fits_primitive
  <2>. QED BY <2>1, <2>2
<1>3. R = IF 64 \in {l.size, r.size} THEN IF signed THEN Signed(64) ELSE Unsigned(64)
          ELSE IF p = 32 /\ native /\ signed THEN Signed(64)
          ELSE IF native THEN Unsigned(p)
          ELSE Signed(p)
  BY DEF integer_division_primitive, NativeUnsigned
<1>4. PICK lt \in Types : lt = l
  BY <1>1
<1>5. PICK rt \in Types : rt = r
  BY <1>2
<1>6. /\ lt.kind \in {"signed", "unsigned"} /\ lt.size \in {8, 16, 32, 64}
      /\ lt = (IF lt.kind = "signed" THEN Signed(lt.size) ELSE Unsigned(lt.size))
      /\ rt.kind \in {"signed", "unsigned"} /\ rt.size \in {8, 16, 32, 64}
      /\ rt = (IF rt.kind = "signed" THEN Signed(rt.size) ELSE Unsigned(rt.size))
  BY TypeNames DEF Sizes
<1>7. \A z \in {32, 64} : /\ Signed(z) \in Types /\ Signed(z).kind = "signed" /\ Signed(z).size = z
                          /\ Unsigned(z) \in Types /\ Unsigned(z).kind = "unsigned" /\ Unsigned(z).size = z
  BY TypeNames DEF Sizes
<1>. DEFINE s == "signed" \in {lt.kind, rt.kind}
            n == Unsigned(p) \in {lt, rt}
<1>9. R = IF 64 \in {lt.size, rt.size} THEN IF s THEN Signed(64) ELSE Unsigned(64)
          ELSE IF p = 32 /\ n /\ s THEN Signed(64)
          ELSE IF n THEN Unsigned(p)
          ELSE Signed(p)
  BY <1>3, <1>4, <1>5
<1>10. Fits(x.value, lt) /\ Fits(y.value, rt) /\ lt \in {x.type, y.type} /\ rt \in {x.type, y.type}
  BY <1>1, <1>2, <1>4, <1>5
<1>. HIDE DEF l, r, R
<1>11. R \in Types /\ p <= R.size
  BY <1>7, <1>9
<1>12. ASSUME ~Mismatch(x.type, y.type) PROVE IsWithin(lt, R) /\ IsWithin(rt, R)
  <2>1. s => Unsigned(64) \notin {lt, rt}
    BY <1>10, <1>12 DEF Mismatch
  <2>2. CASE 64 \in {lt.size, rt.size} /\ s
    <3>1. R = Signed(64)
      BY <1>9, <2>2
    <3>2. /\ lt.kind = "signed" \/ lt.size < 64
          /\ rt.kind = "signed" \/ rt.size < 64
      BY <1>6, <2>1, <2>2
    <3>. QED BY <1>6, <1>7, <3>1, <3>2, Inclusion
  <2>3. CASE 64 \in {lt.size, rt.size} /\ ~s
    <3>1. R = Unsigned(64) /\ lt.kind = "unsigned" /\ rt.kind = "unsigned"
      BY <1>6, <1>9, <2>3
    <3>. QED BY <1>6, <1>7, <3>1, Inclusion
  <2>4. CASE 64 \notin {lt.size, rt.size} /\ p = 32 /\ n /\ s
    <3>1. R = Signed(64) /\ lt.size < 64 /\ rt.size < 64
      BY <1>6, <1>9, <2>4
    <3>. QED BY <1>6, <1>7, <3>1, Inclusion
  <2>5. CASE 64 \notin {lt.size, rt.size} /\ ~(p = 32 /\ s) /\ n
    <3>1. p = 32 /\ ~s
      BY <1>7, <2>5
    <3>2. R = Unsigned(32) /\ lt.kind = "unsigned" /\ rt.kind = "unsigned" /\ lt.size <= 32 /\ rt.size <= 32
      BY <1>6, <1>9, <2>5, <3>1
    <3>. QED BY <1>6, <1>7, <3>2, Inclusion
  <2>6. CASE 64 \notin {lt.size, rt.size} /\ ~n
    <3>1. R = Signed(p) /\ R.kind = "signed" /\ R.size = p /\ R \in Types
      BY <1>7, <1>9, <2>6
    <3>2. Unsigned(p) \notin {lt, rt}
      BY <2>6
    <3>3. (lt.kind = "signed" \/ lt.size < p) /\ (rt.kind = "signed" \/ rt.size < p) /\ lt.size <= p /\ rt.size <= p
      <4>1. CASE p = 32
        BY <1>6, <2>6, <3>2, <4>1
      <4>2. CASE p = 64
        BY <1>6, <2>6, <4>2
      <4>. QED BY <4>1, <4>2
    <3>. QED BY <1>6, <3>1, <3>3, Inclusion
  <2>. QED BY <2>2, <2>3, <2>4, <2>5, <2>6
<1>13. ASSUME x.type.size < p, y.type.size < p PROVE R.kind = "signed"
  <2>1. lt.size < p /\ rt.size < p
    BY <1>10, <1>13
  <2>2. 64 \notin {lt.size, rt.size}
    BY <1>6, <2>1
  <2>3. ~n
    BY <1>7, <2>1
  <2>. QED BY <1>7, <1>9, <2>2, <2>3
<1>14. R \in Types /\ (IsWithin(lt, R) => Fits(x.value, R)) /\ (IsWithin(rt, R) => Fits(y.value, R))
  BY <1>10, <1>11, Inclusion
<1>. QED BY <1>11, <1>12, <1>13, <1>14 DEF R

-----------------------------------------------------------------------------
(* What an operation returns.                                              *)

\* What is expected of a run that means n.
AsMeant(op, x, y, q, p, R, n, run) ==
  IF op \in Division /\ y.value = 0 THEN run = Raises("div by zero")
  ELSE IF Narrow(x.type, p) /\ Narrow(y.type, p) THEN run = Returns(n)
  ELSE IF Clash(x, y) THEN op \in Arithmetic /\ Fine(run) => (run.value - n) % 2 ^ Bits(R) = 0
  ELSE IsExact(run, R, n, q)

\* What each kind of operation is bound to, means and runs.
LEMMA OperationKinds ==
  ASSUME NEW op, NEW x, NEW y, NEW q, NEW p, NEW R, R = bind_binary_operation(op, x, y, p), NEW a, NEW b
  PROVE  /\ op \in Arithmetic =>
              /\ op \notin Division /\ R = integer_arithmetic_primitive(op, x.type, y.type, p)
              /\ Meaning(op, a, b) = Exact(op, a, b)
              /\ Run(op, x, y, q, p) = IF q THEN op_checked(op, R, x.value, y.value) ELSE wrap_op(op, R, x.value, y.value)
         /\ op \in Division =>
              /\ op \notin Arithmetic /\ R = integer_division_primitive(x, y, p)
              /\ Meaning(op, a, b) = IF op = "div" THEN Quotient(a, b) ELSE a - b * Quotient(a, b)
              /\ Run(op, x, y, q, p) = IF op = "div" THEN int_div(R, q, x.value, y.value) ELSE int_mod(R, x.value, y.value)
         /\ op \in Bitwise =>
              /\ op \notin Division /\ op \notin Arithmetic /\ R = integer_bitwise_primitive(op, x.type, y.type, p)
              /\ Run(op, x, y, q, p) = Returns(bitwise(op, R, x.value, y.value))
<1>1. ASSUME op \in Arithmetic
      PROVE  /\ op \notin Division /\ R = integer_arithmetic_primitive(op, x.type, y.type, p)
             /\ Meaning(op, a, b) = Exact(op, a, b)
             /\ Run(op, x, y, q, p) = IF q THEN op_checked(op, R, x.value, y.value) ELSE wrap_op(op, R, x.value, y.value)
  <2>1. /\ op \notin Division /\ op \notin Bitwise /\ op \notin Shifts /\ op \notin Comparisons
        /\ op \notin {"div", "mod", "and", "or", "xor", "shl", "shr"}
    BY <1>1 DEF Arithmetic, Division, Bitwise, Shifts, Comparisons
  <2>. QED BY <1>1, <2>1 DEF bind_binary_operation, Meaning, Run
<1>2. ASSUME op \in Division
      PROVE  /\ op \notin Arithmetic /\ R = integer_division_primitive(x, y, p)
             /\ Meaning(op, a, b) = IF op = "div" THEN Quotient(a, b) ELSE a - b * Quotient(a, b)
             /\ Run(op, x, y, q, p) = IF op = "div" THEN int_div(R, q, x.value, y.value) ELSE int_mod(R, x.value, y.value)
  <2>1. /\ op \notin Arithmetic /\ op \notin Bitwise /\ op \notin Shifts /\ op \notin Comparisons
        /\ op \notin {"and", "or", "xor", "shl", "shr"} /\ op \in {"div", "mod"}
    BY <1>2 DEF Arithmetic, Division, Bitwise, Shifts, Comparisons
  <2>2. CASE op = "div"
    BY <1>2, <2>1, <2>2 DEF bind_binary_operation, Meaning, Run
  <2>3. CASE op = "mod"
    BY <1>2, <2>1, <2>3 DEF bind_binary_operation, Meaning, Run
  <2>. QED BY <2>1, <2>2, <2>3
<1>3. ASSUME op \in Bitwise
      PROVE  /\ op \notin Division /\ op \notin Arithmetic /\ R = integer_bitwise_primitive(op, x.type, y.type, p)
             /\ Run(op, x, y, q, p) = Returns(bitwise(op, R, x.value, y.value))
  <2>1. /\ op \notin Arithmetic /\ op \notin Division /\ op \notin Shifts /\ op \notin Comparisons
        /\ op \notin {"div", "mod", "shl", "shr"}
    BY <1>3 DEF Arithmetic, Division, Bitwise, Shifts, Comparisons
  <2>. QED BY <1>3, <2>1 DEF bind_binary_operation, Run
<1>. QED BY <1>1, <1>2, <1>3

LEMMA ArithmeticAsMeant ==
  ASSUME NEW op \in Arithmetic, NEW x \in Operands, NEW y \in Operands, NEW q \in BOOLEAN, NEW p \in {32, 64},
         NEW R, R = bind_binary_operation(op, x, y, p), NEW n, n = Meaning(op, x.value, y.value),
         NEW run, run = Run(op, x, y, q, p)
  PROVE  AsMeant(op, x, y, q, p, R, n, run)
<1>1. /\ x.type \in Types /\ x.value \in Int /\ Fits(x.value, x.type)
      /\ y.type \in Types /\ y.value \in Int /\ Fits(y.value, y.type)
  BY OperandsFit
<1>2. op \in {"add", "sub", "mul"} /\ op \notin Division
  BY DEF Arithmetic, Division
<1>3. R = integer_arithmetic_primitive(op, x.type, y.type, p) /\ R \in Types
  BY <1>1, ArithmeticCarrier, OperationKinds
<1>4. n = Exact(op, x.value, y.value)
  BY OperationKinds
<1>5. run = IF q THEN op_checked(op, R, x.value, y.value) ELSE wrap_op(op, R, x.value, y.value)
  BY OperationKinds
<1>6. /\ Fine(run) => (run.value - n) % Size(R) = 0
      /\ Fits(x.value, R) /\ Fits(y.value, R) => IsExact(run, R, n, q)
  BY <1>1, <1>3, <1>4, <1>5, ArithmeticRun
<1>7. ASSUME Narrow(x.type, p), Narrow(y.type, p) PROVE run = Returns(n)
  <2>1. Fits(x.value, R) /\ Fits(y.value, R) /\ Fits(n, R)
    BY <1>1, <1>3, <1>4, <1>7, NarrowArithmetic
  <2>. QED BY <1>6, <2>1 DEF IsExact
<1>8. ASSUME ~Clash(x, y) PROVE IsExact(run, R, n, q)
  <2>1. ~Mismatch(x.type, y.type)
    BY <1>8 DEF Clash, Mismatch
  <2>2. IsWithin(x.type, R) /\ IsWithin(y.type, R)
    BY <1>1, <1>3, <2>1, ArithmeticCarrier
  <2>3. Fits(x.value, R) /\ Fits(y.value, R)
    BY <1>1, <1>3, <2>2, Inclusion
  <2>. QED BY <1>6, <2>3
<1>9. Size(R) = 2 ^ Bits(R)
  BY DEF Size
<1>. QED BY <1>2, <1>6, <1>7, <1>8, <1>9 DEF AsMeant

LEMMA NarrowNoClash ==
  ASSUME NEW x, NEW y, x.type \in Types, y.type \in Types, NEW p \in {32, 64}, Narrow(x.type, p), Narrow(y.type, p)
  PROVE  ~Mismatch(x.type, y.type) /\ x.type.size < p /\ y.type.size < p
<1>1. x.type.size < p /\ y.type.size < p
  BY NarrowSizes
<1>2. Unsigned(64).size = 64
  BY DEF Unsigned
<1>3. Unsigned(64) # x.type /\ Unsigned(64) # y.type
  BY <1>1, <1>2
<1>. QED BY <1>1, <1>3 DEF Mismatch

LEMMA DivisionAsMeant ==
  ASSUME NEW op \in Division, NEW x \in Operands, NEW y \in Operands, NEW q \in BOOLEAN, NEW p \in {32, 64},
         NEW R, R = bind_binary_operation(op, x, y, p), NEW n, n = Meaning(op, x.value, y.value),
         NEW run, run = Run(op, x, y, q, p)
  PROVE  AsMeant(op, x, y, q, p, R, n, run)
<1>1. /\ x.type \in Types /\ x.value \in Int /\ Fits(x.value, x.type)
      /\ y.type \in Types /\ y.value \in Int /\ Fits(y.value, y.type)
  BY OperandsFit
<1>2. op \in {"div", "mod"} /\ op \notin Arithmetic
  BY DEF Arithmetic, Division
<1>3. /\ R \in Types /\ p <= R.size
      /\ ~Mismatch(x.type, y.type) => Fits(x.value, R) /\ Fits(y.value, R)
      /\ x.type.size < p /\ y.type.size < p => R.kind = "signed"
  BY <1>1, DivisionCarrier, OperationKinds
<1>4. n = IF op = "div" THEN Quotient(x.value, y.value) ELSE x.value - y.value * Quotient(x.value, y.value)
  BY OperationKinds
<1>5. run = IF op = "div" THEN int_div(R, q, x.value, y.value) ELSE int_mod(R, x.value, y.value)
  BY OperationKinds
<1>6. CASE y.value = 0
  <2>1. int_div(R, q, x.value, 0) = Raises("div by zero") /\ int_mod(R, x.value, 0) = Raises("div by zero")
    BY <1>1, <1>3, ByZero
  <2>2. run = Raises("div by zero")
    BY <1>5, <1>6, <2>1
  <2>. QED BY <1>2, <1>6, <2>2 DEF AsMeant
<1>7. CASE y.value # 0
  <2>1. ASSUME ~Mismatch(x.type, y.type)
        PROVE  IsExact(run, R, n, q) /\ n \in Int /\ Abs(n) <= Abs(x.value) /\ (op = "mod" => Fits(n, R))
    <3>1. Fits(x.value, R) /\ Fits(y.value, R)
      BY <1>3, <2>1
    <3>. DEFINE k == Quotient(x.value, y.value)
                m == x.value - y.value * k
    <3>2. /\ k \in Int /\ m \in Int
          /\ IsExact(int_div(R, q, x.value, y.value), R, k, q)
          /\ Fits(m, R) /\ int_mod(R, x.value, y.value) = Returns(m)
          /\ Abs(k) <= Abs(x.value) /\ Abs(m) <= Abs(x.value)
      BY <1>1, <1>3, <1>7, <3>1, DivisionRun
    <3>. HIDE DEF k
    <3>3. CASE op = "div"
      BY <1>4, <1>5, <3>2, <3>3 DEF k
    <3>4. CASE op = "mod"
      BY <1>4, <1>5, <3>2, <3>4 DEF k, IsExact
    <3>. QED BY <1>2, <3>3, <3>4
  <2>2. ASSUME Narrow(x.type, p), Narrow(y.type, p) PROVE run = Returns(n)
    <3>1. ~Mismatch(x.type, y.type) /\ R.kind = "signed"
      BY <1>1, <1>3, <2>2, NarrowNoClash
    <3>2. PICK D \in Nat \ {0} :
            /\ \A t \in {x.type, y.type}, v \in Int : Fits(v, t) =>
                 /\ t.kind = "signed" => -D <= v /\ v <= D - 1
                 /\ t.kind = "unsigned" => 0 <= v /\ v <= 2 * D - 1
            /\ R.kind = "signed" => Low(R) = -(High(R) + 1) /\ 2 * (D * D) <= High(R) + 1 /\ 4 <= High(R) + 1
            /\ R.kind = "unsigned" => Low(R) = 0 /\ 4 * (D * D) <= High(R) + 1
      BY <1>1, <1>3, <2>2, NarrowBounds
    <3>3. PICK e \in Nat : e = D * D /\ D <= e
      BY Squares
    <3>4. Low(R) = -(High(R) + 1) /\ 2 * e <= High(R) + 1 /\ High(R) \in Nat
      BY <1>3, <3>1, <3>2, <3>3, TypeBounds
    <3>5. x.type.kind \in {"signed", "unsigned"}
      BY <1>1, TypeNames
    <3>6. -D <= x.value /\ x.value <= 2 * D - 1
      BY <1>1, <3>2, <3>5
    <3>7. n \in Int /\ Abs(n) <= Abs(x.value)
      BY <2>1, <3>1
    <3>8. Fits(n, R)
      BY <1>1, <3>3, <3>4, <3>6, <3>7 DEF Fits, Abs
    <3>. QED BY <2>1, <3>1, <3>8 DEF IsExact
  <2>3. ASSUME ~Clash(x, y) PROVE IsExact(run, R, n, q)
    BY <2>1, <2>3 DEF Clash, Mismatch
  <2>. QED BY <1>2, <1>7, <2>2, <2>3 DEF AsMeant
<1>. QED BY <1>6, <1>7

LEMMA BitwiseAsMeant ==
  ASSUME NEW op \in Bitwise, NEW x \in Operands, NEW y \in Operands, NEW q \in BOOLEAN, NEW p \in {32, 64},
         NEW R, R = bind_binary_operation(op, x, y, p), NEW n, n = Meaning(op, x.value, y.value),
         NEW run, run = Run(op, x, y, q, p)
  PROVE  AsMeant(op, x, y, q, p, R, n, run)
<1>1. /\ x.type \in Types /\ x.value \in Int /\ Fits(x.value, x.type)
      /\ y.type \in Types /\ y.value \in Int /\ Fits(y.value, y.type)
  BY OperandsFit
<1>2. op \in {"and", "or", "xor"} /\ op \notin Arithmetic /\ op \notin Division /\ op \notin Shifts
      /\ op # "div" /\ op # "mod" /\ op # "shl" /\ op # "shr"
  BY DEF Arithmetic, Division, Bitwise, Shifts
<1>3. /\ R \in Types
      /\ ~Mismatch(x.type, y.type) => \/ IsWithin(x.type, R) /\ IsWithin(y.type, R)
                                      \/ op = "and" /\ R.kind = "unsigned" /\ (IsWithin(x.type, R) \/ IsWithin(y.type, R))
  <2>1. R = integer_bitwise_primitive(op, x.type, y.type, p)
    BY OperationKinds
  <2>. QED BY <1>1, <2>1, BitwiseCarrier
<1>4. run = Returns(bitwise(op, R, x.value, y.value))
  BY OperationKinds
<1>5. ASSUME ~Mismatch(x.type, y.type) PROVE run = Returns(n) /\ Fits(n, R)
  <2>1. \/ Fits(x.value, R) /\ Fits(y.value, R)
        \/ op = "and" /\ R.kind = "unsigned" /\ (Fits(x.value, R) \/ Fits(y.value, R))
    BY <1>1, <1>3, <1>5, Inclusion
  <2>2. bitwise(op, R, x.value, y.value) = n /\ Fits(n, R)
    BY <1>1, <1>3, <2>1, BitwiseRun
  <2>. QED BY <1>4, <2>2
<1>6. ASSUME Narrow(x.type, p), Narrow(y.type, p) PROVE run = Returns(n)
  BY <1>1, <1>5, <1>6, NarrowNoClash
<1>7. ASSUME ~Clash(x, y) PROVE IsExact(run, R, n, q)
  BY <1>5, <1>7 DEF Clash, Mismatch, IsExact
<1>. QED BY <1>2, <1>6, <1>7 DEF AsMeant

-----------------------------------------------------------------------------
(* Functions, negatives and comparisons.                                   *)

LEMMA NegativeIs ==
  ASSUME NEW R \in Types, R.kind = "signed", NEW v \in Int, Fits(v, R)
  PROVE  /\ Fits(-v, R) <=> v # Low(R)
         /\ wrap_negate(R, v) = Returns(As(R, -v))
         /\ negate_checked(R, v) = IF v = Low(R) THEN Raises("overflow") ELSE Returns(As(R, -v))
         /\ Fits(-v, R) => As(R, -v) = -v
<1>1. Low(R) \in Int /\ High(R) \in Nat /\ Low(R) = -(High(R) + 1)
  BY TypeBounds
<1>2. Fits(-v, R) <=> v # Low(R)
  BY <1>1 DEF Fits
<1>3. -v \in Int
  OBVIOUS
<1>4. Fits(-v, R) => As(R, -v) = -v
  BY <1>3, Conversion
<1>. QED BY <1>2, <1>4 DEF wrap_negate, negate_checked

LEMMA NegationAsMeant ==
  ASSUME NEW x \in Variables, NEW q \in BOOLEAN, x.type.kind = "signed"
  PROVE  IF Fits(-x.value, x.type) THEN Negate(x, q) = Returns(-x.value)
         ELSE q => Negate(x, q) = Raises("overflow")
<1>1. x.type \in Types /\ x.value \in Int /\ Fits(x.value, x.type)
  BY VariablesFit
<1>2. Negate(x, q) = IF q THEN negate_checked(x.type, x.value) ELSE wrap_negate(x.type, x.value)
  BY DEF Negate
<1>. QED BY <1>1, <1>2, NegativeIs

LEMMA FunctionCarrier ==
  ASSUME NEW f \in {"abs", "sqr"}, NEW t \in Types, abs_sqr_primitive(f, t) # {}
  PROVE  \E R \in Types : abs_sqr_primitive(f, t) = {R} /\ IsWithin(t, R)
<1>1. t.kind \in {"signed", "unsigned"} /\ t.size \in {8, 16, 32, 64}
  BY TypeNames DEF Sizes
<1>2. \A z \in {32, 64} : /\ Signed(z) \in Types /\ Signed(z).kind = "signed" /\ Signed(z).size = z
                          /\ Unsigned(z) \in Types /\ Unsigned(z).kind = "unsigned" /\ Unsigned(z).size = z
  BY TypeNames DEF Sizes
<1>3. CASE t.kind = "signed"
  <2>1. PICK z \in {32, 64} : z = (IF t.size <= 32 THEN 32 ELSE 64) /\ t.size <= z
    BY <1>1
  <2>2. abs_sqr_primitive(f, t) = {Signed(z)}
    BY <1>3, <2>1 DEF abs_sqr_primitive
  <2>3. IsWithin(t, Signed(z))
    BY <1>1, <1>2, <1>3, <2>1, Inclusion
  <2>. QED BY <1>2, <2>2, <2>3
<1>4. CASE t.kind = "unsigned" /\ t.size <= 16
  <2>1. abs_sqr_primitive(f, t) = {Signed(32)}
    BY <1>4 DEF abs_sqr_primitive
  <2>2. IsWithin(t, Signed(32))
    BY <1>1, <1>2, <1>4, Inclusion
  <2>. QED BY <1>2, <2>1, <2>2
<1>5. CASE t.kind = "unsigned" /\ ~(t.size <= 16) /\ f = "sqr"
  <2>1. abs_sqr_primitive(f, t) = {Unsigned(64)}
    BY <1>5 DEF abs_sqr_primitive
  <2>2. IsWithin(t, Unsigned(64))
    BY <1>1, <1>2, <1>5, Inclusion
  <2>. QED BY <1>2, <2>1, <2>2
<1>6. CASE t.kind = "unsigned" /\ ~(t.size <= 16) /\ f # "sqr"
  <2>1. t.size = 32 /\ abs_sqr_primitive(f, t) = {Signed(64)}
    BY <1>6 DEF abs_sqr_primitive
  <2>2. IsWithin(t, Signed(64))
    BY <1>1, <1>2, <2>1, Inclusion
  <2>. QED BY <1>2, <2>1, <2>2
<1>. QED BY <1>1, <1>3, <1>4, <1>5, <1>6

LEMMA FunctionAsMeant ==
  ASSUME NEW f \in {"abs", "sqr"}, NEW x \in Variables, NEW q \in BOOLEAN, abs_sqr_primitive(f, x.type) # {},
         NEW R, R = CHOOSE c \in abs_sqr_primitive(f, x.type) : TRUE,
         NEW n, n = IF f = "abs" THEN Abs(x.value) ELSE x.value * x.value,
         NEW run, run = AbsSqr(f, x.type, x.value, q)
  PROVE  IF Fits(n, R) THEN run = Returns(n) ELSE q /\ R.kind = "signed" => run = Raises("overflow")
<1>1. x.type \in Types /\ x.value \in Int /\ Fits(x.value, x.type)
  BY VariablesFit
<1>2. PICK v \in Int : v = x.value
  BY <1>1
<1>3. R \in Types /\ Fits(v, R)
  <2>1. PICK c \in Types : abs_sqr_primitive(f, x.type) = {c} /\ IsWithin(x.type, c)
    BY <1>1, FunctionCarrier
  <2>2. R = c
    BY <2>1
  <2>. QED BY <1>1, <1>2, <2>1, <2>2, Inclusion
<1>4. run = IF f = "abs" THEN p_abs(R, q, v) ELSE p_sqr(R, q, v)
  BY <1>2 DEF AbsSqr
<1>5. CASE f = "abs"
  <2>1. As(R, v) = v /\ n = Abs(v)
    BY <1>2, <1>3, <1>5, Conversion
  <2>2. R.kind \in {"signed", "unsigned"} /\ (R.kind = "unsigned" => v >= 0)
    BY <1>3, TypeNames, TypeBounds DEF Fits
  <2>3. run = IF R.kind = "unsigned" \/ v >= 0 THEN Returns(v)
              ELSE IF q THEN negate_checked(R, v) ELSE wrap_negate(R, v)
    BY <1>4, <1>5, <2>1 DEF p_abs
  <2>4. CASE v >= 0
    <3>1. n = v
      BY <2>1, <2>4 DEF Abs
    <3>. QED BY <1>3, <2>3, <2>4, <3>1
  <2>5. CASE ~(v >= 0)
    <3>1. n = -v /\ R.kind = "signed"
      BY <2>1, <2>2, <2>5 DEF Abs
    <3>. QED BY <1>3, <2>3, <2>5, <3>1, NegativeIs
  <2>. QED BY <2>4, <2>5
<1>6. CASE f = "sqr"
  <2>1. "mul" \in Arithmetic
    BY DEF Arithmetic
  <2>2. n = Exact("mul", v, v)
    BY <1>2, <1>6, <2>1, ExactIsInt
  <2>3. run = IF q THEN op_checked("mul", R, v, v) ELSE wrap_op("mul", R, v, v)
    BY <1>4, <1>6 DEF p_sqr
  <2>4. IsExact(run, R, n, q)
    BY <1>3, <2>1, <2>2, <2>3, ArithmeticRun
  <2>. QED BY <2>4 DEF IsExact
<1>. QED BY <1>5, <1>6

LEMMA SameOrder ==
  ASSUME NEW op \in Comparisons, NEW a \in Int, NEW b \in Int, NEW c \in Int, NEW d \in Int,
         a < b <=> c < d, a = b <=> c = d
  PROVE  Ordered(op, a, b) <=> Ordered(op, c, d)
<1>1. op \in {"=", "<>", "<", ">", "<=", ">="}
  BY DEF Comparisons
<1>2. CASE op = "="
  BY <1>2 DEF Ordered
<1>3. CASE op = "<>"
  BY <1>3 DEF Ordered
<1>4. CASE op = "<"
  BY <1>4 DEF Ordered
<1>5. CASE op = ">"
  BY <1>5 DEF Ordered
<1>6. CASE op = "<="
  BY <1>6 DEF Ordered
<1>7. CASE op = ">="
  BY <1>7 DEF Ordered
<1>. QED BY <1>1, <1>2, <1>3, <1>4, <1>5, <1>6, <1>7

\* The words of a constant tell its sign and its size.
LEMMA ConstantWords ==
  ASSUME NEW x \in Operands, x.const
  PROVE  /\ is_negative(x) <=> x.value < 0
         /\ x.value < 0 => AsInt64(x.value) = x.value
         /\ x.value >= 0 => Word(x.value) = x.value
<1>1. x.type \in Types /\ x.value \in Int /\ Fits(x.value, x.type)
  BY OperandsFit
<1>2. x.type = LiteralType(x.value)
  BY DEF Operands, Variables, Literals
<1>3. Signed(64) \in Types /\ Signed(64).kind = "signed" /\ Unsigned(64) \in Types /\ Unsigned(64).kind = "unsigned"
      /\ Signed(64).size = 64 /\ Unsigned(64).size = 64
  BY TypeNames DEF Sizes
<1>4. Low(Signed(64)) <= x.value /\ x.value <= High(Unsigned(64)) /\ Low(Unsigned(64)) = 0
      /\ Low(Signed(64)) \in Int /\ High(Signed(64)) \in Nat /\ High(Unsigned(64)) \in Nat
  <2>1. Low(x.type) \in Int /\ High(x.type) \in Nat
    BY <1>1, TypeBounds
  <2>2. Low(Signed(64)) \in Int /\ High(Signed(64)) \in Nat /\ High(Unsigned(64)) \in Nat
    BY <1>3, TypeBounds
  <2>. QED BY <1>1, <2>1, <2>2, LargestTypes DEF Fits
<1>5. x.value <= High(Signed(64)) => AsInt64(x.value) = x.value
  <2>1. x.value <= High(Signed(64)) => Fits(x.value, Signed(64))
    BY <1>4 DEF Fits
  <2>. QED BY <1>1, <1>3, <2>1, Conversion DEF AsInt64
<1>6. CASE x.value < 0
  <2>1. AsInt64(x.value) = x.value
    BY <1>1, <1>4, <1>5, <1>6
  <2>2. x.type.kind # "unsigned"
    BY <1>1, <1>6, TypeBounds DEF Fits
  <2>. QED BY <1>1, <1>6, <2>1, <2>2 DEF is_negative
<1>7. CASE x.value >= 0
  <2>1. Word(x.value) = x.value
    <3>1. Size(Unsigned(64)) = 2 ^ Width[64] /\ Size(Unsigned(64)) \in Nat \ {0} /\ High(Unsigned(64)) + 1 = Size(Unsigned(64))
      BY <1>3, TypeBounds DEF Size, Bits
    <3>2. PICK m \in Nat \ {0} : m = 2 ^ Width[64] /\ x.value \in 0 .. m - 1
      BY <1>1, <1>4, <1>7, <3>1
    <3>. QED BY <1>1, <3>2, SmallRemainders DEF Word
  <2>2. ~is_negative(x)
    <3>1. CASE x.value <= High(Signed(64))
      BY <1>1, <1>5, <1>7, <3>1 DEF is_negative
    <3>2. CASE x.value > High(Signed(64))
      BY <1>2, <1>3, <3>2 DEF is_negative, LiteralType
    <3>. QED BY <1>1, <1>4, <3>1, <3>2
  <2>. QED BY <1>1, <1>7, <2>1, <2>2
<1>. QED BY <1>1, <1>6, <1>7

LEMMA ConstantsCompared ==
  ASSUME NEW op \in Comparisons, NEW x \in Operands, NEW y \in Operands, x.const, y.const
  PROVE  compare_constant_integers(op, x, y) <=> Ordered(op, x.value, y.value)
<1>1. x.value \in Int /\ y.value \in Int
  BY OperandsFit
<1>2. /\ is_negative(x) <=> x.value < 0
      /\ is_negative(y) <=> y.value < 0
      /\ x.value < 0 => AsInt64(x.value) = x.value
      /\ y.value < 0 => AsInt64(y.value) = y.value
      /\ x.value >= 0 => Word(x.value) = x.value
      /\ y.value >= 0 => Word(y.value) = y.value
  BY ConstantWords
<1>3. is_negative(x) \in BOOLEAN /\ is_negative(y) \in BOOLEAN
  BY DEF is_negative
<1>4. CASE x.value < 0 /\ y.value < 0
  BY <1>1, <1>2, <1>3, <1>4 DEF compare_constant_integers
<1>5. CASE x.value >= 0 /\ y.value >= 0
  BY <1>1, <1>2, <1>3, <1>5 DEF compare_constant_integers
<1>6. CASE x.value < 0 /\ y.value >= 0
  <2>1. compare_constant_integers(op, x, y) <=> Ordered(op, 0, 1)
    BY <1>1, <1>2, <1>3, <1>6 DEF compare_constant_integers
  <2>2. Ordered(op, 0, 1) <=> Ordered(op, x.value, y.value)
    BY <1>1, <1>6, SameOrder
  <2>. QED BY <2>1, <2>2
<1>7. CASE x.value >= 0 /\ y.value < 0
  <2>1. compare_constant_integers(op, x, y) <=> Ordered(op, 1, 0)
    BY <1>1, <1>2, <1>3, <1>7 DEF compare_constant_integers
  <2>2. Ordered(op, 1, 0) <=> Ordered(op, x.value, y.value)
    BY <1>1, <1>7, SameOrder
  <2>. QED BY <2>1, <2>2
<1>. QED BY <1>1, <1>4, <1>5, <1>6, <1>7

LEMMA ComparisonAsMeant ==
  ASSUME NEW op \in Comparisons, NEW x \in Operands, NEW y \in Operands, NEW q, NEW p \in {32, 64},
         Clash(x, y) => Settled(x, y)
  PROVE  Run(op, x, y, q, p) = Truth(Ordered(op, x.value, y.value))
<1>1. /\ x.type \in Types /\ x.value \in Int /\ Fits(x.value, x.type)
      /\ y.type \in Types /\ y.value \in Int /\ Fits(y.value, y.type)
  BY OperandsFit
<1>2. PICK R : R = integer_comparison_primitive(x, y, p)
  OBVIOUS
<1>3. Run(op, x, y, q, p) = Truth(IF x.const /\ y.const THEN compare_constant_integers(op, x, y)
                                  ELSE Ordered(op, As(R, x.value), As(R, y.value)))
  <2>1. /\ op \notin Arithmetic /\ op \notin Division /\ op \notin Shifts /\ op \notin Bitwise
        /\ op \notin {"div", "mod", "shl", "shr"}
    BY DEF Arithmetic, Division, Bitwise, Shifts, Comparisons
  <2>2. R = bind_binary_operation(op, x, y, p)
    BY <1>2, <2>1 DEF bind_binary_operation
  <2>. QED BY <2>1, <2>2 DEF Run
<1>4. CASE x.const /\ y.const
  BY <1>3, <1>4, ConstantsCompared DEF Truth
<1>5. CASE ~(x.const /\ y.const)
  <2>1. R \in Types /\ Fits(x.value, R) /\ Fits(y.value, R)
    <3>1. CASE ~Mixed(x.type, y.type) /\ x.type.size < 64 /\ y.type.size < 64
      <4>1. R = common_integer_primitive(x.type, y.type)
        BY <1>2, <3>1 DEF integer_comparison_primitive
      <4>2. R \in Types /\ IsWithin(x.type, R) /\ IsWithin(y.type, R)
        BY <1>1, <3>1, <4>1, SameKindCarrier
      <4>. QED BY <1>1, <4>2, Inclusion
    <3>2. CASE Mixed(x.type, y.type) /\ const_expr_fits_primitive(x, y.type)
      <4>1. R = y.type
        BY <1>2, <3>2 DEF integer_comparison_primitive
      <4>. QED BY <1>1, <3>2, <4>1 DEF const_expr_fits_primitive
    <3>3. CASE Mixed(x.type, y.type) /\ ~const_expr_fits_primitive(x, y.type) /\ const_expr_fits_primitive(y, x.type)
      <4>1. R = x.type
        BY <1>2, <3>3 DEF integer_comparison_primitive
      <4>. QED BY <1>1, <3>3, <4>1 DEF const_expr_fits_primitive
    <3>4. CASE /\ ~(~Mixed(x.type, y.type) /\ x.type.size < 64 /\ y.type.size < 64)
               /\ ~(Mixed(x.type, y.type) /\ const_expr_fits_primitive(x, y.type))
               /\ ~(Mixed(x.type, y.type) /\ const_expr_fits_primitive(y, x.type))
      <4>1. R = integer_arithmetic_primitive("add", x.type, y.type, p)
        BY <1>2, <3>4 DEF integer_comparison_primitive
      <4>2. ~Clash(x, y)
        <5>. SUFFICES ASSUME Clash(x, y) PROVE FALSE
          OBVIOUS
        <5>1. Mixed(x.type, y.type)
          <6>1. Unsigned(64).kind = "unsigned"
            BY DEF Unsigned
          <6>. QED BY <6>1 DEF Clash, Mixed
        <5>2. const_expr_fits_primitive(x, y.type) \/ const_expr_fits_primitive(y, x.type)
          BY <1>5 DEF Settled, const_expr_fits_primitive
        <5>. QED BY <3>4, <5>1, <5>2
      <4>3. ~Mismatch(x.type, y.type)
        BY <4>2 DEF Clash, Mismatch
      <4>4. R \in Types /\ IsWithin(x.type, R) /\ IsWithin(y.type, R)
        BY <1>1, <4>1, <4>3, ArithmeticCarrier
      <4>. QED BY <1>1, <4>4, Inclusion
    <3>. QED BY <3>1, <3>2, <3>3, <3>4
  <2>2. As(R, x.value) = x.value /\ As(R, y.value) = y.value
    BY <1>1, <2>1, Conversion
  <2>. QED BY <1>3, <1>5, <2>2
<1>. QED BY <1>4, <1>5

-----------------------------------------------------------------------------
(* Rotations and shifts.                                                   *)

\* A product of the largest factors.
LEMMA FullProduct ==
  ASSUME NEW a \in Nat \ {0}, NEW b \in Nat \ {0}, NEW x \in 0 .. a - 1, NEW y \in 0 .. b - 1
  PROVE  /\ x * b + y \in 0 .. a * b - 1 /\ a * b \in Nat \ {0}
         /\ x * b + y = a * b - 1 <=> x = a - 1 /\ y = b - 1
<1>1. PICK d \in Nat : d = a - 1 - x
  BY a - 1 - x \in Nat
<1>2. PICK e \in Nat : e = b - 1 - y
  BY b - 1 - y \in Nat
<1>3. (d + x + 1) * b = d * b + x * b + b
  OBVIOUS
<1>4. a = d + x + 1
  BY <1>1
<1>5. a * b = d * b + x * b + b
  BY <1>3, <1>4
<1>6. PICK m \in Int : m = d * b /\ m >= 0 /\ (d >= 1 => m >= 1) /\ (d = 0 => m = 0)
  BY Multiples
<1>7. PICK k \in Int : k = x * b /\ k >= 0
  <2>1. x \in Int /\ (x = 0 \/ x >= 1)
    OBVIOUS
  <2>. QED BY <2>1, Multiples
<1>8. PICK c \in Int : c = a * b /\ c = m + k + b
  BY <1>5, <1>6, <1>7
<1>9. k + y \in 0 .. c - 1 /\ c \in Nat \ {0} /\ (k + y = c - 1 <=> m = 0 /\ e = 0)
  BY <1>2, <1>6, <1>7, <1>8
<1>10. (m = 0 <=> d = 0) /\ (d = 0 <=> x = a - 1) /\ (e = 0 <=> y = b - 1)
  BY <1>1, <1>2, <1>6
<1>. QED BY <1>7, <1>8, <1>9, <1>10

LEMMA RemainderIs ==
  ASSUME NEW m \in Nat \ {0}, NEW c \in Int, NEW h \in Int, NEW r \in 0 .. m - 1, c = h * m + r
  PROVE  c % m = r
BY QuotientIsUnique

\* The number whose upper s bits have become its lower ones.
Turned(w, s, u) == (u % 2 ^ (w - s)) * 2 ^ s + u \div 2 ^ (w - s)

IsTurned(w, s, u, r) ==
  /\ r \in 0 .. 2 ^ w - 1
  /\ \A i \in 0 .. w - 1 : Binary(r, i) <=> IF i < s THEN Binary(u, i + (w - s)) ELSE Binary(u, i - s)
  /\ u # 2 ^ w - 1 => /\ (u * 2 ^ s) % (2 ^ w - 1) = r
                      /\ (r * 2 ^ (w - s)) % (2 ^ w - 1) = u
  /\ u = 2 ^ w - 1 => r = u

LEMMA Rotation ==
  ASSUME NEW w \in Nat, NEW s \in 1 .. w - 1, NEW u \in 0 .. 2 ^ w - 1, NEW r, r = Turned(w, s, u)
  PROVE  IsTurned(w, s, u, r)
<1>1. s \in Nat /\ w - s \in Nat /\ (w - s) + s = w /\ s + (w - s) = w
  OBVIOUS
<1>2. PICK A \in Nat \ {0}, B \in Nat \ {0}, M \in Nat \ {0} : A = 2 ^ (w - s) /\ B = 2 ^ s /\ M = 2 ^ w /\ M = A * B /\ M = B * A
  <2>1. 2 ^ w = 2 ^ (w - s) * 2 ^ s /\ 2 ^ w = 2 ^ s * 2 ^ (w - s)
    BY <1>1, PowerSum
  <2>. QED BY <1>1, <2>1, PowerNat
<1>13. u \in Int /\ u \in 0 .. M - 1
  BY <1>2
<1>3. PICK h \in Int, l \in 0 .. A - 1 : h = u \div A /\ l = u % A /\ u = h * A + l
  <2>1. u \div A \in Int /\ u % A \in 0 .. A - 1 /\ u = (u \div A) * A + (u % A)
    BY <1>13, Quotients
  <2>. QED BY <2>1
<1>4. r = l * B + h
  BY <1>2, <1>3 DEF Turned
<1>5. h \in 0 .. B - 1
  <2>1. h >= 0
    <3>. SUFFICES ASSUME h <= -1 PROVE FALSE
      BY <1>3
    <3>. QED BY <1>3, Multiples
  <2>2. h <= B - 1
    <3>. SUFFICES ASSUME h - B >= 0 PROVE FALSE
      BY <1>3
    <3>1. (h - B) * A >= 0
      OBVIOUS
    <3>2. (h - B) * A = h * A - B * A
      BY <1>3
    <3>3. h * A \in Int
      BY <1>3
    <3>. QED BY <1>2, <1>3, <3>1, <3>2, <3>3
  <2>. QED BY <1>3, <2>1, <2>2
<1>6. r \in 0 .. M - 1 /\ (r = M - 1 <=> l = A - 1 /\ h = B - 1)
  BY <1>2, <1>4, <1>5, FullProduct
<1>7. u = M - 1 <=> h = B - 1 /\ l = A - 1
  BY <1>2, <1>3, <1>5, FullProduct
<1>8. M > 1
  <2>1. B >= 2
    <3>1. PICK k \in Nat : s = k + 1
      <4>1. s - 1 \in Nat /\ s = (s - 1) + 1
        OBVIOUS
      <4>. QED BY <4>1
    <3>. QED BY <1>2, <3>1, Powers
  <2>2. B \in Int /\ A >= 1
    OBVIOUS
  <2>3. A * B >= B
    BY <2>2, Multiples
  <2>. QED BY <1>2, <2>1, <2>3
<1>9. PICK m \in Nat \ {0} : m = M - 1
  BY <1>8
<1>10. ASSUME u # M - 1 PROVE (u * B) % m = r /\ (r * A) % m = u
  <2>1. r \in 0 .. m - 1 /\ u \in 0 .. m - 1
    BY <1>2, <1>6, <1>7, <1>9, <1>10
  <2>2. u * B = h * m + r
    <3>1. (h * A + l) * B = h * (A * B) + l * B
      OBVIOUS
    <3>2. h * (m + 1) = h * m + h
      OBVIOUS
    <3>3. A * B = m + 1
      BY <1>2, <1>9
    <3>4. u * B = h * (m + 1) + l * B
      BY <1>3, <3>1, <3>3
    <3>5. h * m \in Int /\ l * B \in Int
      OBVIOUS
    <3>. QED BY <1>4, <3>2, <3>4, <3>5
  <2>3. r * A = l * m + u
    <3>1. (l * B + h) * A = l * (B * A) + h * A
      OBVIOUS
    <3>2. l * (m + 1) = l * m + l
      OBVIOUS
    <3>3. B * A = m + 1
      BY <1>2, <1>9
    <3>4. r * A = l * (m + 1) + h * A
      BY <1>4, <3>1, <3>3
    <3>5. l * m \in Int /\ h * A \in Int
      OBVIOUS
    <3>. QED BY <1>3, <3>2, <3>4, <3>5
  <2>4. u * B \in Int /\ r * A \in Int /\ h \in Int /\ l \in Int
    BY <1>3, <1>6
  <2>5. PICK c \in Int : c = u * B
    BY <2>4
  <2>6. PICK d \in Int : d = r * A
    BY <2>4
  <2>7. c % m = r
    <3>1. c = h * m + r
      BY <2>2, <2>5
    <3>. QED BY <2>1, <3>1, RemainderIs
  <2>8. d % m = u
    <3>1. d = l * m + u /\ l \in Int
      BY <2>3, <2>6
    <3>. QED BY <2>1, <3>1, RemainderIs
  <2>. QED BY <2>5, <2>6, <2>7, <2>8
<1>11. ASSUME NEW i \in 0 .. w - 1
       PROVE  Binary(r, i) <=> IF i < s THEN Binary(u, i + (w - s)) ELSE Binary(u, i - s)
  <2>1. Binary(r, i) <=> IF i < s THEN Binary(h, i) ELSE Binary(l, i - s)
    <3>1. l \in Int /\ h \in 0 .. 2 ^ s - 1 /\ i \in Nat /\ r = l * 2 ^ s + h
      BY <1>2, <1>3, <1>4, <1>5
    <3>. QED BY <1>1, <3>1, JoinedBits
  <2>2. CASE i < s
    <3>1. Binary(h, i) <=> Binary(u, (w - s) + i)
      <4>1. Binary(u \div 2 ^ (w - s), i) <=> Binary(u, (w - s) + i)
        BY <1>1, <1>13, HighBits
      <4>. QED BY <1>2, <1>3, <4>1
    <3>2. (w - s) + i = i + (w - s)
      OBVIOUS
    <3>. QED BY <2>1, <2>2, <3>1, <3>2
  <2>3. CASE ~(i < s)
    <3>1. i - s \in Nat /\ i - s < w - s
      BY <2>3
    <3>2. Binary(l, i - s) <=> Binary(u, i - s)
      <4>1. Binary(u % 2 ^ (w - s), i - s) <=> Binary(u, i - s)
        BY <1>1, <1>13, <3>1, RemainderBits
      <4>. QED BY <1>2, <1>3, <4>1
    <3>. QED BY <2>1, <2>3, <3>2
  <2>. QED BY <2>2, <2>3
<1>12. u = M - 1 => r = u
  BY <1>6, <1>7
<1>. QED BY <1>2, <1>6, <1>9, <1>10, <1>11, <1>12 DEF IsTurned

-----------------------------------------------------------------------------
(* The functions of the runtime.                                           *)

\* A number as the word it is in.
LEMMA WordOf ==
  ASSUME NEW t \in Types, NEW v \in Int, Fits(v, t)
  PROVE  /\ v % 2 ^ Bits(t) \in 0 .. 2 ^ Bits(t) - 1
         /\ \A i \in 0 .. Bits(t) - 1 : Binary(v, i) <=> Binary(v % 2 ^ Bits(t), i)
         /\ As(t, v % 2 ^ Bits(t)) = v
<1>1. Bits(t) \in Nat
  BY TypeBounds
<1>2. PICK M \in Nat \ {0} : M = 2 ^ Bits(t)
  BY <1>1, PowerNat
<1>3. PICK u \in 0 .. M - 1 : u = v % M
  BY Quotients
<1>4. u \in Int
  OBVIOUS
<1>5. \A i \in 0 .. Bits(t) - 1 : Binary(v, i) <=> Binary(v % 2 ^ Bits(t), i)
  BY <1>1, RemainderBits
<1>6. SameBits(Bits(t), u, v)
  BY <1>2, <1>3, <1>5 DEF SameBits
<1>7. Congruent(t, u, v)
  BY <1>4, <1>6, CongruentBits
<1>8. As(t, u) = v
  BY <1>4, <1>7, Reduced
<1>. QED BY <1>2, <1>3, <1>5, <1>8

\* A pattern that is a given word.
LEMMA PatternWord ==
  ASSUME NEW t \in Types, NEW S \in SUBSET (0 .. Bits(t) - 1), NEW r \in 0 .. 2 ^ Bits(t) - 1,
         \A i \in 0 .. Bits(t) - 1 : Binary(r, i) <=> i \in S
  PROVE  FromOnes(t, S) \in Int /\ FromOnes(t, S) = As(t, r) /\ FromOnes(t, S) % 2 ^ Bits(t) = r
<1>1. Bits(t) \in Nat /\ Size(t) = 2 ^ Bits(t)
  BY TypeBounds DEF Size
<1>2. /\ SumOf(S) \in 0 .. Size(t) - 1 /\ HasBits(SumOf(S), Bits(t), S)
      /\ FromOnes(t, S) = As(t, SumOf(S)) /\ FromOnes(t, S) \in Int
  BY PatternNumber
<1>3. SumOf(S) = r
  <2>1. \A i \in 0 .. Bits(t) - 1 : Binary(SumOf(S), i) <=> Binary(r, i)
    BY <1>2 DEF HasBits
  <2>. QED BY <1>1, <1>2, <2>1, BitsDetermine
<1>4. PICK M \in Nat \ {0} : M = 2 ^ Bits(t)
  BY <1>1, PowerNat
<1>5. r \in Int /\ r \in 0 .. M - 1
  BY <1>4
<1>6. PICK x \in Int : x = As(t, r) /\ Congruent(t, x, r)
  BY <1>5, Conversion
<1>7. PICK k \in Int : x = r + k * M
  BY <1>1, <1>4, <1>6 DEF Congruent
<1>8. x = k * M + r
  BY <1>5, <1>7
<1>9. x % M = r
  BY <1>5, <1>8, RemainderIs
<1>. QED BY <1>2, <1>3, <1>4, <1>6, <1>9

LEMMA DistanceIs ==
  ASSUME NEW t \in Types, NEW n \in Nat
  PROVE  n % Bits(t) \in 0 .. Bits(t) - 1
<1>1. PICK w \in Nat \ {0} : w = Bits(t)
  BY TypeBounds
<1>2. n % w \in 0 .. w - 1
  BY Quotients
<1>. QED BY <1>1, <1>2

\* Powers of two, and nothing turned.
LEMMA NotTurned ==
  ASSUME NEW w \in Nat \ {0}, NEW u \in 0 .. 2 ^ w - 1, u # 2 ^ w - 1
  PROVE  (u * 2 ^ 0) % (2 ^ w - 1) = u
<1>1. PICK M \in Nat \ {0} : M = 2 ^ w
  BY PowerNat
<1>2. u \in 0 .. M - 2 /\ u \in Int
  BY <1>1
<1>3. 2 ^ 0 = 1 /\ u * 1 = u
  BY <1>2
<1>4. PICK m \in Nat \ {0} : m = M - 1
  BY <1>2
<1>5. u % m = u
  BY <1>2, <1>4, SmallRemainders
<1>. QED BY <1>1, <1>3, <1>4, <1>5

LEMMA RolIs ==
  ASSUME NEW t \in Types, NEW v \in Int, Fits(v, t), NEW n \in Nat,
         NEW w, w = Bits(t), NEW u, u = v % 2 ^ w
  PROVE  /\ u # 2 ^ w - 1 => rol(t, v, n) % 2 ^ w = (u * 2 ^ (n % w)) % (2 ^ w - 1)
         /\ u = 2 ^ w - 1 => rol(t, v, n) = v
<1>1. w \in Nat \ {0} /\ n % w \in 0 .. w - 1
  BY TypeBounds, DistanceIs
<1>2. /\ u \in 0 .. 2 ^ w - 1 /\ As(t, u) = v
      /\ \A i \in 0 .. w - 1 : Binary(v, i) <=> Binary(u, i)
  BY WordOf
<1>3. CASE n % w = 0
  <2>1. rol(t, v, n) = v
    BY <1>3 DEF rol
  <2>. QED BY <1>1, <1>2, <1>3, <2>1, NotTurned
<1>4. CASE n % w # 0
  <2>1. PICK s \in 1 .. w - 1 : s = n % w
    BY <1>1, <1>4
  <2>. DEFINE S == {i \in 0 .. w - 1 : i - s \in OnesOf(t, v)}
                   \cup {i \in 0 .. w - 1 : i + (w - s) \in OnesOf(t, v)}
  <2>2. rol(t, v, n) = FromOnes(t, S)
    BY <1>4, <2>1 DEF rol
  <2>3. PICK r : r = Turned(w, s, u)
    OBVIOUS
  <2>4. /\ r \in 0 .. 2 ^ w - 1
        /\ \A i \in 0 .. w - 1 : Binary(r, i) <=> IF i < s THEN Binary(u, i + (w - s)) ELSE Binary(u, i - s)
        /\ u # 2 ^ w - 1 => (u * 2 ^ s) % (2 ^ w - 1) = r
        /\ u = 2 ^ w - 1 => r = u
    <3>1. IsTurned(w, s, u, r)
      BY <1>1, <1>2, <2>3, Rotation
    <3>. QED BY <3>1 DEF IsTurned
  <2>5. OnesOf(t, v) = {i \in 0 .. w - 1 : Binary(v, i)}
    BY OnesAreBits
  <2>6. \A i \in 0 .. w - 1 : Binary(r, i) <=> i \in S
    <3>. SUFFICES ASSUME NEW i \in 0 .. w - 1 PROVE Binary(r, i) <=> i \in S
      OBVIOUS
    <3>1. CASE i < s
      <4>1. i - s \notin 0 .. w - 1 /\ i + (w - s) \in 0 .. w - 1
        BY <1>1, <3>1
      <4>. QED BY <1>2, <2>4, <2>5, <3>1, <4>1
    <3>2. CASE ~(i < s)
      <4>1. i - s \in 0 .. w - 1 /\ i + (w - s) \notin 0 .. w - 1
        BY <1>1, <3>2
      <4>. QED BY <1>2, <2>4, <2>5, <3>2, <4>1
    <3>. QED BY <3>1, <3>2
  <2>. HIDE DEF S
  <2>7. S \in SUBSET (0 .. Bits(t) - 1)
    BY DEF S
  <2>8. rol(t, v, n) = As(t, r) /\ rol(t, v, n) % 2 ^ w = r
    BY <2>2, <2>4, <2>6, <2>7, PatternWord
  <2>. QED BY <1>2, <2>1, <2>4, <2>8
<1>. QED BY <1>3, <1>4

LEMMA RorIs ==
  ASSUME NEW t \in Types, NEW v \in Int, Fits(v, t), NEW n \in Nat,
         NEW w, w = Bits(t), NEW u, u = v % 2 ^ w
  PROVE  /\ u # 2 ^ w - 1 => ((ror(t, v, n) % 2 ^ w) * 2 ^ (n % w)) % (2 ^ w - 1) = u
         /\ u = 2 ^ w - 1 => ror(t, v, n) = v
<1>1. w \in Nat \ {0} /\ n % w \in 0 .. w - 1
  BY TypeBounds, DistanceIs
<1>2. /\ u \in 0 .. 2 ^ w - 1 /\ As(t, u) = v
      /\ \A i \in 0 .. w - 1 : Binary(v, i) <=> Binary(u, i)
  BY WordOf
<1>3. CASE n % w = 0
  <2>1. ror(t, v, n) = v
    BY <1>3 DEF ror
  <2>. QED BY <1>1, <1>2, <1>3, <2>1, NotTurned
<1>4. CASE n % w # 0
  <2>1. PICK d \in 1 .. w - 1 : d = n % w
    BY <1>1, <1>4
  <2>0. PICK s \in 1 .. w - 1 : s = w - d /\ w - s = d
    <3>1. w - d \in 1 .. w - 1 /\ w - (w - d) = d
      BY <1>1
    <3>. QED BY <3>1
  <2>. DEFINE S == {i \in 0 .. w - 1 : i + d \in OnesOf(t, v)}
                   \cup {i \in 0 .. w - 1 : i - (w - d) \in OnesOf(t, v)}
  <2>2. ror(t, v, n) = FromOnes(t, S)
    BY <1>4, <2>1 DEF ror
  <2>3. PICK r : r = Turned(w, s, u)
    OBVIOUS
  <2>4. /\ r \in 0 .. 2 ^ w - 1
        /\ \A i \in 0 .. w - 1 : Binary(r, i) <=> IF i < s THEN Binary(u, i + (w - s)) ELSE Binary(u, i - s)
        /\ u # 2 ^ w - 1 => (r * 2 ^ (w - s)) % (2 ^ w - 1) = u
        /\ u = 2 ^ w - 1 => r = u
    <3>1. IsTurned(w, s, u, r)
      BY <1>1, <1>2, <2>3, Rotation
    <3>. QED BY <3>1 DEF IsTurned
  <2>5. OnesOf(t, v) = {i \in 0 .. w - 1 : Binary(v, i)}
    BY OnesAreBits
  <2>6. \A i \in 0 .. w - 1 : Binary(r, i) <=> i \in S
    <3>. SUFFICES ASSUME NEW i \in 0 .. w - 1 PROVE Binary(r, i) <=> i \in S
      OBVIOUS
    <3>1. CASE i < s
      <4>1. i - (w - d) \notin 0 .. w - 1 /\ i + d \in 0 .. w - 1 /\ i + d = i + (w - s)
        BY <1>1, <2>0, <3>1
      <4>. QED BY <1>2, <2>4, <2>5, <3>1, <4>1
    <3>2. CASE ~(i < s)
      <4>1. i - (w - d) \in 0 .. w - 1 /\ i + d \notin 0 .. w - 1 /\ i - (w - d) = i - s
        BY <1>1, <2>0, <3>2
      <4>. QED BY <1>2, <2>4, <2>5, <3>2, <4>1
    <3>. QED BY <3>1, <3>2
  <2>. HIDE DEF S
  <2>7. S \in SUBSET (0 .. Bits(t) - 1)
    BY DEF S
  <2>8. ror(t, v, n) = As(t, r) /\ ror(t, v, n) % 2 ^ w = r
    BY <2>2, <2>4, <2>6, <2>7, PatternWord
  <2>. QED BY <1>2, <2>0, <2>1, <2>4, <2>8
<1>. QED BY <1>3, <1>4

\* The quotient by a power of two is smaller.
LEMMA SmallerQuotient ==
  ASSUME NEW t \in Types, NEW v \in Int, Fits(v, t), NEW b \in Nat \ {0}
  PROVE  v \div b \in Int /\ Fits(v \div b, t)
<1>1. Low(t) \in Int /\ High(t) \in Nat /\ Low(t) <= 0
  BY TypeBounds, LargestTypes
<1>2. PICK k \in Int, m \in 0 .. b - 1 : k = v \div b /\ v = k * b + m
  <2>1. v \div b \in Int /\ v % b \in 0 .. b - 1 /\ v = (v \div b) * b + (v % b)
    BY Quotients
  <2>. QED BY <2>1
<1>3. PICK c \in Int : c = b - 1 /\ c >= 0
  OBVIOUS
<1>4. k * b = k + k * c
  <2>1. k * (c + 1) = k + k * c
    OBVIOUS
  <2>. QED BY <1>3, <2>1
<1>5. /\ k >= 0 => k * c >= 0
      /\ k <= -1 => k * c + c <= 0
  <2>1. ASSUME k >= 0 PROVE k * c >= 0
    BY <1>3, <2>1
  <2>2. ASSUME k <= -1 PROVE k * c + c <= 0
    <3>1. -k - 1 \in Nat
      BY <2>2
    <3>2. (-k - 1) * c >= 0
      BY <1>3, <3>1
    <3>3. (-k - 1) * c = -(k * c) - c
      OBVIOUS
    <3>4. k * c \in Int
      OBVIOUS
    <3>. QED BY <3>2, <3>3, <3>4
  <2>. QED BY <2>1, <2>2
<1>6. PICK e \in Int : e = k * c
  OBVIOUS
<1>7. v = k + e + m /\ m <= c
  <2>1. k * b = k + e
    BY <1>4, <1>6
  <2>2. v = (k + e) + m
    BY <1>2, <2>1
  <2>3. m <= c
    BY <1>3
  <2>. QED BY <2>2, <2>3
<1>8. (k >= 0 => k <= v) /\ (k <= -1 => v <= k /\ v < 0)
  BY <1>5, <1>6, <1>7
<1>9. k >= Low(t) /\ k <= High(t)
  BY <1>1, <1>5, <1>6, <1>7, <1>8 DEF Fits
<1>. QED BY <1>2, <1>9 DEF Fits

LEMMA SarIs ==
  ASSUME NEW t \in Types, t.kind = "signed", NEW v \in Int, Fits(v, t), NEW n \in Nat, NEW w, w = Bits(t)
  PROVE  sarlongint(t, v, n) = v \div 2 ^ (n % w)
<1>1. w \in Nat \ {0} /\ n % w \in 0 .. w - 1
  BY TypeBounds, DistanceIs
<1>2. PICK s \in 0 .. w - 1 : s = n % w
  BY <1>1
<1>3. CASE s = 0
  <2>1. 2 ^ 0 = 1
    OBVIOUS
  <2>2. v \div 1 = v
    OBVIOUS
  <2>3. sarlongint(t, v, n) = v
    BY <1>2, <1>3 DEF sarlongint
  <2>. QED BY <1>2, <1>3, <2>1, <2>2, <2>3
<1>4. CASE s # 0
  <2>1. PICK b \in Nat \ {0} : b = 2 ^ s
    BY <1>1, PowerNat
  <2>2. PICK x \in Int : x = v \div b /\ Fits(x, t)
    BY SmallerQuotient
  <2>. DEFINE S == {i \in 0 .. w - 1 : i + s \in OnesOf(t, v)} \cup (IF v < 0 THEN (w - s) .. (w - 1) ELSE {})
  <2>3. sarlongint(t, v, n) = FromOnes(t, S)
    BY <1>2, <1>4 DEF sarlongint
  <2>4. OnesOf(t, v) = {i \in 0 .. w - 1 : Binary(v, i)}
    BY OnesAreBits
  <2>5. S \in SUBSET (0 .. Bits(t) - 1)
    BY <1>1
  <2>6. ASSUME NEW i \in 0 .. w - 1 PROVE Binary(x, i) <=> i \in S
    <3>1. Binary(x, i) <=> Binary(v, s + i)
      <4>1. i \in Nat /\ s \in Nat
        OBVIOUS
      <4>2. Binary(v \div 2 ^ s, i) <=> Binary(v, s + i)
        BY <4>1, HighBits
      <4>. QED BY <2>1, <2>2, <4>2
    <3>2. CASE i + s < w
      <4>1. i + s \in 0 .. w - 1 /\ i \notin (w - s) .. (w - 1) /\ i + s = s + i
        BY <1>1, <3>2
      <4>. QED BY <2>4, <3>1, <4>1
    <3>3. CASE ~(i + s < w)
      <4>1. i + s \notin 0 .. w - 1 /\ i \in (w - s) .. (w - 1) /\ s + i \in Nat /\ s + i >= w
        BY <1>1, <3>3
      <4>2. Binary(v, s + i) <=> v < 0
        BY <4>1, FittingBits
      <4>. QED BY <2>4, <3>1, <4>1, <4>2
    <3>. QED BY <3>2, <3>3
  <2>. HIDE DEF S
  <2>7. FromOnes(t, S) = x
    BY <2>2, <2>5, <2>6, PatternIs
  <2>. QED BY <1>2, <2>1, <2>2, <2>3, <2>7
<1>. QED BY <1>3, <1>4

\* The lowest and the highest of some positions.
LEMMA Extremes ==
  ASSUME NEW w \in Nat, NEW S \in SUBSET (0 .. w - 1), S # {}
  PROVE  /\ Min(S) \in S /\ \A j \in S : Min(S) <= j
         /\ Max(S) \in S /\ \A j \in S : j <= Max(S)
<1>1. S \in SUBSET Nat
  OBVIOUS
<1>2. \E k \in S : \A j \in S : k <= j
  BY <1>1, Smallest
<1>3. \E k \in S : \A j \in S : j <= k
  <2>. DEFINE R == {w - i : i \in S}
  <2>1. R \in SUBSET Nat /\ R # {}
    <3>1. \A i \in S : w - i \in Nat
      OBVIOUS
    <3>2. PICK i \in S : TRUE
      OBVIOUS
    <3>3. w - i \in R
      BY <3>2
    <3>4. R \in SUBSET Nat
      BY <3>1
    <3>. QED BY <3>3, <3>4
  <2>2. PICK m \in R : \A j \in R : m <= j
    BY <2>1, Smallest
  <2>3. PICK k \in S : m = w - k
    BY <2>2
  <2>4. \A j \in S : w - j \in R
    OBVIOUS
  <2>5. \A j \in S : w - k <= w - j
    BY <2>2, <2>3, <2>4
  <2>6. \A j \in S : j \in Nat
    BY <1>1
  <2>7. \A j \in S : j <= k
    BY <2>5, <2>6
  <2>. QED BY <2>7
<1>4. Min(S) \in S /\ \A j \in S : Min(S) <= j
  BY <1>2 DEF Min
<1>5. Max(S) \in S /\ \A j \in S : Max(S) >= j
  BY <1>3 DEF Max
<1>6. \A j \in S : j \in Nat
  BY <1>1
<1>. QED BY <1>4, <1>5, <1>6

LEMMA BitsOfZero ==
  ASSUME NEW i \in Nat
  PROVE  ~Binary(0, i)
<1>1. PICK b \in Nat \ {0} : b = 2 ^ i
  BY PowerNat
<1>2. 0 \div b = 0
  <2>1. 0 = 0 * b + 0 /\ 0 \in 0 .. b - 1
    OBVIOUS
  <2>. QED BY <2>1, QuotientIsUnique
<1>. QED BY <1>1, <1>2 DEF Binary

LEMMA BitScans ==
  ASSUME NEW t \in Types, NEW v \in Int, Fits(v, t), NEW w, w = Bits(t), NEW u, u = v % 2 ^ w
  PROVE  IF u = 0 THEN bsf(t, v) = 255 /\ bsr(t, v) = 255
         ELSE /\ u % 2 ^ bsf(t, v) = 0 /\ (u \div 2 ^ bsf(t, v)) % 2 = 1
              /\ 2 ^ bsr(t, v) <= u /\ u < 2 ^ (bsr(t, v) + 1)
<1>1. w \in Nat \ {0}
  BY TypeBounds
<1>2. /\ u \in 0 .. 2 ^ w - 1
      /\ \A i \in 0 .. w - 1 : Binary(v, i) <=> Binary(u, i)
  BY WordOf
<1>3. PICK M \in Nat \ {0} : M = 2 ^ w
  BY <1>1, PowerNat
<1>4. u \in Nat /\ u \in 0 .. M - 1
  BY <1>2, <1>3
<1>5. PICK ones : ones = OnesOf(t, v) /\ ones = {i \in 0 .. w - 1 : Binary(u, i)}
  BY <1>2, OnesAreBits
<1>6. CASE u = 0
  <2>1. ones = {}
    BY <1>5, <1>6, BitsOfZero
  <2>. QED BY <1>5, <1>6, <2>1 DEF bsf, bsr, NoBit
<1>7. CASE u # 0
  <2>1. ones # {}
    <3>. SUFFICES ASSUME ones = {} PROVE FALSE
      OBVIOUS
    <3>1. \A i \in 0 .. w - 1 : Binary(u, i) <=> Binary(0, i)
      BY <1>5, BitsOfZero
    <3>2. 0 \in 0 .. 2 ^ w - 1
      BY <1>3
    <3>3. u = 0
      BY <1>1, <1>2, <3>1, <3>2, BitsDetermine
    <3>. QED BY <1>7, <3>3
  <2>2. PICK l \in 0 .. w - 1 : l = bsf(t, v) /\ Binary(u, l) /\ \A j \in ones : l <= j
    <3>1. bsf(t, v) = Min(ones)
      BY <1>5, <2>1 DEF bsf
    <3>2. ones \in SUBSET (0 .. w - 1)
      BY <1>5
    <3>3. Min(ones) \in ones /\ \A j \in ones : Min(ones) <= j
      BY <1>1, <2>1, <3>2, Extremes
    <3>. QED BY <1>5, <3>1, <3>3
  <2>3. PICK h \in 0 .. w - 1 : h = bsr(t, v) /\ Binary(u, h) /\ \A j \in ones : j <= h
    <3>1. bsr(t, v) = Max(ones)
      BY <1>5, <2>1 DEF bsr
    <3>2. ones \in SUBSET (0 .. w - 1)
      BY <1>5
    <3>3. Max(ones) \in ones /\ \A j \in ones : j <= Max(ones)
      BY <1>1, <2>1, <3>2, Extremes
    <3>. QED BY <1>5, <3>1, <3>3
  <2>4. u % 2 ^ l = 0
    <3>1. PICK b \in Nat \ {0} : b = 2 ^ l
      BY <1>1, PowerNat
    <3>2. PICK r \in 0 .. b - 1 : r = u % b
      BY <1>4, Quotients
    <3>3. \A i \in 0 .. l - 1 : Binary(r, i) <=> Binary(0, i)
      <4>. SUFFICES ASSUME NEW i \in 0 .. l - 1 PROVE Binary(r, i) <=> Binary(0, i)
        OBVIOUS
      <4>1. l \in Nat /\ i \in Nat /\ i < l /\ i \in 0 .. w - 1
        BY <1>1
      <4>2. Binary(u % 2 ^ l, i) <=> Binary(u, i)
        BY <1>4, <4>1, RemainderBits
      <4>3. i \notin ones
        BY <2>2, <4>1
      <4>4. ~Binary(u, i)
        BY <1>5, <4>1, <4>3
      <4>. QED BY <3>1, <3>2, <4>1, <4>2, <4>4, BitsOfZero
    <3>4. r \in 0 .. 2 ^ l - 1 /\ 0 \in 0 .. 2 ^ l - 1 /\ l \in Nat
      BY <3>1, <3>2
    <3>5. r = 0
      BY <3>3, <3>4, BitsDetermine
    <3>. QED BY <3>1, <3>2, <3>5
  <2>5. (u \div 2 ^ l) % 2 = 1
    BY <2>2 DEF Binary
  <2>6. 2 ^ h <= u
    <3>1. PICK b \in Nat \ {0} : b = 2 ^ h
      BY <1>1, PowerNat
    <3>. SUFFICES ASSUME u < b PROVE FALSE
      BY <1>4, <3>1
    <3>2. u \div b = 0
      <4>1. u = 0 * b + u /\ u \in 0 .. b - 1
        BY <1>4
      <4>. QED BY <1>4, <4>1, QuotientIsUnique
    <3>. QED BY <2>3, <3>1, <3>2 DEF Binary
  <2>7. u < 2 ^ (h + 1)
    <3>1. h + 1 \in Nat /\ h + 1 <= w
      BY <1>1
    <3>2. PICK b \in Nat \ {0} : b = 2 ^ (h + 1) /\ b <= M
      BY <1>1, <1>3, <3>1, PowerNat, PowersGrow
    <3>3. PICK r \in 0 .. b - 1 : r = u % b
      BY <1>4, Quotients
    <3>4. \A i \in 0 .. w - 1 : Binary(r, i) <=> Binary(u, i)
      <4>. SUFFICES ASSUME NEW i \in 0 .. w - 1 PROVE Binary(r, i) <=> Binary(u, i)
        OBVIOUS
      <4>1. i \in Nat
        OBVIOUS
      <4>2. CASE i < h + 1
        <5>1. Binary(u % 2 ^ (h + 1), i) <=> Binary(u, i)
          BY <1>4, <3>1, <4>1, <4>2, RemainderBits
        <5>. QED BY <3>2, <3>3, <5>1
      <4>3. CASE ~(i < h + 1)
        <5>1. i \notin ones
          BY <2>3, <4>3
        <5>2. ~Binary(u, i)
          BY <1>5, <5>1
        <5>3. -(2 ^ (h + 1)) <= r /\ r <= 2 ^ (h + 1) - 1 /\ r \in Int /\ i >= h + 1
          BY <3>2, <4>3
        <5>4. Binary(r, i) <=> r < 0
          BY <3>1, <4>1, <5>3, SignBits
        <5>. QED BY <5>2, <5>4
      <4>. QED BY <4>2, <4>3
    <3>5. r \in 0 .. 2 ^ w - 1
      BY <1>3, <3>2
    <3>6. r = u
      BY <1>1, <1>2, <3>4, <3>5, BitsDetermine
    <3>. QED BY <3>2, <3>6
  <2>. QED BY <1>7, <2>2, <2>3, <2>4, <2>5, <2>6, <2>7
<1>. QED BY <1>6, <1>7

-----------------------------------------------------------------------------
(* Halves and bytes.                                                       *)

LEMMA HalvesJoin ==
  ASSUME NEW t \in Types, NEW v \in Int, Fits(v, t), NEW w, w = Bits(t)
  PROVE  /\ p_hi(t, v) * 2 ^ Half(t) + p_lo(t, v) = v % 2 ^ w
         /\ w % 2 = 0 => p_swap(t, p_swap(t, v)) = v /\ p_hi(t, p_swap(t, v)) = p_lo(t, v)
<1>1. w \in Nat \ {0}
  BY TypeBounds
<1>2. v % 2 ^ w \in 0 .. 2 ^ w - 1 /\ As(t, v % 2 ^ w) = v
  BY WordOf
<1>3. PICK M \in Nat \ {0} : M = 2 ^ w
  BY <1>1, PowerNat
<1>4. PICK u \in 0 .. M - 1 : u = v % 2 ^ w
  BY <1>2, <1>3
<1>5. PICK h \in Nat : h = Half(t) /\ h = w \div 2 /\ (w % 2 = 0 => w = h + h)
  <2>1. w \div 2 \in Nat /\ (w % 2 = 0 => w = w \div 2 + w \div 2)
    BY <1>1
  <2>. QED BY <2>1 DEF Half
<1>6. PICK H \in Nat \ {0} : H = 2 ^ h
  BY PowerNat
<1>7. PICK a \in Int, b \in 0 .. H - 1 : a = u \div H /\ b = u % H /\ u = a * H + b
  <2>1. u \in Int
    OBVIOUS
  <2>2. u \div H \in Int /\ u % H \in 0 .. H - 1 /\ u = (u \div H) * H + (u % H)
    BY <2>1, Quotients
  <2>. QED BY <2>2
<1>8. p_hi(t, v) = a /\ p_lo(t, v) = b
  BY <1>4, <1>5, <1>6, <1>7 DEF p_hi, p_lo
<1>9. ASSUME w % 2 = 0 PROVE p_swap(t, p_swap(t, v)) = v /\ p_hi(t, p_swap(t, v)) = b
  <2>1. M = H * H
    <3>1. 2 ^ (h + h) = 2 ^ h * 2 ^ h
      BY PowerSum
    <3>. QED BY <1>3, <1>5, <1>6, <1>9, <3>1
  <2>2. a \in 0 .. H - 1
    <3>1. a >= 0
      <4>. SUFFICES ASSUME a <= -1 PROVE FALSE
        BY <1>7
      <4>. QED BY <1>7, Multiples
    <3>2. a <= H - 1
      <4>. SUFFICES ASSUME a - H >= 0 PROVE FALSE
        BY <1>7
      <4>1. (a - H) * H >= 0
        OBVIOUS
      <4>2. (a - H) * H = a * H - H * H
        OBVIOUS
      <4>3. a * H \in Int
        OBVIOUS
      <4>. QED BY <1>7, <2>1, <4>1, <4>2, <4>3
    <3>. QED BY <3>1, <3>2
  <2>3. PICK c \in 0 .. M - 1 : c = b * H + a /\ c = a + b * H
    <3>1. b * H + a \in 0 .. H * H - 1
      BY <2>2, FullProduct
    <3>2. b * H + a = a + b * H
      OBVIOUS
    <3>. QED BY <2>1, <3>1, <3>2
  <2>4. c \in Int /\ c \div H = b /\ c % H = a
    <3>1. c \in Int /\ b \in Int
      OBVIOUS
    <3>2. c \div H = b
      BY <2>2, <2>3, <3>1, QuotientIsUnique
    <3>3. c % H = a
      BY <2>2, <2>3, <3>1, RemainderIs
    <3>. QED BY <3>1, <3>2, <3>3
  <2>5. \A z \in 0 .. M - 1 : integer_from_bits(t, z) = As(t, z)
    <3>. SUFFICES ASSUME NEW z \in 0 .. M - 1 PROVE integer_from_bits(t, z) = As(t, z)
      OBVIOUS
    <3>1. z % M = z
      BY SmallRemainders
    <3>. QED BY <1>3, <3>1 DEF As
  <2>6. PICK x \in Int : x = p_swap(t, v) /\ x = As(t, c)
    <3>1. p_swap(t, v) = As(t, c)
      BY <1>5, <1>6, <1>8, <2>3, <2>5 DEF p_swap
    <3>. QED BY <2>4, <3>1, Conversion
  <2>7. x % M = c
    <3>1. Congruent(t, x, c)
      BY <2>4, <2>6, Conversion
    <3>2. PICK k \in Int : x = c + k * M
      BY <1>3, <3>1 DEF Congruent, Size
    <3>3. x = k * M + c
      BY <3>2
    <3>. QED BY <3>3, RemainderIs
  <2>8. p_hi(t, x) = b /\ p_lo(t, x) = a
    BY <1>3, <1>5, <1>6, <2>4, <2>7 DEF p_hi, p_lo
  <2>9. p_swap(t, x) = v
    <3>1. p_swap(t, x) = integer_from_bits(t, b + a * H)
      BY <1>5, <1>6, <2>8 DEF p_swap
    <3>2. b + a * H = u
      BY <1>7
    <3>. QED BY <1>2, <1>4, <2>5, <3>1, <3>2
  <2>. QED BY <2>6, <2>8, <2>9
<1>. QED BY <1>4, <1>5, <1>6, <1>7, <1>8, <1>9

\* Where a bit goes when the k bytes of B bits change places.
Moved(B, k, i) == (k - 1 - (i \div B)) * B + (i % B)

LEMMA Moves ==
  ASSUME NEW B \in Nat \ {0}, NEW k \in Nat \ {0}, NEW i \in 0 .. k * B - 1
  PROVE  /\ Moved(B, k, i) \in 0 .. k * B - 1 /\ Moved(B, k, Moved(B, k, i)) = i
         /\ i < B => Moved(B, k, i) = (k * B - B) + i
<1>1. PICK W \in Nat : W = k * B
  OBVIOUS
<1>2. i \in Int /\ i \in 0 .. W - 1
  BY <1>1
<1>3. PICK q \in Int, r \in 0 .. B - 1 : q = i \div B /\ r = i % B /\ i = q * B + r
  <2>1. i \div B \in Int /\ i % B \in 0 .. B - 1 /\ i = (i \div B) * B + (i % B)
    BY <1>2, Quotients
  <2>. QED BY <2>1
<1>4. q \in 0 .. k - 1
  <2>1. q >= 0
    <3>. SUFFICES ASSUME q <= -1 PROVE FALSE
      BY <1>3
    <3>. QED BY <1>2, <1>3, Multiples
  <2>2. q <= k - 1
    <3>. SUFFICES ASSUME q - k >= 0 PROVE FALSE
      BY <1>3
    <3>1. (q - k) * B >= 0
      OBVIOUS
    <3>2. (q - k) * B = q * B - k * B
      OBVIOUS
    <3>3. q * B \in Int
      OBVIOUS
    <3>. QED BY <1>1, <1>2, <1>3, <3>1, <3>2, <3>3
  <2>. QED BY <1>3, <2>1, <2>2
<1>5. PICK c \in 0 .. k - 1 : c = k - 1 - q /\ k - 1 - c = q
  BY <1>4
<1>6. PICK m \in Int : m = c * B + r
  OBVIOUS
<1>7. Moved(B, k, i) = m
  BY <1>3, <1>5, <1>6 DEF Moved
<1>8. m \in 0 .. k * B - 1
  BY <1>5, <1>6, FullProduct
<1>9. m \div B = c /\ m % B = r
  <2>1. c \in Int
    OBVIOUS
  <2>2. m \div B = c
    BY <1>6, <2>1, QuotientIsUnique
  <2>3. m % B = r
    BY <1>6, <2>1, RemainderIs
  <2>. QED BY <2>2, <2>3
<1>10. Moved(B, k, m) = i
  BY <1>3, <1>5, <1>9 DEF Moved
<1>11. ASSUME i < B PROVE m = (k * B - B) + i
  <2>1. q = 0 /\ r = i
    <3>1. i = 0 * B + i /\ i \in 0 .. B - 1
      BY <1>2, <1>11
    <3>2. i \div B = 0
      BY <1>2, <3>1, QuotientIsUnique
    <3>3. i % B = i
      BY <1>2, <3>1, RemainderIs
    <3>. QED BY <1>3, <3>2, <3>3
  <2>2. (k - 1) * B = k * B - B
    OBVIOUS
  <2>3. m = (k - 1) * B + i
    BY <1>5, <1>6, <2>1
  <2>. QED BY <2>2, <2>3
<1>. QED BY <1>7, <1>8, <1>10, <1>11

LEMMA BytesSwap ==
  ASSUME NEW t \in Types, NEW v \in Int, Fits(v, t), NEW w, w = Bits(t), w % Width[8] = 0
  PROVE  /\ p_swapendian(t, p_swapendian(t, v)) = v
         /\ (p_swapendian(t, v) % 2 ^ w) % 2 ^ Width[8] = (v % 2 ^ w) \div 2 ^ (w - Width[8])
<1>1. PICK B \in Nat \ {0} : B = Width[8]
  BY WidthAssumption DEF Sizes
<1>2. w \in Nat \ {0}
  BY TypeBounds
<1>3. PICK k \in Int : k = w \div B /\ w = k * B
  <2>0. w \in Int
    BY <1>2
  <2>1. w \in Int /\ w \div B \in Int /\ w = (w \div B) * B + (w % B)
    BY <2>0, Quotients
  <2>2. w % B = 0
    BY <1>1
  <2>3. PICK c \in Int : c = (w \div B) * B
    BY <2>1
  <2>. QED BY <2>1, <2>2, <2>3
<1>4. k \in Nat \ {0}
  <2>1. k >= 1
    <3>. SUFFICES ASSUME k <= 0 PROVE FALSE
      BY <1>3
    <3>. QED BY <1>2, <1>3, Multiples
  <2>. QED BY <1>3, <2>1
<1>5. \A i \in 0 .. w - 1 : Moved(B, k, i) \in 0 .. w - 1 /\ Moved(B, k, Moved(B, k, i)) = i
                            /\ (i < B => Moved(B, k, i) = (w - B) + i)
  <2>. SUFFICES ASSUME NEW i \in 0 .. w - 1
                PROVE  Moved(B, k, i) \in 0 .. w - 1 /\ Moved(B, k, Moved(B, k, i)) = i
                       /\ (i < B => Moved(B, k, i) = (w - B) + i)
    OBVIOUS
  <2>1. i \in 0 .. k * B - 1
    BY <1>3
  <2>2. /\ Moved(B, k, i) \in 0 .. k * B - 1 /\ Moved(B, k, Moved(B, k, i)) = i
        /\ i < B => Moved(B, k, i) = (k * B - B) + i
    BY <1>4, <2>1, Moves
  <2>. QED BY <1>3, <2>2
<1>6. ASSUME NEW x \in Int, Fits(x, t)
      PROVE  /\ p_swapendian(t, x) \in Int /\ Fits(p_swapendian(t, x), t)
             /\ \A i \in 0 .. w - 1 : Binary(p_swapendian(t, x), i) <=> Binary(x, Moved(B, k, i))
  <2>1. PICK S : S = {i \in 0 .. w - 1 : Moved(B, k, i) \in OnesOf(t, x)}
    OBVIOUS
  <2>2. p_swapendian(t, x) = FromOnes(t, S)
    BY <1>1, <1>3, <2>1 DEF p_swapendian, Moved
  <2>3. S \in SUBSET (0 .. Bits(t) - 1)
    BY <2>1
  <2>4. OnesOf(t, x) = {i \in 0 .. w - 1 : Binary(x, i)}
    BY OnesAreBits
  <2>5. \A i \in 0 .. w - 1 : i \in S <=> Binary(x, Moved(B, k, i))
    BY <1>5, <2>1, <2>4
  <2>6. FromOnes(t, S) \in Int /\ Fits(FromOnes(t, S), t) /\ \A i \in 0 .. w - 1 : Binary(FromOnes(t, S), i) <=> i \in S
    BY <2>3, PatternNumber
  <2>. QED BY <2>2, <2>5, <2>6
<1>7. PICK x \in Int : x = p_swapendian(t, v) /\ Fits(x, t) /\ \A i \in 0 .. w - 1 : Binary(x, i) <=> Binary(v, Moved(B, k, i))
  BY <1>6
<1>8. p_swapendian(t, x) = v
  <2>1. PICK y \in Int : y = p_swapendian(t, x) /\ Fits(y, t) /\ \A i \in 0 .. w - 1 : Binary(y, i) <=> Binary(x, Moved(B, k, i))
    BY <1>6, <1>7
  <2>2. \A i \in 0 .. w - 1 : Binary(y, i) <=> Binary(v, i)
    BY <1>5, <1>7, <2>1
  <2>3. SameBits(Bits(t), y, v)
    BY <2>2 DEF SameBits
  <2>4. y = v
    BY <2>1, <2>3, CongruentBits, OneRepresentative
  <2>. QED BY <2>1, <2>4
<1>9. (x % 2 ^ w) % 2 ^ B = (v % 2 ^ w) \div 2 ^ (w - B)
  <2>1. B <= w /\ w - B \in Nat /\ B \in Nat /\ (w - B) + B = w
    <3>1. k >= 1 /\ k \in Int
      BY <1>4
    <3>2. k * B >= B
      BY <3>1, Multiples
    <3>. QED BY <1>2, <1>3, <3>2
  <2>2. PICK M \in Nat \ {0}, H \in Nat \ {0}, L \in Nat \ {0} :
          M = 2 ^ w /\ H = 2 ^ B /\ L = 2 ^ (w - B) /\ M = L * H /\ M = H * L
    <3>1. PICK d \in Nat : d = w - B /\ d + B = w /\ B + d = w
      BY <2>1
    <3>2. 2 ^ (d + B) = 2 ^ d * 2 ^ B /\ 2 ^ (B + d) = 2 ^ B * 2 ^ d
      BY PowerSum
    <3>. QED BY <1>2, <2>1, <3>1, <3>2, PowerNat
  <2>3. PICK a \in 0 .. M - 1, u \in 0 .. M - 1 : a = x % M /\ u = v % M
    BY Quotients
  <2>4. a \in Int /\ u \in Int
    OBVIOUS
  <2>5. PICK y \in 0 .. H - 1 : y = a % H
    BY <2>4, Quotients
  <2>6. PICK z \in Int : z = u \div L
    BY <2>4, Quotients
  <2>7. z \in 0 .. H - 1
    <3>1. PICK r \in 0 .. L - 1 : u = z * L + r
      BY <2>4, <2>6, Quotients
    <3>2. z >= 0
      <4>. SUFFICES ASSUME z <= -1 PROVE FALSE
        BY <2>6
      <4>. QED BY <3>1, Multiples
    <3>3. z <= H - 1
      <4>. SUFFICES ASSUME z - H >= 0 PROVE FALSE
        BY <2>6
      <4>1. (z - H) * L >= 0
        OBVIOUS
      <4>2. (z - H) * L = z * L - H * L
        OBVIOUS
      <4>3. z * L \in Int
        OBVIOUS
      <4>. QED BY <2>2, <2>3, <3>1, <4>1, <4>2, <4>3
    <3>. QED BY <3>2, <3>3
  <2>8. \A i \in 0 .. B - 1 : Binary(y, i) <=> Binary(z, i)
    <3>. SUFFICES ASSUME NEW i \in 0 .. B - 1 PROVE Binary(y, i) <=> Binary(z, i)
      OBVIOUS
    <3>1. i \in Nat /\ i < B /\ i < w /\ i \in 0 .. w - 1 /\ (w - B) + i \in 0 .. w - 1 /\ (w - B) + i < w /\ (w - B) + i \in Nat
      BY <2>1
    <3>2. Binary(y, i) <=> Binary(x, i)
      <4>1. Binary(a % 2 ^ B, i) <=> Binary(a, i)
        BY <2>1, <2>4, <3>1, RemainderBits
      <4>2. Binary(x % 2 ^ w, i) <=> Binary(x, i)
        BY <1>2, <3>1, RemainderBits
      <4>. QED BY <2>2, <2>3, <2>5, <4>1, <4>2
    <3>3. Binary(x, i) <=> Binary(v, (w - B) + i)
      BY <1>5, <1>7, <3>1
    <3>4. Binary(z, i) <=> Binary(v, (w - B) + i)
      <4>1. Binary(u \div 2 ^ (w - B), i) <=> Binary(u, (w - B) + i)
        BY <2>1, <2>4, <3>1, HighBits
      <4>2. Binary(v % 2 ^ w, (w - B) + i) <=> Binary(v, (w - B) + i)
        BY <1>2, <3>1, RemainderBits
      <4>. QED BY <2>2, <2>3, <2>6, <4>1, <4>2
    <3>. QED BY <3>2, <3>3, <3>4
  <2>9. y = z
    <3>1. y \in 0 .. 2 ^ B - 1 /\ z \in 0 .. 2 ^ B - 1
      BY <2>2, <2>7
    <3>. QED BY <2>1, <2>8, <3>1, BitsDetermine
  <2>. QED BY <2>2, <2>3, <2>5, <2>6, <2>9
<1>. QED BY <1>1, <1>7, <1>8, <1>9

-----------------------------------------------------------------------------
(* Addresses and money.                                                    *)

LEMMA AlignedAddress ==
  ASSUME NEW t \in Types, t.kind = "unsigned", NEW v \in Int, Fits(v, t), NEW n \in Nat \ {0}, v + n <= High(t)
  PROVE  v <= p_align(t, v, n) /\ p_align(t, v, n) < v + n /\ p_align(t, v, n) % n = 0
<1>1. Low(t) = 0 /\ High(t) \in Nat /\ v >= 0
  BY TypeBounds DEF Fits
<1>2. As(t, n - 1) = n - 1
  <2>1. Fits(n - 1, t) /\ n - 1 \in Int
    BY <1>1 DEF Fits
  <2>. QED BY <2>1, Conversion
<1>3. PICK a \in Int : a = v + (n - 1)
  OBVIOUS
<1>4. As(t, a) = a
  <2>1. Fits(a, t)
    BY <1>1, <1>3 DEF Fits
  <2>. QED BY <2>1, Conversion
<1>5. PICK q \in Int, r \in 0 .. n - 1 : r = a % n /\ a = q * n + r
  <2>1. a \div n \in Int /\ a % n \in 0 .. n - 1 /\ a = (a \div n) * n + (a % n)
    BY Quotients
  <2>. QED BY <2>1
<1>6. PICK c \in Int : c = q * n
  OBVIOUS
<1>7. c = a - r
  BY <1>5, <1>6
<1>8. As(t, c) = c
  <2>1. Fits(c, t)
    BY <1>1, <1>3, <1>7 DEF Fits
  <2>. QED BY <2>1, Conversion
<1>9. p_align(t, v, n) = c
  BY <1>2, <1>3, <1>4, <1>5, <1>7, <1>8 DEF p_align
<1>10. c % n = 0
  <2>1. c = q * n + 0 /\ 0 \in 0 .. n - 1
    BY <1>6
  <2>. QED BY <2>1, RemainderIs
<1>11. v <= c /\ c < v + n
  BY <1>3, <1>7
<1>. QED BY <1>9, <1>10, <1>11

LEMMA CurrencyIs ==
  ASSUME NEW t \in Types, NEW v \in Int, Fits(v, t), NEW checks \in BOOLEAN
  PROVE  IF Fits(v * Scale, Signed(64)) THEN integer_to_currency(t, Scale, checks, checks, v) = Returns(v * Scale)
         ELSE checks => integer_to_currency(t, Scale, checks, checks, v) = Raises("overflow")
<1>1. PICK s \in Types : s = (IF t.kind = "signed" THEN Signed(64) ELSE Unsigned(64)) /\ s.kind = t.kind /\ s.size = 64
  BY TypeNames DEF Sizes
<1>2. IsWithin(t, s)
  <2>1. t.size \in {8, 16, 32, 64}
    BY TypeNames DEF Sizes
  <2>. QED BY <1>1, <2>1, Inclusion
<1>3. As(s, v) = v
  BY <1>2, Inclusion, Conversion
<1>. QED BY <1>1, <1>3 DEF integer_to_currency

-----------------------------------------------------------------------------
(* Every expression.                                                       *)

\* What the manual says of the functions of v, and n, in a type.
MeetsManual(t, v, n, checks, e) ==
  LET w == Bits(t) u == v % 2 ^ w IN
  /\ u # 2 ^ w - 1 => /\ e.rol % 2 ^ w = (u * 2 ^ (n % w)) % (2 ^ w - 1)
                      /\ ((e.ror % 2 ^ w) * 2 ^ (n % w)) % (2 ^ w - 1) = u
  /\ u = 2 ^ w - 1 => e.rol = v /\ e.ror = v
  /\ t.kind = "signed" => e.sar = v \div 2 ^ (n % w)
  /\ IF u = 0 THEN e.bsf = 255 /\ e.bsr = 255
     ELSE /\ u % 2 ^ e.bsf = 0 /\ (u \div 2 ^ e.bsf) % 2 = 1
          /\ 2 ^ e.bsr <= u /\ u < 2 ^ (e.bsr + 1)
  /\ e.hi * 2 ^ Half(t) + e.lo = u
  /\ w % 2 = 0 => p_swap(t, e.swap) = v /\ p_hi(t, e.swap) = e.lo
  /\ w % Width[8] = 0 =>
       /\ e.big = e.swapped /\ p_swapendian(t, e.swapped) = v
       /\ (e.swapped % 2 ^ w) % 2 ^ Width[8] = u \div 2 ^ (w - Width[8])
  /\ t = Unsigned(64) /\ n > 0 /\ v + n <= High(t) =>
       v <= e.align /\ e.align < v + n /\ e.align % n = 0
  /\ IF Fits(v * Scale, Signed(64)) THEN e.currency = Returns(v * Scale)
     ELSE checks => e.currency = Raises("overflow")

LEMMA HelperMeetsManual ==
  ASSUME NEW t \in Types, NEW v \in Int, Fits(v, t), NEW n \in 0 .. 9, NEW checks \in BOOLEAN, NEW e,
         e.ror = ror(t, v, n), e.rol = rol(t, v, n), e.sar = sarlongint(t, v, n),
         e.bsf = bsf(t, v), e.bsr = bsr(t, v), e.lo = p_lo(t, v), e.hi = p_hi(t, v),
         e.swap = p_swap(t, v), e.swapped = p_swapendian(t, v), e.big = ToOrder("little", "big", t, v),
         e.align = (IF t = Unsigned(64) /\ n > 0 THEN p_align(t, v, n) ELSE v),
         e.currency = integer_to_currency(t, Scale, checks, checks, v)
  PROVE  MeetsManual(t, v, n, checks, e)
<1>1. PICK w : w = Bits(t)
  OBVIOUS
<1>2. PICK u : u = v % 2 ^ w
  OBVIOUS
<1>3. n \in Nat
  OBVIOUS
<1>4. /\ u # 2 ^ w - 1 => e.rol % 2 ^ w = (u * 2 ^ (n % w)) % (2 ^ w - 1)
      /\ u = 2 ^ w - 1 => e.rol = v
  BY <1>1, <1>2, <1>3, RolIs
<1>5. /\ u # 2 ^ w - 1 => ((e.ror % 2 ^ w) * 2 ^ (n % w)) % (2 ^ w - 1) = u
      /\ u = 2 ^ w - 1 => e.ror = v
  BY <1>1, <1>2, <1>3, RorIs
<1>6. t.kind = "signed" => e.sar = v \div 2 ^ (n % w)
  BY <1>1, <1>3, SarIs
<1>7. IF u = 0 THEN e.bsf = 255 /\ e.bsr = 255
      ELSE /\ u % 2 ^ e.bsf = 0 /\ (u \div 2 ^ e.bsf) % 2 = 1
           /\ 2 ^ e.bsr <= u /\ u < 2 ^ (e.bsr + 1)
  BY <1>1, <1>2, BitScans
<1>8. /\ e.hi * 2 ^ Half(t) + e.lo = u
      /\ w % 2 = 0 => p_swap(t, e.swap) = v /\ p_hi(t, e.swap) = e.lo
  BY <1>1, <1>2, HalvesJoin
<1>9. w % Width[8] = 0 =>
       /\ e.big = e.swapped /\ p_swapendian(t, e.swapped) = v
       /\ (e.swapped % 2 ^ w) % 2 ^ Width[8] = u \div 2 ^ (w - Width[8])
  <2>1. e.big = e.swapped
    BY DEF ToOrder
  <2>. QED BY <1>1, <1>2, <2>1, BytesSwap
<1>10. ASSUME t = Unsigned(64), n > 0, v + n <= High(t) PROVE v <= e.align /\ e.align < v + n /\ e.align % n = 0
  <2>1. t.kind = "unsigned"
    BY <1>10 DEF Unsigned
  <2>2. n \in Nat \ {0} /\ e.align = p_align(t, v, n)
    BY <1>3, <1>10
  <2>. QED BY <1>10, <2>1, <2>2, AlignedAddress
<1>11. IF Fits(v * Scale, Signed(64)) THEN e.currency = Returns(v * Scale)
       ELSE checks => e.currency = Raises("overflow")
  BY CurrencyIs
<1>. QED BY <1>1, <1>2, <1>4, <1>5, <1>6, <1>7, <1>8, <1>9, <1>10, <1>11 DEF MeetsManual

\* What the program computes is what the expression means, for every width of
\* the types, every value of an operand, every pair of operand types and both
\* targets. (bind_binary_operation, tp2cc_add_checked .. tp2cc_int_mod,
\* integer_comparison_primitive, tp2cc_ror .. p_swap.)
THEOREM ExpressionsCorrect == Spec => []ExpressionsMeanTheirNumbers
<1>1. Init => ExpressionsMeanTheirNumbers
  BY DEF Init, Idle, ExpressionsMeanTheirNumbers, OperationsAreExact, ComparisonsFollowTheOrder,
         NegativesAreExact, FunctionsMeetTheManual
<1>2. ExpressionsMeanTheirNumbers /\ [Next]_vars => ExpressionsMeanTheirNumbers'
  <2>. SUFFICES ASSUME ExpressionsMeanTheirNumbers, [Next]_vars PROVE ExpressionsMeanTheirNumbers'
    OBVIOUS
  <2>1. expr'.kind # "helper" => FunctionsMeetTheManual'
    BY DEF FunctionsMeetTheManual
  <2>2. expr'.kind # "negation" => NegativesAreExact'
    BY DEF NegativesAreExact
  <2>3. expr'.kind # "binary" => ComparisonsFollowTheOrder'
    BY DEF ComparisonsFollowTheOrder
  <2>4. expr'.kind # "binary" /\ expr'.kind # "function" => OperationsAreExact'
    BY DEF OperationsAreExact
  <2>. DEFINE Other == expr'.kind \notin {"helper", "negation", "binary", "function"}
  <2>5. Other => ExpressionsMeanTheirNumbers'
    BY <2>1, <2>2, <2>3, <2>4 DEF ExpressionsMeanTheirNumbers
  <2>6. CASE BinaryExpression
    <3>1. PICK op \in BinOps, x \in Operands, y \in Operands, q \in BOOLEAN, p \in Targets :
            /\ q => op \in Arithmetic \cup {"div"}
            /\ expr' = [kind |-> "binary", op |-> op, x |-> x, y |-> y, q_check |-> q, target |-> p,
                        run |-> Run(op, x, y, q, p)]
      BY <2>6 DEF BinaryExpression, Checks
    <3>2. PICK run : run = Run(op, x, y, q, p)
      OBVIOUS
    <3>3. /\ expr'.kind = "binary" /\ expr'.op = op /\ expr'.x = x /\ expr'.y = y /\ expr'.q_check = q
          /\ expr'.target = p /\ expr'.run = run
      BY <3>1, <3>2
    <3>4. p \in {32, 64}
      BY DEF Targets
    <3>5. ComparisonsFollowTheOrder'
      <4>1. op \in Comparisons /\ (Clash(x, y) => Settled(x, y)) => run = Truth(Ordered(op, x.value, y.value))
        BY <3>2, <3>4, ComparisonAsMeant
      <4>. QED BY <3>3, <4>1 DEF ComparisonsFollowTheOrder
    <3>6. OperationsAreExact'
      <4>1. PICK R : R = bind_binary_operation(op, x, y, p)
        OBVIOUS
      <4>2. PICK n : n = Meaning(op, x.value, y.value)
        OBVIOUS
      <4>3. op \in Arithmetic \cup Division \cup Bitwise => AsMeant(op, x, y, q, p, R, n, run)
        BY <3>2, <3>4, <4>1, <4>2, ArithmeticAsMeant, DivisionAsMeant, BitwiseAsMeant
      <4>4. op \in Arithmetic \cup Division \cup Bitwise =>
              IF op \in Division /\ y.value = 0 THEN run = Raises("div by zero")
              ELSE IF Narrow(x.type, p) /\ Narrow(y.type, p) THEN run = Returns(n)
              ELSE IF Clash(x, y) THEN op \in Arithmetic /\ Fine(run) => (run.value - n) % 2 ^ Bits(R) = 0
              ELSE IF Fits(n, R) THEN run = Returns(n)
              ELSE IF q /\ R.kind = "signed" THEN run = Raises("overflow")
              ELSE Fine(run) /\ Fits(run.value, R) /\ (run.value - n) % 2 ^ Bits(R) = 0
        BY <4>3 DEF AsMeant, IsExact, Size
      <4>. QED BY <3>3, <4>1, <4>2, <4>4 DEF OperationsAreExact
    <3>. QED BY <2>1, <2>2, <3>3, <3>5, <3>6 DEF ExpressionsMeanTheirNumbers
  <2>7. CASE Negation
    <3>1. PICK x \in Variables, q \in BOOLEAN :
            expr' = [kind |-> "negation", x |-> x, q_check |-> q, run |-> Negate(x, q)]
      BY <2>7 DEF Negation, Checks
    <3>2. NegativesAreExact'
      BY <3>1, NegationAsMeant DEF NegativesAreExact
    <3>. QED BY <2>1, <2>3, <2>4, <3>1, <3>2 DEF ExpressionsMeanTheirNumbers
  <2>8. CASE Function
    <3>1. PICK f \in {"abs", "sqr"}, x \in Variables, q \in BOOLEAN :
            /\ abs_sqr_primitive(f, x.type) # {}
            /\ expr' = [kind |-> "function", f |-> f, x |-> x, q_check |-> q,
                        run |-> AbsSqr(f, x.type, x.value, q)]
      BY <2>8 DEF Function, Checks
    <3>2. PICK run : run = AbsSqr(f, x.type, x.value, q)
      OBVIOUS
    <3>3. PICK R : R = CHOOSE c \in abs_sqr_primitive(f, x.type) : TRUE
      OBVIOUS
    <3>4. PICK n : n = IF f = "abs" THEN Abs(x.value) ELSE x.value * x.value
      OBVIOUS
    <3>5. IF Fits(n, R) THEN run = Returns(n) ELSE q /\ R.kind = "signed" => run = Raises("overflow")
      BY <3>1, <3>2, <3>3, <3>4, FunctionAsMeant
    <3>6. expr'.kind = "function" /\ expr'.f = f /\ expr'.x = x /\ expr'.q_check = q /\ expr'.run = run
      BY <3>1, <3>2
    <3>7. OperationsAreExact'
      BY <3>3, <3>4, <3>5, <3>6 DEF OperationsAreExact
    <3>. QED BY <2>1, <2>2, <2>3, <3>6, <3>7 DEF ExpressionsMeanTheirNumbers
  <2>9. CASE Helper
    <3>1. PICK t \in Types, n \in 0 .. 9, checks \in BOOLEAN : \E v \in Samples(t) :
            expr' = [kind |-> "helper", type |-> t, value |-> v, n |-> n, checks |-> checks,
                     ror |-> ror(t, v, n), rol |-> rol(t, v, n), sar |-> sarlongint(t, v, n),
                     bsf |-> bsf(t, v), bsr |-> bsr(t, v), lo |-> p_lo(t, v), hi |-> p_hi(t, v),
                     swap |-> p_swap(t, v), swapped |-> p_swapendian(t, v),
                     big |-> ToOrder("little", "big", t, v),
                     align |-> IF t = Unsigned(64) /\ n > 0 THEN p_align(t, v, n) ELSE v,
                     currency |-> integer_to_currency(t, Scale, checks, checks, v)]
      BY <2>9 DEF Helper
    <3>2. PICK v \in Samples(t) :
            expr' = [kind |-> "helper", type |-> t, value |-> v, n |-> n, checks |-> checks,
                     ror |-> ror(t, v, n), rol |-> rol(t, v, n), sar |-> sarlongint(t, v, n),
                     bsf |-> bsf(t, v), bsr |-> bsr(t, v), lo |-> p_lo(t, v), hi |-> p_hi(t, v),
                     swap |-> p_swap(t, v), swapped |-> p_swapendian(t, v),
                     big |-> ToOrder("little", "big", t, v),
                     align |-> IF t = Unsigned(64) /\ n > 0 THEN p_align(t, v, n) ELSE v,
                     currency |-> integer_to_currency(t, Scale, checks, checks, v)]
      BY <3>1
    <3>3. v \in Int /\ Fits(v, t)
      BY SamplesAssumption
    <3>4. PICK e : e = expr'
      OBVIOUS
    <3>5. /\ e.kind = "helper" /\ e.type = t /\ e.value = v /\ e.n = n /\ e.checks = checks
          /\ e.ror = ror(t, v, n) /\ e.rol = rol(t, v, n) /\ e.sar = sarlongint(t, v, n)
          /\ e.bsf = bsf(t, v) /\ e.bsr = bsr(t, v) /\ e.lo = p_lo(t, v) /\ e.hi = p_hi(t, v)
          /\ e.swap = p_swap(t, v) /\ e.swapped = p_swapendian(t, v) /\ e.big = ToOrder("little", "big", t, v)
          /\ e.align = (IF t = Unsigned(64) /\ n > 0 THEN p_align(t, v, n) ELSE v)
          /\ e.currency = integer_to_currency(t, Scale, checks, checks, v)
      BY <3>2, <3>4
    <3>6. MeetsManual(t, v, n, checks, e)
      BY <3>3, <3>5, HelperMeetsManual
    <3>7. FunctionsMeetTheManual'
      BY <3>4, <3>5, <3>6 DEF FunctionsMeetTheManual, MeetsManual
    <3>. QED BY <2>2, <2>3, <2>4, <3>4, <3>5, <3>7 DEF ExpressionsMeanTheirNumbers
  <2>10. CASE UNCHANGED vars
    <3>1. expr' = expr
      BY <2>10 DEF vars
    <3>2. OperationsAreExact'
      BY <3>1 DEF ExpressionsMeanTheirNumbers, OperationsAreExact
    <3>3. ComparisonsFollowTheOrder'
      BY <3>1 DEF ExpressionsMeanTheirNumbers, ComparisonsFollowTheOrder
    <3>4. NegativesAreExact'
      BY <3>1 DEF ExpressionsMeanTheirNumbers, NegativesAreExact
    <3>5. FunctionsMeetTheManual'
      BY <3>1 DEF ExpressionsMeanTheirNumbers, FunctionsMeetTheManual
    <3>. QED BY <3>2, <3>3, <3>4, <3>5 DEF ExpressionsMeanTheirNumbers
  <2>11. CASE Finish
    BY <2>5, <2>11 DEF Finish, Idle
  <2>12. CASE ConstantExpression
    BY <2>5, <2>12 DEF ConstantExpression
  <2>13. CASE OrdinalStep
    BY <2>5, <2>13 DEF OrdinalStep
  <2>14. CASE ConstantStep
    BY <2>5, <2>14 DEF ConstantStep
  <2>15. CASE Assignment
    BY <2>5, <2>15 DEF Assignment
  <2>16. CASE Call
    BY <2>5, <2>16 DEF Call
  <2>17. CASE ProcValue
    BY <2>5, <2>17 DEF ProcValue
  <2>. QED BY <2>6, <2>7, <2>8, <2>9, <2>10, <2>11, <2>12, <2>13, <2>14, <2>15, <2>16, <2>17 DEF Next
<1>. QED BY <1>1, <1>2, PTL DEF Spec

-----------------------------------------------------------------------------
(* Constants: what the compiler evaluates and what the program computes.   *)

\* A constant's sign and its size, read from its word.
LEMMA ConstantParts ==
  ASSUME NEW x \in Operands, x.const
  PROVE  /\ is_negative(x) \in BOOLEAN /\ (is_negative(x) <=> x.value < 0)
         /\ magnitude(x) = Abs(x.value) /\ Abs(x.value) \in Nat
<1>1. x.type \in Types /\ x.value \in Int /\ Fits(x.value, x.type)
  BY OperandsFit
<1>2. /\ is_negative(x) <=> x.value < 0
      /\ x.value >= 0 => Word(x.value) = x.value
  BY ConstantWords
<1>3. is_negative(x) \in BOOLEAN
  BY DEF is_negative
<1>4. CASE x.value >= 0
  BY <1>1, <1>2, <1>3, <1>4 DEF magnitude, Abs
<1>5. CASE x.value < 0
  <2>1. Signed(64) \in Types /\ Signed(64).kind = "signed" /\ Signed(64).size = 64
    BY TypeNames DEF Sizes
  <2>2. PICK m \in Nat \ {0} : m = 2 ^ Width[64] /\ -m < x.value
    <3>1. Size(Signed(64)) = 2 ^ Width[64]
      BY <2>1 DEF Size, Bits
    <3>2. /\ Size(Signed(64)) \in Nat \ {0} /\ Low(Signed(64)) = -(High(Signed(64)) + 1)
          /\ High(Signed(64)) \in Nat /\ Size(Signed(64)) = 2 * (High(Signed(64)) + 1)
      BY <2>1, TypeBounds
    <3>3. Low(Signed(64)) <= Low(x.type) /\ Low(x.type) \in Int
      BY <1>1, LargestTypes, TypeBounds
    <3>. QED BY <1>1, <3>1, <3>2, <3>3 DEF Fits
  <2>3. Word(x.value) = x.value + m
    BY <1>1, <1>5, <2>2, SmallRemainders DEF Word
  <2>4. PICK w \in Int : w = -Word(x.value) /\ w \in -m .. -1 /\ w + m = -x.value
    <3>1. PICK v \in Int : v = x.value
      BY <1>1
    <3>2. PICK w \in Int : w = -(v + m)
      OBVIOUS
    <3>3. -m <= w /\ w <= -1 /\ w + m = -v
      BY <1>5, <2>2, <3>1, <3>2
    <3>4. w = -Word(x.value)
      BY <2>3, <3>1, <3>2
    <3>. QED BY <3>1, <3>2, <3>3, <3>4
  <2>5. Word(w) = w + m
    BY <2>2, <2>4, SmallRemainders DEF Word
  <2>. QED BY <1>1, <1>2, <1>3, <1>5, <2>4, <2>5 DEF magnitude, Abs
<1>. QED BY <1>1, <1>4, <1>5

\* The number of a sign and a size, when it has a type.
LEMMA MadeNumber ==
  ASSUME NEW neg \in BOOLEAN, NEW m \in Nat, make_result(neg, m).known
  PROVE  make_result(neg, m).value = IF neg THEN -m ELSE m
<1>1. ~Unknown.known
  BY DEF Unknown
<1>2. make_result(neg, m) = TypedNumber(IF neg THEN -m ELSE m)
  BY <1>1 DEF make_result
<1>3. \A v : TypedNumber(v).value = v
  BY DEF TypedNumber, Known
<1>. QED BY <1>2, <1>3

\* Sums of numbers that are given by a sign and a size.
LEMMA SummedParts ==
  ASSUME NEW k \in BOOLEAN, NEW m \in Nat, NEW j \in BOOLEAN, NEW n \in Nat,
         NEW a, a = (IF k THEN -m ELSE m), NEW b, b = (IF j THEN -n ELSE n),
         add_signed_magnitudes(k, m, j, n).known
  PROVE  add_signed_magnitudes(k, m, j, n).value = a + b
<1>1. CASE k = j
  <2>1. add_signed_magnitudes(k, m, j, n) = make_result(k, m + n)
    BY <1>1 DEF add_signed_magnitudes
  <2>2. m + n \in Nat
    OBVIOUS
  <2>3. make_result(k, m + n).value = IF k THEN -(m + n) ELSE m + n
    BY <2>1, <2>2, MadeNumber
  <2>. QED BY <1>1, <2>1, <2>3
<1>2. CASE k # j /\ m >= n
  <2>1. add_signed_magnitudes(k, m, j, n) = make_result(k, m - n)
    BY <1>2 DEF add_signed_magnitudes
  <2>2. m - n \in Nat
    BY <1>2
  <2>3. make_result(k, m - n).value = IF k THEN -(m - n) ELSE m - n
    BY <2>1, <2>2, MadeNumber
  <2>. QED BY <1>2, <2>1, <2>3
<1>3. CASE k # j /\ ~(m >= n)
  <2>1. add_signed_magnitudes(k, m, j, n) = make_result(j, n - m)
    BY <1>3 DEF add_signed_magnitudes
  <2>2. n - m \in Nat
    BY <1>3
  <2>3. make_result(j, n - m).value = IF j THEN -(n - m) ELSE n - m
    BY <2>1, <2>2, MadeNumber
  <2>. QED BY <1>3, <2>1, <2>3
<1>. QED BY <1>1, <1>2, <1>3

LEMMA SubtractedParts ==
  ASSUME NEW k \in BOOLEAN, NEW m \in Nat, NEW j \in BOOLEAN, NEW n \in Nat,
         NEW a, a = (IF k THEN -m ELSE m), NEW b, b = (IF j THEN -n ELSE n),
         add_signed_magnitudes(k, m, ~j, n).known
  PROVE  add_signed_magnitudes(k, m, ~j, n).value = a - b
<1>1. CASE k # j
  <2>1. add_signed_magnitudes(k, m, ~j, n) = make_result(k, m + n)
    BY <1>1 DEF add_signed_magnitudes
  <2>2. m + n \in Nat
    OBVIOUS
  <2>3. make_result(k, m + n).value = IF k THEN -(m + n) ELSE m + n
    BY <2>1, <2>2, MadeNumber
  <2>. QED BY <1>1, <2>1, <2>3
<1>2. CASE k = j /\ m >= n
  <2>1. add_signed_magnitudes(k, m, ~j, n) = make_result(k, m - n)
    BY <1>2 DEF add_signed_magnitudes
  <2>2. m - n \in Nat
    BY <1>2
  <2>3. make_result(k, m - n).value = IF k THEN -(m - n) ELSE m - n
    BY <2>1, <2>2, MadeNumber
  <2>. QED BY <1>2, <2>1, <2>3
<1>3. CASE k /\ j /\ ~(m >= n)
  <2>1. add_signed_magnitudes(k, m, ~j, n) = make_result(FALSE, n - m)
    BY <1>3 DEF add_signed_magnitudes
  <2>2. n - m \in Nat
    BY <1>3
  <2>3. make_result(FALSE, n - m).value = n - m
    BY <2>1, <2>2, MadeNumber
  <2>4. a - b = n - m
    BY <1>3
  <2>. QED BY <2>1, <2>3, <2>4
<1>4. CASE ~k /\ ~j /\ ~(m >= n)
  <2>1. add_signed_magnitudes(k, m, ~j, n) = make_result(TRUE, n - m)
    BY <1>4 DEF add_signed_magnitudes
  <2>2. n - m \in Nat
    BY <1>4
  <2>3. make_result(TRUE, n - m).value = -(n - m)
    BY <2>1, <2>2, MadeNumber
  <2>4. a - b = -(n - m)
    BY <1>4
  <2>. QED BY <2>1, <2>3, <2>4
<1>. QED BY <1>1, <1>2, <1>3, <1>4

\* A number of a sign and a size is the product of two others.
LEMMA SignedProduct ==
  ASSUME NEW a \in Int, NEW b \in Int
  PROVE  /\ Abs(a) * Abs(b) \in Nat
         /\ a * b = IF (a < 0) # (b < 0) THEN -(Abs(a) * Abs(b)) ELSE Abs(a) * Abs(b)
<1>1. (-a) * b = -(a * b) /\ a * (-b) = -(a * b) /\ (-a) * (-b) = a * b
  OBVIOUS
<1>2. Abs(a) \in Nat /\ Abs(b) \in Nat
  BY DEF Abs
<1>3. Abs(a) * Abs(b) \in Nat
  BY <1>2
<1>. QED BY <1>1, <1>3 DEF Abs

\* What the compiler evaluates an arithmetic operation of constants to is what
\* the operation means.
LEMMA FoldedNumber ==
  ASSUME NEW op \in Arithmetic \cup Division, NEW x \in Operands, NEW y \in Operands, x.const, y.const,
         NEW f, f = eval_const_int_expr(op, x, y), f.known
  PROVE  /\ f.value = Meaning(op, x.value, y.value)
         /\ op \in Division => y.value # 0
<1>1. PICK a \in Int : a = x.value
  BY OperandsFit
<1>2. PICK b \in Int : b = y.value
  BY OperandsFit
<1>3. PICK m \in Nat : m = Abs(a) /\ m = magnitude(x)
  BY <1>1, ConstantParts
<1>4. PICK n \in Nat : n = Abs(b) /\ n = magnitude(y)
  BY <1>2, ConstantParts
<1>. DEFINE k == is_negative(x)
            j == is_negative(y)
<1>5. k \in BOOLEAN /\ (k <=> a < 0) /\ j \in BOOLEAN /\ (j <=> b < 0)
  BY <1>1, <1>2, ConstantParts
<1>6. a = (IF k THEN -m ELSE m) /\ b = (IF j THEN -n ELSE n)
  BY <1>3, <1>4, <1>5 DEF Abs
<1>7. op \in {"add", "sub", "mul", "div", "mod"}
  BY DEF Arithmetic, Division
<1>8. op \notin Comparisons /\ op \notin Shifts /\ op \notin Bitwise /\ ~Unknown.known
  BY <1>7 DEF Comparisons, Shifts, Bitwise, Unknown
<1>9. /\ op = "add" => f = add_signed_magnitudes(k, m, j, n)
      /\ op = "sub" => f = add_signed_magnitudes(k, m, ~j, n)
      /\ op = "mul" => f = make_result(k # j, m * n)
      /\ op = "div" => f = IF n = 0 THEN Unknown ELSE make_result(k # j, m \div n)
      /\ op = "mod" => f = IF n = 0 THEN Unknown ELSE make_result(k, m % n)
  BY <1>3, <1>4, <1>7, <1>8 DEF eval_const_int_expr
<1>. HIDE DEF k, j
<1>10. CASE op = "add"
  <2>1. f.value = a + b
    BY <1>5, <1>6, <1>9, <1>10, SummedParts
  <2>2. Meaning(op, a, b) = a + b
    <3>1. op \in Arithmetic
      BY <1>10 DEF Arithmetic
    <3>2. Meaning(op, a, b) = Exact(op, a, b)
      BY <3>1, OperationKinds
    <3>. QED BY <1>10, <3>1, <3>2, ExactIsInt
  <2>. QED BY <1>1, <1>2, <1>10, <2>1, <2>2 DEF Division
<1>11. CASE op = "sub"
  <2>1. f = add_signed_magnitudes(k, m, ~j, n)
    BY <1>9, <1>11
  <2>2. f.value = a - b
    BY <1>5, <1>6, <2>1, SubtractedParts
  <2>4. Meaning(op, a, b) = a - b
    <3>1. op \in Arithmetic
      BY <1>11 DEF Arithmetic
    <3>2. Meaning(op, a, b) = Exact(op, a, b)
      BY <3>1, OperationKinds
    <3>. QED BY <1>11, <3>1, <3>2, ExactIsInt
  <2>. QED BY <1>1, <1>2, <1>11, <2>2, <2>4 DEF Division
<1>12. CASE op = "mul"
  <2>1. PICK c \in Nat : c = m * n /\ a * b = IF k # j THEN -c ELSE c
    <3>1. m * n \in Nat /\ a * b = IF (a < 0) # (b < 0) THEN -(m * n) ELSE m * n
      BY <1>3, <1>4, SignedProduct
    <3>2. (k # j) <=> ((a < 0) # (b < 0))
      BY <1>5
    <3>. QED BY <3>1, <3>2
  <2>2. f = make_result(k # j, c) /\ (k # j) \in BOOLEAN
    BY <1>5, <1>9, <1>12, <2>1
  <2>3. f.value = a * b
    BY <2>1, <2>2, MadeNumber
  <2>4. Meaning(op, a, b) = a * b
    <3>1. op \in Arithmetic
      BY <1>12 DEF Arithmetic
    <3>2. Meaning(op, a, b) = Exact(op, a, b)
      BY <3>1, OperationKinds
    <3>. QED BY <1>12, <3>1, <3>2, ExactIsInt
  <2>. QED BY <1>1, <1>2, <1>12, <2>3, <2>4 DEF Division
<1>13. ASSUME op \in Division
       PROVE  /\ b # 0 /\ n # 0 /\ m \div n \in Nat /\ m % n \in Nat
              /\ Meaning(op, a, b) = IF op = "div" THEN Quotient(a, b) ELSE a - b * Quotient(a, b)
              /\ Quotient(a, b) = IF (a < 0) = (b < 0) THEN m \div n ELSE -(m \div n)
              /\ a - b * Quotient(a, b) = IF a < 0 THEN -(m % n) ELSE m % n
  <2>1. op \in {"div", "mod"}
    BY <1>13 DEF Division
  <2>2. n # 0
    BY <1>8, <1>9, <2>1
  <2>3. b # 0
    BY <1>4, <2>2 DEF Abs
  <2>4. m \div n \in Nat /\ m % n \in Nat
    BY <2>2
  <2>5. Meaning(op, a, b) = IF op = "div" THEN Quotient(a, b) ELSE a - b * Quotient(a, b)
    BY <1>13, OperationKinds
  <2>6. Quotient(a, b) = Truncated(a, b)
    BY <2>3, QuotientIs
  <2>7. Truncated(a, b) = IF (a < 0) = (b < 0) THEN m \div n ELSE -(m \div n)
    BY <1>3, <1>4 DEF Truncated
  <2>8. a - Truncated(a, b) * b = IF a < 0 THEN -(m % n) ELSE m % n
    BY <1>3, <1>4, <2>3, TruncatedIs
  <2>9. PICK t \in Int : t = Truncated(a, b)
    BY <2>4, <2>7
  <2>10. b * t = t * b
    OBVIOUS
  <2>. QED BY <2>2, <2>3, <2>4, <2>5, <2>6, <2>7, <2>8, <2>9, <2>10
<1>14. CASE op = "div"
  <2>1. op \in Division
    BY <1>14 DEF Division
  <2>2. f = make_result(k # j, m \div n) /\ (k # j) \in BOOLEAN /\ m \div n \in Nat
    BY <1>5, <1>9, <1>13, <1>14, <2>1
  <2>3. f.value = IF k # j THEN -(m \div n) ELSE m \div n
    BY <2>2, MadeNumber
  <2>4. (k # j) <=> ~((a < 0) = (b < 0))
    BY <1>5
  <2>. QED BY <1>1, <1>2, <1>13, <1>14, <2>1, <2>3, <2>4
<1>15. CASE op = "mod"
  <2>1. op \in Division
    BY <1>15 DEF Division
  <2>2. f = make_result(k, m % n) /\ m % n \in Nat
    BY <1>5, <1>9, <1>13, <1>15, <2>1
  <2>3. f.value = IF k THEN -(m % n) ELSE m % n
    BY <1>5, <2>2, MadeNumber
  <2>. QED BY <1>1, <1>2, <1>5, <1>13, <1>15, <2>1, <2>3
<1>. QED BY <1>7, <1>10, <1>11, <1>12, <1>14, <1>15

-----------------------------------------------------------------------------
(* What a constant expression puts into a variable.                        *)

\* Numbers that a carrier cannot tell apart are the same in a narrower type.
LEMMA SameStored ==
  ASSUME NEW R \in Types, NEW t \in Types, NEW z \in Int, NEW n \in Int, (z - n) % Size(R) = 0, Fits(z, R),
         Bits(t) <= Bits(R) \/ Fits(n, R)
  PROVE  As(t, z) = As(t, n)
<1>1. PICK m \in Nat \ {0} : m = Size(R)
  BY TypeBounds
<1>2. PICK k \in Int : z - n = k * m
  <2>1. PICK d \in Int : d = z - n
    OBVIOUS
  <2>2. d \div m \in Int /\ d = (d \div m) * m + (d % m)
    BY Quotients
  <2>3. d % m = 0 /\ (d \div m) * m \in Int
    BY <1>1, <2>1, <2>2
  <2>. QED BY <2>1, <2>2, <2>3
<1>3. Congruent(R, z, n)
  <2>1. k * m \in Int
    OBVIOUS
  <2>2. z = n + k * m
    BY <1>2, <2>1
  <2>. QED BY <1>1, <2>2 DEF Congruent
<1>4. CASE Fits(n, R)
  BY <1>3, <1>4, OneRepresentative
<1>5. CASE Bits(t) <= Bits(R)
  <2>1. Congruent(t, z, n)
    BY <1>3, <1>5, CongruentNarrower
  <2>2. /\ As(t, z) \in Int /\ Fits(As(t, z), t) /\ Congruent(t, As(t, z), z)
        /\ As(t, n) \in Int /\ Fits(As(t, n), t) /\ Congruent(t, As(t, n), n)
    BY Conversion
  <2>3. Congruent(t, As(t, z), n) /\ Congruent(t, n, As(t, n))
    BY <2>1, <2>2, CongruentSteps
  <2>4. Congruent(t, As(t, z), As(t, n))
    BY <2>2, <2>3, CongruentSteps
  <2>. QED BY <2>2, <2>4, OneRepresentative
<1>. QED BY <1>4, <1>5

\* The number that the program computes, with the checks off.
LEMMA UncheckedArithmetic ==
  ASSUME NEW op \in Arithmetic, NEW R \in Types, NEW a \in Int, NEW b \in Int, NEW run, run = wrap_op(op, R, a, b)
  PROVE  run.value \in Int /\ Fits(run.value, R) /\ (run.value - Exact(op, a, b)) % Size(R) = 0
<1>1. /\ As(R, a) \in Int /\ As(R, b) \in Int
  BY Conversion
<1>2. Exact(op, As(R, a), As(R, b)) \in Int
  BY <1>1, ExactIsInt
<1>3. PICK r \in Int : r = Exact(op, As(R, a), As(R, b))
  BY <1>2
<1>4. run = Returns(As(R, r))
  BY <1>3 DEF wrap_op
<1>5. As(R, r) \in Int /\ Fits(As(R, r), R)
  BY Conversion
<1>6. Fine(run) /\ run.value = As(R, r)
  BY <1>4, Outcomes
<1>7. PICK q \in BOOLEAN : ~q
  OBVIOUS
<1>8. run = IF q THEN op_checked(op, R, a, b) ELSE wrap_op(op, R, a, b)
  BY <1>7
<1>9. (run.value - Exact(op, a, b)) % Size(R) = 0
  BY <1>6, <1>8, ArithmeticRun
<1>. QED BY <1>5, <1>6, <1>9

LEMMA UncheckedDivision ==
  ASSUME NEW op \in Division, NEW R \in Types, NEW a \in Int, NEW b \in Int, b # 0, Fits(a, R), Fits(b, R),
         NEW n, n = (IF op = "div" THEN Quotient(a, b) ELSE a - b * Quotient(a, b)),
         NEW q \in BOOLEAN, ~q, NEW run, run = (IF op = "div" THEN int_div(R, q, a, b) ELSE int_mod(R, a, b))
  PROVE  n \in Int /\ run.value \in Int /\ Fits(run.value, R) /\ (run.value - n) % Size(R) = 0
<1>1. /\ Quotient(a, b) \in Int /\ a - b * Quotient(a, b) \in Int
      /\ IsExact(int_div(R, q, a, b), R, Quotient(a, b), q)
      /\ Fits(a - b * Quotient(a, b), R) /\ int_mod(R, a, b) = Returns(a - b * Quotient(a, b))
  BY DivisionRun
<1>2. PICK m \in Nat \ {0} : m = Size(R)
  BY TypeBounds
<1>3. 0 % m = 0
  BY SmallRemainders
<1>4. op \in {"div", "mod"}
  BY DEF Division
<1>5. CASE op = "mod"
  <2>1. n \in Int /\ Fits(n, R) /\ run = Returns(n)
    BY <1>1, <1>5
  <2>2. run.value = n
    BY <2>1, Outcomes
  <2>3. n - n = 0
    BY <2>1
  <2>. QED BY <1>2, <1>3, <2>1, <2>2, <2>3
<1>6. CASE op = "div"
  <2>1. n \in Int /\ IsExact(run, R, n, q)
    BY <1>1, <1>6
  <2>2. run.value \in Int
    <3>1. As(R, a) = a /\ As(R, b) = b
      BY Conversion
    <3>2. run = Returns(a) \/ run = Returns(As(R, Truncated(a, b)))
      BY <1>6, <3>1 DEF int_div
    <3>3. Truncated(a, b) \in Int
      <4>1. Truncated(a, b) \in -Abs(a) .. Abs(a)
        BY TruncatedIs
      <4>. QED BY <4>1
    <3>4. As(R, Truncated(a, b)) \in Int
      BY <3>3, Conversion
    <3>. QED BY <3>2, <3>4, Outcomes
  <2>3. CASE Fits(n, R)
    <3>1. run = Returns(n)
      BY <2>1, <2>3 DEF IsExact
    <3>2. run.value = n
      BY <3>1, Outcomes
    <3>3. n - n = 0
      BY <2>1
    <3>. QED BY <1>2, <1>3, <2>1, <2>3, <3>2, <3>3
  <2>4. CASE ~Fits(n, R)
    BY <2>1, <2>2, <2>4 DEF IsExact
  <2>. QED BY <2>3, <2>4
<1>. QED BY <1>4, <1>5, <1>6

\* A constant expression is worth the same to the compiler and to the program.
LEMMA ConstantAgrees ==
  ASSUME NEW op \in BinOps \ Comparisons, NEW x \in Operands, NEW y \in Operands, x.const, y.const,
         NEW p \in {32, 64}, NEW q \in BOOLEAN, ~q, NEW f, f = eval_const_int_expr(op, x, y), f.known,
         NEW n, n = Meaning(op, x.value, y.value), NEW R, R = bind_binary_operation(op, x, y, p),
         NEW run, run = Run(op, x, y, q, p)
  PROVE  /\ op \in Arithmetic \cup Division => f.value = n
         /\ \/ op \in Bitwise /\ HighWord(x, y)
            \/ op \in Division /\ Clash(x, y)
            \/ \A t \in Types : Bits(t) <= Bits(R) \/ op \in Shifts \/ Fits(n, R) =>
                 As(t, run.value) = convert_const_int_value(f, t)
<1>1. /\ x.type \in Types /\ x.value \in Int /\ Fits(x.value, x.type)
      /\ y.type \in Types /\ y.value \in Int /\ Fits(y.value, y.type)
  BY OperandsFit
<1>2. \A t : convert_const_int_value(f, t) = As(t, f.value)
  BY DEF convert_const_int_value
<1>3. ASSUME op \in Arithmetic
      PROVE  f.value = n /\ \A t \in Types : Bits(t) <= Bits(R) \/ Fits(n, R) => As(t, run.value) = As(t, f.value)
  <2>1. f.value = n
    BY <1>3, FoldedNumber
  <2>2. /\ R = integer_arithmetic_primitive(op, x.type, y.type, p)
        /\ n = Exact(op, x.value, y.value)
        /\ run = wrap_op(op, R, x.value, y.value)
    <3>1. R = integer_arithmetic_primitive(op, x.type, y.type, p)
      BY <1>3, OperationKinds
    <3>2. n = Exact(op, x.value, y.value)
      BY <1>3, OperationKinds
    <3>3. run = IF q THEN op_checked(op, R, x.value, y.value) ELSE wrap_op(op, R, x.value, y.value)
      BY <1>3, OperationKinds
    <3>. QED BY <3>1, <3>2, <3>3
  <2>3. R \in Types
    BY <1>1, <2>2, ArithmeticCarrier
  <2>4. n \in Int /\ run.value \in Int /\ Fits(run.value, R) /\ (run.value - n) % Size(R) = 0
    <3>1. n \in Int
      BY <1>1, <1>3, <2>2, ExactIsInt
    <3>2. run.value \in Int /\ Fits(run.value, R) /\ (run.value - n) % Size(R) = 0
      BY <1>1, <1>3, <2>2, <2>3, UncheckedArithmetic
    <3>. QED BY <3>1, <3>2
  <2>. QED BY <2>1, <2>3, <2>4, SameStored
<1>4. ASSUME op \in Division PROVE f.value = n /\ y.value # 0
  BY <1>4, FoldedNumber
<1>5. ASSUME op \in Division, ~Clash(x, y)
      PROVE  \A t \in Types : Bits(t) <= Bits(R) \/ Fits(n, R) => As(t, run.value) = As(t, f.value)
  <2>1. /\ R = integer_division_primitive(x, y, p)
        /\ n = IF op = "div" THEN Quotient(x.value, y.value) ELSE x.value - y.value * Quotient(x.value, y.value)
        /\ run = IF op = "div" THEN int_div(R, q, x.value, y.value) ELSE int_mod(R, x.value, y.value)
    <3>1. R = integer_division_primitive(x, y, p)
      BY <1>5, OperationKinds
    <3>2. n = IF op = "div" THEN Quotient(x.value, y.value) ELSE x.value - y.value * Quotient(x.value, y.value)
      BY <1>5, OperationKinds
    <3>3. run = IF op = "div" THEN int_div(R, q, x.value, y.value) ELSE int_mod(R, x.value, y.value)
      BY <1>5, OperationKinds
    <3>. QED BY <3>1, <3>2, <3>3
  <2>2. R \in Types /\ Fits(x.value, R) /\ Fits(y.value, R)
    <3>1. ~Mismatch(x.type, y.type)
      BY <1>5 DEF Clash, Mismatch
    <3>. QED BY <1>1, <2>1, <3>1, DivisionCarrier
  <2>3. n \in Int /\ run.value \in Int /\ Fits(run.value, R) /\ (run.value - n) % Size(R) = 0
    BY <1>1, <1>4, <1>5, <2>1, <2>2, UncheckedDivision
  <2>. QED BY <1>4, <1>5, <2>2, <2>3, SameStored
<1>6. ASSUME op \in Bitwise, ~HighWord(x, y) PROVE run.value = f.value
  <2>1. op \notin Arithmetic /\ op \notin Division /\ op \notin Shifts /\ op \notin Comparisons
        /\ op \notin {"add", "sub", "mul", "div", "mod"}
    BY <1>6 DEF Arithmetic, Division, Bitwise, Shifts, Comparisons
  <2>2. Signed(64) \in Types /\ Signed(64).kind = "signed" /\ Signed(64).size = 64
    BY TypeNames DEF Sizes
  <2>3. \A t \in Types : t # Unsigned(64) => IsWithin(t, Signed(64))
    <3>1. ASSUME NEW t \in Types, t # Unsigned(64) PROVE IsWithin(t, Signed(64))
      <4>1. t.kind = "signed" \/ (t.kind = "unsigned" /\ t.size # 64)
        BY <3>1, TypeNames
      <4>2. t.size \in {8, 16, 32, 64}
        BY TypeNames DEF Sizes
      <4>. QED BY <2>2, <4>1, <4>2, Inclusion
    <3>. QED BY <3>1
  <2>4. x.type # Unsigned(64) /\ y.type # Unsigned(64)
    BY <1>6 DEF HighWord
  <2>5. Fits(x.value, Signed(64)) /\ Fits(y.value, Signed(64))
    BY <1>1, <2>2, <2>3, <2>4, Inclusion
  <2>6. f.value = n
    <3>1. AsInt64(x.value) = x.value /\ AsInt64(y.value) = y.value
      BY <1>1, <2>2, <2>5, Conversion DEF AsInt64
    <3>2. f = FoldBitwise(op, x, y)
      BY <1>6, <2>1 DEF eval_const_int_expr
    <3>3. f.value = bitwise(op, Signed(64), x.value, y.value)
      BY <3>1, <3>2 DEF FoldBitwise, Known
    <3>. QED BY <1>1, <1>6, <2>2, <2>5, <3>3, BitwiseRun
  <2>7. run = Returns(bitwise(op, R, x.value, y.value)) /\ R = integer_bitwise_primitive(op, x.type, y.type, p)
    <3>1. R = integer_bitwise_primitive(op, x.type, y.type, p)
      BY <1>6, OperationKinds
    <3>2. run = Returns(bitwise(op, R, x.value, y.value))
      BY <1>6, OperationKinds
    <3>. QED BY <3>1, <3>2
  <2>8. /\ R \in Types
        /\ \/ Fits(x.value, R) /\ Fits(y.value, R)
           \/ op = "and" /\ R.kind = "unsigned" /\ (Fits(x.value, R) \/ Fits(y.value, R))
    <3>1. ~Mismatch(x.type, y.type)
      BY <2>4 DEF Mismatch
    <3>2. /\ R \in Types
          /\ \/ IsWithin(x.type, R) /\ IsWithin(y.type, R)
             \/ op = "and" /\ R.kind = "unsigned" /\ (IsWithin(x.type, R) \/ IsWithin(y.type, R))
      BY <1>1, <1>6, <2>7, <3>1, BitwiseCarrier
    <3>. QED BY <1>1, <3>2, Inclusion
  <2>9. bitwise(op, R, x.value, y.value) = n
    BY <1>1, <1>6, <2>8, BitwiseRun
  <2>10. run = Returns(n)
    BY <2>7, <2>9
  <2>11. run.value = n
    BY <2>10, Outcomes
  <2>. QED BY <2>6, <2>11
<1>7. ASSUME op \in Shifts PROVE run.value = f.value
  <2>1. op \in {"shl", "shr"}
    BY <1>7 DEF Shifts
  <2>2. op \notin Arithmetic /\ op \notin Division /\ op \notin Bitwise /\ op \notin Comparisons
        /\ op \notin {"add", "sub", "mul", "div", "mod"}
    BY <2>1 DEF Arithmetic, Division, Bitwise, Comparisons
  <2>3. R = shift_carrier_primitive(x.type)
    BY <1>7, <2>2 DEF bind_binary_operation
  <2>4. run = Returns(IF op = "shl" THEN p_shl(R, x.value, y.value) ELSE p_shr(R, x.value, y.value))
    BY <2>1, <2>2 DEF Run
  <2>5. f = FoldShift(op, x, y)
    BY <1>7, <2>2 DEF eval_const_int_expr
  <2>6. f.value = IF op = "shl" THEN p_shl(R, x.value, y.value) ELSE p_shr(R, x.value, y.value)
    BY <2>3, <2>5 DEF FoldShift, Known
  <2>. QED BY <2>4, <2>6, Outcomes
<1>8. op \in Arithmetic \/ op \in Division \/ op \in Bitwise \/ op \in Shifts
  BY DEF BinOps
<1>9. /\ op \in Arithmetic => op \notin Shifts
      /\ op \in Division => op \notin Shifts /\ op \notin Arithmetic
      /\ op \in Bitwise \cup Shifts => op \notin Arithmetic /\ op \notin Division
  BY DEF Arithmetic, Division, Bitwise, Shifts
<1>. QED BY <1>2, <1>3, <1>4, <1>5, <1>6, <1>7, <1>8, <1>9

-----------------------------------------------------------------------------
(* The steps of a constant.                                                *)

\* Only a whole type has a cell of 64 unsigned bits: no such variable is
\* negative, and each starts at zero.
LEMMA WordsStartAtZero ==
  ASSUME NEW d \in Domains, d.storage = Unsigned(64)
  PROVE  d.low = 0
<1>1. CASE \E t \in Types : d = [storage |-> t, low |-> Low(t), high |-> High(t)]
  BY <1>1 DEF Low, Unsigned
<1>2. CASE \E l \in {-1, 0, 1}, h \in {1, High(Signed(16)), High(Unsigned(16)) - 1} :
             d = [storage |-> ordinal_integer_primitive_for_domain(l, h), low |-> l, high |-> h]
  <2>1. PICK l \in {-1, 0, 1}, h \in {1, High(Signed(16)), High(Unsigned(16)) - 1} :
             d = [storage |-> ordinal_integer_primitive_for_domain(l, h), low |-> l, high |-> h]
    BY <1>2
  <2>. DEFINE kind == IF l < 0 THEN "signed" ELSE "unsigned"
              cell(s) == [kind |-> kind, size |-> s]
              holding == {s \in {8, 16, 32} : \A v \in {l, h} : Fits(v, cell(s))}
  <2>2. ordinal_integer_primitive_for_domain(l, h) = cell(IF holding = {} THEN 64 ELSE Min(holding))
    BY DEF ordinal_integer_primitive_for_domain, Narrowest
  <2>3. ~(l < 0)
    BY <2>1, <2>2 DEF Unsigned
  <2>4. 16 \in holding
    <3>1. /\ Signed(16) \in Types /\ Signed(16).kind = "signed" /\ Signed(16).size = 16
          /\ Unsigned(16) \in Types /\ Unsigned(16).kind = "unsigned" /\ Unsigned(16).size = 16
          /\ Signed(8) \in Types /\ Signed(8).kind = "signed" /\ Signed(8).size = 8
      BY TypeNames DEF Sizes
    <3>2. Bits(Unsigned(16)) = Bits(Signed(16)) /\ Bits(Signed(8)) < Bits(Unsigned(16))
      BY <3>1, WidthAssumption DEF Bits
    <3>3. Size(Signed(16)) = Size(Unsigned(16)) /\ 2 * Size(Signed(8)) <= Size(Unsigned(16))
      BY <3>1, <3>2, Narrower DEF Size
    <3>4. /\ High(Signed(16)) \in Nat /\ Size(Signed(16)) = 2 * (High(Signed(16)) + 1)
          /\ High(Unsigned(16)) \in Nat /\ High(Unsigned(16)) + 1 = Size(Unsigned(16)) /\ Low(Unsigned(16)) = 0
          /\ High(Signed(8)) \in Nat /\ Size(Signed(8)) = 2 * (High(Signed(8)) + 1)
      BY <3>1, TypeBounds
    <3>5. \A v \in {l, h} : v \in Int /\ 0 <= v /\ v <= High(Unsigned(16))
      BY <2>3, <3>3, <3>4
    <3>6. cell(16) = Unsigned(16)
      BY <2>3 DEF Unsigned
    <3>7. \A v \in {l, h} : Fits(v, cell(16))
      BY <3>4, <3>5, <3>6 DEF Fits
    <3>. QED BY <3>7
  <2>5. Min(holding) \in holding
    <3>1. holding \in SUBSET Nat /\ holding # {}
      BY <2>4
    <3>. HIDE DEF holding
    <3>2. \E k \in holding : \A j \in holding : k <= j
      BY <3>1, Smallest
    <3>. QED BY <3>2 DEF Min
  <2>6. d.storage.size \in {8, 16, 32}
    <3>1. d.storage = cell(Min(holding))
      BY <2>1, <2>2, <2>4
    <3>2. Min(holding) \in {8, 16, 32}
      BY <2>5
    <3>. HIDE DEF holding
    <3>. QED BY <3>1, <3>2
  <2>. QED BY <2>6 DEF Unsigned
<1>. QED BY <1>1, <1>2 DEF Domains

\* What the step of a variable by one stores, when it is not refused.
LEMMA StepByOne ==
  ASSUME NEW op \in {"add", "sub"}, NEW T \in Types, NEW R \in Types, NEW q \in BOOLEAN, NEW c \in BOOLEAN,
         NEW v \in Int, NEW low \in Int, NEW high \in Int,
         NEW exact, exact = (IF op = "add" THEN As(R, v) + 1 ELSE As(R, v) - 1),
         q => (1 <= High(R) /\ (R.kind = "signed" => Fits(exact, R))),
         c => As(R, low) <= As(R, exact) /\ As(R, exact) <= As(R, high)
  PROVE  ordinal_step(op, T, R, q, c, v, As(R, 1), low, high) = Returns(As(T, As(R, exact)))
<1>1. /\ As(R, v) \in Int /\ As(R, 1) \in Int /\ Congruent(R, As(R, 1), 1) /\ (Fits(1, R) => As(R, 1) = 1)
      /\ As(R, low) \in Int /\ As(R, high) \in Int
  BY Conversion
<1>2. PICK a \in Int : a = As(R, v)
  BY <1>1
<1>3. PICK b \in Int : b = As(R, 1) /\ As(R, b) \in Int /\ Congruent(R, b, 1) /\ (Fits(1, R) => b = 1)
  BY <1>1, Conversion
<1>4. As(R, b) = b
  BY <1>1, <1>3, Conversion
<1>5. PICK e \in Int : e = (IF op = "add" THEN a + b ELSE a - b) /\ e = Exact(op, a, b)
  <2>1. op \in Arithmetic
    BY DEF Arithmetic
  <2>2. Exact(op, a, b) \in Int /\ Exact(op, a, b) = IF op = "add" THEN a + b ELSE a - b
    BY <2>1, ExactIsInt
  <2>. QED BY <2>2
<1>6. exact = (IF op = "add" THEN a + 1 ELSE a - 1) /\ exact \in Int
  BY <1>2
<1>7. Congruent(R, a, a)
  BY CongruentSteps
<1>8. Congruent(R, a + b, a + 1) /\ Congruent(R, a - b, a - 1)
  <2>1. PICK u \in Int : u = 1
    OBVIOUS
  <2>2. Congruent(R, b, u)
    BY <1>3, <2>1
  <2>3. Congruent(R, a + b, a + u) /\ Congruent(R, a - b, a - u)
    BY <1>7, <2>2, CongruentSums
  <2>. QED BY <2>1, <2>3
<1>9. Congruent(R, e, exact)
  BY <1>5, <1>6, <1>8
<1>10. PICK y \in Int : y = As(R, exact) /\ Fits(y, R) /\ Congruent(R, y, exact)
  BY <1>6, Conversion
<1>11. As(R, e) = y
  <2>1. As(R, e) \in Int /\ Fits(As(R, e), R) /\ Congruent(R, As(R, e), e)
    BY Conversion
  <2>2. Congruent(R, As(R, e), exact) /\ Congruent(R, exact, y)
    BY <1>6, <1>9, <1>10, <2>1, CongruentSteps
  <2>3. Congruent(R, As(R, e), y)
    BY <1>6, <1>10, <2>1, <2>2, CongruentSteps
  <2>. QED BY <1>10, <2>1, <2>3, OneRepresentative
<1>12. ASSUME q, R.kind = "signed" PROVE Fits(e, R)
  <2>1. Low(R) <= 0 /\ Low(R) \in Int /\ High(R) \in Nat
    BY TypeBounds, LargestTypes
  <2>2. Fits(1, R)
    BY <1>12, <2>1 DEF Fits
  <2>3. e = exact
    BY <1>3, <1>5, <1>6, <2>2
  <2>. QED BY <1>12, <2>3
<1>13. PICK r : r = IF q THEN op_checked(op, R, v, b) ELSE wrap_op(op, R, v, b)
  OBVIOUS
<1>14. r = Returns(y)
  BY <1>2, <1>4, <1>5, <1>11, <1>12, <1>13 DEF op_checked, wrap_op
<1>15. Fine(r) /\ r.value = y
  BY <1>14, Outcomes
<1>16. c => ~(y < As(R, low) \/ y > As(R, high))
  BY <1>1, <1>10
<1>17. ordinal_step(op, T, R, q, c, v, b, low, high) = Returns(As(T, y))
  BY <1>13, <1>15, <1>16 DEF ordinal_step, ordinal_from_carrier
<1>. QED BY <1>3, <1>10, <1>17

\* A step of a constant that the compiler evaluates is the step that the
\* program would have made.
LEMMA FoldedStepAgrees ==
  ASSUME NEW d \in Domains, NEW add \in BOOLEAN, NEW q \in BOOLEAN, NEW c \in BOOLEAN, NEW p \in Targets,
         NEW v \in Samples(d.storage),
         NEW f, f = eval_bound_ordinal_step(add, d.storage, d.low, FoldedHigh(d), v, q, c, p), f.known
  PROVE  Step(add, d.storage, d.low, d.high, v, Signed(8), 1, q, c, p) = Returns(f.value)
<1>. DEFINE T == d.storage
            low == d.low
            high == d.high
            top == FoldedHigh(d)
            op == IF add THEN "add" ELSE "sub"
            R == bind_intrinsic_operation(add, T, Signed(8), q, c, p)
            exact == As(R, v) + (IF add THEN 1 ELSE -1)
            y == As(R, exact)
<1>1. /\ T \in Types /\ low \in Int /\ high \in Int /\ Fits(low, T) /\ Fits(high, T)
  BY DomainBounds
<1>2. v \in Int
  BY <1>1, SamplesAssumption
<1>3. Signed(8) \in Types /\ Signed(8).kind = "signed" /\ Unsigned(64) \in Types /\ Unsigned(64).kind = "unsigned"
      /\ Signed(8) # Unsigned(64) /\ Signed(8) # Signed(64) /\ Signed(64) # Unsigned(64)
  BY TypeNames DEF Sizes, Signed, Unsigned
<1>4. /\ R \in Types
      /\ q \/ c => 1 <= High(R) /\ (~Mismatch(T, Signed(8)) => IsWithin(T, R))
  BY <1>1, <1>3, StepCarrier
<1>5. q \/ c => R = integer_arithmetic_primitive(op, T, Signed(8), p)
  BY DEF bind_intrinsic_operation
<1>6. Mismatch(T, Signed(8)) <=> T = Unsigned(64)
  BY <1>3 DEF Mismatch
<1>7. (q \/ c) /\ T = Unsigned(64) => R = Unsigned(64)
  BY <1>3, <1>5 DEF integer_arithmetic_primitive
<1>8. (q \/ c) /\ R.kind = "unsigned" => T = Unsigned(64)
  <2>1. p \in {32, 64}
    BY DEF Targets
  <2>2. ASSUME q \/ c, R.kind = "unsigned" PROVE Unsigned(64) \in {T, Signed(8)}
    <3>1. PICK A : A = integer_arithmetic_primitive(op, T, Signed(8), p)
      OBVIOUS
    <3>2. A.kind = "unsigned" /\ "signed" \in {T.kind, Signed(8).kind} => A = Unsigned(64) /\ Unsigned(64) \in {T, Signed(8)}
      BY <1>1, <1>3, <2>1, <3>1, ArithmeticCarrier
    <3>. QED BY <1>3, <1>5, <2>2, <3>1, <3>2
  <2>. QED BY <1>3, <2>2
<1>9. /\ exact \in Int /\ exact = (IF op = "add" THEN As(R, v) + 1 ELSE As(R, v) - 1)
      /\ y \in Int /\ Fits(y, R)
  <2>1. As(R, v) \in Int
    BY <1>2, <1>4, Conversion
  <2>2. exact \in Int /\ exact = (IF op = "add" THEN As(R, v) + 1 ELSE As(R, v) - 1)
    BY <2>1
  <2>. HIDE DEF exact
  <2>. QED BY <1>4, <2>2, Conversion
<1>10. /\ ~(q /\ R.kind = "signed" /\ ~Fits(exact, R))
       /\ ~(c /\ (IF R.kind = "signed" THEN y < low \/ y > top ELSE low < 0 \/ y > top))
       /\ f.value = As(T, y)
  BY DEF eval_bound_ordinal_step, Known, Unknown
<1>11. top <= high
  BY <1>1, TypeBounds, TypeNames DEF FoldedHigh, Sizes
<1>12. top \in Int
  BY <1>1, TypeBounds, TypeNames DEF FoldedHigh, Sizes
<1>. HIDE DEF exact, R
<1>13. ASSUME c PROVE Fits(low, R) /\ Fits(high, R) /\ low <= y /\ y <= high
  <2>1. T = Unsigned(64) \/ IsWithin(T, R)
    BY <1>4, <1>6, <1>13
  <2>2. Fits(low, R) /\ Fits(high, R)
    <3>1. CASE T = Unsigned(64)
      BY <1>1, <1>7, <1>13, <3>1
    <3>2. CASE IsWithin(T, R)
      BY <1>1, <1>4, <3>2, Inclusion
    <3>. QED BY <2>1, <3>1, <3>2
  <2>3. y <= top
    BY <1>9, <1>10, <1>12, <1>13
  <2>4. CASE R.kind = "signed"
    BY <1>1, <1>9, <1>10, <1>11, <1>12, <1>13, <2>2, <2>3, <2>4
  <2>5. CASE R.kind # "signed"
    <3>1. R.kind = "unsigned"
      BY <1>4, <2>5, TypeNames
    <3>2. low = 0
      BY <1>8, <1>13, <3>1, WordsStartAtZero
    <3>3. Low(R) = 0
      BY <1>4, <3>1, TypeBounds
    <3>4. 0 <= y
      BY <1>9, <3>3 DEF Fits
    <3>. QED BY <1>1, <1>9, <1>11, <1>12, <2>2, <2>3, <3>2, <3>4
  <2>. QED BY <2>4, <2>5
<1>14. c => As(R, low) <= y /\ y <= As(R, high)
  <2>1. ASSUME c PROVE As(R, low) = low /\ As(R, high) = high
    BY <1>1, <1>4, <1>13, <2>1, Conversion
  <2>. QED BY <1>13, <2>1
<1>15. q => (1 <= High(R) /\ (R.kind = "signed" => Fits(exact, R)))
  BY <1>4, <1>10
<1>16. op \in {"add", "sub"}
  OBVIOUS
<1>17. Step(add, T, low, high, v, Signed(8), 1, q, c, p) = ordinal_step(op, T, R, q, c, v, As(R, 1), low, high)
  BY DEF Step, R
<1>. HIDE DEF op
<1>18. ordinal_step(op, T, R, q, c, v, As(R, 1), low, high) = Returns(As(T, y))
  BY <1>1, <1>2, <1>4, <1>9, <1>14, <1>15, <1>16, StepByOne
<1>. QED BY <1>10, <1>17, <1>18

\* A constant expression is worth the same whether the compiler evaluates it or
\* the program does, for every width, every two constants, every subrange and
\* both targets. (eval_const_int_expr_impl, eval_bound_ordinal_step,
\* convert_const_int_value.)
THEOREM FoldingCorrect == Spec => []FoldingAgreesWithRunning
<1>1. Init => FoldingAgreesWithRunning
  BY DEF Init, Idle, FoldingAgreesWithRunning
<1>2. FoldingAgreesWithRunning /\ [Next]_vars => FoldingAgreesWithRunning'
  <2>. SUFFICES ASSUME FoldingAgreesWithRunning, [Next]_vars PROVE FoldingAgreesWithRunning'
    OBVIOUS
  <2>1. expr'.kind \notin {"constant", "folded_step"} => FoldingAgreesWithRunning'
    BY DEF FoldingAgreesWithRunning
  <2>2. CASE ConstantExpression
    <3>1. PICK op \in BinOps \ Comparisons, x \in Literals, y \in Literals, p \in Targets :
            /\ eval_const_int_expr(op, x, y).known
            /\ expr' = [kind |-> "constant", op |-> op, x |-> x, y |-> y, target |-> p,
                        folded |-> eval_const_int_expr(op, x, y), run |-> Run(op, x, y, FALSE, p)]
      BY <2>2 DEF ConstantExpression
    <3>2. x \in Operands /\ x.const /\ y \in Operands /\ y.const /\ p \in {32, 64}
      BY DEF Operands, Literals, Targets
    <3>3. PICK f : f = eval_const_int_expr(op, x, y) /\ f.known
      BY <3>1
    <3>4. PICK q \in BOOLEAN : ~q
      OBVIOUS
    <3>5. PICK run : run = Run(op, x, y, q, p)
      OBVIOUS
    <3>6. q = FALSE
      BY <3>4
    <3>7. /\ expr'.kind = "constant" /\ expr'.op = op /\ expr'.x = x /\ expr'.y = y /\ expr'.target = p
          /\ expr'.folded = f /\ expr'.run = run
      BY <3>1, <3>3, <3>5, <3>6
    <3>8. PICK n : n = Meaning(op, x.value, y.value)
      OBVIOUS
    <3>9. PICK R : R = bind_binary_operation(op, x, y, p)
      OBVIOUS
    <3>10. /\ op \in Arithmetic \cup Division => f.value = n
           /\ \/ op \in Bitwise /\ HighWord(x, y)
              \/ op \in Division /\ Clash(x, y)
              \/ \A t \in Types : Bits(t) <= Bits(R) \/ op \in Shifts \/ Fits(n, R) =>
                   As(t, run.value) = convert_const_int_value(f, t)
      BY <3>2, <3>3, <3>4, <3>5, <3>8, <3>9, ConstantAgrees
    <3>. QED BY <3>7, <3>8, <3>9, <3>10 DEF FoldingAgreesWithRunning
  <2>3. CASE ConstantStep
    <3>1. PICK d \in Domains, add \in BOOLEAN, q \in BOOLEAN, c \in BOOLEAN, p \in Targets :
          \E v \in {v \in Samples(d.storage) : d.low <= v /\ v <= d.high} :
            expr' = [kind |-> "folded_step",
                     folded |-> eval_bound_ordinal_step(add, d.storage, d.low, FoldedHigh(d), v, q, c, p),
                     run |-> Step(add, d.storage, d.low, d.high, v, Signed(8), 1, q, c, p)]
      BY <2>3 DEF ConstantStep
    <3>2. PICK v \in Samples(d.storage) :
            expr' = [kind |-> "folded_step",
                     folded |-> eval_bound_ordinal_step(add, d.storage, d.low, FoldedHigh(d), v, q, c, p),
                     run |-> Step(add, d.storage, d.low, d.high, v, Signed(8), 1, q, c, p)]
      BY <3>1
    <3>3. PICK f : f = eval_bound_ordinal_step(add, d.storage, d.low, FoldedHigh(d), v, q, c, p)
      OBVIOUS
    <3>4. PICK run : run = Step(add, d.storage, d.low, d.high, v, Signed(8), 1, q, c, p)
      OBVIOUS
    <3>5. expr'.kind = "folded_step" /\ expr'.folded = f /\ expr'.run = run
      BY <3>2, <3>3, <3>4
    <3>6. f.known => run = Returns(f.value)
      BY <3>3, <3>4, FoldedStepAgrees
    <3>. QED BY <3>5, <3>6 DEF FoldingAgreesWithRunning
  <2>4. CASE UNCHANGED vars
    BY <2>4 DEF vars, FoldingAgreesWithRunning
  <2>5. CASE Finish
    BY <2>1, <2>5 DEF Finish, Idle
  <2>6. CASE BinaryExpression
    BY <2>1, <2>6 DEF BinaryExpression
  <2>7. CASE Negation
    BY <2>1, <2>7 DEF Negation
  <2>8. CASE Function
    BY <2>1, <2>8 DEF Function
  <2>9. CASE OrdinalStep
    BY <2>1, <2>9 DEF OrdinalStep
  <2>10. CASE Assignment
    BY <2>1, <2>10 DEF Assignment
  <2>11. CASE Helper
    BY <2>1, <2>11 DEF Helper
  <2>12. CASE Call
    BY <2>1, <2>12 DEF Call
  <2>13. CASE ProcValue
    BY <2>1, <2>13 DEF ProcValue
  <2>. QED BY <2>2, <2>3, <2>4, <2>5, <2>6, <2>7, <2>8, <2>9, <2>10, <2>11, <2>12, <2>13 DEF Next
<1>. QED BY <1>1, <1>2, PTL DEF Spec

=============================================================================

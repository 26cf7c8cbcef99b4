------------------------- MODULE ConversionsProofs -------------------------
(***************************************************************************)
(* The arithmetic of the conversions, for every odd prime, every radix it  *)
(* does not divide and every width of fixed point numbers: what each of    *)
(* them returns, and that the way out and the way back are inverse:        *)
(* Montgomery form (MontgomeryBack), masks (MaskedBack), shares of any     *)
(* number of proxies (SharesJoined), rounding to fixed point (Rounding,    *)
(* ShiftedBack), the checks of a list by its reduce (AllCompare,           *)
(* IntegersCompare), and the comparison of results (SameOutput).           *)
(***************************************************************************)
EXTENDS Conversions, FiniteSetTheorems, SequenceTheorems,
        WellFoundedInduction, TLAPS

-----------------------------------------------------------------------------
(* Naturals and division.                                                  *)

\* Induction over the naturals, as a fact about sets of them
LEMMA Least ==
  ASSUME NEW T \in SUBSET Nat, T # {}
  PROVE  \E x \in T : \A y \in T : x <= y
<1>1. IsWellFoundedOn(OpToRel(<, Nat), Nat)
  BY NatLessThanWellFounded
<1>2. \A x, y \in Nat : <<y, x>> \in OpToRel(<, Nat) <=> y < x
  BY DEF OpToRel
<1>3. \E x \in T : \A y \in T : ~(<<y, x>> \in OpToRel(<, Nat))
  BY <1>1, WFMin
<1>4. \E x \in T : \A y \in T : ~(y < x)
  BY <1>2, <1>3, Zenon
<1>5. PICK x \in T : \A y \in T : ~(y < x)
  BY <1>4
<1>6. \A y \in T : y \in Nat /\ x \in Nat
  OBVIOUS
<1>7. \A y \in T : x <= y
  BY <1>5, <1>6
<1> QED
  BY <1>7

LEMMA Induction ==
  ASSUME NEW S \in SUBSET Nat, 0 \in S, \A n \in Nat : n \in S => n + 1 \in S
  PROVE  S = Nat
<1> SUFFICES ASSUME Nat \ S # {} PROVE FALSE
  OBVIOUS
<1>1. PICK x \in Nat \ S : \A y \in Nat \ S : x <= y
  BY Least
<1>2. x # 0 /\ x - 1 \in Nat /\ x - 1 \in S
  BY <1>1
<1> QED
  BY <1>1, <1>2

\* A power of two is positive: it counts subsets
LEMMA PowerPositive == \A n \in Nat : 2 ^ n \in Nat \ {0}
<1> SUFFICES ASSUME NEW n \in Nat PROVE 2 ^ n \in Nat \ {0}
  OBVIOUS
<1>1. IsFiniteSet(1..n) /\ Cardinality(1..n) = n
  BY FS_Interval
<1>2. /\ IsFiniteSet(SUBSET (1..n))
      /\ Cardinality(SUBSET (1..n)) = 2 ^ n
  BY <1>1, FS_SUBSET
<1>3. Cardinality(SUBSET (1..n)) \in Nat
  BY <1>2, FS_CardinalityType
<1>4. SUBSET (1..n) # {}
  OBVIOUS
<1>5. Cardinality(SUBSET (1..n)) # 0
  BY <1>2, <1>4, FS_EmptySet
<1> QED
  BY <1>2, <1>3, <1>5

\* Quotient and remainder, and that no others will do
LEMMA Division ==
  ASSUME NEW a \in Int, NEW b \in Nat \ {0}
  PROVE  /\ a \div b \in Int /\ a % b \in 0..(b - 1)
         /\ a = (a \div b) * b + (a % b)
OBVIOUS

LEMMA DivisionPicks ==
  ASSUME NEW a \in Int, NEW b \in Nat \ {0}
  PROVE  \E q \in Int, m \in 0..(b - 1) :
           q = a \div b /\ m = a % b /\ a = q * b + m
BY Division

LEMMA SmallMultiple ==
  ASSUME NEW k \in Int, NEW b \in Nat \ {0}, -b < k * b, k * b < b
  PROVE  k = 0
<1>1. CASE k >= 1
  <2>1. k * b >= b
    BY <1>1
  <2> QED
    BY <2>1
<1>2. CASE k <= -1
  <2>1. k * b <= -b
    BY <1>2
  <2> QED
    BY <2>1
<1> QED
  BY <1>1, <1>2

LEMMA DivisionUnique ==
  ASSUME NEW a \in Int, NEW b \in Nat \ {0},
         NEW k \in Int, NEW r \in 0..(b - 1), a = k * b + r
  PROVE  a % b = r /\ a \div b = k
<1>1. PICK q \in Int, m \in 0..(b - 1) :
        q = a \div b /\ m = a % b /\ a = q * b + m
  BY DivisionPicks
<1>2. (q - k) * b = r - m
  BY <1>1
<1>3. q - k = 0
  BY <1>2, SmallMultiple
<1>4. q * b = k * b
  BY <1>3
<1> QED
  BY <1>1, <1>3, <1>4

-----------------------------------------------------------------------------
(* Montgomery form: the inverse of the radix.                               *)

\* The remainders that multiples of R leave
Left(n) == \E x, k \in Int : x * R = k * GFP_PRIME + n

\* Euclid: the remainder by a remainder is one
LEMMA LeftDivides ==
  ASSUME NEW d \in 1..(GFP_PRIME - 1), Left(d), d # 1
  PROVE  \E r \in 1..(d - 1) : Left(r)
<1>1. /\ GFP_PRIME \in Nat /\ GFP_PRIME \in Int /\ R \in Nat
      /\ d \in Nat \ {0} /\ GFP_PRIME % d # 0
  <2>1. d \in 2..(GFP_PRIME - 1)
    BY PrimeAssumption
  <2> QED
    BY <2>1, PrimeAssumption
<1>2. PICK x, k \in Int : x * R = k * GFP_PRIME + d
  BY DEF Left
<1>3. PICK q \in Int, r \in 0..(d - 1) :
        q = GFP_PRIME \div d /\ r = GFP_PRIME % d /\ GFP_PRIME = q * d + r
  BY <1>1, DivisionPicks, Zenon
<1>4. r \in 1..(d - 1)
  BY <1>1, <1>3
<1>5. (-(q * x)) * R = -(q * (x * R))
  BY <1>1
<1>6. q * (x * R) = (q * k) * GFP_PRIME + q * d
  BY <1>1, <1>2
<1>7. (-(q * x)) * R = -((q * k) * GFP_PRIME) - (GFP_PRIME - r)
  BY <1>1, <1>3, <1>5, <1>6
<1>8. (-(q * x)) * R = (-(q * k) - 1) * GFP_PRIME + r
  BY <1>1, <1>7
<1>9. -(q * x) \in Int /\ -(q * k) - 1 \in Int
  BY <1>1
<1>10. Left(r)
  BY <1>8, <1>9 DEF Left
<1> QED
  BY <1>4, <1>10

\* As the prime divides no radix, the radix has an inverse
LEMMA InverseExists ==
  R_INVERSE \in 1..(GFP_PRIME - 1) /\ (R_INVERSE * R) % GFP_PRIME = 1
<1> DEFINE T == {n \in 1..(GFP_PRIME - 1) : Left(n)}
<1>1. GFP_PRIME \in Nat \ {0} /\ GFP_PRIME > 2 /\ R \in Nat /\ R % GFP_PRIME # 0
  BY PrimeAssumption
<1>2. R % GFP_PRIME \in T
  <2>1. PICK k \in Int, n \in 0..(GFP_PRIME - 1) :
          n = R % GFP_PRIME /\ R = k * GFP_PRIME + n
    BY <1>1, DivisionPicks
  <2>2. 1 * R = k * GFP_PRIME + n
    BY <1>1, <2>1
  <2>3. Left(n)
    BY <2>2 DEF Left
  <2> QED
    BY <1>1, <2>1, <2>3
<1>3. PICK d \in T : \A n \in T : d <= n
  <2>1. T \in SUBSET Nat
    BY <1>1
  <2> HIDE DEF T
  <2> QED
    BY <1>2, <2>1, Least
<1>4. d = 1
  <2> SUFFICES ASSUME d # 1 PROVE FALSE
    OBVIOUS
  <2>1. PICK r \in 1..(d - 1) : Left(r)
    BY LeftDivides
  <2>2. r \in T /\ r < d
    BY <1>1, <2>1
  <2> QED
    BY <1>1, <1>3, <2>2
<1>5. PICK x, k \in Int : x * R = k * GFP_PRIME + 1
  BY <1>4 DEF Left
<1>6. PICK j \in Int, y \in 0..(GFP_PRIME - 1) : x = j * GFP_PRIME + y
  BY ZenonT(40), <1>1, DivisionPicks
<1>7. y * R = (k - j * R) * GFP_PRIME + 1
  <2>1. x * R = (j * R) * GFP_PRIME + y * R
    BY <1>1, <1>6
  <2> QED
    BY <1>1, <1>5, <2>1
<1>8. (y * R) % GFP_PRIME = 1
  <2>1. k - j * R \in Int /\ y * R \in Int /\ 1 \in 0..(GFP_PRIME - 1)
    BY <1>1
  <2> HIDE DEF T
  <2> QED
    BY <1>1, <1>7, <2>1, DivisionUnique
<1>9. y # 0
  <2> SUFFICES ASSUME y = 0 PROVE FALSE
    OBVIOUS
  <2>1. y * R = 0 * GFP_PRIME + 0 /\ y * R \in Int
    BY <1>1
  <2>2. (y * R) % GFP_PRIME = 0
    BY <1>1, <2>1, DivisionUnique
  <2> QED
    BY <1>8, <2>2
<1>10. y \in 1..(GFP_PRIME - 1)
  BY <1>9
<1> QED
  BY <1>8, <1>10 DEF R_INVERSE

-----------------------------------------------------------------------------
(* Types: numbers stay numbers through every conversion.                   *)

LEMMA UnitPositive == Unit \in Nat \ {0}
BY PowerPositive, WidthAssumption DEF Unit

LEMMA IntegersDivide ==
  ASSUME NEW a \in Int, NEW b \in Nat \ {0}
  PROVE  a \div b \in Int /\ a % b \in 0..(b - 1) /\ trunc(a, b) \in Int
BY DEF trunc

LEMMA AddType ==
  ASSUME NEW a \in Int, NEW b \in Int
  PROVE  add(a, b) \in Int
<1>1. (a + b) % GFP_PRIME \in 0..(GFP_PRIME - 1)
  BY PrimeAssumption
<1> QED
  BY <1>1, PrimeAssumption DEF add, gfpMapped

\* A list that a map makes is an Error or what the map says
LEMMA OrErrorType ==
  ASSUME NEW T, NEW n \in Nat, NEW f \in [1..n -> T \union {Error}]
  PROVE  \/ orError(f) = Error
         \/ orError(f) = f /\ f \in Seq(T) /\ Len(f) = n
<1>1. CASE \E i \in 1..Len(f) : f[i] = Error
  BY <1>1 DEF orError
<1>2. CASE ~\E i \in 1..Len(f) : f[i] = Error
  <2>1. Len(f) = n
    OBVIOUS
  <2>2. \A i \in 1..n : f[i] \in T
    BY <1>2, <2>1
  <2>3. f \in [1..n -> T]
    BY <2>2
  <2> QED
    BY <1>2, <2>1, <2>3 DEF orError
<1> QED
  BY <1>1, <1>2

LEMMA UserInputType ==
  ASSUME NEW v \in JSValue
  PROVE  fromUserInput(v) = Error \/ fromUserInput(v) \in Int
<1>1. v.val \in Int
  BY DEF JSValue
<1>2. v.val \div Unit \in Int
  BY <1>1, UnitPositive, IntegersDivide
<1>3. ASSUME NEW w \in Int
      PROVE  gfpUnmapped(w) = Error \/ gfpUnmapped(w) \in Int
  BY PrimeAssumption DEF gfpUnmapped, toMontgomery
<1> QED
  BY <1>2, <1>3 DEF fromUserInput

LEMMA ConvertInputType ==
  ASSUME NEW l \in Seq(JSValue)
  PROVE  \/ convertUserInput(l) = Error
         \/ /\ convertUserInput(l) \in Seq(JSValue)
            /\ Len(convertUserInput(l)) = Len(l)
<1> DEFINE f == [i \in 1..Len(l) |-> jsNumberToShiftedInteger(l[i])]
<1>1. ASSUME NEW i \in 1..Len(l) PROVE f[i] = Error \/ f[i] \in JSValue
  <2>1. l[i] \in JSValue /\ l[i].val \in Int
    <3>1. l[i] \in JSValue
      OBVIOUS
    <3> QED
      BY <3>1 DEF JSValue
  <2>2. (l[i].val + 1) \div 2 \in Int
    BY <2>1
  <2>3. ((l[i].val + 1) \div 2) * Unit \in Int
    BY <2>2, UnitPositive
  <2> QED
    BY <2>3 DEF jsNumberToShiftedInteger, number, JSValue
<1>2. \/ orError(f) = Error
      \/ orError(f) \in Seq(JSValue) /\ Len(orError(f)) = Len(l)
  <2>1. PICK n \in Nat : n = Len(l)
    OBVIOUS
  <2>2. f \in [1..n -> JSValue \union {Error}]
    BY <1>1, <2>1
  <2> HIDE DEF f
  <2> QED
    BY <2>1, <2>2, OrErrorType
<1> QED
  BY <1>2 DEF convertUserInput

LEMMA MaskType ==
  ASSUME NEW v \in Seq(JSValue), NEW sh \in Seq(Int)
  PROVE  \/ maskInputs(v, sh) = Error
         \/ maskInputs(v, sh) \in Seq(Int) /\ Len(maskInputs(v, sh)) = Len(v)
<1> DEFINE f == [i \in 1..Len(v) |-> fromUserInput(v[i])]
           masked == [i \in 1..Len(v) |-> add(sh[i], f[i])]
<1>1. CASE Len(v) # Len(sh) \/ orError(f) = Error
  BY <1>1 DEF maskInputs
<1>2. CASE Len(v) = Len(sh) /\ orError(f) # Error
  <2>1. \A i \in 1..Len(v) : f[i] # Error
    BY <1>2 DEF orError
  <2>2. orError(f) = f
    BY <1>2 DEF orError
  <2>3. ASSUME NEW i \in 1..Len(v) PROVE masked[i] \in Int
    <3>1. v[i] \in JSValue
      OBVIOUS
    <3>2. f[i] = fromUserInput(v[i])
      OBVIOUS
    <3>3. f[i] \in Int
      BY <2>1, <3>1, <3>2, UserInputType
    <3>4. sh[i] \in Int
      BY <1>2
    <3>5. masked[i] = add(sh[i], f[i])
      OBVIOUS
    <3> HIDE DEF f, masked
    <3> QED
      BY <3>3, <3>4, <3>5, AddType
  <2>4. maskInputs(v, sh) = masked
    BY <1>2, <2>2 DEF maskInputs
  <2>5. masked \in Seq(Int) /\ Len(masked) = Len(v)
    BY <2>3
  <2> QED
    BY <2>4, <2>5
<1> QED
  BY <1>1, <1>2

\* The prefix sums of a list are what their recursion says
PrefixSums(f, s, n) ==
  f = [i \in 0..n |-> IF i = 0 THEN 0 ELSE add(f[i - 1], s[i])]

LEMMA PrefixSumsExist ==
  ASSUME NEW s \in Seq(Int)
  PROVE  \E f : PrefixSums(f, s, Len(s))
<1> DEFINE G == {n \in Nat : \E f : PrefixSums(f, s, n)}
<1>1. 0 \in G
  <2>1. PrefixSums([i \in 0..0 |-> 0], s, 0)
    BY DEF PrefixSums
  <2> QED
    BY <2>1
<1>2. ASSUME NEW n \in Nat, n \in G PROVE n + 1 \in G
  <2>1. PICK f : PrefixSums(f, s, n)
    BY <1>2
  <2> DEFINE g == [i \in 0..(n + 1) |->
                     IF i = n + 1 THEN add(f[n], s[n + 1]) ELSE f[i]]
             h == [i \in 0..(n + 1) |->
                     IF i = 0 THEN 0 ELSE add(g[i - 1], s[i])]
  <2>2. ASSUME NEW i \in 0..(n + 1) PROVE g[i] = h[i]
    <3>1. CASE i = 0
      BY <2>1, <3>1 DEF PrefixSums
    <3>2. CASE i = n + 1
      BY <3>2
    <3>3. CASE i \in 1..n
      <4>1. i \in 0..n /\ i - 1 \in 0..n /\ i # 0 /\ i # n + 1 /\ i - 1 # n + 1
        BY <3>3
      <4>2. f[i] = add(f[i - 1], s[i])
        BY <2>1, <4>1 DEF PrefixSums
      <4> QED
        BY <4>1, <4>2
    <3> QED
      BY <3>1, <3>2, <3>3
  <2>3. g = h
    BY <2>2
  <2>4. PrefixSums(g, s, n + 1)
    BY <2>3 DEF PrefixSums
  <2> QED
    BY <2>4
<1>3. G = Nat
  <2> HIDE DEF G
  <2>1. G \in SUBSET Nat
    BY DEF G
  <2> QED
    BY <1>1, <1>2, <2>1, Induction
<1>4. Len(s) \in G
  BY <1>3
<1> QED
  BY <1>4

LEMMA SumType ==
  ASSUME NEW s \in Seq(Int)
  PROVE  sumOf(s) \in Int
<1> DEFINE first == CHOOSE f : PrefixSums(f, s, Len(s))
<1>1. sumOf(s) = first[Len(s)]
  BY DEF sumOf, PrefixSums
<1>2. PrefixSums(first, s, Len(s))
  BY PrefixSumsExist
<1> HIDE DEF first
<1> DEFINE G == {n \in Nat : n <= Len(s) => first[n] \in Int}
<1>3. 0 \in G
  BY <1>2 DEF PrefixSums
<1>4. ASSUME NEW n \in Nat, n \in G PROVE n + 1 \in G
  <2> SUFFICES ASSUME n + 1 <= Len(s) PROVE first[n + 1] \in Int
    OBVIOUS
  <2>1. first[n] \in Int /\ s[n + 1] \in Int
    BY <1>4
  <2>2. first[n + 1] = add(first[n], s[n + 1])
    BY <1>2 DEF PrefixSums
  <2> QED
    BY <2>1, <2>2, AddType
<1>5. G = Nat
  <2> HIDE DEF G
  <2>1. G \in SUBSET Nat
    BY DEF G
  <2> QED
    BY <1>3, <1>4, <2>1, Induction
<1>6. Len(s) \in G
  BY <1>5
<1> QED
  BY <1>1, <1>6

LEMMA MontgomeryType ==
  ASSUME NEW v \in Int, NEW w \in Int
  PROVE  /\ toMontgomery(v) \in 0..(GFP_PRIME - 1)
         /\ fromMontgomery(v) \in 0..(GFP_PRIME - 1)
         /\ multiply(v, w) \in 0..(GFP_PRIME - 1)
<1>1. GFP_PRIME \in Nat \ {0} /\ R \in Int /\ R_INVERSE \in Int
  BY PrimeAssumption, InverseExists
<1>2. v * R \in Int /\ v * R_INVERSE \in Int /\ v * w * R_INVERSE \in Int
  BY <1>1
<1>3. /\ (v * R) % GFP_PRIME \in 0..(GFP_PRIME - 1)
      /\ (v * R_INVERSE) % GFP_PRIME \in 0..(GFP_PRIME - 1)
      /\ (v * w * R_INVERSE) % GFP_PRIME \in 0..(GFP_PRIME - 1)
  BY <1>1, <1>2, Division
<1> QED
  BY <1>1, <1>3 DEF toMontgomery, fromMontgomery, multiply, gfpMapped

LEMMA JSIntegerType ==
  ASSUME NEW g \in Int
  PROVE  toJSInteger(g) = Error \/ toJSInteger(g) \in Int
BY MontgomeryType, PrimeAssumption DEF toJSInteger, fromGfpMapping

LEMMA FixedPointType ==
  ASSUME NEW g \in Int
  PROVE  toJSFixedPoint(g) = Error \/ toJSFixedPoint(g) \in Int
<1> DEFINE max == 2 ^ fix_decimal_bitlength
<1>1. max \in Nat \ {0} /\ Unit \in Nat \ {0} /\ Unit \in Int
  BY PowerPositive, UnitPositive, WidthAssumption
<1>2. Unit \div max \in Int
  BY <1>1
<1>3. ASSUME NEW v \in Int PROVE shiftedIntegerToJSFixed(v) \in Int
  <2>1. trunc(v, max) \in Int
    BY <1>1, IntegersDivide
  <2>2. trunc(v, max) * Unit \in Int /\ (v - trunc(v, max) * max) \in Int
    BY <1>1, <2>1
  <2>3. (v - trunc(v, max) * max) * (Unit \div max) \in Int
    BY <1>2, <2>2
  <2> QED
    BY <2>2, <2>3 DEF shiftedIntegerToJSFixed
<1> QED
  BY <1>3, JSIntegerType DEF toJSFixedPoint

\* Triples lie within a buffer
LEMMA Thirds ==
  \A n \in Nat : /\ n \div 3 \in Nat
                 /\ \A i \in 1..(n \div 3), j \in 1..3 :
                      3 * (i - 1) + j \in 1..n
<1> SUFFICES ASSUME NEW n \in Nat
             PROVE  /\ n \div 3 \in Nat
                    /\ \A i \in 1..(n \div 3), j \in 1..3 :
                         3 * (i - 1) + j \in 1..n
  OBVIOUS
<1>1. PICK q \in Int, m \in 0..2 : q = n \div 3 /\ n = q * 3 + m
  BY DivisionPicks
<1>2. q \in Nat
  BY <1>1
<1>3. \A i \in 1..q, j \in 1..3 : 3 * (i - 1) + j \in 1..n
  BY <1>1, <1>2
<1> QED
  BY <1>1, <1>2, <1>3

\* Share buffers that add up to shares, whatever their lengths
LEMMA ShareType ==
  ASSUME NEW n \in Nat \ {0}, NEW b, DOMAIN b = 1..n, Len(b) = n,
         \A p \in 1..n : b[p].words \in Seq(Int)
  PROVE  binaryToShare(b) = Error \/ binaryToShare(b) \in Seq(Int)
<1>1. PICK len \in Nat, t \in Nat : len = Len(b[1].words) /\ t = len \div 3
  <2>1. Len(b[1].words) \in Nat
    <3>1. b[1].words \in Seq(Int)
      OBVIOUS
    <3> QED
      BY <3>1, LenProperties
  <2>2. Len(b[1].words) \div 3 \in Nat
    BY <2>1, Thirds
  <2> QED
    BY <2>1, <2>2
<1> DEFINE triples == 1..t
<1>2. CASE binaryToShare(b) # [i \in triples |-> combined(b, i)[1]]
  BY <1>1, <1>2 DEF binaryToShare
<1>3. CASE ~checkBufferLength(b)
  BY <1>3 DEF binaryToShare
<1>4. CASE /\ checkBufferLength(b)
           /\ binaryToShare(b) = [i \in triples |-> combined(b, i)[1]]
  <2>1. ASSUME NEW i \in triples PROVE combined(b, i)[1] \in Int
    <3> DEFINE s == [p \in 1..n |-> b[p].words[3 * (i - 1) + 1]]
    <3>1. ASSUME NEW p \in 1..n PROVE s[p] \in Int
      <4>1. Len(b[p].words) = Len(b[1].words) /\ Len(b[1].words) % 3 = 0
        BY <1>4 DEF checkBufferLength
      <4>2. 3 * (i - 1) + 1 \in 1..len
        <5>1. i \in 1..(len \div 3)
          BY <1>1, Zenon
        <5>2. 1 \in 1..3
          OBVIOUS
        <5> QED
          BY <5>1, <5>2, Thirds, Zenon
      <4>3. b[p].words \in Seq(Int)
        OBVIOUS
      <4> QED
        BY <1>1, <4>1, <4>2, <4>3
    <3>2. s \in Seq(Int)
      BY <3>1
    <3>3. combined(b, i)[1] = sumOf(s)
      BY DEF combined
    <3> QED
      BY <3>2, <3>3, SumType
  <2>2. [i \in 1..t |-> combined(b, i)[1]] \in Seq(Int)
    <3>1. \A i \in 1..t : combined(b, i)[1] \in Int
      BY <1>1, <2>1
    <3> QED
      BY <3>1
  <2> QED
    BY <1>1, <1>4, <2>2
<1> QED
  BY <1>2, <1>3, <1>4

\* What is read of a buffer is what is in it, or an error
LEMMA ExtractedSame ==
  ASSUME NEW words \in Seq(Int), NEW width
  PROVE  extracted(words, width) \in {Error, words}
<1> DEFINE gfps == [i \in 1..Len(words) |-> gfpMapped(words[i])]
<1>1. CASE width # INTEGER_LENGTH_BYTES
  BY <1>1 DEF extracted
<1>2. CASE width = INTEGER_LENGTH_BYTES /\ orError(gfps) = Error
  BY <1>2 DEF extracted
<1>3. CASE width = INTEGER_LENGTH_BYTES /\ orError(gfps) # Error
  <2>1. orError(gfps) = gfps /\ \A i \in 1..Len(gfps) : gfps[i] # Error
    BY <1>3 DEF orError
  <2>2. Len(gfps) = Len(words)
    OBVIOUS
  <2>3. ASSUME NEW i \in 1..Len(words) PROVE gfps[i] = words[i]
    <3>1. gfps[i] # Error /\ gfps[i] = gfpMapped(words[i])
      BY <2>1, <2>2
    <3> QED
      BY <3>1 DEF gfpMapped
  <2>4. gfps = [i \in 1..Len(words) |-> words[i]]
    BY <2>3
  <2>5. gfps = words
    BY <2>4
  <2> QED
    BY <1>3, <2>1, <2>5 DEF extracted
<1> QED
  BY <1>1, <1>2, <1>3

\* A result is one buffer's numbers, and each of the others holds the same
LEMMA ArraysSame ==
  ASSUME NEW n \in Nat \ {0}, NEW b, DOMAIN b = 1..n, Len(b) = n,
         \A p \in 1..n : b[p].words \in Seq(Int),
         NEW width, binaryToArray(b, width) # Error
  PROVE  /\ binaryToArray(b, width) = b[n].words
         /\ binaryToArray(<<b[n]>>, width) = b[n].words
         /\ \A p \in 1..n : b[p].words = b[n].words
<1> DEFINE arrays == [p \in 1..n |-> extracted(b[p].words, width)]
<1>1. /\ checkBuffer(b, width) /\ allSame(arrays)
      /\ \A p \in 1..n : arrays[p] # Error
      /\ binaryToArray(b, width) = arrays[1]
  BY DEF binaryToArray
<1>2. ASSUME NEW p \in 1..n PROVE arrays[p] = b[p].words
  <2>1. arrays[p] = extracted(b[p].words, width)
    OBVIOUS
  <2>2. b[p].words \in Seq(Int)
    OBVIOUS
  <2> HIDE DEF arrays
  <2> QED
    BY <1>1, <2>1, <2>2, ExtractedSame
<1>3. \A p \in 1..n : arrays[p] = arrays[1]
  <2>1. Len(arrays) = n
    OBVIOUS
  <2>2. \A p \in 2..n : arrays[p] = arrays[1]
    BY <1>1, <2>1 DEF allSame
  <2> HIDE DEF arrays
  <2> QED
    BY <2>2
<1>4. 1 \in 1..n /\ n \in 1..n
  OBVIOUS
<1>5. binaryToArray(<<b[n]>>, width) = b[n].words
  <2> DEFINE one == [p \in 1..1 |-> extracted(<<b[n]>>[p].words, width)]
  <2>1. /\ Len(<<b[n]>>) = 1 /\ <<b[n]>>[1] = b[n] /\ <<b[n]>> # << >>
    OBVIOUS
  <2>2. one[1] = arrays[n] /\ Len(one) = 1
    BY <1>4
  <2>3. checkBuffer(<<b[n]>>, width) /\ allSame(one)
    BY <1>1, <1>4, <2>1, <2>2 DEF checkBuffer, allSame
  <2>4. one[1] # Error /\ one[1] = b[n].words
    BY <1>1, <1>2, <1>4, <2>2
  <2>5. \A p \in 1..1 : one[p] # Error
    BY <2>4
  <2> QED
    BY <2>1, <2>3, <2>4, <2>5 DEF binaryToArray
<1> HIDE DEF arrays
<1> QED
  BY <1>1, <1>2, <1>3, <1>4, <1>5

LEMMA OutputSame ==
  ASSUME NEW n \in Nat \ {0}, NEW b, DOMAIN b = 1..n, Len(b) = n,
         \A p \in 1..n : b[p].words \in Seq(Int),
         convertOutput(b) # Error
  PROVE  /\ convertOutput(b) \in Seq(Int)
         /\ convertOutput(<<b[n]>>) = convertOutput(b)
         /\ \A p \in 1..n : b[p].words = b[n].words
<1>1. PICK width :
        /\ binaryToArray(b, width) # Error
        /\ \/ width = INTEGER_LENGTH_BYTES
              /\ b[n].type \in {"CLEAR_MODP_INT", "CLEAR_MODP_FIX"}
           \/ width = 4 /\ b[n].type = "INT_32"
  BY DEF convertOutput, binaryToGfpArray, binaryToIntArray
<1>2. /\ binaryToArray(b, width) = b[n].words
      /\ binaryToArray(<<b[n]>>, width) = b[n].words
      /\ \A p \in 1..n : b[p].words = b[n].words
  BY <1>1, ArraysSame
<1>3. <<b[n]>>[Len(<<b[n]>>)] = b[n] /\ b[Len(b)] = b[n]
  OBVIOUS
<1>4. convertOutput(<<b[n]>>) = convertOutput(b)
  BY <1>1, <1>2, <1>3 DEF convertOutput, binaryToGfpArray, binaryToIntArray
<1> DEFINE w == b[n].words
           ints == [i \in 1..Len(w) |-> toJSInteger(w[i])]
           fixed == [i \in 1..Len(w) |-> toJSFixedPoint(w[i])]
<1>5. w \in Seq(Int) /\ Len(w) \in Nat
  OBVIOUS
<1>6. /\ orError(ints) = Error \/ orError(ints) \in Seq(Int)
      /\ orError(fixed) = Error \/ orError(fixed) \in Seq(Int)
  <2>1. \A i \in 1..Len(w) : w[i] \in Int
    BY <1>5
  <2>2. /\ ints \in [1..Len(w) -> Int \union {Error}]
        /\ fixed \in [1..Len(w) -> Int \union {Error}]
    BY <2>1, JSIntegerType, FixedPointType
  <2> HIDE DEF ints, fixed, w
  <2> QED
    BY ZenonT(40), <1>5, <2>2, OrErrorType
<1>7. convertOutput(b) \in {Error, orError(ints), orError(fixed), w}
  BY <1>1, <1>2, <1>3 DEF convertOutput, binaryToGfpArray, binaryToIntArray
<1> QED
  BY <1>2, <1>4, <1>5, <1>6, <1>7

-----------------------------------------------------------------------------
(* What the conversions compute: there and back, a number is what it was.  *)

LEMMA SmallRemainder ==
  ASSUME NEW b \in Nat \ {0}, NEW v \in 0..(b - 1)
  PROVE  v % b = v /\ v \div b = 0
<1>1. v = 0 * b + v /\ v \in Int
  OBVIOUS
<1> QED
  BY <1>1, DivisionUnique

LEMMA MultipleDivides ==
  ASSUME NEW b \in Nat \ {0}, NEW k \in Int
  PROVE  (k * b) % b = 0 /\ (k * b) \div b = k
<1>1. k * b = k * b + 0 /\ k * b \in Int /\ 0 \in 0..(b - 1)
  OBVIOUS
<1> QED
  BY <1>1, DivisionUnique

LEMMA RemainderAdds ==
  ASSUME NEW b \in Nat \ {0}, NEW x \in Int, NEW y \in Int
  PROVE  ((x % b) + y) % b = (x + y) % b
<1>1. PICK q \in Int, m \in 0..(b - 1) : m = x % b /\ x = q * b + m
  BY DivisionPicks
<1>2. PICK j \in Int, n \in 0..(b - 1) : n = (m + y) % b /\ m + y = j * b + n
  <2>1. m + y \in Int
    OBVIOUS
  <2> QED
    BY <2>1, DivisionPicks
<1>3. x + y = (q + j) * b + n
  <2>1. x + y = q * b + (j * b + n)
    BY SMTT(30), <1>1, <1>2
  <2>2. (q + j) * b = q * b + j * b
    OBVIOUS
  <2> QED
    BY <2>1, <2>2
<1>4. (x + y) % b = n
  <2>1. x + y \in Int /\ q + j \in Int
    OBVIOUS
  <2> QED
    BY <1>3, <2>1, DivisionUnique
<1> QED
  BY <1>1, <1>2, <1>4

LEMMA RemainderMultiplies ==
  ASSUME NEW b \in Nat \ {0}, NEW x \in Int, NEW y \in Int
  PROVE  ((x % b) * y) % b = (x * y) % b
<1>1. PICK q \in Int, m \in 0..(b - 1) : m = x % b /\ x = q * b + m
  BY DivisionPicks
<1>2. PICK j \in Int, n \in 0..(b - 1) : n = (m * y) % b /\ m * y = j * b + n
  <2>1. m * y \in Int
    OBVIOUS
  <2> QED
    BY <2>1, DivisionPicks
<1>3. x * y = (q * y) * b + m * y
  BY <1>1
<1>4. x * y = (q * y + j) * b + n
  <2>1. q * y \in Int
    OBVIOUS
  <2> QED
    BY <1>2, <1>3, <2>1
<1>5. (x * y) % b = n
  <2>1. PICK z \in Int, k \in Int : z = x * y /\ k = q * y + j
    OBVIOUS
  <2>2. z = k * b + n
    BY <1>4, <2>1
  <2>3. z % b = n
    BY <2>2, DivisionUnique
  <2> QED
    BY <2>1, <2>3
<1> QED
  BY <1>1, <1>2, <1>5

LEMMA PrimePositive == GFP_PRIME \in Nat \ {0} /\ GFP_PRIME \in Int
BY PrimeAssumption

\* Out of Montgomery form comes what went in
LEMMA MontgomeryBack ==
  ASSUME NEW v \in 0..(GFP_PRIME - 1)
  PROVE  fromMontgomery(toMontgomery(v)) = v
<1>1. PICK b \in Nat \ {0}, x \in Int, y \in Int, z \in Int :
        b = GFP_PRIME /\ x = v * R /\ y = R_INVERSE /\ z = R_INVERSE * R
  <2>1. /\ v \in Int /\ R \in Int /\ R_INVERSE \in Int
        /\ GFP_PRIME \in Nat \ {0}
    BY PrimeAssumption, InverseExists
  <2>2. v * R \in Int /\ R_INVERSE * R \in Int
    BY <2>1
  <2> QED
    BY <2>1, <2>2
<1>2. ((x % b) * y) % b = (x * y) % b
  BY RemainderMultiplies
<1>3. x * y = z * v
  BY <1>1, PrimeAssumption
<1>4. ((z % b) * v) % b = (z * v) % b
  <2>1. v \in Int
    OBVIOUS
  <2> QED
    BY <2>1, RemainderMultiplies
<1>5. (z % b) * v = v
  <2>1. z % b = 1
    BY <1>1, InverseExists
  <2> QED
    BY <2>1
<1>6. v % b = v
  BY <1>1, SmallRemainder
<1>7. ((x % b) * y) % b = v
  BY <1>2, <1>3, <1>4, <1>5, <1>6
<1> QED
  BY <1>1, <1>7 DEF fromMontgomery, toMontgomery

\* Adding numbers of the field stays in it, and wraps
LEMMA AddWraps ==
  ASSUME NEW a \in Int, NEW b \in Int
  PROVE  /\ add(a, b) = (a + b) % GFP_PRIME
         /\ add(a, b) \in 0..(GFP_PRIME - 1)
<1>1. (a + b) % GFP_PRIME \in 0..(GFP_PRIME - 1)
  BY PrimePositive
<1> QED
  BY <1>1, PrimePositive DEF add, gfpMapped

\* A mask comes off again
LEMMA MaskRemoved ==
  ASSUME NEW m \in Int, NEW g \in 0..(GFP_PRIME - 1)
  PROVE  (add(m, g) - m) % GFP_PRIME = g
<1>1. add(m, g) = (m + g) % GFP_PRIME
  BY AddWraps
<1>2. PICK x \in Int, y \in Int : x = m + g /\ y = -m
  OBVIOUS
<1>3. ((x % GFP_PRIME) + y) % GFP_PRIME = (x + y) % GFP_PRIME
  BY PrimePositive, RemainderAdds
<1>4. x + y = g
  BY <1>2
<1>5. g % GFP_PRIME = g
  BY PrimePositive, SmallRemainder
<1>6. (x % GFP_PRIME) + y = add(m, g) - m
  BY <1>1, <1>2, PrimePositive
<1> QED
  BY <1>3, <1>4, <1>5, <1>6

\* An integer that JavaScript represents exactly has a number in the field,
\* and is what that number is converted to
LEMMA SafeInteger ==
  ASSUME NEW k \in Int, -MAX_SAFE_INTEGER <= k, k <= MAX_SAFE_INTEGER
  PROVE  /\ gfpUnmapped(k) \in 0..(GFP_PRIME - 1)
         /\ toJSInteger(gfpUnmapped(k)) = k
<1>1. PICK h \in Int, m \in 0..1 : h = GFP_PRIME \div 2 /\ GFP_PRIME = h * 2 + m
  BY PrimePositive, DivisionPicks
<1>2. /\ MAX_SAFE_INTEGER \in Nat /\ MAX_SAFE_INTEGER < h
      /\ GFP_NEGATIVE_BOUNDARY = h /\ MIN_NEGATIVE = h - GFP_PRIME
  BY <1>1, WidthAssumption, RangeAssumption
     DEF GFP_NEGATIVE_BOUNDARY, MIN_NEGATIVE
<1> DEFINE v == IF k < 0 THEN k + GFP_PRIME ELSE k
<1>3. v \in 0..(GFP_PRIME - 1)
  BY <1>1, <1>2, PrimePositive
<1>4. gfpUnmapped(k) = toMontgomery(v)
  <2>1. ~(k < MIN_NEGATIVE \/ k >= GFP_NEGATIVE_BOUNDARY)
    BY <1>1, <1>2, PrimePositive
  <2> QED
    BY <2>1 DEF gfpUnmapped
<1>5. fromGfpMapping(v) = k
  BY <1>1, <1>2, PrimePositive DEF fromGfpMapping
<1> HIDE DEF v
<1>6. gfpUnmapped(k) \in 0..(GFP_PRIME - 1)
  BY <1>3, <1>4, MontgomeryType
<1>7. fromMontgomery(gfpUnmapped(k)) = v
  BY <1>3, <1>4, MontgomeryBack
<1>8. toJSInteger(gfpUnmapped(k)) = k
  BY <1>5, <1>7 DEF toJSInteger
<1> QED
  BY <1>6, <1>8

-----------------------------------------------------------------------------
(* Shares add up.                                                          *)

\* Shares of one number: the first proxy's makes up for all others'
SharesOf(s, n, whole, i) ==
  /\ s \in Seq(Int) /\ Len(s) = n
  /\ \A p \in 1..n : s[p] = IF p = 1 THEN (whole + i * (n - 1)) % GFP_PRIME
                            ELSE (-i) % GFP_PRIME

LEMMA SharesAddUp ==
  ASSUME NEW n \in Nat \ {0}, NEW whole \in 0..(GFP_PRIME - 1), NEW i \in Int,
         NEW s, SharesOf(s, n, whole, i)
  PROVE  sumOf(s) = whole
<1> DEFINE first == CHOOSE f : PrefixSums(f, s, Len(s))
           left(k) == (whole + i * (n - k)) % GFP_PRIME
<1>1. sumOf(s) = first[Len(s)]
  BY DEF sumOf, PrefixSums
<1>2. PrefixSums(first, s, Len(s)) /\ s \in Seq(Int) /\ Len(s) = n
  BY PrefixSumsExist DEF SharesOf
<1> HIDE DEF first
<1>3. first[0] = 0 /\ \A k \in 1..n : first[k] = add(first[k - 1], s[k])
  BY <1>2 DEF PrefixSums
<1>4. ASSUME NEW k \in Int PROVE left(k) \in 0..(GFP_PRIME - 1)
  <2>1. i * (n - k) \in Int
    BY <1>4
  <2> QED
    BY <2>1, PrimePositive
<1> DEFINE G == {k \in Nat : k >= 1 /\ k <= n => first[k] = left(k)}
<1>5. first[1] = left(1)
  <2>1. 1 \in 1..n /\ s[1] = left(1)
    BY DEF SharesOf
  <2>2. first[1] = add(0, s[1])
    BY <1>3, <2>1
  <2>3. left(1) \in 0..(GFP_PRIME - 1)
    <3>1. 1 \in Int
      OBVIOUS
    <3> HIDE DEF left
    <3> QED
      BY <1>4, <3>1
  <2> HIDE DEF left
  <2>4. add(0, left(1)) = (0 + left(1)) % GFP_PRIME
    BY <2>3, AddWraps
  <2>5. 0 + left(1) = left(1) /\ left(1) % GFP_PRIME = left(1)
    BY <2>3, PrimePositive, SmallRemainder
  <2> QED
    BY <2>1, <2>2, <2>4, <2>5
<1>6. ASSUME NEW k \in Nat, k >= 1, k + 1 <= n, first[k] = left(k)
      PROVE  first[k + 1] = left(k + 1)
  <2>1. PICK x \in Int, y \in Int : x = whole + i * (n - k) /\ y = -i
    BY <1>6
  <2>2. PICK xr \in Int, yr \in Int :
          xr = x % GFP_PRIME /\ yr = y % GFP_PRIME
    BY PrimePositive
  <2>3. s[k + 1] = yr
    BY <1>6, <2>1, <2>2 DEF SharesOf
  <2>4. left(k) = xr
    BY <2>1, <2>2
  <2>5. first[k + 1] = add(xr, yr)
    BY <1>3, <1>6, <2>3, <2>4
  <2>6. add(xr, yr) = (xr + yr) % GFP_PRIME
    BY AddWraps
  <2>7. (xr + yr) % GFP_PRIME = (x + yr) % GFP_PRIME
    BY <2>2, PrimePositive, RemainderAdds
  <2>8. (yr + x) % GFP_PRIME = (y + x) % GFP_PRIME
    BY <2>2, PrimePositive, RemainderAdds
  <2>9. x + yr = yr + x
    OBVIOUS
  <2>10. y + x = whole + i * (n - (k + 1))
    BY <1>6, <2>1
  <2> QED
    BY <2>5, <2>6, <2>7, <2>8, <2>9, <2>10
<1>7. G = Nat
  <2>1. 0 \in G
    OBVIOUS
  <2>2. ASSUME NEW k \in Nat, k \in G PROVE k + 1 \in G
    <3>1. CASE k = 0
      BY <1>5, <3>1
    <3>2. CASE k >= 1
      BY <1>6, <2>2, <3>2
    <3> QED
      BY <3>1, <3>2
  <2>3. G \in SUBSET Nat
    OBVIOUS
  <2> HIDE DEF G
  <2> QED
    BY <2>1, <2>2, <2>3, Induction
<1>8. n \in G
  BY <1>7
<1>9. first[n] = left(n)
  BY <1>8
<1>10. left(n) = whole
  <2>1. n - n = 0 /\ i * 0 = 0 /\ whole + 0 = whole
    BY PrimePositive
  <2>2. whole % GFP_PRIME = whole
    BY PrimePositive, SmallRemainder
  <2> QED
    BY <2>1, <2>2
<1> QED
  BY <1>1, <1>2, <1>9, <1>10

-----------------------------------------------------------------------------
(* Powers of two, which count subsets.                                     *)

LEMMA SubsetsCounted ==
  ASSUME NEW n \in Nat
  PROVE  /\ IsFiniteSet(SUBSET (1..n))
         /\ Cardinality(SUBSET (1..n)) = 2 ^ n
<1>1. IsFiniteSet(1..n) /\ Cardinality(1..n) = n
  BY FS_Interval
<1> QED
  BY <1>1, FS_SUBSET

LEMMA PowerDoubles ==
  ASSUME NEW n \in Nat
  PROVE  2 ^ 0 = 1 /\ 2 ^ (n + 1) = 2 * 2 ^ n
<1>1. 2 ^ 0 = 1
  <2>1. Cardinality(SUBSET (1..0)) = 2 ^ 0
    BY SubsetsCounted
  <2>2. SUBSET (1..0) = {{}}
    OBVIOUS
  <2>3. Cardinality({{}}) = 1
    BY FS_Singleton
  <2> QED
    BY <2>1, <2>2, <2>3
<1> DEFINE A == SUBSET (1..n)
           B == {x \union {n + 1} : x \in A}
           C == SUBSET (1..(n + 1))
<1>2. IsFiniteSet(A) /\ Cardinality(A) = 2 ^ n
  BY SubsetsCounted
<1>3. IsFiniteSet(C) /\ Cardinality(C) = 2 ^ (n + 1)
  <2>1. n + 1 \in Nat
    OBVIOUS
  <2> QED
    BY <2>1, SubsetsCounted
<1>4. IsFiniteSet(B) /\ Cardinality(B) = Cardinality(A)
  <2> DEFINE f == [x \in A |-> x \union {n + 1}]
  <2>1. f \in Bijection(A, B)
    <3>1. f \in [A -> B]
      OBVIOUS
    <3>2. \A x, y \in A : f[x] = f[y] => x = y
      <4> SUFFICES ASSUME NEW x \in A, NEW y \in A, f[x] = f[y]
                   PROVE  x = y
        OBVIOUS
      <4>1. n + 1 \notin x /\ n + 1 \notin y
        OBVIOUS
      <4>2. x \union {n + 1} = y \union {n + 1}
        OBVIOUS
      <4> QED
        BY <4>1, <4>2
    <3>3. \A y \in B : \E x \in A : f[x] = y
      OBVIOUS
    <3> HIDE DEF f
    <3> QED
      BY <3>1, <3>2, <3>3 DEF Bijection, Injection, Surjection, IsInjective
  <2>2. ExistsBijection(A, B)
    BY <2>1 DEF ExistsBijection
  <2> HIDE DEF A, B
  <2> QED
    BY <1>2, <2>2, FS_Bijection
<1>5. A \cap B = {}
  OBVIOUS
<1>6. A \union B = C
  <2>1. ASSUME NEW x \in C PROVE x \in A \union B
    <3>1. CASE n + 1 \in x
      <4>1. x \ {n + 1} \in A /\ x = (x \ {n + 1}) \union {n + 1}
        BY <3>1
      <4> QED
        BY <4>1
    <3>2. CASE n + 1 \notin x
      BY <3>2
    <3> QED
      BY <3>1, <3>2
  <2>2. 1..n \subseteq 1..(n + 1) /\ n + 1 \in 1..(n + 1)
    OBVIOUS
  <2>3. A \subseteq C
    BY <2>2
  <2>4. ASSUME NEW x \in A PROVE x \union {n + 1} \in C
    BY <2>2
  <2>5. B \subseteq C
    BY ZenonT(40), <2>4
  <2> HIDE DEF A, B, C
  <2> QED
    BY <2>1, <2>3, <2>5
<1> HIDE DEF A, B, C
<1>7. Cardinality(C) = Cardinality(A) + Cardinality(B) - Cardinality(A \cap B)
  BY <1>2, <1>4, <1>6, FS_Union
<1>8. Cardinality(A \cap B) = 0
  BY <1>5, FS_EmptySet
<1>9. 2 ^ n \in Nat
  BY PowerPositive
<1> QED
  BY <1>1, <1>2, <1>3, <1>4, <1>7, <1>8, <1>9

LEMMA PowersMultiply ==
  ASSUME NEW m \in Nat, NEW n \in Nat
  PROVE  2 ^ (m + n) = 2 ^ m * 2 ^ n
<1> DEFINE G == {k \in Nat : 2 ^ (m + k) = 2 ^ m * 2 ^ k}
<1>1. 0 \in G
  <2>1. 2 ^ m \in Nat /\ 2 ^ 0 = 1 /\ m + 0 = m
    BY PowerPositive, PowerDoubles
  <2> QED
    BY <2>1
<1>2. ASSUME NEW k \in Nat, k \in G PROVE k + 1 \in G
  <2>1. 2 ^ (k + 1) = 2 * 2 ^ k
    BY PowerDoubles
  <2>2. 2 ^ ((m + k) + 1) = 2 * 2 ^ (m + k)
    <3>1. m + k \in Nat
      OBVIOUS
    <3> QED
      BY <3>1, PowerDoubles
  <2>3. (m + k) + 1 = m + (k + 1)
    OBVIOUS
  <2>4. PICK a \in Nat, b \in Nat : a = 2 ^ m /\ b = 2 ^ k
    BY PowerPositive
  <2>5. 2 ^ (m + k) = a * b
    BY <1>2, <2>4
  <2>6. 2 * (a * b) = a * (2 * b)
    OBVIOUS
  <2> QED
    BY <2>1, <2>2, <2>3, <2>4, <2>5, <2>6
<1>3. G = Nat
  <2>1. G \in SUBSET Nat
    OBVIOUS
  <2> HIDE DEF G
  <2> QED
    BY <1>1, <1>2, <2>1, Induction
<1> QED
  BY <1>3

\* The unit and the range of fixed point numbers
LEMMA FixedPointUnits ==
  \E max \in Nat \ {0}, whole \in Nat \ {0}, n \in Nat \ {0} :
    /\ max = 2 ^ fix_decimal_bitlength
    /\ whole = 2 ^ (fix_whole_bitlength - fix_decimal_bitlength)
    /\ n = 2 ^ fix_whole_bitlength
    /\ Unit = 2 * max /\ n = whole * max /\ n <= MAX_SAFE_INTEGER
<1>1. /\ fix_decimal_bitlength \in Nat
      /\ fix_whole_bitlength - fix_decimal_bitlength \in Nat
      /\ fix_whole_bitlength \in Nat
      /\ (fix_whole_bitlength - fix_decimal_bitlength) + fix_decimal_bitlength
           = fix_whole_bitlength
  BY WidthAssumption
<1>2. Unit = 2 * 2 ^ fix_decimal_bitlength
  BY <1>1, PowerDoubles DEF Unit
<1>3. 2 ^ ((fix_whole_bitlength - fix_decimal_bitlength)
             + fix_decimal_bitlength)
        = 2 ^ (fix_whole_bitlength - fix_decimal_bitlength)
            * 2 ^ fix_decimal_bitlength
  BY <1>1, PowersMultiply, Zenon
<1>4. /\ 2 ^ fix_decimal_bitlength \in Nat \ {0}
      /\ 2 ^ (fix_whole_bitlength - fix_decimal_bitlength) \in Nat \ {0}
      /\ 2 ^ fix_whole_bitlength \in Nat \ {0}
  BY <1>1, PowerPositive
<1>5. 2 ^ fix_whole_bitlength <= MAX_SAFE_INTEGER
  BY RangeAssumption
<1>6. 2 ^ fix_whole_bitlength
        = 2 ^ (fix_whole_bitlength - fix_decimal_bitlength)
            * 2 ^ fix_decimal_bitlength
  BY <1>1, <1>3
<1> QED
  BY <1>2, <1>4, <1>5, <1>6, Zenon

-----------------------------------------------------------------------------
(* The list checks.                                                        *)

\* What the reduce passes on, up to the n-th element
Passes(f, list, wanted, n) ==
  f = [i \in 1..n |->
         IF i = 1 \/ compare(f[i - 1], list[i], wanted)
           THEN list[i] ELSE NaN]

LEMMA PassesExist ==
  ASSUME NEW list, NEW wanted, NEW last \in Nat
  PROVE  \E f : Passes(f, list, wanted, last)
<1> DEFINE G == {n \in Nat : \E f : Passes(f, list, wanted, n)}
<1>1. 0 \in G
  <2>1. Passes(<<>>, list, wanted, 0)
    BY DEF Passes
  <2> QED
    BY <2>1
<1>2. ASSUME NEW n \in Nat, n \in G PROVE n + 1 \in G
  <2>1. PICK f : Passes(f, list, wanted, n)
    BY <1>2
  <2> DEFINE x == IF n + 1 = 1 \/ compare(f[n], list[n + 1], wanted)
                    THEN list[n + 1] ELSE NaN
             g == [i \in 1..(n + 1) |-> IF i = n + 1 THEN x ELSE f[i]]
             h == [i \in 1..(n + 1) |->
                     IF i = 1 \/ compare(g[i - 1], list[i], wanted)
                       THEN list[i] ELSE NaN]
  <2>2. ASSUME NEW i \in 1..(n + 1) PROVE g[i] = h[i]
    <3>1. CASE i = n + 1
      <4>1. CASE i = 1
        BY <3>1, <4>1
      <4>2. CASE i # 1
        <5>1. i - 1 = n /\ n \in 1..(n + 1) /\ n # n + 1
          BY <3>1, <4>2
        <5>2. g[n] = f[n]
          BY <5>1
        <5> QED
          BY <3>1, <4>2, <5>1, <5>2
      <4> QED
        BY <4>1, <4>2
    <3>2. CASE i = 1 /\ i # n + 1
      <4>1. 1 \in 1..n
        BY <3>2
      <4>2. f[1] = list[1]
        BY <2>1, <4>1 DEF Passes
      <4> QED
        BY <3>2, <4>2
    <3>3. CASE i \in 2..n
      <4>1. i \in 1..n /\ i - 1 \in 1..(n + 1) /\ i # n + 1 /\ i - 1 # n + 1
            /\ i # 1
        BY <3>3
      <4>2. f[i] = IF i = 1 \/ compare(f[i - 1], list[i], wanted)
                     THEN list[i] ELSE NaN
        BY <2>1, <4>1 DEF Passes
      <4>3. g[i - 1] = f[i - 1] /\ g[i] = f[i]
        BY <4>1
      <4> HIDE DEF g
      <4> QED
        BY <4>1, <4>2, <4>3
    <3> QED
      BY <3>1, <3>2, <3>3
  <2>3. g = h
    BY <2>2
  <2>4. Passes(g, list, wanted, n + 1)
    BY <2>3 DEF Passes
  <2> QED
    BY <2>4
<1>3. G = Nat
  <2>1. G \in SUBSET Nat
    OBVIOUS
  <2> HIDE DEF G
  <2> QED
    BY <1>1, <1>2, <2>1, Induction
<1> QED
  BY <1>3

LEMMA ComparisonPasses ==
  ASSUME NEW list \in Seq(JSValue), NEW wanted
  PROVE  \E f : /\ Passes(f, list, wanted, Len(list))
                /\ listComparison(list, wanted) <=>
                     \/ Len(list) <= 1
                     \/ compare(f[Len(list) - 1], list[Len(list)], wanted)
<1> DEFINE passed == CHOOSE f : Passes(f, list, wanted, Len(list))
<1>1. Passes(passed, list, wanted, Len(list))
  BY PassesExist
<1>2. listComparison(list, wanted) <=>
        \/ Len(list) <= 1
        \/ compare(passed[Len(list) - 1], list[Len(list)], wanted)
  BY DEF listComparison, Passes
<1> QED
  BY <1>1, <1>2

\* A list of elements that all compare passes the check
LEMMA AllCompare ==
  ASSUME NEW list \in Seq(JSValue), NEW wanted,
         \A i, j \in 1..Len(list) : compare(list[i], list[j], wanted)
  PROVE  listComparison(list, wanted)
<1>1. PICK f : /\ Passes(f, list, wanted, Len(list))
               /\ listComparison(list, wanted) <=>
                    \/ Len(list) <= 1
                    \/ compare(f[Len(list) - 1], list[Len(list)], wanted)
  BY ComparisonPasses
<1> DEFINE G == {n \in Nat : n \in 1..Len(list) => f[n] = list[n]}
<1>2. 0 \in G
  OBVIOUS
<1>3. ASSUME NEW n \in Nat, n \in G PROVE n + 1 \in G
  <2> SUFFICES ASSUME n + 1 \in 1..Len(list) PROVE f[n + 1] = list[n + 1]
    OBVIOUS
  <2>1. f[n + 1] = IF n + 1 = 1 \/ compare(f[n], list[n + 1], wanted)
                     THEN list[n + 1] ELSE NaN
    BY <1>1 DEF Passes
  <2>2. CASE n + 1 = 1
    BY <2>1, <2>2
  <2>3. CASE n + 1 # 1
    <3>1. n \in 1..Len(list) /\ f[n] = list[n]
      BY <1>3, <2>3
    <3> QED
      BY <2>1, <3>1
  <2> QED
    BY <2>2, <2>3
<1>4. G = Nat
  <2>1. G \in SUBSET Nat
    OBVIOUS
  <2> HIDE DEF G
  <2> QED
    BY <1>2, <1>3, <2>1, Induction
<1>5. CASE Len(list) > 1
  <2>1. Len(list) - 1 \in 1..Len(list) /\ Len(list) \in 1..Len(list)
    BY <1>5
  <2>2. f[Len(list) - 1] = list[Len(list) - 1]
    BY <1>4, <2>1
  <2> QED
    BY <1>1, <2>1, <2>2
<1> QED
  BY <1>1, <1>5

\* Integers are checked to the first element: a single other one shows
LEMMA IntegersCompare ==
  ASSUME NEW list \in Seq(JSValue), Len(list) > 1,
         listComparison(list, "integers")
  PROVE  \A i \in 1..Len(list) : isInteger(list[i])
<1>1. PICK f : /\ Passes(f, list, "integers", Len(list))
               /\ listComparison(list, "integers") <=>
                    \/ Len(list) <= 1
                    \/ compare(f[Len(list) - 1], list[Len(list)], "integers")
  BY ComparisonPasses
<1>2. \A a, b : compare(a, b, "integers") <=> isInteger(a) /\ isInteger(b)
  BY DEF compare
<1>3. ~isInteger(NaN)
  BY DEF isInteger, NaN
<1> DEFINE G == {n \in Nat : n \in 1..Len(list) /\ isInteger(f[n]) =>
                               \A i \in 1..n : isInteger(list[i])}
<1>4. 0 \in G
  OBVIOUS
<1>5. ASSUME NEW n \in Nat, n \in G PROVE n + 1 \in G
  <2> SUFFICES ASSUME n + 1 \in 1..Len(list), isInteger(f[n + 1])
               PROVE  \A i \in 1..(n + 1) : isInteger(list[i])
    OBVIOUS
  <2>1. f[n + 1] = IF n + 1 = 1 \/ compare(f[n], list[n + 1], "integers")
                     THEN list[n + 1] ELSE NaN
    BY <1>1 DEF Passes
  <2>2. CASE n + 1 = 1
    BY <2>1, <2>2
  <2>3. CASE n + 1 # 1
    <3>1. isInteger(f[n]) /\ isInteger(list[n + 1])
      BY <1>2, <1>3, <2>1, <2>3
    <3>2. n \in 1..Len(list)
      BY <2>3
    <3>3. \A i \in 1..n : isInteger(list[i])
      BY <1>5, <3>1, <3>2
    <3> QED
      BY <3>1, <3>3
  <2> QED
    BY <2>2, <2>3
<1>6. G = Nat
  <2>1. G \in SUBSET Nat
    OBVIOUS
  <2> HIDE DEF G
  <2> QED
    BY <1>4, <1>5, <2>1, Induction
<1>7. isInteger(f[Len(list) - 1]) /\ isInteger(list[Len(list)])
  BY <1>1, <1>2
<1>8. Len(list) - 1 \in 1..Len(list)
  OBVIOUS
<1>9. \A i \in 1..(Len(list) - 1) : isInteger(list[i])
  BY <1>6, <1>7, <1>8
<1> QED
  BY <1>7, <1>9

-----------------------------------------------------------------------------
(* Lists there and back.                                                   *)

LEMMA NoErrorInList ==
  ASSUME NEW T, Error \notin T, NEW s \in Seq(T)
  PROVE  orError(s) = s
BY DEF orError

LEMMA IntegersAccepted ==
  ASSUME NEW l \in Seq(JSValue), \A i \in 1..Len(l) : isInteger(l[i])
  PROVE  convertUserInput(l) = l
<1>1. listComparison(l, "integers")
  <2>1. \A i, j \in 1..Len(l) : compare(l[i], l[j], "integers")
    BY DEF compare
  <2> QED
    BY <2>1, AllCompare
<1>2. listComparison(l, "numbers")
  <2>1. \A i, j \in 1..Len(l) : compare(l[i], l[j], "numbers")
    BY DEF compare, isInteger, isNumber
  <2> QED
    BY <2>1, AllCompare
<1> QED
  BY <1>1, <1>2 DEF convertUserInput

\* Half a unit below or above, a number is rounded to one with the bits of a
\* fixed point number
LEMMA Rounding ==
  ASSUME NEW x \in Int, NEW max \in Nat \ {0}, NEW whole \in Nat \ {0},
         NEW n, n = whole * max, NEW u, u = 2 * max,
         x > -whole * u, x < whole * u
  PROVE  /\ (x + 1) \div 2 \in Int
         /\ -n <= (x + 1) \div 2 /\ (x + 1) \div 2 <= n
         /\ 2 * ((x + 1) \div 2) - x \in {0, 1}
         /\ ~(trunc(x, u) > whole - 1)
<1>1. PICK h \in Int, m \in 0..1 : h = (x + 1) \div 2 /\ x + 1 = h * 2 + m
  <2>1. x + 1 \in Int /\ 2 \in Nat \ {0} /\ 2 - 1 = 1
    OBVIOUS
  <2> QED
    BY <2>1, DivisionPicks
<1>2. n \in Nat /\ u \in Nat \ {0} /\ whole * u = 2 * n /\ -whole * u = -(2 * n)
  <2>1. whole * max \in Nat
    OBVIOUS
  <2>2. whole * u = 2 * (whole * max)
    OBVIOUS
  <2> QED
    BY <2>1, <2>2
<1>3. -n <= h /\ h <= n /\ 2 * h - x \in {0, 1}
  BY <1>1, <1>2
<1>4. trunc(x, u) <= whole - 1
  <2>1. CASE x >= 0
    <3>1. PICK q \in Int, r \in 0..(u - 1) : q = x \div u /\ x = q * u + r
      BY <1>2, DivisionPicks
    <3>2. ~(q >= whole)
      <4> SUFFICES ASSUME q >= whole PROVE FALSE
        OBVIOUS
      <4>1. q * u >= whole * u
        BY <1>2
      <4> QED
        BY <1>2, <3>1, <4>1
    <3> QED
      BY <2>1, <3>1, <3>2 DEF trunc
  <2>2. CASE x < 0
    <3>1. PICK q \in Int, r \in 0..(u - 1) : q = (-x) \div u /\ -x = q * u + r
      <4>1. PICK y \in Int : y = -x
        OBVIOUS
      <4>2. \E q \in Int, r \in 0..(u - 1) : q = y \div u /\ y = q * u + r
        BY <1>2, DivisionPicks
      <4> QED
        BY <4>1, <4>2
    <3>2. ~(q <= -1)
      <4> SUFFICES ASSUME q <= -1 PROVE FALSE
        OBVIOUS
      <4>1. q * u <= -u
        BY <1>2
      <4> QED
        BY <1>2, <2>2, <3>1, <4>1
    <3> QED
      BY <2>2, <3>1, <3>2 DEF trunc
  <2> QED
    BY <2>1, <2>2
<1>5. trunc(x, u) \in Int
  BY <1>2, IntegersDivide
<1> QED
  BY <1>1, <1>3, <1>4, <1>5

LEMMA DecimalsAccepted ==
  ASSUME NEW l \in Seq(JSValue), Len(l) > 1,
         \A i \in 1..Len(l) : l[i].type = "number",
         NEW j \in 1..Len(l), ~isInteger(l[j]),
         NEW whole, whole = 2 ^ (fix_whole_bitlength - fix_decimal_bitlength),
         \A i \in 1..Len(l) :
           l[i].val > -whole * Unit /\ l[i].val < whole * Unit
  PROVE  /\ convertUserInput(l)
              = [i \in 1..Len(l) |-> number(((l[i].val + 1) \div 2) * Unit)]
         /\ \A i \in 1..Len(l) :
              LET k == (l[i].val + 1) \div 2 IN
              /\ k \in Int /\ -MAX_SAFE_INTEGER <= k /\ k <= MAX_SAFE_INTEGER
              /\ 2 * k - l[i].val \in {0, 1}
<1>1. ~listComparison(l, "integers")
  BY IntegersCompare
<1>2. listComparison(l, "numbers")
  <2>1. \A i, k \in 1..Len(l) : compare(l[i], l[k], "numbers")
    BY DEF compare, isNumber
  <2> QED
    BY <2>1, AllCompare
<1>3. PICK max \in Nat \ {0}, n \in Nat :
        /\ whole \in Nat \ {0} /\ Unit = 2 * max /\ n = whole * max
        /\ n <= MAX_SAFE_INTEGER
  BY FixedPointUnits
<1>4. MAX_SAFE_INTEGER \in Nat
  BY WidthAssumption
<1>5. ASSUME NEW i \in 1..Len(l)
      PROVE  LET k == (l[i].val + 1) \div 2 IN
             /\ k \in Int /\ -MAX_SAFE_INTEGER <= k /\ k <= MAX_SAFE_INTEGER
             /\ 2 * k - l[i].val \in {0, 1}
             /\ jsNumberToShiftedInteger(l[i]) = number(k * Unit)
             /\ number(k * Unit) \in JSValue
  <2>1. PICK x \in Int, k \in Int : x = l[i].val /\ k = (x + 1) \div 2
    <3>1. l[i] \in JSValue
      OBVIOUS
    <3>2. l[i].val \in Int
      BY <3>1 DEF JSValue
    <3>3. (l[i].val + 1) \div 2 \in Int
      BY <3>2
    <3> QED
      BY <3>2, <3>3
  <2>2. x > -whole * Unit /\ x < whole * Unit
    BY <2>1
  <2>3. /\ k \in Int /\ -n <= k /\ k <= n /\ 2 * k - x \in {0, 1}
        /\ ~(trunc(x, Unit) > whole - 1)
    BY <1>3, <2>1, <2>2, Rounding
  <2>4. jsNumberToShiftedInteger(l[i]) = number(k * Unit)
    BY <2>1, <2>3 DEF jsNumberToShiftedInteger
  <2>5. k * Unit \in Int
    BY <2>3, UnitPositive
  <2>6. number(k * Unit) \in JSValue
    BY <2>5 DEF number, JSValue
  <2>7. -MAX_SAFE_INTEGER <= k /\ k <= MAX_SAFE_INTEGER
    <3>1. -n <= k /\ k <= n
      BY <2>3
    <3>2. n <= MAX_SAFE_INTEGER
      BY <1>3
    <3> QED
      BY <1>4, <3>1, <3>2
  <2> QED
    BY <2>1, <2>3, <2>4, <2>6, <2>7
<1> DEFINE f == [i \in 1..Len(l) |-> jsNumberToShiftedInteger(l[i])]
           g == [i \in 1..Len(l) |-> number(((l[i].val + 1) \div 2) * Unit)]
<1>6. f = g
  BY <1>5
<1>7. g \in Seq(JSValue)
  BY <1>5
<1>8. orError(g) = g
  <2> HIDE DEF g
  <2> QED
    BY <1>7, ErrorAssumption, NoErrorInList
<1>9. convertUserInput(l) = g
  BY <1>1, <1>2, <1>6, <1>8 DEF convertUserInput
<1> QED
  BY <1>5, <1>9

\* Under a mask and out again: K are the integers that the values stand for
Stands(v, K) ==
  /\ v \in Seq(JSValue) /\ K \in Seq(Int) /\ Len(K) = Len(v)
  /\ \A i \in 1..Len(v) :
       /\ v[i].val = K[i] * Unit
       /\ -MAX_SAFE_INTEGER <= K[i] /\ K[i] <= MAX_SAFE_INTEGER

LEMMA MaskedBack ==
  ASSUME NEW v, NEW K, Stands(v, K), NEW ms \in Seq(Int), Len(ms) = Len(v)
  PROVE  /\ maskInputs(v, ms) # Error
         /\ maskInputs(v, ms) \in Seq(Int) /\ Len(maskInputs(v, ms)) = Len(v)
         /\ \A i \in 1..Len(v) :
              /\ gfpUnmapped(K[i]) \in 0..(GFP_PRIME - 1)
              /\ toJSInteger(gfpUnmapped(K[i])) = K[i]
              /\ (maskInputs(v, ms)[i] - ms[i]) % GFP_PRIME = gfpUnmapped(K[i])
<1> DEFINE f == [i \in 1..Len(v) |-> fromUserInput(v[i])]
           masked == [i \in 1..Len(v) |-> add(ms[i], f[i])]
<1>1. v \in Seq(JSValue) /\ K \in Seq(Int) /\ Len(K) = Len(v) /\ Len(v) \in Nat
  BY DEF Stands
<1>2. ASSUME NEW i \in 1..Len(v)
      PROVE  /\ K[i] \in Int /\ fromUserInput(v[i]) = gfpUnmapped(K[i])
             /\ gfpUnmapped(K[i]) \in 0..(GFP_PRIME - 1)
             /\ toJSInteger(gfpUnmapped(K[i])) = K[i]
  <2>1. K[i] \in Int
    BY <1>1
  <2>2. /\ v[i].val = K[i] * Unit
        /\ -MAX_SAFE_INTEGER <= K[i] /\ K[i] <= MAX_SAFE_INTEGER
    BY DEF Stands
  <2>3. (K[i] * Unit) % Unit = 0 /\ (K[i] * Unit) \div Unit = K[i]
    BY <2>1, UnitPositive, MultipleDivides
  <2>4. fromUserInput(v[i]) = gfpUnmapped(K[i])
    BY <2>2, <2>3 DEF fromUserInput
  <2> QED
    BY <2>1, <2>2, <2>4, SafeInteger
<1>3. f \in Seq(Int)
  <2>1. \A i \in 1..Len(v) : fromUserInput(v[i]) \in Int
    BY <1>2
  <2> QED
    BY <1>1, <2>1
<1>4. orError(f) = f /\ f # Error
  <2> HIDE DEF f
  <2> QED
    BY <1>3, ErrorAssumption, NoErrorInList
<1>5. maskInputs(v, ms) = masked
  BY <1>4 DEF maskInputs
<1>6. ASSUME NEW i \in 1..Len(v)
      PROVE  /\ masked[i] = add(ms[i], gfpUnmapped(K[i])) /\ masked[i] \in Int
             /\ ms[i] \in Int
  <2>1. ms[i] \in Int
    BY <1>1
  <2>2. f[i] = gfpUnmapped(K[i]) /\ masked[i] = add(ms[i], f[i])
    BY <1>2
  <2>3. gfpUnmapped(K[i]) \in Int
    BY <1>2
  <2> HIDE DEF f, masked
  <2> QED
    BY <2>1, <2>2, <2>3, AddType
<1>7. masked \in Seq(Int) /\ Len(masked) = Len(v)
  <2>1. \A i \in 1..Len(v) : add(ms[i], f[i]) \in Int
    BY <1>6
  <2> HIDE DEF f
  <2> QED
    BY <1>1, <2>1
<1>8. masked # Error
  <2> HIDE DEF masked
  <2> QED
    BY <1>7, ErrorAssumption
<1>9. ASSUME NEW i \in 1..Len(v)
      PROVE  (masked[i] - ms[i]) % GFP_PRIME = gfpUnmapped(K[i])
  <2> HIDE DEF masked
  <2> QED
    BY <1>2, <1>6, MaskRemoved
<1> HIDE DEF f, masked
<1> QED
  BY <1>2, <1>5, <1>7, <1>8, <1>9

\* A fixed point number comes out as twice its digits, in halves of the last
LEMMA ShiftedBack ==
  ASSUME NEW v \in Int
  PROVE  shiftedIntegerToJSFixed(v) = 2 * v
<1>1. PICK max \in Nat \ {0} : max = 2 ^ fix_decimal_bitlength /\ Unit = 2 * max
  BY FixedPointUnits
<1>2. Unit \div max = 2
  <2>1. (2 * max) \div max = 2
    BY MultipleDivides
  <2> QED
    BY <1>1, <2>1
<1>3. PICK t \in Int : t = trunc(v, max)
  BY IntegersDivide
<1>4. shiftedIntegerToJSFixed(v) = t * (2 * max) + (v - t * max) * 2
  BY <1>1, <1>2, <1>3 DEF shiftedIntegerToJSFixed
<1>5. PICK z \in Int : z = t * max
  OBVIOUS
<1>6. t * (2 * max) = 2 * z
  BY <1>5
<1> QED
  BY <1>4, <1>5, <1>6

\* Results that are all the same convert to what each of them holds
LEMMA SameOutput ==
  ASSUME NEW n \in Nat \ {0}, NEW b, DOMAIN b = 1..n, Len(b) = n,
         NEW m, \A p \in 1..n : b[p] = m,
         m.words \in Seq(0..(GFP_PRIME - 1)), m.words # <<>>
  PROVE  LET w == m.words IN
         /\ m.type = "CLEAR_MODP_INT" /\ m.width = INTEGER_LENGTH_BYTES =>
              convertOutput(b)
                = orError([i \in 1..Len(w) |-> toJSInteger(w[i])])
         /\ m.type = "CLEAR_MODP_FIX" /\ m.width = INTEGER_LENGTH_BYTES =>
              convertOutput(b)
                = orError([i \in 1..Len(w) |-> toJSFixedPoint(w[i])])
<1> DEFINE w == m.words
           width == INTEGER_LENGTH_BYTES
           arrays == [p \in 1..n |-> extracted(b[p].words, width)]
           gfps == [i \in 1..Len(w) |-> gfpMapped(w[i])]
<1>1. \A i \in 1..Len(w) : gfpMapped(w[i]) = w[i] /\ w[i] \in Int
  BY PrimePositive DEF gfpMapped
<1>2. gfps = w /\ w \in Seq(Int)
  BY SMTT(30), <1>1
<1>3. orError(w) = w
  <2> HIDE DEF w
  <2> QED
    BY <1>2, ErrorAssumption, NoErrorInList
<1>4. extracted(w, width) = w
  BY <1>2, <1>3 DEF extracted
<1>5. w # Error /\ Len(w) > 0
  <2> HIDE DEF w
  <2>1. w # Error
    BY <1>2, ErrorAssumption
  <2>2. w # <<>>
    BY DEF w
  <2> QED
    BY <1>2, <2>1, <2>2
<1>6. \A p \in 1..n : arrays[p] = w
  BY <1>4
<1>7. 1 \in 1..n /\ n \in 1..n
  OBVIOUS
<1>8. CASE m.width = width
  <2>1. Len(arrays) = n
    OBVIOUS
  <2> HIDE DEF w, arrays
  <2>2. allSame(arrays)
    BY <1>5, <1>6, <1>7, <2>1 DEF allSame
  <2>3. \A p \in 1..n : arrays[p] # Error
    BY <1>5, <1>6
  <2>4. checkBuffer(b, width)
    BY <1>8 DEF checkBuffer
  <2>5. b # <<>>
    BY <1>7
  <2>6. binaryToArray(b, width) = arrays[1]
    BY <2>2, <2>3, <2>4, <2>5 DEF binaryToArray, arrays
  <2>7. binaryToGfpArray(b) = w
    BY <1>6, <1>7, <2>6 DEF binaryToGfpArray
  <2>8. b[Len(b)].type = m.type
    BY <1>7
  <2> QED
    BY <1>5, <2>7, <2>8 DEF convertOutput, w
<1> QED
  BY <1>8

LEMMA SameIntegers ==
  ASSUME NEW n \in Nat \ {0}, NEW b, DOMAIN b = 1..n, Len(b) = n,
         NEW m, \A p \in 1..n : b[p] = m,
         m.words \in Seq(Int), m.words # <<>>,
         m.type = "INT_32", m.width = 4
  PROVE  convertOutput(b) = m.words
<1> DEFINE w == m.words
           arrays == [p \in 1..n |-> extracted(b[p].words, 4)]
<1>1. \A p \in 1..n : arrays[p] = w
  BY DEF extracted, INTEGER_LENGTH_BYTES
<1>2. 1 \in 1..n /\ n \in 1..n /\ Len(arrays) = n
  OBVIOUS
<1>3. w # Error /\ Len(w) > 0
  <2>1. w \in Seq(Int) /\ w # <<>>
    OBVIOUS
  <2> HIDE DEF w
  <2> QED
    BY <2>1, ErrorAssumption
<1> HIDE DEF w, arrays
<1>4. allSame(arrays) /\ \A p \in 1..n : arrays[p] # Error
  BY <1>1, <1>2, <1>3 DEF allSame
<1>5. checkBuffer(b, 4) /\ b # <<>>
  BY <1>2 DEF checkBuffer
<1>6. binaryToArray(b, 4) = w
  BY <1>1, <1>2, <1>4, <1>5 DEF binaryToArray, arrays
<1>7. b[Len(b)].type = "INT_32"
  BY <1>2
<1> QED
  BY <1>6, <1>7 DEF convertOutput, binaryToIntArray, w

\* Share messages that add up to masks are those masks, or an error
LEMMA SharesJoined ==
  ASSUME NEW n \in Nat \ {0}, NEW b, DOMAIN b = 1..n, Len(b) = n,
         NEW ms \in Seq(0..(GFP_PRIME - 1)),
         Len(b[1].words) = 3 * Len(ms),
         \A i \in 1..Len(ms) :
           SharesOf([p \in 1..n |-> b[p].words[3 * (i - 1) + 1]], n, ms[i],
                    3 * (i - 1) + 1)
  PROVE  binaryToShare(b) \in {Error, ms}
<1>1. Len(ms) \in Nat
  OBVIOUS
<1>2. (3 * Len(ms)) \div 3 = Len(ms)
  <2>1. 3 * Len(ms) = Len(ms) * 3 /\ 3 \in Nat \ {0}
    BY <1>1
  <2> QED
    BY <1>1, <2>1, MultipleDivides
<1>3. ASSUME NEW i \in 1..Len(ms) PROVE combined(b, i)[1] = ms[i]
  <2> DEFINE s == [p \in 1..n |-> b[p].words[3 * (i - 1) + 1]]
  <2>1. combined(b, i)[1] = sumOf(s)
    BY DEF combined
  <2>2. SharesOf(s, n, ms[i], 3 * (i - 1) + 1)
    OBVIOUS
  <2>3. ms[i] \in 0..(GFP_PRIME - 1)
    BY ElementOfSeq
  <2>4. 3 * (i - 1) + 1 \in Int
    OBVIOUS
  <2> HIDE DEF s
  <2> QED
    BY <2>1, <2>2, <2>3, <2>4, SharesAddUp
<1>4. [i \in 1..Len(ms) |-> combined(b, i)[1]] = ms
  <2>1. [i \in 1..Len(ms) |-> combined(b, i)[1]] = [i \in 1..Len(ms) |-> ms[i]]
    BY <1>3
  <2> QED
    BY <2>1
<1>5. binaryToShare(b) = Error \/
      binaryToShare(b) = [i \in 1..Len(ms) |-> combined(b, i)[1]]
  BY <1>2 DEF binaryToShare
<1> QED
  BY <1>4, <1>5
=============================================================================

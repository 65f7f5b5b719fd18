------------------------------ MODULE CrcProofs ------------------------------
(***************************************************************************)
(* The checksum of a message of even length, for every polynomial of at    *)
(* least two terms and messages of any length.                             *)
(***************************************************************************)
EXTENDS Crc, FiniteSetTheorems, SequenceTheorems, TLAPS

----------------------------------------------------------------------------
(* Numbers *)

LEMMA LeastOf ==
  ASSUME NEW S \in SUBSET Nat, S # {}
  PROVE  \E m \in S : \A n \in S : m <= n
<1>1. IsWellFoundedOn(OpToRel(<, Nat), Nat)  BY NatLessThanWellFounded
<1>2. PICK m \in S : \A n \in S : ~(<<n, m>> \in OpToRel(<, Nat))
  BY <1>1, WFMin
<1>3. ASSUME NEW n \in S PROVE m <= n
  <2>1. <<n, m>> \notin {ss \in Nat \X Nat : ss[1] < ss[2]}
    BY <1>2 DEF OpToRel
  <2> QED  BY <2>1
<1> QED  BY <1>3

LEMMA GreatestOf ==
  ASSUME NEW S \in SUBSET Nat, S # {}, NEW b \in Nat, \A n \in S : n <= b
  PROVE  \E m \in S : \A n \in S : n <= m
<1> DEFINE T == {k \in Nat : \E n \in S : k = b - n}
<1>1. T \in SUBSET Nat /\ T # {}
  <2>1. PICK n \in S : TRUE  OBVIOUS
  <2>2. b - n \in T  BY <2>1
  <2> QED  BY <2>2
<1>2. PICK k \in T : \A l \in T : k <= l  BY <1>1, LeastOf
<1>3. PICK m \in S : k = b - m  BY <1>2
<1>4. ASSUME NEW n \in S PROVE n <= m
  <2>1. b - n \in T  OBVIOUS
  <2> QED  BY <1>2, <1>3, <2>1
<1> QED  BY <1>4

\* Division by a constant that has no value yet.
LEMMA DivMod ==
  ASSUME NEW n \in Nat, n > 0, NEW q \in Nat, NEW r \in 0..(n - 1)
  PROVE  (n * q + r) \div n = q /\ (n * q + r) % n = r
  BY Z3

LEMMA DivModIs ==
  ASSUME NEW n \in Nat, n > 0, NEW x \in Nat
  PROVE  /\ x \div n \in Nat /\ x % n \in 0..(n - 1)
         /\ x = n * (x \div n) + (x % n)
<1>1. x \div n \in Nat  BY SMT
<1>2. x % n \in 0..(n - 1)  BY SMT
<1>3. x = n * (x \div n) + (x % n)  BY SMT
<1> QED  BY <1>1, <1>2, <1>3, Zenon

\* Bits that are added.
LEMMA AddBit ==
  ASSUME NEW b \in {0, 1}
  PROVE  (b + 0) % 2 = b /\ (b + 1) % 2 = 1 - b
OBVIOUS

LEMMA EvenAddBoth ==
  ASSUME NEW b \in {0, 1}, NEW w \in {0, 1}, NEW c \in Nat,
         (b + w + c) % 2 = 0
  PROVE  ((1 - b) + w + (c + 1)) % 2 = 0
OBVIOUS

LEMMA EvenBoth ==
  ASSUME NEW w \in {0, 1}, NEW s \in Nat, NEW t \in Nat,
         (w + s) % 2 = 0, (w + t) % 2 = 0
  PROVE  s # t + 1 /\ t # s + 1
OBVIOUS

LEMMA EvenMissing ==
  ASSUME NEW b \in {0, 1}, NEW w \in {0, 1}, NEW s \in Nat, NEW t \in Nat,
         (w + s) % 2 = 0, (b + w + t) % 2 = 0
  PROVE  (s = t + 1 => b = 1) /\ (s = t => b = 0)
<1>1. (s = t + 1 => b = 1)  OBVIOUS
<1>2. s = t => b = 0  OBVIOUS
<1> QED  BY <1>1, <1>2

----------------------------------------------------------------------------
(* Adding the polynomial at some places of a word *)

\* The places of S at which the polynomial has a 1 at bit k of the word.
Ones(S, k) == {i \in S : k - i + 1 \in 1..Width /\ Poly[k - i + 1] = 1}

LEMMA PolyType ==
  /\ Width \in Nat \ {0, 1} /\ Half \in Nat \ {0} /\ Width = 2 * Half
  /\ \A k \in 1..Width : Poly[k] \in {0, 1}
  /\ Poly[1] = 1 /\ \E k \in 2..Width : Poly[k] = 1
<1>1. Width \in Nat /\ \A k \in 1..Width : Poly[k] \in Bit
  BY PolyAssumption, LenProperties, ElementOfSeq DEF Width
<1>2. /\ Width % 2 = 0 /\ Width > 0
      /\ Poly[1] = 1 /\ \E k \in 2..Width : Poly[k] = 1
  BY PolyAssumption
<1>3. Width \in Nat \ {0, 1} /\ Half \in Nat \ {0} /\ Width = 2 * Half
  BY <1>1, <1>2 DEF Half
<1> QED  BY <1>1, <1>2, <1>3 DEF Bit

LEMMA OnesFinite ==
  ASSUME NEW n \in Int, NEW S \in SUBSET (1..n), NEW k \in Int
  PROVE  /\ IsFiniteSet(Ones(S, k)) /\ Cardinality(Ones(S, k)) \in Nat
<1>1. IsFiniteSet(1..n)  BY FS_Interval
<1>2. Ones(S, k) \in SUBSET (1..n)  BY DEF Ones
<1> QED  BY <1>1, <1>2, FS_Subset, FS_CardinalityType

\* One more place.
Has(i, k) == k - i + 1 \in 1..Width /\ Poly[k - i + 1] = 1

LEMMA OnesAdd ==
  ASSUME NEW n \in Int, NEW S \in SUBSET (1..n), NEW i \in Nat, i \notin S,
         NEW k \in Int
  PROVE  Cardinality(Ones(S \cup {i}, k))
            = Cardinality(Ones(S, k)) + IF Has(i, k) THEN 1 ELSE 0
<1>1. IsFiniteSet(Ones(S, k)) /\ Cardinality(Ones(S, k)) \in Nat
  BY OnesFinite
<1>2. CASE Has(i, k)
  <2>1. Ones(S \cup {i}, k) = Ones(S, k) \cup {i} /\ i \notin Ones(S, k)
    BY <1>2 DEF Ones, Has
  <2> QED  BY <1>1, <1>2, <2>1, FS_AddElement
<1>3. CASE ~Has(i, k)
  <2>1. Ones(S \cup {i}, k) = Ones(S, k)  BY <1>3 DEF Ones, Has
  <2> QED  BY <1>1, <1>3, <2>1
<1> QED  BY <1>2, <1>3

\* What is left, at place i, of word w to which the polynomial was added at S.
Reduced(b, w, S, i) ==
  /\ S \in SUBSET (1..(i - 1))
  /\ b \in [1..Len(w) -> Bit]
  /\ \A k \in 1..Len(w) : (b[k] + w[k] + Cardinality(Ones(S, k))) % 2 = 0
  /\ \A k \in 1..(i - 1) : b[k] = 0

LEMMA ReduceStep ==
  ASSUME NEW w \in Seq(Bit), NEW b, NEW S, NEW i \in Nat \ {0},
         Reduced(b, w, S, i), i + Width <= Len(w)
  PROVE  Reduced(Reduce(b, i), w, IF b[i] = 1 THEN S \cup {i} ELSE S, i + 1)
<1>1. Len(w) \in Nat /\ \A k \in 1..Len(w) : w[k] \in {0, 1}
  BY LenProperties, ElementOfSeq DEF Bit
<1>2. /\ S \in SUBSET (1..(i - 1))
      /\ b \in [1..Len(w) -> {0, 1}]
      /\ \A k \in 1..Len(w) : (b[k] + w[k] + Cardinality(Ones(S, k))) % 2 = 0
      /\ \A k \in 1..(i - 1) : b[k] = 0
  BY DEF Reduced, Bit
<1>3. i \in 1..Len(w) /\ b[i] \in {0, 1}  BY <1>1, <1>2, PolyType
<1>4. CASE b[i] = 1
  <2> DEFINE c == Reduce(b, i)
             T == S \cup {i}
  <2>1. c = [k \in 1..Len(w) |-> IF k \in i..(i + Width - 1)
                             THEN (b[k] + Poly[k - i + 1]) % 2 ELSE b[k]]
    BY <1>2, <1>4 DEF Reduce
  <2>2. T \in SUBSET (1..((i + 1) - 1))  BY <1>2
  <2>3. ASSUME NEW k \in 1..Len(w)
        PROVE  /\ c[k] \in {0, 1}
               /\ (c[k] + w[k] + Cardinality(Ones(T, k))) % 2 = 0
    <3> k \in Int /\ i - 1 \in Int /\ i \notin S  BY <1>2
    <3>1. Cardinality(Ones(T, k))
            = Cardinality(Ones(S, k)) + IF Has(i, k) THEN 1 ELSE 0
      BY <1>2, OnesAdd
    <3>2. Cardinality(Ones(S, k)) \in Nat  BY <1>2, OnesFinite
    <3>3. (b[k] + w[k] + Cardinality(Ones(S, k))) % 2 = 0
          /\ b[k] \in {0, 1} /\ w[k] \in {0, 1}
      BY <1>1, <1>2
    <3>4. CASE k \in i..(i + Width - 1)
      <4>1. k - i + 1 \in 1..Width /\ Poly[k - i + 1] \in {0, 1}
        BY <3>4, PolyType
      <4>2. c[k] = (b[k] + Poly[k - i + 1]) % 2  BY <2>1, <3>4
      <4>3. CASE Poly[k - i + 1] = 1
        <5>1. Has(i, k)  BY <4>1, <4>3 DEF Has
        <5>2. c[k] = 1 - b[k]  BY <3>3, <4>2, <4>3, AddBit
        <5>3. Cardinality(Ones(T, k)) = Cardinality(Ones(S, k)) + 1
          BY <3>1, <5>1
        <5>4. c[k] \in {0, 1}  BY <3>3, <5>2
        <5> HIDE DEF c, T
        <5> QED  BY <3>2, <3>3, <5>2, <5>3, <5>4, EvenAddBoth
      <4>4. CASE Poly[k - i + 1] = 0
        <5>1. ~Has(i, k)  BY <4>4 DEF Has
        <5>2. c[k] = b[k]  BY <3>3, <4>2, <4>4, AddBit
        <5> QED  BY <3>1, <3>2, <3>3, <5>1, <5>2
      <4> QED  BY <4>1, <4>3, <4>4
    <3>5. CASE k \notin i..(i + Width - 1)
      <4>1. ~Has(i, k)  BY <3>5, PolyType DEF Has
      <4>2. c[k] = b[k]  BY <2>1, <3>5
      <4> QED  BY <3>1, <3>2, <3>3, <4>1, <4>2
    <3> QED  BY <3>4, <3>5
  <2>4. c \in [1..Len(w) -> Bit]  BY <2>1, <2>3 DEF Bit
  <2>5. ASSUME NEW k \in 1..((i + 1) - 1) PROVE c[k] = 0
    <3>1. k \in 1..Len(w)  BY <1>3
    <3>2. CASE k = i
      <4>1. k \in i..(i + Width - 1) /\ k - i + 1 = 1  BY <3>2, PolyType
      <4>2. c[k] = (b[k] + Poly[1]) % 2  BY <2>1, <3>1, <4>1
      <4> QED  BY <1>4, <3>2, <4>2, PolyType
    <3>3. CASE k # i
      <4>1. k \in 1..(i - 1)  BY <3>3
      <4>2. c[k] = b[k]  BY <2>1, <3>1, <4>1
      <4> QED  BY <1>2, <4>1, <4>2
    <3> QED  BY <3>2, <3>3
  <2> HIDE DEF c, T
  <2>6. Reduced(c, w, T, i + 1)  BY <2>2, <2>3, <2>4, <2>5 DEF Reduced
  <2> QED  BY <1>4, <2>6 DEF c, T
<1>5. CASE b[i] = 0
  <2>1. Reduce(b, i) = b  BY <1>5 DEF Reduce
  <2>2. S \in SUBSET (1..((i + 1) - 1))  BY <1>2
  <2>3. \A k \in 1..((i + 1) - 1) : b[k] = 0  BY <1>2, <1>5
  <2>4. Reduced(b, w, S, i + 1)  BY <1>2, <2>2, <2>3 DEF Reduced, Bit
  <2> QED  BY <1>5, <2>1, <2>4
<1> QED  BY <1>3, <1>4, <1>5

----------------------------------------------------------------------------
(* Words that are sent *)

\* A word that is the sum of the polynomial at the places S, but for the bits
\* F that are wrong.
SumOf(w, S, F) ==
  /\ w \in Seq(Bit)
  /\ S \in SUBSET (1..(Len(w) - Width))
  /\ \A k \in 1..Len(w) :
        (w[k] + Cardinality(Ones(S, k)) + (IF k \in F THEN 1 ELSE 0)) % 2 = 0

LEMMA SumOfParts ==
  ASSUME NEW w, NEW S, NEW F, SumOf(w, S, F)
  PROVE  /\ Len(w) \in Nat /\ S \in SUBSET (1..(Len(w) - Width))
         /\ \A k \in 1..Len(w) :
              /\ w[k] \in {0, 1} /\ Cardinality(Ones(S, k)) \in Nat
              /\ k \notin F => (w[k] + Cardinality(Ones(S, k))) % 2 = 0
              /\ k \in F => (w[k] + Cardinality(Ones(S, k)) + 1) % 2 = 0
<1>1. Len(w) \in Nat /\ S \in SUBSET (1..(Len(w) - Width))
  BY LenProperties DEF SumOf
<1>2. ASSUME NEW k \in 1..Len(w)
      PROVE  /\ w[k] \in {0, 1} /\ Cardinality(Ones(S, k)) \in Nat
             /\ k \notin F => (w[k] + Cardinality(Ones(S, k))) % 2 = 0
             /\ k \in F => (w[k] + Cardinality(Ones(S, k)) + 1) % 2 = 0
  <2>1. w[k] \in {0, 1}  BY ElementOfSeq DEF SumOf, Bit
  <2>2. Len(w) - Width \in Int /\ k \in Int  BY <1>1, PolyType
  <2>3. Cardinality(Ones(S, k)) \in Nat  BY <1>1, <2>2, OnesFinite
  <2>4. (w[k] + Cardinality(Ones(S, k)) + (IF k \in F THEN 1 ELSE 0)) % 2 = 0
    BY DEF SumOf
  <2> QED  BY <2>1, <2>3, <2>4
<1> QED  BY <1>1, <1>2

\* An intact word is reduced at the very places of which it is the sum.
LEMMA SamePlaces ==
  ASSUME NEW w, NEW S, SumOf(w, S, {}), NEW b, NEW i \in Nat \ {0},
         Reduced(b, w, S \cap 1..(i - 1), i), i <= Len(w)
  PROVE  b[i] = 1 <=> i \in S
<1> DEFINE T == S \cap 1..(i - 1)
           s == Cardinality(Ones(S, i))
           t == Cardinality(Ones(T, i))
<1>1. i \in 1..Len(w) /\ i \in Int /\ i - 1 \in Int  BY SumOfParts
<1>2. (w[i] + s) % 2 = 0 /\ w[i] \in {0, 1} /\ s \in Nat
  BY <1>1, SumOfParts
<1>3. b[i] \in {0, 1} /\ (b[i] + w[i] + t) % 2 = 0
  BY <1>1 DEF Reduced, Bit
<1>4. T \in SUBSET (1..(i - 1)) /\ i \notin T  BY <1>1
<1>5. t \in Nat  BY <1>1, <1>4, OnesFinite
<1>6. CASE i \in S
  <2>1. Has(i, i)  BY PolyType DEF Has
  <2>2. Ones(S, i) = Ones(T \cup {i}, i)
    <3>1. \A j \in S : i - j + 1 \in 1..Width => j \in T \cup {i}
      BY SumOfParts, PolyType
    <3> QED  BY <1>6, <3>1 DEF Ones
  <2>3. Cardinality(Ones(T \cup {i}, i)) = t + 1
    BY <1>1, <1>4, <2>1, OnesAdd
  <2>4. s = t + 1  BY <2>2, <2>3
  <2> HIDE DEF s, t
  <2>5. b[i] = 1  BY <1>2, <1>3, <1>5, <2>4, EvenMissing
  <2> QED  BY <1>6, <2>5
<1>7. CASE i \notin S
  <2>1. Ones(S, i) = Ones(T, i)
    <3>1. \A j \in S : i - j + 1 \in 1..Width => j \in T
      BY <1>7, SumOfParts, PolyType
    <3> QED  BY <3>1 DEF Ones
  <2>2. s = t  BY <2>1
  <2> HIDE DEF s, t
  <2>3. b[i] = 0  BY <1>2, <1>3, <1>5, <2>2, EvenMissing
  <2> QED  BY <1>7, <2>3
<1> QED  BY <1>6, <1>7

\* At a bit where only one of two sums has one more polynomial, they differ.
OneMoreAt(S, T, i, k) ==
  /\ Has(i, k) /\ i \in S /\ i \notin T
  /\ \A j \in (S \cup T) \ {i} : Has(j, k) => j \in S /\ j \in T

LEMMA OneMore ==
  ASSUME NEW n \in Int, NEW S \in SUBSET (1..n), NEW T \in SUBSET (1..n),
         NEW i \in Nat, NEW k \in Int, OneMoreAt(S, T, i, k)
  PROVE  Cardinality(Ones(S, k)) = Cardinality(Ones(T, k)) + 1
<1>1. Ones(S, k) = Ones(T \cup {i}, k)  BY DEF Ones, Has, OneMoreAt
<1>2. i \notin T /\ Has(i, k)  BY DEF OneMoreAt
<1>3. Cardinality(Ones(T \cup {i}, k)) = Cardinality(Ones(T, k)) + 1
  BY <1>2, OnesAdd
<1> QED  BY <1>1, <1>3, Zenon

\* Two sums differ at the bit k if one has one more polynomial there.
LEMMA DifferAt ==
  ASSUME NEW w, NEW S, NEW T, NEW F, SumOf(w, S, F), SumOf(w, T, {}),
         NEW i \in Nat, NEW k \in 1..Len(w), Has(i, k),
         i \in S <=> i \notin T,
         \A j \in (S \cup T) \ {i} : Has(j, k) => j \in S /\ j \in T
  PROVE  k \in F
<1> DEFINE s == Cardinality(Ones(S, k))
           t == Cardinality(Ones(T, k))
<1>1. /\ s \in Nat /\ t \in Nat /\ w[k] \in {0, 1} /\ (w[k] + t) % 2 = 0
      /\ k \notin F => (w[k] + s) % 2 = 0
  BY SumOfParts
<1>2. Len(w) - Width \in Int /\ k \in Int  BY SumOfParts, PolyType
<1>3. S \in SUBSET (1..(Len(w) - Width)) /\ T \in SUBSET (1..(Len(w) - Width))
  BY SumOfParts
<1>4. s = t + 1 \/ t = s + 1
  <2> DEFINE n == Len(w) - Width
  <2>0. S \in SUBSET (1..n) /\ T \in SUBSET (1..n) /\ n \in Int /\ k \in Int
    BY <1>2, <1>3
  <2> HIDE DEF n
  <2>1. CASE i \in S
    <3>1. OneMoreAt(S, T, i, k)  BY <2>1 DEF OneMoreAt
    <3> QED  BY <2>0, <3>1, OneMore, Zenon
  <2>2. CASE i \notin S
    <3>1. OneMoreAt(T, S, i, k)  BY <2>2 DEF OneMoreAt
    <3> QED  BY <2>0, <3>1, OneMore, Zenon
  <2> QED  BY <2>1, <2>2
<1> HIDE DEF s, t
<1> QED  BY <1>1, <1>4, EvenBoth

\* A word with one wrong bit is no sum: the first and the last polynomial
\* that only one of two sums has leave two bits wrong.
LEMMA OneWrongBit ==
  ASSUME NEW w, NEW S, NEW T, NEW f \in 1..Len(w),
         SumOf(w, S, {f}), SumOf(w, T, {})
  PROVE  FALSE
<1> DEFINE D == {i \in S \cup T : i \in S <=> i \notin T}
<1>1. Len(w) \in Nat /\ Width \in Nat  BY SumOfParts, PolyType
<1>2. \A i \in S \cup T : i \in Nat /\ 1 <= i /\ i <= Len(w) - Width
  BY <1>1, SumOfParts
<1>3. D # {}
  <2> SUFFICES ASSUME D = {} PROVE FALSE  OBVIOUS
  <2>1. S = T  OBVIOUS
  <2> DEFINE s == Cardinality(Ones(S, f))
  <2>2. /\ s \in Nat /\ w[f] \in {0, 1}
        /\ (w[f] + s) % 2 = 0 /\ (w[f] + s + 1) % 2 = 0
    BY <2>1, SumOfParts
  <2> HIDE DEF s
  <2> QED  BY <2>2
<1>4. D \in SUBSET Nat  BY <1>2
<1>5. PICK l \in D : \A n \in D : l <= n  BY <1>3, <1>4, LeastOf
<1>6. PICK g \in D : \A n \in D : n <= g
  <2>1. \A n \in D : n <= Len(w)  BY <1>1, <1>2
  <2> QED  BY <1>1, <1>3, <1>4, <2>1, GreatestOf
<1>7. l = f
  <2>1. Has(l, l) /\ l \in 1..Len(w)  BY <1>1, <1>2, PolyType DEF Has
  <2>2. \A j \in (S \cup T) \ {l} : Has(j, l) => j \in S /\ j \in T
    BY <1>2, <1>5 DEF Has
  <2>3. l \in {f}  BY <1>4, <2>1, <2>2, DifferAt
  <2> QED  BY <2>3
<1>8. PICK z \in 2..Width : /\ Poly[z] = 1
                            /\ \A y \in 1..Width : Poly[y] = 1 => y <= z
  <2> DEFINE P == {k \in 2..Width : Poly[k] = 1}
  <2>1. P \in SUBSET Nat /\ P # {}  BY PolyType
  <2>2. \A n \in P : n <= Width  BY <1>1
  <2>3. PICK z \in P : \A n \in P : n <= z  BY <1>1, <2>1, <2>2, GreatestOf
  <2>4. \A y \in 1..Width : Poly[y] = 1 => y <= z  BY <1>1, <2>3
  <2> QED  BY <2>3, <2>4
<1>9. g + z - 1 = f
  <2> DEFINE k == g + z - 1
  <2>1. Has(g, k) /\ k \in 1..Len(w)  BY <1>1, <1>2, <1>8 DEF Has
  <2>2. ASSUME NEW j \in (S \cup T) \ {g}, Has(j, k) PROVE j \in S /\ j \in T
    <3>1. k - j + 1 <= z  BY <1>8, <2>2 DEF Has
    <3>2. j > g  BY <1>1, <1>2, <1>8, <3>1
    <3>3. j \notin D  BY <1>2, <1>6, <3>2
    <3> QED  BY <3>3
  <2>3. k \in {f}  BY <1>4, <2>1, <2>2, DifferAt
  <2> QED  BY <2>3
<1>10. l <= g /\ l \in Nat /\ g \in Nat  BY <1>4, <1>5, <1>6
<1> QED  BY <1>7, <1>8, <1>9, <1>10

----------------------------------------------------------------------------
(* From bytes to bits *)

IsMessage(d) == d \in Seq(Byte) /\ Len(d) % 2 = 0

LEMMA MessageParts ==
  ASSUME NEW d, IsMessage(d)
  PROVE  /\ Len(d) \in Nat /\ Len(d) % 2 = 0
         /\ \A x \in 1..Len(d) : d[x] \in [1..Half -> {0, 1}]
BY LenProperties, ElementOfSeq DEF IsMessage, Byte, Bit

LEMMA TimesGrows ==
  ASSUME NEW h \in Nat, h > 0, NEW p \in Nat, NEW q \in Nat, p <= q
  PROVE  h * p \in Nat /\ h * p <= h * q
BY Z3

\* The byte and the bit in it that come k-th.
LEMMA WhichBit ==
  ASSUME NEW n \in Nat, n % 2 = 0, NEW k \in 1..(n * Half)
  PROVE  /\ (k - 1) \div Half \in 0..(n - 1)
         /\ Place((k - 1) \div Half) \in 1..n
         /\ ((k - 1) % Half) + 1 \in 1..Half
         /\ k = Half * ((k - 1) \div Half) + ((k - 1) % Half) + 1
<1> DEFINE q == (k - 1) \div Half
           r == (k - 1) % Half
           h == Half
<1>1. h \in Nat /\ h > 0  BY PolyType
<1>2. h * n \in Nat /\ n * h = h * n  BY <1>1
<1>3. k - 1 \in Nat /\ k \in Nat /\ k <= h * n  BY <1>2
<1>4. q \in Nat /\ r \in 0..(h - 1) /\ k - 1 = h * q + r
  BY <1>1, <1>3, DivModIs
<1> HIDE DEF q, r, h
<1>5. h * q \in Nat  BY <1>1, <1>4
<1>6. q \in 0..(n - 1)
  <2> SUFFICES ASSUME n <= q PROVE FALSE  BY <1>4
  <2>1. h * n <= h * q  BY <1>1, <1>4, TimesGrows
  <2> QED  BY <1>2, <1>3, <1>4, <1>5, <2>1
<1>7. Place(q) \in 1..n  BY <1>6 DEF Place
<1>8. r + 1 \in 1..h /\ k = h * q + r + 1  BY <1>1, <1>3, <1>4, <1>5
<1> QED  BY <1>6, <1>7, <1>8 DEF q, r, h

LEMMA BitsWord ==
  ASSUME NEW d, IsMessage(d)
  PROVE  /\ Bits(d) \in Seq(Bit) /\ Len(Bits(d)) = Len(d) * Half
         /\ Len(d) * Half \in Nat /\ DOMAIN Bits(d) = 1..(Len(d) * Half)
         /\ \A k \in 1..(Len(d) * Half) :
              /\ Bits(d)[k]
                   = d[Place((k - 1) \div Half)][((k - 1) % Half) + 1]
              /\ Bits(d)[k] \in {0, 1}
<1> DEFINE n == Len(d) * Half
<1>1. n \in Nat  BY PolyType, MessageParts
<1>2. ASSUME NEW k \in 1..n
      PROVE  /\ Bits(d)[k]
                  = d[Place((k - 1) \div Half)][((k - 1) % Half) + 1]
             /\ Bits(d)[k] \in {0, 1}
  <2>1. Place((k - 1) \div Half) \in 1..Len(d)
        /\ ((k - 1) % Half) + 1 \in 1..Half
    BY MessageParts, WhichBit
  <2>2. Bits(d)[k] = d[Place((k - 1) \div Half)][((k - 1) % Half) + 1]
    BY DEF Bits
  <2> DEFINE x == Place((k - 1) \div Half)
             y == ((k - 1) % Half) + 1
  <2>3. d[x] \in [1..Half -> {0, 1}]  BY <2>1, MessageParts
  <2> HIDE DEF x
  <2>4. d[x][y] \in {0, 1}  BY <2>1, <2>3
  <2> QED  BY <2>2, <2>4 DEF x
<1>3. DOMAIN Bits(d) = 1..n  BY DEF Bits
<1>4. Bits(d) = [k \in 1..n |-> Bits(d)[k]]  BY DEF Bits
<1> HIDE DEF n
<1>5. Bits(d) \in [1..n -> Bit]  BY <1>2, <1>4 DEF Bit
<1>6. Bits(d) \in Seq(Bit) /\ Len(Bits(d)) = n  BY <1>1, <1>5
<1> QED  BY <1>1, <1>2, <1>3, <1>6 DEF n

LEMMA NoBits ==
  /\ Zeros(2) \in Seq(Byte) /\ Len(Zeros(2)) = 2
  /\ \A x \in 1..2 : \A j \in 1..Half : Zeros(2)[x][j] = 0
<1>1. Zeros(2) \in [1..2 -> Byte]  BY PolyType DEF Zeros, Byte, Bit
<1> DEFINE z == Zeros(2)
<1> HIDE DEF z
<1>2. z \in Seq(Byte) /\ Len(z) = 2
  <2>1. z \in [1..2 -> Byte]  BY <1>1 DEF z
  <2> HIDE DEF Byte
  <2> QED  BY <2>1
<1>3. \A x \in 1..2 : \A j \in 1..Half : Zeros(2)[x][j] = 0
  BY DEF Zeros
<1> QED  BY <1>2, <1>3 DEF z

IsCrc(c) == c \in Seq(Byte) /\ Len(c) = 2

\* The two bytes that are appended are one more block, low byte first.
LEMMA BitsAppend ==
  ASSUME NEW d, IsMessage(d), NEW c, IsCrc(c)
  PROVE  /\ IsMessage(d \o c) /\ Len(d \o c) = Len(d) + 2
         /\ \A k \in 1..(Len(d) * Half) : Bits(d \o c)[k] = Bits(d)[k]
         /\ \A j \in 1..Half :
              /\ Bits(d \o c)[Len(d) * Half + j] = c[2][j]
              /\ Bits(d \o c)[Len(d) * Half + Half + j] = c[1][j]
<1> DEFINE L == Len(d)
           e == d \o c
           h == Half
<1>1. L \in Nat /\ L % 2 = 0 /\ h \in Nat /\ h > 0
  BY MessageParts, PolyType
<1>2. /\ e \in Seq(Byte) /\ Len(e) = L + 2
      /\ \A x \in 1..L : e[x] = d[x]
      /\ e[L + 1] = c[1] /\ e[L + 2] = c[2]
  <2>1. d \in Seq(Byte) /\ c \in Seq(Byte) /\ Len(c) = 2
    BY DEF IsMessage, IsCrc
  <2>2. e \in Seq(Byte) /\ Len(e) = L + Len(c)
    BY <2>1, ConcatProperties, Zenon
  <2>3. \A x \in 1..(L + Len(c)) : e[x] = IF x <= L THEN d[x] ELSE c[x - L]
    BY <2>1, ConcatProperties, Zenon
  <2> HIDE DEF e
  <2> QED  BY <1>1, <2>1, <2>2, <2>3
<1> HIDE DEF e
<1>3. IsMessage(e)  BY <1>1, <1>2 DEF IsMessage
<1>4. L * h = h * L /\ h * L \in Nat  BY <1>1, TimesGrows
<1>5. (L + 2) * h = h * L + h + h /\ h * (L + 1) = h * L + h
  BY <1>1
<1>6. \A k \in 1..(h * L + h + h) :
         Bits(e)[k] = e[Place((k - 1) \div h)][((k - 1) % h) + 1]
  BY <1>2, <1>3, <1>5, BitsWord
<1>7. ASSUME NEW k \in 1..(L * h) PROVE Bits(e)[k] = Bits(d)[k]
  <2>1. Place((k - 1) \div h) \in 1..L  BY <1>1, WhichBit
  <2>2. Bits(d)[k] = d[Place((k - 1) \div h)][((k - 1) % h) + 1]
    BY BitsWord
  <2>3. k \in 1..(h * L + h + h)  BY <1>1, <1>4
  <2> QED  BY <1>2, <1>6, <2>1, <2>2, <2>3
<1>8. ASSUME NEW j \in 1..h
      PROVE  /\ Bits(e)[L * h + j] = c[2][j]
             /\ Bits(e)[L * h + h + j] = c[1][j]
  <2> DEFINE k == h * L + j
             l == h * L + h + j
  <2>1. j - 1 \in 0..(h - 1) /\ L + 1 \in Nat  BY <1>1
  <2>2. k - 1 = h * L + (j - 1) /\ l - 1 = h * (L + 1) + (j - 1)
    BY <1>1, <1>4, <1>5
  <2>3. (k - 1) \div h = L /\ (k - 1) % h = j - 1
    BY <1>1, <2>1, <2>2, DivMod
  <2>4. (l - 1) \div h = L + 1 /\ (l - 1) % h = j - 1
    BY <1>1, <2>1, <2>2, DivMod
  <2>5. k \in 1..(h * L + h + h) /\ l \in 1..(h * L + h + h)
    BY <1>1, <1>4
  <2> HIDE DEF k, l
  <2>6. Place(L) = L + 2 /\ Place(L + 1) = L + 1  BY <1>1 DEF Place
  <2>7. (j - 1) + 1 = j  OBVIOUS
  <2>8. Bits(e)[k] = e[L + 2][j]  BY <1>6, <2>3, <2>5, <2>6, <2>7
  <2>9. Bits(e)[l] = e[L + 1][j]  BY <1>6, <2>4, <2>5, <2>6, <2>7
  <2> QED  BY <1>2, <1>4, <2>8, <2>9 DEF k, l
<1> QED  BY <1>2, <1>3, <1>7, <1>8 DEF e

\* One more block for the checksum: it is zero.
LEMMA BitsPadded ==
  ASSUME NEW d, IsMessage(d)
  PROVE  /\ IsMessage(Padded(d)) /\ Len(Padded(d)) = Len(d) + 2
         /\ Len(Bits(Padded(d))) = Len(d) * Half + Width
         /\ \A k \in 1..(Len(d) * Half) : Bits(Padded(d))[k] = Bits(d)[k]
         /\ \A k \in (Len(d) * Half + 1)..(Len(d) * Half + Width) :
               Bits(Padded(d))[k] = 0
<1> DEFINE e == d \o Zeros(2)
           B == Len(d) * Half
<1>1. Padded(d) = e
  <2>1. (Len(d) % 2) + 2 = 2  BY MessageParts
  <2> QED  BY <2>1, Zenon DEF Padded
<1>2. IsCrc(Zeros(2))  BY NoBits DEF IsCrc
<1>3. /\ IsMessage(e) /\ Len(e) = Len(d) + 2
      /\ \A k \in 1..B : Bits(e)[k] = Bits(d)[k]
      /\ \A j \in 1..Half : /\ Bits(e)[B + j] = 0
                            /\ Bits(e)[B + Half + j] = 0
  BY <1>2, BitsAppend, NoBits
<1>4. B \in Nat /\ Len(d) \in Nat  BY BitsWord, MessageParts
<1>5. Len(Bits(e)) = B + Width
  <2>1. Len(Bits(e)) = (Len(d) + 2) * Half  BY <1>3, BitsWord
  <2> QED  BY <1>4, <2>1, PolyType
<1> HIDE DEF e, B
<1>6. ASSUME NEW k \in (B + 1)..(B + Width) PROVE Bits(e)[k] = 0
  <2>1. CASE k <= B + Half
    <3>1. k - B \in 1..Half /\ k = B + (k - B)  BY <1>4, <2>1, PolyType
    <3> QED  BY <1>3, <3>1
  <2>2. CASE k > B + Half
    <3>1. k - B - Half \in 1..Half /\ k = B + Half + (k - B - Half)
      BY <1>4, <2>2, PolyType
    <3> QED  BY <1>3, <3>1
  <2> QED  BY <1>4, <2>1, <2>2, PolyType
<1> QED  BY <1>1, <1>3, <1>5, <1>6 DEF B

\* The words d and e of as many bytes differ in the bit j of byte x.
OneBit(d, e, x, j) ==
  /\ e \in Seq(Byte) /\ Len(e) = Len(d) /\ x \in 1..Len(d) /\ j \in 1..Half
  /\ \A y \in 1..Len(d) : \A l \in 1..Half :
       e[y][l] = IF y = x /\ l = j THEN 1 - d[y][l] ELSE d[y][l]

LEMMA OneBitBefore ==
  ASSUME NEW d \in Seq(Byte), NEW e, NEW c \in Seq(Byte), NEW x, NEW j,
         OneBit(d, e, x, j)
  PROVE  OneBit(d \o c, e \o c, x, j)
<1> DEFINE p == d \o c
           q == e \o c
<1>1. /\ e \in Seq(Byte) /\ Len(e) = Len(d) /\ x \in 1..Len(d)
      /\ j \in 1..Half
      /\ \A y \in 1..Len(d) : \A l \in 1..Half :
           e[y][l] = IF y = x /\ l = j THEN 1 - d[y][l] ELSE d[y][l]
  BY DEF OneBit
<1>2. Len(d) \in Nat /\ Len(c) \in Nat  BY LenProperties
<1>3. /\ Len(p) = Len(d) + Len(c)
      /\ \A y \in 1..(Len(d) + Len(c)) :
           p[y] = IF y <= Len(d) THEN d[y] ELSE c[y - Len(d)]
  BY ConcatProperties, Zenon
<1>4. /\ q \in Seq(Byte) /\ Len(q) = Len(e) + Len(c)
      /\ \A y \in 1..(Len(e) + Len(c)) :
           q[y] = IF y <= Len(e) THEN e[y] ELSE c[y - Len(e)]
  BY <1>1, ConcatProperties, Zenon
<1> HIDE DEF p, q
<1>5. x \in 1..Len(p) /\ Len(q) = Len(p)  BY <1>1, <1>2, <1>3, <1>4
<1>6. ASSUME NEW y \in 1..Len(p), NEW l \in 1..Half
      PROVE  q[y][l] = IF y = x /\ l = j THEN 1 - p[y][l] ELSE p[y][l]
  <2>1. CASE y <= Len(d)
    <3>1. y \in 1..Len(d) /\ p[y] = d[y] /\ q[y] = e[y]
      BY <1>1, <1>2, <1>3, <1>4, <2>1
    <3> QED  BY <1>1, <3>1
  <2>2. CASE y > Len(d)
    <3>1. y # x /\ p[y] = q[y]  BY <1>1, <1>2, <1>3, <1>4, <2>2
    <3> QED  BY <3>1
  <2> QED  BY <1>2, <2>1, <2>2
<1> QED  BY <1>1, <1>4, <1>5, <1>6 DEF OneBit, p, q

LEMMA OneBitAfter ==
  ASSUME NEW d \in Seq(Byte), NEW e, NEW c \in Seq(Byte), NEW x, NEW j,
         OneBit(c, e, x, j)
  PROVE  OneBit(d \o c, d \o e, Len(d) + x, j)
<1> DEFINE p == d \o c
           q == d \o e
<1>1. /\ e \in Seq(Byte) /\ Len(e) = Len(c) /\ x \in 1..Len(c)
      /\ j \in 1..Half
      /\ \A y \in 1..Len(c) : \A l \in 1..Half :
           e[y][l] = IF y = x /\ l = j THEN 1 - c[y][l] ELSE c[y][l]
  BY DEF OneBit
<1>2. Len(d) \in Nat /\ Len(c) \in Nat  BY LenProperties
<1>3. /\ Len(p) = Len(d) + Len(c)
      /\ \A y \in 1..(Len(d) + Len(c)) :
           p[y] = IF y <= Len(d) THEN d[y] ELSE c[y - Len(d)]
  BY ConcatProperties, Zenon
<1>4. /\ q \in Seq(Byte) /\ Len(q) = Len(d) + Len(e)
      /\ \A y \in 1..(Len(d) + Len(e)) :
           q[y] = IF y <= Len(d) THEN d[y] ELSE e[y - Len(d)]
  BY <1>1, ConcatProperties, Zenon
<1> HIDE DEF p, q
<1>5. Len(d) + x \in 1..Len(p) /\ Len(q) = Len(p)
  BY <1>1, <1>2, <1>3, <1>4
<1>6. ASSUME NEW y \in 1..Len(p), NEW l \in 1..Half
      PROVE  q[y][l] = IF y = Len(d) + x /\ l = j
                       THEN 1 - p[y][l] ELSE p[y][l]
  <2>1. CASE y <= Len(d)
    <3>1. y # Len(d) + x /\ p[y] = q[y]
      BY <1>1, <1>2, <1>3, <1>4, <2>1
    <3> QED  BY <3>1
  <2>2. CASE y > Len(d)
    <3> DEFINE z == y - Len(d)
    <3>1. z \in 1..Len(c) /\ p[y] = c[z] /\ q[y] = e[z]
          /\ (y = Len(d) + x <=> z = x)
      BY <1>1, <1>2, <1>3, <1>4, <2>2
    <3> HIDE DEF z
    <3> QED  BY <1>1, <3>1
  <2> QED  BY <1>2, <2>1, <2>2
<1> QED  BY <1>1, <1>4, <1>5, <1>6 DEF OneBit, p, q

\* The place x is that of one byte.
ByteAt(x) == IF x % 2 = 0 THEN x - 2 ELSE x

LEMMA PlaceInverse ==
  ASSUME NEW n \in Nat, n % 2 = 0, NEW x \in 1..n
  PROVE  /\ ByteAt(x) \in 0..(n - 1) /\ Place(ByteAt(x)) = x
         /\ \A b \in Nat : Place(b) = x => b = ByteAt(x)
<1>1. ByteAt(x) \in 0..(n - 1)  BY DEF ByteAt
<1>2. Place(ByteAt(x)) = x
  <2>1. CASE x % 2 = 0
    <3>1. (x - 2) % 2 = 0  BY <2>1
    <3> QED  BY <2>1, <3>1 DEF ByteAt, Place
  <2>2. CASE x % 2 # 0  BY <2>2 DEF ByteAt, Place
  <2> QED  BY <2>1, <2>2
<1>3. \A b \in Nat : Place(b) = x => b = ByteAt(x)
  BY DEF ByteAt, Place
<1> QED  BY <1>1, <1>2, <1>3

\* A bit of a message is at one place among the bits, and at no other.
LEMMA OneBitOfWord ==
  ASSUME NEW d, IsMessage(d), NEW e, NEW x, NEW j, OneBit(d, e, x, j)
  PROVE  /\ IsMessage(e) /\ Len(e) = Len(d)
         /\ \E f \in 1..(Len(d) * Half) :
              \A k \in 1..(Len(d) * Half) :
                Bits(e)[k] = IF k = f THEN 1 - Bits(d)[k] ELSE Bits(d)[k]
<1> DEFINE L == Len(d)
           h == Half
           byte == ByteAt(x)
           f == h * byte + j
<1>1. /\ e \in Seq(Byte) /\ Len(e) = L /\ x \in 1..L
      /\ j \in 1..h
      /\ \A y \in 1..L : \A l \in 1..h :
           e[y][l] = IF y = x /\ l = j THEN 1 - d[y][l] ELSE d[y][l]
  BY DEF OneBit
<1>2. IsMessage(e)  BY <1>1 DEF IsMessage
<1>3. L \in Nat /\ L % 2 = 0 /\ h \in Nat /\ h > 0
  BY MessageParts, PolyType
<1>4. /\ byte \in 0..(L - 1) /\ Place(byte) = x
      /\ \A b \in Nat : Place(b) = x => b = byte
  <2> HIDE DEF L
  <2> QED  BY <1>1, <1>3, PlaceInverse
<1> HIDE DEF byte
<1>5. L * h = h * L /\ h * (byte + 1) <= h * L
      /\ h * byte \in Nat /\ h * (byte + 1) = h * byte + h
  <2>1. byte \in Nat /\ byte + 1 \in Nat /\ byte + 1 <= L  BY <1>3, <1>4
  <2>2. h * (byte + 1) <= h * L /\ h * byte \in Nat
    BY <1>3, <2>1, TimesGrows
  <2> QED  BY <1>3, <2>1, <2>2
<1>6. f \in 1..(L * h)
  <2> DEFINE a == h * byte
  <2>1. a + h <= L * h /\ a \in Nat /\ L * h \in Nat
    BY <1>3, <1>5
  <2> HIDE DEF a
  <2>2. a + j \in 1..(L * h)  BY <1>1, <1>3, <2>1
  <2> QED  BY <2>2 DEF a
<1>7. ASSUME NEW k \in 1..(L * h)
      PROVE  Bits(e)[k] = IF k = f THEN 1 - Bits(d)[k] ELSE Bits(d)[k]
  <2> DEFINE q == (k - 1) \div h
             r == ((k - 1) % h) + 1
  <2>1. q \in 0..(L - 1) /\ Place(q) \in 1..L /\ r \in 1..h
        /\ k = h * q + r
    <3>1. q \in 0..(L - 1) /\ Place(q) \in 1..L /\ r \in 1..h
          /\ k = h * q + ((k - 1) % h) + 1
      BY <1>3, WhichBit
    <3>2. h * q \in Nat /\ (k - 1) % h \in Int  BY <1>3, <3>1, TimesGrows
    <3> QED  BY <3>1, <3>2
  <2>2. Bits(e)[k] = e[Place(q)][r] /\ Bits(d)[k] = d[Place(q)][r]
    BY <1>1, <1>2, BitsWord
  <2>3. k = f <=> Place(q) = x /\ r = j
    <3>1. CASE q = byte
      <4>1. k = h * byte + r  BY <2>1, <3>1
      <4>2. k = f <=> r = j
        <5> DEFINE a == h * byte
        <5>1. k = a + r /\ f = a + j /\ a \in Nat  BY <1>5, <4>1, Zenon
        <5>2. r \in 1..h /\ j \in 1..h  BY <1>1, <2>1, Zenon
        <5> HIDE DEF a, f, r, h
        <5> QED  BY <1>3, <5>1, <5>2
      <4> QED  BY <1>4, <3>1, <4>2
    <3>2. CASE q # byte
      <4>1. Place(q) # x  BY <1>3, <1>4, <2>1, <3>2
      <4>2. k # f
        <5> SUFFICES ASSUME k = f PROVE FALSE  OBVIOUS
        <5>1. j - 1 \in 0..(h - 1) /\ byte \in Nat  BY <1>1, <1>3, <1>4
        <5>2. k - 1 = h * byte + (j - 1)  BY <1>1, <1>3, <1>5
        <5>3. q = byte  BY <1>3, <5>1, <5>2, DivMod
        <5> QED  BY <3>2, <5>3
      <4> QED  BY <4>1, <4>2
    <3> QED  BY <3>1, <3>2
  <2> HIDE DEF q, r, f
  <2> QED  BY <1>1, <2>1, <2>2, <2>3
<1> HIDE DEF f
<1>8. \E g \in 1..(L * h) :
         \A k \in 1..(L * h) :
           Bits(e)[k] = IF k = g THEN 1 - Bits(d)[k] ELSE Bits(d)[k]
  BY <1>6, <1>7
<1> QED  BY <1>1, <1>2, <1>8

----------------------------------------------------------------------------
(* The sender and the receiver *)

\* What is left of the message and a zero block, put in place of that block,
\* makes the word a sum.
LEMMA RemainderMakesSum ==
  ASSUME NEW d, IsMessage(d), NEW S,
         Reduced(bits, Bits(Padded(d)), S, Len(d) * Half + 1)
  PROVE  IsCrc(Remainder) /\ SumOf(Bits(Padded(d \o Remainder)), S, {})
<1> DEFINE B == Len(d) * Half
           w == Bits(Padded(d))
           c == Remainder
           v == Bits(d \o c)
           u == Bits(Padded(d \o c))
<1>1. /\ B \in Nat /\ Len(w) = B + Width
      /\ \A k \in (B + 1)..(B + Width) : w[k] = 0
  BY BitsWord, BitsPadded
<1>2. Width \in Nat /\ Half \in Nat /\ Width = 2 * Half  BY PolyType
<1> HIDE DEF w
<1>3. /\ S \in SUBSET (1..B)
      /\ bits \in [1..(B + Width) -> {0, 1}]
      /\ \A k \in 1..(B + Width) :
           (bits[k] + w[k] + Cardinality(Ones(S, k))) % 2 = 0
      /\ \A k \in 1..B : bits[k] = 0
  <2>1. (B + 1) - 1 = B  BY <1>1
  <2> QED  BY <1>1, <2>1, Zenon DEF Reduced, Bit, w
<1>4. Len(bits) - Width = B  BY <1>1, <1>2, <1>3
<1>5. /\ c = <<[j \in 1..Half |-> bits[B + Half + j]],
               [j \in 1..Half |-> bits[B + j]]>>
  BY <1>4 DEF Remainder
<1>6. IsCrc(c)
  <2>1. \A j \in 1..Half :
          bits[B + Half + j] \in {0, 1} /\ bits[B + j] \in {0, 1}
    BY <1>1, <1>2, <1>3
  <2>2. [j \in 1..Half |-> bits[B + Half + j]] \in Byte
        /\ [j \in 1..Half |-> bits[B + j]] \in Byte
    BY <2>1 DEF Byte, Bit
  <2> HIDE DEF c
  <2> QED  BY <1>5, <2>2 DEF IsCrc
<1>7. \A j \in 1..Half : c[2][j] = bits[B + j] /\ c[1][j] = bits[B + Half + j]
  BY <1>5
<1> HIDE DEF c
<1>8. /\ IsMessage(d \o c) /\ Len(d \o c) = Len(d) + 2
      /\ \A k \in 1..B : v[k] = Bits(d)[k]
      /\ \A j \in 1..Half : v[B + j] = bits[B + j]
                            /\ v[B + Half + j] = bits[B + Half + j]
  <2>1. IsMessage(d \o c) /\ Len(d \o c) = Len(d) + 2
    BY <1>6, BitsAppend
  <2>2. \A k \in 1..B : v[k] = Bits(d)[k]
    BY <1>6, BitsAppend
  <2>3. ASSUME NEW j \in 1..Half
        PROVE  v[B + j] = c[2][j] /\ v[B + Half + j] = c[1][j]
    BY <1>6, BitsAppend
  <2> QED  BY <1>7, <2>1, <2>2, <2>3, Zenon
<1>9. Len(d) \in Nat /\ (Len(d) + 2) * Half = B + Width
  <2>1. Len(d) \in Nat  BY MessageParts
  <2> QED  BY <1>2, <2>1
<1>10. /\ IsMessage(Padded(d \o c)) /\ Len(u) = B + Width + Width
       /\ \A k \in 1..(B + Width) : u[k] = v[k]
       /\ \A k \in (B + Width + 1)..(B + Width + Width) : u[k] = 0
  <2>1. Len(d \o c) * Half = B + Width  BY <1>8, <1>9, Zenon
  <2>2. /\ IsMessage(Padded(d \o c))
        /\ Len(u) = Len(d \o c) * Half + Width
        /\ \A k \in 1..(Len(d \o c) * Half) : u[k] = v[k]
        /\ \A k \in (Len(d \o c) * Half + 1)
                        ..(Len(d \o c) * Half + Width) : u[k] = 0
    BY <1>8, BitsPadded, Zenon
  <2> QED  BY <2>1, <2>2, Zenon
<1>11. u \in Seq(Bit)  BY <1>10, BitsWord
<1>12. ASSUME NEW k \in 1..(B + Width)
       PROVE  (v[k] + Cardinality(Ones(S, k))) % 2 = 0
  <2>1. B \in Int /\ k \in Int  BY <1>1
  <2>2. Cardinality(Ones(S, k)) \in Nat  BY <1>3, <2>1, OnesFinite
  <2>3. (bits[k] + w[k] + Cardinality(Ones(S, k))) % 2 = 0
        /\ bits[k] \in {0, 1}
    BY <1>3
  <2>4. CASE k <= B
    <3>1. k \in 1..B  BY <1>1, <2>4
    <3>2. v[k] = w[k] /\ bits[k] = 0 /\ w[k] \in {0, 1}
      BY <1>3, <1>8, <3>1, BitsPadded, BitsWord DEF w
    <3> QED  BY <2>2, <2>3, <3>2
  <2>5. CASE k > B
    <3>1. w[k] = 0  BY <1>1, <1>2, <2>5
    <3>2. v[k] = bits[k]
      <4>1. CASE k <= B + Half
        <5>1. k - B \in 1..Half /\ B + (k - B) = k
          BY <1>1, <1>2, <2>5, <4>1
        <5> QED  BY <1>8, <5>1
      <4>2. CASE k > B + Half
        <5>1. k - B - Half \in 1..Half /\ B + Half + (k - B - Half) = k
          BY <1>1, <1>2, <4>2
        <5> QED  BY <1>8, <5>1
      <4> QED  BY <1>1, <1>2, <4>1, <4>2
    <3> QED  BY <2>2, <2>3, <3>1, <3>2
  <2> QED  BY <1>1, <2>4, <2>5
<1> HIDE DEF u, v, B
<1>13. ASSUME NEW k \in 1..Len(u)
       PROVE  (u[k] + Cardinality(Ones(S, k)) + (IF k \in {} THEN 1 ELSE 0)) % 2
                 = 0
  <2>1. B \in Int /\ k \in Int  BY <1>1
  <2>2. Cardinality(Ones(S, k)) \in Nat  BY <1>3, <2>1, OnesFinite
  <2>3. CASE k <= B + Width
    <3>1. k \in 1..(B + Width)  BY <1>1, <1>2, <2>3
    <3>2. u[k] = v[k] /\ (v[k] + Cardinality(Ones(S, k))) % 2 = 0
      BY <1>10, <1>12, <3>1
    <3>3. u[k] \in {0, 1}  BY <1>11, ElementOfSeq DEF Bit
    <3> QED  BY <2>2, <3>2, <3>3
  <2>4. CASE k > B + Width
    <3>1. u[k] = 0  BY <1>1, <1>2, <1>10, <2>4
    <3>2. Ones(S, k) = {}
      <4>1. \A i \in S : k - i + 1 > Width  BY <1>1, <1>2, <1>3, <2>4
      <4> QED  BY <1>2, <4>1 DEF Ones
    <3>3. Cardinality(Ones(S, k)) = 0  BY <3>2, FS_EmptySet
    <3> QED  BY <3>1, <3>3
  <2> QED  BY <1>1, <1>2, <2>3, <2>4
<1>14. S \in SUBSET (1..(Len(u) - Width))
  <2>1. Len(u) - Width = B + Width  BY <1>1, <1>2, <1>10
  <2> QED  BY <1>1, <1>2, <1>3, <2>1
<1>15. SumOf(u, S, {})  BY <1>11, <1>13, <1>14 DEF SumOf
<1> QED  BY <1>6, <1>15 DEF u, c

LEMMA FlipIsOneBit ==
  ASSUME NEW d \in Seq(Byte), NEW x \in DOMAIN d, NEW j \in 1..Half
  PROVE  OneBit(d, [d EXCEPT ![x][j] = 1 - @], x, j)
<1> DEFINE e == [d EXCEPT ![x][j] = 1 - @]
           b == [d[x] EXCEPT ![j] = 1 - d[x][j]]
<1>1. /\ Len(d) \in Nat /\ x \in 1..Len(d) /\ DOMAIN d = 1..Len(d)
      /\ \A y \in 1..Len(d) : d[y] \in [1..Half -> {0, 1}]
  BY LenProperties, ElementOfSeq DEF Byte, Bit
<1>2. b \in Byte
  <2>1. d[x] \in [1..Half -> {0, 1}] /\ d[x][j] \in {0, 1}  BY <1>1
  <2>2. 1 - d[x][j] \in {0, 1}  BY <2>1
  <2> QED  BY <2>1, <2>2 DEF Byte, Bit
<1>3. e = [d EXCEPT ![x] = b]  OBVIOUS
<1> HIDE DEF e
<1>4. \A l \in 1..Half : b[l] = IF l = j THEN 1 - d[x][l] ELSE d[x][l]
  BY <1>1
<1> HIDE DEF b
<1>5. e \in Seq(Byte) /\ Len(e) = Len(d)
  BY <1>1, <1>2, <1>3, ExceptSeq
<1>6. \A y \in 1..Len(d) : e[y] = IF y = x THEN b ELSE d[y]
  BY <1>1, <1>3
<1>7. \A y \in 1..Len(d) : \A l \in 1..Half :
         e[y][l] = IF y = x /\ l = j THEN 1 - d[y][l] ELSE d[y][l]
  BY <1>4, <1>6
<1>8. OneBit(d, e, x, j)  BY <1>1, <1>5, <1>7 DEF OneBit
<1> QED  BY <1>8 DEF e

\* A flipped bit of the message or the checksum leaves one bit wrong.
LEMMA FlipMakesWrong ==
  ASSUME NEW d, IsMessage(d), NEW e, NEW x, NEW j, OneBit(d, e, x, j),
         NEW S, SumOf(Bits(Padded(d)), S, {})
  PROVE  /\ Len(Bits(Padded(e))) = Len(Bits(Padded(d)))
         /\ \E f \in 1..Len(Bits(Padded(e))) :
              SumOf(Bits(Padded(e)), S, {f})
<1> DEFINE p == Padded(d)
           q == Padded(e)
           u == Bits(p)
           v == Bits(q)
<1>1. IsMessage(e) /\ Len(e) = Len(d)  BY OneBitOfWord
<1>2. /\ IsMessage(p) /\ IsMessage(q) /\ Len(p) = Len(d) + 2
      /\ Len(q) = Len(p)
  BY <1>1, BitsPadded
<1>3. OneBit(p, q, x, j)
  <2>1. (Len(d) % 2) + 2 = 2 /\ (Len(e) % 2) + 2 = 2
    BY <1>1, MessageParts
  <2>2. p = d \o Zeros(2) /\ q = e \o Zeros(2)  BY <2>1, Zenon DEF Padded
  <2>3. d \in Seq(Byte) /\ Zeros(2) \in Seq(Byte)
    BY NoBits DEF IsMessage
  <2> QED  BY <2>2, <2>3, OneBitBefore, Zenon
<1> HIDE DEF p, q
<1>4. PICK f \in 1..(Len(p) * Half) :
        \A k \in 1..(Len(p) * Half) :
          v[k] = IF k = f THEN 1 - u[k] ELSE u[k]
  BY <1>2, <1>3, OneBitOfWord
<1>5. /\ Len(u) = Len(p) * Half /\ Len(v) = Len(p) * Half
      /\ u \in Seq(Bit) /\ v \in Seq(Bit)
  BY <1>2, BitsWord
<1> HIDE DEF u, v
<1>6. /\ S \in SUBSET (1..(Len(u) - Width))
      /\ \A k \in 1..Len(u) :
           /\ u[k] \in {0, 1} /\ Cardinality(Ones(S, k)) \in Nat
           /\ (u[k] + Cardinality(Ones(S, k))) % 2 = 0
  BY SumOfParts DEF u, p
<1>7. ASSUME NEW k \in 1..Len(v)
      PROVE  (v[k] + Cardinality(Ones(S, k)) + (IF k \in {f} THEN 1 ELSE 0)) % 2
                = 0
  <2> DEFINE s == Cardinality(Ones(S, k))
  <2>1. u[k] \in {0, 1} /\ s \in Nat /\ (u[k] + s) % 2 = 0
    BY <1>5, <1>6
  <2>2. v[k] = IF k = f THEN 1 - u[k] ELSE u[k]  BY <1>4, <1>5
  <2> HIDE DEF s
  <2>3. CASE k = f
    <3>1. ((1 - u[k]) + s + 1) % 2 = 0  BY <2>1
    <3> QED  BY <2>2, <2>3, <3>1 DEF s
  <2>4. CASE k # f
    <3>1. (u[k] + s + 0) % 2 = 0  BY <2>1
    <3>2. v[k] = u[k] /\ k \notin {f}  BY <2>2, <2>4
    <3> QED  BY <3>1, <3>2 DEF s
  <2> QED  BY <2>3, <2>4
<1>8. S \in SUBSET (1..(Len(v) - Width))  BY <1>5, <1>6
<1>9. SumOf(v, S, {f}) /\ f \in 1..Len(v)
  BY <1>4, <1>5, <1>7, <1>8 DEF SumOf
<1> QED  BY <1>5, <1>9 DEF u, v, p, q

\* An intact word leaves nothing.
LEMMA IntactLeavesZero ==
  ASSUME NEW w, NEW S, SumOf(w, S, {}),
         Reduced(bits, w, S \cap 1..((Len(w) - Width + 1) - 1),
                 Len(w) - Width + 1),
         Width <= Len(w)
  PROVE  Remainder = Zeros(2)
<1>1. /\ Len(w) \in Nat /\ S \in SUBSET (1..(Len(w) - Width))
      /\ \A k \in 1..Len(w) :
           /\ w[k] \in {0, 1} /\ Cardinality(Ones(S, k)) \in Nat
           /\ (w[k] + Cardinality(Ones(S, k))) % 2 = 0
  BY SumOfParts
<1>2. Width \in Nat /\ Half \in Nat /\ Width = 2 * Half  BY PolyType
<1>3. S \cap 1..((Len(w) - Width + 1) - 1) = S
  <2>1. (Len(w) - Width + 1) - 1 = Len(w) - Width  BY <1>1, <1>2
  <2>2. S \cap 1..(Len(w) - Width) = S  BY <1>1
  <2> QED  BY <2>1, <2>2
<1>4. /\ bits \in [1..Len(w) -> {0, 1}]
      /\ \A k \in 1..Len(w) :
           (bits[k] + w[k] + Cardinality(Ones(S, k))) % 2 = 0
  BY <1>3 DEF Reduced, Bit
<1>5. ASSUME NEW k \in 1..Len(w) PROVE bits[k] = 0
  <2> DEFINE s == Cardinality(Ones(S, k))
  <2>1. /\ w[k] \in {0, 1} /\ s \in Nat /\ bits[k] \in {0, 1}
        /\ (w[k] + s) % 2 = 0 /\ (bits[k] + w[k] + s) % 2 = 0
    BY <1>1, <1>4
  <2> HIDE DEF s
  <2> QED  BY <2>1, EvenMissing
<1>6. Len(bits) = Len(w)  BY <1>1, <1>4
<1> DEFINE r == Len(bits) - Width
<1>7. \A j \in 1..Half : bits[r + Half + j] = 0 /\ bits[r + j] = 0
  BY <1>1, <1>2, <1>5, <1>6
<1>8. Remainder = <<[j \in 1..Half |-> 0], [j \in 1..Half |-> 0]>>
  <2>1. Remainder = <<[j \in 1..Half |-> bits[r + Half + j]],
                      [j \in 1..Half |-> bits[r + j]]>>
    BY DEF Remainder
  <2> HIDE DEF r
  <2>2. [j \in 1..Half |-> bits[r + Half + j]] = [j \in 1..Half |-> 0]
        /\ [j \in 1..Half |-> bits[r + j]] = [j \in 1..Half |-> 0]
    BY <1>7
  <2> QED  BY <2>1, <2>2
<1>9. Zeros(2) = <<[j \in 1..Half |-> 0], [j \in 1..Half |-> 0]>>
  <2> DEFINE z == [j \in 1..Half |-> 0]
  <2>1. Zeros(2) = [x \in 1..2 |-> z]  BY DEF Zeros
  <2> HIDE DEF z
  <2>2. Zeros(2) = <<z, z>>  BY <2>1
  <2> QED  BY <2>2 DEF z
<1> QED  BY <1>8, <1>9

\* A word that leaves nothing is intact.
LEMMA ZeroLeftIsSum ==
  ASSUME NEW w \in Seq(Bit), NEW T, Reduced(bits, w, T, Len(w) - Width + 1),
         Width <= Len(w), Remainder = Zeros(2)
  PROVE  SumOf(w, T, {})
<1>1. Len(w) \in Nat /\ \A k \in 1..Len(w) : w[k] \in {0, 1}
  BY LenProperties, ElementOfSeq DEF Bit
<1>2. Width \in Nat /\ Half \in Nat /\ Width = 2 * Half  BY PolyType
<1> DEFINE r == Len(w) - Width
<1>3. (r + 1) - 1 = r /\ r \in Nat  BY <1>1, <1>2
<1>4. /\ T \in SUBSET (1..r)
      /\ bits \in [1..Len(w) -> {0, 1}]
      /\ \A k \in 1..Len(w) :
           (bits[k] + w[k] + Cardinality(Ones(T, k))) % 2 = 0
      /\ \A k \in 1..r : bits[k] = 0
  <2>1. Reduced(bits, w, T, r + 1)  OBVIOUS
  <2> HIDE DEF r
  <2> QED  BY <1>3, <2>1, Zenon DEF Reduced, Bit
<1>5. Len(bits) = Len(w)  BY <1>1, <1>4
<1>6. \A j \in 1..Half : bits[r + Half + j] = 0 /\ bits[r + j] = 0
  <2>1. Remainder[1] = Zeros(2)[1] /\ Remainder[2] = Zeros(2)[2]  OBVIOUS
  <2>2. \A j \in 1..Half :
          Remainder[1][j] = bits[r + Half + j] /\ Remainder[2][j] = bits[r + j]
    BY <1>5 DEF Remainder
  <2> QED  BY <2>1, <2>2, NoBits
<1> HIDE DEF r
<1>7. ASSUME NEW k \in 1..Len(w) PROVE bits[k] = 0
  <2>1. r + Width = Len(w)  BY <1>1, <1>2 DEF r
  <2>2. CASE k <= r
    <3>1. k \in 1..r  BY <1>3, <2>2
    <3> QED  BY <1>4, <3>1
  <2>3. CASE k > r /\ k <= r + Half
    <3>1. k - r \in 1..Half /\ k = r + (k - r)  BY <1>2, <1>3, <2>3
    <3> QED  BY <1>6, <3>1
  <2>4. CASE k > r + Half
    <3>1. k - r - Half \in 1..Half /\ k = r + Half + (k - r - Half)
      BY <1>1, <1>2, <1>3, <2>1, <2>4
    <3> QED  BY <1>6, <3>1
  <2> QED  BY <1>2, <1>3, <2>2, <2>3, <2>4
<1>8. ASSUME NEW k \in 1..Len(w)
      PROVE  (w[k] + Cardinality(Ones(T, k)) + (IF k \in {} THEN 1 ELSE 0)) % 2
                = 0
  <2> DEFINE t == Cardinality(Ones(T, k))
  <2>1. t \in Nat  BY <1>3, <1>4, OnesFinite
  <2>2. (bits[k] + w[k] + t) % 2 = 0 /\ bits[k] = 0 /\ w[k] \in {0, 1}
    BY <1>1, <1>4, <1>7
  <2> HIDE DEF t
  <2>3. (w[k] + t + 0) % 2 = 0  BY <2>1, <2>2
  <2> QED  BY <2>3 DEF t
<1> QED  BY <1>4, <1>8 DEF SumOf, r

----------------------------------------------------------------------------
(* The invariant *)

\* Messages that fill their blocks: get_crc and check_crc agree about the place
\* of the checksum (crc.c:104-111, 127-130).
EvenMessages == \A m \in Messages : Len(m) % 2 = 0

Word == Bits(Padded(data \o crc))

CrcTypes ==
  /\ IsMessage(data) /\ IsCrc(crc) /\ flipped \in BOOLEAN
  /\ stage \in {"new", "sum", "sent", "check", "accepted", "rejected"}
  /\ stage \in {"new", "sum"} => ~flipped

\* The checksum is being computed.
Summing ==
  stage = "sum" =>
    /\ at \in 1..(Len(data) * Half + 1)
    /\ \E S : Reduced(bits, Bits(Padded(data)), S, at)

\* The message and its checksum are a sum, but for the flipped bit.
Sent ==
  stage \in {"sent", "check"} =>
    \E S : IF flipped THEN \E f \in 1..Len(Word) : SumOf(Word, S, {f})
           ELSE SumOf(Word, S, {})

\* The checksum is being checked.
Checking ==
  stage = "check" =>
    /\ at \in 1..(Len(Word) - Width + 1)
    /\ \E T : Reduced(bits, Word, T, at)
    /\ ~flipped => \E S : /\ SumOf(Word, S, {})
                         /\ Reduced(bits, Word, S \cap 1..(at - 1), at)

CrcInv == CrcTypes /\ Summing /\ Sent /\ Checking /\ Accepts /\ Detects

\* The words of calc_crc.
LEMMA Words ==
  ASSUME CrcTypes
  PROVE  /\ IsMessage(data \o crc)
         /\ Len(data) * Half \in Nat
         /\ Bits(Padded(data)) \in Seq(Bit)
         /\ Len(Bits(Padded(data))) = Len(data) * Half + Width
         /\ Word \in Seq(Bit) /\ Len(Word) \in Nat /\ Width < Len(Word)
<1>1. IsMessage(data) /\ IsMessage(data \o crc)
      /\ Len(data \o crc) = Len(data) + 2
  BY BitsAppend DEF CrcTypes
<1>2. /\ Bits(Padded(data)) \in Seq(Bit)
      /\ Len(Bits(Padded(data))) = Len(data) * Half + Width
      /\ Word \in Seq(Bit) /\ Len(Word) = Len(data \o crc) * Half + Width
  BY <1>1, BitsPadded, BitsWord DEF Word
<1>3. Len(data) * Half \in Nat /\ Len(data) \in Nat
  BY <1>1, BitsWord, MessageParts
<1>4. (Len(data) + 2) * Half > 0 /\ (Len(data) + 2) * Half \in Nat
  <2>1. Half \in Nat /\ Half > 0 /\ Len(data) + 2 \in Nat
        /\ 1 \in Nat /\ 1 <= Len(data) + 2
    BY <1>3, PolyType
  <2>2. Half * 1 <= Half * (Len(data) + 2)  BY <2>1, TimesGrows
  <2> QED  BY <2>1, <2>2
<1> QED  BY <1>1, <1>2, <1>3, <1>4, PolyType

\* At the first bit nothing is reduced.
LEMMA NothingReduced ==
  ASSUME NEW w \in Seq(Bit)
  PROVE  Reduced(w, w, {}, 1)
<1>1. Len(w) \in Nat /\ w \in [1..Len(w) -> Bit]
      /\ \A k \in 1..Len(w) : w[k] \in {0, 1}
  BY LenProperties, ElementOfSeq DEF Bit
<1>2. ASSUME NEW k \in 1..Len(w)
      PROVE  (w[k] + w[k] + Cardinality(Ones({}, k))) % 2 = 0
  <2>1. Ones({}, k) = {}  BY DEF Ones
  <2>2. Cardinality(Ones({}, k)) = 0  BY <2>1, FS_EmptySet
  <2> QED  BY <1>1, <2>2
<1> QED  BY <1>1, <1>2 DEF Reduced

LEMMA CrcInvInit ==
  ASSUME EvenMessages, CrcInit
  PROVE  CrcInv
<1>1. IsMessage(data)
  BY MessagesAssumption DEF EvenMessages, CrcInit, IsMessage
<1>2. IsCrc(crc)  BY NoBits DEF CrcInit, IsCrc
<1>3. CrcTypes  BY <1>1, <1>2 DEF CrcInit, CrcTypes
<1> QED  BY <1>3 DEF CrcInit, CrcInv, Summing, Sent, Checking, Accepts, Detects

LEMMA CrcInvNext ==
  ASSUME CrcInv, [CrcNext]_crcVars
  PROVE  CrcInv'
<1> USE DEF CrcInv
<1>1. CASE StartSum
  <2>1. /\ stage = "new" /\ stage' = "sum" /\ at' = 1
        /\ bits' = Bits(Padded(data))
        /\ data' = data /\ crc' = crc /\ flipped' = flipped
    BY <1>1 DEF StartSum
  <2>2. CrcTypes'  BY <2>1 DEF CrcTypes
  <2>3. Reduced(bits', Bits(Padded(data')), {}, at')
    BY <2>1, Words, NothingReduced
  <2>4. Summing'
    <3>1. 1 \in 1..(Len(data) * Half + 1)  BY Words
    <3> QED  BY <2>1, <2>3, <3>1 DEF Summing
  <2> QED  BY <2>1, <2>2, <2>4 DEF Sent, Checking, Accepts, Detects
<1>2. CASE StartCheck
  <2>1. /\ stage = "sent" /\ stage' = "check" /\ at' = 1 /\ bits' = Word
        /\ data' = data /\ crc' = crc /\ flipped' = flipped /\ Word' = Word
    BY <1>2 DEF StartCheck, Word
  <2>2. CrcTypes'  BY <2>1 DEF CrcTypes
  <2>3. Reduced(bits', Word', {}, at')  BY <2>1, Words, NothingReduced
  <2>4. Sent'  BY <2>1 DEF Sent
  <2>5. Checking'
    <3>1. 1 \in 1..(Len(Word) - Width + 1)  BY Words, PolyType
    <3>2. ASSUME ~flipped
          PROVE  \E S : /\ SumOf(Word, S, {})
                        /\ Reduced(bits', Word, S \cap 1..(at' - 1), at')
      <4>1. PICK S : SumOf(Word, S, {})  BY <2>1, <3>2 DEF Sent
      <4>2. S \cap 1..(at' - 1) = {}  BY <2>1
      <4> QED  BY <2>1, <2>3, <4>1, <4>2
    <3> QED  BY <2>1, <2>3, <3>1, <3>2 DEF Checking
  <2> QED  BY <2>1, <2>2, <2>4, <2>5 DEF Summing, Accepts, Detects
<1>3. CASE FlipRandomBit
  <2>1. /\ stage = "sent" /\ stage' = stage /\ ~flipped /\ flipped' = TRUE
    BY <1>3 DEF FlipRandomBit
  <2>2. PICK x, j : OneBit(data \o crc, data' \o crc', x, j)
                    /\ IsMessage(data') /\ IsCrc(crc')
    <3> PICK l \in 1..Half :
          \/ /\ \E y \in DOMAIN data : data' = [data EXCEPT ![y][l] = 1 - @]
             /\ UNCHANGED crc
          \/ /\ \E y \in DOMAIN crc : crc' = [crc EXCEPT ![y][l] = 1 - @]
             /\ UNCHANGED data
      BY <1>3 DEF FlipRandomBit
    <3>1. data \in Seq(Byte) /\ crc \in Seq(Byte) /\ Len(crc) = 2
          /\ IsMessage(data) /\ IsCrc(crc)
      BY DEF CrcTypes, IsMessage, IsCrc
    <3>2. CASE \E y \in DOMAIN data : data' = [data EXCEPT ![y][l] = 1 - @]
                                      /\ crc' = crc
      <4>1. PICK y \in DOMAIN data : data' = [data EXCEPT ![y][l] = 1 - @]
                                     /\ crc' = crc
        BY <3>2
      <4>2. OneBit(data, data', y, l)  BY <3>1, <4>1, FlipIsOneBit
      <4>3. OneBit(data \o crc, data' \o crc', y, l)
        BY <3>1, <4>1, <4>2, OneBitBefore
      <4>4. IsMessage(data')  BY <3>1, <4>2 DEF OneBit, IsMessage
      <4> QED  BY <3>1, <4>1, <4>3, <4>4
    <3>3. CASE \E y \in DOMAIN crc : crc' = [crc EXCEPT ![y][l] = 1 - @]
                                     /\ data' = data
      <4>1. PICK y \in DOMAIN crc : crc' = [crc EXCEPT ![y][l] = 1 - @]
                                    /\ data' = data
        BY <3>3
      <4>2. OneBit(crc, crc', y, l)  BY <3>1, <4>1, FlipIsOneBit
      <4>3. OneBit(data \o crc, data' \o crc', Len(data) + y, l)
        BY <3>1, <4>1, <4>2, OneBitAfter
      <4>4. IsCrc(crc')  BY <3>1, <4>2 DEF OneBit, IsCrc
      <4> QED  BY <3>1, <4>1, <4>3, <4>4
    <3> QED  BY <3>2, <3>3
  <2>3. CrcTypes'  BY <2>1, <2>2 DEF CrcTypes
  <2>4. Sent'
    <3>1. PICK S : SumOf(Word, S, {})  BY <2>1 DEF Sent
    <3>2. \E f \in 1..Len(Word') : SumOf(Word', S, {f})
      BY <2>2, <3>1, Words, FlipMakesWrong DEF Word
    <3> QED  BY <2>1, <3>2 DEF Sent
  <2> QED  BY <2>1, <2>3, <2>4 DEF Summing, Checking, Accepts, Detects
<1>4. CASE Divide
  <2>1. /\ stage \in {"sum", "check"} /\ at + Width <= Len(bits)
        /\ bits' = Reduce(bits, at) /\ at' = at + 1 /\ stage' = stage
        /\ data' = data /\ crc' = crc /\ flipped' = flipped /\ Word' = Word
    BY <1>4 DEF Divide, Word
  <2>2. CrcTypes'  BY <2>1 DEF CrcTypes
  <2>3. Sent'  BY <2>1 DEF Sent
  <2>4. CASE stage = "sum"
    <3> DEFINE w == Bits(Padded(data))
    <3>1. PICK S : Reduced(bits, w, S, at)  BY <2>4 DEF Summing
    <3>2. at \in 1..(Len(data) * Half + 1)  BY <2>4 DEF Summing
    <3>3. w \in Seq(Bit) /\ Len(w) = Len(data) * Half + Width
          /\ Len(data) * Half \in Nat
      BY Words
    <3>4. Len(bits) = Len(w)  BY <3>1, <3>3, PolyType DEF Reduced
    <3> DEFINE B == Len(data) * Half
    <3> HIDE DEF w, B
    <3>5. at \in Nat \ {0} /\ at + Width <= Len(w)
      BY <2>1, <3>2, <3>3, <3>4 DEF B
    <3>6. \E T : Reduced(bits', w, T, at')
      BY <2>1, <3>1, <3>3, <3>5, ReduceStep
    <3>7. at' \in 1..(B + 1)
      <4>1. Len(w) = B + Width /\ B \in Nat /\ Width \in Nat
        BY <3>3, PolyType DEF B
      <4> QED  BY <2>1, <3>5, <4>1
    <3>8. Summing'  BY <2>1, <3>6, <3>7 DEF Summing, w, B
    <3> QED  BY <2>1, <2>2, <2>3, <2>4, <3>8 DEF Checking, Accepts, Detects
  <2>5. CASE stage = "check"
    <3>1. PICK T : Reduced(bits, Word, T, at)  BY <2>5 DEF Checking
    <3>2. at \in 1..(Len(Word) - Width + 1)  BY <2>5 DEF Checking
    <3>3. Word \in Seq(Bit) /\ Len(Word) \in Nat /\ Width \in Nat
      BY Words, PolyType
    <3>4. Len(bits) = Len(Word)  BY <3>1, <3>3 DEF Reduced
    <3>5. at \in Nat \ {0} /\ at + Width <= Len(Word)
      BY <2>1, <3>2, <3>3, <3>4
    <3>6. \E U : Reduced(bits', Word, U, at')
      BY <2>1, <3>1, <3>3, <3>5, ReduceStep
    <3>7. at' \in 1..(Len(Word) - Width + 1)  BY <2>1, <3>3, <3>5
    <3>8. ASSUME ~flipped
          PROVE  \E S : /\ SumOf(Word, S, {})
                        /\ Reduced(bits', Word, S \cap 1..(at' - 1), at')
      <4>1. PICK S : /\ SumOf(Word, S, {})
                     /\ Reduced(bits, Word, S \cap 1..(at - 1), at)
        BY <2>5, <3>8 DEF Checking
      <4> DEFINE U == S \cap 1..(at - 1)
      <4>2. at <= Len(Word)  BY <3>3, <3>5, PolyType
      <4>3. bits[at] = 1 <=> at \in S  BY <3>5, <4>1, <4>2, SamePlaces
      <4>4. Reduced(bits', Word, IF bits[at] = 1 THEN U \cup {at} ELSE U, at')
        BY <2>1, <3>3, <3>5, <4>1, ReduceStep
      <4>5. (IF bits[at] = 1 THEN U \cup {at} ELSE U) = S \cap 1..(at' - 1)
        <5>1. at' - 1 = at /\ at \in Nat /\ at > 0  BY <2>1, <3>5
        <5>2. 1..at = 1..(at - 1) \cup {at}  BY <5>1
        <5> QED  BY <4>3, <5>1, <5>2
      <4> QED  BY <4>1, <4>4, <4>5
    <3>9. Checking'  BY <2>1, <3>6, <3>7, <3>8 DEF Checking
    <3> QED  BY <2>1, <2>2, <2>3, <2>5, <3>9 DEF Summing, Accepts, Detects
  <2> QED  BY <2>1, <2>4, <2>5
<1>5. CASE Sum
  <2>1. /\ stage = "sum" /\ stage' = "sent" /\ at + Width > Len(bits)
        /\ crc' = Remainder /\ data' = data /\ flipped' = flipped
    BY <1>5 DEF Sum
  <2> DEFINE w == Bits(Padded(data))
             B == Len(data) * Half
  <2>2. PICK S : Reduced(bits, w, S, at)  BY <2>1 DEF Summing
  <2>3. at = B + 1
    <3>1. at \in 1..(B + 1)  BY <2>1 DEF Summing
    <3>2. B \in Nat /\ Len(w) = B + Width /\ Width \in Nat
      BY Words, PolyType
    <3>3. Len(bits) = Len(w)  BY <2>2, <3>2 DEF Reduced
    <3> HIDE DEF w, B
    <3> QED  BY <2>1, <3>1, <3>2, <3>3
  <2>4. IsCrc(crc') /\ SumOf(Word', S, {})
    <3>1. IsMessage(data)  BY DEF CrcTypes
    <3>2. Reduced(bits, Bits(Padded(data)), S, Len(data) * Half + 1)
      BY <2>2, <2>3
    <3> QED  BY <2>1, <3>1, <3>2, RemainderMakesSum DEF Word
  <2>5. CrcTypes'  BY <2>1, <2>4 DEF CrcTypes
  <2>6. Sent'
    <3>1. ~flipped'  BY <2>1 DEF CrcTypes
    <3> QED  BY <2>4, <3>1 DEF Sent
  <2> QED  BY <2>1, <2>5, <2>6 DEF Summing, Checking, Accepts, Detects
<1>6. CASE Check
  <2>1. /\ stage = "check" /\ at + Width > Len(bits)
        /\ stage' = IF Remainder = Zeros(2) THEN "accepted" ELSE "rejected"
        /\ data' = data /\ crc' = crc /\ flipped' = flipped
    BY <1>6 DEF Check
  <2>2. Word \in Seq(Bit) /\ Len(Word) \in Nat /\ Width <= Len(Word)
        /\ Width \in Nat
    BY Words, PolyType
  <2>3. PICK T : Reduced(bits, Word, T, at)  BY <2>1 DEF Checking
  <2>4. at = Len(Word) - Width + 1
    <3>1. at \in 1..(Len(Word) - Width + 1)  BY <2>1 DEF Checking
    <3>2. Len(bits) = Len(Word)  BY <2>2, <2>3 DEF Reduced
    <3> QED  BY <2>1, <2>2, <3>1, <3>2
  <2>5. Accepts'
    <3> SUFFICES ASSUME ~flipped PROVE Remainder = Zeros(2)
      BY <2>1 DEF Accepts
    <3>1. PICK S : /\ SumOf(Word, S, {})
                   /\ Reduced(bits, Word, S \cap 1..(at - 1), at)
      BY <2>1 DEF Checking
    <3> QED  BY <2>2, <2>4, <3>1, IntactLeavesZero
  <2>6. Detects'
    <3> SUFFICES ASSUME flipped, Remainder = Zeros(2) PROVE FALSE
      BY <2>1 DEF Detects
    <3>1. PICK S, f : f \in 1..Len(Word) /\ SumOf(Word, S, {f})
      BY <2>1 DEF Sent
    <3>2. SumOf(Word, T, {})  BY <2>2, <2>3, <2>4, ZeroLeftIsSum
    <3> QED  BY <3>1, <3>2, OneWrongBit
  <2>7. CrcTypes'  BY <2>1 DEF CrcTypes
  <2> QED  BY <2>1, <2>5, <2>6, <2>7 DEF Summing, Sent, Checking
<1>7. CASE UNCHANGED crcVars
  BY <1>7
  DEF crcVars, CrcTypes, Summing, Sent, Checking, Accepts, Detects, Word
<1> QED  BY <1>1, <1>2, <1>3, <1>4, <1>5, <1>6, <1>7 DEF CrcNext

\* Messages of even length: what arrives as it was sent is accepted, whatever
\* the message and the polynomial (crc.c:77-138).
THEOREM EvenAccepts ==
  ASSUME EvenMessages
  PROVE  CrcSpec => []Accepts
<1>1. CrcInit => CrcInv  BY CrcInvInit
<1>2. CrcInv /\ [CrcNext]_crcVars => CrcInv'  BY CrcInvNext
<1>3. CrcInv => Accepts  BY DEF CrcInv
<1> QED  BY <1>1, <1>2, <1>3, PTL DEF CrcSpec

\* And a flipped bit, of the message or of the checksum, is always found
\* (common.c:131-139, crc.c:124-138).
THEOREM EvenDetects ==
  ASSUME EvenMessages
  PROVE  CrcSpec => []Detects
<1>1. CrcInit => CrcInv  BY CrcInvInit
<1>2. CrcInv /\ [CrcNext]_crcVars => CrcInv'  BY CrcInvNext
<1>3. CrcInv => Detects  BY DEF CrcInv
<1> QED  BY <1>1, <1>2, <1>3, PTL DEF CrcSpec
=============================================================================

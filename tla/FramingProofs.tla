--------------------------- MODULE FramingProofs ---------------------------
(***************************************************************************)
(* Proofs about Framing, for every radix, width of the prefix, size limit, *)
(* window, set of payloads and number of frames.                           *)
(*                                                                         *)
(* What the recursive functions of the codec compute is shown by the least *)
(* number principle: a claim about all naturals holds if the set of its    *)
(* counterexamples cannot have a least element.                            *)
(***************************************************************************)
EXTENDS Framing, WellFoundedInduction, SequenceTheorems, TLAPS

\* A non-empty set of naturals has a least element.
LEMMA LeastNatural ==
    ASSUME NEW T \in SUBSET Nat, T # {}
    PROVE  \E m \in T : \A k \in T : m <= k
<1> DEFINE R == OpToRel(<, Nat)
<1>1. IsWellFoundedOn(R, Nat)
  BY NatLessThanWellFounded
<1>2. \A x, y \in Nat : x < y => <<x, y>> \in R
  BY DEF OpToRel
<1> HIDE DEF R
<1>3. PICK m \in T : \A k \in T : <<k, m>> \notin R
  BY <1>1, WFMin
<1>4. \A k \in T : ~(k < m)
  BY <1>2, <1>3
<1>5. \A k \in T : m <= k
  BY <1>4
<1>6. QED
  BY <1>5

\* Induction, for claims given as the set of numbers for which they hold.
LEMMA InductionOnSet ==
    ASSUME NEW S, 0 \in S, \A m \in Nat : m \in S => m + 1 \in S
    PROVE  Nat \subseteq S
<1> SUFFICES ASSUME Nat \ S # {} PROVE FALSE
  OBVIOUS
<1>1. PICK m \in Nat \ S : \A k \in Nat \ S : m <= k
  BY LeastNatural
<1>2. m - 1 \in Nat /\ m - 1 \in S
  BY <1>1
<1>3. QED
  BY <1>1, <1>2

-----------------------------------------------------------------------------
(***************************************************************************)
(* Numbers and their digits: the length prefix and the varints.            *)
(***************************************************************************)

\* Powers as the values of a recursive function.
LEMMA Multiplying ==
    ASSUME NEW r, NEW w \in Nat
    PROVE  \E f : /\ f[0] = 1 /\ \A i \in 1..w : f[i] = r * f[i - 1]
                  /\ Power(r, w) = f[w]
<1> DEFINE Solves(g, m) == g = [i \in 0..m |-> IF i = 0 THEN 1 ELSE r * g[i - 1]]
           S == {m \in Nat : \E g : Solves(g, m)}
<1>1. 0 \in S
  <2>1. Solves([i \in 0..0 |-> 1], 0)
    OBVIOUS
  <2>2. QED
    BY <2>1
<1>2. ASSUME NEW m \in Nat, m \in S PROVE m + 1 \in S
  <2>1. PICK g : Solves(g, m)
    BY <1>2
  <2> DEFINE h == [i \in 0..(m + 1) |-> IF i <= m THEN g[i] ELSE r * g[m]]
  <2>2. \A i \in 0..(m + 1) : h[i] = IF i = 0 THEN 1 ELSE r * h[i - 1]
    BY <2>1
  <2>3. Solves(h, m + 1)
    BY <2>2
  <2> HIDE DEF h, Solves
  <2>4. QED
    BY <2>3
<1>3. w \in S
  <2> HIDE DEF S
  <2>1. QED
    BY <1>1, <1>2, InductionOnSet
<1>4. PICK g : Solves(g, w)
  BY <1>3
<1> DEFINE f == CHOOSE h : Solves(h, w)
<1>5. Solves(f, w)
  <2> HIDE DEF Solves
  <2>1. QED
    BY <1>4
<1>6. Power(r, w) = f[w]
  BY DEF Power
<1> HIDE DEF f
<1>7. \A i \in 0..w : f[i] = IF i = 0 THEN 1 ELSE r * f[i - 1]
  BY <1>5
<1> HIDE DEF Solves, S
<1>8. f[0] = 1 /\ \A i \in 1..w : f[i] = r * f[i - 1]
  BY <1>7
<1>9. QED
  BY <1>6, <1>8

\* Power satisfies the recursion it is written for,
LEMMA PowerDef ==
    ASSUME NEW r
    PROVE  Power(r, 0) = 1 /\ \A w \in Nat : Power(r, w + 1) = r * Power(r, w)
<1>1. Power(r, 0) = 1
  BY Multiplying
<1>2. ASSUME NEW w \in Nat PROVE Power(r, w + 1) = r * Power(r, w)
  <2>1. PICK f : /\ f[0] = 1 /\ \A i \in 1..w : f[i] = r * f[i - 1]
                 /\ Power(r, w) = f[w]
    BY Multiplying
  <2>2. PICK g : /\ g[0] = 1 /\ \A i \in 1..(w + 1) : g[i] = r * g[i - 1]
                 /\ Power(r, w + 1) = g[w + 1]
    BY Multiplying
  <2> DEFINE S == {i \in Nat : i <= w => f[i] = g[i]}
  <2>3. 0 \in S
    BY <2>1, <2>2
  <2>4. ASSUME NEW i \in Nat, i \in S PROVE i + 1 \in S
    <3> SUFFICES ASSUME i + 1 <= w PROVE f[i + 1] = g[i + 1]
      OBVIOUS
    <3>1. f[i + 1] = r * f[i] /\ g[i + 1] = r * g[i] /\ f[i] = g[i]
      BY <2>1, <2>2, <2>4
    <3>2. QED
      BY <3>1
  <2> HIDE DEF S
  <2>5. Nat \subseteq S
    BY <2>3, <2>4, InductionOnSet
  <2>6. f[w] = g[w]
    BY <2>5 DEF S
  <2>7. g[w + 1] = r * g[w]
    BY <2>2
  <2>8. QED
    BY <2>1, <2>2, <2>6, <2>7
<1>3. QED
  BY <1>1, <1>2

\* and the powers of a positive number are positive.
LEMMA PowerType ==
    ASSUME NEW r \in Nat, r > 0
    PROVE  \A w \in Nat : Power(r, w) \in Nat /\ Power(r, w) > 0
<1> DEFINE S == {w \in Nat : Power(r, w) \in Nat /\ Power(r, w) > 0}
<1>1. 0 \in S
  BY PowerDef
<1>2. ASSUME NEW w \in Nat, w \in S PROVE w + 1 \in S
  <2>1. Power(r, w) \in Nat /\ Power(r, w) > 0 /\ Power(r, w + 1) = r * Power(r, w)
    BY <1>2, PowerDef
  <2>2. QED
    BY <2>1
<1> HIDE DEF S
<1>3. Nat \subseteq S
  BY <1>1, <1>2, InductionOnSet
<1>4. QED
  BY <1>3 DEF S

\* The constants, one by one.
LEMMA Constants ==
    /\ Radix \in Nat /\ Radix > 5 /\ LEN_PREFIX \in Nat /\ LEN_PREFIX > 0
    /\ Half \in Nat /\ Half > 5 /\ 2 * Half <= Radix
    /\ VARINT_MAX \in Nat /\ VARINT_MAX > 0
    /\ MAX_FRAME_LEN \in Nat /\ MAX_FRAME_LEN > 0 /\ Window \in Nat
    /\ MAX_FRAME_LEN < Power(Radix, LEN_PREFIX)
    /\ \A p \in Payloads : p \in Seq(Byte) /\ Len(p) < Power(Half, VARINT_MAX)
<1>1. Radix \in Nat /\ Half > 5
  BY FramingAssumption
<1>2. Half \in Nat /\ 2 * Half <= Radix
  BY <1>1 DEF Half
<1>3. QED
  BY <1>1, <1>2, FramingAssumption

\* The quotients behind Digits.
LEMMA Shifting ==
    ASSUME NEW n \in Nat, NEW r \in Nat, r > 0, NEW w \in Nat
    PROVE  /\ Digits(n, r, w) = [i \in 1..w |-> Digits(n, r, w)[i]]
           /\ \E f : /\ f[0] = n /\ \A i \in 1..w : f[i] = f[i - 1] \div r
                     /\ \A i \in 1..w : Digits(n, r, w)[i] = f[w - i] % r
<1> DEFINE Solves(g, m) == g = [i \in 0..m |-> IF i = 0 THEN n ELSE g[i - 1] \div r]
           S == {m \in Nat : \E g : Solves(g, m)}
<1>1. 0 \in S
  <2>1. Solves([i \in 0..0 |-> n], 0)
    OBVIOUS
  <2>2. QED
    BY <2>1
<1>2. ASSUME NEW m \in Nat, m \in S PROVE m + 1 \in S
  <2>1. PICK g : Solves(g, m)
    BY <1>2
  <2> DEFINE h == [i \in 0..(m + 1) |-> IF i <= m THEN g[i] ELSE g[m] \div r]
  <2>2. \A i \in 0..(m + 1) : h[i] = IF i = 0 THEN n ELSE h[i - 1] \div r
    BY <2>1
  <2>3. Solves(h, m + 1)
    BY <2>2
  <2> HIDE DEF h, Solves
  <2>4. QED
    BY <2>3
<1>3. w \in S
  <2> HIDE DEF S
  <2>1. QED
    BY <1>1, <1>2, InductionOnSet
<1>4. PICK g : Solves(g, w)
  BY <1>3
<1> DEFINE f == CHOOSE h : Solves(h, w)
<1>5. Solves(f, w)
  <2> HIDE DEF Solves
  <2>1. QED
    BY <1>4
<1>6. Digits(n, r, w) = [i \in 1..w |-> f[w - i] % r]
  BY DEF Digits
<1> HIDE DEF f
<1>7. \A i \in 0..w : f[i] = IF i = 0 THEN n ELSE f[i - 1] \div r
  BY <1>5
<1> HIDE DEF Solves, S
<1>8. f[0] = n /\ \A i \in 1..w : f[i] = f[i - 1] \div r
  BY <1>7
<1>9. /\ Digits(n, r, w) = [i \in 1..w |-> Digits(n, r, w)[i]]
      /\ \A i \in 1..w : Digits(n, r, w)[i] = f[w - i] % r
  BY <1>6
<1>10. QED
  BY <1>8, <1>9

\* The partial sums behind Number.
LEMMA Summing ==
    ASSUME NEW d, NEW r, NEW w \in Nat
    PROVE  \E f : /\ f[0] = 0 /\ \A i \in 1..w : f[i] = (f[i - 1] * r) + d[i]
                  /\ Number(d, r, w) = f[w]
<1> DEFINE Solves(g, m) == g = [i \in 0..m |-> IF i = 0 THEN 0 ELSE (g[i - 1] * r) + d[i]]
           S == {m \in Nat : \E g : Solves(g, m)}
<1>1. 0 \in S
  <2>1. Solves([i \in 0..0 |-> 0], 0)
    OBVIOUS
  <2>2. QED
    BY <2>1
<1>2. ASSUME NEW m \in Nat, m \in S PROVE m + 1 \in S
  <2>1. PICK g : Solves(g, m)
    BY <1>2
  <2> DEFINE h == [i \in 0..(m + 1) |-> IF i <= m THEN g[i] ELSE (g[m] * r) + d[m + 1]]
  <2>2. \A i \in 0..(m + 1) : h[i] = IF i = 0 THEN 0 ELSE (h[i - 1] * r) + d[i]
    BY <2>1
  <2>3. Solves(h, m + 1)
    BY <2>2
  <2> HIDE DEF h, Solves
  <2>4. QED
    BY <2>3
<1>3. w \in S
  <2> HIDE DEF S
  <2>1. QED
    BY <1>1, <1>2, InductionOnSet
<1>4. PICK g : Solves(g, w)
  BY <1>3
<1> DEFINE f == CHOOSE h : Solves(h, w)
<1>5. Solves(f, w)
  <2> HIDE DEF Solves
  <2>1. QED
    BY <1>4
<1>6. Number(d, r, w) = f[w]
  BY DEF Number
<1> HIDE DEF f
<1>7. \A i \in 0..w : f[i] = IF i = 0 THEN 0 ELSE (f[i - 1] * r) + d[i]
  BY <1>5
<1> HIDE DEF Solves, S
<1>8. f[0] = 0 /\ \A i \in 1..w : f[i] = (f[i - 1] * r) + d[i]
  BY <1>7
<1>9. QED
  BY <1>6, <1>8

\* Dividing by the base takes one digit off a number.
LEMMA DropDigit ==
    ASSUME NEW a \in Nat, NEW c \in Nat, NEW r \in Nat, r > 0
    PROVE  /\ a \div r \in Nat /\ a % r \in 0..(r - 1)
           /\ ((a \div r) * r) + (a % r) = a
           /\ a < r * c => a \div r < c
  OBVIOUS

\* A number that w digits can express is written with w digits, and they read
\* back as that number.
LEMMA DigitsRoundTrip ==
    ASSUME NEW r \in Nat, r > 0, NEW w \in Nat, NEW n \in Nat, n < Power(r, w)
    PROVE  /\ Digits(n, r, w) \in [1..w -> 0..(r - 1)]
           /\ Number(Digits(n, r, w), r, w) = n
<1> DEFINE b == Digits(n, r, w)
<1>1. PICK s : /\ s[0] = n /\ \A i \in 1..w : s[i] = s[i - 1] \div r
               /\ \A i \in 1..w : b[i] = s[w - i] % r
  BY Shifting
<1> HIDE DEF b
<1>2. PICK u : /\ u[0] = 0 /\ \A i \in 1..w : u[i] = (u[i - 1] * r) + b[i]
               /\ Number(b, r, w) = u[w]
  BY Summing
<1>3. \A j \in 0..w : s[j] \in Nat /\ s[j] < Power(r, w - j)
  <2> DEFINE S == {j \in Nat : j <= w => s[j] \in Nat /\ s[j] < Power(r, w - j)}
  <2>1. 0 \in S
    BY <1>1
  <2>2. ASSUME NEW j \in Nat, j \in S PROVE j + 1 \in S
    <3> SUFFICES ASSUME j + 1 <= w
                 PROVE  s[j + 1] \in Nat /\ s[j + 1] < Power(r, w - (j + 1))
      OBVIOUS
    <3>1. s[j] \in Nat /\ s[j] < Power(r, w - j) /\ s[j + 1] = s[j] \div r
      BY <1>1, <2>2
    <3>2. w - (j + 1) \in Nat /\ (w - (j + 1)) + 1 = w - j
      OBVIOUS
    <3>3. Power(r, w - j) = r * Power(r, w - (j + 1))
      BY <3>2, PowerDef
    <3>4. Power(r, w - (j + 1)) \in Nat
      BY <3>2, PowerType
    <3>5. QED
      BY <3>1, <3>3, <3>4, DropDigit
  <2> HIDE DEF S
  <2>3. Nat \subseteq S
    BY <2>1, <2>2, InductionOnSet
  <2>4. QED
    BY <2>3 DEF S
<1>4. s[w] = 0
  <2>1. s[w] \in Nat /\ s[w] < Power(r, w - w) /\ w - w = 0
    BY <1>3
  <2>2. QED
    BY <2>1, PowerDef
<1>5. \A i \in 0..w : u[i] = s[w - i]
  <2> DEFINE S == {i \in Nat : i <= w => u[i] = s[w - i]}
  <2>1. 0 \in S
    BY <1>2, <1>4
  <2>2. ASSUME NEW i \in Nat, i \in S PROVE i + 1 \in S
    <3> SUFFICES ASSUME i + 1 <= w PROVE u[i + 1] = s[w - (i + 1)]
      OBVIOUS
    <3> DEFINE a == s[w - (i + 1)]
    <3>1. a \in Nat
      BY <1>3
    <3>2. u[i] = a \div r
      <4>1. w - i \in 1..w /\ (w - i) - 1 = w - (i + 1)
        OBVIOUS
      <4>2. s[w - i] = a \div r
        BY <1>1, <4>1
      <4>3. QED
        BY <2>2, <4>2
    <3>3. b[i + 1] = a % r
      BY <1>1
    <3>4. u[i + 1] = (u[i] * r) + b[i + 1]
      BY <1>2
    <3> HIDE DEF a
    <3>5. u[i + 1] = a
      BY <3>1, <3>2, <3>3, <3>4, DropDigit
    <3>6. QED
      BY <3>5 DEF a
  <2> HIDE DEF S
  <2>3. Nat \subseteq S
    BY <2>1, <2>2, InductionOnSet
  <2>4. QED
    BY <2>3 DEF S
<1>6. Number(b, r, w) = n
  BY <1>1, <1>2, <1>5
<1>7. \A i \in 1..w : s[w - i] % r \in 0..(r - 1)
  <2>1. ASSUME NEW i \in 1..w PROVE s[w - i] \in Nat
    BY <1>3
  <2>2. QED
    BY <2>1, DropDigit
<1>8. b \in [1..w -> 0..(r - 1)]
  <2>1. b = [i \in 1..w |-> b[i]]
    BY Shifting DEF b
  <2>2. QED
    BY <1>1, <1>7, <2>1
<1>9. QED
  BY <1>6, <1>8 DEF b

\* The prefix of a length that fits is LEN_PREFIX bytes, and reads back as
\* that length (codec.rs:44, framed.rs:71).
THEOREM PrefixRoundTrip ==
    ASSUME NEW n \in Nat, n < Power(Radix, LEN_PREFIX)
    PROVE  /\ to_be_bytes(n) \in Seq(Byte) /\ Len(to_be_bytes(n)) = LEN_PREFIX
           /\ from_be_bytes(to_be_bytes(n)) = n
<1> DEFINE b == to_be_bytes(n)
<1>1. b \in [1..LEN_PREFIX -> Byte] /\ from_be_bytes(b) = n
  BY Constants, DigitsRoundTrip DEF to_be_bytes, from_be_bytes, Byte
<1> HIDE DEF b
<1>2. b \in Seq(Byte) /\ Len(b) = LEN_PREFIX
  BY <1>1, Constants
<1>3. QED
  BY <1>1, <1>2 DEF b

\* The least element of a set of naturals.
LEMMA LeastIsMin ==
    ASSUME NEW T \in SUBSET Nat, NEW m \in T, \A k \in T : m <= k
    PROVE  Min(T) = m
<1>1. Min(T) \in T /\ \A k \in T : Min(T) <= k
  BY DEF Min
<1>2. Min(T) \in Nat /\ Min(T) <= m /\ m <= Min(T) /\ m \in Nat
  BY <1>1
<1>3. QED
  BY <1>2

\* A marked digit is told from an unmarked one, and loses the mark.
LEMMA Marked ==
    ASSUME NEW h \in Nat, h > 0, NEW a \in 0..(h - 1)
    PROVE  a % h = a /\ (a + h) % h = a
  OBVIOUS

\* A length is written as bytes of which the last alone is unmarked, and whose
\* digits read back as that length.
LEMMA VarintRoundTrip ==
    ASSUME NEW n \in Nat, n < Power(Half, VARINT_MAX)
    PROVE  \E w \in 1..VARINT_MAX :
               /\ varint(n) \in [1..w -> Byte]
               /\ varint(n)[w] < Half /\ \A i \in 1..(w - 1) : varint(n)[i] >= Half
               /\ Number([i \in 1..w |-> varint(n)[w + 1 - i] % Half], Half, w) = n
<1> DEFINE T == {k \in 1..VARINT_MAX : n < Power(Half, k)}
           w == Min(T)
           d == Digits(n, Half, w)
           v == [i \in 1..w |-> d[w + 1 - i] + (IF i < w THEN Half ELSE 0)]
<1>1. varint(n) = v
  BY DEF varint
<1>2. w \in 1..VARINT_MAX /\ n < Power(Half, w)
  <2>1. T \in SUBSET Nat /\ VARINT_MAX \in T
    BY Constants
  <2> HIDE DEF T
  <2>2. w \in T
    BY <2>1, LeastNatural, LeastIsMin
  <2>3. QED
    BY <2>2 DEF T
<1> HIDE DEF T, w
<1>3. d \in [1..w -> 0..(Half - 1)] /\ Number(d, Half, w) = n
  BY <1>2, Constants, DigitsRoundTrip
<1> HIDE DEF d
<1>4. \A i \in 1..w : v[i] \in Byte
  <2>1. ASSUME NEW i \in 1..w PROVE v[i] \in Byte
    <3>1. w + 1 - i \in 1..w
      BY <1>2
    <3>2. d[w + 1 - i] \in 0..(Half - 1)
      BY <1>3, <3>1
    <3>3. QED
      BY <3>2, Constants DEF Byte
  <2>2. QED
    BY <2>1
<1>5. v \in [1..w -> Byte]
  BY <1>4
<1>6. v[w] < Half
  <2>1. v[w] = d[1] /\ d[1] \in 0..(Half - 1)
    BY <1>2, <1>3
  <2>2. QED
    BY <2>1, Constants
<1>7. ASSUME NEW i \in 1..(w - 1) PROVE v[i] >= Half
  <2>1. w + 1 - i \in 1..w /\ i \in 1..w /\ i < w
    BY <1>2
  <2>2. v[i] = d[w + 1 - i] + Half /\ d[w + 1 - i] \in 0..(Half - 1)
    BY <1>3, <2>1
  <2>3. QED
    BY <2>2, Constants
<1>8. [i \in 1..w |-> v[w + 1 - i] % Half] = d
  <2>1. ASSUME NEW i \in 1..w PROVE v[w + 1 - i] % Half = d[i]
    <3>1. w + 1 - i \in 1..w /\ w + 1 - (w + 1 - i) = i
      BY <1>2
    <3>2. d[i] \in 0..(Half - 1)
      BY <1>3
    <3>3. v[w + 1 - i] = d[i] \/ v[w + 1 - i] = d[i] + Half
      BY <3>1, <3>2, Constants
    <3> HIDE DEF v
    <3>4. d[i] % Half = d[i] /\ (d[i] + Half) % Half = d[i]
      <4>1. Half \in Nat /\ Half > 0
        BY Constants
      <4>2. QED
        BY <3>2, <4>1, Marked, Zenon
    <3>5. QED
      BY <3>3, <3>4
  <2> HIDE DEF v
  <2>2. QED
    BY <1>3, <2>1
<1> HIDE DEF v
<1>9. QED
  BY <1>1, <1>2, <1>3, <1>5, <1>6, <1>7, <1>8
-----------------------------------------------------------------------------
(***************************************************************************)
(* The codec.                                                              *)
(***************************************************************************)

\* What postcard writes for a byte string: the number of the variant, w bytes
\* of which the last alone is unmarked, and the string.
LEMMA EncodeData ==
    ASSUME NEW p \in Payloads
    PROVE  LET b == encode(Data(p))
           IN  \E w \in 1..VARINT_MAX :
               /\ b \in Seq(Byte) /\ Len(b) = 1 + w + Len(p) /\ b[1] = 2
               /\ b[w + 1] < Half /\ \A i \in 1..(w - 1) : b[i + 1] >= Half
               /\ varint_value(b, w) = Len(p)
               /\ \A i \in 1..Len(p) : b[1 + w + i] = p[i]
<1> DEFINE v == varint(Len(p))
           h == <<2>> \o v
           b == h \o p
<1>1. p \in Seq(Byte) /\ Len(p) \in Nat /\ Len(p) < Power(Half, VARINT_MAX)
  BY Constants
<1>2. encode(Data(p)) = b
  BY DEF encode, Ping, Data
<1>3. PICK w \in 1..VARINT_MAX :
          /\ v \in [1..w -> Byte] /\ v[w] < Half /\ \A i \in 1..(w - 1) : v[i] >= Half
          /\ Number([i \in 1..w |-> v[w + 1 - i] % Half], Half, w) = Len(p)
  BY <1>1, VarintRoundTrip
<1> HIDE DEF v
<1>4. w \in Nat /\ v \in Seq(Byte) /\ Len(v) = w
  BY <1>3, Constants
<1>5. <<2>> \in Seq(Byte) /\ Len(<<2>>) = 1 /\ <<2>>[1] = 2
  <2>1. 2 \in Byte
    BY Constants DEF Byte
  <2>2. QED
    BY <2>1
<1>6. h \in Seq(Byte) /\ Len(h) = 1 + w /\ h[1] = 2 /\ \A i \in 1..w : h[1 + i] = v[i]
  <2>1. /\ h \in Seq(Byte) /\ Len(h) = Len(<<2>>) + Len(v)
        /\ \A i \in 1..(Len(<<2>>) + Len(v)) :
              h[i] = IF i <= Len(<<2>>) THEN <<2>>[i] ELSE v[i - Len(<<2>>)]
    BY <1>4, <1>5, ConcatProperties, Zenon
  <2> HIDE DEF h
  <2>2. \A i \in 1..(1 + w) : h[i] = IF i <= 1 THEN 2 ELSE v[i - 1]
    BY <1>4, <1>5, <2>1
  <2>3. QED
    BY <1>4, <1>5, <2>1, <2>2
<1> HIDE DEF h
<1>7. /\ b \in Seq(Byte) /\ Len(b) = 1 + w + Len(p)
      /\ \A i \in 1..(1 + w + Len(p)) : b[i] = IF i <= 1 + w THEN h[i] ELSE p[i - (1 + w)]
  <2>1. /\ b \in Seq(Byte) /\ Len(b) = Len(h) + Len(p)
        /\ \A i \in 1..(Len(h) + Len(p)) : b[i] = IF i <= Len(h) THEN h[i] ELSE p[i - Len(h)]
    <3>1. p \in Seq(Byte) /\ h \in Seq(Byte)
      BY <1>1, <1>6
    <3>2. QED
      BY <3>1, ConcatProperties, Zenon
  <2> HIDE DEF b
  <2>2. QED
    BY <1>6, <2>1
<1> HIDE DEF b
<1>8. b[1] = 2 /\ \A i \in 1..w : b[1 + i] = v[i]
  BY <1>1, <1>4, <1>6, <1>7
<1>9. \A i \in 1..Len(p) : b[1 + w + i] = p[i]
  BY <1>1, <1>4, <1>7
<1>10. b[w + 1] < Half /\ \A i \in 1..(w - 1) : b[i + 1] >= Half
  BY <1>3, <1>4, <1>8
<1>11. varint_value(b, w) = Len(p)
  <2>1. \A i \in 1..w : b[w + 2 - i] = v[w + 1 - i]
    <3>1. ASSUME NEW i \in 1..w PROVE b[w + 2 - i] = v[w + 1 - i]
      <4>1. w + 1 - i \in 1..w /\ 1 + (w + 1 - i) = w + 2 - i
        BY <1>4
      <4>2. QED
        BY <1>8, <4>1
    <3>2. QED
      BY <3>1
  <2>2. [i \in 1..w |-> b[w + 2 - i] % Half] = [i \in 1..w |-> v[w + 1 - i] % Half]
    BY <2>1
  <2>3. QED
    BY <1>3, <2>2 DEF varint_value
<1>12. QED
  BY <1>2, <1>7, <1>8, <1>9, <1>10, <1>11

\* What postcard writes for a frame without fields.
LEMMA EncodePing == encode(Ping) = <<5>> /\ encode(Ping) \in Seq(Byte) /\ Len(encode(Ping)) = 1
<1>1. 5 \in Byte
  BY Constants DEF Byte
<1>2. QED
  BY <1>1 DEF encode

\* A frame is not the value that stands for an error.
LEMMA FrameNotError == \A f \in Frames : f # <<>>
  BY DEF Frames, Ping, Data

\* An encoded frame is a non-empty string of bytes.
LEMMA EncodeType == \A f \in Frames : encode(f) \in Seq(Byte) /\ Len(encode(f)) \in Nat \ {0}
<1>1. ASSUME NEW p \in Payloads
      PROVE  encode(Data(p)) \in Seq(Byte) /\ Len(encode(Data(p))) \in Nat \ {0}
  <2>1. Len(p) \in Nat
    BY Constants
  <2>2. PICK w \in 1..VARINT_MAX :
            encode(Data(p)) \in Seq(Byte) /\ Len(encode(Data(p))) = 1 + w + Len(p)
    BY EncodeData
  <2>3. QED
    BY <2>1, <2>2, Constants
<1>2. encode(Ping) \in Seq(Byte) /\ Len(encode(Ping)) \in Nat \ {0}
  BY EncodePing
<1>3. \A f \in Frames : f = Ping \/ \E p \in Payloads : f = Data(p)
  BY DEF Frames
<1>4. QED
  BY <1>1, <1>2, <1>3, Zenon

\* decode undoes encode, for every frame (codec.rs:26-36).
THEOREM CodecRoundTrip == \A f \in Frames : decode(encode(f)) = f
<1>1. decode(encode(Ping)) = Ping
  BY EncodePing DEF decode
<1>2. ASSUME NEW p \in Payloads PROVE decode(encode(Data(p))) = Data(p)
  <2> DEFINE b == encode(Data(p))
             n == Len(p)
  <2>1. p \in Seq(Byte) /\ n \in Nat
    BY Constants
  <2>2. PICK w \in 1..VARINT_MAX :
            /\ b \in Seq(Byte) /\ Len(b) = 1 + w + n /\ b[1] = 2
            /\ b[w + 1] < Half /\ \A i \in 1..(w - 1) : b[i + 1] >= Half
            /\ varint_value(b, w) = n
            /\ \A i \in 1..n : b[1 + w + i] = p[i]
    BY EncodeData
  <2> HIDE DEF b, n
  <2> DEFINE ends == {k \in 1..VARINT_MAX : k < Len(b) /\ b[k + 1] < Half}
             q == SubSeq(b, 2 + w, 1 + w + n)
  <2>3. w \in Nat /\ w > 0 /\ Len(b) \in Nat
    BY <2>2, Constants
  <2>4. ends \in SUBSET Nat /\ w \in ends
    BY <2>1, <2>2, <2>3, Constants
  <2>5. ASSUME NEW k \in ends PROVE w <= k
    <3> SUFFICES ASSUME k < w PROVE FALSE
      BY <2>3, <2>5, Constants
    <3>1. k \in 1..(w - 1) /\ k + 1 \in 1..Len(b) /\ b[k + 1] < Half
      BY <2>1, <2>2, <2>3, <2>5, Constants
    <3>2. b[k + 1] >= Half /\ b[k + 1] \in Int
      BY <2>2, <3>1, Constants DEF Byte
    <3>3. QED
      BY <3>1, <3>2, Constants
  <2>6. Min(ends) = w
    <3> HIDE DEF ends
    <3>1. QED
      BY <2>4, <2>5, LeastIsMin
  <2>7. \A i \in (2 + w)..(1 + w + n) : b[i] \in Byte
    BY <2>1, <2>2, <2>3
  <2>8. /\ q \in Seq(Byte)
        /\ Len(q) = IF 2 + w <= 1 + w + n THEN ((1 + w + n) - (2 + w)) + 1 ELSE 0
        /\ \A i \in 1..(((1 + w + n) - (2 + w)) + 1) : q[i] = b[((2 + w) + i) - 1]
    BY <2>1, <2>3, <2>7, SubSeqProperties
  <2> HIDE DEF q
  <2>9. Len(q) = n
    BY <2>1, <2>3, <2>8
  <2>10. ASSUME NEW i \in 1..Len(q) PROVE q[i] = p[i]
    <3>1. i \in 1..(((1 + w + n) - (2 + w)) + 1) /\ ((2 + w) + i) - 1 = 1 + w + i /\ i \in 1..n
      BY <2>1, <2>3, <2>9
    <3>2. QED
      BY <2>2, <2>8, <3>1
  <2>11. q = p
    BY <2>1, <2>8, <2>9, <2>10, SeqEqual DEF n
  <2>12. decode(b) = Data(q)
    <3>1. b # <<>> /\ b[1] # 5 /\ ends # {} /\ Len(b) >= 1 + Min(ends) + varint_value(b, Min(ends))
      BY <2>1, <2>2, <2>3, <2>4, <2>6
    <3>2. decode(b) = Data(SubSeq(b, 2 + Min(ends), 1 + Min(ends) + varint_value(b, Min(ends))))
      BY <2>2, <3>1 DEF decode
    <3>3. QED
      BY <2>2, <2>6, <3>2 DEF q
  <2>13. QED
    BY <2>11, <2>12 DEF b
<1>3. QED
  BY <1>1, <1>2 DEF Frames

\* The limit on frames keeps their lengths within the prefix.
LEMMA Framed ==
    ASSUME NEW f \in Frames, ~TooLarge(f)
    PROVE  /\ to_be_bytes(Len(encode(f))) \in Seq(Byte)
           /\ Len(to_be_bytes(Len(encode(f)))) = LEN_PREFIX
           /\ from_be_bytes(to_be_bytes(Len(encode(f)))) = Len(encode(f))
           /\ encode(f) \in Seq(Byte) /\ Len(encode(f)) \in 1..MAX_FRAME_LEN
           /\ encode_framed(f) \in Seq(Byte)
           /\ Len(encode_framed(f)) = LEN_PREFIX + Len(encode(f))
<1>1. encode(f) \in Seq(Byte) /\ Len(encode(f)) \in Nat /\ Len(encode(f)) \in 1..MAX_FRAME_LEN
  BY EncodeType, Constants DEF TooLarge
<1>2. Len(encode(f)) < Power(Radix, LEN_PREFIX)
  <2>1. Power(Radix, LEN_PREFIX) \in Nat
    BY Constants, PowerType
  <2>2. QED
    BY <1>1, <2>1, Constants
<1>3. QED
  BY <1>1, <1>2, PrefixRoundTrip, ConcatProperties DEF encode_framed

-----------------------------------------------------------------------------
(***************************************************************************)
(* Strings of bytes.                                                       *)
(***************************************************************************)

\* Concatenation, under a name of its own: these lemmas are all that the proofs
\* below use of it.
s ++ t == s \o t

\* Bytes joined are bytes.
LEMMA JoinType ==
    \A s, t \in Seq(Byte) : s ++ t \in Seq(Byte) /\ Len(s ++ t) = Len(s) + Len(t)
  BY ConcatProperties DEF ++

\* Joining is associative.
LEMMA JoinAssoc == \A s, t, u \in Seq(Byte) : (s ++ t) ++ u = s ++ (t ++ u)
  BY ConcatAssociative DEF ++

\* The empty string of bytes.
LEMMA NoBytes ==
    /\ <<>> \in Seq(Byte) /\ Len(<<>>) = 0
    /\ \A s \in Seq(Byte) : <<>> ++ s = s /\ s ++ <<>> = s
    /\ \A s, t \in Seq(Byte) : s ++ t = <<>> => s = <<>> /\ t = <<>>
  BY EmptySeq, ConcatEmptySeq, ConcatSimplifications DEF ++

\* A string of bytes is cut in two and put together again.
LEMMA CutAndJoin ==
    ASSUME NEW s \in Seq(Byte), NEW k \in 0..Len(s)
    PROVE  /\ SubSeq(s, 1, k) \in Seq(Byte) /\ SubSeq(s, k + 1, Len(s)) \in Seq(Byte)
           /\ SubSeq(s, 1, k) ++ SubSeq(s, k + 1, Len(s)) = s
<1>1. \A i \in 1..Len(s) : s[i] \in Byte
  OBVIOUS
<1>2. SubSeq(s, 1, k) \in Seq(Byte) /\ SubSeq(s, k + 1, Len(s)) \in Seq(Byte)
  BY <1>1, SubSeqProperties
<1>3. SubSeq(s, 1, k) \o SubSeq(s, k + 1, Len(s)) = SubSeq(s, 1, Len(s))
  <2>1. 1 \in 1..(Len(s) + 1) /\ k \in (1 - 1)..Len(s) /\ Len(s) \in k..Len(s)
    OBVIOUS
  <2>2. QED
    BY <2>1, ConcatAdjacentSubSeq
<1>4. QED
  BY <1>2, <1>3, SubSeqFull DEF ++

\* Two ways of writing a string whose first parts are equally long are one.
LEMMA SameCut ==
    ASSUME NEW a \in Seq(Byte), NEW b \in Seq(Byte), NEW c \in Seq(Byte), NEW d \in Seq(Byte),
           a ++ b = c ++ d, Len(a) = Len(c)
    PROVE  a = c /\ b = d
<1>1. /\ \A i \in 1..Len(a) : (a \o b)[i] = a[i]
      /\ \A i \in 1..Len(c) : (c \o d)[i] = c[i]
  <2>1. \A i \in 1..(Len(a) + Len(b)) : (a \o b)[i] = IF i <= Len(a) THEN a[i] ELSE b[i - Len(a)]
    BY ConcatProperties
  <2>2. \A i \in 1..(Len(c) + Len(d)) : (c \o d)[i] = IF i <= Len(c) THEN c[i] ELSE d[i - Len(c)]
    BY ConcatProperties
  <2>3. Len(a) \in Nat /\ Len(b) \in Nat /\ Len(c) \in Nat /\ Len(d) \in Nat
    OBVIOUS
  <2>4. QED
    BY <2>1, <2>2, <2>3
<1>2. a = c
  BY <1>1, SeqEqual DEF ++
<1>3. QED
  BY <1>2, ConcatSimplifications DEF ++

\* A frame on the stream is its length and its encoding.
LEMMA FramedJoin == \A f : encode_framed(f) = to_be_bytes(Len(encode(f))) ++ encode(f)
  BY DEF encode_framed, ++

-----------------------------------------------------------------------------
(***************************************************************************)
(* The inductive invariant.  rest[k] is what the frames after the k-th     *)
(* look like on the stream; what the receiver has read of the frame it is  *)
(* at, what is in flight and what write_all still holds are the beginning  *)
(* of the frames not yet received, and all of it while the sender and the  *)
(* connection are there.                                                   *)
(***************************************************************************)

Sendable == {f \in Frames : ~TooLarge(f)}

\* The prefix that was read to begin the body.
Consumed == IF rcv = "body" THEN to_be_bytes(need) ELSE <<>>

\* What write_all will still get onto the stream.
Pending == IF conn = "up" THEN out ELSE <<>>

Live == snd # "gone" /\ conn = "up"

Unread(tail) == stream ++ (Pending ++ tail)

Carries(rest, tail) ==
    /\ rest \in [Len(got)..Len(sent) -> Seq(Byte)]
    /\ tail \in Seq(Byte)
    /\ rest[Len(sent)] = <<>>
    /\ \A k \in Len(got)..(Len(sent) - 1) : rest[k] = encode_framed(sent[k + 1]) ++ rest[k + 1]
    /\ rest[Len(got)] = Consumed ++ (buf ++ Unread(tail))
    /\ Live => tail = <<>>

Wire == Reading => \E rest, tail : Carries(rest, tail)

Phase ==
    /\ Len(got) <= Len(sent)
    /\ rcv = "len" => need = LEN_PREFIX
    /\ rcv = "body" => need <= MAX_FRAME_LEN
    /\ snd # "write" => out = <<>>

FInv == TypeOK /\ LimitsAgree /\ Phase /\ Wire

\* The initial states satisfy it.
LEMMA InitFInv == Init => FInv
<1> SUFFICES ASSUME Init PROVE FInv
  OBVIOUS
<1>1. TypeOK /\ LimitsAgree /\ Phase
  <2>1. \A T : <<>> \in Seq(T) /\ Len(<<>>) = 0
    BY EmptySeq
  <2>2. TypeOK
    BY <2>1, Constants DEF Init, TypeOK
  <2>3. LimitsAgree /\ Phase
    BY DEF Init, LimitsAgree, Phase
  <2>4. QED
    BY <2>2, <2>3
<1>2. Carries([k \in 0..0 |-> <<>>], <<>>)
  <2>1. Unread(<<>>) = <<>> /\ Consumed = <<>> /\ <<>> ++ (<<>> ++ <<>>) = <<>>
    BY NoBytes DEF Init, Unread, Pending, Consumed
  <2>2. QED
    BY <2>1, NoBytes DEF Init, Carries
<1> QED
  BY <1>1, <1>2 DEF FInv, Wire

\* What TypeOK says of the strings.
LEMMA Strings ==
    ASSUME TypeOK, Phase
    PROVE  /\ Pending \in Seq(Byte) /\ Consumed \in Seq(Byte)
           /\ buf \in Seq(Byte) /\ stream \in Seq(Byte)
           /\ \A tail \in Seq(Byte) : Pending ++ tail \in Seq(Byte) /\ Unread(tail) \in Seq(Byte)
           /\ \A tail \in Seq(Byte) : buf ++ Unread(tail) \in Seq(Byte)
           /\ rcv = "body" => Len(Consumed) = LEN_PREFIX /\ from_be_bytes(Consumed) = need
           /\ Len(sent) \in Nat /\ Len(got) \in Nat /\ Len(got) <= Len(sent)
           /\ \A k \in 1..Len(sent) : sent[k] \in Sendable
<1>1. /\ Pending \in Seq(Byte) /\ buf \in Seq(Byte) /\ stream \in Seq(Byte)
      /\ Len(sent) \in Nat /\ Len(got) \in Nat /\ Len(got) <= Len(sent)
      /\ \A k \in 1..Len(sent) : sent[k] \in Sendable
  BY NoBytes DEF TypeOK, Phase, Pending, Sendable
<1>2. /\ rcv = "body" => Len(Consumed) = LEN_PREFIX /\ from_be_bytes(Consumed) = need
      /\ Consumed \in Seq(Byte)
  <2>1. CASE rcv = "body"
    <3>1. need \in Nat /\ need < Power(Radix, LEN_PREFIX)
      <4>1. Power(Radix, LEN_PREFIX) \in Nat
        BY Constants, PowerType
      <4>2. QED
        BY <2>1, <4>1, Constants DEF TypeOK, Phase
    <3>2. QED
      BY <2>1, <3>1, PrefixRoundTrip DEF Consumed
  <2>2. CASE rcv # "body"
    BY <2>2, NoBytes DEF Consumed
  <2>3. QED
    BY <2>1, <2>2
<1>3. \A tail \in Seq(Byte) : Pending ++ tail \in Seq(Byte) /\ Unread(tail) \in Seq(Byte)
  BY <1>1, JoinType DEF Unread
<1>4. QED
  BY <1>1, <1>2, <1>3, JoinType

\* While there are bytes to read, they are those of the frame after the last one
\* received.
LEMMA NextFrame ==
    ASSUME TypeOK, Phase, NEW rest, NEW tail, Carries(rest, tail),
           Consumed # <<>> \/ buf # <<>>
    PROVE  LET f == sent[Len(got) + 1]
           IN  /\ Len(got) < Len(sent) /\ f \in Frames /\ ~TooLarge(f)
               /\ rest[Len(got) + 1] \in Seq(Byte)
               /\ to_be_bytes(Len(encode(f))) ++ (encode(f) ++ rest[Len(got) + 1])
                    = Consumed ++ (buf ++ Unread(tail))
<1>1. tail \in Seq(Byte) /\ rest[Len(got)] = Consumed ++ (buf ++ Unread(tail))
  BY DEF Carries
<1>2. Consumed ++ (buf ++ Unread(tail)) # <<>>
  <2> SUFFICES ASSUME Consumed ++ (buf ++ Unread(tail)) = <<>> PROVE FALSE
    OBVIOUS
  <2>1. /\ Consumed \in Seq(Byte) /\ buf \in Seq(Byte) /\ Unread(tail) \in Seq(Byte)
        /\ buf ++ Unread(tail) \in Seq(Byte)
    BY <1>1, Strings
  <2>2. Consumed = <<>> /\ buf ++ Unread(tail) = <<>>
    BY <2>1, NoBytes
  <2>3. buf = <<>>
    BY <2>1, <2>2, NoBytes
  <2>4. QED
    BY <2>2, <2>3
<1>3. Len(got) # Len(sent)
  BY <1>1, <1>2 DEF Carries
<1>4. /\ Len(got) < Len(sent) /\ Len(got) + 1 \in 1..Len(sent)
      /\ Len(got) + 1 \in Len(got)..Len(sent) /\ Len(got) \in Len(got)..(Len(sent) - 1)
  BY <1>3, Strings
<1> DEFINE f == sent[Len(got) + 1]
           r == rest[Len(got) + 1]
<1>5. f \in Frames /\ ~TooLarge(f)
  BY <1>4, Strings DEF Sendable
<1>6. r \in Seq(Byte) /\ rest[Len(got)] = encode_framed(f) ++ r
  BY <1>4 DEF Carries
<1> HIDE DEF f, r
<1>7. encode_framed(f) ++ r = to_be_bytes(Len(encode(f))) ++ (encode(f) ++ r)
  <2> DEFINE h == to_be_bytes(Len(encode(f)))
             e == encode(f)
  <2>1. h \in Seq(Byte) /\ e \in Seq(Byte)
    BY <1>5, Framed
  <2>2. encode_framed(f) = h ++ e
    BY FramedJoin
  <2> HIDE DEF h, e
  <2>3. (h ++ e) ++ r = h ++ (e ++ r)
    BY <2>1, <1>6, JoinAssoc
  <2>4. QED
    BY <2>2, <2>3 DEF h, e
<1>8. QED
  BY <1>1, <1>4, <1>5, <1>6, <1>7 DEF f, r
-----------------------------------------------------------------------------
(***************************************************************************)
(* Every step keeps it: the sending side.                                  *)
(***************************************************************************)

\* A new frame follows everything that was sent before.
LEMMA SendStep ==
    ASSUME FInv, NEW f \in Frames, Send(f)
    PROVE  FInv'
<1> DEFINE n == Len(got)
           m == Len(sent)
           e == encode_framed(f)
<1> USE DEF FInv
<1>1. /\ snd = "idle" /\ conn = "up" /\ out = <<>> /\ ~TooLarge(f)
      /\ sent' = Append(sent, f) /\ out' = e /\ snd' = "write"
      /\ UNCHANGED <<torn, conn, stream, rcv, buf, need, got>>
  BY DEF Send, receiver, Phase
<1>2. e \in Seq(Byte)
  BY <1>1, Framed
<1>3. /\ m \in Nat /\ n \in Nat /\ n <= m
      /\ sent \in Seq(Sendable) /\ f \in Sendable
      /\ buf \in Seq(Byte) /\ stream \in Seq(Byte) /\ Consumed \in Seq(Byte)
  BY <1>1, Strings DEF TypeOK, Sendable
<1>4. /\ sent' \in Seq(Sendable) /\ Len(sent') = m + 1 /\ sent'[m + 1] = f
      /\ \A k \in 1..m : sent'[k] = sent[k]
  BY <1>1, <1>3, AppendProperties
<1>5. TypeOK'
  BY <1>1, <1>2, <1>4 DEF TypeOK, Sendable
<1>6. LimitsAgree' /\ Phase'
  BY <1>1, <1>3, <1>4 DEF LimitsAgree, Phase
<1>7. ASSUME Reading PROVE \E rest, tail : Carries(rest, tail)'
  <2>1. PICK rest, tail : Carries(rest, tail)
    BY <1>7 DEF Wire
  <2>2. /\ tail = <<>> /\ rest[m] = <<>> /\ \A k \in n..m : rest[k] \in Seq(Byte)
        /\ \A k \in n..(m - 1) : rest[k] = encode_framed(sent[k + 1]) ++ rest[k + 1]
        /\ rest[n] = Consumed ++ (buf ++ stream)
    <3>1. tail = <<>> /\ Pending = <<>>
      BY <1>1, <2>1 DEF Carries, Live, Pending
    <3>2. Unread(tail) = stream
      BY <3>1, <1>3, NoBytes DEF Unread
    <3>3. QED
      BY <2>1, <3>1, <3>2 DEF Carries
  <2>3. PICK r : r = [k \in n..(m + 1) |-> IF k = m + 1 THEN <<>> ELSE rest[k] ++ e]
    OBVIOUS
  <2>4. /\ r \in [n..(m + 1) -> Seq(Byte)]
        /\ r[m + 1] = <<>> /\ \A k \in n..m : r[k] = rest[k] ++ e
    <3>1. \A k \in n..m : rest[k] ++ e \in Seq(Byte)
      BY <1>2, <2>2, JoinType
    <3>2. \A k \in n..(m + 1) : k = m + 1 \/ k \in n..m
      BY <1>3
    <3>3. QED
      BY <1>3, <2>3, <3>1, <3>2, NoBytes
  <2> HIDE DEF e
  <2>5. ASSUME NEW k \in n..m PROVE r[k] = encode_framed(sent'[k + 1]) ++ r[k + 1]
    <3>1. CASE k = m
      <4>1. r[m] = rest[m] ++ e
        BY <1>3, <2>4
      <4>2. r[m] = e ++ <<>>
        BY <4>1, <1>2, <2>2, NoBytes, Zenon
      <4>3. QED
        BY <3>1, <4>2, <2>4, <1>4 DEF e
    <3>2. CASE k # m
      <4>1. k \in n..(m - 1) /\ k + 1 \in n..m /\ k + 1 \in 1..m
        BY <1>3, <3>2
      <4>2. sent'[k + 1] = sent[k + 1] /\ sent[k + 1] \in Frames /\ ~TooLarge(sent[k + 1])
        BY <4>1, <1>3, <1>4 DEF Sendable
      <4> DEFINE g == encode_framed(sent[k + 1])
                 x == rest[k + 1]
      <4>3. g \in Seq(Byte) /\ x \in Seq(Byte) /\ rest[k] = g ++ x
        BY <4>1, <4>2, <2>2, Framed
      <4>4. r[k] = rest[k] ++ e /\ r[k + 1] = x ++ e
        BY <4>1, <2>4
      <4> HIDE DEF g, x
      <4>5. (g ++ x) ++ e = g ++ (x ++ e)
        BY <4>3, <1>2, JoinAssoc
      <4>6. QED
        BY <4>2, <4>3, <4>4, <4>5 DEF g
    <3>3. QED
      BY <3>1, <3>2
  <2>6. r[n] = Consumed ++ (buf ++ (stream ++ (e ++ <<>>)))
    <3>1. r[n] = (Consumed ++ (buf ++ stream)) ++ e
      BY <1>3, <2>2, <2>4
    <3>2. (Consumed ++ (buf ++ stream)) ++ e = Consumed ++ (buf ++ (stream ++ e))
      BY <1>2, <1>3, JoinType, JoinAssoc
    <3>3. e ++ <<>> = e
      BY <1>2, NoBytes
    <3>4. QED
      BY <3>1, <3>2, <3>3
  <2>7. Consumed' = Consumed /\ Pending' = e /\ buf' = buf /\ stream' = stream
    BY <1>1 DEF Consumed, Pending
  <2>8. Carries(r, <<>>)'
    <3>1. (Len(sent))' = m + 1 /\ got' = got /\ (m + 1) - 1 = m
      BY <1>1, <1>3, <1>4
    <3>2. r[n] = Consumed' ++ (buf' ++ (stream' ++ (Pending' ++ <<>>)))
      BY <2>6, <2>7
    <3> HIDE DEF m
    <3>3. /\ r \in [n..(m + 1) -> Seq(Byte)] /\ <<>> \in Seq(Byte) /\ r[m + 1] = <<>>
          /\ \A k \in n..((m + 1) - 1) : r[k] = encode_framed(sent'[k + 1]) ++ r[k + 1]
      BY <2>4, <2>5, <3>1, NoBytes
    <3>4. QED
      BY <3>1, <3>2, <3>3 DEF Carries, Unread
  <2>9. QED
    BY <2>8
<1>8. Reading' <=> Reading
  BY <1>1 DEF Reading
<1>9. Wire'
  BY <1>7, <1>8 DEF Wire
<1>10. QED
  BY <1>5, <1>6, <1>9
\* How a step that sends and receives no frame keeps Wire: what was read and what
\* is to come are the same bytes, cut in another place.
LEMMA SameBytes ==
    ASSUME UNCHANGED <<sent, got>>, Reading => Reading',
           NEW rest, NEW tail, Carries(rest, tail),
           NEW more \in Seq(Byte), Live' => more = <<>>,
           Consumed' ++ (buf' ++ (stream' ++ (Pending' ++ more))) = Consumed ++ (buf ++ Unread(tail))
    PROVE  Carries(rest, more)'
  BY DEF Carries, Unread

\* write_all moves bytes onto the stream.
LEMMA WriteStep ==
    ASSUME FInv, WriteSome
    PROVE  FInv'
<1> USE DEF FInv
<1>1. PICK k \in 1..Len(out) :
          /\ stream' = stream ++ SubSeq(out, 1, k)
          /\ out' = SubSeq(out, k + 1, Len(out))
          /\ snd' = IF k = Len(out) THEN "idle" ELSE "write"
  BY DEF WriteSome, ++
<1>2. /\ snd = "write" /\ conn = "up"
      /\ UNCHANGED <<sent, torn, conn, rcv, buf, need, got>>
  BY DEF WriteSome, receiver
<1> DEFINE a == SubSeq(out, 1, k)
           b == SubSeq(out, k + 1, Len(out))
<1>3. out \in Seq(Byte) /\ stream \in Seq(Byte) /\ k \in 0..Len(out)
  BY DEF TypeOK
<1>4. a \in Seq(Byte) /\ b \in Seq(Byte) /\ a ++ b = out
  BY <1>3, CutAndJoin
<1>5. stream ++ a \in Seq(Byte)
  BY <1>3, <1>4, JoinType
<1>6. snd' = "idle" => out' = <<>>
  BY <1>1, <1>3, SubSeqEmpty
<1>7. TypeOK'
  BY <1>1, <1>2, <1>4, <1>5 DEF TypeOK
<1>8. LimitsAgree' /\ Phase'
  BY <1>1, <1>2, <1>6 DEF LimitsAgree, Phase
<1>9. ASSUME NEW rest, NEW tail, Carries(rest, tail) PROVE Carries(rest, tail)'
  <2>1. Pending = a ++ b /\ Pending' = b /\ Consumed' = Consumed /\ stream' = stream ++ a
    BY <1>1, <1>2, <1>4 DEF Pending, Consumed
  <2>2. tail \in Seq(Byte) /\ (Live' => tail = <<>>)
    BY <1>2, <1>9 DEF Carries, Live
  <2> HIDE DEF a, b
  <2>3. stream ++ ((a ++ b) ++ tail) = (stream ++ a) ++ (b ++ tail)
    BY <1>3, <1>4, <2>2, JoinType, JoinAssoc
  <2>4. stream' ++ (Pending' ++ tail) = Unread(tail)
    BY <2>1, <2>3 DEF Unread
  <2>5. QED
    BY <1>2, <1>9, <2>1, <2>2, <2>4, SameBytes DEF Reading
<1>10. Wire'
  BY <1>2, <1>9 DEF Wire, Reading
<1>11. QED
  BY <1>7, <1>8, <1>10

\* Finished, aborted, or refused by encode_framed: what was not written is lost.
LEMMA DropStep ==
    ASSUME FInv, DropSend \/ \E f \in Frames : SendTooLarge(f)
    PROVE  FInv'
<1> USE DEF FInv
<1>1. /\ snd' = "gone" /\ out' = <<>> /\ torn' \in BOOLEAN
      /\ UNCHANGED <<sent, conn, stream, rcv, buf, need, got>>
  BY DEF DropSend, SendTooLarge, receiver, TypeOK, Phase
<1>2. TypeOK'
  BY <1>1, NoBytes DEF TypeOK
<1>3. LimitsAgree' /\ Phase'
  BY <1>1 DEF LimitsAgree, Phase
<1>4. ASSUME NEW rest, NEW tail, Carries(rest, tail) PROVE \E more : Carries(rest, more)'
  <2>1. PICK more : more = Pending ++ tail
    OBVIOUS
  <2>2. more \in Seq(Byte) /\ <<>> ++ more = more
    BY <1>4, <2>1, Strings, NoBytes DEF Carries
  <2>3. Pending' = <<>> /\ Consumed' = Consumed /\ ~Live'
    BY <1>1 DEF Pending, Consumed, Live
  <2>4. stream' ++ (Pending' ++ more) = Unread(tail)
    BY <1>1, <2>1, <2>2, <2>3 DEF Unread
  <2>5. Carries(rest, more)'
    BY <1>1, <1>4, <2>2, <2>3, <2>4, SameBytes DEF Reading
  <2>6. QED
    BY <2>5
<1>5. Wire'
  BY <1>1, <1>4 DEF Wire, Reading
<1>6. QED
  BY <1>2, <1>3, <1>5

\* The connection goes away: of what is in flight a part has arrived.
LEMMA CutStep ==
    ASSUME FInv, ConnLost \/ CloseConn
    PROVE  FInv'
<1> USE DEF FInv
<1>1. PICK k \in 0..Len(stream) : stream' = SubSeq(stream, 1, k)
  BY DEF ConnLost, CloseConn, Cut
<1>2. /\ conn' \in {"lost", "closed"} /\ snd' \in {snd, "gone"}
      /\ (snd' # "write" => snd # "write")
      /\ UNCHANGED <<sent, out, torn, rcv, buf, need, got>>
  BY DEF ConnLost, CloseConn, Cut, sender, receiver
<1> DEFINE a == SubSeq(stream, 1, k)
           b == SubSeq(stream, k + 1, Len(stream))
<1>3. stream \in Seq(Byte)
  BY DEF TypeOK
<1>4. a \in Seq(Byte) /\ b \in Seq(Byte) /\ a ++ b = stream
  BY <1>3, CutAndJoin
<1>5. TypeOK'
  BY <1>1, <1>2, <1>4 DEF TypeOK
<1>6. LimitsAgree' /\ Phase'
  BY <1>2 DEF LimitsAgree, Phase
<1>7. ASSUME NEW rest, NEW tail, Carries(rest, tail) PROVE \E more : Carries(rest, more)'
  <2> DEFINE x == Pending ++ tail
  <2>1. PICK more : more = b ++ x
    OBVIOUS
  <2>2. x \in Seq(Byte)
    BY <1>7, Strings DEF Carries
  <2>3. Pending' = <<>> /\ Consumed' = Consumed /\ ~Live' /\ Unread(tail) = stream ++ x
    BY <1>2 DEF Pending, Consumed, Live, Unread
  <2>4. stream' = a
    BY <1>1
  <2> HIDE DEF a, b, x
  <2>5. more \in Seq(Byte) /\ <<>> ++ more = more
    BY <1>4, <2>1, <2>2, JoinType, NoBytes
  <2>6. (a ++ b) ++ x = a ++ (b ++ x)
    <3>1. a \in Seq(Byte) /\ b \in Seq(Byte)
      BY <1>4
    <3>2. QED
      BY <2>2, <3>1, JoinAssoc
  <2>7. stream' ++ (Pending' ++ more) = Unread(tail)
    BY <1>4, <2>1, <2>3, <2>4, <2>5, <2>6
  <2>8. Carries(rest, more)'
    BY <1>2, <1>7, <2>3, <2>5, <2>7, SameBytes DEF Reading
  <2>9. QED
    BY <2>8
<1>8. Wire'
  BY <1>2, <1>7 DEF Wire, Reading
<1>9. QED
  BY <1>5, <1>6, <1>8

-----------------------------------------------------------------------------
(***************************************************************************)
(* The receiving side.                                                     *)
(***************************************************************************)

\* read_exact takes bytes off the stream.
LEMMA ReadStep ==
    ASSUME FInv, ReadSome
    PROVE  FInv'
<1> USE DEF FInv
<1>1. PICK k \in 1..Len(stream) :
          /\ buf' = buf ++ SubSeq(stream, 1, k)
          /\ stream' = SubSeq(stream, k + 1, Len(stream))
  BY DEF ReadSome, ++
<1>2. UNCHANGED <<sent, out, snd, torn, conn, rcv, need, got>>
  BY DEF ReadSome, sender
<1> DEFINE a == SubSeq(stream, 1, k)
           b == SubSeq(stream, k + 1, Len(stream))
<1>3. buf \in Seq(Byte) /\ stream \in Seq(Byte) /\ k \in 0..Len(stream)
  BY DEF TypeOK
<1>4. a \in Seq(Byte) /\ b \in Seq(Byte) /\ a ++ b = stream
  BY <1>3, CutAndJoin
<1>5. buf ++ a \in Seq(Byte)
  BY <1>3, <1>4, JoinType
<1>6. TypeOK'
  BY <1>1, <1>2, <1>4, <1>5 DEF TypeOK
<1>7. LimitsAgree' /\ Phase'
  BY <1>2 DEF LimitsAgree, Phase
<1>8. ASSUME NEW rest, NEW tail, Carries(rest, tail) PROVE Carries(rest, tail)'
  <2> DEFINE x == Pending ++ tail
  <2>1. x \in Seq(Byte)
    BY <1>8, Strings DEF Carries
  <2>2. /\ Pending' = Pending /\ Consumed' = Consumed /\ Unread(tail) = (a ++ b) ++ x
        /\ tail \in Seq(Byte) /\ (Live' => tail = <<>>)
    BY <1>2, <1>4, <1>8 DEF Pending, Consumed, Live, Unread, Carries
  <2>3. buf' = buf ++ a /\ stream' = b /\ Pending' ++ tail = x
    BY <1>1, <2>2
  <2> HIDE DEF a, b, x
  <2>4. buf ++ ((a ++ b) ++ x) = (buf ++ a) ++ (b ++ x)
    BY <1>3, <1>4, <2>1, JoinType, JoinAssoc
  <2>5. buf' ++ (stream' ++ (Pending' ++ tail)) = buf ++ Unread(tail)
    BY <2>2, <2>3, <2>4
  <2>6. QED
    BY <1>2, <1>8, <2>2, <2>5, SameBytes DEF Reading
<1>9. Wire'
  BY <1>2, <1>8 DEF Wire, Reading
<1>10. QED
  BY <1>6, <1>7, <1>9
\* The prefix that was read is the length of the next frame (framed.rs:67-74).
LEMMA GotLenStep ==
    ASSUME FInv, GotLen
    PROVE  FInv'
<1> USE DEF FInv
<1>1. /\ rcv = "len" /\ Len(buf) = LEN_PREFIX /\ Reading /\ Consumed = <<>>
      /\ UNCHANGED <<sent, out, snd, torn, conn, stream, got>>
  BY DEF GotLen, Complete, sender, Phase, Reading, Consumed
<1>2. PICK rest, tail : Carries(rest, tail)
  BY <1>1 DEF Wire
<1> DEFINE f == sent[Len(got) + 1]
           h == to_be_bytes(Len(encode(f)))
           x == encode(f) ++ rest[Len(got) + 1]
           y == Unread(tail)
<1>3. buf # <<>>
  BY <1>1, Constants
<1>4. f \in Frames /\ ~TooLarge(f) /\ rest[Len(got) + 1] \in Seq(Byte) /\ h ++ x = Consumed ++ (buf ++ y)
  BY <1>2, <1>3, NextFrame
<1>5. /\ h \in Seq(Byte) /\ Len(h) = LEN_PREFIX /\ from_be_bytes(h) = Len(encode(f))
      /\ encode(f) \in Seq(Byte) /\ Len(encode(f)) \in 1..MAX_FRAME_LEN
  BY <1>4, Framed
<1>6. x \in Seq(Byte) /\ y \in Seq(Byte) /\ buf \in Seq(Byte) /\ buf ++ y \in Seq(Byte)
  BY <1>2, <1>4, <1>5, Strings, JoinType DEF Carries
<1> HIDE DEF f, h, x, y
<1>7. h ++ x = buf ++ y
  BY <1>1, <1>4, <1>6, NoBytes
<1>8. buf = h
  BY <1>1, <1>5, <1>6, <1>7, SameCut
<1>9. from_be_bytes(buf) \in 1..MAX_FRAME_LEN /\ h = to_be_bytes(from_be_bytes(buf))
  BY <1>5, <1>8 DEF h
<1>10. rcv' = "body" /\ need' = from_be_bytes(buf) /\ buf' = <<>>
  BY <1>9, Constants DEF GotLen, Await
<1>11. TypeOK'
  BY <1>1, <1>9, <1>10, NoBytes DEF TypeOK
<1>12. LimitsAgree' /\ Phase'
  BY <1>1, <1>9, <1>10, Constants DEF LimitsAgree, Phase
<1>13. Carries(rest, tail)'
  <2>1. Consumed' = buf /\ Pending' = Pending
    BY <1>1, <1>8, <1>9, <1>10 DEF Consumed, Pending
  <2>2. tail \in Seq(Byte) /\ (Live' => tail = <<>>)
    BY <1>1, <1>2 DEF Carries, Live
  <2>3. /\ stream' ++ (Pending' ++ tail) = y
        /\ <<>> ++ y = y /\ <<>> ++ (buf ++ y) = buf ++ y
    BY <1>1, <1>6, <2>1, NoBytes DEF y, Unread
  <2>4. Consumed' ++ (buf' ++ (stream' ++ (Pending' ++ tail))) = Consumed ++ (buf ++ Unread(tail))
    BY <1>1, <1>10, <2>1, <2>3 DEF y
  <2>5. QED
    BY <1>1, <1>2, <1>10, <2>2, <2>4, SameBytes DEF Reading
<1>14. Wire'
  BY <1>13 DEF Wire
<1>15. QED
  BY <1>11, <1>12, <1>14

\* The body that was read is the encoding of the next frame (framed.rs:74-77).
LEMMA BodyIsNext ==
    ASSUME FInv, GotBody
    PROVE  /\ Len(got) < Len(sent)
           /\ decode(buf) = sent[Len(got) + 1] /\ decode(buf) # <<>>
           /\ decode(buf) \in Frames
           /\ \E rest, tail : Carries(rest, tail) /\ rest[Len(got) + 1] = Unread(tail)
<1> USE DEF FInv
<1>1. rcv = "body" /\ Len(buf) = need /\ Reading
  BY DEF GotBody, Complete, Reading
<1>2. PICK rest, tail : Carries(rest, tail)
  BY <1>1 DEF Wire
<1> DEFINE f == sent[Len(got) + 1]
           h == to_be_bytes(Len(encode(f)))
           e == encode(f)
           r == rest[Len(got) + 1]
           y == Unread(tail)
<1>3. Consumed \in Seq(Byte) /\ Len(Consumed) = LEN_PREFIX /\ from_be_bytes(Consumed) = need
  BY <1>1, Strings
<1>4. Consumed # <<>>
  BY <1>3, Constants
<1>5. /\ Len(got) < Len(sent) /\ f \in Frames /\ ~TooLarge(f) /\ r \in Seq(Byte)
      /\ h ++ (e ++ r) = Consumed ++ (buf ++ y)
  BY <1>2, <1>4, NextFrame
<1>6. /\ h \in Seq(Byte) /\ Len(h) = LEN_PREFIX /\ from_be_bytes(h) = Len(e)
      /\ e \in Seq(Byte) /\ e ++ r \in Seq(Byte)
  BY <1>5, Framed, JoinType
<1>7. y \in Seq(Byte) /\ buf \in Seq(Byte) /\ buf ++ y \in Seq(Byte)
  BY <1>2, Strings, JoinType DEF Carries
<1>8. decode(e) = f /\ f # <<>>
  BY <1>5, CodecRoundTrip, FrameNotError
<1> HIDE DEF f, h, e, r, y
<1>9. h = Consumed /\ e ++ r = buf ++ y
  BY <1>3, <1>5, <1>6, <1>7, SameCut
<1>10. Len(e) = Len(buf)
  BY <1>1, <1>3, <1>6, <1>9
<1>11. e = buf /\ r = y
  BY <1>5, <1>6, <1>7, <1>9, <1>10, SameCut
<1>12. QED
  BY <1>2, <1>5, <1>8, <1>11 DEF f, r, y

\* recv returns the next frame.
LEMMA GotBodyStep ==
    ASSUME FInv, GotBody
    PROVE  FInv' /\ got' = Append(got, sent[Len(got) + 1]) /\ rcv' = "len"
<1> DEFINE n == Len(got)
           m == Len(sent)
           f == sent[n + 1]
<1> USE DEF FInv
<1>1. n < m /\ decode(buf) = f /\ f # <<>> /\ f \in Frames
  BY BodyIsNext
<1>2. PICK rest, tail : Carries(rest, tail) /\ rest[n + 1] = Unread(tail)
  BY BodyIsNext
<1>3. /\ rcv' = "len" /\ need' = LEN_PREFIX /\ buf' = <<>> /\ got' = Append(got, f)
      /\ UNCHANGED <<sent, out, snd, torn, conn, stream>>
  BY <1>1 DEF GotBody, Await, sender
<1>4. got' \in Seq(Frames) /\ Len(got') = n + 1 /\ n \in Nat /\ m \in Nat
  <2>1. got \in Seq(Frames)
    BY DEF TypeOK
  <2>2. QED
    BY <1>1, <1>3, <2>1, AppendProperties, Strings
<1>5. TypeOK'
  BY <1>3, <1>4, Constants, NoBytes DEF TypeOK
<1>6. LimitsAgree' /\ Phase'
  BY <1>1, <1>3, <1>4 DEF LimitsAgree, Phase
<1>7. PICK r : r = [k \in (n + 1)..m |-> rest[k]]
  OBVIOUS
<1>8. Carries(r, tail)'
  <2>1. /\ rest \in [n..m -> Seq(Byte)] /\ tail \in Seq(Byte) /\ rest[m] = <<>>
        /\ \A k \in n..(m - 1) : rest[k] = encode_framed(sent[k + 1]) ++ rest[k + 1]
        /\ (Live => tail = <<>>)
    BY <1>2 DEF Carries
  <2>2. r \in [(n + 1)..m -> Seq(Byte)] /\ r[m] = <<>>
    BY <1>1, <1>4, <1>7, <2>1
  <2>3. \A k \in (n + 1)..(m - 1) : r[k] = encode_framed(sent[k + 1]) ++ r[k + 1]
    BY <1>1, <1>4, <1>7, <2>1
  <2>4. Consumed' = <<>> /\ Pending' = Pending /\ Live' = Live
    BY <1>3 DEF Consumed, Pending, Live
  <2>5. r[n + 1] = Unread(tail) /\ Unread(tail) \in Seq(Byte)
    BY <1>1, <1>2, <1>4, <1>7, <2>1, Strings
  <2>6. stream' ++ (Pending' ++ tail) = Unread(tail)
    BY <1>3, <2>4 DEF Unread
  <2>7. r[n + 1] = <<>> ++ (<<>> ++ (stream' ++ (Pending' ++ tail)))
    BY <2>5, <2>6, NoBytes
  <2>8. QED
    BY <1>3, <1>4, <2>1, <2>2, <2>3, <2>4, <2>7 DEF Carries, Unread
<1>9. Wire'
  BY <1>8 DEF Wire
<1>10. QED
  BY <1>3, <1>5, <1>6, <1>9

\* recv reports the end of the stream.
LEMMA RecvEndStep ==
    ASSUME FInv, RecvEnd
    PROVE  FInv'
<1>1. rcv' = "ended" /\ UNCHANGED <<sent, out, snd, torn, conn, stream, buf, need, got>>
  BY DEF RecvEnd, Fail, sender
<1>2. TypeOK'
  BY <1>1 DEF FInv, TypeOK, Errors
<1>3. LimitsAgree' /\ Phase' /\ Wire'
  BY <1>1 DEF FInv, LimitsAgree, Phase, Wire, Reading
<1>4. QED
  BY <1>2, <1>3 DEF FInv

-----------------------------------------------------------------------------
(***************************************************************************)
(* The theorems.                                                           *)
(***************************************************************************)

\* The invariant is inductive.
LEMMA NextFInv == FInv /\ [Next]_vars => FInv'
<1> SUFFICES ASSUME FInv, [Next]_vars PROVE FInv'
  OBVIOUS
<1>1. ASSUME NEW f \in Frames, Send(f) PROVE FInv'
  BY <1>1, SendStep
<1>2. ASSUME NEW f \in Frames, SendTooLarge(f) PROVE FInv'
  BY <1>2, DropStep
<1>3. CASE WriteSome
  BY <1>3, WriteStep
<1>4. CASE DropSend
  BY <1>4, DropStep
<1>5. CASE ConnLost \/ CloseConn
  BY <1>5, CutStep
<1>6. CASE ReadSome
  BY <1>6, ReadStep
<1>7. CASE GotLen
  BY <1>7, GotLenStep
<1>8. CASE GotBody
  BY <1>8, GotBodyStep
<1>9. CASE RecvEnd
  BY <1>9, RecvEndStep
<1>10. CASE UNCHANGED vars
  BY <1>10 DEF vars, sender, receiver, FInv, TypeOK, LimitsAgree, Phase, Wire, Reading,
               Carries, Consumed, Pending, Live, Unread
<1>11. QED
  BY <1>1, <1>2, <1>3, <1>4, <1>5, <1>6, <1>7, <1>8, <1>9, <1>10 DEF Next

\* The bytes between the two sides are always the frames that were sent and not
\* yet received, or the beginning of them (codec.rs:38-47, framed.rs:45-78).
THEOREM WireCarriesFrames == Spec => []FInv
<1>1. FInv /\ [Next]_vars => FInv'
  BY NextFInv
<1>2. QED
  BY InitFInv, <1>1, PTL DEF Spec

\* recv never meets a length over the limit or bytes that are not a frame, for
\* every width of the prefix and every limit that it can express (codec.rs:40,
\* framed.rs:72).
THEOREM LimitsAlwaysAgree == Spec => []LimitsAgree
<1>1. FInv => LimitsAgree
  BY DEF FInv
<1>2. QED
  BY WireCarriesFrames, <1>1, PTL

\* However reads and writes cut the bytes, and wherever the sender or the
\* connection stops, recv returns the frames that were sent, whole and in their
\* order, and reports the end once (framed.rs:45-78).
THEOREM FramingIsPipe == Spec => FramesPiped
<1>1. Init => P!Init
  BY DEF Init, P!Init, Errors
<1>2. ASSUME FInv, [Next]_vars PROVE [P!Next]_(P!vars)
  <2>1. ASSUME NEW f \in Frames, Send(f) PROVE P!Send
    BY <2>1 DEF Send, receiver, P!Send
  <2>2. ASSUME NEW f \in Frames, SendTooLarge(f) PROVE UNCHANGED P!vars
    BY <2>2 DEF SendTooLarge, receiver, P!vars
  <2>3. CASE WriteSome \/ DropSend \/ ConnLost \/ CloseConn
    BY <2>3 DEF WriteSome, DropSend, ConnLost, CloseConn, sender, receiver, P!vars
  <2>4. CASE ReadSome
    BY <2>4 DEF ReadSome, sender, P!vars
  <2>5. CASE GotLen
    <3>1. rcv' \in {"body", "toolarge"} /\ FInv'
      BY <1>2, <2>5, GotLenStep DEF GotLen, Await, Fail
    <3>2. rcv = "len" /\ rcv' = "body" /\ UNCHANGED <<sent, got>>
      BY <2>5, <3>1 DEF GotLen, FInv, LimitsAgree, sender
    <3>3. QED
      BY <3>2 DEF P!vars, Errors
  <2>6. CASE GotBody
    <3>1. /\ got' = Append(got, sent[Len(got) + 1]) /\ Len(got) < Len(sent)
          /\ rcv = "body" /\ rcv' = "len" /\ sent' = sent
      BY <1>2, <2>6, GotBodyStep, BodyIsNext DEF GotBody, sender
    <3>2. P!Deliver
      BY <3>1 DEF P!Deliver, Errors
    <3>3. QED
      BY <3>2 DEF P!Next
  <2>7. CASE RecvEnd
    <3>1. P!End
      BY <2>7 DEF RecvEnd, Fail, sender, P!End, Errors
    <3>2. QED
      BY <3>1 DEF P!Next
  <2>8. CASE UNCHANGED vars
    BY <2>8 DEF vars, sender, receiver, P!vars
  <2>9. QED
    BY <1>2, <2>1, <2>2, <2>3, <2>4, <2>5, <2>6, <2>7, <2>8 DEF Next, P!Next
<1>3. QED
  BY <1>1, <1>2, WireCarriesFrames, PTL DEF Spec, FramesPiped, P!Spec
=============================================================================

--------------------------- MODULE ArmStepProofs ----------------------------
(***************************************************************************)
(* What one call of arm_step does to the processor, for every word width,  *)
(* every memory and every instruction. The lemmas go from the bits of a    *)
(* word (util.h) over the memory and the register file to the handlers,    *)
(* arm_step and arm_exception; ArmProofs and SessionProofs make theorems   *)
(* of them, and StorageProofs uses those about words. Recursive functions  *)
(* (Exp2, FromBits, the loops of ldm and stm) are reached by induction     *)
(* over a set of numbers: Recursion gives such a function its equations.   *)
(***************************************************************************)
EXTENDS ArmStep, NaturalsInduction, WellFoundedInduction, TLAPS

(* Induction over the natural numbers, for a set: it follows from the      *)
(* well-foundedness of < on Nat.                                           *)
LEMMA SetInduction ==
    ASSUME NEW T, 0 \in T, \A n \in Nat : n \in T => n + 1 \in T
    PROVE  Nat \subseteq T
<1> DEFINE R == OpToRel(<, Nat)
<1>1. \A x, y \in Nat : x < y => <<x, y>> \in R
    BY DEF OpToRel
<1>2. IsWellFoundedOn(R, Nat)
    BY NatLessThanWellFounded
<1> HIDE DEF R
<1> SUFFICES ASSUME Nat \ T # {} PROVE FALSE
    OBVIOUS
<1>3. PICK x \in Nat \ T : \A y \in Nat \ T : ~ (<<y, x>> \in R)
    <2>1. Nat \ T \subseteq Nat
        OBVIOUS
    <2>. QED BY <1>2, <2>1, WFMin
<1>4. x # 0 /\ x - 1 \in Nat /\ x - 1 < x
    OBVIOUS
<1>5. x - 1 \in T
    BY <1>1, <1>3, <1>4
<1>. QED BY <1>4, <1>5

(* Induction up to a bound.                                                *)
LEMMA BoundedInduction ==
    ASSUME NEW m \in Nat, NEW T, 0 \in T, \A n \in 0 .. m - 1 : n \in T => n + 1 \in T
    PROVE  0 .. m \subseteq T
<1> DEFINE U == {n \in Nat : n \in T \/ n > m}
<1>1. 0 \in U
    OBVIOUS
<1>2. \A n \in Nat : n \in U => n + 1 \in U
    OBVIOUS
<1>3. Nat \subseteq U
    <2> HIDE DEF U
    <2>. QED BY <1>1, <1>2, SetInduction
<1>. QED BY <1>3

\* A function on 0 .. m that starts at a and applies g[i] in step i.
Iterates(m, S, a, g) ==
    \E f \in [0 .. m -> S] : f[0] = a /\ \A i \in 1 .. m : f[i] = g[i][f[i - 1]]

(* The recursive definitions of util.h's shifts and of the loops over      *)
(* register lists have a value: a function can be built one argument at a  *)
(* time.                                                                   *)
LEMMA Recursion ==
    ASSUME NEW m \in Nat, NEW S, NEW a \in S, NEW g \in [1 .. m -> [S -> S]]
    PROVE  Iterates(m, S, a, g)
<1> DEFINE Fits(f, k) == f[0] = a /\ \A i \in 1 .. k : f[i] = g[i][f[i - 1]]
           T == {k \in 0 .. m : \E f \in [0 .. k -> S] : Fits(f, k)}
<1>1. 0 \in T
    <2>1. [i \in 0 .. 0 |-> a] \in [0 .. 0 -> S] /\ Fits([i \in 0 .. 0 |-> a], 0)
        OBVIOUS
    <2>2. 0 \in 0 .. m
        OBVIOUS
    <2>3. \E f \in [0 .. 0 -> S] : Fits(f, 0)
        BY <2>1
    <2>. QED BY <2>2, <2>3
<1>2. ASSUME NEW n \in 0 .. m - 1, n \in T PROVE n + 1 \in T
    <2>1. PICK f \in [0 .. n -> S] : Fits(f, n)
        BY <1>2
    <2> DEFINE h == [i \in 0 .. n + 1 |-> IF i <= n THEN f[i] ELSE g[n + 1][f[n]]]
    <2>2. g[n + 1] \in [S -> S] /\ f[n] \in S
        BY <1>2
    <2>3. h \in [0 .. n + 1 -> S]
        BY <2>2
    <2>4. h[0] = a
        BY <1>2, <2>1
    <2>5. ASSUME NEW i \in 1 .. n + 1 PROVE h[i] = g[i][h[i - 1]]
        <3>1. CASE i = n + 1
            BY <1>2, <3>1
        <3>2. CASE i # n + 1
            <4>1. i \in 1 .. n /\ i - 1 \in 0 .. n
                BY <1>2, <3>2
            <4>2. h[i] = f[i] /\ h[i - 1] = f[i - 1]
                BY <4>1
            <4>. QED BY <2>1, <4>1, <4>2
        <3>. QED BY <3>1, <3>2
    <2>6. Fits(h, n + 1)
        BY <2>4, <2>5
    <2>7. n + 1 \in 0 .. m
        BY <1>2
    <2>. QED BY <2>3, <2>6, <2>7
<1>3. m \in T
    <2>1. 0 .. m \subseteq T
        <3> HIDE DEF T
        <3>. QED BY <1>1, <1>2, BoundedInduction
    <2>. QED BY <2>1
<1>. QED BY <1>3 DEF Iterates

(* A word is four bytes of at least one bit.                               *)
LEMMA Widths == ByteBits \in Nat /\ ByteBits >= 1 /\ WordBits \in Nat /\ WordBits = 4 * ByteBits
                /\ WordBits >= 4
BY WordAssumption DEF WordBits

(* Exp2 satisfies the equations of its recursive definition (1 << n).      *)
LEMMA Doubling ==
    /\ Exp2 \in [0 .. WordBits -> Nat] /\ Exp2[0] = 1
    /\ \A n \in 1 .. WordBits : Exp2[n] = 2 * Exp2[n - 1]
<1> USE Widths
<1> DEFINE g == [i \in 1 .. WordBits |-> [x \in Nat |-> 2 * x]]
<1>1. PICK f \in [0 .. WordBits -> Nat] : f[0] = 1 /\ \A i \in 1 .. WordBits : f[i] = g[i][f[i - 1]]
    <2>1. g \in [1 .. WordBits -> [Nat -> Nat]]
        OBVIOUS
    <2>2. 1 \in Nat /\ WordBits \in Nat
        OBVIOUS
    <2> HIDE DEF g
    <2>3. Iterates(WordBits, Nat, 1, g)
        BY <2>1, <2>2, Recursion
    <2>. QED BY <2>3 DEF Iterates
<1>2. ASSUME NEW i \in 1 .. WordBits PROVE f[i] = 2 * f[i - 1]
    <2>1. i - 1 \in 0 .. WordBits
        OBVIOUS
    <2>2. f[i - 1] \in Nat
        BY <2>1
    <2>3. g[i][f[i - 1]] = 2 * f[i - 1]
        BY <2>2
    <2>. QED BY <1>1, <2>3
<1>3. f = [n \in 0 .. WordBits |-> IF n = 0 THEN 1 ELSE 2 * f[n - 1]]
    <2>1. \A n \in 0 .. WordBits : f[n] = IF n = 0 THEN 1 ELSE 2 * f[n - 1]
        BY <1>1, <1>2
    <2>. QED BY <2>1
<1>4. Exp2 = [n \in 0 .. WordBits |-> IF n = 0 THEN 1 ELSE 2 * Exp2[n - 1]]
    BY <1>3 DEF Exp2
<1> HIDE DEF g
<1>5. Exp2[0] = 1 /\ \A n \in 1 .. WordBits : Exp2[n] = 2 * Exp2[n - 1]
    <2>1. 0 \in 0 .. WordBits /\ \A n \in 1 .. WordBits : n \in 0 .. WordBits /\ n # 0
        OBVIOUS
    <2>. QED BY <1>4, <2>1
<1> DEFINE T == {n \in 0 .. WordBits : Exp2[n] \in Nat}
<1>6. 0 .. WordBits \subseteq T
    <2>1. 0 \in T
        BY <1>5
    <2>2. ASSUME NEW n \in 0 .. WordBits - 1, n \in T PROVE n + 1 \in T
        <3>1. Exp2[n + 1] = 2 * Exp2[n]
            BY <1>5
        <3>. QED BY <2>2, <3>1
    <2> HIDE DEF T
    <2>. QED BY <2>1, <2>2, BoundedInduction
<1>7. \A n \in 0 .. WordBits : Exp2[n] \in Nat
    BY <1>6
<1>. QED BY <1>4, <1>5, <1>7

(* A shifted 1 is positive, and even from the first place on.              *)
LEMMA Powers == \A n \in 0 .. WordBits : Exp2[n] \in Nat /\ Exp2[n] >= 1 /\ (n >= 1 => Exp2[n] >= 2)
<1> USE Widths
<1> DEFINE T == {n \in 0 .. WordBits : Exp2[n] >= 1}
<1>1. 0 .. WordBits \subseteq T
    <2>1. 0 \in T
        BY Doubling
    <2>2. ASSUME NEW n \in 0 .. WordBits - 1, n \in T PROVE n + 1 \in T
        <3>0. n \in 0 .. WordBits /\ n + 1 \in 1 .. WordBits /\ (n + 1) - 1 = n
            OBVIOUS
        <3>1. Exp2[n + 1] = 2 * Exp2[n] /\ Exp2[n] \in Nat
            BY <3>0, Doubling
        <3>. QED BY <2>2, <3>1
    <2> HIDE DEF T
    <2>. QED BY <2>1, <2>2, BoundedInduction
<1>2. \A n \in 0 .. WordBits : Exp2[n] \in Nat /\ Exp2[n] >= 1
    BY <1>1, Doubling
<1>3. ASSUME NEW n \in 1 .. WordBits PROVE Exp2[n] >= 2
    <2>1. Exp2[n] = 2 * Exp2[n - 1] /\ n - 1 \in 0 .. WordBits
        BY Doubling
    <2>. QED BY <1>2, <2>1
<1>. QED BY <1>2, <1>3

(* Shifting twice is shifting by the sum.                                  *)
LEMMA PowerSum ==
    ASSUME NEW a \in 0 .. WordBits
    PROVE  \A b \in 0 .. WordBits - a : Exp2[a + b] = Exp2[a] * Exp2[b]
<1> USE Widths
<1> DEFINE T == {b \in 0 .. WordBits - a : Exp2[a + b] = Exp2[a] * Exp2[b]}
<1>0. WordBits - a \in Nat
    OBVIOUS
<1>1. 0 .. WordBits - a \subseteq T
    <2>1. 0 \in T
        BY Doubling
    <2>2. ASSUME NEW n \in 0 .. (WordBits - a) - 1, n \in T PROVE n + 1 \in T
        <3>1. Exp2[n + 1] = 2 * Exp2[n] /\ Exp2[a + (n + 1)] = 2 * Exp2[a + n]
            <4>1. n + 1 \in 1 .. WordBits /\ (n + 1) - 1 = n
                OBVIOUS
            <4>2. a + (n + 1) \in 1 .. WordBits /\ (a + (n + 1)) - 1 = a + n
                OBVIOUS
            <4>. QED BY <4>1, <4>2, Doubling
        <3>2. Exp2[a + n] = Exp2[a] * Exp2[n]
            BY <2>2
        <3>3. Exp2[a] \in Nat /\ Exp2[n] \in Nat
            <4>1. n \in 0 .. WordBits
                OBVIOUS
            <4>. QED BY <4>1, Powers
        <3>4. 2 * (Exp2[a] * Exp2[n]) = Exp2[a] * (2 * Exp2[n])
            BY <3>3
        <3>5. n + 1 \in 0 .. WordBits - a
            OBVIOUS
        <3>. QED BY <3>1, <3>2, <3>4, <3>5
    <2> HIDE DEF T
    <2>. QED BY <1>0, <2>1, <2>2, BoundedInduction
<1>. QED BY <1>1

(* A byte has at least two values; the values of a word are those of       *)
(* WordBits bits.                                                          *)
LEMMA Bases ==
    /\ Base \in Nat /\ Base >= 2
    /\ Modulus = Exp2[WordBits] /\ Modulus \in Nat /\ Modulus >= 16
<1> USE Widths
<1> DEFINE b == ByteBits
<1>1. Base = Exp2[b] /\ Base \in Nat /\ Base >= 2
    BY Powers DEF Base
<1>2. Exp2[b + b] = Base * Base
    BY <1>1, PowerSum
<1>3. Exp2[(b + b) + (b + b)] = (Base * Base) * (Base * Base)
    <2>1. b + b \in 0 .. WordBits /\ b + b \in 0 .. WordBits - (b + b)
        OBVIOUS
    <2>. QED BY <1>2, <2>1, PowerSum
<1>4. (b + b) + (b + b) = WordBits
    OBVIOUS
<1>5. Modulus = (Base * Base) * (Base * Base)
    BY <1>1 DEF Modulus
<1>6. Base * Base \in Nat /\ Base * Base >= 4
    BY <1>1
<1>7. (Base * Base) * (Base * Base) \in Nat /\ (Base * Base) * (Base * Base) >= 16
    BY <1>6
<1>. QED BY <1>1, <1>3, <1>4, <1>5, <1>7

-----------------------------------------------------------------------------
(* Division by the byte base is undone by the multiplication that the      *)
(* loads and the reversals of util.h are made of.                          *)
LEMMA DivMod ==
    ASSUME NEW B \in Nat \ {0}, NEW q \in Nat, NEW r \in 0 .. B - 1
    PROVE  /\ (q * B + r) \div B = q
           /\ (q * B + r) % B = r
  <1> DEFINE x == q * B + r
  <1>1. x \in Nat
    OBVIOUS
  <1>2. x = B * (x \div B) + (x % B) /\ x % B \in 0 .. B - 1 /\ x \div B \in Int
    BY <1>1, SMT
  <1>3. B * (q - (x \div B)) = (x % B) - r
    BY <1>2, SMT
  <1>4. q - (x \div B) < 1
    <2>1. ASSUME q - (x \div B) >= 1 PROVE FALSE
      <3>1. B * (q - (x \div B)) >= B
        BY <1>2, <2>1, SMT
      <3>2. QED BY <1>2, <1>3, <3>1, SMT
    <2>2. QED BY <2>1, <1>2, SMT
  <1>5. q - (x \div B) > -1
    <2>1. ASSUME q - (x \div B) <= -1 PROVE FALSE
      <3>1. B * (q - (x \div B)) <= -B
        BY <1>2, <2>1, SMT
      <3>2. QED BY <1>2, <1>3, <3>1, SMT
    <2>2. QED BY <2>1, <1>2, SMT
  <1>6. x \div B = q
    BY <1>2, <1>4, <1>5, SMT
  <1>7. QED BY <1>2, <1>6, SMT

(* Division with remainder.                                                *)
LEMMA Division ==
    ASSUME NEW x \in Nat, NEW d \in Nat \ {0}
    PROVE  x \div d \in Nat /\ x % d \in 0 .. d - 1 /\ x = (x \div d) * d + (x % d)
OBVIOUS

(* The quotient of a number below k * d by d is below k.                   *)
LEMMA Quotient ==
    ASSUME NEW d \in Nat \ {0}, NEW k \in Nat, NEW x \in Nat, x < k * d
    PROVE  x \div d < k
<1>1. x \div d \in Nat /\ x >= (x \div d) * d
    BY Division
<1>2. ASSUME x \div d >= k PROVE FALSE
    <2>1. (x \div d) * d >= k * d
        BY <1>1, <1>2
    <2>. QED BY <1>1, <2>1
<1>. QED BY <1>1, <1>2

(* A number reduced modulo d when it is less than d away from 0 .. d - 1.  *)
LEMMA NearMod ==
    ASSUME NEW d \in Nat \ {0}, NEW z \in Int, -d <= z, z < 2 * d
    PROVE  z % d = IF z < 0 THEN z + d ELSE IF z < d THEN z ELSE z - d
<1> DEFINE q == z \div d
           s == z % d
<1>1. q \in Int /\ s \in 0 .. d - 1 /\ z = d * q + s
    OBVIOUS
<1> HIDE DEF q, s
<1>2. q > -2
    <2>1. ASSUME q <= -2 PROVE FALSE
        <3>1. d * q <= d * (-2)
            BY <1>1, <2>1
        <3>. QED BY <1>1, <3>1
    <2>. QED BY <1>1, <2>1
<1>3. q < 2
    <2>1. ASSUME q >= 2 PROVE FALSE
        <3>1. d * q >= d * 2
            BY <1>1, <2>1
        <3>. QED BY <1>1, <3>1
    <2>. QED BY <1>1, <2>1
<1>4. q \in {-1, 0, 1}
    BY <1>1, <1>2, <1>3
<1>. QED BY <1>1, <1>4 DEF s

(* Division rounds down for negative numbers too.                          *)
LEMMA FloorMod ==
    ASSUME NEW B \in Nat \ {0}, NEW q \in Int, NEW r \in 0 .. B - 1
    PROVE  (q * B + r) \div B = q /\ (q * B + r) % B = r
<1> DEFINE x == q * B + r
           u == x \div B
           w == x % B
<1>1. x \in Int /\ u \in Int /\ w \in 0 .. B - 1 /\ x = u * B + w
    OBVIOUS
<1>2. x = q * B + r
    OBVIOUS
<1> HIDE DEF u, w, x
<1>3. (q - u) * B = w - r
    BY <1>1, <1>2
<1>4. q - u < 1
    <2>1. ASSUME q - u >= 1 PROVE FALSE
        <3>1. (q - u) * B >= 1 * B
            BY <1>1, <2>1
        <3>. QED BY <1>1, <1>3, <3>1
    <2>. QED BY <1>1, <2>1
<1>5. q - u > -1
    <2>1. ASSUME q - u <= -1 PROVE FALSE
        <3>1. (q - u) * B <= (-1) * B
            BY <1>1, <2>1
        <3>. QED BY <1>1, <1>3, <3>1
    <2>. QED BY <1>1, <2>1
<1>6. u = q
    BY <1>1, <1>4, <1>5
<1>7. w = r
    BY <1>1, <1>2, <1>6
<1>. QED BY <1>6, <1>7 DEF u, w, x

(* Remainders may be taken before or after an addition.                    *)
LEMMA ModAdd ==
    ASSUME NEW d \in Nat \ {0}, NEW x \in Int, NEW k \in Int
    PROVE  ((x % d) + k) % d = (x + k) % d
<1> DEFINE q == x \div d
           r == x % d
           t == (r + k) \div d
           s == (r + k) % d
<1>1. q \in Int /\ r \in 0 .. d - 1 /\ x = q * d + r
    OBVIOUS
<1> HIDE DEF q, r
<1>2. t \in Int /\ s \in 0 .. d - 1 /\ r + k = t * d + s
    BY <1>1
<1>3. s = (r + k) % d
    OBVIOUS
<1> HIDE DEF t, s
<1>4. x + k = (q + t) * d + s /\ q + t \in Int
    BY <1>1, <1>2
<1>5. (x + k) % d = s
    BY <1>2, <1>4, FloorMod
<1>. QED BY <1>3, <1>5 DEF r

(* Numbers that are a few words apart are so modulo the width of a word.   *)
LEMMA Apart ==
    ASSUME NEW j \in Nat, j > 15, NEW x \in Int, NEW y \in Int, NEW e \in -15 .. 15, e # 0,
           x - y = 4 * e
    PROVE  \/ (x % (4 * j)) - (y % (4 * j)) >= 4
           \/ (x % (4 * j)) - (y % (4 * j)) <= -4
<1> DEFINE d == 4 * j
           q == x \div d
           r == x % d
           t == y \div d
           s == y % d
           g == q - t
<1>1. d \in Nat \ {0}
    OBVIOUS
<1>2. d = 4 * j
    OBVIOUS
<1> HIDE DEF d
<1>3. /\ q \in Int /\ r \in 0 .. d - 1 /\ x = q * d + r
      /\ t \in Int /\ s \in 0 .. d - 1 /\ y = t * d + s
    BY <1>1
<1> HIDE DEF q, r, t, s
<1>4. g \in Int /\ r - s = 4 * e - g * d
    BY <1>1, <1>3
<1> HIDE DEF g
<1>5. g * d = 4 * (g * j) /\ g * j \in Int
    BY <1>2, <1>4
<1>6. g * j # e
    <2>1. CASE g >= 1
        <3>1. g * j >= 1 * j
            BY <1>4, <2>1
        <3>. QED BY <3>1, <1>5
    <2>2. CASE g <= -1
        <3>1. g * j <= (-1) * j
            BY <1>4, <2>2
        <3>. QED BY <3>1, <1>5
    <2>3. CASE g = 0
        BY <2>3
    <2>. QED BY <1>4, <2>1, <2>2, <2>3
<1>7. r - s >= 4 \/ r - s <= -4
    <2> DEFINE h == g * j
    <2>1. h \in Int /\ h # e /\ r - s = 4 * e - 4 * h
        BY <1>4, <1>5, <1>6
    <2> HIDE DEF h
    <2>. QED BY <2>1, <1>3
<1>. QED BY <1>7 DEF d, r, s

(* Adding a multiple of m changes the quotient by m, not the remainder.    *)
LEMMA Multiple ==
    ASSUME NEW m \in Nat \ {0}, NEW x \in Nat, NEW c \in Nat
    PROVE  (x + c * m) % m = x % m /\ (x + c * m) \div m = (x \div m) + c
<1> DEFINE q == x \div m
           r == x % m
<1>1. q \in Nat /\ r \in 0 .. m - 1 /\ x = q * m + r
    BY Division
<1> HIDE DEF q, r
<1>2. x + c * m = (q + c) * m + r
    BY <1>1
<1>3. ((q + c) * m + r) % m = r /\ ((q + c) * m + r) \div m = q + c
    BY <1>1, DivMod
<1>. QED BY <1>2, <1>3 DEF q, r

(* Reducing a scaled number is scaling the reduced one: what << keeps.     *)
LEMMA Scaled ==
    ASSUME NEW a \in Nat \ {0}, NEW b \in Nat \ {0}, NEW x \in Nat
    PROVE  (x * a) % (b * a) = (x % b) * a
<1> DEFINE q == x \div b
           r == x % b
<1>1. q \in Nat /\ r \in 0 .. b - 1 /\ x = q * b + r
    BY Division
<1> HIDE DEF q, r
<1>2. x * a = q * (b * a) + r * a
    BY <1>1
<1>3. r * a \in Nat /\ r * a < b * a /\ b * a \in Nat \ {0}
    <2>1. r + 1 <= b
        BY <1>1
    <2>2. (r + 1) * a <= b * a
        BY <1>1, <2>1
    <2>. QED BY <1>1, <2>2
<1>4. r * a \in 0 .. (b * a) - 1
    BY <1>3
<1>5. (q * (b * a) + r * a) % (b * a) = r * a
    BY <1>1, <1>3, <1>4, DivMod
<1>. QED BY <1>2, <1>5 DEF r

(* The values of uint32_t, and the small numbers the code adds to them.    *)
LEMMA Words ==
    /\ Word \subseteq Nat /\ 0 \in Word /\ 1 \in Word /\ 4 \in Word
    /\ \A x \in Nat : x < Modulus <=> x \in Word
BY Bases DEF Word

(* Results reduced modulo the width of a word are words.                   *)
LEMMA Wraps ==
    /\ \A z \in Int : z % Modulus \in Word
    /\ \A x, y \in Int : Plus(x, y) \in Word /\ Minus(x, y) \in Word
<1>1. \A z \in Int : z % Modulus \in Word
    BY Bases DEF Word
<1>. QED BY <1>1 DEF Plus, Minus

(* uint32_t additions and subtractions give words.                         *)
LEMMA Sums ==
    \A x \in Word, k \in Nat : Plus(x, k) \in Word /\ Minus(x, k) \in Word
<1> TAKE x \in Word, k \in Nat
<1>1. x \in Int /\ k \in Int
    BY Words
<1>. QED BY <1>1, Wraps

(* A word split at bit i: the part from i on has WordBits - i bits.        *)
LEMMA BitPlace ==
    ASSUME NEW x \in Word, NEW i \in 0 .. WordBits - 1
    PROVE  LET d == Exp2[i]
               q == x \div d
           IN  /\ d \in Nat \ {0} /\ q \in Nat /\ x % d \in 0 .. d - 1
               /\ x = q * d + (x % d)
               /\ \E h \in Nat \ {0} : Modulus = (2 * h) * d /\ q < 2 * h
<1> DEFINE d == Exp2[i]
           q == x \div d
           h == Exp2[(WordBits - i) - 1]
<1> USE Widths
<1>1. d \in Nat \ {0} /\ h \in Nat \ {0} /\ x \in Nat /\ x < Modulus
    <2>1. i \in 0 .. WordBits /\ (WordBits - i) - 1 \in 0 .. WordBits
        OBVIOUS
    <2>. QED BY <2>1, Powers, Words
<1>2. Modulus = (2 * h) * d
    <2>1. WordBits - i \in 1 .. WordBits /\ WordBits - i \in 0 .. WordBits - i
          /\ i + (WordBits - i) = WordBits /\ i \in 0 .. WordBits
        OBVIOUS
    <2>2. Exp2[WordBits - i] = 2 * h
        BY <2>1, Doubling
    <2>3. Exp2[i + (WordBits - i)] = Exp2[i] * Exp2[WordBits - i]
        BY <2>1, PowerSum
    <2>. QED BY <1>1, <2>1, <2>2, <2>3, Bases
<1> HIDE DEF d, h
<1>3. q \in Nat /\ x % d \in 0 .. d - 1 /\ x = q * d + (x % d)
    BY <1>1, Division
<1>4. q < 2 * h
    <2>1. 2 * h \in Nat /\ x < (2 * h) * d
        BY <1>1, <1>2
    <2>. QED BY <1>1, <2>1, Quotient
<1> HIDE DEF q
<1>5. \E k \in Nat \ {0} : Modulus = (2 * k) * d /\ q < 2 * k
    BY <1>1, <1>2, <1>4
<1>. QED BY <1>1, <1>3, <1>5 DEF q, d

(* get_bit gives 0 or 1.                                                   *)
LEMMA BitValue ==
    ASSUME NEW x \in Word, NEW i \in 0 .. WordBits - 1
    PROVE  get_bit(x, i) \in {0, 1}
<1>1. x \div Exp2[i] \in Nat
    BY BitPlace
<1>. QED BY <1>1 DEF get_bit

(* Adding a bit that is clear gives a word: set_bit.                       *)
LEMMA BitSet ==
    ASSUME NEW x \in Word, NEW i \in 0 .. WordBits - 1, get_bit(x, i) = 0
    PROVE  x + Exp2[i] \in Word
<1> DEFINE d == Exp2[i]
           q == x \div d
<1>1. /\ d \in Nat \ {0} /\ q \in Nat /\ x % d \in 0 .. d - 1 /\ x = q * d + (x % d)
    BY BitPlace
<1>2. PICK h \in Nat \ {0} : Modulus = (2 * h) * d /\ q < 2 * h
    BY BitPlace
<1>3. q % 2 = 0
    BY DEF get_bit
<1> HIDE DEF d, q
<1>4. q + 1 < 2 * h
    BY <1>1, <1>2, <1>3
<1>5. (q + 2) * d <= (2 * h) * d
    BY <1>1, <1>2, <1>4
<1>6. x + d < (q + 2) * d /\ x + d \in Nat /\ (q + 2) * d \in Nat
    BY <1>1, Words
<1>7. x + d < Modulus
    BY <1>2, <1>5, <1>6, Bases
<1>. QED BY <1>6, <1>7, Words DEF d

(* Subtracting a bit that is set gives a word: clr_bit.                    *)
LEMMA BitClear ==
    ASSUME NEW x \in Word, NEW i \in 0 .. WordBits - 1, get_bit(x, i) = 1
    PROVE  x - Exp2[i] \in Word
<1> DEFINE d == Exp2[i]
           q == x \div d
<1>1. /\ d \in Nat \ {0} /\ q \in Nat /\ x % d \in 0 .. d - 1 /\ x = q * d + (x % d)
    BY BitPlace
<1>3. q % 2 = 1
    BY DEF get_bit
<1> HIDE DEF d, q
<1>4. q >= 1
    BY <1>1, <1>3
<1>5. x >= d
    BY <1>1, <1>4
<1>6. x - d \in Nat /\ x - d < Modulus
    BY <1>1, <1>5, Words, Bases
<1>. QED BY <1>6, Words DEF d

(* set_bit and clr_bit give words.                                         *)
LEMMA SetClear ==
    ASSUME NEW x \in Word, NEW i \in 0 .. WordBits - 1
    PROVE  set_bit(x, i) \in Word /\ clr_bit(x, i) \in Word
BY BitValue, BitSet, BitClear DEF set_bit, clr_bit

(* set_bit and clr_bit of bit i leave the bits below every k <= i as they  *)
(* were.                                                                   *)
LEMMA LowBitsStay ==
    ASSUME NEW x \in Word, NEW i \in 0 .. WordBits - 1, NEW k \in 0 .. i
    PROVE  set_bit(x, i) % Exp2[k] = x % Exp2[k] /\ clr_bit(x, i) % Exp2[k] = x % Exp2[k]
<1> USE Widths
<1> DEFINE c == Exp2[i - k]
           m == Exp2[k]
<1>1. Exp2[i] = c * m /\ c \in Nat \ {0} /\ m \in Nat \ {0}
    <2>1. k \in 0 .. WordBits /\ i - k \in 0 .. WordBits /\ i - k \in 0 .. WordBits - k
          /\ k + (i - k) = i
        OBVIOUS
    <2>2. Exp2[k + (i - k)] = Exp2[k] * Exp2[i - k]
        BY <2>1, PowerSum
    <2>. QED BY <2>1, <2>2, Powers
<1> HIDE DEF c, m
<1>2. set_bit(x, i) % m = x % m
    <2>1. (x + c * m) % m = x % m
        BY <1>1, Multiple, Words
    <2>. QED BY <1>1, <2>1 DEF set_bit
<1>3. clr_bit(x, i) % m = x % m
    <2>1. CASE get_bit(x, i) = 1
        <3>1. x - c * m \in Nat
            BY <1>1, <2>1, BitClear, Words
        <3>2. ((x - c * m) + c * m) % m = (x - c * m) % m
            BY <1>1, <3>1, Multiple
        <3>3. (x - c * m) + c * m = x
            BY <1>1, <3>1, Words
        <3>. QED BY <1>1, <2>1, <3>2, <3>3 DEF clr_bit
    <2>2. CASE get_bit(x, i) # 1
        BY <2>2 DEF clr_bit
    <2>. QED BY <2>1, <2>2
<1>. QED BY <1>2, <1>3 DEF m

-----------------------------------------------------------------------------
\* The sums that FromBits passes through: b[n] has the bits of S below n.
Assembles(S) ==
    \E b : /\ FromBits(S) = b[WordBits] /\ b[0] = 0
           /\ \A n \in 0 .. WordBits - 1 : b[n + 1] = b[n] + (IF n \in S THEN Exp2[n] ELSE 0)

(* FromBits satisfies the equations of its recursive definition.           *)
LEMMA Assembled ==
    ASSUME NEW S
    PROVE  Assembles(S)
<1> USE Widths
<1> DEFINE g == [i \in 1 .. WordBits |->
                   [x \in Nat |-> x + (IF i - 1 \in S THEN Exp2[i - 1] ELSE 0)]]
           b == CHOOSE f : f = [i \in 0 .. WordBits |->
                   IF i = 0 THEN 0 ELSE f[i - 1] + (IF i - 1 \in S THEN Exp2[i - 1] ELSE 0)]
<1>0. \A i \in 1 .. WordBits : i - 1 \in 0 .. WordBits /\ Exp2[i - 1] \in Nat
    <2>1. \A i \in 1 .. WordBits : i - 1 \in 0 .. WordBits
        OBVIOUS
    <2>. QED BY <2>1, Powers
<1>1. PICK f \in [0 .. WordBits -> Nat] : f[0] = 0 /\ \A i \in 1 .. WordBits : f[i] = g[i][f[i - 1]]
    <2>1. g \in [1 .. WordBits -> [Nat -> Nat]]
        BY <1>0
    <2>2. 0 \in Nat /\ WordBits \in Nat
        OBVIOUS
    <2> HIDE DEF g
    <2>3. Iterates(WordBits, Nat, 0, g)
        BY <2>1, <2>2, Recursion
    <2>. QED BY <2>3 DEF Iterates
<1>2. ASSUME NEW i \in 1 .. WordBits
      PROVE f[i] = f[i - 1] + (IF i - 1 \in S THEN Exp2[i - 1] ELSE 0)
    <2>1. f[i - 1] \in Nat
        BY <1>0
    <2>2. g[i][f[i - 1]] = f[i - 1] + (IF i - 1 \in S THEN Exp2[i - 1] ELSE 0)
        BY <2>1
    <2>. QED BY <1>1, <2>2
<1>3. f = [i \in 0 .. WordBits |->
               IF i = 0 THEN 0 ELSE f[i - 1] + (IF i - 1 \in S THEN Exp2[i - 1] ELSE 0)]
    <2>1. \A i \in 0 .. WordBits :
             f[i] = IF i = 0 THEN 0 ELSE f[i - 1] + (IF i - 1 \in S THEN Exp2[i - 1] ELSE 0)
        BY <1>1, <1>2
    <2>. QED BY <2>1
<1>4. b = [i \in 0 .. WordBits |->
               IF i = 0 THEN 0 ELSE b[i - 1] + (IF i - 1 \in S THEN Exp2[i - 1] ELSE 0)]
    BY <1>3
<1>5. FromBits(S) = b[WordBits]
    BY DEF FromBits
<1> HIDE DEF g, b
<1>6. b[0] = 0
    BY <1>4
<1>7. ASSUME NEW n \in 0 .. WordBits - 1
      PROVE  b[n + 1] = b[n] + (IF n \in S THEN Exp2[n] ELSE 0)
    <2>1. n + 1 \in 0 .. WordBits /\ n + 1 # 0 /\ (n + 1) - 1 = n
        OBVIOUS
    <2>. QED BY <1>4, <2>1
<1>. QED BY <1>5, <1>6, <1>7 DEF Assembles

(* A word put together from bits is a word.                                *)
LEMMA FromBitsWord ==
    ASSUME NEW S
    PROVE  FromBits(S) \in Word
<1> USE Widths
<1>1. PICK b : /\ FromBits(S) = b[WordBits] /\ b[0] = 0
               /\ \A n \in 0 .. WordBits - 1 :
                     b[n + 1] = b[n] + (IF n \in S THEN Exp2[n] ELSE 0)
    BY Assembled DEF Assembles
<1> DEFINE T == {i \in 0 .. WordBits : b[i] \in Nat /\ b[i] < Exp2[i]}
<1>2. 0 .. WordBits \subseteq T
    <2>1. 0 \in T
        <3>1. b[0] = 0 /\ Exp2[0] = 1 /\ 0 \in 0 .. WordBits
            BY <1>1, Doubling
        <3>. QED BY <3>1
    <2>2. ASSUME NEW n \in 0 .. WordBits - 1, n \in T PROVE n + 1 \in T
        <3>1. n + 1 \in 1 .. WordBits /\ n + 1 \in 0 .. WordBits /\ (n + 1) - 1 = n
              /\ n \in 0 .. WordBits
            OBVIOUS
        <3>2. b[n + 1] = b[n] + (IF n \in S THEN Exp2[n] ELSE 0)
            BY <1>1
        <3>3. Exp2[n + 1] = 2 * Exp2[n] /\ Exp2[n] \in Nat
            BY <3>1, Doubling, Powers
        <3>. QED BY <2>2, <3>1, <3>2, <3>3
    <2> HIDE DEF T
    <2>. QED BY <2>1, <2>2, BoundedInduction
<1>3. b[WordBits] \in Nat /\ b[WordBits] < Exp2[WordBits]
    <2>1. WordBits \in 0 .. WordBits
        OBVIOUS
    <2>. QED BY <1>2, <2>1
<1>. QED BY <1>1, <1>3, Bases, Words

(* The logical operations give words.                                      *)
LEMMA Logic ==
    ASSUME NEW x \in Word, NEW y \in Word
    PROVE  And(x, y) \in Word /\ Or(x, y) \in Word /\ Xor(x, y) \in Word /\ Not(x) \in Word
<1>1. Not(x) \in Word
    BY Bases DEF Not, Word
<1>. QED BY <1>1, FromBitsWord DEF And, Or, Xor

(* The values of a word, cut after n bits.                                 *)
LEMMA Cut ==
    ASSUME NEW n \in 0 .. WordBits
    PROVE  /\ Exp2[n] \in Nat \ {0} /\ Exp2[WordBits - n] \in Nat \ {0}
           /\ Modulus = Exp2[n] * Exp2[WordBits - n]
<1> USE Widths
<1>1. WordBits - n \in 0 .. WordBits /\ WordBits - n \in 0 .. WordBits - n
      /\ n + (WordBits - n) = WordBits
    OBVIOUS
<1>2. Exp2[n + (WordBits - n)] = Exp2[n] * Exp2[WordBits - n]
    BY <1>1, PowerSum
<1>. QED BY <1>1, <1>2, Powers, Bases

(* A logical shift to the right by n leaves WordBits - n bits; both shifts *)
(* give words.                                                             *)
LEMMA ShiftRight ==
    ASSUME NEW x \in Word, NEW n \in 0 .. WordBits
    PROVE  Lsr(x, n) \in Word /\ Lsr(x, n) < Exp2[WordBits - n] /\ Lsl(x, n) \in Word
<1> DEFINE d == Exp2[n]
           e == Exp2[WordBits - n]
<1>1. d \in Nat \ {0} /\ e \in Nat \ {0} /\ Modulus = d * e /\ x \in Nat /\ x < Modulus
    BY Cut, Words
<1>2. Lsr(x, n) = x \div d /\ Lsl(x, n) = (x * d) % Modulus
    BY DEF Lsr, Lsl
<1>3. x * d \in Nat
    BY <1>1, Powers
<1> HIDE DEF d, e
<1>4. x < e * d
    BY <1>1
<1>5. x \div d < e
    BY <1>1, <1>4, Quotient
<1>6. x \div d \in Nat /\ x \div d <= x
    <2>1. x \div d \in Nat /\ x % d \in 0 .. d - 1 /\ x = (x \div d) * d + (x % d)
        BY <1>1, Division
    <2>. QED BY <1>1, <2>1
<1>7. x \div d \in Word
    BY <1>1, <1>6, Words, Bases
<1>. QED BY <1>2, <1>3, <1>5, <1>7, Wraps DEF e

(* asr gives a word: the copies of the sign fill the places left free.     *)
LEMMA ShiftSigned ==
    ASSUME NEW x \in Word, NEW n \in 0 .. WordBits
    PROVE  asr(x, n) \in Word
<1> DEFINE l == Lsr(x, n)
           e == Exp2[WordBits - n]
<1>1. l \in Nat /\ l < e /\ l < Modulus /\ e \in Nat /\ Modulus \in Nat /\ e <= Modulus
    <2>1. Exp2[n] \in Nat \ {0} /\ e \in Nat \ {0} /\ Modulus = Exp2[n] * e
        BY Cut
    <2>2. e <= Modulus
        BY <2>1
    <2>. QED BY <2>1, <2>2, ShiftRight, Words, Bases
<1>2. asr(x, n) = l \/ asr(x, n) = l + (Modulus - e)
    BY <1>1 DEF asr
<1> HIDE DEF l, e
<1>3. l + (Modulus - e) \in Nat /\ l + (Modulus - e) < Modulus
    BY <1>1
<1>. QED BY <1>1, <1>2, <1>3, Words

(* ror gives a word: the two parts do not overlap.                         *)
LEMMA Rotate ==
    ASSUME NEW x \in Word, NEW n \in 0 .. WordBits - 1
    PROVE  ror(x, n) \in Word
<1> USE Widths
<1> DEFINE d == Exp2[n]
           e == Exp2[WordBits - n]
           l == Lsr(x, n)
           r == x % d
<1>1. n \in 0 .. WordBits
    OBVIOUS
<1>2. d \in Nat \ {0} /\ e \in Nat \ {0} /\ Modulus = d * e /\ x \in Nat
    BY <1>1, Cut, Words
<1>3. l \in Nat /\ l < e
    BY <1>1, ShiftRight, Words
<1>4. Lsl(x, WordBits - n) = r * e
    BY <1>2, Scaled DEF Lsl
<1>5. r \in 0 .. d - 1
    BY <1>2, Division
<1>6. ror(x, n) = x \/ ror(x, n) = l + r * e
    BY <1>4 DEF ror
<1> HIDE DEF d, e, l, r
<1>7. (r + 1) * e <= d * e
    <2>1. r + 1 <= d /\ r + 1 \in Nat
        BY <1>2, <1>5
    <2>. QED BY <1>2, <2>1
<1>8. l + r * e \in Nat /\ l + r * e < (r + 1) * e /\ (r + 1) * e \in Nat
    BY <1>2, <1>3, <1>5
<1>9. l + r * e < Modulus
    BY <1>2, <1>7, <1>8, Bases
<1>. QED BY <1>6, <1>8, <1>9, Words

-----------------------------------------------------------------------------
(* Appending a digit to a number below M gives a number below M * B.       *)
LEMMA AppendDigit ==
    ASSUME NEW B \in Nat \ {0}, NEW M \in Nat, NEW x \in 0 .. M - 1,
           NEW d \in 0 .. B - 1
    PROVE  x * B + d \in 0 .. M * B - 1
  <1>1. x + 1 <= M
    OBVIOUS
  <1>2. (x + 1) * B <= M * B
    BY <1>1, SMT
  <1>3. x * B + B <= M * B
    BY <1>2, SMT
  <1>4. x * B \in Nat /\ M * B \in Nat
    BY SMT
  <1>5. QED BY <1>3, <1>4, SMT

(* A byte of a number is a byte.                                           *)
LEMMA DigitByte ==
    ASSUME NEW v \in Nat, NEW i \in 0 .. 3
    PROVE  Digit(v, i) \in Byte
  <1>1. \A x \in Nat : x % Base \in Byte /\ x \div Base \in Nat
    BY Bases, SMT DEF Byte
  <1> HIDE DEF Base
  <1>2. /\ v \div Base \in Nat
        /\ (v \div Base) \div Base \in Nat
        /\ ((v \div Base) \div Base) \div Base \in Nat
    BY <1>1
  <1>3. i = 0 \/ i = 1 \/ i = 2 \/ i = 3
    OBVIOUS
  <1>4. QED BY <1>1, <1>2, <1>3, Zenon DEF Digit

(* The bytes of a half put together by memory_read_half are its digits.    *)
LEMMA Digits2 ==
    ASSUME NEW d0 \in Byte, NEW d1 \in Byte
    PROVE  /\ d1 * Base + d0 \in Half
           /\ Digit(d1 * Base + d0, 0) = d0
           /\ Digit(d1 * Base + d0, 1) = d1
  <1> DEFINE x == d1 * Base + d0
  <1>1. Base \in Nat \ {0} /\ d0 \in 0 .. Base - 1 /\ d1 \in 0 .. Base - 1 /\ d1 \in Nat
    BY Bases DEF Byte
  <1>2. x \in Half
    BY <1>1, AppendDigit DEF Half
  <1>3. x \div Base = d1 /\ x % Base = d0
    BY <1>1, DivMod
  <1>4. d1 % Base = d1
    BY <1>1, SMT
  <1> HIDE DEF x
  <1>5. Digit(x, 0) = d0 /\ Digit(x, 1) = d1
    BY <1>3, <1>4 DEF Digit
  <1>6. QED BY <1>2, <1>5 DEF x

(* The bytes of a word put together by memory_read_word are its digits.    *)
LEMMA Digits4 ==
    ASSUME NEW d0 \in Byte, NEW d1 \in Byte, NEW d2 \in Byte, NEW d3 \in Byte
    PROVE  LET x == ((d3 * Base + d2) * Base + d1) * Base + d0
           IN  /\ x \in Word
               /\ Digit(x, 0) = d0 /\ Digit(x, 1) = d1
               /\ Digit(x, 2) = d2 /\ Digit(x, 3) = d3
  <1> DEFINE y == d3 * Base + d2
             z == y * Base + d1
             x == z * Base + d0
  <1>1. /\ Base \in Nat \ {0} /\ d3 \in Nat
        /\ d0 \in 0 .. Base - 1 /\ d1 \in 0 .. Base - 1
        /\ d2 \in 0 .. Base - 1 /\ d3 \in 0 .. Base - 1
    BY Bases DEF Byte
  <1>2. y \in 0 .. Base * Base - 1 /\ y \div Base = d3 /\ y % Base = d2
    BY <1>1, AppendDigit, DivMod
  <1>a. y \in Nat /\ Base * Base \in Nat
    BY <1>1, <1>2
  <1> HIDE DEF y
  <1>3. z \in 0 .. (Base * Base) * Base - 1 /\ z \div Base = y /\ z % Base = d1
    BY <1>1, <1>2, <1>a, AppendDigit, DivMod
  <1>b. z \in Nat /\ (Base * Base) * Base \in Nat
    BY <1>1, <1>3, <1>a
  <1> HIDE DEF z
  <1>4. x \in 0 .. ((Base * Base) * Base) * Base - 1 /\ x \div Base = z /\ x % Base = d0
    BY <1>1, <1>3, <1>b, AppendDigit, DivMod
  <1>5. x \in Word
    BY <1>4 DEF Word, Modulus
  <1>6. d3 % Base = d3
    BY <1>1, SMT
  <1> HIDE DEF x
  <1>7. Digit(x, 0) = d0 /\ Digit(x, 1) = d1 /\ Digit(x, 2) = d2 /\ Digit(x, 3) = d3
    BY <1>2, <1>3, <1>4, <1>6, SMT DEF Digit
  <1>8. QED BY <1>5, <1>7 DEF x, y, z

(* reverse_2 and reverse_4 of util.h exchange the bytes end for end.       *)
LEMMA Reversed ==
    ASSUME NEW v \in Nat
    PROVE  /\ reverse_2(v) \in Half
           /\ \A i \in 0 .. 1 : Digit(reverse_2(v), i) = Digit(v, 1 - i)
           /\ reverse_4(v) \in Word
           /\ \A i \in 0 .. 3 : Digit(reverse_4(v), i) = Digit(v, 3 - i)
  <1> DEFINE e0 == Digit(v, 0)
             e1 == Digit(v, 1)
             e2 == Digit(v, 2)
             e3 == Digit(v, 3)
  <1>1. e0 \in Byte /\ e1 \in Byte /\ e2 \in Byte /\ e3 \in Byte
    BY DigitByte
  <1>2. reverse_2(v) = e0 * Base + e1
    BY DEF reverse_2
  <1>3. reverse_4(v) = ((e0 * Base + e1) * Base + e2) * Base + e3
    BY DEF reverse_4
  <1> HIDE DEF e0, e1, e2, e3
  <1>4. reverse_2(v) \in Half /\ Digit(reverse_2(v), 0) = e1 /\ Digit(reverse_2(v), 1) = e0
    BY <1>1, <1>2, Digits2
  <1>5. /\ reverse_4(v) \in Word
        /\ Digit(reverse_4(v), 0) = e3 /\ Digit(reverse_4(v), 1) = e2
        /\ Digit(reverse_4(v), 2) = e1 /\ Digit(reverse_4(v), 3) = e0
    BY <1>1, <1>3, Digits4
  <1>6. \A i \in 0 .. 1 : Digit(reverse_2(v), i) = Digit(v, 1 - i)
    <2> TAKE i \in 0 .. 1
    <2>1. CASE i = 0
      BY <2>1, <1>4 DEF e1
    <2>2. CASE i = 1
      BY <2>2, <1>4 DEF e0
    <2> QED BY <2>1, <2>2
  <1>7. \A i \in 0 .. 3 : Digit(reverse_4(v), i) = Digit(v, 3 - i)
    <2> TAKE i \in 0 .. 3
    <2>1. CASE i = 0
      BY <2>1, <1>5 DEF e3
    <2>2. CASE i = 1
      BY <2>2, <1>5 DEF e2
    <2>3. CASE i = 2
      BY <2>3, <1>5 DEF e1
    <2>4. CASE i = 3
      BY <2>4, <1>5 DEF e0
    <2> QED BY <2>1, <2>2, <2>3, <2>4
  <1> QED BY <1>4, <1>5, <1>6, <1>7


(* A byte and a half are words.                                            *)
LEMMA Widening == Byte \subseteq Word /\ Half \subseteq Word
<1>1. Base <= Base * Base /\ Base * Base \in Nat /\ Base * Base >= 1
    BY Bases
<1>2. Base * Base <= (Base * Base) * (Base * Base)
    BY <1>1
<1>3. Modulus = (Base * Base) * (Base * Base)
    BY Bases DEF Modulus
<1>. QED BY <1>1, <1>2, <1>3, Bases DEF Byte, Half, Word

(* A word is made of its four bytes.                                       *)
LEMMA Recomposed ==
    ASSUME NEW v \in Word
    PROVE  v = ((Digit(v, 3) * Base + Digit(v, 2)) * Base + Digit(v, 1)) * Base + Digit(v, 0)
<1> DEFINE a == v \div Base
           b == a \div Base
           c == b \div Base
<1>1. Base \in Nat \ {0} /\ v \in Nat
    BY Bases, Words
<1>2. Digit(v, 0) = v % Base /\ Digit(v, 1) = a % Base /\ Digit(v, 2) = b % Base
      /\ Digit(v, 3) = c % Base
    BY DEF Digit
<1>3. a \in Nat /\ v = a * Base + (v % Base) /\ v % Base \in 0 .. Base - 1
    BY <1>1, Division
<1> HIDE DEF a
<1>4. b \in Nat /\ a = b * Base + (a % Base) /\ a % Base \in 0 .. Base - 1
    BY <1>1, <1>3, Division
<1> HIDE DEF b
<1>5. c \in Nat /\ b = c * Base + (b % Base) /\ b % Base \in 0 .. Base - 1
    BY <1>1, <1>4, Division
<1> HIDE DEF c
<1>6. c < Base
    <2> SUFFICES ASSUME c >= Base PROVE FALSE
        BY <1>1, <1>5
    <2>1. c * Base >= Base * Base /\ b >= c * Base
        BY <1>1, <1>5
    <2>2. b >= Base * Base /\ Base * Base \in Nat
        BY <1>1, <1>4, <1>5, <2>1
    <2>3. b * Base >= (Base * Base) * Base /\ a >= b * Base
        BY <1>1, <1>4, <2>2
    <2>4. a >= (Base * Base) * Base /\ (Base * Base) * Base \in Nat
        BY <1>1, <1>3, <1>4, <2>2, <2>3
    <2>5. a * Base >= ((Base * Base) * Base) * Base /\ v >= a * Base
        BY <1>1, <1>3, <2>4
    <2>6. v >= Modulus
        BY <1>1, <1>3, <2>4, <2>5 DEF Modulus
    <2>. QED BY <1>1, <2>6, Bases, Words
<1>7. c % Base = c
    BY <1>1, <1>5, <1>6
<1>. QED BY <1>2, <1>3, <1>4, <1>5, <1>7

(* What the memory_read functions give, inside the memory, is a word.      *)
LEMMA Reads ==
    ASSUME NEW m \in Contents, NEW a \in Word
    PROVE  /\ Accessible(a, 1) => memory_read_byte(m, a) \in Word
           /\ Accessible(a, 2) => memory_read_half(m, a) \in Word
           /\ Accessible(a, 4) => memory_read_word(m, a) \in Word
<1>0. m \in [0 .. Size - 1 -> Byte] /\ Size \in Nat /\ a \in Nat
    BY MemoryAssumption, Words DEF Contents
<1>1. ASSUME Accessible(a, 1) PROVE memory_read_byte(m, a) \in Word
    <2>1. m[a] \in Byte
        BY <1>0, <1>1 DEF Accessible
    <2>. QED BY <2>1, Widening DEF memory_read_byte
<1>2. ASSUME Accessible(a, 2) PROVE memory_read_half(m, a) \in Word
    <2>1. m[a] \in Byte /\ m[a + 1] \in Byte
        BY <1>0, <1>2 DEF Accessible
    <2>2. HostLoad2(m, a) \in Half
        BY <2>1, Digits2 DEF HostLoad2
    <2>3. HostLoad2(m, a) \in Nat
        BY <2>2, Widening, Words
    <2>. QED BY <2>2, <2>3, Reversed, Widening DEF memory_read_half
<1>3. ASSUME Accessible(a, 4) PROVE memory_read_word(m, a) \in Word
    <2>1. m[a] \in Byte /\ m[a + 1] \in Byte /\ m[a + 2] \in Byte /\ m[a + 3] \in Byte
        BY <1>0, <1>3 DEF Accessible
    <2>2. HostLoad4(m, a) \in Word
        BY <2>1, Digits4 DEF HostLoad4
    <2>3. HostLoad4(m, a) \in Nat
        BY <2>2, Words
    <2>. QED BY <2>2, <2>3, Reversed DEF memory_read_word
<1>. QED BY <1>1, <1>2, <1>3

(* A store through the host's pointer leaves bytes in the memory.          *)
LEMMA HostStores ==
    ASSUME NEW m \in Contents, NEW a \in Nat, NEW n \in {2, 4}, NEW v \in Nat
    PROVE  HostStore(m, a, n, v) \in Contents
<1>1. ASSUME NEW i \in 0 .. Size - 1, i \in a .. a + n - 1
      PROVE  Digit(v, IF HostBigEndian THEN n - 1 - (i - a) ELSE i - a) \in Byte
    <2>1. (IF HostBigEndian THEN n - 1 - (i - a) ELSE i - a) \in 0 .. 3
        BY <1>1
    <2>. QED BY <2>1, DigitByte
<1>2. \A i \in 0 .. Size - 1 : m[i] \in Byte
    BY DEF Contents
<1>. QED BY <1>1, <1>2, Zenon DEF HostStore, Contents

(* The memory_write functions leave bytes in the memory.                   *)
LEMMA Writes ==
    ASSUME NEW m \in Contents, NEW a \in Word
    PROVE  /\ \A v \in Byte : memory_write_byte(m, a, v) \in Contents
           /\ \A v \in Word : memory_write_half(m, a, v) \in Contents
           /\ \A v \in Word : memory_write_word(m, a, v) \in Contents
<1>0. a \in Nat /\ Word \subseteq Nat
    BY Words
<1>1. ASSUME NEW v \in Byte PROVE memory_write_byte(m, a, v) \in Contents
    BY DEF memory_write_byte, Contents
<1>2. ASSUME NEW v \in Word PROVE memory_write_half(m, a, v) \in Contents
    <2>1. v \in Nat /\ reverse_2(v) \in Nat
        BY <1>0, Reversed, Widening
    <2>. QED BY <1>0, <2>1, HostStores DEF memory_write_half
<1>3. ASSUME NEW v \in Word PROVE memory_write_word(m, a, v) \in Contents
    <2>1. v \in Nat /\ reverse_4(v) \in Nat
        BY <1>0, Reversed
    <2>. QED BY <1>0, <2>1, HostStores DEF memory_write_word
<1>. QED BY <1>1, <1>2, <1>3

-----------------------------------------------------------------------------
\* The physical registers that the System mode sees.
Visible == (0 .. 12) \cup {18, 19, 30, 31}

\* Register files in which the banks of the exception modes are as created.
Banks == {f \in [PhysicalRegs -> Word] : \A k \in PhysicalRegs \ Visible : f[k] = 0}

\* The states of the processor.
Processors ==
    [cycle_count : Word, reg : [mode : {SYS}, registers : Banks], mem : Contents]

\* The bits of the cpsr below the flags.
Flagless(p) == arm_read_cpsr(p) % Exp2[V]

\* q is p after an instruction has changed registers, memory and flags.
Follows(p, q) ==
    /\ q \in Processors /\ q.cycle_count = p.cycle_count
    /\ Flagless(q) = Flagless(p)

(* The row of the table of registers_create that the System mode uses: it  *)
(* is the User mode's, apart from the cpsr no register is the cpsr, and    *)
(* there is no spsr.                                                       *)
LEMMA SystemRow ==
    /\ get_mode_num(SYS) = 6
    /\ \A i \in 0 .. 16 : /\ virtual_regs[6][i] \in Visible
                          /\ virtual_regs[0][i] = virtual_regs[6][i]
    /\ \A i \in 0 .. 15 : virtual_regs[6][i] # 31
    /\ virtual_regs[6][CPSR] = 31 /\ virtual_regs[6][SPSR] = NULL
<1>1. get_mode_num(SYS) = 6
    BY DEF get_mode_num, USR, FIQ, IRQ, SVC, ABT, UND, SYS
<1>2. ASSUME NEW m \in 0 .. 6, NEW i \in VirtualRegs
      PROVE  /\ i <= 7 => virtual_regs[m][i] = i
             /\ i \in 8 .. 12 => virtual_regs[m][i] = IF m = 1 THEN i + 5 ELSE i
             /\ i \in 13 .. 14 => virtual_regs[m][i] = IF m = 6 THEN i + 5 ELSE i + 5 + 2 * m
             /\ i = 15 => virtual_regs[m][i] = 30
             /\ i = 16 => virtual_regs[m][i] = 31
             /\ i = 17 => virtual_regs[m][i] = IF m = 0 \/ m = 6 THEN -1 ELSE 31 + m
    BY DEF virtual_regs, VirtualRegs, CPSR, SPSR, NULL
<1>3. ASSUME NEW i \in 0 .. 16
      PROVE  /\ virtual_regs[6][i] \in Visible /\ virtual_regs[0][i] = virtual_regs[6][i]
             /\ i # 16 => virtual_regs[6][i] # 31
    <2>1. i \in VirtualRegs /\ 0 \in 0 .. 6 /\ 6 \in 0 .. 6
        BY DEF VirtualRegs
    <2>2. CASE i \in 0 .. 7
        BY <1>2, <2>1, <2>2 DEF Visible
    <2>3. CASE i \in 8 .. 12
        BY <1>2, <2>1, <2>3 DEF Visible
    <2>4. CASE i \in 13 .. 14
        BY <1>2, <2>1, <2>4 DEF Visible
    <2>5. CASE i \in 15 .. 16
        BY <1>2, <2>1, <2>5 DEF Visible
    <2>. QED BY <2>2, <2>3, <2>4, <2>5
<1>4. virtual_regs[6][CPSR] = 31 /\ virtual_regs[6][SPSR] = NULL
    BY <1>2 DEF VirtualRegs, CPSR, SPSR, NULL
<1>. QED BY <1>1, <1>3, <1>4

(* The cpsr is one of the registers that the System mode sees.             *)
LEMMA VisibleRegs == Visible \subseteq PhysicalRegs /\ 31 \in Visible
BY DEF Visible, PhysicalRegs

(* The simulated processor, always in System mode, has no spsr.            *)
LEMMA NoSpsr ==
    ASSUME NEW p \in Processors
    PROVE  ~ arm_current_mode_has_spsr(p)
BY SystemRow DEF Processors, arm_current_mode_has_spsr, current_mode_has_spsr, Points

(* The arm_read functions for registers give words, the pc included.       *)
LEMMA RegistersRead ==
    ASSUME NEW p \in Processors
    PROVE  /\ \A i \in 0 .. 16 : read_register(p.reg, i) \in Word
           /\ \A i \in 0 .. 15 : arm_read_register(p, i) \in Word
           /\ \A i \in 0 .. 15 : arm_read_usr_register(p, i) \in Word
           /\ arm_read_cpsr(p) = p.reg.registers[31] /\ arm_read_cpsr(p) \in Word
<1>1. /\ p.reg.mode = SYS /\ p.reg.registers \in [PhysicalRegs -> Word]
    BY DEF Processors, Banks
<1>2. \A k \in Visible : p.reg.registers[k] \in Word
    BY <1>1, VisibleRegs
<1>3. \A i \in 0 .. 16 : read_register(p.reg, i) \in Word /\ read_usr_register(p.reg, i) \in Word
    BY <1>1, <1>2, SystemRow DEF read_register, read_usr_register
<1>4. \A v \in Word : PcRead(v) \in Word
    <2> TAKE v \in Word
    <2>1. Plus(v, 4) \in Word
        BY Wraps, Words
    <2>2. 1 \in 0 .. WordBits - 1
        BY Widths
    <2>. QED BY <2>1, <2>2, SetClear DEF PcRead
<1>5. arm_read_cpsr(p) = p.reg.registers[31]
    BY <1>1, SystemRow DEF arm_read_cpsr, read_cpsr, read_register
<1>6. \A i \in 0 .. 15 : arm_read_register(p, i) \in Word /\ arm_read_usr_register(p, i) \in Word
    <2> TAKE i \in 0 .. 15
    <2>1. i \in 0 .. 16
        OBVIOUS
    <2>. QED BY <1>3, <1>4, <2>1 DEF arm_read_register, arm_read_usr_register
<1>. QED BY <1>2, <1>3, <1>5, <1>6, VisibleRegs

\* q is p with one register of the file changed.
Changed(p, q, k, v) ==
    /\ q \in Processors /\ q.cycle_count = p.cycle_count /\ q.mem = p.mem
    /\ \A j \in PhysicalRegs : q.reg.registers[j] = IF j = k THEN v ELSE p.reg.registers[j]

(* One register of the file is assigned.                                   *)
LEMMA Put ==
    ASSUME NEW p \in Processors, NEW k \in Visible, NEW v \in Word, NEW q,
           q = [p EXCEPT !.reg = [p.reg EXCEPT !.registers[k] = v]]
    PROVE  Changed(p, q, k, v)
<1>1. /\ p.reg \in [mode : {SYS}, registers : Banks] /\ p.reg.registers \in Banks
      /\ p.cycle_count \in Word /\ p.mem \in Contents
    BY DEF Processors
<1> DEFINE f == [p.reg.registers EXCEPT ![k] = v]
<1>2. f \in Banks /\ \A j \in PhysicalRegs : f[j] = IF j = k THEN v ELSE p.reg.registers[j]
    BY <1>1, VisibleRegs DEF Banks
<1>3. [p.reg EXCEPT !.registers[k] = v] = [p.reg EXCEPT !.registers = f]
    OBVIOUS
<1> HIDE DEF f
<1> DEFINE r == [p.reg EXCEPT !.registers = f]
<1>4. r \in [mode : {SYS}, registers : Banks] /\ r.registers = f
    BY <1>1, <1>2
<1>5. q = [p EXCEPT !.reg = r]
    BY <1>3
<1> HIDE DEF r
<1>6. q \in Processors /\ q.cycle_count = p.cycle_count /\ q.mem = p.mem /\ q.reg = r
    BY <1>4, <1>5 DEF Processors
<1>. QED BY <1>2, <1>4, <1>6 DEF Changed

(* Writing one of r0-r15, of the current mode or of the User mode, leaves  *)
(* cpsr, cycle count and the other banks alone.                            *)
LEMMA RegisterWritten ==
    ASSUME NEW p \in Processors, NEW i \in 0 .. 15, NEW v \in Word
    PROVE  Follows(p, arm_write_register(p, i, v)) /\ Follows(p, arm_write_usr_register(p, i, v))
<1> DEFINE k == virtual_regs[6][i]
           q == [p EXCEPT !.reg = [p.reg EXCEPT !.registers[k] = v]]
<1>1. k \in Visible /\ k # 31 /\ virtual_regs[0][i] = k
    BY SystemRow
<1>2. arm_write_register(p, i, v) = q /\ arm_write_usr_register(p, i, v) = q
    BY <1>1, SystemRow DEF arm_write_register, arm_write_usr_register, write_register,
                           write_usr_register, Processors
<1> HIDE DEF k
<1>3. q \in Processors /\ q.cycle_count = p.cycle_count /\ q.mem = p.mem
      /\ \A j \in PhysicalRegs : q.reg.registers[j] = IF j = k THEN v ELSE p.reg.registers[j]
    <2>1. Changed(p, q, k, v)
        BY <1>1, Put
    <2>. QED BY <2>1 DEF Changed
<1> HIDE DEF q
<1>4. q.reg.registers[31] = p.reg.registers[31]
    BY <1>1, <1>3, VisibleRegs
<1>5. arm_read_cpsr(q) = arm_read_cpsr(p)
    BY <1>3, <1>4, RegistersRead
<1>. QED BY <1>2, <1>3, <1>5 DEF Follows, Flagless

(* Writing the cpsr leaves the mode, the cycle count and the other banks   *)
(* alone.                                                                  *)
LEMMA CpsrWritten ==
    ASSUME NEW p \in Processors, NEW v \in Word
    PROVE  LET q == arm_write_cpsr(p, v)
           IN  q \in Processors /\ q.cycle_count = p.cycle_count /\ arm_read_cpsr(q) = v
               /\ q.mem = p.mem
<1> DEFINE q == arm_write_cpsr(p, v)
<1>1. q = [p EXCEPT !.reg = [p.reg EXCEPT !.registers[31] = v]]
    BY SystemRow DEF arm_write_cpsr, write_cpsr, write_register, Processors
<1> HIDE DEF q
<1>2. q \in Processors /\ q.cycle_count = p.cycle_count /\ q.mem = p.mem
      /\ \A j \in PhysicalRegs : q.reg.registers[j] = IF j = 31 THEN v ELSE p.reg.registers[j]
    <2>1. Changed(p, q, 31, v)
        BY <1>1, Put, VisibleRegs
    <2>. QED BY <2>1 DEF Changed
<1>3. arm_read_cpsr(q) = v
    BY <1>2, RegistersRead, VisibleRegs
<1>. QED BY <1>2, <1>3 DEF q

(* arm_write leaves the registers alone and bytes in the memory.           *)
LEMMA MemoryWritten ==
    ASSUME NEW p \in Processors, NEW a \in Word, NEW n \in {1, 2, 4}, NEW v \in Word,
           n = 1 => v \in Byte
    PROVE  Follows(p, arm_write(p, a, n, v))
<1> DEFINE m == CASE n = 1 -> memory_write_byte(p.mem, a, v)
                  [] n = 2 -> memory_write_half(p.mem, a, v)
                  [] n = 4 -> memory_write_word(p.mem, a, v)
           q == arm_write(p, a, n, v)
<1>1. p.mem \in Contents
    BY DEF Processors
<1>2. m \in Contents
    <2>1. CASE n = 1
        BY <1>1, <2>1, Writes
    <2>2. CASE n = 2
        BY <1>1, <2>2, Writes
    <2>3. CASE n = 4
        BY <1>1, <2>3, Writes
    <2>. QED BY <2>1, <2>2, <2>3
<1>3. q = [p EXCEPT !.mem = m]
    BY DEF arm_write
<1> HIDE DEF m, q
<1>4. q \in Processors /\ q.cycle_count = p.cycle_count /\ q.reg = p.reg
    BY <1>2, <1>3 DEF Processors
<1>. QED BY <1>4 DEF Follows, Flagless, arm_read_cpsr, q

(* arm_read gives a word where the access is possible.                     *)
LEMMA MemoryRead ==
    ASSUME NEW p \in Processors, NEW a \in Word, NEW n \in {1, 2, 4}, Accessible(a, n)
    PROVE  arm_read(p, a, n) \in Word
<1>1. p.mem \in Contents
    BY DEF Processors
<1>2. CASE n = 1
    BY <1>1, <1>2, Reads DEF arm_read
<1>3. CASE n = 2
    BY <1>1, <1>3, Reads DEF arm_read
<1>4. CASE n = 4
    BY <1>1, <1>4, Reads DEF arm_read
<1>. QED BY <1>2, <1>3, <1>4

(* Changes of an instruction add up.                                       *)
LEMMA FollowsTwice ==
    ASSUME NEW p, NEW q, NEW r, Follows(p, q), Follows(q, r)
    PROVE  Follows(p, r)
BY DEF Follows

(* Doing nothing is allowed.                                               *)
LEMMA FollowsSelf ==
    ASSUME NEW p \in Processors
    PROVE  Follows(p, p)
BY DEF Follows

(* The System mode has a place of its own for each of the registers and    *)
(* the cpsr.                                                               *)
LEMMA OwnPlaces ==
    \A i, j \in 0 .. 16 : i # j => virtual_regs[6][i] # virtual_regs[6][j]
<1>1. ASSUME NEW i \in 0 .. 16
      PROVE  /\ i <= 12 => virtual_regs[6][i] = i
             /\ i \in 13 .. 14 => virtual_regs[6][i] = i + 5
             /\ i \in 15 .. 16 => virtual_regs[6][i] = i + 15
    BY DEF virtual_regs, VirtualRegs, CPSR, SPSR, NULL
<1>. QED BY <1>1

\* q is p with register i (16: the cpsr) changed to v.
Assigned(p, q, i, v) ==
    /\ q \in Processors /\ q.cycle_count = p.cycle_count /\ q.mem = p.mem
    /\ \A j \in 0 .. 16 : Reg(q, j) = IF j = i THEN v ELSE Reg(p, j)

(* A change of the register file is a change of one register.              *)
LEMMA OneAssigned ==
    ASSUME NEW p \in Processors, NEW i \in 0 .. 16, NEW v, NEW q,
           Changed(p, q, virtual_regs[6][i], v)
    PROVE  Assigned(p, q, i, v)
<1>1. /\ q \in Processors /\ q.cycle_count = p.cycle_count /\ q.mem = p.mem
      /\ \A k \in PhysicalRegs :
             q.reg.registers[k] = IF k = virtual_regs[6][i] THEN v ELSE p.reg.registers[k]
    BY DEF Changed
<1>2. ASSUME NEW j \in 0 .. 16 PROVE Reg(q, j) = IF j = i THEN v ELSE Reg(p, j)
    <2>1. Reg(q, j) = q.reg.registers[virtual_regs[6][j]]
        BY <1>1, SystemRow DEF Reg, read_register, Processors
    <2>2. Reg(p, j) = p.reg.registers[virtual_regs[6][j]]
        BY SystemRow DEF Reg, read_register, Processors
    <2>3. virtual_regs[6][j] \in PhysicalRegs
        BY SystemRow, VisibleRegs
    <2>4. j # i => virtual_regs[6][j] # virtual_regs[6][i]
        BY OwnPlaces
    <2>. QED BY <1>1, <2>1, <2>2, <2>3, <2>4
<1>. QED BY <1>1, <1>2 DEF Assigned

(* arm_write_register, arm_write_usr_register and arm_write_cpsr change    *)
(* the register they are given, and no other.                              *)
LEMMA RegisterAssigned ==
    ASSUME NEW p \in Processors, NEW v \in Word
    PROVE  /\ \A i \in 0 .. 15 : /\ Assigned(p, arm_write_register(p, i, v), i, v)
                                 /\ Assigned(p, arm_write_usr_register(p, i, v), i, v)
           /\ Assigned(p, arm_write_cpsr(p, v), 16, v)
<1>1. ASSUME NEW i \in 0 .. 16, NEW q,
             q = [p EXCEPT !.reg = [p.reg EXCEPT !.registers[virtual_regs[6][i]] = v]]
      PROVE  Assigned(p, q, i, v)
    <2>1. virtual_regs[6][i] \in Visible
        BY SystemRow
    <2>2. Changed(p, q, virtual_regs[6][i], v)
        BY <1>1, <2>1, Put
    <2>. QED BY <2>2, OneAssigned
<1>2. ASSUME NEW i \in 0 .. 15
      PROVE  /\ Assigned(p, arm_write_register(p, i, v), i, v)
             /\ Assigned(p, arm_write_usr_register(p, i, v), i, v)
    <2>1. i \in 0 .. 16 /\ virtual_regs[0][i] = virtual_regs[6][i]
        BY SystemRow
    <2>2. arm_write_register(p, i, v)
              = [p EXCEPT !.reg = [p.reg EXCEPT !.registers[virtual_regs[6][i]] = v]]
        BY SystemRow DEF arm_write_register, write_register, Processors
    <2>3. arm_write_usr_register(p, i, v)
              = [p EXCEPT !.reg = [p.reg EXCEPT !.registers[virtual_regs[6][i]] = v]]
        BY <2>1, SystemRow DEF arm_write_usr_register, write_usr_register, Processors
    <2>. QED BY <1>1, <2>1, <2>2, <2>3
<1>3. Assigned(p, arm_write_cpsr(p, v), 16, v)
    <2>1. 16 \in 0 .. 16
        OBVIOUS
    <2>2. arm_write_cpsr(p, v)
              = [p EXCEPT !.reg = [p.reg EXCEPT !.registers[virtual_regs[6][16]] = v]]
        BY SystemRow DEF arm_write_cpsr, write_cpsr, write_register, CPSR, Processors
    <2>. QED BY <1>1, <2>1, <2>2
<1>. QED BY <1>2, <1>3

-----------------------------------------------------------------------------
\* What decode_so may give.
Operands == [so : Word, carry : Bit]

(* A word and one of its bits are a shifter operand.                       *)
LEMMA Operand1 ==
    ASSUME NEW x \in Word, NEW i \in 0 .. WordBits - 1, NEW y \in Word
    PROVE  Operand(x, get_bit(y, i)) \in Operands
BY BitValue DEF Operand, Operands, Bit

(* A word and a carry are a shifter operand.                               *)
LEMMA Operand2 ==
    ASSUME NEW x \in Word, NEW c \in Bit
    PROVE  Operand(x, c) \in Operands
BY DEF Operand, Operands

(* A word of copies of the sign.                                           *)
LEMMA SignFills ==
    ASSUME NEW x \in Word
    PROVE  SignFill(x) \in Word
<1>1. Modulus - 1 \in Word
    BY Bases DEF Word
<1>. QED BY <1>1, Words DEF SignFill

(* rrx: the carry enters from the left.                                    *)
LEMMA Extended ==
    ASSUME NEW x \in Word, NEW c \in Bit
    PROVE  c * Exp2[WordBits - 1] + Lsr(x, 1) \in Word
<1> DEFINE e == Exp2[WordBits - 1]
           l == Lsr(x, 1)
<1>1. 1 \in 0 .. WordBits /\ 1 \in 1 .. WordBits /\ 1 - 1 = 0
    BY Widths
<1>2. Exp2[1] = 2
    BY <1>1, Doubling
<1>3. e \in Nat \ {0} /\ Modulus = 2 * e
    BY <1>1, <1>2, Cut
<1>4. l \in Nat /\ l < e
    BY <1>1, ShiftRight, Words
<1> HIDE DEF e, l
<1>5. c = 0 \/ c = 1
    BY DEF Bit
<1>6. c * e + l \in Nat /\ c * e + l < Modulus
    BY <1>3, <1>4, <1>5
<1>. QED BY <1>6, Words DEF e, l

(* Every immediate shift gives a word and a carry.                         *)
LEMMA ShiftImmediate ==
    ASSUME NEW x \in Word, NEW shift \in 0 .. 3, NEW n \in 0 .. WordBits - 1, NEW c \in Bit
    PROVE  ShiftByImmediate(x, shift, n, c) \in Operands
<1> USE Widths
<1>1. /\ WordBits - 1 \in 0 .. WordBits - 1 /\ 0 \in 0 .. WordBits - 1 /\ n \in 0 .. WordBits
      /\ n # 0 => n - 1 \in 0 .. WordBits - 1 /\ WordBits - n \in 0 .. WordBits - 1
    OBVIOUS
<1>2. Operand(x, c) \in Operands
    BY Operand2
<1>3. n # 0 => Operand(Lsl(x, n), get_bit(x, WordBits - n)) \in Operands
    BY <1>1, ShiftRight, Operand1
<1>4. n # 0 => Operand(Lsr(x, n), get_bit(x, n - 1)) \in Operands
    BY <1>1, ShiftRight, Operand1
<1>5. n # 0 => Operand(asr(x, n), get_bit(x, n - 1)) \in Operands
    BY <1>1, ShiftSigned, Operand1
<1>6. n # 0 => Operand(ror(x, n), get_bit(x, n - 1)) \in Operands
    BY <1>1, Rotate, Operand1
<1>7. Operand(0, get_bit(x, WordBits - 1)) \in Operands
    BY <1>1, Words, Operand1
<1>8. Operand(SignFill(x), get_bit(x, WordBits - 1)) \in Operands
    BY <1>1, SignFills, Operand1
<1>9. Operand(c * Exp2[WordBits - 1] + Lsr(x, 1), get_bit(x, 0)) \in Operands
    BY <1>1, Extended, Operand1
<1>10. CASE shift = 0
    BY <1>2, <1>3, <1>10 DEF ShiftByImmediate, LSL, LSR, ASR, ROR
<1>11. CASE shift = 1
    BY <1>4, <1>7, <1>11 DEF ShiftByImmediate, LSL, LSR, ASR, ROR
<1>12. CASE shift = 2
    BY <1>5, <1>8, <1>12 DEF ShiftByImmediate, LSL, LSR, ASR, ROR
<1>13. CASE shift = 3
    BY <1>6, <1>9, <1>13 DEF ShiftByImmediate, LSL, LSR, ASR, ROR
<1>. QED BY <1>10, <1>11, <1>12, <1>13

(* Every shift by a register gives a word and a carry.                     *)
LEMMA ShiftRegister ==
    ASSUME NEW x \in Word, NEW shift \in 0 .. 3, NEW n \in Nat, NEW c \in Bit
    PROVE  ShiftByRegister(x, shift, n, c) \in Operands
<1> USE Widths
<1> DEFINE k == n % WordBits
           inside == n \in 1 .. WordBits - 1
<1>0. k \in 0 .. WordBits - 1
    OBVIOUS
<1> HIDE DEF k
<1>1. /\ WordBits - 1 \in 0 .. WordBits - 1 /\ 0 \in 0 .. WordBits - 1
      /\ k > 0 => k - 1 \in 0 .. WordBits - 1
      /\ inside => /\ n - 1 \in 0 .. WordBits - 1 /\ WordBits - n \in 0 .. WordBits - 1
                   /\ n \in 0 .. WordBits
    BY <1>0
<1>2. Operand(x, c) \in Operands /\ Operand(0, 0) \in Operands
    BY Operand2, Words DEF Bit
<1>3. inside => Operand(Lsl(x, n), get_bit(x, WordBits - n)) \in Operands
    BY <1>1, ShiftRight, Operand1
<1>4. inside => Operand(Lsr(x, n), get_bit(x, n - 1)) \in Operands
    BY <1>1, ShiftRight, Operand1
<1>5. inside => Operand(asr(x, n), get_bit(x, n - 1)) \in Operands
    BY <1>1, ShiftSigned, Operand1
<1>6. k > 0 => Operand(ror(x, k), get_bit(x, k - 1)) \in Operands
    BY <1>0, <1>1, Rotate, Operand1
<1>7. Operand(0, get_bit(x, WordBits - 1)) \in Operands /\ Operand(0, get_bit(x, 0)) \in Operands
      /\ Operand(x, get_bit(x, WordBits - 1)) \in Operands
    BY <1>1, Words, Operand1
<1>8. Operand(SignFill(x), get_bit(x, WordBits - 1)) \in Operands
    BY <1>1, SignFills, Operand1
<1>9. n = 0 \/ inside \/ n = WordBits \/ n > WordBits
    OBVIOUS
<1>10. CASE shift = 0
    <2>1. ShiftByRegister(x, shift, n, c) =
            CASE n = 0        -> Operand(x, c)
              [] inside       -> Operand(Lsl(x, n), get_bit(x, WordBits - n))
              [] n = WordBits -> Operand(0, get_bit(x, 0))
              [] n > WordBits -> Operand(0, 0)
        BY <1>10 DEF ShiftByRegister, LSL, LSR, ASR, ROR
    <2>. QED BY <1>2, <1>3, <1>7, <1>9, <2>1
<1>11. CASE shift = 1
    <2>1. ShiftByRegister(x, shift, n, c) =
            CASE n \in {0, WordBits} -> Operand(0, get_bit(x, WordBits - 1))
              [] inside       -> Operand(Lsr(x, n), get_bit(x, n - 1))
              [] n > WordBits -> Operand(0, 0)
        BY <1>11 DEF ShiftByRegister, LSL, LSR, ASR, ROR
    <2>. QED BY <1>2, <1>4, <1>7, <1>9, <2>1
<1>12. CASE shift = 2
    BY <1>5, <1>8, <1>12 DEF ShiftByRegister, LSL, LSR, ASR, ROR
<1>13. CASE shift = 3
    <2>1. ShiftByRegister(x, shift, n, c) =
            CASE n = 0          -> Operand(x, c)
              [] n > 0 /\ k = 0 -> Operand(x, get_bit(x, WordBits - 1))
              [] k > 0          -> Operand(ror(x, k), get_bit(x, k - 1))
        BY <1>13 DEF ShiftByRegister, LSL, LSR, ASR, ROR, k
    <2>2. n = 0 \/ (n > 0 /\ k = 0) \/ k > 0
        BY <1>0
    <2>. QED BY <1>2, <1>6, <1>7, <2>1, <2>2
<1>. QED BY <1>10, <1>11, <1>12, <1>13

-----------------------------------------------------------------------------
(* The ranges of the fields that the handlers put together.                *)
LEMMA Fields ==
    ASSUME NEW ins \in Instructions
    PROVE  /\ imm8(ins) \in 0 .. 255 /\ imm12(ins) \in Nat
           /\ opcode(ins) \in 0 .. 15 /\ shift_imm(ins) \in 0 .. WordBits - 1
           /\ RegisterList(ins) \subseteq 0 .. 15
<1>1. /\ ins.b7 \in {0, 1} /\ ins.sh \in 0 .. 3 /\ ins.b4 \in {0, 1} /\ ins.rm \in 0 .. 15
      /\ ins.rs \in 0 .. 15 /\ ins.p \in {0, 1} /\ ins.u \in {0, 1} /\ ins.b \in {0, 1}
      /\ ins.w \in {0, 1}
    BY DEF Instructions, Bit
<1>2. imm8(ins) \in 0 .. 255
    BY <1>1 DEF imm8
<1>3. imm12(ins) \in Nat
    <2>1. ins.rs \in Nat /\ imm8(ins) \in Nat
        BY <1>1, <1>2
    <2>. QED BY <2>1 DEF imm12
<1>4. opcode(ins) \in 0 .. 15
    BY <1>1 DEF opcode
<1>5. ins.rs * 2 + ins.b7 \in Nat
    BY <1>1
<1>6. shift_imm(ins) \in 0 .. WordBits - 1
    BY <1>5, Widths DEF shift_imm
<1>. QED BY <1>2, <1>3, <1>4, <1>6 DEF RegisterList

(* The flags are bits of the cpsr, V the lowest.                           *)
LEMMA FlagPlaces ==
    /\ N \in 0 .. WordBits - 1 /\ Z \in 0 .. WordBits - 1 /\ C \in 0 .. WordBits - 1
    /\ V \in 0 .. WordBits - 1 /\ V \in 0 .. N /\ V \in 0 .. Z /\ V \in 0 .. C /\ V \in 0 .. V
BY Widths DEF N, Z, C, V

(* albit on a flag leaves the bits below the flags alone.                  *)
LEMMA FlagChange ==
    ASSUME NEW x \in Word, NEW i \in {N, Z, C, V}, NEW b \in BOOLEAN
    PROVE  albit(x, i, b) \in Word /\ albit(x, i, b) % Exp2[V] = x % Exp2[V]
<1>1. i \in 0 .. WordBits - 1 /\ V \in 0 .. i
    BY FlagPlaces
<1>. QED BY <1>1, SetClear, LowBitsStay DEF albit

(* Setting the four flags leaves the bits below them, the registers and    *)
(* the mode alone.                                                         *)
LEMMA Flags ==
    ASSUME NEW p \in Processors, NEW res \in Word, NEW c \in BOOLEAN, NEW v \in BOOLEAN
    PROVE  Follows(p, SetFlags(p, res, c, v))
<1> DEFINE x0 == arm_read_cpsr(p)
           n  == get_bit(res, WordBits - 1) = 1
           z  == res = 0
           x1 == albit(x0, N, n)
           x2 == albit(x1, Z, z)
           x3 == albit(x2, C, c)
           x4 == albit(x3, V, v)
<1>0. n \in BOOLEAN /\ z \in BOOLEAN
    OBVIOUS
<1>s. SetFlags(p, res, c, v) = arm_write_cpsr(p, x4)
    BY DEF SetFlags
<1>1. x0 \in Word
    BY RegistersRead
<1> HIDE DEF x0, n, z
<1>2. x1 \in Word /\ x1 % Exp2[V] = x0 % Exp2[V]
    BY <1>0, <1>1, FlagChange
<1> HIDE DEF x1
<1>3. x2 \in Word /\ x2 % Exp2[V] = x1 % Exp2[V]
    BY <1>0, <1>2, FlagChange
<1> HIDE DEF x2
<1>4. x3 \in Word /\ x3 % Exp2[V] = x2 % Exp2[V]
    BY <1>3, FlagChange
<1> HIDE DEF x3
<1>5. x4 \in Word /\ x4 % Exp2[V] = x3 % Exp2[V]
    BY <1>4, FlagChange
<1> HIDE DEF x4
<1>6. x4 % Exp2[V] = x0 % Exp2[V]
    BY <1>2, <1>3, <1>4, <1>5
<1>7. LET q == arm_write_cpsr(p, x4)
      IN  q \in Processors /\ q.cycle_count = p.cycle_count /\ arm_read_cpsr(q) = x4
    BY <1>5, CpsrWritten
<1>. QED BY <1>s, <1>6, <1>7 DEF Follows, Flagless, x0

(* decode_so gives a word and a carry.                                     *)
LEMMA Decoded ==
    ASSUME NEW p \in Processors, NEW ins \in Instructions, ResetCpsr \in Word
    PROVE  decode_so(p, ins) \in Operands
<1> DEFINE c  == get_bit(arm_read_cpsr(p), C)
           rm == arm_read_register(p, ins.rm)
           x  == ror(imm8(ins), (ins.rs * 2) % WordBits)
           n  == arm_read_register(p, ins.rs) % (8 * WordBits)
<1>1. ins.op \in 0 .. 7 /\ ins.b4 \in {0, 1} /\ ins.rs \in 0 .. 15 /\ ins.rm \in 0 .. 15
      /\ ins.sh \in 0 .. 3
    BY DEF Instructions, Bit
<1>2. c \in Bit
    BY RegistersRead, FlagPlaces, BitValue DEF Bit
<1>3. rm \in Word /\ arm_read_register(p, ins.rs) \in Word
    BY <1>1, RegistersRead
<1>4. n \in Nat
    <2>1. 8 * WordBits \in Nat \ {0}
        BY Widths
    <2>2. arm_read_register(p, ins.rs) \in Nat
        BY <1>3, Words
    <2>3. \A a \in Nat, d \in Nat \ {0} : a % d \in Nat
        OBVIOUS
    <2>. QED BY <2>1, <2>2, <2>3
<1>5. x \in Word
    <2>1. imm8(ins) \in Word
        BY Fields, Bases DEF ResetCpsr, Word
    <2>2. ins.rs * 2 \in Nat
        BY <1>1
    <2>3. (ins.rs * 2) % WordBits \in 0 .. WordBits - 1
        BY <2>2, Widths
    <2>. QED BY <2>1, <2>3, Rotate
<1>6. (IF ins.rs = 0 THEN c ELSE get_bit(x, WordBits - 1)) \in Bit
    <2>1. WordBits - 1 \in 0 .. WordBits - 1
        BY Widths
    <2>2. get_bit(x, WordBits - 1) \in Bit
        BY <1>5, <2>1, BitValue DEF Bit
    <2>. QED BY <1>2, <2>2
<1>7. decode_so(p, ins) =
          CASE ins.op % 2 = 1 -> Operand(x, IF ins.rs = 0 THEN c ELSE get_bit(x, WordBits - 1))
            [] ins.op % 2 = 0 /\ ins.b4 = 0 -> ShiftByImmediate(rm, ins.sh, shift_imm(ins), c)
            [] ins.op % 2 = 0 /\ ins.b4 = 1 -> ShiftByRegister(rm, ins.sh, n, c)
    BY DEF decode_so
<1> HIDE DEF c, rm, x, n
<1>8. Operand(x, IF ins.rs = 0 THEN c ELSE get_bit(x, WordBits - 1)) \in Operands
    BY <1>5, <1>6, Operand2
<1>9. ShiftByImmediate(rm, ins.sh, shift_imm(ins), c) \in Operands
    BY <1>1, <1>2, <1>3, Fields, ShiftImmediate
<1>10. ShiftByRegister(rm, ins.sh, n, c) \in Operands
    BY <1>1, <1>2, <1>3, <1>4, ShiftRegister
<1>11. ins.op % 2 = 1 \/ (ins.op % 2 = 0 /\ ins.b4 = 0) \/ (ins.op % 2 = 0 /\ ins.b4 = 1)
    BY <1>1
<1>. QED BY <1>7, <1>8, <1>9, <1>10, <1>11

(* A result written in rd, the pc included: without an spsr handle_rd15    *)
(* does not touch the cpsr.                                                *)
LEMMA Results ==
    ASSUME NEW p \in Processors, NEW rd \in 0 .. 15, NEW s, NEW res \in Word
    PROVE  Follows(p, WriteResult(p, rd, s, res))
<1> DEFINE q == arm_write_register(p, rd, res)
<1>1. Follows(p, q)
    BY RegisterWritten
<1>2. q \in Processors
    BY <1>1 DEF Follows
<1> HIDE DEF q
<1>3. WriteResult(p, rd, s, res) = q
    BY <1>2, NoSpsr DEF WriteResult, handle_rd15, q
<1>. QED BY <1>1, <1>3

(* A result and its flags.                                                 *)
LEMMA FlaggedResults ==
    ASSUME NEW p \in Processors, NEW rd \in 0 .. 15, NEW s, NEW res \in Word,
           NEW c \in BOOLEAN, NEW v \in BOOLEAN
    PROVE  Follows(p, SetFlags(WriteResult(p, rd, s, res), res, c, v))
<1>1. Follows(p, WriteResult(p, rd, s, res))
    BY Results
<1>2. WriteResult(p, rd, s, res) \in Processors
    BY <1>1 DEF Follows
<1>3. Follows(WriteResult(p, rd, s, res), SetFlags(WriteResult(p, rd, s, res), res, c, v))
    BY <1>2, Flags
<1>. QED BY <1>1, <1>3, FollowsTwice

(* The logical operations and the tests made of them.                      *)
LEMMA Logicals ==
    ASSUME NEW p \in Processors, NEW rd \in 0 .. 15, NEW s, NEW res \in Word, NEW carry
    PROVE  Follows(p, Logical(p, rd, s, res, carry)) /\ Follows(p, update_flags1(p, res, carry))
<1>1. (carry = 1) \in BOOLEAN
      /\ \A q : (get_bit(arm_read_cpsr(q), V) = 1) \in BOOLEAN
    OBVIOUS
<1>2. Follows(p, WriteResult(p, rd, s, res))
    BY Results
<1>3. Follows(p, update_flags1(WriteResult(p, rd, s, res), res, carry))
    BY <1>1, FlaggedResults DEF update_flags1
<1>4. Follows(p, update_flags1(p, res, carry))
    BY <1>1, Flags DEF update_flags1
<1>. QED BY <1>2, <1>3, <1>4 DEF Logical

(* The additions, the subtractions and the comparisons.                    *)
LEMMA Arithmetic ==
    ASSUME NEW p \in Processors, NEW rd \in 0 .. 15, NEW s, NEW x \in Word, NEW y \in Word
    PROVE  /\ Follows(p, Subtract(p, rd, s, x, y)) /\ Follows(p, add(p, rd, s, x, y))
           /\ Follows(p, adc(p, rd, s, x, y)) /\ Follows(p, SubtractWithCarry(p, rd, s, x, y))
           /\ Follows(p, cmp(p, x, y)) /\ Follows(p, cmn(p, x, y))
<1>0. x \in Int /\ y \in Int
    BY Words
<1>1. Plus(x, y) \in Word /\ Minus(x, y) \in Word
    BY <1>0, Wraps
<1>2. /\ (~ borrowFrom(x, y)) \in BOOLEAN /\ carryFrom(x, y) \in BOOLEAN
      /\ overflowFrom(x, y, TRUE) \in BOOLEAN /\ overflowFrom(x, y, FALSE) \in BOOLEAN
    BY <1>0, <1>1, Words DEF carryFrom, overflowFrom
<1>3. \A res \in Word : Follows(p, WriteResult(p, rd, s, res))
    BY Results
<1>4. Follows(p, Subtract(p, rd, s, x, y))
    BY <1>1, <1>2, <1>3, FlaggedResults DEF Subtract, update_flags2
<1>5. Follows(p, add(p, rd, s, x, y))
    BY <1>1, <1>2, <1>3, FlaggedResults DEF add, update_flags3
<1>6. Follows(p, cmp(p, x, y)) /\ Follows(p, cmn(p, x, y))
    BY <1>1, <1>2, Flags DEF cmp, cmn, update_flags2, update_flags3
<1> DEFINE c == get_bit(arm_read_cpsr(p), C)
<1>7. c \in {0, 1}
    BY RegistersRead, FlagPlaces, BitValue
<1>8. Follows(p, adc(p, rd, s, x, y))
    <2> DEFINE res == Plus(Plus(x, y), c)
               f == carryFrom(x, y) \/ carryFrom(Plus(x, y), c)
               g == overflowFrom(x, y, TRUE) \/ overflowFrom(Plus(x, y), c, TRUE)
    <2>1. res \in Word
        <3>1. \A z \in Word, b \in {0, 1} : Plus(z, b) \in Word /\ Minus(z, 1 - b) \in Word
            BY Wraps, Words
        <3>. QED BY <1>1, <1>7, <3>1
    <2>2. f \in BOOLEAN /\ g \in BOOLEAN
        OBVIOUS
    <2>3. adc(p, rd, s, x, y) = IF WithFlags(rd, s)
                                THEN SetFlags(WriteResult(p, rd, s, res), res, f, g)
                                ELSE WriteResult(p, rd, s, res)
        BY DEF adc
    <2> HIDE DEF res, f, g
    <2>. QED BY <1>3, <2>1, <2>2, <2>3, FlaggedResults
<1>9. Follows(p, SubtractWithCarry(p, rd, s, x, y))
    <2> DEFINE res == Minus(Minus(x, y), 1 - c)
               f == ~ borrowFrom(x, y) \/ ~ borrowFrom(Minus(x, y), 1 - c)
               g == overflowFrom(x, y, FALSE) \/ overflowFrom(Minus(x, y), 1 - c, FALSE)
    <2>1. res \in Word
        <3>1. \A z \in Word, b \in {0, 1} : Plus(z, b) \in Word /\ Minus(z, 1 - b) \in Word
            BY Wraps, Words
        <3>. QED BY <1>1, <1>7, <3>1
    <2>2. f \in BOOLEAN /\ g \in BOOLEAN
        OBVIOUS
    <2>3. SubtractWithCarry(p, rd, s, x, y)
            = IF WithFlags(rd, s) THEN SetFlags(WriteResult(p, rd, s, res), res, f, g)
                                  ELSE WriteResult(p, rd, s, res)
        BY DEF SubtractWithCarry
    <2> HIDE DEF res, f, g
    <2>. QED BY <1>3, <2>1, <2>2, <2>3, FlaggedResults
<1>. QED BY <1>4, <1>5, <1>6, <1>8, <1>9

(* The sixteen operations of arm_data_processing_shift.                    *)
LEMMA Operations ==
    ASSUME NEW p \in Processors, NEW ins \in Instructions, NEW x \in Word, NEW o \in Operands
    PROVE  Follows(p, Operate(p, ins, x, o))
<1> DEFINE rd == ins.rd
           s  == ins.l
           y  == o.so
           c  == o.carry
<1>1. rd \in 0 .. 15 /\ y \in Word
    BY DEF Instructions, Operands
<1>2. opcode(ins) \in 0 .. 15
    BY Fields
<1>3. Not(y) \in Word
    BY <1>1, Logic
<1>4. And(x, y) \in Word /\ Or(x, y) \in Word /\ Xor(x, y) \in Word /\ And(x, Not(y)) \in Word
    BY <1>1, <1>3, Logic
<1> HIDE DEF rd, s, y, c
<1>5. /\ Follows(p, and(p, rd, s, x, y, c)) /\ Follows(p, eor(p, rd, s, x, y, c))
      /\ Follows(p, orr(p, rd, s, x, y, c)) /\ Follows(p, mov(p, rd, s, y, c))
      /\ Follows(p, bic(p, rd, s, x, y, c)) /\ Follows(p, mvn(p, rd, s, y, c))
    BY <1>1, <1>3, <1>4, Logicals DEF and, eor, orr, mov, bic, mvn
<1>6. Follows(p, tst(p, x, y, c)) /\ Follows(p, teq(p, x, y, c))
    BY <1>1, <1>4, Logicals DEF tst, teq
<1>7. /\ Follows(p, sub(p, rd, s, x, y)) /\ Follows(p, rsb(p, rd, s, x, y))
      /\ Follows(p, add(p, rd, s, x, y)) /\ Follows(p, adc(p, rd, s, x, y))
      /\ Follows(p, sbc(p, rd, s, x, y)) /\ Follows(p, rsc(p, rd, s, x, y))
      /\ Follows(p, cmp(p, x, y)) /\ Follows(p, cmn(p, x, y))
    BY <1>1, Arithmetic DEF sub, rsb, sbc, rsc
<1>8. Operate(p, ins, x, o) \in
         {and(p, rd, s, x, y, c), eor(p, rd, s, x, y, c), sub(p, rd, s, x, y),
          rsb(p, rd, s, x, y), add(p, rd, s, x, y), adc(p, rd, s, x, y),
          sbc(p, rd, s, x, y), rsc(p, rd, s, x, y), tst(p, x, y, c), teq(p, x, y, c),
          cmp(p, x, y), cmn(p, x, y), orr(p, rd, s, x, y, c), mov(p, rd, s, y, c),
          bic(p, rd, s, x, y, c), mvn(p, rd, s, y, c)}
    BY <1>2 DEF Operate, rd, s, y, c
<1>. QED BY <1>5, <1>6, <1>7, <1>8

-----------------------------------------------------------------------------
\* What an instruction may return; RESET is never among it.
Outcomes == {0, EXIT, CRASH, UNDEFINED_INSTRUCTION, SOFTWARE_INTERRUPT, DATA_ABORT}

\* e is what a handler leaves when it is called on p.
Handles(p, e) == Follows(p, e.p) /\ e.result \in Outcomes

(* A handler that returns r with the processor q.                          *)
LEMMA HandlerEnds ==
    ASSUME NEW p, NEW q, NEW r \in Outcomes, Follows(p, q)
    PROVE  Handles(p, Ends(q, r))
BY DEF Handles, Ends

(* Clearing the low two bits of a word gives a word.                       *)
LEMMA Aligned ==
    ASSUME NEW v \in Word
    PROVE  v - (v % 4) \in Word
<1>1. v \in Nat /\ v < Modulus
    BY Words
<1>2. v - (v % 4) \in Nat /\ v - (v % 4) <= v
    BY <1>1
<1>. QED BY <1>1, <1>2, Words, Bases

(* What strb, strh and str store.                                          *)
LEMMA Truncates ==
    ASSUME NEW v \in Word, NEW n \in {1, 2, 4}
    PROVE  Truncate(v, n) \in Word /\ (n = 1 => Truncate(v, n) \in Byte)
<1>1. v \in Nat /\ Base \in Nat \ {0}
    BY Words, Bases
<1>2. v % Base \in Byte
    BY <1>1 DEF Byte
<1>3. v % (Base * Base) \in Half
    <2>1. Base * Base \in Nat \ {0}
        BY <1>1
    <2> DEFINE b == Base * Base
    <2>2. b \in Nat \ {0} /\ Half = 0 .. b - 1
        BY <2>1 DEF Half
    <2> HIDE DEF b
    <2>3. v % b \in Half
        BY <1>1, <2>2
    <2>. QED BY <2>3 DEF b
<1>4. CASE n = 1
    BY <1>2, <1>4, Widening DEF Truncate
<1>5. CASE n = 2
    BY <1>3, <1>5, Widening DEF Truncate
<1>6. CASE n = 4
    BY <1>6 DEF Truncate
<1>. QED BY <1>4, <1>5, <1>6

(* The addresses of a transfer are words, whatever the offset.             *)
LEMMA IndexedWord ==
    ASSUME NEW base \in Word, NEW off \in Nat, NEW ins
    PROVE  Indexed(base, off, ins) \in Word /\ Accessed(base, off, ins) \in Word
BY Wraps, Words DEF Indexed, Accessed

(* The update of the base register.                                        *)
LEMMA BaseUpdate ==
    ASSUME NEW p \in Processors, NEW base \in Word, NEW off \in Nat, NEW ins \in Instructions
    PROVE  Follows(p, WriteBase(p, base, off, ins))
<1>1. ins.rn \in 0 .. 15
    BY DEF Instructions
<1>. QED BY <1>1, IndexedWord, RegisterWritten, FollowsSelf DEF WriteBase

(* str, strh and strb.                                                     *)
LEMMA Stores ==
    ASSUME NEW p \in Processors, NEW ins \in Instructions, NEW off \in Nat, NEW n \in {1, 2, 4}
    PROVE  Handles(p, Store(p, ins, off, n))
<1> DEFINE base == arm_read_register(p, ins.rn)
           a    == Accessed(base, off, ins)
           v    == Truncate(arm_read_register(p, ins.rd), n)
           q    == arm_write(p, a, n, v)
<1>1. ins.rn \in 0 .. 15 /\ ins.rd \in 0 .. 15
    BY DEF Instructions
<1>2. base \in Word /\ arm_read_register(p, ins.rd) \in Word
    BY <1>1, RegistersRead
<1>3. v \in Word /\ (n = 1 => v \in Byte)
    BY <1>2, Truncates
<1>s. Store(p, ins, off, n) = Ends(WriteBase(q, base, off, ins),
                                   IF Accessible(a, n) THEN 0 ELSE DATA_ABORT)
    BY DEF Store
<1> HIDE DEF base, v
<1>4. a \in Word
    BY <1>2, IndexedWord
<1> HIDE DEF a
<1>5. Follows(p, q)
    BY <1>3, <1>4, MemoryWritten
<1>6. q \in Processors
    BY <1>5 DEF Follows
<1> HIDE DEF q
<1>7. Follows(p, WriteBase(q, base, off, ins))
    BY <1>2, <1>5, <1>6, BaseUpdate, FollowsTwice
<1>8. (IF Accessible(a, n) THEN 0 ELSE DATA_ABORT) \in Outcomes
    BY DEF Outcomes
<1>. QED BY <1>s, <1>7, <1>8, HandlerEnds

(* ldr, ldrh and ldrb.                                                     *)
LEMMA Loads ==
    ASSUME NEW p \in Processors, NEW ins \in Instructions, NEW off \in Nat, NEW n \in {1, 2, 4}
    PROVE  Handles(p, Load(p, ins, off, n))
<1> DEFINE base == arm_read_register(p, ins.rn)
           a    == Accessed(base, off, ins)
           q    == WriteBase(p, base, off, ins)
           v    == arm_read(p, a, n)
           w    == IF n = 4 /\ ins.rd = 15 THEN v - (v % 4) ELSE v
<1>1. ins.rn \in 0 .. 15 /\ ins.rd \in 0 .. 15
    BY DEF Instructions
<1>2. base \in Word
    BY <1>1, RegistersRead
<1>s. Load(p, ins, off, n) = IF Accessible(a, n)
                             THEN Ends(arm_write_register(q, ins.rd, w), 0)
                             ELSE Ends(q, DATA_ABORT)
    BY DEF Load
<1> HIDE DEF base
<1>3. a \in Word
    BY <1>2, IndexedWord
<1> HIDE DEF a
<1>4. Follows(p, q)
    BY <1>2, BaseUpdate
<1>5. q \in Processors
    BY <1>4 DEF Follows
<1> HIDE DEF q
<1>6. CASE Accessible(a, n)
    <2>1. v \in Word
        BY <1>3, <1>6, MemoryRead
    <2> HIDE DEF v
    <2>2. w \in Word
        BY <2>1, Aligned
    <2> HIDE DEF w
    <2>3. Follows(p, arm_write_register(q, ins.rd, w))
        BY <1>1, <1>4, <1>5, <2>2, RegisterWritten, FollowsTwice
    <2>4. 0 \in Outcomes
        BY DEF Outcomes
    <2>. QED BY <1>s, <1>6, <2>3, <2>4, HandlerEnds
<1>7. CASE ~ Accessible(a, n)
    <2>1. DATA_ABORT \in Outcomes
        BY DEF Outcomes
    <2>. QED BY <1>s, <1>4, <1>7, <2>1, HandlerEnds
<1>. QED BY <1>6, <1>7

(* The offsets of the single transfers.                                    *)
LEMMA Offsets ==
    ASSUME NEW p \in Processors, NEW ins \in Instructions
    PROVE  decode_off(p, ins) \in Nat /\ decode_off_h(p, ins) \in Nat
<1>1. /\ ins.op \in 0 .. 7 /\ ins.rs \in 0 .. 15 /\ ins.rm \in 0 .. 15 /\ ins.sh \in 0 .. 3
    BY DEF Instructions
<1>2. arm_read_register(p, ins.rm) \in Word
    BY <1>1, RegistersRead
<1>3. get_bit(arm_read_cpsr(p), C) \in Bit
    BY RegistersRead, FlagPlaces, BitValue DEF Bit
<1> DEFINE o == ShiftByImmediate(arm_read_register(p, ins.rm), ins.sh, shift_imm(ins),
                                 get_bit(arm_read_cpsr(p), C))
<1>4. o \in Operands
    BY <1>1, <1>2, <1>3, Fields, ShiftImmediate
<1> HIDE DEF o
<1>5. o.so \in Nat
    BY <1>4, Words DEF Operands
<1>6. ins.op % 2 = 0 \/ ins.op % 2 = 1
    BY <1>1
<1>7. decode_off(p, ins) \in {imm12(ins), arm_read_register(p, ins.rm), o.so}
    BY <1>6 DEF decode_off, o
<1>8. decode_off(p, ins) \in Nat
    BY <1>2, <1>5, <1>7, Fields, Words
<1>9. ins.rs * 16 + ins.rm \in Nat
    BY <1>1
<1>. QED BY <1>2, <1>8, <1>9, Words DEF decode_off_h

(* All single transfers.                                                   *)
LEMMA Transfers ==
    ASSUME NEW p \in Processors, NEW ins \in Instructions
    PROVE  Handles(p, arm_load_store(p, ins))
<1> DEFINE off == IF ins.op \in {2, 3} THEN decode_off(p, ins) ELSE decode_off_h(p, ins)
<1>1. off \in Nat
    BY Offsets
<1> HIDE DEF off
<1>2. ins.b \in {0, 1} /\ ins.l \in {0, 1}
    BY DEF Instructions, Bit
<1>3. Transfer(p, ins, off) \in {str(p, ins, off), ldr(p, ins, off), strb(p, ins, off),
                                 ldrb(p, ins, off), ldrh(p, ins, off), strh(p, ins, off)}
    BY <1>2 DEF Transfer
<1>4. /\ Handles(p, str(p, ins, off)) /\ Handles(p, strh(p, ins, off))
      /\ Handles(p, strb(p, ins, off))
    BY <1>1, Stores DEF str, strh, strb
<1>5. /\ Handles(p, ldr(p, ins, off)) /\ Handles(p, ldrh(p, ins, off))
      /\ Handles(p, ldrb(p, ins, off))
    BY <1>1, Loads DEF ldr, ldrh, ldrb
<1>. QED BY <1>3, <1>4, <1>5 DEF arm_load_store, off

\* What the loops of ldm and stm work on.
Loops(p) == {s \in [p : Processors, address : Word, value : Word, failed : BOOLEAN] :
                Follows(p, s.p)}

(* The address of a multiple transfer moves by one word.                   *)
LEMMA Moves ==
    ASSUME NEW a \in Word, NEW ins
    PROVE  Move(a, 4, ins) \in Word
BY Wraps, Words DEF Move

(* What the loops of ldm and stm start from.                               *)
LEMMA LoopBegin ==
    ASSUME NEW p \in Processors, NEW ins \in Instructions
    PROVE  Begin(p, ins) \in Loops(p)
<1>1. arm_read_register(p, ins.rn) \in Word
    BY RegistersRead DEF Instructions
<1>. QED BY <1>1, Moves, FollowsSelf, Words DEF Begin, Loops

(* One register of an ldm.                                                 *)
LEMMA LoopLoads ==
    ASSUME NEW p, NEW ins, NEW s \in Loops(p), NEW i \in 0 .. 15
    PROVE  LoadOne(i, s, ins) \in Loops(p)
<1> DEFINE ok == Accessible(s.address, 4)
           v  == IF ok THEN arm_read(s.p, s.address, 4) ELSE s.value
           w  == IF i = 15 THEN v - (v % 4) ELSE v
           q  == IF ins.b = 1 THEN arm_write_usr_register(s.p, i, w)
                              ELSE arm_write_register(s.p, i, w)
<1>1. s.p \in Processors /\ s.address \in Word /\ s.value \in Word /\ Follows(p, s.p)
    BY DEF Loops
<1>2. v \in Word
    BY <1>1, MemoryRead
<1>3. Move(s.address, 4, ins) \in Word
    BY <1>1, Moves
<1>4. (s.failed \/ ~ ok) \in BOOLEAN
    OBVIOUS
<1>s. LoadOne(i, s, ins) = [p |-> q, address |-> Move(s.address, 4, ins), value |-> v,
                            failed |-> s.failed \/ ~ ok]
    BY DEF LoadOne
<1> HIDE DEF v, ok
<1>5. w \in Word
    BY <1>2, Aligned
<1> HIDE DEF w
<1>6. Follows(s.p, q)
    BY <1>1, <1>5, RegisterWritten
<1>7. Follows(p, q) /\ q \in Processors
    BY <1>1, <1>6, FollowsTwice DEF Follows
<1> HIDE DEF q
<1>. QED BY <1>s, <1>2, <1>3, <1>4, <1>7 DEF Loops

(* One register of an stm.                                                 *)
LEMMA LoopStores ==
    ASSUME NEW p, NEW ins, NEW s \in Loops(p), NEW i \in 0 .. 15
    PROVE  StoreOne(i, s, ins) \in Loops(p)
<1> DEFINE v == IF ins.b = 1 THEN arm_read_usr_register(s.p, i) ELSE arm_read_register(s.p, i)
           q == arm_write(s.p, s.address, 4, v)
           m == Move(s.address, 4, ins)
           f == s.failed \/ ~ Accessible(s.address, 4)
<1>1. s.p \in Processors /\ s.address \in Word /\ s.value \in Word /\ Follows(p, s.p)
    BY DEF Loops
<1>2. v \in Word
    BY <1>1, RegistersRead
<1>3. m \in Word
    BY <1>1, Moves
<1>4. f \in BOOLEAN
    OBVIOUS
<1>s. StoreOne(i, s, ins) = [s EXCEPT !.p = q, !.address = m, !.failed = f]
    BY DEF StoreOne
<1> HIDE DEF v, m, f
<1>6. Follows(s.p, q)
    BY <1>1, <1>2, MemoryWritten
<1>7. Follows(p, q) /\ q \in Processors
    BY <1>1, <1>6, FollowsTwice DEF Follows
<1> HIDE DEF q
<1>8. s \in [p : Processors, address : Word, value : Word, failed : BOOLEAN]
    BY DEF Loops
<1> DEFINE t == [s EXCEPT !.p = q, !.address = m, !.failed = f]
<1>9. t \in [p : Processors, address : Word, value : Word, failed : BOOLEAN] /\ t.p = q
    BY <1>3, <1>4, <1>7, <1>8
<1> HIDE DEF t
<1>10. t \in Loops(p)
    BY <1>7, <1>9 DEF Loops
<1>. QED BY <1>s, <1>10 DEF t

-----------------------------------------------------------------------------
\* The loops of ldm and stm.
LoadAll(start, list, ins)  == Ascending(LAMBDA i, s : LoadOne(i, s, ins), start, list)
StoreAll(start, list, ins) == Ascending(LAMBDA i, s : StoreOne(i, s, ins), start, list)

\* b[n] is what ldm has made of start when it comes to register n.
LoadsThrough(p, start, list, ins) ==
    \E b : /\ LoadAll(start, list, ins) = b[16] /\ b[0] = start
           /\ \A n \in 0 .. 16 : b[n] \in Loops(p)
           /\ \A n \in 0 .. 15 : b[n + 1] = IF n \in list THEN LoadOne(n, b[n], ins) ELSE b[n]

(* The loop of ldm, register by register.                                  *)
LEMMA LoadTurns ==
    ASSUME NEW p, NEW ins, NEW start \in Loops(p), NEW list
    PROVE  LoadsThrough(p, start, list, ins)
<1> DEFINE S == Loops(p)
           turn(i, s) == IF i - 1 \in list THEN LoadOne(i - 1, s, ins) ELSE s
           g == [i \in 1 .. 16 |-> [s \in S |-> turn(i, s)]]
           b == CHOOSE f : f = [i \in 0 .. 16 |-> IF i = 0 THEN start ELSE turn(i, f[i - 1])]
<1>0. \A i \in 1 .. 16 : i - 1 \in 0 .. 15 /\ i - 1 \in 0 .. 16
    OBVIOUS
<1>1. \A i \in 1 .. 16, s \in S : turn(i, s) \in S
    BY <1>0, LoopLoads
<1>2. LoadAll(start, list, ins) = b[16]
    BY DEF Ascending, LoadAll
<1> HIDE DEF S, turn
<1>3. PICK f \in [0 .. 16 -> S] : f[0] = start /\ \A i \in 1 .. 16 : f[i] = g[i][f[i - 1]]
    <2>1. g \in [1 .. 16 -> [S -> S]]
        BY <1>1
    <2>2. start \in S /\ 16 \in Nat
        BY DEF S
    <2> HIDE DEF g
    <2>3. Iterates(16, S, start, g)
        BY <2>1, <2>2, Recursion
    <2>. QED BY <2>3 DEF Iterates
<1>4. \A i \in 1 .. 16 : f[i] = turn(i, f[i - 1])
    <2> TAKE i \in 1 .. 16
    <2>1. f[i - 1] \in S
        BY <1>0
    <2>2. g[i][f[i - 1]] = turn(i, f[i - 1])
        BY <2>1
    <2>. QED BY <1>3, <2>2
<1>5. f = [i \in 0 .. 16 |-> IF i = 0 THEN start ELSE turn(i, f[i - 1])]
    <2>1. \A i \in 0 .. 16 : f[i] = IF i = 0 THEN start ELSE turn(i, f[i - 1])
        BY <1>3, <1>4
    <2>. QED BY <2>1
<1>6. b = [i \in 0 .. 16 |-> IF i = 0 THEN start ELSE turn(i, b[i - 1])]
    BY <1>5
<1> HIDE DEF b, g
<1> DEFINE U == {i \in 0 .. 16 : b[i] \in S}
<1>7. 0 .. 16 \subseteq U
    <2>1. 0 \in U
        BY <1>6 DEF S
    <2>2. ASSUME NEW n \in 0 .. 16 - 1, n \in U PROVE n + 1 \in U
        <3>1. n + 1 \in 1 .. 16 /\ n + 1 \in 0 .. 16 /\ n + 1 # 0 /\ (n + 1) - 1 = n
            OBVIOUS
        <3>2. b[n + 1] = turn(n + 1, b[n])
            BY <1>6, <3>1
        <3>. QED BY <1>1, <2>2, <3>1, <3>2
    <2>3. 16 \in Nat
        OBVIOUS
    <2> HIDE DEF U
    <2>. QED BY <2>1, <2>2, <2>3, BoundedInduction
<1>8. \A n \in 0 .. 15 : b[n + 1] = IF n \in list THEN LoadOne(n, b[n], ins) ELSE b[n]
    <2> TAKE n \in 0 .. 15
    <2>1. n + 1 \in 0 .. 16 /\ n + 1 # 0 /\ (n + 1) - 1 = n
        OBVIOUS
    <2>2. b[n + 1] = turn(n + 1, b[n])
        BY <1>6, <2>1
    <2>. QED BY <2>1, <2>2 DEF turn
<1>9. b[0] = start
    BY <1>6
<1>. QED BY <1>2, <1>7, <1>8, <1>9 DEF S, LoadsThrough

(* The loop of ldm, over any register list.                                *)
LEMMA LoadLoop ==
    ASSUME NEW p, NEW ins, NEW start \in Loops(p), NEW list
    PROVE  LoadAll(start, list, ins) \in Loops(p)
BY LoadTurns DEF LoadsThrough

\* b[n] is what stm has made of start when it comes to register n.
StoresThrough(p, start, list, ins) ==
    \E b : /\ StoreAll(start, list, ins) = b[16] /\ b[0] = start
           /\ \A n \in 0 .. 16 : b[n] \in Loops(p)
           /\ \A n \in 0 .. 15 : b[n + 1] = IF n \in list THEN StoreOne(n, b[n], ins) ELSE b[n]

(* The loop of stm, register by register.                                  *)
LEMMA StoreTurns ==
    ASSUME NEW p, NEW ins, NEW start \in Loops(p), NEW list
    PROVE  StoresThrough(p, start, list, ins)
<1> DEFINE S == Loops(p)
           turn(i, s) == IF i - 1 \in list THEN StoreOne(i - 1, s, ins) ELSE s
           g == [i \in 1 .. 16 |-> [s \in S |-> turn(i, s)]]
           b == CHOOSE f : f = [i \in 0 .. 16 |-> IF i = 0 THEN start ELSE turn(i, f[i - 1])]
<1>0. \A i \in 1 .. 16 : i - 1 \in 0 .. 15 /\ i - 1 \in 0 .. 16
    OBVIOUS
<1>1. \A i \in 1 .. 16, s \in S : turn(i, s) \in S
    BY <1>0, LoopStores
<1>2. StoreAll(start, list, ins) = b[16]
    BY DEF Ascending, StoreAll
<1> HIDE DEF S, turn
<1>3. PICK f \in [0 .. 16 -> S] : f[0] = start /\ \A i \in 1 .. 16 : f[i] = g[i][f[i - 1]]
    <2>1. g \in [1 .. 16 -> [S -> S]]
        BY <1>1
    <2>2. start \in S /\ 16 \in Nat
        BY DEF S
    <2> HIDE DEF g
    <2>3. Iterates(16, S, start, g)
        BY <2>1, <2>2, Recursion
    <2>. QED BY <2>3 DEF Iterates
<1>4. \A i \in 1 .. 16 : f[i] = turn(i, f[i - 1])
    <2> TAKE i \in 1 .. 16
    <2>1. f[i - 1] \in S
        BY <1>0
    <2>2. g[i][f[i - 1]] = turn(i, f[i - 1])
        BY <2>1
    <2>. QED BY <1>3, <2>2
<1>5. f = [i \in 0 .. 16 |-> IF i = 0 THEN start ELSE turn(i, f[i - 1])]
    <2>1. \A i \in 0 .. 16 : f[i] = IF i = 0 THEN start ELSE turn(i, f[i - 1])
        BY <1>3, <1>4
    <2>. QED BY <2>1
<1>6. b = [i \in 0 .. 16 |-> IF i = 0 THEN start ELSE turn(i, b[i - 1])]
    BY <1>5
<1> HIDE DEF b, g
<1> DEFINE U == {i \in 0 .. 16 : b[i] \in S}
<1>7. 0 .. 16 \subseteq U
    <2>1. 0 \in U
        BY <1>6 DEF S
    <2>2. ASSUME NEW n \in 0 .. 16 - 1, n \in U PROVE n + 1 \in U
        <3>1. n + 1 \in 1 .. 16 /\ n + 1 \in 0 .. 16 /\ n + 1 # 0 /\ (n + 1) - 1 = n
            OBVIOUS
        <3>2. b[n + 1] = turn(n + 1, b[n])
            BY <1>6, <3>1
        <3>. QED BY <1>1, <2>2, <3>1, <3>2
    <2>3. 16 \in Nat
        OBVIOUS
    <2> HIDE DEF U
    <2>. QED BY <2>1, <2>2, <2>3, BoundedInduction
<1>8. \A n \in 0 .. 15 : b[n + 1] = IF n \in list THEN StoreOne(n, b[n], ins) ELSE b[n]
    <2> TAKE n \in 0 .. 15
    <2>1. n + 1 \in 0 .. 16 /\ n + 1 # 0 /\ (n + 1) - 1 = n
        OBVIOUS
    <2>2. b[n + 1] = turn(n + 1, b[n])
        BY <1>6, <2>1
    <2>. QED BY <2>1, <2>2 DEF turn
<1>9. b[0] = start
    BY <1>6
<1>. QED BY <1>2, <1>7, <1>8, <1>9 DEF S, StoresThrough

(* The loop of stm, over any register list.                                *)
LEMMA StoreLoop ==
    ASSUME NEW p, NEW ins, NEW start \in Loops(p), NEW list
    PROVE  StoreAll(start, list, ins) \in Loops(p)
BY StoreTurns DEF StoresThrough

-----------------------------------------------------------------------------
(* The write-back of the base after the loop.                              *)
LEMMA LoopFinish ==
    ASSUME NEW p, NEW ins \in Instructions, NEW s \in Loops(p)
    PROVE  Handles(p, Finish(s, ins))
<1>1. /\ s.p \in Processors /\ s.address \in Word /\ Follows(p, s.p) /\ ins.rn \in 0 .. 15
    BY DEF Loops, Instructions
<1> DEFINE a == IF ins.p = 0 THEN s.address
                ELSE IF ins.u = 1 THEN Minus(s.address, 4) ELSE Plus(s.address, 4)
           q == IF ins.w = 1 THEN arm_write_register(s.p, ins.rn, a) ELSE s.p
           r == IF s.failed THEN DATA_ABORT ELSE 0
<1>2. a \in Word
    BY <1>1, Sums
<1>s. Finish(s, ins) = Ends(q, r)
    BY DEF Finish
<1> HIDE DEF a
<1>3. Follows(s.p, q)
    BY <1>1, <1>2, RegisterWritten, FollowsSelf
<1>4. r \in Outcomes
    BY DEF Outcomes
<1> HIDE DEF q, r
<1>. QED BY <1>s, <1>1, <1>3, <1>4, FollowsTwice, HandlerEnds

(* ldm and stm: with the S bit and the pc in the list ldm ends the         *)
(* process, because the System mode has no spsr.                           *)
LEMMA Multiples ==
    ASSUME NEW p \in Processors, NEW ins \in Instructions
    PROVE  Handles(p, arm_load_store_multiple(p, ins))
<1> DEFINE list == RegisterList(ins)
           ls == LoadAll(Begin(p, ins), list, ins)
           ss == StoreAll(Begin(p, ins), list, ins)
<1>1. Begin(p, ins) \in Loops(p)
    BY LoopBegin
<1>2. ls \in Loops(p) /\ ss \in Loops(p)
    BY <1>1, LoadLoop, StoreLoop
<1>3. ~ arm_current_mode_has_spsr(p)
    BY NoSpsr
<1>4. ins.b \in {0, 1}
    BY DEF Instructions, Bit
<1>5. stm(p, ins) = Finish(ss, ins)
    BY DEF stm, StoreAll
<1>6. ldm(p, ins) = Ends(p, CRASH) \/ ldm(p, ins) = Finish(ls, ins)
    <2> HIDE DEF list
    <2>1. ldm(p, ins) =
            CASE ins.b = 1 /\ 15 \in list /\ ~ arm_current_mode_has_spsr(p) -> Ends(p, CRASH)
              [] ins.b = 1 /\ 15 \in list /\ arm_current_mode_has_spsr(p) ->
                   Finish(Begin(arm_write_cpsr(p, arm_read_spsr(p)), ins), ins)
              [] ins.b = 0 \/ 15 \notin list -> Finish(ls, ins)
        BY DEF ldm, list, LoadAll
    <2> HIDE DEF ls
    <2>. QED BY <1>3, <1>4, <2>1
<1> HIDE DEF ls, ss, list
<1>7. Handles(p, Finish(ls, ins)) /\ Handles(p, Finish(ss, ins))
    BY <1>2, LoopFinish
<1>8. Handles(p, Ends(p, CRASH))
    BY FollowsSelf, HandlerEnds DEF Outcomes
<1>. QED BY <1>5, <1>6, <1>7, <1>8 DEF arm_load_store_multiple

(* The sign-extended offset of a branch is a word.                         *)
LEMMA BranchOffsetWord ==
    ASSUME NEW ins \in Instructions
    PROVE  BranchOffset(ins) \in Word
<1>1. /\ ins.u \in Int /\ ins.b \in Int /\ ins.w \in Int /\ ins.l \in Int /\ ins.rn \in Int
      /\ ins.rd \in Int
    BY DEF Instructions, Bit
<1>2. imm12(ins) \in Int
    BY Fields
<1>3. imm24(ins) \in Int
    BY <1>1, <1>2 DEF imm24
<1>4. imm24(ins) - 2^24 \in Int
    BY <1>3
<1>5. ((IF ins.u = 1 THEN imm24(ins) - 2^24 ELSE imm24(ins)) * 4) \in Int
    BY <1>3, <1>4
<1>. QED BY <1>5, Wraps DEF BranchOffset

(* b and bl.                                                               *)
LEMMA Branches ==
    ASSUME NEW p \in Processors, NEW ins \in Instructions
    PROVE  Handles(p, arm_branch(p, ins))
<1> DEFINE pc == arm_read_register(p, 15)
           q  == IF ins.p = 1 THEN arm_write_register(p, 14, Minus(pc, 4)) ELSE p
           t  == Plus(pc, BranchOffset(ins))
<1>1. pc \in Word
    BY RegistersRead
<1>2. Minus(pc, 4) \in Word
    BY <1>1, Sums
<1>3. t \in Word
    BY <1>1, BranchOffsetWord, Sums, Words
<1>s. arm_branch(p, ins) = Ends(arm_write_register(q, 15, t), 0)
    BY DEF arm_branch
<1> HIDE DEF pc, t
<1>4. Follows(p, q)
    BY <1>2, RegisterWritten, FollowsSelf
<1>5. q \in Processors
    BY <1>4 DEF Follows
<1> HIDE DEF q
<1>6. Follows(p, arm_write_register(q, 15, t))
    BY <1>3, <1>4, <1>5, RegisterWritten, FollowsTwice
<1>. QED BY <1>s, <1>6, HandlerEnds DEF Outcomes

(* Every instruction changes at most registers of the System mode, memory  *)
(* and flags, and never asks for a RESET.                                  *)
LEMMA Dispatches ==
    ASSUME NEW p \in Processors, NEW ins \in Instructions, ResetCpsr \in Word
    PROVE  Handles(p, Dispatch(p, ins))
<1>1. ins.op \in 0 .. 7 /\ ins.p \in {0, 1} /\ ins.b \in {0, 1} /\ ins.rd \in 0 .. 15
      /\ ins.rn \in 0 .. 15
    BY DEF Instructions, Bit
<1>2. Follows(p, p)
    BY FollowsSelf
<1>3. \A r \in Outcomes : Handles(p, Ends(p, r))
    BY <1>2, HandlerEnds
<1>4. Handles(p, arm_coprocessor_others_swi(p, ins))
    <2>1. arm_coprocessor_others_swi(p, ins) \in
            {Ends(p, EXIT), Ends(p, SOFTWARE_INTERRUPT), Ends(p, UNDEFINED_INSTRUCTION)}
        BY <1>1 DEF arm_coprocessor_others_swi
    <2>. QED BY <1>3, <2>1 DEF Outcomes
<1>5. Handles(p, arm_miscellaneous(p, ins))
    <2>1. ~ arm_current_mode_has_spsr(p)
        BY NoSpsr
    <2>2. arm_miscellaneous(p, ins) \in
            {Ends(arm_write_register(p, ins.rd, arm_read_cpsr(p)), 0), Ends(p, CRASH)}
        BY <1>1, <2>1 DEF arm_miscellaneous
    <2>3. Follows(p, arm_write_register(p, ins.rd, arm_read_cpsr(p)))
        BY <1>1, RegistersRead, RegisterWritten
    <2>4. Handles(p, Ends(arm_write_register(p, ins.rd, arm_read_cpsr(p)), 0))
        BY <2>3, HandlerEnds DEF Outcomes
    <2>. QED BY <1>3, <2>2, <2>4 DEF Outcomes
<1>6. Handles(p, arm_data_processing_shift(p, ins))
    <2>1. arm_read_register(p, ins.rn) \in Word
        BY <1>1, RegistersRead
    <2>2. Follows(p, Operate(p, ins, arm_read_register(p, ins.rn), decode_so(p, ins)))
        BY <2>1, Decoded, Operations
    <2>. QED BY <2>2, HandlerEnds DEF arm_data_processing_shift, Outcomes
<1>7. Dispatch(p, ins) \in
        {arm_load_store(p, ins), arm_miscellaneous(p, ins), arm_data_processing_shift(p, ins),
         arm_load_store_multiple(p, ins), arm_branch(p, ins), Ends(p, UNDEFINED_INSTRUCTION),
         arm_coprocessor_others_swi(p, ins)}
    BY <1>1 DEF Dispatch
<1>8. Handles(p, Ends(p, UNDEFINED_INSTRUCTION))
    BY <1>3 DEF Outcomes
<1>. QED BY <1>4, <1>5, <1>6, <1>7, <1>8, Transfers, Multiples, Branches

\* s is what arm_step leaves when it is called on p.
Steps(p, s) ==
    /\ s.p \in Processors /\ s.result \in Outcomes \cup {-1}
    /\ s.p.cycle_count = Plus(p.cycle_count, 1) /\ Flagless(s.p) = Flagless(p)

(* arm_fetch counts the instruction and moves the pc.                      *)
LEMMA Fetches ==
    ASSUME NEW p \in Processors
    PROVE  /\ FetchAddress(p) \in Word
           /\ Steps(p, arm_fetch(p)) /\ arm_fetch(p).result \in {0, -1}
           /\ arm_fetch(p).result = 0 => Accessible(FetchAddress(p), 4)
<1> DEFINE a == FetchAddress(p)
           c == [p EXCEPT !.cycle_count = Plus(p.cycle_count, 1)]
           q == arm_write_register(c, 15, Plus(a, 4))
           r == IF Accessible(a, 4) THEN 0 ELSE -1
<1>1. arm_read_register(p, 15) \in Word
    BY RegistersRead
<1>2. a \in Word
    BY <1>1, Sums DEF FetchAddress
<1>3. Plus(a, 4) \in Word
    BY <1>2, Sums
<1>4. Plus(p.cycle_count, 1) \in Word
    <2>1. p.cycle_count \in Word
        BY DEF Processors
    <2>. QED BY <2>1, Sums
<1>5. c \in Processors /\ c.cycle_count = Plus(p.cycle_count, 1) /\ c.reg = p.reg
    BY <1>4 DEF Processors
<1>s. arm_fetch(p) = Ends(q, r)
    BY DEF arm_fetch
<1> HIDE DEF a, c
<1>6. Follows(c, q)
    BY <1>3, <1>5, RegisterWritten
<1>7. Flagless(c) = Flagless(p)
    BY <1>5 DEF Flagless, arm_read_cpsr
<1> HIDE DEF q
<1>8. Ends(q, r).p = q /\ Ends(q, r).result = r
    BY DEF Ends
<1>9. r \in {0, -1} /\ (r = 0 => Accessible(a, 4))
    OBVIOUS
<1>10. Steps(p, Ends(q, r))
    BY <1>5, <1>6, <1>7, <1>8, <1>9 DEF Steps, Follows, Outcomes
<1>. QED BY <1>2, <1>s, <1>8, <1>9, <1>10 DEF a

(* arm_step, on every memory and from every state of the processor.        *)
LEMMA StepKeeps ==
    ASSUME NEW p \in Processors, WellFormed
    PROVE  Steps(p, arm_step(p))
<1> DEFINE f == arm_fetch(p)
           i == Fetched(p)
           e == Execute(f, i)
<1>1. Steps(p, f) /\ f.result \in {0, -1} /\ (f.result = 0 => Accessible(FetchAddress(p), 4))
      /\ FetchAddress(p) \in Word
    BY Fetches
<1> HIDE DEF f
<1>2. ASSUME f.result = 0 PROVE i \in Instructions
    BY <1>1, <1>2, MemoryRead DEF Fetched, WellFormed
<1> HIDE DEF i
<1>3. e = f \/ (f.result = 0 /\ e = Dispatch(f.p, i))
    BY DEF Execute
<1> HIDE DEF e
<1>4. Steps(p, e)
    <2>1. CASE e = f
        BY <1>1, <2>1
    <2>2. CASE f.result = 0 /\ e = Dispatch(f.p, i)
        <3>1. f.p \in Processors
            BY <1>1 DEF Steps
        <3>2. Handles(f.p, Dispatch(f.p, i))
            BY <1>2, <2>2, <3>1, Dispatches DEF WellFormed
        <3>. QED BY <1>1, <2>2, <3>2 DEF Steps, Handles, Follows
    <2>. QED BY <1>3, <2>1, <2>2
<1>5. arm_step(p) = Raise(e)
    BY DEF arm_step, arm_execute_instruction, e, f, i
<1>6. e.result # RESET
    BY <1>4 DEF Steps, Outcomes, EXIT, CRASH, UNDEFINED_INSTRUCTION, SOFTWARE_INTERRUPT,
                DATA_ABORT, RESET
<1>7. Raise(e) = e \/ Raise(e) = Ends(e.p, e.result)
    BY <1>6 DEF Raise, arm_exception
<1>8. Steps(p, Ends(e.p, e.result))
    BY <1>4 DEF Steps, Ends
<1>. QED BY <1>4, <1>5, <1>7, <1>8

(* arm_exception: only RESET has an effect, on the cpsr and the pc.        *)
LEMMA ExceptionKeeps ==
    ASSUME NEW p \in Processors, NEW e, ResetCpsr \in Word
    PROVE  arm_exception(p, e) \in Processors /\ arm_exception(p, e).cycle_count = p.cycle_count
<1> DEFINE q == arm_write_cpsr(p, ResetCpsr)
           r == arm_write_usr_register(q, 15, 0)
<1>1. q \in Processors /\ q.cycle_count = p.cycle_count
    BY CpsrWritten
<1> HIDE DEF q
<1>2. Follows(q, r)
    BY <1>1, RegisterWritten, Words
<1>3. r \in Processors /\ r.cycle_count = p.cycle_count
    BY <1>1, <1>2 DEF Follows
<1> HIDE DEF r
<1>. QED BY <1>3 DEF arm_exception, q, r

(* arm_create leaves a processor in System mode.                           *)
LEMMA Created ==
    ASSUME NEW m \in Contents, ResetCpsr \in Word
    PROVE  arm_create(m) \in Processors
<1>1. registers_create.registers \in Banks /\ registers_create \in [mode : {SYS}, registers : Banks]
    BY Words DEF registers_create, Banks
<1>2. [cycle_count |-> 0, reg |-> registers_create, mem |-> m] \in Processors
    BY <1>1, Words DEF Processors
<1>. QED BY <1>2, ExceptionKeeps DEF arm_create
=============================================================================

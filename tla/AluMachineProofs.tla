--------------------------- MODULE AluMachineProofs ---------------------------
(***************************************************************************)
(* What the instructions of the ALU compute agrees with the arithmetic of  *)
(* integers, for words of any number of bits and any sequence of           *)
(* instructions.                                                           *)
(***************************************************************************)
EXTENDS AluMachine, TLAPS

-----------------------------------------------------------------------------
(***************************************************************************)
(* Words.                                                                  *)
(***************************************************************************)

\* Half of the words are negative.
LEMMA WordFacts ==
  /\ Modulus \in Nat /\ SignBit \in Nat /\ SignBit > 1 /\ Modulus = SignBit + SignBit
<1>1. /\ WordBits \in Nat /\ WordBits > 1 /\ WordBits - 1 \in 0 .. WordBits
      /\ WordBits - 2 \in 0 .. WordBits /\ 1 \in 0 .. WordBits
  BY SemanticsAssumption
<1>a. \A m, n \in 0 .. WordBits : m + n <= WordBits => 2 ^ (m + n) = 2 ^ m * 2 ^ n
  BY SemanticsAssumption, Zenon
<1>b. (WordBits - 1) + 1 <= WordBits /\ (WordBits - 2) + 1 <= WordBits
  BY <1>1
<1>2. 2 ^ ((WordBits - 1) + 1) = 2 ^ (WordBits - 1) * 2 ^ 1 /\ 2 ^ 1 = 2
  BY <1>1, <1>a, <1>b, SemanticsAssumption, Zenon
<1>3. 2 ^ ((WordBits - 2) + 1) = 2 ^ (WordBits - 2) * 2 ^ 1
  BY <1>1, <1>a, <1>b, Zenon
<1>4. (WordBits - 1) + 1 = WordBits /\ (WordBits - 2) + 1 = WordBits - 1
  BY <1>1
<1>5. 2 ^ (WordBits - 1) \in Nat \ {0} /\ 2 ^ (WordBits - 2) \in Nat \ {0}
  BY <1>1, SemanticsAssumption
<1>6. 2 ^ WordBits = 2 ^ (WordBits - 1) * 2 /\ 2 ^ (WordBits - 1) = 2 ^ (WordBits - 2) * 2
  BY <1>2, <1>3, <1>4
<1>7. QED
  BY <1>5, <1>6 DEF Modulus, SignBit

\* A number is a multiple of another and a remainder in one way only.
LEMMA Remainders ==
  ASSUME NEW m \in Nat, m > 0, NEW q \in Int, NEW r \in 0 .. m - 1
  PROVE  (m * q + r) % m = r /\ (m * q + r) \div m = q
  OBVIOUS

LEMMA Decomposed ==
  ASSUME NEW m \in Nat, m > 0, NEW x \in Int
  PROVE  /\ x \div m \in Int /\ x % m \in 0 .. m - 1
         /\ x = m * (x \div m) + (x % m)
  OBVIOUS

\* Wrapping takes away a multiple of the modulus.
LEMMA WrapIs ==
  ASSUME NEW x \in Int, NEW k \in Int, NEW r \in Operand, x = Modulus * k + r
  PROVE  Wrap(x) = r
<1>1. Modulus \in Nat /\ Modulus > 0 /\ r \in 0 .. Modulus - 1
  BY WordFacts DEF Operand
<1>2. (Modulus * k + r) % Modulus = r
  BY <1>1, Remainders, Zenon
<1>3. QED
  BY <1>2 DEF Wrap

LEMMA Wrapped ==
  ASSUME NEW x \in Int
  PROVE  /\ Wrap(x) \in Operand /\ Wrap(x) \in Int
         /\ \E k \in Int : x = Modulus * k + Wrap(x)
<1>1. Modulus \in Nat /\ Modulus > 0
  BY WordFacts
<1>2. x \div Modulus \in Int /\ x % Modulus \in 0 .. Modulus - 1
      /\ x = Modulus * (x \div Modulus) + (x % Modulus)
  BY <1>1, Decomposed, Zenon
<1>3. x % Modulus \in Int
  BY <1>1, <1>2
<1>4. QED
  BY <1>2, <1>3, Zenon DEF Wrap, Operand

\* Numbers that differ by a multiple of the modulus wrap to the same word.
LEMMA WrapSame ==
  ASSUME NEW x \in Int, NEW y \in Int, NEW k \in Int, y = Modulus * k + x
  PROVE  Wrap(y) = Wrap(x)
<1>1. PICK j \in Int : x = Modulus * j + Wrap(x)
  BY Wrapped, Zenon
<1>2. Modulus \in Nat /\ Wrap(x) \in Operand /\ Wrap(x) \in Int
  BY WordFacts, Wrapped
<1>3. y = Modulus * (k + j) + Wrap(x) /\ k + j \in Int
  <2>1. ASSUME NEW m \in Int, NEW w \in Int, x = m * j + w, y = m * k + x
        PROVE  y = m * (k + j) + w
    BY <2>1
  <2>2. QED
    BY <1>1, <1>2, <2>1
<1>4. QED
  BY <1>2, <1>3, WrapIs, Zenon

\* The three cases of a sum or difference of words.
LEMMA WrapOnce ==
  ASSUME NEW x \in Int, -Modulus <= x, x < Modulus + Modulus
  PROVE  /\ x < 0 => Wrap(x) = x + Modulus
         /\ 0 <= x /\ x < Modulus => Wrap(x) = x
         /\ x >= Modulus => Wrap(x) = x - Modulus
<1>1. Modulus \in Nat /\ 0 \in Int /\ 1 \in Int /\ -1 \in Int
  BY WordFacts
<1>2. ASSUME x < 0 PROVE Wrap(x) = x + Modulus
  <2>1. x + Modulus \in Operand /\ x = Modulus * (-1) + (x + Modulus)
    BY <1>1, <1>2 DEF Operand
  <2>2. QED
    BY <1>1, <2>1, WrapIs, Zenon
<1>3. ASSUME 0 <= x, x < Modulus PROVE Wrap(x) = x
  <2>1. x \in Operand /\ x = Modulus * 0 + x
    BY <1>1, <1>3 DEF Operand
  <2>2. QED
    BY <1>1, <2>1, WrapIs, Zenon
<1>4. ASSUME x >= Modulus PROVE Wrap(x) = x - Modulus
  <2>1. x - Modulus \in Operand /\ x = Modulus * 1 + (x - Modulus)
    BY <1>1, <1>4 DEF Operand
  <2>2. QED
    BY <1>1, <2>1, WrapIs, Zenon
<1>5. QED
  BY <1>2, <1>3, <1>4

-----------------------------------------------------------------------------
(***************************************************************************)
(* Words as signed numbers.                                                *)
(***************************************************************************)

LEMMA OperandInt == Operand \subseteq Int /\ 0 \in Operand /\ 1 \in Operand
  BY WordFacts DEF Operand

LEMMA SignedFacts ==
  ASSUME NEW a \in Operand
  PROVE  /\ a \in Int /\ Signed(a) \in Int /\ 0 <= a /\ a < Modulus
         /\ -SignBit <= Signed(a) /\ Signed(a) < SignBit
         /\ Negative(a) <=> Signed(a) < 0
         /\ Negative(a) => Signed(a) = a - Modulus
         /\ ~Negative(a) => Signed(a) = a
  BY WordFacts DEF Operand, Signed, Negative

\* A word and the number it stands for differ by a multiple of the modulus.
LEMMA SignedIs ==
  ASSUME NEW a \in Operand
  PROVE  \E k \in Int : Signed(a) = Modulus * k + a
<1>1. Modulus \in Int /\ 0 \in Int /\ -1 \in Int /\ a \in Int
  BY WordFacts DEF Operand
<1>2. CASE Negative(a)
  <2>1. Signed(a) = Modulus * (-1) + a
    BY <1>1, <1>2, SignedFacts
  <2>2. QED
    BY <1>1, <2>1, Zenon
<1>3. CASE ~Negative(a)
  <2>1. Signed(a) = Modulus * 0 + a
    BY <1>1, <1>3, SignedFacts
  <2>2. QED
    BY <1>1, <2>1, Zenon
<1>4. QED
  BY <1>2, <1>3

LEMMA WrapSigned ==
  ASSUME NEW a \in Operand
  PROVE  Wrap(Signed(a)) = a /\ Wrap(a) = a
<1>1. a \in Int /\ Signed(a) \in Int /\ -Modulus <= Signed(a) /\ Signed(a) < Modulus + Modulus
      /\ -Modulus <= a /\ a < Modulus + Modulus
  BY WordFacts, SignedFacts
<1>2. QED
  BY <1>1, SignedFacts, WrapOnce, WordFacts

\* A number in the range of signed words is what its word stands for.
LEMMA SignedWrap ==
  ASSUME NEW x \in Int, -SignBit <= x, x < SignBit
  PROVE  Signed(Wrap(x)) = x /\ Wrap(x) \in Operand
<1>1. -Modulus <= x /\ x < Modulus + Modulus
  BY WordFacts
<1>2. (x < 0 => Wrap(x) = x + Modulus) /\ (x >= 0 => Wrap(x) = x)
  BY <1>1, WrapOnce, WordFacts
<1>3. QED
  BY <1>2, WordFacts, Wrapped DEF Signed, Negative

-----------------------------------------------------------------------------
(***************************************************************************)
(* Sums and differences.                                                   *)
(***************************************************************************)

LEMMA ZeroAndSign ==
  ASSUME NEW r \in Operand
  PROVE  /\ ("ZF" \in zeroAndSign(r)) <=> (r = 0)
         /\ ("SF" \in zeroAndSign(r)) <=> (Signed(r) < 0)
         /\ "CF" \notin zeroAndSign(r) /\ "OF" \notin zeroAndSign(r)
  BY SignedFacts DEF zeroAndSign, When

LEMMA AddedFlags ==
  ASSUME NEW a \in Operand, NEW b \in Operand
  PROVE  LET r == Wrap(a + b)
             f == computeFlags(r, a, b, FALSE)
         IN  /\ r \in Operand /\ r = Wrap(Signed(a) + Signed(b))
             /\ ("CF" \in f) <=> (a + b \notin Operand)
             /\ ("OF" \in f) <=> (Signed(r) # Signed(a) + Signed(b))
             /\ ("ZF" \in f) <=> (r = 0)
             /\ ("SF" \in f) <=> (Signed(r) < 0)
<1> DEFINE r == Wrap(a + b)
           f == computeFlags(r, a, b, FALSE)
<1>1. /\ a \in Int /\ b \in Int /\ 0 <= a /\ a < Modulus /\ 0 <= b /\ b < Modulus
      /\ Modulus \in Nat /\ SignBit \in Nat /\ Modulus = SignBit + SignBit
  BY WordFacts, SignedFacts
<1>2. r \in Operand /\ r \in Int
  BY <1>1, Wrapped
<1>3. (a + b < Modulus => r = a + b) /\ (a + b >= Modulus => r = a + b - Modulus)
  BY <1>1, WrapOnce
<1>4. r = Wrap(Signed(a) + Signed(b))
  <2>1. PICK i \in Int : Signed(a) = Modulus * i + a
    BY SignedIs
  <2>2. PICK j \in Int : Signed(b) = Modulus * j + b
    BY SignedIs
  <2>3. Signed(a) + Signed(b) = Modulus * (i + j) + (a + b)
    BY <1>1, <2>1, <2>2
  <2>4. a + b \in Int /\ Signed(a) + Signed(b) \in Int /\ i + j \in Int
    BY <1>1, SignedFacts
  <2>5. QED
    BY <2>3, <2>4, WrapSame, Zenon
<1> HIDE DEF r
<1>5. ("CF" \in f <=> r < a) /\ ("ZF" \in f <=> r = 0) /\ ("SF" \in f <=> Signed(r) < 0)
      /\ ("OF" \in f <=> (Negative(a) <=> Negative(b)) /\ ~(Negative(a) <=> Negative(r)))
  BY <1>2, ZeroAndSign DEF computeFlags, AdditionFlags, When, Negative
<1> HIDE DEF f
<1>6. "CF" \in f <=> a + b \notin Operand
  BY <1>1, <1>3, <1>5 DEF Operand
<1>7. "OF" \in f <=> Signed(r) # Signed(a) + Signed(b)
  BY <1>1, <1>2, <1>3, <1>5 DEF Signed, Negative
<1>8. QED
  BY <1>2, <1>4, <1>5, <1>6, <1>7 DEF r, f

LEMMA SubtractedFlags ==
  ASSUME NEW a \in Operand, NEW b \in Operand
  PROVE  LET r == Wrap(a - b)
             f == computeFlags(r, a, b, TRUE)
         IN  /\ r \in Operand /\ r = Wrap(Signed(a) - Signed(b))
             /\ ("CF" \in f) <=> (a - b \notin Operand)
             /\ ("OF" \in f) <=> (Signed(r) # Signed(a) - Signed(b))
             /\ ("ZF" \in f) <=> (r = 0)
             /\ ("SF" \in f) <=> (Signed(r) < 0)
             /\ (r = 0) <=> (Signed(a) = Signed(b))
             /\ ~(("SF" \in f) <=> ("OF" \in f)) <=> (Signed(a) < Signed(b))
<1> DEFINE r == Wrap(a - b)
           f == computeFlags(r, a, b, TRUE)
<1>1. /\ a \in Int /\ b \in Int /\ 0 <= a /\ a < Modulus /\ 0 <= b /\ b < Modulus
      /\ Modulus \in Nat /\ SignBit \in Nat /\ Modulus = SignBit + SignBit
  BY WordFacts, SignedFacts
<1>2. r \in Operand /\ r \in Int
  BY <1>1, Wrapped
<1>3. (a >= b => r = a - b) /\ (a < b => r = a - b + Modulus)
  BY <1>1, WrapOnce
<1>4. r = Wrap(Signed(a) - Signed(b))
  <2>1. PICK i \in Int : Signed(a) = Modulus * i + a
    BY SignedIs
  <2>2. PICK j \in Int : Signed(b) = Modulus * j + b
    BY SignedIs
  <2>3. Signed(a) - Signed(b) = Modulus * (i - j) + (a - b)
    BY <1>1, <2>1, <2>2
  <2>4. a - b \in Int /\ Signed(a) - Signed(b) \in Int /\ i - j \in Int
    BY <1>1, SignedFacts
  <2>5. QED
    BY <2>3, <2>4, WrapSame, Zenon
<1> HIDE DEF r
<1>5. ("CF" \in f <=> a < b) /\ ("ZF" \in f <=> r = 0) /\ ("SF" \in f <=> Signed(r) < 0)
      /\ ("OF" \in f <=> ~(Negative(a) <=> Negative(b)) /\ ~(Negative(a) <=> Negative(r)))
  BY <1>2, ZeroAndSign DEF computeFlags, SubtractionFlags, When, Negative
<1> HIDE DEF f
<1>6. "CF" \in f <=> a - b \notin Operand
  BY <1>1, <1>3, <1>5 DEF Operand
<1>7. "OF" \in f <=> Signed(r) # Signed(a) - Signed(b)
  BY <1>1, <1>2, <1>3, <1>5 DEF Signed, Negative
<1>8. r = 0 <=> Signed(a) = Signed(b)
  BY <1>1, <1>2, <1>3 DEF Signed, Negative
<1>9. ~("SF" \in f <=> "OF" \in f) <=> Signed(a) < Signed(b)
  BY <1>1, <1>2, <1>3, <1>5 DEF Signed, Negative
<1>10. QED
  BY <1>2, <1>4, <1>5, <1>6, <1>7, <1>8, <1>9 DEF r, f

\* The flags f report of the word r what FlagsReportOverflow asks for a sum or a
\* difference.
Reported(r, f, unsigned, signed) ==
  /\ r = Wrap(unsigned) /\ r = Wrap(signed)
  /\ ("CF" \in f) <=> (unsigned \notin Operand)
  /\ ("OF" \in f) <=> (Signed(r) # signed)
  /\ ("ZF" \in f) <=> (r = 0)
  /\ ("SF" \in f) <=> (Signed(r) < 0)

LEMMA AddedReported ==
  ASSUME NEW a \in Operand, NEW b \in Operand
  PROVE  Reported(Wrap(a + b), computeFlags(Wrap(a + b), a, b, FALSE),
                  a + b, Signed(a) + Signed(b))
  BY AddedFlags, Zenon DEF Reported

LEMMA SubtractedReported ==
  ASSUME NEW a \in Operand, NEW b \in Operand
  PROVE  Reported(Wrap(a - b), computeFlags(Wrap(a - b), a, b, TRUE),
                  a - b, Signed(a) - Signed(b))
  BY SubtractedFlags, Zenon DEF Reported

-----------------------------------------------------------------------------
(***************************************************************************)
(* Products.                                                               *)
(***************************************************************************)

LEMMA ProductOfShifted ==
  ASSUME NEW m \in Int, NEW a \in Int, NEW b \in Int, NEW i \in Int, NEW j \in Int
  PROVE  /\ (m * i + a) * (m * j + b) = m * (i * (m * j + b) + a * j) + a * b
         /\ i * (m * j + b) + a * j \in Int
  OBVIOUS

\* Dividing the low word of a product by a factor gives the other factor back
\* exactly when the product fits the word.
LEMMA ProductDividesBack ==
  ASSUME NEW m \in Nat, NEW a \in Nat, NEW b \in Nat, NEW r \in 0 .. m - 1, a > 0,
         a * b < m => r = a * b
  PROVE  (r \div a # b) <=> (a * b >= m)
<1>1. r \in Int /\ a * b \in Int /\ 0 \in 0 .. a - 1
  OBVIOUS
<1>2. CASE a * b < m
  <2>1. (a * b + 0) \div a = b
    BY <1>1, Remainders
  <2>2. r = a * b + 0
    BY <1>1, <1>2
  <2>3. QED
    BY <1>1, <1>2, <2>1, <2>2
<1>3. CASE a * b >= m
  <2> DEFINE q == r \div a
             s == r % a
  <2>1. q \in Int /\ s \in 0 .. a - 1 /\ r = a * q + s
    BY <1>1, Decomposed
  <2> HIDE DEF q, s
  <2>2. q # b
    BY <1>3, <2>1
  <2>3. QED
    BY <1>3, <2>2 DEF q
<1>4. QED
  BY <1>1, <1>2, <1>3

LEMMA MultipliedFlags ==
  ASSUME NEW a \in Operand, NEW b \in Operand
  PROVE  LET r == Wrap(a * b)
             f == Multiply(a, b).flags
         IN  /\ r \in Operand /\ r = Wrap(Signed(a) * Signed(b))
             /\ Multiply(a, b).value = r
             /\ ("CF" \in f) <=> (a * b \notin Operand)
             /\ "OF" \notin f
             /\ ("ZF" \in f) <=> (r = 0)
             /\ ("SF" \in f) <=> (Signed(r) < 0)
<1> DEFINE r == Wrap(a * b)
           f == Multiply(a, b).flags
<1>1. a \in Nat /\ b \in Nat /\ a * b \in Nat /\ a * b \in Int /\ Modulus \in Nat
  BY WordFacts DEF Operand
<1>2. r \in Operand /\ r \in 0 .. Modulus - 1
  BY <1>1, Wrapped, Zenon DEF Operand
<1>3. a * b < Modulus => r = a * b
  <2>1. ASSUME a * b < Modulus PROVE a * b \in Operand /\ a * b = Modulus * 0 + a * b
    BY <1>1, <2>1 DEF Operand
  <2>2. 0 \in Int
    OBVIOUS
  <2>3. QED
    BY <1>1, <2>1, <2>2, WrapIs, Zenon
<1>4. r = Wrap(Signed(a) * Signed(b))
  <2>1. PICK i \in Int : Signed(a) = Modulus * i + a
    BY SignedIs
  <2>2. PICK j \in Int : Signed(b) = Modulus * j + b
    BY SignedIs
  <2> DEFINE k == i * (Modulus * j + b) + a * j
  <2>3. Modulus \in Int /\ a \in Int /\ b \in Int
    BY <1>1
  <2>a. (Modulus * i + a) * (Modulus * j + b) = Modulus * k + a * b /\ k \in Int
    BY <2>3, ProductOfShifted, Zenon
  <2>4. Signed(a) * Signed(b) = Modulus * k + a * b /\ k \in Int
    BY <2>1, <2>2, <2>a, Zenon
  <2>5. Signed(a) * Signed(b) \in Int
    BY SignedFacts
  <2> HIDE DEF k
  <2>6. QED
    BY <1>1, <2>4, <2>5, WrapSame, Zenon
<1> HIDE DEF r
<1>5. Multiply(a, b).value = r
      /\ f = zeroAndSign(r) \cup When(a # 0 /\ r \div a # b, "CF")
  BY DEF r, Multiply, Writes
<1>6. ("CF" \in f <=> a # 0 /\ r \div a # b) /\ "OF" \notin f
      /\ ("ZF" \in f <=> r = 0) /\ ("SF" \in f <=> Signed(r) < 0)
  BY <1>2, <1>5, ZeroAndSign DEF When
<1> HIDE DEF f
<1>7. "CF" \in f <=> a * b \notin Operand
  <2>1. a * b \in Operand <=> a * b < Modulus
    BY <1>1 DEF Operand
  <2>2. CASE a = 0
    BY <1>1, <1>6, <2>1, <2>2, WordFacts
  <2>3. CASE a > 0
    <3>1. (r \div a # b) <=> (a * b >= Modulus)
      BY <1>1, <1>2, <1>3, <2>3, ProductDividesBack, Zenon
    <3>2. QED
      BY <1>1, <1>6, <2>1, <2>3, <3>1
  <2>4. QED
    BY <1>1, <2>2, <2>3
<1>8. QED
  BY <1>2, <1>4, <1>5, <1>6, <1>7 DEF r, f

-----------------------------------------------------------------------------
(***************************************************************************)
(* Quotients and remainders.                                               *)
(***************************************************************************)

\* Truncated division: quotient times divisor plus remainder is the dividend, and
\* the remainder is smaller than the divisor and has the sign of the dividend.
LEMMA Truncated ==
  ASSUME NEW x \in Int, NEW y \in Int, y # 0
  PROVE  LET q == Quotient(x, y)
             r == Remainder(x, y)
         IN  /\ q \in Int /\ r \in Int /\ y * q + r = x
             /\ Magnitude(r) < Magnitude(y) /\ Magnitude(r) <= Magnitude(x)
             /\ r # 0 => (r < 0 <=> x < 0)
             /\ y = 1 => q = x
             /\ Magnitude(y) > 1 => 2 * Magnitude(q) <= Magnitude(x)
<1> DEFINE X == Magnitude(x)
           Y == Magnitude(y)
           d == X \div Y
           s == X % Y
           q == Quotient(x, y)
           r == Remainder(x, y)
<1>1. /\ X \in Nat /\ Y \in Nat /\ Y > 0 /\ X \in Int
      /\ (x < 0 => X = -x) /\ (x >= 0 => X = x)
      /\ (y < 0 => Y = -y) /\ (y >= 0 => Y = y)
  BY DEF Magnitude
<1>2. q = IF (x < 0) = (y < 0) THEN d ELSE -d
  BY DEF Quotient
<1>3. r = x - y * q
  BY DEF Remainder
<1>4. d \in Int /\ s \in 0 .. Y - 1 /\ X = Y * d + s
  BY <1>1, Decomposed, Zenon
<1> HIDE DEF d, s, q, r, X, Y
<1>5. d >= 0 /\ s <= X
  BY <1>1, <1>4
<1>6. q \in Int /\ r \in Int /\ y * q + r = x
  BY <1>2, <1>3, <1>4
<1>7. (x < 0 => r = -s) /\ (x >= 0 => r = s)
  <2>1. CASE x < 0 /\ y < 0
    BY <1>1, <1>2, <1>3, <1>4, <2>1
  <2>2. CASE x < 0 /\ ~(y < 0)
    BY <1>1, <1>2, <1>3, <1>4, <2>2
  <2>3. CASE ~(x < 0) /\ y < 0
    BY <1>1, <1>2, <1>3, <1>4, <2>3
  <2>4. CASE ~(x < 0) /\ ~(y < 0)
    BY <1>1, <1>2, <1>3, <1>4, <2>4
  <2>5. QED
    BY <2>1, <2>2, <2>3, <2>4
<1>8. Magnitude(r) = s /\ Magnitude(q) = d
  BY <1>2, <1>4, <1>5, <1>7 DEF Magnitude
<1>9. r # 0 => (r < 0 <=> x < 0)
  BY <1>4, <1>7
<1>10. ASSUME y = 1 PROVE q = x
  <2>1. Y = 1 /\ s = 0 /\ X = d
    BY <1>1, <1>4, <1>10
  <2>2. QED
    BY <1>1, <1>2, <1>10, <2>1
<1>11. Y > 1 => 2 * d <= X
  BY <1>1, <1>4, <1>5
<1>12. Magnitude(r) < Y /\ Magnitude(r) <= X
  BY <1>1, <1>4, <1>5, <1>8
<1>13. Y > 1 => 2 * Magnitude(q) <= X
  BY <1>8, <1>11
<1>14. QED
  BY <1>6, <1>9, <1>10, <1>12, <1>13, Zenon DEF q, r, X, Y

\* What DivisionIsExact says of the operands a and b.
ExactDivision(a, b) ==
  LET x == Signed(a)
      y == Signed(b)
      q == Signed(evaluateBinary("DIV", a, b).value)
      r == Signed(evaluateBinary("MOD", a, b).value)
  IN  /\ Wrap(y * q + r) = a
      /\ Magnitude(r) < Magnitude(y)
      /\ r # 0 => (r < 0 <=> x < 0)
      /\ (y * q + r # x) <=> (y = -1 /\ x < 0 /\ Signed(Wrap(-x)) = x)

LEMMA EvaluateDivision ==
  ASSUME NEW a, NEW b
  PROVE  /\ evaluateBinary("DIV", a, b) = Divide(a, b)
         /\ evaluateBinary("MOD", a, b) = Modulo(a, b)
  BY DEF evaluateBinary

LEMMA DividedByMinusOne ==
  ASSUME NEW a \in Operand, NEW b \in Operand, b # 0, Signed(b) = -1
  PROVE  /\ Divide(a, b).value \in Operand /\ Modulo(a, b).value \in Operand
         /\ ExactDivision(a, b)
<1> DEFINE w == Wrap(-a)
           x == Signed(a)
           q == Signed(w)
<1>1. Divide(a, b).value = w /\ Modulo(a, b).value = 0
  BY DEF Divide, Modulo, Logical, Writes
<1>2. a \in Int /\ -a \in Int /\ x \in Int /\ -x \in Int /\ -SignBit <= x /\ x < SignBit
      /\ Modulus \in Int /\ SignBit \in Int /\ SignBit > 1 /\ Modulus = SignBit + SignBit
  BY WordFacts, SignedFacts
<1>3. w \in Operand /\ q \in Int /\ 0 \in Operand /\ Signed(0) = 0
  <2>1. w \in Operand
    BY <1>2, Wrapped, Zenon
  <2>2. q \in Int
    BY <2>1, SignedFacts
  <2>3. QED
    BY <2>1, <2>2, OperandInt, WordFacts DEF Signed, Negative
<1>4. w = Wrap(-x)
  <2>1. PICK i \in Int : x = Modulus * i + a
    BY SignedIs
  <2>2. -x = Modulus * (-i) + (-a) /\ -i \in Int
    BY <1>2, <2>1
  <2>3. QED
    BY <1>2, <2>2, WrapSame, Zenon
<1>5. Wrap(-q) = a
  <2>1. PICK i \in Int : q = Modulus * i + w
    BY <1>3, SignedIs
  <2>2. PICK j \in Int : -a = Modulus * j + w
    BY <1>2, Wrapped
  <2>3. w \in Int
    BY <1>3, OperandInt
  <2> HIDE DEF w, q
  <2>4. -q = Modulus * (j - i) + a /\ j - i \in Int /\ -q \in Int
    BY <1>2, <1>3, <2>1, <2>2, <2>3
  <2>5. Wrap(-q) = Wrap(a)
    BY <1>2, <2>4, WrapSame, Zenon
  <2>6. QED
    BY <2>5, WrapSigned
<1> HIDE DEF w
<1>6. (-q # x) <=> (x < 0 /\ Signed(Wrap(-x)) = x)
  <2>1. CASE x > -SignBit
    <3>1. Signed(Wrap(-x)) = -x
      BY <1>2, <2>1, SignedWrap
    <3>2. QED
      BY <1>2, <1>4, <3>1
  <2>2. CASE x = -SignBit
    <3>1. Wrap(SignBit) = SignBit
      BY <1>2, WrapOnce
    <3>2. -x = SignBit /\ Signed(SignBit) = -SignBit
      BY <1>2, <2>2 DEF Signed, Negative
    <3>3. Wrap(-x) = SignBit
      BY <3>1, <3>2
    <3>4. QED
      BY <1>2, <1>4, <2>2, <3>2, <3>3
  <2>3. QED
    BY <1>2, <2>1, <2>2
<1> HIDE DEF q, x
<1>7. Signed(b) * q + 0 = -q /\ Magnitude(0) < Magnitude(Signed(b))
  <2>1. \A y \in Int : y = -1 => y * q + 0 = -q /\ Magnitude(0) < Magnitude(y)
    BY <1>3 DEF Magnitude
  <2>2. Signed(b) \in Int
    BY SignedFacts
  <2>3. QED
    BY <2>1, <2>2
<1>8. /\ Signed(evaluateBinary("DIV", a, b).value) = q
      /\ Signed(evaluateBinary("MOD", a, b).value) = 0
  BY <1>1, <1>3, EvaluateDivision DEF q
<1>9. ExactDivision(a, b)
  <2>1. /\ Wrap(Signed(b) * q + 0) = a
        /\ Magnitude(0) < Magnitude(Signed(b))
        /\ (Signed(b) * q + 0 # x) <=> (x < 0 /\ Signed(Wrap(-x)) = x)
    BY <1>5, <1>6, <1>7
  <2>2. QED
    BY <1>8, <2>1 DEF ExactDivision, x
<1>10. QED
  BY <1>1, <1>3, <1>9

LEMMA Divided ==
  ASSUME NEW a \in Operand, NEW b \in Operand, b # 0, Signed(b) # -1
  PROVE  /\ Divide(a, b).value \in Operand /\ Modulo(a, b).value \in Operand
         /\ ExactDivision(a, b)
<1> DEFINE x == Signed(a)
           y == Signed(b)
           q == Quotient(x, y)
           r == Remainder(x, y)
<1>1. Divide(a, b).value = Wrap(q) /\ Modulo(a, b).value = Wrap(r)
  BY DEF Divide, Modulo, Logical, Writes
<1>2. x \in Int /\ y \in Int /\ y # 0 /\ y # -1 /\ SignBit \in Nat /\ SignBit > 1
      /\ -SignBit <= x /\ x < SignBit
  BY WordFacts, SignedFacts
<1>3. /\ q \in Int /\ r \in Int /\ y * q + r = x
      /\ Magnitude(r) < Magnitude(y) /\ Magnitude(r) <= Magnitude(x)
      /\ r # 0 => (r < 0 <=> x < 0)
      /\ y = 1 => q = x
      /\ Magnitude(y) > 1 => 2 * Magnitude(q) <= Magnitude(x)
  BY <1>2, Truncated
<1> HIDE DEF x, y, q, r
<1>4. -SignBit <= r /\ r < SignBit
  BY <1>2, <1>3 DEF Magnitude
<1>5. -SignBit <= q /\ q < SignBit
  <2>1. CASE y = 1
    BY <1>2, <1>3, <2>1
  <2>2. CASE Magnitude(y) > 1
    BY <1>2, <1>3, <2>2 DEF Magnitude
  <2>3. QED
    BY <1>2, <2>1, <2>2 DEF Magnitude
<1>6. /\ Signed(Wrap(q)) = q /\ Wrap(q) \in Operand
      /\ Signed(Wrap(r)) = r /\ Wrap(r) \in Operand
  BY <1>3, <1>4, <1>5, SignedWrap
<1>7. Wrap(x) = a
  BY WrapSigned DEF x
<1>8. QED
  BY <1>1, <1>2, <1>3, <1>6, <1>7, EvaluateDivision DEF ExactDivision, x, y

-----------------------------------------------------------------------------
(***************************************************************************)
(* Shifts.                                                                 *)
(***************************************************************************)

\* For a count n from 1 up: the powers of two that the shift by n and the shift
\* by one less multiply and divide by.
LEMMA ShiftPowers ==
  ASSUME NEW n \in 1 .. WordBits - 1
  PROVE  LET P == 2 ^ (n - 1)
             Q == 2 ^ (WordBits - n)
         IN  /\ P \in Nat /\ P > 0 /\ Q \in Nat /\ Q > 0
             /\ 2 ^ n = 2 * P /\ 2 ^ (WordBits - (n - 1)) = 2 * Q
             /\ SignBit = P * Q /\ Modulus = 2 * (P * Q)
<1> DEFINE P == 2 ^ (n - 1)
           Q == 2 ^ (WordBits - n)
<1>1. /\ WordBits \in Nat /\ n - 1 \in 0 .. WordBits /\ WordBits - n \in 0 .. WordBits
      /\ 1 \in 0 .. WordBits /\ n - 1 + 1 <= WordBits /\ WordBits - n + 1 <= WordBits
      /\ (n - 1) + (WordBits - n) <= WordBits
      /\ n - 1 + 1 = n /\ WordBits - n + 1 = WordBits - (n - 1)
      /\ (n - 1) + (WordBits - n) = WordBits - 1
  BY SemanticsAssumption
<1>2. \A i, j \in 0 .. WordBits : i + j <= WordBits => 2 ^ (i + j) = 2 ^ i * 2 ^ j
  BY SemanticsAssumption, Zenon
<1>3. 2 ^ (n - 1 + 1) = P * 2 ^ 1
  BY <1>1, <1>2, Zenon
<1>4. 2 ^ (WordBits - n + 1) = Q * 2 ^ 1
  BY <1>1, <1>2, Zenon
<1>5. 2 ^ ((n - 1) + (WordBits - n)) = P * Q
  BY <1>1, <1>2, Zenon
<1>6. 2 ^ 1 = 2 /\ P \in Nat \ {0} /\ Q \in Nat \ {0}
  BY <1>1, SemanticsAssumption, Zenon
<1>7. 2 ^ n = P * 2 /\ 2 ^ (WordBits - (n - 1)) = Q * 2 /\ SignBit = P * Q
  BY <1>1, <1>3, <1>4, <1>5, <1>6, Zenon DEF SignBit
<1> HIDE DEF P, Q
<1>8. P * 2 = 2 * P /\ Q * 2 = 2 * Q /\ P * Q \in Int
  BY <1>6
<1>9. Modulus = 2 * (P * Q)
  BY <1>7, <1>8, WordFacts
<1>10. P > 0 /\ Q > 0 /\ P \in Nat /\ Q \in Nat
  BY <1>6
<1>11. QED
  BY <1>7, <1>8, <1>9, <1>10, Zenon DEF P, Q

LEMMA QuotientNat ==
  ASSUME NEW p \in Nat, p > 0, NEW a \in Nat
  PROVE  a \div p \in Nat /\ a \div p <= a /\ (p > 1 /\ a > 0 => a \div p < a)
<1> DEFINE q == a \div p
           r == a % p
<1>1. q \in Int /\ r \in 0 .. p - 1 /\ a = p * q + r
  BY Decomposed
<1> HIDE DEF q, r
<1>2. q >= 0
  BY <1>1
<1>3. q <= a /\ (p > 1 /\ a > 0 => q < a)
  BY <1>1, <1>2
<1>4. QED
  BY <1>1, <1>2, <1>3 DEF q

\* Dividing by 2p is dividing by p and then by two.
LEMMA HalvedQuotient ==
  ASSUME NEW p \in Nat, p > 0, NEW a \in Nat
  PROVE  a \div (2 * p) = (a \div p) \div 2
<1> DEFINE q == a \div p
           r == a % p
           h == q \div 2
           s == q % 2
<1>1. q \in Int /\ r \in 0 .. p - 1 /\ a = p * q + r
  BY Decomposed
<1> HIDE DEF q, r
<1>2. h \in Int /\ s \in 0 .. 1 /\ q = 2 * h + s
  BY <1>1
<1> HIDE DEF h, s
<1>3. a = (2 * p) * h + (p * s + r)
  BY <1>1, <1>2
<1>4. p * s + r \in 0 .. 2 * p - 1
  <2>1. s = 0 \/ s = 1
    BY <1>2
  <2>2. QED
    BY <1>1, <2>1
<1>5. 2 * p \in Nat /\ 2 * p > 0
  OBVIOUS
<1>6. ((2 * p) * h + (p * s + r)) \div (2 * p) = h
  BY <1>2, <1>4, <1>5, Remainders, Zenon
<1>7. QED
  BY <1>3, <1>6 DEF h, q

\* Multiplying by p in a word of 2pq values moves the bit that stood at q to the
\* top.
LEMMA MovedBit ==
  ASSUME NEW p \in Nat, p > 0, NEW q \in Nat, q > 0, NEW a \in Nat
  PROVE  (((a * p) % (2 * (p * q))) \div (p * q)) % 2 = (a \div q) % 2
<1> DEFINE u == a \div q
           w == a % q
           t == u \div 2
           v == u % 2
           m == p * q
<1>1. u \in Int /\ w \in 0 .. q - 1 /\ a = q * u + w
  BY Decomposed
<1> HIDE DEF u, w
<1>2. t \in Int /\ v \in 0 .. 1 /\ u = 2 * t + v
  BY <1>1
<1> HIDE DEF t, v
<1>3. m \in Nat /\ m > 0
  OBVIOUS
<1>4. p * w \in 0 .. m - 1
  <2>1. \A i, j, k \in Nat : i > 0 /\ j < k => i * j < i * k
    OBVIOUS
  <2>2. w \in Nat /\ w < q
    BY <1>1
  <2>3. p * w < p * q
    BY <2>1, <2>2
  <2>4. p * w \in Nat
    BY <2>2
  <2>5. QED
    BY <2>3, <2>4, <1>3
<1>5. a * p = (2 * m) * t + (m * v + p * w)
  <2>1. a * p = (q * u + w) * p
    BY <1>1
  <2>2. (q * u + w) * p = (p * q) * u + p * w
    BY <1>1
  <2>3. (p * q) * u = (2 * m) * t + m * v
    BY <1>2
  <2>4. (2 * m) * t \in Int /\ m * v \in Int /\ p * w \in Int
    BY <1>1, <1>2
  <2>5. QED
    BY <2>1, <2>2, <2>3, <2>4
<1> DEFINE pw == p * w
<1> HIDE DEF m, pw
<1>6. m * v + pw \in 0 .. 2 * m - 1 /\ 2 * m \in Nat /\ 2 * m > 0
  <2>1. v = 0 \/ v = 1
    BY <1>2
  <2>2. pw \in 0 .. m - 1
    BY <1>4 DEF pw
  <2>3. QED
    BY <1>3, <2>1, <2>2
<1>7. ((2 * m) * t + (m * v + pw)) % (2 * m) = m * v + pw
  BY <1>2, <1>6, Remainders, Zenon
<1>8. pw \in 0 .. m - 1 /\ v \in Int
  BY <1>2, <1>4 DEF pw
<1>9. (m * v + pw) \div m = v
  BY <1>3, <1>8, Remainders, Zenon
<1>10. v % 2 = v
  <2>1. v = 0 \/ v = 1
    BY <1>2
  <2>2. QED
    BY <2>1
<1>11. (((a * p) % (2 * m)) \div m) % 2 = v
  BY <1>5, <1>7, <1>9, <1>10 DEF pw
<1>12. QED
  BY <1>11 DEF m, v, u

LEMMA EvaluateShift ==
  ASSUME NEW a, NEW b
  PROVE  /\ evaluateBinary("SHL", a, b) = ShiftLeft(a, b)
         /\ evaluateBinary("SHR", a, b) = ShiftRight(a, b)
         /\ evaluateBinary("SAR", a, b) = ShiftArithmetic(a, b)
  BY DEF evaluateBinary

LEMMA ShiftCounts ==
  /\ \A b \in Operand : ShiftCount(b) \in 0 .. WordBits - 1
  /\ \A n \in 1 .. WordBits - 1 : ShiftCount(n - 1) = n - 1
<1>1. WordBits \in Nat /\ WordBits > 1 /\ 0 \in Int
  BY SemanticsAssumption
<1>2. ASSUME NEW b \in Operand PROVE b % WordBits \in 0 .. WordBits - 1
  <2>1. b \in Int
    BY OperandInt
  <2>2. QED
    BY <1>1, <2>1, Decomposed
<1>3. ASSUME NEW n \in 1 .. WordBits - 1 PROVE (n - 1) % WordBits = n - 1
  <2>1. n - 1 \in 0 .. WordBits - 1 /\ WordBits > 0 /\ n - 1 = WordBits * 0 + (n - 1)
    BY <1>1
  <2>2. (WordBits * 0 + (n - 1)) % WordBits = n - 1
    BY <1>1, <2>1, Remainders, Zenon
  <2>3. QED
    BY <2>1, <2>2
<1>4. QED
  BY <1>2, <1>3 DEF ShiftCount

\* What ShiftsCompose says of an instruction op on a and b with the result alu.
RepeatedShift(op, a, b, alu) ==
  LET n == b % WordBits
      shorter == evaluateBinary(op, a, n - 1).value
      out == Bit(shorter, IF op = "SHL" THEN WordBits - 1 ELSE 0)
  IN  IF n = 0 THEN alu.value = a /\ "CF" \notin alu.flags
      ELSE /\ alu.value = CASE op = "SHL" -> Wrap(2 * shorter)
                            [] op = "SHR" -> shorter \div 2
                            [] op = "SAR" -> Wrap(Signed(shorter) \div 2)
           /\ ("CF" \in alu.flags) <=> (out = 1)

LEMMA ShiftedLeft ==
  ASSUME NEW a \in Operand, NEW b \in Operand
  PROVE  /\ ShiftLeft(a, b).value \in Operand
         /\ RepeatedShift("SHL", a, b, ShiftLeft(a, b))
<1> DEFINE n == ShiftCount(b)
           r == Wrap(a * 2 ^ n)
           alu == ShiftLeft(a, b)
<1>1. alu.value = r /\ alu.flags = zeroAndSign(r) \cup
        When(n # 0 /\ Bit(a, WordBits - n) = 1, "CF")
  BY DEF ShiftLeft, Writes
<1>2. n \in 0 .. WordBits - 1 /\ n = b % WordBits /\ WordBits \in Nat /\ a \in Nat
  BY ShiftCounts, SemanticsAssumption, SignedFacts DEF ShiftCount
<1>3. 2 ^ n \in Nat /\ a * 2 ^ n \in Int
  <2>1. n \in 0 .. WordBits
    BY <1>2
  <2>2. 2 ^ n \in Nat
    BY <2>1, SemanticsAssumption, Zenon
  <2>3. QED
    BY <1>2, <2>2
<1>4. r \in Operand
  BY <1>3, Wrapped
<1> HIDE DEF n, r, alu
<1>5. "CF" \in alu.flags <=> n # 0 /\ Bit(a, WordBits - n) = 1
  BY <1>1, <1>4, ZeroAndSign DEF When
<1>6. CASE n = 0
  <2>1. a * 2 ^ n = a
    BY <1>2, <1>6, SemanticsAssumption
  <2>2. r = a
    BY <2>1, WrapSigned DEF r
  <2>3. QED
    BY <1>1, <1>2, <1>4, <1>5, <1>6, <2>2 DEF RepeatedShift, alu
<1>7. CASE n # 0
  <2> DEFINE P == 2 ^ (n - 1)
             Q == 2 ^ (WordBits - n)
             shorter == Wrap(a * P)
  <2>1. n \in 1 .. WordBits - 1
    BY <1>2, <1>7
  <2>2. /\ P \in Nat /\ P > 0 /\ Q \in Nat /\ Q > 0 /\ 2 ^ n = 2 * P
        /\ SignBit = P * Q /\ Modulus = 2 * (P * Q)
    BY <2>1, ShiftPowers, Zenon
  <2>3. ShiftLeft(a, n - 1).value = shorter
    BY <2>1, ShiftCounts DEF ShiftLeft, Writes
  <2> HIDE DEF P, Q
  <2>4. a * P \in Int
    BY <1>2, <2>2
  <2>5. shorter \in Int /\ \E k \in Int : a * P = Modulus * k + shorter
    BY <2>4, Wrapped, Zenon
  <2>6. r = Wrap(2 * shorter)
    <3>1. PICK k \in Int : a * P = Modulus * k + shorter
      BY <2>5
    <3> HIDE DEF shorter
    <3>2. a * (2 * P) = 2 * (a * P)
      BY <1>2, <2>2
    <3>3. Modulus \in Int
      BY WordFacts
    <3>4. 2 * (a * P) = Modulus * (2 * k) + 2 * shorter
      BY <2>4, <2>5, <3>1, <3>3
    <3>5. 2 * k \in Int /\ 2 * shorter \in Int /\ a * (2 * P) \in Int
      BY <1>2, <2>2, <2>5
    <3>6. a * (2 * P) = Modulus * (2 * k) + 2 * shorter
      BY <3>2, <3>4
    <3>7. Wrap(a * (2 * P)) = Wrap(2 * shorter)
      BY <3>5, <3>6, WrapSame, Zenon
    <3>8. QED
      BY <2>2, <3>7 DEF r
  <2>7. Bit(shorter, WordBits - 1) = Bit(a, WordBits - n)
    <3>1. (((a * P) % (2 * (P * Q))) \div (P * Q)) % 2 = (a \div Q) % 2
      BY <1>2, <2>2, MovedBit, Zenon
    <3>2. Bit(shorter, WordBits - 1) = (((a * P) % Modulus) \div SignBit) % 2
      BY DEF Bit, Wrap, SignBit
    <3>3. QED
      BY <2>2, <3>1, <3>2 DEF Bit, Q
  <2> HIDE DEF shorter
  <2>8. evaluateBinary("SHL", a, (b % WordBits) - 1).value = shorter
    BY <1>2, <2>3, EvaluateShift
  <2>9. QED
    BY <1>1, <1>2, <1>4, <1>5, <1>7, <2>6, <2>7, <2>8 DEF RepeatedShift, alu
<1>8. QED
  BY <1>6, <1>7

\* The value and the carry of the two shifts to the right.
LEMMA ShiftedRightIs ==
  ASSUME NEW a, NEW c, NEW fill
  PROVE  LET alu == ShiftedRight(a, c, fill) IN
         /\ alu.value = IF c = 0 THEN a ELSE (a \div 2 ^ c) + fill
         /\ ("CF" \in alu.flags) <=> (c # 0 /\ Bit(a, c - 1) = 1)
  BY DEF ShiftedRight, Writes, zeroAndSign, When

\* What the shift by n and the shift by one less divide by.
LEMMA RightShiftParts ==
  ASSUME NEW a \in Operand, NEW n \in 1 .. WordBits - 1
  PROVE  LET P == 2 ^ (n - 1)
             Q == 2 ^ (WordBits - n)
             q == a \div P
         IN  /\ P \in Nat /\ P > 0 /\ Q \in Nat /\ Q > 0
             /\ SignBit = P * Q /\ Modulus = 2 * (P * Q)
             /\ 2 ^ (WordBits - (n - 1)) = 2 * Q
             /\ q \in Nat /\ q <= a /\ a \div 2 ^ n = q \div 2
             /\ n - 1 = 0 => q = a /\ 2 * Q = Modulus
             /\ Bit(a, n - 1) = q % 2
<1> DEFINE P == 2 ^ (n - 1)
           Q == 2 ^ (WordBits - n)
           q == a \div P
<1>1. /\ P \in Nat /\ P > 0 /\ Q \in Nat /\ Q > 0 /\ 2 ^ n = 2 * P
      /\ 2 ^ (WordBits - (n - 1)) = 2 * Q
      /\ SignBit = P * Q /\ Modulus = 2 * (P * Q)
  BY ShiftPowers, Zenon
<1>2. a \in Nat /\ n \in Int
  BY SignedFacts
<1>3. Bit(a, n - 1) = q % 2
  BY DEF Bit
<1>4. n - 1 = 0 => P = 1
  BY SemanticsAssumption, Zenon
<1> HIDE DEF P, Q
<1>5. q \in Nat /\ q <= a
  BY <1>1, <1>2, QuotientNat
<1>6. a \div (2 * P) = q \div 2
  BY <1>1, <1>2, HalvedQuotient
<1>7. n - 1 = 0 => q = a /\ 2 * Q = Modulus
  BY <1>1, <1>2, <1>4
<1>8. QED
  BY <1>1, <1>3, <1>5, <1>6, <1>7 DEF P, Q

LEMMA ShiftedRightLogically ==
  ASSUME NEW a \in Operand, NEW b \in Operand
  PROVE  /\ ShiftRight(a, b).value \in Operand
         /\ RepeatedShift("SHR", a, b, ShiftRight(a, b))
<1> DEFINE n == ShiftCount(b)
           alu == ShiftRight(a, b)
<1>1. n \in 0 .. WordBits - 1 /\ n = b % WordBits /\ WordBits \in Nat /\ a \in Nat
  BY ShiftCounts, SemanticsAssumption, SignedFacts DEF ShiftCount
<1>2. /\ alu.value = IF n = 0 THEN a ELSE (a \div 2 ^ n) + 0
      /\ ("CF" \in alu.flags) <=> (n # 0 /\ Bit(a, n - 1) = 1)
  BY ShiftedRightIs DEF ShiftRight
<1> HIDE DEF n, alu
<1>3. CASE n = 0
  BY <1>1, <1>2, <1>3 DEF RepeatedShift, alu
<1>4. CASE n # 0
  <2> DEFINE P == 2 ^ (n - 1)
             q == a \div P
  <2>1. n \in 1 .. WordBits - 1
    BY <1>1, <1>4
  <2>2. /\ q \in Nat /\ q <= a /\ a \div 2 ^ n = q \div 2
        /\ n - 1 = 0 => q = a
        /\ Bit(a, n - 1) = q % 2
    BY <2>1, RightShiftParts
  <2>3. ShiftRight(a, n - 1).value = q
    <3>1. ShiftRight(a, n - 1).value = IF n - 1 = 0 THEN a ELSE q + 0
      BY <2>1, ShiftCounts, ShiftedRightIs DEF ShiftRight
    <3>2. QED
      BY <2>2, <3>1
  <2> HIDE DEF q
  <2>4. q \div 2 \in Nat /\ q \div 2 <= q
    BY <2>2, QuotientNat
  <2>5. alu.value = q \div 2 /\ alu.value \in Operand
    BY <1>1, <1>2, <1>4, <2>2, <2>4, WordFacts DEF Operand
  <2>6. Bit(q, 0) = q % 2
    <3>1. 2 ^ 0 = 1
      BY SemanticsAssumption
    <3>2. q \div 1 = q
      BY <2>2
    <3>3. QED
      BY <3>1, <3>2 DEF Bit
  <2>7. evaluateBinary("SHR", a, (b % WordBits) - 1).value = q
    BY <1>1, <2>3, EvaluateShift
  <2>8. QED
    BY <1>1, <1>2, <1>4, <2>2, <2>5, <2>6, <2>7 DEF RepeatedShift, alu
<1>5. QED
  BY <1>3, <1>4

LEMMA ShiftedRightArithmetically ==
  ASSUME NEW a \in Operand, NEW b \in Operand
  PROVE  /\ ShiftArithmetic(a, b).value \in Operand
         /\ RepeatedShift("SAR", a, b, ShiftArithmetic(a, b))
<1> DEFINE n == ShiftCount(b)
           alu == ShiftArithmetic(a, b)
           fill(k) == IF Negative(a) THEN Modulus - 2 ^ (WordBits - k) ELSE 0
<1>1. n \in 0 .. WordBits - 1 /\ n = b % WordBits /\ WordBits \in Nat /\ a \in Nat
  BY ShiftCounts, SemanticsAssumption, SignedFacts DEF ShiftCount
<1>2. /\ alu.value = IF n = 0 THEN a ELSE (a \div 2 ^ n) + fill(n)
      /\ ("CF" \in alu.flags) <=> (n # 0 /\ Bit(a, n - 1) = 1)
  BY ShiftedRightIs DEF ShiftArithmetic
<1> HIDE DEF n, alu
<1>3. CASE n = 0
  BY <1>1, <1>2, <1>3 DEF RepeatedShift, alu
<1>4. CASE n # 0
  <2> DEFINE P == 2 ^ (n - 1)
             Q == 2 ^ (WordBits - n)
             q == a \div P
             h == q \div 2
             shorter == ShiftArithmetic(a, n - 1).value
  <2>1. n \in 1 .. WordBits - 1
    BY <1>1, <1>4
  <2>2. /\ P \in Nat /\ P > 0 /\ Q \in Nat /\ Q > 0
        /\ SignBit = P * Q /\ Modulus = 2 * (P * Q)
        /\ 2 ^ (WordBits - (n - 1)) = 2 * Q
        /\ q \in Nat /\ q <= a /\ a \div 2 ^ n = q \div 2
        /\ n - 1 = 0 => q = a /\ 2 * Q = Modulus
        /\ Bit(a, n - 1) = q % 2
    BY <2>1, RightShiftParts
  <2>3. shorter = IF n - 1 = 0 THEN a ELSE q + fill(n - 1)
    BY <2>1, ShiftCounts, ShiftedRightIs DEF ShiftArithmetic
  <2>4. h \in Int /\ q = 2 * h + (q % 2) /\ q % 2 \in 0 .. 1
    <3> HIDE DEF q
    <3>1. QED
      BY <2>2
  <2>5. fill(n) = IF Negative(a) THEN Modulus - Q ELSE 0
    OBVIOUS
  <2>6. shorter = q + (IF Negative(a) THEN Modulus - 2 * Q ELSE 0)
    BY <2>2, <2>3, WordFacts
  <2>7. alu.value = h + (IF Negative(a) THEN Modulus - Q ELSE 0)
    BY <1>2, <1>4, <2>2, <2>5
  <2>8. q < 2 * Q /\ (Negative(a) => q >= Q) /\ (~Negative(a) => q < Q)
    <3> DEFINE s == a % P
    <3>1. s \in 0 .. P - 1 /\ a = P * q + s
      <4>1. a \in Int
        BY <1>1
      <4>2. QED
        BY <2>2, <4>1, Decomposed, Zenon
    <3>2. a < 2 * (P * Q) /\ (Negative(a) <=> a >= P * Q)
      BY <2>2, SignedFacts DEF Negative
    <3> HIDE DEF s, q, P, Q
    <3>3. \A i, j, k, d \in Nat : i > 0 /\ d < i /\ i * j + d < i * k => j < k
      OBVIOUS
    <3>4. \A i, j, k, d \in Nat : i > 0 /\ d < i /\ i * j + d >= i * k => j >= k
      OBVIOUS
    <3>5. P * (2 * Q) = 2 * (P * Q) /\ s \in Nat /\ s < P /\ 2 * Q \in Nat /\ P * Q \in Nat
      BY <2>2, <3>1
    <3>6. q < 2 * Q
      BY <2>2, <3>1, <3>2, <3>3, <3>5
    <3>7. ASSUME Negative(a) PROVE q >= Q
      BY <2>2, <3>1, <3>2, <3>4, <3>5, <3>7
    <3>8. ASSUME ~Negative(a) PROVE q < Q
      <4>1. P * q + s < P * Q
        BY <1>1, <3>1, <3>2, <3>5, <3>8
      <4>2. QED
        BY <2>2, <3>3, <3>5, <4>1
    <3>9. QED
      BY <3>6, <3>7, <3>8
  <2>9. Q <= SignBit
    <3>1. \A i, k \in Nat : i > 0 => k <= i * k
      OBVIOUS
    <3>2. QED
      BY <2>2, <3>1
  <2> HIDE DEF P, Q, q, h, shorter
  <2>10. SignBit \in Nat /\ Modulus = SignBit + SignBit
    BY WordFacts
  <2>11. shorter \in Operand /\ Signed(shorter) = q - (IF Negative(a) THEN 2 * Q ELSE 0)
    BY <2>2, <2>6, <2>8, <2>9, <2>10 DEF Operand, Signed, Negative
  <2>12. Signed(shorter) \div 2 = h - (IF Negative(a) THEN Q ELSE 0)
    <3> DEFINE g == IF Negative(a) THEN Q ELSE 0
    <3>1. g \in Int /\ Signed(shorter) = q - 2 * g
      BY <2>2, <2>11
    <3> HIDE DEF g
    <3>2. (q - 2 * g) \div 2 = h - g
      BY <2>2, <2>4, <3>1
    <3>3. QED
      BY <3>1, <3>2 DEF g
  <2>13. alu.value \in Operand /\ Wrap(Signed(shorter) \div 2) = alu.value
    <3>1. alu.value \in Operand
      BY <2>2, <2>4, <2>7, <2>8, <2>9, <2>10 DEF Operand
    <3>2. /\ h - (IF Negative(a) THEN Q ELSE 0) \in Int
          /\ Negative(a) => h - Q < 0 /\ h - Q >= -Modulus
          /\ ~Negative(a) => h >= 0 /\ h < Modulus
      BY <2>2, <2>4, <2>8, <2>9, <2>10
    <3>3. ASSUME Negative(a) PROVE Wrap(h - Q) = h - Q + Modulus
      <4>1. h - Q \in Int /\ h - Q < 0 /\ h - Q >= -Modulus /\ h - Q < Modulus + Modulus
        BY <2>2, <2>4, <2>10, <3>2, <3>3
      <4>2. QED
        BY <4>1, WrapOnce
    <3>4. ASSUME ~Negative(a) PROVE Wrap(h) = h
      <4>1. h \in Int /\ h >= 0 /\ h >= -Modulus /\ h < Modulus /\ h < Modulus + Modulus
        BY <2>4, <2>10, <3>2, <3>4
      <4>2. QED
        BY <4>1, WrapOnce
    <3>5. QED
      BY <2>2, <2>4, <2>7, <2>10, <2>12, <3>1, <3>3, <3>4
  <2>14. Bit(shorter, 0) = q % 2
    <3>1. 2 ^ 0 = 1
      BY SemanticsAssumption
    <3>2. shorter \div 1 = shorter
      BY <2>11, OperandInt
    <3>3. shorter % 2 = q % 2
      <4> DEFINE g == IF Negative(a) THEN P * Q - Q ELSE 0
      <4>1. g \in Int /\ shorter = q + 2 * g
        BY <2>2, <2>6
      <4> HIDE DEF g
      <4>2. QED
        BY <2>2, <4>1
    <3>4. QED
      BY <3>1, <3>2, <3>3 DEF Bit
  <2>15. evaluateBinary("SAR", a, (b % WordBits) - 1).value = shorter
    BY <1>1, EvaluateShift DEF shorter
  <2>16. QED
    BY <1>1, <1>2, <1>4, <2>2, <2>13, <2>14, <2>15 DEF RepeatedShift, alu
<1>5. QED
  BY <1>3, <1>4

-----------------------------------------------------------------------------
(***************************************************************************)
(* The machine.                                                            *)
(***************************************************************************)

\* The operands are words.
OperandsInv ==
  /\ dst \in Operand /\ src \in Operand
  /\ last # NotYet => last.a \in Operand /\ last.b \in Operand

\* dst and FLAGS hold what the last instruction wrote.
Written(alu) ==
  /\ alu.error = "None"
  /\ alu.writes_value => dst = alu.value
  /\ alu.writes_flags => flags = alu.flags

WrittenInv ==
  /\ last = NotYet \/ last.opcode \in BinaryOpcode \cup UnaryOpcode
  /\ last.opcode \in BinaryOpcode =>
       Written(evaluateBinary(last.opcode, last.a, last.b))
  /\ last.opcode \in UnaryOpcode => Written(evaluateUnary(last.opcode, last.a))

\* FLAGS is still that of the last comparison.
ComparedInv ==
  compared # NoComparison =>
    LET a == compared.a
        b == compared.b
    IN  /\ a \in Operand /\ b \in Operand
        /\ flags = computeFlags(Wrap(a - b), a, b, TRUE)

AluInv == OperandsInv /\ WrittenInv /\ ComparedInv

\* A value that is written back is a word, and division has no zero divisor.
LEMMA BinaryValue ==
  ASSUME NEW op \in BinaryOpcode, NEW a \in Operand, NEW b \in Operand,
         evaluateBinary(op, a, b).error = "None"
  PROVE  LET alu == evaluateBinary(op, a, b) IN
         /\ alu.writes_value => alu.value \in Operand
         /\ op \in {"DIV", "MOD"} => b # 0
<1> DEFINE alu == evaluateBinary(op, a, b)
<1>1. a \in Int /\ b \in Int /\ a + b \in Int /\ a - b \in Int
  BY OperandInt
<1>2. CASE op = "ADD"
  BY <1>1, <1>2, Wrapped DEF evaluateBinary, Writes
<1>3. CASE op = "SUB"
  BY <1>1, <1>3, Wrapped DEF evaluateBinary, Writes
<1>4. CASE op = "MUL"
  <2>1. alu.value = Wrap(a * b)
    BY <1>4 DEF evaluateBinary, Multiply, Writes
  <2>2. QED
    BY <1>4, <2>1, MultipliedFlags
<1>5. CASE op = "DIV"
  <2>1. alu = Divide(a, b) /\ b # 0
    BY <1>5, EvaluateDivision DEF Divide, AluFails
  <2>2. QED
    BY <2>1, Divided, DividedByMinusOne
<1>6. CASE op = "MOD"
  <2>1. alu = Modulo(a, b) /\ b # 0
    BY <1>6, EvaluateDivision DEF Modulo, AluFails
  <2>2. QED
    BY <2>1, Divided, DividedByMinusOne
<1>7. CASE op \in {"AND", "OR", "XOR"}
  <2>1. {BitAnd(a, b), BitOr(a, b), BitXor(a, b)} \subseteq Operand
    BY SemanticsAssumption
  <2>2. alu.value \in {BitAnd(a, b), BitOr(a, b), BitXor(a, b)}
    BY <1>7 DEF evaluateBinary, Logical, Writes
  <2>3. QED
    BY <1>7, <2>1, <2>2
<1>8. CASE op = "SHL"
  BY <1>8, EvaluateShift, ShiftedLeft
<1>9. CASE op = "SHR"
  BY <1>9, EvaluateShift, ShiftedRightLogically
<1>10. CASE op = "SAR"
  BY <1>10, EvaluateShift, ShiftedRightArithmetically
<1>11. CASE op \in {"CMP", "TEST"}
  BY <1>11 DEF evaluateBinary, WritesFlags, Writes
<1>12. QED
  BY <1>2, <1>3, <1>4, <1>5, <1>6, <1>7, <1>8, <1>9, <1>10, <1>11 DEF BinaryOpcode

LEMMA UnaryValue ==
  ASSUME NEW op \in UnaryOpcode, NEW a \in Operand
  PROVE  LET alu == evaluateUnary(op, a) IN
         alu.error = "None" /\ alu.value \in Operand
<1>1. a \in Int /\ a + 1 \in Int /\ a - 1 \in Int /\ -a \in Int
  BY OperandInt
<1>2. Wrap(a + 1) \in Operand /\ Wrap(a - 1) \in Operand /\ Wrap(-a) \in Operand
  BY <1>1, Wrapped
<1>3. Modulus - 1 - a \in Operand
  BY WordFacts DEF Operand
<1>4. QED
  BY <1>2, <1>3 DEF UnaryOpcode, evaluateUnary, Writes

LEMMA AluInit == Init => AluInv
  BY DEF Init, AluInv, OperandsInv, WrittenInv, ComparedInv, NotYet, BinaryOpcode,
         UnaryOpcode

LEMMA AluStep == AluInv /\ [Next]_vars => AluInv'
<1> SUFFICES ASSUME AluInv, [Next]_vars PROVE AluInv'
  OBVIOUS
<1>1. dst \in Operand /\ src \in Operand
  BY DEF AluInv, OperandsInv
<1>2. ASSUME NEW opcode \in BinaryOpcode, Binary(opcode) PROVE AluInv'
  <2> DEFINE alu == evaluateBinary(opcode, dst, src)
  <2>1. alu.error = "None" /\ WriteBack(opcode, alu)
    BY <1>2 DEF Binary
  <2>2. alu.writes_value => alu.value \in Operand
    BY <1>1, <2>1, BinaryValue
  <2> HIDE DEF alu
  <2>3. last' = [opcode |-> opcode, a |-> dst, b |-> src] /\ src' = src
        /\ dst' \in Operand
    BY <1>1, <2>1, <2>2 DEF WriteBack
  <2>4. OperandsInv'
    BY <1>1, <2>3 DEF OperandsInv
  <2>5. opcode \notin UnaryOpcode
    BY DEF BinaryOpcode, UnaryOpcode
  <2>6. /\ alu.error = "None" /\ (alu.writes_value => dst' = alu.value)
        /\ alu.writes_flags => flags' = alu.flags
    BY <2>1 DEF WriteBack
  <2>7. WrittenInv'
    BY <2>3, <2>5, <2>6 DEF WrittenInv, Written, alu
  <2>8. ComparedInv'
    <3>1. CASE opcode = "CMP"
      <4>1. compared' = [a |-> dst, b |-> src]
        BY <2>1, <3>1 DEF WriteBack
      <4>2. alu.writes_flags /\ alu.flags = computeFlags(Wrap(dst - src), dst, src, TRUE)
        BY <3>1 DEF alu, evaluateBinary, WritesFlags, Writes
      <4>3. flags' = alu.flags
        BY <2>1, <4>2 DEF WriteBack
      <4>4. QED
        BY <1>1, <4>1, <4>2, <4>3 DEF ComparedInv
    <3>2. CASE opcode # "CMP"
      BY <2>1, <3>2 DEF WriteBack, ComparedInv, BinaryOpcode
    <3>3. QED
      BY <3>1, <3>2
  <2>9. QED
    BY <2>4, <2>7, <2>8 DEF AluInv
<1>3. ASSUME NEW opcode \in UnaryOpcode, Unary(opcode) PROVE AluInv'
  <2> DEFINE alu == evaluateUnary(opcode, dst)
  <2>1. WriteBack(opcode, alu)
    BY <1>3 DEF Unary
  <2>2. alu.error = "None" /\ alu.value \in Operand
    BY <1>1, UnaryValue
  <2> HIDE DEF alu
  <2>3. last' = [opcode |-> opcode, a |-> dst, b |-> src] /\ src' = src
        /\ dst' \in Operand
    BY <1>1, <2>1, <2>2 DEF WriteBack
  <2>4. OperandsInv'
    BY <1>1, <2>3 DEF OperandsInv
  <2>5. opcode \notin BinaryOpcode
    BY DEF BinaryOpcode, UnaryOpcode
  <2>6. /\ alu.error = "None" /\ (alu.writes_value => dst' = alu.value)
        /\ alu.writes_flags => flags' = alu.flags
    BY <2>1, <2>2 DEF WriteBack
  <2>7. WrittenInv'
    BY <2>3, <2>5, <2>6 DEF WrittenInv, Written, alu
  <2>8. ComparedInv'
    <3>1. CASE opcode = "NOT"
      <4>1. ~alu.writes_flags
        BY <3>1 DEF alu, evaluateUnary, Writes
      <4>2. flags' = flags /\ compared' = compared
        BY <2>1, <3>1, <4>1 DEF WriteBack
      <4>3. QED
        BY <4>2 DEF AluInv, ComparedInv
    <3>2. CASE opcode # "NOT"
      BY <2>1, <3>2 DEF WriteBack, ComparedInv, UnaryOpcode
    <3>3. QED
      BY <3>1, <3>2
  <2>9. QED
    BY <2>4, <2>7, <2>8 DEF AluInv
<1>4. CASE UNCHANGED vars
  BY <1>4 DEF vars, AluInv, OperandsInv, WrittenInv, Written, ComparedInv
<1>5. QED
  BY <1>2, <1>3, <1>4 DEF Next

\* Every instruction keeps the invariant: the operands stay words, dst and FLAGS hold
\* what WriteBack wrote of the last instruction, and only NOT leaves the flags of a
\* comparison alone.
THEOREM AluInductive == Spec => []AluInv
  BY AluInit, AluStep, PTL DEF Spec

-----------------------------------------------------------------------------
(***************************************************************************)
(* The four properties.                                                    *)
(***************************************************************************)

\* What the branches decide from the flags of a comparison.
LEMMA BranchesDecide ==
  ASSUME NEW a \in Operand, NEW b \in Operand
  PROVE  LET f == computeFlags(Wrap(a - b), a, b, TRUE)
             x == Signed(a)
             y == Signed(b)
         IN  /\ branchTaken("JE", f)  <=> x = y
             /\ branchTaken("JNE", f) <=> x # y
             /\ branchTaken("JL", f)  <=> x < y
             /\ branchTaken("JLE", f) <=> x <= y
             /\ branchTaken("JG", f)  <=> x > y
             /\ branchTaken("JGE", f) <=> x >= y
<1> DEFINE f == computeFlags(Wrap(a - b), a, b, TRUE)
           x == Signed(a)
           y == Signed(b)
           less == ("SF" \in f) # ("OF" \in f)
<1>1. x \in Int /\ y \in Int
  BY SignedFacts
<1>2. ("ZF" \in f <=> x = y) /\ (~("SF" \in f <=> "OF" \in f) <=> x < y)
  BY SubtractedFlags
<1> HIDE DEF f, x, y
<1>3. less <=> x < y
  BY <1>2
<1>4. /\ branchTaken("JE", f) <=> "ZF" \in f
      /\ branchTaken("JNE", f) <=> "ZF" \notin f
      /\ branchTaken("JL", f) <=> less
      /\ branchTaken("JLE", f) <=> ("ZF" \in f \/ less)
      /\ branchTaken("JG", f) <=> ("ZF" \notin f /\ ~less)
      /\ branchTaken("JGE", f) <=> ~less
  BY DEF branchTaken
<1> HIDE DEF less
<1>5. /\ branchTaken("JE", f)  <=> x = y
      /\ branchTaken("JNE", f) <=> x # y
      /\ branchTaken("JL", f)  <=> x < y
      /\ branchTaken("JLE", f) <=> x <= y
      /\ branchTaken("JG", f)  <=> x > y
      /\ branchTaken("JGE", f) <=> x >= y
  BY <1>1, <1>2, <1>3, <1>4
<1>6. QED
  BY <1>5, Zenon DEF f, x, y

\* Conditional branches decide the signed comparison they are named for, whatever
\* the word length and whatever the instructions before: the cases of
\* branchTaken against the subtraction that CMP makes of its operands.
THEOREM BranchesDecideSigned == Spec => []BranchesCompareSigned
<1>1. AluInv => BranchesCompareSigned
  <2> SUFFICES ASSUME AluInv, compared # NoComparison PROVE BranchesCompareSigned
    BY DEF BranchesCompareSigned
  <2>1. /\ compared.a \in Operand /\ compared.b \in Operand
        /\ flags = computeFlags(Wrap(compared.a - compared.b), compared.a, compared.b, TRUE)
    BY DEF AluInv, ComparedInv
  <2>2. QED
    BY <2>1, BranchesDecide, Zenon DEF BranchesCompareSigned
<1>2. QED
  BY <1>1, AluInductive, PTL

\* What FlagsReportOverflow says of the last instruction.
LEMMA FlagsReport == AluInv => FlagsReportOverflow
<1> SUFFICES ASSUME AluInv, last.opcode \in {"ADD", "SUB", "MUL", "INC", "DEC", "NEG"}
             PROVE  FlagsReportOverflow
  BY DEF FlagsReportOverflow
<1> DEFINE a == last.a
           b == last.b
<1>1. last # NotYet /\ a \in Operand /\ b \in Operand
  BY DEF AluInv, OperandsInv, NotYet
<1>2. a \in Int /\ b \in Int /\ 0 \in Operand /\ 1 \in Operand
  BY <1>1, OperandInt
<1>3. Signed(0) = 0 /\ Signed(1) = 1
  BY WordFacts DEF Signed, Negative
<1> DEFINE unsigned == Exact(last.opcode, a, b)
           signed == Exact(last.opcode, Signed(a), Signed(b))
           alu == IF last.opcode \in BinaryOpcode THEN evaluateBinary(last.opcode, a, b)
                                                  ELSE evaluateUnary(last.opcode, a)
<1>4. alu.writes_value /\ alu.writes_flags => dst = alu.value /\ flags = alu.flags
  BY DEF AluInv, WrittenInv, Written, BinaryOpcode, UnaryOpcode
<1> HIDE DEF alu
<1>5. CASE last.opcode = "ADD"
  <2>1. alu = Writes(Wrap(a + b), computeFlags(Wrap(a + b), a, b, FALSE))
    BY <1>5 DEF alu, evaluateBinary, BinaryOpcode
  <2>2. dst = Wrap(a + b) /\ flags = computeFlags(Wrap(a + b), a, b, FALSE)
    BY <1>4, <2>1 DEF Writes
  <2>3. unsigned = a + b /\ signed = Signed(a) + Signed(b)
    BY <1>5 DEF Exact
  <2>4. Reported(dst, flags, unsigned, signed)
    BY <1>1, <1>2, <2>2, <2>3, AddedReported
  <2>5. QED
    BY <1>5, <2>4, Zenon DEF FlagsReportOverflow, Reported
<1>6. CASE last.opcode = "SUB"
  <2>1. alu = Writes(Wrap(a - b), computeFlags(Wrap(a - b), a, b, TRUE))
    BY <1>6 DEF alu, evaluateBinary, BinaryOpcode
  <2>2. dst = Wrap(a - b) /\ flags = computeFlags(Wrap(a - b), a, b, TRUE)
    BY <1>4, <2>1 DEF Writes
  <2>3. unsigned = a - b /\ signed = Signed(a) - Signed(b)
    BY <1>6 DEF Exact
  <2>4. Reported(dst, flags, unsigned, signed)
    BY <1>1, <1>2, <2>2, <2>3, SubtractedReported
  <2>5. QED
    BY <1>6, <2>4, Zenon DEF FlagsReportOverflow, Reported
<1>7. CASE last.opcode = "MUL"
  <2>1. alu = Multiply(a, b) /\ alu.writes_value /\ alu.writes_flags
    BY <1>7 DEF alu, evaluateBinary, BinaryOpcode, Multiply, Writes
  <2>2. dst = Multiply(a, b).value /\ flags = Multiply(a, b).flags
    BY <1>4, <2>1
  <2>3. unsigned = a * b /\ signed = Signed(a) * Signed(b)
    BY <1>7 DEF Exact
  <2>4. /\ dst = Wrap(unsigned) /\ dst = Wrap(signed)
        /\ ("CF" \in flags) <=> (unsigned \notin Operand)
        /\ ("OF" \in flags) <=> FALSE
        /\ ("ZF" \in flags) <=> (dst = 0)
        /\ ("SF" \in flags) <=> (Signed(dst) < 0)
    BY <1>1, <2>2, <2>3, MultipliedFlags
  <2>5. QED
    BY <1>7, <2>4, Zenon DEF FlagsReportOverflow
<1>8. CASE last.opcode = "INC"
  <2>1. alu = Writes(Wrap(a + 1), computeFlags(Wrap(a + 1), a, 1, FALSE))
    BY <1>8 DEF alu, evaluateUnary, BinaryOpcode
  <2>2. dst = Wrap(a + 1) /\ flags = computeFlags(Wrap(a + 1), a, 1, FALSE)
    BY <1>4, <2>1 DEF Writes
  <2>3. unsigned = a + 1 /\ signed = Signed(a) + Signed(1)
    BY <1>3, <1>8 DEF Exact
  <2>4. Reported(dst, flags, unsigned, signed)
    BY <1>1, <1>2, <2>2, <2>3, AddedReported
  <2>5. QED
    BY <1>8, <2>4, Zenon DEF FlagsReportOverflow, Reported
<1>9. CASE last.opcode = "DEC"
  <2>1. alu = Writes(Wrap(a - 1), computeFlags(Wrap(a - 1), a, 1, TRUE))
    BY <1>9 DEF alu, evaluateUnary, BinaryOpcode
  <2>2. dst = Wrap(a - 1) /\ flags = computeFlags(Wrap(a - 1), a, 1, TRUE)
    BY <1>4, <2>1 DEF Writes
  <2>3. unsigned = a - 1 /\ signed = Signed(a) - Signed(1)
    BY <1>3, <1>9 DEF Exact
  <2>4. Reported(dst, flags, unsigned, signed)
    BY <1>1, <1>2, <2>2, <2>3, SubtractedReported
  <2>5. QED
    BY <1>9, <2>4, Zenon DEF FlagsReportOverflow, Reported
<1>10. CASE last.opcode = "NEG"
  <2>1. alu = Writes(Wrap(-a), computeFlags(Wrap(-a), 0, a, TRUE))
    BY <1>10 DEF alu, evaluateUnary, BinaryOpcode
  <2>2. -a = 0 - a /\ -Signed(a) = 0 - Signed(a)
    BY <1>1, SignedFacts
  <2>3. dst = Wrap(0 - a) /\ flags = computeFlags(Wrap(0 - a), 0, a, TRUE)
    BY <1>4, <2>1, <2>2 DEF Writes
  <2>4. unsigned = 0 - a /\ signed = Signed(0) - Signed(a)
    BY <1>3, <1>10, <2>2 DEF Exact
  <2>5. Reported(dst, flags, unsigned, signed)
    BY <1>1, <1>2, <2>3, <2>4, SubtractedReported
  <2>6. QED
    BY <1>10, <2>5, Zenon DEF FlagsReportOverflow, Reported
<1>11. QED
  BY <1>5, <1>6, <1>7, <1>8, <1>9, <1>10

\* For words of any length, CF and OF of ADD, SUB, MUL, INC, DEC and NEG tell
\* exactly when the result does not fit, unsigned and signed; for MUL, that the
\* quotient test of evaluateBinary finds every product that does not fit.
THEOREM FlagsTellOverflow == Spec => []FlagsReportOverflow
  BY FlagsReport, AluInductive, PTL

\* DIV and MOD are exact on words of any length, the divisor -1 that the code
\* takes apart included; only the most negative dividend wraps.
THEOREM DivisionExact == Spec => []DivisionIsExact
<1>1. AluInv => DivisionIsExact
  <2> SUFFICES ASSUME AluInv, last.opcode \in {"DIV", "MOD"} PROVE DivisionIsExact
    BY DEF DivisionIsExact
  <2> DEFINE alu == evaluateBinary(last.opcode, last.a, last.b)
  <2>1. last.a \in Operand /\ last.b \in Operand
    BY DEF AluInv, OperandsInv, NotYet
  <2>2. last.opcode \in BinaryOpcode /\ Written(alu)
    BY DEF AluInv, WrittenInv, BinaryOpcode
  <2>3. last.b # 0
    BY <2>1, <2>2, BinaryValue DEF Written
  <2>4. alu.writes_value
    BY <2>3 DEF evaluateBinary, Divide, Modulo, Logical, Writes
  <2>5. ExactDivision(last.a, last.b)
    BY <2>1, <2>3, Divided, DividedByMinusOne
  <2>6. dst = alu.value
    BY <2>2, <2>4 DEF Written
  <2>7. QED
    BY <2>5, <2>6, Zenon DEF DivisionIsExact, ExactDivision
<1>2. QED
  BY <1>1, AluInductive, PTL

\* On words of any length a shift by n is n shifts by one, CF is the bit that the
\* last of them moves out, and a count of a multiple of the length moves nothing.
THEOREM ShiftsAreRepeated == Spec => []ShiftsCompose
<1>1. AluInv => ShiftsCompose
  <2> SUFFICES ASSUME AluInv, last.opcode \in {"SHL", "SHR", "SAR"} PROVE ShiftsCompose
    BY DEF ShiftsCompose
  <2> DEFINE alu == evaluateBinary(last.opcode, last.a, last.b)
  <2>1. last.a \in Operand /\ last.b \in Operand
    BY DEF AluInv, OperandsInv, NotYet
  <2>2. Written(alu)
    BY DEF AluInv, WrittenInv, BinaryOpcode
  <2>3. RepeatedShift(last.opcode, last.a, last.b, alu)
    BY <2>1, EvaluateShift, ShiftedLeft, ShiftedRightLogically, ShiftedRightArithmetically
  <2>4. alu.writes_value /\ alu.writes_flags
    BY DEF evaluateBinary, ShiftLeft, ShiftRight, ShiftArithmetic, ShiftedRight, Writes
  <2>5. dst = alu.value /\ flags = alu.flags
    BY <2>2, <2>4 DEF Written
  <2>6. QED
    BY <2>3, <2>5, Zenon DEF ShiftsCompose, RepeatedShift
<1>2. QED
  BY <1>1, AluInductive, PTL

=============================================================================

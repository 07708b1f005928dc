--------------------------- MODULE EncodingProofs ---------------------------
(***************************************************************************)
(* Theorems about values wider than an immediate, for every width of words *)
(* and immediates, every constant, every address and whatever registers    *)
(* held before.                                                            *)
(*                                                                         *)
(* The arithmetic comes first: what \div and % are for a divisor that is   *)
(* not a number, and that Signed is the one representative of its residue  *)
(* in the range of a two's complement integer.  Then what a pair of        *)
(* instructions adds up to, and last, per statement, what the register     *)
(* holds at every pc.                                                      *)
(***************************************************************************)
EXTENDS Encoding, TLAPS, SequenceTheorems

-----------------------------------------------------------------------------
(***************************************************************************)
(* Division                                                                *)
(***************************************************************************)

LEMMA DivMod ==
  ASSUME NEW a \in Int, NEW m \in Nat, m > 0
  PROVE  /\ a % m \in 0 .. (m - 1) /\ a \div m \in Int
         /\ a = (m * (a \div m)) + (a % m)
OBVIOUS

\* The only multiple of m nearer to 0 than m is 0.
LEMMA SmallMultiple ==
  ASSUME NEW d \in Int, NEW m \in Nat, m > 0, NEW r \in Int, r = m * d, -m < r, r < m
  PROVE  d = 0
<1>1. CASE d >= 1
  <2>1. m * d >= m
    BY <1>1
  <2>2. QED
    BY <2>1
<1>2. CASE d <= -1
  <2>1. m * d <= -m
    BY <1>2
  <2>2. QED
    BY <2>1
<1>3. QED
  BY <1>1, <1>2

LEMMA DivModUnique ==
  ASSUME NEW m \in Nat, m > 0, NEW q \in Int, NEW r \in 0 .. (m - 1),
         NEW a \in Int, a = (m * q) + r
  PROVE  a % m = r /\ a \div m = q
<1> DEFINE p == a \div m
           s == a % m
<1>1. p \in Int /\ s \in 0 .. (m - 1) /\ a = (m * p) + s
  BY DivMod
<1> HIDE DEF p, s
<1>2. m * (q - p) = (m * q) - (m * p)
  BY <1>1
<1>3. q - p \in Int /\ s - r \in Int /\ s - r = m * (q - p) /\ -m < s - r /\ s - r < m
  BY <1>1, <1>2
<1>4. q - p = 0
  BY <1>3, SmallMultiple
<1>5. p = q /\ s = r
  BY <1>1, <1>3, <1>4
<1>6. QED
  BY <1>5 DEF p, s

LEMMA Shifted ==
  ASSUME NEW a \in Int, NEW m \in Nat, m > 0, NEW k \in Int
  PROVE  (a + (m * k)) % m = a % m /\ (a + (m * k)) \div m = (a \div m) + k
<1> DEFINE q == a \div m
           r == a % m
<1>1. q \in Int /\ r \in 0 .. (m - 1) /\ a = (m * q) + r
  BY DivMod
<1> HIDE DEF q, r
<1>2. a + (m * k) = (m * (q + k)) + r /\ a + (m * k) \in Int /\ q + k \in Int
  BY <1>1
<1>3. (a + (m * k)) % m = r /\ (a + (m * k)) \div m = q + k
  BY <1>1, <1>2, DivModUnique
<1>4. QED
  BY <1>3 DEF q, r

LEMMA SmallMod ==
  ASSUME NEW m \in Nat, NEW a \in 0 .. (m - 1)
  PROVE  a % m = a
<1>1. m > 0 /\ a = (m * 0) + a /\ a \in Int
  OBVIOUS
<1>2. QED
  BY <1>1, DivModUnique

LEMMA Associative ==
  ASSUME NEW a \in Int, NEW b \in Int, NEW c \in Int
  PROVE  (a * b) * c = a * (b * c)
OBVIOUS

\* A register that was reduced may be added to.
LEMMA ModOfSum ==
  ASSUME NEW a \in Int, NEW b \in Int, NEW m \in Nat, m > 0
  PROVE  ((a % m) + b) % m = (a + b) % m
<1> DEFINE q == a \div m
           r == a % m
<1>1. q \in Int /\ r \in 0 .. (m - 1) /\ a = (m * q) + r
  BY DivMod
<1> HIDE DEF q, r
<1>2. a + b = (r + b) + (m * q) /\ r + b \in Int
  BY <1>1
<1>3. ((r + b) + (m * q)) % m = (r + b) % m
  BY <1>1, <1>2, Shifted
<1>4. QED
  BY <1>2, <1>3 DEF r

LEMMA ModOfMultiple ==
  ASSUME NEW a \in Int, NEW m \in Nat, m > 0, NEW k \in Nat, k > 0
  PROVE  (a % (m * k)) % m = a % m
<1> DEFINE n == m * k
<1>1. n \in Nat /\ n > 0
  OBVIOUS
<1> DEFINE q == a \div n
           r == a % n
<1>2. q \in Int /\ r \in Int /\ a = (n * q) + r
  BY <1>1, DivMod
<1> HIDE DEF q, r
<1>3. n * q = m * (k * q)
  BY <1>2, Associative
<1> HIDE DEF n
<1>4. a = r + (m * (k * q)) /\ k * q \in Int
  BY <1>2, <1>3
<1>5. (r + (m * (k * q))) % m = r % m
  BY <1>2, <1>4, Shifted
<1>6. a % m = r % m
  BY <1>4, <1>5
<1>7. QED
  BY <1>6 DEF r, n

\* Cutting off before a shift is cutting off after it.
LEMMA ModOfProduct ==
  ASSUME NEW a \in Int, NEW m \in Nat, m > 0, NEW k \in Nat, k > 0
  PROVE  (a * k) % (m * k) = (a % m) * k
<1> DEFINE q == a \div m
           r == a % m
<1>1. q \in Int /\ r \in 0 .. (m - 1) /\ a = (m * q) + r
  BY DivMod
<1> HIDE DEF q, r
<1> DEFINE n == m * k
<1>2. n \in Nat /\ n > 0
  OBVIOUS
<1>3. a * k = (n * q) + (r * k) /\ a * k \in Int
  BY <1>1
<1>4. r * k \in 0 .. (n - 1)
  <2>1. r * k >= 0 /\ r * k \in Int
    BY <1>1
  <2>2. ((m - 1) - r) * k >= 0
    BY <1>1
  <2>3. ((m - 1) - r) * k = (n - k) - (r * k)
    BY <1>1
  <2>4. QED
    BY <1>2, <2>1, <2>2, <2>3
<1> HIDE DEF n
<1>5. (a * k) % n = r * k
  BY <1>1, <1>2, <1>3, <1>4, DivModUnique
<1>6. QED
  BY <1>5 DEF r, n

-----------------------------------------------------------------------------
(***************************************************************************)
(* Two's complement                                                        *)
(***************************************************************************)

InRange(x, range) == -range <= 2 * x /\ 2 * x < range

LEMMA SignedIs ==
  ASSUME NEW n \in Int, NEW range \in Nat, range > 0
  PROVE  /\ Signed(n, range) \in Int /\ InRange(Signed(n, range), range)
         /\ \E k \in Int : n = Signed(n, range) + (range * k)
<1> DEFINE q == n \div range
           bits == n % range
<1>1. q \in Int /\ bits \in 0 .. (range - 1) /\ n = (range * q) + bits
  BY DivMod
<1>2. Signed(n, range) = IF 2 * bits < range THEN bits ELSE bits - range
  BY DEF Signed
<1> HIDE DEF q, bits
<1>3. Signed(n, range) \in Int /\ InRange(Signed(n, range), range)
  BY <1>1, <1>2 DEF InRange
<1>4. n = bits + (range * q) /\ n = (bits - range) + (range * (q + 1)) /\ q + 1 \in Int
  BY <1>1
<1>5. QED
  BY <1>1, <1>2, <1>3, <1>4

\* Signed is the only integer in range with the same bits.
LEMMA SignedUnique ==
  ASSUME NEW n \in Int, NEW range \in Nat, range > 0,
         NEW x \in Int, InRange(x, range), NEW k \in Int, n = x + (range * k)
  PROVE  Signed(n, range) = x
<1> DEFINE s == Signed(n, range)
<1>1. PICK j \in Int : n = s + (range * j)
  BY SignedIs
<1>2. s \in Int /\ InRange(s, range)
  BY SignedIs
<1> HIDE DEF s
<1>3. range * (j - k) = (range * j) - (range * k)
  OBVIOUS
<1>4. j - k \in Int /\ x - s \in Int /\ -range < x - s /\ x - s < range
  BY <1>2 DEF InRange
<1>5. x - s = range * (j - k)
  BY <1>1, <1>2, <1>3
<1>6. j - k = 0
  BY <1>4, <1>5, SmallMultiple
<1>7. x = s
  BY <1>2, <1>5, <1>6
<1>8. QED
  BY <1>7 DEF s

\* A narrower integer that fits is the same integer.
LEMMA SignedNarrow ==
  ASSUME NEW n \in Int, NEW range \in Nat, range > 0, NEW times \in Nat, times > 0,
         InRange(Signed(n, range * times), range)
  PROVE  Signed(n, range) = Signed(n, range * times)
<1> DEFINE wide == range * times
           s == Signed(n, wide)
<1>1. wide \in Nat /\ wide > 0
  OBVIOUS
<1>2. PICK k \in Int : n = s + (wide * k)
  BY <1>1, SignedIs
<1>3. s \in Int
  BY <1>1, SignedIs
<1>4. wide * k = range * (times * k) /\ times * k \in Int
  OBVIOUS
<1> HIDE DEF s, wide
<1>5. n = s + (range * (times * k))
  BY <1>2, <1>4
<1>6. InRange(s, range)
  BY DEF s, wide
<1>7. Signed(n, range) = s
  BY <1>3, <1>4, <1>5, <1>6, SignedUnique
<1>8. QED
  BY <1>7 DEF s, wide

\* Only the bits count.
LEMMA SignedOfMod ==
  ASSUME NEW n \in Int, NEW range \in Nat, range > 0
  PROVE  Signed(n % range, range) = Signed(n, range)
<1>1. n % range \in 0 .. (range - 1)
  BY DivMod
<1>2. (n % range) % range = n % range
  BY <1>1, SmallMod
<1>3. QED
  BY <1>2 DEF Signed

LEMMA SignedZero ==
  ASSUME NEW range \in Nat, range > 0
  PROVE  Signed(0, range) = 0
<1>1. InRange(0, range) /\ 0 = 0 + (range * 0)
  BY DEF InRange
<1>2. QED
  BY <1>1, SignedUnique

-----------------------------------------------------------------------------
(***************************************************************************)
(* A pair of instructions                                                  *)
(***************************************************************************)

\* What LUI and ADDI make of the parts of n.
UpperOf(n) == Signed(HighPart(n) * Low, Word)
LowerOf(n) == Signed(LowPart(n), Low)

\* The register after LUI and ADDI of an int32_t: above PairReach the upper
\* immediate carries into its sign.
PairValue(n) == IF n \in PairReach THEN n ELSE n - Word

LEMMA WordIs ==
  /\ Low \in Nat /\ Low > 0 /\ High \in Nat /\ High > 0
  /\ Word \in Nat /\ Word > 0
  /\ Long \in Nat /\ Long > 0 /\ Wide \in Nat /\ Wide > 0
<1>1. Low \in Nat /\ Low > 0 /\ High \in Nat /\ High > 0
  BY WidthAssumption
<1>2. Word \in Nat /\ Word > 0
  BY <1>1 DEF Word
<1>3. Long \in Nat /\ Long > 0
  BY <1>2 DEF Long
<1>4. Wide \in Nat /\ Wide > 0
  BY <1>3 DEF Wide
<1>5. QED
  BY <1>1, <1>2, <1>3, <1>4

\* A register is four words.
LEMMA WideIs ==
  /\ Wide \div Word = Word * Long /\ Word * Long \in Nat /\ Word * Long > 0
  /\ Wide = (Word * Long) * Word
<1>1. Word * Long \in Nat /\ Word * Long > 0
  BY WordIs
<1>2. Wide = (Word * Long) * Word
  BY WordIs DEF Wide, Long
<1>3. (Word * Long) * Word = (Word * (Word * Long)) + 0
  BY WordIs
<1> DEFINE q == Word * Long
<1> HIDE DEF q
<1>4. Wide = (Word * q) + 0 /\ q \in Int /\ 0 \in 0 .. (Word - 1) /\ Wide \in Int
  BY <1>1, <1>2, <1>3, WordIs DEF q
<1>5. Wide \div Word = q
  BY <1>4, WordIs, DivModUnique
<1>6. QED
  BY <1>1, <1>2, <1>5 DEF q

\* Half a word is half of the upper immediates.
LEMMA HalfWord ==
  \E half \in Nat :
    /\ High = 2 * half /\ half > 0
    /\ 2 * (Low * half) = Word /\ Word \div 2 = Low * half
    /\ Low = 2 * (Low \div 2) /\ Low \div 2 \in Nat
<1> DEFINE half == High \div 2
           low == Low \div 2
<1>1. half \in Nat /\ High = 2 * half /\ half > 0
  BY WidthAssumption
<1>2. low \in Nat /\ Low = 2 * low
  BY WidthAssumption
<1>3. 2 * (Low * half) = Word
  BY WordIs, <1>1 DEF Word
<1>4. Word \div 2 = Low * half
  BY WordIs, <1>1, <1>3
<1>5. QED
  BY <1>1, <1>2, <1>3, <1>4

LEMMA Monotone ==
  ASSUME NEW m \in Nat, NEW a \in Int, NEW b \in Int, a <= b
  PROVE  m * a <= m * b
<1>1. m * (b - a) >= 0
  OBVIOUS
<1>2. m * (b - a) = (m * b) - (m * a)
  OBVIOUS
<1>3. QED
  BY <1>1, <1>2

\* The upper part carries what the sign of the lower part takes away.
LEMMA Carry ==
  ASSUME NEW n \in Int
  PROVE  /\ LowPart(n) \in Nat /\ LowerOf(n) \in Int /\ InRange(LowerOf(n), Low)
         /\ \E top \in Int : /\ n = (Low * top) + LowerOf(n)
                             /\ (n + LowPart(n)) \div Low = top
                             /\ HighPart(n) = top % High
<1> DEFINE q == n \div Low
           lo == n % Low
<1>1. q \in Int /\ lo \in 0 .. (Low - 1) /\ n = (Low * q) + lo
  BY WordIs, DivMod
<1>2. LowPart(n) = lo
  BY DEF LowPart
<1> HIDE DEF q, lo
<1>3. lo % Low = lo
  BY <1>1, WordIs, SmallMod
<1>4. LowerOf(n) = IF 2 * lo < Low THEN lo ELSE lo - Low
  BY <1>2, <1>3 DEF LowerOf, Signed
<1>5. LowPart(n) \in Nat /\ LowerOf(n) \in Int /\ InRange(LowerOf(n), Low)
  BY <1>1, <1>2, <1>4, WordIs DEF InRange
<1> DEFINE sum == n + lo
<1>6. sum \in Int /\ sum = n + lo
  BY <1>1
<1> HIDE DEF sum
<1>7. CASE 2 * lo < Low
  <2>1. sum \in Int /\ sum = (Low * q) + (2 * lo) /\ 2 * lo \in 0 .. (Low - 1)
    BY <1>1, <1>6, <1>7, WordIs
  <2>2. sum \div Low = q
    BY <1>1, <2>1, WordIs, DivModUnique
  <2>3. n = (Low * q) + LowerOf(n)
    BY <1>1, <1>4, <1>7
  <2>4. QED
    BY <1>1, <1>2, <1>5, <1>6, <2>2, <2>3 DEF HighPart
<1>8. CASE ~(2 * lo < Low)
  <2>1. (Low * (q + 1)) = (Low * q) + Low /\ q + 1 \in Int
    BY <1>1, WordIs
  <2>2. /\ sum \in Int /\ sum = (Low * (q + 1)) + ((2 * lo) - Low)
        /\ (2 * lo) - Low \in 0 .. (Low - 1)
    BY <1>1, <1>6, <1>8, <2>1, WordIs
  <2>3. sum \div Low = q + 1
    BY <2>1, <2>2, WordIs, DivModUnique
  <2>4. n = (Low * (q + 1)) + LowerOf(n)
    BY <1>1, <1>4, <1>8, <2>1, WordIs
  <2>5. QED
    BY <1>2, <1>5, <1>6, <2>1, <2>3, <2>4 DEF HighPart
<1>9. QED
  BY <1>7, <1>8

\* LUI and ADDI of the two parts add up to the integer, unless it is so close
\* to half a word that the carry reaches the sign of the upper part.
LEMMA PairAdds ==
  ASSUME NEW n \in Int, InRange(n, Word)
  PROVE  UpperOf(n) + LowerOf(n) = PairValue(n) /\ PairValue(n) \in Int
<1>1. PICK top \in Int : n = (Low * top) + LowerOf(n) /\ HighPart(n) = top % High
  BY Carry
<1> DEFINE imm == LowerOf(n)
<1>2. imm \in Int /\ InRange(imm, Low) /\ n = (Low * top) + imm
  BY <1>1, Carry
<1>3. PICK half \in Nat : /\ High = 2 * half /\ half > 0
                          /\ 2 * (Low * half) = Word /\ Word \div 2 = Low * half
                          /\ Low = 2 * (Low \div 2) /\ Low \div 2 \in Nat
  BY HalfWord
<1>4. UpperOf(n) = Signed(Low * top, Word)
  <2>1. (top * Low) % (High * Low) = (top % High) * Low
    BY WordIs, ModOfProduct
  <2>2. High * Low = Word /\ top * Low = Low * top /\ Low * top \in Int
    BY WordIs DEF Word
  <2>3. HighPart(n) * Low = (Low * top) % Word
    BY <1>1, <2>1, <2>2
  <2>4. Signed((Low * top) % Word, Word) = Signed(Low * top, Word)
    BY <2>2, WordIs, SignedOfMod
  <2>5. QED
    BY <2>3, <2>4 DEF UpperOf
<1> HIDE DEF imm
<1>5. Low * half \in Int /\ Low * top \in Int
  BY WordIs
<1>6. top <= half
  <2>1. SUFFICES ASSUME top >= half + 1 PROVE FALSE
    BY <1>3
  <2>2. Low * (half + 1) <= Low * top
    BY <2>1, WordIs, Monotone
  <2>3. Low * (half + 1) = (Low * half) + Low
    BY WordIs
  <2>4. QED
    BY <1>2, <1>3, <1>5, <2>2, <2>3, WordIs DEF InRange
<1>7. top >= -half
  <2>1. SUFFICES ASSUME top <= (-half) - 1 PROVE FALSE
    BY <1>3
  <2>2. Low * top <= Low * ((-half) - 1)
    BY <2>1, WordIs, Monotone
  <2>3. Low * ((-half) - 1) = (-(Low * half)) - Low
    BY WordIs
  <2>4. QED
    BY <1>2, <1>3, <1>5, <2>2, <2>3, WordIs DEF InRange
<1>8. CASE top < half
  <2>1. Low * top <= Low * (half - 1) /\ Low * (-half) <= Low * top
    BY <1>3, <1>7, <1>8, WordIs, Monotone
  <2>2. Low * (half - 1) = (Low * half) - Low /\ Low * (-half) = -(Low * half)
    BY WordIs
  <2>3. InRange(Low * top, Word)
    BY <1>3, <1>5, <2>1, <2>2, WordIs DEF InRange
  <2>4. Signed(Low * top, Word) = Low * top
    <3>1. Low * top = (Low * top) + (Word * 0)
      BY <1>5, WordIs
    <3>2. QED
      BY <1>5, <2>3, <3>1, WordIs, SignedUnique
  <2>5. n \in PairReach
    BY <1>2, <1>3, <1>5, <2>1, <2>2, WordIs DEF PairReach, InRange
  <2>6. QED
    BY <1>2, <1>4, <1>5, <2>4, <2>5 DEF PairValue, imm
<1>9. CASE top = half
  <2>1. Signed(Low * top, Word) = (Low * top) - Word
    <3> DEFINE all == Low * top
               rest == all - Word
    <3>1. all \in Int /\ rest \in Int /\ all = rest + (Word * 1) /\ InRange(rest, Word)
      BY <1>3, <1>5, <1>9, WordIs DEF InRange
    <3> HIDE DEF all, rest
    <3>2. PICK k \in Int : all = rest + (Word * k)
      <4>1. 1 \in Int
        OBVIOUS
      <4>2. QED
        BY <3>1, <4>1
    <3>3. Signed(all, Word) = rest
      BY <3>1, <3>2, WordIs, SignedUnique
    <3>4. QED
      BY <3>3 DEF all, rest
  <2>2. n \notin PairReach
    BY <1>2, <1>3, <1>5, <1>9, WordIs DEF PairReach, InRange
  <2>3. QED
    BY <1>2, <1>4, <1>5, <2>1, <2>2, WordIs DEF PairValue, imm
<1>10. QED
  BY <1>3, <1>6, <1>8, <1>9

\* Either instruction alone does when the other's part is 0.
LEMMA HighIsZero ==
  ASSUME NEW n \in Int, InRange(n, Word), HighPart(n) = 0
  PROVE  LowerOf(n) = PairValue(n)
<1>1. UpperOf(n) = 0
  BY WordIs, SignedZero DEF UpperOf
<1>2. QED
  BY <1>1, PairAdds, Carry

LEMMA LowIsZero ==
  ASSUME NEW n \in Int, InRange(n, Word), LowPart(n) = 0
  PROVE  UpperOf(n) = PairValue(n)
<1>1. LowerOf(n) = 0
  BY WordIs, SignedZero DEF LowerOf
<1>2. UpperOf(n) \in Int
  <2>1. HighPart(n) \in Int
    BY Carry, WordIs, DivMod
  <2>2. HighPart(n) * Low \in Int
    BY <2>1, WordIs
  <2>3. QED
    BY <2>2, WordIs, SignedIs DEF UpperOf
<1>3. QED
  BY <1>1, <1>2, PairAdds

\* The parts are those of any integer with the same word.
LEMMA PartsOfWord ==
  ASSUME NEW n \in Int, NEW k \in Int
  PROVE  LowPart(n + (Word * k)) = LowPart(n) /\ HighPart(n + (Word * k)) = HighPart(n)
<1>1. Word * k = Low * (High * k) /\ High * k \in Int
  BY WordIs, Associative DEF Word
<1> DEFINE m == n + (Word * k)
<1>2. m = n + (Low * (High * k))
  BY <1>1
<1>3. (n + (Low * (High * k))) % Low = n % Low
  BY <1>1, WordIs, Shifted
<1>4. LowPart(m) = LowPart(n)
  BY <1>2, <1>3 DEF LowPart
<1> DEFINE sum == n + LowPart(n)
<1>5. sum \in Int /\ LowPart(n) \in Int
  BY Carry
<1>6. m + LowPart(m) = sum + (Low * (High * k))
  BY <1>1, <1>2, <1>4, <1>5, WordIs
<1> HIDE DEF sum, m
<1>7. (sum + (Low * (High * k))) \div Low = (sum \div Low) + (High * k)
  BY <1>1, <1>5, WordIs, Shifted
<1>8. sum \div Low \in Int
  BY <1>5, WordIs, DivMod
<1>9. ((sum \div Low) + (High * k)) % High = (sum \div Low) % High
  BY <1>8, WordIs, Shifted
<1>10. HighPart(m) = HighPart(n)
  BY <1>6, <1>7, <1>9 DEF HighPart, sum
<1>11. QED
  BY <1>4, <1>10 DEF m

-----------------------------------------------------------------------------
(***************************************************************************)
(* The machine                                                             *)
(***************************************************************************)

Loadable == {"dst", "temp"}

\* The instructions the statements assemble to.
Instruction ==
  [op : {"lui", "auipc", "addi", "slli", "add"}, rd : Loadable,
   rs1 : Registers, rs2 : Registers, imm : Nat]
    \cup [op : {"jalr"}, rd : Registers, rs1 : Registers, rs2 : Registers, imm : Nat]

\* Sequences of instructions, one after the other.
Code == Seq(Instruction)
Size(s) == Len(s)
Joined(s, t) == s \o t
Then(i, t) == Joined(<<i>>, t)
Nil == <<>>

\* What is left to run.
Ahead(rest) ==
  /\ pc + Size(rest) = Size(code) + 1
  /\ \A k \in 1 .. Size(rest) : rest[k] = code[pc + (k - 1)]

MachineInv ==
  /\ request \in Requests
  /\ code = CodeOf(request)
  /\ code \in Code
  /\ pc \in 1 .. (Size(code) + 1)
  /\ regs \in [Registers -> 0 .. (Wide - 1)]
  /\ regs["zero"] = 0

\* Instructions by their fields.
WordOf(op, rd, rs1, rs2, imm) ==
  [op |-> op, rd |-> rd, rs1 |-> rs1, rs2 |-> rs2, imm |-> imm]

\* Instructions as opcodes.cpp fills them in.
Plain(op, reg, imm) == [Instr(op) EXCEPT !.rd = reg, !.imm = imm]
From(op, reg, from, imm) == [Instr(op) EXCEPT !.rd = reg, !.rs1 = from, !.imm = imm]

\* The two instructions of a pair.
Lui(reg, n) == WordOf("lui", reg, "zero", "zero", HighPart(n))
Addi(reg, from, n) == WordOf("addi", reg, from, "zero", LowPart(n))
Pair(reg, n) == <<Lui(reg, n), Addi(reg, reg, n)>>

LEMMA SameFields ==
  ASSUME NEW x \in Instruction, NEW y \in Instruction,
         x.op = y.op, x.rd = y.rd, x.rs1 = y.rs1, x.rs2 = y.rs2, x.imm = y.imm
  PROVE  x = y
BY DEF Instruction

LEMMA WordsFrom ==
  ASSUME NEW op \in {"lui", "auipc", "addi"}, NEW reg \in Loadable,
         NEW from \in Registers, NEW imm \in Nat
  PROVE  /\ WordOf(op, reg, from, "zero", imm) \in Instruction
         /\ From(op, reg, from, imm) = WordOf(op, reg, from, "zero", imm)
<1> DEFINE x == From(op, reg, from, imm)
           w == WordOf(op, reg, from, "zero", imm)
<1>1. /\ x \in Instruction /\ x.op = op /\ x.rd = reg /\ x.rs1 = from
      /\ x.rs2 = "zero" /\ x.imm = imm
  BY DEF From, Plain, Instr, Instruction, Registers, Loadable
<1>2. /\ w \in Instruction /\ w.op = op /\ w.rd = reg /\ w.rs1 = from
      /\ w.rs2 = "zero" /\ w.imm = imm
  BY DEF WordOf, Instruction, Registers, Loadable
<1> HIDE DEF x, w
<1>3. x = w
  BY <1>1, <1>2, SameFields
<1>4. QED
  BY <1>2, <1>3 DEF x, w

LEMMA WordsAre ==
  ASSUME NEW op \in {"lui", "auipc", "addi"}, NEW reg \in Loadable, NEW imm \in Nat
  PROVE  /\ WordOf(op, reg, "zero", "zero", imm) \in Instruction
         /\ Plain(op, reg, imm) = WordOf(op, reg, "zero", "zero", imm)
<1> DEFINE x == Plain(op, reg, imm)
           w == WordOf(op, reg, "zero", "zero", imm)
<1>1. /\ x \in Instruction /\ x.op = op /\ x.rd = reg /\ x.rs1 = "zero"
      /\ x.rs2 = "zero" /\ x.imm = imm
  BY DEF From, Plain, Instr, Instruction, Registers, Loadable
<1>2. /\ w \in Instruction /\ w.op = op /\ w.rd = reg /\ w.rs1 = "zero"
      /\ w.rs2 = "zero" /\ w.imm = imm
  BY DEF WordOf, Instruction, Registers, Loadable
<1> HIDE DEF x, w
<1>3. x = w
  BY <1>1, <1>2, SameFields
<1>4. QED
  BY <1>2, <1>3 DEF x, w

LEMMA AddWordsAre ==
  /\ ShiftWord \in Instruction /\ ShiftWord = WordOf("slli", "dst", "dst", "zero", 0)
  /\ AddTemp \in Instruction /\ AddTemp = WordOf("add", "dst", "dst", "temp", 0)
<1>1. /\ ShiftWord \in Instruction /\ ShiftWord.op = "slli" /\ ShiftWord.rd = "dst"
      /\ ShiftWord.rs1 = "dst" /\ ShiftWord.rs2 = "zero" /\ ShiftWord.imm = 0
  BY DEF ShiftWord, Instr, Instruction, Registers, Loadable
<1>2. /\ AddTemp \in Instruction /\ AddTemp.op = "add" /\ AddTemp.rd = "dst"
      /\ AddTemp.rs1 = "dst" /\ AddTemp.rs2 = "temp" /\ AddTemp.imm = 0
  BY DEF AddTemp, Instr, Instruction, Registers, Loadable
<1>3. LET w == WordOf("slli", "dst", "dst", "zero", 0)
      IN  /\ w \in Instruction /\ w.op = "slli" /\ w.rd = "dst" /\ w.rs1 = "dst"
          /\ w.rs2 = "zero" /\ w.imm = 0
  BY DEF WordOf, Instruction, Registers, Loadable
<1>4. LET w == WordOf("add", "dst", "dst", "temp", 0)
      IN  /\ w \in Instruction /\ w.op = "add" /\ w.rd = "dst" /\ w.rs1 = "dst"
          /\ w.rs2 = "temp" /\ w.imm = 0
  BY DEF WordOf, Instruction, Registers, Loadable
<1>5. QED
  BY <1>1, <1>2, <1>3, <1>4, SameFields

LEMMA PartsAreNat ==
  ASSUME NEW n \in Int
  PROVE  LowPart(n) \in Nat /\ HighPart(n) \in Nat
<1>1. LowPart(n) \in Nat
  BY Carry
<1>2. PICK top \in Int : HighPart(n) = top % High
  BY Carry
<1>3. top % High \in 0 .. (High - 1)
  BY WordIs, DivMod
<1>4. QED
  BY <1>1, <1>2, <1>3, WordIs

LEMMA PairTyped ==
  ASSUME NEW reg \in Loadable, NEW n \in Int
  PROVE  /\ Lui(reg, n) \in Instruction /\ Addi(reg, reg, n) \in Instruction
         /\ Addi(reg, "zero", n) \in Instruction
         /\ Pair(reg, n) \in Seq(Instruction)
<1>1. reg \in Registers /\ "zero" \in Registers
  BY DEF Loadable, Registers
<1>2. /\ Lui(reg, n) \in Instruction /\ Addi(reg, reg, n) \in Instruction
      /\ Addi(reg, "zero", n) \in Instruction
  BY <1>1, PartsAreNat, WordsAre, WordsFrom DEF Lui, Addi
<1>3. QED
  BY <1>2 DEF Pair

\* build_uint32 leaves out what adds nothing.
LEMMA BuildIs ==
  ASSUME NEW reg \in Loadable, NEW n \in Int
  PROVE  /\ \/ HighPart(n) = 0 /\ BuildUint32(reg, n) = <<Addi(reg, "zero", n)>>
            \/ LowPart(n) = 0 /\ BuildUint32(reg, n) = <<Lui(reg, n)>>
            \/ BuildUint32(reg, n) = Pair(reg, n)
         /\ BuildUint32(reg, n) \in Seq(Instruction)
<1>1. reg \in Registers /\ "zero" \in Registers
  BY DEF Loadable, Registers
<1>2. Lui(reg, n) = Plain("lui", reg, HighPart(n))
  BY <1>1, PartsAreNat, WordsAre DEF Lui
<1>3. Addi(reg, "zero", n) = Plain("addi", reg, LowPart(n))
  BY <1>1, PartsAreNat, WordsAre DEF Addi
<1>4. Addi(reg, reg, n) = [Addi(reg, "zero", n) EXCEPT !.rs1 = reg]
  BY DEF Addi, WordOf
<1>5. \/ HighPart(n) = 0 /\ BuildUint32(reg, n) = <<Addi(reg, "zero", n)>>
      \/ LowPart(n) = 0 /\ BuildUint32(reg, n) = <<Lui(reg, n)>>
      \/ BuildUint32(reg, n) = <<Lui(reg, n), Addi(reg, reg, n)>>
  <2> DEFINE addi == Plain("addi", reg, LowPart(n))
             lui  == Plain("lui", reg, HighPart(n))
  <2>1. BuildUint32(reg, n) = IF HighPart(n) = 0 THEN <<addi>>
                              ELSE IF LowPart(n) = 0 THEN <<lui>>
                              ELSE <<lui, [addi EXCEPT !.rs1 = reg]>>
    BY DEF BuildUint32, Plain
  <2>2. addi = Addi(reg, "zero", n) /\ lui = Lui(reg, n)
    BY <1>2, <1>3
  <2> HIDE DEF addi, lui
  <2>3. QED
    BY <1>4, <2>1, <2>2
<1>6. /\ <<Addi(reg, "zero", n)>> \in Seq(Instruction) /\ <<Lui(reg, n)>> \in Seq(Instruction)
      /\ Pair(reg, n) \in Seq(Instruction)
  BY PairTyped
<1>7. QED
  BY <1>5, <1>6 DEF Pair

-----------------------------------------------------------------------------
(***************************************************************************)
(* The statements assemble to instructions                                 *)
(***************************************************************************)

LEMMA RequestTypes ==
  ASSUME NEW r \in Requests
  PROVE  /\ r.op \in {"li", "set", "la", "laq", "farcall"}
         /\ r.value \in 0 .. (Wide - 1) /\ r.loc \in 0 .. (Wide - 1)
<1>1. 0 \in 0 .. (Wide - 1)
  BY WordIs
<1>2. QED
  BY <1>1, OperandAssumption DEF Requests

LEMMA WeightIs ==
  ASSUME NEW i \in 0 .. 3
  PROVE  Weight(i) \in Nat /\ Weight(i) > 0
<1>1. Long * Word \in Nat /\ Long * Word > 0
  BY WordIs
<1>2. i = 0 \/ i = 1 \/ i = 2 \/ i = 3
  OBVIOUS
<1>3. QED
  BY <1>1, <1>2, WordIs DEF Weight

LEMMA PartIs ==
  ASSUME NEW value \in Int, NEW i \in 0 .. 3
  PROVE  Part(value, i) \in Int /\ InRange(Part(value, i), Word)
<1>1. value \div Weight(i) \in Int
  BY WeightIs, DivMod
<1>2. QED
  BY <1>1, WordIs, SignedIs DEF Part

LEMMA SetPartTyped ==
  ASSUME NEW value \in Int, NEW i \in 0 .. 2
  PROVE  SetPart(value, i) \in Seq(Instruction)
<1>1. BuildUint32("temp", Part(value, i)) \in Seq(Instruction)
  <2>1. "temp" \in Loadable /\ i \in 0 .. 3
    BY DEF Loadable
  <2>2. QED
    BY <2>1, PartIs, BuildIs
<1>2. /\ <<ShiftWord>> \in Seq(Instruction) /\ <<AddTemp>> \in Seq(Instruction)
      /\ <<>> \in Seq(Instruction)
  BY AddWordsAre
<1>3. QED
  BY <1>1, <1>2 DEF SetPart

LEMMA SetTyped ==
  ASSUME NEW value \in Int
  PROVE  Set(value) \in Seq(Instruction)
<1>1. Signed(value, Word) \in Int
  BY WordIs, SignedIs
<1>2. BuildUint32("dst", Signed(value, Word)) \in Seq(Instruction)
  BY <1>1, BuildIs DEF Loadable
<1>3. BuildUint32("dst", Part(value, 3)) \in Seq(Instruction)
  BY PartIs, BuildIs DEF Loadable
<1>4. /\ SetPart(value, 2) \in Seq(Instruction) /\ SetPart(value, 1) \in Seq(Instruction)
      /\ SetPart(value, 0) \in Seq(Instruction)
  BY SetPartTyped
<1>5. QED
  BY <1>2, <1>3, <1>4 DEF Set

\* The integer la puts in its two instructions.
LaNear(loc, sym) == IsRelativelyClose(Signed(sym - loc, Long))
LaValue(loc, sym) == IF LaNear(loc, sym) THEN Signed(sym - loc, Long) ELSE sym

LEMMA LaIs ==
  ASSUME NEW loc \in Int, NEW sym \in Int
  PROVE  LET n == LaValue(loc, sym)
             op == IF LaNear(loc, sym) THEN "auipc" ELSE "lui"
         IN  /\ n \in Int
             /\ La(loc, sym) = << WordOf(op, "dst", "zero", "zero", HighPart(n)),
                                  Addi("dst", "dst", n) >>
             /\ La(loc, sym) \in Seq(Instruction)
<1> DEFINE n == LaValue(loc, sym)
           op == IF LaNear(loc, sym) THEN "auipc" ELSE "lui"
<1>1. n \in Int
  BY WordIs, SignedIs DEF LaValue
<1>2. HighPart(n) \in Nat /\ LowPart(n) \in Nat
  BY <1>1, PartsAreNat
<1>3. La(loc, sym) = << Plain(op, "dst", HighPart(n)), From("addi", "dst", "dst", LowPart(n)) >>
  BY DEF La, LaNear, LaValue, Plain, From
<1>4. op \in {"lui", "auipc", "addi"}
  OBVIOUS
<1> HIDE DEF n, op
<1>5. /\ "dst" \in Loadable /\ "dst" \in Registers /\ "zero" \in Registers
      /\ "addi" \in {"lui", "auipc", "addi"}
  BY DEF Loadable, Registers
<1>6. /\ WordOf(op, "dst", "zero", "zero", HighPart(n)) \in Instruction
      /\ Plain(op, "dst", HighPart(n)) = WordOf(op, "dst", "zero", "zero", HighPart(n))
  BY <1>2, <1>4, <1>5, WordsAre
<1>7. /\ Addi("dst", "dst", n) \in Instruction
      /\ From("addi", "dst", "dst", LowPart(n)) = Addi("dst", "dst", n)
  BY <1>2, <1>5, WordsFrom DEF Addi
<1>8. QED
  BY <1>1, <1>3, <1>6, <1>7 DEF n, op

Jalr(n) == WordOf("jalr", "zero", "temp", "zero", LowPart(n))

LEMMA FarcallIs ==
  ASSUME NEW sym \in Int
  PROVE  LET lui == WordOf("lui", "temp", "zero", "zero", (sym \div Low) % High)
         IN  /\ Farcall(sym) = <<lui, Jalr(sym)>>
             /\ Farcall(sym) \in Seq(Instruction)
<1>1. LowPart(sym) \in Nat
  BY PartsAreNat
<1> DEFINE high == (sym \div Low) % High
<1>2. high \in Nat
  BY WordIs, DivMod
<1>3. Farcall(sym) = << Plain("lui", "temp", high),
                        [Instr("jalr") EXCEPT !.rs1 = "temp", !.imm = LowPart(sym)] >>
  BY DEF Farcall, Plain
<1> HIDE DEF high
<1>4. /\ WordOf("lui", "temp", "zero", "zero", high) \in Instruction
      /\ Plain("lui", "temp", high) = WordOf("lui", "temp", "zero", "zero", high)
  <2>1. "temp" \in Loadable /\ "zero" \in Registers /\ "lui" \in {"lui", "auipc", "addi"}
    BY DEF Loadable, Registers
  <2>2. QED
    BY <1>2, <2>1, WordsAre
<1> DEFINE jalr == [Instr("jalr") EXCEPT !.rs1 = "temp", !.imm = LowPart(sym)]
<1>5. /\ jalr \in Instruction /\ jalr.op = "jalr" /\ jalr.rd = "zero" /\ jalr.rs1 = "temp"
      /\ jalr.rs2 = "zero" /\ jalr.imm = LowPart(sym)
  BY <1>1 DEF Instr, Instruction, Registers
<1>6. LET w == Jalr(sym)
      IN  /\ w \in Instruction /\ w.op = "jalr" /\ w.rd = "zero" /\ w.rs1 = "temp"
          /\ w.rs2 = "zero" /\ w.imm = LowPart(sym)
  BY <1>1 DEF Jalr, WordOf, Instruction, Registers
<1> HIDE DEF jalr
<1>7. jalr = Jalr(sym)
  BY <1>5, <1>6, SameFields
<1>8. QED
  BY <1>3, <1>4, <1>6, <1>7 DEF high, jalr

-----------------------------------------------------------------------------
(***************************************************************************)
(* laq outputs pairs, and patching puts the parts of the address in them   *)
(***************************************************************************)

\* The value of a placeholder needs both instructions.
LEMMA Placeholders ==
  ASSUME NEW reg \in Loadable
  PROVE  \E n \in Int : n = (Word \div 2) - 1 /\ BuildUint32(reg, n) = Pair(reg, n)
<1>1. PICK half \in Nat : /\ High = 2 * half /\ half > 0
                          /\ 2 * (Low * half) = Word /\ Word \div 2 = Low * half
                          /\ Low = 2 * (Low \div 2) /\ Low \div 2 \in Nat
  BY HalfWord
<1> DEFINE n == (Word \div 2) - 1
<1>2. n \in Int /\ n = (Low * half) - 1 /\ Low > 1
  BY <1>1, WordIs, WidthAssumption
<1> HIDE DEF n
<1>3. LowPart(n) = Low - 1
  <2> DEFINE below == half - 1
             rest == Low - 1
  <2>1. n = (Low * below) + rest /\ below \in Int /\ rest \in 0 .. (Low - 1)
    BY <1>1, <1>2, WordIs
  <2> HIDE DEF below, rest
  <2>2. n % Low = rest
    BY <1>2, <2>1, WordIs, DivModUnique
  <2>3. QED
    BY <2>2 DEF LowPart, rest
<1>4. HighPart(n) = half
  <2> DEFINE sum == n + (Low - 1)
             rest == Low - 2
  <2>1. sum \in Int /\ sum = (Low * half) + rest /\ half \in Int /\ rest \in 0 .. (Low - 1)
    BY <1>1, <1>2, WordIs
  <2> HIDE DEF sum, rest
  <2>2. sum \div Low = half
    BY <2>1, WordIs, DivModUnique
  <2>3. half % High = half
    <3>1. half \in 0 .. (High - 1)
      BY <1>1
    <3>2. QED
      BY <3>1, WordIs, SmallMod
  <2>4. QED
    BY <1>3, <2>2, <2>3 DEF HighPart, sum
<1>5. HighPart(n) # 0 /\ LowPart(n) # 0
  BY <1>1, <1>2, <1>3, <1>4, WordIs
<1>6. BuildUint32(reg, n) = Pair(reg, n)
  <2>1. LET addi == Plain("addi", reg, LowPart(n))
            lui  == Plain("lui", reg, HighPart(n))
        IN  BuildUint32(reg, n) = <<lui, [addi EXCEPT !.rs1 = reg]>>
    BY <1>5 DEF BuildUint32, Plain
  <2>2. Plain("lui", reg, HighPart(n)) = Lui(reg, n)
    BY <1>2, PartsAreNat, WordsAre DEF Lui
  <2>3. Plain("addi", reg, LowPart(n)) = Addi(reg, "zero", n)
    BY <1>2, PartsAreNat, WordsAre DEF Addi
  <2>4. [Addi(reg, "zero", n) EXCEPT !.rs1 = reg] = Addi(reg, reg, n)
    BY DEF Addi, WordOf
  <2>5. QED
    BY <2>1, <2>2, <2>3, <2>4 DEF Pair
<1>7. QED
  BY <1>2, <1>6 DEF n

\* A patched instruction is the one built for the patch.
LEMMA PatchedPair ==
  ASSUME NEW reg \in Loadable, NEW m \in Int, NEW n \in Int
  PROVE  SetUint32(Pair(reg, m), 1, n) = Pair(reg, n)
<1> DEFINE x == Lui(reg, m)
           y == Addi(reg, reg, m)
           u == Lui(reg, n)
           v == Addi(reg, reg, n)
<1>1. u = [x EXCEPT !.imm = HighPart(n)] /\ v = [y EXCEPT !.imm = LowPart(n)]
  BY DEF Lui, Addi, WordOf
<1> HIDE DEF x, y, u, v
<1> DEFINE w == <<x, y>>
<1>2. w[1] = x /\ w[2] = y
  OBVIOUS
<1>3. [w EXCEPT ![1] = u, ![2] = v] = <<u, v>>
  OBVIOUS
<1> HIDE DEF w
<1>4. SetUint32(w, 1, n) = [w EXCEPT ![1] = [w[1] EXCEPT !.imm = HighPart(n)],
                                     ![1 + 1] = [w[1 + 1] EXCEPT !.imm = LowPart(n)]]
  BY DEF SetUint32
<1>5. SetUint32(w, 1, n) = [w EXCEPT ![1] = u, ![2] = v]
  BY <1>1, <1>2, <1>4
<1>6. QED
  BY <1>3, <1>5 DEF Pair, x, y, u, v, w

LEMMA JoinedIs ==
  ASSUME NEW s \in Code, NEW t \in Code
  PROVE  /\ Joined(s, t) \in Code /\ Size(s) \in Nat /\ Size(t) \in Nat
         /\ Size(Joined(s, t)) = Size(s) + Size(t)
         /\ \A k \in 1 .. (Size(s) + Size(t)) :
              Joined(s, t)[k] = IF k <= Size(s) THEN s[k] ELSE t[k - Size(s)]
BY ConcatProperties DEF Code, Size, Joined

LEMMA JoinedTyped ==
  ASSUME NEW s \in Code, NEW t \in Code
  PROVE  Joined(s, t) \in Code /\ Size(Joined(s, t)) = Size(s) + Size(t)
BY JoinedIs

LEMMA SameCode ==
  ASSUME NEW s \in Code, NEW t \in Code, Size(s) = Size(t), \A k \in 1 .. Size(s) : s[k] = t[k]
  PROVE  s = t
BY SeqEqual DEF Code, Size

\* Patching changes two words.
LEMMA PatchIs ==
  ASSUME NEW s \in Code, NEW at \in Nat, 0 < at, at < Size(s), NEW n \in Int
  PROVE  /\ SetUint32(s, at, n) \in Code /\ Size(SetUint32(s, at, n)) = Size(s)
         /\ SetUint32(s, at, n)[at] = [s[at] EXCEPT !.imm = HighPart(n)]
         /\ SetUint32(s, at, n)[at + 1] = [s[at + 1] EXCEPT !.imm = LowPart(n)]
         /\ \A k \in 1 .. Size(s) : k # at /\ k # at + 1 => SetUint32(s, at, n)[k] = s[k]
<1> DEFINE x == [s[at] EXCEPT !.imm = HighPart(n)]
           y == [s[at + 1] EXCEPT !.imm = LowPart(n)]
<1>1. x \in Instruction /\ y \in Instruction
  <2>1. \A i \in Instruction, imm \in Nat : [i EXCEPT !.imm = imm] \in Instruction
    BY DEF Instruction
  <2>2. s[at] \in Instruction /\ s[at + 1] \in Instruction
    BY DEF Code, Size
  <2>3. QED
    BY <2>1, <2>2, PartsAreNat
<1>2. SetUint32(s, at, n) = [s EXCEPT ![at] = x, ![at + 1] = y]
  BY DEF SetUint32
<1> HIDE DEF x, y
<1> DEFINE t == [s EXCEPT ![at] = x]
           w == [t EXCEPT ![at + 1] = y]
<1>3. at \in 1 .. Len(s) /\ at + 1 \in 1 .. Len(s) /\ s \in Seq(Instruction)
  BY DEF Size, Code
<1>4. /\ t \in Seq(Instruction) /\ Len(t) = Len(s)
      /\ \A j \in 1 .. Len(s) : t[j] = IF j = at THEN x ELSE s[j]
  BY <1>1, <1>3, ExceptSeq
<1>5. w = SetUint32(s, at, n)
  BY <1>2
<1> HIDE DEF t
<1>6. /\ w \in Seq(Instruction) /\ Len(w) = Len(s)
      /\ \A j \in 1 .. Len(s) : w[j] = IF j = at + 1 THEN y ELSE t[j]
  BY <1>1, <1>3, <1>4, ExceptSeq
<1> HIDE DEF w
<1>7. w[at] = x /\ w[at + 1] = y
  BY <1>3, <1>4, <1>6
<1>8. QED
  BY <1>3, <1>4, <1>5, <1>6, <1>7 DEF x, y, Code, Size

LEMMA PatchLeft ==
  ASSUME NEW s \in Code, NEW t \in Code,
         NEW at \in Nat, 0 < at, at < Size(s), NEW n \in Int
  PROVE  SetUint32(Joined(s, t), at, n) = Joined(SetUint32(s, at, n), t)
<1> DEFINE st == Joined(s, t)
           p == SetUint32(st, at, n)
           q == SetUint32(s, at, n)
           qt == Joined(q, t)
<1>1. Size(s) \in Nat /\ Size(t) \in Nat
  BY JoinedIs
<1>2. /\ st \in Code /\ Size(st) = Size(s) + Size(t)
      /\ \A k \in 1 .. (Size(s) + Size(t)) : st[k] = IF k <= Size(s) THEN s[k] ELSE t[k - Size(s)]
  BY JoinedIs
<1>3. /\ q \in Code /\ Size(q) = Size(s)
      /\ q[at] = [s[at] EXCEPT !.imm = HighPart(n)]
      /\ q[at + 1] = [s[at + 1] EXCEPT !.imm = LowPart(n)]
      /\ \A k \in 1 .. Size(s) : k # at /\ k # at + 1 => q[k] = s[k]
  BY PatchIs
<1> HIDE DEF st, q
<1>4. at < Size(st)
  BY <1>1, <1>2
<1>5. /\ p \in Code /\ Size(p) = Size(st)
      /\ p[at] = [st[at] EXCEPT !.imm = HighPart(n)]
      /\ p[at + 1] = [st[at + 1] EXCEPT !.imm = LowPart(n)]
      /\ \A k \in 1 .. Size(st) : k # at /\ k # at + 1 => p[k] = st[k]
  BY <1>2, <1>4, PatchIs
<1>6. /\ qt \in Code /\ Size(qt) = Size(s) + Size(t)
      /\ \A k \in 1 .. (Size(s) + Size(t)) : qt[k] = IF k <= Size(s) THEN q[k] ELSE t[k - Size(s)]
  <2>1. /\ qt \in Code /\ Size(qt) = Size(q) + Size(t)
        /\ \A k \in 1 .. (Size(q) + Size(t)) : qt[k] = IF k <= Size(q) THEN q[k] ELSE t[k - Size(q)]
    BY <1>3, JoinedIs
  <2> HIDE DEF qt
  <2>2. QED
    BY <1>3, <2>1
<1> HIDE DEF p, qt
<1>7. ASSUME NEW k \in 1 .. Size(p) PROVE p[k] = qt[k]
  <2>1. k \in 1 .. (Size(s) + Size(t)) /\ k \in 1 .. Size(st)
    BY <1>2, <1>5
  <2>2. CASE k = at
    BY <1>1, <1>2, <1>3, <1>5, <1>6, <2>1, <2>2
  <2>3. CASE k = at + 1
    BY <1>1, <1>2, <1>3, <1>5, <1>6, <2>1, <2>3
  <2>4. CASE k # at /\ k # at + 1
    <3>1. p[k] = st[k]
      BY <1>5, <2>1, <2>4
    <3>2. k <= Size(s) => q[k] = s[k]
      BY <1>3, <2>1, <2>4
    <3>3. QED
      BY <1>2, <1>6, <2>1, <3>1, <3>2
  <2>5. QED
    BY <2>2, <2>3, <2>4
<1>8. p = qt
  BY <1>2, <1>5, <1>6, <1>7, SameCode
<1>9. QED
  BY <1>8 DEF p, qt, st, q

LEMMA PatchRight ==
  ASSUME NEW s \in Code, NEW t \in Code,
         NEW at \in Nat, 0 < at, at < Size(t), NEW n \in Int,
         NEW from \in Nat, from = Size(s) + at
  PROVE  SetUint32(Joined(s, t), from, n) = Joined(s, SetUint32(t, at, n))
<1> DEFINE st == Joined(s, t)
           p == SetUint32(st, from, n)
           q == SetUint32(t, at, n)
           sq == Joined(s, q)
<1>1. Size(s) \in Nat /\ Size(t) \in Nat
  BY JoinedIs
<1>2. /\ st \in Code /\ Size(st) = Size(s) + Size(t)
      /\ \A k \in 1 .. (Size(s) + Size(t)) : st[k] = IF k <= Size(s) THEN s[k] ELSE t[k - Size(s)]
  BY JoinedIs
<1>3. /\ q \in Code /\ Size(q) = Size(t)
      /\ q[at] = [t[at] EXCEPT !.imm = HighPart(n)]
      /\ q[at + 1] = [t[at + 1] EXCEPT !.imm = LowPart(n)]
      /\ \A k \in 1 .. Size(t) : k # at /\ k # at + 1 => q[k] = t[k]
  BY PatchIs
<1> HIDE DEF st, q
<1>4. st \in Code /\ 0 < from /\ from < Size(st)
  BY <1>1, <1>2
<1>5. /\ p \in Code /\ Size(p) = Size(st)
      /\ p[from] = [st[from] EXCEPT !.imm = HighPart(n)]
      /\ p[from + 1] = [st[from + 1] EXCEPT !.imm = LowPart(n)]
      /\ \A k \in 1 .. Size(st) : k # from /\ k # from + 1 => p[k] = st[k]
  BY <1>4, PatchIs
<1>6. /\ sq \in Code /\ Size(sq) = Size(s) + Size(t)
      /\ \A k \in 1 .. (Size(s) + Size(t)) : sq[k] = IF k <= Size(s) THEN s[k] ELSE q[k - Size(s)]
  <2>1. /\ sq \in Code /\ Size(sq) = Size(s) + Size(q)
        /\ \A k \in 1 .. (Size(s) + Size(q)) : sq[k] = IF k <= Size(s) THEN s[k] ELSE q[k - Size(s)]
    BY <1>3, JoinedIs
  <2> HIDE DEF sq
  <2>2. QED
    BY <1>3, <2>1
<1> HIDE DEF p, sq
<1>7. ASSUME NEW k \in 1 .. Size(p) PROVE p[k] = sq[k]
  <2>1. k \in 1 .. (Size(s) + Size(t)) /\ k \in 1 .. Size(st)
    BY <1>2, <1>5
  <2>2. CASE k = from
    <3>1. ~(k <= Size(s)) /\ k - Size(s) = at
      BY <1>1, <2>2
    <3>2. QED
      BY <1>2, <1>3, <1>5, <1>6, <2>1, <2>2, <3>1
  <2>3. CASE k = from + 1
    <3>1. ~(k <= Size(s)) /\ k - Size(s) = at + 1
      BY <1>1, <2>3
    <3>2. QED
      BY <1>2, <1>3, <1>5, <1>6, <2>1, <2>3, <3>1
  <2>4. CASE k # from /\ k # from + 1
    <3>1. p[k] = st[k]
      BY <1>5, <2>1, <2>4
    <3>2. CASE k <= Size(s)
      BY <1>2, <1>6, <2>1, <3>1, <3>2
    <3>3. CASE ~(k <= Size(s))
      <4>1. k - Size(s) \in 1 .. Size(t) /\ k - Size(s) # at /\ k - Size(s) # at + 1
        BY <1>1, <2>1, <2>4, <3>3
      <4>2. q[k - Size(s)] = t[k - Size(s)]
        BY <1>3, <4>1
      <4>3. QED
        BY <1>2, <1>6, <2>1, <3>1, <3>3, <4>2
    <3>4. QED
      BY <3>2, <3>3
  <2>5. QED
    BY <2>2, <2>3, <2>4
<1>8. p = sq
  BY <1>2, <1>5, <1>6, <1>7, SameCode
<1>9. QED
  BY <1>8 DEF p, sq, st, q

\* The words of laq, with the values of its four pairs.
LaqMore(n) == Joined(Pair("temp", n), <<ShiftWord, AddTemp>>)
LaqPairs(a, b, c, d) == Joined(Joined(Joined(Pair("dst", a), LaqMore(b)), LaqMore(c)), LaqMore(d))

LEMMA LaqMoreIs ==
  ASSUME NEW m \in Int, NEW n \in Int
  PROVE  /\ LaqMore(m) \in Code /\ Size(LaqMore(m)) = 4
         /\ SetUint32(LaqMore(m), 1, n) = LaqMore(n)
<1> DEFINE p == Pair("temp", m)
           q == <<ShiftWord, AddTemp>>
<1>1. p \in Code /\ q \in Code /\ Size(q) = 2
  BY PairTyped, AddWordsAre DEF Loadable, Code, Size
<1>2. Size(p) = 2
  BY DEF Pair, Size
<1>3. SetUint32(p, 1, n) = Pair("temp", n)
  BY PatchedPair DEF Loadable
<1> HIDE DEF p, q
<1>4. Joined(p, q) \in Code /\ Size(Joined(p, q)) = 4
  BY <1>1, <1>2, JoinedTyped
<1>5. SetUint32(Joined(p, q), 1, n) = Joined(SetUint32(p, 1, n), q)
  BY <1>1, <1>2, PatchLeft
<1>6. QED
  BY <1>3, <1>4, <1>5 DEF LaqMore, p, q

LEMMA LaqPatched ==
  ASSUME NEW a \in Int, NEW b \in Int, NEW c \in Int, NEW d \in Int, NEW n \in Int
  PROVE  /\ LaqPairs(a, b, c, d) \in Code
         /\ SetUint32(LaqPairs(a, b, c, d), 1, n) = LaqPairs(n, b, c, d)
         /\ SetUint32(LaqPairs(a, b, c, d), 3, n) = LaqPairs(a, n, c, d)
         /\ SetUint32(LaqPairs(a, b, c, d), 7, n) = LaqPairs(a, b, n, d)
         /\ SetUint32(LaqPairs(a, b, c, d), 11, n) = LaqPairs(a, b, c, n)
<1> DEFINE p == Pair("dst", a)
           q == LaqMore(b)
           r == LaqMore(c)
           s == LaqMore(d)
           pq == Joined(p, q)
           pqr == Joined(pq, r)
           w == Joined(pqr, s)
           u == LaqMore(n)
<1>1. p \in Code /\ Size(p) = 2 /\ SetUint32(p, 1, n) = Pair("dst", n)
  <2>1. p \in Code /\ SetUint32(p, 1, n) = Pair("dst", n)
    BY PairTyped, PatchedPair DEF Loadable, Code
  <2>2. Size(p) = 2
    BY DEF Pair, Size
  <2>3. QED
    BY <2>1, <2>2
<1>2. /\ q \in Code /\ Size(q) = 4 /\ SetUint32(q, 1, n) = u
      /\ r \in Code /\ Size(r) = 4 /\ SetUint32(r, 1, n) = u
      /\ s \in Code /\ Size(s) = 4 /\ SetUint32(s, 1, n) = u
  BY LaqMoreIs
<1> HIDE DEF p, q, r, s, u
<1>3. pq \in Code /\ Size(pq) = 6
  BY <1>1, <1>2, JoinedTyped
<1> HIDE DEF pq
<1>4. pqr \in Code /\ Size(pqr) = 10
  BY <1>2, <1>3, JoinedTyped
<1> HIDE DEF pqr
<1>5. w \in Code
  BY <1>2, <1>4, JoinedTyped
<1>6. w = LaqPairs(a, b, c, d)
  BY DEF LaqPairs, p, q, r, s, pq, pqr
<1>7. SetUint32(w, 1, n) = LaqPairs(n, b, c, d)
  <2>1. SetUint32(w, 1, n) = Joined(SetUint32(pqr, 1, n), s)
    BY <1>2, <1>4, PatchLeft
  <2>2. SetUint32(pqr, 1, n) = Joined(SetUint32(pq, 1, n), r)
    BY <1>2, <1>3, PatchLeft DEF pqr
  <2>3. SetUint32(pq, 1, n) = Joined(SetUint32(p, 1, n), q)
    BY <1>1, <1>2, PatchLeft DEF pq
  <2>4. QED
    BY <1>1, <2>1, <2>2, <2>3 DEF LaqPairs, q, r, s
<1>8. SetUint32(w, 3, n) = LaqPairs(a, n, c, d)
  <2>1. SetUint32(w, 3, n) = Joined(SetUint32(pqr, 3, n), s)
    BY <1>2, <1>4, PatchLeft
  <2>2. SetUint32(pqr, 3, n) = Joined(SetUint32(pq, 3, n), r)
    BY <1>2, <1>3, PatchLeft DEF pqr
  <2>3. SetUint32(pq, 3, n) = Joined(p, SetUint32(q, 1, n))
    BY <1>1, <1>2, PatchRight DEF pq
  <2>4. QED
    BY <1>2, <2>1, <2>2, <2>3 DEF LaqPairs, p, r, s, u
<1>9. SetUint32(w, 7, n) = LaqPairs(a, b, n, d)
  <2>1. SetUint32(w, 7, n) = Joined(SetUint32(pqr, 7, n), s)
    BY <1>2, <1>4, PatchLeft
  <2>2. SetUint32(pqr, 7, n) = Joined(pq, SetUint32(r, 1, n))
    <3>1. pq \in Code /\ r \in Code /\ 0 < 1 /\ 1 < Size(r) /\ 7 = Size(pq) + 1
      BY <1>2, <1>3
    <3>2. SetUint32(Joined(pq, r), 7, n) = Joined(pq, SetUint32(r, 1, n))
      BY <3>1, PatchRight
    <3>3. QED
      BY <3>2 DEF pqr
  <2>3. QED
    BY <1>2, <2>1, <2>2 DEF LaqPairs, pq, p, q, s, u
<1>10. SetUint32(w, 11, n) = LaqPairs(a, b, c, n)
  <2>1. SetUint32(w, 11, n) = Joined(pqr, SetUint32(s, 1, n))
    BY <1>2, <1>4, PatchRight
  <2>2. QED
    BY <1>2, <2>1 DEF LaqPairs, pqr, pq, p, q, r, u
<1>11. QED
  BY <1>5, <1>6, <1>7, <1>8, <1>9, <1>10

LEMMA LaqIs ==
  ASSUME NEW sym \in Int
  PROVE  /\ Laq(sym) = LaqPairs(Part(sym, 3), Part(sym, 2), Part(sym, 1), Part(sym, 0))
         /\ Laq(sym) \in Code
<1>1. PICK o \in Int : /\ o = (Word \div 2) - 1
                       /\ BuildUint32("dst", o) = Pair("dst", o)
                       /\ BuildUint32("temp", o) = Pair("temp", o)
  BY Placeholders DEF Loadable
<1>2. LaqWords = LaqPairs(o, o, o, o)
  BY <1>1 DEF LaqWords, LaqPairs, LaqMore, Joined
<1>3. /\ \E p \in Int : p = Part(sym, 3)
      /\ \E p \in Int : p = Part(sym, 2)
      /\ \E p \in Int : p = Part(sym, 1)
      /\ \E p \in Int : p = Part(sym, 0)
  BY PartIs
<1>4. PICK p3 \in Int : p3 = Part(sym, 3)
  BY <1>3
<1>5. PICK p2 \in Int : p2 = Part(sym, 2)
  BY <1>3
<1>6. PICK p1 \in Int : p1 = Part(sym, 1)
  BY <1>3
<1>7. PICK p0 \in Int : p0 = Part(sym, 0)
  BY <1>3
<1>8. Laq(sym) = SetUint32(SetUint32(SetUint32(SetUint32(LaqWords, 1, p3), 3, p2), 7, p1), 11, p0)
  BY <1>4, <1>5, <1>6, <1>7 DEF Laq
<1>9. SetUint32(LaqPairs(o, o, o, o), 1, p3) = LaqPairs(p3, o, o, o)
  BY LaqPatched
<1>10. SetUint32(LaqPairs(p3, o, o, o), 3, p2) = LaqPairs(p3, p2, o, o)
  BY LaqPatched
<1>11. SetUint32(LaqPairs(p3, p2, o, o), 7, p1) = LaqPairs(p3, p2, p1, o)
  BY LaqPatched
<1>12. SetUint32(LaqPairs(p3, p2, p1, o), 11, p0) = LaqPairs(p3, p2, p1, p0)
  BY LaqPatched
<1>13. LaqPairs(p3, p2, p1, p0) \in Code
  BY LaqPatched
<1>14. QED
  BY <1>2, <1>4, <1>5, <1>6, <1>7, <1>8, <1>9, <1>10, <1>11, <1>12, <1>13

-----------------------------------------------------------------------------
(***************************************************************************)
(* Running                                                                 *)
(***************************************************************************)

LEMMA ThenIs ==
  ASSUME NEW i \in Instruction, NEW r \in Code
  PROVE  /\ Then(i, r) \in Code /\ Size(Then(i, r)) = 1 + Size(r) /\ Size(r) \in Nat
         /\ Then(i, r)[1] = i
         /\ \A k \in 1 .. Size(r) : Then(i, r)[k + 1] = r[k]
<1> DEFINE one == <<i>>
           all == Joined(one, r)
<1>1. one \in Code /\ Size(one) = 1 /\ one[1] = i
  BY DEF Code, Size
<1> HIDE DEF one
<1>2. /\ all \in Code /\ Size(r) \in Nat /\ Size(all) = 1 + Size(r)
      /\ \A k \in 1 .. (1 + Size(r)) : all[k] = IF k <= 1 THEN one[k] ELSE r[k - 1]
  <2>1. /\ all \in Code /\ Size(r) \in Nat /\ Size(all) = Size(one) + Size(r)
        /\ \A k \in 1 .. (Size(one) + Size(r)) :
             all[k] = IF k <= Size(one) THEN one[k] ELSE r[k - Size(one)]
    BY <1>1, JoinedIs
  <2> HIDE DEF all
  <2>2. QED
    BY <1>1, <2>1
<1>3. Then(i, r) = all
  BY DEF Then, one
<1> HIDE DEF all
<1>4. all[1] = i
  BY <1>1, <1>2
<1>5. ASSUME NEW k \in 1 .. Size(r) PROVE all[k + 1] = r[k]
  <2>1. k + 1 \in 1 .. (1 + Size(r)) /\ ~(k + 1 <= 1) /\ (k + 1) - 1 = k
    BY <1>2
  <2>2. QED
    BY <1>2, <2>1
<1>6. QED
  BY <1>2, <1>3, <1>4, <1>5

\* What the machine does with the next instruction.
Result(i) ==
  CASE i.op = "lui"   -> Signed(i.imm * Low, Word)
    [] i.op = "auipc" -> request.loc + (4 * (pc - 1)) + Signed(i.imm * Low, Word)
    [] i.op = "addi"  -> regs[i.rs1] + Signed(i.imm, Low)
    [] i.op = "slli"  -> (regs[i.rs1] % (Wide \div Word)) * Word
    [] i.op = "add"   -> regs[i.rs1] + regs[i.rs2]

LEMMA AheadNext ==
  ASSUME MachineInv, NEW i \in Instruction, NEW r \in Code, Ahead(Then(i, r))
  PROVE  /\ pc \in 1 .. Size(code) /\ code[pc] = i
         /\ pc' = pc + 1 /\ code' = code => Ahead(r)'
<1> DEFINE all == Then(i, r)
<1>1. /\ Size(all) = 1 + Size(r) /\ Size(r) \in Nat /\ all[1] = i
      /\ \A k \in 1 .. Size(r) : all[k + 1] = r[k]
  BY ThenIs
<1>2. pc \in Nat /\ pc >= 1 /\ Size(code) \in Nat
  BY JoinedIs DEF MachineInv
<1> HIDE DEF all
<1>3. pc + Size(all) = Size(code) + 1 /\ \A k \in 1 .. Size(all) : all[k] = code[pc + (k - 1)]
  BY DEF Ahead, all
<1>4. pc \in 1 .. Size(code)
  BY <1>1, <1>2, <1>3
<1>5. code[pc] = i
  <2>1. 1 \in 1 .. Size(all) /\ pc + (1 - 1) = pc
    BY <1>1, <1>2
  <2>2. QED
    BY <1>1, <1>3, <2>1
<1>6. ASSUME pc' = pc + 1, code' = code
      PROVE  Ahead(r)'
  <2>1. (pc + 1) + Size(r) = Size(code) + 1
    BY <1>1, <1>2, <1>3
  <2>2. ASSUME NEW k \in 1 .. Size(r) PROVE r[k] = code[(pc + 1) + (k - 1)]
    <3>1. k + 1 \in 1 .. Size(all) /\ pc + ((k + 1) - 1) = (pc + 1) + (k - 1)
      BY <1>1, <1>2
    <3>2. QED
      BY <1>1, <1>3, <3>1
  <2>3. QED
    BY <1>6, <2>1, <2>2 DEF Ahead
<1>7. QED
  BY <1>4, <1>5, <1>6

\* Nothing is left to run exactly when the machine is done.
LEMMA AheadIsNotDone ==
  ASSUME MachineInv, NEW i \in Instruction, NEW r \in Code, Ahead(Then(i, r))
  PROVE  ~Done
<1>1. pc \in 1 .. Size(code) /\ Size(code) \in Nat
  BY AheadNext, JoinedIs DEF MachineInv
<1>2. QED
  BY <1>1 DEF Done, Size

LEMMA NilIsDone ==
  ASSUME MachineInv, Ahead(Nil)
  PROVE  Done /\ (Next => UNCHANGED vars)
<1>1. Size(Nil) = 0
  BY DEF Size, Nil
<1>2. pc = Size(code) + 1 /\ Size(code) \in Nat
  BY <1>1, JoinedIs DEF MachineInv, Ahead
<1>3. Done
  BY <1>2 DEF Done, Size
<1>4. ~(pc <= Len(code))
  BY <1>2 DEF Size
<1>5. QED
  BY <1>3, <1>4 DEF Next, RunLui, RunAuipc, RunAddi, RunSlli, RunAdd, RunJalr, Running, Stopped

LEMMA Runs ==
  ASSUME MachineInv, Next, NEW i \in Instruction, NEW r \in Code, Ahead(Then(i, r))
  PROVE  /\ pc' = pc + 1 /\ UNCHANGED <<request, code>> /\ Ahead(r)'
         /\ i.op # "jalr" => /\ regs' = [regs EXCEPT ![i.rd] = Result(i) % Wide]
                             /\ UNCHANGED target
         /\ i.op = "jalr" => /\ target' = (regs[i.rs1] + Signed(i.imm, Low)) % Wide
                             /\ UNCHANGED regs
<1>1. code[pc] = i
  BY AheadNext
<1>2. ~Stopped
  BY AheadIsNotDone DEF Stopped
<1>3. /\ pc' = pc + 1 /\ UNCHANGED <<request, code>>
      /\ i.op # "jalr" => /\ regs' = [regs EXCEPT ![i.rd] = Result(i) % Wide]
                          /\ UNCHANGED target
      /\ i.op = "jalr" => /\ target' = (regs[i.rs1] + Signed(i.imm, Low)) % Wide
                          /\ UNCHANGED regs
  <2>1. CASE RunLui
    BY <1>1, <2>1 DEF RunLui, Running, Write, Upper, Result
  <2>2. CASE RunAuipc
    BY <1>1, <2>2 DEF RunAuipc, Running, Write, Upper, Result
  <2>3. CASE RunAddi
    BY <1>1, <2>3 DEF RunAddi, Running, Write, Immediate, Result
  <2>4. CASE RunSlli
    BY <1>1, <2>4 DEF RunSlli, Running, Write, Result
  <2>5. CASE RunAdd
    BY <1>1, <2>5 DEF RunAdd, Running, Write, Result
  <2>6. CASE RunJalr
    BY <1>1, <2>6 DEF RunJalr, Running, Immediate
  <2>7. QED
    BY <1>2, <2>1, <2>2, <2>3, <2>4, <2>5, <2>6 DEF Next
<1>4. QED
  BY <1>3, AheadNext

LEMMA CodeTyped ==
  ASSUME NEW r \in Requests
  PROVE  CodeOf(r) \in Code
<1>1. /\ r.op \in {"li", "set", "la", "laq", "farcall"} /\ r.value \in Int /\ r.loc \in Int
  BY RequestTypes
<1>2. Li(r.value) \in Code
  <2>1. Signed(r.value, Word) \in Int /\ "dst" \in Loadable
    BY <1>1, WordIs, SignedIs DEF Loadable
  <2>2. QED
    BY <2>1, BuildIs DEF Li, Code
<1>3. Set(r.value) \in Code
  BY <1>1, SetTyped DEF Code
<1>4. La(r.loc, r.value) \in Code
  BY <1>1, LaIs DEF Code
<1>5. Laq(r.value) \in Code
  BY <1>1, LaqIs
<1>6. Farcall(r.value) \in Code
  BY <1>1, FarcallIs DEF Code
<1>7. QED
  BY <1>1, <1>2, <1>3, <1>4, <1>5, <1>6 DEF CodeOf

LEMMA MachineInit ==
  ASSUME Init
  PROVE  MachineInv
<1>1. request \in Requests /\ code = CodeOf(request) /\ code \in Code /\ pc = 1
  BY CodeTyped DEF Init
<1>2. pc \in 1 .. (Size(code) + 1)
  BY <1>1, JoinedIs
<1>3. regs \in [Registers -> 0 .. (Wide - 1)] /\ regs["zero"] = 0
  <2>1. Leftovers \cup {0} \subseteq 0 .. (Wide - 1)
    BY OperandAssumption, WordIs
  <2>2. QED
    BY <2>1 DEF Init
<1>4. QED
  BY <1>1, <1>2, <1>3 DEF MachineInv

LEMMA MachineNext ==
  ASSUME MachineInv, [Next]_vars
  PROVE  MachineInv'
<1>1. CASE UNCHANGED vars
  BY <1>1 DEF MachineInv, vars, Ahead
<1>2. /\ Size(code) \in Nat /\ pc \in Nat /\ regs \in [Registers -> Int]
  BY JoinedIs DEF MachineInv
<1>3. ASSUME NEW op, Running(op)
      PROVE  /\ code[pc] \in Instruction /\ pc \in 1 .. Size(code)
             /\ code[pc].rs1 \in Registers /\ code[pc].rs2 \in Registers /\ code[pc].imm \in Nat
             /\ op # "jalr" => code[pc].rd \in Loadable
  <2>1. pc \in 1 .. Size(code)
    BY <1>3, <1>2 DEF Running, Size, MachineInv
  <2>2. code[pc] \in Instruction /\ code[pc].op = op
    BY <1>3, <2>1 DEF Running, Size, MachineInv, Code
  <2>3. QED
    BY <2>1, <2>2 DEF Instruction
<1>4. ASSUME NEW op, Running(op), op # "jalr", NEW value \in Int, Write(value)
      PROVE  MachineInv'
  <2>1. value % Wide \in 0 .. (Wide - 1)
    BY WordIs, DivMod
  <2>2. code[pc].rd \in Loadable /\ pc \in 1 .. Size(code)
    BY <1>3, <1>4
  <2>3. regs' = [regs EXCEPT ![code[pc].rd] = value % Wide]
    BY <1>4 DEF Write
  <2>4. /\ regs' \in [Registers -> 0 .. (Wide - 1)] /\ regs'["zero"] = 0
    BY <2>1, <2>2, <2>3 DEF MachineInv, Registers, Loadable
  <2>5. pc' \in 1 .. (Size(code) + 1) /\ request' = request /\ code' = code
    BY <1>2, <1>4, <2>2 DEF Write
  <2>6. QED
    BY <2>4, <2>5 DEF MachineInv
<1>5. ASSUME NEW op, Running(op)
      PROVE  /\ Upper \in Int /\ Immediate \in Int
             /\ regs[code[pc].rs1] \in Int /\ regs[code[pc].rs2] \in Int
  <2>1. /\ code[pc].rs1 \in Registers /\ code[pc].rs2 \in Registers /\ code[pc].imm \in Nat
    BY <1>3, <1>5
  <2>2. PICK imm \in Nat : imm = code[pc].imm
    BY <2>1
  <2>3. Upper \in Int
    <3>1. imm * Low \in Int
      BY WordIs
    <3>2. Signed(imm * Low, Word) \in Int
      BY <3>1, WordIs, SignedIs
    <3>3. QED
      BY <2>2, <3>2 DEF Upper
  <2>4. Immediate \in Int
    <3>1. Signed(imm, Low) \in Int
      BY WordIs, SignedIs
    <3>2. QED
      BY <2>2, <3>1 DEF Immediate
  <2>5. QED
    BY <1>2, <2>1, <2>3, <2>4
<1>6. CASE RunLui
  BY <1>4, <1>5, <1>6 DEF RunLui
<1>7. CASE RunAuipc
  <2>1. request.loc + (4 * (pc - 1)) + Upper \in Int
    BY <1>2, <1>5, <1>7, RequestTypes DEF RunAuipc, MachineInv
  <2>2. QED
    BY <1>4, <1>7, <2>1 DEF RunAuipc
<1>8. CASE RunAddi
  BY <1>4, <1>5, <1>8 DEF RunAddi
<1>9. CASE RunSlli
  <2>1. Wide \div Word \in Nat /\ Wide \div Word > 0
    BY WideIs
  <2>2. (regs[code[pc].rs1] % (Wide \div Word)) * Word \in Int
    <3>1. regs[code[pc].rs1] \in Int
      BY <1>5, <1>9 DEF RunSlli
    <3>2. regs[code[pc].rs1] % (Wide \div Word) \in Int
      BY <2>1, <3>1, DivMod
    <3>3. QED
      BY <3>2, WordIs
  <2>3. QED
    BY <1>4, <1>9, <2>2 DEF RunSlli
<1>10. CASE RunAdd
  BY <1>4, <1>5, <1>10 DEF RunAdd
<1>11. CASE RunJalr
  <2>1. pc' \in 1 .. (Size(code) + 1) /\ request' = request /\ code' = code /\ regs' = regs
    BY <1>2, <1>3, <1>11 DEF RunJalr
  <2>2. QED
    BY <2>1 DEF MachineInv
<1>12. CASE Stopped
  BY <1>1, <1>12 DEF Stopped
<1>13. QED
  BY <1>1, <1>6, <1>7, <1>8, <1>9, <1>10, <1>11, <1>12 DEF Next

THEOREM MachineInvariant == Spec => []MachineInv
<1>1. Init => MachineInv
  BY MachineInit
<1>2. MachineInv /\ [Next]_vars => MachineInv'
  BY MachineNext
<1>3. QED
  BY <1>1, <1>2, PTL DEF Spec

-----------------------------------------------------------------------------
(***************************************************************************)
(* Loading 32 bits: whatever build_uint32 left out, the register goes from *)
(* anything to the upper part to the sum of both parts.                    *)
(***************************************************************************)

\* A load of n is next, half of it is, or it has been run.
Loading(reg, n, rest) ==
  \/ HighPart(n) = 0 /\ Ahead(Then(Addi(reg, "zero", n), rest))
  \/ LowPart(n) = 0 /\ Ahead(Then(Lui(reg, n), rest))
  \/ Ahead(Then(Lui(reg, n), Then(Addi(reg, reg, n), rest)))

Halfway(reg, n, rest) ==
  Ahead(Then(Addi(reg, reg, n), rest)) /\ regs[reg] = UpperOf(n) % Wide

HasLoaded(reg, n, rest) ==
  Ahead(rest) /\ regs[reg] = PairValue(n) % Wide

\* What a step that loads reg leaves alone.
OnlySets(reg) ==
  /\ request' = request
  /\ \A x \in Registers : x # reg => regs'[x] = regs[x]

LEMMA RunsLui ==
  ASSUME MachineInv, Next, NEW reg \in Loadable, NEW n \in Int, NEW rest \in Code,
         Ahead(Then(Lui(reg, n), rest))
  PROVE  Ahead(rest)' /\ regs'[reg] = UpperOf(n) % Wide /\ OnlySets(reg)
<1> DEFINE i == Lui(reg, n)
<1>1. i \in Instruction /\ i.op = "lui" /\ i.rd = reg /\ i.imm = HighPart(n)
  BY PairTyped DEF Lui, WordOf
<1>2. Result(i) = UpperOf(n)
  BY <1>1 DEF Result, UpperOf
<1> HIDE DEF i
<1>3. Ahead(rest)' /\ request' = request /\ regs' = [regs EXCEPT ![reg] = UpperOf(n) % Wide]
  BY <1>1, <1>2, Runs DEF i
<1>4. regs \in [Registers -> 0 .. (Wide - 1)] /\ reg \in Registers
  BY DEF MachineInv, Loadable, Registers
<1>5. QED
  BY <1>3, <1>4 DEF OnlySets

LEMMA RunsAddi ==
  ASSUME MachineInv, Next, NEW reg \in Loadable, NEW from \in Registers, NEW n \in Int,
         NEW rest \in Code, Addi(reg, from, n) \in Instruction,
         Ahead(Then(Addi(reg, from, n), rest))
  PROVE  /\ Ahead(rest)' /\ regs'[reg] = (regs[from] + LowerOf(n)) % Wide /\ OnlySets(reg)
<1> DEFINE i == Addi(reg, from, n)
<1>1. i \in Instruction /\ i.op = "addi" /\ i.rd = reg /\ i.rs1 = from /\ i.imm = LowPart(n)
  BY DEF Addi, WordOf
<1>2. Result(i) = regs[from] + LowerOf(n)
  BY <1>1 DEF Result, LowerOf
<1> HIDE DEF i
<1>3. /\ Ahead(rest)' /\ request' = request
      /\ regs' = [regs EXCEPT ![reg] = (regs[from] + LowerOf(n)) % Wide]
  BY <1>1, <1>2, Runs DEF i
<1>4. regs \in [Registers -> 0 .. (Wide - 1)] /\ reg \in Registers
  BY DEF MachineInv, Loadable, Registers
<1>5. QED
  BY <1>3, <1>4 DEF OnlySets

LEMMA UpperTyped ==
  ASSUME NEW n \in Int
  PROVE  UpperOf(n) \in Int /\ LowerOf(n) \in Int
<1>1. HighPart(n) * Low \in Int
  BY PartsAreNat, WordIs
<1>2. QED
  BY <1>1, Carry, WordIs, SignedIs DEF UpperOf

LEMMA LoadStep ==
  ASSUME MachineInv, Next, NEW reg \in Loadable, NEW n \in Int, InRange(n, Word),
         NEW rest \in Code, Loading(reg, n, rest)
  PROVE  (Halfway(reg, n, rest)' \/ HasLoaded(reg, n, rest)') /\ OnlySets(reg)
<1>1. /\ Lui(reg, n) \in Instruction /\ Addi(reg, reg, n) \in Instruction
      /\ Addi(reg, "zero", n) \in Instruction
  BY PairTyped
<1>2. CASE HighPart(n) = 0 /\ Ahead(Then(Addi(reg, "zero", n), rest))
  <2>1. "zero" \in Registers /\ regs["zero"] = 0
    BY DEF Registers, MachineInv
  <2>2. Ahead(rest)' /\ regs'[reg] = (regs["zero"] + LowerOf(n)) % Wide /\ OnlySets(reg)
    BY <1>1, <1>2, <2>1, RunsAddi
  <2>3. LowerOf(n) = PairValue(n) /\ LowerOf(n) \in Int
    BY <1>2, HighIsZero, Carry
  <2>4. regs["zero"] + LowerOf(n) = PairValue(n)
    BY <2>1, <2>3
  <2>5. HasLoaded(reg, n, rest)'
    BY <2>2, <2>4 DEF HasLoaded
  <2>6. QED
    BY <2>2, <2>5
<1>3. CASE LowPart(n) = 0 /\ Ahead(Then(Lui(reg, n), rest))
  <2>1. Ahead(rest)' /\ regs'[reg] = UpperOf(n) % Wide /\ OnlySets(reg)
    BY <1>3, RunsLui
  <2>2. UpperOf(n) = PairValue(n)
    BY <1>3, LowIsZero
  <2>3. HasLoaded(reg, n, rest)'
    BY <2>1, <2>2 DEF HasLoaded
  <2>4. QED
    BY <2>1, <2>3
<1>4. CASE Ahead(Then(Lui(reg, n), Then(Addi(reg, reg, n), rest)))
  <2>1. Then(Addi(reg, reg, n), rest) \in Code
    BY <1>1, ThenIs
  <2>2. Ahead(Then(Addi(reg, reg, n), rest))' /\ regs'[reg] = UpperOf(n) % Wide /\ OnlySets(reg)
    BY <1>4, <2>1, RunsLui
  <2>3. QED
    BY <2>2 DEF Halfway
<1>5. QED
  BY <1>2, <1>3, <1>4 DEF Loading

LEMMA HalfStep ==
  ASSUME MachineInv, Next, NEW reg \in Loadable, NEW n \in Int, InRange(n, Word),
         NEW rest \in Code, Halfway(reg, n, rest)
  PROVE  HasLoaded(reg, n, rest)' /\ OnlySets(reg)
<1>1. Addi(reg, reg, n) \in Instruction /\ reg \in Registers
  BY PairTyped DEF Loadable, Registers
<1>2. Ahead(rest)' /\ regs'[reg] = (regs[reg] + LowerOf(n)) % Wide /\ OnlySets(reg)
  BY <1>1, RunsAddi DEF Halfway
<1>3. regs[reg] = UpperOf(n) % Wide
  BY DEF Halfway
<1>4. ((UpperOf(n) % Wide) + LowerOf(n)) % Wide = (UpperOf(n) + LowerOf(n)) % Wide
  BY UpperTyped, WordIs, ModOfSum
<1>5. UpperOf(n) + LowerOf(n) = PairValue(n)
  BY PairAdds
<1>6. HasLoaded(reg, n, rest)'
  BY <1>2, <1>3, <1>4, <1>5 DEF HasLoaded
<1>7. QED
  BY <1>2, <1>6

\* What build_uint32 outputs is a load.
LEMMA ThenJoined ==
  ASSUME NEW i \in Instruction, NEW s \in Code, NEW t \in Code
  PROVE  Joined(Then(i, s), t) = Then(i, Joined(s, t))
<1>1. <<i>> \in Seq(Instruction) /\ s \in Seq(Instruction) /\ t \in Seq(Instruction)
  BY DEF Code
<1>2. (<<i>> \o s) \o t = <<i>> \o (s \o t)
  BY <1>1, ConcatAssociative
<1>3. QED
  BY <1>2 DEF Joined, Then

LEMMA NilJoined ==
  ASSUME NEW s \in Code
  PROVE  Joined(Nil, s) = s /\ Joined(s, Nil) = s /\ Nil \in Code
BY ConcatEmptySeq DEF Code, Joined, Nil

\* Sequences of one and of two words, word by word.
LEMMA WordByWord ==
  ASSUME NEW i \in Instruction, NEW j \in Instruction
  PROVE  <<i>> = Then(i, Nil) /\ <<i, j>> = Then(i, Then(j, Nil))
<1> DEFINE one == <<j>>
           two == <<i, j>>
<1>1. \A x \in Instruction : <<x>> \in Code /\ <<x>> = Then(x, Nil)
  BY NilJoined DEF Code, Then
<1>2. one \in Code /\ Size(one) = 1 /\ one[1] = j
  BY DEF Code, Size
<1>3. two \in Code /\ Size(two) = 2 /\ two[1] = i /\ two[2] = j
  BY DEF Code, Size
<1> HIDE DEF one, two
<1>4. /\ Then(i, one) \in Code /\ Size(Then(i, one)) = 1 + 1 /\ Then(i, one)[1] = i
      /\ \A k \in 1 .. 1 : Then(i, one)[k + 1] = one[k]
  BY <1>2, ThenIs
<1>5. Then(i, one)[2] = j
  <2>1. 1 \in 1 .. 1 /\ 1 + 1 = 2
    OBVIOUS
  <2>2. QED
    BY <1>2, <1>4, <2>1
<1>6. ASSUME NEW k \in 1 .. Size(two) PROVE two[k] = Then(i, one)[k]
  <2>1. k = 1 \/ k = 2
    BY <1>3
  <2>2. QED
    BY <1>3, <1>4, <1>5, <2>1
<1>7. two = Then(i, one)
  BY <1>3, <1>4, <1>6, SameCode
<1>8. QED
  BY <1>1, <1>7 DEF one, two

LEMMA LoadsAre ==
  ASSUME NEW reg \in Loadable, NEW n \in Int, NEW rest \in Code
  PROVE  /\ Ahead(Joined(BuildUint32(reg, n), rest)) => Loading(reg, n, rest)
         /\ Ahead(Joined(Pair(reg, n), rest)) => Loading(reg, n, rest)
<1> DEFINE lui == Lui(reg, n)
           addi == Addi(reg, reg, n)
           load == Addi(reg, "zero", n)
<1>1. lui \in Instruction /\ addi \in Instruction /\ load \in Instruction
  BY PairTyped
<1>2. Pair(reg, n) = <<lui, addi>>
  BY DEF Pair
<1>3. \/ HighPart(n) = 0 /\ BuildUint32(reg, n) = <<load>>
      \/ LowPart(n) = 0 /\ BuildUint32(reg, n) = <<lui>>
      \/ BuildUint32(reg, n) = Pair(reg, n)
  BY BuildIs
<1> HIDE DEF lui, addi, load
<1>4. Then(load, rest) = Joined(<<load>>, rest) /\ Then(lui, rest) = Joined(<<lui>>, rest)
  BY DEF Then
<1>5. Joined(Pair(reg, n), rest) = Then(lui, Then(addi, rest))
  <2>1. Pair(reg, n) = Then(lui, Then(addi, Nil))
    BY <1>1, <1>2, WordByWord
  <2>2. Then(addi, Nil) \in Code /\ Nil \in Code
    BY <1>1, NilJoined, ThenIs
  <2>3. Joined(Then(lui, Then(addi, Nil)), rest) = Then(lui, Joined(Then(addi, Nil), rest))
    BY <1>1, <2>2, ThenJoined
  <2>4. Joined(Then(addi, Nil), rest) = Then(addi, Joined(Nil, rest))
    BY <1>1, <2>2, ThenJoined
  <2>5. QED
    BY <2>1, <2>3, <2>4, NilJoined
<1>6. QED
  BY <1>3, <1>4, <1>5 DEF Loading, lui, addi, load

LEMMA AheadAtStart ==
  ASSUME MachineInv, pc = 1
  PROVE  Ahead(code)
<1>1. Size(code) \in Nat
  BY JoinedIs DEF MachineInv
<1>2. \A k \in 1 .. Size(code) : 1 + (k - 1) = k
  BY <1>1
<1>3. QED
  BY <1>1, <1>2 DEF Ahead

\* A load that was started is not done before both parts are in.
LEMMA LoadingIsNotDone ==
  ASSUME MachineInv, NEW reg \in Loadable, NEW n \in Int, NEW rest \in Code,
         Loading(reg, n, rest) \/ Halfway(reg, n, rest)
  PROVE  ~Done
<1>1. /\ Lui(reg, n) \in Instruction /\ Addi(reg, reg, n) \in Instruction
      /\ Addi(reg, "zero", n) \in Instruction
  BY PairTyped
<1>2. Then(Addi(reg, reg, n), rest) \in Code
  BY <1>1, ThenIs
<1>3. QED
  BY <1>1, <1>2, AheadIsNotDone DEF Loading, Halfway

-----------------------------------------------------------------------------
(***************************************************************************)
(* li, and set of a constant that fits a word                              *)
(***************************************************************************)

IsSmall == request.op = "li" \/ (request.op = "set" /\ request.value < Word)

SmallInv ==
  IsSmall =>
    LET n == Signed(request.value, Word)
    IN  Loading("dst", n, Nil) \/ Halfway("dst", n, Nil) \/ HasLoaded("dst", n, Nil)

LEMMA SmallConstant ==
  ASSUME MachineInv
  PROVE  /\ Signed(request.value, Word) \in Int /\ InRange(Signed(request.value, Word), Word)
         /\ "dst" \in Loadable /\ Nil \in Code
<1>1. request.value \in Int
  BY RequestTypes DEF MachineInv
<1>2. Nil \in Code
  BY DEF Nil, Code
<1>3. QED
  BY <1>1, <1>2, WordIs, SignedIs DEF Loadable

LEMMA SmallInit ==
  ASSUME Init
  PROVE  SmallInv
<1> DEFINE n == Signed(request.value, Word)
<1>1. MachineInv /\ pc = 1 /\ code = CodeOf(request)
  BY MachineInit DEF Init
<1>2. n \in Int /\ "dst" \in Loadable /\ Nil \in Code
  BY <1>1, SmallConstant
<1>3. SUFFICES ASSUME IsSmall PROVE Loading("dst", n, Nil)
  BY DEF SmallInv
<1>4. code = BuildUint32("dst", n)
  BY <1>1, <1>3 DEF IsSmall, CodeOf, Li, Set
<1>5. BuildUint32("dst", n) \in Code
  BY <1>2, BuildIs DEF Code
<1>6. Ahead(code)
  BY <1>1, AheadAtStart
<1> HIDE DEF n
<1>7. Joined(BuildUint32("dst", n), Nil) = BuildUint32("dst", n)
  BY <1>5, NilJoined
<1>8. QED
  BY <1>2, <1>4, <1>6, <1>7, LoadsAre

LEMMA SmallNext ==
  ASSUME MachineInv, SmallInv, [Next]_vars
  PROVE  SmallInv'
<1>1. CASE UNCHANGED vars
  BY <1>1 DEF SmallInv, IsSmall, Loading, Halfway, HasLoaded, Ahead, vars
<1>2. CASE Next /\ ~UNCHANGED vars
  <2>1. PICK n \in Int : n = Signed(request.value, Word)
    BY SmallConstant
  <2>2. InRange(n, Word) /\ "dst" \in Loadable /\ Nil \in Code
    BY <2>1, SmallConstant
  <2>3. request' = request
    BY <1>2 DEF Next, RunLui, RunAuipc, RunAddi, RunSlli, RunAdd, RunJalr, Stopped, Write, vars
  <2>4. ASSUME IsSmall
        PROVE  Halfway("dst", n, Nil)' \/ HasLoaded("dst", n, Nil)'
    <3>1. Loading("dst", n, Nil) \/ Halfway("dst", n, Nil) \/ HasLoaded("dst", n, Nil)
      BY <2>1, <2>4 DEF SmallInv
    <3>2. CASE Loading("dst", n, Nil)
      BY <1>2, <2>2, <3>2, LoadStep
    <3>3. CASE Halfway("dst", n, Nil)
      BY <1>2, <2>2, <3>3, HalfStep
    <3>4. CASE HasLoaded("dst", n, Nil)
      BY <1>2, <3>4, NilIsDone DEF HasLoaded
    <3>5. QED
      BY <3>1, <3>2, <3>3, <3>4
  <2>5. n = Signed(request.value, Word)' /\ IsSmall' = IsSmall
    BY <2>1, <2>3 DEF IsSmall
  <2>6. QED
    BY <2>4, <2>5 DEF SmallInv
<1>3. QED
  BY <1>1, <1>2

LEMMA SmallInvariant == Spec => [](MachineInv /\ SmallInv)
<1>1. Init => MachineInv /\ SmallInv
  BY MachineInit, SmallInit
<1>2. MachineInv /\ SmallInv /\ [Next]_vars => (MachineInv /\ SmallInv)'
  BY MachineNext, SmallNext
<1>3. QED
  BY <1>1, <1>2, PTL DEF Spec

LEMMA SmallIsLoaded ==
  ASSUME MachineInv, SmallInv, Done, IsSmall
  PROVE  regs["dst"] = PairValue(Signed(request.value, Word)) % Wide
<1> DEFINE n == Signed(request.value, Word)
<1>1. n \in Int /\ "dst" \in Loadable /\ Nil \in Code
  BY SmallConstant
<1>2. Loading("dst", n, Nil) \/ Halfway("dst", n, Nil) \/ HasLoaded("dst", n, Nil)
  BY DEF SmallInv
<1> HIDE DEF n
<1>3. HasLoaded("dst", n, Nil)
  BY <1>1, <1>2, LoadingIsNotDone
<1>4. QED
  BY <1>3 DEF HasLoaded, n

LEMMA ReachIsInt ==
  ASSUME NEW m \in PairReach
  PROVE  m \in Int /\ InRange(m, Word)
<1>1. PICK half \in Nat : /\ 2 * (Low * half) = Word /\ Word \div 2 = Low * half
                          /\ Low = 2 * (Low \div 2) /\ Low \div 2 \in Nat
  BY HalfWord
<1>2. QED
  BY <1>1, WordIs DEF PairReach, InRange

(***************************************************************************)
(* li leaves a constant that a pair reaches, positive or negative, in the  *)
(* register, whichever of the three forms build_uint32 chose and whatever  *)
(* the register held (opcodes.cpp:30-50).                                  *)
(***************************************************************************)
THEOREM ConstantsAreLoaded == Spec => []LiLoads
<1>1. MachineInv /\ SmallInv => LiLoads
  <2>1. SUFFICES ASSUME MachineInv, SmallInv, Done, request.op = "li",
                        Signed(request.value, Long) \in PairReach
                 PROVE  regs["dst"] = Signed(request.value, Long) % Wide
    BY DEF LiLoads, Loaded
  <2>2. regs["dst"] = PairValue(Signed(request.value, Word)) % Wide
    BY <2>1, SmallIsLoaded DEF IsSmall
  <2>3. PICK value \in Int : value = request.value
    BY <2>1, RequestTypes DEF MachineInv
  <2>4. InRange(Signed(value, Word * Word), Word)
    BY <2>1, <2>3, ReachIsInt DEF Long
  <2>5. Signed(value, Word) = Signed(value, Word * Word)
    BY <2>4, WordIs, SignedNarrow
  <2>6. QED
    BY <2>1, <2>2, <2>3, <2>5 DEF PairValue, Long
<1>2. QED
  BY <1>1, SmallInvariant, PTL
-----------------------------------------------------------------------------
(***************************************************************************)
(* la                                                                      *)
(***************************************************************************)

LaOp(loc, sym) == IF LaNear(loc, sym) THEN "auipc" ELSE "lui"
LaBase(loc, sym) == IF LaNear(loc, sym) THEN loc ELSE 0

\* What the two words add up to.
LaSum(loc, sym) ==
  (LaBase(loc, sym) + UpperOf(LaValue(loc, sym))) + LowerOf(LaValue(loc, sym))

LaFirst(loc, sym) == WordOf(LaOp(loc, sym), "dst", "zero", "zero", HighPart(LaValue(loc, sym)))
LaSecond(loc, sym) == Addi("dst", "dst", LaValue(loc, sym))

\* What is left to run, and what the register holds.
LaStages(loc, sym) ==
  \/ pc = 1 /\ Ahead(Then(LaFirst(loc, sym), Then(LaSecond(loc, sym), Nil)))
  \/ /\ Ahead(Then(LaSecond(loc, sym), Nil))
     /\ regs["dst"] = (LaBase(loc, sym) + UpperOf(LaValue(loc, sym))) % Wide
  \/ Ahead(Nil) /\ regs["dst"] = LaSum(loc, sym) % Wide

LaInv == request.op = "la" => LaStages(request.loc, request.value)

LEMMA LaTyped ==
  ASSUME NEW loc \in Int, NEW sym \in Int
  PROVE  /\ LaValue(loc, sym) \in Int /\ LaBase(loc, sym) \in Int
         /\ LaFirst(loc, sym) \in Instruction /\ LaSecond(loc, sym) \in Instruction
         /\ Then(LaSecond(loc, sym), Nil) \in Code /\ Nil \in Code
         /\ La(loc, sym) = Then(LaFirst(loc, sym), Then(LaSecond(loc, sym), Nil))
<1>1. LaValue(loc, sym) \in Int /\ La(loc, sym) = <<LaFirst(loc, sym), LaSecond(loc, sym)>>
  BY LaIs DEF LaFirst, LaSecond, LaOp
<1>2. PICK n \in Int : n = LaValue(loc, sym)
  BY <1>1
<1>3. "dst" \in Loadable /\ Nil \in Code
  BY DEF Loadable, Nil, Code
<1>4. HighPart(n) \in Nat /\ LaOp(loc, sym) \in {"lui", "auipc", "addi"}
  BY PartsAreNat DEF LaOp
<1>5. WordOf(LaOp(loc, sym), "dst", "zero", "zero", HighPart(n)) \in Instruction
  BY <1>3, <1>4, WordsAre
<1>6. LaFirst(loc, sym) \in Instruction /\ LaSecond(loc, sym) \in Instruction
  BY <1>2, <1>3, <1>5, PairTyped DEF LaFirst, LaSecond
<1>7. Then(LaSecond(loc, sym), Nil) \in Code
  BY <1>3, <1>6, ThenIs
<1>8. <<LaFirst(loc, sym), LaSecond(loc, sym)>> = Then(LaFirst(loc, sym), Then(LaSecond(loc, sym), Nil))
  BY <1>6, WordByWord
<1>9. LaBase(loc, sym) \in Int
  BY DEF LaBase
<1>10. QED
  BY <1>1, <1>3, <1>6, <1>7, <1>8, <1>9

LEMMA LaInit ==
  ASSUME Init
  PROVE  LaInv
<1>1. MachineInv /\ pc = 1 /\ code = CodeOf(request)
  BY MachineInit DEF Init
<1>2. PICK loc \in Int, sym \in Int : loc = request.loc /\ sym = request.value
  BY <1>1, RequestTypes DEF MachineInv
<1>3. SUFFICES ASSUME request.op = "la" PROVE LaStages(loc, sym)
  BY <1>2 DEF LaInv
<1>4. code = La(loc, sym)
  BY <1>1, <1>2, <1>3 DEF CodeOf
<1>5. Ahead(code)
  BY <1>1, AheadAtStart
<1>6. La(loc, sym) = Then(LaFirst(loc, sym), Then(LaSecond(loc, sym), Nil))
  BY LaTyped
<1>7. QED
  BY <1>1, <1>4, <1>5, <1>6 DEF LaStages

\* The first word sets the register to its upper part, from 0 or from pc.
LEMMA LaFirstRuns ==
  ASSUME MachineInv, Next, NEW loc \in Int, NEW sym \in Int,
         loc = request.loc, pc = 1,
         Ahead(Then(LaFirst(loc, sym), Then(LaSecond(loc, sym), Nil)))
  PROVE  /\ Ahead(Then(LaSecond(loc, sym), Nil))'
         /\ regs'["dst"] = (LaBase(loc, sym) + UpperOf(LaValue(loc, sym))) % Wide
<1> DEFINE i == LaFirst(loc, sym)
           r == Then(LaSecond(loc, sym), Nil)
<1>1. i \in Instruction /\ r \in Code
  BY LaTyped
<1>2. i.op = LaOp(loc, sym) /\ i.rd = "dst" /\ i.imm = HighPart(LaValue(loc, sym))
  BY DEF LaFirst, WordOf
<1>3. PICK n \in Int : n = LaValue(loc, sym)
  BY LaTyped
<1>4. UpperOf(n) \in Int
  BY UpperTyped
<1> HIDE DEF i, r
<1>5. i.op # "jalr"
  BY <1>2 DEF LaOp
<1>6. Ahead(r)' /\ regs' = [regs EXCEPT !["dst"] = Result(i) % Wide]
  BY <1>1, <1>2, <1>5, Runs DEF i, r
<1>7. Result(i) = LaBase(loc, sym) + UpperOf(n)
  <2>1. CASE LaNear(loc, sym)
    <3>1. Result(i) = loc + (4 * (pc - 1)) + UpperOf(n)
      BY <1>2, <1>3, <2>1 DEF Result, LaOp, UpperOf
    <3>2. QED
      BY <1>4, <2>1, <3>1 DEF LaBase
  <2>2. CASE ~LaNear(loc, sym)
    <3>1. Result(i) = UpperOf(n)
      BY <1>2, <1>3, <2>2 DEF Result, LaOp, UpperOf
    <3>2. QED
      BY <1>4, <2>2, <3>1 DEF LaBase
  <2>3. QED
    BY <2>1, <2>2
<1>8. "dst" \in DOMAIN regs
  BY DEF MachineInv, Registers
<1>9. QED
  BY <1>3, <1>6, <1>7, <1>8 DEF r

LEMMA LaSecondRuns ==
  ASSUME MachineInv, Next, NEW loc \in Int, NEW sym \in Int,
         Ahead(Then(LaSecond(loc, sym), Nil)),
         regs["dst"] = (LaBase(loc, sym) + UpperOf(LaValue(loc, sym))) % Wide
  PROVE  Ahead(Nil)' /\ regs'["dst"] = LaSum(loc, sym) % Wide
<1>1. PICK n \in Int : n = LaValue(loc, sym)
  BY LaTyped
<1>2. PICK base \in Int : base = LaBase(loc, sym)
  BY LaTyped
<1>3. /\ "dst" \in Loadable /\ "dst" \in Registers /\ Nil \in Code
      /\ Addi("dst", "dst", n) \in Instruction /\ Ahead(Then(Addi("dst", "dst", n), Nil))
  BY <1>1, LaTyped DEF Loadable, Registers, LaSecond
<1>4. Ahead(Nil)' /\ regs'["dst"] = (regs["dst"] + LowerOf(n)) % Wide
  BY <1>3, RunsAddi
<1>5. UpperOf(n) \in Int /\ LowerOf(n) \in Int
  BY UpperTyped
<1>6. base + UpperOf(n) \in Int
  BY <1>5
<1>7. (((base + UpperOf(n)) % Wide) + LowerOf(n)) % Wide = ((base + UpperOf(n)) + LowerOf(n)) % Wide
  BY <1>5, <1>6, WordIs, ModOfSum
<1>8. regs["dst"] = (base + UpperOf(n)) % Wide
  BY <1>1, <1>2
<1>9. LaSum(loc, sym) = (base + UpperOf(n)) + LowerOf(n)
  BY <1>1, <1>2 DEF LaSum
<1>10. QED
  BY <1>4, <1>7, <1>8, <1>9

LEMMA LaNext ==
  ASSUME MachineInv, LaInv, [Next]_vars
  PROVE  LaInv'
<1>1. CASE UNCHANGED vars
  BY <1>1 DEF LaInv, LaStages, Ahead, vars
<1>2. CASE Next /\ ~UNCHANGED vars
  <2>1. PICK loc \in Int, sym \in Int : loc = request.loc /\ sym = request.value
    BY RequestTypes DEF MachineInv
  <2>2. request' = request
    BY <1>2 DEF Next, RunLui, RunAuipc, RunAddi, RunSlli, RunAdd, RunJalr, Stopped, Write, vars
  <2>3. ASSUME LaStages(loc, sym)
        PROVE  LaStages(loc, sym)'
    <3>1. CASE pc = 1 /\ Ahead(Then(LaFirst(loc, sym), Then(LaSecond(loc, sym), Nil)))
      BY <1>2, <2>1, <3>1, LaFirstRuns DEF LaStages
    <3>2. CASE /\ Ahead(Then(LaSecond(loc, sym), Nil))
               /\ regs["dst"] = (LaBase(loc, sym) + UpperOf(LaValue(loc, sym))) % Wide
      BY <1>2, <3>2, LaSecondRuns DEF LaStages
    <3>3. CASE Ahead(Nil)
      BY <1>2, <3>3, NilIsDone
    <3>4. QED
      BY <2>3, <3>1, <3>2, <3>3 DEF LaStages
  <2>4. QED
    BY <2>1, <2>2, <2>3 DEF LaInv
<1>3. QED
  BY <1>1, <1>2

LEMMA LaInvariant == Spec => [](MachineInv /\ LaInv)
<1>1. Init => MachineInv /\ LaInv
  BY MachineInit, LaInit
<1>2. MachineInv /\ LaInv /\ [Next]_vars => (MachineInv /\ LaInv)'
  BY MachineNext, LaNext
<1>3. QED
  BY <1>1, <1>2, PTL DEF Spec

LEMMA LaIsLoaded ==
  ASSUME MachineInv, LaInv, Done, request.op = "la"
  PROVE  regs["dst"] = LaSum(request.loc, request.value) % Wide
<1>1. PICK loc \in Int, sym \in Int : loc = request.loc /\ sym = request.value
  BY RequestTypes DEF MachineInv
<1>2. LaStages(loc, sym)
  BY <1>1 DEF LaInv
<1>3. ~Ahead(Then(LaFirst(loc, sym), Then(LaSecond(loc, sym), Nil)))
  BY LaTyped, AheadIsNotDone
<1>4. ~Ahead(Then(LaSecond(loc, sym), Nil))
  BY LaTyped, AheadIsNotDone
<1>5. QED
  BY <1>1, <1>2, <1>3, <1>4 DEF LaStages
\* In range of 32 bits is in range of 64.
LEMMA WiderRanges ==
  ASSUME NEW m \in PairReach
  PROVE  m \in Int /\ InRange(m, Word) /\ InRange(m, Long) /\ IsRelativelyClose(m)
<1>1. m \in Int /\ InRange(m, Word)
  <2>1. PICK half \in Nat : /\ High = 2 * half /\ half > 0
                            /\ 2 * (Low * half) = Word /\ Word \div 2 = Low * half
                            /\ Low = 2 * (Low \div 2) /\ Low \div 2 \in Nat
    BY HalfWord
  <2>2. PICK w \in Nat : w = Word \div 2
    BY <2>1, WordIs
  <2>3. PICK h \in Nat : h = Low \div 2
    BY <2>1
  <2>4. m \in -w .. ((w - h) - 1) /\ 2 * w = Word
    BY <2>1, <2>2, <2>3 DEF PairReach
  <2>5. QED
    BY <2>4 DEF InRange
<1>2. Long >= Word
  BY WordIs DEF Long
<1>3. QED
  BY <1>1, <1>2, WordIs DEF InRange, IsRelativelyClose

\* A value that a pair reaches is what its two parts add up to, in any word.
LEMMA ReachedByParts ==
  ASSUME NEW m \in PairReach, NEW n \in Int, NEW k \in Int, n = m + (Word * k)
  PROVE  UpperOf(n) + LowerOf(n) = m
<1>1. m \in Int /\ InRange(m, Word)
  BY WiderRanges
<1>2. LowPart(n) = LowPart(m) /\ HighPart(n) = HighPart(m)
  BY <1>1, PartsOfWord
<1>3. UpperOf(m) + LowerOf(m) = PairValue(m)
  BY <1>1, PairAdds
<1>4. QED
  BY <1>2, <1>3 DEF UpperOf, LowerOf, PairValue

\* The two cases of the property, with the base the machine adds to.
LEMMA LaReaches ==
  ASSUME NEW loc \in 0 .. (Wide - 1), NEW sym \in 0 .. (Wide - 1),
         \/ Signed(sym - loc, Wide) \in PairReach
         \/ Signed(sym, Wide) \in PairReach /\ ~LaNear(loc, sym)
  PROVE  LaSum(loc, sym) % Wide = sym
<1>1. loc \in Int /\ sym \in Int /\ sym - loc \in Int /\ sym % Wide = sym
  BY WordIs, SmallMod
<1>2. CASE Signed(sym - loc, Wide) \in PairReach
  <2>1. PICK d \in PairReach : d = Signed(sym - loc, Wide)
    BY <1>2
  <2>2. d \in Int /\ InRange(d, Word) /\ InRange(d, Long) /\ IsRelativelyClose(d)
    BY <2>1, WiderRanges
  <2>3. PICK k \in Int : sym - loc = d + (Wide * k)
    BY <1>1, <2>1, WordIs, SignedIs
  <2>4. Signed(sym - loc, Long) = d
    <3>1. Wide = Long * Long
      BY DEF Wide
    <3>2. InRange(Signed(sym - loc, Long * Long), Long)
      BY <2>1, <2>2, <3>1
    <3>3. QED
      BY <1>1, <2>1, <3>1, <3>2, WordIs, SignedNarrow
  <2>5. LaNear(loc, sym) /\ LaValue(loc, sym) = d
    BY <2>2, <2>4 DEF LaNear, LaValue
  <2>6. UpperOf(d) + LowerOf(d) = d
    <3>1. d = d + (Word * 0) /\ 0 \in Int
      BY <2>2, WordIs
    <3>2. QED
      BY <2>2, <3>1, ReachedByParts
  <2>7. UpperOf(d) \in Int /\ LowerOf(d) \in Int
    BY <2>2, UpperTyped
  <2>8. LaSum(loc, sym) = loc + d
    <3>1. LaSum(loc, sym) = (loc + UpperOf(d)) + LowerOf(d)
      BY <2>5 DEF LaSum, LaBase
    <3>2. QED
      BY <1>1, <2>2, <2>6, <2>7, <3>1
  <2>9. loc + d = sym + (Wide * (-k))
    <3>1. PICK p \in Int : p = Wide * k
      BY WordIs
    <3>2. Wide * (-k) = -p
      BY <3>1, WordIs
    <3>3. QED
      BY <1>1, <2>2, <2>3, <3>1, <3>2
  <2>10. (sym + (Wide * (-k))) % Wide = sym % Wide
    BY <1>1, WordIs, Shifted
  <2>11. QED
    BY <1>1, <2>8, <2>9, <2>10
<1>3. CASE Signed(sym, Wide) \in PairReach /\ ~LaNear(loc, sym)
  <2>1. PICK s \in PairReach : s = Signed(sym, Wide)
    BY <1>3
  <2>2. s \in Int
    BY <2>1, WiderRanges
  <2>3. PICK k \in Int : sym = s + (Wide * k)
    BY <1>1, <2>1, WordIs, SignedIs
  <2>4. PICK q \in Nat : Wide = Word * q
    <3>1. Wide = (Word * Long) * Word /\ Word * Long \in Nat
      BY WideIs
    <3>2. QED
      BY <3>1, WordIs
  <2>5. sym = s + (Word * (q * k)) /\ q * k \in Int
    BY <2>3, <2>4, WordIs, Associative
  <2>6. UpperOf(sym) + LowerOf(sym) = s
    BY <1>1, <2>5, ReachedByParts
  <2>7. UpperOf(sym) \in Int /\ LowerOf(sym) \in Int
    BY <1>1, UpperTyped
  <2>8. LaSum(loc, sym) = (0 + UpperOf(sym)) + LowerOf(sym)
    BY <1>3 DEF LaSum, LaBase, LaValue
  <2>9. LaSum(loc, sym) = s
    BY <2>2, <2>6, <2>7, <2>8
  <2>10. (s + (Wide * k)) % Wide = s % Wide
    BY <2>2, WordIs, Shifted
  <2>11. QED
    BY <1>1, <2>3, <2>9, <2>10
<1>4. QED
  BY <1>2, <1>3

(***************************************************************************)
(* la leaves the address of its label: the two immediates it was patched   *)
(* with, one of them rounded, add up to the distance or to the address,    *)
(* and the 64 bits is_relatively_close looks at lose nothing of a distance *)
(* that 32 bits hold (opcodes.cpp:125-139).                                *)
(***************************************************************************)
THEOREM LaReachesItsLabel == Spec => []LaLoadsReachable
<1>1. MachineInv /\ LaInv => LaLoadsReachable
  <2>1. SUFFICES ASSUME MachineInv, LaInv, Done, request.op = "la",
                        \/ Signed(request.value - request.loc, Wide) \in PairReach
                        \/ /\ Signed(request.value, Wide) \in PairReach
                           /\ ~LaNear(request.loc, request.value)
                 PROVE  regs["dst"] = request.value
    BY DEF LaLoadsReachable, Loaded, LaNear
  <2>2. PICK loc \in 0 .. (Wide - 1), sym \in 0 .. (Wide - 1) :
          loc = request.loc /\ sym = request.value
    BY <2>1, RequestTypes DEF MachineInv
  <2>3. LaSum(loc, sym) % Wide = sym
    BY <2>1, <2>2, LaReaches
  <2>4. regs["dst"] = LaSum(request.loc, request.value) % Wide
    BY <2>1, LaIsLoaded
  <2>5. QED
    BY <2>2, <2>3, <2>4
<1>2. QED
  BY <1>1, LaInvariant, PTL
-----------------------------------------------------------------------------
(***************************************************************************)
(* farcall                                                                 *)
(***************************************************************************)

FarcallFirst(sym) == WordOf("lui", "temp", "zero", "zero", (sym \div Low) % High)
FarcallUpper(sym) == Signed(((sym \div Low) % High) * Low, Word)

\* What is left to run, and what temp and then the target are.
FarcallStages(sym) ==
  \/ Ahead(Then(FarcallFirst(sym), Then(Jalr(sym), Nil)))
  \/ Ahead(Then(Jalr(sym), Nil)) /\ regs["temp"] = FarcallUpper(sym) % Wide
  \/ Ahead(Nil) /\ target = (FarcallUpper(sym) + LowerOf(sym)) % Wide

FarcallInv == request.op = "farcall" => FarcallStages(request.value)

LEMMA FarcallTyped ==
  ASSUME NEW sym \in Int
  PROVE  /\ FarcallFirst(sym) \in Instruction /\ Jalr(sym) \in Instruction
         /\ Then(Jalr(sym), Nil) \in Code /\ Nil \in Code
         /\ FarcallUpper(sym) \in Int /\ LowerOf(sym) \in Int
         /\ Farcall(sym) = Then(FarcallFirst(sym), Then(Jalr(sym), Nil))
<1>1. PICK u \in Nat : u = (sym \div Low) % High
  <2>1. sym \div Low \in Int
    BY WordIs, DivMod
  <2>2. (sym \div Low) % High \in 0 .. (High - 1)
    BY <2>1, WordIs, DivMod
  <2>3. QED
    BY <2>2
<1>2. "temp" \in Loadable /\ Nil \in Code
  BY DEF Loadable, Nil, Code
<1>3. WordOf("lui", "temp", "zero", "zero", u) \in Instruction
  BY <1>2, WordsAre
<1>4. Jalr(sym) \in Instruction
  BY PartsAreNat DEF Jalr, WordOf, Instruction, Registers
<1>5. FarcallFirst(sym) \in Instruction
  BY <1>1, <1>3 DEF FarcallFirst
<1>6. Then(Jalr(sym), Nil) \in Code
  BY <1>2, <1>4, ThenIs
<1>7. Farcall(sym) = <<FarcallFirst(sym), Jalr(sym)>>
  BY FarcallIs DEF FarcallFirst
<1>8. <<FarcallFirst(sym), Jalr(sym)>> = Then(FarcallFirst(sym), Then(Jalr(sym), Nil))
  BY <1>4, <1>5, WordByWord
<1>9. FarcallUpper(sym) \in Int
  <2>1. u * Low \in Int
    BY WordIs
  <2>2. Signed(u * Low, Word) \in Int
    BY <2>1, WordIs, SignedIs
  <2>3. QED
    BY <1>1, <2>2 DEF FarcallUpper
<1>10. QED
  BY <1>2, <1>4, <1>5, <1>6, <1>7, <1>8, <1>9, UpperTyped

LEMMA FarcallInit ==
  ASSUME Init
  PROVE  FarcallInv
<1>1. MachineInv /\ pc = 1 /\ code = CodeOf(request)
  BY MachineInit DEF Init
<1>2. PICK sym \in Int : sym = request.value
  BY <1>1, RequestTypes DEF MachineInv
<1>3. SUFFICES ASSUME request.op = "farcall" PROVE FarcallStages(sym)
  BY <1>2 DEF FarcallInv
<1>4. code = Farcall(sym)
  BY <1>1, <1>2, <1>3 DEF CodeOf
<1>5. Ahead(code)
  BY <1>1, AheadAtStart
<1>6. Farcall(sym) = Then(FarcallFirst(sym), Then(Jalr(sym), Nil))
  BY FarcallTyped
<1>7. QED
  BY <1>4, <1>5, <1>6 DEF FarcallStages

LEMMA FarcallFirstRuns ==
  ASSUME MachineInv, Next, NEW sym \in Int,
         Ahead(Then(FarcallFirst(sym), Then(Jalr(sym), Nil)))
  PROVE  Ahead(Then(Jalr(sym), Nil))' /\ regs'["temp"] = FarcallUpper(sym) % Wide
<1> DEFINE i == FarcallFirst(sym)
           r == Then(Jalr(sym), Nil)
<1>1. i \in Instruction /\ r \in Code
  BY FarcallTyped
<1>2. i.op = "lui" /\ i.rd = "temp" /\ i.imm = (sym \div Low) % High
  BY DEF FarcallFirst, WordOf
<1> HIDE DEF i, r
<1>3. Result(i) = FarcallUpper(sym)
  BY <1>2 DEF Result, FarcallUpper
<1>4. Ahead(r)' /\ regs' = [regs EXCEPT !["temp"] = FarcallUpper(sym) % Wide]
  BY <1>1, <1>2, <1>3, Runs DEF i, r
<1>5. "temp" \in DOMAIN regs
  BY DEF MachineInv, Registers
<1>6. QED
  BY <1>4, <1>5 DEF r

LEMMA FarcallJumps ==
  ASSUME MachineInv, Next, NEW sym \in Int,
         Ahead(Then(Jalr(sym), Nil)), regs["temp"] = FarcallUpper(sym) % Wide
  PROVE  Ahead(Nil)' /\ target' = (FarcallUpper(sym) + LowerOf(sym)) % Wide
<1> DEFINE i == Jalr(sym)
<1>1. i \in Instruction /\ Nil \in Code
  BY FarcallTyped
<1>2. i.op = "jalr" /\ i.rs1 = "temp" /\ i.imm = LowPart(sym)
  BY DEF Jalr, WordOf
<1> HIDE DEF i
<1>3. Ahead(Nil)' /\ target' = (regs["temp"] + LowerOf(sym)) % Wide
  BY <1>1, <1>2, Runs DEF i, LowerOf
<1>4. ((FarcallUpper(sym) % Wide) + LowerOf(sym)) % Wide = (FarcallUpper(sym) + LowerOf(sym)) % Wide
  BY FarcallTyped, WordIs, ModOfSum
<1>5. QED
  BY <1>3, <1>4

LEMMA FarcallNext ==
  ASSUME MachineInv, FarcallInv, [Next]_vars
  PROVE  FarcallInv'
<1>1. CASE UNCHANGED vars
  BY <1>1 DEF FarcallInv, FarcallStages, Ahead, vars
<1>2. CASE Next /\ ~UNCHANGED vars
  <2>1. PICK sym \in Int : sym = request.value
    BY RequestTypes DEF MachineInv
  <2>2. request' = request
    BY <1>2 DEF Next, RunLui, RunAuipc, RunAddi, RunSlli, RunAdd, RunJalr, Stopped, Write, vars
  <2>3. ASSUME FarcallStages(sym)
        PROVE  FarcallStages(sym)'
    <3>1. CASE Ahead(Then(FarcallFirst(sym), Then(Jalr(sym), Nil)))
      BY <1>2, <3>1, FarcallFirstRuns DEF FarcallStages
    <3>2. CASE Ahead(Then(Jalr(sym), Nil)) /\ regs["temp"] = FarcallUpper(sym) % Wide
      BY <1>2, <3>2, FarcallJumps DEF FarcallStages
    <3>3. CASE Ahead(Nil)
      BY <1>2, <3>3, NilIsDone
    <3>4. QED
      BY <2>3, <3>1, <3>2, <3>3 DEF FarcallStages
  <2>4. QED
    BY <2>1, <2>2, <2>3 DEF FarcallInv
<1>3. QED
  BY <1>1, <1>2

LEMMA FarcallInvariant == Spec => [](MachineInv /\ FarcallInv)
<1>1. Init => MachineInv /\ FarcallInv
  BY MachineInit, FarcallInit
<1>2. MachineInv /\ FarcallInv /\ [Next]_vars => (MachineInv /\ FarcallInv)'
  BY MachineNext, FarcallNext
<1>3. QED
  BY <1>1, <1>2, PTL DEF Spec

LEMMA FarcallIsDone ==
  ASSUME MachineInv, FarcallInv, Done, request.op = "farcall"
  PROVE  target = (FarcallUpper(request.value) + LowerOf(request.value)) % Wide
<1>1. PICK sym \in Int : sym = request.value
  BY RequestTypes DEF MachineInv
<1>2. FarcallStages(sym)
  BY <1>1 DEF FarcallInv
<1>3. ~Ahead(Then(FarcallFirst(sym), Then(Jalr(sym), Nil)))
  BY FarcallTyped, AheadIsNotDone
<1>4. ~Ahead(Then(Jalr(sym), Nil))
  BY FarcallTyped, AheadIsNotDone
<1>5. QED
  BY <1>1, <1>2, <1>3, <1>4 DEF FarcallStages

\* Below half an immediate there is nothing to round, so the upper part of
\* farcall, which is not rounded, is that of a pair.
LEMMA NothingToRound ==
  ASSUME NEW n \in Int, 2 * LowPart(n) < Low
  PROVE  (n \div Low) % High = HighPart(n)
<1> DEFINE q == n \div Low
           r == n % Low
<1>1. q \in Int /\ r \in 0 .. (Low - 1) /\ n = (Low * q) + r /\ LowPart(n) = r
  BY WordIs, DivMod DEF LowPart
<1> HIDE DEF q, r
<1>2. PICK p \in Int : p = Low * q
  BY <1>1, WordIs
<1>3. r + r \in 0 .. (Low - 1) /\ n + r \in Int /\ n + r = (Low * q) + (r + r)
  BY <1>1, <1>2, WordIs
<1>4. (n + r) \div Low = q
  BY <1>1, <1>3, WordIs, DivModUnique
<1>5. QED
  BY <1>1, <1>4 DEF HighPart, q

\* In the lower half of the last stretch that LUI builds, a pair still reaches.
LEMMA LowHalfIsInReach ==
  ASSUME NEW s \in -(Word \div 2) .. ((Word \div 2) - 1), 2 * LowPart(s) < Low
  PROVE  s \in PairReach
<1>1. PICK half \in Nat : /\ High = 2 * half /\ half > 0
                          /\ 2 * (Low * half) = Word /\ Word \div 2 = Low * half
                          /\ Low = 2 * (Low \div 2) /\ Low \div 2 \in Nat
  BY HalfWord
<1>2. PICK w \in Nat : w = Low * half
  BY <1>1, WordIs
<1>3. PICK h \in Nat : h = Low \div 2
  BY <1>1
<1>4. s \in -w .. (w - 1)
  BY <1>1, <1>2
<1>5. s \in Int
  BY <1>4
<1> DEFINE q == s \div Low
           r == s % Low
<1>6. q \in Int /\ r \in 0 .. (Low - 1) /\ s = (Low * q) + r /\ LowPart(s) = r
  BY <1>5, WordIs, DivMod DEF LowPart
<1> HIDE DEF q, r
<1>7. r <= h - 1
  BY <1>1, <1>3, <1>6, WordIs
<1>8. q <= half - 1
  <2>1. SUFFICES ASSUME half <= q PROVE FALSE
    BY <1>1, <1>6
  <2>2. Low * half <= Low * q
    BY <1>6, <2>1, WordIs, Monotone
  <2>3. PICK p \in Int : p = Low * q
    BY <1>6, WordIs
  <2>4. QED
    BY <1>2, <1>4, <1>6, <2>2, <2>3
<1>9. Low * q <= w - Low
  <2>1. half - 1 \in Int
    OBVIOUS
  <2>2. Low * q <= Low * (half - 1)
    BY <1>6, <1>8, <2>1, WordIs, Monotone
  <2>3. Low * (half - 1) = w - Low
    BY <1>2, WordIs
  <2>4. QED
    BY <2>2, <2>3
<1>10. s <= (w - h) - 1
  <2>1. PICK p \in Int : p = Low * q
    BY <1>6, WordIs
  <2>2. QED
    BY <1>1, <1>3, <1>6, <1>7, <1>9, <2>1, WordIs
<1>11. QED
  BY <1>1, <1>2, <1>3, <1>4, <1>10 DEF PairReach

(***************************************************************************)
(* farcall goes to its label: the upper part is not rounded, so the jump   *)
(* is right where there is nothing to round, and the address register it   *)
(* jumps through is the one it loaded (opcodes.cpp:345-351).               *)
(***************************************************************************)
THEOREM FarcallGoesToItsLabel == Spec => []FarcallReachesLowHalf
<1>1. MachineInv /\ FarcallInv => FarcallReachesLowHalf
  <2>1. SUFFICES ASSUME MachineInv, FarcallInv, Done, request.op = "farcall",
                        Signed(request.value, Wide) \in -(Word \div 2) .. ((Word \div 2) - 1),
                        2 * LowPart(request.value) < Low
                 PROVE  target = request.value
    BY DEF FarcallReachesLowHalf, Loaded
  <2>2. PICK sym \in 0 .. (Wide - 1) : sym = request.value
    BY <2>1, RequestTypes DEF MachineInv
  <2>3. sym \in Int /\ sym % Wide = sym
    BY WordIs, SmallMod
  <2>4. PICK s \in -(Word \div 2) .. ((Word \div 2) - 1) : s = Signed(sym, Wide)
    BY <2>1, <2>2
  <2>5. s \in Int
    BY <2>3, <2>4, WordIs, SignedIs
  <2>6. PICK k \in Int : sym = s + (Wide * k)
    BY <2>3, <2>4, WordIs, SignedIs
  <2>7. PICK q \in Nat : Wide = Word * q
    <3>1. Wide = (Word * Long) * Word /\ Word * Long \in Nat
      BY WideIs
    <3>2. QED
      BY <3>1, WordIs
  <2>8. sym = s + (Word * (q * k)) /\ q * k \in Int
    BY <2>6, <2>7, WordIs, Associative
  <2>9. LowPart(sym) = LowPart(s)
    BY <2>5, <2>8, PartsOfWord
  <2>10. s \in PairReach
    BY <2>1, <2>2, <2>9, LowHalfIsInReach
  <2>11. UpperOf(sym) + LowerOf(sym) = s
    BY <2>3, <2>8, <2>10, ReachedByParts
  <2>12. FarcallUpper(sym) = UpperOf(sym)
    BY <2>1, <2>2, <2>3, NothingToRound DEF FarcallUpper, UpperOf
  <2>13. target = s % Wide
    BY <2>1, <2>2, <2>11, <2>12, FarcallIsDone
  <2>14. (s + (Wide * k)) % Wide = s % Wide
    BY <2>5, WordIs, Shifted
  <2>15. QED
    BY <2>2, <2>3, <2>6, <2>13, <2>14
<1>2. QED
  BY <1>1, FarcallInvariant, PTL
-----------------------------------------------------------------------------
(***************************************************************************)
(* set of a constant above a word, and laq: four loads, and between them   *)
(* a shift of what there is by a word.                                     *)
(***************************************************************************)

IsLong(op, value) == op = "laq" \/ (op = "set" /\ ~(value < Word))

RegOf(i) == IF i = 3 THEN "dst" ELSE "temp"

LoadOf(op, value, i) ==
  IF op = "set" THEN BuildUint32(RegOf(i), Part(value, i))
  ELSE Pair(RegOf(i), Part(value, i))

ShiftOf(op, value, i) ==
  IF op = "set" /\ NothingAbove(value, i) THEN Nil ELSE <<ShiftWord>>

PieceOf(op, value, i) ==
  Joined(Joined(LoadOf(op, value, i), ShiftOf(op, value, i)), <<AddTemp>>)

\* What follows the load of part i, and that load too, when rest follows.
Summing(op, value, i, rest) == Joined(ShiftOf(op, value, i), Then(AddTemp, rest))
Adding(op, value, i, rest) == Joined(LoadOf(op, value, i), Summing(op, value, i, rest))

\* What is left to run once part i and those above are summed.
Rest(op, value, i) ==
  CASE i = 0 -> Nil
    [] i = 1 -> Adding(op, value, 0, Nil)
    [] i = 2 -> Adding(op, value, 1, Adding(op, value, 0, Nil))
    [] i = 3 -> Adding(op, value, 2, Adding(op, value, 1, Adding(op, value, 0, Nil)))

\* The sum of part i and those above, in words of part i.
ValueOf(value, i) == PairValue(Part(value, i))

SumTo(value, i) ==
  LET three == ValueOf(value, 3)
      two   == (three * Word) + ValueOf(value, 2)
      one   == (two * Word) + ValueOf(value, 1)
  IN  CASE i = 3 -> three
        [] i = 2 -> two
        [] i = 1 -> one
        [] i = 0 -> (one * Word) + ValueOf(value, 0)

LEMMA JoinedAssociative ==
  ASSUME NEW r \in Code, NEW s \in Code, NEW t \in Code
  PROVE  Joined(Joined(r, s), t) = Joined(r, Joined(s, t))
BY ConcatAssociative DEF Code, Joined

LEMMA PiecesTyped ==
  ASSUME NEW op, NEW value \in Int, NEW i \in 0 .. 3
  PROVE  /\ RegOf(i) \in Loadable /\ LoadOf(op, value, i) \in Code
         /\ ShiftOf(op, value, i) \in Code /\ <<AddTemp>> \in Code /\ <<ShiftWord>> \in Code
         /\ PieceOf(op, value, i) \in Code
<1>1. RegOf(i) \in Loadable
  BY DEF RegOf, Loadable
<1>2. PICK n \in Int : n = Part(value, i)
  BY PartIs
<1>3. BuildUint32(RegOf(i), n) \in Code /\ Pair(RegOf(i), n) \in Code
  BY <1>1, BuildIs, PairTyped DEF Code
<1>4. LoadOf(op, value, i) \in Code
  BY <1>2, <1>3 DEF LoadOf
<1>5. <<AddTemp>> \in Code /\ <<ShiftWord>> \in Code /\ Nil \in Code
  BY AddWordsAre DEF Code, Nil
<1>6. ShiftOf(op, value, i) \in Code
  BY <1>5 DEF ShiftOf
<1>7. Joined(LoadOf(op, value, i), ShiftOf(op, value, i)) \in Code
  BY <1>4, <1>6, JoinedTyped
<1>8. PieceOf(op, value, i) \in Code
  BY <1>5, <1>7, JoinedTyped DEF PieceOf
<1>9. QED
  BY <1>1, <1>4, <1>5, <1>6, <1>8

LEMMA AddingIs ==
  ASSUME NEW op, NEW value \in Int, NEW i \in 0 .. 3, NEW rest \in Code
  PROVE  /\ Summing(op, value, i, rest) \in Code /\ Then(AddTemp, rest) \in Code
         /\ Adding(op, value, i, rest) \in Code
         /\ Joined(PieceOf(op, value, i), rest) = Adding(op, value, i, rest)
<1> DEFINE load == LoadOf(op, value, i)
           shift == ShiftOf(op, value, i)
           add == <<AddTemp>>
<1>1. load \in Code /\ shift \in Code /\ add \in Code
  BY PiecesTyped
<1>2. /\ PieceOf(op, value, i) = Joined(Joined(load, shift), add)
      /\ Then(AddTemp, rest) = Joined(add, rest)
      /\ Summing(op, value, i, rest) = Joined(shift, Joined(add, rest))
      /\ Adding(op, value, i, rest) = Joined(load, Joined(shift, Joined(add, rest)))
  BY DEF PieceOf, Then, Summing, Adding
<1> HIDE DEF load, shift, add
<1>3. Joined(load, shift) \in Code /\ Joined(add, rest) \in Code
  BY <1>1, JoinedTyped
<1>4. Joined(shift, Joined(add, rest)) \in Code
  BY <1>1, <1>3, JoinedTyped
<1>5. Joined(load, Joined(shift, Joined(add, rest))) \in Code
  BY <1>1, <1>4, JoinedTyped
<1>6. Joined(Joined(Joined(load, shift), add), rest) = Joined(Joined(load, shift), Joined(add, rest))
  BY <1>1, <1>3, JoinedAssociative
<1>7. Joined(Joined(load, shift), Joined(add, rest)) = Joined(load, Joined(shift, Joined(add, rest)))
  BY <1>1, <1>3, JoinedAssociative
<1>8. QED
  BY <1>2, <1>3, <1>4, <1>5, <1>6, <1>7

LEMMA RestIs ==
  ASSUME NEW op, NEW value \in Int
  PROVE  /\ Rest(op, value, 0) = Nil
         /\ \A i \in 0 .. 3 : Rest(op, value, i) \in Code
         /\ \A i \in 0 .. 2 : Rest(op, value, i + 1) = Adding(op, value, i, Rest(op, value, i))
<1> DEFINE one == Adding(op, value, 0, Nil)
           two == Adding(op, value, 1, one)
           three == Adding(op, value, 2, two)
<1>1. /\ Nil \in Code /\ 0 \in 0 .. 3 /\ 1 \in 0 .. 3 /\ 2 \in 0 .. 3
      /\ \A i \in 0 .. 3, rest \in Code : Adding(op, value, i, rest) \in Code
  <2>1. Nil \in Code /\ 0 \in 0 .. 3 /\ 1 \in 0 .. 3 /\ 2 \in 0 .. 3
    BY DEF Nil, Code
  <2>2. ASSUME NEW i \in 0 .. 3, NEW rest \in Code PROVE Adding(op, value, i, rest) \in Code
    BY AddingIs
  <2>3. QED
    BY <2>1, <2>2
<1>2. one \in Code
  BY <1>1
<1>3. two \in Code
  BY <1>1, <1>2
<1>4. three \in Code
  BY <1>1, <1>3
<1>5. /\ Rest(op, value, 0) = Nil /\ Rest(op, value, 1) = one
      /\ Rest(op, value, 2) = two /\ Rest(op, value, 3) = three
  BY DEF Rest
<1>6. /\ one = Adding(op, value, 0, Nil) /\ two = Adding(op, value, 1, one)
      /\ three = Adding(op, value, 2, two)
  OBVIOUS
<1> HIDE DEF one, two, three
<1>7. ASSUME NEW i \in 0 .. 3 PROVE Rest(op, value, i) \in Code
  <2>1. i = 0 \/ i = 1 \/ i = 2 \/ i = 3
    OBVIOUS
  <2>2. QED
    BY <1>1, <1>2, <1>3, <1>4, <1>5, <2>1
<1>8. ASSUME NEW i \in 0 .. 2
      PROVE  Rest(op, value, i + 1) = Adding(op, value, i, Rest(op, value, i))
  <2>1. (i = 0 /\ i + 1 = 1) \/ (i = 1 /\ i + 1 = 2) \/ (i = 2 /\ i + 1 = 3)
    OBVIOUS
  <2>2. QED
    BY <1>5, <1>6, <2>1
<1>9. QED
  BY <1>5, <1>7, <1>8
LEMMA ValueTyped ==
  ASSUME NEW value \in Int, NEW i \in 0 .. 3
  PROVE  ValueOf(value, i) \in Int
<1>1. PICK n \in Int : n = Part(value, i) /\ InRange(n, Word)
  BY PartIs
<1>2. QED
  BY <1>1, PairAdds DEF ValueOf

LEMMA SumIs ==
  ASSUME NEW value \in Int
  PROVE  /\ SumTo(value, 3) = ValueOf(value, 3)
         /\ \A i \in 0 .. 3 : ValueOf(value, i) \in Int /\ SumTo(value, i) \in Int
         /\ \A i \in 0 .. 2 : SumTo(value, i) = (SumTo(value, i + 1) * Word) + ValueOf(value, i)
<1>1. ASSUME NEW i \in 0 .. 3 PROVE ValueOf(value, i) \in Int
  BY ValueTyped
<1>2. /\ ValueOf(value, 0) \in Int /\ ValueOf(value, 1) \in Int
      /\ ValueOf(value, 2) \in Int /\ ValueOf(value, 3) \in Int
  BY <1>1
<1> DEFINE three == ValueOf(value, 3)
           two == (three * Word) + ValueOf(value, 2)
           one == (two * Word) + ValueOf(value, 1)
           all == (one * Word) + ValueOf(value, 0)
<1>3. three \in Int /\ two \in Int /\ one \in Int /\ all \in Int
  <2>1. \A m \in Int, n \in Int : (m * Word) + n \in Int
    BY WordIs
  <2>2. QED
    BY <1>2, <2>1
<1>4. /\ SumTo(value, 3) = three /\ SumTo(value, 2) = two
      /\ SumTo(value, 1) = one /\ SumTo(value, 0) = all
  BY DEF SumTo
<1>5. /\ two = (three * Word) + ValueOf(value, 2) /\ one = (two * Word) + ValueOf(value, 1)
      /\ all = (one * Word) + ValueOf(value, 0) /\ three = ValueOf(value, 3)
  OBVIOUS
<1> HIDE DEF three, two, one, all
<1>6. ASSUME NEW i \in 0 .. 3 PROVE SumTo(value, i) \in Int
  <2>1. i = 0 \/ i = 1 \/ i = 2 \/ i = 3
    OBVIOUS
  <2>2. QED
    BY <1>3, <1>4, <2>1
<1>7. ASSUME NEW i \in 0 .. 2
      PROVE  SumTo(value, i) = (SumTo(value, i + 1) * Word) + ValueOf(value, i)
  <2>1. (i = 0 /\ i + 1 = 1) \/ (i = 1 /\ i + 1 = 2) \/ (i = 2 /\ i + 1 = 3)
    OBVIOUS
  <2>2. QED
    BY <1>4, <1>5, <2>1
<1>8. QED
  BY <1>1, <1>4, <1>5, <1>6, <1>7

\* value_so_far is 0 exactly where what the register holds is 0.
LEMMA NothingAboveIsZero ==
  ASSUME NEW value \in Int, NEW i \in 0 .. 2, NothingAbove(value, i)
  PROVE  SumTo(value, i + 1) = 0
<1>1. PairValue(0) = 0
  <2>1. InRange(0, Word)
    BY WordIs DEF InRange
  <2>2. UpperOf(0) + LowerOf(0) = PairValue(0)
    BY <2>1, PairAdds
  <2>3. 0 = (Word * 0) + 0 /\ 0 = (Low * 0) + 0 /\ 0 \in 0 .. (Low - 1) /\ 0 \in 0 .. (High - 1)
    BY WordIs
  <2>4. LowPart(0) = 0
    BY <2>3, WordIs, SmallMod DEF LowPart
  <2>5. HighPart(0) = 0
    <3>1. 0 \div Low = 0
      BY <2>3, WordIs, DivModUnique
    <3>2. 0 + LowPart(0) = 0
      BY <2>4
    <3>3. QED
      BY <2>3, <3>1, <3>2, WordIs, SmallMod DEF HighPart
  <2>6. 0 * Low = 0
    BY WordIs
  <2>7. UpperOf(0) = 0 /\ LowerOf(0) = 0
    BY <2>4, <2>5, <2>6, WordIs, SignedZero DEF UpperOf, LowerOf
  <2>8. QED
    BY <2>2, <2>7
<1>2. \A j \in (i + 1) .. 3 : ValueOf(value, j) = 0
  BY <1>1 DEF NothingAbove, ValueOf
<1>3. /\ SumTo(value, 3) = ValueOf(value, 3)
      /\ SumTo(value, 2) = (SumTo(value, 3) * Word) + ValueOf(value, 2)
      /\ SumTo(value, 1) = (SumTo(value, 2) * Word) + ValueOf(value, 1)
  <2>1. 2 \in 0 .. 2 /\ 1 \in 0 .. 2 /\ 2 + 1 = 3 /\ 1 + 1 = 2
    OBVIOUS
  <2>2. QED
    BY <2>1, SumIs
<1>4. 0 * Word = 0
  BY WordIs
<1>5. CASE i = 2
  BY <1>2, <1>3, <1>5
<1>6. CASE i = 1
  BY <1>2, <1>3, <1>4, <1>6
<1>7. CASE i = 0
  BY <1>2, <1>3, <1>4, <1>7
<1>8. QED
  BY <1>5, <1>6, <1>7
\* The pieces of a set, and those of a laq with its patches in.
LEMMA SetPieces ==
  ASSUME NEW value \in Int, ~(value < Word)
  PROVE  Set(value) = Joined(Joined(Joined(LoadOf("set", value, 3), PieceOf("set", value, 2)),
                                    PieceOf("set", value, 1)), PieceOf("set", value, 0))
<1>1. RegOf(3) = "dst" /\ RegOf(2) = "temp" /\ RegOf(1) = "temp" /\ RegOf(0) = "temp"
  BY DEF RegOf
<1>2. ASSUME NEW i, RegOf(i) = "temp" PROVE SetPart(value, i) = PieceOf("set", value, i)
  <2>1. LoadOf("set", value, i) = BuildUint32("temp", Part(value, i))
    BY <1>2 DEF LoadOf
  <2>2. ShiftOf("set", value, i) = IF NothingAbove(value, i) THEN <<>> ELSE <<ShiftWord>>
    BY DEF ShiftOf, Nil
  <2>3. QED
    BY <2>1, <2>2, Zenon DEF SetPart, PieceOf, Joined
<1>3. LoadOf("set", value, 3) = BuildUint32("dst", Part(value, 3))
  BY <1>1 DEF LoadOf
<1>4. Set(value) = ((LoadOf("set", value, 3) \o SetPart(value, 2)) \o SetPart(value, 1)) \o SetPart(value, 0)
  BY <1>3, Zenon DEF Set
<1>5. /\ SetPart(value, 2) = PieceOf("set", value, 2) /\ SetPart(value, 1) = PieceOf("set", value, 1)
      /\ SetPart(value, 0) = PieceOf("set", value, 0)
  BY <1>1, <1>2
<1>6. QED
  BY <1>4, <1>5, Zenon DEF Joined

LEMMA LaqPieces ==
  ASSUME NEW value \in Int
  PROVE  Laq(value) = Joined(Joined(Joined(LoadOf("laq", value, 3), PieceOf("laq", value, 2)),
                                    PieceOf("laq", value, 1)), PieceOf("laq", value, 0))
<1>1. RegOf(3) = "dst" /\ RegOf(2) = "temp" /\ RegOf(1) = "temp" /\ RegOf(0) = "temp"
  BY DEF RegOf
<1> DEFINE shift == <<ShiftWord>>
           add == <<AddTemp>>
           both == <<ShiftWord, AddTemp>>
<1>2. shift \in Code /\ add \in Code /\ both = Joined(shift, add)
  <2>1. shift \in Code /\ add \in Code
    BY AddWordsAre DEF Code
  <2>2. add = Then(AddTemp, Nil) /\ both = Then(ShiftWord, Then(AddTemp, Nil))
    BY AddWordsAre, WordByWord
  <2> HIDE DEF add, both
  <2>3. QED
    BY <2>1, <2>2 DEF Then
<1> HIDE DEF shift, add, both
<1>3. ASSUME NEW i \in 0 .. 3, RegOf(i) = "temp" PROVE LaqMore(Part(value, i)) = PieceOf("laq", value, i)
  <2>1. PICK n \in Int : n = Part(value, i)
    BY PartIs
  <2>2. Pair("temp", n) \in Code
    BY PairTyped DEF Loadable, Code
  <2>3. Joined(Joined(Pair("temp", n), shift), add) = Joined(Pair("temp", n), Joined(shift, add))
    BY <1>2, <2>2, JoinedAssociative
  <2>4. LaqMore(n) = Joined(Pair("temp", n), Joined(shift, add))
    BY <1>2 DEF LaqMore, both
  <2>5. LoadOf("laq", value, i) = Pair("temp", n) /\ ShiftOf("laq", value, i) = shift
    BY <1>3, <2>1 DEF LoadOf, ShiftOf, shift
  <2>6. QED
    BY <2>1, <2>3, <2>4, <2>5 DEF PieceOf, add
<1>4. LoadOf("laq", value, 3) = Pair("dst", Part(value, 3))
  BY <1>1 DEF LoadOf
<1>5. /\ LaqMore(Part(value, 2)) = PieceOf("laq", value, 2)
      /\ LaqMore(Part(value, 1)) = PieceOf("laq", value, 1)
      /\ LaqMore(Part(value, 0)) = PieceOf("laq", value, 0)
  BY <1>1, <1>3
<1>6. Laq(value) = LaqPairs(Part(value, 3), Part(value, 2), Part(value, 1), Part(value, 0))
  BY LaqIs
<1>7. QED
  BY <1>4, <1>5, <1>6 DEF LaqPairs

LEMMA CodeIsSummed ==
  ASSUME NEW op \in {"set", "laq"}, NEW value \in Int, IsLong(op, value)
  PROVE  (IF op = "set" THEN Set(value) ELSE Laq(value))
           = Joined(LoadOf(op, value, 3), Rest(op, value, 3))
<1> DEFINE load == LoadOf(op, value, 3)
           q2 == PieceOf(op, value, 2)
           q1 == PieceOf(op, value, 1)
           q0 == PieceOf(op, value, 0)
<1>1. load \in Code /\ q2 \in Code /\ q1 \in Code /\ q0 \in Code
  BY PiecesTyped
<1>2. (IF op = "set" THEN Set(value) ELSE Laq(value)) = Joined(Joined(Joined(load, q2), q1), q0)
  BY SetPieces, LaqPieces DEF IsLong
<1>3. /\ Nil \in Code /\ Adding(op, value, 0, Nil) \in Code
      /\ Adding(op, value, 1, Adding(op, value, 0, Nil)) \in Code
  BY RestIs, AddingIs DEF Rest
<1>4. Joined(q0, Nil) = Adding(op, value, 0, Nil) /\ Joined(q0, Nil) = q0
  BY <1>1, <1>3, AddingIs, NilJoined
<1>5. Joined(q1, q0) = Adding(op, value, 1, Adding(op, value, 0, Nil))
  BY <1>3, <1>4, AddingIs
<1>6. Joined(q2, Joined(q1, q0)) = Rest(op, value, 3)
  BY <1>3, <1>5, AddingIs DEF Rest
<1> HIDE DEF load, q2, q1, q0
<1>7. Joined(load, q2) \in Code /\ Joined(q1, q0) \in Code
  BY <1>1, JoinedTyped
<1>8. Joined(Joined(Joined(load, q2), q1), q0) = Joined(Joined(load, q2), Joined(q1, q0))
  BY <1>1, <1>7, JoinedAssociative
<1>9. Joined(Joined(load, q2), Joined(q1, q0)) = Joined(load, Joined(q2, Joined(q1, q0)))
  BY <1>1, <1>7, JoinedAssociative
<1>10. QED
  BY <1>2, <1>6, <1>8, <1>9 DEF load
\* A shift drops what the register cannot hold, as a sum does.
LEMMA ShiftRuns ==
  ASSUME MachineInv, Next, NEW rest \in Code, NEW a \in Int,
         Ahead(Then(ShiftWord, rest)), regs["dst"] = a % Wide
  PROVE  /\ Ahead(rest)' /\ regs'["dst"] = (a * Word) % Wide /\ regs'["temp"] = regs["temp"]
<1>1. /\ ShiftWord \in Instruction /\ ShiftWord.op = "slli"
      /\ ShiftWord.rd = "dst" /\ ShiftWord.rs1 = "dst"
  BY AddWordsAre DEF WordOf
<1>2. Result(ShiftWord) = (regs["dst"] % (Wide \div Word)) * Word
  BY <1>1 DEF Result
<1>3. Ahead(rest)' /\ regs' = [regs EXCEPT !["dst"] = Result(ShiftWord) % Wide]
  BY <1>1, Runs
<1>4. PICK m \in Nat : m = Word * Long /\ m > 0 /\ Wide \div Word = m /\ Wide = m * Word
  BY WideIs
<1>5. (a % (m * Word)) % m = a % m
  BY <1>4, WordIs, ModOfMultiple
<1>6. (a * Word) % (m * Word) = (a % m) * Word
  BY <1>4, WordIs, ModOfProduct
<1>7. Result(ShiftWord) = (a * Word) % Wide
  BY <1>2, <1>4, <1>5, <1>6
<1>8. a * Word \in Int
  BY WordIs
<1>9. ((a * Word) % Wide) % Wide = (a * Word) % Wide
  BY <1>8, WordIs, DivMod, SmallMod
<1>10. "dst" \in DOMAIN regs /\ "temp" \in DOMAIN regs
  BY DEF MachineInv, Registers
<1>11. QED
  BY <1>3, <1>7, <1>9, <1>10

LEMMA AddRuns ==
  ASSUME MachineInv, Next, NEW rest \in Code, NEW a \in Int, NEW b \in Int,
         Ahead(Then(AddTemp, rest)), regs["dst"] = a % Wide, regs["temp"] = b % Wide
  PROVE  Ahead(rest)' /\ regs'["dst"] = (a + b) % Wide
<1>1. /\ AddTemp \in Instruction /\ AddTemp.op = "add" /\ AddTemp.rd = "dst"
      /\ AddTemp.rs1 = "dst" /\ AddTemp.rs2 = "temp"
  BY AddWordsAre DEF WordOf
<1>2. Result(AddTemp) = (a % Wide) + (b % Wide)
  BY <1>1 DEF Result
<1>3. Ahead(rest)' /\ regs' = [regs EXCEPT !["dst"] = Result(AddTemp) % Wide]
  BY <1>1, Runs
<1>4. PICK c \in Int : c = b % Wide
  BY WordIs, DivMod
<1>5. ((a % Wide) + c) % Wide = (a + c) % Wide
  BY WordIs, ModOfSum
<1>6. ((b % Wide) + a) % Wide = (b + a) % Wide
  BY WordIs, ModOfSum
<1>7. a + c = c + a /\ b + a = a + b
  BY <1>4
<1>8. Result(AddTemp) % Wide = (a + b) % Wide
  BY <1>2, <1>4, <1>5, <1>6, <1>7
<1>9. "dst" \in DOMAIN regs
  BY DEF MachineInv, Registers
<1>10. QED
  BY <1>3, <1>8, <1>9

\* Part i and those above are summed; its successor is half or wholly loaded;
\* what was summed is shifted.
Summed(op, value, i) ==
  Ahead(Rest(op, value, i)) /\ regs["dst"] = SumTo(value, i) % Wide

HalfPart(op, value, i) ==
  /\ Halfway("temp", Part(value, i), Summing(op, value, i, Rest(op, value, i)))
  /\ regs["dst"] = SumTo(value, i + 1) % Wide

WholePart(op, value, i) ==
  /\ HasLoaded("temp", Part(value, i), Summing(op, value, i, Rest(op, value, i)))
  /\ regs["dst"] = SumTo(value, i + 1) % Wide

ShiftedUp(op, value, i) ==
  /\ Ahead(Then(AddTemp, Rest(op, value, i)))
  /\ regs["temp"] = ValueOf(value, i) % Wide
  /\ regs["dst"] = (SumTo(value, i + 1) * Word) % Wide

LongStages(op, value) ==
  \/ Ahead(Joined(LoadOf(op, value, 3), Rest(op, value, 3)))
  \/ Halfway("dst", Part(value, 3), Rest(op, value, 3))
  \/ \E i \in 0 .. 2 :
       HalfPart(op, value, i) \/ WholePart(op, value, i) \/ ShiftedUp(op, value, i)
  \/ \E i \in 0 .. 3 : Summed(op, value, i)

LongInv == IsLong(request.op, request.value) => LongStages(request.op, request.value)

LEMMA SummingIs ==
  ASSUME NEW op, NEW value \in Int, NEW i \in 0 .. 2
  PROVE  Summing(op, value, i, Rest(op, value, i)) \in Code /\ SumTo(value, i + 1) \in Int
<1>1. i \in 0 .. 3 /\ i + 1 \in 0 .. 3
  OBVIOUS
<1>2. PICK rest \in Code : rest = Rest(op, value, i)
  BY <1>1, RestIs
<1>3. Summing(op, value, i, rest) \in Code
  BY <1>1, AddingIs
<1>4. QED
  BY <1>1, <1>2, <1>3, SumIs

LEMMA LoadOfIsLoading ==
  ASSUME NEW op, NEW value \in Int, NEW i \in 0 .. 3, NEW rest \in Code,
         Ahead(Joined(LoadOf(op, value, i), rest))
  PROVE  Loading(RegOf(i), Part(value, i), rest)
<1>1. PICK n \in Int : n = Part(value, i)
  BY PartIs
<1>2. RegOf(i) \in Loadable
  BY PiecesTyped
<1>3. LoadOf(op, value, i) = BuildUint32(RegOf(i), n) \/ LoadOf(op, value, i) = Pair(RegOf(i), n)
  BY <1>1 DEF LoadOf
<1>4. QED
  BY <1>1, <1>2, <1>3, LoadsAre

\* The first part goes to the register that the others are added to.
LEMMA TopStep ==
  ASSUME MachineInv, Next, NEW op, NEW value \in Int,
         \/ Ahead(Joined(LoadOf(op, value, 3), Rest(op, value, 3)))
         \/ Halfway("dst", Part(value, 3), Rest(op, value, 3))
  PROVE  \/ Halfway("dst", Part(value, 3), Rest(op, value, 3))'
         \/ Summed(op, value, 3)'
<1>1. PICK n \in Int : n = Part(value, 3) /\ InRange(n, Word)
  BY PartIs
<1>2. PICK rest \in Code : rest = Rest(op, value, 3)
  BY RestIs
<1>3. "dst" \in Loadable /\ RegOf(3) = "dst"
  BY DEF Loadable, RegOf
<1>4. Loading("dst", n, rest) \/ Halfway("dst", n, rest)
  BY <1>1, <1>2, <1>3, LoadOfIsLoading
<1>5. Halfway("dst", n, rest)' \/ HasLoaded("dst", n, rest)'
  BY <1>1, <1>3, <1>4, LoadStep, HalfStep
<1>6. SumTo(value, 3) = PairValue(n)
  BY <1>1, SumIs DEF ValueOf
<1>7. QED
  BY <1>1, <1>2, <1>5, <1>6 DEF HasLoaded, Summed

LEMMA SummedStep ==
  ASSUME MachineInv, Next, NEW op, NEW value \in Int, NEW i \in 0 .. 2,
         Summed(op, value, i + 1)
  PROVE  HalfPart(op, value, i)' \/ WholePart(op, value, i)'
<1>1. PICK n \in Int : n = Part(value, i) /\ InRange(n, Word)
  BY PartIs
<1>2. PICK rest \in Code : rest = Summing(op, value, i, Rest(op, value, i))
  BY SummingIs
<1>3. "temp" \in Loadable /\ RegOf(i) = "temp"
  BY DEF Loadable, RegOf
<1>4. Rest(op, value, i + 1) = Joined(LoadOf(op, value, i), rest)
  BY <1>2, RestIs DEF Adding
<1>5. Loading("temp", n, rest)
  BY <1>1, <1>3, <1>4, LoadOfIsLoading DEF Summed
<1>6. (Halfway("temp", n, rest)' \/ HasLoaded("temp", n, rest)') /\ OnlySets("temp")
  BY <1>1, <1>3, <1>5, LoadStep
<1>7. regs'["dst"] = SumTo(value, i + 1) % Wide
  BY <1>6 DEF OnlySets, Summed, Registers
<1>8. QED
  BY <1>1, <1>2, <1>6, <1>7 DEF HalfPart, WholePart

LEMMA HalfPartStep ==
  ASSUME MachineInv, Next, NEW op, NEW value \in Int, NEW i \in 0 .. 2,
         HalfPart(op, value, i)
  PROVE  WholePart(op, value, i)'
<1>1. PICK n \in Int : n = Part(value, i) /\ InRange(n, Word)
  BY PartIs
<1>2. PICK rest \in Code : rest = Summing(op, value, i, Rest(op, value, i))
  BY SummingIs
<1>3. "temp" \in Loadable
  BY DEF Loadable
<1>4. Halfway("temp", n, rest)
  BY <1>1, <1>2 DEF HalfPart
<1>5. HasLoaded("temp", n, rest)' /\ OnlySets("temp")
  BY <1>1, <1>3, <1>4, HalfStep
<1>6. regs'["dst"] = SumTo(value, i + 1) % Wide
  BY <1>5 DEF OnlySets, HalfPart, Registers
<1>7. QED
  BY <1>1, <1>2, <1>5, <1>6 DEF WholePart

\* With nothing above there is no shift, and nothing that it would move.
LEMMA WholePartStep ==
  ASSUME MachineInv, Next, NEW op, NEW value \in Int, NEW i \in 0 .. 2,
         WholePart(op, value, i)
  PROVE  ShiftedUp(op, value, i)' \/ Summed(op, value, i)'
<1>1. PICK a \in Int : a = SumTo(value, i + 1)
  BY SummingIs
<1>2. PICK b \in Int : b = ValueOf(value, i)
  <2>1. i \in 0 .. 3
    OBVIOUS
  <2>2. QED
    BY <2>1, ValueTyped
<1>3. PICK rest \in Code : rest = Rest(op, value, i)
  BY RestIs
<1>4. /\ regs["dst"] = a % Wide /\ regs["temp"] = b % Wide
      /\ Ahead(Joined(ShiftOf(op, value, i), Then(AddTemp, rest)))
  BY <1>1, <1>2, <1>3 DEF WholePart, HasLoaded, Summing, ValueOf
<1>5. Then(AddTemp, rest) \in Code
  BY AddWordsAre, ThenIs
<1>6. SumTo(value, i) = (a * Word) + b
  BY <1>1, <1>2, SumIs
<1>7. CASE op = "set" /\ NothingAbove(value, i)
  <2>1. Joined(ShiftOf(op, value, i), Then(AddTemp, rest)) = Then(AddTemp, rest)
    BY <1>5, <1>7, NilJoined DEF ShiftOf
  <2>2. Ahead(rest)' /\ regs'["dst"] = (a + b) % Wide
    BY <1>4, <2>1, AddRuns
  <2>3. a = 0
    BY <1>1, <1>7, NothingAboveIsZero
  <2>4. a + b = SumTo(value, i)
    BY <1>6, <2>3, WordIs
  <2>5. QED
    BY <1>3, <2>2, <2>4 DEF Summed
<1>8. CASE ~(op = "set" /\ NothingAbove(value, i))
  <2>1. Joined(ShiftOf(op, value, i), Then(AddTemp, rest)) = Then(ShiftWord, Then(AddTemp, rest))
    BY <1>8 DEF ShiftOf, Then
  <2>2. /\ Ahead(Then(AddTemp, rest))' /\ regs'["dst"] = (a * Word) % Wide
        /\ regs'["temp"] = regs["temp"]
    BY <1>4, <1>5, <2>1, ShiftRuns
  <2>3. QED
    BY <1>1, <1>2, <1>3, <1>4, <2>2 DEF ShiftedUp
<1>9. QED
  BY <1>7, <1>8

LEMMA ShiftedStep ==
  ASSUME MachineInv, Next, NEW op, NEW value \in Int, NEW i \in 0 .. 2,
         ShiftedUp(op, value, i)
  PROVE  Summed(op, value, i)'
<1>1. PICK a \in Int : a = SumTo(value, i + 1) * Word
  <2>1. SumTo(value, i + 1) \in Int
    BY SummingIs
  <2>2. QED
    BY <2>1, WordIs
<1>2. PICK b \in Int : b = ValueOf(value, i)
  <2>1. i \in 0 .. 3
    OBVIOUS
  <2>2. QED
    BY <2>1, ValueTyped
<1>3. PICK rest \in Code : rest = Rest(op, value, i)
  BY RestIs
<1>4. Ahead(rest)' /\ regs'["dst"] = (a + b) % Wide
  BY <1>1, <1>2, <1>3, AddRuns DEF ShiftedUp
<1>5. SumTo(value, i) = a + b
  BY <1>1, <1>2, SumIs
<1>6. QED
  BY <1>3, <1>4, <1>5 DEF Summed
LEMMA LongInit ==
  ASSUME Init
  PROVE  LongInv
<1>1. MachineInv /\ pc = 1 /\ code = CodeOf(request)
  BY MachineInit DEF Init
<1>2. PICK value \in Int : value = request.value
  BY <1>1, RequestTypes DEF MachineInv
<1>3. SUFFICES ASSUME IsLong(request.op, value)
               PROVE  LongStages(request.op, value)
  BY <1>2 DEF LongInv
<1>4. PICK op \in {"set", "laq"} : op = request.op
  BY <1>3 DEF IsLong
<1>5. code = IF op = "set" THEN Set(value) ELSE Laq(value)
  BY <1>1, <1>2, <1>4 DEF CodeOf
<1>6. code = Joined(LoadOf(op, value, 3), Rest(op, value, 3))
  BY <1>3, <1>4, <1>5, CodeIsSummed
<1>7. Ahead(code)
  BY <1>1, AheadAtStart
<1>8. QED
  BY <1>4, <1>6, <1>7 DEF LongStages

LEMMA LongNext ==
  ASSUME MachineInv, LongInv, [Next]_vars
  PROVE  LongInv'
<1>1. CASE UNCHANGED vars
  BY <1>1 DEF LongInv, LongStages, Halfway, HalfPart, WholePart, HasLoaded, ShiftedUp,
              Summed, Ahead, vars
<1>2. CASE Next /\ ~UNCHANGED vars
  <2>1. PICK value \in Int : value = request.value
    BY RequestTypes DEF MachineInv
  <2>2. PICK op : op = request.op
    OBVIOUS
  <2>3. request' = request
    BY <1>2 DEF Next, RunLui, RunAuipc, RunAddi, RunSlli, RunAdd, RunJalr, Stopped, Write, vars
  <2>4. ASSUME LongStages(op, value)
        PROVE  LongStages(op, value)'
    <3>1. CASE \/ Ahead(Joined(LoadOf(op, value, 3), Rest(op, value, 3)))
               \/ Halfway("dst", Part(value, 3), Rest(op, value, 3))
      <4>1. \/ Halfway("dst", Part(value, 3), Rest(op, value, 3))'
            \/ Summed(op, value, 3)'
        BY <1>2, <3>1, TopStep
      <4>2. 3 \in 0 .. 3
        OBVIOUS
      <4>3. QED
        BY <4>1, <4>2 DEF LongStages
    <3>2. CASE \E i \in 0 .. 2 :
                 HalfPart(op, value, i) \/ WholePart(op, value, i) \/ ShiftedUp(op, value, i)
      <4>1. PICK i \in 0 .. 2 :
              HalfPart(op, value, i) \/ WholePart(op, value, i) \/ ShiftedUp(op, value, i)
        BY <3>2
      <4>2. WholePart(op, value, i)' \/ ShiftedUp(op, value, i)' \/ Summed(op, value, i)'
        BY <1>2, <4>1, HalfPartStep, WholePartStep, ShiftedStep
      <4>3. i \in 0 .. 3
        BY <4>1
      <4>4. QED
        BY <4>1, <4>2, <4>3 DEF LongStages
    <3>3. CASE \E i \in 0 .. 3 : Summed(op, value, i)
      <4>1. PICK i \in 0 .. 3 : Summed(op, value, i)
        BY <3>3
      <4>2. CASE i = 0
        <5>1. Ahead(Nil)
          BY <4>1, <4>2, RestIs DEF Summed
        <5>2. QED
          BY <1>2, <5>1, NilIsDone
      <4>3. CASE i # 0
        <5>1. PICK j \in 0 .. 2 : i = j + 1
          <6>1. i - 1 \in 0 .. 2 /\ i = (i - 1) + 1
            BY <4>3
          <6>2. QED
            BY <6>1
        <5>2. HalfPart(op, value, j)' \/ WholePart(op, value, j)'
          BY <1>2, <4>1, <5>1, SummedStep
        <5>3. QED
          BY <5>2 DEF LongStages
      <4>4. QED
        BY <4>2, <4>3
    <3>4. QED
      BY <2>4, <3>1, <3>2, <3>3 DEF LongStages
  <2>5. QED
    BY <2>1, <2>2, <2>3, <2>4 DEF LongInv
<1>3. QED
  BY <1>1, <1>2

LEMMA LongInvariant == Spec => [](MachineInv /\ LongInv)
<1>1. Init => MachineInv /\ LongInv
  BY MachineInit, LongInit
<1>2. MachineInv /\ LongInv /\ [Next]_vars => (MachineInv /\ LongInv)'
  BY MachineNext, LongNext
<1>3. QED
  BY <1>1, <1>2, PTL DEF Spec

\* What a load or a sum is followed by is not the end.
LEMMA LoadIsNotDone ==
  ASSUME MachineInv, NEW op, NEW value \in Int, NEW i \in 0 .. 3, NEW rest \in Code,
         Ahead(Joined(LoadOf(op, value, i), rest))
  PROVE  ~Done
<1>1. PICK n \in Int : n = Part(value, i)
  BY PartIs
<1>2. RegOf(i) \in Loadable
  BY PiecesTyped
<1>3. Loading(RegOf(i), n, rest)
  BY <1>1, LoadOfIsLoading
<1>4. QED
  BY <1>2, <1>3, LoadingIsNotDone

LEMMA SummingIsNotDone ==
  ASSUME MachineInv, NEW op, NEW value \in Int, NEW i \in 0 .. 2,
         \/ HalfPart(op, value, i) \/ WholePart(op, value, i) \/ ShiftedUp(op, value, i)
         \/ Summed(op, value, i + 1)
  PROVE  ~Done
<1>1. PICK rest \in Code : rest = Rest(op, value, i)
  BY RestIs
<1>2. PICK sum \in Code : sum = Summing(op, value, i, rest)
  BY <1>1, SummingIs
<1>3. Then(AddTemp, rest) \in Code /\ AddTemp \in Instruction /\ ShiftWord \in Instruction
  BY AddWordsAre, ThenIs
<1>4. CASE HalfPart(op, value, i)
  <2>1. PICK n \in Int : n = Part(value, i)
    BY PartIs
  <2>2. Halfway("temp", n, sum) /\ "temp" \in Loadable
    BY <1>1, <1>2, <1>4, <2>1 DEF HalfPart, Loadable
  <2>3. QED
    BY <2>2, LoadingIsNotDone
<1>5. CASE WholePart(op, value, i)
  <2>1. Ahead(Joined(ShiftOf(op, value, i), Then(AddTemp, rest)))
    BY <1>1, <1>5 DEF WholePart, HasLoaded, Summing
  <2>2. \/ Joined(ShiftOf(op, value, i), Then(AddTemp, rest)) = Then(AddTemp, rest)
        \/ Joined(ShiftOf(op, value, i), Then(AddTemp, rest)) = Then(ShiftWord, Then(AddTemp, rest))
    <3>1. Joined(Nil, Then(AddTemp, rest)) = Then(AddTemp, rest)
      BY <1>3, NilJoined
    <3>2. QED
      BY <3>1 DEF ShiftOf, Then
  <2>3. QED
    BY <1>3, <2>1, <2>2, AheadIsNotDone
<1>6. CASE ShiftedUp(op, value, i)
  BY <1>1, <1>3, <1>6, AheadIsNotDone DEF ShiftedUp
<1>7. CASE Summed(op, value, i + 1)
  <2>1. Ahead(Joined(LoadOf(op, value, i), sum))
    BY <1>1, <1>2, <1>7, RestIs DEF Summed, Adding
  <2>2. QED
    BY <2>1, LoadIsNotDone
<1>8. QED
  BY <1>4, <1>5, <1>6, <1>7

LEMMA LongIsLoaded ==
  ASSUME MachineInv, LongInv, Done, IsLong(request.op, request.value)
  PROVE  regs["dst"] = SumTo(request.value, 0) % Wide
<1>1. PICK value \in Int : value = request.value
  BY RequestTypes DEF MachineInv
<1>2. PICK op : op = request.op
  OBVIOUS
<1>3. LongStages(op, value)
  BY <1>1, <1>2 DEF LongInv
<1>4. ~Ahead(Joined(LoadOf(op, value, 3), Rest(op, value, 3)))
  BY RestIs, LoadIsNotDone
<1>5. ~Halfway("dst", Part(value, 3), Rest(op, value, 3))
  <2>1. PICK n \in Int : n = Part(value, 3)
    BY PartIs
  <2>2. PICK rest \in Code : rest = Rest(op, value, 3)
    BY RestIs
  <2>3. "dst" \in Loadable
    BY DEF Loadable
  <2>4. QED
    BY <2>1, <2>2, <2>3, LoadingIsNotDone
<1>6. PICK i \in 0 .. 3 : Summed(op, value, i)
  BY <1>3, <1>4, <1>5, SummingIsNotDone DEF LongStages
<1>7. i = 0
  <2>1. SUFFICES ASSUME i # 0 PROVE FALSE
    OBVIOUS
  <2>2. i - 1 \in 0 .. 2 /\ i = (i - 1) + 1
    BY <2>1
  <2>3. PICK j \in 0 .. 2 : i = j + 1
    BY <2>2
  <2>4. QED
    BY <1>6, <2>3, SummingIsNotDone
<1>8. QED
  BY <1>1, <1>6, <1>7 DEF Summed

\* Part i and those above, as they are cut from the value.
Above(value, i) == value \div Weight(i)

LEMMA WeightStep ==
  ASSUME NEW i \in 0 .. 2
  PROVE  Weight(i + 1) = Weight(i) * Word
<1>1. (i = 0 /\ i + 1 = 1) \/ (i = 1 /\ i + 1 = 2) \/ (i = 2 /\ i + 1 = 3)
  OBVIOUS
<1>2. Weight(0) = 1 /\ Weight(1) = Word /\ Weight(2) = Long /\ Weight(3) = Long * Word
  BY DEF Weight
<1>3. 1 * Word = Word /\ Word * Word = Long
  BY WordIs DEF Long
<1>4. QED
  BY <1>1, <1>2, <1>3

\* Dividing twice is dividing by the product.
LEMMA DivTwice ==
  ASSUME NEW a \in Int, NEW m \in Nat, m > 0, NEW k \in Nat, k > 0
  PROVE  (a \div m) \div k = a \div (m * k)
<1> DEFINE q == a \div m
           r == a % m
           t == q \div k
           u == q % k
<1>1. q \in Int /\ r \in 0 .. (m - 1) /\ a = (m * q) + r
  BY DivMod
<1>2. t \in Int /\ u \in 0 .. (k - 1) /\ q = (k * t) + u
  BY <1>1, DivMod
<1> HIDE DEF q, r, t, u
<1> DEFINE n == m * k
           rest == (m * u) + r
<1>3. n \in Nat /\ n > 0
  OBVIOUS
<1>4. m * q = (m * (k * t)) + (m * u)
  <2>1. k * t \in Int /\ u \in Int
    BY <1>2
  <2>2. QED
    BY <1>2, <2>1
<1>5. m * (k * t) = n * t
  BY <1>2, Associative
<1>6. rest \in 0 .. (n - 1)
  <2>1. m * u <= m * (k - 1) /\ 0 <= m * u
    <3>1. u \in Int /\ u <= k - 1 /\ k - 1 \in Int /\ 0 <= u /\ 0 \in Int
      BY <1>2
    <3>2. m * u <= m * (k - 1) /\ m * 0 <= m * u
      BY <3>1, Monotone
    <3>3. QED
      BY <3>2
  <2>2. m * (k - 1) = n - m /\ m * u \in Int
    BY <1>2
  <2>3. QED
    BY <1>1, <1>3, <2>1, <2>2
<1>7. a = (n * t) + rest
  <2>1. m * u \in Int /\ n * t \in Int
    BY <1>2, <1>3
  <2>2. QED
    BY <1>1, <1>4, <1>5, <2>1
<1> HIDE DEF n, rest
<1>8. a \div n = t
  BY <1>2, <1>3, <1>6, <1>7, DivModUnique
<1>9. QED
  BY <1>8 DEF n, t, q

\* A part that is plain is what separates it from the parts above.
LEMMA AboveStep ==
  ASSUME NEW value \in Int, NEW i \in 0 .. 2, PartsPlain(value)
  PROVE  /\ Above(value, i) \in Int /\ Above(value, i + 1) \in Int
         /\ Above(value, i) = (Above(value, i + 1) * Word) + ValueOf(value, i)
<1> DEFINE q == Above(value, i)
           bits == q % Word
<1>1. Weight(i) \in Nat /\ Weight(i) > 0 /\ Weight(i + 1) = Weight(i) * Word
  BY WeightIs, WeightStep
<1>2. q \in Int
  BY <1>1, DivMod DEF Above
<1>3. q \div Word = Above(value, i + 1)
  BY <1>1, WordIs, DivTwice DEF Above
<1>4. /\ bits \in 0 .. (Word - 1) /\ q \div Word \in Int
      /\ q = (Word * (q \div Word)) + bits
  BY <1>2, WordIs, DivMod
<1>5. Part(value, i) = bits
  <2>1. Part(value, i) = IF 2 * bits < Word THEN bits ELSE bits - Word
    BY DEF Part, Signed, Above
  <2>2. Part(value, i) >= 0
    BY DEF PartsPlain
  <2> HIDE DEF bits
  <2>3. QED
    BY <1>4, <2>1, <2>2, WordIs
<1>6. ValueOf(value, i) = bits
  BY <1>5 DEF ValueOf, PairValue, PartsPlain
<1> HIDE DEF q, bits
<1>7. QED
  BY <1>2, <1>3, <1>4, <1>6, WordIs DEF q

\* Whatever the top part is sign-extended to is lost with the bits above it.
LEMMA TopPart ==
  ASSUME NEW value \in Int
  PROVE  \E k \in Int : ValueOf(value, 3) = Above(value, 3) + (Word * k)
<1> DEFINE q == Above(value, 3)
           n == Part(value, 3)
<1>1. q \in Int
  BY WeightIs, DivMod DEF Above
<1>2. n = Signed(q, Word)
  BY DEF Part, Above
<1> HIDE DEF q, n
<1>3. PICK j \in Int : q = n + (Word * j)
  BY <1>1, <1>2, WordIs, SignedIs
<1>4. n \in Int
  BY <1>1, <1>2, WordIs, SignedIs
<1>5. Word * (-j) = -(Word * j) /\ Word * ((-j) - 1) = (-(Word * j)) - Word /\ Word * j \in Int
  BY WordIs
<1>6. n = q + (Word * (-j)) /\ n - Word = q + (Word * ((-j) - 1))
  BY <1>1, <1>3, <1>4, <1>5, WordIs
<1>7. ValueOf(value, 3) = n \/ ValueOf(value, 3) = n - Word
  BY DEF ValueOf, PairValue, n
<1>8. -j \in Int /\ (-j) - 1 \in Int
  OBVIOUS
<1>9. QED
  BY <1>6, <1>7, <1>8 DEF q

LEMMA PlainSum ==
  ASSUME NEW value \in 0 .. (Wide - 1), PartsPlain(value)
  PROVE  SumTo(value, 0) % Wide = value
<1>1. value \in Int
  OBVIOUS
<1>2. PICK k \in Int : SumTo(value, 3) = Above(value, 3) + (Word * k)
  BY <1>1, SumIs, TopPart
<1>3. ASSUME NEW i \in 0 .. 2, NEW m \in Int, SumTo(value, i + 1) = Above(value, i + 1) + m
      PROVE  SumTo(value, i) = Above(value, i) + (m * Word)
  <2>1. SumTo(value, i) = (SumTo(value, i + 1) * Word) + ValueOf(value, i)
    BY <1>1, SumIs
  <2>2. /\ Above(value, i) = (Above(value, i + 1) * Word) + ValueOf(value, i)
        /\ Above(value, i + 1) \in Int
    BY <1>1, AboveStep
  <2>3. ValueOf(value, i) \in Int
    <3>1. i \in 0 .. 3
      OBVIOUS
    <3>2. QED
      BY <1>1, <3>1, ValueTyped
  <2>4. PICK a \in Int : a = Above(value, i + 1)
    BY <2>2
  <2>5. (a + m) * Word = (a * Word) + (m * Word) /\ a * Word \in Int /\ m * Word \in Int
    BY WordIs
  <2>6. QED
    BY <1>3, <2>1, <2>2, <2>3, <2>4, <2>5
<1>4. /\ Word * k \in Int /\ (Word * k) * Word \in Int /\ ((Word * k) * Word) * Word \in Int
      /\ (((Word * k) * Word) * Word) * Word \in Int
  <2>1. \A m \in Int : m * Word \in Int
    BY WordIs
  <2>2. Word * k \in Int
    BY WordIs
  <2>3. QED
    BY <2>1, <2>2
<1>5. SumTo(value, 2) = Above(value, 2) + ((Word * k) * Word)
  <2>1. 2 \in 0 .. 2 /\ 2 + 1 = 3
    OBVIOUS
  <2>2. QED
    BY <1>2, <1>3, <1>4, <2>1
<1>6. SumTo(value, 1) = Above(value, 1) + (((Word * k) * Word) * Word)
  <2>1. 1 \in 0 .. 2 /\ 1 + 1 = 2
    OBVIOUS
  <2>2. QED
    BY <1>3, <1>4, <1>5, <2>1
<1>7. SumTo(value, 0) = Above(value, 0) + ((((Word * k) * Word) * Word) * Word)
  <2>1. 0 \in 0 .. 2 /\ 0 + 1 = 1
    OBVIOUS
  <2>2. QED
    BY <1>3, <1>4, <1>6, <2>1
<1>8. (((Word * k) * Word) * Word) * Word = Wide * k
  <2>1. (Word * k) * Word = Long * k
    <3>1. (Word * k) * Word = Word * (Word * k)
      BY WordIs
    <3>2. (Word * Word) * k = Word * (Word * k)
      BY WordIs, Associative
    <3>3. QED
      BY <3>1, <3>2 DEF Long
  <2>2. PICK m \in Int : m = Long * k
    BY WordIs
  <2>3. (m * Word) * Word = m * Long
    BY <2>2, WordIs, Associative DEF Long
  <2>4. m * Long = Long * (Long * k)
    BY <2>2, WordIs
  <2>5. (Long * Long) * k = Long * (Long * k)
    BY WordIs, Associative
  <2>6. QED
    BY <2>1, <2>2, <2>3, <2>4, <2>5 DEF Wide
<1>9. Above(value, 0) = value
  <2>1. value = (1 * value) + 0 /\ 0 \in 0 .. (1 - 1)
    BY <1>1
  <2>2. value \div 1 = value
    BY <1>1, <2>1, DivModUnique
  <2>3. QED
    BY <2>2 DEF Above, Weight
<1>10. (value + (Wide * k)) % Wide = value % Wide
  BY <1>1, WordIs, Shifted
<1>11. QED
  BY <1>7, <1>8, <1>9, <1>10, WordIs, SmallMod

(***************************************************************************)
(* set and laq leave their value whole when its parts but the top one are  *)
(* plain: the shifts that set leaves out would have moved only zeros,      *)
(* those that are there drop only what a register cannot hold, and the     *)
(* eight words laq patches are the ones it reserved (opcodes.cpp:68-112,   *)
(* 143-180).                                                               *)
(***************************************************************************)
THEOREM PartsAreSummed == Spec => []PartsAddUp
<1>1. MachineInv /\ SmallInv /\ LongInv => PartsAddUp
  <2>1. SUFFICES ASSUME MachineInv, SmallInv, LongInv, Done, request.op \in {"set", "laq"},
                        PartsPlain(request.value)
                 PROVE  regs["dst"] = request.value
    BY DEF PartsAddUp, Loaded
  <2>2. PICK value \in 0 .. (Wide - 1) : value = request.value
    BY <2>1, RequestTypes DEF MachineInv
  <2>3. CASE IsLong(request.op, request.value)
    BY <2>1, <2>2, <2>3, LongIsLoaded, PlainSum
  <2>4. CASE ~IsLong(request.op, request.value)
    <3>1. request.op = "set" /\ value < Word
      BY <2>1, <2>2, <2>4 DEF IsLong
    <3>2. regs["dst"] = PairValue(Signed(value, Word)) % Wide
      BY <2>1, <2>2, <3>1, SmallIsLoaded DEF IsSmall
    <3>3. value \div 1 = value
      <4>1. value = (1 * value) + 0 /\ 0 \in 0 .. (1 - 1)
        OBVIOUS
      <4>2. QED
        BY <4>1, DivModUnique
    <3>4. Signed(value, Word) = Part(value, 0)
      BY <3>3 DEF Part, Weight
    <3>5. PairValue(Part(value, 0)) = Part(value, 0) /\ Part(value, 0) >= 0
      BY <2>1, <2>2 DEF PairValue, PartsPlain
    <3>6. value \in 0 .. (Word - 1)
      BY <3>1, WordIs
    <3>7. value % Word = value
      BY <3>6, WordIs, SmallMod
    <3>8. Signed(value, Word) = value
      <4>1. Signed(value, Word) = value \/ Signed(value, Word) = value - Word
        BY <3>7 DEF Signed
      <4>2. QED
        BY <3>4, <3>5, <3>6, <4>1, WordIs
    <3>9. value % Wide = value
      BY WordIs, SmallMod
    <3>10. QED
      BY <2>2, <3>2, <3>4, <3>5, <3>8, <3>9
  <2>5. QED
    BY <2>3, <2>4
<1>2. QED
  BY <1>1, SmallInvariant, LongInvariant, PTL
=============================================================================

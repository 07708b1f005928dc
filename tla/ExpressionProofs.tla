--------------------------- MODULE ExpressionProofs ---------------------------
(***************************************************************************)
(* Theorems about the words of a text and the value of an operand, for     *)
(* every text, any number of digits in a half, any width of an int, and    *)
(* any reserved names.                                                     *)
(***************************************************************************)
EXTENDS Expressions, SequenceTheorems, WellFoundedInduction, FiniteSetTheorems, TLAPS

-----------------------------------------------------------------------------
\* Induction over the natural numbers, for sets: the least number outside of
\* such a set would have a predecessor outside of it.
Less == OpToRel(<, Nat)

LEMMA LessIsWellFounded == IsWellFoundedOn(Less, Nat)
BY NatLessThanWellFounded DEF Less

LEMMA LessPairs ==
  ASSUME NEW a \in Nat, NEW b \in Nat, a < b
  PROVE  <<a, b>> \in Less
<1>1. <<a, b>> \in Nat \X Nat /\ <<a, b>>[1] = a /\ <<a, b>>[2] = b
  OBVIOUS
<1>2. QED
  BY <1>1 DEF Less, OpToRel

LEMMA SetInduction ==
  ASSUME NEW S, 0 \in S, \A n \in Nat : n \in S => n + 1 \in S
  PROVE  Nat \subseteq S
<1> SUFFICES ASSUME Nat \ S # {} PROVE FALSE
  OBVIOUS
<1>1. PICK x \in Nat \ S : \A y \in Nat \ S : ~ (<<y, x>> \in Less)
  <2>1. Nat \ S \subseteq Nat
    OBVIOUS
  <2>2. QED
    BY <2>1, LessIsWellFounded, WFMin, Zenon
<1>2. x # 0 /\ x \in Nat
  BY <1>1
<1>3. x - 1 \in Nat /\ x - 1 + 1 = x /\ x - 1 < x
  BY <1>2
<1>4. x - 1 \in Nat \ S
  BY <1>1, <1>3
<1>5. <<x - 1, x>> \in Less
  BY <1>2, <1>3, LessPairs, Zenon
<1>6. QED
  BY <1>1, <1>4, <1>5, Zenon

-----------------------------------------------------------------------------
(***************************************************************************)
(* Functions defined by recursion over an interval                         *)
(***************************************************************************)

\* f is `base' at `first' and what `step' makes of it from there to m.
Steps(f, S, first, m, base, step) ==
  /\ f \in [first .. m -> S]
  /\ f[first] = base
  /\ \A i \in (first + 1) .. m : f[i] = step[<<i, f[i - 1]>>]

CanStep(S, first, base, step) ==
  /\ first \in Nat /\ base \in S
  /\ step \in [Nat \X S -> S]

StepsTo(S, first, base, step) ==
  { n \in Nat : \E f : Steps(f, S, first, first + n, base, step) }

LEMMA StepsGrow ==
  ASSUME NEW S, NEW first, NEW base, NEW step, CanStep(S, first, base, step),
         NEW n \in Nat, n \in StepsTo(S, first, base, step)
  PROVE  n + 1 \in StepsTo(S, first, base, step)
<1>1. PICK f : Steps(f, S, first, first + n, base, step)
  BY DEF StepsTo
<1>2. PICK m \in Nat : m = first + n /\ first \in Nat /\ first <= m
  BY DEF CanStep
<1>3. PICK last \in S : last = step[<<m + 1, f[m]>>]
  <2>1. f[m] \in S
    BY <1>1, <1>2 DEF Steps
  <2>2. QED
    BY <1>2, <2>1 DEF CanStep
<1> DEFINE g == [i \in first .. (m + 1) |-> IF i = m + 1 THEN last ELSE f[i]]
<1>4. \A i \in first .. (m + 1) : i = m + 1 \/ i \in first .. m
  BY <1>2
<1>5. \A i \in first .. m : i \in first .. (m + 1) /\ i # m + 1
  BY <1>2
<1>6. /\ g \in [first .. (m + 1) -> S]
      /\ g[m + 1] = last
      /\ \A i \in first .. m : g[i] = f[i]
  <2>1. \A i \in first .. m : f[i] \in S
    BY <1>1, <1>2 DEF Steps
  <2>2. QED
    BY <1>2, <1>4, <1>5, <2>1
<1> HIDE DEF g
<1>7. g[first] = base
  BY <1>1, <1>2, <1>6 DEF Steps
<1>8. ASSUME NEW i \in (first + 1) .. (m + 1)
      PROVE  g[i] = step[<<i, g[i - 1]>>]
  <2>1. CASE i = m + 1
    <3>1. i - 1 = m /\ m \in first .. m
      BY <1>2, <2>1
    <3>2. QED
      BY <1>3, <1>6, <2>1, <3>1
  <2>2. CASE i # m + 1
    <3>1. i \in first .. m /\ i - 1 \in first .. m /\ i \in (first + 1) .. m
      BY <1>2, <2>2
    <3>2. f[i] = step[<<i, f[i - 1]>>]
      BY <1>1, <1>2, <3>1 DEF Steps
    <3>3. QED
      BY <1>6, <3>1, <3>2
  <2>3. QED
    BY <2>1, <2>2
<1>9. Steps(g, S, first, m + 1, base, step)
  BY <1>6, <1>7, <1>8 DEF Steps
<1>10. first + (n + 1) = m + 1 /\ n + 1 \in Nat
  BY <1>2
<1>11. QED
  BY <1>9, <1>10 DEF StepsTo

LEMMA StepsExist ==
  ASSUME NEW S, NEW first, NEW base, NEW step, CanStep(S, first, base, step),
         NEW m \in Nat, first <= m
  PROVE  \E f : Steps(f, S, first, m, base, step)
<1>1. 0 \in StepsTo(S, first, base, step)
  <2>1. Steps([i \in first .. first |-> base], S, first, first + 0, base, step)
    BY DEF Steps, CanStep
  <2>2. QED
    BY <2>1 DEF StepsTo
<1>2. \A n \in Nat : n \in StepsTo(S, first, base, step) => n + 1 \in StepsTo(S, first, base, step)
  BY StepsGrow
<1>3. Nat \subseteq StepsTo(S, first, base, step)
  BY <1>1, <1>2, SetInduction
<1>4. m - first \in Nat /\ first + (m - first) = m
  BY DEF CanStep
<1>5. m - first \in StepsTo(S, first, base, step)
  BY <1>3, <1>4
<1>6. QED
  BY <1>4, <1>5 DEF StepsTo

StepAlike(f, g, first, m) ==
  /\ first \in Nat /\ m \in Nat /\ f[first] = g[first]
  /\ \A i \in (first + 1) .. m : f[i - 1] = g[i - 1] => f[i] = g[i]

AlikeTo(f, g, first, m) == { n \in Nat : first + n <= m => f[first + n] = g[first + n] }

\* Functions that take the same steps are the same.
LEMMA SameSteps ==
  ASSUME NEW first, NEW m, NEW f, NEW g, StepAlike(f, g, first, m)
  PROVE  \A i \in first .. m : f[i] = g[i]
<1>0. /\ first \in Nat /\ m \in Nat /\ f[first] = g[first]
      /\ \A i \in (first + 1) .. m : f[i - 1] = g[i - 1] => f[i] = g[i]
  BY DEF StepAlike
<1> USE <1>0
<1>1. 0 \in AlikeTo(f, g, first, m)
  BY DEF AlikeTo
<1>2. ASSUME NEW n \in Nat, n \in AlikeTo(f, g, first, m)
      PROVE  n + 1 \in AlikeTo(f, g, first, m)
  <2>1. PICK i \in Nat : i = first + (n + 1) /\ i - 1 = first + n
    OBVIOUS
  <2>2. CASE i <= m
    <3>1. i \in (first + 1) .. m /\ first + n <= m
      BY <2>1, <2>2
    <3>2. f[i - 1] = g[i - 1]
      BY <1>2, <2>1, <3>1 DEF AlikeTo
    <3>3. f[i] = g[i]
      BY <3>1, <3>2
    <3>4. QED
      BY <2>1, <3>3 DEF AlikeTo
  <2>3. CASE ~(i <= m)
    BY <2>1, <2>3 DEF AlikeTo
  <2>4. QED
    BY <2>2, <2>3
<1>3. Nat \subseteq AlikeTo(f, g, first, m)
  BY <1>1, <1>2, SetInduction
<1>4. ASSUME NEW i \in first .. m PROVE f[i] = g[i]
  <2>1. PICK n \in Nat : i = first + n
    <3>1. i - first \in Nat /\ i = first + (i - first)
      OBVIOUS
    <3>2. QED
      BY <3>1
  <2>2. first + n <= m /\ n \in AlikeTo(f, g, first, m)
    BY <1>3, <2>1
  <2>3. QED
    BY <2>1, <2>2 DEF AlikeTo
<1>5. QED
  BY <1>4

-----------------------------------------------------------------------------
(***************************************************************************)
(* Every token is what parse makes of a word                               *)
(***************************************************************************)

Characters == UNION { ToSet(t) : t \in Texts }
Chars == Characters \cup { EscapeCharacter(c) : c \in Characters }
Spelled == Seq(Chars) \ {<<>>}

Parsed == { OnLine(Parse(w), l) : w \in Spelled, l \in Nat }

SplitInv ==
  /\ text \in Texts /\ text \in Seq(Characters)
  /\ pos \in Nat \ {0}
  /\ word \in Seq(Chars) /\ line \in Nat
  /\ tokens \in Seq(Parsed)

LEMMA CharTyped ==
  ASSUME SplitInv, Splitting
  PROVE  Char \in Chars
<1>1. text[pos] \in Characters
  BY DEF SplitInv, Splitting
<1>2. QED
  BY <1>1 DEF Char, Chars

LEMMA PushTyped ==
  ASSUME SplitInv, NEW w \in Spelled
  PROVE  Append(tokens, OnLine(Parse(w), line)) \in Seq(Parsed)
<1>1. OnLine(Parse(w), line) \in Parsed
  BY DEF Parsed, SplitInv
<1>2. QED
  BY <1>1 DEF SplitInv

LEMMA FlushTyped ==
  ASSUME SplitInv, NEW next, Flush(next)
  PROVE  tokens' \in Seq(Parsed)
<1>1. CASE word = <<>>
  BY <1>1 DEF Flush, NoPush, SplitInv
<1>2. CASE word # <<>>
  BY <1>2, PushTyped DEF Flush, Push, Spelled, SplitInv
<1>3. QED
  BY <1>1, <1>2

LEMMA SplitStep ==
  ASSUME SplitInv, SplitNext
  PROVE  SplitInv'
<1> USE DEF SplitInv
<1>1. CASE QuotedEscape \/ InComment \/ StartComment \/ StartEscape
  <2>1. /\ text' = text /\ pos' = pos + 1 /\ line' \in {line, line + 1}
        /\ word' = word /\ tokens' = tokens
    BY <1>1 DEF QuotedEscape, InComment, StartComment, StartEscape, NextChar, NoPush
  <2>2. QED
    BY <2>1
<1>2. CASE QuotedCharacter
  <2>1. Append(word, Char) \in Spelled
    BY <1>2, CharTyped DEF QuotedCharacter, Spelled
  <2>2. /\ text' = text /\ pos' = pos + 1 /\ line' = line
        /\ word' = <<>> \/ word' = Append(word, Char)
        /\ tokens' = tokens \/ tokens' = Append(tokens, OnLine(Parse(Append(word, Char)), line))
    BY <1>2 DEF QuotedCharacter, NextChar, NoPush, Push
  <2>3. tokens' \in Seq(Parsed)
    BY <2>1, <2>2, PushTyped
  <2>4. word' \in Seq(Chars)
    <3>1. <<>> \in Seq(Chars) /\ Append(word, Char) \in Seq(Chars)
      BY <2>1 DEF Spelled
    <3>2. QED
      BY <2>2, <3>1
  <2>5. QED
    BY <2>2, <2>3, <2>4
<1>3. CASE StartSigned
  <2>1. Char \in Chars
    BY <1>3, CharTyped DEF StartSigned, Plain
  <2>2. Flush(<<Char>>) /\ text' = text /\ pos' = pos + 1 /\ line' = line /\ word' = <<Char>>
    BY <1>3 DEF StartSigned, NextChar, Flush
  <2>3. QED
    BY <2>1, <2>2, FlushTyped
<1>4. CASE Separate
  <2>1. Flush(<<>>) /\ text' = text /\ pos' = pos + 1 /\ line' \in {line, line + 1} /\ word' = <<>>
    BY <1>4 DEF Separate, NextChar, Flush
  <2>2. QED
    BY <2>1, FlushTyped
<1>5. CASE AppendCharacter
  <2>1. Char \in Chars
    BY <1>5, CharTyped DEF AppendCharacter, Plain
  <2>2. /\ text' = text /\ pos' = pos + 1 /\ line' = line
        /\ word' = Append(word, Char) /\ tokens' = tokens
    BY <1>5 DEF AppendCharacter, NextChar, NoPush
  <2>3. QED
    BY <2>1, <2>2
<1>6. CASE EndOfText
  <2>1. CASE word = <<>>
    BY <1>6, <2>1 DEF EndOfText
  <2>2. CASE word # <<>>
    BY <1>6, <2>2, PushTyped DEF EndOfText, Spelled
  <2>3. QED
    BY <2>1, <2>2
<1>7. QED
  BY <1>1, <1>2, <1>3, <1>4, <1>5, <1>6 DEF SplitNext

-----------------------------------------------------------------------------
(***************************************************************************)
(* Digits                                                                  *)
(***************************************************************************)

HexDigits == DOMAIN Hexadecimal

LEMMA NumeralsDiffer ==
  /\ Numerals[1] = "0"
  /\ \A i, j \in 1 .. 16 : Numerals[i] = Numerals[j] => i = j
BY DEF Numerals

\* The digits of a base stand for the numbers below it.
LEMMA BaseIs ==
  ASSUME NEW n \in 1 .. 16
  PROVE  /\ DOMAIN ToBase(n) = { Numerals[i] : i \in 1 .. n }
         /\ \A i \in 1 .. n : ToBase(n)[Numerals[i]] = i - 1
         /\ \A c \in DOMAIN ToBase(n) : ToBase(n)[c] \in 0 .. (n - 1)
         /\ Range(ToBase(n)) = 0 .. (n - 1)
<1>1. PICK S, digit : S = { Numerals[i] : i \in 1 .. n } /\ digit = ToBase(n)
  OBVIOUS
<1>2. digit = [ c \in S |-> (CHOOSE i \in 1 .. n : Numerals[i] = c) - 1 ]
  BY <1>1 DEF ToBase
<1>3. DOMAIN digit = S
  BY <1>2
<1>4. ASSUME NEW i \in 1 .. n PROVE digit[Numerals[i]] = i - 1
  <2>1. PICK k : k = CHOOSE j \in 1 .. n : Numerals[j] = Numerals[i]
    OBVIOUS
  <2>2. k \in 1 .. n /\ Numerals[k] = Numerals[i]
    BY <2>1
  <2>3. k = i
    BY <2>2, NumeralsDiffer
  <2>4. digit[Numerals[i]] = k - 1
    BY <1>1, <1>2, <2>1
  <2>5. QED
    BY <2>3, <2>4
<1>5. ASSUME NEW c \in S PROVE digit[c] \in 0 .. (n - 1)
  <2>1. PICK i \in 1 .. n : c = Numerals[i]
    BY <1>1
  <2>2. QED
    BY <1>4, <2>1
<1>6. Range(digit) = 0 .. (n - 1)
  <2>1. ASSUME NEW k \in 0 .. (n - 1) PROVE k \in Range(digit)
    <3>1. k + 1 \in 1 .. n /\ (k + 1) - 1 = k
      OBVIOUS
    <3>2. Numerals[k + 1] \in S /\ digit[Numerals[k + 1]] = k
      BY <1>1, <1>4, <3>1
    <3>3. QED
      BY <1>3, <3>2 DEF Range
  <2>2. ASSUME NEW k \in Range(digit) PROVE k \in 0 .. (n - 1)
    BY <1>3, <1>5, <2>2 DEF Range
  <2>3. QED
    BY <2>1, <2>2
<1>7. QED
  BY <1>1, <1>3, <1>4, <1>5, <1>6

LEMMA HexIs ==
  /\ Hexadecimal \in [HexDigits -> Nat]
  /\ "0" \in HexDigits /\ Hexadecimal["0"] = 0
  /\ Range(Hexadecimal) = 0 .. 15
<1>1. PICK base : base = ToBase(16)
  OBVIOUS
<1>2. 16 \in 1 .. 16 /\ 16 - 1 = 15 /\ 1 \in 1 .. 16
  OBVIOUS
<1>3. /\ DOMAIN base = { Numerals[i] : i \in 1 .. 16 }
      /\ base[Numerals[1]] = 1 - 1
      /\ \A c \in DOMAIN base : base[c] \in 0 .. 15
      /\ Range(base) = 0 .. 15
  BY <1>1, <1>2, BaseIs
<1>4. Hexadecimal = [ c \in DOMAIN base \cup DOMAIN Capitals |->
                        IF c \in DOMAIN base THEN base[c] ELSE Capitals[c] ]
  BY <1>1 DEF Hexadecimal
<1>5. \A c \in DOMAIN Capitals : Capitals[c] \in 0 .. 15
  BY DEF Capitals
<1>6. HexDigits = DOMAIN base \cup DOMAIN Capitals
  BY <1>4 DEF HexDigits
<1>7. \A c \in HexDigits : Hexadecimal[c] \in 0 .. 15
  BY <1>3, <1>4, <1>5, <1>6
<1>8. \A c \in DOMAIN base : c \in HexDigits /\ Hexadecimal[c] = base[c]
  BY <1>4, <1>6
<1>9. "0" \in DOMAIN base /\ base["0"] = 0
  BY <1>2, <1>3, NumeralsDiffer
<1>10. Range(Hexadecimal) = 0 .. 15
  <2>1. ASSUME NEW k \in 0 .. 15 PROVE k \in Range(Hexadecimal)
    <3>1. PICK c \in DOMAIN base : k = base[c]
      BY <1>3 DEF Range
    <3>2. QED
      BY <1>8, <3>1 DEF Range, HexDigits
  <2>2. ASSUME NEW k \in Range(Hexadecimal) PROVE k \in 0 .. 15
    BY <1>7, <2>2 DEF Range, HexDigits
  <2>3. QED
    BY <2>1, <2>2
<1>11. Hexadecimal \in [HexDigits -> Nat]
  <2>1. Hexadecimal = [c \in HexDigits |-> Hexadecimal[c]]
    BY <1>4, <1>6
  <2>2. \A c \in HexDigits : Hexadecimal[c] \in Nat
    BY <1>7
  <2>3. QED
    BY <2>1, <2>2
<1>12. QED
  BY <1>8, <1>9, <1>10, <1>11

LEMMA SixteenDigits == Radix(Hexadecimal) = 16
<1>1. Cardinality(0 .. 15) = 16
  <2>1. 0 \in Int /\ 15 \in Int /\ 15 - 0 + 1 = 16 /\ ~(0 > 15)
    OBVIOUS
  <2>2. Cardinality(0 .. 15) = IF 0 > 15 THEN 0 ELSE 15 - 0 + 1
    BY <2>1, FS_Interval
  <2>3. QED
    BY <2>1, <2>2
<1>2. QED
  BY <1>1, HexIs DEF Radix

-----------------------------------------------------------------------------
(***************************************************************************)
(* The value of digits                                                     *)
(***************************************************************************)

DigitMap(digit) ==
  /\ digit \in [DOMAIN digit -> Nat]
  /\ Radix(digit) \in Nat

\* f[i] is the value of the first i digits of w.
Counts(f, w, digit) ==
  /\ f \in [0 .. Len(w) -> Nat]
  /\ f[0] = 0
  /\ \A i \in 1 .. Len(w) : f[i] = f[i - 1] * Radix(digit) + digit[w[i]]

IsCount(f, w, digit) == Counts(f, w, digit) /\ Positional(w, digit) = f[Len(w)]

LEMMA PositionalIs ==
  ASSUME NEW digit, DigitMap(digit), NEW w \in Seq(DOMAIN digit)
  PROVE  \E f : IsCount(f, w, digit)
<1>1. PICK b \in Nat : b = Radix(digit)
  BY DEF DigitMap
<1>2. PICK m \in Nat : m = Len(w)
  OBVIOUS
<1>3. \A i \in 1 .. m : digit[w[i]] \in Nat
  BY <1>2 DEF DigitMap
<1> DEFINE step == [p \in Nat \X Nat |-> p[2] * b + IF p[1] \in 1 .. m THEN digit[w[p[1]]] ELSE 0]
<1>4. step \in [Nat \X Nat -> Nat]
  <2>1. ASSUME NEW p \in Nat \X Nat
        PROVE  p[2] * b + (IF p[1] \in 1 .. m THEN digit[w[p[1]]] ELSE 0) \in Nat
    <3>1. PICK x \in Nat, y \in Nat : x = p[1] /\ y = p[2]
      OBVIOUS
    <3>2. PICK z \in Nat : z = IF x \in 1 .. m THEN digit[w[x]] ELSE 0
      BY <1>3
    <3>3. y * b + z \in Nat
      OBVIOUS
    <3>4. QED
      BY <3>1, <3>2, <3>3
  <2>2. QED
    BY <2>1
<1>5. \A i \in 1 .. m, n \in Nat : step[<<i, n>>] = n * b + digit[w[i]]
  OBVIOUS
<1> HIDE DEF step
<1>6. CanStep(Nat, 0, 0, step)
  BY <1>4 DEF CanStep
<1>7. PICK g : Steps(g, Nat, 0, m, 0, step)
  BY <1>6, StepsExist
<1>8. /\ g \in [0 .. m -> Nat] /\ g[0] = 0
      /\ \A i \in 1 .. m : g[i] = g[i - 1] * b + digit[w[i]]
  <2>1. g \in [0 .. m -> Nat] /\ g[0] = 0 /\ \A i \in 1 .. m : g[i] = step[<<i, g[i - 1]>>]
    BY <1>7 DEF Steps
  <2>2. \A i \in 1 .. m : i - 1 \in 0 .. m
    OBVIOUS
  <2>3. QED
    BY <1>5, <2>1, <2>2
<1> DEFINE value == CHOOSE f : f = [i \in 0 .. Len(w) |->
                                     IF i = 0 THEN 0
                                     ELSE f[i - 1] * Radix(digit) + digit[w[i]]]
<1>9. Positional(w, digit) = value[Len(w)]
  BY DEF Positional
<1>10. g = [i \in 0 .. Len(w) |->
              IF i = 0 THEN 0 ELSE g[i - 1] * Radix(digit) + digit[w[i]]]
  BY <1>1, <1>2, <1>8
<1>11. value = [i \in 0 .. Len(w) |->
                  IF i = 0 THEN 0 ELSE value[i - 1] * Radix(digit) + digit[w[i]]]
  BY <1>10, Zenon
<1> HIDE DEF value
<1>a. PICK v : v = value
  OBVIOUS
<1>12. \A i \in 0 .. m : v[i] = g[i]
  <2>1. v[0] = g[0]
    BY <1>2, <1>8, <1>11, <1>a, 0 \in 0 .. m
  <2>2. \A i \in 1 .. m : v[i] = v[i - 1] * b + digit[w[i]]
    <3>1. v = [i \in 0 .. m |-> IF i = 0 THEN 0 ELSE v[i - 1] * b + digit[w[i]]]
      BY <1>1, <1>2, <1>11, <1>a
    <3>2. \A i \in 1 .. m : i \in 0 .. m /\ i # 0
      OBVIOUS
    <3>3. QED
      BY <3>1, <3>2
  <2>3. \A i \in (0 + 1) .. m : v[i - 1] = g[i - 1] => v[i] = g[i]
    BY <1>8, <2>2
  <2>4. StepAlike(v, g, 0, m)
    BY <2>1, <2>3 DEF StepAlike
  <2>5. QED
    BY <2>4, SameSteps
<1>13. Counts(g, w, digit)
  BY <1>1, <1>2, <1>8 DEF Counts
<1>14. Positional(w, digit) = g[Len(w)]
  BY <1>2, <1>9, <1>12, <1>a
<1>15. QED
  BY <1>13, <1>14 DEF IsCount

LEMMA PositionalType ==
  ASSUME NEW digit, DigitMap(digit), NEW w \in Seq(DOMAIN digit)
  PROVE  Positional(w, digit) \in Nat
<1>1. PICK f : IsCount(f, w, digit)
  BY PositionalIs
<1>2. Len(w) \in 0 .. Len(w)
  OBVIOUS
<1>3. QED
  BY <1>1, <1>2 DEF IsCount, Counts

LEMMA HexMap == DigitMap(Hexadecimal)
BY HexIs, SixteenDigits DEF DigitMap, HexDigits

LEMMA BaseMap ==
  ASSUME NEW n \in 1 .. 16
  PROVE  DigitMap(ToBase(n))
<1>1. PICK digit : digit = ToBase(n)
  OBVIOUS
<1>2. digit = [c \in DOMAIN digit |-> digit[c]]
  BY <1>1 DEF ToBase
<1>3. \A c \in DOMAIN digit : digit[c] \in Nat
  BY <1>1, BaseIs
<1>4. Radix(digit) \in Nat
  <2>1. Range(digit) = 0 .. (n - 1)
    BY <1>1, BaseIs
  <2>2. IsFiniteSet(0 .. (n - 1))
    BY FS_Interval
  <2>3. QED
    BY <2>1, <2>2, FS_CardinalityType DEF Radix
<1>5. QED
  BY <1>1, <1>2, <1>3, <1>4 DEF DigitMap

\* p is defined by recursion as the powers of b up to b^m.
DefinedAsPowers(p, b, m) ==
  p = CHOOSE f : f = [n \in 0 .. m |-> IF n = 0 THEN 1 ELSE b * f[n - 1]]

LEMMA PowersAre ==
  ASSUME NEW m \in Nat, NEW b \in Nat \ {0}, NEW p, DefinedAsPowers(p, b, m)
  PROVE  /\ p \in [0 .. m -> Nat \ {0}]
         /\ p[0] = 1
         /\ \A n \in 1 .. m : p[n] = b * p[n - 1]
<1>0. PICK S : S = Nat \ {0}
  OBVIOUS
<1>1. S = Nat \ {0} /\ 1 \in S
  BY <1>0
<1> DEFINE step == [q \in Nat \X S |-> b * q[2]]
<1>2. step \in [Nat \X S -> S] /\ \A i \in Nat, n \in S : step[<<i, n>>] = b * n
  <2>1. \A n \in S : b * n \in S
    BY <1>1
  <2>2. \A q \in Nat \X S : q[2] \in S
    OBVIOUS
  <2>3. QED
    BY <2>1, <2>2
<1> HIDE DEF step
<1>3. CanStep(S, 0, 1, step)
  BY <1>1, <1>2 DEF CanStep
<1>4. PICK g : Steps(g, S, 0, m, 1, step)
  BY <1>3, StepsExist
<1>5. /\ g \in [0 .. m -> S] /\ g[0] = 1
      /\ \A i \in 1 .. m : g[i] = b * g[i - 1]
  <2>1. g \in [0 .. m -> S] /\ g[0] = 1 /\ \A i \in 1 .. m : g[i] = step[<<i, g[i - 1]>>]
    BY <1>4 DEF Steps
  <2>2. ASSUME NEW i \in 1 .. m PROVE g[i] = b * g[i - 1]
    <3>1. i \in Nat /\ i - 1 \in 0 .. m
      OBVIOUS
    <3>2. g[i - 1] \in S
      BY <2>1, <3>1
    <3>3. QED
      BY <1>2, <2>1, <3>1, <3>2
  <2>3. QED
    BY <2>1, <2>2
<1>6. g = [n \in 0 .. m |-> IF n = 0 THEN 1 ELSE b * g[n - 1]]
  BY <1>5
<1>7. p = [n \in 0 .. m |-> IF n = 0 THEN 1 ELSE b * p[n - 1]]
  BY <1>6, Zenon DEF DefinedAsPowers
<1>8. \A i \in 0 .. m : p[i] = g[i]
  <2>1. p[0] = g[0]
    BY <1>5, <1>7, 0 \in 0 .. m
  <2>2. \A i \in 1 .. m : p[i] = b * p[i - 1]
    BY <1>7
  <2>3. \A i \in (0 + 1) .. m : p[i - 1] = g[i - 1] => p[i] = g[i]
    BY <1>5, <2>2
  <2>4. StepAlike(p, g, 0, m)
    BY <2>1, <2>3 DEF StepAlike
  <2>5. QED
    BY <2>4, SameSteps
<1>9. p = [n \in 0 .. m |-> p[n]]
  BY <1>7
<1>10. QED
  BY <1>1, <1>5, <1>8, <1>9

LEMMA PowersOf16 ==
  /\ PowerOf16 \in [0 .. HalfDigits -> Nat]
  /\ PowerOf16[0] = 1
  /\ \A n \in 1 .. HalfDigits : PowerOf16[n] = 16 * PowerOf16[n - 1]
  /\ Half \in Nat \ {0}
<1>1. PICK m \in Nat : m = HalfDigits /\ m \in 0 .. m
  BY HalfDigitsAssumption
<1>2. PICK p : p = PowerOf16
  OBVIOUS
<1>3. DefinedAsPowers(p, 16, m)
  BY <1>1, <1>2 DEF PowerOf16, DefinedAsPowers
<1>4. /\ p \in [0 .. m -> Nat \ {0}] /\ p[0] = 1
      /\ \A n \in 1 .. m : p[n] = 16 * p[n - 1]
  <2>1. 16 \in Nat \ {0}
    OBVIOUS
  <2>2. QED
    BY <1>3, <2>1, PowersAre
<1>5. p \in [0 .. m -> Nat]
  BY <1>4
<1>6. QED
  BY <1>1, <1>2, <1>4, <1>5 DEF Half

LEMMA HalfIs == E!Half \in Nat \ {0} /\ E!Full = E!Half * E!Half
<1>1. PICK h \in Nat : h = 4 * HalfDigits
  BY HalfDigitsAssumption
<1>2. PICK p : p = E!PowerOf2
  OBVIOUS
<1>3. DefinedAsPowers(p, 2, 2 * h)
  BY <1>1, <1>2 DEF E!PowerOf2, DefinedAsPowers
<1>4. p \in [0 .. (2 * h) -> Nat \ {0}]
  <2>1. 2 \in Nat \ {0} /\ 2 * h \in Nat
    OBVIOUS
  <2>2. QED
    BY <1>3, <2>1, PowersAre
<1>5. h \in 0 .. (2 * h)
  OBVIOUS
<1>6. QED
  BY <1>1, <1>2, <1>4, <1>5 DEF E!Half, E!Full

\* The first k digits of v behind u have the value they should.
SplitsTo(f, g, h, l, n) ==
  { k \in Nat : k <= n => h[l + k] = f[l] * PowerOf16[k] + g[k] }

LEMMA PositionalSplit ==
  ASSUME NEW u \in Seq(HexDigits), NEW v \in Seq(HexDigits), Len(v) = HalfDigits
  PROVE  Positional(u \o v, Hexadecimal) =
           Positional(u, Hexadecimal) * Half + Positional(v, Hexadecimal)
<1>0. HexDigits = DOMAIN Hexadecimal
  BY DEF HexDigits
<1>1. PICK l \in Nat, n \in Nat : l = Len(u) /\ n = Len(v) /\ n = HalfDigits
  OBVIOUS
<1>2. PICK w \in Seq(HexDigits) : w = u \o v /\ Len(w) = l + n
  <2>1. u \o v \in Seq(HexDigits) /\ Len(u \o v) = Len(u) + Len(v)
    BY ConcatProperties
  <2>2. QED
    BY <1>1, <2>1
<1>3. PICK f : IsCount(f, u, Hexadecimal)
  BY <1>0, HexMap, PositionalIs
<1>4. PICK g : IsCount(g, v, Hexadecimal)
  BY <1>0, HexMap, PositionalIs
<1>5. PICK h : IsCount(h, w, Hexadecimal)
  BY <1>0, HexMap, PositionalIs
<1>6. /\ f \in [0 .. l -> Nat] /\ f[0] = 0
      /\ \A i \in 1 .. l : f[i] = f[i - 1] * 16 + Hexadecimal[u[i]]
  BY <1>0, <1>1, <1>3, SixteenDigits DEF IsCount, Counts
<1>7. /\ g \in [0 .. n -> Nat] /\ g[0] = 0
      /\ \A i \in 1 .. n : g[i] = g[i - 1] * 16 + Hexadecimal[v[i]]
  BY <1>0, <1>1, <1>4, SixteenDigits DEF IsCount, Counts
<1>8. /\ h \in [0 .. (l + n) -> Nat] /\ h[0] = 0
      /\ \A i \in 1 .. (l + n) : h[i] = h[i - 1] * 16 + Hexadecimal[w[i]]
  BY <1>0, <1>2, <1>5, SixteenDigits DEF IsCount, Counts
<1>9. /\ \A i \in 1 .. l : w[i] = u[i]
      /\ \A i \in 1 .. n : w[l + i] = v[i]
  BY <1>1, <1>2, ConcatProperties
<1>10. \A i \in 0 .. l : h[i] = f[i]
  <2>1. \A i \in (0 + 1) .. l : h[i - 1] = f[i - 1] => h[i] = f[i]
    <3> SUFFICES ASSUME NEW i \in 1 .. l, h[i - 1] = f[i - 1] PROVE h[i] = f[i]
      OBVIOUS
    <3>1. i \in 1 .. (l + n)
      OBVIOUS
    <3>2. QED
      BY <1>6, <1>8, <1>9, <3>1
  <2>2. StepAlike(h, f, 0, l)
    BY <1>6, <1>8, <2>1 DEF StepAlike
  <2>3. QED
    BY <2>2, SameSteps
<1>11. 0 \in SplitsTo(f, g, h, l, n)
  BY <1>6, <1>7, <1>10, PowersOf16 DEF SplitsTo
<1>12. ASSUME NEW k \in Nat, k \in SplitsTo(f, g, h, l, n), k + 1 <= n
       PROVE  h[l + (k + 1)] = f[l] * PowerOf16[k + 1] + g[k + 1]
  <2>1. PICK i \in Nat : i = l + (k + 1) /\ i - 1 = l + k /\ i \in 1 .. (l + n)
    BY <1>12
  <2>2. k + 1 \in 1 .. n /\ k + 1 - 1 = k /\ k \in 0 .. n /\ w[i] = v[k + 1]
    BY <1>9, <1>12, <2>1
  <2>3. h[i] = h[l + k] * 16 + Hexadecimal[v[k + 1]]
    BY <1>8, <2>1, <2>2
  <2>4. h[l + k] = f[l] * PowerOf16[k] + g[k]
    BY <1>12 DEF SplitsTo
  <2>5. PICK a \in Nat, b \in Nat, c \in Nat, d \in Nat :
          a = f[l] /\ b = PowerOf16[k] /\ c = g[k] /\ d = Hexadecimal[v[k + 1]]
    <3>1. l \in 0 .. l
      OBVIOUS
    <3>2. v[k + 1] \in HexDigits
      BY <1>1, <2>2
    <3>3. QED
      BY <1>1, <1>6, <1>7, <2>2, <3>1, <3>2, PowersOf16, HexIs
  <2>6. PowerOf16[k + 1] = 16 * b
    BY <1>1, <2>2, <2>5, PowersOf16
  <2>7. g[k + 1] = c * 16 + d
    <3>1. PICK j \in Nat : j = k + 1 /\ j \in 1 .. n /\ j - 1 = k
      BY <2>2
    <3>2. g[j] = g[j - 1] * 16 + Hexadecimal[v[j]]
      BY <1>7, <3>1
    <3>3. g[j] = g[k] * 16 + Hexadecimal[v[k + 1]]
      BY <3>1, <3>2
    <3>4. QED
      BY <2>5, <3>1, <3>3
  <2>8. h[i] = (a * b + c) * 16 + d
    BY <2>3, <2>4, <2>5
  <2>9. (a * b + c) * 16 + d = a * (16 * b) + (c * 16 + d)
    OBVIOUS
  <2>10. QED
    BY <2>1, <2>5, <2>6, <2>7, <2>8, <2>9
<1>13. \A k \in Nat : k \in SplitsTo(f, g, h, l, n) => k + 1 \in SplitsTo(f, g, h, l, n)
  BY <1>12 DEF SplitsTo
<1>14. n \in SplitsTo(f, g, h, l, n)
  BY <1>11, <1>13, SetInduction
<1>15. h[l + n] = f[l] * Half + g[n]
  BY <1>1, <1>14 DEF SplitsTo, Half
<1>16. QED
  BY <1>1, <1>2, <1>3, <1>4, <1>5, <1>15 DEF IsCount

-----------------------------------------------------------------------------
(***************************************************************************)
(* Numbers                                                                 *)
(***************************************************************************)

IsLeading(n, w, digit) ==
  /\ n \in 0 .. Len(w)
  /\ \A i \in 1 .. n : w[i] \in DOMAIN digit
  /\ n < Len(w) => w[n + 1] \notin DOMAIN digit

\* The first n characters are digits, or there is a first that is not.
LeadsTo(w, digit) ==
  { n \in Nat : n <= Len(w) =>
      \/ \A i \in 1 .. n : w[i] \in DOMAIN digit
      \/ \E k \in 0 .. Len(w) : IsLeading(k, w, digit) }

LEMMA LeadingIs ==
  ASSUME NEW S, NEW w \in Seq(S), NEW digit
  PROVE  IsLeading(Leading(w, digit), w, digit)
<1>1. 0 \in LeadsTo(w, digit)
  BY DEF LeadsTo
<1>2. ASSUME NEW n \in Nat, n \in LeadsTo(w, digit)
      PROVE  n + 1 \in LeadsTo(w, digit)
  <2> SUFFICES ASSUME n + 1 <= Len(w), ~\E k \in 0 .. Len(w) : IsLeading(k, w, digit)
               PROVE  \A i \in 1 .. (n + 1) : w[i] \in DOMAIN digit
    BY DEF LeadsTo
  <2>1. \A i \in 1 .. n : w[i] \in DOMAIN digit
    BY <1>2 DEF LeadsTo
  <2>2. n \in 0 .. Len(w) /\ n < Len(w)
    OBVIOUS
  <2>3. w[n + 1] \in DOMAIN digit
    BY <2>1, <2>2 DEF IsLeading
  <2>4. \A i \in 1 .. (n + 1) : i = n + 1 \/ i \in 1 .. n
    OBVIOUS
  <2>5. QED
    BY <2>1, <2>3, <2>4
<1>3. Nat \subseteq LeadsTo(w, digit)
  BY <1>1, <1>2, SetInduction
<1>4. Len(w) \in LeadsTo(w, digit) /\ Len(w) \in Nat
  BY <1>3
<1>5. \E k \in 0 .. Len(w) : IsLeading(k, w, digit)
  <2>1. CASE \A i \in 1 .. Len(w) : w[i] \in DOMAIN digit
    BY <1>4, <2>1 DEF IsLeading
  <2>2. CASE ~\A i \in 1 .. Len(w) : w[i] \in DOMAIN digit
    BY <1>4, <2>2 DEF LeadsTo
  <2>3. QED
    BY <2>1, <2>2
<1>6. Leading(w, digit) \in 0 .. Len(w) /\ IsLeading(Leading(w, digit), w, digit)
  BY <1>5 DEF Leading, IsLeading
<1>7. QED
  BY <1>6

LEMMA AllDigits ==
  ASSUME NEW digit, NEW w \in Seq(DOMAIN digit)
  PROVE  Leading(w, digit) = Len(w) /\ Read(w, digit) = Positional(w, digit)
<1>1. IsLeading(Leading(w, digit), w, digit)
  BY LeadingIs
<1>2. \A i \in 1 .. Len(w) : w[i] \in DOMAIN digit
  OBVIOUS
<1>3. PICK n \in 0 .. Len(w) : n = Leading(w, digit) /\ (n < Len(w) => w[n + 1] \notin DOMAIN digit)
  BY <1>1 DEF IsLeading
<1>4. n < Len(w) => n + 1 \in 1 .. Len(w)
  OBVIOUS
<1>5. n = Len(w)
  BY <1>2, <1>3, <1>4
<1>6. SubSeq(w, 1, Len(w)) = w
  BY SubSeqFull
<1>7. QED
  BY <1>3, <1>5, <1>6 DEF Read

LEMMA ConstantIsNumber ==
  ASSUME NEW w \in Spelled, Parse(w).type = "constant", Parse(w).value[1] = "0"
  PROVE  Parse(w) = Number(w) /\ Number(w).value = w
<1>1. \A t, v, n : Token(t, v, n).type = t /\ Token(t, v, n).value = v
  BY DEF Token
<1>2. Threw.type = "threw" /\ Named(w).type # "constant"
  BY <1>1 DEF Threw, Named
<1>3. Number(w).type = "constant" => Number(w).value = w
  BY <1>1, <1>2 DEF Number
<1>4. \/ Parse(w) = Token("constant", w, 0) /\ w[1] = "'"
      \/ Parse(w) = Number(w)
  BY <1>1, <1>2 DEF Parse
<1>5. QED
  BY <1>1, <1>3, <1>4

\* The digits of a word behind 0x, in two parts.
LEMMA HexIsSplit ==
  ASSUME NEW w \in Spelled, Len(w) > HalfDigits + 2, Tail2(w) \in Seq(HexDigits)
  PROVE  \E u, v \in Seq(HexDigits) :
           /\ HexNumber(w) = <<u, v>> /\ Tail2(w) = u \o v /\ Len(v) = HalfDigits
<1>1. PICK n \in Nat, m \in Nat : n = Len(w) /\ m = HalfDigits /\ n > m + 2 /\ m > 0
  BY HalfDigitsAssumption DEF Spelled
<1>2. w \in Seq(Chars) /\ \A i \in 1 .. n : w[i] \in Chars
  BY <1>1 DEF Spelled
<1>3. Tail2(w) = SubSeq(w, 3, n)
  BY <1>1 DEF Tail2
<1>4. /\ Len(SubSeq(w, 3, n)) = n - 2
      /\ \A i \in 1 .. (n - 2) : SubSeq(w, 3, n)[i] = w[i + 2]
  <2>1. \A i \in 3 .. n : w[i] \in Chars
    BY <1>2
  <2>2. QED
    BY <1>1, <2>1, SubSeqProperties
<1>5. ASSUME NEW i \in 3 .. n PROVE w[i] \in HexDigits
  <2>1. i - 2 \in 1 .. (n - 2) /\ i - 2 + 2 = i
    BY <1>1
  <2>2. SubSeq(w, 3, n)[i - 2] \in HexDigits
    BY <1>3, <1>4, <2>1
  <2>3. QED
    BY <1>4, <2>1, <2>2
<1>6. SubSeq(w, 3, n - m) \in Seq(HexDigits)
  <2>1. \A i \in 3 .. (n - m) : w[i] \in HexDigits
    BY <1>1, <1>5
  <2>2. QED
    BY <1>1, <2>1, SubSeqProperties
<1>7. SubSeq(w, n - m + 1, n) \in Seq(HexDigits) /\ Len(SubSeq(w, n - m + 1, n)) = m
  <2>1. \A i \in (n - m + 1) .. n : w[i] \in HexDigits
    BY <1>1, <1>5
  <2>2. n - m + 1 \in Int /\ n - m + 1 <= n /\ n - (n - m + 1) + 1 = m
    BY <1>1
  <2>3. QED
    BY <1>1, <2>1, <2>2, SubSeqProperties
<1>8. SubSeq(w, 3, n - m) \o SubSeq(w, n - m + 1, n) = SubSeq(w, 3, n)
  <2>1. 3 \in 1 .. Len(w) + 1 /\ n - m \in 3 - 1 .. Len(w) /\ n \in n - m .. Len(w)
    BY <1>1
  <2>2. QED
    BY <1>1, <1>2, <2>1, ConcatAdjacentSubSeq
<1>9. HexNumber(w) = <<SubSeq(w, 3, n - m), SubSeq(w, n - m + 1, n)>>
  BY <1>1 DEF HexNumber
<1>10. QED
  BY <1>1, <1>3, <1>6, <1>7, <1>8, <1>9

LEMMA HexParsed ==
  ASSUME NEW w \in Spelled, Parse(w).type = "constant",
         w[1] = "0", w[2] = "x", Len(w) > 2,
         Parse(w) = Number(w), Tail2(w) \in Seq(HexDigits)
  PROVE  Parse(w).number = Positional(Tail2(w), Hexadecimal)
<1>0. HexDigits = DOMAIN Hexadecimal
  BY DEF HexDigits
<1>1. \A t, v, n : Token(t, v, n).type = t /\ Token(t, v, n).number = n
  BY DEF Token
<1>2. PICK parts : parts = HexNumber(w)
  OBVIOUS
<1>3. Number(w).number = Read(parts[1], Hexadecimal) * Half + Read(parts[2], Hexadecimal)
  BY <1>1, <1>2 DEF Number, Threw
<1>4. CASE Len(w) > HalfDigits + 2
  <2>1. PICK u \in Seq(HexDigits), v \in Seq(HexDigits) :
          parts = <<u, v>> /\ Tail2(w) = u \o v /\ Len(v) = HalfDigits
    BY <1>2, <1>4, HexIsSplit
  <2>2. Read(u, Hexadecimal) = Positional(u, Hexadecimal)
    BY <1>0, AllDigits
  <2>3. Read(v, Hexadecimal) = Positional(v, Hexadecimal)
    BY <1>0, AllDigits
  <2>4. QED
    BY <1>3, <2>1, <2>2, <2>3, PositionalSplit
<1>5. CASE ~(Len(w) > HalfDigits + 2)
  <2>1. parts = << <<"0">>, Tail2(w) >>
    BY <1>2, <1>5 DEF HexNumber
  <2>2. PICK z \in Seq(HexDigits) : z = <<"0">> /\ Len(z) = 1 /\ z[1] = "0"
    <3>1. <<"0">> \in Seq(HexDigits) /\ Len(<<"0">>) = 1 /\ <<"0">>[1] = "0"
      BY HexIs
    <3>2. QED
      BY <3>1
  <2>3. PICK f : IsCount(f, z, Hexadecimal)
    BY <1>0, <2>2, HexMap, PositionalIs
  <2>4. f[1] = f[0] * 16 + Hexadecimal["0"] /\ f[0] = 0
    BY <1>0, <2>2, <2>3, SixteenDigits DEF IsCount, Counts
  <2>5. Read(z, Hexadecimal) = 0
    <3>1. Read(z, Hexadecimal) = Positional(z, Hexadecimal)
      BY <1>0, AllDigits
    <3>2. QED
      BY <2>2, <2>3, <2>4, <3>1, HexIs DEF IsCount
  <2>6. Read(Tail2(w), Hexadecimal) = Positional(Tail2(w), Hexadecimal)
    BY <1>0, AllDigits
  <2>7. Half \in Nat /\ Positional(Tail2(w), Hexadecimal) \in Nat
    BY <1>0, PowersOf16, HexMap, PositionalType
  <2>8. QED
    BY <1>3, <2>1, <2>2, <2>5, <2>6, <2>7
<1>6. QED
  BY <1>4, <1>5

LEMMA TokensPositional ==
  ASSUME SplitInv
  PROVE  HexIsPositional
<1> SUFFICES ASSUME NEW n \in DOMAIN tokens, NEW v, v = tokens[n].value,
                    tokens[n].type = "constant", Len(v) \in 3 .. (2 + 2 * HalfDigits),
                    v[1] = "0", v[2] = "x",
                    Leading(Tail2(v), Hexadecimal) = Len(Tail2(v))
             PROVE  tokens[n].number = Positional(Tail2(v), Hexadecimal)
  BY DEF HexIsPositional
<1>1. tokens[n] \in Parsed
  BY DEF SplitInv
<1>2. PICK w \in Spelled, l \in Nat : tokens[n] = OnLine(Parse(w), l)
  BY <1>1 DEF Parsed
<1>3. /\ tokens[n].type = Parse(w).type
      /\ tokens[n].value = Parse(w).value
      /\ tokens[n].number = Parse(w).number
  BY <1>2 DEF OnLine
<1>4. Parse(w) = Number(w) /\ v = w
  BY <1>3, ConstantIsNumber
<1>5. Len(w) > 2 /\ Len(w) \in Nat
  BY <1>4, HalfDigitsAssumption DEF Spelled
<1>6. Tail2(w) \in Seq(HexDigits)
  <2>1. Tail2(w) \in Seq(Chars)
    <3>1. \A i \in 3 .. Len(w) : w[i] \in Chars
      BY <1>5 DEF Spelled
    <3>2. QED
      BY <1>5, <3>1, SubSeqProperties DEF Tail2
  <2>2. IsLeading(Leading(Tail2(w), Hexadecimal), Tail2(w), Hexadecimal)
    BY <2>1, LeadingIs
  <2>3. PICK d \in Seq(Chars) : d = Tail2(w)
    BY <2>1
  <2>4. \A i \in 1 .. Len(d) : d[i] \in HexDigits
    BY <1>4, <2>2, <2>3 DEF IsLeading, HexDigits
  <2>5. d \in Seq(HexDigits)
    BY <2>4
  <2>6. QED
    BY <2>3, <2>5
<1>7. QED
  BY <1>3, <1>4, <1>5, <1>6, HexParsed

LEMMA SplitInitially ==
  ASSUME SplitInit
  PROVE  SplitInv
<1>1. text \in Seq(ToSet(text))
  BY TextsAssumption DEF SplitInit
<1>2. ToSet(text) \subseteq Characters
  BY DEF Characters, SplitInit
<1>3. \A i \in 1 .. Len(text) : text[i] \in Characters
  BY <1>1, <1>2
<1>4. text \in Seq(Characters)
  BY <1>1, <1>3
<1>5. <<>> \in Seq(Chars) /\ <<>> \in Seq(Parsed)
  OBVIOUS
<1>6. QED
  BY <1>4, <1>5 DEF SplitInit, SplitInv

LEMMA SplitInvariant == Spec => []SplitInv
<1>1. Init => SplitInv
  BY SplitInitially DEF Init
<1>2. SplitInv /\ [Next]_allVars => SplitInv'
  <2> SUFFICES ASSUME SplitInv, [Next]_allVars PROVE SplitInv'
    OBVIOUS
  <2>1. SplitNext \/ UNCHANGED splitVars
    BY DEF Next, Split, Evaluate, Stopped, allVars
  <2>2. CASE UNCHANGED splitVars
    BY <2>2 DEF splitVars, SplitInv
  <2>3. QED
    BY <2>1, <2>2, SplitStep
<1>3. QED
  BY <1>1, <1>2, PTL DEF Spec

(***************************************************************************)
(* Whatever the text, and however many digits a half has, a constant that  *)
(* starts with 0x has the value of all of its digits, the ones that        *)
(* HexNumber cuts off for the upper half included (tokenizer.cpp:42-54).   *)
(***************************************************************************)
THEOREM HexadecimalIsPositional == Spec => []HexIsPositional
BY SplitInvariant, TokensPositional, PTL

-----------------------------------------------------------------------------
(***************************************************************************)
(* An operand, token by token                                              *)
(***************************************************************************)

CursorTyped ==
  /\ Cursor \in Seq(ToSet(Cursor)) /\ Len(Cursor) = Len(tokens)

LEMMA CursorIs ==
  ASSUME SplitInv
  PROVE  CursorTyped
<1>1. tokens \in Seq(Parsed) /\ DOMAIN tokens = 1 .. Len(tokens) /\ Len(tokens) \in Nat
  BY DEF SplitInv
<1>2. PICK n \in Nat : n = Len(tokens)
  BY <1>1
<1>3. DOMAIN Cursor = 1 .. n /\ Cursor = [i \in 1 .. n |-> Cursor[i]]
  BY <1>1, <1>2 DEF Cursor
<1>4. ToSet(Cursor) = { Cursor[i] : i \in 1 .. n }
  BY <1>3 DEF ToSet
<1>5. PICK c : c = Cursor
  OBVIOUS
<1>6. c \in Seq(ToSet(c)) /\ Len(c) = n
  BY <1>2, <1>3, <1>4, <1>5
<1>7. QED
  BY <1>2, <1>5, <1>6 DEF CursorTyped

OperandTypes == {"constant", "operator"}

IsConstant(i) == Cursor[i].type = "constant"
IsTilde(i) == Cursor[i].type = "operator" /\ Cursor[i].value = "~"
Joins(i) == Cursor[i].type = "operator" /\ Cursor[i].value # "~"

\* The complements in front of i that are behind the constant before it.
Tildes(i) == { j \in 1 .. (i - 1) : IsTilde(j) /\ \A k \in j .. (i - 1) : ~IsConstant(k) }

Odd(i) == Cardinality(Tildes(i)) % 2 # 0

OperatorsTo(n) == { i \in 1 .. n : Joins(i) }

\* f[i] is what op makes of the constants up to i.
JoinsTo(f, op, n) ==
  /\ f = [i \in 1 .. n |-> f[i]]
  /\ f[1] = {Cursor[1].value}
  /\ \A i \in 2 .. n :
       f[i] = IF ~IsConstant(i) THEN f[i - 1]
              ELSE UNION { E!Apply(op, a, E!OperandAt(i)) : a \in f[i - 1] }

\* What was taken.
Prefix(n) ==
  /\ n \in 1 .. Len(Cursor)
  /\ \A i \in 1 .. n : Cursor[i].type \in OperandTypes
  /\ IsConstant(1)

\* ops is the only operator, and in front of all constants but the first.
OneOperator(n, op) ==
  /\ op = "none" => OperatorsTo(n) = {} /\ \A i \in 2 .. n : ~IsConstant(i)
  /\ op # "none" => \E j \in 2 .. n :
                      /\ OperatorsTo(n) = {j} /\ Cursor[j].value = op
                      /\ \A i \in 2 .. n : IsConstant(i) => j < i

ValueTo(n, op, value) ==
  /\ op = "none" => value = Cursor[1].value
  /\ op # "none" => \E f : JoinsTo(f, op, n) /\ value \in f[n]

Taking(i, value, op, negate) ==
  /\ i \in Nat /\ Prefix(i - 1)
  /\ op \in {"none"} \cup E!Operators
  /\ negate \in BOOLEAN /\ (negate <=> Odd(i))
  /\ OneOperator(i - 1, op)
  /\ ValueTo(i - 1, op, value)

OperandEnds(n) == n < Len(Cursor) => Cursor[n + 1].type \notin OperandTypes

JoinInv ==
  /\ phase # "split" => E!ExprInit
  /\ result = "waiting" => E!ExprInit
  /\ result \in {"running", "done"} => Taking(index, sum, ops, negated)
  /\ result = "done" => OperandEnds(index - 1)

-----------------------------------------------------------------------------

LEMMA TildesFinite ==
  ASSUME NEW i \in Nat
  PROVE  IsFiniteSet(Tildes(i)) /\ Cardinality(Tildes(i)) \in Nat
<1>1. IsFiniteSet(1 .. (i - 1))
  BY FS_Interval
<1>2. IsFiniteSet(Tildes(i))
  BY <1>1, FS_Subset DEF Tildes
<1>3. QED
  BY <1>2, FS_CardinalityType

LEMMA TildesNext ==
  ASSUME NEW i \in Nat \ {0}
  PROVE  /\ IsConstant(i) => ~Odd(i + 1)
         /\ Joins(i) => (Odd(i + 1) <=> Odd(i))
         /\ IsTilde(i) => (Odd(i + 1) <=> ~Odd(i))
<1>1. i + 1 - 1 = i
  OBVIOUS
<1>2. \A j \in 1 .. i : j = i \/ j \in 1 .. (i - 1)
  OBVIOUS
<1>3. \A j \in 1 .. (i - 1) : j \in 1 .. i /\ i \in j .. i
  OBVIOUS
<1>4. \A j \in 1 .. i : \A k \in j .. i : k = i \/ k \in j .. (i - 1)
  OBVIOUS
<1>5. CASE IsConstant(i)
  <2>1. \A j \in 1 .. i : i \in j .. i
    OBVIOUS
  <2>2. Tildes(i + 1) = {}
    BY <1>1, <1>5, <2>1 DEF Tildes
  <2>3. Cardinality(Tildes(i + 1)) = 0
    BY <2>2, FS_EmptySet
  <2>4. ~Joins(i) /\ ~IsTilde(i)
    BY <1>5 DEF Joins, IsTilde, IsConstant
  <2>5. QED
    BY <2>3, <2>4 DEF Odd
<1>6. CASE ~IsConstant(i)
  <2>0. \A j \in 1 .. (i - 1) :
          (\A k \in j .. i : ~IsConstant(k)) <=> (\A k \in j .. (i - 1) : ~IsConstant(k))
    <3> SUFFICES ASSUME NEW j \in 1 .. (i - 1)
                 PROVE  (\A k \in j .. i : ~IsConstant(k)) <=> (\A k \in j .. (i - 1) : ~IsConstant(k))
      OBVIOUS
    <3>1. \A k \in j .. (i - 1) : k \in j .. i
      OBVIOUS
    <3>2. j \in 1 .. i
      OBVIOUS
    <3>3. QED
      BY <1>4, <1>6, <3>1, <3>2
  <2>1. \A k \in i .. i : k = i
    OBVIOUS
  <2>2. i \notin Tildes(i)
    BY DEF Tildes
  <2>3. CASE Joins(i)
    <3>1. ~IsTilde(i)
      BY <2>3 DEF Joins, IsTilde
    <3>2. Tildes(i + 1) = Tildes(i)
      BY <1>1, <1>2, <1>3, <2>0, <3>1 DEF Tildes
    <3>3. QED
      BY <1>6, <3>1, <3>2 DEF Odd
  <2>4. CASE IsTilde(i)
    <3>1. \A k \in i .. i : ~IsConstant(k)
      BY <1>6, <2>1
    <3>2. i \in 1 .. i
      OBVIOUS
    <3>3. Tildes(i + 1) = Tildes(i) \cup {i}
      BY <1>1, <1>2, <1>3, <2>0, <2>4, <3>1, <3>2 DEF Tildes
    <3>4. PICK n \in Nat : n = Cardinality(Tildes(i)) /\ Cardinality(Tildes(i + 1)) = n + 1
      BY <2>2, <3>3, TildesFinite, FS_AddElement
    <3>5. (n + 1) % 2 # 0 <=> ~(n % 2 # 0)
      OBVIOUS
    <3>6. ~Joins(i)
      BY <2>4 DEF Joins, IsTilde
    <3>7. QED
      BY <1>6, <3>4, <3>5, <3>6 DEF Odd
  <2>5. QED
    BY <1>6, <2>3, <2>4
<1>7. QED
  BY <1>5, <1>6

LEMMA SameCardinality ==
  ASSUME NEW S
  PROVE  E!Cardinality(S) = Cardinality(S)
BY DEF E!Cardinality, Cardinality

LEMMA OperandIs ==
  ASSUME NEW i
  PROVE  E!OperandAt(i) = IF Odd(i) THEN E!Complement(Cursor[i].value) ELSE Cursor[i].value
BY SameCardinality DEF E!OperandAt, Odd, Tildes, IsTilde, IsConstant

LEMMA JoinsFurther ==
  ASSUME NEW n \in Nat \ {0}, NEW op, NEW f, JoinsTo(f, op, n)
  PROVE  \E g : /\ JoinsTo(g, op, n + 1)
                /\ ~IsConstant(n + 1) => g[n + 1] = f[n]
                /\ IsConstant(n + 1) =>
                     g[n + 1] = UNION { E!Apply(op, a, E!OperandAt(n + 1)) : a \in f[n] }
<1>1. PICK last : last = IF ~IsConstant(n + 1) THEN f[n]
                         ELSE UNION { E!Apply(op, a, E!OperandAt(n + 1)) : a \in f[n] }
  OBVIOUS
<1>2. PICK g : g = [i \in 1 .. (n + 1) |-> IF i = n + 1 THEN last ELSE f[i]]
  OBVIOUS
<1>3. g = [i \in 1 .. (n + 1) |-> g[i]]
  BY <1>2
<1>4. g[n + 1] = last /\ \A i \in 1 .. n : g[i] = f[i]
  <2>1. \A i \in 1 .. n : i \in 1 .. (n + 1) /\ i # n + 1
    OBVIOUS
  <2>2. n + 1 \in 1 .. (n + 1)
    OBVIOUS
  <2>3. QED
    BY <1>2, <2>1, <2>2
<1>5. g[1] = {Cursor[1].value}
  <2>1. 1 \in 1 .. n
    OBVIOUS
  <2>2. QED
    BY <1>4, <2>1 DEF JoinsTo
<1>6. ASSUME NEW i \in 2 .. (n + 1)
      PROVE  g[i] = IF ~IsConstant(i) THEN g[i - 1]
                    ELSE UNION { E!Apply(op, a, E!OperandAt(i)) : a \in g[i - 1] }
  <2>1. i - 1 \in 1 .. n
    OBVIOUS
  <2>2. g[i - 1] = f[i - 1]
    BY <1>4, <2>1
  <2>3. CASE i = n + 1
    <3>1. i - 1 = n
      BY <2>3
    <3>2. QED
      BY <1>1, <1>4, <2>2, <2>3, <3>1
  <2>4. CASE i # n + 1
    <3>1. i \in 2 .. n /\ i \in 1 .. n
      BY <2>4
    <3>2. g[i] = f[i]
      BY <1>4, <3>1
    <3>3. f[i] = IF ~IsConstant(i) THEN f[i - 1]
                 ELSE UNION { E!Apply(op, a, E!OperandAt(i)) : a \in f[i - 1] }
      BY <3>1 DEF JoinsTo
    <3>4. QED
      BY <2>2, <3>2, <3>3
  <2>5. QED
    BY <2>3, <2>4
<1>7. JoinsTo(g, op, n + 1)
  BY <1>3, <1>5, <1>6 DEF JoinsTo
<1>8. QED
  BY <1>1, <1>4, <1>7

\* Without a constant behind the first there is nothing to join.
LEMMA JoinsNothing ==
  ASSUME NEW n \in Nat \ {0}, NEW op, \A i \in 2 .. n : ~IsConstant(i)
  PROVE  \E f : JoinsTo(f, op, n) /\ Cursor[1].value \in f[n]
<1>1. PICK v : v = {Cursor[1].value}
  OBVIOUS
<1>2. PICK f : f = [i \in 1 .. n |-> v]
  OBVIOUS
<1>3. 1 \in 1 .. n /\ n \in 1 .. n /\ \A i \in 2 .. n : i \in 1 .. n /\ i - 1 \in 1 .. n
  OBVIOUS
<1>4. f[1] = v /\ f[n] = v /\ \A i \in 2 .. n : f[i] = f[i - 1]
  BY <1>2, <1>3
<1>5. f = [i \in 1 .. n |-> f[i]]
  BY <1>2
<1>6. JoinsTo(f, op, n)
  BY <1>1, <1>4, <1>5 DEF JoinsTo
<1>7. QED
  BY <1>1, <1>4, <1>6

LEMMA CallTaken ==
  ASSUME CursorTyped, Len(Cursor) >= 1, IsConstant(1)
  PROVE  Taking(2, Cursor[1].value, "none", FALSE)
<1>1. 2 - 1 = 1 /\ 1 + 1 = 2 /\ \A i \in 1 .. 1 : i = 1
  OBVIOUS
<1>2. Prefix(2 - 1)
  BY <1>1 DEF Prefix, CursorTyped, IsConstant, OperandTypes
<1>3. ~Odd(2)
  BY <1>1, TildesNext, 1 \in Nat \ {0}
<1>4. OneOperator(1, "none")
  <2>1. 2 .. 1 = {}
    OBVIOUS
  <2>2. OperatorsTo(1) = {}
    BY <1>1 DEF OperatorsTo, Joins, IsConstant
  <2>3. QED
    BY <2>1, <2>2 DEF OneOperator
<1>5. QED
  BY <1>1, <1>2, <1>3, <1>4 DEF Taking, ValueTo

LEMMA PrefixNext ==
  ASSUME NEW i, NEW value, NEW op, NEW negate, Taking(i, value, op, negate), CursorTyped,
         i <= Len(Cursor), Cursor[i].type \in OperandTypes
  PROVE  /\ i \in Nat /\ i - 1 \in Nat \ {0} /\ i + 1 - 1 = i /\ i - 1 + 1 = i
         /\ Prefix(i)
<1>1. /\ i \in Nat /\ i - 1 \in 1 .. Len(Cursor) /\ Len(Cursor) \in Nat
      /\ \A k \in 1 .. (i - 1) : Cursor[k].type \in OperandTypes
      /\ IsConstant(1)
  BY DEF Taking, Prefix, CursorTyped
<1>2. \A k \in 1 .. i : k = i \/ k \in 1 .. (i - 1)
  BY <1>1
<1>3. QED
  BY <1>1, <1>2 DEF Prefix

IsNot(c, b) == c \in BOOLEAN /\ c = ~b

LEMMA NegatedIs ==
  ASSUME NEW b \in BOOLEAN
  PROVE  \E c : IsNot(c, b)
<1> USE DEF IsNot
<1>1. CASE b = TRUE
  <2>1. (~b) = FALSE
    BY <1>1
  <2>2. QED
    BY <2>1
<1>2. CASE b = FALSE
  <2>1. (~b) = TRUE
    BY <1>2
  <2>2. QED
    BY <2>1
<1>3. QED
  BY <1>1, <1>2

LEMMA TildeTaken ==
  ASSUME CursorTyped, NEW i, NEW value, NEW op, NEW negate, Taking(i, value, op, negate),
         i <= Len(Cursor), IsTilde(i), NEW c, IsNot(c, negate)
  PROVE  Taking(i + 1, value, op, c)
<1>1. ~IsConstant(i) /\ ~Joins(i) /\ Cursor[i].type \in OperandTypes
  BY DEF IsTilde, IsConstant, Joins, OperandTypes
<1>2. PICK n \in Nat \ {0} : n = i - 1 /\ n + 1 = i /\ i \in Nat \ {0} /\ i + 1 - 1 = i /\ Prefix(i)
  BY <1>1, PrefixNext
<1>3. OneOperator(n, op) /\ ValueTo(n, op, value)
  BY <1>2 DEF Taking
<1>4. OperatorsTo(i) = OperatorsTo(n)
  <2>1. \A k \in 1 .. i : k = i \/ k \in 1 .. n
    BY <1>2
  <2>2. \A k \in 1 .. n : k \in 1 .. i
    BY <1>2
  <2>3. QED
    BY <1>1, <2>1, <2>2 DEF OperatorsTo
<1>5. OneOperator(i, op)
  <2>1. \A k \in 2 .. i : k = i \/ k \in 2 .. n
    BY <1>2
  <2>2. \A k \in 2 .. n : k \in 2 .. i
    BY <1>2
  <2>3. QED
    BY <1>1, <1>3, <1>4, <2>1, <2>2 DEF OneOperator
<1>6. ValueTo(i, op, value)
  <2>1. CASE op = "none"
    BY <1>3, <2>1 DEF ValueTo
  <2>2. CASE op # "none"
    <3>1. PICK f : JoinsTo(f, op, n) /\ value \in f[n]
      BY <1>3, <2>2 DEF ValueTo
    <3>2. PICK g : JoinsTo(g, op, n + 1) /\ g[n + 1] = f[n]
      BY <1>1, <1>2, <3>1, JoinsFurther
    <3>3. QED
      BY <1>2, <2>2, <3>1, <3>2 DEF ValueTo
  <2>3. QED
    BY <2>1, <2>2
<1>7. c \in BOOLEAN /\ (c <=> Odd(i + 1))
  <2>1. (negate <=> Odd(i)) /\ c \in BOOLEAN /\ c = ~negate
    BY DEF Taking, IsNot
  <2>2. Odd(i + 1) <=> ~Odd(i)
    BY <1>2, TildesNext
  <2>3. QED
    BY <2>1, <2>2
<1>8. op \in {"none"} \cup E!Operators /\ i + 1 \in Nat
  BY <1>2 DEF Taking
<1>9. QED
  BY <1>2, <1>5, <1>6, <1>7, <1>8 DEF Taking

LEMMA OperatorTaken ==
  ASSUME CursorTyped, NEW i, NEW value, NEW negate, Taking(i, value, "none", negate),
         i <= Len(Cursor), Joins(i), Cursor[i].value \in E!Operators
  PROVE  Taking(i + 1, value, Cursor[i].value, negate)
<1>1. ~IsConstant(i) /\ Cursor[i].type \in OperandTypes
  BY DEF IsConstant, Joins, OperandTypes
<1>2. PICK n \in Nat \ {0} : n = i - 1 /\ n + 1 = i /\ i \in Nat \ {0} /\ i + 1 - 1 = i /\ Prefix(i)
  BY <1>1, PrefixNext
<1>3. /\ OperatorsTo(n) = {} /\ \A k \in 2 .. n : ~IsConstant(k)
      /\ value = Cursor[1].value
  BY <1>2 DEF Taking, OneOperator, ValueTo
<1>4. PICK op : op = Cursor[i].value /\ op \in E!Operators /\ op # "none"
  BY DEF E!Operators
<1>5. OperatorsTo(i) = {i}
  <2>1. \A k \in 1 .. i : k = i \/ k \in 1 .. n
    BY <1>2
  <2>2. i \in 1 .. i
    BY <1>2
  <2>3. QED
    BY <1>3, <2>1, <2>2 DEF OperatorsTo
<1>6. \A k \in 2 .. i : ~IsConstant(k)
  <2>1. \A k \in 2 .. i : k = i \/ k \in 2 .. n
    BY <1>2
  <2>2. QED
    BY <1>1, <1>3, <2>1
<1>7. OneOperator(i, op)
  <2>1. i \in 2 .. i
    BY <1>2
  <2>2. QED
    BY <1>4, <1>5, <1>6, <2>1 DEF OneOperator
<1>8. ValueTo(i, op, value)
  BY <1>2, <1>3, <1>4, <1>6, JoinsNothing DEF ValueTo
<1>9. negate \in BOOLEAN /\ (negate <=> Odd(i + 1)) /\ i + 1 \in Nat
  BY <1>2, TildesNext DEF Taking
<1>10. QED
  BY <1>2, <1>4, <1>7, <1>8, <1>9 DEF Taking

OperandOf(i, negate) ==
  IF negate THEN E!Complement(Cursor[i].value) ELSE Cursor[i].value

LEMMA ConstantTaken ==
  ASSUME CursorTyped, NEW i, NEW value, NEW op, NEW negate, Taking(i, value, op, negate),
         i <= Len(Cursor), IsConstant(i), op # "none",
         NEW next, next \in E!Apply(op, value, OperandOf(i, negate))
  PROVE  Taking(i + 1, next, op, FALSE)
<1>1. ~Joins(i) /\ Cursor[i].type \in OperandTypes
  BY DEF IsConstant, Joins, OperandTypes
<1>2. PICK n \in Nat \ {0} : n = i - 1 /\ n + 1 = i /\ i \in Nat \ {0} /\ i + 1 - 1 = i /\ Prefix(i)
  BY <1>1, PrefixNext
<1>3. OneOperator(n, op) /\ ValueTo(n, op, value)
  BY <1>2 DEF Taking
<1>4. PICK j \in 2 .. n : /\ OperatorsTo(n) = {j} /\ Cursor[j].value = op
                          /\ \A k \in 2 .. n : IsConstant(k) => j < k
  BY <1>3 DEF OneOperator
<1>5. OperatorsTo(i) = {j}
  <2>1. \A k \in 1 .. i : k = i \/ k \in 1 .. n
    BY <1>2
  <2>2. \A k \in 1 .. n : k \in 1 .. i
    BY <1>2
  <2>3. QED
    BY <1>1, <1>4, <2>1, <2>2 DEF OperatorsTo
<1>6. OneOperator(i, op)
  <2>1. \A k \in 2 .. i : k = i \/ k \in 2 .. n
    BY <1>2
  <2>2. j \in 2 .. i /\ j < i
    BY <1>2
  <2>3. QED
    BY <1>4, <1>5, <2>1, <2>2 DEF OneOperator
<1>7. E!OperandAt(i) = OperandOf(i, negate)
  BY OperandIs DEF Taking, OperandOf
<1>8. ValueTo(i, op, next)
  <2>1. PICK f : JoinsTo(f, op, n) /\ value \in f[n]
    BY <1>3 DEF ValueTo
  <2>2. PICK g : /\ JoinsTo(g, op, n + 1)
                 /\ g[n + 1] = UNION { E!Apply(op, a, E!OperandAt(n + 1)) : a \in f[n] }
    BY <1>2, <2>1, JoinsFurther
  <2>3. next \in g[i]
    BY <1>2, <1>7, <2>1, <2>2
  <2>4. QED
    BY <1>2, <2>2, <2>3 DEF ValueTo
<1>9. ~Odd(i + 1) /\ i + 1 \in Nat
  BY <1>2, TildesNext
<1>10. op \in {"none"} \cup E!Operators
  BY DEF Taking
<1>11. QED
  BY <1>2, <1>6, <1>8, <1>9, <1>10 DEF Taking

-----------------------------------------------------------------------------

LEMMA TakingSame ==
  ASSUME Cursor' = Cursor
  PROVE  Taking(index, sum, ops, negated)' <=> Taking(index', sum', ops', negated')
<1>1. Prefix(index - 1)' <=> Prefix(index' - 1)
  BY DEF Prefix, IsConstant
<1>2. Odd(index)' <=> Odd(index')
  BY DEF Odd, Tildes, IsTilde, IsConstant
<1>3. OneOperator(index - 1, ops)' <=> OneOperator(index' - 1, ops')
  BY DEF OneOperator, OperatorsTo, Joins, IsConstant
<1>4. ValueTo(index - 1, ops, sum)' <=> ValueTo(index' - 1, ops', sum')
  BY DEF ValueTo, JoinsTo, E!OperandAt, IsConstant
<1>5. QED
  BY <1>1, <1>2, <1>3, <1>4 DEF Taking

LEMMA CursorSame ==
  ASSUME Cursor' = Cursor
  PROVE  OperandEnds(index - 1)' <=> OperandEnds(index' - 1)
BY DEF OperandEnds

LEMMA EvaluateJoins ==
  ASSUME SplitInv, JoinInv, Evaluate
  PROVE  JoinInv'
<1>0. /\ UNCHANGED <<tokens, phase>> /\ phase = "split" /\ E!ExprNext
  BY DEF Evaluate, splitVars
<1>1. Cursor' = Cursor
  BY <1>0 DEF Cursor
<1>2. CursorTyped
  BY CursorIs
<1> SUFFICES /\ result' # "waiting"
             /\ result' \in {"running", "done"} => Taking(index', sum', ops', negated')
             /\ result' = "done" => OperandEnds(index' - 1)
  BY <1>0, <1>1, TakingSame, CursorSame DEF JoinInv
<1>3. CASE E!Call
  <2>1. index = 1 /\ ops = "none" /\ negated = FALSE
    BY <1>3 DEF E!Call, JoinInv, E!ExprInit
  <2>2. CASE E!ExprNextIs("constant")
    <3>1. Len(Cursor) >= 1 /\ IsConstant(1)
      BY <2>1, <2>2, <1>2 DEF E!ExprNextIs, IsConstant, CursorTyped
    <3>2. sum' = Cursor[1].value /\ result' = "running" /\ index' = 2 /\ ops' = "none" /\ negated' = FALSE
      BY <1>3, <2>1, <2>2 DEF E!Call
    <3>3. QED
      BY <1>2, <3>1, <3>2, CallTaken
  <2>3. CASE ~E!ExprNextIs("constant")
    BY <1>3, <2>3 DEF E!Call
  <2>4. QED
    BY <2>2, <2>3
<1>4. ASSUME result = "running" PROVE Taking(index, sum, ops, negated)
  BY <1>4 DEF JoinInv
<1>5. CASE E!TakeConstant
  <2>1. /\ result = "running" /\ index <= Len(Cursor) /\ IsConstant(index)
        /\ index' = index + 1 /\ negated' = FALSE /\ ops' = ops
    BY <1>5 DEF E!TakeConstant, E!Taken, E!ExprNextIs, IsConstant
  <2>2. PICK operand : operand = IF negated THEN E!Complement(Cursor[index].value)
                                 ELSE Cursor[index].value
    OBVIOUS
  <2>3. \/ result' \in {"rejected", "trapped"}
        \/ ops # "none" /\ sum' \in E!Apply(ops, sum, operand) /\ result' = "running"
    BY <1>5, <2>1, <2>2 DEF E!TakeConstant
  <2>4. CASE result' \in {"rejected", "trapped"}
    BY <2>4
  <2>5. CASE ops # "none" /\ sum' \in E!Apply(ops, sum, operand) /\ result' = "running"
    <3>1. PICK i, value, op, negate, next :
            i = index /\ value = sum /\ op = ops /\ negate = negated /\ next = sum'
      OBVIOUS
    <3>2. Taking(i, value, op, negate) /\ i <= Len(Cursor) /\ IsConstant(i) /\ op # "none"
      BY <1>4, <2>1, <2>5, <3>1
    <3>3. next \in E!Apply(op, value, OperandOf(i, negate))
      BY <2>2, <2>5, <3>1 DEF OperandOf
    <3>4. Taking(i + 1, next, op, FALSE)
      BY <1>2, <3>2, <3>3, ConstantTaken
    <3>5. QED
      BY <2>1, <2>5, <3>1, <3>4
  <2>6. QED
    BY <2>3, <2>4, <2>5
<1>6. CASE E!TakeNegation
  <2>1. /\ result = "running" /\ index <= Len(Cursor) /\ IsTilde(index) /\ result' = "running"
        /\ index' = index + 1 /\ negated' = ~negated /\ ops' = ops /\ sum' = sum
    BY <1>6 DEF E!TakeNegation, E!ExprNextIs, IsTilde
  <2>2. negated \in BOOLEAN
    BY <1>4, <2>1 DEF Taking
  <2>3. PICK c : IsNot(c, negated)
    BY <2>2, NegatedIs
  <2>4. Taking(index + 1, sum, ops, c)
    BY <1>2, <1>4, <2>1, <2>3, TildeTaken
  <2>5. c = negated'
    BY <2>1, <2>3 DEF IsNot
  <2>6. QED
    BY <2>1, <2>4, <2>5
<1>7. CASE E!TakeOperator
  <2>1. /\ result = "running" /\ index <= Len(Cursor) /\ Joins(index)
        /\ Cursor[index].value \in E!Operators
        /\ index' = index + 1 /\ negated' = negated /\ sum' = sum
    BY <1>7 DEF E!TakeOperator, E!ExprNextIs, Joins, E!Operators
  <2>2. \/ result' = "rejected"
        \/ ops = "none" /\ ops' = Cursor[index].value /\ result' = "running"
    BY <1>7, <2>1 DEF E!TakeOperator
  <2>3. CASE ops = "none" /\ ops' = Cursor[index].value /\ result' = "running"
    <3>1. Taking(index + 1, sum, Cursor[index].value, negated)
      BY <1>2, <1>4, <2>1, <2>3, OperatorTaken
    <3>2. QED
      BY <2>1, <2>3, <3>1
  <2>4. QED
    BY <2>2, <2>3
<1>8. CASE E!Return
  <2>1. /\ result = "running" /\ result' = "done" /\ UNCHANGED <<index, sum, ops, negated>>
        /\ ~E!ExprNextIs("constant") /\ ~E!ExprNextIs("operator")
    BY <1>8 DEF E!Return
  <2>2. Taking(index, sum, ops, negated)
    BY <1>4, <2>1
  <2>3. PICK i \in Nat : i = index /\ i - 1 + 1 = i
    BY <2>2 DEF Taking
  <2>4. i - 1 < Len(Cursor) => i <= Len(Cursor)
    BY <1>2 DEF CursorTyped
  <2>5. OperandEnds(index - 1)
    BY <2>1, <2>3, <2>4 DEF OperandEnds, OperandTypes, E!ExprNextIs
  <2>6. QED
    BY <2>1, <2>2, <2>5
<1>9. QED
  BY <1>0, <1>3, <1>5, <1>6, <1>7, <1>8 DEF E!ExprNext

LEMMA JoinStep ==
  ASSUME SplitInv, JoinInv, [Next]_allVars
  PROVE  JoinInv'
<1>1. CASE Split
  <2>1. phase = "splitting" /\ UNCHANGED operandVars
    BY <1>1 DEF Split, SplitNext, QuotedEscape, QuotedCharacter, InComment, StartComment,
                StartEscape, StartSigned, Separate, AppendCharacter, EndOfText, Splitting, Plain
  <2>2. E!ExprInit /\ E!ExprInit'
    BY <2>1 DEF JoinInv, E!ExprInit, operandVars
  <2>3. result' = "waiting"
    BY <2>2 DEF E!ExprInit
  <2>4. QED
    BY <2>2, <2>3 DEF JoinInv
<1>2. CASE UNCHANGED allVars
  <2>1. /\ UNCHANGED <<index, sum, ops, negated, result, phase>>
        /\ Cursor' = Cursor
    BY <1>2 DEF allVars, splitVars, operandVars, Cursor
  <2>2. E!ExprInit' <=> E!ExprInit
    BY <2>1 DEF E!ExprInit
  <2>3. QED
    BY <2>1, <2>2, TakingSame, CursorSame DEF JoinInv
<1>3. QED
  BY <1>1, <1>2, EvaluateJoins DEF Next, Stopped

LEMMA LengthIs ==
  ASSUME CursorTyped, NEW n, Prefix(n), OperandEnds(n)
  PROVE  /\ E!OperandLength = n
         /\ E!OperatorsAt = OperatorsTo(n)
         /\ E!ConstantsAt = { i \in 1 .. n : IsConstant(i) }
<1>1. PICK l \in Nat : l = Len(Cursor) /\ n \in 1 .. l
  BY DEF CursorTyped, Prefix
<1>2. n \in 0 .. l /\ \A i \in 1 .. n : Cursor[i].type \in OperandTypes
  BY <1>1 DEF Prefix
<1>3. n < l => Cursor[n + 1].type \notin OperandTypes
  BY <1>1 DEF OperandEnds
<1>4. ASSUME NEW m \in 0 .. l,
             \A i \in 1 .. m : Cursor[i].type \in OperandTypes,
             m < l => Cursor[m + 1].type \notin OperandTypes
      PROVE  m = n
  <2>1. CASE m < n
    <3>1. m + 1 \in 1 .. n /\ m < l
      BY <1>1, <2>1
    <3>2. QED
      BY <1>2, <1>4, <3>1
  <2>2. CASE n < m
    <3>1. n + 1 \in 1 .. m /\ n < l
      BY <1>1, <2>2
    <3>2. QED
      BY <1>3, <1>4, <3>1
  <2>3. QED
    BY <1>1, <2>1, <2>2
<1>5. E!OperandLength = CHOOSE m \in 0 .. l :
        /\ \A i \in 1 .. m : Cursor[i].type \in OperandTypes
        /\ m < l => Cursor[m + 1].type \notin OperandTypes
  BY <1>1 DEF E!OperandLength, OperandTypes
<1>6. E!OperandLength = n
  BY <1>2, <1>3, <1>4, <1>5
<1>7. QED
  BY <1>6 DEF E!OperatorsAt, E!ConstantsAt, OperatorsTo, Joins, IsConstant

LEMMA JoinedIs ==
  ASSUME CursorTyped, NEW n, Prefix(n), OperandEnds(n), NEW op, NEW f, JoinsTo(f, op, n)
  PROVE  E!Joined(op) = f[n]
<1>1. n \in Nat \ {0}
  BY DEF Prefix, CursorTyped
<1>2. E!OperandLength = n /\ \A i \in 1 .. n : i \in E!ConstantsAt <=> IsConstant(i)
  BY LengthIs
<1> DEFINE upTo == CHOOSE g : g = [i \in 1 .. E!OperandLength |->
              IF i = 1 THEN {Cursor[1].value}
              ELSE IF i \notin E!ConstantsAt THEN g[i - 1]
              ELSE UNION { E!Apply(op, a, E!OperandAt(i)) : a \in g[i - 1] }]
<1>3. E!Joined(op) = upTo[E!OperandLength]
  BY DEF E!Joined
<1>4. f = [i \in 1 .. E!OperandLength |->
              IF i = 1 THEN {Cursor[1].value}
              ELSE IF i \notin E!ConstantsAt THEN f[i - 1]
              ELSE UNION { E!Apply(op, a, E!OperandAt(i)) : a \in f[i - 1] }]
  <2>1. f = [i \in 1 .. n |-> f[i]]
    BY DEF JoinsTo
  <2>2. ASSUME NEW i \in 1 .. n
        PROVE  f[i] = IF i = 1 THEN {Cursor[1].value}
                      ELSE IF i \notin E!ConstantsAt THEN f[i - 1]
                      ELSE UNION { E!Apply(op, a, E!OperandAt(i)) : a \in f[i - 1] }
    <3>1. i = 1 \/ i \in 2 .. n
      OBVIOUS
    <3>2. QED
      BY <1>2, <3>1 DEF JoinsTo
  <2>3. QED
    BY <1>2, <2>1, <2>2
<1>5. upTo = [i \in 1 .. E!OperandLength |->
              IF i = 1 THEN {Cursor[1].value}
              ELSE IF i \notin E!ConstantsAt THEN upTo[i - 1]
              ELSE UNION { E!Apply(op, a, E!OperandAt(i)) : a \in upTo[i - 1] }]
  BY <1>4, Zenon
<1> HIDE DEF upTo
<1>6. PICK g : g = upTo
  OBVIOUS
<1>7. g[1] = f[1]
  <2>1. 1 \in 1 .. n
    BY <1>1
  <2>2. g[1] = {Cursor[1].value}
    BY <1>2, <1>5, <1>6, <2>1
  <2>3. QED
    BY <2>2 DEF JoinsTo
<1>8. ASSUME NEW i \in 2 .. n, g[i - 1] = f[i - 1]
      PROVE  g[i] = f[i]
  <2>1. i \in 1 .. n /\ i # 1
    OBVIOUS
  <2>2. g[i] = IF ~IsConstant(i) THEN g[i - 1]
               ELSE UNION { E!Apply(op, a, E!OperandAt(i)) : a \in g[i - 1] }
    BY <1>2, <1>5, <1>6, <2>1
  <2>3. f[i] = IF ~IsConstant(i) THEN f[i - 1]
               ELSE UNION { E!Apply(op, a, E!OperandAt(i)) : a \in f[i - 1] }
    BY DEF JoinsTo
  <2>4. QED
    BY <1>8, <2>2, <2>3
<1>9. StepAlike(g, f, 1, n)
  <2>1. \A i \in (1 + 1) .. n : g[i - 1] = f[i - 1] => g[i] = f[i]
    BY <1>8
  <2>2. QED
    BY <1>1, <1>7, <2>1 DEF StepAlike
<1>10. \A i \in 1 .. n : g[i] = f[i]
  BY <1>9, SameSteps
<1>11. QED
  BY <1>1, <1>2, <1>3, <1>6, <1>10

LEMMA JoinsAll ==
  ASSUME SplitInv, JoinInv
  PROVE  OneOperatorJoinsAll
<1> SUFFICES ASSUME result = "done" PROVE E!OneOperatorJoinsAll
  BY DEF OneOperatorJoinsAll, E!OneOperatorJoinsAll
<1>0. CursorTyped /\ Taking(index, sum, ops, negated) /\ OperandEnds(index - 1)
  BY CursorIs DEF JoinInv
<1>1. PICK n : n = index - 1 /\ n \in Nat \ {0} /\ Prefix(n) /\ OperandEnds(n)
  BY <1>0 DEF Taking, Prefix, CursorTyped
<1>2. OneOperator(n, ops) /\ ValueTo(n, ops, sum)
  BY <1>0, <1>1 DEF Taking
<1>3. /\ E!OperatorsAt = OperatorsTo(n)
      /\ E!ConstantsAt = { i \in 1 .. n : IsConstant(i) }
  BY <1>0, <1>1, LengthIs
<1>4. \A i \in E!ConstantsAt \ {1} : i \in 2 .. n /\ IsConstant(i)
  BY <1>1, <1>3
<1>5. CASE ops = "none"
  <2>1. E!OperatorsAt = {} /\ sum = Cursor[1].value /\ E!ConstantsAt \ {1} = {}
    BY <1>2, <1>3, <1>4, <1>5 DEF OneOperator, ValueTo
  <2>2. QED
    BY <2>1 DEF E!OneOperatorJoinsAll
<1>6. CASE ops # "none"
  <2>1. PICK j \in 2 .. n : /\ OperatorsTo(n) = {j} /\ Cursor[j].value = ops
                            /\ \A i \in 2 .. n : IsConstant(i) => j < i
    BY <1>2, <1>6 DEF OneOperator
  <2>2. PICK f : JoinsTo(f, ops, n) /\ sum \in f[n]
    BY <1>2, <1>6 DEF ValueTo
  <2>3. sum \in E!Joined(ops)
    <3>1. PICK o : o = ops
      OBVIOUS
    <3>2. E!Joined(o) = f[n]
      BY <1>0, <1>1, <2>2, <3>1, JoinedIs
    <3>3. QED
      BY <2>2, <3>1, <3>2
  <2>4. E!OperatorsAt = {j}
    BY <1>3, <2>1
  <2>5. (CHOOSE i \in E!OperatorsAt : TRUE) = j
    BY <2>4
  <2>6. \A i \in E!ConstantsAt \ {1} : j < i
    BY <1>4, <2>1
  <2>7. QED
    BY <2>1, <2>3, <2>4, <2>5, <2>6 DEF E!OneOperatorJoinsAll
<1>7. QED
  BY <1>5, <1>6

LEMMA JoinInitially ==
  ASSUME Init
  PROVE  JoinInv
BY DEF Init, JoinInv, E!ExprInit, SplitInit

LEMMA JoinInvariant == Spec => []JoinInv
<1>1. Init => JoinInv
  BY JoinInitially
<1>2. SplitInv /\ JoinInv /\ [Next]_allVars => JoinInv'
  BY JoinStep
<1>3. QED
  BY <1>1, <1>2, SplitInvariant, PTL DEF Spec

(***************************************************************************)
(* Whatever the text, a program that goes on behind resolve_constants has  *)
(* an operand with one operator at most, in front of every constant but    *)
(* the first, and has read what that operator makes of the constants, the  *)
(* complements of each applied to it alone (assemble.cpp:225-301).         *)
(***************************************************************************)
THEOREM OneOperatorJoins == Spec => []OneOperatorJoinsAll
BY SplitInvariant, JoinInvariant, JoinsAll, PTL

-----------------------------------------------------------------------------
(***************************************************************************)
(* Numbers that differ by a multiple of the range of a half                *)
(***************************************************************************)

Congruent(a, b, m) ==
  /\ a \in Int /\ b \in Int /\ m \in Nat \ {0}
  /\ \E q \in Int : a = b + m * q

LEMMA CongruentTo ==
  ASSUME NEW a \in Int, NEW b \in Int, NEW m \in Nat \ {0}, NEW q \in Int, a = b + m * q
  PROVE  Congruent(a, b, m)
BY DEF Congruent

LEMMA DivMod ==
  ASSUME NEW a \in Int, NEW m \in Nat \ {0}
  PROVE  /\ a % m \in 0 .. (m - 1) /\ a \div m \in Int
         /\ a = (m * (a \div m)) + (a % m)
OBVIOUS

LEMMA Division ==
  ASSUME NEW a \in Int, NEW m \in Nat \ {0}
  PROVE  \E q \in Int, r \in 0 .. (m - 1) : r = a % m /\ a = m * q + r
<1>1. PICK q, r : q = a \div m /\ r = a % m
  OBVIOUS
<1>2. q \in Int /\ r \in 0 .. (m - 1) /\ a = m * q + r
  BY <1>1, DivMod
<1>3. QED
  BY <1>1, <1>2

\* The only multiple of m nearer to 0 than m is 0.
LEMMA SmallMultiple ==
  ASSUME NEW d \in Int, NEW m \in Nat \ {0}, NEW r \in Int, r = m * d, -m < r, r < m
  PROVE  d = 0
<1>1. CASE d >= 1
  <2>1. m * d >= m
    BY <1>1
  <2>2. QED
    BY <2>1
<1>2. CASE d <= -1
  <2>1. m * d <= -m
    BY <1>2
  <2>2. QED
    BY <2>1
<1>3. QED
  BY <1>1, <1>2

LEMMA CongruentMod ==
  ASSUME NEW a, NEW b, NEW m, Congruent(a, b, m)
  PROVE  a % m = b % m
<1>1. /\ a \in Int /\ b \in Int /\ m \in Nat \ {0}
      /\ \E q \in Int : a = b + m * q
  BY DEF Congruent
<1>2. PICK q \in Int : a = b + m * q
  BY <1>1
<1>3. PICK p \in Int, r \in 0 .. (m - 1) : r = a % m /\ a = m * p + r
  BY <1>1, Division
<1>4. PICK s \in Int, t \in 0 .. (m - 1) : t = b % m /\ b = m * s + t
  BY <1>1, Division
<1>5. PICK d \in Int : d = s + q - p
  OBVIOUS
<1>6. m * d = m * s + m * q - m * p
  BY <1>1, <1>5
<1>a. PICK u \in Int, v \in Int, w \in Int : u = m * p /\ v = m * s /\ w = m * q
  BY <1>1
<1>7. r - t \in Int /\ r - t = m * d /\ -m < r - t /\ r - t < m
  <2>1. a = u + r /\ b = v + t /\ a = b + w /\ m * d = v + w - u
    BY <1>2, <1>3, <1>4, <1>6, <1>a
  <2>2. r - t = v + w - u
    BY <2>1
  <2>3. QED
    BY <1>1, <2>1, <2>2
<1>8. d = 0
  BY <1>1, <1>7, SmallMultiple
<1>9. m * 0 = 0
  BY <1>1
<1>10. r - t = 0
  BY <1>7, <1>8, <1>9
<1>11. QED
  BY <1>3, <1>4, <1>10

LEMMA CongruentSame ==
  ASSUME NEW a \in Int, NEW m \in Nat \ {0}
  PROVE  Congruent(a, a, m)
<1>1. 0 \in Int /\ a = a + m * 0
  OBVIOUS
<1>2. QED
  BY <1>1, CongruentTo

LEMMA CongruentChain ==
  ASSUME NEW a, NEW b, NEW c, NEW m, Congruent(a, b, m), Congruent(b, c, m)
  PROVE  Congruent(a, c, m)
<1>1. a \in Int /\ b \in Int /\ c \in Int /\ m \in Nat \ {0}
  BY DEF Congruent
<1>2. PICK p \in Int, q \in Int : a = b + m * p /\ b = c + m * q
  BY DEF Congruent
<1>3. a = c + m * (p + q) /\ p + q \in Int
  BY <1>1, <1>2
<1>4. QED
  BY <1>1, <1>3, CongruentTo

\* Sums, differences and products, as in resolve_constants.
LEMMA CongruentResults ==
  ASSUME NEW a, NEW b, NEW c, NEW d, NEW m, Congruent(a, c, m), Congruent(b, d, m)
  PROVE  /\ Congruent(a + b, c + d, m)
         /\ Congruent(a - b, c - d, m)
         /\ Congruent(a * b, c * d, m)
<1>1. a \in Int /\ b \in Int /\ c \in Int /\ d \in Int /\ m \in Nat \ {0}
  BY DEF Congruent
<1>2. PICK p \in Int, q \in Int : a = c + m * p /\ b = d + m * q
  BY DEF Congruent
<1>3. a + b = (c + d) + m * (p + q) /\ p + q \in Int
  BY <1>1, <1>2
<1>4. a - b = (c - d) + m * (p - q) /\ p - q \in Int
  BY <1>1, <1>2
<1>5. a * b = c * d + m * (p * d + c * q + m * (p * q)) /\ p * d + c * q + m * (p * q) \in Int
  <2>1. PICK x \in Int, y \in Int, z \in Int : x = p * d /\ y = c * q /\ z = m * (p * q)
    BY <1>1
  <2>2. (c + m * p) * (d + m * q) = c * d + c * (m * q) + (m * p) * d + (m * p) * (m * q)
    BY <1>1
  <2>3. c * (m * q) = m * y /\ (m * p) * d = m * x /\ (m * p) * (m * q) = m * z
    BY <1>1, <2>1
  <2>4. m * (x + y + z) = m * x + m * y + m * z
    BY <1>1
  <2>5. QED
    BY <1>1, <1>2, <2>1, <2>2, <2>3, <2>4
<1>6. /\ a + b \in Int /\ c + d \in Int /\ a - b \in Int /\ c - d \in Int
      /\ a * b \in Int /\ c * d \in Int
  BY <1>1
<1>7. QED
  BY <1>1, <1>3, <1>4, <1>5, <1>6, CongruentTo

LEMMA WrappedIs ==
  ASSUME NEW x \in Int
  PROVE  Congruent(x % E!Full, x, E!Half)
<1>1. PICK h \in Nat \ {0} : h = E!Half /\ E!Full = h * h
  BY HalfIs
<1>2. PICK n \in Nat \ {0} : n = h * h
  OBVIOUS
<1>3. PICK q \in Int, r \in 0 .. (n - 1) : r = x % n /\ x = n * q + r
  BY Division
<1>4. PICK p \in Int, s \in Int : p = h * q /\ s = h * p
  OBVIOUS
<1>5. n * q = s /\ h * (0 - p) = 0 - s
  BY <1>2, <1>4
<1>6. r \in Int /\ r = x + h * (0 - p) /\ 0 - p \in Int
  <2>1. r \in Int /\ 0 - p \in Int
    OBVIOUS
  <2>2. x = s + r
    BY <1>3, <1>5
  <2>3. r = x + (0 - s)
    BY <2>1, <2>2
  <2>4. QED
    BY <1>5, <2>1, <2>3
<1>7. Congruent(r, x, h)
  BY <1>6, CongruentTo
<1>8. QED
  BY <1>1, <1>2, <1>3, <1>7

LEMMA SignedIs ==
  ASSUME NEW x \in Int
  PROVE  Congruent(E!SignedHalf(x), x, E!Half)
<1>1. PICK h \in Nat \ {0} : h = E!Half
  BY HalfIs
<1>2. PICK q \in Int, r \in 0 .. (h - 1) : r = x % h /\ x = h * q + r
  BY Division
<1>3. E!SignedHalf(x) = r \/ E!SignedHalf(x) = r - h
  BY <1>1, <1>2 DEF E!SignedHalf
<1>4. r = x + h * (-q) /\ r - h = x + h * (-q - 1) /\ -q \in Int /\ -q - 1 \in Int
  BY <1>2
<1>a. r \in Int /\ r - h \in Int
  OBVIOUS
<1>5. Congruent(r, x, h) /\ Congruent(r - h, x, h)
  <2>1. Congruent(r, x, h)
    BY <1>4, <1>a, CongruentTo
  <2>2. PICK s \in Int, p \in Int : s = r - h /\ p = -q - 1 /\ s = x + h * p
    BY <1>4, <1>a
  <2>3. Congruent(s, x, h)
    BY <2>2, CongruentTo
  <2>4. QED
    BY <2>1, <2>2, <2>3
<1>6. QED
  BY <1>1, <1>3, <1>5

-----------------------------------------------------------------------------
(***************************************************************************)
(* Constants are numbers                                                   *)
(***************************************************************************)

LEMMA ReadTyped ==
  ASSUME NEW S, NEW w \in Seq(S), NEW digit, DigitMap(digit)
  PROVE  Read(w, digit) \in Nat
<1>1. PICK n \in Nat, l \in Nat : n = Leading(w, digit) /\ l = Len(w) /\ n <= l
  BY LeadingIs DEF IsLeading
<1>2. \A i \in 1 .. n : w[i] \in DOMAIN digit
  BY <1>1, LeadingIs DEF IsLeading
<1>3. SubSeq(w, 1, n) \in Seq(DOMAIN digit)
  <2>1. 1 \in Int /\ n <= Len(w)
    BY <1>1
  <2>2. QED
    BY <1>1, <1>2, <2>1, SubSeqProperties
<1>4. QED
  BY <1>1, <1>3, PositionalType DEF Read

\* Within its bounds an int is the number that was written.
LEMMA AtoiIs ==
  ASSUME NEW n \in Int
  PROVE  Atoi(n) \in Int /\ (-IntBound < n /\ n < IntBound => Atoi(n) = n)
<1>1. PICK b \in Nat \ {0}, h \in Nat \ {0}, m \in Nat \ {0} :
        b = IntBound /\ h = Half /\ m = 2 * b /\ m <= h
  <2>1. IntBound \in Nat \ {0} /\ Half \in Nat \ {0} /\ 2 * IntBound <= Half
    BY IntBoundAssumption, PowersOf16
  <2>2. 2 * IntBound \in Nat \ {0}
    BY <2>1
  <2>3. QED
    BY <2>1, <2>2
<1>2. PICK bound \in Int : bound = h \div 2 /\ b <= bound
  BY <1>1
<1>3. PICK long \in Int :
        long = IF n >= bound THEN bound - 1 ELSE IF n < -bound THEN -bound ELSE n
  BY <1>2
<1>4. PICK low \in Int : low = long % m
  BY <1>1
<1>5. Atoi(n) = IF low < b THEN low ELSE low - m
  BY <1>1, <1>2, <1>3, <1>4 DEF Atoi
<1>6. ASSUME -b < n, n < b PROVE Atoi(n) = n
  <2>1. long = n
    BY <1>1, <1>2, <1>3, <1>6
  <2>2. low = IF n >= 0 THEN n ELSE n + m
    <3>1. PICK q \in Int, r \in 0 .. (m - 1) : r = low /\ n = m * q + r
      <4>1. PICK q \in Int, r \in 0 .. (m - 1) : r = n % m /\ n = m * q + r
        BY Division
      <4>2. low = r
        BY <1>4, <2>1, <4>1
      <4>3. QED
        BY <4>1, <4>2
    <3>2. CASE n >= 0
      <4>1. n - r \in Int /\ n - r = m * q /\ -m < n - r /\ n - r < m
        BY <1>1, <1>6, <3>1, <3>2
      <4>2. q = 0
        BY <1>1, <4>1, SmallMultiple
      <4>3. m * 0 = 0
        BY <1>1
      <4>4. QED
        BY <3>1, <3>2, <4>2, <4>3
    <3>3. CASE n < 0
      <4>1. m * (q + 1) = m * q + m
        BY <1>1
      <4>2. n + m - r \in Int /\ n + m - r = m * (q + 1) /\ -m < n + m - r /\ n + m - r < m
        BY <1>1, <1>6, <3>1, <3>3, <4>1
      <4>3. q + 1 = 0
        <5>1. PICK d \in Int : d = q + 1
          OBVIOUS
        <5>2. PICK e \in Int : e = n + m - r
          BY <4>2
        <5>3. d = 0
          BY <1>1, <4>2, <5>1, <5>2, SmallMultiple
        <5>4. QED
          BY <5>1, <5>3
      <4>4. m * 0 = 0
        BY <1>1
      <4>5. QED
        BY <1>1, <3>1, <3>3, <4>2, <4>3, <4>4
    <3>4. QED
      BY <3>2, <3>3
  <2>3. QED
    BY <1>1, <1>5, <1>6, <2>2
<1>7. QED
  BY <1>1, <1>4, <1>5, <1>6

LEMMA NumberTyped ==
  ASSUME NEW w \in Spelled
  PROVE  Number(w).number \in Nat
<1>1. \A t, v, n : Token(t, v, n).number = n
  BY DEF Token
<1>2. DigitMap(Hexadecimal) /\ DigitMap(Binary) /\ DigitMap(Decimal)
  <2>1. 2 \in 1 .. 16 /\ 10 \in 1 .. 16
    OBVIOUS
  <2>2. DigitMap(Binary) /\ DigitMap(Decimal)
    BY <2>1, BaseMap DEF Binary, Decimal
  <2>3. QED
    BY <2>2, HexMap
<1>3. w \in Seq(Chars) /\ w # <<>> /\ Len(w) \in Nat /\ \A i \in 1 .. Len(w) : w[i] \in Chars
  BY DEF Spelled
<1>4. ASSUME NEW i \in Nat \ {0}, NEW j \in Nat, j <= Len(w)
      PROVE  SubSeq(w, i, j) \in Seq(Chars)
  <2>1. \A k \in i .. j : w[k] \in Chars
    BY <1>3, <1>4
  <2>2. QED
    BY <1>3, <1>4, <2>1, SubSeqProperties
<1>5. Threw.number \in Nat
  BY <1>1 DEF Threw
<1>6. Half \in Nat \ {0}
  BY PowersOf16
<1>7. CASE Len(w) > 2 /\ w[2] = "x"
  <2>1. PICK u, v : HexNumber(w) = <<u, v>> /\ Read(u, Hexadecimal) \in Nat /\ Read(v, Hexadecimal) \in Nat
    <3>1. CASE Len(w) > HalfDigits + 2
      <4>1. PICK n \in Nat, m \in Nat : n = Len(w) /\ m = HalfDigits /\ n > m + 2
        BY <1>3, <3>1, HalfDigitsAssumption
      <4>2. SubSeq(w, 3, n - m) \in Seq(Chars) /\ SubSeq(w, n - m + 1, n) \in Seq(Chars)
        BY <1>4, <4>1
      <4>3. HexNumber(w) = <<SubSeq(w, 3, n - m), SubSeq(w, n - m + 1, n)>>
        BY <4>1 DEF HexNumber
      <4>4. QED
        BY <1>2, <4>2, <4>3, ReadTyped
    <3>2. CASE ~(Len(w) > HalfDigits + 2)
      <4>1. HexNumber(w) = << <<"0">>, Tail2(w) >>
        BY <3>2 DEF HexNumber
      <4>2. <<"0">> \in Seq({"0"})
        OBVIOUS
      <4>3. Tail2(w) \in Seq(Chars)
        BY <1>3, <1>4 DEF Tail2
      <4>4. QED
        BY <1>2, <4>1, <4>2, <4>3, ReadTyped
    <3>3. QED
      BY <3>1, <3>2
  <2>2. Number(w) = Threw \/ Number(w).number = Read(u, Hexadecimal) * Half + Read(v, Hexadecimal)
    BY <1>1, <1>7, <2>1 DEF Number
  <2>3. QED
    BY <1>5, <1>6, <2>1, <2>2
<1>8. CASE ~(Len(w) > 2 /\ w[2] = "x") /\ Len(w) > 2 /\ w[2] = "b"
  <2>1. Tail2(w) \in Seq(Chars)
    BY <1>3, <1>4 DEF Tail2
  <2>2. Number(w) = Threw \/ Number(w).number = Read(Tail2(w), Binary)
    BY <1>1, <1>8 DEF Number
  <2>3. QED
    BY <1>2, <1>5, <2>1, <2>2, ReadTyped
<1>9. CASE ~(Len(w) > 2 /\ w[2] = "x") /\ ~(Len(w) > 2 /\ w[2] = "b")
  <2>1. PICK digits : digits = IF w[1] \in {"-", "+"} THEN Tail(w) ELSE w
    OBVIOUS
  <2>2. digits \in Seq(Chars)
    BY <1>3, <2>1
  <2>3. PICK n \in Nat : n = Read(digits, Decimal)
    BY <1>2, <2>2, ReadTyped
  <2>4. PICK k \in Int : k = IF w[1] = "-" THEN -n ELSE n
    OBVIOUS
  <2>5. Number(w).number = Atoi(k) % Half
    BY <1>1, <1>9, <2>1, <2>3, <2>4 DEF Number
  <2>6. QED
    BY <1>6, <2>5, AtoiIs
<1>10. QED
  BY <1>7, <1>8, <1>9

LEMMA ConstantTyped ==
  ASSUME SplitInv, NEW i \in 1 .. Len(Cursor), IsConstant(i)
  PROVE  Cursor[i].value \in Int
<1>1. i \in DOMAIN tokens /\ tokens[i] \in Parsed
  BY CursorIs DEF SplitInv, CursorTyped
<1>2. Cursor[i].type = tokens[i].type /\ Cursor[i].value = tokens[i].number
  BY <1>1 DEF Cursor, IsConstant
<1>3. PICK w \in Spelled, l \in Nat : tokens[i] = OnLine(Parse(w), l)
  BY <1>1 DEF Parsed
<1>4. Parse(w).type = "constant" /\ Cursor[i].value = Parse(w).number
  BY <1>2, <1>3 DEF OnLine, IsConstant
<1>5. \A t, v, n : Token(t, v, n).type = t /\ Token(t, v, n).number = n
  BY DEF Token
<1>6. Named(w).type # "constant" /\ Threw.type # "constant"
  BY <1>5 DEF Threw, Named
<1>7. Parse(w) = Token("constant", w, 0) \/ Parse(w) = Number(w)
  BY <1>4, <1>5, <1>6 DEF Parse
<1>8. Parse(w).number \in Nat
  BY <1>5, <1>7, NumberTyped
<1>9. QED
  BY <1>4, <1>8

-----------------------------------------------------------------------------
(***************************************************************************)
(* The sum in the low half                                                 *)
(***************************************************************************)

LowOperators == {"+", "-", "*"}

\* Without an operator any will do.
LowOperator(op) == IF op = "none" THEN "+" ELSE op

Combine(op, a, b) == IF op = "+" THEN a + b ELSE IF op = "-" THEN a - b ELSE a * b

\* The integer of the constant at i.
IntegerAt(i) == E!SignedHalf(E!OperandAt(i))

\* g[i] is the integer that the constants up to i stand for.
SumsTo(g, op, n) ==
  /\ g = [i \in 1 .. n |-> g[i]]
  /\ \A i \in 1 .. n : g[i] \in Int
  /\ g[1] = IntegerAt(1)
  /\ \A i \in 2 .. n :
       g[i] = IF ~IsConstant(i) THEN g[i - 1] ELSE Combine(op, g[i - 1], IntegerAt(i))

Lows(n, op, value) ==
  op \in LowOperators \cup {"none"} =>
    \E g : SumsTo(g, LowOperator(op), n) /\ Congruent(value, g[n], E!Half)

LowInv == result \in {"running", "done"} => Lows(index - 1, ops, sum)

ConstantsTyped == \A i \in 1 .. Len(Cursor) : IsConstant(i) => Cursor[i].value \in Int

LEMMA IntegerIs ==
  ASSUME CursorTyped, ConstantsTyped, NEW i \in 1 .. Len(Cursor), IsConstant(i)
  PROVE  /\ E!OperandAt(i) \in Int
         /\ Congruent(IntegerAt(i), E!OperandAt(i), E!Half) /\ IntegerAt(i) \in Int
<1>1. PICK v \in Int : v = Cursor[i].value
  BY DEF ConstantsTyped
<1>2. PICK h \in Nat : h = E!Full
  <2>1. PICK n \in Nat : n = E!Half /\ E!Full = n * n
    BY HalfIs
  <2>2. QED
    BY <2>1
<1>3. E!Complement(v) = h - 1 - v
  BY <1>2 DEF E!Complement
<1>4. E!OperandAt(i) \in Int
  BY <1>1, <1>3, OperandIs
<1>5. Congruent(IntegerAt(i), E!OperandAt(i), E!Half)
  BY <1>4, SignedIs DEF IntegerAt
<1>6. QED
  BY <1>4, <1>5 DEF Congruent

LEMMA FirstOperand == E!OperandAt(1) = Cursor[1].value
<1>1. 1 .. (1 - 1) = {}
  OBVIOUS
<1>2. Cardinality(Tildes(1)) = 0
  BY <1>1, FS_EmptySet DEF Tildes
<1>3. ~Odd(1)
  BY <1>2 DEF Odd
<1>4. QED
  BY <1>3, OperandIs

LEMMA SumsNothing ==
  ASSUME CursorTyped, ConstantsTyped, NEW n, Prefix(n), NEW op,
         \A i \in 2 .. n : ~IsConstant(i)
  PROVE  \E g : SumsTo(g, op, n) /\ Congruent(Cursor[1].value, g[n], E!Half)
<1>1. n \in Nat \ {0} /\ 1 \in 1 .. Len(Cursor) /\ IsConstant(1)
  BY DEF Prefix, CursorTyped
<1>2. PICK v \in Int : v = IntegerAt(1) /\ Congruent(v, Cursor[1].value, E!Half)
  BY <1>1, IntegerIs, FirstOperand
<1>3. PICK g : g = [i \in 1 .. n |-> v]
  OBVIOUS
<1>4. 1 \in 1 .. n /\ n \in 1 .. n /\ \A i \in 2 .. n : i \in 1 .. n /\ i - 1 \in 1 .. n
  BY <1>1
<1>5. g[1] = v /\ g[n] = v /\ (\A i \in 2 .. n : g[i] = g[i - 1]) /\ \A i \in 1 .. n : g[i] \in Int
  BY <1>3, <1>4
<1>6. g = [i \in 1 .. n |-> g[i]]
  BY <1>3
<1>7. SumsTo(g, op, n)
  BY <1>2, <1>5, <1>6 DEF SumsTo
<1>8. Congruent(Cursor[1].value, v, E!Half)
  <2>1. PICK w, h : w = Cursor[1].value /\ h = E!Half
    OBVIOUS
  <2>2. /\ v \in Int /\ w \in Int /\ h \in Nat \ {0}
        /\ \E q \in Int : v = w + h * q
    BY <1>2, <2>1 DEF Congruent
  <2>3. PICK q \in Int : v = w + h * q
    BY <2>2
  <2>4. w = v + h * (-q) /\ -q \in Int
    BY <2>2, <2>3
  <2>5. Congruent(w, v, h)
    BY <2>2, <2>4, CongruentTo
  <2>6. QED
    BY <2>1, <2>5
<1>9. QED
  BY <1>5, <1>7, <1>8

LEMMA SumsFurther ==
  ASSUME CursorTyped, ConstantsTyped, NEW n \in Nat \ {0}, n + 1 <= Len(Cursor),
         NEW op, NEW g, SumsTo(g, op, n)
  PROVE  \E f : /\ SumsTo(f, op, n + 1)
                /\ ~IsConstant(n + 1) => f[n + 1] = g[n]
                /\ IsConstant(n + 1) => f[n + 1] = Combine(op, g[n], IntegerAt(n + 1))
<1>0. n \in 1 .. n /\ n + 1 \in 1 .. Len(Cursor)
  BY DEF CursorTyped
<1>1. PICK last \in Int :
        last = IF ~IsConstant(n + 1) THEN g[n] ELSE Combine(op, g[n], IntegerAt(n + 1))
  <2>1. PICK a \in Int : a = g[n]
    BY <1>0 DEF SumsTo
  <2>2. IsConstant(n + 1) => IntegerAt(n + 1) \in Int
    BY <1>0, IntegerIs
  <2>3. \A b \in Int : Combine(op, a, b) \in Int
    BY DEF Combine
  <2>4. QED
    BY <2>1, <2>2, <2>3
<1>2. PICK f : f = [i \in 1 .. (n + 1) |-> IF i = n + 1 THEN last ELSE g[i]]
  OBVIOUS
<1>3. f = [i \in 1 .. (n + 1) |-> f[i]]
  BY <1>2
<1>4. f[n + 1] = last /\ \A i \in 1 .. n : f[i] = g[i]
  <2>1. \A i \in 1 .. n : i \in 1 .. (n + 1) /\ i # n + 1
    OBVIOUS
  <2>2. n + 1 \in 1 .. (n + 1)
    OBVIOUS
  <2>3. QED
    BY <1>2, <2>1, <2>2
<1>5. f[1] = IntegerAt(1)
  <2>1. 1 \in 1 .. n
    OBVIOUS
  <2>2. QED
    BY <1>4, <2>1 DEF SumsTo
<1>6. \A i \in 1 .. (n + 1) : f[i] \in Int
  <2>1. \A i \in 1 .. (n + 1) : i = n + 1 \/ i \in 1 .. n
    OBVIOUS
  <2>2. QED
    BY <1>4, <2>1 DEF SumsTo
<1>7. ASSUME NEW i \in 2 .. (n + 1)
      PROVE  f[i] = IF ~IsConstant(i) THEN f[i - 1] ELSE Combine(op, f[i - 1], IntegerAt(i))
  <2>1. i - 1 \in 1 .. n
    OBVIOUS
  <2>2. f[i - 1] = g[i - 1]
    BY <1>4, <2>1
  <2>3. CASE i = n + 1
    <3>1. i - 1 = n
      BY <2>3
    <3>2. QED
      BY <1>1, <1>4, <2>2, <2>3, <3>1
  <2>4. CASE i # n + 1
    <3>1. i \in 2 .. n /\ i \in 1 .. n
      BY <2>4
    <3>2. f[i] = g[i]
      BY <1>4, <3>1
    <3>3. g[i] = IF ~IsConstant(i) THEN g[i - 1] ELSE Combine(op, g[i - 1], IntegerAt(i))
      BY <3>1 DEF SumsTo
    <3>4. QED
      BY <2>2, <3>2, <3>3
  <2>5. QED
    BY <2>3, <2>4
<1>8. SumsTo(f, op, n + 1)
  BY <1>3, <1>5, <1>6, <1>7 DEF SumsTo
<1>9. QED
  BY <1>1, <1>4, <1>8

LEMMA LowsNothing ==
  ASSUME CursorTyped, ConstantsTyped, NEW n, Prefix(n), NEW op,
         \A i \in 2 .. n : ~IsConstant(i)
  PROVE  Lows(n, op, Cursor[1].value)
BY SumsNothing DEF Lows

LEMMA LowsUnchanged ==
  ASSUME CursorTyped, ConstantsTyped, NEW i, NEW value, NEW op, NEW negate,
         Taking(i, value, op, negate), Lows(i - 1, op, value),
         i <= Len(Cursor), Cursor[i].type \in OperandTypes, ~IsConstant(i)
  PROVE  Lows(i, op, value)
<1>1. PICK n \in Nat \ {0} : n = i - 1 /\ n + 1 = i /\ n + 1 <= Len(Cursor)
  BY PrefixNext
<1>2. SUFFICES ASSUME op \in LowOperators \cup {"none"}
               PROVE  \E f : SumsTo(f, LowOperator(op), i) /\ Congruent(value, f[i], E!Half)
  BY DEF Lows
<1>3. PICK g : SumsTo(g, LowOperator(op), n) /\ Congruent(value, g[n], E!Half)
  BY <1>1, <1>2 DEF Lows
<1>4. PICK o : o = LowOperator(op)
  OBVIOUS
<1>5. PICK f : SumsTo(f, o, n + 1) /\ f[n + 1] = g[n]
  BY <1>1, <1>3, <1>4, SumsFurther
<1>6. QED
  BY <1>1, <1>3, <1>4, <1>5

LEMMA LowsCombined ==
  ASSUME CursorTyped, ConstantsTyped, NEW i, NEW value, NEW op, NEW negate,
         Taking(i, value, op, negate), Lows(i - 1, op, value),
         i <= Len(Cursor), IsConstant(i), op # "none",
         NEW next, next \in E!Apply(op, value, OperandOf(i, negate))
  PROVE  Lows(i, op, next)
<1>0. Cursor[i].type \in OperandTypes
  BY DEF IsConstant, OperandTypes
<1>1. PICK n \in Nat \ {0} : n = i - 1 /\ n + 1 = i /\ n + 1 <= Len(Cursor) /\ Prefix(i)
  BY <1>0, PrefixNext
<1>2. SUFFICES ASSUME op \in LowOperators
               PROVE  \E f : SumsTo(f, LowOperator(op), i) /\ Congruent(next, f[i], E!Half)
  BY DEF Lows
<1>3. LowOperator(op) = op
  BY DEF LowOperator
<1>4. PICK g : SumsTo(g, op, n) /\ Congruent(value, g[n], E!Half)
  BY <1>1, <1>2, <1>3 DEF Lows
<1>5. PICK f : SumsTo(f, op, n + 1) /\ f[n + 1] = Combine(op, g[n], IntegerAt(n + 1))
  BY <1>1, <1>4, SumsFurther
<1>6. PICK b, d : b = E!OperandAt(i) /\ d = IntegerAt(i)
  OBVIOUS
<1>7. OperandOf(i, negate) = b
  BY <1>6, OperandIs DEF Taking, OperandOf
<1>8. PICK h : h = E!Half
  OBVIOUS
<1>9. Congruent(b, d, h)
  <2>1. i \in 1 .. Len(Cursor)
    BY <1>1 DEF Prefix
  <2>2. b \in Int /\ d \in Int /\ h \in Nat \ {0} /\ Congruent(d, b, h)
    BY <1>6, <1>8, <2>1, IntegerIs, HalfIs
  <2>3. PICK q \in Int : d = b + h * q
    BY <2>2 DEF Congruent
  <2>4. b = d + h * (-q) /\ -q \in Int
    BY <2>2, <2>3
  <2>5. QED
    BY <2>2, <2>4, CongruentTo
<1>10. PICK a, c : a = value /\ c = g[n] /\ Congruent(a, c, h)
  BY <1>4, <1>8
<1>11. /\ Congruent(a + b, c + d, h)
       /\ Congruent(a - b, c - d, h)
       /\ Congruent(a * b, c * d, h)
  BY <1>9, <1>10, CongruentResults
<1>12. PICK x : x \in Int /\ Congruent(x, Combine(op, c, d), h) /\ next = x % E!Full
  <2>1. a \in Int /\ b \in Int
    BY <1>9, <1>10 DEF Congruent
  <2>2. next \in E!Apply(op, a, b)
    BY <1>7, <1>10
  <2>3. CASE op = "+"
    <3>1. next = (a + b) % E!Full
      BY <2>2, <2>3 DEF E!Apply
    <3>2. a + b \in Int /\ Combine(op, c, d) = c + d
      BY <2>1, <2>3 DEF Combine
    <3>3. QED
      BY <1>11, <3>1, <3>2
  <2>4. CASE op = "-"
    <3>1. next = (a - b) % E!Full
      BY <2>2, <2>4 DEF E!Apply
    <3>2. a - b \in Int /\ Combine(op, c, d) = c - d
      BY <2>1, <2>4 DEF Combine
    <3>3. QED
      BY <1>11, <3>1, <3>2
  <2>5. CASE op = "*"
    <3>1. next = (a * b) % E!Full
      BY <2>2, <2>5 DEF E!Apply
    <3>2. a * b \in Int /\ Combine(op, c, d) = c * d
      BY <2>1, <2>5 DEF Combine
    <3>3. QED
      BY <1>11, <3>1, <3>2
  <2>6. QED
    BY <1>2, <2>3, <2>4, <2>5 DEF LowOperators
<1>13. Congruent(next, x, h)
  BY <1>8, <1>12, WrappedIs
<1>14. PICK r : r = Combine(op, c, d)
  OBVIOUS
<1>15. Congruent(next, r, h)
  BY <1>12, <1>13, <1>14, CongruentChain
<1>16. f[i] = r
  BY <1>1, <1>5, <1>6, <1>10, <1>14
<1>17. QED
  BY <1>1, <1>3, <1>5, <1>8, <1>15, <1>16

LEMMA LowsSame ==
  ASSUME Cursor' = Cursor
  PROVE  Lows(index - 1, ops, sum)' <=> Lows(index' - 1, ops', sum')
BY DEF Lows, SumsTo, IsConstant, IntegerAt, E!OperandAt

LEMMA EvaluateLows ==
  ASSUME SplitInv, JoinInv, LowInv, Evaluate
  PROVE  LowInv'
<1>0. /\ UNCHANGED <<tokens, phase>> /\ phase = "split" /\ E!ExprNext
  BY DEF Evaluate, splitVars
<1>1. Cursor' = Cursor
  BY <1>0 DEF Cursor
<1>2. CursorTyped /\ ConstantsTyped
  BY CursorIs, ConstantTyped DEF ConstantsTyped
<1> SUFFICES ASSUME result' \in {"running", "done"}
             PROVE  Lows(index' - 1, ops', sum')
  BY <1>1, LowsSame DEF LowInv
<1>3. CASE E!Call
  <2>1. index = 1 /\ ops = "none" /\ negated = FALSE
    BY <1>3 DEF E!Call, JoinInv, E!ExprInit
  <2>2. E!ExprNextIs("constant") /\ sum' = Cursor[1].value /\ index' = 2 /\ ops' = "none"
    BY <1>3, <2>1 DEF E!Call
  <2>3. Len(Cursor) >= 1 /\ IsConstant(1)
    BY <2>1, <2>2, <1>2 DEF E!ExprNextIs, IsConstant, CursorTyped
  <2>4. Taking(2, Cursor[1].value, "none", FALSE)
    BY <1>2, <2>3, CallTaken
  <2>5. 2 - 1 = 1 /\ 2 .. 1 = {}
    OBVIOUS
  <2>6. Prefix(1)
    BY <2>4, <2>5 DEF Taking
  <2>7. Lows(1, "none", Cursor[1].value)
    BY <1>2, <2>5, <2>6, LowsNothing
  <2>8. QED
    BY <2>2, <2>5, <2>7
<1>4. ASSUME result = "running"
      PROVE  \E i, value, op, negate :
               /\ i = index /\ value = sum /\ op = ops /\ negate = negated
               /\ Taking(i, value, op, negate) /\ Lows(i - 1, op, value)
               /\ i \in Nat /\ i + 1 - 1 = i
  <2>1. PICK i, value, op, negate : i = index /\ value = sum /\ op = ops /\ negate = negated
    OBVIOUS
  <2>2. Taking(i, value, op, negate) /\ Lows(i - 1, op, value)
    BY <1>4, <2>1 DEF JoinInv, LowInv
  <2>3. i \in Nat
    BY <2>2 DEF Taking
  <2>4. QED
    BY <2>1, <2>2, <2>3
<1>5. CASE E!TakeConstant
  <2>1. /\ result = "running" /\ index <= Len(Cursor) /\ IsConstant(index)
        /\ index' = index + 1 /\ ops' = ops
    BY <1>5 DEF E!TakeConstant, E!Taken, E!ExprNextIs, IsConstant
  <2>2. ops # "none" /\ sum' \in E!Apply(ops, sum, OperandOf(index, negated))
    BY <1>5 DEF E!TakeConstant, OperandOf
  <2>3. PICK i, value, op, negate :
          /\ i = index /\ value = sum /\ op = ops /\ negate = negated
          /\ Taking(i, value, op, negate) /\ Lows(i - 1, op, value)
          /\ i \in Nat /\ i + 1 - 1 = i
    BY <1>4, <2>1
  <2>4. PICK next : next = sum'
    OBVIOUS
  <2>5. /\ i <= Len(Cursor) /\ IsConstant(i) /\ op # "none"
        /\ next \in E!Apply(op, value, OperandOf(i, negate))
    BY <2>1, <2>2, <2>3, <2>4
  <2>6. Lows(i, op, next)
    BY <1>2, <2>3, <2>5, LowsCombined
  <2>7. QED
    BY <2>1, <2>3, <2>4, <2>6
<1>6. CASE E!TakeNegation
  <2>1. /\ result = "running" /\ index <= Len(Cursor) /\ Cursor[index].type = "operator"
        /\ index' = index + 1 /\ ops' = ops /\ sum' = sum
    BY <1>6 DEF E!TakeNegation, E!ExprNextIs
  <2>2. PICK i, value, op, negate :
          /\ i = index /\ value = sum /\ op = ops /\ negate = negated
          /\ Taking(i, value, op, negate) /\ Lows(i - 1, op, value)
          /\ i \in Nat /\ i + 1 - 1 = i
    BY <1>4, <2>1
  <2>3. i <= Len(Cursor) /\ Cursor[i].type \in OperandTypes /\ ~IsConstant(i)
    BY <2>1, <2>2 DEF IsConstant, OperandTypes
  <2>4. Lows(i, op, value)
    BY <1>2, <2>2, <2>3, LowsUnchanged
  <2>5. QED
    BY <2>1, <2>2, <2>4
<1>7. CASE E!TakeOperator
  <2>1. /\ result = "running" /\ index <= Len(Cursor) /\ Cursor[index].type = "operator"
        /\ index' = index + 1 /\ sum' = sum
    BY <1>7 DEF E!TakeOperator, E!ExprNextIs
  <2>2. ops = "none"
    BY <1>7 DEF E!TakeOperator
  <2>3. PICK i, value, op, negate :
          /\ i = index /\ value = sum /\ op = ops /\ negate = negated
          /\ Taking(i, value, op, negate) /\ Lows(i - 1, op, value)
          /\ i \in Nat /\ i + 1 - 1 = i
    BY <1>4, <2>1
  <2>4. i <= Len(Cursor) /\ Cursor[i].type \in OperandTypes /\ ~IsConstant(i)
    BY <2>1, <2>3 DEF IsConstant, OperandTypes
  <2>5. i - 1 \in Nat \ {0} /\ Prefix(i)
    BY <1>2, <2>3, <2>4, PrefixNext
  <2>6. value = Cursor[1].value /\ \A k \in 2 .. (i - 1) : ~IsConstant(k)
    BY <2>2, <2>3 DEF Taking, OneOperator, ValueTo
  <2>7. \A k \in 2 .. i : ~IsConstant(k)
    <3>1. \A k \in 2 .. i : k = i \/ k \in 2 .. (i - 1)
      BY <2>3
    <3>2. QED
      BY <2>4, <2>6, <3>1
  <2>8. PICK o : o = ops'
    OBVIOUS
  <2>9. Lows(i, o, value)
    BY <1>2, <2>5, <2>6, <2>7, LowsNothing
  <2>10. QED
    BY <2>1, <2>3, <2>8, <2>9
<1>8. CASE E!Return
  BY <1>8 DEF E!Return, LowInv
<1>9. QED
  BY <1>0, <1>3, <1>5, <1>6, <1>7, <1>8 DEF E!ExprNext

LEMMA LowStep ==
  ASSUME SplitInv, JoinInv, LowInv, [Next]_allVars
  PROVE  LowInv'
<1>1. CASE Split
  <2>1. phase = "splitting" /\ UNCHANGED operandVars
    BY <1>1 DEF Split, SplitNext, QuotedEscape, QuotedCharacter, InComment, StartComment,
                StartEscape, StartSigned, Separate, AppendCharacter, EndOfText, Splitting, Plain
  <2>2. result' = "waiting"
    BY <2>1 DEF JoinInv, E!ExprInit, operandVars
  <2>3. QED
    BY <2>2 DEF LowInv
<1>2. CASE UNCHANGED allVars
  <2>1. UNCHANGED <<index, sum, ops, negated, result, phase>> /\ Cursor' = Cursor
    BY <1>2 DEF allVars, splitVars, operandVars, Cursor
  <2>2. QED
    BY <2>1, LowsSame DEF LowInv
<1>3. QED
  BY <1>1, <1>2, EvaluateLows DEF Next, Stopped

\* What LowHalfIsInteger compares the sum to.
IntegerTo(value, op) ==
  LET integer[k \in 1 .. E!OperandLength] ==
        IF k = 1 THEN value[1]
        ELSE IF k \notin E!ConstantsAt THEN integer[k - 1]
        ELSE CASE op = "+" -> integer[k - 1] + value[k]
               [] op = "-" -> integer[k - 1] - value[k]
               [] op = "*" -> integer[k - 1] * value[k]
  IN  integer[E!OperandLength]

LEMMA IntegerToIs ==
  ASSUME CursorTyped, NEW n, Prefix(n), OperandEnds(n), NEW op \in LowOperators,
         NEW g, SumsTo(g, op, n), NEW value,
         value = [ i \in E!ConstantsAt |-> E!SignedHalf(E!OperandAt(i)) ]
  PROVE  IntegerTo(value, op) = g[n]
<1>1. n \in Nat \ {0} /\ IsConstant(1)
  BY DEF Prefix, CursorTyped
<1>2. /\ E!OperandLength = n
      /\ \A i \in 1 .. n : i \in E!ConstantsAt <=> IsConstant(i)
  BY LengthIs
<1>3. \A i \in 1 .. n : IsConstant(i) => value[i] = IntegerAt(i)
  BY <1>2 DEF IntegerAt
<1> DEFINE upTo == CHOOSE f : f = [k \in 1 .. E!OperandLength |->
              IF k = 1 THEN value[1]
              ELSE IF k \notin E!ConstantsAt THEN f[k - 1]
              ELSE CASE op = "+" -> f[k - 1] + value[k]
                     [] op = "-" -> f[k - 1] - value[k]
                     [] op = "*" -> f[k - 1] * value[k]]
<1>4. IntegerTo(value, op) = upTo[E!OperandLength]
  BY DEF IntegerTo
<1>5. g = [k \in 1 .. E!OperandLength |->
              IF k = 1 THEN value[1]
              ELSE IF k \notin E!ConstantsAt THEN g[k - 1]
              ELSE CASE op = "+" -> g[k - 1] + value[k]
                     [] op = "-" -> g[k - 1] - value[k]
                     [] op = "*" -> g[k - 1] * value[k]]
  <2>1. g = [k \in 1 .. n |-> g[k]]
    BY DEF SumsTo
  <2>2. ASSUME NEW k \in 1 .. n
        PROVE  g[k] = IF k = 1 THEN value[1]
                      ELSE IF k \notin E!ConstantsAt THEN g[k - 1]
                      ELSE CASE op = "+" -> g[k - 1] + value[k]
                             [] op = "-" -> g[k - 1] - value[k]
                             [] op = "*" -> g[k - 1] * value[k]
    <3>1. CASE k = 1
      BY <1>1, <1>3, <3>1 DEF SumsTo
    <3>2. CASE k # 1
      <4>1. k \in 2 .. n
        BY <3>2
      <4>2. g[k] = IF ~IsConstant(k) THEN g[k - 1] ELSE Combine(op, g[k - 1], IntegerAt(k))
        BY <4>1 DEF SumsTo
      <4>3. IsConstant(k) => value[k] = IntegerAt(k)
        BY <1>3
      <4>4. QED
        BY <1>2, <3>2, <4>2, <4>3 DEF Combine, LowOperators
    <3>3. QED
      BY <3>1, <3>2
  <2>3. QED
    BY <1>2, <2>1, <2>2
<1>6. upTo = [k \in 1 .. E!OperandLength |->
              IF k = 1 THEN value[1]
              ELSE IF k \notin E!ConstantsAt THEN upTo[k - 1]
              ELSE CASE op = "+" -> upTo[k - 1] + value[k]
                     [] op = "-" -> upTo[k - 1] - value[k]
                     [] op = "*" -> upTo[k - 1] * value[k]]
  BY <1>5, Zenon
<1> HIDE DEF upTo
<1>7. PICK f : f = upTo
  OBVIOUS
<1>8. f[1] = g[1]
  <2>1. 1 \in 1 .. n
    BY <1>1
  <2>2. f[1] = value[1]
    BY <1>2, <1>6, <1>7, <2>1
  <2>3. value[1] = IntegerAt(1)
    BY <1>1, <1>3, <2>1
  <2>4. QED
    BY <2>2, <2>3 DEF SumsTo
<1>9. ASSUME NEW k \in 2 .. n, f[k - 1] = g[k - 1]
      PROVE  f[k] = g[k]
  <2>1. k \in 1 .. n /\ k # 1
    OBVIOUS
  <2>2. f[k] = IF k \notin E!ConstantsAt THEN f[k - 1]
               ELSE CASE op = "+" -> f[k - 1] + value[k]
                      [] op = "-" -> f[k - 1] - value[k]
                      [] op = "*" -> f[k - 1] * value[k]
    BY <1>2, <1>6, <1>7, <2>1
  <2>3. g[k] = IF k \notin E!ConstantsAt THEN g[k - 1]
               ELSE CASE op = "+" -> g[k - 1] + value[k]
                      [] op = "-" -> g[k - 1] - value[k]
                      [] op = "*" -> g[k - 1] * value[k]
    BY <1>2, <1>5, <2>1
  <2>4. QED
    BY <1>9, <2>2, <2>3
<1>10. StepAlike(f, g, 1, n)
  <2>1. \A k \in (1 + 1) .. n : f[k - 1] = g[k - 1] => f[k] = g[k]
    BY <1>9
  <2>2. QED
    BY <1>1, <1>8, <2>1 DEF StepAlike
<1>11. \A k \in 1 .. n : f[k] = g[k]
  BY <1>10, SameSteps
<1>12. QED
  BY <1>1, <1>2, <1>4, <1>7, <1>11

LEMMA LowsAreIntegers ==
  ASSUME SplitInv, JoinInv, LowInv
  PROVE  LowHalfIsInteger
<1> SUFFICES ASSUME result = "done",
                    { Cursor[i].value : i \in E!OperatorsAt } \subseteq {"+", "-", "*"}
             PROVE  sum % E!Half =
                      IntegerTo([ i \in E!ConstantsAt |-> E!SignedHalf(E!OperandAt(i)) ],
                                IF E!OperatorsAt = {} THEN "+"
                                ELSE Cursor[CHOOSE i \in E!OperatorsAt : TRUE].value) % E!Half
  BY DEF LowHalfIsInteger, E!LowHalfIsInteger, IntegerTo
<1>a. PICK value, op :
        /\ value = [ i \in E!ConstantsAt |-> E!SignedHalf(E!OperandAt(i)) ]
        /\ op = IF E!OperatorsAt = {} THEN "+"
                ELSE Cursor[CHOOSE i \in E!OperatorsAt : TRUE].value
  OBVIOUS
<1>0. /\ CursorTyped /\ Taking(index, sum, ops, negated) /\ OperandEnds(index - 1)
      /\ Lows(index - 1, ops, sum)
  BY CursorIs DEF JoinInv, LowInv
<1>1. PICK n : n = index - 1 /\ n \in Nat \ {0} /\ Prefix(n) /\ OperandEnds(n)
  BY <1>0 DEF Taking, Prefix, CursorTyped
<1>2. OneOperator(n, ops) /\ Lows(n, ops, sum)
  BY <1>0, <1>1 DEF Taking
<1>3. E!OperatorsAt = OperatorsTo(n)
  BY <1>0, <1>1, LengthIs
<1>4. op = LowOperator(ops) /\ op \in LowOperators /\ ops \in LowOperators \cup {"none"}
  <2>1. CASE ops = "none"
    <3>1. E!OperatorsAt = {}
      BY <1>2, <1>3, <2>1 DEF OneOperator
    <3>2. QED
      BY <1>a, <2>1, <3>1 DEF LowOperator, LowOperators
  <2>2. CASE ops # "none"
    <3>1. PICK j : E!OperatorsAt = {j} /\ Cursor[j].value = ops
      BY <1>2, <1>3, <2>2 DEF OneOperator
    <3>2. (CHOOSE i \in E!OperatorsAt : TRUE) = j
      BY <3>1
    <3>3. op = ops /\ ops \in {"+", "-", "*"}
      BY <1>a, <3>1, <3>2
    <3>4. QED
      BY <2>2, <3>3 DEF LowOperator, LowOperators
  <2>3. QED
    BY <2>1, <2>2
<1>5. PICK g : SumsTo(g, op, n) /\ Congruent(sum, g[n], E!Half)
  BY <1>2, <1>4 DEF Lows
<1>6. IntegerTo(value, op) = g[n]
  BY <1>0, <1>1, <1>4, <1>5, <1>a, IntegerToIs
<1>7. PICK s, r, h : s = sum /\ r = g[n] /\ h = E!Half /\ Congruent(s, r, h)
  BY <1>5
<1>8. s % h = r % h
  BY <1>7, CongruentMod
<1>9. QED
  BY <1>6, <1>7, <1>8, <1>a

LEMMA LowInvariant == Spec => []LowInv
<1>1. Init => LowInv
  BY DEF Init, E!ExprInit, LowInv
<1>2. SplitInv /\ JoinInv /\ LowInv /\ [Next]_allVars => LowInv'
  BY LowStep
<1>3. QED
  BY <1>1, <1>2, SplitInvariant, JoinInvariant, PTL DEF Spec

(***************************************************************************)
(* For halves of any number of digits: although a negative constant fills  *)
(* one half of the 128 bits only, so that the carries and borrows into the *)
(* other half mean nothing, the low half of a sum, difference or product   *)
(* is that of the integers that were written (assemble.cpp:236-244,        *)
(* tokenizer.cpp:58).                                                      *)
(***************************************************************************)
THEOREM LowHalvesAreIntegers == Spec => []LowHalfIsInteger
BY SplitInvariant, JoinInvariant, LowInvariant, LowsAreIntegers, PTL

-----------------------------------------------------------------------------
(***************************************************************************)
(* Functions defined by recursion from the end of an interval              *)
(***************************************************************************)

\* The functions from a to m whose value at k is in T[k].
TypedBack(T, a, m) ==
  { h \in [a .. m -> UNION { T[k] : k \in a .. m }] : \A k \in a .. m : h[k] \in T[k] }

CanStepBack(T, a, m, step) ==
  /\ a \in Nat /\ m \in Nat
  /\ \A i \in a .. m : \A h \in TypedBack(T, i + 1, m) : step[<<i, h>>] \in T[i]

\* f[i] is what `step' makes of the values behind i.
StepsBack(f, T, a, m, step) ==
  /\ f \in TypedBack(T, a, m)
  /\ \A i \in a .. m : \E h \in TypedBack(T, i + 1, m) :
       f[i] = step[<<i, h>>] /\ \A k \in (i + 1) .. m : h[k] = f[k]

LEMMA TypedBackIs ==
  ASSUME NEW T, NEW a, NEW m, NEW f
  PROVE  /\ f \in TypedBack(T, a, m) =>
              f = [k \in a .. m |-> f[k]] /\ \A k \in a .. m : f[k] \in T[k]
         /\ f = [k \in a .. m |-> f[k]] /\ (\A k \in a .. m : f[k] \in T[k]) =>
              f \in TypedBack(T, a, m)
<1>1. CASE f \in TypedBack(T, a, m)
  BY <1>1 DEF TypedBack
<1>2. ASSUME f = [k \in a .. m |-> f[k]], \A k \in a .. m : f[k] \in T[k]
      PROVE  f \in TypedBack(T, a, m)
  <2>1. \A k \in a .. m : f[k] \in UNION { T[i] : i \in a .. m }
    BY <1>2
  <2>2. f \in [a .. m -> UNION { T[i] : i \in a .. m }]
    BY <1>2, <2>1
  <2>3. QED
    BY <1>2, <2>2 DEF TypedBack
<1>3. QED
  BY <1>1, <1>2

StepsBackTo(T, a, m, step) ==
  { n \in Nat : n <= m + 1 - a => \E f : StepsBack(f, T, m + 1 - n, m, step) }

LEMMA StepsBackGrow ==
  ASSUME NEW T, NEW a, NEW m, NEW step, CanStepBack(T, a, m, step),
         NEW n \in Nat, n \in StepsBackTo(T, a, m, step), n + 1 <= m + 1 - a
  PROVE  \E f : StepsBack(f, T, m + 1 - (n + 1), m, step)
<1>1. a \in Nat /\ m \in Nat
  BY DEF CanStepBack
<1>2. PICK b \in Nat : b = m + 1 - (n + 1) /\ b + 1 = m + 1 - n /\ b \in a .. m
  BY <1>1
<1>3. PICK f : StepsBack(f, T, b + 1, m, step)
  BY <1>1, <1>2 DEF StepsBackTo
<1>4. PICK first : first = step[<<b, f>>]
  OBVIOUS
<1>5. first \in T[b]
  BY <1>2, <1>3, <1>4 DEF CanStepBack, StepsBack
<1>6. PICK g : g = [k \in b .. m |-> IF k = b THEN first ELSE f[k]]
  OBVIOUS
<1>7. \A k \in b .. m : k = b \/ k \in (b + 1) .. m
  BY <1>1, <1>2
<1>8. \A k \in (b + 1) .. m : k \in b .. m /\ k # b
  BY <1>1, <1>2
<1>9. b \in b .. m
  BY <1>1, <1>2
<1>10. g[b] = first /\ \A k \in (b + 1) .. m : g[k] = f[k]
  BY <1>6, <1>8, <1>9
<1>11. f \in TypedBack(T, b + 1, m) /\ \A k \in (b + 1) .. m : f[k] \in T[k]
  BY <1>3, TypedBackIs DEF StepsBack
<1>12. g \in TypedBack(T, b, m)
  <2>1. g = [k \in b .. m |-> g[k]]
    BY <1>6
  <2>2. \A k \in b .. m : g[k] \in T[k]
    BY <1>5, <1>7, <1>10, <1>11
  <2>3. QED
    BY <2>1, <2>2, TypedBackIs
<1>13. ASSUME NEW i \in b .. m
       PROVE  \E h \in TypedBack(T, i + 1, m) :
                g[i] = step[<<i, h>>] /\ \A k \in (i + 1) .. m : h[k] = g[k]
  <2>1. CASE i = b
    BY <1>4, <1>10, <1>11, <2>1
  <2>2. CASE i # b
    <3>1. i \in (b + 1) .. m
      BY <1>7, <2>2
    <3>2. PICK h \in TypedBack(T, i + 1, m) :
            f[i] = step[<<i, h>>] /\ \A k \in (i + 1) .. m : h[k] = f[k]
      BY <1>3, <3>1 DEF StepsBack
    <3>3. \A k \in (i + 1) .. m : k \in (b + 1) .. m
      BY <1>1, <1>2, <3>1
    <3>4. QED
      BY <1>10, <3>1, <3>2, <3>3
  <2>3. QED
    BY <2>1, <2>2
<1>14. StepsBack(g, T, b, m, step)
  BY <1>12, <1>13 DEF StepsBack
<1>15. QED
  BY <1>2, <1>14

LEMMA StepsBackExist ==
  ASSUME NEW T, NEW a, NEW m, NEW step, CanStepBack(T, a, m, step), a <= m + 1
  PROVE  \E f : StepsBack(f, T, a, m, step)
<1>1. a \in Nat /\ m \in Nat
  BY DEF CanStepBack
<1>2. 0 \in StepsBackTo(T, a, m, step)
  <2>1. PICK b \in Nat : b = m + 1 - 0 /\ b .. m = {}
    BY <1>1
  <2>2. PICK f : f = [k \in b .. m |-> 0]
    OBVIOUS
  <2>3. f = [k \in b .. m |-> f[k]] /\ \A k \in b .. m : f[k] \in T[k]
    BY <2>1, <2>2
  <2>4. f \in TypedBack(T, b, m)
    BY <2>3, TypedBackIs
  <2>5. StepsBack(f, T, b, m, step)
    BY <2>1, <2>4 DEF StepsBack
  <2>6. QED
    BY <2>1, <2>5 DEF StepsBackTo
<1>3. \A n \in Nat : n \in StepsBackTo(T, a, m, step) => n + 1 \in StepsBackTo(T, a, m, step)
  BY StepsBackGrow DEF StepsBackTo
<1>4. Nat \subseteq StepsBackTo(T, a, m, step)
  BY <1>2, <1>3, SetInduction
<1>5. PICK n \in Nat : n = m + 1 - a /\ m + 1 - n = a
  BY <1>1
<1>6. n \in StepsBackTo(T, a, m, step)
  BY <1>4
<1>7. QED
  BY <1>5, <1>6 DEF StepsBackTo

BackAlike(f, g, a, m) ==
  /\ a \in Nat /\ m \in Nat
  /\ \A i \in a .. m : (\A k \in (i + 1) .. m : f[k] = g[k]) => f[i] = g[i]

AlikeBackTo(f, g, a, m) == { n \in Nat : \A k \in a .. m : k > m - n => f[k] = g[k] }

LEMMA SameStepsBack ==
  ASSUME NEW f, NEW g, NEW a, NEW m, BackAlike(f, g, a, m)
  PROVE  \A k \in a .. m : f[k] = g[k]
<1>1. a \in Nat /\ m \in Nat
  BY DEF BackAlike
<1>2. 0 \in AlikeBackTo(f, g, a, m)
  BY <1>1 DEF AlikeBackTo
<1>3. ASSUME NEW n \in Nat, n \in AlikeBackTo(f, g, a, m)
      PROVE  n + 1 \in AlikeBackTo(f, g, a, m)
  <2>1. ASSUME NEW k \in a .. m, k > m - (n + 1) PROVE f[k] = g[k]
    <3>1. \A j \in (k + 1) .. m : j \in a .. m /\ j > m - n
      BY <1>1, <2>1
    <3>2. \A j \in (k + 1) .. m : f[j] = g[j]
      BY <1>3, <3>1 DEF AlikeBackTo
    <3>3. QED
      BY <3>2 DEF BackAlike
  <2>2. QED
    BY <2>1 DEF AlikeBackTo
<1>4. Nat \subseteq AlikeBackTo(f, g, a, m)
  BY <1>2, <1>3, SetInduction
<1>5. m + 1 \in AlikeBackTo(f, g, a, m)
  BY <1>1, <1>4
<1>6. QED
  BY <1>1, <1>5 DEF AlikeBackTo


-----------------------------------------------------------------------------
(***************************************************************************)
(* Words, as the loop finds them                                           *)
(***************************************************************************)

Understandable == Understood(InString(Words)) /\ CommentsApart(Words, InString(Words))

\* The line of position i.
LineOf(i) ==
  1 + Cardinality({ j \in 1 .. (i - 1) : text[j] = Newline /\ j \notin InString(Words) })

\* The first d words end in front of i.
EndBefore(d, i) == \A n \in 1 .. d : Words[n][2] < i

\* The words behind the first d are those from i on.
Rest(d, i) ==
  /\ EndBefore(d, i)
  /\ i \in 1 .. TextEnd + 1
  /\ Len(Words) = d + Len(WordsFrom[i])
  /\ \A n \in 1 .. Len(WordsFrom[i]) : Words[d + n] = WordsFrom[i][n]

\* Word d + 1 is from s to e.
IsWord(d, s, e) ==
  /\ s \in 1 .. TextEnd /\ e \in s .. TextEnd /\ e = WordEnd[s]
  /\ d + 1 <= Len(Words) /\ Words[d + 1] = <<s, e>>
  /\ Rest(d + 1, e + 1)

\* Between words at p: the word so far, w, is empty, and the line is l.
BetweenAt(d, p, w, l) == w = <<>> /\ l = LineOf(p) /\ Rest(d, p)

CommentAt(d, p, w, l) ==
  /\ w = <<>> /\ l = LineOf(p) /\ EndBefore(d, p)
  /\ p > TextEnd => Rest(d, p)
  /\ p <= TextEnd => \E j \in 1 .. TextEnd + 1 : j = LineEnd(p) + 1 /\ Rest(d, j)

\* In a word from s to e, with p behind s.
InWordAt(d, s, e, p, w, l) ==
  /\ IsWord(d, s, e) /\ s < p /\ p <= e + 1
  /\ w # <<>> /\ w = Contents(s, p - 1) /\ l = LineOf(s) /\ l = LineOf(p)

PlainAt(d, s, e, p, w, l) ==
  /\ InWordAt(d, s, e, p, w, l)
  /\ \A q \in s .. (p - 1) : text[q] # Quote
  /\ text[p - 1] # Backslash
  /\ e = WordEnd[p - 1]

\* In the string that starts at q.
InQuotes(d, s, e, q, p, w, l) ==
  /\ InWordAt(d, s, e, p, w, l)
  /\ q \in s .. (p - 1) /\ text[q] = Quote /\ \A k \in s .. (q - 1) : text[k] # Quote

QuotedAt(d, s, e, q, p, w, l) ==
  InQuotes(d, s, e, q, p, w, l) /\ text[p - 1] # Backslash /\ e = StringEnd[p]

\* Behind a backslash.
EscapingAt(d, s, e, q, p, w, l) ==
  InQuotes(d, s, e, q, p, w, l) /\ text[p - 1] = Backslash /\ e = StringEnd[p + 1]

\* The first words of the text are tokens.
AreWords(t) ==
  /\ Len(t) <= Len(Words)
  /\ \A n \in 1 .. Len(t) : \E s, e \in 1 .. TextEnd :
       Words[n] = <<s, e>> /\ t[n] = OnLine(Parse(Contents(s, e)), LineOf(s))

\* Where the loop is, with the tokens t, at p, in the word w and on line l.
Reading(t, p, w, l) ==
  \/ /\ ~begin_quotes /\ ~begin_comment /\ ~begin_escape
     /\ BetweenAt(Len(t), p, w, l)
  \/ /\ ~begin_quotes /\ begin_comment /\ ~begin_escape
     /\ CommentAt(Len(t), p, w, l)
  \/ /\ ~begin_quotes /\ ~begin_comment /\ ~begin_escape
     /\ \E s, e \in 1 .. TextEnd : PlainAt(Len(t), s, e, p, w, l)
  \/ /\ begin_quotes /\ ~begin_comment /\ ~begin_escape
     /\ \E s, e, q \in 1 .. TextEnd : QuotedAt(Len(t), s, e, q, p, w, l)
  \/ /\ begin_quotes /\ ~begin_comment /\ begin_escape
     /\ \E s, e, q \in 1 .. TextEnd : EscapingAt(Len(t), s, e, q, p, w, l)

WordsInv ==
  Understandable =>
    \/ phase = "threw"
    \/ /\ phase = "splitting"
       /\ \E t \in {tokens}, p \in {pos}, w \in {word}, l \in {line} :
            AreWords(t) /\ Reading(t, p, w, l)
    \/ phase = "split" /\ \E t \in {tokens} : AreWords(t) /\ Len(t) = Len(Words)

-----------------------------------------------------------------------------
(***************************************************************************)
(* Ends of strings, words and lines                                        *)
(***************************************************************************)

StringEndAt(f, i) ==
  IF i > TextEnd THEN TextEnd
  ELSE IF text[i] = Backslash THEN f[i + 2]
  ELSE IF text[i] = Quote THEN i
  ELSE f[i + 1]

LEMMA StringEndIs ==
  ASSUME TextEnd \in Nat
  PROVE  \A i \in 1 .. TextEnd + 2 :
           /\ StringEnd[i] = StringEndAt(StringEnd, i)
           /\ StringEnd[i] \in 0 .. TextEnd /\ (i <= TextEnd => StringEnd[i] >= i)
           /\ i > TextEnd => StringEnd[i] = TextEnd
<1>1. PICK z \in Nat, m \in Nat : z = TextEnd /\ m = z + 2
  OBVIOUS
<1>2. PICK T : T = [i \in 1 .. m |-> { n \in 0 .. z : IF i <= z THEN n >= i ELSE n = z }]
  OBVIOUS
<1>3. PICK H : H = UNION { TypedBack(T, k + 1, m) : k \in 1 .. m }
  OBVIOUS
<1>4. PICK step : step = [x \in (1 .. m) \X H |-> StringEndAt(x[2], x[1])]
  OBVIOUS
<1>5. \A i \in 1 .. m : \A h \in TypedBack(T, i + 1, m) : step[<<i, h>>] = StringEndAt(h, i)
  <2> SUFFICES ASSUME NEW i \in 1 .. m, NEW h \in TypedBack(T, i + 1, m)
               PROVE  step[<<i, h>>] = StringEndAt(h, i)
    OBVIOUS
  <2>1. h \in H
    BY <1>3
  <2>2. QED
    BY <1>4, <2>1
<1>6. CanStepBack(T, 1, m, step)
  <2> SUFFICES ASSUME NEW i \in 1 .. m, NEW h \in TypedBack(T, i + 1, m)
               PROVE  StringEndAt(h, i) \in T[i]
    BY <1>5 DEF CanStepBack
  <2>1. \A k \in (i + 1) .. m : h[k] \in T[k]
    BY TypedBackIs
  <2>2. \A k \in (i + 1) .. m : h[k] \in 0 .. z /\ IF k <= z THEN h[k] >= k ELSE h[k] = z
    <3>1. \A k \in (i + 1) .. m : k \in 1 .. m
      BY <1>1
    <3>2. \A k \in 1 .. m : T[k] = { n \in 0 .. z : IF k <= z THEN n >= k ELSE n = z }
      BY <1>2
    <3>3. QED
      BY <2>1, <3>1, <3>2
  <2>3. CASE i > z
    <3>1. StringEndAt(h, i) = z
      BY <1>1, <2>3 DEF StringEndAt
    <3>2. QED
      BY <1>1, <1>2, <2>3, <3>1
  <2>4. CASE i <= z
    <3>1. i + 1 \in (i + 1) .. m /\ i + 2 \in (i + 1) .. m
      BY <1>1, <2>4
    <3>2. StringEndAt(h, i) \in {i, h[i + 1], h[i + 2]}
      BY <1>1, <2>4 DEF StringEndAt
    <3>3. h[i + 1] \in i .. z /\ h[i + 2] \in i .. z
      BY <1>1, <2>2, <2>4, <3>1
    <3>4. StringEndAt(h, i) \in i .. z
      BY <2>4, <3>2, <3>3
    <3>5. QED
      BY <1>1, <1>2, <2>4, <3>4
  <2>5. QED
    BY <1>1, <2>3, <2>4
<1>7. PICK g : StepsBack(g, T, 1, m, step)
  BY <1>1, <1>6, StepsBackExist
<1>8. g = [k \in 1 .. m |-> g[k]] /\ \A k \in 1 .. m : g[k] \in T[k]
  BY <1>7, TypedBackIs DEF StepsBack
<1>9. \A i \in 1 .. m : g[i] = StringEndAt(g, i)
  <2> SUFFICES ASSUME NEW i \in 1 .. m PROVE g[i] = StringEndAt(g, i)
    OBVIOUS
  <2>1. PICK h \in TypedBack(T, i + 1, m) :
          g[i] = step[<<i, h>>] /\ \A k \in (i + 1) .. m : h[k] = g[k]
    BY <1>7 DEF StepsBack
  <2>2. g[i] = StringEndAt(h, i)
    BY <1>5, <2>1
  <2>3. i <= TextEnd => h[i + 1] = g[i + 1] /\ h[i + 2] = g[i + 2]
    BY <1>1, <2>1
  <2>4. QED
    BY <1>1, <2>2, <2>3 DEF StringEndAt
<1> DEFINE f == StringEnd
<1>10. g = [i \in 1 .. TextEnd + 2 |-> StringEndAt(g, i)]
  BY <1>1, <1>8, <1>9
<1>11. f = [i \in 1 .. TextEnd + 2 |-> StringEndAt(f, i)]
  <2>1. g = [i \in 1 .. TextEnd + 2 |->
              IF i > TextEnd THEN TextEnd
              ELSE IF text[i] = Backslash THEN g[i + 2]
              ELSE IF text[i] = Quote THEN i
              ELSE g[i + 1]]
    BY <1>10 DEF StringEndAt
  <2>2. f = [i \in 1 .. TextEnd + 2 |->
              IF i > TextEnd THEN TextEnd
              ELSE IF text[i] = Backslash THEN f[i + 2]
              ELSE IF text[i] = Quote THEN i
              ELSE f[i + 1]]
    BY <2>1, Zenon DEF StringEnd
  <2>3. QED
    BY <2>2 DEF StringEndAt
<1> HIDE DEF f
<1>12. PICK v : v = f
  OBVIOUS
<1>13. \A i \in 1 .. m : v[i] = StringEndAt(v, i)
  BY <1>1, <1>11, <1>12
<1>14. BackAlike(v, g, 1, m)
  <2> SUFFICES ASSUME NEW i \in 1 .. m, \A k \in (i + 1) .. m : v[k] = g[k]
               PROVE  v[i] = g[i]
    BY <1>1 DEF BackAlike
  <2>1. i <= TextEnd => v[i + 1] = g[i + 1] /\ v[i + 2] = g[i + 2]
    BY <1>1
  <2>2. StringEndAt(v, i) = StringEndAt(g, i)
    BY <1>1, <2>1 DEF StringEndAt
  <2>3. QED
    BY <1>9, <1>13, <2>2
<1>15. \A i \in 1 .. m : v[i] = g[i]
  BY <1>14, SameStepsBack
<1>16. \A i \in 1 .. m : v[i] \in 0 .. z /\ IF i <= z THEN v[i] >= i ELSE v[i] = z
  BY <1>2, <1>8, <1>15
<1>17. \A i \in 1 .. m :
         /\ v[i] = StringEndAt(v, i)
         /\ v[i] \in 0 .. TextEnd /\ (i <= TextEnd => v[i] >= i)
         /\ i > TextEnd => v[i] = TextEnd
  BY <1>1, <1>13, <1>16
<1>18. QED
  BY <1>1, <1>12, <1>17 DEF f

Stops == Separators \cup Signs \cup {Semicolon}

WordEndAt(f, i) ==
  IF text[i] = Quote THEN StringEnd[i + 1]
  ELSE IF i = TextEnd \/ text[i + 1] \in Stops THEN i
  ELSE f[i + 1]

LEMMA WordEndIs ==
  ASSUME TextEnd \in Nat
  PROVE  \A i \in 1 .. TextEnd :
           WordEnd[i] = WordEndAt(WordEnd, i) /\ WordEnd[i] \in i .. TextEnd
<1>1. PICK m \in Nat : m = TextEnd
  OBVIOUS
<1>2. PICK T : T = [i \in 1 .. m |-> i .. m]
  OBVIOUS
<1>3. PICK H : H = UNION { TypedBack(T, k + 1, m) : k \in 1 .. m }
  OBVIOUS
<1>4. PICK step : step = [x \in (1 .. m) \X H |-> WordEndAt(x[2], x[1])]
  OBVIOUS
<1>5. \A i \in 1 .. m : \A h \in TypedBack(T, i + 1, m) : step[<<i, h>>] = WordEndAt(h, i)
  <2> SUFFICES ASSUME NEW i \in 1 .. m, NEW h \in TypedBack(T, i + 1, m)
               PROVE  step[<<i, h>>] = WordEndAt(h, i)
    OBVIOUS
  <2>1. h \in H
    BY <1>3
  <2>2. QED
    BY <1>4, <2>1
<1>6. CanStepBack(T, 1, m, step)
  <2> SUFFICES ASSUME NEW i \in 1 .. m, NEW h \in TypedBack(T, i + 1, m)
               PROVE  WordEndAt(h, i) \in i .. m
    BY <1>2, <1>5 DEF CanStepBack
  <2>1. \A k \in (i + 1) .. m : h[k] \in T[k]
    BY TypedBackIs
  <2>2. i < m => h[i + 1] \in i .. m
    <3>1. \A k \in 1 .. m : T[k] = k .. m
      BY <1>2
    <3>2. i < m => i + 1 \in 1 .. m /\ i + 1 \in (i + 1) .. m
      OBVIOUS
    <3>3. i < m => h[i + 1] \in (i + 1) .. m
      BY <2>1, <3>1, <3>2
    <3>4. QED
      BY <3>3
  <2>3. StringEnd[i + 1] \in i .. m
    BY <1>1, StringEndIs
  <2>4. QED
    BY <1>1, <2>2, <2>3 DEF WordEndAt
<1>7. PICK g : StepsBack(g, T, 1, m, step)
  BY <1>1, <1>6, StepsBackExist
<1>8. g = [k \in 1 .. m |-> g[k]] /\ \A k \in 1 .. m : g[k] \in T[k]
  BY <1>7, TypedBackIs DEF StepsBack
<1>9. \A i \in 1 .. m : g[i] = WordEndAt(g, i)
  <2> SUFFICES ASSUME NEW i \in 1 .. m PROVE g[i] = WordEndAt(g, i)
    OBVIOUS
  <2>1. PICK h \in TypedBack(T, i + 1, m) :
          g[i] = step[<<i, h>>] /\ \A k \in (i + 1) .. m : h[k] = g[k]
    BY <1>7 DEF StepsBack
  <2>2. g[i] = WordEndAt(h, i)
    BY <1>5, <2>1
  <2>3. i < m => h[i + 1] = g[i + 1]
    BY <2>1
  <2>4. QED
    BY <1>1, <2>2, <2>3 DEF WordEndAt
<1> DEFINE f == WordEnd
<1>10. g = [i \in 1 .. TextEnd |-> WordEndAt(g, i)]
  BY <1>1, <1>8, <1>9
<1>11. f = [i \in 1 .. TextEnd |-> WordEndAt(f, i)]
  <2>1. g = [i \in 1 .. TextEnd |->
              IF text[i] = Quote THEN StringEnd[i + 1]
              ELSE IF i = TextEnd \/ text[i + 1] \in Separators \cup Signs \cup {Semicolon} THEN i
              ELSE g[i + 1]]
    BY <1>10 DEF WordEndAt, Stops
  <2>2. f = [i \in 1 .. TextEnd |->
              IF text[i] = Quote THEN StringEnd[i + 1]
              ELSE IF i = TextEnd \/ text[i + 1] \in Separators \cup Signs \cup {Semicolon} THEN i
              ELSE f[i + 1]]
    BY <2>1, Zenon DEF WordEnd
  <2>3. QED
    BY <2>2 DEF WordEndAt, Stops
<1> HIDE DEF f
<1>12. PICK v : v = f
  OBVIOUS
<1>13. \A i \in 1 .. m : v[i] = WordEndAt(v, i)
  BY <1>1, <1>11, <1>12
<1>14. BackAlike(v, g, 1, m)
  <2> SUFFICES ASSUME NEW i \in 1 .. m, \A k \in (i + 1) .. m : v[k] = g[k]
               PROVE  v[i] = g[i]
    BY <1>1 DEF BackAlike
  <2>1. i < m => v[i + 1] = g[i + 1]
    OBVIOUS
  <2>2. WordEndAt(v, i) = WordEndAt(g, i)
    BY <1>1, <2>1 DEF WordEndAt
  <2>3. QED
    BY <1>9, <1>13, <2>2
<1>15. \A i \in 1 .. m : v[i] = g[i]
  BY <1>14, SameStepsBack
<1>16. \A i \in 1 .. m : v[i] = WordEndAt(v, i) /\ v[i] \in i .. m
  BY <1>2, <1>8, <1>13, <1>15
<1>17. QED
  BY <1>1, <1>12, <1>16 DEF f

IsLineEnd(i, j) ==
  /\ j \in i .. TextEnd
  /\ j = TextEnd \/ text[j] = Newline
  /\ \A k \in i .. j : text[k] = Newline => k = j

\* The first n positions from i on have no line end, or there is one.
LineEndsTo(i) ==
  { n \in Nat : \/ \A k \in i .. TextEnd : k < i + n => text[k] # Newline
                \/ \E j \in i .. TextEnd : IsLineEnd(i, j) }

LEMMA LineEndIs ==
  ASSUME TextEnd \in Nat, NEW i \in Nat, i <= TextEnd
  PROVE  IsLineEnd(i, LineEnd(i))
<1>1. PICK m \in Nat : m = TextEnd
  OBVIOUS
<1>2. PICK S : S = LineEndsTo(i)
  OBVIOUS
<1>3. 0 \in S
  <2>1. \A k \in i .. TextEnd : ~(k < i + 0)
    OBVIOUS
  <2>2. QED
    BY <1>2, <2>1 DEF LineEndsTo
<1>4. ASSUME NEW n \in Nat, n \in S PROVE n + 1 \in S
  <2> SUFFICES ASSUME ~\E j \in i .. TextEnd : IsLineEnd(i, j),
                      NEW k \in i .. m, k < i + (n + 1)
               PROVE  text[k] # Newline
    BY <1>1, <1>2 DEF LineEndsTo
  <2>1. \A j \in i .. m : j < i + n => text[j] # Newline
    BY <1>1, <1>2, <1>4 DEF LineEndsTo
  <2>2. \A j \in i .. k : j < i + n \/ j = k
    OBVIOUS
  <2>3. \A j \in i .. k : j \in i .. m
    OBVIOUS
  <2>4. text[k] = Newline => IsLineEnd(i, k)
    BY <1>1, <2>1, <2>2, <2>3 DEF IsLineEnd
  <2>5. QED
    BY <1>1, <2>4
<1>5. Nat \subseteq S
  BY <1>3, <1>4, SetInduction
<1>6. \E j \in i .. TextEnd : IsLineEnd(i, j)
  <2>1. m + 1 \in S
    BY <1>5
  <2>2. CASE \A k \in i .. m : k < i + (m + 1) => text[k] # Newline
    <3>1. \A k \in i .. m : text[k] # Newline
      BY <2>2
    <3>2. IsLineEnd(i, m)
      BY <1>1, <3>1 DEF IsLineEnd
    <3>3. QED
      BY <1>1, <3>2
  <2>3. QED
    BY <1>1, <1>2, <2>1, <2>2 DEF LineEndsTo
<1>7. QED
  <2>1. PICK j \in i .. TextEnd :
          /\ j = TextEnd \/ text[j] = Newline
          /\ \A k \in i .. j : text[k] = Newline => k = j
    BY <1>6 DEF IsLineEnd
  <2>2. /\ LineEnd(i) \in i .. TextEnd
        /\ LineEnd(i) = TextEnd \/ text[LineEnd(i)] = Newline
        /\ \A k \in i .. LineEnd(i) : text[k] = Newline => k = LineEnd(i)
    BY <2>1, Zenon DEF LineEnd
  <2>3. QED
    BY <2>2 DEF IsLineEnd

\* Spans of words from i on, each in front of the next.
OrderedFrom(i) ==
  { w \in Seq((1 .. TextEnd) \X (1 .. TextEnd)) :
      \A n \in 1 .. Len(w) :
        /\ w[n][1] >= i /\ w[n][2] = WordEnd[w[n][1]]
        /\ \A k \in 1 .. (n - 1) : w[k][2] < w[n][1] }

LEMMA OneMore ==
  ASSUME TextEnd \in Nat, NEW i \in 1 .. TextEnd, NEW w, w \in OrderedFrom(WordEnd[i] + 1)
  PROVE  /\ <<<<i, WordEnd[i]>>>> \o w \in OrderedFrom(i)
         /\ Len(<<<<i, WordEnd[i]>>>> \o w) = Len(w) + 1
         /\ (<<<<i, WordEnd[i]>>>> \o w)[1] = <<i, WordEnd[i]>>
         /\ \A n \in 1 .. Len(w) : (<<<<i, WordEnd[i]>>>> \o w)[n + 1] = w[n]
<1>1. PICK z \in Nat : z = TextEnd
  OBVIOUS
<1>2. PICK e \in i .. z : e = WordEnd[i]
  BY <1>1, WordEndIs
<1>3. PICK D : D = (1 .. z) \X (1 .. z)
  OBVIOUS
<1>4. w \in Seq(D)
  BY <1>1, <1>3 DEF OrderedFrom
<1>5. PICK span : span = <<i, e>> /\ span \in D /\ span[1] = i /\ span[2] = e
  <2>1. <<i, e>> \in D /\ <<i, e>>[1] = i /\ <<i, e>>[2] = e
    BY <1>1, <1>3
  <2>2. QED
    BY <2>1
<1>6. PICK l \in Nat : l = Len(w)
  BY <1>4
<1>7. PICK v : v = <<span>> \o w
  OBVIOUS
<1>8. /\ v \in Seq(D) /\ Len(v) = l + 1 /\ v[1] = span
      /\ \A n \in 1 .. l : v[n + 1] = w[n]
  BY <1>4, <1>5, <1>6, <1>7
<1>9. \A n \in 1 .. l : /\ w[n][1] > e /\ w[n][2] = WordEnd[w[n][1]] /\ w[n] \in D
                        /\ \A k \in 1 .. (n - 1) : w[k][2] < w[n][1]
  <2> SUFFICES ASSUME NEW n \in 1 .. l
               PROVE  /\ w[n][1] > e /\ w[n][2] = WordEnd[w[n][1]] /\ w[n] \in D
                      /\ \A k \in 1 .. (n - 1) : w[k][2] < w[n][1]
    OBVIOUS
  <2>1. w[n] \in D
    BY <1>4, <1>6
  <2>2. w[n][1] \in 1 .. z
    BY <1>3, <2>1
  <2>3. w[n][1] >= e + 1 /\ w[n][2] = WordEnd[w[n][1]] /\ \A k \in 1 .. (n - 1) : w[k][2] < w[n][1]
    BY <1>2, <1>6 DEF OrderedFrom
  <2>4. QED
    BY <2>1, <2>2, <2>3
<1>10. ASSUME NEW n \in 1 .. (l + 1)
       PROVE  /\ v[n][1] >= i /\ v[n][2] = WordEnd[v[n][1]]
              /\ \A k \in 1 .. (n - 1) : v[k][2] < v[n][1]
  <2>1. CASE n = 1
    BY <1>2, <1>5, <1>8, <2>1
  <2>2. CASE n # 1
    <3>1. PICK a \in 1 .. l : n = a + 1
      <4>1. n - 1 \in 1 .. l /\ n = (n - 1) + 1
        BY <2>2
      <4>2. QED
        BY <4>1
    <3>2. v[n] = w[a] /\ w[a][1] \in Nat
      BY <1>3, <1>8, <1>9, <3>1
    <3>3. ASSUME NEW k \in 1 .. (n - 1) PROVE v[k][2] < v[n][1]
      <4>1. CASE k = 1
        BY <1>5, <1>8, <1>9, <3>2, <4>1
      <4>2. CASE k # 1
        <5>1. k - 1 \in 1 .. (a - 1) /\ k - 1 \in 1 .. l /\ k = (k - 1) + 1
          BY <3>1, <4>2
        <5>2. v[k] = w[k - 1]
          BY <1>8, <5>1
        <5>3. w[k - 1][2] < w[a][1]
          BY <1>9, <5>1
        <5>4. QED
          BY <3>2, <5>2, <5>3
      <4>3. QED
        BY <4>1, <4>2
    <3>4. QED
      BY <1>2, <1>9, <3>2, <3>3
  <2>3. QED
    BY <2>1, <2>2
<1>11. v \in OrderedFrom(i)
  BY <1>1, <1>3, <1>8, <1>10 DEF OrderedFrom
<1>12. QED
  BY <1>2, <1>5, <1>6, <1>7, <1>8, <1>11

WordThen(i, w) == <<<<i, WordEnd[i]>>>> \o w

WordsAt(f, i) ==
  IF i > TextEnd THEN <<>>
  ELSE IF text[i] \in Separators THEN f[i + 1]
  ELSE IF text[i] = Semicolon THEN f[LineEnd(i) + 1]
  ELSE WordThen(i, f[WordEnd[i] + 1])

LEMMA WordsAtIs ==
  ASSUME NEW f, NEW i
  PROVE  /\ i > TextEnd => WordsAt(f, i) = <<>>
         /\ ~(i > TextEnd) => WordsAt(f, i) \in
              {f[i + 1], f[LineEnd(i) + 1], WordThen(i, f[WordEnd[i] + 1])}
BY Zenon DEF WordsAt

LEMMA WordsAlike ==
  ASSUME NEW f, NEW g, NEW i,
         ~(i > TextEnd) => /\ f[i + 1] = g[i + 1] /\ f[LineEnd(i) + 1] = g[LineEnd(i) + 1]
                           /\ f[WordEnd[i] + 1] = g[WordEnd[i] + 1]
  PROVE  WordsAt(f, i) = WordsAt(g, i)
BY Zenon DEF WordsAt

LEMMA Later ==
  ASSUME TextEnd \in Nat, NEW i \in Nat, NEW j \in Nat, i <= j, NEW w, w \in OrderedFrom(j)
  PROVE  w \in OrderedFrom(i)
<1>1. ASSUME NEW n \in 1 .. Len(w), w[n][1] >= j PROVE w[n][1] >= i
  <2>1. w[n] \in (1 .. TextEnd) \X (1 .. TextEnd)
    BY DEF OrderedFrom
  <2>2. w[n][1] \in Nat
    BY <2>1
  <2>3. QED
    BY <1>1, <2>2
<1>2. QED
  BY <1>1 DEF OrderedFrom

LEMMA WordsFromIs ==
  ASSUME TextEnd \in Nat
  PROVE  \A i \in 1 .. TextEnd + 1 :
           WordsFrom[i] = WordsAt(WordsFrom, i) /\ WordsFrom[i] \in OrderedFrom(i)
<1>1. PICK z \in Nat, m \in Nat : z = TextEnd /\ m = z + 1
  OBVIOUS
<1>2. PICK T : T = [i \in 1 .. m |-> OrderedFrom(i)]
  OBVIOUS
<1>3. PICK H : H = UNION { TypedBack(T, k + 1, m) : k \in 1 .. m }
  OBVIOUS
<1>4. PICK step : step = [x \in (1 .. m) \X H |-> WordsAt(x[2], x[1])]
  OBVIOUS
<1>5. \A i \in 1 .. m : \A h \in TypedBack(T, i + 1, m) : step[<<i, h>>] = WordsAt(h, i)
  <2> SUFFICES ASSUME NEW i \in 1 .. m, NEW h \in TypedBack(T, i + 1, m)
               PROVE  step[<<i, h>>] = WordsAt(h, i)
    OBVIOUS
  <2>1. h \in H
    BY <1>3
  <2>2. QED
    BY <1>4, <2>1
<1>l. \A i \in 1 .. z : LineEnd(i) + 1 \in (i + 1) .. m /\ WordEnd[i] + 1 \in (i + 1) .. m
  <2> SUFFICES ASSUME NEW i \in 1 .. z
               PROVE  LineEnd(i) + 1 \in (i + 1) .. m /\ WordEnd[i] + 1 \in (i + 1) .. m
    OBVIOUS
  <2>1. LineEnd(i) \in i .. z
    BY <1>1, LineEndIs DEF IsLineEnd
  <2>2. WordEnd[i] \in i .. z
    BY <1>1, WordEndIs
  <2>3. QED
    BY <1>1, <2>1, <2>2
<1>6. CanStepBack(T, 1, m, step)
  <2> SUFFICES ASSUME NEW i \in 1 .. m, NEW h \in TypedBack(T, i + 1, m)
               PROVE  WordsAt(h, i) \in OrderedFrom(i)
    BY <1>2, <1>5 DEF CanStepBack
  <2>1. \A k \in (i + 1) .. m : h[k] \in OrderedFrom(k)
    <3>1. \A k \in (i + 1) .. m : h[k] \in T[k]
      BY TypedBackIs
    <3>2. \A k \in (i + 1) .. m : k \in 1 .. m
      OBVIOUS
    <3>3. QED
      BY <1>2, <3>1, <3>2
  <2>2. CASE i > z
    <3>1. <<>> \in Seq((1 .. TextEnd) \X (1 .. TextEnd))
      OBVIOUS
    <3>2. <<>> \in OrderedFrom(i)
      BY <3>1 DEF OrderedFrom
    <3>3. QED
      BY <1>1, <2>2, <3>2 DEF WordsAt
  <2>3. CASE i <= z
    <3>1. PICK j \in (i + 1) .. m, e \in (i + 1) .. m : j = LineEnd(i) + 1 /\ e = WordEnd[i] + 1
      BY <1>l, <2>3
    <3>2. /\ h[j] \in OrderedFrom(i)
          /\ h[i + 1] \in OrderedFrom(i)
      <4>1. i + 1 \in (i + 1) .. m
        BY <1>1, <2>3
      <4>2. QED
        BY <1>1, <2>1, <3>1, <4>1, Later
    <3>3. WordThen(i, h[e]) \in OrderedFrom(i)
      <4>1. PICK w : w = h[e] /\ w \in OrderedFrom(WordEnd[i] + 1)
        BY <2>1, <3>1
      <4>2. i \in 1 .. TextEnd
        BY <1>1, <2>3
      <4>3. QED
        BY <1>1, <4>1, <4>2, OneMore DEF WordThen
    <3>4. QED
      <4>1. ~(i > TextEnd)
        BY <1>1, <2>3
      <4>2. WordsAt(h, i) \in {h[i + 1], h[LineEnd(i) + 1], WordThen(i, h[WordEnd[i] + 1])}
        BY <4>1, WordsAtIs, Zenon
      <4>3. QED
        BY <3>1, <3>2, <3>3, <4>2
  <2>4. QED
    BY <1>1, <2>2, <2>3
<1>7. PICK g : StepsBack(g, T, 1, m, step)
  BY <1>1, <1>6, StepsBackExist
<1>8. g = [k \in 1 .. m |-> g[k]] /\ \A k \in 1 .. m : g[k] \in T[k]
  BY <1>7, TypedBackIs DEF StepsBack
<1>b. \A i \in 1 .. z : i + 1 \in (i + 1) .. m
  BY <1>1
<1>9. \A i \in 1 .. m : g[i] = WordsAt(g, i)
  <2> SUFFICES ASSUME NEW i \in 1 .. m PROVE g[i] = WordsAt(g, i)
    OBVIOUS
  <2>1. PICK h \in TypedBack(T, i + 1, m) :
          g[i] = step[<<i, h>>] /\ \A k \in (i + 1) .. m : h[k] = g[k]
    BY <1>7 DEF StepsBack
  <2>2. g[i] = WordsAt(h, i)
    BY <1>5, <2>1
  <2>3. ~(i > TextEnd) => /\ h[i + 1] = g[i + 1] /\ h[LineEnd(i) + 1] = g[LineEnd(i) + 1]
                          /\ h[WordEnd[i] + 1] = g[WordEnd[i] + 1]
    BY <1>1, <1>b, <1>l, <2>1
  <2>4. QED
    BY <2>2, <2>3, WordsAlike, Zenon
<1> DEFINE f == WordsFrom
<1>10. g = [i \in 1 .. TextEnd + 1 |-> WordsAt(g, i)]
  BY <1>1, <1>8, <1>9
<1>11. f = [i \in 1 .. TextEnd + 1 |-> WordsAt(f, i)]
  <2>1. g = [i \in 1 .. TextEnd + 1 |->
              IF i > TextEnd THEN <<>>
              ELSE IF text[i] \in Separators THEN g[i + 1]
              ELSE IF text[i] = Semicolon THEN g[LineEnd(i) + 1]
              ELSE <<<<i, WordEnd[i]>>>> \o g[WordEnd[i] + 1]]
    BY <1>10 DEF WordsAt, WordThen
  <2>2. f = [i \in 1 .. TextEnd + 1 |->
              IF i > TextEnd THEN <<>>
              ELSE IF text[i] \in Separators THEN f[i + 1]
              ELSE IF text[i] = Semicolon THEN f[LineEnd(i) + 1]
              ELSE <<<<i, WordEnd[i]>>>> \o f[WordEnd[i] + 1]]
    BY <2>1, Zenon DEF WordsFrom
  <2>3. QED
    BY <2>2 DEF WordsAt, WordThen
<1> HIDE DEF f
<1>12. PICK v : v = f
  OBVIOUS
<1>13. \A i \in 1 .. m : v[i] = WordsAt(v, i)
  BY <1>1, <1>11, <1>12
<1>14. BackAlike(v, g, 1, m)
  <2> SUFFICES ASSUME NEW i \in 1 .. m, \A k \in (i + 1) .. m : v[k] = g[k]
               PROVE  v[i] = g[i]
    BY <1>1 DEF BackAlike
  <2>1. ~(i > TextEnd) => /\ v[i + 1] = g[i + 1] /\ v[LineEnd(i) + 1] = g[LineEnd(i) + 1]
                          /\ v[WordEnd[i] + 1] = g[WordEnd[i] + 1]
    BY <1>1, <1>b, <1>l
  <2>2. WordsAt(v, i) = WordsAt(g, i)
    BY <2>1, WordsAlike, Zenon
  <2>3. QED
    BY <1>9, <1>13, <2>2
<1>15. \A i \in 1 .. m : v[i] = g[i]
  BY <1>14, SameStepsBack
<1>16. \A i \in 1 .. m : v[i] = WordsAt(v, i) /\ v[i] \in OrderedFrom(i)
  BY <1>2, <1>8, <1>13, <1>15
<1>17. QED
  BY <1>1, <1>12, <1>16 DEF f

-----------------------------------------------------------------------------
(***************************************************************************)
(* The contents of a word, character by character                          *)
(***************************************************************************)

TextTyped == text \in Seq(Characters)

LEMMA TextIs ==
  ASSUME TextTyped
  PROVE  /\ TextEnd \in Nat
         /\ \A i \in 1 .. TextEnd : text[i] \in Chars /\ EscapeCharacter(text[i]) \in Chars
<1>1. \A i \in 1 .. TextEnd : text[i] \in Characters
  BY DEF TextTyped, TextEnd
<1>2. TextEnd \in Nat
  BY DEF TextTyped, TextEnd
<1>3. QED
  BY <1>1, <1>2 DEF Chars

CharThen(c, w) == <<c>> \o w

LEMMA CharThenTyped ==
  ASSUME NEW c \in Chars, NEW w \in Seq(Chars)
  PROVE  CharThen(c, w) \in Seq(Chars)
BY DEF CharThen

ContentAt(f, k, j) ==
  IF k > j THEN <<>>
  ELSE IF text[k] # Backslash THEN CharThen(text[k], f[k + 1])
  ELSE IF k = j THEN <<>>
  ELSE CharThen(EscapeCharacter(text[k + 1]), f[k + 2])

LEMMA ContentAtIs ==
  ASSUME NEW f, NEW k, NEW j
  PROVE  /\ k > j => ContentAt(f, k, j) = <<>>
         /\ ~(k > j) /\ text[k] # Backslash => ContentAt(f, k, j) = CharThen(text[k], f[k + 1])
         /\ ~(k > j) /\ text[k] = Backslash /\ k = j => ContentAt(f, k, j) = <<>>
         /\ ~(k > j) /\ text[k] = Backslash /\ k # j =>
              ContentAt(f, k, j) = CharThen(EscapeCharacter(text[k + 1]), f[k + 2])
BY Zenon DEF ContentAt

LEMMA ContentAlike ==
  ASSUME NEW f, NEW g, NEW k, NEW j,
         ~(k > j) => f[k + 1] = g[k + 1] /\ f[k + 2] = g[k + 2]
  PROVE  ContentAt(f, k, j) = ContentAt(g, k, j)
BY Zenon DEF ContentAt

IsContents(f, i, j) ==
  /\ \A k \in i .. j + 2 : f[k] = ContentAt(f, k, j) /\ f[k] \in Seq(Chars)
  /\ Contents(i, j) = f[i]

LEMMA ContentsIs ==
  ASSUME TextTyped, NEW i \in Nat \ {0}, NEW j \in Nat, i <= j + 1, j <= TextEnd
  PROVE  \E f : IsContents(f, i, j)
<1>1. PICK m \in Nat : m = j + 2
  OBVIOUS
<1>2. PICK T : T = [k \in i .. m |-> Seq(Chars)]
  OBVIOUS
<1>3. PICK H : H = UNION { TypedBack(T, k + 1, m) : k \in i .. m }
  OBVIOUS
<1>4. PICK step : step = [x \in (i .. m) \X H |-> ContentAt(x[2], x[1], j)]
  OBVIOUS
<1>5. \A k \in i .. m : \A h \in TypedBack(T, k + 1, m) : step[<<k, h>>] = ContentAt(h, k, j)
  <2> SUFFICES ASSUME NEW k \in i .. m, NEW h \in TypedBack(T, k + 1, m)
               PROVE  step[<<k, h>>] = ContentAt(h, k, j)
    OBVIOUS
  <2>1. h \in H
    BY <1>3
  <2>2. QED
    BY <1>4, <2>1
<1>6. \A k \in i .. m : ~(k > j) => k + 1 \in (k + 1) .. m /\ k + 2 \in (k + 1) .. m
  BY <1>1
<1>7. CanStepBack(T, i, m, step)
  <2> SUFFICES ASSUME NEW k \in i .. m, NEW h \in TypedBack(T, k + 1, m)
               PROVE  ContentAt(h, k, j) \in Seq(Chars)
    BY <1>2, <1>5 DEF CanStepBack
  <2>1. \A n \in (k + 1) .. m : h[n] \in Seq(Chars)
    <3>1. \A n \in (k + 1) .. m : h[n] \in T[n]
      BY TypedBackIs
    <3>2. \A n \in (k + 1) .. m : n \in i .. m
      OBVIOUS
    <3>3. QED
      BY <1>2, <3>1, <3>2
  <2>2. <<>> \in Seq(Chars)
    OBVIOUS
  <2>3. CASE k > j
    BY <2>2, <2>3, ContentAtIs
  <2>4. CASE ~(k > j)
    <3>1. h[k + 1] \in Seq(Chars) /\ h[k + 2] \in Seq(Chars)
      BY <1>6, <2>1, <2>4
    <3>2. k \in 1 .. TextEnd /\ (k # j => k + 1 \in 1 .. TextEnd)
      BY <2>4, TextIs
    <3>3. text[k] \in Chars /\ (k # j => EscapeCharacter(text[k + 1]) \in Chars)
      BY <3>2, TextIs
    <3>4. CASE text[k] # Backslash
      <4>1. ContentAt(h, k, j) = CharThen(text[k], h[k + 1])
        BY <2>4, <3>4, ContentAtIs
      <4>2. QED
        BY <3>1, <3>3, <4>1, CharThenTyped
    <3>5. CASE text[k] = Backslash /\ k = j
      <4>1. ContentAt(h, k, j) = <<>>
        BY <2>4, <3>5, ContentAtIs
      <4>2. QED
        BY <2>2, <4>1
    <3>6. CASE text[k] = Backslash /\ k # j
      <4>1. ContentAt(h, k, j) = CharThen(EscapeCharacter(text[k + 1]), h[k + 2])
        BY <2>4, <3>6, ContentAtIs
      <4>2. QED
        BY <3>1, <3>3, <3>6, <4>1, CharThenTyped
    <3>7. QED
      BY <3>4, <3>5, <3>6
  <2>5. QED
    BY <2>3, <2>4
<1>8. PICK g : StepsBack(g, T, i, m, step)
  <2>1. i <= m + 1
    BY <1>1
  <2>2. QED
    BY <1>7, <2>1, StepsBackExist
<1>9. g = [k \in i .. m |-> g[k]] /\ \A k \in i .. m : g[k] \in T[k]
  BY <1>8, TypedBackIs DEF StepsBack
<1>10. \A k \in i .. m : g[k] = ContentAt(g, k, j)
  <2> SUFFICES ASSUME NEW k \in i .. m PROVE g[k] = ContentAt(g, k, j)
    OBVIOUS
  <2>1. PICK h \in TypedBack(T, k + 1, m) :
          g[k] = step[<<k, h>>] /\ \A n \in (k + 1) .. m : h[n] = g[n]
    BY <1>8 DEF StepsBack
  <2>2. g[k] = ContentAt(h, k, j)
    BY <1>5, <2>1
  <2>3. ~(k > j) => h[k + 1] = g[k + 1] /\ h[k + 2] = g[k + 2]
    BY <1>6, <2>1
  <2>4. QED
    BY <2>2, <2>3, ContentAlike
<1> DEFINE f == CHOOSE from : from = [k \in i .. j + 2 |->
                  IF k > j THEN <<>>
                  ELSE IF text[k] # Backslash THEN <<text[k]>> \o from[k + 1]
                  ELSE IF k = j THEN <<>>
                  ELSE <<EscapeCharacter(text[k + 1])>> \o from[k + 2]]
<1>11. Contents(i, j) = f[i]
  BY DEF Contents
<1>12. g = [k \in i .. j + 2 |-> ContentAt(g, k, j)]
  BY <1>1, <1>9, <1>10
<1>13. f = [k \in i .. j + 2 |-> ContentAt(f, k, j)]
  <2>1. g = [k \in i .. j + 2 |->
                  IF k > j THEN <<>>
                  ELSE IF text[k] # Backslash THEN <<text[k]>> \o g[k + 1]
                  ELSE IF k = j THEN <<>>
                  ELSE <<EscapeCharacter(text[k + 1])>> \o g[k + 2]]
    BY <1>12 DEF ContentAt, CharThen
  <2>2. f = [k \in i .. j + 2 |->
                  IF k > j THEN <<>>
                  ELSE IF text[k] # Backslash THEN <<text[k]>> \o f[k + 1]
                  ELSE IF k = j THEN <<>>
                  ELSE <<EscapeCharacter(text[k + 1])>> \o f[k + 2]]
    BY <2>1, Zenon
  <2>3. QED
    BY <2>2 DEF ContentAt, CharThen
<1> HIDE DEF f
<1>14. PICK v : v = f
  OBVIOUS
<1>15. \A k \in i .. m : v[k] = ContentAt(v, k, j)
  BY <1>1, <1>13, <1>14
<1>16. BackAlike(v, g, i, m)
  <2> SUFFICES ASSUME NEW k \in i .. m, \A n \in (k + 1) .. m : v[n] = g[n]
               PROVE  v[k] = g[k]
    BY <1>1 DEF BackAlike
  <2>1. ~(k > j) => v[k + 1] = g[k + 1] /\ v[k + 2] = g[k + 2]
    BY <1>6
  <2>2. ContentAt(v, k, j) = ContentAt(g, k, j)
    BY <2>1, ContentAlike
  <2>3. QED
    BY <1>10, <1>15, <2>2
<1>17. \A k \in i .. m : v[k] = g[k]
  BY <1>16, SameStepsBack
<1>18. \A k \in i .. m : v[k] \in Seq(Chars)
  BY <1>2, <1>9, <1>17
<1>19. IsContents(v, i, j)
  BY <1>1, <1>11, <1>14, <1>15, <1>18 DEF IsContents
<1>20. QED
  BY <1>19

NoTwins ==
  \A k \in 1 .. TextEnd : k < TextEnd /\ text[k] = Backslash => text[k + 1] # Backslash

\* What the character at p adds to the contents of a word from s on.
Added(s, p) ==
  IF text[p] = Backslash THEN <<>>
  ELSE IF p > s /\ text[p - 1] = Backslash THEN <<EscapeCharacter(text[p])>>
  ELSE <<text[p]>>

LEMMA AddedTyped ==
  ASSUME TextTyped, NEW s, NEW p \in 1 .. TextEnd
  PROVE  Added(s, p) \in Seq(Chars)
<1>1. text[p] \in Chars /\ EscapeCharacter(text[p]) \in Chars
  BY TextIs
<1>2. <<>> \in Seq(Chars) /\ <<text[p]>> \in Seq(Chars) /\ <<EscapeCharacter(text[p])>> \in Seq(Chars)
  BY <1>1
<1>3. Added(s, p) \in {<<>>, <<EscapeCharacter(text[p])>>, <<text[p]>>}
  BY Zenon DEF Added
<1>4. QED
  BY <1>2, <1>3

LEMMA CharThenEmpty ==
  ASSUME NEW c \in Chars
  PROVE  CharThen(c, <<>>) = <<c>>
BY DEF CharThen

LEMMA EmptyThen ==
  ASSUME NEW w \in Seq(Chars)
  PROVE  <<>> \o w = w
OBVIOUS

LEMMA CharThenJoin ==
  ASSUME NEW c \in Chars, NEW w \in Seq(Chars), NEW v \in Seq(Chars)
  PROVE  CharThen(c, w \o v) = CharThen(c, w) \o v
<1>1. <<c>> \in Seq(Chars)
  OBVIOUS
<1>2. QED
  BY <1>1, ConcatAssociative DEF CharThen

LEMMA BackInduction ==
  ASSUME NEW S, NEW a \in Nat, NEW m \in Nat,
         \A k \in a .. m : (\A n \in (k + 1) .. m : n \in S) => k \in S
  PROVE  \A k \in a .. m : k \in S
<1>1. PICK f : f = [k \in a .. m |-> IF k \in S THEN 1 ELSE 0]
  OBVIOUS
<1>2. PICK g : g = [k \in a .. m |-> 1]
  OBVIOUS
<1>3. \A k \in a .. m : (f[k] = g[k]) <=> k \in S
  BY <1>1, <1>2
<1>4. BackAlike(f, g, a, m)
  BY <1>3 DEF BackAlike
<1>5. QED
  BY <1>3, <1>4, SameStepsBack

ContentsGrow(f, g, s, k, p) ==
  k = s \/ text[k - 1] # Backslash => f[k] = g[k] \o Added(s, p)

LEMMA ContentsNext ==
  ASSUME TextTyped, NoTwins, NEW s \in Nat \ {0}, NEW p \in s .. TextEnd
  PROVE  Contents(s, p) = Contents(s, p - 1) \o Added(s, p)
<1>1. TextEnd \in Nat /\ p \in Nat /\ p - 1 \in Nat /\ p \in 1 .. TextEnd
  BY TextIs
<1>2. PICK f : IsContents(f, s, p)
  BY <1>1, ContentsIs
<1>3. PICK g : IsContents(g, s, p - 1)
  BY <1>1, ContentsIs
<1>4. /\ \A k \in s .. p + 2 : f[k] = ContentAt(f, k, p) /\ f[k] \in Seq(Chars)
      /\ \A k \in s .. p + 1 : g[k] = ContentAt(g, k, p - 1) /\ g[k] \in Seq(Chars)
  BY <1>1, <1>2, <1>3 DEF IsContents
<1>5. PICK a : a = Added(s, p) /\ a \in Seq(Chars)
  BY <1>1, AddedTyped
<1>6. ASSUME NEW k \in s .. p, \A n \in (k + 1) .. p : ContentsGrow(f, g, s, n, p)
      PROVE  ContentsGrow(f, g, s, k, p)
  <2> SUFFICES ASSUME k = s \/ text[k - 1] # Backslash
               PROVE  f[k] = g[k] \o a
    BY <1>5 DEF ContentsGrow
  <2>1. /\ k \in Nat /\ k \in 1 .. TextEnd /\ ~(k > p)
        /\ k \in s .. p + 2 /\ k \in s .. p + 1
    BY <1>1
  <2>2. text[k] \in Chars /\ EscapeCharacter(text[p]) \in Chars /\ text[p] \in Chars
    BY <1>1, <2>1, TextIs
  <2>3. CASE text[k] # Backslash
    <3>1. f[k] = CharThen(text[k], f[k + 1])
      BY <1>4, <2>1, <2>3, ContentAtIs
    <3>2. CASE k = p
      <4>1. f[k + 1] = <<>> /\ g[k] = <<>>
        BY <1>1, <1>4, <3>2, ContentAtIs
      <4>2. a = <<text[k]>>
        <5>1. ~(p > s /\ text[p - 1] = Backslash)
          BY <1>1, <3>2
        <5>2. QED
          BY <1>5, <2>3, <3>2, <5>1, Zenon DEF Added
      <4>3. QED
        BY <1>5, <2>2, <3>1, <4>1, <4>2, CharThenEmpty, EmptyThen
    <3>3. CASE k # p
      <4>1. k + 1 \in (k + 1) .. p /\ (k + 1) - 1 = k /\ ~(k > p - 1) /\ k + 1 \in s .. p + 1
        BY <1>1, <3>3
      <4>2. f[k + 1] = g[k + 1] \o a
        BY <1>5, <1>6, <2>3, <4>1 DEF ContentsGrow
      <4>3. g[k] = CharThen(text[k], g[k + 1])
        BY <1>4, <2>1, <2>3, <4>1, ContentAtIs
      <4>4. PICK c \in Chars, w \in Seq(Chars) : c = text[k] /\ w = g[k + 1]
        BY <1>4, <2>2, <4>1
      <4>5. CharThen(c, w \o a) = CharThen(c, w) \o a
        BY <1>5, CharThenJoin
      <4>6. QED
        BY <3>1, <4>2, <4>3, <4>4, <4>5
    <3>4. QED
      BY <3>2, <3>3
  <2>4. CASE text[k] = Backslash
    <3>1. CASE k = p
      <4>1. f[k] = <<>> /\ g[k] = <<>>
        BY <1>1, <1>4, <2>1, <2>4, <3>1, ContentAtIs
      <4>2. a = <<>>
        BY <1>5, <2>4, <3>1, Zenon DEF Added
      <4>3. QED
        BY <1>5, <4>1, <4>2, EmptyThen
    <3>2. CASE k # p
      <4>1. /\ k + 1 \in 1 .. TextEnd /\ k < TextEnd /\ k + 1 \in s .. p + 2
            /\ k + 2 \in s .. p + 2 /\ ~(k > p - 1)
        BY <1>1, <2>1, <3>2
      <4>2. text[k + 1] # Backslash
        BY <2>1, <2>4, <4>1 DEF NoTwins
      <4>3. f[k] = CharThen(EscapeCharacter(text[k + 1]), f[k + 2])
        BY <1>4, <2>1, <2>4, <3>2, ContentAtIs
      <4>4. CASE k + 1 = p
        <5>1. f[k + 2] = <<>> /\ g[k] = <<>>
          BY <1>1, <1>4, <2>1, <2>4, <4>1, <4>4, ContentAtIs
        <5>2. p > s /\ text[p - 1] = Backslash /\ text[p] # Backslash
          BY <2>4, <4>2, <4>4
        <5>3. a = <<EscapeCharacter(text[p])>>
          BY <1>5, <5>2, Zenon DEF Added
        <5>4. f[k] = CharThen(EscapeCharacter(text[p]), <<>>)
          BY <4>3, <4>4, <5>1
        <5>5. QED
          BY <1>5, <2>2, <5>1, <5>3, <5>4, CharThenEmpty, EmptyThen
      <4>5. CASE k + 1 # p
        <5>1. /\ k + 2 \in (k + 1) .. p /\ (k + 2) - 1 = k + 1 /\ k # p - 1
              /\ k + 2 \in s .. p + 1
          BY <1>1, <2>1, <3>2, <4>5
        <5>2. f[k + 2] = g[k + 2] \o a
          BY <1>5, <1>6, <4>2, <5>1 DEF ContentsGrow
        <5>3. g[k] = CharThen(EscapeCharacter(text[k + 1]), g[k + 2])
          BY <1>4, <2>1, <2>4, <4>1, <5>1, ContentAtIs
        <5>4. PICK c \in Chars, w \in Seq(Chars) :
                c = EscapeCharacter(text[k + 1]) /\ w = g[k + 2]
          BY <1>4, <4>1, <5>1, TextIs
        <5>5. CharThen(c, w \o a) = CharThen(c, w) \o a
          BY <1>5, CharThenJoin
        <5>6. QED
          BY <4>3, <5>2, <5>3, <5>4, <5>5
      <4>6. QED
        BY <4>4, <4>5
    <3>3. QED
      BY <3>1, <3>2
  <2>5. QED
    BY <2>3, <2>4
<1>7. \A k \in s .. p : k \in { n \in s .. p : ContentsGrow(f, g, s, n, p) }
  <2>1. PICK S : S = { n \in s .. p : ContentsGrow(f, g, s, n, p) }
    OBVIOUS
  <2>2. \A k \in s .. p : (\A n \in (k + 1) .. p : n \in S) => k \in S
    BY <1>6, <2>1
  <2>3. QED
    BY <1>1, <2>1, <2>2, BackInduction
<1>8. ContentsGrow(f, g, s, s, p)
  BY <1>1, <1>7
<1>9. QED
  BY <1>2, <1>3, <1>8 DEF ContentsGrow, IsContents

LEMMA NoContents ==
  ASSUME TextTyped, NEW s \in 1 .. TextEnd
  PROVE  Contents(s, s - 1) = <<>>
<1>1. s \in Nat \ {0} /\ s - 1 \in Nat /\ s <= (s - 1) + 1 /\ s - 1 <= TextEnd /\ s > s - 1
  BY TextIs
<1>2. PICK f : IsContents(f, s, s - 1)
  BY <1>1, ContentsIs
<1>3. f[s] = ContentAt(f, s, s - 1) /\ Contents(s, s - 1) = f[s]
  BY <1>1, <1>2 DEF IsContents
<1>4. QED
  BY <1>1, <1>3, ContentAtIs

LEMMA ContentsTyped ==
  ASSUME TextTyped, NEW s \in 1 .. TextEnd, NEW p \in s - 1 .. TextEnd
  PROVE  Contents(s, p) \in Seq(Chars)
<1>1. s \in Nat \ {0} /\ p \in Nat /\ s <= p + 1 /\ p <= TextEnd /\ s \in s .. p + 2
  BY TextIs
<1>2. PICK f : IsContents(f, s, p)
  BY <1>1, ContentsIs
<1>3. QED
  BY <1>1, <1>2 DEF IsContents

-----------------------------------------------------------------------------
(***************************************************************************)
(* Which positions are in strings, and on which lines                      *)
(***************************************************************************)

IsSpan(s, i) ==
  /\ s = <<s[1], s[2]>> /\ s[1] \in i .. TextEnd /\ s[2] \in s[1] .. TextEnd
  /\ s[2] = WordEnd[s[1]]

LEMMA SpansAre ==
  ASSUME TextEnd \in Nat, NEW i \in Nat \ {0}, NEW w, w \in OrderedFrom(i)
  PROVE  /\ Len(w) \in Nat
         /\ \A n \in 1 .. Len(w) : IsSpan(w[n], i) /\ \A k \in 1 .. (n - 1) : w[k][2] < w[n][1]
<1>1. w \in Seq((1 .. TextEnd) \X (1 .. TextEnd))
  BY DEF OrderedFrom
<1>2. ASSUME NEW n \in 1 .. Len(w)
      PROVE  IsSpan(w[n], i) /\ \A k \in 1 .. (n - 1) : w[k][2] < w[n][1]
  <2>1. w[n] \in (1 .. TextEnd) \X (1 .. TextEnd)
    BY <1>1
  <2>2. PICK s : s = w[n] /\ s \in (1 .. TextEnd) \X (1 .. TextEnd)
    BY <2>1
  <2>3. s = <<s[1], s[2]>> /\ s[1] \in 1 .. TextEnd
    BY <2>2
  <2>4. /\ s[1] >= i /\ s[2] = WordEnd[s[1]]
        /\ \A k \in 1 .. (n - 1) : w[k][2] < w[n][1]
    BY <2>2 DEF OrderedFrom
  <2>5. s[2] \in s[1] .. TextEnd
    BY <2>3, <2>4, WordEndIs
  <2>6. IsSpan(s, i)
    BY <2>3, <2>4, <2>5 DEF IsSpan
  <2>7. QED
    BY <2>2, <2>4, <2>6
<1>3. QED
  BY <1>1, <1>2

LEMMA WordsAre ==
  ASSUME TextEnd \in Nat
  PROVE  /\ Words \in OrderedFrom(1) /\ Len(Words) \in Nat
         /\ \A n \in 1 .. Len(Words) :
              IsSpan(Words[n], 1) /\ \A k \in 1 .. (n - 1) : Words[k][2] < Words[n][1]
<1>1. Words \in OrderedFrom(1)
  BY WordsFromIs DEF Words
<1>2. PICK w : w = Words /\ w \in OrderedFrom(1)
  BY <1>1
<1>3. /\ Len(w) \in Nat
      /\ \A n \in 1 .. Len(w) : IsSpan(w[n], 1) /\ \A k \in 1 .. (n - 1) : w[k][2] < w[n][1]
  BY <1>2, SpansAre
<1>4. QED
  BY <1>2, <1>3

IsFirstQuote(q, a, b) ==
  q \in a .. b /\ text[q] = Quote /\ \A p \in a .. (q - 1) : text[p] # Quote

NoQuotesTo(a, b) == { n \in Nat : \A k \in a .. b : k < a + n => text[k] # Quote }

LEMMA QuotesStart ==
  ASSUME NEW a \in Nat, NEW b \in Nat, NEW r \in a .. b, text[r] = Quote
  PROVE  \E q \in a .. b : IsFirstQuote(q, a, b)
<1> SUFFICES ASSUME ~\E q \in a .. b : IsFirstQuote(q, a, b) PROVE FALSE
  OBVIOUS
<1>1. PICK S : S = NoQuotesTo(a, b)
  OBVIOUS
<1>2. 0 \in S
  <2>1. \A k \in a .. b : ~(k < a + 0)
    OBVIOUS
  <2>2. QED
    BY <1>1, <2>1 DEF NoQuotesTo
<1>3. ASSUME NEW n \in Nat, n \in S PROVE n + 1 \in S
  <2> SUFFICES ASSUME NEW k \in a .. b, k < a + (n + 1) PROVE text[k] # Quote
    BY <1>1 DEF NoQuotesTo
  <2>1. \A j \in a .. (k - 1) : j \in a .. b /\ j < a + n
    OBVIOUS
  <2>2. \A j \in a .. (k - 1) : text[j] # Quote
    BY <1>1, <1>3, <2>1 DEF NoQuotesTo
  <2>3. text[k] = Quote => IsFirstQuote(k, a, b)
    BY <2>2 DEF IsFirstQuote
  <2>4. QED
    BY <2>3
<1>4. Nat \subseteq S
  BY <1>2, <1>3, SetInduction
<1>5. b + 1 \in S /\ r < a + (b + 1)
  BY <1>4
<1>6. QED
  BY <1>1, <1>5 DEF NoQuotesTo

FirstQuote(w) ==
  CHOOSE q \in w[1] .. w[2] : text[q] = Quote /\ \A p \in w[1] .. (q - 1) : text[p] # Quote

LEMMA InStringIs ==
  ASSUME NEW p
  PROVE  p \in InString(Words) <=>
           \E w \in ToSet(Words) :
             (\E q \in w[1] .. w[2] : text[q] = Quote) /\ p \in (FirstQuote(w) + 1) .. w[2]
<1>1. PICK W : W = Words
  OBVIOUS
<1>2. PICK V : V = { w \in ToSet(W) : \E q \in w[1] .. w[2] : text[q] = Quote }
  OBVIOUS
<1>3. InString(W) = UNION { (FirstQuote(w) + 1) .. w[2] : w \in V }
  BY <1>2, Zenon DEF InString, FirstQuote
<1>4. p \in InString(W) <=> \E w \in V : p \in (FirstQuote(w) + 1) .. w[2]
  BY <1>3, Zenon
<1>5. QED
  BY <1>1, <1>2, <1>4, Zenon

LEMMA FirstQuoteIs ==
  ASSUME NEW w, NEW q \in w[1] .. w[2], IsFirstQuote(q, w[1], w[2])
  PROVE  IsFirstQuote(FirstQuote(w), w[1], w[2])
<1>1. text[q] = Quote /\ \A p \in w[1] .. (q - 1) : text[p] # Quote
  BY DEF IsFirstQuote
<1>2. /\ FirstQuote(w) \in w[1] .. w[2] /\ text[FirstQuote(w)] = Quote
      /\ \A p \in w[1] .. (FirstQuote(w) - 1) : text[p] # Quote
  BY <1>1, Zenon DEF FirstQuote
<1>3. QED
  BY <1>2 DEF IsFirstQuote

LEMMA OneFirstQuote ==
  ASSUME NEW a \in Nat, NEW b \in Nat, NEW p, NEW q, IsFirstQuote(p, a, b), IsFirstQuote(q, a, b)
  PROVE  p = q
<1>1. p \in a .. b /\ q \in a .. b
  BY DEF IsFirstQuote
<1>2. CASE p < q
  <2>1. p \in a .. (q - 1)
    BY <1>1, <1>2
  <2>2. QED
    BY <2>1 DEF IsFirstQuote
<1>3. CASE q < p
  <2>1. q \in a .. (p - 1)
    BY <1>1, <1>3
  <2>2. QED
    BY <2>1 DEF IsFirstQuote
<1>4. QED
  BY <1>1, <1>2, <1>3

LEMMA NotInside ==
  ASSUME TextEnd \in Nat, NEW p \in Nat,
         \A n \in 1 .. Len(Words) :
           \/ Words[n][2] < p
           \/ \A q \in Words[n][1] .. Words[n][2] : text[q] = Quote => q >= p
  PROVE  p \notin InString(Words)
<1> SUFFICES ASSUME p \in InString(Words) PROVE FALSE
  OBVIOUS
<1>1. PICK w \in ToSet(Words) :
        (\E q \in w[1] .. w[2] : text[q] = Quote) /\ p \in (FirstQuote(w) + 1) .. w[2]
  BY InStringIs, Zenon
<1>2. PICK n \in 1 .. Len(Words) : w = Words[n]
  BY WordsAre DEF ToSet, OrderedFrom
<1>3. PICK a \in Nat, b \in Nat : a = w[1] /\ b = w[2]
  BY <1>2, WordsAre DEF IsSpan
<1>4. PICK r \in a .. b : text[r] = Quote
  BY <1>1, <1>3
<1>5. PICK q \in a .. b : IsFirstQuote(q, a, b)
  BY <1>4, QuotesStart
<1>6. PICK f : f = FirstQuote(w)
  OBVIOUS
<1>7. IsFirstQuote(f, a, b)
  BY <1>3, <1>5, <1>6, FirstQuoteIs
<1>8. f \in a .. b /\ text[f] = Quote
  BY <1>7 DEF IsFirstQuote
<1>9. p \in (f + 1) .. b
  BY <1>1, <1>3, <1>6
<1>10. QED
  BY <1>2, <1>3, <1>8, <1>9

LEMMA Inside ==
  ASSUME TextEnd \in Nat, NEW n \in 1 .. Len(Words), NEW q,
         IsFirstQuote(q, Words[n][1], Words[n][2]), NEW p \in (q + 1) .. Words[n][2]
  PROVE  p \in InString(Words)
<1>1. PICK w : w = Words[n]
  OBVIOUS
<1>2. w \in ToSet(Words)
  BY <1>1, WordsAre DEF ToSet, OrderedFrom
<1>3. PICK a \in Nat, b \in Nat : a = w[1] /\ b = w[2]
  BY <1>1, WordsAre DEF IsSpan
<1>4. q \in a .. b /\ text[q] = Quote /\ IsFirstQuote(q, a, b)
  BY <1>1, <1>3 DEF IsFirstQuote
<1>5. PICK f : f = FirstQuote(w)
  OBVIOUS
<1>6. IsFirstQuote(f, a, b)
  BY <1>3, <1>4, <1>5, FirstQuoteIs
<1>7. f = q
  BY <1>4, <1>6, OneFirstQuote
<1>8. p \in (f + 1) .. w[2]
  BY <1>1, <1>7
<1>9. (\E r \in w[1] .. w[2] : text[r] = Quote) /\ p \in (FirstQuote(w) + 1) .. w[2]
  BY <1>3, <1>4, <1>5, <1>8
<1>10. QED
  BY <1>2, <1>9, InStringIs, Zenon

\* A backslash is in a string, and only there.
LEMMA BackslashInside ==
  ASSUME TextEnd \in Nat, Understood(InString(Words)), NEW i \in 1 .. TextEnd, text[i] = Backslash
  PROVE  i \in InString(Words) /\ (i < TextEnd => text[i + 1] # Backslash)
<1>1. PICK I : I = InString(Words)
  OBVIOUS
<1>2. \A k \in 1 .. TextEnd : text[k] = Backslash =>
         k \in I /\ ~(k + 1 \in I /\ text[k + 1] = Backslash)
  BY <1>1 DEF Understood
<1>3. i < TextEnd => i + 1 \in 1 .. TextEnd
  OBVIOUS
<1>4. i < TextEnd /\ text[i + 1] = Backslash => i + 1 \in I
  BY <1>2, <1>3
<1>5. QED
  BY <1>1, <1>2, <1>4

LEMMA NoTwinsAre ==
  ASSUME TextEnd \in Nat, Understood(InString(Words))
  PROVE  NoTwins
BY BackslashInside DEF NoTwins

NewlinesTo(i) == { j \in 1 .. i : text[j] = Newline /\ j \notin InString(Words) }

LEMMA LinesAre ==
  ASSUME NEW i \in Nat
  PROVE  IsFiniteSet(NewlinesTo(i)) /\ Cardinality(NewlinesTo(i)) \in Nat
<1>1. IsFiniteSet(1 .. i)
  BY FS_Interval
<1>2. NewlinesTo(i) \subseteq 1 .. i
  BY DEF NewlinesTo
<1>3. IsFiniteSet(NewlinesTo(i))
  BY <1>1, <1>2, FS_Subset
<1>4. QED
  BY <1>3, FS_CardinalityType

LEMMA LineOfIs ==
  ASSUME NEW i \in Nat \ {0}
  PROVE  LineOf(i) = 1 + Cardinality(NewlinesTo(i - 1)) /\ LineOf(i) \in Nat
<1>1. LineOf(i) = 1 + Cardinality(NewlinesTo(i - 1))
  BY Zenon DEF LineOf, NewlinesTo
<1>2. i - 1 \in Nat
  OBVIOUS
<1>3. Cardinality(NewlinesTo(i - 1)) \in Nat
  BY <1>2, LinesAre
<1>4. QED
  BY <1>1, <1>3

LEMMA FirstLine == LineOf(1) = 1
<1>1. NewlinesTo(0) = {}
  BY DEF NewlinesTo
<1>2. Cardinality({}) = 0
  BY FS_EmptySet
<1>3. 1 \in Nat \ {0} /\ 1 - 1 = 0
  OBVIOUS
<1>4. LineOf(1) = 1 + Cardinality(NewlinesTo(0))
  BY <1>3, LineOfIs
<1>5. QED
  BY <1>1, <1>2, <1>4

LEMMA NextLine ==
  ASSUME NEW i \in Nat \ {0}
  PROVE  /\ text[i] = Newline /\ i \notin InString(Words) => LineOf(i + 1) = LineOf(i) + 1
         /\ text[i] # Newline \/ i \in InString(Words) => LineOf(i + 1) = LineOf(i)
<1>1. i - 1 \in Nat /\ i + 1 \in Nat \ {0} /\ (i + 1) - 1 = i
  OBVIOUS
<1>2. PICK a : a = NewlinesTo(i - 1) /\ IsFiniteSet(a) /\ Cardinality(a) \in Nat
  BY <1>1, LinesAre
<1>3. PICK I : I = InString(Words)
  OBVIOUS
<1>4. a = { j \in 1 .. (i - 1) : text[j] = Newline /\ j \notin I }
  BY <1>2, <1>3, Zenon DEF NewlinesTo
<1>5. PICK b : b = { j \in 1 .. i : text[j] = Newline /\ j \notin I } /\ b = NewlinesTo(i)
  BY <1>3, Zenon DEF NewlinesTo
<1>6. LineOf(i) = 1 + Cardinality(a) /\ LineOf(i + 1) = 1 + Cardinality(b)
  <2>1. LineOf(i + 1) = 1 + Cardinality(NewlinesTo((i + 1) - 1))
    BY <1>1, LineOfIs
  <2>2. NewlinesTo((i + 1) - 1) = b
    BY <1>1, <1>5
  <2>3. LineOf(i) = 1 + Cardinality(NewlinesTo(i - 1))
    BY LineOfIs
  <2>4. QED
    BY <1>2, <2>1, <2>2, <2>3
<1>7. CASE text[i] = Newline /\ i \notin I
  <2>1. b = a \cup {i} /\ i \notin a
    BY <1>4, <1>5, <1>7
  <2>2. Cardinality(b) = Cardinality(a) + 1
    BY <1>2, <2>1, FS_AddElement
  <2>3. LineOf(i + 1) = LineOf(i) + 1
    BY <1>2, <1>6, <2>2
  <2>4. QED
    BY <1>3, <1>7, <2>3
<1>8. CASE ~(text[i] = Newline /\ i \notin I)
  <2>1. b = a
    BY <1>4, <1>5, <1>8
  <2>2. QED
    BY <1>3, <1>6, <1>8, <2>1
<1>9. QED
  BY <1>7, <1>8

-----------------------------------------------------------------------------
(***************************************************************************)
(* The rest of the words                                                   *)
(***************************************************************************)

LEMMA RestStart == ASSUME TextEnd \in Nat PROVE Rest(0, 1)
<1>1. PICK w : w = Words /\ w = WordsFrom[1]
  BY DEF Words
<1>2. Len(w) \in Nat
  BY <1>1, WordsAre
<1>3. EndBefore(0, 1)
  BY DEF EndBefore
<1>4. Len(Words) = 0 + Len(WordsFrom[1])
  BY <1>1, <1>2
<1>5. \A n \in 1 .. Len(w) : 0 + n = n
  BY <1>2
<1>6. \A n \in 1 .. Len(WordsFrom[1]) : Words[0 + n] = WordsFrom[1][n]
  BY <1>1, <1>5
<1>7. 1 \in 1 .. TextEnd + 1
  OBVIOUS
<1>8. QED
  BY <1>3, <1>4, <1>6, <1>7 DEF Rest

\* d is at most the number of words.
LEMMA RestTyped ==
  ASSUME TextEnd \in Nat, NEW d \in Nat, NEW i, Rest(d, i)
  PROVE  i \in 1 .. TextEnd + 1 /\ d <= Len(Words) /\ Len(WordsFrom[i]) \in Nat
<1>1. i \in 1 .. TextEnd + 1 /\ Len(Words) = d + Len(WordsFrom[i])
  BY DEF Rest
<1>2. PICK w : w = WordsFrom[i] /\ w \in OrderedFrom(i)
  BY <1>1, WordsFromIs
<1>3. Len(w) \in Nat
  BY <1>1, <1>2, SpansAre
<1>4. QED
  BY <1>1, <1>2, <1>3

LEMMA RestEnd ==
  ASSUME TextEnd \in Nat, NEW d \in Nat, Rest(d, TextEnd + 1)
  PROVE  d = Len(Words)
<1>1. PICK i \in Nat : i = TextEnd + 1 /\ i > TextEnd
  OBVIOUS
<1>2. WordsFrom[i] = <<>>
  BY <1>1, WordsFromIs, WordsAtIs
<1>3. Len(Words) = d + Len(WordsFrom[i])
  BY <1>1 DEF Rest
<1>4. Len(<<>>) = 0
  OBVIOUS
<1>5. QED
  BY <1>2, <1>3, <1>4

LEMMA RestSkip ==
  ASSUME TextEnd \in Nat, NEW d \in Nat, NEW i, Rest(d, i),
         NEW j \in 1 .. TextEnd + 1, i <= j, WordsFrom[j] = WordsFrom[i]
  PROVE  Rest(d, j)
<1>1. EndBefore(d, j)
  <2>1. \A n \in 1 .. d : Words[n][2] \in Nat
    <3>1. \A n \in 1 .. d : n \in 1 .. Len(Words)
      BY RestTyped, WordsAre
    <3>2. QED
      BY <3>1, WordsAre DEF IsSpan
  <2>2. i \in Nat /\ \A n \in 1 .. d : Words[n][2] < i
    BY DEF Rest, EndBefore
  <2>3. QED
    BY <2>1, <2>2 DEF EndBefore
<1>2. QED
  BY <1>1 DEF Rest

LEMMA RestWord ==
  ASSUME TextEnd \in Nat, NEW d \in Nat, NEW i \in 1 .. TextEnd, Rest(d, i),
         WordsFrom[i] = WordThen(i, WordsFrom[WordEnd[i] + 1])
  PROVE  IsWord(d, i, WordEnd[i])
<1>1. PICK e \in i .. TextEnd : e = WordEnd[i]
  BY WordEndIs
<1>2. e + 1 \in 1 .. TextEnd + 1
  OBVIOUS
<1>3. PICK w : w = WordsFrom[e + 1] /\ w \in OrderedFrom(e + 1)
  BY <1>2, WordsFromIs
<1>4. PICK l \in Nat : l = Len(w)
  <2>1. e + 1 \in Nat \ {0}
    OBVIOUS
  <2>2. QED
    BY <1>3, <2>1, SpansAre
<1>5. PICK v : v = WordsFrom[i] /\ v = WordThen(i, w)
  BY <1>1, <1>3
<1>6. Len(v) = l + 1 /\ v[1] = <<i, e>> /\ \A n \in 1 .. l : v[n + 1] = w[n]
  BY <1>1, <1>3, <1>4, <1>5, OneMore DEF WordThen
<1>7. /\ Len(Words) = d + (l + 1) /\ \A n \in 1 .. (l + 1) : Words[d + n] = v[n]
      /\ \A n \in 1 .. d : Words[n][2] < i
  BY <1>5, <1>6 DEF Rest, EndBefore
<1>8. Words[d + 1] = <<i, e>> /\ d + 1 <= Len(Words)
  BY <1>6, <1>7
<1>9. \A n \in 1 .. l : Words[(d + 1) + n] = w[n]
  <2> SUFFICES ASSUME NEW n \in 1 .. l PROVE Words[(d + 1) + n] = w[n]
    OBVIOUS
  <2>1. n + 1 \in 1 .. (l + 1) /\ (d + 1) + n = d + (n + 1)
    OBVIOUS
  <2>2. QED
    BY <1>6, <1>7, <2>1
<1>10. EndBefore(d + 1, e + 1)
  <2> SUFFICES ASSUME NEW n \in 1 .. (d + 1) PROVE Words[n][2] < e + 1
    BY DEF EndBefore
  <2>1. CASE n = d + 1
    BY <1>8, <2>1
  <2>2. CASE n # d + 1
    <3>1. n \in 1 .. d /\ n \in 1 .. Len(Words)
      BY <1>7, <2>2
    <3>2. Words[n][2] \in Nat
      BY <3>1, WordsAre DEF IsSpan
    <3>3. QED
      BY <1>7, <3>1, <3>2
  <2>3. QED
    BY <2>1, <2>2
<1>11. Rest(d + 1, e + 1)
  <2>1. Len(Words) = (d + 1) + Len(WordsFrom[e + 1])
    BY <1>3, <1>4, <1>7
  <2>2. \A n \in 1 .. Len(WordsFrom[e + 1]) : Words[(d + 1) + n] = WordsFrom[e + 1][n]
    BY <1>3, <1>4, <1>9
  <2>3. QED
    BY <1>2, <1>10, <2>1, <2>2 DEF Rest
<1>12. QED
  BY <1>1, <1>8, <1>11 DEF IsWord

\* What the character at p, between words, makes of the rest.
LEMMA RestNext ==
  ASSUME TextEnd \in Nat, NEW d \in Nat, NEW p \in 1 .. TextEnd, Rest(d, p)
  PROVE  /\ text[p] \in Separators => Rest(d, p + 1)
         /\ text[p] = Semicolon => Rest(d, LineEnd(p) + 1)
         /\ text[p] \notin Separators \cup {Semicolon} => IsWord(d, p, WordEnd[p])
<1>1. ~(p > TextEnd) /\ p \in 1 .. TextEnd + 1
  OBVIOUS
<1>2. WordsFrom[p] = WordsAt(WordsFrom, p)
  BY <1>1, WordsFromIs
<1>3. Semicolon \notin Separators
  BY DEF Separators, Newline, Semicolon
<1>4. CASE text[p] \in Separators
  <2>1. text[p] # Semicolon
    BY <1>3, <1>4
  <2>2. WordsFrom[p] = WordsFrom[p + 1]
    BY <1>1, <1>2, <1>4, Zenon DEF WordsAt
  <2>3. p + 1 \in 1 .. TextEnd + 1 /\ p <= p + 1
    OBVIOUS
  <2>4. Rest(d, p + 1)
    BY <2>2, <2>3, RestSkip
  <2>5. QED
    BY <1>4, <2>1, <2>4
<1>5. CASE text[p] = Semicolon
  <2>1. PICK j : j = LineEnd(p) + 1
    OBVIOUS
  <2>2. WordsFrom[p] = WordsFrom[j]
    BY <1>1, <1>2, <1>3, <1>5, <2>1, Zenon DEF WordsAt
  <2>3. j \in 1 .. TextEnd + 1 /\ p <= j
    <3>1. p \in Nat /\ p <= TextEnd
      OBVIOUS
    <3>2. LineEnd(p) \in p .. TextEnd
      BY <3>1, LineEndIs DEF IsLineEnd
    <3>3. QED
      BY <2>1, <3>2
  <2>4. Rest(d, j)
    BY <2>2, <2>3, RestSkip
  <2>5. QED
    BY <1>3, <1>5, <2>1, <2>4
<1>6. CASE text[p] \notin Separators \cup {Semicolon}
  <2>1. text[p] \notin Separators /\ text[p] # Semicolon
    BY <1>6
  <2>2. WordsFrom[p] = WordThen(p, WordsFrom[WordEnd[p] + 1])
    BY <1>1, <1>2, <2>1, Zenon DEF WordsAt
  <2>3. QED
    BY <2>1, <2>2, RestWord
<1>7. QED
  BY <1>4, <1>5, <1>6

\* Positions in front of the rest and behind the words that are done.
LEMMA OutsideRest ==
  ASSUME TextEnd \in Nat, NEW d \in Nat, NEW i, Rest(d, i), NEW p \in Nat, p <= i, EndBefore(d, p)
  PROVE  p \notin InString(Words)
<1>1. i \in Nat \ {0}
  BY RestTyped
<1>2. PICK w : w = WordsFrom[i] /\ w \in OrderedFrom(i)
  BY RestTyped, WordsFromIs
<1>3. PICK l \in Nat : l = Len(w) /\ \A n \in 1 .. l : IsSpan(w[n], i)
  BY <1>1, <1>2, SpansAre
<1>4. Len(Words) = d + l /\ \A n \in 1 .. l : Words[d + n] = w[n]
  BY <1>2, <1>3 DEF Rest
<1>5. ASSUME NEW n \in 1 .. Len(Words)
      PROVE  \/ Words[n][2] < p
             \/ \A q \in Words[n][1] .. Words[n][2] : text[q] = Quote => q >= p
  <2>1. CASE n <= d
    <3>1. n \in 1 .. d
      BY <2>1
    <3>2. QED
      BY <3>1 DEF EndBefore
  <2>2. CASE n > d
    <3>1. n - d \in 1 .. l /\ d + (n - d) = n
      BY <1>4, <2>2
    <3>2. PICK s : s = Words[n] /\ IsSpan(s, i)
      BY <1>3, <1>4, <3>1
    <3>3. s[1] \in i .. TextEnd /\ s[2] \in Nat
      BY <1>1, <3>2 DEF IsSpan
    <3>4. QED
      BY <1>1, <3>2, <3>3
  <2>3. QED
    BY <2>1, <2>2
<1>6. QED
  BY <1>5, NotInside

\* Positions in the word, or right behind it, that no quote is in front of.
LEMMA OutsideWord ==
  ASSUME TextEnd \in Nat, NEW d \in Nat, NEW s, NEW e, IsWord(d, s, e),
         NEW p \in s .. e + 1, \A q \in s .. (p - 1) : text[q] # Quote
  PROVE  p \notin InString(Words)
<1>1. /\ s \in 1 .. TextEnd /\ e \in s .. TextEnd /\ d + 1 <= Len(Words)
      /\ Words[d + 1] = <<s, e>> /\ Rest(d + 1, e + 1)
  BY DEF IsWord
<1>2. PICK i \in Nat \ {0} : i = e + 1
  BY <1>1
<1>3. PICK w : w = WordsFrom[i] /\ w \in OrderedFrom(i)
  BY <1>1, <1>2, WordsFromIs
<1>4. PICK l \in Nat : l = Len(w) /\ \A n \in 1 .. l : IsSpan(w[n], i)
  BY <1>2, <1>3, SpansAre
<1>5. Len(Words) = (d + 1) + l /\ \A n \in 1 .. l : Words[(d + 1) + n] = w[n]
  BY <1>1, <1>2, <1>3, <1>4 DEF Rest
<1>6. p \in Nat /\ d + 1 \in 1 .. Len(Words)
  BY <1>1, <1>5
<1>7. ASSUME NEW n \in 1 .. Len(Words)
      PROVE  \/ Words[n][2] < p
             \/ \A q \in Words[n][1] .. Words[n][2] : text[q] = Quote => q >= p
  <2>1. CASE n <= d
    <3>1. n \in 1 .. ((d + 1) - 1)
      BY <2>1
    <3>2. Words[n][2] < Words[d + 1][1]
      BY <1>6, <3>1, WordsAre
    <3>3. Words[n][2] \in Nat /\ Words[d + 1][1] = s
      BY <1>1, WordsAre DEF IsSpan
    <3>4. QED
      BY <1>1, <3>2, <3>3
  <2>2. CASE n = d + 1
    <3>1. Words[n][1] = s /\ Words[n][2] = e
      BY <1>1, <2>2
    <3>2. \A q \in s .. e : text[q] = Quote => ~(q \in s .. (p - 1))
      OBVIOUS
    <3>3. QED
      BY <1>1, <3>1, <3>2
  <2>3. CASE n > d + 1
    <3>1. n - (d + 1) \in 1 .. l /\ (d + 1) + (n - (d + 1)) = n
      BY <1>5, <2>3
    <3>2. PICK v : v = Words[n] /\ IsSpan(v, i)
      BY <1>4, <1>5, <3>1
    <3>3. v[1] \in i .. TextEnd /\ v[2] \in Nat
      BY <3>2 DEF IsSpan
    <3>4. QED
      BY <1>1, <1>2, <3>2, <3>3
  <2>4. QED
    BY <2>1, <2>2, <2>3
<1>8. QED
  BY <1>6, <1>7, NotInside

\* Positions in the word that a quote is in front of.
LEMMA InsideWord ==
  ASSUME TextEnd \in Nat, NEW d \in Nat, NEW s, NEW e, IsWord(d, s, e),
         NEW q, IsFirstQuote(q, s, e), NEW p \in (q + 1) .. e
  PROVE  p \in InString(Words)
<1>1. d + 1 <= Len(Words) /\ Words[d + 1] = <<s, e>>
  BY DEF IsWord
<1>2. PICK n : n = d + 1 /\ n \in 1 .. Len(Words)
  BY <1>1, WordsAre
<1>3. Words[n][1] = s /\ Words[n][2] = e
  BY <1>1, <1>2
<1>4. IsFirstQuote(q, Words[n][1], Words[n][2]) /\ p \in (q + 1) .. Words[n][2]
  BY <1>3
<1>5. QED
  BY <1>2, <1>4, Inside

-----------------------------------------------------------------------------
(***************************************************************************)
(* Where the loop is, from a character to the next                         *)
(***************************************************************************)

LEMMA CharactersDiffer ==
  /\ Newline \in Separators /\ Semicolon \notin Separators /\ Semicolon \notin Signs
  /\ Quote \notin Stops /\ Backslash \notin Stops
  /\ Quote # Backslash /\ Quote # Newline /\ Backslash # Newline /\ Newline # Semicolon
BY DEF Newline, Semicolon, Separators, Signs, Stops, Quote, Backslash

LEMMA AddedIs ==
  ASSUME NEW s, NEW p
  PROVE  /\ text[p] = Backslash => Added(s, p) = <<>>
         /\ text[p] # Backslash /\ p > s /\ text[p - 1] = Backslash =>
              Added(s, p) = <<EscapeCharacter(text[p])>>
         /\ text[p] # Backslash /\ ~(p > s /\ text[p - 1] = Backslash) =>
              Added(s, p) = <<text[p]>>
BY Zenon DEF Added

LEMMA LineEndNext ==
  ASSUME TextEnd \in Nat, NEW p \in 1 .. TextEnd
  PROVE  /\ text[p] = Newline => LineEnd(p) = p
         /\ text[p] # Newline /\ p < TextEnd => LineEnd(p + 1) = LineEnd(p)
         /\ p = TextEnd => LineEnd(p) = p
<1>1. p \in Nat /\ p <= TextEnd
  OBVIOUS
<1>2. PICK j \in p .. TextEnd : j = LineEnd(p) /\ IsLineEnd(p, j)
  BY <1>1, LineEndIs DEF IsLineEnd
<1>3. /\ j = TextEnd \/ text[j] = Newline
      /\ \A k \in p .. j : text[k] = Newline => k = j
  BY <1>2 DEF IsLineEnd
<1>4. text[p] = Newline => j = p
  BY <1>3
<1>5. p = TextEnd => j = p
  OBVIOUS
<1>6. ASSUME text[p] # Newline, p < TextEnd PROVE LineEnd(p + 1) = j
  <2>1. p + 1 \in Nat /\ p + 1 <= TextEnd
    BY <1>6
  <2>2. PICK i \in p + 1 .. TextEnd : i = LineEnd(p + 1) /\ IsLineEnd(p + 1, i)
    BY <2>1, LineEndIs DEF IsLineEnd
  <2>3. /\ i = TextEnd \/ text[i] = Newline
        /\ \A k \in p + 1 .. i : text[k] = Newline => k = i
    BY <2>2 DEF IsLineEnd
  <2>4. j # p
    BY <1>3, <1>6
  <2>5. CASE i < j
    <3>1. i \in p .. j
      BY <2>5
    <3>2. QED
      BY <1>3, <2>3, <2>5, <3>1
  <2>6. CASE j < i
    <3>1. j \in p + 1 .. i
      BY <2>4, <2>6
    <3>2. QED
      BY <1>3, <2>3, <2>6, <3>1
  <2>7. QED
    BY <2>2, <2>5, <2>6
<1>7. QED
  BY <1>2, <1>4, <1>5, <1>6

Ready == TextTyped /\ Understandable

LEMMA ReadyIs ==
  ASSUME Ready
  PROVE  /\ TextTyped /\ TextEnd \in Nat /\ NoTwins
         /\ Understood(InString(Words)) /\ CommentsApart(Words, InString(Words))
<1>1. TextTyped /\ TextEnd \in Nat
  BY TextIs DEF Ready
<1>2. Understood(InString(Words)) /\ CommentsApart(Words, InString(Words))
  BY DEF Ready, Understandable
<1>3. QED
  BY <1>1, <1>2, NoTwinsAre

LEMMA BetweenIs ==
  ASSUME Ready, NEW d \in Nat, NEW p, NEW w, NEW l, BetweenAt(d, p, w, l)
  PROVE  /\ Rest(d, p) /\ p \in 1 .. TextEnd + 1 /\ w = <<>> /\ l = LineOf(p) /\ l \in Nat
         /\ p \notin InString(Words)
         /\ p <= TextEnd => text[p] # Backslash
<1>1. Rest(d, p) /\ w = <<>> /\ l = LineOf(p)
  BY DEF BetweenAt
<1>2. p \in 1 .. TextEnd + 1 /\ p \in Nat /\ EndBefore(d, p) /\ TextEnd \in Nat
  BY <1>1, ReadyIs, RestTyped DEF Rest
<1>3. p \notin InString(Words)
  BY <1>1, <1>2, OutsideRest
<1>4. p <= TextEnd => text[p] # Backslash
  <2>1. p <= TextEnd => p \in 1 .. TextEnd
    BY <1>2
  <2>2. QED
    BY <1>2, <1>3, <2>1, BackslashInside, ReadyIs
<1>5. l \in Nat
  BY <1>1, <1>2, LineOfIs
<1>6. QED
  BY <1>1, <1>2, <1>3, <1>4, <1>5

LEMMA BetweenSeparate ==
  ASSUME Ready, NEW d \in Nat, NEW p, NEW w, NEW l, BetweenAt(d, p, w, l),
         p <= TextEnd, text[p] \in Separators,
         NEW m, m = IF text[p] = Newline THEN l + 1 ELSE l
  PROVE  BetweenAt(d, p + 1, <<>>, m)
<1>1. TextEnd \in Nat /\ p \in 1 .. TextEnd /\ p \in Nat \ {0}
  BY BetweenIs, ReadyIs
<1>2. Rest(d, p + 1)
  BY <1>1, BetweenIs, RestNext
<1>3. m = LineOf(p + 1)
  BY <1>1, BetweenIs, NextLine
<1>4. QED
  BY <1>2, <1>3 DEF BetweenAt

LEMMA BetweenComment ==
  ASSUME Ready, NEW d \in Nat, NEW p, NEW w, NEW l, BetweenAt(d, p, w, l),
         p <= TextEnd, text[p] = Semicolon
  PROVE  CommentAt(d, p + 1, w, l)
<1>1. TextEnd \in Nat /\ p \in 1 .. TextEnd /\ p \in Nat \ {0} /\ Rest(d, p)
  BY BetweenIs, ReadyIs
<1>2. Rest(d, LineEnd(p) + 1)
  BY <1>1, RestNext
<1>3. w = <<>> /\ l = LineOf(p + 1)
  BY <1>1, BetweenIs, NextLine, CharactersDiffer
<1>4. EndBefore(d, p + 1)
  <2>1. \A n \in 1 .. d : Words[n][2] \in Nat
    <3>1. \A n \in 1 .. d : n \in 1 .. Len(Words)
      BY <1>1, RestTyped, WordsAre
    <3>2. QED
      BY <1>1, <3>1, WordsAre DEF IsSpan
  <2>2. QED
    BY <1>1, <2>1 DEF Rest, EndBefore
<1>5. p + 1 > TextEnd => Rest(d, p + 1)
  BY <1>1, <1>2, LineEndNext
<1>6. p + 1 <= TextEnd => Rest(d, LineEnd(p + 1) + 1)
  BY <1>1, <1>2, LineEndNext, CharactersDiffer
<1>7. p + 1 <= TextEnd => \E j \in 1 .. TextEnd + 1 : j = LineEnd(p + 1) + 1 /\ Rest(d, j)
  BY <1>1, <1>6, RestTyped
<1>8. QED
  BY <1>3, <1>4, <1>5, <1>7 DEF CommentAt

LEMMA CommentIs ==
  ASSUME Ready, NEW d \in Nat, NEW p \in 1 .. TextEnd, NEW w, NEW l, CommentAt(d, p, w, l)
  PROVE  /\ w = <<>> /\ l = LineOf(p) /\ l \in Nat
         /\ Rest(d, LineEnd(p) + 1) /\ p \notin InString(Words)
         /\ EndBefore(d, p + 1)
<1>1. w = <<>> /\ l = LineOf(p) /\ EndBefore(d, p) /\ Rest(d, LineEnd(p) + 1)
  BY ReadyIs DEF CommentAt
<1>2. PICK j : j = LineEnd(p) + 1
  OBVIOUS
<1>3. TextEnd \in Nat /\ p \in Nat \ {0} /\ p <= TextEnd
  BY ReadyIs
<1>4. LineEnd(p) \in p .. TextEnd
  BY <1>3, LineEndIs DEF IsLineEnd
<1>5. p <= j
  BY <1>2, <1>3, <1>4
<1>6. p \notin InString(Words)
  BY <1>1, <1>2, <1>3, <1>5, OutsideRest
<1>7. EndBefore(d, p + 1)
  <2>1. \A n \in 1 .. d : Words[n][2] \in Nat
    <3>1. \A n \in 1 .. d : n \in 1 .. Len(Words)
      BY <1>1, <1>2, <1>3, RestTyped, WordsAre
    <3>2. QED
      BY <1>3, <3>1, WordsAre DEF IsSpan
  <2>2. QED
    BY <1>1, <1>3, <2>1 DEF EndBefore
<1>8. QED
  BY <1>1, <1>3, <1>6, <1>7, LineOfIs

LEMMA CommentNext ==
  ASSUME Ready, NEW d \in Nat, NEW p \in 1 .. TextEnd, NEW w, NEW l, CommentAt(d, p, w, l),
         text[p] # Newline
  PROVE  CommentAt(d, p + 1, w, l)
<1>1. TextEnd \in Nat /\ p \in Nat \ {0}
  BY ReadyIs
<1>2. w = <<>> /\ l = LineOf(p + 1) /\ EndBefore(d, p + 1)
  BY <1>1, CommentIs, NextLine
<1>3. p + 1 > TextEnd => Rest(d, p + 1)
  BY <1>1, CommentIs, LineEndNext
<1>4. p + 1 <= TextEnd => Rest(d, LineEnd(p + 1) + 1)
  BY <1>1, CommentIs, LineEndNext
<1>5. p + 1 <= TextEnd => \E j \in 1 .. TextEnd + 1 : j = LineEnd(p + 1) + 1 /\ Rest(d, j)
  BY <1>1, <1>4, RestTyped
<1>6. QED
  BY <1>2, <1>3, <1>5 DEF CommentAt

LEMMA CommentEnds ==
  ASSUME Ready, NEW d \in Nat, NEW p \in 1 .. TextEnd, NEW w, NEW l, CommentAt(d, p, w, l),
         text[p] = Newline
  PROVE  BetweenAt(d, p + 1, w, l + 1)
<1>1. TextEnd \in Nat /\ p \in Nat \ {0}
  BY ReadyIs
<1>2. w = <<>> /\ l + 1 = LineOf(p + 1)
  BY <1>1, CommentIs, NextLine
<1>3. Rest(d, p + 1)
  BY <1>1, CommentIs, LineEndNext
<1>4. QED
  BY <1>2, <1>3 DEF BetweenAt

\* The first character of a word, or the next one.
LEMMA WordStarts ==
  ASSUME Ready, NEW d \in Nat, NEW p, NEW w, NEW l, BetweenAt(d, p, w, l),
         p <= TextEnd, text[p] \notin Separators \cup {Semicolon}
  PROVE  InWordAt(d, p, WordEnd[p], p + 1, <<text[p]>>, l)
<1>1. TextEnd \in Nat /\ p \in 1 .. TextEnd /\ p \in Nat \ {0} /\ Rest(d, p)
  BY BetweenIs, ReadyIs
<1>2. PICK e \in p .. TextEnd : e = WordEnd[p] /\ IsWord(d, p, e)
  BY <1>1, RestNext, WordEndIs
<1>3. Contents(p, p) = <<text[p]>>
  <2>1. p \in p .. TextEnd /\ TextTyped /\ NoTwins
    BY <1>1, ReadyIs
  <2>2. Contents(p, p) = Contents(p, p - 1) \o Added(p, p)
    BY <1>1, <2>1, ContentsNext
  <2>3. Contents(p, p - 1) = <<>>
    BY <1>1, <2>1, NoContents
  <2>4. Added(p, p) = <<text[p]>>
    <3>1. ~(p > p) /\ text[p] # Backslash
      BY <1>1, BetweenIs
    <3>2. QED
      BY <3>1, AddedIs
  <2>5. <<text[p]>> \in Seq(Chars)
    <3>1. text[p] \in Chars
      BY <1>1, <2>1, TextIs
    <3>2. QED
      BY <3>1
  <2>6. <<>> \o <<text[p]>> = <<text[p]>>
    BY <2>5, EmptyThen
  <2>7. QED
    BY <2>2, <2>3, <2>4, <2>6
<1>4. l = LineOf(p) /\ l = LineOf(p + 1)
  <2>1. text[p] # Newline
    BY CharactersDiffer
  <2>2. QED
    BY <1>1, <2>1, BetweenIs, NextLine
<1>5. p < p + 1 /\ p + 1 <= e + 1 /\ (p + 1) - 1 = p
  BY <1>1, <1>2
<1>6. <<text[p]>> # <<>>
  OBVIOUS
<1>7. QED
  BY <1>2, <1>3, <1>4, <1>5, <1>6 DEF InWordAt

LEMMA InWordIs ==
  ASSUME Ready, NEW d \in Nat, NEW s, NEW e, NEW p, NEW w, NEW l,
         p \in Nat, InWordAt(d, s, e, p, w, l)
  PROVE  /\ s \in 1 .. TextEnd /\ e \in s .. TextEnd /\ p \in s + 1 .. e + 1 /\ l \in Nat
         /\ IsWord(d, s, e) /\ e = WordEnd[s] /\ w \in Seq(Chars) /\ w # <<>>
<1>1. /\ IsWord(d, s, e) /\ s < p /\ p <= e + 1 /\ w # <<>> /\ w = Contents(s, p - 1)
      /\ l = LineOf(s)
  BY DEF InWordAt
<1>2. s \in 1 .. TextEnd /\ e \in s .. TextEnd /\ e = WordEnd[s]
  BY <1>1 DEF IsWord
<1>3. TextEnd \in Nat /\ TextTyped
  BY ReadyIs
<1>4. p \in s + 1 .. e + 1 /\ p - 1 \in s - 1 .. TextEnd
  BY <1>1, <1>2, <1>3
<1>5. w \in Seq(Chars)
  BY <1>1, <1>2, <1>3, <1>4, ContentsTyped
<1>6. l \in Nat
  BY <1>1, <1>2, LineOfIs
<1>7. QED
  BY <1>1, <1>2, <1>4, <1>5, <1>6

LEMMA InWordNext ==
  ASSUME Ready, NEW d \in Nat, NEW s, NEW e, NEW p, NEW w, NEW l,
         p \in Nat, InWordAt(d, s, e, p, w, l), p <= e,
         text[p] # Newline \/ p \in InString(Words)
  PROVE  /\ InWordAt(d, s, e, p + 1, w \o Added(s, p), l)
         /\ Contents(s, p) = w \o Added(s, p)
<1>1. /\ s \in 1 .. TextEnd /\ e \in s .. TextEnd /\ IsWord(d, s, e)
      /\ w \in Seq(Chars) /\ w # <<>> /\ TextTyped /\ NoTwins /\ TextEnd \in Nat
  BY InWordIs, ReadyIs
<1>2. s < p /\ w = Contents(s, p - 1) /\ l = LineOf(s) /\ l = LineOf(p)
  BY DEF InWordAt
<1>3. p \in s .. TextEnd /\ p \in 1 .. TextEnd /\ p \in Nat \ {0} /\ s \in Nat \ {0}
  BY <1>1, <1>2
<1>4. Contents(s, p) = w \o Added(s, p)
  BY <1>1, <1>2, <1>3, ContentsNext
<1>5. w \o Added(s, p) # <<>>
  <2>1. PICK a \in Seq(Chars) : a = Added(s, p)
    BY <1>1, <1>3, AddedTyped
  <2>2. Len(w) > 0 /\ Len(w \o a) = Len(w) + Len(a)
    BY <1>1
  <2>3. w \o a # <<>>
    BY <2>2
  <2>4. QED
    BY <2>1, <2>3
<1>6. l = LineOf(p + 1)
  BY <1>2, <1>3, NextLine
<1>7. s < p + 1 /\ p + 1 <= e + 1 /\ (p + 1) - 1 = p
  BY <1>1, <1>2, <1>3
<1>8. QED
  BY <1>1, <1>2, <1>4, <1>5, <1>6, <1>7 DEF InWordAt

LEMMA AppendIs ==
  ASSUME NEW w \in Seq(Chars), NEW c \in Chars
  PROVE  w \o <<c>> = Append(w, c) /\ w \o <<>> = w
<1>1. <<c>> \in Seq(Chars) /\ w \o <<c>> = Append(w, c)
  OBVIOUS
<1>2. w \o <<>> = w
  BY ConcatEmptySeq
<1>3. QED
  BY <1>1, <1>2

-----------------------------------------------------------------------------
\* Words without a quote so far

LEMMA BetweenWord ==
  ASSUME Ready, NEW d \in Nat, NEW p, NEW w, NEW l, BetweenAt(d, p, w, l),
         p <= TextEnd, text[p] \notin Separators \cup {Semicolon, Quote}
  PROVE  PlainAt(d, p, WordEnd[p], p + 1, <<text[p]>>, l)
<1>1. InWordAt(d, p, WordEnd[p], p + 1, <<text[p]>>, l)
  BY WordStarts
<1>2. p \in Nat /\ (p + 1) - 1 = p /\ text[p] # Backslash
  BY BetweenIs
<1>3. \A q \in p .. p : text[q] # Quote
  BY <1>2
<1>4. QED
  BY <1>1, <1>2, <1>3 DEF PlainAt

LEMMA PlainIs ==
  ASSUME Ready, NEW d \in Nat, NEW s, NEW e, NEW p, NEW w, NEW l,
         p \in Nat, PlainAt(d, s, e, p, w, l)
  PROVE  /\ s \in 1 .. TextEnd /\ e \in s .. TextEnd /\ p \in s + 1 .. e + 1 /\ l \in Nat
         /\ IsWord(d, s, e) /\ w \in Seq(Chars) /\ w # <<>> /\ InWordAt(d, s, e, p, w, l)
         /\ \A q \in s .. (p - 1) : text[q] # Quote
         /\ text[p - 1] # Backslash /\ text[p - 1] # Quote
         /\ p - 1 \notin InString(Words) /\ p \notin InString(Words)
         /\ p <= TextEnd => text[p] # Backslash
<1>1. /\ InWordAt(d, s, e, p, w, l) /\ \A q \in s .. (p - 1) : text[q] # Quote
      /\ text[p - 1] # Backslash
  BY DEF PlainAt
<1>2. /\ s \in 1 .. TextEnd /\ e \in s .. TextEnd /\ p \in s + 1 .. e + 1 /\ l \in Nat
      /\ IsWord(d, s, e) /\ w \in Seq(Chars) /\ w # <<>> /\ TextEnd \in Nat
  BY <1>1, InWordIs, ReadyIs
<1>3. /\ p - 1 \in s .. e + 1 /\ p \in s .. e + 1 /\ p - 1 \in s .. (p - 1)
      /\ \A q \in s .. (p - 1) - 1 : q \in s .. (p - 1)
  BY <1>2
<1>4. PICK r : r = p - 1
  OBVIOUS
<1>5. \A q \in s .. (r - 1) : text[q] # Quote
  BY <1>1, <1>3, <1>4
<1>6. r \notin InString(Words)
  BY <1>2, <1>3, <1>4, <1>5, OutsideWord
<1>7. p \notin InString(Words)
  BY <1>1, <1>2, <1>3, OutsideWord
<1>8. p <= TextEnd => text[p] # Backslash
  <2>1. p <= TextEnd => p \in 1 .. TextEnd
    BY <1>2
  <2>2. QED
    BY <1>2, <1>7, <2>1, BackslashInside, ReadyIs
<1>9. QED
  BY <1>1, <1>2, <1>3, <1>4, <1>6, <1>7, <1>8

\* What the end of the word is, one character further.
LEMMA PlainEndIs ==
  ASSUME Ready, NEW d \in Nat, NEW s, NEW e, NEW p, NEW w, NEW l,
         p \in Nat, PlainAt(d, s, e, p, w, l)
  PROVE  IF p > TextEnd \/ text[p] \in Stops THEN e = p - 1 ELSE p <= e /\ e = WordEnd[p]
<1>1. TextEnd \in Nat /\ p \in Nat /\ e \in 1 .. TextEnd /\ p - 1 \in 1 .. TextEnd
  BY PlainIs, ReadyIs
<1>2. PICK r \in 1 .. TextEnd : r = p - 1 /\ r + 1 = p /\ text[r] # Quote
  BY <1>1, PlainIs
<1>3. e = WordEnd[r]
  BY <1>2 DEF PlainAt
<1>4. e = WordEndAt(WordEnd, r)
  BY <1>1, <1>3, WordEndIs
<1>5. e = IF r = TextEnd \/ text[p] \in Stops THEN r ELSE WordEnd[p]
  BY <1>2, <1>4 DEF WordEndAt
<1>6. p > TextEnd <=> r = TextEnd
  BY <1>1, <1>2
<1>7. p <= TextEnd => p \in 1 .. TextEnd /\ WordEnd[p] \in p .. TextEnd
  BY <1>1, WordEndIs
<1>8. QED
  BY <1>1, <1>2, <1>5, <1>6, <1>7

LEMMA PlainEnds ==
  ASSUME Ready, NEW d \in Nat, NEW s, NEW e, NEW p, NEW w, NEW l,
         p \in Nat, PlainAt(d, s, e, p, w, l), p > TextEnd \/ text[p] \in Stops
  PROVE  /\ IsWord(d, s, e) /\ w = Contents(s, e) /\ l = LineOf(s)
         /\ BetweenAt(d + 1, p, <<>>, l)
<1>1. e = p - 1 /\ e + 1 = p
  BY PlainEndIs, PlainIs, ReadyIs
<1>2. InWordAt(d, s, e, p, w, l)
  BY DEF PlainAt
<1>3. IsWord(d, s, e) /\ w = Contents(s, e) /\ l = LineOf(s) /\ l = LineOf(p)
  BY <1>1, <1>2 DEF InWordAt
<1>4. Rest(d + 1, p)
  BY <1>1, <1>3 DEF IsWord
<1>5. QED
  BY <1>3, <1>4 DEF BetweenAt

LEMMA PlainNoComment ==
  ASSUME Ready, NEW d \in Nat, NEW s, NEW e, NEW p, NEW w, NEW l,
         p \in Nat, PlainAt(d, s, e, p, w, l), p <= TextEnd
  PROVE  text[p] # Semicolon
<1> SUFFICES ASSUME text[p] = Semicolon PROVE FALSE
  OBVIOUS
<1>1. e = p - 1
  BY PlainEndIs DEF Stops
<1>2. e + 1 = p /\ e < TextEnd
  BY <1>1, PlainIs, ReadyIs
<1>3. Words[d + 1] = <<s, e>> /\ d + 1 <= Len(Words)
  BY PlainIs DEF IsWord
<1>4. PICK v : v = Words[d + 1] /\ v[2] = e
  <2>1. Words[d + 1][2] = e
    BY <1>3
  <2>2. QED
    BY <2>1
<1>5. v \in ToSet(Words)
  <2>1. d + 1 \in 1 .. Len(Words) /\ Words \in OrderedFrom(1)
    BY <1>3, ReadyIs, WordsAre
  <2>2. QED
    BY <1>4, <2>1 DEF ToSet, OrderedFrom
<1>6. v[2] \in InString(Words)
  BY <1>2, <1>4, <1>5, ReadyIs DEF CommentsApart
<1>7. QED
  BY <1>1, <1>4, <1>6, PlainIs

LEMMA PlainAdds ==
  ASSUME Ready, NEW d \in Nat, NEW s, NEW e, NEW p, NEW w, NEW l,
         p \in Nat, PlainAt(d, s, e, p, w, l), p <= TextEnd, text[p] \notin Stops
  PROVE  p <= e /\ e = WordEnd[p] /\ InWordAt(d, s, e, p + 1, Append(w, text[p]), l)
<1>1. p <= e /\ e = WordEnd[p]
  BY PlainEndIs, PlainIs, ReadyIs
<1>2. text[p] # Newline
  BY CharactersDiffer DEF Stops
<1>3. InWordAt(d, s, e, p + 1, w \o Added(s, p), l)
  BY <1>1, <1>2, PlainIs, InWordNext
<1>4. Added(s, p) = <<text[p]>>
  BY AddedIs, PlainIs
<1>5. w \in Seq(Chars) /\ text[p] \in Chars
  BY PlainIs, ReadyIs, TextIs
<1>6. w \o <<text[p]>> = Append(w, text[p])
  BY <1>5, AppendIs
<1>7. QED
  BY <1>1, <1>3, <1>4, <1>6

LEMMA PlainNext ==
  ASSUME Ready, NEW d \in Nat, NEW s, NEW e, NEW p, NEW w, NEW l,
         p \in Nat, PlainAt(d, s, e, p, w, l), p <= TextEnd,
         text[p] \notin Stops, text[p] # Quote
  PROVE  PlainAt(d, s, e, p + 1, Append(w, text[p]), l)
<1>1. (p + 1) - 1 = p /\ e = WordEnd[p] /\ InWordAt(d, s, e, p + 1, Append(w, text[p]), l)
  BY PlainAdds
<1>2. text[p] # Backslash /\ s \in Nat
  BY PlainIs
<1>3. \A q \in s .. p : text[q] # Quote
  <2>1. \A q \in s .. p : q \in s .. (p - 1) \/ q = p
    BY <1>2
  <2>2. QED
    BY <2>1, PlainIs
<1>4. QED
  BY <1>1, <1>2, <1>3 DEF PlainAt

-----------------------------------------------------------------------------
\* Words with a string at their end

LEMMA StringStarts ==
  ASSUME Ready, NEW d \in Nat, NEW s, NEW e, NEW p \in 1 .. TextEnd, NEW w, NEW l,
         InWordAt(d, s, e, p + 1, w, l), e = WordEnd[p],
         text[p] = Quote, \A q \in s .. (p - 1) : text[q] # Quote
  PROVE  QuotedAt(d, s, e, p, p + 1, w, l)
<1>1. TextEnd \in Nat /\ p \in Nat /\ p + 1 \in Nat /\ (p + 1) - 1 = p
  BY ReadyIs
<1>2. s \in 1 .. TextEnd /\ p + 1 \in s + 1 .. e + 1
  BY <1>1, InWordIs
<1>3. p \in s .. p
  BY <1>1, <1>2
<1>4. e = StringEnd[p + 1]
  BY <1>1, WordEndIs DEF WordEndAt
<1>5. text[p] # Backslash
  BY CharactersDiffer
<1>6. QED
  BY <1>1, <1>3, <1>4, <1>5 DEF QuotedAt, InQuotes

LEMMA BetweenQuote ==
  ASSUME Ready, NEW d \in Nat, NEW p, NEW w, NEW l, BetweenAt(d, p, w, l),
         p <= TextEnd, text[p] = Quote
  PROVE  QuotedAt(d, p, WordEnd[p], p, p + 1, <<text[p]>>, l)
<1>1. p \in 1 .. TextEnd
  BY BetweenIs, ReadyIs
<1>2. text[p] \notin Separators \cup {Semicolon}
  BY CharactersDiffer DEF Stops
<1>3. PICK e : e = WordEnd[p]
  OBVIOUS
<1>4. PICK v : v = <<text[p]>>
  OBVIOUS
<1>5. InWordAt(d, p, e, p + 1, v, l)
  BY <1>2, <1>3, <1>4, WordStarts
<1>6. \A q \in p .. (p - 1) : text[q] # Quote
  BY <1>1
<1>7. QuotedAt(d, p, e, p, p + 1, v, l)
  BY <1>1, <1>3, <1>5, <1>6, StringStarts
<1>8. QED
  BY <1>3, <1>4, <1>7

LEMMA PlainQuote ==
  ASSUME Ready, NEW d \in Nat, NEW s, NEW e, NEW p, NEW w, NEW l,
         p \in Nat, PlainAt(d, s, e, p, w, l), p <= TextEnd, text[p] = Quote
  PROVE  QuotedAt(d, s, e, p, p + 1, Append(w, text[p]), l)
<1>1. p \in 1 .. TextEnd /\ \A q \in s .. (p - 1) : text[q] # Quote
  BY PlainIs, ReadyIs
<1>2. text[p] \notin Stops
  BY CharactersDiffer
<1>3. PICK v : v = Append(w, text[p])
  OBVIOUS
<1>4. e = WordEnd[p] /\ InWordAt(d, s, e, p + 1, v, l)
  BY <1>2, <1>3, PlainAdds
<1>5. QED
  BY <1>1, <1>3, <1>4, StringStarts

LEMMA InQuotesIs ==
  ASSUME Ready, NEW d \in Nat, NEW s, NEW e, NEW q, NEW p, NEW w, NEW l,
         p \in Nat, InQuotes(d, s, e, q, p, w, l)
  PROVE  /\ s \in 1 .. TextEnd /\ e \in s .. TextEnd /\ p \in s + 1 .. e + 1 /\ l \in Nat
         /\ p - 1 \in 1 .. TextEnd /\ p \in 1 .. TextEnd + 1
         /\ IsWord(d, s, e) /\ w \in Seq(Chars) /\ w # <<>> /\ InWordAt(d, s, e, p, w, l)
         /\ q \in s .. (p - 1)
         /\ p <= e => p \in InString(Words)
<1>1. /\ InWordAt(d, s, e, p, w, l) /\ q \in s .. (p - 1) /\ text[q] = Quote
      /\ \A k \in s .. (q - 1) : text[k] # Quote
  BY DEF InQuotes
<1>2. /\ s \in 1 .. TextEnd /\ e \in s .. TextEnd /\ p \in s + 1 .. e + 1 /\ l \in Nat
      /\ IsWord(d, s, e) /\ w \in Seq(Chars) /\ w # <<>> /\ TextEnd \in Nat
  BY <1>1, InWordIs, ReadyIs
<1>3. p - 1 \in 1 .. TextEnd /\ p \in 1 .. TextEnd + 1
  BY <1>2
<1>4. IsFirstQuote(q, s, e)
  <2>1. q \in s .. e
    BY <1>1, <1>2
  <2>2. QED
    BY <1>1, <2>1 DEF IsFirstQuote
<1>5. p <= e => p \in InString(Words)
  <2>1. p <= e => p \in (q + 1) .. e
    BY <1>1, <1>2
  <2>2. QED
    BY <1>2, <1>4, <2>1, InsideWord
<1>6. QED
  BY <1>1, <1>2, <1>3, <1>5

LEMMA QuotedIs ==
  ASSUME Ready, NEW d \in Nat, NEW s, NEW e, NEW q, NEW p, NEW w, NEW l,
         p \in Nat, QuotedAt(d, s, e, q, p, w, l)
  PROVE  /\ InQuotes(d, s, e, q, p, w, l) /\ text[p - 1] # Backslash /\ e = StringEnd[p]
         /\ p <= TextEnd => p <= e
         /\ p > TextEnd => e = TextEnd
<1>1. InQuotes(d, s, e, q, p, w, l) /\ text[p - 1] # Backslash /\ e = StringEnd[p]
  BY DEF QuotedAt
<1>2. p \in 1 .. TextEnd + 2 /\ TextEnd \in Nat
  BY <1>1, InQuotesIs, ReadyIs
<1>3. QED
  BY <1>1, <1>2, StringEndIs

LEMMA EscapingIs ==
  ASSUME Ready, NEW d \in Nat, NEW s, NEW e, NEW q, NEW p, NEW w, NEW l,
         p \in Nat, EscapingAt(d, s, e, q, p, w, l)
  PROVE  /\ InQuotes(d, s, e, q, p, w, l) /\ text[p - 1] = Backslash /\ e = StringEnd[p + 1]
         /\ p <= TextEnd => p <= e /\ text[p] # Backslash
         /\ p > TextEnd => e = TextEnd
<1>1. InQuotes(d, s, e, q, p, w, l) /\ text[p - 1] = Backslash /\ e = StringEnd[p + 1]
  BY DEF EscapingAt
<1>2. p \in 1 .. TextEnd + 1 /\ p - 1 \in 1 .. TextEnd /\ TextEnd \in Nat
  BY <1>1, InQuotesIs, ReadyIs
<1>3. (p <= TextEnd => p <= e) /\ (p > TextEnd => e = TextEnd)
  <2>1. p + 1 \in 1 .. TextEnd + 2
    BY <1>2
  <2>2. /\ p + 1 <= TextEnd => e >= p + 1
        /\ p + 1 > TextEnd => e = TextEnd
        /\ e \in 0 .. TextEnd
    BY <1>1, <1>2, <2>1, StringEndIs
  <2>3. QED
    BY <1>2, <2>2
<1>4. p <= TextEnd => text[p] # Backslash
  <2>1. PICK r \in 1 .. TextEnd : r = p - 1 /\ r + 1 = p
    BY <1>2
  <2>2. text[r] = Backslash /\ (p <= TextEnd => r < TextEnd)
    BY <1>1, <1>2, <2>1
  <2>3. QED
    BY <2>1, <2>2, ReadyIs, BackslashInside
<1>5. QED
  BY <1>1, <1>3, <1>4

\* The string goes on: w grows by what the character at p adds.
LEMMA QuotesGoOn ==
  ASSUME Ready, NEW d \in Nat, NEW s, NEW e, NEW q, NEW p, NEW w, NEW l,
         p \in Nat, InQuotes(d, s, e, q, p, w, l), p <= e
  PROVE  InQuotes(d, s, e, q, p + 1, w \o Added(s, p), l) /\ (p + 1) - 1 = p
<1>1. p \in InString(Words) /\ InWordAt(d, s, e, p, w, l) /\ s \in Nat
  BY InQuotesIs
<1>2. PICK v : v = w \o Added(s, p)
  OBVIOUS
<1>3. InWordAt(d, s, e, p + 1, v, l)
  BY <1>1, <1>2, InWordNext
<1>4. /\ q \in s .. (p - 1) /\ text[q] = Quote
      /\ \A k \in s .. (q - 1) : text[k] # Quote
  BY DEF InQuotes
<1>5. q \in s .. (p + 1) - 1 /\ (p + 1) - 1 = p
  BY <1>1, <1>4
<1>6. QED
  BY <1>2, <1>3, <1>4, <1>5 DEF InQuotes

LEMMA QuotedBackslash ==
  ASSUME Ready, NEW d \in Nat, NEW s, NEW e, NEW q, NEW p, NEW w, NEW l,
         p \in Nat, QuotedAt(d, s, e, q, p, w, l), p <= TextEnd, text[p] = Backslash
  PROVE  EscapingAt(d, s, e, q, p + 1, w, l)
<1>1. InQuotes(d, s, e, q, p, w, l) /\ e = StringEnd[p] /\ p <= e
  BY QuotedIs
<1>2. w \in Seq(Chars) /\ p \in 1 .. TextEnd + 2 /\ TextEnd \in Nat
  BY <1>1, InQuotesIs, ReadyIs
<1>3. e = StringEnd[p + 2] /\ (p + 1) + 1 = p + 2
  <2>1. ~(p > TextEnd)
    BY <1>2
  <2>2. e = StringEndAt(StringEnd, p)
    BY <1>1, <1>2, StringEndIs
  <2>3. StringEndAt(StringEnd, p) = StringEnd[p + 2]
    BY <2>1, Zenon DEF StringEndAt
  <2>4. QED
    BY <1>2, <2>2, <2>3
<1>4. Added(s, p) = <<>> /\ w \o <<>> = w
  BY <1>2, AddedIs, ConcatEmptySeq
<1>5. InQuotes(d, s, e, q, p + 1, w \o Added(s, p), l) /\ (p + 1) - 1 = p
  BY <1>1, QuotesGoOn
<1>6. QED
  BY <1>3, <1>4, <1>5 DEF EscapingAt

LEMMA QuotedEscaped ==
  ASSUME Ready, NEW d \in Nat, NEW s, NEW e, NEW q, NEW p, NEW w, NEW l,
         p \in Nat, EscapingAt(d, s, e, q, p, w, l), p <= TextEnd
  PROVE  QuotedAt(d, s, e, q, p + 1, Append(w, EscapeCharacter(text[p])), l)
<1>1. /\ InQuotes(d, s, e, q, p, w, l) /\ e = StringEnd[p + 1] /\ p <= e
      /\ text[p] # Backslash /\ text[p - 1] = Backslash
  BY EscapingIs
<1>2. w \in Seq(Chars) /\ p > s /\ p \in 1 .. TextEnd /\ TextTyped
  BY <1>1, InQuotesIs, ReadyIs
<1>3. PICK c \in Chars : c = EscapeCharacter(text[p])
  BY <1>2, TextIs
<1>4. Added(s, p) = <<c>>
  BY <1>1, <1>2, <1>3, AddedIs
<1>5. InQuotes(d, s, e, q, p + 1, w \o Added(s, p), l) /\ (p + 1) - 1 = p
  BY <1>1, QuotesGoOn
<1>6. w \o <<c>> = Append(w, c)
  BY <1>2, AppendIs
<1>7. w \o Added(s, p) = Append(w, EscapeCharacter(text[p]))
  BY <1>3, <1>4, <1>6
<1>8. PICK v : v = w \o Added(s, p)
  OBVIOUS
<1>9. QuotedAt(d, s, e, q, p + 1, v, l)
  BY <1>1, <1>5, <1>8 DEF QuotedAt
<1>10. QED
  BY <1>7, <1>8, <1>9

\* A character that is none of an escape sequence.
LEMMA QuotedAdds ==
  ASSUME Ready, NEW d \in Nat, NEW s, NEW e, NEW q, NEW p, NEW w, NEW l,
         p \in Nat, QuotedAt(d, s, e, q, p, w, l), p <= TextEnd, text[p] # Backslash
  PROVE  /\ w \o Added(s, p) = Append(w, text[p])
         /\ InQuotes(d, s, e, q, p + 1, w \o Added(s, p), l) /\ (p + 1) - 1 = p
         /\ text[p] = Quote => e = p
         /\ text[p] # Quote => e = StringEnd[p + 1]
<1>1. /\ InQuotes(d, s, e, q, p, w, l) /\ e = StringEnd[p] /\ p <= e
      /\ text[p - 1] # Backslash
  BY QuotedIs
<1>2. w \in Seq(Chars) /\ p \in 1 .. TextEnd /\ TextTyped /\ TextEnd \in Nat
  BY <1>1, InQuotesIs, ReadyIs
<1>3. PICK c \in Chars : c = text[p]
  BY <1>2, TextIs
<1>4. Added(s, p) = <<c>>
  BY <1>1, <1>3, AddedIs
<1>5. w \o <<c>> = Append(w, c)
  BY <1>2, AppendIs
<1>6. InQuotes(d, s, e, q, p + 1, w \o Added(s, p), l) /\ (p + 1) - 1 = p
  BY <1>1, QuotesGoOn
<1>7. /\ text[p] = Quote => e = p
      /\ text[p] # Quote => e = StringEnd[p + 1]
  <2>1. ~(p > TextEnd) /\ p \in 1 .. TextEnd + 2
    BY <1>2
  <2>2. e = StringEndAt(StringEnd, p)
    BY <1>1, <1>2, <2>1, StringEndIs
  <2>3. /\ text[p] = Quote => StringEndAt(StringEnd, p) = p
        /\ text[p] # Quote => StringEndAt(StringEnd, p) = StringEnd[p + 1]
    BY <2>1, Zenon DEF StringEndAt
  <2>4. QED
    BY <2>2, <2>3
<1>8. QED
  BY <1>3, <1>4, <1>5, <1>6, <1>7

LEMMA QuotedNext ==
  ASSUME Ready, NEW d \in Nat, NEW s, NEW e, NEW q, NEW p, NEW w, NEW l,
         p \in Nat, QuotedAt(d, s, e, q, p, w, l), p <= TextEnd,
         text[p] # Backslash, text[p] # Quote
  PROVE  QuotedAt(d, s, e, q, p + 1, Append(w, text[p]), l)
<1>1. /\ w \o Added(s, p) = Append(w, text[p]) /\ e = StringEnd[p + 1]
      /\ InQuotes(d, s, e, q, p + 1, w \o Added(s, p), l) /\ (p + 1) - 1 = p
  BY QuotedAdds
<1>2. QED
  BY <1>1 DEF QuotedAt

LEMMA QuotedCloses ==
  ASSUME Ready, NEW d \in Nat, NEW s, NEW e, NEW q, NEW p, NEW w, NEW l,
         p \in Nat, QuotedAt(d, s, e, q, p, w, l), p <= TextEnd, text[p] = Quote
  PROVE  /\ IsWord(d, s, e) /\ Append(w, text[p]) = Contents(s, e) /\ l = LineOf(s)
         /\ BetweenAt(d + 1, p + 1, <<>>, l)
<1>1. /\ w \o Added(s, p) = Append(w, text[p]) /\ e = p
      /\ InQuotes(d, s, e, q, p + 1, w \o Added(s, p), l) /\ (p + 1) - 1 = p
  BY QuotedAdds, CharactersDiffer
<1>2. InWordAt(d, s, e, p + 1, w \o Added(s, p), l)
  BY <1>1 DEF InQuotes
<1>3. /\ IsWord(d, s, e) /\ l = LineOf(p + 1) /\ l = LineOf(s)
      /\ w \o Added(s, p) = Contents(s, p)
  BY <1>1, <1>2 DEF InWordAt
<1>4. Rest(d + 1, p + 1)
  BY <1>1, <1>3 DEF IsWord
<1>5. QED
  BY <1>1, <1>3, <1>4 DEF BetweenAt

LEMMA QuotesEnd ==
  ASSUME Ready, NEW d \in Nat, NEW s, NEW e, NEW q, NEW p, NEW w, NEW l,
         p \in 1 .. TextEnd + 1, p > TextEnd,
         QuotedAt(d, s, e, q, p, w, l) \/ EscapingAt(d, s, e, q, p, w, l)
  PROVE  IsWord(d, s, e) /\ w = Contents(s, e) /\ l = LineOf(s) /\ Rest(d + 1, TextEnd + 1)
<1>1. p \in Nat /\ p - 1 = TextEnd /\ TextEnd \in Nat
  BY ReadyIs
<1>2. e = TextEnd /\ InQuotes(d, s, e, q, p, w, l)
  BY <1>1, QuotedIs, EscapingIs
<1>3. InWordAt(d, s, e, p, w, l)
  BY <1>2 DEF InQuotes
<1>4. IsWord(d, s, e) /\ w = Contents(s, e) /\ l = LineOf(s)
  BY <1>1, <1>2, <1>3 DEF InWordAt
<1>5. QED
  BY <1>2, <1>4 DEF IsWord

-----------------------------------------------------------------------------
(***************************************************************************)
(* The text does not change, and so do its words                           *)
(***************************************************************************)

LEMMA SameEnds ==
  ASSUME text' = text
  PROVE  /\ TextEnd' = TextEnd /\ StringEnd' = StringEnd /\ WordEnd' = WordEnd
         /\ WordsFrom' = WordsFrom /\ Words' = Words
         /\ InString(Words)' = InString(Words)
         /\ Understandable' = Understandable
         /\ Ready' = Ready
<1>1. TextEnd' = TextEnd
  BY DEF TextEnd
<1>2. StringEnd' = StringEnd
  BY <1>1 DEF StringEnd
<1>3. WordEnd' = WordEnd
  BY <1>1, <1>2 DEF WordEnd
<1>4. WordsFrom' = WordsFrom
  BY <1>1, <1>3 DEF WordsFrom, LineEnd
<1>5. Words' = Words
  BY <1>4 DEF Words
<1>6. InString(Words)' = InString(Words)
  BY <1>5 DEF InString
<1>7. Understandable' = Understandable
  BY <1>1, <1>5 DEF Understandable, Understood, CommentsApart, InString
<1>8. Ready' = Ready
  BY <1>7 DEF Ready, TextTyped
<1>9. QED
  BY <1>1, <1>2, <1>3, <1>4, <1>5, <1>6, <1>7, <1>8

LEMMA SamePlaces ==
  ASSUME text' = text, NEW i, NEW j
  PROVE  /\ LineEnd(i)' = LineEnd(i) /\ LineOf(i)' = LineOf(i)
         /\ Contents(i, j)' = Contents(i, j)
<1>1. LineEnd(i)' = LineEnd(i)
  BY SameEnds DEF LineEnd
<1>2. LineOf(i)' = LineOf(i)
  BY SameEnds DEF LineOf, InString
<1>3. Contents(i, j)' = Contents(i, j)
  BY DEF Contents
<1>4. QED
  BY <1>1, <1>2, <1>3

LEMMA SameRest ==
  ASSUME text' = text, NEW d, NEW i, NEW s, NEW e
  PROVE  EndBefore(d, i)' = EndBefore(d, i) /\ Rest(d, i)' = Rest(d, i) /\ IsWord(d, s, e)' = IsWord(d, s, e)
<1>1. EndBefore(d, i)' = EndBefore(d, i)
  BY SameEnds DEF EndBefore
<1>2. Rest(d, i)' = Rest(d, i)
  BY <1>1, SameEnds DEF Rest
<1>3. IsWord(d, s, e)' = IsWord(d, s, e)
  BY SameEnds DEF IsWord, Rest, EndBefore
<1>4. QED
  BY <1>1, <1>2, <1>3

LEMMA SameBetween ==
  ASSUME text' = text, NEW d, NEW p, NEW w, NEW l
  PROVE  BetweenAt(d, p, w, l) => BetweenAt(d, p, w, l)'
BY SameRest, SamePlaces DEF BetweenAt

LEMMA SameComment ==
  ASSUME text' = text, NEW d, NEW p, NEW w, NEW l
  PROVE  CommentAt(d, p, w, l) => CommentAt(d, p, w, l)'
<1>1. \A j : Rest(d, j) = Rest(d, j)'
  BY SameRest
<1>2. QED
  BY <1>1, SameRest, SamePlaces, SameEnds DEF CommentAt

LEMMA SameInWord ==
  ASSUME text' = text, NEW d, NEW s, NEW e, NEW p, NEW w, NEW l
  PROVE  InWordAt(d, s, e, p, w, l) => InWordAt(d, s, e, p, w, l)'
<1>1. PICK r : r = p - 1
  OBVIOUS
<1>2. Contents(s, r)' = Contents(s, r)
  BY SamePlaces
<1>3. QED
  BY <1>1, <1>2, SameRest, SamePlaces DEF InWordAt

LEMMA SamePlain ==
  ASSUME text' = text, NEW d, NEW s, NEW e, NEW p, NEW w, NEW l
  PROVE  PlainAt(d, s, e, p, w, l) => PlainAt(d, s, e, p, w, l)'
BY SameInWord, SameEnds DEF PlainAt

LEMMA SameQuotes ==
  ASSUME text' = text, NEW d, NEW s, NEW e, NEW q, NEW p, NEW w, NEW l
  PROVE  /\ QuotedAt(d, s, e, q, p, w, l) => QuotedAt(d, s, e, q, p, w, l)'
         /\ EscapingAt(d, s, e, q, p, w, l) => EscapingAt(d, s, e, q, p, w, l)'
<1>1. InQuotes(d, s, e, q, p, w, l) => InQuotes(d, s, e, q, p, w, l)'
  BY SameInWord DEF InQuotes
<1>2. QED
  BY <1>1, SameEnds DEF QuotedAt, EscapingAt

LEMMA SameWords ==
  ASSUME text' = text, NEW t
  PROVE  AreWords(t) => AreWords(t)'
<1>1. \A s, e : Contents(s, e) = Contents(s, e)' /\ LineOf(s)' = LineOf(s)
  BY SamePlaces
<1>2. TextEnd' = TextEnd /\ Words' = Words
  BY SameEnds
<1>3. QED
  BY <1>1, <1>2 DEF AreWords

-----------------------------------------------------------------------------
(***************************************************************************)
(* Every step of the loop                                                  *)
(***************************************************************************)

LEMMA EscapesDiffer ==
  ASSUME NEW c, EscapeCharacter(c) = Backslash
  PROVE  c = Backslash
BY DEF EscapeCharacter, Backslash, Newline

LEMMA SignsDiffer ==
  ASSUME NEW c \in Signs
  PROVE  c \notin Separators \cup {Semicolon, Quote} /\ c \in Stops
BY DEF Signs, Separators, Newline, Semicolon, Quote, Stops

\* A word more is a token.
Done(t, s, e, w, l, v) ==
  /\ Ready /\ t \in Seq(Parsed) /\ AreWords(t) /\ IsWord(Len(t), s, e)
  /\ w \in Spelled /\ w = Contents(s, e) /\ l \in Nat /\ l = LineOf(s)
  /\ v = Append(t, OnLine(Parse(w), l))

LEMMA WordDone ==
  ASSUME NEW t, NEW s, NEW e, NEW w, NEW l, NEW v, Done(t, s, e, w, l, v)
  PROVE  AreWords(v) /\ Len(v) = Len(t) + 1
<1> USE DEF Done
<1>1. PICK d \in Nat : d = Len(t)
  OBVIOUS
<1>2. PICK tok \in Parsed : tok = OnLine(Parse(w), l)
  BY DEF Parsed
<1>3. v = Append(t, tok)
  BY <1>2
<1>4. /\ Len(v) = d + 1 /\ v[d + 1] = tok
      /\ \A n \in 1 .. d : v[n] = t[n]
  BY <1>1, <1>3
<1>5. /\ s \in 1 .. TextEnd /\ e \in 1 .. TextEnd /\ d + 1 <= Len(Words)
      /\ Words[d + 1] = <<s, e>>
  BY <1>1, ReadyIs DEF IsWord
<1>6. ASSUME NEW n \in 1 .. (d + 1)
      PROVE  \E a, b \in 1 .. TextEnd :
               Words[n] = <<a, b>> /\ v[n] = OnLine(Parse(Contents(a, b)), LineOf(a))
  <2>1. CASE n = d + 1
    BY <1>2, <1>4, <1>5, <2>1
  <2>2. CASE n # d + 1
    <3>1. n \in 1 .. d
      BY <2>2
    <3>2. PICK a \in 1 .. TextEnd, b \in 1 .. TextEnd :
            Words[n] = <<a, b>> /\ t[n] = OnLine(Parse(Contents(a, b)), LineOf(a))
      BY <1>1, <3>1 DEF AreWords
    <3>3. v[n] = OnLine(Parse(Contents(a, b)), LineOf(a))
      BY <1>4, <3>1, <3>2
    <3>4. QED
      BY <3>2, <3>3
  <2>3. QED
    BY <2>1, <2>2
<1>7. QED
  BY <1>1, <1>4, <1>5, <1>6 DEF AreWords

\* The loop is at p, and what it knows.
At(t, p, w, l) ==
  /\ Ready /\ AreWords(t)
  /\ t = tokens /\ p = pos /\ w = word /\ l = line
  /\ t \in Seq(Parsed) /\ p \in Nat /\ w \in Seq(Chars) /\ l \in Nat

\* Where it gets.
GetsTo(t, p, w, l) ==
  /\ text' = text /\ AreWords(t)
  /\ t = tokens' /\ p = pos' /\ w = word' /\ l = line'
  /\ phase' \in {"splitting", "threw"}

LEMMA ToReading ==
  ASSUME NEW t, NEW p, NEW w, NEW l, GetsTo(t, p, w, l), Reading(t, p, w, l)'
  PROVE  WordsInv'
BY SameWords DEF WordsInv, GetsTo

LEMMA ToBetween ==
  ASSUME NEW t, NEW p, NEW w, NEW l, GetsTo(t, p, w, l), BetweenAt(Len(t), p, w, l),
         ~begin_quotes', ~begin_comment', ~begin_escape'
  PROVE  WordsInv'
<1>1. BetweenAt(Len(t), p, w, l)'
  BY SameBetween DEF GetsTo
<1>2. Reading(t, p, w, l)'
  BY <1>1 DEF Reading
<1>3. QED
  BY <1>2, ToReading

LEMMA ToComment ==
  ASSUME NEW t, NEW p, NEW w, NEW l, GetsTo(t, p, w, l), CommentAt(Len(t), p, w, l),
         ~begin_quotes', begin_comment', ~begin_escape'
  PROVE  WordsInv'
<1>1. CommentAt(Len(t), p, w, l)'
  BY SameComment DEF GetsTo
<1>2. Reading(t, p, w, l)'
  BY <1>1 DEF Reading
<1>3. QED
  BY <1>2, ToReading

LEMMA ToPlain ==
  ASSUME NEW t, NEW p, NEW w, NEW l, GetsTo(t, p, w, l),
         \E s, e \in 1 .. TextEnd : PlainAt(Len(t), s, e, p, w, l),
         ~begin_quotes', ~begin_comment', ~begin_escape'
  PROVE  WordsInv'
<1>1. PICK s \in 1 .. TextEnd, e \in 1 .. TextEnd : PlainAt(Len(t), s, e, p, w, l)
  OBVIOUS
<1>2. PlainAt(Len(t), s, e, p, w, l)' /\ TextEnd' = TextEnd
  BY <1>1, SamePlain, SameEnds DEF GetsTo
<1>3. Reading(t, p, w, l)'
  BY <1>2 DEF Reading
<1>4. QED
  BY <1>3, ToReading

LEMMA ToQuoted ==
  ASSUME NEW t, NEW p, NEW w, NEW l, GetsTo(t, p, w, l),
         \E s, e, q \in 1 .. TextEnd : QuotedAt(Len(t), s, e, q, p, w, l),
         begin_quotes', ~begin_comment', ~begin_escape'
  PROVE  WordsInv'
<1>1. PICK s \in 1 .. TextEnd, e \in 1 .. TextEnd, q \in 1 .. TextEnd :
        QuotedAt(Len(t), s, e, q, p, w, l)
  OBVIOUS
<1>2. QuotedAt(Len(t), s, e, q, p, w, l)' /\ TextEnd' = TextEnd
  BY <1>1, SameQuotes, SameEnds DEF GetsTo
<1>3. Reading(t, p, w, l)'
  BY <1>2 DEF Reading
<1>4. QED
  BY <1>3, ToReading

LEMMA ToEscaping ==
  ASSUME NEW t, NEW p, NEW w, NEW l, GetsTo(t, p, w, l),
         \E s, e, q \in 1 .. TextEnd : EscapingAt(Len(t), s, e, q, p, w, l),
         begin_quotes', ~begin_comment', begin_escape'
  PROVE  WordsInv'
<1>1. PICK s \in 1 .. TextEnd, e \in 1 .. TextEnd, q \in 1 .. TextEnd :
        EscapingAt(Len(t), s, e, q, p, w, l)
  OBVIOUS
<1>2. EscapingAt(Len(t), s, e, q, p, w, l)' /\ TextEnd' = TextEnd
  BY <1>1, SameQuotes, SameEnds DEF GetsTo
<1>3. Reading(t, p, w, l)'
  BY <1>2 DEF Reading
<1>4. QED
  BY <1>3, ToReading

\* Every position in the text has a character.
LEMMA PositionIs ==
  ASSUME NEW t, NEW p, NEW w, NEW l, At(t, p, w, l), Splitting
  PROVE  p \in 1 .. TextEnd \/ p = 0
BY ReadyIs DEF At, Splitting, TextEnd

LEMMA QuotedEscapeReads ==
  ASSUME NEW t, NEW p, NEW w, NEW l, At(t, p, w, l), Reading(t, p, w, l), QuotedEscape
  PROVE  WordsInv'
<1>1. /\ Ready /\ AreWords(t) /\ t \in Seq(Parsed) /\ p \in Nat /\ p <= TextEnd /\ p = pos
      /\ begin_quotes /\ Char = Backslash
  BY DEF At, QuotedEscape, Splitting, TextEnd
<1>2. /\ GetsTo(t, p + 1, w, l) /\ begin_escape'
      /\ begin_quotes' = begin_quotes /\ begin_comment' = begin_comment
  BY DEF At, QuotedEscape, Splitting, NextChar, NoPush, GetsTo
<1>3. text[p] = Backslash
  BY <1>1, EscapesDiffer DEF Char
<1>4. PICK d \in Nat : d = Len(t)
  BY <1>1
<1>5. ASSUME NEW s, NEW e, NEW q, EscapingAt(d, s, e, q, p, w, l) PROVE FALSE
  BY <1>1, <1>3, <1>5, EscapingIs
<1>6. /\ ~begin_comment
      /\ \E s, e, q \in 1 .. TextEnd : QuotedAt(d, s, e, q, p, w, l)
  BY <1>1, <1>4, <1>5 DEF Reading
<1>7. PICK s \in 1 .. TextEnd, e \in 1 .. TextEnd, q \in 1 .. TextEnd : QuotedAt(d, s, e, q, p, w, l)
  BY <1>6
<1>8. EscapingAt(d, s, e, q, p + 1, w, l)
  BY <1>1, <1>3, <1>7, QuotedBackslash
<1>9. QED
  BY <1>1, <1>2, <1>4, <1>6, <1>8, ToEscaping

LEMMA QuotedCharacterReads ==
  ASSUME NEW t, NEW p, NEW w, NEW l, At(t, p, w, l), Reading(t, p, w, l), QuotedCharacter
  PROVE  WordsInv'
<1>1. /\ Ready /\ AreWords(t) /\ t \in Seq(Parsed) /\ p \in Nat /\ p <= TextEnd /\ p = pos
      /\ w \in Seq(Chars) /\ l \in Nat /\ TextEnd \in Nat
      /\ begin_quotes /\ Char # Backslash
  BY ReadyIs DEF At, QuotedCharacter, Splitting, TextEnd
<1>2. /\ text' = text /\ p + 1 = pos' /\ l = line'
      /\ ~begin_escape' /\ begin_comment' = begin_comment
  BY DEF At, QuotedCharacter, NextChar
<1>3. PICK d \in Nat : d = Len(t)
  BY <1>1
<1>4. ASSUME NEW v, v = Append(w, Char), ~ClosesString
      PROVE  GetsTo(t, p + 1, v, l) /\ begin_quotes'
  BY <1>1, <1>2, <1>4 DEF At, QuotedCharacter, Splitting, NoPush, GetsTo
<1>5. CASE begin_escape
  <2>1. /\ ~begin_comment
        /\ \E s, e, q \in 1 .. TextEnd : EscapingAt(d, s, e, q, p, w, l)
    BY <1>1, <1>3, <1>5 DEF Reading
  <2>2. PICK s \in 1 .. TextEnd, e \in 1 .. TextEnd, q \in 1 .. TextEnd :
          EscapingAt(d, s, e, q, p, w, l)
    BY <2>1
  <2>3. PICK v : v = Append(w, Char) /\ v = Append(w, EscapeCharacter(text[p]))
    BY <1>1, <1>5 DEF Char
  <2>4. QuotedAt(d, s, e, q, p + 1, v, l)
    BY <1>1, <2>2, <2>3, QuotedEscaped
  <2>5. ~ClosesString
    BY <1>5 DEF ClosesString, IsEscaped
  <2>6. GetsTo(t, p + 1, v, l) /\ begin_quotes'
    BY <1>4, <2>3, <2>5
  <2>7. QED
    BY <1>2, <1>3, <2>1, <2>4, <2>6, ToQuoted
<1>6. CASE ~begin_escape
  <2>1. /\ ~begin_comment
        /\ \E s, e, q \in 1 .. TextEnd : QuotedAt(d, s, e, q, p, w, l)
    BY <1>1, <1>3, <1>6 DEF Reading
  <2>2. PICK s \in 1 .. TextEnd, e \in 1 .. TextEnd, q \in 1 .. TextEnd : QuotedAt(d, s, e, q, p, w, l)
    BY <2>1
  <2>3. Char = text[p] /\ text[p] # Backslash
    BY <1>1, <1>6 DEF Char
  <2>4. ClosesString <=> text[p] = Quote
    BY <1>6, <2>3 DEF ClosesString, IsEscaped
  <2>5. PICK v : v = Append(w, Char) /\ v = Append(w, text[p])
    BY <2>3
  <2>6. CASE text[p] # Quote
    <3>1. QuotedAt(d, s, e, q, p + 1, v, l)
      BY <1>1, <2>2, <2>3, <2>5, <2>6, QuotedNext
    <3>2. GetsTo(t, p + 1, v, l) /\ begin_quotes'
      BY <1>4, <2>4, <2>5, <2>6
    <3>3. QED
      BY <1>2, <1>3, <2>1, <3>1, <3>2, ToQuoted
  <2>7. CASE text[p] = Quote
    <3>1. /\ IsWord(d, s, e) /\ v = Contents(s, e) /\ l = LineOf(s)
          /\ BetweenAt(d + 1, p + 1, <<>>, l)
      BY <1>1, <2>2, <2>5, <2>7, QuotedCloses
    <3>2. v \in Spelled
      <4>1. PICK c \in Chars : c = text[p]
        <5>1. p \in 1 .. TextEnd
          BY <1>1, <2>2, InQuotesIs DEF QuotedAt
        <5>2. QED
          BY <1>1, <5>1, ReadyIs, TextIs
      <4>2. Append(w, c) \in Seq(Chars) /\ Append(w, c) # <<>>
        BY <1>1
      <4>3. QED
        BY <2>5, <4>1, <4>2 DEF Spelled
    <3>3. PICK u : u = Append(t, OnLine(Parse(v), l))
      OBVIOUS
    <3>4. AreWords(u) /\ Len(u) = d + 1
      <4>1. Ready /\ t \in Seq(Parsed) /\ AreWords(t) /\ l \in Nat
        BY <1>1
      <4>2. IsWord(Len(t), s, e)
        BY <1>3, <3>1
      <4>3. v = Contents(s, e) /\ l = LineOf(s)
        BY <3>1
      <4>4. AreWords(u) /\ Len(u) = Len(t) + 1
        <5>1. Done(t, s, e, v, l, u)
          BY <3>2, <3>3, <4>1, <4>2, <4>3 DEF Done
        <5>2. QED
          BY <5>1, WordDone
      <4>5. QED
        BY <1>3, <4>4
    <3>5. Push(v) /\ word' = <<>> /\ begin_quotes' = FALSE
      BY <1>1, <2>4, <2>5, <2>7 DEF At, QuotedCharacter
    <3>6. u = tokens' /\ phase' \in {"splitting", "threw"}
      BY <3>3, <3>5 DEF Push, At
    <3>7. GetsTo(u, p + 1, <<>>, l)
      BY <1>2, <3>4, <3>5, <3>6 DEF GetsTo
    <3>8. BetweenAt(Len(u), p + 1, <<>>, l)
      BY <3>1, <3>4
    <3>9. QED
      BY <1>2, <2>1, <3>5, <3>7, <3>8, ToBetween
  <2>8. QED
    BY <2>6, <2>7
<1>7. QED
  BY <1>5, <1>6

LEMMA InCommentReads ==
  ASSUME NEW t, NEW p, NEW w, NEW l, At(t, p, w, l), Reading(t, p, w, l), InComment,
         p \in 1 .. TextEnd
  PROVE  WordsInv'
<1>1. /\ Ready /\ AreWords(t) /\ t \in Seq(Parsed) /\ p \in Nat /\ p = pos
      /\ ~begin_quotes /\ begin_comment
  BY DEF At, InComment
<1>2. PICK d \in Nat : d = Len(t)
  BY <1>1
<1>3. CommentAt(d, p, w, l) /\ ~begin_escape
  BY <1>1, <1>2 DEF Reading
<1>4. Char = text[p]
  BY <1>1, <1>3 DEF Char
<1>5. PICK m : m = IF text[p] = Newline THEN l + 1 ELSE l
  OBVIOUS
<1>6. /\ GetsTo(t, p + 1, w, m) /\ ~begin_escape' /\ ~begin_quotes'
      /\ begin_comment' <=> text[p] # Newline
  BY <1>1, <1>4, <1>5 DEF At, InComment, Splitting, NextChar, NoPush, GetsTo
<1>7. CASE text[p] = Newline
  <2>1. BetweenAt(d, p + 1, w, m)
    BY <1>1, <1>3, <1>5, <1>7, CommentEnds
  <2>2. QED
    BY <1>2, <1>6, <1>7, <2>1, ToBetween
<1>8. CASE text[p] # Newline
  <2>1. CommentAt(d, p + 1, w, m)
    BY <1>1, <1>3, <1>5, <1>8, CommentNext
  <2>2. QED
    BY <1>2, <1>6, <1>8, <2>1, ToComment
<1>9. QED
  BY <1>7, <1>8

\* What the loop reads outside of strings and comments.
LEMMA PlainReads ==
  ASSUME NEW t, NEW p, NEW w, NEW l, At(t, p, w, l), Reading(t, p, w, l), Plain,
         p \in 1 .. TextEnd, NEW d \in Nat, d = Len(t)
  PROVE  /\ ~begin_escape /\ ~begin_quotes /\ ~begin_comment /\ Char = text[p]
         /\ \/ BetweenAt(d, p, w, l)
            \/ \E s, e \in 1 .. TextEnd : PlainAt(d, s, e, p, w, l)
<1>1. ~begin_quotes /\ ~begin_comment /\ p = pos
  BY DEF Plain, At
<1>2. /\ ~begin_escape
      /\ \/ BetweenAt(d, p, w, l)
         \/ \E s, e \in 1 .. TextEnd : PlainAt(d, s, e, p, w, l)
  BY <1>1 DEF Reading
<1>3. QED
  BY <1>1, <1>2 DEF Char

LEMMA StartCommentReads ==
  ASSUME NEW t, NEW p, NEW w, NEW l, At(t, p, w, l), Reading(t, p, w, l), StartComment,
         p \in 1 .. TextEnd
  PROVE  WordsInv'
<1>1. Ready /\ AreWords(t) /\ t \in Seq(Parsed) /\ p \in Nat /\ p <= TextEnd /\ Plain
  BY ReadyIs DEF At, StartComment
<1>2. PICK d \in Nat : d = Len(t)
  BY <1>1
<1>3. /\ ~begin_quotes /\ text[p] = Semicolon
      /\ \/ BetweenAt(d, p, w, l)
         \/ \E s, e \in 1 .. TextEnd : PlainAt(d, s, e, p, w, l)
  BY <1>1, <1>2, PlainReads DEF StartComment
<1>4. /\ GetsTo(t, p + 1, w, l) /\ ~begin_escape' /\ ~begin_quotes' /\ begin_comment'
  BY <1>1, <1>3 DEF At, StartComment, Plain, Splitting, NextChar, NoPush, GetsTo
<1>5. BetweenAt(d, p, w, l)
  BY <1>1, <1>3, PlainNoComment
<1>6. CommentAt(d, p + 1, w, l)
  BY <1>1, <1>3, <1>5, BetweenComment
<1>7. QED
  BY <1>2, <1>4, <1>6, ToComment

LEMMA StartEscapeReads ==
  ASSUME NEW t, NEW p, NEW w, NEW l, At(t, p, w, l), Reading(t, p, w, l), StartEscape,
         p \in 1 .. TextEnd
  PROVE  FALSE
<1>1. Ready /\ t \in Seq(Parsed) /\ p \in Nat /\ p <= TextEnd /\ Plain
  BY ReadyIs DEF At, StartEscape
<1>2. PICK d \in Nat : d = Len(t)
  BY <1>1
<1>3. /\ text[p] = Backslash
      /\ \/ BetweenAt(d, p, w, l)
         \/ \E s, e \in 1 .. TextEnd : PlainAt(d, s, e, p, w, l)
  BY <1>1, <1>2, PlainReads DEF StartEscape
<1>4. QED
  BY <1>1, <1>3, BetweenIs, PlainIs

\* A word without quotes that ends is the next token.
Finishes(t, p, w, l, d, s, e, u) ==
  /\ At(t, p, w, l) /\ d \in Nat /\ d = Len(t)
  /\ PlainAt(d, s, e, p, w, l) /\ (p > TextEnd \/ text[p] \in Stops)
  /\ u = Append(t, OnLine(Parse(w), l))

LEMMA PlainDone ==
  ASSUME NEW t, NEW p, NEW w, NEW l, NEW d, NEW s, NEW e, NEW u,
         Finishes(t, p, w, l, d, s, e, u)
  PROVE  AreWords(u) /\ Len(u) = d + 1 /\ BetweenAt(d + 1, p, <<>>, l)
<1> USE DEF Finishes
<1>1. Ready /\ AreWords(t) /\ t \in Seq(Parsed) /\ p \in Nat /\ l \in Nat
  BY DEF At
<1>2. /\ IsWord(d, s, e) /\ w = Contents(s, e) /\ l = LineOf(s)
      /\ BetweenAt(d + 1, p, <<>>, l)
  BY <1>1, PlainEnds
<1>3. w \in Spelled
  BY <1>1, PlainIs DEF Spelled
<1>4. Done(t, s, e, w, l, u)
  BY <1>1, <1>2, <1>3 DEF Done
<1>5. AreWords(u) /\ Len(u) = d + 1
  BY <1>4, WordDone
<1>6. QED
  BY <1>2, <1>5

\* Whether a word is there or not, Flush leaves none.
LEMMA FlushReads ==
  ASSUME NEW t, NEW p, NEW w, NEW l, At(t, p, w, l), Reading(t, p, w, l), Plain,
         p \in 1 .. TextEnd, text[p] \in Stops, NEW next, Flush(next)
  PROVE  /\ AreWords(tokens') /\ word' = next /\ phase' \in {"splitting", "threw"}
         /\ Len(tokens') \in Nat /\ BetweenAt(Len(tokens'), p, <<>>, l)
<1>1. /\ Ready /\ AreWords(t) /\ t \in Seq(Parsed) /\ p \in Nat /\ w = word /\ l = line
      /\ t = tokens /\ phase = "splitting"
  BY DEF At, Plain, Splitting
<1>2. PICK d \in Nat : d = Len(t)
  BY <1>1
<1>3. PICK u : u = tokens'
  OBVIOUS
<1>4. CASE BetweenAt(d, p, w, l)
  <2>1. w = <<>>
    BY <1>4 DEF BetweenAt
  <2>2. u = t /\ word' = next /\ phase' \in {"splitting", "threw"}
    BY <1>1, <1>3, <2>1 DEF Flush, NoPush
  <2>3. QED
    BY <1>1, <1>2, <1>3, <1>4, <2>1, <2>2
<1>5. CASE \E s, e \in 1 .. TextEnd : PlainAt(d, s, e, p, w, l)
  <2>1. PICK s \in 1 .. TextEnd, e \in 1 .. TextEnd : PlainAt(d, s, e, p, w, l)
    BY <1>5
  <2>2. w # <<>>
    BY <1>1, <2>1, PlainIs
  <2>3. Push(w) /\ word' = next
    BY <1>1, <2>2 DEF Flush
  <2>4. u = Append(t, OnLine(Parse(w), l)) /\ phase' \in {"splitting", "threw"}
    BY <1>1, <1>3, <2>3 DEF Push
  <2>5. AreWords(u) /\ Len(u) = d + 1 /\ BetweenAt(d + 1, p, <<>>, l)
    <3>1. Finishes(t, p, w, l, d, s, e, u)
      BY <1>2, <2>1, <2>4 DEF Finishes
    <3>2. QED
      BY <3>1, PlainDone
  <2>6. QED
    BY <1>2, <1>3, <2>3, <2>4, <2>5
<1>6. QED
  BY <1>2, <1>4, <1>5, PlainReads

LEMMA SeparateReads ==
  ASSUME NEW t, NEW p, NEW w, NEW l, At(t, p, w, l), Reading(t, p, w, l), Separate,
         p \in 1 .. TextEnd
  PROVE  WordsInv'
<1>1. Ready /\ p \in Nat /\ p <= TextEnd /\ Plain /\ t \in Seq(Parsed) /\ p = pos /\ l = line
  BY ReadyIs DEF At, Separate
<1>2. PICK c \in Nat : c = Len(t)
  BY <1>1
<1>3. ~begin_quotes /\ ~begin_comment /\ Char = text[p] /\ text[p] \in Separators
  BY <1>1, <1>2, PlainReads DEF Separate
<1>4. text[p] \in Stops
  BY <1>3 DEF Stops
<1>5. PICK u : u = tokens'
  OBVIOUS
<1>6. PICK m : m = IF text[p] = Newline THEN l + 1 ELSE l
  OBVIOUS
<1>7. Flush(<<>>)
  BY DEF Separate
<1>8. /\ AreWords(u) /\ word' = <<>> /\ phase' \in {"splitting", "threw"}
      /\ Len(u) \in Nat /\ BetweenAt(Len(u), p, <<>>, l)
  BY <1>1, <1>4, <1>5, <1>7, FlushReads
<1>9. BetweenAt(Len(u), p + 1, <<>>, m)
  BY <1>1, <1>3, <1>6, <1>8, BetweenSeparate
<1>10. /\ GetsTo(u, p + 1, <<>>, m)
       /\ ~begin_escape' /\ ~begin_quotes' /\ ~begin_comment'
  BY <1>1, <1>3, <1>5, <1>6, <1>8, SameEnds DEF Separate, NextChar, GetsTo
<1>11. QED
  BY <1>9, <1>10, ToBetween

LEMMA StartSignedReads ==
  ASSUME NEW t, NEW p, NEW w, NEW l, At(t, p, w, l), Reading(t, p, w, l), StartSigned,
         p \in 1 .. TextEnd
  PROVE  WordsInv'
<1>1. Ready /\ p \in Nat /\ p <= TextEnd /\ Plain /\ t \in Seq(Parsed) /\ p = pos /\ l = line
  BY ReadyIs DEF At, StartSigned
<1>2. PICK c \in Nat : c = Len(t)
  BY <1>1
<1>3. ~begin_quotes /\ ~begin_comment /\ Char = text[p] /\ text[p] \in Signs
  BY <1>1, <1>2, PlainReads DEF StartSigned
<1>4. text[p] \in Stops /\ text[p] \notin Separators \cup {Semicolon, Quote}
  BY <1>3, SignsDiffer
<1>5. PICK u : u = tokens'
  OBVIOUS
<1>6. PICK v : v = <<text[p]>> /\ v = <<Char>>
  BY <1>3
<1>7. Flush(v)
  BY <1>6 DEF StartSigned
<1>8. /\ AreWords(u) /\ word' = v /\ phase' \in {"splitting", "threw"}
      /\ Len(u) \in Nat /\ BetweenAt(Len(u), p, <<>>, l)
  BY <1>1, <1>4, <1>5, <1>7, FlushReads
<1>9. PlainAt(Len(u), p, WordEnd[p], p + 1, v, l)
  BY <1>1, <1>4, <1>6, <1>8, BetweenWord
<1>10. p \in 1 .. TextEnd /\ WordEnd[p] \in 1 .. TextEnd
  BY <1>1, ReadyIs, WordEndIs
<1>11. /\ GetsTo(u, p + 1, v, l)
       /\ ~begin_escape' /\ ~begin_quotes' /\ ~begin_comment'
  BY <1>1, <1>3, <1>5, <1>8 DEF StartSigned, NextChar, GetsTo
<1>12. QED
  BY <1>9, <1>10, <1>11, ToPlain

LEMMA AppendCharacterReads ==
  ASSUME NEW t, NEW p, NEW w, NEW l, At(t, p, w, l), Reading(t, p, w, l), AppendCharacter,
         p \in 1 .. TextEnd
  PROVE  WordsInv'
<1>1. /\ Ready /\ AreWords(t) /\ p \in Nat /\ p <= TextEnd /\ Plain /\ t \in Seq(Parsed)
      /\ p = pos /\ TextEnd \in Nat
  BY ReadyIs DEF At, AppendCharacter
<1>2. PICK d \in Nat : d = Len(t)
  BY <1>1
<1>3. /\ ~begin_quotes /\ ~begin_comment /\ Char = text[p]
      /\ text[p] \notin Separators \cup {Semicolon} /\ text[p] \notin Stops
      /\ \/ BetweenAt(d, p, w, l)
         \/ \E s, e \in 1 .. TextEnd : PlainAt(d, s, e, p, w, l)
  BY <1>1, <1>2, PlainReads DEF AppendCharacter, Stops
<1>4. PICK v : v = Append(w, text[p])
  OBVIOUS
<1>5. /\ GetsTo(t, p + 1, v, l) /\ begin_quotes' = (text[p] = Quote)
      /\ ~begin_escape' /\ ~begin_comment'
  BY <1>1, <1>3, <1>4 DEF At, AppendCharacter, Plain, Splitting, NextChar, NoPush, GetsTo
<1>6. CASE BetweenAt(d, p, w, l)
  <2>1. v = <<text[p]>>
    <3>1. w = <<>>
      BY <1>6 DEF BetweenAt
    <3>2. Append(<<>>, text[p]) = <<text[p]>>
      OBVIOUS
    <3>3. QED
      BY <1>4, <3>1, <3>2
  <2>2. p \in 1 .. TextEnd /\ WordEnd[p] \in 1 .. TextEnd
    BY <1>1, ReadyIs, WordEndIs
  <2>3. CASE text[p] = Quote
    <3>1. QuotedAt(d, p, WordEnd[p], p, p + 1, v, l)
      BY <1>1, <1>6, <2>1, <2>3, BetweenQuote
    <3>2. QED
      BY <1>2, <1>5, <2>2, <2>3, <3>1, ToQuoted
  <2>4. CASE text[p] # Quote
    <3>1. PlainAt(d, p, WordEnd[p], p + 1, v, l)
      BY <1>1, <1>3, <1>6, <2>1, <2>4, BetweenWord
    <3>2. QED
      BY <1>2, <1>5, <2>2, <2>4, <3>1, ToPlain
  <2>5. QED
    BY <2>3, <2>4
<1>7. CASE \E s, e \in 1 .. TextEnd : PlainAt(d, s, e, p, w, l)
  <2>1. PICK s \in 1 .. TextEnd, e \in 1 .. TextEnd : PlainAt(d, s, e, p, w, l)
    BY <1>7
  <2>2. CASE text[p] = Quote
    <3>1. QuotedAt(d, s, e, p, p + 1, v, l)
      BY <1>1, <1>4, <2>1, <2>2, PlainQuote
    <3>2. QED
      BY <1>2, <1>5, <2>1, <2>2, <3>1, ToQuoted
  <2>3. CASE text[p] # Quote
    <3>1. PlainAt(d, s, e, p + 1, v, l)
      BY <1>1, <1>3, <1>4, <2>1, <2>3, PlainNext
    <3>2. QED
      BY <1>2, <1>5, <2>1, <2>3, <3>1, ToPlain
  <2>4. QED
    BY <2>2, <2>3
<1>8. QED
  BY <1>3, <1>6, <1>7

\* Behind the text, with a word or without.
Completes(t, w, l) ==
  \A u : u = Append(t, OnLine(Parse(w), l)) => AreWords(u) /\ Len(u) = Len(Words)

LEMMA EndReads ==
  ASSUME NEW t, NEW p, NEW w, NEW l, At(t, p, w, l), Reading(t, p, w, l), p > TextEnd,
         NEW d \in Nat, d = Len(t)
  PROVE  \/ w = <<>> /\ d = Len(Words)
         \/ w # <<>> /\ Completes(t, w, l)
<1>1. Ready /\ AreWords(t) /\ t \in Seq(Parsed) /\ p \in Nat /\ l \in Nat /\ TextEnd \in Nat
  BY ReadyIs DEF At
<1>2. ASSUME Rest(d, p) PROVE d = Len(Words)
  <2>1. p = TextEnd + 1
    BY <1>1, <1>2, RestTyped
  <2>2. QED
    BY <1>1, <1>2, <2>1, RestEnd
<1>3. CASE BetweenAt(d, p, w, l) \/ CommentAt(d, p, w, l)
  BY <1>2, <1>3 DEF BetweenAt, CommentAt
<1>4. ASSUME NEW s, NEW e, PlainAt(d, s, e, p, w, l)
      PROVE  w # <<>> /\ Completes(t, w, l)
  <2>1. w # <<>>
    BY <1>1, <1>4, PlainIs
  <2>2. ASSUME NEW u, u = Append(t, OnLine(Parse(w), l)) PROVE AreWords(u) /\ Len(u) = Len(Words)
    <3>1. Finishes(t, p, w, l, d, s, e, u)
      BY <1>4, <2>2 DEF Finishes
    <3>2. AreWords(u) /\ Len(u) = d + 1 /\ Rest(d + 1, p)
      BY <3>1, PlainDone DEF BetweenAt
    <3>3. p = TextEnd + 1
      BY <1>1, <3>2, RestTyped
    <3>4. d + 1 = Len(Words)
      BY <1>1, <3>2, <3>3, RestEnd
    <3>5. QED
      BY <3>2, <3>4
  <2>3. QED
    BY <2>1, <2>2 DEF Completes
<1>5. ASSUME NEW s, NEW e, NEW q, QuotedAt(d, s, e, q, p, w, l) \/ EscapingAt(d, s, e, q, p, w, l)
      PROVE  w # <<>> /\ Completes(t, w, l)
  <2>1. w \in Seq(Chars) /\ w # <<>> /\ p \in 1 .. TextEnd + 1
    BY <1>1, <1>5, InQuotesIs DEF QuotedAt, EscapingAt
  <2>2. /\ IsWord(d, s, e) /\ w = Contents(s, e) /\ l = LineOf(s)
        /\ Rest(d + 1, TextEnd + 1)
    BY <1>1, <1>5, <2>1, QuotesEnd
  <2>3. d + 1 = Len(Words)
    BY <1>1, <2>2, RestEnd
  <2>4. ASSUME NEW u, u = Append(t, OnLine(Parse(w), l)) PROVE AreWords(u) /\ Len(u) = Len(Words)
    <3>1. Done(t, s, e, w, l, u)
      BY <1>1, <2>1, <2>2, <2>4 DEF Done, Spelled
    <3>2. QED
      BY <2>3, <3>1, WordDone
  <2>5. QED
    BY <2>1, <2>4 DEF Completes
<1>6. QED
  <2>1. \/ BetweenAt(d, p, w, l)
        \/ CommentAt(d, p, w, l)
        \/ \E s, e \in 1 .. TextEnd : PlainAt(d, s, e, p, w, l)
        \/ \E s, e, q \in 1 .. TextEnd :
             QuotedAt(d, s, e, q, p, w, l) \/ EscapingAt(d, s, e, q, p, w, l)
    BY DEF Reading
  <2>2. QED
    BY <1>3, <1>4, <1>5, <2>1, Zenon

LEMMA EndOfTextReads ==
  ASSUME NEW t, NEW p, NEW w, NEW l, At(t, p, w, l), Reading(t, p, w, l), EndOfText
  PROVE  WordsInv'
<1>1. /\ Ready /\ AreWords(t) /\ t \in Seq(Parsed) /\ p > TextEnd /\ w = word /\ l = line
      /\ t = tokens /\ text' = text
  BY DEF At, EndOfText, TextEnd
<1>2. PICK d \in Nat : d = Len(t)
  BY <1>1
<1>3. PICK u : u = tokens'
  OBVIOUS
<1>4. CASE w = <<>>
  <2>1. phase' = "split" /\ u = t
    BY <1>1, <1>3, <1>4 DEF EndOfText
  <2>2. d = Len(Words)
    BY <1>1, <1>2, <1>4, EndReads
  <2>3. AreWords(u)' /\ Words' = Words
    BY <1>1, <2>1, SameWords, SameEnds
  <2>4. QED
    BY <1>2, <1>3, <2>1, <2>2, <2>3 DEF WordsInv
<1>5. CASE w # <<>>
  <2>1. u = Append(t, OnLine(Parse(w), l)) /\ phase' \in {"split", "threw"}
    BY <1>1, <1>3, <1>5 DEF EndOfText
  <2>2. AreWords(u) /\ Len(u) = Len(Words)
    <3>1. u = Append(t, OnLine(Parse(w), l))
      BY <2>1
    <3>2. Completes(t, w, l)
      BY <1>1, <1>2, <1>5, EndReads
    <3>3. QED
      BY <3>1, <3>2 DEF Completes
  <2>3. AreWords(u)' /\ Words' = Words
    BY <1>1, <2>2, SameWords, SameEnds
  <2>4. QED
    BY <1>3, <2>1, <2>2, <2>3 DEF WordsInv
<1>6. QED
  BY <1>4, <1>5

LEMMA WordsStep ==
  ASSUME SplitInv, WordsInv, SplitNext
  PROVE  WordsInv'
<1>1. text' = text
  BY DEF SplitNext, QuotedEscape, QuotedCharacter, InComment, StartComment, StartEscape,
         StartSigned, Separate, AppendCharacter, EndOfText, NextChar
<1>2. phase = "splitting"
  BY DEF SplitNext, QuotedEscape, QuotedCharacter, InComment, StartComment, StartEscape,
         StartSigned, Separate, AppendCharacter, EndOfText, Plain, Splitting
<1>3. CASE ~Understandable
  BY <1>1, <1>3, SameEnds DEF WordsInv
<1>4. CASE Understandable
  <2>1. PICK t \in {tokens}, p \in {pos}, w \in {word}, l \in {line} :
          AreWords(t) /\ Reading(t, p, w, l)
    BY <1>2, <1>4 DEF WordsInv
  <2>2. At(t, p, w, l)
    BY <1>4, <2>1 DEF At, Ready, TextTyped, SplitInv
  <2>3. ASSUME Splitting PROVE p \in 1 .. TextEnd
    <3>1. p # 0
      BY <2>1 DEF SplitInv
    <3>2. QED
      BY <2>2, <2>3, <3>1, PositionIs
  <2>4. CASE QuotedEscape
    BY <2>1, <2>2, <2>4, QuotedEscapeReads
  <2>5. CASE QuotedCharacter
    BY <2>1, <2>2, <2>5, QuotedCharacterReads
  <2>6. CASE InComment
    BY <2>1, <2>2, <2>3, <2>6, InCommentReads DEF InComment
  <2>7. CASE StartComment
    BY <2>1, <2>2, <2>3, <2>7, StartCommentReads DEF StartComment, Plain
  <2>8. CASE StartEscape
    BY <2>1, <2>2, <2>3, <2>8, StartEscapeReads DEF StartEscape, Plain
  <2>9. CASE StartSigned
    BY <2>1, <2>2, <2>3, <2>9, StartSignedReads DEF StartSigned, Plain
  <2>10. CASE Separate
    BY <2>1, <2>2, <2>3, <2>10, SeparateReads DEF Separate, Plain
  <2>11. CASE AppendCharacter
    BY <2>1, <2>2, <2>3, <2>11, AppendCharacterReads DEF AppendCharacter, Plain
  <2>12. CASE EndOfText
    BY <2>1, <2>2, <2>12, EndOfTextReads
  <2>13. QED
    BY <2>4, <2>5, <2>6, <2>7, <2>8, <2>9, <2>10, <2>11, <2>12 DEF SplitNext
<1>5. QED
  BY <1>3, <1>4

LEMMA WordsSame ==
  ASSUME WordsInv, UNCHANGED splitVars
  PROVE  WordsInv'
<1>1. /\ text' = text /\ pos' = pos /\ word' = word /\ line' = line /\ tokens' = tokens
      /\ phase' = phase /\ begin_quotes' = begin_quotes /\ begin_comment' = begin_comment
      /\ begin_escape' = begin_escape
  BY DEF splitVars
<1>2. Understandable' = Understandable /\ TextEnd' = TextEnd /\ Words' = Words
  BY <1>1, SameEnds
<1>3. ASSUME NEW t, AreWords(t) PROVE AreWords(t)'
  BY <1>1, <1>3, SameWords
<1>4. ASSUME NEW t, NEW p, NEW w, NEW l, Reading(t, p, w, l) PROVE Reading(t, p, w, l)'
  <2>1. PICK d : d = Len(t)
    OBVIOUS
  <2>2. BetweenAt(d, p, w, l) => BetweenAt(d, p, w, l)'
    BY <1>1, SameBetween
  <2>3. CommentAt(d, p, w, l) => CommentAt(d, p, w, l)'
    BY <1>1, SameComment
  <2>4. \A s, e : PlainAt(d, s, e, p, w, l) => PlainAt(d, s, e, p, w, l)'
    BY <1>1, SamePlain
  <2>5. \A s, e, q : /\ QuotedAt(d, s, e, q, p, w, l) => QuotedAt(d, s, e, q, p, w, l)'
                     /\ EscapingAt(d, s, e, q, p, w, l) => EscapingAt(d, s, e, q, p, w, l)'
    BY <1>1, SameQuotes
  <2>6. QED
    BY <1>1, <1>2, <1>4, <2>1, <2>2, <2>3, <2>4, <2>5 DEF Reading
<1>5. QED
  BY <1>1, <1>2, <1>3, <1>4 DEF WordsInv

LEMMA WordsInitially ==
  ASSUME SplitInit, SplitInv
  PROVE  WordsInv
<1> SUFFICES ASSUME Understandable PROVE WordsInv
  BY DEF WordsInv
<1>1. Ready /\ TextEnd \in Nat
  BY ReadyIs DEF Ready, TextTyped, SplitInv
<1>2. /\ tokens = <<>> /\ pos = 1 /\ word = <<>> /\ line = 1 /\ phase = "splitting"
      /\ ~begin_quotes /\ ~begin_comment /\ ~begin_escape
  BY DEF SplitInit
<1>3. PICK t : t = <<>> /\ Len(t) = 0
  OBVIOUS
<1>4. AreWords(t)
  <2>1. Len(Words) \in Nat
    BY <1>1, WordsAre
  <2>2. QED
    BY <1>3, <2>1 DEF AreWords
<1>5. BetweenAt(0, 1, <<>>, 1)
  BY <1>1, RestStart, FirstLine DEF BetweenAt
<1>6. Reading(t, 1, <<>>, 1)
  BY <1>2, <1>3, <1>5 DEF Reading
<1>7. QED
  BY <1>2, <1>3, <1>4, <1>6 DEF WordsInv

LEMMA WordsInvariant == Spec => []WordsInv
<1>1. Init => WordsInv
  BY SplitInitially, WordsInitially DEF Init
<1>2. SplitInv /\ WordsInv /\ [Next]_allVars => WordsInv'
  <2> SUFFICES ASSUME SplitInv, WordsInv, [Next]_allVars PROVE WordsInv'
    OBVIOUS
  <2>1. SplitNext \/ UNCHANGED splitVars
    BY DEF Next, Split, Evaluate, Stopped, allVars
  <2>2. QED
    BY <2>1, WordsStep, WordsSame
<1>3. QED
  BY <1>1, <1>2, SplitInvariant, PTL DEF Spec

LEMMA TokensFollow ==
  ASSUME SplitInv, WordsInv
  PROVE  TokensAreTheWords
<1> DEFINE newlinesBefore(i) == { j \in 1 .. (i - 1) : text[j] = Newline }
           Wanted(n) ==
             LET first == Words[n][1]
             IN  /\ tokens[n] = OnLine(Parse(Contents(first, Words[n][2])), tokens[n].line)
                 /\ newlinesBefore(first) \cap InString(Words) = {} =>
                      tokens[n].line = 1 + Cardinality(newlinesBefore(first))
<1>1. SUFFICES ASSUME phase = "split", Understandable
               PROVE  Len(tokens) = Len(Words) /\ \A n \in 1 .. Len(Words) : Wanted(n)
  BY DEF TokensAreTheWords, Understandable
<1>2. AreWords(tokens) /\ Len(tokens) = Len(Words)
  BY <1>1 DEF WordsInv
<1>3. ASSUME NEW n \in 1 .. Len(Words) PROVE Wanted(n)
  <2>1. PICK s \in 1 .. TextEnd, e \in 1 .. TextEnd :
          Words[n] = <<s, e>> /\ tokens[n] = OnLine(Parse(Contents(s, e)), LineOf(s))
    BY <1>2 DEF AreWords
  <2>2. <<s, e>>[1] = s /\ <<s, e>>[2] = e
    OBVIOUS
  <2>3. Words[n][1] = s /\ Words[n][2] = e
    BY <2>1, <2>2
  <2>4. tokens[n].line = LineOf(s)
    BY <2>1 DEF OnLine
  <2>5. ASSUME newlinesBefore(s) \cap InString(Words) = {}
        PROVE  LineOf(s) = 1 + Cardinality(newlinesBefore(s))
    <3>1. { j \in 1 .. (s - 1) : text[j] = Newline /\ j \notin InString(Words) } = newlinesBefore(s)
      BY <2>5
    <3>2. QED
      BY <3>1 DEF LineOf
  <2>6. QED
    BY <2>1, <2>3, <2>4, <2>5
<1>4. QED
  BY <1>2, <1>3

(***************************************************************************)
(* Whatever the text and the reserved names, once the whole text is split  *)
(* the tokens are its words, found without the flags of the loop: in their *)
(* order, with the escape sequences of their strings replaced, and with    *)
(* the line each starts on unless the end of a line is in a string before  *)
(* it (raw_split.cpp:36-94).                                               *)
(***************************************************************************)
THEOREM WordsBecomeTokens == Spec => []TokensAreTheWords
BY SplitInvariant, WordsInvariant, TokensFollow, PTL

-----------------------------------------------------------------------------
(***************************************************************************)
(* Additive texts: every word is a sign or a number                        *)
(***************************************************************************)

LEMMA DigitsAre ==
  /\ Digits = {"0", "1", "2", "3", "4", "5", "6", "7", "8", "9"}
  /\ DigitMap(Decimal) /\ DOMAIN Decimal = Digits
<1>1. Digits = { Numerals[i] : i \in 1 .. 10 }
  BY DEF Digits, Decimal, ToBase
<1>2. /\ Numerals[1] = "0" /\ Numerals[2] = "1" /\ Numerals[3] = "2" /\ Numerals[4] = "3"
      /\ Numerals[5] = "4" /\ Numerals[6] = "5" /\ Numerals[7] = "6" /\ Numerals[8] = "7"
      /\ Numerals[9] = "8" /\ Numerals[10] = "9"
  BY DEF Numerals
<1>3. Digits = {"0", "1", "2", "3", "4", "5", "6", "7", "8", "9"}
  <2>1. \A i : i \in 1 .. 10 <=> i \in {1, 2, 3, 4, 5, 6, 7, 8, 9, 10}
    OBVIOUS
  <2>2. Digits = { Numerals[i] : i \in {1, 2, 3, 4, 5, 6, 7, 8, 9, 10} }
    BY <1>1, <2>1
  <2>3. QED
    BY <1>2, <2>2
<1>4. DigitMap(Decimal)
  <2>1. 10 \in 1 .. 16
    OBVIOUS
  <2>2. QED
    BY <2>1, BaseMap DEF Decimal
<1>5. QED
  BY <1>3, <1>4 DEF Digits

\* What a digit is not.
LEMMA DigitDiffers ==
  ASSUME NEW c \in Digits
  PROVE  /\ c \notin Stops /\ c \notin Separators /\ c \notin Signs /\ c # Quote /\ c # Backslash
         /\ c \notin {"+", "-", "x", "b", ".", ":", "'", "<", ">", "/", "%", "|", "&", "^", "~"}
BY DigitsAre DEF Stops, Separators, Signs, Newline, Quote, Backslash, Semicolon

LEMMA AdditiveIs ==
  ASSUME Additive, NEW i \in 1 .. TextEnd
  PROVE  /\ text[i] # Backslash /\ text[i] # Semicolon /\ text[i] # Quote
         /\ text[i] \in Separators \/ text[i] \in {"+", "-"} \/ text[i] \in Digits
         /\ text[i] \notin Stops => text[i] \in Digits
         /\ text[i] \notin Separators /\ text[i] \in Stops => text[i] \in {"+", "-"}
<1>1. text[i] \in Digits \/ text[i] = "+" \/ text[i] = "-" \/ text[i] = " "
  BY DEF Additive
<1>2. CASE text[i] \in Digits
  BY <1>2, DigitDiffers DEF Stops
<1>3. CASE text[i] = "+" \/ text[i] = "-" \/ text[i] = " "
  BY <1>3 DEF Separators, Signs, Stops, Newline, Semicolon, Quote, Backslash
<1>4. QED
  BY <1>1, <1>2, <1>3

\* Nothing in such a text is excluded by TokensAreTheWords.
LEMMA AdditiveReady ==
  ASSUME Additive, TextTyped
  PROVE  Ready
<1>1. Understood(InString(Words))
  BY AdditiveIs DEF Understood
<1>2. CommentsApart(Words, InString(Words))
  <2>1. TextEnd \in Nat
    BY TextIs
  <2>2. ASSUME NEW w \in ToSet(Words), w[2] < TextEnd, text[w[2] + 1] = Semicolon PROVE FALSE
    <3>1. PICK n \in 1 .. Len(Words) : w = Words[n]
      BY <2>1, WordsAre DEF ToSet, OrderedFrom
    <3>2. w[2] \in 1 .. TextEnd
      BY <2>1, <3>1, WordsAre DEF IsSpan
    <3>3. w[2] + 1 \in 1 .. TextEnd
      BY <2>1, <2>2, <3>2
    <3>4. QED
      BY <2>2, <3>3, AdditiveIs
  <2>3. QED
    BY <2>2 DEF CommentsApart
<1>3. QED
  BY <1>1, <1>2 DEF Ready, Understandable

\* The word that has a character at s goes on with digits, up to its end.
RunsFrom(s) ==
  /\ \A k \in (s + 1) .. WordEnd[s] : text[k] \in Digits
  /\ WordEnd[s] = TextEnd \/ text[WordEnd[s] + 1] \in Stops

LEMMA WordRuns ==
  ASSUME Additive, TextTyped
  PROVE  \A s \in 1 .. TextEnd : RunsFrom(s)
<1>1. PICK z \in Nat : z = TextEnd
  BY TextIs
<1>2. PICK S : S = { s \in 1 .. z : RunsFrom(s) }
  OBVIOUS
<1>3. ASSUME NEW s \in 1 .. z, \A n \in (s + 1) .. z : n \in S PROVE RunsFrom(s)
  <2>1. /\ text[s] # Quote /\ WordEnd[s] = WordEndAt(WordEnd, s)
        /\ WordEnd[s] \in s .. z
    BY <1>1, AdditiveIs, WordEndIs
  <2>2. CASE s = z \/ text[s + 1] \in Stops
    <3>1. WordEnd[s] = s
      BY <1>1, <2>1, <2>2 DEF WordEndAt
    <3>2. QED
      BY <1>1, <2>2, <3>1 DEF RunsFrom
  <2>3. CASE ~(s = z \/ text[s + 1] \in Stops)
    <3>1. PICK r \in 1 .. z : r = s + 1 /\ r \in S
      BY <1>3, <2>3
    <3>2. WordEnd[s] = WordEnd[r]
      BY <1>1, <2>1, <2>3, <3>1 DEF WordEndAt
    <3>3. RunsFrom(r) /\ text[r] \in Digits
      BY <1>1, <1>2, <2>3, <3>1, AdditiveIs
    <3>4. \A k \in (s + 1) .. WordEnd[s] : text[k] \in Digits
      <4>1. \A k \in (s + 1) .. WordEnd[s] : k = r \/ k \in (r + 1) .. WordEnd[s]
        BY <2>1, <3>1
      <4>2. QED
        BY <3>2, <3>3, <4>1 DEF RunsFrom
    <3>5. QED
      BY <3>2, <3>3, <3>4 DEF RunsFrom
  <2>4. QED
    BY <2>2, <2>3
<1>4. \A s \in 1 .. z : (\A n \in (s + 1) .. z : n \in S) => s \in S
  BY <1>2, <1>3
<1>5. \A s \in 1 .. z : s \in S
  BY <1>4, BackInduction
<1>6. QED
  BY <1>1, <1>2, <1>5

\* Every character from i on is in a word, or separates words.
InSpan(k, v) == v[1] <= k /\ k <= v[2]

Covered(w, i) ==
  /\ \A k \in i .. TextEnd :
       text[k] \in Separators \/ \E n \in 1 .. Len(w) : InSpan(k, w[n])
  /\ \A n \in 1 .. Len(w) : text[w[n][1]] \notin Separators

LEMMA WordsCover ==
  ASSUME Additive, TextTyped
  PROVE  Covered(Words, 1)
<1>1. PICK z \in Nat, m \in Nat : z = TextEnd /\ m = z + 1
  BY TextIs
<1>2. PICK S : S = { i \in 1 .. m : Covered(WordsFrom[i], i) }
  OBVIOUS
<1>3. ASSUME NEW i \in 1 .. m, \A n \in (i + 1) .. m : n \in S PROVE Covered(WordsFrom[i], i)
  <2>1. WordsFrom[i] = WordsAt(WordsFrom, i)
    BY <1>1, WordsFromIs
  <2>2. CASE i > z
    <3>1. PICK w : w = WordsFrom[i] /\ w = <<>> /\ Len(w) = 0
      BY <1>1, <2>1, <2>2, WordsAtIs
    <3>2. Covered(w, i)
      BY <1>1, <2>2, <3>1 DEF Covered
    <3>3. QED
      BY <3>1, <3>2
  <2>3. CASE i <= z /\ text[i] \in Separators
    <3>1. i + 1 \in S
      BY <1>1, <1>3, <2>3
    <3>2. PICK w : w = WordsFrom[i] /\ w = WordsFrom[i + 1]
      BY <1>1, <2>1, <2>3 DEF WordsAt
    <3>3. Covered(w, i + 1)
      BY <1>2, <3>1, <3>2
    <3>4. \A k \in i .. z : k = i \/ k \in (i + 1) .. z
      OBVIOUS
    <3>5. Covered(w, i)
      BY <1>1, <2>3, <3>3, <3>4 DEF Covered
    <3>6. QED
      BY <3>2, <3>5
  <2>4. CASE i <= z /\ text[i] \notin Separators
    <3>1. i \in 1 .. TextEnd /\ text[i] # Semicolon
      BY <1>1, <2>4, AdditiveIs
    <3>2. PICK e \in i .. z : e = WordEnd[i]
      BY <1>1, <3>1, WordEndIs
    <3>3. PICK v : v = WordsFrom[e + 1] /\ e + 1 \in (i + 1) .. m /\ v \in OrderedFrom(e + 1)
      BY <1>1, <3>2, WordsFromIs
    <3>4. Covered(v, e + 1)
      BY <1>2, <1>3, <3>3
    <3>5. PICK w : w = WordsFrom[i] /\ w = <<<<i, e>>>> \o v
      <4>1. ~(i > TextEnd)
        BY <1>1, <3>1
      <4>2. WordsAt(WordsFrom, i) = WordThen(i, WordsFrom[WordEnd[i] + 1])
        BY <2>4, <3>1, <4>1, Zenon DEF WordsAt
      <4>3. WordsFrom[i] = WordThen(i, v)
        BY <2>1, <3>2, <3>3, <4>2
      <4>4. WordThen(i, v) = <<<<i, e>>>> \o v
        BY <3>2, Zenon DEF WordThen
      <4>5. QED
        BY <4>3, <4>4
    <3>6. /\ Len(w) = Len(v) + 1 /\ w[1] = <<i, e>> /\ Len(v) \in Nat
          /\ \A n \in 1 .. Len(v) : w[n + 1] = v[n]
      BY <1>1, <3>1, <3>2, <3>3, <3>5, OneMore, SpansAre
    <3>7. <<i, e>>[1] = i /\ <<i, e>>[2] = e
      OBVIOUS
    <3>8. ASSUME NEW k \in i .. z, text[k] \notin Separators
          PROVE  \E n \in 1 .. Len(w) : InSpan(k, w[n])
      <4>1. CASE k <= e
        <5>1. InSpan(k, w[1]) /\ 1 \in 1 .. Len(w)
          BY <3>6, <3>7, <4>1 DEF InSpan
        <5>2. QED
          BY <5>1
      <4>2. CASE k > e
        <5>1. k \in (e + 1) .. TextEnd
          BY <1>1, <4>2
        <5>2. PICK n \in 1 .. Len(v) : InSpan(k, v[n])
          BY <3>4, <3>8, <5>1 DEF Covered
        <5>3. n + 1 \in 1 .. Len(w) /\ InSpan(k, w[n + 1])
          BY <3>6, <5>2
        <5>4. QED
          BY <5>3
      <4>3. QED
        BY <4>1, <4>2
    <3>9. Covered(w, i)
      <4>1. ASSUME NEW n \in 1 .. Len(w) PROVE text[w[n][1]] \notin Separators
        <5>1. CASE n = 1
          BY <2>4, <3>6, <3>7, <5>1
        <5>2. CASE n # 1
          <6>1. PICK r \in 1 .. Len(v) : n = r + 1
            <7>1. n - 1 \in 1 .. Len(v) /\ n = (n - 1) + 1
              BY <3>6, <5>2
            <7>2. QED
              BY <7>1
          <6>2. w[n] = v[r]
            BY <3>6, <6>1
          <6>3. QED
            BY <3>4, <6>1, <6>2 DEF Covered
        <5>3. QED
          BY <5>1, <5>2
      <4>2. QED
        BY <1>1, <3>8, <4>1 DEF Covered
    <3>10. QED
      BY <3>5, <3>9
  <2>5. QED
    BY <2>2, <2>3, <2>4
<1>4. \A i \in 1 .. m : (\A n \in (i + 1) .. m : n \in S) => i \in S
  BY <1>2, <1>3
<1>5. \A i \in 1 .. m : i \in S
  BY <1>4, BackInduction
<1>6. QED
  BY <1>1, <1>2, <1>5 DEF Words

\* Where word n begins and ends, and whether it is a number.
StartOf(n) == Words[n][1]
EndOf(n) == Words[n][2]
IsNumber(n) == text[EndOf(n)] \in Digits

WordIs(n) ==
  /\ StartOf(n) \in 1 .. TextEnd /\ EndOf(n) \in StartOf(n) .. TextEnd
  /\ Words[n] = <<StartOf(n), EndOf(n)>>
  /\ text[StartOf(n)] \notin Separators
  /\ \A k \in (StartOf(n) + 1) .. EndOf(n) : text[k] \in Digits
  /\ EndOf(n) = TextEnd \/ text[EndOf(n) + 1] \in Stops
  /\ \A m \in 1 .. (n - 1) : EndOf(m) < StartOf(n)

LEMMA WordsPlaced ==
  ASSUME Additive, TextTyped
  PROVE  /\ TextEnd \in Nat /\ Len(Words) \in Nat
         /\ \A n \in 1 .. Len(Words) : WordIs(n)
         /\ \A k \in 1 .. TextEnd :
              \/ text[k] \in Separators
              \/ \E n \in 1 .. Len(Words) : StartOf(n) <= k /\ k <= EndOf(n)
<1>1. TextEnd \in Nat
  BY TextIs
<1>2. ASSUME NEW n \in 1 .. Len(Words) PROVE WordIs(n)
  <2>1. IsSpan(Words[n], 1) /\ \A m \in 1 .. (n - 1) : EndOf(m) < StartOf(n)
    BY <1>1, WordsAre DEF StartOf, EndOf
  <2>2. /\ StartOf(n) \in 1 .. TextEnd /\ EndOf(n) \in StartOf(n) .. TextEnd
        /\ Words[n] = <<StartOf(n), EndOf(n)>> /\ EndOf(n) = WordEnd[StartOf(n)]
    BY <2>1 DEF IsSpan, StartOf, EndOf
  <2>3. RunsFrom(StartOf(n))
    BY <2>2, WordRuns
  <2>4. text[StartOf(n)] \notin Separators
    BY WordsCover DEF Covered, StartOf
  <2>5. QED
    BY <2>1, <2>2, <2>3, <2>4 DEF WordIs, RunsFrom
<1>3. ASSUME NEW k \in 1 .. TextEnd, text[k] \notin Separators
      PROVE  \E n \in 1 .. Len(Words) : StartOf(n) <= k /\ k <= EndOf(n)
  BY <1>3, WordsCover DEF Covered, InSpan, StartOf, EndOf
<1>4. QED
  BY <1>1, <1>2, <1>3, WordsAre

\* Words are in their order.
LEMMA WordsOrdered ==
  ASSUME Additive, TextTyped, NEW m \in 1 .. Len(Words), NEW n \in 1 .. Len(Words)
  PROVE  /\ m < n => EndOf(m) < StartOf(n)
         /\ StartOf(m) <= EndOf(n) /\ StartOf(n) <= EndOf(m) => m = n
<1>1. Len(Words) \in Nat /\ WordIs(m) /\ WordIs(n) /\ TextEnd \in Nat
  BY WordsPlaced
<1>2. /\ StartOf(m) \in Nat /\ EndOf(m) \in Nat /\ StartOf(n) \in Nat /\ EndOf(n) \in Nat
  BY <1>1 DEF WordIs
<1>3. /\ m < n => EndOf(m) < StartOf(n)
      /\ n < m => EndOf(n) < StartOf(m)
  <2>1. /\ m < n => m \in 1 .. (n - 1)
        /\ n < m => n \in 1 .. (m - 1)
    BY <1>1
  <2>2. QED
    BY <1>1, <2>1 DEF WordIs
<1>4. QED
  BY <1>1, <1>2, <1>3

\* What is in front of a word: a separator, or the end of another.
LEMMA BeforeWord ==
  ASSUME Additive, TextTyped, NEW n \in 1 .. Len(Words), StartOf(n) # 1
  PROVE  \/ text[StartOf(n) - 1] \in Separators
         \/ text[StartOf(n)] \in Stops /\ \E m \in 1 .. Len(Words) : EndOf(m) = StartOf(n) - 1
<1>1. WordIs(n) /\ Len(Words) \in Nat /\ TextEnd \in Nat
  BY WordsPlaced
<1>2. PICK s \in 2 .. TextEnd, k \in 1 .. TextEnd : s = StartOf(n) /\ k = s - 1
  <2>1. StartOf(n) \in 2 .. TextEnd /\ StartOf(n) - 1 \in 1 .. TextEnd
    BY <1>1 DEF WordIs
  <2>2. QED
    BY <2>1
<1>3. SUFFICES ASSUME text[k] \notin Separators
               PROVE  text[s] \in Stops /\ \E m \in 1 .. Len(Words) : EndOf(m) = k
  BY <1>2
<1>4. PICK m \in 1 .. Len(Words) : StartOf(m) <= k /\ k <= EndOf(m)
  BY <1>3, WordsPlaced
<1>5. WordIs(m)
  BY WordsPlaced
<1>6. EndOf(m) = k
  <2>1. EndOf(m) \in Nat /\ StartOf(m) \in Nat /\ EndOf(n) \in Nat /\ s <= EndOf(n)
    BY <1>1, <1>2, <1>5 DEF WordIs
  <2>2. m = n => k >= s
    BY <1>2, <1>4
  <2>3. EndOf(m) < s
    BY <1>1, <1>2, <1>4, <2>1, <2>2, WordsOrdered
  <2>4. QED
    BY <1>2, <1>4, <2>1, <2>3
<1>7. text[s] \in Stops
  BY <1>1, <1>2, <1>5, <1>6 DEF WordIs
<1>8. QED
  BY <1>6, <1>7

\* A number has no digit in front of it.
LEMMA NumberApart ==
  ASSUME Additive, TextTyped, NEW n \in 1 .. Len(Words), StartOf(n) # 1,
         text[StartOf(n)] \in Digits
  PROVE  text[StartOf(n) - 1] \notin Digits
BY BeforeWord, DigitDiffers

\* A word is a number, or a sign alone.
LEMMA WordKinds ==
  ASSUME Additive, TextTyped, NEW n \in 1 .. Len(Words)
  PROVE  /\ text[StartOf(n)] \in Digits \/ text[StartOf(n)] \in {"+", "-"}
         /\ text[StartOf(n)] \in Digits => IsNumber(n)
         /\ EndOf(n) # StartOf(n) => IsNumber(n)
         /\ ~IsNumber(n) => EndOf(n) = StartOf(n) /\ text[StartOf(n)] \in {"+", "-"}
<1>1. WordIs(n) /\ TextEnd \in Nat
  BY WordsPlaced
<1>2. text[StartOf(n)] \in Digits \/ text[StartOf(n)] \in {"+", "-"}
  BY <1>1, AdditiveIs DEF WordIs
<1>3. EndOf(n) # StartOf(n) => EndOf(n) \in (StartOf(n) + 1) .. EndOf(n)
  BY <1>1 DEF WordIs
<1>4. EndOf(n) # StartOf(n) => IsNumber(n)
  BY <1>1, <1>3 DEF WordIs, IsNumber
<1>5. QED
  BY <1>2, <1>4 DEF IsNumber

\* Numbers end where words that are numbers end.
LEMMA EndsAre ==
  ASSUME Additive, TextTyped
  PROVE  NumberEnds = { EndOf(n) : n \in { m \in 1 .. Len(Words) : IsNumber(m) } }
<1>1. TextEnd \in Nat /\ Len(Words) \in Nat
  BY WordsPlaced
<1>2. ASSUME NEW k \in NumberEnds
      PROVE  \E n \in 1 .. Len(Words) : IsNumber(n) /\ k = EndOf(n)
  <2>1. k \in 1 .. TextEnd /\ text[k] \in Digits /\ (k = TextEnd \/ text[k + 1] \notin Digits)
    BY DEF NumberEnds
  <2>2. text[k] \notin Separators
    BY <2>1, DigitDiffers
  <2>3. PICK n \in 1 .. Len(Words) : StartOf(n) <= k /\ k <= EndOf(n)
    BY <2>1, <2>2, WordsPlaced
  <2>4. WordIs(n)
    BY WordsPlaced
  <2>5. PICK s \in Nat, e \in Nat : s = StartOf(n) /\ e = EndOf(n) /\ e <= TextEnd
    BY <1>1, <2>4 DEF WordIs
  <2>6. k < e => k + 1 \in (s + 1) .. e
    BY <1>1, <2>1, <2>3, <2>5
  <2>7. k < e => text[k + 1] \in Digits
    BY <2>4, <2>5, <2>6 DEF WordIs
  <2>8. k = e
    BY <1>1, <2>1, <2>3, <2>5, <2>7
  <2>9. QED
    BY <2>1, <2>5, <2>8 DEF IsNumber
<1>3. ASSUME NEW n \in 1 .. Len(Words), IsNumber(n) PROVE EndOf(n) \in NumberEnds
  <2>1. WordIs(n)
    BY WordsPlaced
  <2>2. EndOf(n) \in 1 .. TextEnd /\ text[EndOf(n)] \in Digits
    BY <1>1, <1>3, <2>1 DEF WordIs, IsNumber
  <2>3. EndOf(n) = TextEnd \/ text[EndOf(n) + 1] \notin Digits
    BY <2>1, DigitDiffers DEF WordIs
  <2>4. QED
    BY <2>2, <2>3 DEF NumberEnds
<1>4. QED
  BY <1>2, <1>3

IsNumberStart(j, i) ==
  /\ \A k \in j .. i : text[k] \in Digits
  /\ j = 1 \/ text[j - 1] \notin Digits

LEMMA NumberStartIs ==
  ASSUME NEW i \in Nat, NEW j \in 1 .. i, IsNumberStart(j, i)
  PROVE  NumberStart(i) = j
<1>1. \E n \in 1 .. i : IsNumberStart(n, i)
  OBVIOUS
<1>2. NumberStart(i) = CHOOSE n \in 1 .. i : IsNumberStart(n, i)
  BY Zenon DEF NumberStart, IsNumberStart
<1>3. PICK n \in 1 .. i : n = NumberStart(i) /\ IsNumberStart(n, i)
  BY <1>1, <1>2
<1>4. CASE n < j
  <2>1. j - 1 \in n .. i /\ j # 1
    BY <1>4
  <2>2. QED
    BY <1>3, <2>1 DEF IsNumberStart
<1>5. CASE j < n
  <2>1. n - 1 \in j .. i /\ n # 1
    BY <1>5
  <2>2. QED
    BY <1>3, <2>1 DEF IsNumberStart
<1>6. QED
  BY <1>3, <1>4, <1>5

FirstDigit(n) == IF text[StartOf(n)] \in Digits THEN StartOf(n) ELSE StartOf(n) + 1

LEMMA NumberStarts ==
  ASSUME Additive, TextTyped, NEW n \in 1 .. Len(Words), IsNumber(n)
  PROVE  NumberStart(EndOf(n)) = FirstDigit(n) /\ FirstDigit(n) \in StartOf(n) .. EndOf(n)
<1>1. WordIs(n) /\ TextEnd \in Nat
  BY WordsPlaced
<1>2. PICK s \in 1 .. TextEnd, e \in 1 .. TextEnd :
        s = StartOf(n) /\ e = EndOf(n) /\ e \in s .. TextEnd
  BY <1>1 DEF WordIs
<1>3. \A k \in (s + 1) .. e : text[k] \in Digits
  BY <1>1, <1>2 DEF WordIs
<1>4. CASE text[s] \in Digits
  <2>1. FirstDigit(n) = s
    BY <1>2, <1>4 DEF FirstDigit
  <2>2. \A k \in s .. e : k = s \/ k \in (s + 1) .. e
    OBVIOUS
  <2>3. IsNumberStart(s, e)
    BY <1>2, <1>3, <1>4, <2>2, NumberApart DEF IsNumberStart
  <2>4. e \in Nat /\ s \in 1 .. e
    BY <1>1, <1>2
  <2>5. QED
    BY <1>2, <2>1, <2>3, <2>4, NumberStartIs
<1>5. CASE text[s] \notin Digits
  <2>1. FirstDigit(n) = s + 1
    BY <1>2, <1>5 DEF FirstDigit
  <2>2. s # e
    BY <1>2, <1>5 DEF IsNumber
  <2>3. IsNumberStart(s + 1, e)
    BY <1>2, <1>3, <1>5 DEF IsNumberStart
  <2>4. e \in Nat /\ s + 1 \in 1 .. e
    BY <1>1, <1>2, <2>2
  <2>5. QED
    BY <1>2, <2>1, <2>3, <2>4, NumberStartIs
<1>6. QED
  BY <1>4, <1>5

\* A minus sign starts a word.
LEMMA MinusStarts ==
  ASSUME Additive, TextTyped, NEW j \in 1 .. TextEnd, text[j] = "-"
  PROVE  \E n \in 1 .. Len(Words) : j = StartOf(n)
<1>1. text[j] \notin Separators /\ text[j] \notin Digits
  BY DigitDiffers DEF Separators, Newline
<1>2. PICK n \in 1 .. Len(Words) : StartOf(n) <= j /\ j <= EndOf(n)
  BY <1>1, WordsPlaced
<1>3. WordIs(n) /\ TextEnd \in Nat
  BY WordsPlaced
<1>4. StartOf(n) \in Nat /\ EndOf(n) \in Nat
  BY <1>3 DEF WordIs
<1>5. j # StartOf(n) => j \in (StartOf(n) + 1) .. EndOf(n)
  BY <1>2, <1>3, <1>4
<1>6. QED
  BY <1>1, <1>3, <1>5 DEF WordIs

OwnMinus(n) == { j \in {StartOf(n)} : text[j] = "-" }

LEMMA MinusesAre ==
  ASSUME Additive, TextTyped, NEW n \in 1 .. Len(Words), IsNumber(n)
  PROVE  /\ n = 1 \/ IsNumber(n - 1) => MinusesBefore(EndOf(n)) = OwnMinus(n)
         /\ n > 1 /\ ~IsNumber(n - 1) /\ (n = 2 \/ IsNumber(n - 2)) =>
              MinusesBefore(EndOf(n)) = OwnMinus(n - 1) \cup OwnMinus(n)
<1>1. WordIs(n) /\ TextEnd \in Nat /\ Len(Words) \in Nat
  BY WordsPlaced
<1>2. PICK s \in 1 .. TextEnd, e \in 1 .. TextEnd, b \in 1 .. TextEnd :
        /\ s = StartOf(n) /\ e = EndOf(n) /\ b = FirstDigit(n) /\ b = NumberStart(e)
        /\ e \in s .. TextEnd /\ b \in s .. e
  BY <1>1, NumberStarts DEF WordIs
<1>3. /\ b = s \/ (b = s + 1 /\ text[s] \notin Digits)
      /\ b = s => text[s] \in Digits
  BY <1>2 DEF FirstDigit
<1>4. PICK M : M = MinusesBefore(EndOf(n))
  OBVIOUS
<1>5. M = { j \in 1 .. (b - 1) : text[j] = "-" /\ \A k \in j .. (b - 1) : text[k] \notin Digits }
  BY <1>2, <1>4, Zenon DEF MinusesBefore
<1>6. ASSUME NEW j \in M
      PROVE  \E m \in 1 .. n : /\ j = StartOf(m) /\ j \in OwnMinus(m)
                               /\ \A i \in m .. (n - 1) : ~IsNumber(i)
  <2>1. j \in 1 .. TextEnd /\ j <= b - 1 /\ text[j] = "-" /\ \A k \in j .. (b - 1) : text[k] \notin Digits
    BY <1>1, <1>5
  <2>2. PICK m \in 1 .. Len(Words) : j = StartOf(m)
    BY <2>1, MinusStarts
  <2>3. m <= n
    <3>1. j <= e
      BY <1>1, <1>2, <1>3, <2>1
    <3>2. WordIs(m)
      BY WordsPlaced
    <3>3. n < m => e < j
      BY <1>2, <2>2, WordsOrdered
    <3>4. QED
      BY <1>1, <2>1, <3>1, <3>3
  <2>4. ASSUME NEW i \in m .. (n - 1), IsNumber(i) PROVE FALSE
    <3>1. i \in 1 .. Len(Words) /\ m <= i /\ i < n
      BY <1>1, <2>2, <2>3
    <3>2. WordIs(i) /\ WordIs(m)
      BY <3>1, WordsPlaced
    <3>3. PICK ei \in Nat, si \in Nat, em \in Nat :
            /\ ei = EndOf(i) /\ si = StartOf(i) /\ em = EndOf(m)
            /\ si <= ei /\ j <= em
      BY <1>1, <2>2, <3>2 DEF WordIs
    <3>4. ei < s
      BY <1>2, <3>1, <3>3, WordsOrdered
    <3>5. j <= ei
      <4>1. m < i => em < si
        BY <3>1, <3>3, WordsOrdered
      <4>2. m = i => em = ei
        BY <3>3
      <4>3. QED
        BY <1>1, <2>1, <2>2, <3>1, <3>3, <4>1, <4>2
    <3>6. ei \in j .. (b - 1)
      BY <1>1, <1>3, <2>1, <3>3, <3>4, <3>5
    <3>7. QED
      BY <2>1, <2>4, <3>3, <3>6 DEF IsNumber
  <2>5. m \in 1 .. n /\ j \in OwnMinus(m)
    BY <1>1, <2>1, <2>2, <2>3 DEF OwnMinus
  <2>6. QED
    BY <2>2, <2>4, <2>5
<1>7. ASSUME NEW m \in 1 .. n, \A i \in m .. (n - 1) : ~IsNumber(i), m = n \/ m = n - 1
      PROVE  OwnMinus(m) \subseteq M
  <2> SUFFICES ASSUME NEW j, j = StartOf(m), text[j] = "-" PROVE j \in M
    BY DEF OwnMinus
  <2>1. text[j] \notin Digits
    BY DigitDiffers
  <2>2. m \in 1 .. Len(Words)
    BY <1>1
  <2>3. WordIs(m)
    BY <2>2, WordsPlaced
  <2>4. j \in 1 .. TextEnd
    BY <2>3 DEF WordIs
  <2>5. j <= s /\ (m # n => j < s)
    <3>1. WordIs(m) /\ EndOf(m) \in Nat /\ j <= EndOf(m)
      BY <1>1, <2>3 DEF WordIs
    <3>2. m # n => EndOf(m) < s
      BY <1>2, <1>7, <2>2, WordsOrdered, m # n => m < n
    <3>3. m = n => j = s
      BY <1>2
    <3>4. QED
      BY <1>1, <2>4, <3>1, <3>2, <3>3
  <2>6. j \in 1 .. (b - 1)
    <3>1. m = n => text[s] \notin Digits
      BY <1>2, <2>1
    <3>2. QED
      BY <1>1, <1>3, <2>4, <2>5, <3>1
  <2>7. ASSUME NEW k \in j .. (b - 1), text[k] \in Digits PROVE FALSE
    <3>1. k \in 1 .. TextEnd /\ k <= s /\ text[k] \notin Separators
      BY <1>1, <1>3, <2>4, <2>7, DigitDiffers
    <3>2. PICK i \in 1 .. Len(Words) : StartOf(i) <= k /\ k <= EndOf(i)
      BY <3>1, WordsPlaced
    <3>3. WordIs(i)
      BY WordsPlaced
    <3>4. PICK si \in Nat, ei \in Nat, em \in Nat :
            /\ si = StartOf(i) /\ ei = EndOf(i) /\ em = EndOf(m) /\ j <= em
      BY <1>1, <2>3, <3>3 DEF WordIs
    <3>5. m <= i
      <4>1. i < m => ei < j
        BY <2>2, <3>4, WordsOrdered
      <4>2. QED
        BY <1>1, <2>2, <2>4, <2>7, <3>1, <3>2, <3>4, <4>1
    <3>6. i <= n
      <4>1. n < i => e < si
        BY <1>2, <3>4, WordsOrdered
      <4>2. QED
        BY <1>1, <1>2, <3>1, <3>2, <3>4, <4>1
    <3>7. CASE i = n
      <4>1. k = s
        BY <1>2, <3>1, <3>2, <3>4, <3>7
      <4>2. b # s
        BY <1>1, <2>7, <4>1
      <4>3. QED
        BY <1>3, <2>7, <4>1, <4>2
    <3>8. CASE i # n
      <4>1. i = m /\ i \in m .. (n - 1)
        BY <1>1, <1>7, <3>5, <3>6, <3>8
      <4>2. ~IsNumber(i)
        BY <1>7, <4>1
      <4>3. ei = j
        BY <3>4, <4>1, <4>2, WordKinds
      <4>4. k = j
        BY <2>4, <2>7, <3>1, <3>2, <3>4, <4>3
      <4>5. QED
        BY <2>1, <2>7, <4>4
    <3>9. QED
      BY <3>7, <3>8
  <2>8. QED
    BY <1>5, <2>6, <2>7
<1>8. ASSUME n = 1 \/ IsNumber(n - 1) PROVE M = OwnMinus(n)
  <2>1. OwnMinus(n) \subseteq M
    BY <1>1, <1>7, n \in 1 .. n, n .. (n - 1) = {}
  <2>2. ASSUME NEW j \in M PROVE j \in OwnMinus(n)
    <3>1. PICK m \in 1 .. n : j \in OwnMinus(m) /\ \A i \in m .. (n - 1) : ~IsNumber(i)
      BY <1>6
    <3>2. m # n => n # 1 /\ n - 1 \in m .. (n - 1)
      BY <1>1
    <3>3. QED
      BY <1>8, <3>1, <3>2
  <2>3. QED
    BY <2>1, <2>2
<1>9. ASSUME n > 1, ~IsNumber(n - 1), n = 2 \/ IsNumber(n - 2)
      PROVE  M = OwnMinus(n - 1) \cup OwnMinus(n)
  <2>1. OwnMinus(n) \subseteq M
    BY <1>1, <1>7, n \in 1 .. n, n .. (n - 1) = {}
  <2>2. OwnMinus(n - 1) \subseteq M
    <3>1. n - 1 \in 1 .. n /\ \A i \in (n - 1) .. (n - 1) : i = n - 1
      BY <1>1, <1>9
    <3>2. QED
      BY <1>7, <1>9, <3>1
  <2>3. ASSUME NEW j \in M PROVE j \in OwnMinus(n - 1) \cup OwnMinus(n)
    <3>1. PICK m \in 1 .. n : j \in OwnMinus(m) /\ \A i \in m .. (n - 1) : ~IsNumber(i)
      BY <1>6
    <3>2. m = n \/ m = n - 1 \/ (n # 2 /\ n - 2 \in m .. (n - 1))
      BY <1>1
    <3>3. QED
      BY <1>9, <3>1, <3>2
  <2>4. QED
    BY <2>1, <2>2, <2>3
<1>10. QED
  BY <1>4, <1>8, <1>9

LEMMA MinusParity ==
  ASSUME Additive, TextTyped, NEW n \in 1 .. Len(Words), IsNumber(n)
  PROVE  /\ n = 1 \/ IsNumber(n - 1) =>
              (Cardinality(MinusesBefore(EndOf(n))) % 2 = 0 <=> text[StartOf(n)] # "-")
         /\ n > 1 /\ ~IsNumber(n - 1) /\ (n = 2 \/ IsNumber(n - 2)) =>
              (Cardinality(MinusesBefore(EndOf(n))) % 2 = 0
                 <=> (text[StartOf(n)] = "-" <=> text[StartOf(n - 1)] = "-"))
<1>1. PICK M, N, s : M = MinusesBefore(EndOf(n)) /\ N = OwnMinus(n) /\ s = StartOf(n)
  OBVIOUS
<1>2. /\ text[s] = "-" => N = {s}
      /\ text[s] # "-" => N = {}
  BY <1>1 DEF OwnMinus
<1>3. /\ Cardinality({}) = 0 /\ \A x : Cardinality({x}) = 1
      /\ \A x, y : x # y => Cardinality({x, y}) = 2
  <2>1. \A x : IsFiniteSet({x}) /\ Cardinality({x}) = 1
    BY FS_Singleton
  <2>2. ASSUME NEW x, NEW y, x # y PROVE Cardinality({x, y}) = 2
    <3>1. PICK A : A = {x}
      OBVIOUS
    <3>2. PICK B : B = A \cup {y}
      OBVIOUS
    <3>3. Cardinality(A) = 1 /\ IsFiniteSet(A)
      BY <2>1, <3>1
    <3>4. y \notin A
      BY <2>2, <3>1
    <3>5. Cardinality(B) = Cardinality(A) + 1
      BY <3>2, <3>3, <3>4, FS_AddElement
    <3>6. Cardinality(B) = 2
      BY <3>3, <3>5
    <3>7. B = {x, y}
      BY <3>1, <3>2
    <3>8. QED
      BY <3>6, <3>7, Zenon
  <2>3. QED
    BY <2>1, <2>2, FS_EmptySet
<1>4. ASSUME n = 1 \/ IsNumber(n - 1)
      PROVE  Cardinality(M) % 2 = 0 <=> text[s] # "-"
  <2>1. M = N
    BY <1>1, <1>4, MinusesAre
  <2>2. text[s] = "-" => Cardinality(M) = 1
    BY <1>2, <1>3, <2>1
  <2>3. text[s] # "-" => Cardinality(M) = 0
    BY <1>2, <1>3, <2>1
  <2>4. QED
    BY <2>2, <2>3
<1>5. ASSUME n > 1, ~IsNumber(n - 1), n = 2 \/ IsNumber(n - 2)
      PROVE  Cardinality(M) % 2 = 0 <=> (text[s] = "-" <=> text[StartOf(n - 1)] = "-")
  <2>1. PICK L, r : L = OwnMinus(n - 1) /\ r = StartOf(n - 1)
    OBVIOUS
  <2>2. /\ text[r] = "-" => L = {r}
        /\ text[r] # "-" => L = {}
    BY <2>1 DEF OwnMinus
  <2>3. M = L \cup N
    BY <1>1, <1>5, <2>1, MinusesAre
  <2>4. r # s
    <3>1. Len(Words) \in Nat /\ n - 1 \in 1 .. Len(Words) /\ n - 1 < n
      BY <1>5, WordsPlaced
    <3>2. EndOf(n - 1) < s
      BY <1>1, <3>1, WordsOrdered
    <3>3. r \in Nat /\ s \in Nat /\ EndOf(n - 1) \in Nat /\ r <= EndOf(n - 1)
      <4>1. WordIs(n - 1) /\ WordIs(n) /\ TextEnd \in Nat
        BY <3>1, WordsPlaced
      <4>2. QED
        BY <1>1, <2>1, <4>1 DEF WordIs
    <3>4. QED
      BY <3>2, <3>3
  <2>5. CASE text[s] = "-" /\ text[r] = "-"
    <3>1. M = {r, s}
      BY <1>2, <2>2, <2>3, <2>5
    <3>2. Cardinality(M) = 2
      BY <1>3, <2>4, <3>1
    <3>3. QED
      BY <2>1, <2>5, <3>2
  <2>6. CASE text[s] = "-" /\ text[r] # "-"
    <3>1. M = {s}
      BY <1>2, <2>2, <2>3, <2>6
    <3>2. Cardinality(M) = 1
      BY <1>3, <3>1
    <3>3. QED
      BY <2>1, <2>6, <3>2
  <2>7. CASE text[s] # "-" /\ text[r] = "-"
    <3>1. M = {r}
      BY <1>2, <2>2, <2>3, <2>7
    <3>2. Cardinality(M) = 1
      BY <1>3, <3>1
    <3>3. QED
      BY <2>1, <2>7, <3>2
  <2>8. CASE text[s] # "-" /\ text[r] # "-"
    <3>1. M = {}
      BY <1>2, <2>2, <2>3, <2>8
    <3>2. Cardinality(M) = 0
      BY <1>3, <3>1
    <3>3. QED
      BY <2>1, <2>8, <3>2
  <2>9. QED
    BY <2>5, <2>6, <2>7, <2>8
<1>6. QED
  BY <1>1, <1>4, <1>5

\* The digits of a number, and its value.
DigitsOf(n) == SubSeq(text, FirstDigit(n), EndOf(n))

LEMMA NumberAtIs ==
  ASSUME Additive, TextTyped, NEW n \in 1 .. Len(Words), IsNumber(n)
  PROVE  /\ DigitsOf(n) \in Seq(Digits) /\ DigitsOf(n) \in Seq(DOMAIN Decimal)
         /\ NumberAt(EndOf(n)) = Positional(DigitsOf(n), Decimal)
         /\ NumberAt(EndOf(n)) \in Nat
<1>1. WordIs(n) /\ TextEnd \in Nat
  BY WordsPlaced
<1>2. PICK s \in 1 .. TextEnd, e \in 1 .. TextEnd, b \in 1 .. TextEnd :
        /\ s = StartOf(n) /\ e = EndOf(n) /\ b = FirstDigit(n) /\ b = NumberStart(e)
        /\ e \in s .. TextEnd /\ b \in s .. e
  BY <1>1, NumberStarts DEF WordIs
<1>3. ASSUME NEW k \in b .. e PROVE text[k] \in Digits
  <2>1. k = s \/ k \in (s + 1) .. e
    BY <1>2
  <2>2. CASE k = s
    <3>1. b = s
      BY <1>2, <2>2
    <3>2. b = s + 1 \/ text[s] \in Digits
      BY <1>2 DEF FirstDigit
    <3>3. QED
      BY <1>1, <2>2, <3>1, <3>2
  <2>3. CASE k \in (s + 1) .. e
    BY <1>1, <1>2, <2>3 DEF WordIs
  <2>4. QED
    BY <2>1, <2>2, <2>3
<1>4. b \in Int /\ e \in Int
  BY <1>1
<1>5. SubSeq(text, b, e) \in Seq(Digits)
  BY <1>3, <1>4, SubSeqProperties
<1>6. DigitsOf(n) = SubSeq(text, b, e) /\ NumberAt(e) = Positional(SubSeq(text, b, e), Decimal)
  BY <1>2 DEF DigitsOf, NumberAt
<1>7. Positional(SubSeq(text, b, e), Decimal) \in Nat
  <2>1. SubSeq(text, b, e) \in Seq(DOMAIN Decimal) /\ DigitMap(Decimal)
    BY <1>5, DigitsAre
  <2>2. QED
    BY <2>1, PositionalType
<1>8. QED
  BY <1>2, <1>5, <1>6, <1>7, DigitsAre

-----------------------------------------------------------------------------
(***************************************************************************)
(* The text read as arithmetic, word by word                               *)
(***************************************************************************)

\* What Arithmetic makes of the text up to i.
ArithAt(f, i) ==
  IF i = 0 THEN 0
  ELSE IF i \notin NumberEnds THEN f[i - 1]
  ELSE IF Cardinality(MinusesBefore(i)) % 2 = 0 THEN f[i - 1] + NumberAt(i)
  ELSE f[i - 1] - NumberAt(i)

ArithTo[i \in 0 .. TextEnd] == ArithAt(ArithTo, i)

ArithSteps(f) ==
  /\ f \in [0 .. TextEnd -> Int] /\ f[0] = 0
  /\ \A i \in 1 .. TextEnd :
       /\ i \notin NumberEnds => f[i] = f[i - 1]
       /\ i \in NumberEnds =>
            /\ NumberAt(i) \in Nat
            /\ Cardinality(MinusesBefore(i)) % 2 = 0 => f[i] = f[i - 1] + NumberAt(i)
            /\ Cardinality(MinusesBefore(i)) % 2 # 0 => f[i] = f[i - 1] - NumberAt(i)

LEMMA ArithToIs ==
  ASSUME Additive, TextTyped
  PROVE  ArithSteps(ArithTo) /\ Arithmetic = ArithTo[TextEnd]
<1>1. PICK z \in Nat : z = TextEnd
  BY WordsPlaced
<1>2. PICK N, c : N = NumberEnds /\ c = [i \in Nat |-> IF Cardinality(MinusesBefore(i)) % 2 = 0
                                           THEN NumberAt(i) ELSE -NumberAt(i)]
  OBVIOUS
<1>3. ASSUME NEW i \in N PROVE NumberAt(i) \in Nat /\ i \in Nat
  <2>1. PICK n \in 1 .. Len(Words) : IsNumber(n) /\ i = EndOf(n)
    BY <1>2, EndsAre
  <2>2. i \in 1 .. TextEnd
    BY <1>2 DEF NumberEnds
  <2>3. QED
    BY <2>1, <2>2, NumberAtIs
<1>4. \A i \in N : /\ c[i] \in Int /\ NumberAt(i) \in Nat
                   /\ Cardinality(MinusesBefore(i)) % 2 = 0 => c[i] = NumberAt(i)
                   /\ Cardinality(MinusesBefore(i)) % 2 # 0 => c[i] = -NumberAt(i)
  BY <1>2, <1>3
<1>5. PICK step : step = [x \in Nat \X Int |-> IF x[1] \in N THEN x[2] + c[x[1]] ELSE x[2]]
  OBVIOUS
<1>6. CanStep(Int, 0, 0, step)
  <2>1. ASSUME NEW x \in Nat \X Int
        PROVE  (IF x[1] \in N THEN x[2] + c[x[1]] ELSE x[2]) \in Int
    BY <1>4
  <2>2. step \in [Nat \X Int -> Int]
    BY <1>5, <2>1
  <2>3. QED
    BY <2>2 DEF CanStep
<1>7. PICK f : Steps(f, Int, 0, z, 0, step)
  BY <1>1, <1>6, StepsExist
<1>8. f \in [0 .. z -> Int] /\ f[0] = 0
  BY <1>7 DEF Steps
<1>9. ASSUME NEW i \in 1 .. z
      PROVE  /\ f[i - 1] \in Int
             /\ i \notin N => f[i] = f[i - 1]
             /\ i \in N => f[i] = f[i - 1] + c[i]
  <2>1. i \in (0 + 1) .. z /\ i - 1 \in 0 .. z /\ i \in Nat
    BY <1>1
  <2>2. f[i] = step[<<i, f[i - 1]>>] /\ f[i - 1] \in Int
    BY <1>7, <1>8, <2>1 DEF Steps
  <2>3. PICK x : x = <<i, f[i - 1]>> /\ x \in Nat \X Int /\ x[1] = i /\ x[2] = f[i - 1]
    BY <2>1, <2>2
  <2>4. step[x] = IF x[1] \in N THEN x[2] + c[x[1]] ELSE x[2]
    BY <1>5, <2>3
  <2>5. QED
    BY <2>2, <2>3, <2>4
<1>10. ArithSteps(f)
  <2>1. ASSUME NEW i \in 1 .. TextEnd
        PROVE  /\ i \notin NumberEnds => f[i] = f[i - 1]
               /\ i \in NumberEnds =>
                    /\ NumberAt(i) \in Nat
                    /\ Cardinality(MinusesBefore(i)) % 2 = 0 => f[i] = f[i - 1] + NumberAt(i)
                    /\ Cardinality(MinusesBefore(i)) % 2 # 0 => f[i] = f[i - 1] - NumberAt(i)
    BY <1>1, <1>2, <1>4, <1>9
  <2>2. QED
    BY <1>1, <1>8, <2>1 DEF ArithSteps
<1>11. ASSUME NEW i \in 0 .. z PROVE f[i] = ArithAt(f, i)
  <2>1. CASE i = 0
    BY <1>8, <2>1, Zenon DEF ArithAt
  <2>2. CASE i # 0
    <3>1. i \in 1 .. z
      BY <1>1, <2>2
    <3>2. i \in 1 .. TextEnd
      BY <1>1, <3>1
    <3>3. /\ i \notin NumberEnds => f[i] = f[i - 1]
          /\ i \in NumberEnds =>
               /\ Cardinality(MinusesBefore(i)) % 2 = 0 => f[i] = f[i - 1] + NumberAt(i)
               /\ Cardinality(MinusesBefore(i)) % 2 # 0 => f[i] = f[i - 1] - NumberAt(i)
      BY <1>10, <3>2 DEF ArithSteps
    <3>4. QED
      BY <2>2, <3>3, Zenon DEF ArithAt
  <2>3. QED
    BY <2>1, <2>2
<1>12. f = [i \in 0 .. TextEnd |-> ArithAt(f, i)]
  BY <1>1, <1>8, <1>11
<1>13. ArithTo = [i \in 0 .. TextEnd |-> ArithAt(ArithTo, i)]
  BY <1>12, Zenon DEF ArithTo
<1>14. PICK g : g = ArithTo /\ g = [i \in 0 .. TextEnd |-> ArithAt(g, i)]
  BY <1>13
<1>15. \A i \in 0 .. z : g[i] = ArithAt(g, i)
  BY <1>1, <1>14
<1>16. ASSUME NEW i \in 1 .. z, f[i - 1] = g[i - 1] PROVE f[i] = g[i]
  <2>1. i \in 0 .. z
    OBVIOUS
  <2>2. ArithAt(f, i) = ArithAt(g, i)
    BY <1>16, Zenon DEF ArithAt
  <2>3. QED
    BY <1>11, <1>15, <2>1, <2>2
<1>17. f[0] = g[0]
  <2>1. ArithAt(g, 0) = 0
    BY Zenon DEF ArithAt
  <2>2. QED
    BY <1>8, <1>15, <2>1
<1>18. StepAlike(f, g, 0, z)
  BY <1>1, <1>16, <1>17 DEF StepAlike
<1>19. \A i \in 0 .. z : f[i] = g[i]
  BY <1>18, SameSteps
<1>20. f = g
  BY <1>1, <1>8, <1>14, <1>19
<1>21. Arithmetic = ArithTo[TextEnd]
  BY Zenon DEF Arithmetic, ArithTo, ArithAt
<1>22. QED
  BY <1>10, <1>14, <1>20, <1>21

\* From one number to the next nothing is added.
LEMMA NothingBetween ==
  ASSUME Additive, TextTyped, NEW a \in 0 .. TextEnd, NEW b \in a .. TextEnd,
         \A k \in (a + 1) .. b : k \notin NumberEnds
  PROVE  ArithTo[b] = ArithTo[a]
<1>1. PICK z, f : z \in Nat /\ z = TextEnd /\ f = ArithTo /\ ArithSteps(f)
  BY WordsPlaced, ArithToIs
<1>2. PICK S : S = { n \in Nat : a + n <= b => f[a + n] = f[a] }
  OBVIOUS
<1>3. 0 \in S
  BY <1>1, <1>2
<1>4. ASSUME NEW n \in Nat, n \in S PROVE n + 1 \in S
  <2> SUFFICES ASSUME a + (n + 1) <= b PROVE f[a + (n + 1)] = f[a]
    BY <1>2
  <2>1. PICK i \in (a + 1) .. b : i = a + (n + 1) /\ i - 1 = a + n /\ a + n <= b
    BY <1>1
  <2>2. i \in 1 .. TextEnd /\ i \notin NumberEnds
    BY <1>1, <2>1
  <2>3. f[i] = f[i - 1]
    BY <1>1, <2>2 DEF ArithSteps
  <2>4. f[a + n] = f[a]
    BY <1>2, <1>4, <2>1
  <2>5. QED
    BY <2>1, <2>3, <2>4
<1>5. Nat \subseteq S
  BY <1>3, <1>4, SetInduction
<1>6. b - a \in S /\ a + (b - a) = b
  BY <1>1, <1>5
<1>7. QED
  BY <1>1, <1>2, <1>6

\* Where the word in front of word n ends.
LastEnd(n) == IF n = 1 THEN 0 ELSE EndOf(n - 1)

LEMMA EndsOrdered ==
  ASSUME Additive, TextTyped, NEW m \in 1 .. Len(Words), NEW n \in 1 .. Len(Words), m <= n
  PROVE  /\ EndOf(m) \in 1 .. TextEnd /\ EndOf(n) \in 1 .. TextEnd /\ EndOf(m) <= EndOf(n)
         /\ m < n => EndOf(m) < EndOf(n)
<1>1. WordIs(m) /\ WordIs(n) /\ TextEnd \in Nat /\ Len(Words) \in Nat
  BY WordsPlaced
<1>2. /\ StartOf(n) \in 1 .. TextEnd /\ EndOf(m) \in 1 .. TextEnd /\ EndOf(n) \in 1 .. TextEnd
      /\ StartOf(n) <= EndOf(n)
  BY <1>1 DEF WordIs
<1>3. m < n => EndOf(m) < StartOf(n)
  BY WordsOrdered
<1>4. CASE m < n
  BY <1>1, <1>2, <1>3, <1>4
<1>5. CASE m = n
  BY <1>2, <1>5
<1>6. QED
  BY <1>1, <1>4, <1>5

\* Between two words no number ends, nor behind the last.
LEMMA NoEndBetween ==
  ASSUME Additive, TextTyped, NEW k \in NumberEnds
  PROVE  /\ \A n \in 1 .. Len(Words) : ~(LastEnd(n) < k /\ k < EndOf(n))
         /\ Len(Words) # 0 /\ k <= EndOf(Len(Words))
<1>1. Len(Words) \in Nat
  BY WordsPlaced
<1>2. PICK m \in 1 .. Len(Words) : k = EndOf(m)
  BY EndsAre
<1>3. ASSUME NEW n \in 1 .. Len(Words), LastEnd(n) < k, k < EndOf(n) PROVE FALSE
  <2>1. CASE n <= m
    <3>1. EndOf(n) <= k /\ EndOf(n) \in 1 .. TextEnd /\ k \in 1 .. TextEnd
      BY <1>2, <2>1, EndsOrdered
    <3>2. QED
      BY <1>3, <3>1, WordsPlaced
  <2>2. CASE ~(n <= m)
    <3>1. n # 1 /\ n - 1 \in 1 .. Len(Words) /\ m <= n - 1
      BY <1>1, <2>2
    <3>2. EndOf(m) <= EndOf(n - 1) /\ EndOf(n - 1) \in 1 .. TextEnd /\ EndOf(m) \in 1 .. TextEnd
      BY <3>1, EndsOrdered
    <3>3. LastEnd(n) = EndOf(n - 1)
      BY <3>1 DEF LastEnd
    <3>4. QED
      BY <1>2, <1>3, <3>2, <3>3, WordsPlaced
  <2>3. QED
    BY <2>1, <2>2
<1>4. Len(Words) # 0 /\ k <= EndOf(Len(Words))
  <2>1. Len(Words) \in 1 .. Len(Words) /\ m <= Len(Words)
    BY <1>1
  <2>2. QED
    BY <1>1, <1>2, <2>1, EndsOrdered
<1>5. QED
  BY <1>3, <1>4

LEMMA WordAdds ==
  ASSUME Additive, TextTyped, NEW n \in 1 .. Len(Words)
  PROVE  /\ LastEnd(n) \in 0 .. TextEnd /\ EndOf(n) \in 1 .. TextEnd
         /\ ArithTo[LastEnd(n)] \in Int
         /\ ~IsNumber(n) => ArithTo[EndOf(n)] = ArithTo[LastEnd(n)]
         /\ IsNumber(n) =>
              /\ NumberAt(EndOf(n)) \in Nat
              /\ Cardinality(MinusesBefore(EndOf(n))) % 2 = 0 =>
                   ArithTo[EndOf(n)] = ArithTo[LastEnd(n)] + NumberAt(EndOf(n))
              /\ Cardinality(MinusesBefore(EndOf(n))) % 2 # 0 =>
                   ArithTo[EndOf(n)] = ArithTo[LastEnd(n)] - NumberAt(EndOf(n))
<1>1. PICK z, f : z \in Nat /\ z = TextEnd /\ f = ArithTo /\ ArithSteps(f)
  BY WordsPlaced, ArithToIs
<1>2. PICK e \in 1 .. z, a \in 0 .. z : e = EndOf(n) /\ a = LastEnd(n) /\ a < e
  <2>1. Len(Words) \in Nat /\ EndOf(n) \in 1 .. TextEnd
    BY WordsPlaced, EndsOrdered
  <2>2. CASE n = 1
    BY <1>1, <2>1, <2>2 DEF LastEnd
  <2>3. CASE n # 1
    <3>1. n - 1 \in 1 .. Len(Words) /\ n - 1 < n
      BY <2>1, <2>3
    <3>2. EndOf(n - 1) \in 1 .. TextEnd /\ EndOf(n - 1) < EndOf(n)
      BY <2>1, <3>1, EndsOrdered
    <3>3. LastEnd(n) = EndOf(n - 1)
      BY <2>3 DEF LastEnd
    <3>4. QED
      BY <1>1, <2>1, <3>2, <3>3
  <2>4. QED
    BY <2>2, <2>3
<1>3. f[e - 1] = f[a]
  <2>1. \A k \in (a + 1) .. (e - 1) : k \notin NumberEnds
    <3>1. ASSUME NEW k \in (a + 1) .. (e - 1) PROVE a < k /\ k < e
      BY <1>1
    <3>2. QED
      BY <1>2, <3>1, NoEndBetween
  <2>2. a \in 0 .. TextEnd /\ e - 1 \in a .. TextEnd
    BY <1>1, <1>2
  <2>3. QED
    BY <1>1, <2>1, <2>2, NothingBetween
<1>4. e \in NumberEnds <=> IsNumber(n)
  <2>1. IsNumber(n) => e \in NumberEnds
    BY <1>2, EndsAre
  <2>2. e \in NumberEnds => text[e] \in Digits
    BY DEF NumberEnds
  <2>3. QED
    BY <1>2, <2>1, <2>2 DEF IsNumber
<1>5. e \in 1 .. TextEnd /\ a \in 0 .. TextEnd /\ f[a] \in Int
  BY <1>1, <1>2 DEF ArithSteps
<1>6. /\ e \notin NumberEnds => f[e] = f[e - 1]
      /\ e \in NumberEnds =>
           /\ NumberAt(e) \in Nat
           /\ Cardinality(MinusesBefore(e)) % 2 = 0 => f[e] = f[e - 1] + NumberAt(e)
           /\ Cardinality(MinusesBefore(e)) % 2 # 0 => f[e] = f[e - 1] - NumberAt(e)
  BY <1>1, <1>5 DEF ArithSteps
<1>7. QED
  BY <1>1, <1>2, <1>3, <1>4, <1>5, <1>6

LEMMA NothingBehind ==
  ASSUME Additive, TextTyped, Len(Words) # 0
  PROVE  Arithmetic = ArithTo[EndOf(Len(Words))]
<1>1. PICK z \in Nat, n \in Nat : z = TextEnd /\ n = Len(Words)
  BY WordsPlaced
<1>2. n \in 1 .. Len(Words)
  BY <1>1
<1>3. PICK a \in 1 .. z : a = EndOf(n)
  BY <1>1, <1>2, EndsOrdered
<1>4. \A k \in (a + 1) .. z : k \notin NumberEnds
  <2>1. ASSUME NEW k \in (a + 1) .. z PROVE ~(k <= a)
    OBVIOUS
  <2>2. QED
    BY <1>1, <1>3, <2>1, NoEndBetween
<1>5. a \in 0 .. TextEnd /\ z \in a .. TextEnd
  BY <1>1
<1>6. ArithTo[z] = ArithTo[a]
  BY <1>4, <1>5, NothingBetween
<1>7. QED
  BY <1>1, <1>3, <1>6, ArithToIs

-----------------------------------------------------------------------------
(***************************************************************************)
(* The tokens of an additive text                                          *)
(***************************************************************************)

LEMMA ContentsAre ==
  ASSUME Additive, TextTyped, NEW s \in 1 .. TextEnd, NEW e \in s .. TextEnd
  PROVE  Contents(s, e) = SubSeq(text, s, e)
<1>1. PICK z \in Nat : z = TextEnd /\ z = Len(text)
  BY TextIs DEF TextEnd
<1>2. NoTwins /\ text \in Seq(Characters)
  BY AdditiveReady, ReadyIs DEF TextTyped
<1>3. PICK S : S = { n \in Nat : s + n - 1 <= z =>
                       Contents(s, s + n - 1) = SubSeq(text, s, s + n - 1) }
  OBVIOUS
<1>4. 0 \in S
  <2>1. Contents(s, s - 1) = <<>>
    BY NoContents
  <2>2. SubSeq(text, s, s - 1) = <<>>
    BY <1>1, SubSeqEmpty
  <2>3. s + 0 - 1 = s - 1
    BY <1>1
  <2>4. QED
    BY <1>3, <2>1, <2>2, <2>3
<1>5. ASSUME NEW n \in Nat, n \in S PROVE n + 1 \in S
  <2>1. PICK p \in Nat : p = s + (n + 1) - 1 /\ p - 1 = s + n - 1 /\ p >= s
    BY <1>1
  <2> SUFFICES ASSUME p <= z PROVE Contents(s, p) = SubSeq(text, s, p)
    BY <1>3, <2>1
  <2>2. p \in s .. TextEnd /\ p \in 1 .. TextEnd /\ s \in Nat \ {0} /\ p - 1 <= z
    BY <1>1, <2>1
  <2>3. Contents(s, p - 1) = SubSeq(text, s, p - 1)
    BY <1>3, <1>5, <2>1, <2>2
  <2>4. Added(s, p) = <<text[p]>>
    <3>1. text[p] # Backslash
      BY <2>2, AdditiveIs
    <3>2. p > s => text[p - 1] # Backslash
      <4>1. p > s => p - 1 \in 1 .. TextEnd
        BY <1>1, <2>2
      <4>2. QED
        BY <4>1, AdditiveIs
    <3>3. QED
      BY <3>1, <3>2, AddedIs
  <2>5. Contents(s, p) = Contents(s, p - 1) \o Added(s, p)
    BY <1>2, <2>2, ContentsNext
  <2>6. SubSeq(text, s, p) = SubSeq(text, s, p - 1) \o <<text[p]>>
    <3>1. s \in 1 .. Len(text) /\ p \in s .. Len(text)
      BY <1>1, <2>2
    <3>2. QED
      BY <1>2, <3>1, SubSeqRecursiveSecond
  <2>7. QED
    BY <2>3, <2>4, <2>5, <2>6
<1>6. Nat \subseteq S
  BY <1>4, <1>5, SetInduction
<1>7. PICK n \in Nat : s + n - 1 = e /\ n \in S
  <2>1. e - s + 1 \in Nat /\ s + (e - s + 1) - 1 = e
    BY <1>1
  <2>2. QED
    BY <1>6, <2>1
<1>8. s + n - 1 <= z
  BY <1>1, <1>7
<1>9. Contents(s, s + n - 1) = SubSeq(text, s, s + n - 1)
  BY <1>3, <1>7, <1>8
<1>10. QED
  BY <1>7, <1>9

\* The characters of word n.
Spelling(n) == SubSeq(text, StartOf(n), EndOf(n))

LEMMA SpellingIs ==
  ASSUME Additive, TextTyped, NEW n \in 1 .. Len(Words)
  PROVE  /\ Spelling(n) \in Spelled /\ Contents(StartOf(n), EndOf(n)) = Spelling(n)
         /\ Len(Spelling(n)) = EndOf(n) - StartOf(n) + 1
         /\ Len(Spelling(n)) \in Nat \ {0}
         /\ Spelling(n)[1] = text[StartOf(n)]
         /\ Spelling(n)[Len(Spelling(n))] = text[EndOf(n)]
         /\ Len(Spelling(n)) > 1 => Spelling(n)[2] \in Digits
         /\ StartOf(n) < EndOf(n) => Tail(Spelling(n)) = SubSeq(text, StartOf(n) + 1, EndOf(n))
<1>1. WordIs(n) /\ TextEnd \in Nat
  BY WordsPlaced
<1>2. PICK s \in 1 .. TextEnd, e \in 1 .. TextEnd :
        s = StartOf(n) /\ e = EndOf(n) /\ e \in s .. TextEnd
  BY <1>1 DEF WordIs
<1>3. PICK w : w = Spelling(n) /\ w = SubSeq(text, s, e)
  BY <1>2 DEF Spelling
<1>4. \A i \in s .. e : text[i] \in Chars
  <2>1. \A i \in s .. e : i \in 1 .. TextEnd
    BY <1>1, <1>2
  <2>2. QED
    BY <2>1, TextIs
<1>5. /\ w \in Seq(Chars) /\ Len(w) = e - s + 1
      /\ \A i \in 1 .. (e - s + 1) : w[i] = text[s + i - 1]
  <2>1. s \in Int /\ e \in Int /\ s <= e
    BY <1>1, <1>2
  <2>2. QED
    BY <1>3, <1>4, <2>1, SubSeqProperties
<1>6. /\ Len(w) \in Nat \ {0} /\ 1 \in 1 .. (e - s + 1) /\ Len(w) \in 1 .. (e - s + 1)
      /\ s + 1 - 1 = s /\ s + Len(w) - 1 = e
  BY <1>1, <1>2, <1>5
<1>7. w[1] = text[s] /\ w[Len(w)] = text[e]
  BY <1>5, <1>6
<1>8. w \in Spelled
  <2>1. w # <<>>
    BY <1>6
  <2>2. QED
    BY <1>5, <2>1 DEF Spelled
<1>9. Len(w) > 1 => w[2] \in Digits
  <2>1. Len(w) > 1 => 2 \in 1 .. (e - s + 1) /\ s + 2 - 1 = s + 1 /\ s + 1 \in (s + 1) .. e
    BY <1>1, <1>2, <1>5
  <2>2. QED
    BY <1>1, <1>2, <1>5, <2>1 DEF WordIs
<1>10. Tail(w) = SubSeq(text, s + 1, e)
  <2>1. text \in Seq(Characters) /\ s \in 1 .. Len(text) /\ e \in s .. Len(text)
    BY <1>2 DEF TextTyped, TextEnd
  <2>2. QED
    BY <1>3, <2>1, HeadTailOfSubSeq
<1>11. Contents(s, e) = w
  BY <1>2, <1>3, ContentsAre
<1>12. QED
  BY <1>2, <1>3, <1>5, <1>6, <1>7, <1>8, <1>9, <1>10, <1>11

LEMMA SignParsed ==
  ASSUME Additive, TextTyped, NEW n \in 1 .. Len(Words), ~IsNumber(n)
  PROVE  Parse(Spelling(n)) = Token("operator", Spelling(n), 0)
         /\ OperatorOf(Spelling(n)) = text[StartOf(n)]
<1>1. PICK w \in Spelled : w = Spelling(n) /\ Len(w) = 1 /\ w[1] = text[StartOf(n)]
  <2>1. WordIs(n) /\ TextEnd \in Nat
    BY WordsPlaced
  <2>2. EndOf(n) = StartOf(n) /\ StartOf(n) \in 1 .. TextEnd
    BY <2>1, WordKinds DEF WordIs
  <2>3. EndOf(n) - StartOf(n) + 1 = 1
    BY <2>1, <2>2
  <2>4. QED
    BY <2>3, SpellingIs
<1>2. PICK c : c = text[StartOf(n)] /\ c \in {"+", "-"}
  BY WordKinds
<1>3. w = <<c>>
  BY <1>1, <1>2 DEF Spelled
<1>4. IsOperator(w)
  BY <1>2, <1>3 DEF IsOperator
<1>5. w[1] # "." /\ w[Len(w)] # ":" /\ w[1] # Quote /\ w[1] # "'"
  BY <1>1, <1>2 DEF Quote
<1>6. Parse(w) = Token("operator", w, 0)
  BY <1>4, <1>5, Zenon DEF Parse
<1>7. OperatorOf(w) = w[1]
  <2>1. w # <<"<", "<">> /\ w # <<">", ">">>
    BY <1>1
  <2>2. QED
    BY <2>1 DEF OperatorOf
<1>8. QED
  BY <1>1, <1>6, <1>7

\* The number of word n with its sign.
SignedAt(n) == IF text[StartOf(n)] = "-" THEN -NumberAt(EndOf(n)) ELSE NumberAt(EndOf(n))

LEMMA NumberParsed ==
  ASSUME Additive, TextTyped, NEW n \in 1 .. Len(Words), IsNumber(n)
  PROVE  Parse(Spelling(n)) = Token("constant", Spelling(n), Atoi(SignedAt(n)) % Half)
<1>0. PICK s, e : s = StartOf(n) /\ e = EndOf(n)
  OBVIOUS
<1>1. PICK w \in Spelled :
        /\ s = StartOf(n) /\ e = EndOf(n) /\ w = Spelling(n)
        /\ Len(w) \in Nat \ {0} /\ Len(w) = e - s + 1 /\ w[1] = text[s] /\ w[Len(w)] = text[e]
        /\ Len(w) > 1 => w[2] \in Digits
        /\ s < e => Tail(w) = SubSeq(text, s + 1, e)
        /\ w = SubSeq(text, s, e)
  BY <1>0, SpellingIs DEF Spelling
<1>2. text[e] \in Digits
  BY <1>1 DEF IsNumber
<1>3. w[1] \in Digits \/ w[1] \in {"+", "-"}
  BY <1>1, WordKinds
<1>4. w[1] # "." /\ w[Len(w)] # ":" /\ w[1] # Quote /\ w[1] # "'"
  <2>1. w[Len(w)] # ":"
    BY <1>1, <1>2, DigitDiffers
  <2>2. CASE w[1] \in Digits
    BY <2>1, <2>2, DigitDiffers
  <2>3. CASE w[1] \in {"+", "-"}
    BY <2>1, <2>3 DEF Quote
  <2>4. QED
    BY <1>3, <2>2, <2>3
<1>5. ~IsOperator(w)
  <2> SUFFICES ASSUME IsOperator(w) PROVE FALSE
    OBVIOUS
  <2>1. CASE w = <<"<", "<">> \/ w = <<">", ">">>
    <3>1. w[1] \in {"<", ">"}
      BY <2>1
    <3>2. w[1] \notin Digits
      BY <3>1, DigitDiffers
    <3>3. QED
      BY <1>3, <3>1, <3>2
  <2>2. CASE \E c \in {"+", "-", "*", "/", "%", "|", "&", "^", "~"} : w = <<c>>
    <3>1. PICK c \in {"+", "-", "*", "/", "%", "|", "&", "^", "~"} : w = <<c>>
      BY <2>2
    <3>2. Len(w) = 1 /\ w[1] = c
      BY <3>1
    <3>3. w[1] \in Digits
      BY <1>1, <1>2, <3>2
    <3>4. QED
      BY <3>2, <3>3, DigitDiffers DEF Signs
  <2>3. QED
    BY <2>1, <2>2 DEF IsOperator
<1>6. w[1] \in {"-", "+"} \cup DOMAIN Decimal
  BY <1>3, DigitsAre
<1>7. Parse(w) = Number(w)
  BY <1>4, <1>5, <1>6, Zenon DEF Parse
<1>8. ~(Len(w) > 2 /\ w[2] = "x") /\ ~(Len(w) > 2 /\ w[2] = "b")
  <2>1. Len(w) > 2 => Len(w) > 1
    BY <1>1
  <2>2. QED
    BY <1>1, <2>1, DigitDiffers
<1>9. PICK digits, m : digits = (IF w[1] \in {"-", "+"} THEN Tail(w) ELSE w)
                       /\ m = Read(digits, Decimal)
  OBVIOUS
<1>10. digits = DigitsOf(n)
  <2>1. CASE w[1] \in Digits
    <3>1. w[1] \notin {"-", "+"} /\ FirstDigit(n) = s
      BY <1>1, <2>1, DigitDiffers DEF FirstDigit
    <3>2. QED
      BY <1>1, <1>9, <3>1 DEF DigitsOf
  <2>2. CASE w[1] \notin Digits
    <3>1. w[1] \in {"-", "+"} /\ FirstDigit(n) = s + 1
      BY <1>1, <1>3, <2>2 DEF FirstDigit
    <3>2. s # e
      BY <1>1, <1>2, <2>2
    <3>3. s < e
      <4>1. WordIs(n) /\ TextEnd \in Nat
        BY WordsPlaced
      <4>2. QED
        BY <1>1, <3>2, <4>1 DEF WordIs
    <3>4. QED
      BY <1>1, <1>9, <3>1, <3>3 DEF DigitsOf
  <2>3. QED
    BY <2>1, <2>2
<1>11. m = NumberAt(e)
  <2>1. digits \in Seq(DOMAIN Decimal) /\ NumberAt(e) = Positional(digits, Decimal)
    BY <1>1, <1>10, NumberAtIs
  <2>2. QED
    BY <1>9, <2>1, AllDigits
<1>12. Number(w) = Token("constant", w, Atoi(IF w[1] = "-" THEN -m ELSE m) % Half)
  BY <1>8, <1>9, Zenon DEF Number
<1>13. (IF w[1] = "-" THEN -m ELSE m) = SignedAt(n)
  BY <1>1, <1>11 DEF SignedAt
<1>14. QED
  BY <1>1, <1>7, <1>12, <1>13

\* The tokens are those of the words.
Written ==
  /\ Additive /\ SplitInv /\ TextTyped /\ AreWords(tokens)
  /\ Len(tokens) \in Nat /\ Len(tokens) = Len(Words) /\ Len(Cursor) = Len(Words)

LEMMA TokenIs ==
  ASSUME Written, NEW n \in 1 .. Len(Words)
  PROVE  /\ IsNumber(n) => IsConstant(n) /\ Cursor[n].value = Atoi(SignedAt(n)) % Half
         /\ ~IsNumber(n) =>
              Cursor[n].type = "operator" /\ Cursor[n].value = text[StartOf(n)]
<1>1. PICK w, l : w = Spelling(n) /\ tokens[n] = OnLine(Parse(w), l) /\ n \in DOMAIN tokens
  <2>1. n \in 1 .. Len(tokens)
    BY DEF Written
  <2>2. PICK s, e : Words[n] = <<s, e>> /\ tokens[n] = OnLine(Parse(Contents(s, e)), LineOf(s))
    BY <2>1 DEF Written, AreWords
  <2>3. <<s, e>>[1] = s /\ <<s, e>>[2] = e
    OBVIOUS
  <2>4. s = StartOf(n) /\ e = EndOf(n)
    BY <2>2, <2>3 DEF StartOf, EndOf
  <2>5. Contents(s, e) = Spelling(n)
    BY <2>4, SpellingIs DEF Written
  <2>6. n \in DOMAIN tokens
    BY <2>1 DEF Written, SplitInv
  <2>7. QED
    BY <2>2, <2>5, <2>6
<1>2. /\ tokens[n].type = Parse(w).type /\ tokens[n].value = Parse(w).value
      /\ tokens[n].number = Parse(w).number
  BY <1>1 DEF OnLine
<1>3. /\ Cursor[n].type = Parse(w).type
      /\ Parse(w).type = "operator" => Cursor[n].value = OperatorOf(Parse(w).value)
      /\ Parse(w).type # "operator" => Cursor[n].value = Parse(w).number
  BY <1>1, <1>2 DEF Cursor
<1>4. \A t, v, k : Token(t, v, k).type = t /\ Token(t, v, k).value = v /\ Token(t, v, k).number = k
  BY DEF Token
<1>5. CASE IsNumber(n)
  <2>1. Parse(w) = Token("constant", w, Atoi(SignedAt(n)) % Half)
    BY <1>1, <1>5, NumberParsed DEF Written
  <2>2. Parse(w).type = "constant" /\ Parse(w).number = Atoi(SignedAt(n)) % Half
    BY <1>4, <2>1
  <2>3. QED
    BY <1>3, <1>5, <2>2 DEF IsConstant
<1>6. CASE ~IsNumber(n)
  <2>1. Parse(w) = Token("operator", w, 0) /\ OperatorOf(w) = text[StartOf(n)]
    BY <1>1, <1>6, SignParsed DEF Written
  <2>2. Parse(w).type = "operator" /\ Parse(w).value = w
    BY <1>4, <2>1
  <2>3. QED
    BY <1>3, <1>6, <2>1, <2>2
<1>7. QED
  BY <1>5, <1>6

\* A hexadecimal digit is four bits.
LEMMA HalvesAgree == Half = E!Half
<1>1. PICK h \in Nat : h = HalfDigits
  BY HalfDigitsAssumption
<1>2. PICK p, q : p = E!PowerOf2 /\ q = PowerOf16
  OBVIOUS
<1>3. PICK m \in Nat : m = 2 * (4 * h)
  OBVIOUS
<1>4. p[0] = 1 /\ \A n \in 1 .. m : p[n] = 2 * p[n - 1] /\ p[n - 1] \in Nat
  <2>1. DefinedAsPowers(p, 2, m)
    BY <1>1, <1>2, <1>3 DEF E!PowerOf2, DefinedAsPowers
  <2>2. p \in [0 .. m -> Nat \ {0}] /\ p[0] = 1 /\ \A n \in 1 .. m : p[n] = 2 * p[n - 1]
    BY <2>1, 2 \in Nat \ {0}, PowersAre
  <2>3. \A n \in 1 .. m : p[n - 1] \in Nat
    BY <2>2
  <2>4. QED
    BY <2>2, <2>3
<1>5. q[0] = 1 /\ \A n \in 1 .. h : q[n] = 16 * q[n - 1]
  BY <1>1, <1>2, PowersOf16
<1>6. PICK S : S = { n \in Nat : n <= h => q[n] = p[4 * n] }
  OBVIOUS
<1>7. 0 \in S
  BY <1>4, <1>5, <1>6
<1>8. ASSUME NEW n \in Nat, n \in S PROVE n + 1 \in S
  <2> SUFFICES ASSUME n + 1 <= h PROVE q[n + 1] = p[4 * (n + 1)]
    BY <1>6
  <2>1. q[n + 1] = 16 * q[n] /\ q[n] = p[4 * n]
    <3>1. n + 1 \in 1 .. h /\ (n + 1) - 1 = n /\ n <= h
      OBVIOUS
    <3>2. QED
      BY <1>5, <1>6, <1>8, <3>1
  <2>2. PICK a \in Nat : a = 4 * n /\ a + 4 <= m /\ 4 * (n + 1) = a + 4
    BY <1>3
  <2>3. PICK b, c, d, e, f :
          b = p[a] /\ c = p[a + 1] /\ d = p[a + 2] /\ e = p[a + 3] /\ f = p[a + 4]
    OBVIOUS
  <2>4. /\ c = 2 * b /\ d = 2 * c /\ e = 2 * d /\ f = 2 * e
        /\ b \in Nat /\ c \in Nat /\ d \in Nat /\ e \in Nat
    <3>1. a + 1 \in 1 .. m /\ a + 2 \in 1 .. m /\ a + 3 \in 1 .. m /\ a + 4 \in 1 .. m
      BY <2>2
    <3>2. a + 1 - 1 = a /\ a + 2 - 1 = a + 1 /\ a + 3 - 1 = a + 2 /\ a + 4 - 1 = a + 3
      OBVIOUS
    <3>3. QED
      BY <1>4, <2>3, <3>1, <3>2
  <2>5. f = 16 * b
    BY <2>4
  <2>6. QED
    BY <2>1, <2>2, <2>3, <2>5
<1>9. Nat \subseteq S
  BY <1>7, <1>8, SetInduction
<1>10. q[h] = p[4 * h]
  BY <1>6, <1>9
<1>11. QED
  BY <1>1, <1>2, <1>10 DEF Half, E!Half

\* No token is a ~, so the operand at n is the constant itself.
LEMMA IntegerWritten ==
  ASSUME Written, NEW n \in 1 .. Len(Words), IsNumber(n), NumberAt(EndOf(n)) < IntBound
  PROVE  SignedAt(n) \in Int /\ Congruent(IntegerAt(n), SignedAt(n), E!Half)
<1>1. PICK x \in Int, b \in Nat \ {0} : x = SignedAt(n) /\ b = IntBound /\ -b < x /\ x < b
  <2>1. PICK a \in Nat, b \in Nat \ {0} : a = NumberAt(EndOf(n)) /\ b = IntBound /\ a < b
    BY NumberAtIs, IntBoundAssumption DEF Written
  <2>2. SignedAt(n) = -a \/ SignedAt(n) = a
    BY <2>1 DEF SignedAt
  <2>3. -a \in Int /\ a \in Int /\ -b < -a /\ -a < b /\ -b < a
    BY <2>1
  <2>4. QED
    BY <2>1, <2>2, <2>3
<1>2. Atoi(x) = x
  BY <1>1, AtoiIs
<1>3. PICK h \in Nat \ {0} : h = E!Half /\ h = Half
  BY HalfIs, HalvesAgree
<1>4. PICK q \in Int, v \in 0 .. (h - 1) : v = x % h /\ x = h * q + v
  BY Division
<1>5. Congruent(v, x, h)
  <2>1. v = x + h * (-q) /\ -q \in Int /\ v \in Int
    BY <1>4
  <2>2. PICK p \in Int : p = -q /\ v = x + h * p
    BY <2>1
  <2>3. QED
    BY <2>1, <2>2, CongruentTo
<1>6. Cursor[n].value = v /\ v \in Int
  <2>1. Cursor[n].value = Atoi(x) % Half
    BY <1>1, TokenIs
  <2>2. Atoi(x) % Half = x % h
    BY <1>2, <1>3, Zenon
  <2>3. Cursor[n].value = v
    BY <1>4, <2>1, <2>2, Zenon
  <2>4. v \in Int
    OBVIOUS
  <2>5. QED
    BY <2>3, <2>4
<1>7. ~Odd(n)
  <2>1. \A j \in 1 .. (n - 1) : ~IsTilde(j)
    <3>1. ASSUME NEW j \in 1 .. (n - 1), IsTilde(j) PROVE FALSE
      <4>1. j \in 1 .. Len(Words)
        BY DEF Written
      <4>2. Cursor[j].type # "constant" /\ Cursor[j].value = "~"
        BY <3>1 DEF IsTilde
      <4>3. ~IsNumber(j) /\ text[StartOf(j)] = "~"
        BY <4>1, <4>2, TokenIs DEF IsConstant
      <4>4. text[StartOf(j)] \in {"+", "-"}
        BY <4>1, <4>3, WordKinds DEF Written
      <4>5. QED
        BY <4>3, <4>4
    <3>2. QED
      BY <3>1
  <2>2. Tildes(n) = {}
    BY <2>1 DEF Tildes
  <2>3. Cardinality(Tildes(n)) = 0
    BY <2>2, FS_EmptySet
  <2>4. QED
    BY <2>3 DEF Odd
<1>8. E!OperandAt(n) = v
  BY <1>6, <1>7, OperandIs
<1>9. Congruent(IntegerAt(n), v, h)
  BY <1>3, <1>6, <1>8, SignedIs DEF IntegerAt
<1>10. Congruent(IntegerAt(n), x, h)
  BY <1>5, <1>9, CongruentChain
<1>11. QED
  BY <1>1, <1>3, <1>10

\* A number, or two and more with a sign alone behind the first.
Shape(n, op) ==
  /\ n \in 1 .. Len(Words) /\ IsNumber(1)
  /\ op = "none" => n = 1
  /\ op # "none" =>
       /\ n >= 2 /\ op \in {"+", "-"}
       /\ ~IsNumber(2) /\ text[StartOf(2)] = op
       /\ \A i \in 3 .. n : IsNumber(i)

LEMMA ShapeIs ==
  ASSUME Written, NEW n, Prefix(n), OperandEnds(n), NEW op, OneOperator(n, op)
  PROVE  Shape(n, op) /\ n = Len(Words)
<1>1. PICK l \in Nat : l = Len(Words) /\ l = Len(Cursor)
  BY DEF Written
<1>2. n \in 1 .. l
  BY <1>1 DEF Prefix
<1>3. \A i \in 1 .. l : /\ IsNumber(i) <=> IsConstant(i)
                        /\ ~IsNumber(i) <=> Joins(i)
                        /\ Cursor[i].type \in OperandTypes
  <2>1. ASSUME NEW i \in 1 .. l
        PROVE  /\ IsNumber(i) => IsConstant(i) /\ ~Joins(i)
               /\ ~IsNumber(i) => ~IsConstant(i) /\ Joins(i)
    <3>1. CASE IsNumber(i)
      <4>1. IsConstant(i)
        BY <1>1, <3>1, TokenIs
      <4>2. QED
        BY <3>1, <4>1 DEF IsConstant, Joins
    <3>2. CASE ~IsNumber(i)
      <4>1. Cursor[i].type = "operator" /\ Cursor[i].value = text[StartOf(i)]
        BY <1>1, <3>2, TokenIs
      <4>2. text[StartOf(i)] \in {"+", "-"}
        BY <1>1, <3>2, WordKinds DEF Written
      <4>3. QED
        BY <3>2, <4>1, <4>2 DEF IsConstant, Joins
    <3>3. QED
      BY <3>1, <3>2
  <2>2. QED
    BY <2>1 DEF IsConstant, Joins, OperandTypes
<1>4. n = l
  <2>1. n < l => n + 1 \in 1 .. l
    BY <1>2
  <2>2. QED
    BY <1>1, <1>2, <1>3, <2>1 DEF OperandEnds
<1>5. IsNumber(1)
  BY <1>2, <1>3 DEF Prefix
<1>6. CASE op = "none"
  <2>1. \A i \in 2 .. n : ~IsConstant(i) /\ ~Joins(i)
    <3>1. \A i \in 2 .. n : i \in 1 .. n
      BY <1>2
    <3>2. QED
      BY <1>6, <3>1 DEF OneOperator, OperatorsTo
  <2>2. n # 1 => 2 \in 2 .. n /\ 2 \in 1 .. l
    BY <1>2
  <2>3. n = 1
    BY <1>3, <2>1, <2>2
  <2>4. QED
    BY <1>1, <1>4, <1>5, <1>6, <2>3 DEF Shape
<1>7. CASE op # "none"
  <2>1. PICK j \in 2 .. n : /\ OperatorsTo(n) = {j} /\ Cursor[j].value = op
                            /\ \A i \in 2 .. n : IsConstant(i) => j < i
    BY <1>7 DEF OneOperator
  <2>2. \A i \in 1 .. n : ~IsNumber(i) <=> i = j
    BY <1>3, <1>4, <2>1 DEF OperatorsTo
  <2>3. j = 2
    <3>1. 2 \in 2 .. n /\ 2 \in 1 .. l
      BY <1>2, <1>4
    <3>2. IsConstant(2) => j < 2
      BY <2>1, <3>1
    <3>3. ~IsNumber(2)
      BY <1>2, <1>3, <3>1, <3>2
    <3>4. QED
      BY <1>4, <2>2, <3>1, <3>3
  <2>4. n >= 2 /\ 2 \in 1 .. Len(Words) /\ ~IsNumber(2)
    BY <1>1, <1>2, <1>4, <2>2, <2>3
  <2>5. text[StartOf(2)] = op /\ op \in {"+", "-"}
    BY <2>1, <2>3, <2>4, TokenIs, WordKinds DEF Written
  <2>6. \A i \in 3 .. n : IsNumber(i)
    <3>1. \A i \in 3 .. n : i \in 1 .. n /\ i # 2
      OBVIOUS
    <3>2. QED
      BY <2>2, <2>3, <3>1
  <2>7. QED
    BY <1>1, <1>4, <1>5, <1>7, <2>4, <2>5, <2>6 DEF Shape
<1>8. QED
  BY <1>6, <1>7

\* Three numbers end in three places.
LEMMA ThreeNumbers ==
  ASSUME Additive, TextTyped, NEW n \in 4 .. Len(Words),
         IsNumber(1), IsNumber(3), IsNumber(n), Cardinality(NumberEnds) <= 2
  PROVE  FALSE
<1>1. PICK a, b, c : /\ a = EndOf(1) /\ b = EndOf(3) /\ c = EndOf(n)
                     /\ {a, b, c} \subseteq NumberEnds
                     /\ a # b /\ a # c /\ b # c
  <2>1. /\ Len(Words) \in Nat /\ 1 \in 1 .. Len(Words) /\ 3 \in 1 .. Len(Words)
        /\ n \in 1 .. Len(Words) /\ 3 < n /\ 1 < n /\ TextEnd \in Nat
    BY WordsPlaced
  <2>2. /\ EndOf(1) \in 1 .. TextEnd /\ EndOf(3) \in 1 .. TextEnd /\ EndOf(n) \in 1 .. TextEnd
        /\ EndOf(1) < EndOf(3) /\ EndOf(3) < EndOf(n) /\ EndOf(1) < EndOf(n)
    BY <2>1, EndsOrdered
  <2>3. EndOf(1) \in NumberEnds /\ EndOf(3) \in NumberEnds /\ EndOf(n) \in NumberEnds
    BY <2>1, EndsAre
  <2>4. QED
    BY <2>1, <2>2, <2>3
<1>2. IsFiniteSet(NumberEnds)
  <2>1. TextEnd \in Int /\ NumberEnds \subseteq 1 .. TextEnd
    BY WordsPlaced DEF NumberEnds
  <2>2. IsFiniteSet(1 .. TextEnd)
    BY <2>1, 1 \in Int, FS_Interval
  <2>3. QED
    BY <2>1, <2>2, FS_Subset
<1>a. PICK A : A = {a}
  OBVIOUS
<1>b. PICK B : B = A \cup {b}
  OBVIOUS
<1>c. PICK C : C = B \cup {c}
  OBVIOUS
<1>3. b \notin A /\ c \notin B
  BY <1>1, <1>a, <1>b
<1>4. Cardinality(A) = 1 /\ IsFiniteSet(A)
  BY <1>a, FS_Singleton
<1>5. Cardinality(B) = Cardinality(A) + 1 /\ IsFiniteSet(B)
  BY <1>3, <1>4, <1>b, FS_AddElement
<1>6. Cardinality(C) = Cardinality(B) + 1 /\ IsFiniteSet(C)
  BY <1>3, <1>5, <1>c, FS_AddElement
<1>7. C \subseteq NumberEnds
  BY <1>1, <1>a, <1>b, <1>c
<1>8. Cardinality(C) <= Cardinality(NumberEnds) /\ Cardinality(NumberEnds) \in Nat
  BY <1>2, <1>7, FS_Subset, FS_CardinalityType
<1>9. QED
  BY <1>4, <1>5, <1>6, <1>8

\* What a word adds to the arithmetic in front of it, for an operand that is
\* accepted: its - signs that are operators count once.
LEMMA WordCombines ==
  ASSUME Written, NEW n, NEW op, Shape(n, op), NEW i \in 1 .. n,
         op = "-" => Cardinality(NumberEnds) <= 2
  PROVE  /\ ArithTo[EndOf(i)] \in Int
         /\ i = 1 => ArithTo[EndOf(1)] = SignedAt(1)
         /\ i # 1 /\ ~IsNumber(i) => ArithTo[EndOf(i)] = ArithTo[EndOf(i - 1)]
         /\ i # 1 /\ IsNumber(i) =>
              ArithTo[EndOf(i)] = Combine(op, ArithTo[EndOf(i - 1)], SignedAt(i))
<1>1. Additive /\ TextTyped /\ Len(Words) \in Nat /\ i \in 1 .. Len(Words) /\ n \in Nat
  BY DEF Written, Shape
<1>2. PICK a, b, x, P :
        /\ a = ArithTo[LastEnd(i)] /\ b = ArithTo[EndOf(i)] /\ x = NumberAt(EndOf(i))
        /\ P = (Cardinality(MinusesBefore(EndOf(i))) % 2 = 0)
  OBVIOUS
<1>3. /\ a \in Int
      /\ ~IsNumber(i) => b = a
      /\ IsNumber(i) => x \in Nat /\ (P => b = a + x) /\ (~P => b = a - x)
  BY <1>1, <1>2, WordAdds
<1>4. b \in Int
  BY <1>3
<1>5. /\ text[StartOf(i)] = "-" => SignedAt(i) = -x
      /\ text[StartOf(i)] # "-" => SignedAt(i) = x
  BY <1>2 DEF SignedAt
<1>6. CASE i = 1
  <2>1. a = 0 /\ IsNumber(1)
    <3>1. LastEnd(1) = 0
      BY DEF LastEnd
    <3>2. ArithTo[0] = 0
      BY <1>1, ArithToIs DEF ArithSteps
    <3>3. QED
      BY <1>2, <1>6, <3>1, <3>2 DEF Shape
  <2>2. P <=> text[StartOf(i)] # "-"
    BY <1>1, <1>2, <1>6, <2>1, MinusParity
  <2>3. b = SignedAt(i)
    BY <1>3, <1>5, <1>6, <2>1, <2>2
  <2>4. QED
    BY <1>2, <1>4, <1>6, <2>3
<1>7. CASE i # 1
  <2>1. op # "none" /\ op \in {"+", "-"} /\ a = ArithTo[EndOf(i - 1)]
    <3>1. LastEnd(i) = EndOf(i - 1)
      BY <1>7 DEF LastEnd
    <3>2. n # 1
      BY <1>1, <1>7
    <3>3. QED
      BY <1>2, <3>1, <3>2 DEF Shape
  <2>2. ASSUME IsNumber(i) PROVE b = Combine(op, a, SignedAt(i))
    <3>1. i \in 3 .. n /\ IsNumber(1) /\ ~IsNumber(2) /\ text[StartOf(2)] = op
      <4>1. IsNumber(1) /\ ~IsNumber(2) /\ text[StartOf(2)] = op
        BY <2>1 DEF Shape
      <4>2. i # 2
        BY <2>2, <4>1
      <4>3. QED
        BY <1>1, <1>7, <4>1, <4>2
    <3>2. CASE i = 3
      <4>1. i > 1 /\ i - 1 = 2 /\ i - 2 = 1
        BY <3>2
      <4>2. P <=> (text[StartOf(i)] = "-" <=> text[StartOf(2)] = "-")
        BY <1>1, <1>2, <2>2, <3>1, <4>1, MinusParity
      <4>3. CASE op = "+"
        <5>1. P <=> text[StartOf(i)] # "-"
          BY <3>1, <4>2, <4>3
        <5>2. b = a + SignedAt(i)
          BY <1>3, <1>5, <2>2, <5>1
        <5>3. QED
          BY <4>3, <5>2 DEF Combine
      <4>4. CASE op = "-"
        <5>1. P <=> text[StartOf(i)] = "-"
          BY <3>1, <4>2, <4>4
        <5>2. b = a - SignedAt(i)
          BY <1>3, <1>5, <2>2, <5>1
        <5>3. QED
          BY <4>4, <5>2 DEF Combine
      <4>5. QED
        BY <2>1, <4>3, <4>4
    <3>3. CASE i # 3
      <4>1. i \in 4 .. Len(Words) /\ i - 1 \in 3 .. n /\ 3 \in 3 .. n
        BY <1>1, <3>1, <3>3
      <4>2. IsNumber(3) /\ IsNumber(i - 1)
        BY <2>1, <4>1 DEF Shape
      <4>3. op = "+"
        BY <1>1, <2>1, <2>2, <3>1, <4>1, <4>2, ThreeNumbers
      <4>4. P <=> text[StartOf(i)] # "-"
        BY <1>1, <1>2, <2>2, <4>2, MinusParity
      <4>5. b = a + SignedAt(i)
        BY <1>3, <1>5, <2>2, <4>4
      <4>6. QED
        BY <4>3, <4>5 DEF Combine
    <3>4. QED
      BY <3>2, <3>3
  <2>3. QED
    BY <1>2, <1>3, <1>4, <1>7, <2>1, <2>2
<1>8. QED
  BY <1>6, <1>7

\* The sum of the integers that were written is the arithmetic of the text.
LEMMA SumsAreArithmetic ==
  ASSUME Written, NEW n, NEW op, Shape(n, op), n = Len(Words),
         op = "-" => Cardinality(NumberEnds) <= 2,
         \A i \in NumberEnds : NumberAt(i) < IntBound,
         NEW g, SumsTo(g, LowOperator(op), n)
  PROVE  Congruent(g[n], Arithmetic, E!Half)
<1>1. Additive /\ TextTyped /\ n \in Nat /\ n >= 1 /\ n \in 1 .. Len(Words)
  BY DEF Written, Shape
<1>2. PICK h \in Nat \ {0} : h = E!Half
  BY HalfIs
<1>3. ASSUME NEW i \in 1 .. n, IsNumber(i)
      PROVE  SignedAt(i) \in Int /\ Congruent(IntegerAt(i), SignedAt(i), h) /\ IsConstant(i)
  <2>1. i \in 1 .. Len(Words)
    BY <1>1
  <2>2. EndOf(i) \in NumberEnds
    BY <1>1, <1>3, <2>1, EndsAre
  <2>3. QED
    BY <1>2, <1>3, <2>1, <2>2, IntegerWritten, TokenIs
<1>4. PICK S : S = { k \in Nat : k + 1 <= n => Congruent(g[k + 1], ArithTo[EndOf(k + 1)], h) }
  OBVIOUS
<1>5. 0 \in S
  <2>1. IsNumber(1) /\ 1 \in 1 .. n
    BY <1>1 DEF Shape
  <2>2. g[1] = IntegerAt(1)
    BY DEF SumsTo
  <2>3. ArithTo[EndOf(1)] = SignedAt(1)
    BY <2>1, WordCombines
  <2>4. Congruent(g[1], ArithTo[EndOf(1)], h)
    BY <1>3, <2>1, <2>2, <2>3
  <2>5. QED
    BY <1>4, <2>4, 0 + 1 = 1
<1>6. ASSUME NEW k \in Nat, k \in S PROVE k + 1 \in S
  <2>1. PICK i \in Nat : i = (k + 1) + 1 /\ i - 1 = k + 1 /\ i # 1
    OBVIOUS
  <2> SUFFICES ASSUME i <= n PROVE Congruent(g[i], ArithTo[EndOf(i)], h)
    BY <1>4, <2>1
  <2>2. i \in 1 .. n /\ i \in 2 .. n /\ i \in 1 .. Len(Words) /\ i - 1 <= n
    BY <1>1, <2>1
  <2>3. PICK a, b : a = g[i - 1] /\ b = ArithTo[EndOf(i - 1)] /\ Congruent(a, b, h)
    BY <1>4, <1>6, <2>1, <2>2
  <2>4. g[i] = IF ~IsConstant(i) THEN a ELSE Combine(LowOperator(op), a, IntegerAt(i))
    BY <2>2, <2>3 DEF SumsTo
  <2>5. CASE ~IsNumber(i)
    <3>1. ~IsConstant(i)
      BY <2>2, <2>5, TokenIs DEF IsConstant
    <3>2. ArithTo[EndOf(i)] = b
      BY <2>1, <2>2, <2>3, <2>5, WordCombines
    <3>3. QED
      BY <2>3, <2>4, <3>1, <3>2
  <2>6. CASE IsNumber(i)
    <3>1. PICK c, d : c = IntegerAt(i) /\ d = SignedAt(i) /\ Congruent(c, d, h) /\ IsConstant(i)
      BY <1>3, <2>2, <2>6
    <3>2. op \in {"+", "-"} /\ LowOperator(op) = op
      <4>1. op # "none"
        BY <2>1, <2>2 DEF Shape
      <4>2. QED
        BY <4>1 DEF Shape, LowOperator
    <3>3. g[i] = Combine(op, a, c) /\ ArithTo[EndOf(i)] = Combine(op, b, d)
      <4>1. ArithTo[EndOf(i)] = Combine(op, b, d)
        BY <2>1, <2>2, <2>3, <2>6, <3>1, WordCombines
      <4>2. QED
        BY <2>4, <3>1, <3>2, <4>1
    <3>4. Congruent(a + c, b + d, h) /\ Congruent(a - c, b - d, h)
      BY <2>3, <3>1, CongruentResults
    <3>5. QED
      BY <3>2, <3>3, <3>4 DEF Combine
  <2>7. QED
    BY <2>5, <2>6
<1>7. Nat \subseteq S
  BY <1>5, <1>6, SetInduction
<1>8. Congruent(g[n], ArithTo[EndOf(n)], h)
  <2>1. PICK k \in Nat : n = k + 1
    <3>1. n - 1 \in Nat /\ n = (n - 1) + 1
      BY <1>1
    <3>2. QED
      BY <3>1
  <2>2. k + 1 <= n
    BY <2>1
  <2>3. QED
    BY <1>4, <1>7, <2>1, <2>2
<1>9. Arithmetic = ArithTo[EndOf(n)]
  <2>1. Len(Words) # 0
    BY <1>1
  <2>2. QED
    BY <1>1, <2>1, NothingBehind
<1>10. QED
  BY <1>2, <1>8, <1>9

LEMMA AcceptedAre ==
  ASSUME SplitInv, WordsInv, JoinInv, LowInv
  PROVE  AcceptedIsArithmetic
<1> SUFFICES ASSUME result = "done", Additive,
                    \A i \in NumberEnds : NumberAt(i) < IntBound,
                    ops = "-" => Cardinality(NumberEnds) <= 2
             PROVE  sum % Half = Arithmetic % Half
  BY DEF AcceptedIsArithmetic
<1>1. phase = "split" /\ CursorTyped
  <2>1. phase # "split" => E!ExprInit
    BY DEF JoinInv
  <2>2. E!ExprInit => result = "waiting"
    BY DEF E!ExprInit
  <2>3. QED
    BY <2>1, <2>2, CursorIs
<1>2. Written
  <2>1. TextTyped /\ Understandable
    BY AdditiveReady DEF SplitInv, TextTyped, Ready
  <2>2. AreWords(tokens) /\ Len(tokens) = Len(Words)
    BY <1>1, <2>1 DEF WordsInv
  <2>3. QED
    BY <1>1, <2>1, <2>2 DEF Written, SplitInv, CursorTyped
<1>3. PICK n : n = index - 1 /\ Prefix(n) /\ OneOperator(n, ops) /\ OperandEnds(n)
               /\ Lows(n, ops, sum)
  BY DEF JoinInv, Taking, LowInv
<1>4. Shape(n, ops) /\ n = Len(Words)
  BY <1>2, <1>3, ShapeIs
<1>5. ops \in LowOperators \cup {"none"}
  BY <1>4 DEF Shape, LowOperators
<1>6. PICK g : SumsTo(g, LowOperator(ops), n) /\ Congruent(sum, g[n], E!Half)
  BY <1>3, <1>5 DEF Lows
<1>7. Congruent(g[n], Arithmetic, E!Half)
  BY <1>2, <1>4, <1>6, SumsAreArithmetic
<1>8. PICK s, r, h : s = sum /\ r = Arithmetic /\ h = E!Half /\ h = Half /\ Congruent(s, r, h)
  BY <1>6, <1>7, CongruentChain, HalvesAgree
<1>9. s % h = r % h
  BY <1>8, CongruentMod
<1>10. QED
  BY <1>8, <1>9, Zenon

(***************************************************************************)
(* For any text, any width of a half and of an int: an accepted operand of *)
(* numbers, signs and spaces has the value it has on paper, read character *)
(* by character, whichever signs the splitter took for operators and which *)
(* for parts of numbers (raw_split.cpp:71-76, tokenizer.cpp:57-58,         *)
(* assemble.cpp:235-270).                                                  *)
(***************************************************************************)
THEOREM AcceptedOperandsAreArithmetic == Spec => []AcceptedIsArithmetic
BY SplitInvariant, WordsInvariant, JoinInvariant, LowInvariant, AcceptedAre, PTL
=============================================================================

------------------------------ MODULE Splitter ------------------------------
(***************************************************************************)
(* Assembler::split and Assembler::parse (raw_split.cpp, tokenizer.cpp):   *)
(* the characters of a file become words, and every word, as soon as it is *)
(* complete, a token.  One action per branch of the loop over characters.  *)
(*                                                                         *)
(* A character is a string of length 1, a word a sequence of characters.   *)
(***************************************************************************)
EXTENDS Integers, Sequences, FiniteSets, SequencesExt

CONSTANTS
  Texts,       \* the files
  HalfDigits,  \* 16: the hexadecimal digits of 64 bits
  IntBound,    \* 2^31: the first number that is not an int
  OpcodeWords, RegisterWords, PseudoOpWords  \* the names that are reserved

ASSUME HalfDigitsAssumption == HalfDigits \in Nat \ {0}

ASSUME TextsAssumption == \A t \in Texts : t \in Seq(ToSet(t))

VARIABLES
  text,     \* the file
  pos,      \* the next character
  word, line, begin_quotes, begin_comment, begin_escape, tokens,  \* as in split
  phase     \* "splitting", "split" or "threw"

splitVars ==
  <<text, pos, word, line, begin_quotes, begin_comment, begin_escape, tokens, phase>>

Quote == "\""
Backslash == "\\"
Newline == "\n"
Semicolon == ";"
Separators == {",", " ", "\t", Newline, "\r"}
Signs == {"+", "-", "*"}

\* escape_character; an unknown one stands for itself.
EscapeCharacter(c) ==
  CASE c = "n" -> Newline
    [] c = "r" -> "\r"
    [] c = "t" -> "\t"
    [] c = "b" -> "BS"
    [] c = "0" -> "NUL"
    [] OTHER   -> c

-----------------------------------------------------------------------------
(***************************************************************************)
(* Assembler::parse                                                        *)
(***************************************************************************)

IsOperator(w) ==
  w \in { <<c>> : c \in {"+", "-", "*", "/", "%", "|", "&", "^", "~"} }
          \cup {<<"<", "<">>, <<">", ">">>}

\* Digits and what they stand for.
Numerals == << "0", "1", "2", "3", "4", "5", "6", "7", "8", "9", "a", "b", "c", "d", "e", "f" >>
Capitals == [A |-> 10, B |-> 11, C |-> 12, D |-> 13, E |-> 14, F |-> 15]

ToBase(n) == [ c \in { Numerals[i] : i \in 1 .. n } |-> (CHOOSE i \in 1 .. n : Numerals[i] = c) - 1 ]

Binary == ToBase(2)
Decimal == ToBase(10)
Hexadecimal ==
  LET small == ToBase(16)
  IN  [ c \in DOMAIN small \cup DOMAIN Capitals |->
          IF c \in DOMAIN small THEN small[c] ELSE Capitals[c] ]

\* The base a digit is read to.
Radix(digit) == Cardinality(Range(digit))

\* How many digits w starts with, and their value: what atoi and stoull read.
Leading(w, digit) ==
  CHOOSE n \in 0 .. Len(w) :
    /\ \A i \in 1 .. n : w[i] \in DOMAIN digit
    /\ n < Len(w) => w[n + 1] \notin DOMAIN digit

Positional(w, digit) ==
  LET value[i \in 0 .. Len(w)] ==
        IF i = 0 THEN 0
        ELSE value[i - 1] * Radix(digit) + digit[w[i]]
  IN  value[Len(w)]

Read(w, digit) == Positional(SubSeq(w, 1, Leading(w, digit)), digit)

\* 16^n
PowerOf16[n \in 0 .. HalfDigits] == IF n = 0 THEN 1 ELSE 16 * PowerOf16[n - 1]

Half == PowerOf16[HalfDigits]

\* The low bits of a number are an int, and a long has 64 bits.
ASSUME IntBoundAssumption == IntBound \in Nat \ {0} /\ 2 * IntBound <= Half

\* atoi: strtol gives the nearest long, of which an int keeps the low bits.
Atoi(n) ==
  LET bound == Half \div 2
      long == IF n >= bound THEN bound - 1 ELSE IF n < -bound THEN -bound ELSE n
      low == long % (2 * IntBound)
  IN  IF low < IntBound THEN low ELSE low - 2 * IntBound

\* stoull throws when there is no digit, or the value does not fit in 64 bits.
Readable(w, digit) == Leading(w, digit) > 0 /\ Read(w, digit) < Half

Tail2(w) == SubSeq(w, 3, Len(w))

\* Mutant of HexNumber: the upper digits are those of a word without 0x.
HexNumberMutUpper(w) ==
  IF Len(w) > HalfDigits + 2
  THEN << SubSeq(w, 3, Len(w) - HalfDigits + 1), SubSeq(w, Len(w) - HalfDigits + 1, Len(w)) >>
  ELSE << <<"0">>, Tail2(w) >>

\* The upper and the lower digits of a constant of up to 128 bits.
HexNumber(w) ==
  IF Len(w) > HalfDigits + 2
  THEN << SubSeq(w, 3, Len(w) - HalfDigits), SubSeq(w, Len(w) - HalfDigits + 1, Len(w)) >>
  ELSE << <<"0">>, Tail2(w) >>

Token(type, w, n) == [type |-> type, value |-> w, number |-> n]
Threw == Token("threw", <<>>, 0)

OnLine(token, l) ==
  [type |-> token.type, value |-> token.value, number |-> token.number, line |-> l]

\* A word that starts like a number.  atoi gives an int, which fills one half
\* of the value when it is negative.
Number(w) ==
  IF Len(w) > 2 /\ w[2] = "x"
  THEN LET parts == HexNumber(w)
       IN  IF Readable(parts[1], Hexadecimal) /\ Readable(parts[2], Hexadecimal)
           THEN Token("constant", w, Read(parts[1], Hexadecimal) * Half + Read(parts[2], Hexadecimal))
           ELSE Threw
  ELSE IF Len(w) > 2 /\ w[2] = "b"
  THEN IF Readable(Tail2(w), Binary) THEN Token("constant", w, Read(Tail2(w), Binary)) ELSE Threw
  ELSE LET signed == w[1] \in {"-", "+"}
           digits == IF signed THEN Tail(w) ELSE w
           n == Read(digits, Decimal)
       IN  Token("constant", w, Atoi(IF w[1] = "-" THEN -n ELSE n) % Half)

Named(w) ==
  Token(CASE w \in OpcodeWords   -> "opcode"
          [] w \in RegisterWords -> "register"
          [] w \in PseudoOpWords -> "pseudoop"
          [] OTHER               -> "symbol", w, 0)

Parse(w) ==
  IF w[1] = "." THEN Token("directive", w, 0)
  ELSE IF w[Len(w)] = ":" THEN Token("label", SubSeq(w, 1, Len(w) - 1), 0)
  ELSE IF w[1] = Quote THEN Token("string", SubSeq(w, 2, Len(w) - 1), 0)
  ELSE IF w[1] = "'"
       THEN IF Len(w) > 2 /\ w[3] = "'" THEN Token("constant", w, 0) ELSE Threw
  ELSE IF IsOperator(w) THEN Token("operator", w, 0)
  ELSE IF w[1] \in {"-", "+"} \cup DOMAIN Decimal THEN Number(w)
  ELSE Named(w)

-----------------------------------------------------------------------------
(***************************************************************************)
(* Assembler::split                                                        *)
(***************************************************************************)

SplitInit ==
  /\ text \in Texts
  /\ pos = 1
  /\ word = <<>>
  /\ line = 1
  /\ begin_quotes = FALSE /\ begin_comment = FALSE /\ begin_escape = FALSE
  /\ tokens = <<>>
  /\ phase = "splitting"

Splitting == phase = "splitting" /\ pos <= Len(text)

\* The character the loop is at, and whether it is_escaped.
Char == IF begin_escape THEN EscapeCharacter(text[pos]) ELSE text[pos]
IsEscaped == begin_escape

\* parse({w, line}) and push_back, or its exception.
Push(w) ==
  /\ tokens' = Append(tokens, OnLine(Parse(w), line))
  /\ phase' = IF Parse(w) = Threw THEN "threw" ELSE "splitting"

NoPush == UNCHANGED <<tokens, phase>>

\* FLUSH_WORD
Flush(next) ==
  /\ IF word = <<>> THEN NoPush ELSE Push(word)
  /\ word' = next

NextChar == pos' = pos + 1 /\ UNCHANGED text

QuotedEscape ==
  /\ Splitting /\ begin_quotes /\ Char = Backslash
  /\ begin_escape' = TRUE
  /\ NextChar /\ NoPush
  /\ UNCHANGED <<word, line, begin_quotes, begin_comment>>

ClosesString == Char = Quote /\ ~IsEscaped

QuotedCharacter ==
  /\ Splitting /\ begin_quotes /\ Char # Backslash
  /\ IF ClosesString
     THEN Push(Append(word, Char)) /\ word' = <<>> /\ begin_quotes' = FALSE
     ELSE NoPush /\ word' = Append(word, Char) /\ UNCHANGED begin_quotes
  /\ begin_escape' = FALSE
  /\ NextChar
  /\ UNCHANGED <<line, begin_comment>>

InComment ==
  /\ Splitting /\ ~begin_quotes /\ begin_comment
  /\ begin_comment' = (Char # Newline)
  /\ line' = IF Char = Newline THEN line + 1 ELSE line
  /\ begin_escape' = FALSE
  /\ NextChar /\ NoPush
  /\ UNCHANGED <<word, begin_quotes>>

Plain == Splitting /\ ~begin_quotes /\ ~begin_comment

StartComment ==
  /\ Plain /\ Char = Semicolon
  /\ begin_comment' = TRUE
  /\ begin_escape' = FALSE
  /\ NextChar /\ NoPush
  /\ UNCHANGED <<word, line, begin_quotes>>

StartEscape ==
  /\ Plain /\ Char = Backslash
  /\ begin_escape' = TRUE
  /\ NextChar /\ NoPush
  /\ UNCHANGED <<word, line, begin_quotes, begin_comment>>

\* Mutant of StartSigned: a sign does not start a word.
StartSignedMutJoin ==
  /\ Plain /\ Char \in Signs
  /\ word' = Append(word, Char)
  /\ begin_escape' = FALSE
  /\ NextChar /\ NoPush
  /\ UNCHANGED <<line, begin_quotes, begin_comment>>

StartSigned ==
  /\ Plain /\ Char \in Signs
  /\ Flush(<<Char>>)
  /\ begin_escape' = FALSE
  /\ NextChar
  /\ UNCHANGED <<line, begin_quotes, begin_comment>>

\* Mutant of Separate: the line is counted before the word is parsed.
SeparateMutLine ==
  /\ Plain /\ Char \in Separators
  /\ line' = IF Char = Newline THEN line + 1 ELSE line
  /\ IF word = <<>> THEN NoPush
     ELSE /\ tokens' = Append(tokens, OnLine(Parse(word), line'))
          /\ phase' = IF Parse(word) = Threw THEN "threw" ELSE "splitting"
  /\ word' = <<>>
  /\ begin_escape' = FALSE
  /\ NextChar
  /\ UNCHANGED <<begin_quotes, begin_comment>>

Separate ==
  /\ Plain /\ Char \in Separators
  /\ Flush(<<>>)
  /\ line' = IF Char = Newline THEN line + 1 ELSE line
  /\ begin_escape' = FALSE
  /\ NextChar
  /\ UNCHANGED <<begin_quotes, begin_comment>>

AppendCharacter ==
  /\ Plain /\ Char \notin Separators \cup Signs \cup {Semicolon, Backslash}
  /\ word' = Append(word, Char)
  /\ begin_quotes' = (Char = Quote)
  /\ begin_escape' = FALSE
  /\ NextChar /\ NoPush
  /\ UNCHANGED <<line, begin_comment>>

EndOfText ==
  /\ phase = "splitting" /\ pos > Len(text)
  /\ IF word = <<>> THEN phase' = "split" /\ UNCHANGED tokens
     ELSE /\ tokens' = Append(tokens, OnLine(Parse(word), line))
          /\ phase' = IF Parse(word) = Threw THEN "threw" ELSE "split"
  /\ UNCHANGED <<text, pos, word, line, begin_quotes, begin_comment, begin_escape>>

SplitNext ==
  \/ QuotedEscape \/ QuotedCharacter \/ InComment \/ StartComment \/ StartEscape
  \/ StartSigned \/ Separate \/ AppendCharacter \/ EndOfText

-----------------------------------------------------------------------------
(***************************************************************************)
(* Properties: what the words of a text are, without the flags of the loop *)
(***************************************************************************)

TextEnd == Len(text)

\* Where the string ends whose characters go on at i: a backslash and the
\* character behind it are one.
StringEnd[i \in 1 .. TextEnd + 2] ==
  IF i > TextEnd THEN TextEnd
  ELSE IF text[i] = Backslash THEN StringEnd[i + 2]
  ELSE IF text[i] = Quote THEN i
  ELSE StringEnd[i + 1]

\* Where the word ends that has a character at i.
WordEnd[i \in 1 .. TextEnd] ==
  IF text[i] = Quote THEN StringEnd[i + 1]
  ELSE IF i = TextEnd \/ text[i + 1] \in Separators \cup Signs \cup {Semicolon} THEN i
  ELSE WordEnd[i + 1]

\* The next line behind i.
LineEnd(i) ==
  CHOOSE j \in i .. TextEnd :
    /\ j = TextEnd \/ text[j] = Newline
    /\ \A k \in i .. j : text[k] = Newline => k = j

\* First and last position of every word from i on.
WordsFrom[i \in 1 .. TextEnd + 1] ==
  IF i > TextEnd THEN <<>>
  ELSE IF text[i] \in Separators THEN WordsFrom[i + 1]
  ELSE IF text[i] = Semicolon THEN WordsFrom[LineEnd(i) + 1]
  ELSE <<<<i, WordEnd[i]>>>> \o WordsFrom[WordEnd[i] + 1]

Words == WordsFrom[1]

\* The positions inside of the strings that are, or end, words.
InString(words) ==
  UNION { LET first == CHOOSE q \in w[1] .. w[2] :
                         text[q] = Quote /\ \A p \in w[1] .. (q - 1) : text[p] # Quote
          IN  (first + 1) .. w[2] :
            w \in { v \in ToSet(words) : \E q \in v[1] .. v[2] : text[q] = Quote } }

\* The characters from i to j, escape sequences replaced.
Contents(i, j) ==
  LET from[k \in i .. j + 2] ==
        IF k > j THEN <<>>
        ELSE IF text[k] # Backslash THEN <<text[k]>> \o from[k + 1]
        ELSE IF k = j THEN <<>>
        ELSE <<EscapeCharacter(text[k + 1])>> \o from[k + 2]
  IN  from[i]

\* Texts whose characters are all understood: escapes are used in strings, and
\* none is a backslash.
Understood(inString) ==
  \A i \in 1 .. TextEnd : text[i] = Backslash =>
    /\ i \in inString
    /\ ~(i + 1 \in inString /\ text[i + 1] = Backslash)

\* No comment begins right behind a word.
CommentsApart(words, inString) ==
  \A w \in ToSet(words) :
    w[2] < TextEnd /\ text[w[2] + 1] = Semicolon => w[2] \in inString

(***************************************************************************)
(* The tokens are the words of the text in their order, with the escape    *)
(* sequences of strings replaced; signs start a word and quotes protect    *)
(* everything between them.  Each token has the line its word starts on,   *)
(* as long as no string before it goes over the end of a line: those ends  *)
(* are never counted, and nothing is said of the lines of later tokens     *)
(* (raw_split.cpp:44-56).  That an escaped backslash starts another        *)
(* escape, and a comment right behind a word joins it with the next line,  *)
(* is excluded (raw_split.cpp:36-94).                                      *)
(***************************************************************************)
TokensAreTheWords ==
  phase = "split" =>
    LET words == Words
        inString == InString(words)
        newlinesBefore(i) == { j \in 1 .. (i - 1) : text[j] = Newline }
    IN  Understood(inString) /\ CommentsApart(words, inString) =>
          /\ Len(tokens) = Len(words)
          /\ \A n \in 1 .. Len(words) :
               LET first == words[n][1]
               IN  /\ tokens[n] = OnLine(Parse(Contents(first, words[n][2])), tokens[n].line)
                   /\ newlinesBefore(first) \cap inString = {} =>
                        tokens[n].line = 1 + Cardinality(newlinesBefore(first))

(***************************************************************************)
(* A constant that starts with 0x is the number of its digits, split into  *)
(* two halves or not, for any number of digits up to those of 128 bits     *)
(* (tokenizer.cpp:42-54).                                                  *)
(***************************************************************************)
HexIsPositional ==
  \A n \in DOMAIN tokens :
    LET w == tokens[n].value
        digits == Tail2(w)
    IN  /\ tokens[n].type = "constant" /\ Len(w) \in 3 .. (2 + 2 * HalfDigits)
        /\ w[1] = "0" /\ w[2] = "x" /\ Leading(digits, Hexadecimal) = Len(digits)
        => tokens[n].number = Positional(digits, Hexadecimal)
=============================================================================

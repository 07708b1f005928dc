--------------------------- MODULE MCExpressions ---------------------------
(***************************************************************************)
(* Expressions with halves of one hexadecimal digit, over every short text *)
(* of an alphabet with a character for each branch of the splitter, every  *)
(* text that may be a number, and every operand of few tokens, with values *)
(* at the boundaries of a half and of the whole.  An int has three bits.   *)
(***************************************************************************)
EXTENDS Expressions

TextsOf(alphabet, length) == UNION { [1 .. n -> alphabet] : n \in 0 .. length }

MCPlainTexts ==
  TextsOf({"n", ".", "+", " ", "\n", ";", "\"", "\\"}, 5)
    \cup [1 .. 6 -> {"n", " ", "\n", ";", "\"", "\\"}]

MCNumberTexts ==
  { <<"0", "x">> \o digits : digits \in TextsOf({"0", "1", "f", "A"}, 4) }
    \cup TextsOf({"0", "1", "x", "b", ":", " "}, 4)

MCSignTexts == TextsOf({"1", "+", "-", " "}, 6) \cup [1 .. 5 -> {"0", "1", "+", "-", " "}]

\* Operands, a word after the other.
Word(name) ==
  CASE name = "0x7"  -> <<"0", "x", "7">>
    [] name = "0x8"  -> <<"0", "x", "8">>
    [] name = "0x80" -> <<"0", "x", "8", "0">>
    [] name = "-1"   -> <<"-", "1">>
    [] name = "<<"   -> <<"<", "<">>
    [] name = ">>"   -> <<">", ">">>
    [] OTHER         -> <<name>>

TextOf(names) ==
  LET upTo[n \in 0 .. Len(names)] ==
        IF n = 0 THEN <<>> ELSE upTo[n - 1] \o Word(names[n]) \o <<" ">>
  IN  upTo[Len(names)]

MCAnyWord ==
  {"0", "1", "0x7", "0x8", "-1", "0x80"}
    \cup {"+", "-", "*", "/", ">>", "<<", "%", "&", "|", "^", "~", "r"}
MCFewWords == {"0", "0x7", "-1", "0x80", "+", "-", "/", ">>", "<<", "~", "^"}
MCArithmetic == {"1", "-1", "0x80", "+", "-", "*", "~"}

MCOperands ==
  UNION { [1 .. n -> MCAnyWord] : n \in 1 .. 3 }
    \cup [1 .. 4 -> MCFewWords]
    \cup { <<"0x7">> \o rest : rest \in [1 .. 5 -> MCArithmetic] }

MCTexts ==
  MCPlainTexts \cup MCNumberTexts \cup MCSignTexts
    \cup { TextOf(names) : names \in MCOperands }

MCOpcodeWords == {<<"n">>}
MCRegisterWords == {<<"n", "n">>, <<"r">>}
MCPseudoOpWords == {<<"n", ".">>}
=============================================================================

---------------------------- MODULE Expressions ----------------------------
(***************************************************************************)
(* From the text of an operand to its value: Splitter followed by          *)
(* ConstantExpr.  The splitter decides whether a sign is an operator or    *)
(* belongs to the number behind it, resolve_constants what a constant      *)
(* without an operator in front of it means.                               *)
(***************************************************************************)
EXTENDS Splitter

VARIABLES
  index, sum, ops, negated,  \* as in resolve_constants
  result                     \* and "waiting" for the tokens

operandVars == <<index, sum, ops, negated, result>>
allVars == <<splitVars, operandVars>>

OperatorOf(w) ==
  CASE w = <<"<", "<">> -> "<<"
    [] w = <<">", ">">> -> ">>"
    [] OTHER            -> w[1]

\* The tokens as resolve_constants sees them.
Cursor ==
  [ i \in DOMAIN tokens |->
      [type |-> tokens[i].type,
       value |-> IF tokens[i].type = "operator" THEN OperatorOf(tokens[i].value)
                 ELSE tokens[i].number] ]

E == INSTANCE ConstantExpr WITH HalfBits <- 4 * HalfDigits, tokens <- Cursor

Init == SplitInit /\ E!ExprInit

Split == SplitNext /\ UNCHANGED operandVars

\* resolve_constants, in a program that has one operand.
Evaluate ==
  /\ phase = "split"
  /\ UNCHANGED splitVars
  /\ E!ExprNext

Stopped ==
  /\ phase = "threw" \/ result \in {"done", "rejected", "trapped"}
  /\ UNCHANGED allVars

Next == Split \/ Evaluate \/ Stopped

Spec == Init /\ [][Next]_allVars /\ WF_allVars(Split \/ Evaluate)
-----------------------------------------------------------------------------
(***************************************************************************)
(* Properties: the text read as arithmetic, character by character         *)
(***************************************************************************)

Digits == DOMAIN Decimal

\* Where numbers end, and the number that ends at i.
NumberEnds ==
  { i \in 1 .. TextEnd : text[i] \in Digits /\ (i = TextEnd \/ text[i + 1] \notin Digits) }

NumberStart(i) ==
  CHOOSE j \in 1 .. i :
    /\ \A k \in j .. i : text[k] \in Digits
    /\ j = 1 \/ text[j - 1] \notin Digits

NumberAt(i) == Positional(SubSeq(text, NumberStart(i), i), Decimal)

\* Minus signs between the number that ends at i and the one before it.
MinusesBefore(i) ==
  { j \in 1 .. (NumberStart(i) - 1) :
      text[j] = "-" /\ \A k \in j .. (NumberStart(i) - 1) : text[k] \notin Digits }

Arithmetic ==
  LET upTo[i \in 0 .. TextEnd] ==
        IF i = 0 THEN 0
        ELSE IF i \notin NumberEnds THEN upTo[i - 1]
        ELSE IF Cardinality(MinusesBefore(i)) % 2 = 0 THEN upTo[i - 1] + NumberAt(i)
        ELSE upTo[i - 1] - NumberAt(i)
  IN  upTo[TextEnd]

\* Nothing but numbers, signs and spaces.
Additive == \A i \in 1 .. TextEnd : text[i] \in Digits \cup {"+", "-", " "}

(***************************************************************************)
(* An additive operand that is accepted has the value it has on paper, its *)
(* signs being operators or parts of numbers, as long as its numbers are   *)
(* ints and a - that is an operator is in front of the last number: behind *)
(* it, the operator is still in force and would count again                *)
(* (raw_split.cpp:71-76, tokenizer.cpp:57-58, assemble.cpp:235-270).       *)
(***************************************************************************)
AcceptedIsArithmetic ==
  /\ result = "done" /\ Additive
  /\ \A i \in NumberEnds : NumberAt(i) < IntBound
  /\ ops = "-" => Cardinality(NumberEnds) <= 2
  => sum % Half = Arithmetic % Half

(***************************************************************************)
(* The properties of ConstantExpr, for operands that are split from a text *)
(* (assemble.cpp:205-305).                                                 *)
(***************************************************************************)
OneOperatorJoinsAll == E!OneOperatorJoinsAll
LowHalfIsInteger == E!LowHalfIsInteger

(***************************************************************************)
(* Splitting and evaluating come to an end, with a trap only where a       *)
(* division by zero was written (raw_split.cpp:36, assemble.cpp:225).      *)
(***************************************************************************)
ExpressionEnds == <>(phase = "threw" \/ E!Ended)
=============================================================================

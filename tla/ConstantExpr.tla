---------------------------- MODULE ConstantExpr ----------------------------
(***************************************************************************)
(* Assembler::resolve_constants (assemble.cpp): a constant operand and     *)
(* what follows it, as long as that is a constant or an operator.  One     *)
(* action per iteration of the loop.  The first operator stays in force    *)
(* for every constant behind it; a second one is refused.                  *)
(*                                                                         *)
(* A value has 2 * HalfBits bits.  Constants of up to HalfBits bits leave  *)
(* the upper half of the union 0, negative ones too.                       *)
(***************************************************************************)
EXTENDS Integers, Sequences, FiniteSets, FiniteSetsExt

CONSTANT HalfBits  \* 64

\* 2^n
PowerOf2[n \in 0 .. 2 * HalfBits] == IF n = 0 THEN 1 ELSE 2 * PowerOf2[n - 1]

Half == PowerOf2[HalfBits]
Full == Half * Half

VARIABLES
  tokens,   \* from the cursor on
  index,    \* the next one
  sum,      \* sum.u128
  ops,      \* the operator in force
  negated,  \* is_negated
  result    \* "waiting", "running", "done", "rejected" or "trapped"

exprVars == <<tokens, index, sum, ops, negated, result>>

Operators == {"+", "-", "*", "/", ">>", "<<", "%", "&", "|", "^"}

ExprNextIs(type) == index <= Len(tokens) /\ tokens[index].type = type

\* ~value in 128 bits.
Complement(value) == Full - 1 - value

\* The bits of a value that are set, and the value of a set of bits.
Ones(value) == { i \in 0 .. 2 * HalfBits - 1 : (value \div PowerOf2[i]) % 2 = 1 }
FromOnes(bits) == MapThenSumSet(LAMBDA i : PowerOf2[i], bits)

And(a, b) == FromOnes(Ones(a) \cap Ones(b))
Or(a, b) == FromOnes(Ones(a) \cup Ones(b))
Xor(a, b) == FromOnes((Ones(a) \cup Ones(b)) \ (Ones(a) \cap Ones(b)))

\* What a shift by the width or more gives is undefined: the processor may use
\* the low bits of the count, or the compiler may have folded it to 0 or to
\* the value that is shifted.
ShiftCounts(count) ==
  IF count < 2 * HalfBits THEN {count}
  ELSE {0, count % (2 * HalfBits), 2 * HalfBits}

\* The cases of the switch; only division can trap.
Apply(op, a, b) ==
  CASE op = "+"  -> {(a + b) % Full}
    [] op = "-"  -> {(a - b) % Full}
    [] op = "*"  -> {(a * b) % Full}
    [] op = "/"  -> {a \div b}
    [] op = "%"  -> {a % b}
    [] op = ">>" -> { a \div PowerOf2[n] : n \in ShiftCounts(b) }
    [] op = "<<" -> { (a * PowerOf2[n]) % Full : n \in ShiftCounts(b) }
    [] op = "&"  -> {And(a, b)}
    [] op = "|"  -> {Or(a, b)}
    [] op = "^"  -> {Xor(a, b)}

-----------------------------------------------------------------------------

\* Before the call.
ExprInit ==
  /\ index = 1
  /\ sum = 0
  /\ ops = "none"
  /\ negated = FALSE
  /\ result = "waiting"

\* next<TK_CONSTANT>(), or its exception.
Call ==
  /\ result = "waiting"
  /\ index' = index + 1
  /\ IF ExprNextIs("constant")
     THEN sum' = tokens[index].value /\ result' = "running"
     ELSE result' = "rejected" /\ UNCHANGED sum
  /\ UNCHANGED <<tokens, ops, negated>>

\* Mutant of Taken: is_negated is left set.
TakenMutKeep == index' = index + 1 /\ UNCHANGED <<tokens, ops, negated>>

\* A constant is taken; is_negated is for one constant, ops stays.
Taken ==
  /\ index' = index + 1
  /\ negated' = FALSE
  /\ UNCHANGED <<tokens, ops>>

TakeConstant ==
  /\ result = "running" /\ ExprNextIs("constant")
  /\ LET v == tokens[index].value
         operand == IF negated THEN Complement(v) ELSE v
     IN  IF ops = "none"
         THEN result' = "rejected" /\ UNCHANGED sum
         ELSE IF ops \in {"/", "%"} /\ operand = 0
         THEN result' = "trapped" /\ UNCHANGED sum
         ELSE sum' \in Apply(ops, sum, operand) /\ UNCHANGED result
  /\ Taken

\* Mutants of TakeNegation: not a toggle; the token is looked at, not taken.
TakeNegationMutSet ==
  /\ result = "running" /\ ExprNextIs("operator") /\ tokens[index].value = "~"
  /\ negated' = TRUE
  /\ index' = index + 1
  /\ UNCHANGED <<tokens, sum, ops, result>>

TakeNegationMutPeek ==
  /\ result = "running" /\ ExprNextIs("operator") /\ tokens[index].value = "~"
  /\ negated' = ~negated
  /\ UNCHANGED <<tokens, index, sum, ops, result>>

TakeNegation ==
  /\ result = "running" /\ ExprNextIs("operator") /\ tokens[index].value = "~"
  /\ negated' = ~negated
  /\ index' = index + 1
  /\ UNCHANGED <<tokens, sum, ops, result>>

TakeOperator ==
  /\ result = "running" /\ ExprNextIs("operator")
  /\ tokens[index].value \in Operators
  /\ IF ops = "none"
     THEN ops' = tokens[index].value /\ UNCHANGED result
     ELSE result' = "rejected" /\ UNCHANGED ops
  /\ index' = index + 1
  /\ UNCHANGED <<tokens, sum, negated>>

Return ==
  /\ result = "running"
  /\ ~ExprNextIs("constant") /\ ~ExprNextIs("operator")
  /\ result' = "done"
  /\ UNCHANGED <<tokens, index, sum, ops, negated>>

ExprNext == Call \/ TakeConstant \/ TakeNegation \/ TakeOperator \/ Return

-----------------------------------------------------------------------------
(***************************************************************************)
(* Properties                                                              *)
(***************************************************************************)

\* The operand: the tokens in front of the first that is neither.
OperandLength ==
  CHOOSE n \in 0 .. Len(tokens) :
    /\ \A i \in 1 .. n : tokens[i].type \in {"constant", "operator"}
    /\ n < Len(tokens) => tokens[n + 1].type \notin {"constant", "operator"}

ConstantsAt == { i \in 1 .. OperandLength : tokens[i].type = "constant" }

OperatorsAt ==
  { i \in 1 .. OperandLength : tokens[i].type = "operator" /\ tokens[i].value # "~" }

\* The constant at i with the complements between it and the one before.
OperandAt(i) ==
  LET tildes == { j \in 1 .. (i - 1) :
                    /\ tokens[j].type = "operator" /\ tokens[j].value = "~"
                    /\ \A k \in j .. (i - 1) : tokens[k].type # "constant" }
  IN  IF Cardinality(tildes) % 2 = 0 THEN tokens[i].value ELSE Complement(tokens[i].value)

\* All constants up to i joined by one operator, from left to right.
Joined(op) ==
  LET upTo[i \in 1 .. OperandLength] ==
        IF i = 1 THEN {tokens[1].value}
        ELSE IF i \notin ConstantsAt THEN upTo[i - 1]
        ELSE UNION { Apply(op, a, OperandAt(i)) : a \in upTo[i - 1] }
  IN  upTo[OperandLength]

(***************************************************************************)
(* An operand is accepted only if it has one operator at most, in front of *)
(* every constant but the first, and then is what that operator makes of   *)
(* its constants from left to right, each complemented if an odd number of *)
(* ~ precedes it, wherever in between they stand (assemble.cpp:225-301).   *)
(***************************************************************************)
OneOperatorJoinsAll ==
  result = "done" =>
    /\ \A i \in ConstantsAt \ {1} : \E j \in OperatorsAt : j < i
    /\ \A i, j \in OperatorsAt : i = j
    /\ IF OperatorsAt = {} THEN sum = tokens[1].value
       ELSE sum \in Joined(tokens[CHOOSE i \in OperatorsAt : TRUE].value)

\* The integer a constant stands for where its low half is used.
SignedHalf(n) ==
  LET low == n % Half IN IF 2 * low < Half THEN low ELSE low - Half

(***************************************************************************)
(* Negative constants fill only one half of the 128 bits, so the upper     *)
(* half of a sum means nothing; yet the lower half, which every consumer   *)
(* of imm.i64 reads, is the sum, difference or product of the integers     *)
(* that were written, whatever carries and borrows crossed the middle      *)
(* (assemble.cpp:236-244, tokenizer.cpp:58).                               *)
(***************************************************************************)
LowHalfIsInteger ==
  result = "done" /\ { tokens[i].value : i \in OperatorsAt } \subseteq {"+", "-", "*"} =>
    LET value == [ i \in ConstantsAt |-> SignedHalf(OperandAt(i)) ]
        op == IF OperatorsAt = {} THEN "+" ELSE tokens[CHOOSE i \in OperatorsAt : TRUE].value
        integer[k \in 1 .. OperandLength] ==
          IF k = 1 THEN value[1]
          ELSE IF k \notin ConstantsAt THEN integer[k - 1]
          ELSE CASE op = "+" -> integer[k - 1] + value[k]
                 [] op = "-" -> integer[k - 1] - value[k]
                 [] op = "*" -> integer[k - 1] * value[k]
    IN  sum % Half = integer[OperandLength] % Half

\* resolve_constants has returned or thrown, or trapped where a division by
\* zero was written (assemble.cpp:225, 245-255).
Ended ==
  \/ result \in {"done", "rejected"}
  \/ result = "trapped" /\ OperandAt(index - 1) = 0 /\ ops \in {"/", "%"}
=============================================================================

------------------------------ MODULE Encoding ------------------------------
(***************************************************************************)
(* The instruction sequences that build a value wider than one immediate   *)
(* (opcodes.cpp): li, set, la, laq and farcall.  A request is one such     *)
(* statement with its operands; the words it assembles to, patches         *)
(* included, are then run by the machine they are meant for, and the       *)
(* properties compare what the registers end with to what was requested.   *)
(*                                                                         *)
(* Widths are parameters, so that TLC can take small ones: an immediate    *)
(* has log(Low) bits, an upper immediate log(High), a word both, and a     *)
(* register four words.  Values are what the bits of a union or an integer *)
(* of that width hold.                                                     *)
(***************************************************************************)
EXTENDS Integers, Sequences

CONSTANTS
  Low,       \* 2^12, the range of Itype.imm
  High,      \* 2^20, the range of Utype.imm
  Constants, \* operands of li and set
  Locations, \* addresses of instructions that name a label
  Targets,   \* addresses of labels
  Leftovers  \* what registers may hold before

Word == Low * High    \* 2^32
Long == Word * Word   \* 2^64
Wide == Long * Long   \* 2^128

ASSUME WidthAssumption ==
  /\ Low \in Nat /\ Low > 1 /\ Low % 2 = 0
  /\ High \in Nat /\ High > 1 /\ High % 2 = 0

ASSUME OperandAssumption ==
  /\ Constants \subseteq 0 .. (Wide - 1)
  /\ Locations \subseteq 0 .. (Wide - 1)
  /\ Targets \subseteq 0 .. (Wide - 1)
  /\ Leftovers \subseteq 0 .. (Wide - 1)

VARIABLES
  request,  \* the statement: what it is, its constant or the addresses
  code,     \* the words output for it, after patching
  pc,       \* the next word to run
  regs,     \* the registers the sequence uses
  target    \* where farcall went, or -1

vars == <<request, code, pc, regs, target>>

Registers == {"dst", "temp", "zero"}

\* The integer that the bits of n, cut to a width, stand for.
Signed(n, range) ==
  LET bits == n % range IN IF 2 * bits < range THEN bits ELSE bits - range

-----------------------------------------------------------------------------
(***************************************************************************)
(* Assembling                                                              *)
(***************************************************************************)

\* Instruction(opcode): all other fields are 0.
Instr(op) == [op |-> op, rd |-> "zero", rs1 |-> "zero", rs2 |-> "zero", imm |-> 0]

LowPart(value) == value % Low

\* Mutant of HighPart: no rounding.
HighPartMutTruncate(value) == (value \div Low) % High

\* (value + Itype.imm) >> 12, cut to Utype.imm: carries when the machine will
\* take the low part for a negative number.  The sum overflows an int for the
\* largest values; the bits that are kept do not depend on how.
HighPart(value) == ((value + LowPart(value)) \div Low) % High

\* build_uint32: ADDI alone, LUI alone, or both.
BuildUint32(reg, value) ==
  LET addi == [Instr("addi") EXCEPT !.rd = reg, !.imm = LowPart(value)]
      lui  == [Instr("lui") EXCEPT !.rd = reg, !.imm = HighPart(value)]
  IN  IF HighPart(value) = 0 THEN <<addi>>
      ELSE IF LowPart(value) = 0 THEN <<lui>>
      ELSE <<lui, [addi EXCEPT !.rs1 = reg]>>

ShiftWord ==
  [Instr("slli") EXCEPT !.rd = "dst", !.rs1 = "dst"]

AddTemp ==
  [Instr("add") EXCEPT !.rd = "dst", !.rs1 = "dst", !.rs2 = "temp"]

\* What word i of a 128-bit value counts for.
Weight(i) ==
  CASE i = 0 -> 1
    [] i = 1 -> Word
    [] i = 2 -> Long
    [] i = 3 -> Long * Word

\* value.imm[i] of the union, and an int32_t made of the bits from word i on.
Part(value, i) == Signed(value \div Weight(i), Word)

Li(value) == BuildUint32("dst", Signed(value, Word))

\* Mutant of NothingAbove: judged by the part next above only.
NothingAboveMutNext(value, i) == Part(value, i + 1) = 0

\* value_so_far = 0: the parts above part i are 0.  Sign-extended parts are
\* or-ed into it and shifts never push a part out, so it is 0 only then.
NothingAbove(value, i) == \A j \in (i + 1) .. 3 : Part(value, j) = 0

SetPart(value, i) ==
  BuildUint32("temp", Part(value, i))
    \o (IF NothingAbove(value, i) THEN <<>> ELSE <<ShiftWord>>)
    \o <<AddTemp>>

\* set: "When the constant is 32-bits", or part by part from the top.
Set(value) ==
  IF value < Word THEN BuildUint32("dst", Signed(value, Word))
  ELSE BuildUint32("dst", Part(value, 3))
         \o SetPart(value, 2) \o SetPart(value, 1) \o SetPart(value, 0)

\* Mutant of IsRelativelyClose: an unsigned range.
IsRelativelyCloseMutUnsigned(diff) == diff \in 0 .. (Word - 1)

IsRelativelyClose(diff) == -Word <= 2 * diff /\ 2 * diff < Word

\* la, once the address of the label is known.  The difference of the
\* addresses is cut to 64 bits.
La(loc, sym) ==
  LET diff  == Signed(sym - loc, Long)
      close == IsRelativelyClose(diff)
      value == IF close THEN diff ELSE sym
  IN  << [Instr(IF close THEN "auipc" ELSE "lui")
            EXCEPT !.rd = "dst", !.imm = HighPart(value)],
         [Instr("addi")
            EXCEPT !.rd = "dst", !.rs1 = "dst", !.imm = LowPart(value)] >>

\* What laq outputs: pairs for a constant that needs both instructions.
LaqWords ==
  LET Placeholder(reg) == BuildUint32(reg, (Word \div 2) - 1)
      More == Placeholder("temp") \o <<ShiftWord, AddTemp>>
  IN  Placeholder("dst") \o More \o More \o More

\* set_uint32, at a word of a sequence.
SetUint32(words, at, value) ==
  [words EXCEPT ![at].imm = HighPart(value), ![at + 1].imm = LowPart(value)]

\* laq, once the address is known: offsets 0, 2*4, 6*4 and 10*4.
Laq(sym) ==
  LET w1 == SetUint32(LaqWords, 1, Part(sym, 3))
      w2 == SetUint32(w1, 3, Part(sym, 2))
      w3 == SetUint32(w2, 7, Part(sym, 1))
  IN  SetUint32(w3, 11, Part(sym, 0))

\* Mutant of Farcall: the second half jumps relative to zero.
FarcallMutZero(sym) ==
  << [Instr("lui") EXCEPT !.rd = "temp", !.imm = (sym \div Low) % High],
     [Instr("jalr") EXCEPT !.imm = LowPart(sym)] >>

\* farcall, once the address is known.
Farcall(sym) ==
  << [Instr("lui") EXCEPT !.rd = "temp", !.imm = (sym \div Low) % High],
     [Instr("jalr") EXCEPT !.rs1 = "temp", !.imm = LowPart(sym)] >>

\* The statements, and what each assembles to.
Requests ==
  [op : {"li", "set"}, value : Constants, loc : {0}]
    \cup [op : {"la", "laq", "farcall"}, value : Targets, loc : Locations]

CodeOf(r) ==
  CASE r.op = "li"      -> Li(r.value)
    [] r.op = "set"     -> Set(r.value)
    [] r.op = "la"      -> La(r.loc, r.value)
    [] r.op = "laq"     -> Laq(r.value)
    [] r.op = "farcall" -> Farcall(r.value)

-----------------------------------------------------------------------------
(***************************************************************************)
(* Running: the instruction set, which is not part of the assembler.       *)
(***************************************************************************)

Init ==
  /\ request \in Requests
  /\ code = CodeOf(request)
  /\ pc = 1
  /\ regs \in { r \in [Registers -> Leftovers \cup {0}] : r["zero"] = 0 }
  /\ target = -1

Running(op) == pc <= Len(code) /\ code[pc].op = op

Write(value) ==
  /\ regs' = [regs EXCEPT ![code[pc].rd] = value % Wide]
  /\ pc' = pc + 1
  /\ UNCHANGED <<request, code, target>>

Upper == Signed(code[pc].imm * Low, Word)
Immediate == Signed(code[pc].imm, Low)

RunLui   == Running("lui") /\ Write(Upper)
RunAuipc == Running("auipc") /\ Write(request.loc + 4 * (pc - 1) + Upper)
RunAddi  == Running("addi") /\ Write(regs[code[pc].rs1] + Immediate)
RunSlli  == Running("slli") /\ Write((regs[code[pc].rs1] % (Wide \div Word)) * Word)
RunAdd   == Running("add") /\ Write(regs[code[pc].rs1] + regs[code[pc].rs2])

RunJalr ==
  /\ Running("jalr")
  /\ target' = (regs[code[pc].rs1] + Immediate) % Wide
  /\ pc' = pc + 1
  /\ UNCHANGED <<request, code, regs>>

Done == pc > Len(code)

Stopped == Done /\ UNCHANGED vars

Next == RunLui \/ RunAuipc \/ RunAddi \/ RunSlli \/ RunAdd \/ RunJalr \/ Stopped

Spec == Init /\ [][Next]_vars

-----------------------------------------------------------------------------
(***************************************************************************)
(* Properties                                                              *)
(***************************************************************************)

Loaded(op) == Done /\ request.op = op

\* What a pair of instructions can add: rounding costs half an immediate.
PairReach == -(Word \div 2) .. ((Word \div 2) - (Low \div 2) - 1)

(***************************************************************************)
(* One or two instructions, whichever build_uint32 chose, leave a constant *)
(* within reach of a pair in the register, whatever it held before and     *)
(* sign-extended when negative: the carry of the upper immediate makes up  *)
(* for the sign of the lower one at every boundary (opcodes.cpp:30-50).  A *)
(* negative constant fills the lower half of the union; constants that are *)
(* cut to 32 bits, or that carry into the sign, are outside.               *)
(***************************************************************************)
LiLoads ==
  Loaded("li") /\ request.value < Long /\ Signed(request.value, Long) \in PairReach =>
    regs["dst"] = Signed(request.value, Long) % Wide

\* No part below the top one is sign-extended, or carries into its sign.
PartsPlain(value) ==
  \A i \in 0 .. 2 : Part(value, i) >= 0 /\ Part(value, i) \in PairReach

(***************************************************************************)
(* set and laq leave their constant or address whole when its parts but    *)
(* the top one are plain: a shift that is left out, a part of 0 and the    *)
(* offsets of the patches never matter (opcodes.cpp:68-112, 143-180).      *)
(***************************************************************************)
PartsAddUp ==
  (Loaded("set") \/ Loaded("laq")) /\ PartsPlain(request.value) =>
    regs["dst"] = request.value

(***************************************************************************)
(* la leaves the address of its label for labels near the instruction, and *)
(* for labels near address 0 whose distance is not mistaken for a small    *)
(* one when it is cut to 64 bits (opcodes.cpp:125-139).                    *)
(***************************************************************************)
LaLoadsReachable ==
  Loaded("la") =>
    LET near == Signed(request.value - request.loc, Wide) \in PairReach
        low  == /\ Signed(request.value, Wide) \in PairReach
                /\ ~IsRelativelyClose(Signed(request.value - request.loc, Long))
    IN  near \/ low => regs["dst"] = request.value

(***************************************************************************)
(* farcall goes to its label when bit 11 of the address is clear and the   *)
(* address is one LUI can build (opcodes.cpp:345-351).                     *)
(***************************************************************************)
FarcallReachesLowHalf ==
  Loaded("farcall") /\ Signed(request.value, Wide) \in -(Word \div 2) .. ((Word \div 2) - 1) =>
    (2 * LowPart(request.value) < Low => target = request.value)

(***************************************************************************)
(* README, set: "Loads up to 128-bit constant into 'dst'".                 *)
(***************************************************************************)
SetLoadsConstant == Loaded("set") => regs["dst"] = request.value
=============================================================================

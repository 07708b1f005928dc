----------------------------- MODULE Instructions -----------------------------
(***************************************************************************)
(* Statements that assemble to instructions with their operands in one     *)
(* word (opcodes.cpp, rv32i_instr.hpp): loads, stores, branches, jumps,    *)
(* arithmetic and system instructions.  A handler takes operands from the  *)
(* token cursor, rejects what it does not expect, leaves what it does not  *)
(* want for the loop of assemble to stumble on, and outputs words whose    *)
(* immediates are split over bit fields; jumps and branches are patched    *)
(* when the distance to their label is known.                              *)
(*                                                                         *)
(* \div and % on integers are the shift of a signed integer and the        *)
(* truncation to a bit field.  A distance is the difference of two 128-bit *)
(* addresses; it is cut where the code cuts it.                            *)
(***************************************************************************)
EXTENDS Integers, Sequences

CONSTANTS
  Registers,  \* numbers of registers operands may name
  Constants,  \* values of constant operands
  Distances,  \* from an instruction to the label it names
  Mod64,      \* 2^64, the range of the int64_t a distance is put in
  MaxOperands

ASSUME OperandsAssumption ==
  /\ Registers \subseteq 0 .. 31
  /\ Constants \subseteq Int
  /\ Distances \subseteq Int
  /\ Mod64 \in Nat /\ Mod64 >= 4096
  /\ MaxOperands \in Nat

VARIABLES
  statement,  \* mnemonic and operand tokens
  index,      \* of the next token
  words,      \* output of the handler
  distance,   \* to the label, once it is known
  status      \* "reading", "scheduled", "done" or "rejected"

vars == <<statement, index, words, distance, status>>

-----------------------------------------------------------------------------
(***************************************************************************)
(* The words: the bit fields of union rv32i_instruction, and what the      *)
(* machine makes of them.                                                  *)
(***************************************************************************)

Instr(opcode) ==
  [opcode |-> opcode, rd |-> 0, funct3 |-> 0, rs1 |-> 0, rs2 |-> 0,
   funct7 |-> 0, imm |-> 0, imm1 |-> 0, imm2 |-> 0, imm3 |-> 0, imm4 |-> 0]

\* width bits of value >> shift, as an assignment to a bit field keeps them.
Bits(value, shift, width) == (value \div 2^shift) % 2^width

\* value | (sign() ? ext : 0), as int32_t: all bits from width on are set.
Extend(value, sign, width) == IF sign THEN value - 2^width ELSE value

ItypeSignedImm(w) == Extend(w.imm, Bits(w.imm, 11, 1) = 1, 12)
StypeSignedImm(w) ==
  Extend(w.imm1 + w.imm2 * 2^5, Bits(w.imm2, 6, 1) = 1, 12)
BtypeSignedImm(w) ==
  Extend(w.imm2 * 2 + w.imm3 * 2^5 + w.imm1 * 2^11, w.imm4 = 1, 12)
JtypeJumpOffset(w) ==
  Extend(w.imm3 * 2 + w.imm2 * 2^11 + w.imm1 * 2^12, w.imm4 = 1, 20)

-----------------------------------------------------------------------------
(***************************************************************************)
(* Operands                                                                *)
(***************************************************************************)

Token == [type : {"register"}, value : Registers]
           \cup [type : {"constant"}, value : Constants]
           \cup [type : {"symbol"}, value : {0}]

Operand(i) == statement.args[i].value

NextIs(i, type) ==
  i <= Len(statement.args) /\ statement.args[i].type = type

\* One operand of a handler: next<T>(), or resolve_constants(), which rejects
\* a constant right behind its first.
Takes(i, kind) ==
  IF kind = "constants"
  THEN NextIs(i, "constant") /\ ~NextIs(i + 1, "constant")
  ELSE NextIs(i, kind)

Shape(kinds) == \A i \in 1 .. Len(kinds) : Takes(i, kinds[i])

\* What a handler returns when its operands have this shape, if they do.
Form(kinds, output) ==
  IF Shape(kinds) THEN {[used |-> Len(kinds), words |-> output]} ELSE {}

-----------------------------------------------------------------------------
(***************************************************************************)
(* The handlers: for every mnemonic the forms its operands may have, at    *)
(* most one of which applies.                                              *)
(***************************************************************************)

LoadOps == [lb |-> 0, lh |-> 1, lw |-> 2, ld |-> 3, lbu |-> 4, lhu |-> 5,
            lwu |-> 6, lq |-> 7]
StoreOps == [sb |-> 0, sh |-> 1, sw |-> 2, sd |-> 3, sq |-> 4]
BranchOps == [beq |-> 0, bne |-> 1, blt |-> 4, bge |-> 5, bltu |-> 6, bgeu |-> 7]
ImmediateOps == [add |-> 0, sll |-> 1, slt |-> 2, sltu |-> 3, xor |-> 4,
                 srl |-> 5, or |-> 6, and |-> 7]
RegisterOps ==
  [sub  |-> [f3 |-> 0, f7 |-> 32], mul |-> [f3 |-> 0, f7 |-> 1],
   div  |-> [f3 |-> 4, f7 |-> 1],  divu |-> [f3 |-> 5, f7 |-> 1],
   rem  |-> [f3 |-> 6, f7 |-> 1],  remu |-> [f3 |-> 7, f7 |-> 1]]
SystemOps == [ecall |-> 0, ebreak |-> 1, wfi |-> 261]

NopForms == Form(<<>>, <<Instr("OP_IMM")>>)

LoadForms(f3) ==
  LET load == [Instr("LOAD") EXCEPT !.rd = Operand(1), !.funct3 = f3]
  IN  Form(<<"register", "constants", "register">>,
           <<[load EXCEPT !.imm = Bits(Operand(2), 0, 12), !.rs1 = Operand(3)]>>)
        \cup Form(<<"register", "register">>,
                  <<[load EXCEPT !.rs1 = Operand(2)]>>)

\* Mutant of StoreForms: the fields of the offset overlap.
StoreFormsMutShift(f3) ==
  LET store == [Instr("STORE") EXCEPT !.funct3 = f3, !.rs1 = Operand(1), !.rs2 = Operand(2)]
  IN  IF NextIs(3, "constant")
      THEN Form(<<"register", "register", "constants">>,
                <<[store EXCEPT !.imm1 = Bits(Operand(3), 0, 5),
                                !.imm2 = Bits(Operand(3), 4, 7)]>>)
      ELSE Form(<<"register", "register">>, <<store>>)

\* The first register is the base address, the second the value.
StoreForms(f3) ==
  LET store == [Instr("STORE") EXCEPT !.funct3 = f3, !.rs1 = Operand(1), !.rs2 = Operand(2)]
  IN  IF NextIs(3, "constant")
      THEN Form(<<"register", "register", "constants">>,
                <<[store EXCEPT !.imm1 = Bits(Operand(3), 0, 5),
                                !.imm2 = Bits(Operand(3), 5, 7)]>>)
      ELSE Form(<<"register", "register">>, <<store>>)

BranchForms(f3) ==
  Form(<<"register", "register", "symbol">>,
       <<[Instr("BRANCH") EXCEPT !.rs1 = Operand(1), !.rs2 = Operand(2), !.funct3 = f3]>>)

\* The fields of Jtype, for a distance or a constant.
WithJumpOffset(w, diff) ==
  [w EXCEPT !.imm3 = Bits(diff, 1, 10), !.imm2 = Bits(diff, 11, 1),
            !.imm1 = Bits(diff, 12, 8), !.imm4 = Bits(diff, 19, 1)]

\* Mutant of CallForms: the optional register is always x1.
CallFormsMutLink ==
  LET call == [Instr("JAL") EXCEPT !.rd = 1]
      used == IF NextIs(2, "register") THEN 2 ELSE 1
  IN  IF NextIs(1, "symbol") THEN {[used |-> used, words |-> <<call>>]}
      ELSE IF NextIs(1, "constant")
      THEN {[used |-> used, words |-> <<WithJumpOffset(call, Operand(1))>>]}
      ELSE {}

\* call and jal: a label or a distance, then where to link, x1 if not given.
CallForms ==
  LET linked == NextIs(2, "register")
      call == [Instr("JAL") EXCEPT !.rd = IF linked THEN Operand(2) ELSE 1]
      used == IF linked THEN 2 ELSE 1
  IN  IF NextIs(1, "symbol") THEN {[used |-> used, words |-> <<call>>]}
      ELSE IF NextIs(1, "constant")
      THEN {[used |-> used, words |-> <<WithJumpOffset(call, Operand(1))>>]}
      ELSE {}

JmpForms == Form(<<"symbol">>, <<Instr("JAL")>>)

\* jalr takes each operand only if it is there.
JalrForms ==
  LET base   == IF NextIs(1, "register") THEN 1 ELSE 0
      offset == IF NextIs(base + 1, "constant") THEN 1 ELSE 0
      link   == IF NextIs(base + offset + 1, "register") THEN 1 ELSE 0
  IN  {[used |-> base + offset + link,
        words |-> <<[Instr("JALR") EXCEPT
          !.rs1 = IF base = 1 THEN Operand(1) ELSE 0,
          !.imm = IF offset = 1 THEN Bits(Operand(base + 1), 0, 12) ELSE 0,
          !.rd  = IF link = 1 THEN Operand(base + offset + 1) ELSE 0]>>]}

RetForms == Form(<<>>, <<[Instr("JALR") EXCEPT !.rs1 = 1]>>)

\* Mutant of WithRegisters: the destination of two registers is not read.
WithRegistersMutOperand(w) ==
  IF NextIs(3, "register")
  THEN [w EXCEPT !.rd = Operand(1), !.rs1 = Operand(2), !.rs2 = Operand(3)]
  ELSE [w EXCEPT !.rd = Operand(1), !.rs1 = Operand(2)]

\* rd, rs1 and rs2 of two registers or of three.
WithRegisters(w) ==
  IF NextIs(3, "register")
  THEN [w EXCEPT !.rd = Operand(1), !.rs1 = Operand(2), !.rs2 = Operand(3)]
  ELSE [w EXCEPT !.rd = Operand(1), !.rs1 = Operand(1), !.rs2 = Operand(2)]

RegisterForms(w) ==
  IF NextIs(3, "register")
  THEN Form(<<"register", "register", "register">>, <<WithRegisters(w)>>)
  ELSE Form(<<"register", "register">>, <<WithRegisters(w)>>)

ImmediateFits(n) == n <= 2047 /\ n >= -2048

\* op_imm_helper.  For the 64-bit operations the register form keeps the
\* opcode of the immediate form.
ImmediateForms(f3, suffix) ==
  LET opcode   == [plain |-> "OP_IMM", w |-> "OP_IMM32", d |-> "OP_IMM64"][suffix]
      register == [plain |-> "OP", w |-> "OP32", d |-> "OP_IMM64"][suffix]
      immediate == [Instr(opcode) EXCEPT !.funct3 = f3, !.rd = Operand(1),
                       !.rs1 = Operand(1), !.imm = Bits(Operand(2), 0, 12)]
  IN  IF NextIs(2, "constant") /\ ~ImmediateFits(Operand(2)) THEN {}
      ELSE Form(<<"register", "constants">>, <<immediate>>)
             \cup RegisterForms([Instr(register) EXCEPT !.funct3 = f3])

\* op_f7_helper.
FunctionForms(f, suffix) ==
  LET opcode == [plain |-> "OP", w |-> "OP32", d |-> "OP64"][suffix]
  IN  RegisterForms([Instr(opcode) EXCEPT !.funct3 = f.f3, !.funct7 = f.f7])

MovForms ==
  Form(<<"register", "register">>,
       <<[Instr("OP_IMM") EXCEPT !.rd = Operand(1), !.rs1 = Operand(2)]>>)

IncForms ==
  Form(<<"register">>,
       <<[Instr("OP_IMM") EXCEPT !.rd = Operand(1), !.rs1 = Operand(1), !.imm = 1]>>)

SyscallForms ==
  Form(<<"constants">>,
       <<[Instr("OP_IMM") EXCEPT !.rd = 17, !.imm = Bits(Operand(1), 0, 12)],
         Instr("SYSTEM")>>)

SystemForms ==
  Form(<<"constants", "constants">>,
       <<[Instr("SYSTEM") EXCEPT !.funct3 = Bits(Operand(1), 0, 3),
                                 !.imm = Bits(Operand(2), 0, 12)]>>)

\* ecall, ebreak, wfi.
FixedForms(imm) == Form(<<>>, <<[Instr("SYSTEM") EXCEPT !.imm = imm]>>)

-----------------------------------------------------------------------------
(***************************************************************************)
(* One statement, from its mnemonic to the end of its patch.               *)
(***************************************************************************)

\* opcode_list: the mnemonics, with what w and d behind them select.
Mnemonics ==
  [op : DOMAIN LoadOps \cup DOMAIN StoreOps \cup DOMAIN BranchOps \cup DOMAIN SystemOps
          \cup {"nop", "ldu", "call", "jmp", "jalr", "ret", "mov", "inc", "syscall", "system"},
   suffix : {"plain"}]
    \cup [op : DOMAIN ImmediateOps \cup DOMAIN RegisterOps, suffix : {"plain", "w", "d"}]

Operands == UNION { [1 .. n -> Token] : n \in 0 .. MaxOperands }

Op == statement.mnemonic.op

\* The handlers that name a label and leave its patch for later.
Schedules ==
  \/ Op \in DOMAIN BranchOps \cup {"jmp"}
  \/ Op = "call" /\ NextIs(1, "symbol")

Init ==
  /\ statement \in [mnemonic : Mnemonics, args : Operands]
  /\ index = 1
  /\ words = <<>>
  /\ distance = 0
  /\ status = "reading"

\* opcode_list: the handler of every mnemonic.
Forms ==
  CASE Op \in DOMAIN LoadOps      -> LoadForms(LoadOps[Op])
    [] Op \in DOMAIN StoreOps     -> StoreForms(StoreOps[Op])
    [] Op \in DOMAIN BranchOps    -> BranchForms(BranchOps[Op])
    [] Op \in DOMAIN ImmediateOps -> ImmediateForms(ImmediateOps[Op], statement.mnemonic.suffix)
    [] Op \in DOMAIN RegisterOps  -> FunctionForms(RegisterOps[Op], statement.mnemonic.suffix)
    [] Op \in DOMAIN SystemOps    -> FixedForms(SystemOps[Op])
    [] Op = "nop"     -> NopForms
    [] Op = "ldu"     -> {}       \* throws "Unimplemented"
    [] Op = "call"    -> CallForms
    [] Op = "jmp"     -> JmpForms
    [] Op = "jalr"    -> JalrForms
    [] Op = "ret"     -> RetForms
    [] Op = "mov"     -> MovForms
    [] Op = "inc"     -> IncForms
    [] Op = "syscall" -> SyscallForms
    [] Op = "system"  -> SystemForms

\* The handler returns; its words are output, its work is scheduled.
Handle ==
  /\ status = "reading" /\ words = <<>>
  /\ \E form \in Forms : words' = form.words /\ index' = form.used + 1
  /\ status' = IF Schedules THEN "scheduled" ELSE "reading"
  /\ UNCHANGED <<statement, distance>>

Fail ==
  /\ status' = "rejected"
  /\ UNCHANGED <<statement, index, words, distance>>

\* next<T>() finds another token or none, resolve_constants finds a constant
\* too many, an immediate is out of bounds, or "Unimplemented".
Reject == status = "reading" /\ words = <<>> /\ Forms = {} /\ Fail

\* The loop of assemble finds an operand that no handler took.
UnexpectedToken ==
  /\ status \in {"reading", "scheduled"} /\ words # <<>>
  /\ index <= Len(statement.args)
  /\ Fail

\* Nothing is left and nothing to patch.
Complete ==
  /\ status = "reading" /\ words # <<>> /\ index > Len(statement.args)
  /\ status' = "done"
  /\ UNCHANGED <<statement, index, words, distance>>

Patchable == status = "scheduled" /\ index > Len(statement.args)

\* Mutant of WithBranchOffset: bit 11 of the distance in place of the sign.
WithBranchOffsetMutSign(w, diff) ==
  [w EXCEPT !.imm2 = Bits(diff, 1, 4), !.imm3 = Bits(diff, 5, 6),
            !.imm1 = Bits(diff, 12, 1), !.imm4 = Bits(diff, 11, 1)]

\* The fields of Btype.
WithBranchOffset(w, diff) ==
  [w EXCEPT !.imm2 = Bits(diff, 1, 4), !.imm3 = Bits(diff, 5, 6),
            !.imm1 = Bits(diff, 11, 1), !.imm4 = Bits(diff, 12, 1)]

PatchBranch ==
  /\ Patchable /\ Op \in DOMAIN BranchOps
  /\ \E diff \in Distances :
       /\ words' = [words EXCEPT ![1] = WithBranchOffset(@, diff)]
       /\ distance' = diff
  /\ status' = "done"
  /\ UNCHANGED <<statement, index>>

\* const int64_t diff: the integer its lower 64 bits stand for.
Cut(diff) ==
  LET bits == diff % Mod64 IN IF 2 * bits < Mod64 THEN bits ELSE bits - Mod64

\* Mutant of InReach: both bounds excluded.
InReachMutStrict(diff) == Cut(diff) \in -2047 .. 2046

\* bounds_check_jump.
InReach(diff) == Cut(diff) \in -2048 .. 2047

PatchJump ==
  /\ Patchable /\ Op \in {"call", "jmp"}
  /\ \E diff \in Distances :
       /\ InReach(diff)
       /\ words' = [words EXCEPT ![1] = WithJumpOffset(@, Cut(diff))]
       /\ distance' = diff
  /\ status' = "done"
  /\ UNCHANGED <<statement, index>>

OutOfReach ==
  /\ Patchable /\ Op \in {"call", "jmp"}
  /\ \E diff \in Distances : ~InReach(diff) /\ distance' = diff
  /\ status' = "rejected"
  /\ UNCHANGED <<statement, index, words>>

Stopped == status \in {"done", "rejected"} /\ UNCHANGED vars

Next ==
  \/ Handle \/ Reject \/ UnexpectedToken \/ Complete
  \/ PatchBranch \/ PatchJump \/ OutOfReach \/ Stopped

Spec == Init /\ [][Next]_vars
-----------------------------------------------------------------------------
(***************************************************************************)
(* Properties                                                              *)
(***************************************************************************)

Assembled(ops) == status = "done" /\ Op \in ops

\* What n is when only the bits below width are kept, as a signed number.
Wrapped(n, width) == Extend(n % 2^width, (n % 2^width) >= 2^(width - 1), width)

(***************************************************************************)
(* A branch goes to its label if that is within reach of its 13 bits, and  *)
(* otherwise to the place those bits name: the four fields together hold   *)
(* every bit of the distance but the lowest (opcodes.cpp:293-300).         *)
(***************************************************************************)
BranchesReach ==
  Assembled(DOMAIN BranchOps) =>
    BtypeSignedImm(words[1]) = Wrapped(distance - (distance % 2), 13)

\* A label that an int64_t can measure the distance to.
Measurable(diff) == -Mod64 <= 2 * diff /\ 2 * diff < Mod64

(***************************************************************************)
(* A call or jump to a label at an even distance goes there, or stops the  *)
(* program, when the label is less than 2^63 away, and it stops it only    *)
(* for a label that is more than 12 bits away (opcodes.cpp:361-370,        *)
(* 416-425).  One 2^64 and a little away is taken for one at the little,   *)
(* as the distance is an int64_t by the time it is checked.                *)
(***************************************************************************)
JumpsReachOrStop ==
  /\ Op \in {"call", "jmp"} /\ status = "rejected" =>
       distance = 0 \/ distance \notin -2048 .. 2047
  /\ /\ Assembled({"call", "jmp"}) /\ Schedules
     /\ distance % 2 = 0 /\ Measurable(distance)
     => JtypeJumpOffset(words[1]) = distance

(***************************************************************************)
(* A call by a constant of up to 20 bits with a sign jumps by that         *)
(* constant, and links in the register that is given (opcodes.cpp:371-383).*)
(***************************************************************************)
ConstantCallsReach ==
  Assembled({"call"}) /\ ~Schedules =>
    /\ Operand(1) \in -(2^19) .. (2^19 - 1) /\ Operand(1) % 2 = 0 =>
         JtypeJumpOffset(words[1]) = Operand(1)
    /\ words[1].rd = IF Len(statement.args) = 2 THEN Operand(2) ELSE 1

\* The constant of a statement that has one.
Offset == CHOOSE n \in Constants :
            \E i \in 1 .. Len(statement.args) :
              NextIs(i, "constant") /\ Operand(i) = n

HasOffset == \E i \in 1 .. Len(statement.args) : NextIs(i, "constant")

(***************************************************************************)
(* A constant of 12 bits with a sign that was accepted is what the machine *)
(* decodes, wherever the operand stands and however its bits are split,    *)
(* and no arithmetic takes a constant that is not                          *)
(* (opcodes.cpp:188-191, 250-254, 394-397, 434-442, 596-599).              *)
(***************************************************************************)
OffsetsSurvive ==
  status = "done" /\ HasOffset /\ Op # "call" =>
    /\ Offset \in -2048 .. 2047 =>
         (IF Op \in DOMAIN StoreOps THEN StypeSignedImm(words[1])
          ELSE ItypeSignedImm(words[1])) = Offset
    /\ Op \in DOMAIN ImmediateOps => Offset \in -2048 .. 2047

\* The operations on 64 bits that also exist with an immediate.
DoubleImmediate == Op \in DOMAIN ImmediateOps /\ statement.mnemonic.suffix = "d"

(***************************************************************************)
(* README, 3-register mode: "add t0, a0, a1 equals t0 = a0 + a1"; with two *)
(* registers the first is both destination and operand, no register        *)
(* operand is dropped, and the word is one that has a second operand.  A   *)
(* load or store without an offset has its registers in the fields that    *)
(* make it the move its mnemonic says (opcodes.cpp:183-195, 241-256,       *)
(* 443-458, 464-478).  The 64-bit forms of add to xor are left out: on     *)
(* registers they keep the opcode of the immediate form (opcodes.cpp:448). *)
(***************************************************************************)
RegistersInOrder ==
  LET n == Len(statement.args)
  IN  ~HasOffset =>
        /\ Assembled(DOMAIN ImmediateOps \cup DOMAIN RegisterOps) /\ ~DoubleImmediate =>
             /\ n \in {2, 3}
             /\ words[1].opcode \in {"OP", "OP32", "OP64"}
             /\ words[1].rd = Operand(1)
             /\ words[1].rs1 = Operand(n - 1)
             /\ words[1].rs2 = Operand(n)
        /\ Assembled(DOMAIN LoadOps) =>
             n = 2 /\ words[1].rd = Operand(1) /\ words[1].rs1 = Operand(2)
        /\ Assembled(DOMAIN StoreOps) =>
             n = 2 /\ words[1].rs1 = Operand(1) /\ words[1].rs2 = Operand(2)
=============================================================================

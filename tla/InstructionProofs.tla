-------------------------- MODULE InstructionProofs --------------------------
(***************************************************************************)
(* Theorems about statements with their operands in one word, for every    *)
(* register, every constant, every distance and any number of operands.    *)
(*                                                                         *)
(* First what the bit fields of a word hold together, then the forms the   *)
(* handler of a mnemonic has, then the invariant: the output of a statement*)
(* is that of one form, which took every operand when it is done.  Last    *)
(* what the words of each form hold, and the theorems.                     *)
(***************************************************************************)
EXTENDS Instructions, TLAPS

-----------------------------------------------------------------------------
(***************************************************************************)
(* Bits                                                                    *)
(***************************************************************************)

\* Powers that are widths of fields.
LEMMA Powers ==
  /\ 2^0 = 1 /\ 2^1 = 2 /\ 2^4 = 16 /\ 2^5 = 32 /\ 2^6 = 64 /\ 2^7 = 128 /\ 2^8 = 256
  /\ 2^10 = 1024 /\ 2^11 = 2048 /\ 2^12 = 4096 /\ 2^13 = 8192 /\ 2^19 = 524288
  /\ 2^20 = 1048576 /\ 13 - 1 = 12
OBVIOUS

\* The only multiple of m nearer to 0 than m is 0.
LEMMA SmallMultiple ==
  ASSUME NEW d \in Int, NEW m \in Nat, m > 0, -m < m * d, m * d < m
  PROVE  d = 0
<1>1. CASE d >= 1
  <2>1. m * (d - 1) >= 0
    BY <1>1
  <2>2. m * (d - 1) = (m * d) - m
    OBVIOUS
  <2>3. QED
    BY <2>1, <2>2
<1>2. CASE d <= -1
  <2>1. m * ((-1) - d) >= 0
    BY <1>2
  <2>2. m * ((-1) - d) = (-m) - (m * d)
    OBVIOUS
  <2>3. QED
    BY <2>1, <2>2
<1>3. QED
  BY <1>1, <1>2

\* The cut loses nothing of a distance that an int64_t can hold.
LEMMA CutIs ==
  ASSUME NEW n \in Int
  PROVE  Cut(n) \in Int /\ (Measurable(n) => Cut(n) = n)
<1>1. Mod64 \in Nat /\ Mod64 > 0
  BY OperandsAssumption
<1> DEFINE q == n \div Mod64
           bits == n % Mod64
<1>2. q \in Int /\ bits \in Int /\ 0 <= bits /\ bits < Mod64 /\ n = (Mod64 * q) + bits
  BY <1>1
<1>3. Cut(n) = IF 2 * bits < Mod64 THEN bits ELSE bits - Mod64
  BY DEF Cut
<1> HIDE DEF q, bits
<1>4. ASSUME Measurable(n) PROVE Cut(n) = n
  <2>1. -Mod64 <= 2 * n /\ 2 * n < Mod64
    BY <1>4 DEF Measurable
  <2>2. CASE 2 * bits < Mod64
    <3>1. -Mod64 < Mod64 * q /\ Mod64 * q < Mod64 /\ Mod64 * q \in Int
      BY <1>1, <1>2, <2>1, <2>2
    <3>2. q = 0
      BY <1>1, <1>2, <3>1, SmallMultiple
    <3>3. QED
      BY <1>1, <1>2, <1>3, <2>2, <3>2
  <2>3. CASE ~(2 * bits < Mod64)
    <3>1. Mod64 * (q + 1) = (Mod64 * q) + Mod64 /\ q + 1 \in Int /\ Mod64 * q \in Int
      BY <1>1, <1>2
    <3>2. -Mod64 < Mod64 * (q + 1) /\ Mod64 * (q + 1) < Mod64
      BY <1>1, <1>2, <2>1, <2>3, <3>1
    <3>3. q + 1 = 0
      BY <1>1, <3>1, <3>2, SmallMultiple
    <3>4. Mod64 * q = -Mod64
      BY <1>1, <3>1, <3>3
    <3>5. QED
      BY <1>1, <1>2, <1>3, <2>3, <3>4
  <2>4. QED
    BY <2>2, <2>3
<1>5. QED
  BY <1>1, <1>2, <1>3, <1>4

LEMMA ShortDistance ==
  ASSUME NEW n \in Int, -2048 <= n, n <= 2047
  PROVE  Cut(n) = n
<1>1. Measurable(n)
  BY OperandsAssumption DEF Measurable
<1>2. QED
  BY <1>1, CutIs

LEMMA BranchFieldsHold ==
  ASSUME NEW n \in Int, NEW w,
         w.imm2 = Bits(n, 1, 4), w.imm3 = Bits(n, 5, 6),
         w.imm1 = Bits(n, 11, 1), w.imm4 = Bits(n, 12, 1)
  PROVE  BtypeSignedImm(w) = Wrapped(n - (n % 2), 13)
<1>1. PICK f2 \in Int : 0 <= f2 /\ f2 <= 15 /\ f2 = (n \div 2) % 16
  OBVIOUS
<1>2. PICK f3 \in Int : 0 <= f3 /\ f3 <= 63 /\ f3 = (n \div 32) % 64
  OBVIOUS
<1>3. PICK f1 \in Int : 0 <= f1 /\ f1 <= 1 /\ f1 = (n \div 2048) % 2
  OBVIOUS
<1>4. PICK f4 \in Int : 0 <= f4 /\ f4 <= 1 /\ f4 = (n \div 4096) % 2
  OBVIOUS
<1>5. PICK f0 \in Int : 0 <= f0 /\ f0 <= 1 /\ f0 = n % 2
  OBVIOUS
<1>6. PICK top \in Int :
        n = ((((f0 + (2 * f2)) + (32 * f3)) + (2048 * f1)) + (4096 * f4)) + (8192 * top)
  <2>1. n = (2 * (n \div 2)) + f0 /\ n \div 2 \in Int
    BY <1>5
  <2>2. n \div 2 = (16 * (n \div 32)) + f2 /\ n \div 32 \in Int
    BY <1>1
  <2>3. n \div 32 = (64 * (n \div 2048)) + f3 /\ n \div 2048 \in Int
    BY <1>2
  <2>4. n \div 2048 = (2 * (n \div 4096)) + f1 /\ n \div 4096 \in Int
    BY <1>3
  <2>5. n \div 4096 = (2 * (n \div 8192)) + f4 /\ n \div 8192 \in Int
    BY <1>4
  <2>6. QED
    BY <2>1, <2>2, <2>3, <2>4, <2>5
<1> DEFINE v == (((2 * f2) + (32 * f3)) + (2048 * f1))
<1>7. v \in Int /\ 0 <= v /\ v <= 4095
  BY <1>1, <1>2, <1>3
<1>8. PICK m \in Int : m = n - f0 /\ m = (v + (4096 * f4)) + (8192 * top)
  BY <1>6
<1>9. w.imm2 = f2 /\ w.imm3 = f3 /\ w.imm1 = f1 /\ w.imm4 = f4
  BY <1>1, <1>2, <1>3, <1>4, Powers DEF Bits
<1>10. BtypeSignedImm(w) = IF f4 = 1 THEN v - 4096 ELSE v
  <2>1. (f2 * 2) + (f3 * 2^5) + (f1 * 2^11) = v
    BY Powers
  <2>2. QED
    BY <1>9, <2>1, Powers DEF BtypeSignedImm, Extend
<1> HIDE DEF v
<1>11. m % 8192 = v + (4096 * f4)
  BY <1>4, <1>7, <1>8
<1>12. Wrapped(m, 13) = IF m % 8192 >= 4096 THEN (m % 8192) - 8192 ELSE m % 8192
  BY Powers DEF Wrapped, Extend
<1>13. n - (n % 2) = m
  BY <1>5, <1>8
<1>14. BtypeSignedImm(w) = Wrapped(m, 13)
  BY <1>4, <1>7, <1>10, <1>11, <1>12
<1>15. QED
  BY <1>13, <1>14

LEMMA JumpFieldsHold ==
  ASSUME NEW n \in Int, -524288 <= n, n <= 524287, NEW w,
         w.imm3 = Bits(n, 1, 10), w.imm2 = Bits(n, 11, 1),
         w.imm1 = Bits(n, 12, 8), w.imm4 = Bits(n, 19, 1)
  PROVE  JtypeJumpOffset(w) = n - (n % 2)
<1>1. n \in Int
  OBVIOUS
<1>2. PICK f3 \in Int : 0 <= f3 /\ f3 <= 1023 /\ f3 = (n \div 2) % 1024
  BY <1>1
<1>3. PICK f2 \in Int : 0 <= f2 /\ f2 <= 1 /\ f2 = (n \div 2048) % 2
  BY <1>1
<1>4. PICK f1 \in Int : 0 <= f1 /\ f1 <= 255 /\ f1 = (n \div 4096) % 256
  BY <1>1
<1>5. PICK f4 \in Int : 0 <= f4 /\ f4 <= 1 /\ f4 = (n \div 524288) % 2
  BY <1>1
<1>6. n % 2 = 0 \/ n % 2 = 1
  BY <1>1
<1> DEFINE v == ((2 * f3) + (2048 * f2)) + (4096 * f1)
<1>7. PICK top \in Int : n = ((n % 2) + v) + (1048576 * top)
  <2>1. n = (2 * (n \div 2)) + (n % 2) /\ n \div 2 \in Int
    BY <1>1
  <2>2. n \div 2 = (1024 * (n \div 2048)) + f3 /\ n \div 2048 \in Int
    BY <1>1, <1>2
  <2>3. n \div 2048 = (2 * (n \div 4096)) + f2 /\ n \div 4096 \in Int
    BY <1>1, <1>3
  <2>4. n \div 4096 = (256 * (n \div 1048576)) + f1 /\ n \div 1048576 \in Int
    BY <1>1, <1>4
  <2>5. QED
    BY <2>1, <2>2, <2>3, <2>4
<1>8. w.imm3 = f3 /\ w.imm2 = f2 /\ w.imm1 = f1 /\ w.imm4 = f4
  BY <1>2, <1>3, <1>4, <1>5, Powers DEF Bits
<1>9. JtypeJumpOffset(w) = IF f4 = 1 THEN v - 1048576 ELSE v
  <2>1. (f3 * 2) + (f2 * 2^11) + (f1 * 2^12) = v
    BY Powers
  <2>2. QED
    BY <1>8, <2>1, Powers DEF JtypeJumpOffset, Extend
<1>10. f4 = IF n < 0 THEN 1 ELSE 0
  BY <1>1, <1>5
<1>11. v \in Int /\ 0 <= v /\ v <= 1048574
  BY <1>2, <1>3, <1>4
<1> HIDE DEF v
<1>12. top = IF n < 0 THEN -1 ELSE 0
  BY <1>1, <1>6, <1>7, <1>11
<1>13. QED
  BY <1>1, <1>6, <1>7, <1>9, <1>10, <1>11, <1>12

\* Offsets of 12 bits, in one field and in two.
LEMMA OffsetFieldsHold ==
  ASSUME NEW n \in Int, -2048 <= n, n <= 2047, NEW w
  PROVE  /\ w.imm = Bits(n, 0, 12) => ItypeSignedImm(w) = n
         /\ w.imm1 = Bits(n, 0, 5) /\ w.imm2 = Bits(n, 5, 7) => StypeSignedImm(w) = n
<1>1. PICK i \in Int : 0 <= i /\ i <= 4095 /\ i = n % 4096
  OBVIOUS
<1>2. ASSUME w.imm = Bits(n, 0, 12) PROVE ItypeSignedImm(w) = n
  <2>1. w.imm = i /\ Bits(i, 11, 1) = (i \div 2048) % 2
    BY <1>1, <1>2, Powers DEF Bits
  <2>2. ItypeSignedImm(w) = IF (i \div 2048) % 2 = 1 THEN i - 4096 ELSE i
    BY <2>1, Powers DEF ItypeSignedImm, Extend
  <2>3. QED
    BY <1>1, <2>2
<1>3. ASSUME w.imm1 = Bits(n, 0, 5), w.imm2 = Bits(n, 5, 7) PROVE StypeSignedImm(w) = n
  <2>1. PICK low \in Int : 0 <= low /\ low <= 31 /\ low = n % 32
    OBVIOUS
  <2>2. PICK high \in Int : 0 <= high /\ high <= 127 /\ high = (n \div 32) % 128
    OBVIOUS
  <2>3. w.imm1 = low /\ w.imm2 = high /\ Bits(high, 6, 1) = (high \div 64) % 2
    BY <1>3, <2>1, <2>2, Powers DEF Bits
  <2>4. StypeSignedImm(w) = IF (high \div 64) % 2 = 1 THEN (low + (high * 32)) - 4096
                            ELSE low + (high * 32)
    BY <2>3, Powers DEF StypeSignedImm, Extend
  <2>5. QED
    BY <2>1, <2>2, <2>4
<1>4. QED
  BY <1>2, <1>3

-----------------------------------------------------------------------------
(***************************************************************************)
(* The handlers                                                            *)
(***************************************************************************)

LEMMA Names ==
  /\ DOMAIN LoadOps = {"lb", "lh", "lw", "ld", "lbu", "lhu", "lwu", "lq"}
  /\ DOMAIN StoreOps = {"sb", "sh", "sw", "sd", "sq"}
  /\ DOMAIN BranchOps = {"beq", "bne", "blt", "bge", "bltu", "bgeu"}
  /\ DOMAIN ImmediateOps = {"add", "sll", "slt", "sltu", "xor", "srl", "or", "and"}
  /\ DOMAIN RegisterOps = {"sub", "mul", "div", "divu", "rem", "remu"}
  /\ DOMAIN SystemOps = {"ecall", "ebreak", "wfi"}
BY DEF LoadOps, StoreOps, BranchOps, ImmediateOps, RegisterOps, SystemOps

\* Every mnemonic has one handler.
LEMMA FormsAre ==
  /\ Op \in DOMAIN LoadOps => Forms = LoadForms(LoadOps[Op])
  /\ Op \in DOMAIN StoreOps => Forms = StoreForms(StoreOps[Op])
  /\ Op \in DOMAIN BranchOps => Forms = BranchForms(BranchOps[Op])
  /\ Op \in DOMAIN ImmediateOps =>
       Forms = ImmediateForms(ImmediateOps[Op], statement.mnemonic.suffix)
  /\ Op \in DOMAIN RegisterOps =>
       Forms = FunctionForms(RegisterOps[Op], statement.mnemonic.suffix)
  /\ Op \in DOMAIN SystemOps => Forms = FixedForms(SystemOps[Op])
  /\ Op = "nop" => Forms = NopForms
  /\ Op = "ldu" => Forms = {}
  /\ Op = "call" => Forms = CallForms
  /\ Op = "jmp" => Forms = JmpForms
  /\ Op = "jalr" => Forms = JalrForms
  /\ Op = "ret" => Forms = RetForms
  /\ Op = "mov" => Forms = MovForms
  /\ Op = "inc" => Forms = IncForms
  /\ Op = "syscall" => Forms = SyscallForms
  /\ Op = "system" => Forms = SystemForms
BY Names DEF Forms

\* What a handler returns depends on its statement only.
LEMMA SameForms ==
  ASSUME statement' = statement
  PROVE  Op' = Op /\ Forms' = Forms /\ Schedules' = Schedules
<1>1. Op' = Op
  BY DEF Op
<1>2. Schedules' = Schedules
  BY DEF Schedules, NextIs, Op
<1>3. Forms' = Forms
  BY DEF Forms, Op, Form, Shape, Takes, NextIs, Operand, LoadForms, StoreForms, BranchForms,
         CallForms, JmpForms, RetForms, WithRegisters, RegisterForms, ImmediateForms,
         FunctionForms, MovForms, IncForms, SyscallForms, SystemForms, FixedForms, NopForms,
         WithJumpOffset, JalrForms
<1>4. QED
  BY <1>1, <1>2, <1>3

\* Handlers that name a label output one word.
LEMMA BranchWord ==
  ASSUME Op \in DOMAIN BranchOps, NEW form \in Forms
  PROVE  form.words = <<[Instr("BRANCH") EXCEPT
           !.rs1 = Operand(1), !.rs2 = Operand(2), !.funct3 = BranchOps[Op]]>>
BY FormsAre DEF BranchForms, Form

\* The register a jump links in: none for jmp.
LinkRegister ==
  IF Op = "jmp" THEN 0 ELSE IF NextIs(2, "register") THEN Operand(2) ELSE 1

LEMMA JumpWord ==
  ASSUME Op \in {"call", "jmp"}, Schedules, NEW form \in Forms
  PROVE  form.words = <<[Instr("JAL") EXCEPT !.rd = LinkRegister]>>
<1>1. CASE Op = "jmp"
  <2>1. form.words = <<Instr("JAL")>>
    BY <1>1, FormsAre DEF JmpForms, Form
  <2>2. Instr("JAL") = [Instr("JAL") EXCEPT !.rd = 0]
    BY DEF Instr
  <2>3. QED
    BY <1>1, <2>1, <2>2 DEF LinkRegister
<1>2. CASE Op = "call"
  <2>1. NextIs(1, "symbol") /\ form \in CallForms
    BY <1>2, FormsAre, Names DEF Schedules
  <2>2. QED
    BY <1>2, <2>1 DEF CallForms, LinkRegister
<1>3. QED
  BY <1>1, <1>2

-----------------------------------------------------------------------------
(***************************************************************************)
(* The invariant of a statement: the output is what one form of its        *)
(* handler gave, patched if it named a label, and a statement is done only *)
(* when that form took every operand.                                      *)
(***************************************************************************)

Patched(output, diff) ==
  IF Op \in DOMAIN BranchOps THEN [output EXCEPT ![1] = WithBranchOffset(@, diff)]
  ELSE IF Schedules THEN [output EXCEPT ![1] = WithJumpOffset(@, Cut(diff))]
  ELSE output

Returned == \E form \in Forms : words = form.words /\ index = form.used + 1

Finished ==
  \E form \in Forms :
    form.used + 1 > Len(statement.args) /\ words = Patched(form.words, distance)

StatementInv ==
  /\ distance \in Int
  /\ status \in {"reading", "scheduled", "done", "rejected"}
  /\ status = "reading" =>
       distance = 0 /\ (words = <<>> \/ (~Schedules /\ Returned))
  /\ status = "scheduled" => distance = 0 /\ Schedules /\ Returned
  /\ status = "done" =>
       Finished /\ (Schedules /\ Op \notin DOMAIN BranchOps => InReach(distance))
  /\ status = "rejected" => distance = 0 \/ ~InReach(distance)

\* A statement is of a mnemonic and a sequence of tokens.
StatementType ==
  /\ statement.mnemonic \in Mnemonics
  /\ statement.args \in Seq(Token)

LEMMA InitStatement == Init => StatementType /\ StatementInv
<1> SUFFICES ASSUME Init PROVE StatementType /\ StatementInv
  OBVIOUS
<1>1. statement.mnemonic \in Mnemonics /\ statement.args \in Operands
  BY DEF Init
<1>2. PICK n \in 0 .. MaxOperands : statement.args \in [1 .. n -> Token]
  BY <1>1 DEF Operands
<1>3. statement.args \in Seq(Token)
  BY <1>2, OperandsAssumption
<1>4. StatementInv
  BY DEF Init, StatementInv
<1>5. QED
  BY <1>1, <1>3, <1>4 DEF StatementType

\* A label is named by a branch, a call or a jmp.
LEMMA SchedulesLabels == Schedules => Op \in DOMAIN BranchOps \cup {"call", "jmp"}
BY DEF Schedules

LEMMA StatementStep ==
  ASSUME StatementType, StatementInv, [Next]_vars
  PROVE  StatementType' /\ StatementInv'
<1>1. CASE Handle
  <2>1. statement' = statement /\ distance' = distance /\ status = "reading"
    BY <1>1 DEF Handle
  <2>2. Forms' = Forms /\ Schedules' = Schedules
    BY <2>1, SameForms
  <2>3. Returned'
    BY <1>1, <2>2 DEF Handle, Returned
  <2>4. status' = IF Schedules THEN "scheduled" ELSE "reading"
    BY <1>1 DEF Handle
  <2>5. StatementInv'
    BY <2>1, <2>2, <2>3, <2>4 DEF StatementInv
  <2>6. QED
    BY <2>1, <2>5 DEF StatementType
<1>2. ASSUME Reject \/ UnexpectedToken PROVE StatementType' /\ StatementInv'
  <2>1. /\ statement' = statement /\ distance' = distance
        /\ status \in {"reading", "scheduled"} /\ status' = "rejected"
    BY <1>2 DEF Reject, UnexpectedToken, Fail
  <2>2. QED
    BY <2>1 DEF StatementInv, StatementType
<1>3. CASE Complete
  <2>1. /\ statement' = statement /\ distance' = distance /\ words' = words
        /\ status = "reading" /\ words # <<>> /\ status' = "done"
        /\ index > Len(statement.args)
    BY <1>3 DEF Complete
  <2>2. Op' = Op /\ Forms' = Forms /\ Schedules' = Schedules
    BY <2>1, SameForms
  <2>3. ~Schedules /\ Returned
    BY <2>1 DEF StatementInv
  <2>4. PICK form \in Forms : words = form.words /\ index = form.used + 1
    BY <2>3 DEF Returned
  <2>5. Op \notin DOMAIN BranchOps
    BY <2>3 DEF Schedules
  <2>6. Len(statement.args)' = Len(statement.args) /\ form.used + 1 > Len(statement.args)
    BY <2>1, <2>4
  <2>7. words' = Patched(form.words, distance)'
    BY <2>1, <2>2, <2>3, <2>4, <2>5 DEF Patched
  <2>8. Finished'
    BY <2>2, <2>6, <2>7 DEF Finished
  <2>9. QED
    BY <2>1, <2>2, <2>3, <2>8 DEF StatementInv, StatementType
<1>4. CASE PatchBranch
  <2>1. /\ statement' = statement /\ status = "scheduled" /\ status' = "done"
        /\ index > Len(statement.args) /\ Op \in DOMAIN BranchOps
    BY <1>4 DEF PatchBranch, Patchable
  <2>2. PICK diff \in Distances :
          words' = [words EXCEPT ![1] = WithBranchOffset(@, diff)] /\ distance' = diff
    BY <1>4 DEF PatchBranch
  <2>3. Op' = Op /\ Forms' = Forms /\ Schedules' = Schedules
    BY <2>1, SameForms
  <2>4. PICK form \in Forms : words = form.words /\ index = form.used + 1
    BY <2>1 DEF StatementInv, Returned
  <2>5. Len(statement.args)' = Len(statement.args) /\ form.used + 1 > Len(statement.args)
    BY <2>1, <2>4
  <2>6. words' = Patched(form.words, distance)'
    BY <2>1, <2>2, <2>3, <2>4 DEF Patched
  <2>7. Finished'
    BY <2>3, <2>5, <2>6 DEF Finished
  <2>8. distance' \in Int
    BY <2>2, OperandsAssumption
  <2>9. QED
    BY <2>1, <2>3, <2>7, <2>8 DEF StatementInv, StatementType
<1>5. CASE PatchJump
  <2>1. /\ statement' = statement /\ status = "scheduled" /\ status' = "done"
        /\ index > Len(statement.args) /\ Op \in {"call", "jmp"}
    BY <1>5 DEF PatchJump, Patchable
  <2>2. PICK diff \in Distances :
          /\ InReach(diff) /\ distance' = diff
          /\ words' = [words EXCEPT ![1] = WithJumpOffset(@, Cut(diff))]
    BY <1>5 DEF PatchJump
  <2>3. Op' = Op /\ Forms' = Forms /\ Schedules' = Schedules
    BY <2>1, SameForms
  <2>4. Schedules /\ Returned
    BY <2>1 DEF StatementInv
  <2>5. PICK form \in Forms : words = form.words /\ index = form.used + 1
    BY <2>4 DEF Returned
  <2>6. Len(statement.args)' = Len(statement.args) /\ form.used + 1 > Len(statement.args)
    BY <2>1, <2>5
  <2>7. Op \notin DOMAIN BranchOps
    BY <2>1, Names
  <2>8. words' = Patched(form.words, distance)'
    BY <2>2, <2>3, <2>4, <2>5, <2>7 DEF Patched, Cut
  <2>9. Finished'
    BY <2>3, <2>6, <2>8 DEF Finished
  <2>10. distance' \in Int /\ InReach(distance)'
    BY <2>2, OperandsAssumption DEF InReach, Cut
  <2>11. QED
    BY <2>1, <2>9, <2>10 DEF StatementInv, StatementType
<1>6. CASE OutOfReach
  <2>1. statement' = statement /\ status' = "rejected"
    BY <1>6 DEF OutOfReach
  <2>2. PICK diff \in Distances : ~InReach(diff) /\ distance' = diff
    BY <1>6 DEF OutOfReach
  <2>3. distance' \in Int /\ ~InReach(distance)'
    BY <2>2, OperandsAssumption DEF InReach, Cut
  <2>4. QED
    BY <2>1, <2>3 DEF StatementInv, StatementType
<1>7. ASSUME UNCHANGED vars PROVE StatementType' /\ StatementInv'
  <2>1. /\ statement' = statement /\ distance' = distance /\ words' = words
        /\ status' = status /\ index' = index
    BY <1>7 DEF vars
  <2>2. Op' = Op /\ Forms' = Forms /\ Schedules' = Schedules
    BY <2>1, SameForms
  <2>3. Returned' = Returned
    BY <2>1, <2>2 DEF Returned
  <2>4. \A output : Patched(output, distance)' = Patched(output, distance)
    BY <2>1, <2>2 DEF Patched, Cut
  <2>5. Finished' = Finished
    BY <2>1, <2>2, <2>4 DEF Finished
  <2>6. InReach(distance)' = InReach(distance)
    BY <2>1 DEF InReach, Cut
  <2>7. QED
    BY <2>1, <2>2, <2>3, <2>5, <2>6 DEF StatementInv, StatementType
<1>8. QED
  BY <1>1, <1>2, <1>3, <1>4, <1>5, <1>6, <1>7 DEF Next, Stopped

(***************************************************************************)
(* From the handler to the end of its patch the output stays what the      *)
(* handler made of the operands, and only a call or jmp that reaches its   *)
(* label is patched (assemble.cpp, opcodes.cpp: scheduled lambdas).        *)
(***************************************************************************)
THEOREM StatementInvariant == Spec => [](StatementType /\ StatementInv)
<1>1. StatementType /\ StatementInv /\ [Next]_vars => (StatementType /\ StatementInv)'
  BY StatementStep
<1>2. QED
  BY <1>1, InitStatement, PTL DEF Spec

-----------------------------------------------------------------------------
(***************************************************************************)
(* What words hold when their statement is done                            *)
(***************************************************************************)

LEMMA BranchHolds == StatementInv => BranchesReach
<1> SUFFICES ASSUME StatementInv, Assembled(DOMAIN BranchOps)
             PROVE  BtypeSignedImm(words[1]) = Wrapped(distance - (distance % 2), 13)
  BY DEF BranchesReach
<1>1. Op \in DOMAIN BranchOps /\ Finished /\ distance \in Int
  BY DEF Assembled, StatementInv
<1>2. PICK form \in Forms : words = Patched(form.words, distance)
  BY <1>1 DEF Finished
<1>3. PICK d \in Int : d = distance
  BY <1>1
<1> DEFINE blank == [Instr("BRANCH") EXCEPT
           !.rs1 = Operand(1), !.rs2 = Operand(2), !.funct3 = BranchOps[Op]]
<1>4. form.words = <<blank>>
  BY <1>1, BranchWord
<1>5. /\ WithBranchOffset(blank, d).imm2 = Bits(d, 1, 4)
      /\ WithBranchOffset(blank, d).imm3 = Bits(d, 5, 6)
      /\ WithBranchOffset(blank, d).imm1 = Bits(d, 11, 1)
      /\ WithBranchOffset(blank, d).imm4 = Bits(d, 12, 1)
  BY DEF WithBranchOffset, Instr
<1> HIDE DEF blank
<1>6. words[1] = WithBranchOffset(blank, d)
  BY <1>1, <1>2, <1>3, <1>4 DEF Patched
<1>7. PICK w : w = words[1]
  OBVIOUS
<1>8. BtypeSignedImm(w) = Wrapped(d - (d % 2), 13)
  BY <1>5, <1>6, <1>7, BranchFieldsHold
<1>9. QED
  BY <1>3, <1>7, <1>8

LEMMA JumpHolds == StatementInv => JumpsReachOrStop
<1> SUFFICES ASSUME StatementInv PROVE JumpsReachOrStop
  OBVIOUS
<1>1. ASSUME status = "rejected" PROVE distance = 0 \/ distance \notin -2048 .. 2047
  <2>1. distance \in Int /\ (distance = 0 \/ ~InReach(distance))
    BY <1>1 DEF StatementInv
  <2>2. ASSUME distance \in -2048 .. 2047 PROVE InReach(distance)
    <3>1. -2048 <= distance /\ distance <= 2047
      BY <2>1, <2>2
    <3>2. Cut(distance) = distance
      BY <2>1, <3>1, ShortDistance
    <3>3. QED
      BY <2>2, <3>2 DEF InReach
  <2>3. QED
    BY <2>1, <2>2
<1>2. ASSUME Assembled({"call", "jmp"}), Schedules, distance % 2 = 0, Measurable(distance)
      PROVE  JtypeJumpOffset(words[1]) = distance
  <2>1. Op \in {"call", "jmp"} /\ Op \notin DOMAIN BranchOps
    BY <1>2, Names DEF Assembled
  <2>2. distance \in Int /\ Finished /\ InReach(distance)
    BY <1>2, <2>1 DEF Assembled, StatementInv
  <2>3. PICK form \in Forms : words = Patched(form.words, distance)
    BY <2>2 DEF Finished
  <2>4. Cut(distance) = distance
    BY <1>2, <2>2, CutIs
  <2>5. PICK d \in Int : d = distance
    BY <2>2
  <2>6. -2048 <= d /\ d <= 2047
    BY <2>2, <2>4, <2>5 DEF InReach
  <2> DEFINE blank == [Instr("JAL") EXCEPT !.rd = LinkRegister]
  <2>7. form.words = <<blank>>
    BY <1>2, <2>1, JumpWord
  <2>8. /\ WithJumpOffset(blank, d).imm3 = Bits(d, 1, 10)
        /\ WithJumpOffset(blank, d).imm2 = Bits(d, 11, 1)
        /\ WithJumpOffset(blank, d).imm1 = Bits(d, 12, 8)
        /\ WithJumpOffset(blank, d).imm4 = Bits(d, 19, 1)
    BY DEF WithJumpOffset, Instr
  <2> HIDE DEF blank
  <2>9. words = [form.words EXCEPT ![1] = WithJumpOffset(@, Cut(distance))]
    BY <1>2, <2>1, <2>3, Zenon DEF Patched
  <2>10. words = [form.words EXCEPT ![1] = WithJumpOffset(@, d)]
    BY <2>4, <2>5, <2>9, Zenon
  <2>11. words[1] = WithJumpOffset(blank, d)
    BY <2>7, <2>10
  <2>12. PICK w : w = words[1]
    OBVIOUS
  <2>13. /\ w.imm3 = Bits(d, 1, 10) /\ w.imm2 = Bits(d, 11, 1)
         /\ w.imm1 = Bits(d, 12, 8) /\ w.imm4 = Bits(d, 19, 1)
    BY <2>8, <2>11, <2>12, Zenon
  <2>14. JtypeJumpOffset(w) = d - (d % 2)
    BY <2>6, <2>13, JumpFieldsHold
  <2>15. QED
    BY <1>2, <2>5, <2>12, <2>14
<1>3. QED
  BY <1>1, <1>2 DEF JumpsReachOrStop

LEMMA ConstantCallHolds == StatementType /\ StatementInv => ConstantCallsReach
<1> SUFFICES ASSUME StatementType, StatementInv, Assembled({"call"}), ~Schedules
             PROVE  /\ Operand(1) \in -(2^19) .. (2^19 - 1) /\ Operand(1) % 2 = 0 =>
                         JtypeJumpOffset(words[1]) = Operand(1)
                    /\ words[1].rd = IF Len(statement.args) = 2 THEN Operand(2) ELSE 1
  BY DEF ConstantCallsReach
<1>1. Op = "call" /\ Op \notin DOMAIN BranchOps /\ Finished
  BY Names DEF Assembled, StatementInv
<1>2. PICK form \in Forms :
        form.used + 1 > Len(statement.args) /\ words = Patched(form.words, distance)
  BY <1>1 DEF Finished
<1>3. words = form.words
  BY <1>1, <1>2 DEF Patched
<1>4. form \in CallForms /\ ~NextIs(1, "symbol")
  BY <1>1, FormsAre DEF Schedules
<1> DEFINE linked == NextIs(2, "register")
           blank == [Instr("JAL") EXCEPT !.rd = IF linked THEN Operand(2) ELSE 1]
<1>5. /\ linked => form.used = 2
      /\ ~linked => form.used = 1
      /\ form.words = <<WithJumpOffset(blank, Operand(1))>>
  BY <1>4 DEF CallForms
<1>6. blank.rd = IF linked THEN Operand(2) ELSE 1
  BY DEF Instr
<1>7. PICK n : n = Operand(1)
  OBVIOUS
<1>8. /\ WithJumpOffset(blank, n).imm3 = Bits(n, 1, 10)
      /\ WithJumpOffset(blank, n).imm2 = Bits(n, 11, 1)
      /\ WithJumpOffset(blank, n).imm1 = Bits(n, 12, 8)
      /\ WithJumpOffset(blank, n).imm4 = Bits(n, 19, 1)
      /\ WithJumpOffset(blank, n).rd = blank.rd
  BY DEF WithJumpOffset, Instr
<1>9. (linked => Len(statement.args) = 2) /\ (~linked => Len(statement.args) # 2)
  <2>1. PICK length \in Nat : length = Len(statement.args)
    BY DEF StatementType
  <2>2. ASSUME linked PROVE length = 2
    <3>1. form.used = 2 /\ 2 <= length
      BY <1>5, <2>1, <2>2 DEF NextIs
    <3>2. 2 + 1 > length
      BY <1>2, <2>1, <3>1
    <3>3. QED
      BY <3>1, <3>2
  <2>3. ASSUME ~linked PROVE length # 2
    <3>1. form.used = 1
      BY <1>5, <2>3
    <3>2. 1 + 1 > length
      BY <1>2, <2>1, <3>1
    <3>3. QED
      BY <3>2
  <2>4. QED
    BY <2>1, <2>2, <2>3
<1> HIDE DEF blank, linked
<1>10. words[1] = WithJumpOffset(blank, n)
  BY <1>3, <1>5, <1>7
<1>11. words[1].rd = IF Len(statement.args) = 2 THEN Operand(2) ELSE 1
  <2>1. words[1].rd = IF linked THEN Operand(2) ELSE 1
    BY <1>6, <1>8, <1>10
  <2>2. CASE linked
    BY <1>9, <2>1, <2>2
  <2>3. CASE ~linked
    BY <1>9, <2>1, <2>3
  <2>4. QED
    BY <2>2, <2>3
<1>12. ASSUME Operand(1) \in -(2^19) .. (2^19 - 1), Operand(1) % 2 = 0
       PROVE  JtypeJumpOffset(words[1]) = Operand(1)
  <2>1. n \in Int /\ -524288 <= n /\ n <= 524287 /\ n % 2 = 0
    BY <1>7, <1>12, Powers
  <2>2. PICK w : w = words[1]
    OBVIOUS
  <2>3. JtypeJumpOffset(w) = n - (n % 2)
    BY <1>8, <1>10, <2>1, <2>2, JumpFieldsHold
  <2>4. QED
    BY <1>7, <2>1, <2>2, <2>3
<1>13. QED
  BY <1>11, <1>12

-----------------------------------------------------------------------------
(***************************************************************************)
(* Forms of arithmetic                                                     *)
(***************************************************************************)

\* A form that took every operand is as long as the statement at least.
LEMMA TakesAll ==
  ASSUME StatementType, NEW used \in Nat, used + 1 > Len(statement.args)
  PROVE  Len(statement.args) \in Nat /\ Len(statement.args) <= used
<1>1. PICK length \in Nat : length = Len(statement.args)
  BY DEF StatementType
<1>2. used + 1 > length
  BY <1>1
<1>3. QED
  BY <1>1, <1>2

\* An operand is of one type.
LEMMA OneType ==
  ASSUME NEW i, NEW type, NEW other, NextIs(i, type), NextIs(i, other)
  PROVE  type = other
BY DEF NextIs

LEMMA RegisterCases ==
  ASSUME NEW w, {"opcode", "rd", "rs1", "rs2"} \subseteq DOMAIN w, NEW form \in RegisterForms(w)
  PROVE  /\ NextIs(1, "register") /\ NextIs(2, "register")
         /\ form.words[1].opcode = w.opcode /\ form.words[1].rd = Operand(1)
         /\ \/ /\ form.used = 3 /\ NextIs(3, "register")
               /\ form.words[1].rs1 = Operand(2) /\ form.words[1].rs2 = Operand(3)
            \/ /\ form.used = 2
               /\ form.words[1].rs1 = Operand(1) /\ form.words[1].rs2 = Operand(2)
<1>1. CASE NextIs(3, "register")
  <2>1. /\ form.used = 3 /\ form.words = <<WithRegisters(w)>>
        /\ NextIs(1, "register") /\ NextIs(2, "register")
    BY <1>1 DEF RegisterForms, Form, Shape, Takes
  <2>2. /\ WithRegisters(w).opcode = w.opcode /\ WithRegisters(w).rd = Operand(1)
        /\ WithRegisters(w).rs1 = Operand(2) /\ WithRegisters(w).rs2 = Operand(3)
    BY <1>1 DEF WithRegisters
  <2>3. QED
    BY <1>1, <2>1, <2>2
<1>2. CASE ~NextIs(3, "register")
  <2>1. /\ form.used = 2 /\ form.words = <<WithRegisters(w)>>
        /\ NextIs(1, "register") /\ NextIs(2, "register")
    BY <1>2 DEF RegisterForms, Form, Shape, Takes
  <2>2. /\ WithRegisters(w).opcode = w.opcode /\ WithRegisters(w).rd = Operand(1)
        /\ WithRegisters(w).rs1 = Operand(1) /\ WithRegisters(w).rs2 = Operand(2)
    BY <1>2 DEF WithRegisters
  <2>3. QED
    BY <2>1, <2>2
<1>3. QED
  BY <1>1, <1>2

LEMMA FunctionCases ==
  ASSUME NEW f, NEW suffix, NEW form \in FunctionForms(f, suffix)
  PROVE  \E w : /\ {"opcode", "rd", "rs1", "rs2"} \subseteq DOMAIN w /\ form \in RegisterForms(w)
                /\ w.opcode = [plain |-> "OP", w |-> "OP32", d |-> "OP64"][suffix]
<1> DEFINE opcode == [plain |-> "OP", w |-> "OP32", d |-> "OP64"][suffix]
           w == [Instr(opcode) EXCEPT !.funct3 = f.f3, !.funct7 = f.f7]
<1>1. form \in RegisterForms(w)
  BY DEF FunctionForms
<1>2. {"opcode", "rd", "rs1", "rs2"} \subseteq DOMAIN w /\ w.opcode = opcode
  BY DEF Instr
<1> HIDE DEF w
<1>3. QED
  BY <1>1, <1>2

LEMMA ImmediateCases ==
  ASSUME NEW f3, NEW suffix, NEW form \in ImmediateForms(f3, suffix)
  PROVE  \/ /\ form.used = 2 /\ NextIs(1, "register") /\ NextIs(2, "constant")
            /\ ImmediateFits(Operand(2))
            /\ form.words[1].imm = Bits(Operand(2), 0, 12)
         \/ \E w : /\ {"opcode", "rd", "rs1", "rs2"} \subseteq DOMAIN w /\ form \in RegisterForms(w)
                   /\ w.opcode = [plain |-> "OP", w |-> "OP32", d |-> "OP_IMM64"][suffix]
<1> DEFINE opcode   == [plain |-> "OP_IMM", w |-> "OP_IMM32", d |-> "OP_IMM64"][suffix]
           register == [plain |-> "OP", w |-> "OP32", d |-> "OP_IMM64"][suffix]
           immediate == [Instr(opcode) EXCEPT !.funct3 = f3, !.rd = Operand(1),
                          !.rs1 = Operand(1), !.imm = Bits(Operand(2), 0, 12)]
           w == [Instr(register) EXCEPT !.funct3 = f3]
<1>1. ~(NextIs(2, "constant") /\ ~ImmediateFits(Operand(2)))
  BY DEF ImmediateForms
<1>2. form \in Form(<<"register", "constants">>, <<immediate>>) \/ form \in RegisterForms(w)
  BY <1>1 DEF ImmediateForms
<1>3. immediate.imm = Bits(Operand(2), 0, 12)
  BY DEF Instr
<1>4. {"opcode", "rd", "rs1", "rs2"} \subseteq DOMAIN w /\ w.opcode = register
  BY DEF Instr
<1> HIDE DEF immediate, w
<1>5. CASE form \in Form(<<"register", "constants">>, <<immediate>>)
  <2>1. /\ form.used = 2 /\ form.words = <<immediate>>
        /\ NextIs(1, "register") /\ NextIs(2, "constant")
    BY <1>5 DEF Form, Shape, Takes
  <2>2. QED
    BY <1>1, <1>3, <2>1
<1>6. CASE form \in RegisterForms(w)
  BY <1>4, <1>6
<1>7. QED
  BY <1>2, <1>5, <1>6

LEMMA ConstantIsOffset ==
  ASSUME StatementType, ~HasOffset, NEW i \in Nat, i > 0
  PROVE  ~NextIs(i, "constant")
<1>1. PICK length \in Nat : length = Len(statement.args)
  BY DEF StatementType
<1>2. ASSUME NextIs(i, "constant") PROVE HasOffset
  <2>1. i \in 1 .. Len(statement.args)
    BY <1>1, <1>2 DEF NextIs
  <2>2. QED
    BY <1>2, <2>1 DEF HasOffset
<1>3. QED
  BY <1>2

LEMMA ArithmeticHolds ==
  ASSUME StatementType, StatementInv, ~HasOffset, ~DoubleImmediate,
         Assembled(DOMAIN ImmediateOps \cup DOMAIN RegisterOps)
  PROVE  /\ Len(statement.args) \in {2, 3}
         /\ words[1].opcode \in {"OP", "OP32", "OP64"}
         /\ words[1].rd = Operand(1)
         /\ words[1].rs1 = Operand(Len(statement.args) - 1)
         /\ words[1].rs2 = Operand(Len(statement.args))
<1>1. /\ Op \in DOMAIN ImmediateOps \cup DOMAIN RegisterOps /\ Finished
      /\ Op \notin DOMAIN BranchOps /\ ~Schedules
  BY Names DEF Assembled, StatementInv, Schedules
<1>2. PICK form \in Forms :
        form.used + 1 > Len(statement.args) /\ words = Patched(form.words, distance)
  BY <1>1 DEF Finished
<1>3. words = form.words
  BY <1>1, <1>2 DEF Patched
<1>4. PICK length \in Nat : length = Len(statement.args)
  BY DEF StatementType
<1>5. ~NextIs(2, "constant")
  BY ConstantIsOffset
<1>6. PICK w : /\ {"opcode", "rd", "rs1", "rs2"} \subseteq DOMAIN w
               /\ form \in RegisterForms(w) /\ w.opcode \in {"OP", "OP32", "OP64"}
  <2>0. statement.mnemonic.suffix \in {"plain", "w", "d"}
    BY DEF StatementType, Mnemonics
  <2>1. CASE Op \in DOMAIN ImmediateOps
    <3>1. statement.mnemonic.suffix \in {"plain", "w"}
      BY <2>0, <2>1 DEF DoubleImmediate
    <3>2. QED
      BY <1>5, <2>1, <3>1, FormsAre, ImmediateCases
  <2>2. CASE Op \in DOMAIN RegisterOps
    BY <2>0, <2>2, FormsAre, FunctionCases
  <2>3. QED
    BY <1>1, <2>1, <2>2
<1>7. /\ NextIs(1, "register") /\ NextIs(2, "register")
      /\ words[1].opcode \in {"OP", "OP32", "OP64"} /\ words[1].rd = Operand(1)
      /\ \/ /\ form.used = 3 /\ NextIs(3, "register")
            /\ words[1].rs1 = Operand(2) /\ words[1].rs2 = Operand(3)
         \/ /\ form.used = 2
            /\ words[1].rs1 = Operand(1) /\ words[1].rs2 = Operand(2)
  BY <1>3, <1>6, RegisterCases
<1>8. CASE form.used = 3
  <2>1. 3 + 1 > length /\ 3 <= length
    BY <1>2, <1>4, <1>7, <1>8 DEF NextIs
  <2>2. length = 3
    BY <2>1
  <2>3. QED
    BY <1>4, <1>7, <1>8, <2>2
<1>9. CASE form.used = 2
  <2>1. 2 + 1 > length /\ 2 <= length
    BY <1>2, <1>4, <1>7, <1>9 DEF NextIs
  <2>2. length = 2
    BY <2>1
  <2>3. QED
    BY <1>4, <1>7, <1>9, <2>2
<1>10. QED
  BY <1>7, <1>8, <1>9

LEMMA MovesHold ==
  ASSUME StatementType, StatementInv, ~HasOffset,
         Assembled(DOMAIN LoadOps \cup DOMAIN StoreOps)
  PROVE  /\ Len(statement.args) = 2
         /\ Op \in DOMAIN LoadOps =>
              words[1].rd = Operand(1) /\ words[1].rs1 = Operand(2)
         /\ Op \in DOMAIN StoreOps =>
              words[1].rs1 = Operand(1) /\ words[1].rs2 = Operand(2)
<1>1. /\ Op \in DOMAIN LoadOps \cup DOMAIN StoreOps /\ Finished
      /\ Op \notin DOMAIN BranchOps /\ ~Schedules
  BY Names DEF Assembled, StatementInv, Schedules
<1>2. PICK form \in Forms :
        form.used + 1 > Len(statement.args) /\ words = Patched(form.words, distance)
  BY <1>1 DEF Finished
<1>3. words = form.words
  BY <1>1, <1>2 DEF Patched
<1>4. ~NextIs(2, "constant") /\ ~NextIs(3, "constant")
  BY ConstantIsOffset
<1>5. ASSUME form.used = 2, NextIs(2, "register") PROVE Len(statement.args) = 2
  <2>1. PICK length \in Nat : length = Len(statement.args)
    BY DEF StatementType
  <2>2. 2 <= length /\ 2 + 1 > length
    BY <1>2, <1>5, <2>1 DEF NextIs
  <2>3. length = 2
    BY <2>2
  <2>4. QED
    BY <2>1, <2>3
<1>6. CASE Op \in DOMAIN LoadOps
  <2> DEFINE load == [Instr("LOAD") EXCEPT !.rd = Operand(1), !.funct3 = LoadOps[Op]]
             long == [load EXCEPT !.imm = Bits(Operand(2), 0, 12), !.rs1 = Operand(3)]
             short == [load EXCEPT !.rs1 = Operand(2)]
  <2>1. \/ form \in Form(<<"register", "constants", "register">>, <<long>>)
        \/ form \in Form(<<"register", "register">>, <<short>>)
    BY <1>6, FormsAre DEF LoadForms
  <2>2. short.rd = Operand(1) /\ short.rs1 = Operand(2)
    BY DEF Instr
  <2> HIDE DEF long, short
  <2>3. form.used = 2 /\ form.words = <<short>> /\ NextIs(2, "register")
    BY <1>4, <2>1 DEF Form, Shape, Takes
  <2>4. QED
    BY <1>3, <1>5, <1>6, <2>2, <2>3, Names
<1>7. CASE Op \in DOMAIN StoreOps
  <2> DEFINE store == [Instr("STORE") EXCEPT !.funct3 = StoreOps[Op],
                         !.rs1 = Operand(1), !.rs2 = Operand(2)]
  <2>1. form \in Form(<<"register", "register">>, <<store>>)
    BY <1>4, <1>7, FormsAre DEF StoreForms
  <2>2. store.rs1 = Operand(1) /\ store.rs2 = Operand(2)
    BY DEF Instr
  <2> HIDE DEF store
  <2>3. form.used = 2 /\ form.words = <<store>> /\ NextIs(2, "register")
    BY <2>1 DEF Form, Shape, Takes
  <2>4. QED
    BY <1>3, <1>5, <1>7, <2>2, <2>3, Names
<1>8. QED
  BY <1>1, <1>6, <1>7

LEMMA RegistersHold == StatementType /\ StatementInv => RegistersInOrder
<1> SUFFICES ASSUME StatementType, StatementInv, ~HasOffset
             PROVE  LET n == Len(statement.args)
                    IN  /\ Assembled(DOMAIN ImmediateOps \cup DOMAIN RegisterOps)
                             /\ ~DoubleImmediate =>
                             /\ n \in {2, 3}
                             /\ words[1].opcode \in {"OP", "OP32", "OP64"}
                             /\ words[1].rd = Operand(1)
                             /\ words[1].rs1 = Operand(n - 1)
                             /\ words[1].rs2 = Operand(n)
                        /\ Assembled(DOMAIN LoadOps) =>
                             n = 2 /\ words[1].rd = Operand(1) /\ words[1].rs1 = Operand(2)
                        /\ Assembled(DOMAIN StoreOps) =>
                             n = 2 /\ words[1].rs1 = Operand(1) /\ words[1].rs2 = Operand(2)
  BY DEF RegistersInOrder
<1>1. Assembled(DOMAIN LoadOps) \/ Assembled(DOMAIN StoreOps)
        => Assembled(DOMAIN LoadOps \cup DOMAIN StoreOps)
  BY DEF Assembled
<1>2. (Assembled(DOMAIN LoadOps) => Op \in DOMAIN LoadOps)
      /\ (Assembled(DOMAIN StoreOps) => Op \in DOMAIN StoreOps)
  BY DEF Assembled
<1>3. QED
  BY <1>1, <1>2, ArithmeticHolds, MovesHold

-----------------------------------------------------------------------------
(***************************************************************************)
(* Forms with a constant                                                   *)
(***************************************************************************)

\* Handlers of words with a 12-bit constant, when every operand was taken.
LEMMA LoadConstant ==
  ASSUME StatementType, NEW f3, NEW form \in LoadForms(f3),
         form.used + 1 > Len(statement.args),
         NEW i \in 1 .. Len(statement.args), NextIs(i, "constant")
  PROVE  form.words[1].imm = Bits(Operand(i), 0, 12)
<1> DEFINE load == [Instr("LOAD") EXCEPT !.rd = Operand(1), !.funct3 = f3]
           long == [load EXCEPT !.imm = Bits(Operand(2), 0, 12), !.rs1 = Operand(3)]
           short == [load EXCEPT !.rs1 = Operand(2)]
<1>1. \/ form \in Form(<<"register", "constants", "register">>, <<long>>)
      \/ form \in Form(<<"register", "register">>, <<short>>)
  BY DEF LoadForms
<1>2. long.imm = Bits(Operand(2), 0, 12)
  BY DEF Instr
<1> HIDE DEF long, short
<1>3. CASE form \in Form(<<"register", "constants", "register">>, <<long>>)
  <2>1. /\ form.used = 3 /\ form.words = <<long>>
        /\ NextIs(1, "register") /\ NextIs(3, "register")
    BY <1>3 DEF Form, Shape, Takes
  <2>2. i \in Nat /\ 1 <= i /\ i <= 3
    BY <2>1, TakesAll
  <2>3. i # 1 /\ i # 3
    BY <2>1, OneType
  <2>4. i = 2
    BY <2>2, <2>3
  <2>5. QED
    BY <1>2, <2>1, <2>4
<1>4. CASE form \in Form(<<"register", "register">>, <<short>>)
  <2>1. form.used = 2 /\ NextIs(1, "register") /\ NextIs(2, "register")
    BY <1>4 DEF Form, Shape, Takes
  <2>2. i \in Nat /\ 1 <= i /\ i <= 2
    BY <2>1, TakesAll
  <2>3. i # 1 /\ i # 2
    BY <2>1, OneType
  <2>4. QED
    BY <2>2, <2>3
<1>5. QED
  BY <1>1, <1>3, <1>4

LEMMA StoreConstant ==
  ASSUME StatementType, NEW f3, NEW form \in StoreForms(f3),
         form.used + 1 > Len(statement.args),
         NEW i \in 1 .. Len(statement.args), NextIs(i, "constant")
  PROVE  /\ form.words[1].imm1 = Bits(Operand(i), 0, 5)
         /\ form.words[1].imm2 = Bits(Operand(i), 5, 7)
<1> DEFINE store == [Instr("STORE") EXCEPT !.funct3 = f3, !.rs1 = Operand(1), !.rs2 = Operand(2)]
           long == [store EXCEPT !.imm1 = Bits(Operand(3), 0, 5), !.imm2 = Bits(Operand(3), 5, 7)]
<1>1. \/ form \in Form(<<"register", "register", "constants">>, <<long>>)
      \/ form \in Form(<<"register", "register">>, <<store>>)
  BY DEF StoreForms
<1>2. long.imm1 = Bits(Operand(3), 0, 5) /\ long.imm2 = Bits(Operand(3), 5, 7)
  BY DEF Instr
<1> HIDE DEF long, store
<1>3. NextIs(1, "register") /\ NextIs(2, "register")
  BY <1>1 DEF Form, Shape, Takes
<1>4. i # 1 /\ i # 2
  BY <1>3, OneType
<1>5. CASE form \in Form(<<"register", "register", "constants">>, <<long>>)
  <2>1. form.used = 3 /\ form.words = <<long>>
    BY <1>5 DEF Form
  <2>2. i \in Nat /\ 1 <= i /\ i <= 3
    BY <2>1, TakesAll
  <2>3. i = 3
    BY <1>4, <2>2
  <2>4. QED
    BY <1>2, <2>1, <2>3
<1>6. CASE form \in Form(<<"register", "register">>, <<store>>)
  <2>1. form.used = 2
    BY <1>6 DEF Form
  <2>2. i \in Nat /\ 1 <= i /\ i <= 2
    BY <2>1, TakesAll
  <2>3. QED
    BY <1>4, <2>2
<1>7. QED
  BY <1>1, <1>5, <1>6

LEMMA RegistersOnly ==
  ASSUME StatementType, NEW form, form.used + 1 > Len(statement.args),
         \E w : {"opcode", "rd", "rs1", "rs2"} \subseteq DOMAIN w /\ form \in RegisterForms(w),
         NEW i \in 1 .. Len(statement.args)
  PROVE  ~NextIs(i, "constant")
<1>1. PICK w : {"opcode", "rd", "rs1", "rs2"} \subseteq DOMAIN w /\ form \in RegisterForms(w)
  OBVIOUS
<1>2. /\ NextIs(1, "register") /\ NextIs(2, "register")
      /\ form.used = 2 \/ (form.used = 3 /\ NextIs(3, "register"))
  BY <1>1, RegisterCases
<1>3. i \in Nat /\ 1 <= i /\ i <= form.used
  BY <1>2, TakesAll
<1>4. i = 1 \/ i = 2 \/ i = 3
  BY <1>2, <1>3
<1>5. i = 3 => NextIs(3, "register")
  BY <1>2, <1>3
<1>6. NextIs(i, "register")
  BY <1>2, <1>4, <1>5
<1>7. QED
  BY <1>6, OneType

LEMMA ImmediateConstant ==
  ASSUME StatementType, NEW f3, NEW suffix, NEW form \in ImmediateForms(f3, suffix),
         form.used + 1 > Len(statement.args),
         NEW i \in 1 .. Len(statement.args), NextIs(i, "constant")
  PROVE  /\ form.words[1].imm = Bits(Operand(i), 0, 12)
         /\ ImmediateFits(Operand(i))
<1>1. CASE \E w : {"opcode", "rd", "rs1", "rs2"} \subseteq DOMAIN w /\ form \in RegisterForms(w)
  BY <1>1, RegistersOnly
<1>2. CASE /\ form.used = 2 /\ NextIs(1, "register") /\ NextIs(2, "constant")
           /\ ImmediateFits(Operand(2))
           /\ form.words[1].imm = Bits(Operand(2), 0, 12)
  <2>1. i \in Nat /\ 1 <= i /\ i <= 2
    BY <1>2, TakesAll
  <2>2. i # 1
    BY <1>2, OneType
  <2>3. i = 2
    BY <2>1, <2>2
  <2>4. QED
    BY <1>2, <2>3
<1>3. QED
  BY <1>1, <1>2, ImmediateCases

\* The operands of jalr are where its handler looks for them.
LEMMA JalrConstant ==
  ASSUME StatementType, NEW form \in JalrForms,
         form.used + 1 > Len(statement.args),
         NEW i \in 1 .. Len(statement.args), NextIs(i, "constant")
  PROVE  form.words[1].imm = Bits(Operand(i), 0, 12)
<1> DEFINE first  == IF NextIs(1, "register") THEN 1 ELSE 0
           offset == IF NextIs(first + 1, "constant") THEN 1 ELSE 0
           link   == IF NextIs(first + offset + 1, "register") THEN 1 ELSE 0
           word   == [Instr("JALR") EXCEPT
                       !.rs1 = IF first = 1 THEN Operand(1) ELSE 0,
                       !.imm = IF offset = 1 THEN Bits(Operand(first + 1), 0, 12) ELSE 0,
                       !.rd  = IF link = 1 THEN Operand(first + offset + 1) ELSE 0]
<1>1. form.used = first + offset + link /\ form.words = <<word>>
  BY DEF JalrForms
<1>2. word.imm = IF offset = 1 THEN Bits(Operand(first + 1), 0, 12) ELSE 0
  BY DEF Instr
<1> HIDE DEF word
<1>3. /\ first = 1 \/ first = 0
      /\ offset = 1 \/ offset = 0
      /\ link = 1 \/ link = 0
  OBVIOUS
<1>4. /\ first = 1 => NextIs(1, "register")
      /\ offset = 1 => NextIs(first + 1, "constant")
      /\ offset = 0 => ~NextIs(first + 1, "constant")
      /\ link = 1 => NextIs(first + offset + 1, "register")
  OBVIOUS
<1> HIDE DEF first, offset, link
<1>5. PICK used \in Nat : used = first + offset + link /\ form.used = used
  BY <1>1, <1>3
<1>6. i \in Nat /\ 1 <= i /\ i <= used
  BY <1>5, TakesAll
<1>7. first = 1 => i # 1
  BY <1>4, OneType
<1>8. link = 1 => i # first + offset + 1
  BY <1>4, OneType
<1>9. offset = 1 /\ i = first + 1
  BY <1>3, <1>4, <1>5, <1>6, <1>7, <1>8
<1>10. QED
  BY <1>1, <1>2, <1>9

\* Handlers that take registers and labels only.
LEMMA NoConstant ==
  ASSUME StatementType, NEW form \in Forms,
         form.used + 1 > Len(statement.args),
         NEW i \in 1 .. Len(statement.args), NextIs(i, "constant")
  PROVE  /\ Op \notin DOMAIN BranchOps /\ Op \notin DOMAIN RegisterOps
         /\ Op \notin DOMAIN SystemOps
         /\ Op \notin {"nop", "ldu", "jmp", "ret", "mov", "inc", "system"}
<1>1. ASSUME Op \in DOMAIN BranchOps PROVE FALSE
  <2>1. /\ form.used = 3
        /\ NextIs(1, "register") /\ NextIs(2, "register") /\ NextIs(3, "symbol")
    BY <1>1, FormsAre DEF BranchForms, Form, Shape, Takes
  <2>2. i \in Nat /\ 1 <= i /\ i <= 3
    BY <2>1, TakesAll
  <2>3. i # 1 /\ i # 2 /\ i # 3
    BY <2>1, OneType
  <2>4. QED
    BY <2>2, <2>3
<1>2. ASSUME Op \in DOMAIN RegisterOps PROVE FALSE
  BY <1>2, FormsAre, FunctionCases, RegistersOnly
<1>3. ASSUME Op \in DOMAIN SystemOps PROVE FALSE
  <2>1. form.used = 0
    BY <1>3, FormsAre DEF FixedForms, Form
  <2>2. QED
    BY <2>1, TakesAll
<1>4. ASSUME Op = "ldu" PROVE FALSE
  BY <1>4, FormsAre
<1>5. ASSUME Op = "jmp" PROVE FALSE
  <2>1. form.used = 1 /\ NextIs(1, "symbol")
    BY <1>5, FormsAre DEF JmpForms, Form, Shape, Takes
  <2>2. i \in Nat /\ 1 <= i /\ i <= 1
    BY <2>1, TakesAll
  <2>3. i # 1
    BY <2>1, OneType
  <2>4. QED
    BY <2>2, <2>3
<1>6. ASSUME Op = "ret" PROVE FALSE
  <2>1. form.used = 0
    BY <1>6, FormsAre DEF RetForms, Form
  <2>2. QED
    BY <2>1, TakesAll
<1>7. ASSUME Op = "mov" PROVE FALSE
  <2>1. form.used = 2 /\ NextIs(1, "register") /\ NextIs(2, "register")
    BY <1>7, FormsAre DEF MovForms, Form, Shape, Takes
  <2>2. i \in Nat /\ 1 <= i /\ i <= 2
    BY <2>1, TakesAll
  <2>3. i # 1 /\ i # 2
    BY <2>1, OneType
  <2>4. QED
    BY <2>2, <2>3
<1>8. ASSUME Op = "inc" PROVE FALSE
  <2>1. form.used = 1 /\ NextIs(1, "register")
    BY <1>8, FormsAre DEF IncForms, Form, Shape, Takes
  <2>2. i \in Nat /\ 1 <= i /\ i <= 1
    BY <2>1, TakesAll
  <2>3. i # 1
    BY <2>1, OneType
  <2>4. QED
    BY <2>2, <2>3
<1>9. ASSUME Op = "system" PROVE FALSE
  <2>1. Shape(<<"constants", "constants">>)
    BY <1>9, FormsAre DEF SystemForms, Form
  <2>2. QED
    BY <2>1 DEF Shape, Takes
<1>10. ASSUME Op = "nop" PROVE FALSE
  <2>1. form.used = 0
    BY <1>10, FormsAre DEF NopForms, Form
  <2>2. QED
    BY <2>1, TakesAll
<1>11. QED
  BY <1>1, <1>2, <1>3, <1>4, <1>5, <1>6, <1>7, <1>8, <1>9, <1>10

LEMMA SyscallConstant ==
  ASSUME StatementType, NEW form \in SyscallForms,
         form.used + 1 > Len(statement.args),
         NEW i \in 1 .. Len(statement.args)
  PROVE  form.words[1].imm = Bits(Operand(i), 0, 12)
<1> DEFINE word == [Instr("OP_IMM") EXCEPT !.rd = 17, !.imm = Bits(Operand(1), 0, 12)]
<1>1. form.used = 1 /\ form.words = <<word, Instr("SYSTEM")>>
  BY DEF SyscallForms, Form
<1>2. word.imm = Bits(Operand(1), 0, 12)
  BY DEF Instr
<1> HIDE DEF word
<1>3. i \in Nat /\ 1 <= i /\ i <= 1
  BY <1>1, TakesAll
<1>4. i = 1
  BY <1>3
<1>5. QED
  BY <1>1, <1>2, <1>4

\* A statement that was accepted has its constant in its first word.
LEMMA AcceptedConstant ==
  ASSUME StatementType, StatementInv, status = "done", Op # "call",
         NEW i \in 1 .. Len(statement.args), NextIs(i, "constant")
  PROVE  /\ Op \in DOMAIN StoreOps =>
              /\ words[1].imm1 = Bits(Operand(i), 0, 5)
              /\ words[1].imm2 = Bits(Operand(i), 5, 7)
         /\ Op \notin DOMAIN StoreOps => words[1].imm = Bits(Operand(i), 0, 12)
         /\ Op \in DOMAIN ImmediateOps => ImmediateFits(Operand(i))
<1>1. PICK form \in Forms :
        form.used + 1 > Len(statement.args) /\ words = Patched(form.words, distance)
  BY DEF StatementInv, Finished
<1>2. /\ Op \notin DOMAIN BranchOps /\ Op \notin DOMAIN RegisterOps
      /\ Op \notin DOMAIN SystemOps
      /\ Op \notin {"nop", "ldu", "jmp", "ret", "mov", "inc", "system"}
  BY <1>1, NoConstant
<1>3. words = form.words
  <2>1. ~Schedules
    BY <1>2 DEF Schedules
  <2>2. QED
    BY <1>1, <1>2, <2>1 DEF Patched
<1>4. \/ Op \in DOMAIN LoadOps \/ Op \in DOMAIN StoreOps \/ Op \in DOMAIN ImmediateOps
      \/ Op = "jalr" \/ Op = "syscall"
  <2>1. /\ statement.mnemonic \in Mnemonics
        /\ Op = statement.mnemonic.op
    BY DEF StatementType, Op
  <2>2. Op \in DOMAIN LoadOps \cup DOMAIN StoreOps \cup DOMAIN BranchOps \cup DOMAIN SystemOps
          \cup {"nop", "ldu", "call", "jmp", "jalr", "ret", "mov", "inc", "syscall", "system"}
          \cup DOMAIN ImmediateOps \cup DOMAIN RegisterOps
    BY <2>1 DEF Mnemonics
  <2>3. QED
    BY <1>2, <2>2
<1>5. CASE Op \in DOMAIN LoadOps
  <2>1. words[1].imm = Bits(Operand(i), 0, 12)
    BY <1>1, <1>3, <1>5, FormsAre, LoadConstant
  <2>2. Op \notin DOMAIN StoreOps /\ Op \notin DOMAIN ImmediateOps
    BY <1>5, Names
  <2>3. QED
    BY <2>1, <2>2
<1>6. CASE Op \in DOMAIN StoreOps
  <2>1. /\ words[1].imm1 = Bits(Operand(i), 0, 5)
        /\ words[1].imm2 = Bits(Operand(i), 5, 7)
    BY <1>1, <1>3, <1>6, FormsAre, StoreConstant
  <2>2. Op \notin DOMAIN ImmediateOps
    BY <1>6, Names
  <2>3. QED
    BY <1>6, <2>1, <2>2
<1>7. CASE Op \in DOMAIN ImmediateOps
  <2>1. words[1].imm = Bits(Operand(i), 0, 12) /\ ImmediateFits(Operand(i))
    BY <1>1, <1>3, <1>7, FormsAre, ImmediateConstant
  <2>2. Op \notin DOMAIN StoreOps
    BY <1>7, Names
  <2>3. QED
    BY <2>1, <2>2
<1>8. CASE Op = "jalr"
  <2>1. words[1].imm = Bits(Operand(i), 0, 12)
    BY <1>1, <1>3, <1>8, FormsAre, JalrConstant
  <2>2. Op \notin DOMAIN StoreOps /\ Op \notin DOMAIN ImmediateOps
    BY <1>8, Names
  <2>3. QED
    BY <2>1, <2>2
<1>9. CASE Op = "syscall"
  <2>1. words[1].imm = Bits(Operand(i), 0, 12)
    BY <1>1, <1>3, <1>9, FormsAre, SyscallConstant
  <2>2. Op \notin DOMAIN StoreOps /\ Op \notin DOMAIN ImmediateOps
    BY <1>9, Names
  <2>3. QED
    BY <2>1, <2>2
<1>10. QED
  BY <1>4, <1>5, <1>6, <1>7, <1>8, <1>9

LEMMA OffsetsHold == StatementType /\ StatementInv => OffsetsSurvive
<1> SUFFICES ASSUME StatementType, StatementInv, status = "done", HasOffset, Op # "call"
             PROVE  /\ Offset \in -2048 .. 2047 =>
                         (IF Op \in DOMAIN StoreOps THEN StypeSignedImm(words[1])
                          ELSE ItypeSignedImm(words[1])) = Offset
                    /\ Op \in DOMAIN ImmediateOps => Offset \in -2048 .. 2047
  BY DEF OffsetsSurvive
<1>1. /\ Offset \in Constants
      /\ \E i \in 1 .. Len(statement.args) : NextIs(i, "constant") /\ Operand(i) = Offset
  <2>1. PICK i \in 1 .. Len(statement.args) : NextIs(i, "constant")
    BY DEF HasOffset
  <2>2. statement.args[i] \in Token /\ statement.args[i].type = "constant"
    BY <2>1 DEF NextIs, StatementType
  <2>3. Operand(i) \in Constants
    BY <2>2 DEF Token, Operand
  <2>4. \E n \in Constants :
          \E k \in 1 .. Len(statement.args) : NextIs(k, "constant") /\ Operand(k) = n
    BY <2>1, <2>3
  <2>5. QED
    BY <2>4 DEF Offset
<1>2. PICK n \in Int : n = Offset
  BY <1>1, OperandsAssumption
<1>3. PICK i \in 1 .. Len(statement.args) : NextIs(i, "constant") /\ Operand(i) = n
  BY <1>1, <1>2
<1>4. PICK w : w = words[1]
  OBVIOUS
<1>5. /\ Op \in DOMAIN StoreOps => w.imm1 = Bits(n, 0, 5) /\ w.imm2 = Bits(n, 5, 7)
      /\ Op \notin DOMAIN StoreOps => w.imm = Bits(n, 0, 12)
      /\ Op \in DOMAIN ImmediateOps => ImmediateFits(n)
  BY <1>3, <1>4, AcceptedConstant
<1>6. Op \in DOMAIN ImmediateOps => n \in -2048 .. 2047
  BY <1>2, <1>5 DEF ImmediateFits
<1>7. ASSUME n \in -2048 .. 2047
      PROVE  (IF Op \in DOMAIN StoreOps THEN StypeSignedImm(w) ELSE ItypeSignedImm(w)) = n
  <2>1. n \in Int /\ -2048 <= n /\ n <= 2047
    BY <1>7
  <2>2. CASE Op \in DOMAIN StoreOps
    BY <1>5, <2>1, <2>2, OffsetFieldsHold
  <2>3. CASE Op \notin DOMAIN StoreOps
    BY <1>5, <2>1, <2>3, OffsetFieldsHold
  <2>4. QED
    BY <2>2, <2>3
<1>8. QED
  BY <1>2, <1>4, <1>6, <1>7

-----------------------------------------------------------------------------
(***************************************************************************)
(* Theorems                                                                *)
(***************************************************************************)

(***************************************************************************)
(* A branch that was patched holds the distance to its label in its four   *)
(* fields, whatever the distance is (opcodes.cpp:293-300).                 *)
(***************************************************************************)
THEOREM BranchGoesToItsLabel == Spec => []BranchesReach
BY StatementInvariant, BranchHolds, PTL

(***************************************************************************)
(* A call or jmp to a label less than 2^63 away goes there or stops the    *)
(* program, and it stops it for no label in reach, for every distance      *)
(* (opcodes.cpp:361-370, 416-425).                                         *)
(***************************************************************************)
THEOREM JumpGoesToItsLabel == Spec => []JumpsReachOrStop
BY StatementInvariant, JumpHolds, PTL

(***************************************************************************)
(* A call by a constant jumps by it and links where it is told to, for     *)
(* every constant of 20 bits with a sign (opcodes.cpp:371-383).            *)
(***************************************************************************)
THEOREM CallJumpsByItsConstant == Spec => []ConstantCallsReach
BY StatementInvariant, ConstantCallHolds, PTL

(***************************************************************************)
(* A constant of 12 bits with a sign is what the machine decodes, and      *)
(* arithmetic takes no other, for every handler, every constant and        *)
(* statements of any length (opcodes.cpp:188-191, 250-254, 394-397,        *)
(* 434-442, 596-599).                                                      *)
(***************************************************************************)
THEOREM OffsetIsDecoded == Spec => []OffsetsSurvive
BY StatementInvariant, OffsetsHold, PTL

(***************************************************************************)
(* Arithmetic on two or three registers has them where the README says, in *)
(* a word with a second operand, and takes no more, but for the 64-bit     *)
(* forms of add to xor; loads and stores without an offset have theirs     *)
(* (opcodes.cpp:183-195, 241-256, 443-458, 464-478).                       *)
(***************************************************************************)
THEOREM RegistersAreInOrder == Spec => []RegistersInOrder
BY StatementInvariant, RegistersHold, PTL
==============================================================================

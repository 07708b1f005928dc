----------------------------- MODULE Assembler -----------------------------
(***************************************************************************)
(* The one-pass assembler: class Assembler with its sections, directives   *)
(* and pseudo-ops, from the first token to the end of Assembler::finish.   *)
(*                                                                         *)
(* The program text is the environment: any statement may come next, so a  *)
(* behaviour is the assembly of some program.  Assembling a statement      *)
(* outputs bytes to the current section, queues labels until something is  *)
(* output for them to stand for, and schedules work on symbols that may    *)
(* not be known yet.  Finish then outputs the labels left in the queues,   *)
(* resolves base addresses and runs the scheduled work symbol by symbol.   *)
(*                                                                         *)
(* A section's output is the set of items in it (one per instruction       *)
(* sequence, constant, string or reserved block); the bytes of an item are *)
(* left out, except for the value that scheduled work stores in it.  A     *)
(* statement may also make a section shorter: a constant is a uint64_t, so *)
(* the times of a reservation and the operand of .align may be -4, which   *)
(* is 2^64 - 4 here as there.                                              *)
(***************************************************************************)
EXTENDS BaseResolution

CONSTANTS
  Vocabulary,     \* the kinds of statement the programs consist of
  SectionOrder,   \* the section names in std::map (alphabetical) order
  Labels,         \* the symbol names of the program
  LabelOrder,     \* the symbol names in std::map (alphabetical) order
  CodeLengths,    \* words of the instructions that refer to no label
  Forms,          \* the kinds of label reference the program uses
  Widths,         \* widths of constants and reserved units, in bytes
  Lengths,        \* lengths of strings and included binaries
  Counts,         \* repetition counts of the reservations, as uint64_t
  Alignments,     \* operands of .align, as uint64_t
  Bases,          \* operands of .org
  Mod32, Mod64,   \* 2^32 and 2^64, the ranges of uint32_t and uint64_t
  MaxStatements   \* bound: statements in a program

(***************************************************************************)
(* The instructions that refer to a label (opcodes.cpp): how many 4-byte   *)
(* words they output, up to which of them the patch reaches, and whether   *)
(* bounds_check_jump checks the distance when it is known.                 *)
(***************************************************************************)
ReferenceForms ==
  { [name |-> "branch",  words |-> 1,  patched |-> 1,  checked |-> FALSE],
    [name |-> "la",      words |-> 2,  patched |-> 2,  checked |-> FALSE],
    [name |-> "farcall", words |-> 2,  patched |-> 2,  checked |-> FALSE],
    [name |-> "laq",     words |-> 14, patched |-> 12, checked |-> FALSE],
    [name |-> "jump",    words |-> 1,  patched |-> 1,  checked |-> TRUE] }

\* The distances bounds_check_jump accepts.
JumpReach == -2048 .. 2047

\* The operands of .align are 0, these powers of two and their negatives.
PowersOfTwo == {1, 2, 4, 8, 16, 4096}

\* vector<uint8_t>::max_size, half of the address space.
MaxSize == (Mod64 \div 2) - 1

ASSUME ProgramAssumption ==
  /\ SectionOrder \in Seq(SectionNames)
  /\ \A s \in SectionNames : \E i \in DOMAIN SectionOrder : SectionOrder[i] = s
  /\ LabelOrder \in Seq(Labels)
  /\ \A l \in Labels : \E i \in DOMAIN LabelOrder : LabelOrder[i] = l
  /\ CodeLengths \subseteq Nat \ {0}
  /\ Forms \subseteq ReferenceForms
  /\ Widths \subseteq {2, 4, 8, 16}
  /\ Lengths \subseteq Nat
  /\ Mod32 \in Nat \ {0}
  /\ Mod64 \in Nat /\ Mod64 > 8192 /\ Mod64 % 8192 = 0
  /\ Counts \subseteq 0 .. (Mod64 - 1)
  /\ Alignments \subseteq {0} \cup PowersOfTwo \cup {Mod64 - p : p \in PowersOfTwo}
  /\ Bases \subseteq Nat
  /\ MaxStatements \in Nat

VARIABLES
  phase,      \* what the program is doing
  statements, \* statements consumed
  current,    \* m_current_section
  output,     \* the items output to each section
  shrunk,     \* history: the sections that a statement has made shorter
  queue,      \* m_label_queue of each section
  lookup,     \* m_lookup: symbol name -> symbol, defined for known symbols
  schedule,   \* m_schedule: symbol name -> the work left to do
  patched,    \* location -> the value scheduled work was run with there
  flushIdx,   \* finish: next section whose labels are output
  declared,   \* history: label -> the positions where it was declared
  typed       \* history: symbol -> the type the program gave it last

historyVars == <<declared, typed>>
contentVars == <<statements, current, output, shrunk, queue, lookup, schedule,
                 patched, flushIdx, historyVars>>
asmVars == <<phase, contentVars>>
vars == <<layoutVars, asmVars>>

Phases ==
  {"assembling", "flushing", "resolving", "patching", "finished", "failed"}

SymbolTypes == {"notype", "object", "func"}

Location == [sec : SectionNames, off : Nat]

Symbol == [sec : SectionNames, off : Nat, type : SymbolTypes, size : Nat]

Item == [off : Nat, len : Nat \ {0}, kind : {"code", "data", "resv", "db", "resb"},
         refs : SUBSET Labels]

(***************************************************************************)
(* A scheduled_op_t: the captures of its closure.  `off' is the captured   *)
(* location, `len' the bytes it patches there, `pos' the position a .size  *)
(* directive captured before it aligned; `type' is what .type assigns.     *)
(***************************************************************************)
Work == [kind : {"patch", "jump", "size", "endfunc", "type"},
         sec : SectionNames, off : Nat, len : Nat, pos : Nat,
         type : SymbolTypes]

Patches == {"patch", "jump", "size"}

-----------------------------------------------------------------------------

Init ==
  /\ order = <<TextSection>>
  /\ size = [s \in SectionNames |-> 0]
  /\ flags = [s \in SectionNames |-> {}]
  /\ base = [s \in SectionNames |-> IF s = TextSection THEN OptionsBase ELSE 0]
  /\ hasBase = {TextSection}
  /\ pinned = {TextSection}
  /\ CursorInit
  /\ phase = "assembling"
  /\ statements = 0
  /\ current = TextSection
  /\ output = [s \in SectionNames |-> {}]
  /\ shrunk = {}
  /\ queue = [s \in SectionNames |-> {}]
  /\ lookup = [l \in {} |-> {}]
  /\ schedule = [l \in Labels |-> <<>>]
  /\ patched = [x \in {} |-> 0]
  /\ flushIdx = 1
  /\ declared = [l \in Labels |-> {}]
  /\ typed = [l \in Labels |-> "notype"]

-----------------------------------------------------------------------------
(***************************************************************************)
(* Assembling.  Every statement is one action; its bound is MaxStatements. *)
(***************************************************************************)

Reading(kind) ==
  /\ phase = "assembling"
  /\ statements < MaxStatements
  /\ kind \in Vocabulary

Consume(kind) ==
  /\ Reading(kind)
  /\ statements' = statements + 1
  /\ UNCHANGED <<cursorVars, patched, flushIdx>>

Position == size[current]

\* Mutant of WithSymbols: assigns where the code emplaces.
WithSymbolsMutAssign(names, s, off) ==
  [l \in DOMAIN lookup \cup names |->
     IF l \in names
     THEN [sec |-> s, off |-> off, type |-> "notype", size |-> 0]
     ELSE lookup[l]]

\* m_lookup after add_symbol_here(name), for every name of a queue: emplace
\* leaves a name that is known already as it is.
WithSymbols(names, s, off) ==
  [l \in DOMAIN lookup \cup names |->
     IF l \in DOMAIN lookup
     THEN lookup[l]
     ELSE [sec |-> s, off |-> off, type |-> "notype", size |-> 0]]

\* The labels waiting in the current section now stand for position `at'.
OutputLabels(at) ==
  /\ lookup' = WithSymbols(queue[current], current, at)
  /\ queue' = [queue EXCEPT ![current] = {}]

KeepLabels == UNCHANGED <<lookup, queue>>

\* add_output, or allocate, of len bytes at position `at' of the current
\* section; from the old size up to `at' is padding.
AddOutput(at, len, kind, refs, flag) ==
  /\ at + len <= MaxSize
  /\ UNCHANGED shrunk
  /\ size' = [size EXCEPT ![current] = at + len]
  /\ flags' = [flags EXCEPT ![current] = @ \cup {flag}]
  /\ output' = [output EXCEPT ![current] = @ \cup
       (IF len = 0 THEN {}
        ELSE {[off |-> at, len |-> len, kind |-> kind, refs |-> refs]})]

\* align_with_labels(alignment) and then the output of an item.
AlignedOutput(alignment, len, kind, refs, flag) ==
  LET at == AlignUp(Position, alignment)
  IN  OutputLabels(at) /\ AddOutput(at, len, kind, refs, flag)

NoOutput == UNCHANGED <<size, flags, output, shrunk>>

\* What output.resize(n) leaves of the items.
Truncate(items, n) ==
  { [x EXCEPT !.len = IF x.off + x.len <= n THEN @ ELSE n - x.off] :
      x \in { y \in items : y.off < n } }

\* output.resize(n) of the current section, to less than it was.  The bytes
\* it had stay within the vector's capacity.
Shorten(n, added) ==
  /\ size' = [size EXCEPT ![current] = n]
  /\ flags' = [flags EXCEPT ![current] = @ \cup added]
  /\ output' = [output EXCEPT ![current] = Truncate(@, n)]
  /\ shrunk' = shrunk \cup {current}

\* Mutant of Schedule: the newest work first.
ScheduleMutOrder(l, work) == schedule' = [schedule EXCEPT ![l] = <<work>> \o @]

Schedule(l, work) == schedule' = [schedule EXCEPT ![l] = Append(@, work)]

\* What no statement but .section and .org changes.
SameSections == UNCHANGED <<order, base, hasBase, pinned, current>>

-----------------------------------------------------------------------------

\* "name:" -- TK_LABEL, add_label_soon.
Label(l) ==
  /\ Consume("label")
  /\ queue' = [queue EXCEPT ![current] = @ \cup {l}]
  /\ declared' = [declared EXCEPT ![l] = @ \cup {[sec |-> current, off |-> Position]}]
  /\ NoOutput /\ SameSections
  /\ UNCHANGED <<phase, lookup, schedule, typed>>

\* An instruction that refers to no label: li and set, for instance, are a
\* sequence of several words.
Instruction(words) ==
  /\ Consume("instr")
  /\ AlignedOutput(4, 4 * words, "code", {}, "code")
  /\ SameSections
  /\ UNCHANGED <<phase, schedule, historyVars>>

\* Mutant of Reference: the location is captured before the alignment.
ReferenceMutLocation(l, form) ==
  /\ Consume("ref")
  /\ AlignedOutput(4, 4 * form.words, "code", {l}, "code")
  /\ Schedule(l, [kind |-> IF form.checked THEN "jump" ELSE "patch",
                  sec |-> current, off |-> Position, len |-> 4 * form.patched,
                  pos |-> Position, type |-> "notype"])
  /\ SameSections
  /\ UNCHANGED <<phase, historyVars>>

\* An instruction sequence that refers to label l.  The handler runs after
\* align_with_labels(4) and schedules the patch before its words are output.
Reference(l, form) ==
  /\ Consume("ref")
  /\ LET at == AlignUp(Position, 4)
     IN /\ AlignedOutput(4, 4 * form.words, "code", {l}, "code")
        /\ Schedule(l, [kind |-> IF form.checked THEN "jump" ELSE "patch",
                        sec |-> current, off |-> at, len |-> 4 * form.patched,
                        pos |-> at, type |-> "notype"])
  /\ SameSections
  /\ UNCHANGED <<phase, historyVars>>

\* Mutant of DataConstant: add_output without align_with_labels.
DataConstantMutLabels(w) ==
  /\ Consume("const")
  /\ AddOutput(AlignUp(Position, w), w, "data", {}, "data")
  /\ KeepLabels /\ SameSections
  /\ UNCHANGED <<phase, schedule, historyVars>>

\* dh, dw, dd, dq, and (with w = 4) .strlen.
DataConstant(w) ==
  /\ Consume("const")
  /\ AlignedOutput(w, w, "data", {}, "data")
  /\ SameSections
  /\ UNCHANGED <<phase, schedule, historyVars>>

\* db: no align_with_labels.
DataByte ==
  /\ Consume("db")
  /\ AddOutput(Position, 1, "db", {}, "data")
  /\ KeepLabels /\ SameSections
  /\ UNCHANGED <<phase, schedule, historyVars>>

\* The size that allocate(len) asks for: a size_t.
Allocated(at, len) == (at + len) % Mod64

\* resh, resw, resd, resq.  The product wraps with the sum.
Reserve(w, times) ==
  /\ Consume("res")
  /\ LET at == AlignUp(Position, w)
         n  == Allocated(at, w * times)
     IN n >= at /\ AlignedOutput(w, n - at, "resv", {}, "resv")
  /\ SameSections
  /\ UNCHANGED <<phase, schedule, historyVars>>

\* The same, of a number of bytes that wraps to less than there was.
ReserveBack(w, times) ==
  /\ Consume("res")
  /\ LET at == AlignUp(Position, w)
         n  == Allocated(at, w * times)
     IN n < at /\ OutputLabels(at) /\ Shorten(n, {"resv"})
  /\ SameSections
  /\ UNCHANGED <<phase, schedule, historyVars>>

\* resb: no align_with_labels.
ReserveBytes(times) ==
  /\ Consume("resb")
  /\ LET n == Allocated(Position, times)
     IN n >= Position /\ AddOutput(Position, n - Position, "resb", {}, "resv")
  /\ KeepLabels /\ SameSections
  /\ UNCHANGED <<phase, schedule, historyVars>>

ReserveBytesBack(times) ==
  /\ Consume("resb")
  /\ LET n == Allocated(Position, times)
     IN n < Position /\ Shorten(n, {"resv"})
  /\ KeepLabels /\ SameSections
  /\ UNCHANGED <<phase, schedule, historyVars>>

\* .string, .ascii and incbin.
Bytes(len) ==
  /\ Consume("bytes")
  /\ AlignedOutput(1, len, "data", {}, "data")
  /\ SameSections
  /\ UNCHANGED <<phase, schedule, historyVars>>

\* Section::align: (n + (a-1)) & ~(a-1) modulo 2^64.  Nothing is left of 0's
\* mask ~(2^64-1), and one bit of that of a negative power of two.
AlignedSize(n, a) ==
  CASE a = 0 -> 0
    [] a \in PowersOfTwo -> AlignUp(n, a)
    [] OTHER -> LET bit == Mod64 - a
                IN  IF ((n - bit - 1) \div bit) % 2 = 1 THEN bit ELSE 0

\* .align: the operand goes straight to Section::align, which leaves the
\* labels queued.
Align(a) ==
  /\ Consume("align")
  /\ LET n == AlignedSize(Position, a)
     IN n >= Position /\ n <= MaxSize /\ size' = [size EXCEPT ![current] = n]
  /\ KeepLabels /\ SameSections
  /\ UNCHANGED <<phase, output, flags, shrunk, schedule, historyVars>>

\* The same, with an operand that is no alignment.
AlignBack(a) ==
  /\ Consume("align")
  /\ LET n == AlignedSize(Position, a)
     IN n < Position /\ Shorten(n, {})
  /\ KeepLabels /\ SameSections
  /\ UNCHANGED <<phase, schedule, historyVars>>

\* .finish_labels
FinishLabels ==
  /\ Consume("finish_labels")
  /\ OutputLabels(Position)
  /\ NoOutput /\ SameSections
  /\ UNCHANGED <<phase, schedule, historyVars>>

\* Mutant of SetSection: a section that exists is listed again.
SetSectionMutAgain(s) ==
  /\ Consume("section")
  /\ current' = s
  /\ order' = Append(order, s)
  /\ NoOutput /\ KeepLabels
  /\ UNCHANGED <<phase, base, hasBase, pinned, schedule, historyVars>>

\* .section: continue the section of that name, or create it.
SetSection(s) ==
  /\ Consume("section")
  /\ current' = s
  /\ order' = IF \E i \in DOMAIN order : order[i] = s THEN order
              ELSE Append(order, s)
  /\ NoOutput /\ KeepLabels
  /\ UNCHANGED <<phase, base, hasBase, pinned, schedule, historyVars>>

\* Mutant of Org: without the check of the size.
OrgMutGuard(b) ==
  /\ Consume("org")
  /\ base' = [base EXCEPT ![current] = b]
  /\ hasBase' = hasBase \cup {current}
  /\ pinned' = pinned \cup {current}
  /\ NoOutput /\ KeepLabels
  /\ UNCHANGED <<phase, order, current, schedule, historyVars>>

\* .org in a section without output.
Org(b) ==
  /\ Consume("org")
  /\ Position = 0
  /\ base' = [base EXCEPT ![current] = b]
  /\ hasBase' = hasBase \cup {current}
  /\ pinned' = pinned \cup {current}
  /\ NoOutput /\ KeepLabels
  /\ UNCHANGED <<phase, order, current, schedule, historyVars>>

\* .execonly and .readonly
SetAttribute(flag) ==
  /\ Consume("attr")
  /\ flags' = [flags EXCEPT ![current] = @ \cup {flag}]
  /\ KeepLabels /\ SameSections
  /\ UNCHANGED <<phase, size, output, shrunk, schedule, historyVars>>

\* .endfunc l
EndFunction(l) ==
  /\ Consume("endfunc")
  /\ Schedule(l, [kind |-> "endfunc", sec |-> current, off |-> Position,
                  len |-> 0, pos |-> Position, type |-> "func"])
  /\ typed' = [typed EXCEPT ![l] = "func"]
  /\ NoOutput /\ KeepLabels /\ SameSections
  /\ UNCHANGED <<phase, declared>>

\* .size l: `dataloc' is captured before the alignment, `loc' after it.
SizeOf(l) ==
  /\ Consume("size")
  /\ LET at == AlignUp(Position, 4)
     IN /\ AlignedOutput(4, 4, "data", {l}, "data")
        /\ Schedule(l, [kind |-> "size", sec |-> current, off |-> at, len |-> 4,
                        pos |-> Position, type |-> "notype"])
  /\ SameSections
  /\ UNCHANGED <<phase, historyVars>>

\* .type l, t
SetType(l, t) ==
  /\ Consume("type")
  /\ Schedule(l, [kind |-> "type", sec |-> current, off |-> Position, len |-> 0,
                  pos |-> Position, type |-> t])
  /\ typed' = [typed EXCEPT ![l] = t]
  /\ NoOutput /\ KeepLabels /\ SameSections
  /\ UNCHANGED <<phase, declared>>

\* An exception that nobody catches ends the program.
Fail ==
  /\ phase' = "failed"
  /\ UNCHANGED <<layoutVars, contentVars>>

\* A token nothing accepts here: token_exception, "Unexpected token" or
\* "Unknown type".
Reject ==
  /\ Reading("bad")
  /\ Fail

\* .org in a section with output: "Cannot change base address when
\* instructions already generated".
OrgTooLate(b) ==
  /\ Reading("org")
  /\ Position > 0
  /\ Fail

\* The vector does not grow: length_error past max_size, bad_alloc before.
NoRoom ==
  /\ \E kind \in {"instr", "ref", "const", "db", "res", "resb", "bytes", "align", "size"} :
       Reading(kind)
  /\ Fail

Statement ==
  \/ \E l \in Labels :
       \/ Label(l)
       \/ \E form \in Forms : Reference(l, form)
       \/ EndFunction(l)
       \/ SizeOf(l)
       \/ \E t \in {"object", "func"} : SetType(l, t)
  \/ \E words \in CodeLengths : Instruction(words)
  \/ \E w \in Widths : DataConstant(w)
  \/ DataByte
  \/ \E w \in Widths, times \in Counts : Reserve(w, times) \/ ReserveBack(w, times)
  \/ \E times \in Counts : ReserveBytes(times) \/ ReserveBytesBack(times)
  \/ \E len \in Lengths : Bytes(len)
  \/ \E a \in Alignments : Align(a) \/ AlignBack(a)
  \/ FinishLabels
  \/ \E s \in SectionNames : SetSection(s)
  \/ \E b \in Bases : Org(b) \/ OrgTooLate(b)
  \/ \E flag \in {"execonly", "readonly"} : SetAttribute(flag)
  \/ Reject
  \/ NoRoom

-----------------------------------------------------------------------------
(***************************************************************************)
(* Assembler::finish                                                       *)
(***************************************************************************)

EndOfProgram ==
  /\ phase = "assembling"
  /\ phase' = "flushing"
  /\ UNCHANGED <<layoutVars, contentVars>>

\* Mutant of FlushSection: every iteration takes the current section's labels.
FlushSectionMutCurrent ==
  /\ phase = "flushing"
  /\ flushIdx <= Len(SectionOrder)
  /\ lookup' = WithSymbols(queue[current], current, Position)
  /\ queue' = [queue EXCEPT ![current] = {}]
  /\ flushIdx' = flushIdx + 1
  /\ UNCHANGED <<layoutVars, phase, statements, current, output, shrunk, schedule,
                 patched, historyVars>>

\* One iteration of the first loop of finish: align_with_labels(1) of every
\* section, in map order.  add_symbol_here takes the location from the
\* current section, whichever section's labels are being output.  A name of
\* no section has nothing queued.
FlushSection ==
  /\ phase = "flushing"
  /\ flushIdx <= Len(SectionOrder)
  /\ LET s == SectionOrder[flushIdx]
     IN /\ lookup' = WithSymbols(queue[s], current, Position)
        /\ queue' = [queue EXCEPT ![s] = {}]
  /\ flushIdx' = flushIdx + 1
  /\ UNCHANGED <<layoutVars, phase, statements, current, output, shrunk, schedule,
                 patched, historyVars>>

\* Mutant of StartResolving: resolve_base_addresses not called.
StartResolvingMutSkip ==
  /\ phase = "flushing"
  /\ flushIdx > Len(SectionOrder)
  /\ phase' = "patching"
  /\ UNCHANGED <<layoutVars, contentVars>>

StartResolving ==
  /\ phase = "flushing"
  /\ flushIdx > Len(SectionOrder)
  /\ phase' = "resolving"
  /\ UNCHANGED <<layoutVars, contentVars>>

\* One iteration of resolve_base_addresses.
ResolveSection ==
  /\ phase = "resolving"
  /\ ResolveStep
  /\ UNCHANGED asmVars

StartPatching ==
  /\ phase = "resolving"
  /\ Resolved
  /\ phase' = "patching"
  /\ UNCHANGED <<layoutVars, contentVars>>

AddressOf(l) == base[lookup[l].sec] + lookup[l].off

\* finish_scheduled_work is at symbol l: the first name, in map order, with
\* work left.
AtSymbol(l) ==
  /\ phase = "patching"
  /\ schedule[l] # <<>>
  /\ \E i \in DOMAIN LabelOrder :
       /\ LabelOrder[i] = l
       /\ \A j \in 1 .. (i - 1) : schedule[LabelOrder[j]] = <<>>

\* Mutants of TakeWork: one piece of work per symbol; the work stays.
TakeWorkMutDrop(l) == schedule' = [schedule EXCEPT ![l] = <<>>]
TakeWorkMutKeep(l) == UNCHANGED schedule

\* The work is run first in, first out.
TakeWork(l) == schedule' = [schedule EXCEPT ![l] = Tail(@)]

Running(l, work) == AtSymbol(l) /\ work = Head(schedule[l]) /\ l \in DOMAIN lookup

Store(work, value) ==
  patched' = [x \in DOMAIN patched \cup {[sec |-> work.sec, off |-> work.off]} |->
                IF x = [sec |-> work.sec, off |-> work.off]
                THEN value ELSE patched[x]]

\* Mutant of InOutput: as if the position after the word had to exist.
InOutputMutEnd(work) == work.off + work.len < size[work.sec]

\* vector::at accepts every position that is written; what the last of the
\* words has past the end of a section that was shortened is still the
\* vector's, and not in the file.
InOutput(work) == work.off + work.len - 4 < size[work.sec]

\* The difference of two addresses, of 128 bits, as the int64_t that
\* bounds_check_jump is called with.
Cut(diff) ==
  LET low == diff % Mod64
  IN  IF low > MaxSize THEN low - Mod64 ELSE low

InReach(l, work) ==
  work.kind = "jump" => Cut(AddressOf(l) - (base[work.sec] + work.off)) \in JumpReach

DuringPatching ==
  UNCHANGED <<layoutVars, phase, statements, current, output, shrunk, queue,
              flushIdx, historyVars>>

\* An instruction is completed with the address of its label.
PatchInstruction(l, work) ==
  /\ Running(l, work)
  /\ work.kind \in {"patch", "jump"}
  /\ InOutput(work) /\ InReach(l, work)
  /\ Store(work, AddressOf(l))
  /\ TakeWork(l)
  /\ DuringPatching /\ UNCHANGED lookup

\* Mutant of SizeValue: a label ahead measured from the start of the constant.
SizeValueMutForward(l, work) ==
  LET dataloc == base[work.sec] + work.pos
      loc     == base[work.sec] + work.off
  IN  IF AddressOf(l) < dataloc
      THEN (dataloc - AddressOf(l)) % Mod32
      ELSE (AddressOf(l) - loc) % Mod32

\* .size: the distance to a label behind, or ahead, of the directive.
SizeValue(l, work) ==
  LET dataloc == base[work.sec] + work.pos
      loc     == base[work.sec] + work.off
  IN  IF AddressOf(l) < dataloc
      THEN (dataloc - AddressOf(l)) % Mod32
      ELSE (AddressOf(l) - 4 - loc) % Mod32

PatchSize(l, work) ==
  /\ Running(l, work)
  /\ work.kind = "size"
  /\ InOutput(work)
  /\ Store(work, SizeValue(l, work))
  /\ lookup' = [lookup EXCEPT ![l].size = SizeValue(l, work)]
  /\ TakeWork(l)
  /\ DuringPatching

SetFunction(l, work) ==
  /\ Running(l, work)
  /\ work.kind = "endfunc"
  /\ lookup' = [lookup EXCEPT
       ![l].size = (base[work.sec] + work.off - AddressOf(l)) % Mod64,
       ![l].type = work.type]
  /\ TakeWork(l)
  /\ DuringPatching /\ UNCHANGED patched

AssignType(l, work) ==
  /\ Running(l, work)
  /\ work.kind = "type"
  /\ lookup' = [lookup EXCEPT ![l].type = work.type]
  /\ TakeWork(l)
  /\ DuringPatching /\ UNCHANGED patched

\* vector::at or bounds_check_jump throws.
PatchFails(l, work) ==
  /\ Running(l, work)
  /\ work.kind \in Patches
  /\ ~InOutput(work) \/ ~InReach(l, work)
  /\ Fail

\* "Unknown symbol scheduled"
UnknownSymbol(l) == AtSymbol(l) /\ l \notin DOMAIN lookup /\ Fail

Finished ==
  /\ phase = "patching"
  /\ \A l \in Labels : schedule[l] = <<>>
  /\ phase' = "finished"
  /\ UNCHANGED <<layoutVars, contentVars>>

RunWork ==
  \E l \in Labels :
    /\ AtSymbol(l)
    /\ \/ LET work == Head(schedule[l])
          IN \/ PatchInstruction(l, work)
             \/ PatchSize(l, work)
             \/ SetFunction(l, work)
             \/ AssignType(l, work)
             \/ PatchFails(l, work)
       \/ UnknownSymbol(l)

Finish ==
  \/ FlushSection
  \/ StartResolving
  \/ ResolveSection
  \/ StartPatching
  \/ RunWork
  \/ Finished

Terminated == phase \in {"finished", "failed"} /\ UNCHANGED vars

Next == Statement \/ EndOfProgram \/ Finish \/ Terminated

(***************************************************************************)
(* The program text is the user's; finish, once begun, is straight-line    *)
(* code on a single thread and never waits for anything.                   *)
(***************************************************************************)
Fairness == WF_vars(Finish)

Spec == Init /\ [][Next]_vars /\ Fairness

-----------------------------------------------------------------------------
(***************************************************************************)
(* Properties                                                              *)
(***************************************************************************)

Known == DOMAIN lookup

Resolving == phase \in {"resolving", "patching", "finished"}

Referencing(s) == { x \in output[s] : x.refs # {} }

(***************************************************************************)
(* The types of the assembler's state.                                     *)
(***************************************************************************)
TypeOK ==
  /\ LayoutTypeOK
  /\ phase \in Phases
  /\ statements \in 0 .. MaxStatements
  /\ current \in SectionNames
  /\ output \in [SectionNames -> SUBSET Item]
  /\ shrunk \subseteq SectionNames
  /\ queue \in [SectionNames -> SUBSET Labels]
  /\ Known \subseteq Labels
  /\ lookup \in [Known -> Symbol]
  /\ schedule \in [Labels -> Seq(Work)]
  /\ DOMAIN patched \subseteq Location
  /\ patched \in [DOMAIN patched -> Nat]
  /\ flushIdx \in 1 .. (Len(SectionOrder) + 1)
  /\ declared \in [Labels -> SUBSET Location]
  /\ typed \in [Labels -> SymbolTypes]

(***************************************************************************)
(* Scheduled work knows its target only by a section and an offset that it *)
(* captured while the instruction did not exist yet.  When it runs, after  *)
(* everything else was output, that offset is still the start of the very  *)
(* item that refers to the symbol, and the item is at least as long as     *)
(* what the work patches.  Only in a section that was made shorter may     *)
(* something else, or nothing, be there.                                   *)
(***************************************************************************)
SiteOwnsItem ==
  \A l \in Labels : \A i \in DOMAIN schedule[l] :
    LET work == schedule[l][i]
    IN  work.kind \in Patches /\ work.sec \notin shrunk =>
          \E x \in output[work.sec] :
            x.off = work.off /\ l \in x.refs /\ work.len <= x.len

(***************************************************************************)
(* Once finish returns, every instruction that refers to a label, forwards *)
(* or backwards and across sections, was completed with the final address  *)
(* of the label: no reference was dropped, patched twice with different    *)
(* values, or patched before the base addresses were known.  (Which bits   *)
(* of the address an instruction has room for is the matter of Encoding    *)
(* and Instructions.  Of a section that was made shorter nothing is said:  *)
(* work on what was removed is run on what took its place.)                *)
(***************************************************************************)
ReferencesResolved ==
  phase = "finished" =>
    \A s \in SectionNames \ shrunk : \A x \in Referencing(s) :
      x.kind = "code" =>
        \A l \in x.refs :
          /\ l \in Known
          /\ lookup[l].sec \in hasBase
          /\ [sec |-> s, off |-> x.off] \in DOMAIN patched
          /\ patched[[sec |-> s, off |-> x.off]] = AddressOf(l)

(***************************************************************************)
(* A declared label is never lost: it waits in a queue until it is known,  *)
(* and every one is known when addresses are resolved, in whichever        *)
(* section it was left (so "Unknown symbol scheduled" is only said of      *)
(* symbols the program does not declare).                                  *)
(***************************************************************************)
LabelsAccountedFor ==
  \A l \in Labels :
    declared[l] # {} =>
      \/ l \in Known
      \/ ~Resolving /\ \E s \in SectionNames : l \in queue[s]

\* l stands for position `at' of section s: it was declared there, or
\* earlier with nothing but padding and items of `Passed' kinds in between.
BoundBehind(Passed, l, s, at) ==
  \E d \in declared[l] :
    /\ d.sec = s
    /\ d.off <= at
    /\ \A x \in output[s] :
         d.off <= x.off /\ x.off < at => x.kind \in Passed

(***************************************************************************)
(* While assembling, a label that becomes known stands for the next item   *)
(* output to its own section, however long it was queued and whatever      *)
(* other sections, alignments and directives came in between.  (db and     *)
(* resb output their bytes without taking the labels, so they may be       *)
(* passed over.  In a section that was made shorter the position of the    *)
(* label may be gone.)                                                     *)
(***************************************************************************)
LabelsAttachToNextItem ==
  phase = "assembling" =>
    \A l \in Known :
      lookup[l].sec \notin shrunk =>
        BoundBehind({"db", "resb"}, l, lookup[l].sec, lookup[l].off)

(***************************************************************************)
(* assemble.cpp:63: finish outputs "any remaining unattached labels" of    *)
(* each section: they belong to the section they were declared in.         *)
(***************************************************************************)
LabelsStayInSection ==
  \A l \in Known : \E d \in declared[l] : d.sec = lookup[l].sec

\* The .size item x of section s measures label l of the same section.
Measures(x, s, l) ==
  /\ x.kind = "data"
  /\ l \in x.refs
  /\ lookup[l].sec = s
  /\ [sec |-> s, off |-> x.off] \in DOMAIN patched

(***************************************************************************)
(* .size of a label with items between it and the directive is the extent  *)
(* of these items: it ends at the directive, short of the padding before   *)
(* it (under 4 bytes).  .size of a label ahead is the distance from the    *)
(* end of the constant to the label.  (In a section that no statement made *)
(* shorter.)                                                               *)
(***************************************************************************)
SizesMeasureData ==
  phase = "finished" =>
    \A s \in SectionNames \ shrunk : \A x \in output[s] : \A l \in Labels \cap Known :
      Measures(x, s, l) =>
        LET value == patched[[sec |-> s, off |-> x.off]]
            at    == lookup[l].off
            Between == { y \in output[s] : at <= y.off /\ y.off < x.off }
        IN  /\ Between # {} =>
                 /\ \A y \in Between : y.off + y.len <= at + value
                 /\ x.off - (at + value) \in 0 .. 3
            /\ x.off < at => at = x.off + x.len + value

(***************************************************************************)
(* Work on a symbol runs in program order, so the last .type or .endfunc   *)
(* of a symbol decides its type, though a symbol's work is scheduled on    *)
(* its own and .size changes the symbol too.                               *)
(***************************************************************************)
LastTypeWins ==
  phase = "finished" => \A l \in Known : lookup[l].type = typed[l]

(***************************************************************************)
(* A symbol that is known never moves: a second label of the same name     *)
(* loses, wherever and whenever it is output (m_lookup.emplace).           *)
(***************************************************************************)
SymbolsNeverMove ==
  [][\A l \in Known :
       /\ l \in Known'
       /\ lookup'[l].sec = lookup[l].sec
       /\ lookup'[l].off = lookup[l].off]_vars

(***************************************************************************)
(* No statement, and no step of finish, changes the base address of a      *)
(* section once it has one and an instruction, or what is left of one, is  *)
(* in its output (directive.cpp:36-38 looks at the size only), however the *)
(* section grew and shrank before.                                         *)
(***************************************************************************)
BaseFixedByCode ==
  [][\A s \in hasBase :
       (\E x \in output[s] : x.kind = "code") => base'[s] = base[s]]_vars

(***************************************************************************)
(* directive.cpp:38: "Cannot change base address when instructions already *)
(* generated".                                                             *)
(***************************************************************************)
BaseFixedOnceGenerated ==
  [][\A s \in hasBase : Executable(s) => base'[s] = base[s]]_vars

\* All that finish needs of the program.
Complete ==
  /\ shrunk = {}
  /\ \A l \in Labels :
       /\ schedule[l] # <<>> => declared[l] # {}
       /\ \A i \in DOMAIN schedule[l] : schedule[l][i].kind # "jump"

(***************************************************************************)
(* A program that declares every symbol it refers to, makes no section     *)
(* shorter and has no jump that could be out of reach, is completed by     *)
(* finish: no exception stops it on the way.                               *)
(***************************************************************************)
CompleteProgramsFinish ==
  (phase = "flushing" /\ Complete) ~> (phase = "finished")

(***************************************************************************)
(* Whatever the program, finish comes to an end.                           *)
(***************************************************************************)
FinishEnds == (phase = "flushing") ~> (phase \in {"finished", "failed"})
=============================================================================

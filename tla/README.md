# bigassm: a TLA+ verification project

`fab128` is a small assembler for RISC-V, up to the 128-bit variant. It reads
one or more assembly files, assembles them in a single pass into sections in
memory, finishes (labels, base addresses, scheduled patches), and writes two ELF
files and a flat binary. It is a single-threaded program without persistence:
what is hard in it is the *order* of things. Instructions are output before the
labels they refer to are known, labels are queued until something is output for
them to stand for, sections are interleaved at the program's will and get their
addresses only at the end, and all patching runs from closures that captured a
position long before.

Paths below are relative to the repository root, `src/` in `PROJECT.json`.

## Inventory

| Part | Source | State | Operations |
|---|---|---|---|
| Driver | `src/main.cpp` | output file names | read files, `assemble`, `finish`, write ELF64, ELF128, print globals, write the binary |
| Splitter, tokenizer | `src/raw_split.cpp`, `tokenizer.cpp`, `token.cpp`, `registers.cpp` | word, line, three flags | characters to words to tokens |
| Assembler core | `src/assemble.cpp`, `assembler.hpp` | token cursor, sections, current section, `m_lookup`, `m_schedule`, `m_globals` | `assemble`, `schedule`, `add_symbol_here`, `finish` |
| Sections | `src/section.cpp`, `section.hpp` | output bytes, label queue, base address, attributes | `add_output`, `allocate`, `align`, `align_with_labels`, `set_base_address` |
| Directives | `src/directive.cpp` | none of their own | `.align .endfunc .finish_labels .global .include .section .org .execonly .readonly .type .size .string .strlen .ascii` |
| Pseudo-ops | `src/pseudo_ops.cpp` | none | `db`..`dq`, `resb`..`resq`, `incbin` |
| Opcode handlers | `src/opcodes.cpp`, `rv32i_instr.hpp`, `instruction_list.hpp` | none | one to fourteen words per instruction, and patches for those that name a label |
| Constant expressions | `src/assemble.cpp` (`resolve_constants`) | sum, operator, negation flag | left-to-right evaluation over 128 bits |
| Base addresses | `src/assemble.cpp` (`resolve_base_addresses`) | running address, two flags | one loop over the sections in order of appearance |
| ELF writer | `src/elfwriter.cpp`, `elf128.h` | the file under construction | string tables, symbols, program headers |
| Hexadecimal printing | `src/hex128.cpp` | none | messages only |

**How they interact.** Tokens drive the assembler: directives, pseudo-ops and
opcode handlers are called with the assembler and take their own operands from
its cursor. All output goes to the *current* section. Before it outputs, an
operation normally calls `align_with_labels`, which pads the section and gives
the section's queued labels their position. Handlers that name a symbol put a
closure with the captured location in `m_schedule[symbol]`. `finish` outputs the
labels left over, resolves base addresses, and runs the closures symbol by
symbol; a closure reads the symbol's and its own location's address, and writes
through `at_location`. The ELF writer only reads the result.

**What is hard.** No test suite exists in the repository (only sample
programs), so every order of statements is an order nobody wrote a test for:
references before and after declarations, labels that wait in one section while
another is output to, an alignment between a label and its data, sections that
`.align 0` or a reservation of -4 units makes shorter with work pending, sections
with and without addresses of their own in any order, exceptions in the middle of
`finish`. `PROJECT.json`
lists these hazards at their lines, and the properties aimed at each.

**What makes each part correct.**

- *Sections*: items do not overlap; alignment only adds.
- *Labels*: a label stands for the next item of its section; none is lost; a
  known symbol does not move.
- *Scheduled work*: a captured location is still the item's start when the work
  runs; every reference ends with the label's final address; work on a symbol
  keeps program order.
- *Base addresses*: automatic sections do not overlap, are aligned, and are
  page-separated where attributes differ; chosen addresses are kept.
- *finish*: it ends, and for a complete program ends successfully.
- *Encoding*: a value put in an instruction's fields is the value the machine
  reads back.
- *Expressions*: an accepted expression has the value arithmetic gives it.
- *Splitter*: strings, comments and line numbers come out as they are written.
- *ELF*: the parts tile the file, and each segment carries its section's bytes.

## Modules

| Module | What it is |
|---|---|
| `BaseResolution` | `resolve_base_addresses`: the state of sections a layout depends on, one action per iteration (`KeepBase`, `PlaceNext`), and the properties of layouts |
| `Layout`, `MCLayout` | that loop alone, started from every configuration of sections assembling can leave; sizes, names and addresses for TLC |
| `Assembler` | the assembler from the first statement to the end of `finish`; extends `BaseResolution`, whose loop is one phase of it |
| `Linker` | what the assembler promises of labels and references, without items, queues, sections in the making or scheduled work |
| `AssemblerLinks` | the mapping under which `Assembler` implements `Linker` |
| `MCAssembler` | sections, labels, vocabularies and forms for TLC |
| `Encoding`, `MCEncoding` | `li`, `set`, `la`, `laq`, `farcall`: the words they assemble to, and the machine that runs them |
| `Instructions`, `MCInstructions` | every other mnemonic of the opcode table: operands, bit fields, patches |
| `Splitter` | characters to words to tokens: `split`, `parse` and the registers' and numbers' spelling |
| `ConstantExpr` | `resolve_constants` over the tokens of an operand |
| `Expressions`, `MCExpressions` | the two composed, from the text of an operand to its value |
| `ElfImage`, `MCElfImage` | `Elf_Writer` for both formats, and a reader that follows the headers of the file |
| `Driver`, `MCDriver` | `main`, the files, and the token cursor that `.include` saves and restores |
| `BaseResolutionProofs` | arithmetic of rounding, the loop invariant and its preservation |
| `LayoutProofs` | theorems of `LayoutSpec` |
| `AssemblerProofs` | `Spec` of `Assembler`: types, that `finish` starts the loop in a state its invariant holds in, items, labels and references, what a symbol, its type and size, and a base address end as, and that `Spec` implements `Link!LinkSpec` |
| `EncodingProofs` | theorems of `Spec` of `Encoding`: what every statement that builds a wide value leaves, for every width |
| `InstructionProofs` | theorems of `Spec` of `Instructions`: what the words of every handler hold, for every operand and distance |
| `ElfImageProofs` | theorems of `ElfSpec`: what a reader finds in the files, for every program |
| `DriverProofs` | theorems of `DriverSpec`: what a program with includes stands for, for any files, and when `main` stops |
| `ExpressionProofs` | theorems of `Spec` of `Expressions`: the words of a text, the value of the digits of a constant and of an operand, for any text and any number of digits |

`Assembler` takes its statements from an arbitrary program; `Splitter`,
`ConstantExpr` and `Driver` say where statements and operands come from, and
`Instructions` and `Encoding` what the bits of an item are, of which `Assembler`
keeps the length and the reference. `ElfImage` starts from what `finish` can
leave. They are separate state machines because none of them shares state with
another while it runs: the code hands over a finished token list, a finished
word, or a finished symbol table. The two places where state *is* shared while
both sides move are composed: the layout loop inside `finish` (`Assembler`
extends `BaseResolution`), and the evaluator on the splitter's tokens
(`Expressions`).

### State and code

| Variable | In the code |
|---|---|
| `order`, `size`, `flags`, `base`, `hasBase` | `m_sections` by `Section::index()`, `output.size()`, the booleans of `section.hpp:43-47`, `m_base_address`, `m_has_base_addr` |
| `pinned` | history: the sections whose address the constructor or `.org` set |
| `idx`, `baseAddr`, `wasExecutable`, `wasReadonly` | the locals of `resolve_base_addresses` |
| `current`, `queue`, `lookup`, `schedule` | `m_current_section`, `m_label_queue`, `m_lookup`, `m_schedule` |
| `output` | what was output, as items: one per instruction sequence, constant, string or reserved block, with its position and length |
| `shrunk` | history: the sections that a statement made shorter |
| `patched` | the values that closures stored through `at_location` / `instruction_at` |
| `flushIdx`, `phase` | where `finish` is |
| `declared`, `typed` | history: where each label was declared, what `.type`/`.endfunc` said last |

The program text is the environment: in phase `assembling` any statement of the
run's `Vocabulary` may come next, and each statement is one action that does
everything its handler does. `Label` is `add_label_soon`; `Instruction` and
`Reference` are the opcode case of `assemble` with the handler's schedule;
`DataConstant`, `DataByte`, `Reserve`, `ReserveBytes`, `Bytes` are the
pseudo-ops and string directives; `Align`, `FinishLabels`, `SetSection`, `Org`,
`SetAttribute`, `EndFunction`, `SizeOf`, `SetType` are the directives.
`ReserveBack`, `ReserveBytesBack` and `AlignBack` are the same handlers with an
operand that makes the section shorter; `OrgTooLate`, `Reject` and `NoRoom` (the
vector does not grow) are the exceptions. `.include` splices the statements
of a file into the program (which is what `Driver` shows of it), and `.global`
only marks a name for the writers: neither adds an action here. An unknown
directive only prints a message.

`finish` is `FlushSection` (one iteration of the first loop), `ResolveSection`
(one iteration of `resolve_base_addresses`), and one action per kind of closure
(`PatchInstruction`, `PatchSize`, `SetFunction`, `AssignType`); `PatchFails` and
`UnknownSymbol` are the exceptions. An exception ends the program, as nobody
catches it.

**Abstractions.** The bytes of an item are left out, except for the value that
scheduled work stores; an item without bytes is no item. Constants are
`uint64_t`: `resb -4` asks for 2^64 - 4 bytes, the sum with the size wraps
(`Allocated`), and what is left of the section's items is what the shorter vector
holds (`Truncate`, `Shorten`). The operand of `.align` is 0, a power of two, or
the negative of one, for which the mask arithmetic is worked out (`AlignedSize`).
A size beyond `max_size` throws, and any statement that outputs may fail for
want of memory (`NoRoom`). A jump's distance is cut to an `int64_t` before it is
checked (`Cut`). An instruction is its length in words; a reference is one
of the forms of `ReferenceForms`, with the words it outputs and those it
patches, and the value stored is the address of the label, not its encoding.
Addresses are natural numbers without the 128-bit wrap. A queue of labels is a
set: all of it is output at one position, so its order does not matter.

### The other state machines

| Module | State | Actions |
|---|---|---|
| `Encoding` | `request`: a statement with its constant, or the addresses of instruction and label; `code`: the words after patching; `pc`, `regs`, `target`: the machine | assembling is a function (`Li`, `Set`, `La`, `Laq`, `Farcall`, as the handlers build it with `build_uint32` and `set_uint32`); one action per machine instruction |
| `Instructions` | `statement` with its operand tokens, `index` of the next, `words`, `distance` to the label, `status` | `Handle` (the handler of the mnemonic takes one of its forms), `Reject`, `UnexpectedToken` (what a handler leaves is not a statement), `Complete`, `PatchBranch`, `PatchJump`, `OutOfReach` |
| `Splitter` | `text`, `pos`, and the locals of `split` under their names | one action per branch of the loop over characters |
| `ConstantExpr` | the cursor (`tokens`, `index`), the locals `sum`, `ops`, `negated` | one action per iteration of the loop |
| `ElfImage` | `hdr`, `chunks`, `binsize`: the vector, as headers and what was appended; `stale`: it was reallocated, so the writer's pointer and references are dangling; `nextName`, `namelist`, `item`; `file` | header, one step per name, symbol and segment, and the two writes of the file; `Fault` where a write through a dangling reference crashes |
| `Driver` | `disk`, `inputs`, `argi`; `cursor` = (`tokens`, `index`, `m_realpath`), `saved` = what the active calls of `assemble` restore; `emitted`, `known`, `globals`; `outputs` | `LoadInput`, `Include`, `Resume`, a statement of each kind, `Finish`, `WriteElf`, `PrintGlobals`, `WriteBin` |

The instruction set that runs the words in `Encoding`, and `stoull` and `atoi`
in `Splitter`, are not part of the repository; they are modelled from how the
code uses them and marked external in `PROJECT.json`. A write through a dangling
reference in `ElfImage`, and a shift by 128 or more in `ConstantExpr`, are
undefined in the code and nondeterministic in the model: the write is lost, or
the program crashes; the shift uses the low bits of the count, or gives 0, or
the value unchanged. `atoi` of a number that is no `int` is undefined as well; it
is modelled as the library does it, the nearest `long`, cut to an `int` (`Atoi`).

## Runs

All runs are in `PROJECT.json`; those of `Assembler` take the statements their
question is about (`Vocabulary`), so that programs are long enough for it.

| Run | Question | Bounds |
|---|---|---|
| `MCLayout` | are layouts disjoint, aligned and page-separated, are chosen addresses kept? | every configuration of up to 3 sections; sizes 0, 8, 4096; `.org` to the default and to an address off the granule |
| `MCLabels` | what do labels stand for, is every reference resolved, does finish end, with success for complete programs, is all of it a behaviour of `Linker`? | 2 labels, 2 sections, 5 statements of declaration, branch, constant, `db`, `.size`, `.align`, `.finish_labels`, `.section`, and what is rejected; symbols may stay unknown |
| `MCSections` | what layouts do programs reach, is the base of a section with code fixed, what do `.size`, `.type` and `.endfunc` leave, and what is left of work on a section that gets shorter? | 1 label, 2 sections, 5 statements of `.section`, `.org` (to a near address and one 2^64 away), attributes, instructions, jumps and `laq`, reservations of 2 and of -4 units, `.align` 0, 8 and -8, data, the label and its description |
| `MCEncoding` | what do the sequences load? | immediates of 3 bits, words of 6, registers of 24; constants from the values around a half and a whole part; labels around the instruction, around 0, and 2^64 away (scaled) from both |
| `MCInstructions` | what is accepted, and what does the machine decode? | every mnemonic with every sequence of up to 3 operands out of 3 registers, 16 constants at the boundaries of 12 and 20 bits, a label; distances at the boundaries of branches and jumps, and around half of 2^64 (scaled to 2^20), 2^64 and its double |
| `MCExpressions` | are tokens the words of the text, and an accepted operand its value? | every text of up to 5 characters out of 8, one for each branch of the splitter (6 out of 6); numbers of up to 4 digits, capitals too, where a half has one and an `int` three bits; every operand of up to 3 words out of 18, 4 out of 11, and 6 in arithmetic |
| `MCElfImage` | does a reader of the file find what was assembled? | up to 3 sections and 2 symbols; headers, records and the reserved space scaled so that the vector outgrows it at every point |
| `MCDriver` | what is assembled and written? | a file system of five files, includes nested up to the depth bound, in cycles too, through names that exist in two directories; one or two inputs; failing writes, and crashes before and between the two writes of an ELF file |

Four runs are expected to fail. They show what the code does against what its
comments, messages, usage line or README say, and are findings in `PROJECT.json`,
with the lines that are quoted:

| Run | Property | What the code does |
|---|---|---|
| `MCLastLabels` | `LabelsStayInSection` | labels left over at the end of a section are placed in the section that is current when the program ends |
| `MCOrgAfterCode` | `BaseFixedOnceGenerated` | `.org` replaces the base of a section that instructions were generated for, once `.align 0` or a negative reservation has emptied it |
| `MCSetLoadsConstant` | `SetLoadsConstant` | `set` of a constant with the top bit of a 32-bit part set loads another constant |
| `MCEveryInput` | `EveryInput` | every turn of the loop over inputs loads the first one, so the other inputs are not assembled |

*Bounds.* Two sections and two labels are enough for the order hazards: every
one of them is between *a* section and *another*, or between *a* reference and
*its* label; their map order and order of appearance can be opposite. What makes
a section shorter, and what describes a single symbol, needs one label. Three
sections are needed in `MCLayout`, for an automatic run behind a pinned section
and for a flag that survives one section. 2^32 and 2^64 are scaled down
(`MCMod32`, `MCMod64`) above every size and address of the runs but the `.org`
that is meant to be beyond, so that only negative differences and counts, and
what is measured from there, wrap, as in the program. In `Encoding` the carry from one part into
the next depends only on the top bit of the lower part and on a part being all
ones, which the scaled widths have. The cut of a distance depends only on which
multiple of `Mod64` it is near. `ElfImage` has no arithmetic but sums.

What a property says of a section ends when a statement makes that section
shorter (`shrunk`): work and labels then refer to what is no longer there.
`SiteOwnsItem`, `ReferencesResolved`, `LabelsAttachToNextItem` and
`SizesMeasureData` speak of the other sections, `CompleteProgramsFinish` of
programs that do no such thing, and `ImplementsLinker` is checked with
operands that make nothing shorter (`MCLabels`). `BaseFixedByCode`,
`LabelsAccountedFor`, `AutomaticSectionsDisjoint` and `LastTypeWins` hold
whatever happens to sizes.

*Excluded by the properties themselves*, because the code is known to differ
there (the runs above and the next section): `TokensAreTheWords` speaks of texts
without an escaped backslash or a comment right behind a word, and of the line of
a token only if no string before it contains a newline; `LiLoads` of constants a
pair of instructions reaches, `PartsAddUp` of values no part of which, below the
top one, is sign-extended or carries into its sign; `FarcallReachesLowHalf` of
addresses with bit 11 clear; `JumpsReachOrStop` of labels less than 2^63 away;
`RegistersInOrder` of what is no 64-bit form of `add`..`xor`, and of loads and
stores without an offset; `AcceptedIsArithmetic` of numbers that are `int`s and
of no more than one number behind a `-` that is an operator; `IncludesAreInline`
of a single input; `SymbolsAreFound` and `PartsTileFile` of programs that fit in
the reserved space.

**Fairness.** `WF_vars(Finish)`: once the last token is consumed, `finish` is
straight-line code on the only thread; it waits for nothing. No fairness is
assumed of statements, since the program text may end anywhere. Under it
`FinishEnds` and `CompleteProgramsFinish` say that every program comes to an
end, and that a program whose symbols are declared, without jumps, is completed.
`Expressions` assumes the same of the splitter and the evaluator, two loops on
that thread: `ExpressionEnds` says that whatever the text both stop, as every
branch consumes a character or a token.

## Where code and documents differ

Besides the findings that runs check, the models show the following. Each is a
place where a definition follows the code and a document or comment says
something else, or nothing; the properties above are stated so that they hold
beside them.

- `db` and `resb` output without taking the queued labels
  (`src/src/pseudo_ops.cpp:38-51`); `.finish_labels` is documented for labels
  that "aren't directly attached to data" (`src/README.md:165`).
- `was_readonly` is never set (`src/src/assemble.cpp:98`), and `was_executable`
  only by a section with a chosen address (`:106`), so read-only and automatic
  code sections can share a page with what follows; the comment at `:93-94`
  says "Page-realign when going from executable to non-executable, and readonly
  to writable".
- `.size` of a label with nothing behind it is -4 modulo 2^32
  (`src/src/directive.cpp:67`), not "the difference between the current position
  and the given label" (`src/README.md:173`).
- A second `.org` in an empty section replaces the base
  (`src/src/directive.cpp:37-39`); "You can only set the base address for each
  section once" (`src/README.md:157`).
- `li` of 0x7FFFF800 to 0x7FFFFFFF carries into the sign of LUI, so the register
  holds the constant less 2^32 (`src/src/opcodes.cpp:40`); "Loads integer constant
  into register" (`src/README.md:80`). `laq` loses what `set` loses
  (`src/src/opcodes.cpp:152-155`); "Loads up to 128-bit label"
  (`src/README.md:86`). `la` takes distances from 2^31 - 2048 on for near and
  lands 4 GB below (`:130`); `farcall` misses by 4096 for addresses with bit 11
  set (`:349`), although its register "is used to build the full address"
  (`src/README.md:97`).
- The distance of a jump is an `int64_t` before its bounds are checked
  (`src/src/opcodes.cpp:10`, `:364`, `:419`): a label 2^64 and a little away is
  taken for one nearby, without "Out of bounds address for jump" (`:17`).
- With registers, `add`..`xor` with `d` keep the opcode of the immediate form
  (`src/src/opcodes.cpp:448`), which has no second register; "All ops support a
  3-register mode" (`src/README.md:138`).
- Stores take the base register first (`src/src/opcodes.cpp:247`), against
  `sq a0, sp+0     ;; Save A0` (`src/README.md:55`); loads take an offset only
  before the base (`:188`), against `lq [dst], [reg]+offset` (`:87`).
- `ldu` and every use of `system` throw (`src/src/opcodes.cpp:233`, `:630`),
  though `src/README.md:90` lists `ldu`.
- Nobody looks at the result of `file_writer` (`src/src/elfwriter.cpp:164`, `:201`,
  `src/src/main.cpp:62`), so a program whose output could not be written ends
  without an error.
- A reservation takes any constant, so a negative one makes the section shorter
  (`src/src/pseudo_ops.cpp:49`, `src/src/section.cpp:29`), and so do `.align 0`
  and `.align -8` (`:33`); labels, scheduled work and attributes stay.
- Newlines inside strings are not counted (`src/src/raw_split.cpp:44-56`), so the
  line numbers of messages behind them are too small.
- An escaped backslash starts another escape (`src/src/raw_split.cpp:45`), a
  comment right behind a word joins it with the next line (`:65`), and `1-1` is
  rejected although signs split words to allow "building constant chains"
  (`:74`).
- Program headers written after the vector outgrew its reserve are lost
  (`src/src/elfwriter.cpp:114`), and the binding of a global symbol is computed
  and not used (`:161`), so every symbol is local.
- A relative `.include` that is not found in the working directory is looked up
  where `realpath` of the including file's name, seen from the working directory,
  points (`src/src/main.cpp:40`, `src/src/directive.cpp:28`), not where that file
  was found. `Driver` has this lookup, and `IncludesAreInline` uses it.

## Proofs

The theorems hold for every value of the constants that satisfies the named
assumptions (`SectionsAssumption`, `LayoutAssumption`, `ProgramAssumption`,
`LayoutInputsAssumption`): any set of section names and labels, any sizes
and addresses, any counts an unsigned word holds, `.align` operands that are 0, one
of the listed powers of two or the negative of one, any word that is a multiple of
8192, any number of statements; of `Encoding` (`WidthAssumption`,
`OperandAssumption`), any even widths of immediates, any constants and
addresses of four words, and any registers to begin with; of `Instructions`
(`OperandsAssumption`), any registers, constants and distances, and any number
of operands; of `ElfImage` (`SizeAssumption`, `ProgramsAssumption`), any number
of sections and symbols, any sizes, addresses and lengths of names, and any
reserve; of `Driver` (`FilesAssumption`, `DepthAssumption`), any files, includes
and command lines, and any depth of nesting; of `Splitter` (`HalfDigitsAssumption`,
`TextsAssumption`, `IntBoundAssumption`), any texts, any number of hexadecimal
digits in a half, an `int` of any width that fits in it, and any reserved names.

| Theorem | Property | Argument |
|---|---|---|
| `LayoutTypeCorrect`, `LayoutDisjoint`, `LayoutAligned`, `LayoutCodePages` | the invariants of `MCLayout` | `LoopInv` |
| `LayoutKeepsBases` | `SetBasesKept` | `KeepBase` writes the address it read |
| `TypeCorrect`, `SectionsDisjoint` | `TypeOK`, `AutomaticSectionsDisjoint` | `AsmInv` |
| `SymbolsAreFixed` | `SymbolsNeverMove` | per action, `WithSymbols` keeps what is known |
| `LabelsAreKept` | `LabelsAccountedFor` | `LabelInv` |
| `SitesStay`, `ReferencesAreResolved` | `SiteOwnsItem`, `ReferencesResolved` | `ReferenceInv`, `PlacedInv`; while no section is made shorter |
| `LabelsAttach` | `LabelsAttachToNextItem` | `AttachInv`; while no section is made shorter |
| `CodeKeepsBase` | `BaseFixedByCode` | `ItemsNeverOverlap`, `CodeHasSize`: what is left of an instruction is within the section |
| `TypesAreLast` | `LastTypeWins` | `TypesInv` |
| `SizesAreMeasured` | `SizesMeasureData`, while every section is shorter than 2^32 | `SizesInv`; while no section is made shorter |
| `AssemblerImplementsLinker` | `ImplementsLinker` | step by step under `ReferenceInv`, `EarlyUnpatched`, `ReferencesSingle`; of behaviours that make no section shorter |
| `MachineInvariant` | (types of `Encoding`) | every handler outputs instructions the machine has |
| `ConstantsAreLoaded` | `LiLoads` | `SmallInv`: `Carry`, `PairAdds` |
| `LaReachesItsLabel` | `LaLoadsReachable` | `LaInv`: `SignedNarrow`, `ReachedByParts` |
| `FarcallGoesToItsLabel` | `FarcallReachesLowHalf` | `FarcallInv`: `NothingToRound`, `LowHalfIsInReach` |
| `PartsAreSummed` | `PartsAddUp` | `SmallInv`, `LongInv`: `LaqIs`, `NothingAboveIsZero` |
| `StatementInvariant` | (of `Instructions`) | the output is one form of the handler, patched once; done only when it took every operand |
| `BranchGoesToItsLabel` | `BranchesReach` | `BranchFieldsHold`: four fields are the distance modulo 2^13 |
| `JumpGoesToItsLabel`, `CallJumpsByItsConstant` | `JumpsReachOrStop`, `ConstantCallsReach` | `JumpFieldsHold` |
| `OffsetIsDecoded` | `OffsetsSurvive` | `AcceptedConstant`, `OffsetFieldsHold` |
| `RegistersAreInOrder` | `RegistersInOrder` | `RegisterCases`, `ImmediateCases`, `FunctionCases` |
| `ElfInvariant` | (of `ElfImage`) | one lemma per step; induction on sums |
| `SymbolsFollowTheHeaders` | `SymbolsAreFound` | `ElfInv`: `FileRight`, `OneAtEach` |
| `SegmentsAreRightOrMissing` | `SegmentsRightOrMissing` | `ElfInv`: `Placeable` |
| `PartsAreDisjoint` | `PartsTileFile` | `ElfInv`: `Headers`; `PartsCounted` |
| `DriverInvariant` | (of `Driver`) | one lemma per step; induction on concatenations |
| `IncludesInlined` | `IncludesAreInline` | `DriverInv`: `StackInv`, `SoFar` |
| `LateFailure` | `LateFailureIsGlobal` | `WrittenInv`: what was written when `main` has come to a phase |
| `HexadecimalIsPositional` | `HexIsPositional` | `SplitInv`; the digits of a concatenation (`PositionalSplit`) |
| `WordsBecomeTokens` | `TokensAreTheWords` | `WordsInv`: where in which word the loop is |
| `OneOperatorJoins` | `OneOperatorJoinsAll` | `JoinInv`: what the tokens taken so far make |
| `LowHalvesAreIntegers` | `LowHalfIsInteger` | `LowInv`; congruence modulo `Half` |
| `AcceptedOperandsAreArithmetic` | `AcceptedIsArithmetic` | `WordsInv`, `JoinInv`, `LowInv`: `EndsAre`, `MinusesAre`, `WordCombines` |

*The loop.* The layout properties are not inductive: that a new section clears
the ones before it depends on the running address. `LoopInv` adds
that the running address clears everything since the last restart, is on the
granule, that only pinned or visited sections have an address (so `KeepBase`
meets pinned sections only), and that `wasExecutable` remembers a pinned code
section for as long as nothing but code followed. The arithmetic it needs is
in `AlignUpBounds`, `AlignUpMultiple`, `AlignUpPageGranule`.

*The assembler.* Types need the loop's invariant, because the loop runs inside
`finish`. `AsmInv` says that until the loop starts its locals are as they are
initialised and exactly the pinned sections have an address, and that `LoopInv`
holds from then on; `LoopStarts` bridges the two.

*References.* `ReferencesResolved` speaks of the end only. `ReferenceInv` says
why it comes about: every reference is *pending* (its work is in the schedule of
its label) or *done* (its location holds the address of its label); every piece
of patching work has an item of its kind that starts at its location; items are
not empty and refer to one label. With `ItemsDisjoint` (items never overlap
nor leave their section, `Truncate` included: the lemma `ItemsNeverOverlap`) two
items cannot start at the same location (`SameLocation`), so no other work
overwrites what is done, and with `SymbolsStay` and the base addresses fixed while patching, what is done
stays right. `PlacedInv` adds that a symbol's section exists, and that every
section that exists has an address once the loop is over.

*Symbols.* `LabelsAttachToNextItem` speaks of known labels; `AttachInv` adds
that every *queued* label was declared in its section with nothing but `db` and
`resb` behind it, and that a known label's offset is within the section, so no
later item can be in front of it. For that a statement is first reduced to one
of five shapes (`StatementShape`): an item that takes the labels, bytes that do
not, padding, nothing, or a label. Statements that make a section shorter
(`Back`) are apart: they add to `shrunk` (`BackShortens`), which only grows
(`ShrunkStays`), so invariants that speak of other sections, or of the behaviours
with `shrunk = {}`, are kept by the other shapes alone. `CodeHasSize` says that a
section that holds some of an instruction is not empty, which is what `.org`
looks at. `TypesInv` says that the type the
program gave a symbol last is either what the last work on it that sets a type
will set, or, if no such work is left, what it has; running the first piece of
work moves from one case to the other only when that was the last. `SizesInv`
says that the work of a `.size` owns a constant in front of which the section
ended where the work says (`OutputAt`), and that a symbol is inside no item
(`OutsideItems`): what ends before it stays before it, as everything is appended
(`Grows`). The constant has four bytes, so its value is the distance only while
sections are shorter than `Mod32` (`Short`); in the runs they always are.

*The refinement.* `Linker` binds labels, collects references, places sections
and resolves. A reference is an instruction item that refers to a label; its
value is what was patched at the item's start. Statements, `FlushSection` and
`ResolveSection` are `Read` (or stutter), `StartPatching` is `Place`,
`PatchInstruction` is `Resolve`, `Finished` is `Close`. What makes the steps
match is in three invariants: work on a reference owns its item (`ReferenceInv`),
nothing is patched before addresses are final (`EarlyUnpatched`), a position
holds one reference (`ReferencesSingle`). That work on `.size` stores into the
same map but never into an instruction follows from `SameLocation`.

*Wide values.* The properties of `Encoding` speak of the end of a run. What holds
on the way is stated by what is *left to run* (`Ahead`), not by the pc, because
the same part of a value takes one instruction or two, with a shift or without.
`MachineInv` keeps the code what the statement assembled to. For each statement
one invariant lists its stages: what is left, and what the register holds then,
modulo the width of a register (`SmallInv`, `LaInv`, `FarcallInv`, `LongInv`).
Underneath is arithmetic for divisors that are not numbers: `Signed` is the one
representative of its residue in range (`SignedUnique`), so cutting a difference
to 64 bits loses nothing of one that 32 bits hold (`SignedNarrow`); the upper
immediate is exactly what rounding to the nearest multiple leaves (`Carry`), and
the two immediates add up to the value unless that carries into the sign
(`PairAdds`). `LaqIs` says that the offsets 0, 8, 24 and 40 that `laq` patches
are where its four pairs start; `NothingAboveIsZero`, that a shift which `set`
leaves out would have moved a 0.

*Words.* The properties of `Instructions` speak of statements that are done, and
`StatementInv` says how they came to be: the output is that of one form the
handler has for these operands (forms depend on the statement only, `SameForms`),
patched if and only if the statement named a label, and `index` passed every
operand, so an operand that no form asked for cannot have been dropped. The rest
is per handler (`FormsAre`): where a form has its constant (`AcceptedConstant`;
no other operand can be one, as `index` is past the last), which operands are
registers, and that the fields a value is split over put together again are the
value, by writing it as a sum of its fields (`BranchFieldsHold`,
`JumpFieldsHold`, `OffsetFieldsHold`). `StatementInv` is an invariant of the
instance of `MCInstructions` too.

*The file.* `ElfInv` says how far the writer is (`Reached`: how many names,
strings, records and outputs there are in this phase) and what holds then
(`Built`): the vector ends where the sizes of all that say (`End`), its chunks
follow one another (`Tiled`), every name and record is at the position its
offset says (`Contents`, `Offsets`), and, unless the vector outgrew its reserve,
the headers are those of what was added (`Headers`). A program header is empty
or right whether the vector was reallocated or not (`Placeable`), because it is
filled in before the output is appended. `Fits` speaks of the end of the file;
`FitsMeans` makes it a bound on every earlier end, so nothing is stale where a
header is still to be filled in. Two names cannot be at one position, as a chunk
that is not a section's output is not empty (`OneAtEach`); hence a reader finds
one name and one record. Positions are sums of sizes over names and sections,
which `SumOf` computes by recursion. Induction is over sets of numbers here
(`SetInduction`, from the well-foundedness of `<`): the numbers up to which a
sum exists (`SumsTo`), is unique (`Agree`) or grows (`AtLeast`) are all of them.
`ElfInv` is an invariant of the instance of `MCElfImage` too.

*Includes.* `IncludesAreInline` compares the end of a run with the text that
the first input stands for (`Expansion`, by depth: a function of the files and of
the directories by which they were named). `DriverInv` says it of the way there.
The active calls of `assemble` are the saved cursors, moved up by one, and the
cursor itself (`Frame`); each is within the text of a file, and in the file that
the statement in front of the cursor around it includes (`StackInv`, `Calls`).
What was read before the current call is the concatenation, from the outermost
call inwards, of what each read up to its `.include` (`Around`), and what was
output, declared and made global is what `SoFar`, that and the current call's own
part, asks for. `.include` adds a call that read nothing yet; at the end of a
call what it read is its whole text, which is what the `.include` it came from
stands for one level up (`BeforeAll`, `EndInclude`). Both rest on
`FlattenAppend`: the library defines `FlattenSeq` by recursion over its
argument, so it is first shown to be the last of its own partial concatenations
(`FlattenIs`). `Expansion` is a recursive function too; that it has the values
its definition asks for is `ExpansionIs`. `DriverInv` is an invariant of the
instance of `MCDriver` too.

*Digits.* `SplitInv` says that every token is what `parse` makes of a word of the
text. A word behind `0x` with more digits than a half is read in two parts, and
`PositionalSplit` says that the value of the digits of a concatenation is that of
the first part times `Half`, plus that of the second. Values of digits and powers
of 16 are recursive functions over an interval; that a function which takes such
steps exists (`StepsExist`) and is the only one (`SameSteps`) is shown once, by
`SetInduction`.

*Characters.* `TokensAreTheWords` compares the tokens of a whole text with words
that are found from positions alone, without the flags of the loop, by functions
that recur towards the *end* of the text (`WordsFrom`, `WordEnd`, `StringEnd`,
`Contents`). `StepsBackExist` and `SameStepsBack` are the counterparts of
`StepsExist` and `SameSteps` for those. `WordsInv` says where the loop is
(`Reading`): between words, in a comment, in a word before its quote, in a string
or behind a backslash in one; the tokens are the first words of the text
(`AreWords`), the words from here on are the others (`Rest`), `word` is the
contents of the current word up to here, and the end of the word is the one that
the function has at this character. Two facts connect positions with flags: a
position between words, or in a word in front of its quote, is in no string
(`OutsideRest`, `OutsideWord`), so there is no backslash there (`BackslashInside`)
and a newline there is counted; and `Contents` of a longer word is that of the
shorter one with the character appended (`ContentsNext`), although it recurs from
the other end. What the property excludes is used twice: a comment right behind a
word (`PlainNoComment`), and a backslash behind a backslash (`NoTwins`). There is
one lemma per action (`SeparateReads` and so on). `WordsInv` is an invariant of
the instance of `MCExpressions` too.

*Operands.* `JoinInv` says, for a call of `resolve_constants` that goes on, what
the tokens it took are: constants and operators only (`Prefix`), `ops` the one
operator among them, in front of every constant but the first (`OneOperator`),
`negated` whether an odd number of `~` followed the last constant (`Odd`), and
`sum` what `Joined` asks for up to here (`ValueTo`). The function that `Joined`
defines by recursion is carried along, a position longer with every token, so
that it exists needs no induction of its own. `LowInv` does the same for the
integers of `LowHalfIsInteger`: `sum` is congruent to their sum, difference or
product modulo `Half`, as `Full` is a multiple of it (`WrappedIs`), as the sign of
a constant changes it by a multiple (`SignedIs`), and as the three operators keep
congruence (`CongruentResults`). That constants are numbers is `ConstantTyped`.

*Text to value.* `AcceptedIsArithmetic` needs no invariant of its own: it follows
from the three above once the arithmetic that is read character by character is
told word by word. In a text of digits, signs and spaces no character is
excluded by `TokensAreTheWords` (`AdditiveReady`), every character but a space is
in a word (`WordsCover`), and behind its first character a word has digits only
(`WordRuns`). So numbers end where words end that end in a digit (`EndsAre`),
start behind the sign of such a word (`NumberStarts`), and the minus signs in
front of a number are its own and that of a word that is a sign alone right
before it (`MinusesAre`, `MinusParity`); hence what a word adds to the
arithmetic (`WordAdds`). What parse makes of a word follows from its characters
(`SignParsed`, `NumberParsed`), an `int` survives `atoi` (`AtoiIs`), and the
accepted operands are a number alone, or a number, a sign and more numbers
(`ShapeIs`). `WordCombines` says that each of these adds what `LowInv` says it adds
to the sum; here the exclusion is used, that behind a `-` only one number
follows (`ThreeNumbers`). That the two modules mean the same half, 16^n and
2^4n, is `HalvesAgree`.

Model-checked only: the liveness properties `FinishEnds`,
`CompleteProgramsFinish` and `ExpressionEnds`, which are beyond the prover. Every
other property of a passing run is a theorem.

## Not modelled

- The bytes of constants and strings (`dq` outputs the low 64 bits of its
  constant only), beyond their length and alignment.
- The 128-bit wrap of addresses in `Assembler`, the operands of `.align` that are
  neither 0 nor one of `PowersOfTwo` nor the negative of one, and the bytes that
  overlapping patches leave in a section that was made shorter. That memory runs
  out is a failure of a statement (`NoRoom`) in `Assembler` and a crash of the
  writers in `Driver`; `ElfImage` has no such step.
- Spellings that `stoull` itself accepts behind `0x` (a sign, spaces, another
  `0x`), and the tables of names, which are constants of `Splitter`.
- The formats of `rv32i_instr.hpp` that no handler uses (atomics, floating
  point, compressed fields).
- The constant fields of the ELF headers (identification, machine, entry sizes,
  alignments).
- Verbose messages and hexadecimal printing (`hex128.cpp`).

## What is left

- Data bytes: a model of what `db` to `dq` and the strings put into the output,
  and of `WriteBin` as the concatenation of sections.

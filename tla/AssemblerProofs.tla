-------------------------- MODULE AssemblerProofs --------------------------
(***************************************************************************)
(* Theorems about the assembler, for every program over any set of labels  *)
(* and sections, every alignment, size and address, and any number of      *)
(* statements: types, the layout that finish computes, the items of a      *)
(* section, and then labels and references: a symbol that is known does    *)
(* not move, a label that is declared is not lost, the item a piece of     *)
(* scheduled work was captured for is still there when the work runs, and  *)
(* when finish returns every reference holds the address of its label.     *)
(* Then about what a program's text decides: the position a label stands   *)
(* for, the type a symbol ends with, the base address of a section that    *)
(* holds code, and what .size stores.  At last that the assembler          *)
(* implements Linker: every behaviour of a program that makes no section   *)
(* shorter is, through the mapping of AssemblerLinks, one of Linker.       *)
(*                                                                         *)
(* Those about work and positions are for programs of which no statement   *)
(* makes a section shorter (shrunk = {}): work that was scheduled for what *)
(* was removed would be run on what took its place.                        *)
(***************************************************************************)
EXTENDS Assembler, AssemblerLinks, BaseResolutionProofs

-----------------------------------------------------------------------------
(***************************************************************************)
(* Type correctness                                                        *)
(***************************************************************************)

LEMMA PositionType ==
  ASSUME TypeOK
  PROVE  Position \in Nat /\ current \in SectionNames
BY DEF TypeOK, LayoutTypeOK, Position

LEMMA ProgramTypes ==
  /\ Mod64 \in Nat \ {0} /\ MaxSize \in Nat
  /\ Counts \subseteq Nat /\ Alignments \subseteq 0 .. Mod64
<1>1. Mod64 \in Nat /\ Mod64 > 8192 /\ Counts \subseteq 0 .. (Mod64 - 1)
  BY ProgramAssumption DEF ProgramAssumption
<1>2. Alignments \subseteq {0} \cup PowersOfTwo \cup {Mod64 - p : p \in PowersOfTwo}
  BY ProgramAssumption DEF ProgramAssumption
<1>3. \A p \in PowersOfTwo : p \in Nat /\ 1 <= p /\ p <= 4096
  BY DEF PowersOfTwo
<1>4. \A a \in Alignments : a \in 0 .. Mod64
  <2> TAKE a \in Alignments
  <2>1. a = 0 \/ a \in PowersOfTwo \/ \E p \in PowersOfTwo : a = Mod64 - p
    BY <1>2
  <2>2. CASE a = 0
    BY <1>1, <2>2
  <2>3. CASE a \in PowersOfTwo
    <3>1. a \in Nat /\ a <= 4096
      BY <1>3, <2>3
    <3>2. QED
      BY <1>1, <3>1
  <2>4. ASSUME NEW p \in PowersOfTwo, a = Mod64 - p PROVE a \in 0 .. Mod64
    <3>1. p \in Nat /\ p <= 4096
      BY <1>3
    <3>2. QED
      BY <1>1, <2>4, <3>1
  <2>5. QED
    BY <2>1, <2>2, <2>3, <2>4
<1>5. QED
  BY <1>1, <1>4 DEF MaxSize

LEMMA ProgramLengths ==
  /\ CodeLengths \subseteq Nat \ {0} /\ Lengths \subseteq Nat
  /\ Widths \subseteq Nat \ {0}
  /\ \A form \in Forms : form.words \in Nat \ {0} /\ form.patched \in Nat
<1>1. CodeLengths \subseteq Nat \ {0} /\ Lengths \subseteq Nat
  BY ProgramAssumption DEF ProgramAssumption
<1>2. Widths \subseteq {2, 4, 8, 16} /\ Forms \subseteq ReferenceForms
  BY ProgramAssumption DEF ProgramAssumption
<1>3. \A form \in ReferenceForms : form.words \in Nat \ {0} /\ form.patched \in Nat
  BY DEF ReferenceForms
<1>4. QED
  BY <1>1, <1>2, <1>3

LEMMA OutputLabelsType ==
  ASSUME TypeOK, NEW at \in Nat, OutputLabels(at)
  PROVE  /\ DOMAIN lookup' \subseteq Labels
         /\ lookup' \in [DOMAIN lookup' -> Symbol]
         /\ queue' \in [SectionNames -> SUBSET Labels]
<1>1. queue[current] \subseteq Labels /\ current \in SectionNames
  BY DEF TypeOK
<1>2. DOMAIN lookup' = DOMAIN lookup \cup queue[current]
  BY DEF OutputLabels, WithSymbols
<1>3. \A l \in DOMAIN lookup' : lookup'[l] \in Symbol
  BY <1>1 DEF TypeOK, Known, OutputLabels, WithSymbols, Symbol, SymbolTypes
<1>4. lookup' = [l \in DOMAIN lookup' |-> lookup'[l]]
  BY <1>2 DEF OutputLabels, WithSymbols
<1>5. queue' \in [SectionNames -> SUBSET Labels]
  BY DEF TypeOK, OutputLabels
<1>6. QED
  BY <1>1, <1>2, <1>3, <1>4, <1>5 DEF TypeOK, Known

LEMMA AddOutputType ==
  ASSUME TypeOK, NEW at \in Nat, NEW len \in Nat,
         NEW kind \in {"code", "data", "resv", "db", "resb"},
         NEW refs \in SUBSET Labels, NEW flag \in SectionFlags,
         AddOutput(at, len, kind, refs, flag)
  PROVE  /\ size' \in [SectionNames -> Nat]
         /\ flags' \in [SectionNames -> SUBSET SectionFlags]
         /\ output' \in [SectionNames -> SUBSET Item]
         /\ shrunk' \subseteq SectionNames
<1>1. len # 0 => [off |-> at, len |-> len, kind |-> kind, refs |-> refs] \in Item
  BY DEF Item
<1>2. output' \in [SectionNames -> SUBSET Item]
  <2>1. output \in [SectionNames -> SUBSET Item] /\ current \in SectionNames
    BY DEF TypeOK
  <2>2. QED
    BY <1>1, <2>1 DEF AddOutput
<1>3. QED
  BY <1>2 DEF AddOutput, TypeOK, LayoutTypeOK

LEMMA AlignedOutputType ==
  ASSUME TypeOK, NEW alignment \in Nat \ {0}, NEW len \in Nat,
         NEW kind \in {"code", "data", "resv", "db", "resb"},
         NEW refs \in SUBSET Labels, NEW flag \in SectionFlags,
         AlignedOutput(alignment, len, kind, refs, flag)
  PROVE  /\ AlignUp(Position, alignment) \in Nat
         /\ size' \in [SectionNames -> Nat]
         /\ flags' \in [SectionNames -> SUBSET SectionFlags]
         /\ output' \in [SectionNames -> SUBSET Item]
         /\ shrunk' \subseteq SectionNames
         /\ DOMAIN lookup' \subseteq Labels
         /\ lookup' \in [DOMAIN lookup' -> Symbol]
         /\ queue' \in [SectionNames -> SUBSET Labels]
<1>1. AlignUp(Position, alignment) \in Nat
  BY PositionType, AlignUpBounds
<1>2. QED
  BY <1>1, OutputLabelsType, AddOutputType DEF AlignedOutput

\* What is left of the items is inside the section.
LEMMA TruncateType ==
  ASSUME NEW items \in SUBSET Item, NEW n \in Nat
  PROVE  /\ Truncate(items, n) \subseteq Item
         /\ \A x \in Truncate(items, n) : x.off + x.len <= n
         /\ \A x \in Truncate(items, n) : \E y \in items :
              x.off = y.off /\ x.len <= y.len /\ x.kind = y.kind
<1> SUFFICES ASSUME NEW x \in Truncate(items, n)
             PROVE  /\ x \in Item /\ x.off + x.len <= n
                    /\ \E y \in items :
                         x.off = y.off /\ x.len <= y.len /\ x.kind = y.kind
  OBVIOUS
<1>1. PICK y \in items :
        /\ y.off < n
        /\ x = [y EXCEPT !.len = IF y.off + y.len <= n THEN @ ELSE n - y.off]
  BY DEF Truncate
<1>2. /\ y \in Item /\ y.off \in Nat /\ y.len \in Nat \ {0}
  BY DEF Item
<1>3. x = [y EXCEPT !.len = x.len]
      /\ x.len = IF y.off + y.len <= n THEN y.len ELSE n - y.off
  BY <1>1, <1>2 DEF Item
<1>4. x.len \in Nat \ {0} /\ x.len <= y.len /\ y.off + x.len <= n
  BY <1>1, <1>2, <1>3
<1>5. x.off = y.off /\ x.kind = y.kind /\ x.refs = y.refs
  BY <1>2, <1>3 DEF Item
<1>6. x \in Item
  BY <1>2, <1>3, <1>4 DEF Item
<1>7. QED
  BY <1>4, <1>5, <1>6

LEMMA ShortenType ==
  ASSUME TypeOK, NEW n \in Nat, NEW added \in SUBSET SectionFlags, Shorten(n, added)
  PROVE  /\ size' \in [SectionNames -> Nat]
         /\ flags' \in [SectionNames -> SUBSET SectionFlags]
         /\ output' \in [SectionNames -> SUBSET Item]
         /\ shrunk' \subseteq SectionNames
<1>1. current \in SectionNames /\ output[current] \in SUBSET Item
  BY DEF TypeOK
<1>2. Truncate(output[current], n) \subseteq Item
  BY <1>1, TruncateType
<1>3. QED
  BY <1>1, <1>2 DEF Shorten, TypeOK, LayoutTypeOK

LEMMA AllocatedType ==
  ASSUME NEW at \in Nat, NEW len \in Nat
  PROVE  Allocated(at, len) \in Nat
BY ProgramTypes, DivisionLemma DEF Allocated

LEMMA AlignedSizeType ==
  ASSUME NEW n \in Nat, NEW a \in Alignments
  PROVE  AlignedSize(n, a) \in Nat
<1>1. CASE a = 0
  BY <1>1 DEF AlignedSize, PowersOfTwo
<1>2. CASE a # 0 /\ a \in PowersOfTwo
  <2>1. a \in Nat \ {0}
    BY <1>2 DEF PowersOfTwo
  <2>2. QED
    BY <1>2, <2>1, AlignUpBounds DEF AlignedSize
<1>3. CASE a # 0 /\ a \notin PowersOfTwo
  <2>1. Mod64 - a \in Nat
    BY ProgramTypes
  <2>2. AlignedSize(n, a) \in {Mod64 - a, 0}
    BY <1>3 DEF AlignedSize
  <2>3. QED
    BY <2>1, <2>2
<1>4. QED
  BY <1>1, <1>2, <1>3

\* A reservation that does not wrap outputs some number of bytes.
LEMMA ReserveOutputs ==
  ASSUME TypeOK, NEW w \in Widths, NEW times \in Counts, Reserve(w, times)
  PROVE  \E len \in Nat : AlignedOutput(w, len, "resv", {}, "resv")
<1> DEFINE at == AlignUp(Position, w)
           n  == Allocated(at, w * times)
<1>1. w \in Nat \ {0} /\ times \in Nat
  BY ProgramTypes, ProgramAssumption DEF ProgramAssumption
<1>2. at \in Nat
  BY <1>1, PositionType, AlignUpBounds
<1>3. w * times \in Nat
  BY <1>1
<1>4. n \in Nat
  BY <1>2, <1>3, AllocatedType
<1>5. n >= at /\ AlignedOutput(w, n - at, "resv", {}, "resv")
  BY DEF Reserve
<1> HIDE DEF at, n
<1>6. n - at \in Nat
  BY <1>2, <1>4, <1>5
<1>7. QED
  BY <1>5, <1>6

LEMMA ReserveBytesOutputs ==
  ASSUME TypeOK, NEW times \in Counts, ReserveBytes(times)
  PROVE  \E len \in Nat : AddOutput(Position, len, "resb", {}, "resv")
<1> DEFINE n == Allocated(Position, times)
<1>1. n \in Nat /\ Position \in Nat
  BY ProgramTypes, PositionType, AllocatedType
<1>2. n >= Position /\ AddOutput(Position, n - Position, "resb", {}, "resv")
  BY DEF ReserveBytes
<1> HIDE DEF n
<1>3. n - Position \in Nat
  BY <1>1, <1>2
<1>4. QED
  BY <1>2, <1>3

\* A statement that makes its section shorter.
Back ==
  \/ \E w \in Widths, times \in Counts : ReserveBack(w, times)
  \/ \E times \in Counts : ReserveBytesBack(times)
  \/ \E a \in Alignments : AlignBack(a)

LEMMA BackShortens ==
  ASSUME TypeOK, Back
  PROVE  /\ \E kind : Consume(kind)
         /\ SameSections /\ UNCHANGED <<phase, schedule, historyVars>>
         /\ (\E at \in Nat : OutputLabels(at)) \/ KeepLabels
         /\ \E n \in Nat : \E added \in SUBSET SectionFlags : Shorten(n, added)
<1>1. Position \in Nat
  BY PositionType
<1>2. {"resv"} \in SUBSET SectionFlags /\ {} \in SUBSET SectionFlags
  BY DEF SectionFlags
<1>3. ASSUME NEW w \in Widths, NEW times \in Counts, ReserveBack(w, times)
      PROVE  /\ Consume("res") /\ SameSections
             /\ UNCHANGED <<phase, schedule, historyVars>>
             /\ \E at \in Nat : OutputLabels(at)
             /\ \E n \in Nat : Shorten(n, {"resv"})
  <2>1. w \in Nat \ {0} /\ times \in Nat
    BY ProgramTypes, ProgramAssumption DEF ProgramAssumption
  <2>2. w * times \in Nat
    BY <2>1
  <2>3. AlignUp(Position, w) \in Nat
    BY <1>1, <2>1, AlignUpBounds
  <2>4. Allocated(AlignUp(Position, w), w * times) \in Nat
    BY <2>2, <2>3, AllocatedType
  <2>5. QED
    BY <1>3, <2>3, <2>4 DEF ReserveBack
<1>4. ASSUME NEW times \in Counts, ReserveBytesBack(times)
      PROVE  /\ Consume("resb") /\ SameSections
             /\ UNCHANGED <<phase, schedule, historyVars>>
             /\ KeepLabels
             /\ \E n \in Nat : Shorten(n, {"resv"})
  <2>1. Allocated(Position, times) \in Nat
    BY <1>1, ProgramTypes, AllocatedType
  <2>2. QED
    BY <1>4, <2>1 DEF ReserveBytesBack
<1>5. ASSUME NEW a \in Alignments, AlignBack(a)
      PROVE  /\ Consume("align") /\ SameSections
             /\ UNCHANGED <<phase, schedule, historyVars>>
             /\ KeepLabels
             /\ \E n \in Nat : Shorten(n, {})
  <2>1. AlignedSize(Position, a) \in Nat
    BY <1>1, AlignedSizeType
  <2>2. QED
    BY <1>5, <2>1 DEF AlignBack
<1>6. QED
  BY <1>2, <1>3, <1>4, <1>5 DEF Back

\* Statements are read while the program is being assembled, and patch nothing.
LEMMA OnlyAssembling ==
  ASSUME Statement
  PROVE  /\ phase = "assembling" /\ phase' \in {"assembling", "failed"}
         /\ patched' = patched
         /\ phase' = "failed" => Fail
<1>1. \A kind : Consume(kind) => phase = "assembling" /\ patched' = patched
  BY DEF Consume, Reading
<1>2. Fail => patched' = patched /\ phase' = "failed"
  BY DEF Fail, contentVars
<1>3. CASE Back \/ NoRoom
  BY <1>1, <1>2, <1>3 DEF Back, ReserveBack, ReserveBytesBack, AlignBack, NoRoom, Reading
<1>4. QED
  BY <1>1, <1>2, <1>3
     DEF Back, Statement, Label, Reference, EndFunction, SizeOf, SetType, Instruction,
         DataConstant, DataByte, Reserve, ReserveBytes, Bytes, Align, FinishLabels,
         SetSection, Org, OrgTooLate, SetAttribute, Reject, Reading

LEMMA ScheduleType ==
  ASSUME TypeOK, NEW l \in Labels, NEW work \in Work, Schedule(l, work)
  PROVE  schedule' \in [Labels -> Seq(Work)]
BY DEF TypeOK, Schedule

\* A statement in the section it found is type correct if what it outputs,
\* queues and schedules is.
LEMMA StatementCloses ==
  ASSUME TypeOK, NEW kind, Consume(kind), SameSections, UNCHANGED phase,
         size' \in [SectionNames -> Nat],
         flags' \in [SectionNames -> SUBSET SectionFlags],
         output' \in [SectionNames -> SUBSET Item],
         shrunk' \subseteq SectionNames,
         DOMAIN lookup' \subseteq Labels,
         lookup' \in [DOMAIN lookup' -> Symbol],
         queue' \in [SectionNames -> SUBSET Labels],
         schedule' \in [Labels -> Seq(Work)],
         declared' \in [Labels -> SUBSET Location],
         typed' \in [Labels -> SymbolTypes]
  PROVE  TypeOK'
<1>1. /\ UNCHANGED <<order, base, hasBase, pinned, idx, baseAddr>>
      /\ UNCHANGED <<wasExecutable, wasReadonly, current, patched, flushIdx>>
  BY DEF SameSections, Consume, cursorVars
<1>2. statements' \in 0 .. MaxStatements
  BY ProgramAssumption DEF Consume, Reading, TypeOK, ProgramAssumption
<1>3. LayoutTypeOK'
  BY <1>1 DEF TypeOK, LayoutTypeOK
<1>4. QED
  BY <1>1, <1>2, <1>3 DEF TypeOK, Known

\* A statement that outputs an item, and may schedule work on it.
LEMMA OutputStatementType ==
  ASSUME TypeOK, NEW statement, Consume(statement), SameSections, UNCHANGED phase,
         NEW alignment \in Nat \ {0}, NEW len \in Nat,
         NEW kind \in {"code", "data", "resv", "db", "resb"},
         NEW refs \in SUBSET Labels, NEW flag \in SectionFlags,
         AlignedOutput(alignment, len, kind, refs, flag),
         schedule' \in [Labels -> Seq(Work)],
         UNCHANGED historyVars
  PROVE  TypeOK'
<1>1. /\ declared' \in [Labels -> SUBSET Location]
      /\ typed' \in [Labels -> SymbolTypes]
  BY DEF historyVars, TypeOK
<1>2. /\ size' \in [SectionNames -> Nat]
      /\ flags' \in [SectionNames -> SUBSET SectionFlags]
      /\ output' \in [SectionNames -> SUBSET Item]
      /\ shrunk' \subseteq SectionNames
      /\ DOMAIN lookup' \subseteq Labels
      /\ lookup' \in [DOMAIN lookup' -> Symbol]
      /\ queue' \in [SectionNames -> SUBSET Labels]
  BY AlignedOutputType
<1>3. QED
  BY <1>1, <1>2, StatementCloses

\* A statement that outputs bytes without labels.
LEMMA BytesStatementType ==
  ASSUME TypeOK, NEW statement, Consume(statement), SameSections, UNCHANGED phase,
         NEW len \in Nat,
         NEW kind \in {"code", "data", "resv", "db", "resb"}, NEW flag \in SectionFlags,
         AddOutput(Position, len, kind, {}, flag), KeepLabels,
         UNCHANGED <<schedule, historyVars>>
  PROVE  TypeOK'
<1>1. /\ declared' \in [Labels -> SUBSET Location]
      /\ typed' \in [Labels -> SymbolTypes]
      /\ schedule' \in [Labels -> Seq(Work)]
      /\ DOMAIN lookup' \subseteq Labels
      /\ lookup' \in [DOMAIN lookup' -> Symbol]
      /\ queue' \in [SectionNames -> SUBSET Labels]
  BY DEF historyVars, TypeOK, Known, KeepLabels
<1>2. /\ size' \in [SectionNames -> Nat]
      /\ flags' \in [SectionNames -> SUBSET SectionFlags]
      /\ output' \in [SectionNames -> SUBSET Item]
      /\ shrunk' \subseteq SectionNames
  BY PositionType, AddOutputType
<1>3. QED
  BY <1>1, <1>2, StatementCloses

\* A statement that outputs nothing.
LEMMA SilentStatementType ==
  ASSUME TypeOK, NEW statement, Consume(statement), SameSections, UNCHANGED phase,
         NoOutput, KeepLabels,
         schedule' \in [Labels -> Seq(Work)],
         typed' \in [Labels -> SymbolTypes], UNCHANGED declared
  PROVE  TypeOK'
<1>1. /\ declared' \in [Labels -> SUBSET Location]
      /\ DOMAIN lookup' \subseteq Labels
      /\ lookup' \in [DOMAIN lookup' -> Symbol]
      /\ queue' \in [SectionNames -> SUBSET Labels]
      /\ size' \in [SectionNames -> Nat]
      /\ flags' \in [SectionNames -> SUBSET SectionFlags]
      /\ output' \in [SectionNames -> SUBSET Item]
      /\ shrunk' \subseteq SectionNames
  BY DEF TypeOK, LayoutTypeOK, Known, KeepLabels, NoOutput
<1>2. QED
  BY <1>1, StatementCloses

LEMMA WidthsPositive == \A w \in Widths : w \in Nat \ {0}
BY ProgramAssumption DEF ProgramAssumption

LEMMA LabelStatementType ==
  ASSUME TypeOK, NEW l \in Labels,
         \/ Label(l)
         \/ \E form \in Forms : Reference(l, form)
         \/ EndFunction(l)
         \/ SizeOf(l)
         \/ \E t \in {"object", "func"} : SetType(l, t)
  PROVE  TypeOK'
<1>1. CASE Label(l)
  <2>1. [sec |-> current, off |-> Position] \in Location
    BY PositionType DEF Location
  <2>2. /\ declared' \in [Labels -> SUBSET Location]
        /\ typed' \in [Labels -> SymbolTypes]
        /\ queue' \in [SectionNames -> SUBSET Labels]
        /\ schedule' \in [Labels -> Seq(Work)]
        /\ DOMAIN lookup' \subseteq Labels
        /\ lookup' \in [DOMAIN lookup' -> Symbol]
    BY <1>1, <2>1 DEF Label, TypeOK, Known
  <2>3. /\ size' \in [SectionNames -> Nat]
        /\ flags' \in [SectionNames -> SUBSET SectionFlags]
        /\ output' \in [SectionNames -> SUBSET Item]
        /\ shrunk' \subseteq SectionNames
    BY <1>1 DEF Label, NoOutput, TypeOK, LayoutTypeOK
  <2>4. Consume("label") /\ SameSections /\ UNCHANGED phase
    BY <1>1 DEF Label
  <2>5. QED
    BY <2>2, <2>3, <2>4, StatementCloses
<1>2. ASSUME NEW form \in Forms, Reference(l, form) PROVE TypeOK'
  <2> DEFINE at == AlignUp(Position, 4)
             work == [kind |-> IF form.checked THEN "jump" ELSE "patch",
                      sec |-> current, off |-> at, len |-> 4 * form.patched,
                      pos |-> at, type |-> "notype"]
  <2>1. form.words \in Nat /\ form.patched \in Nat
    BY ProgramAssumption DEF ProgramAssumption, ReferenceForms
  <2>2. at \in Nat /\ current \in SectionNames
    BY PositionType, AlignUpBounds
  <2>3. work \in Work
    BY <2>1, <2>2 DEF Work, SymbolTypes
  <2>4. Schedule(l, work)
    BY <1>2 DEF Reference
  <2>5. schedule' \in [Labels -> Seq(Work)]
    BY <2>3, <2>4, ScheduleType
  <2>6. /\ Consume("ref") /\ SameSections /\ UNCHANGED phase
        /\ AlignedOutput(4, 4 * form.words, "code", {l}, "code")
        /\ UNCHANGED historyVars
    BY <1>2 DEF Reference
  <2>7. QED
    BY <2>1, <2>5, <2>6, OutputStatementType DEF SectionFlags
<1>3. CASE EndFunction(l)
  <2> DEFINE work == [kind |-> "endfunc", sec |-> current, off |-> Position,
                      len |-> 0, pos |-> Position, type |-> "func"]
  <2>1. work \in Work
    BY PositionType DEF Work, SymbolTypes
  <2>2. Schedule(l, work)
    BY <1>3 DEF EndFunction
  <2>3. schedule' \in [Labels -> Seq(Work)]
    BY <2>1, <2>2, ScheduleType
  <2>4. typed' \in [Labels -> SymbolTypes]
    BY <1>3 DEF EndFunction, TypeOK, SymbolTypes
  <2>5. QED
    BY <1>3, <2>3, <2>4, SilentStatementType DEF EndFunction
<1>4. CASE SizeOf(l)
  <2> DEFINE at == AlignUp(Position, 4)
             work == [kind |-> "size", sec |-> current, off |-> at, len |-> 4,
                      pos |-> Position, type |-> "notype"]
  <2>1. at \in Nat /\ Position \in Nat /\ current \in SectionNames
    BY PositionType, AlignUpBounds
  <2>2. work \in Work
    BY <2>1 DEF Work, SymbolTypes
  <2>3. Schedule(l, work)
    BY <1>4 DEF SizeOf
  <2>4. schedule' \in [Labels -> Seq(Work)]
    BY <2>2, <2>3, ScheduleType
  <2>5. /\ Consume("size") /\ SameSections /\ UNCHANGED phase
        /\ AlignedOutput(4, 4, "data", {l}, "data")
        /\ UNCHANGED historyVars
    BY <1>4 DEF SizeOf
  <2>6. QED
    BY <2>4, <2>5, OutputStatementType DEF SectionFlags
<1>5. ASSUME NEW t \in {"object", "func"}, SetType(l, t) PROVE TypeOK'
  <2> DEFINE work == [kind |-> "type", sec |-> current, off |-> Position,
                      len |-> 0, pos |-> Position, type |-> t]
  <2>1. work \in Work
    BY PositionType DEF Work, SymbolTypes
  <2>2. Schedule(l, work)
    BY <1>5 DEF SetType
  <2>3. schedule' \in [Labels -> Seq(Work)]
    BY <2>1, <2>2, ScheduleType
  <2>4. typed' \in [Labels -> SymbolTypes]
    BY <1>5 DEF SetType, TypeOK, SymbolTypes
  <2>5. QED
    BY <1>5, <2>3, <2>4, SilentStatementType DEF SetType
<1>6. QED
  BY <1>1, <1>2, <1>3, <1>4, <1>5

LEMMA StatementType ==
  ASSUME TypeOK, Statement
  PROVE  TypeOK'
<1>1. ASSUME NEW words \in CodeLengths, Instruction(words) PROVE TypeOK'
  <2>1. 4 * words \in Nat
    BY ProgramAssumption DEF ProgramAssumption
  <2>2. schedule' \in [Labels -> Seq(Work)]
    BY <1>1 DEF Instruction, TypeOK
  <2>3. QED
    BY <1>1, <2>1, <2>2, OutputStatementType DEF Instruction, SectionFlags
<1>2. ASSUME NEW w \in Widths, DataConstant(w) PROVE TypeOK'
  <2>1. schedule' \in [Labels -> Seq(Work)]
    BY <1>2 DEF DataConstant, TypeOK
  <2>2. QED
    BY <1>2, <2>1, WidthsPositive, OutputStatementType DEF DataConstant, SectionFlags
<1>3. CASE DataByte
  BY <1>3, BytesStatementType DEF DataByte, SectionFlags
<1>4. ASSUME NEW w \in Widths, NEW times \in Counts, Reserve(w, times) PROVE TypeOK'
  <2>1. PICK len \in Nat : AlignedOutput(w, len, "resv", {}, "resv")
    BY <1>4, ReserveOutputs
  <2>2. schedule' \in [Labels -> Seq(Work)]
    BY <1>4 DEF Reserve, TypeOK
  <2>3. QED
    BY <1>4, <2>1, <2>2, WidthsPositive, OutputStatementType DEF Reserve, SectionFlags
<1>5. ASSUME NEW times \in Counts, ReserveBytes(times) PROVE TypeOK'
  <2>1. PICK len \in Nat : AddOutput(Position, len, "resb", {}, "resv")
    BY <1>5, ReserveBytesOutputs
  <2>2. QED
    BY <1>5, <2>1, BytesStatementType DEF ReserveBytes, SectionFlags
<1>6. ASSUME NEW len \in Lengths, Bytes(len) PROVE TypeOK'
  <2>1. len \in Nat
    BY ProgramAssumption DEF ProgramAssumption
  <2>2. schedule' \in [Labels -> Seq(Work)]
    BY <1>6 DEF Bytes, TypeOK
  <2>3. QED
    BY <1>6, <2>1, <2>2, OutputStatementType DEF Bytes, SectionFlags
<1>7. ASSUME NEW a \in Alignments, Align(a) PROVE TypeOK'
  <2>1. AlignedSize(Position, a) \in Nat
    BY PositionType, AlignedSizeType
  <2>2. size' = [size EXCEPT ![current] = AlignedSize(Position, a)]
    BY <1>7 DEF Align
  <2>3. /\ size' \in [SectionNames -> Nat]
        /\ output' \in [SectionNames -> SUBSET Item]
        /\ shrunk' \subseteq SectionNames
    BY <1>7, <2>1, <2>2 DEF Align, TypeOK, LayoutTypeOK
  <2>4. /\ flags' \in [SectionNames -> SUBSET SectionFlags]
        /\ DOMAIN lookup' \subseteq Labels
        /\ lookup' \in [DOMAIN lookup' -> Symbol]
        /\ queue' \in [SectionNames -> SUBSET Labels]
        /\ schedule' \in [Labels -> Seq(Work)]
        /\ declared' \in [Labels -> SUBSET Location]
        /\ typed' \in [Labels -> SymbolTypes]
    BY <1>7 DEF Align, KeepLabels, historyVars, TypeOK, LayoutTypeOK, Known
  <2>5. QED
    BY <1>7, <2>3, <2>4, StatementCloses DEF Align
<1>8. CASE FinishLabels
  <2>1. /\ size' \in [SectionNames -> Nat]
        /\ flags' \in [SectionNames -> SUBSET SectionFlags]
        /\ output' \in [SectionNames -> SUBSET Item]
        /\ shrunk' \subseteq SectionNames
        /\ schedule' \in [Labels -> Seq(Work)]
        /\ declared' \in [Labels -> SUBSET Location]
        /\ typed' \in [Labels -> SymbolTypes]
    BY <1>8 DEF FinishLabels, NoOutput, historyVars, TypeOK, LayoutTypeOK
  <2>2. /\ DOMAIN lookup' \subseteq Labels
        /\ lookup' \in [DOMAIN lookup' -> Symbol]
        /\ queue' \in [SectionNames -> SUBSET Labels]
    BY <1>8, PositionType, OutputLabelsType DEF FinishLabels
  <2>3. QED
    BY <1>8, <2>1, <2>2, StatementCloses DEF FinishLabels
<1>9. ASSUME NEW flag \in {"execonly", "readonly"}, SetAttribute(flag) PROVE TypeOK'
  <2>1. flags' \in [SectionNames -> SUBSET SectionFlags]
    BY <1>9 DEF SetAttribute, TypeOK, LayoutTypeOK, SectionFlags
  <2>2. /\ size' \in [SectionNames -> Nat]
        /\ output' \in [SectionNames -> SUBSET Item]
        /\ shrunk' \subseteq SectionNames
        /\ DOMAIN lookup' \subseteq Labels
        /\ lookup' \in [DOMAIN lookup' -> Symbol]
        /\ queue' \in [SectionNames -> SUBSET Labels]
        /\ schedule' \in [Labels -> Seq(Work)]
        /\ declared' \in [Labels -> SUBSET Location]
        /\ typed' \in [Labels -> SymbolTypes]
    BY <1>9 DEF SetAttribute, KeepLabels, historyVars, TypeOK, LayoutTypeOK, Known
  <2>3. QED
    BY <1>9, <2>1, <2>2, StatementCloses DEF SetAttribute
<1>10. ASSUME NEW s \in SectionNames, SetSection(s) PROVE TypeOK'
  <2>1. statements' \in 0 .. MaxStatements
    BY <1>10, ProgramAssumption DEF SetSection, Consume, Reading, TypeOK, ProgramAssumption
  <2>2. /\ order' \in Seq(SectionNames)
        /\ \A i, j \in DOMAIN order' : order'[i] = order'[j] => i = j
        /\ Len(order) <= Len(order')
    <3>1. order \in Seq(SectionNames)
      BY DEF TypeOK, LayoutTypeOK
    <3>2. CASE \E i \in DOMAIN order : order[i] = s
      BY <1>10, <3>1, <3>2 DEF SetSection, TypeOK, LayoutTypeOK
    <3>3. CASE ~ \E i \in DOMAIN order : order[i] = s
      <4>1. order' = Append(order, s)
        BY <1>10, <3>3 DEF SetSection
      <4>2. /\ order' \in Seq(SectionNames) /\ Len(order') = Len(order) + 1
            /\ order'[Len(order) + 1] = s
            /\ \A i \in 1 .. Len(order) : order'[i] = order[i]
        BY <3>1, <4>1
      <4>3. \A i, j \in DOMAIN order' : order'[i] = order'[j] => i = j
        <5> SUFFICES ASSUME NEW i \in 1 .. (Len(order) + 1),
                            NEW j \in 1 .. (Len(order) + 1),
                            order'[i] = order'[j]
                     PROVE  i = j
          BY <3>1, <4>2
        <5>1. CASE i \in 1 .. Len(order) /\ j \in 1 .. Len(order)
          <6>1. i \in DOMAIN order /\ j \in DOMAIN order /\ order[i] = order[j]
            BY <3>1, <4>2, <5>1
          <6>2. QED
            BY <6>1 DEF TypeOK, LayoutTypeOK
        <5>2. CASE i = Len(order) + 1 \/ j = Len(order) + 1
          BY <3>1, <3>3, <4>2, <5>2
        <5>3. QED
          BY <3>1, <5>1, <5>2
      <4>4. QED
        BY <3>1, <4>2, <4>3
    <3>4. QED
      BY <3>2, <3>3
  <2>3. idx' \in 1 .. (Len(order') + 1)
    BY <1>10, <2>2 DEF SetSection, Consume, cursorVars, TypeOK, LayoutTypeOK
  <2>4. LayoutTypeOK'
    BY <1>10, <2>2, <2>3
       DEF SetSection, NoOutput, Consume, cursorVars, TypeOK, LayoutTypeOK
  <2>5. QED
    BY <1>10, <2>1, <2>4
       DEF SetSection, NoOutput, KeepLabels, Consume, historyVars, TypeOK, Known
<1>11. ASSUME NEW b \in Bases, Org(b) PROVE TypeOK'
  <2>1. statements' \in 0 .. MaxStatements
    BY <1>11, ProgramAssumption DEF Org, Consume, Reading, TypeOK, ProgramAssumption
  <2>2. b \in Nat
    BY ProgramAssumption DEF ProgramAssumption
  <2>3. LayoutTypeOK'
    BY <1>11, <2>2 DEF Org, NoOutput, Consume, cursorVars, TypeOK, LayoutTypeOK
  <2>4. QED
    BY <1>11, <2>1, <2>3
       DEF Org, NoOutput, KeepLabels, Consume, historyVars, TypeOK, Known
<1>12. CASE Fail
  BY <1>12 DEF Fail, layoutVars, sectionVars, cursorVars, contentVars,
               historyVars, TypeOK, LayoutTypeOK, Known, Phases
<1>13. CASE Back
  <2>1. PICK n \in Nat, added \in SUBSET SectionFlags : Shorten(n, added)
    BY <1>13, BackShortens
  <2>2. /\ size' \in [SectionNames -> Nat]
        /\ flags' \in [SectionNames -> SUBSET SectionFlags]
        /\ output' \in [SectionNames -> SUBSET Item]
        /\ shrunk' \subseteq SectionNames
    BY <2>1, ShortenType
  <2>3. UNCHANGED <<schedule, historyVars>>
    BY <1>13, BackShortens
  <2>4. /\ DOMAIN lookup' \subseteq Labels
        /\ lookup' \in [DOMAIN lookup' -> Symbol]
        /\ queue' \in [SectionNames -> SUBSET Labels]
    <3>1. CASE \E at \in Nat : OutputLabels(at)
      BY <3>1, OutputLabelsType
    <3>2. CASE KeepLabels
      BY <3>2 DEF KeepLabels, TypeOK, Known
    <3>3. QED
      BY <1>13, <3>1, <3>2, BackShortens
  <2>5. /\ schedule' \in [Labels -> Seq(Work)]
        /\ declared' \in [Labels -> SUBSET Location]
        /\ typed' \in [Labels -> SymbolTypes]
    BY <2>3 DEF historyVars, TypeOK
  <2>6. PICK kind : Consume(kind)
    BY <1>13, BackShortens
  <2>7. SameSections /\ UNCHANGED phase
    BY <1>13, BackShortens
  <2>8. QED
    BY <2>2, <2>4, <2>5, <2>6, <2>7, StatementCloses
<1>14. QED
  BY <1>1, <1>2, <1>3, <1>4, <1>5, <1>6, <1>7, <1>8, <1>9, <1>10, <1>11, <1>12, <1>13,
     LabelStatementType
     DEF Statement, Reject, OrgTooLate, NoRoom, Back

\* The steps of finish.  The phase is all that most of them change.
LEMMA PhaseStepType ==
  ASSUME TypeOK, phase' \in Phases, UNCHANGED <<layoutVars, contentVars>>
  PROVE  TypeOK'
BY DEF layoutVars, sectionVars, cursorVars, contentVars, historyVars,
       TypeOK, LayoutTypeOK, Known

LEMMA AddressType ==
  ASSUME TypeOK, NEW l \in Known
  PROVE  AddressOf(l) \in Nat
BY DEF TypeOK, LayoutTypeOK, Known, AddressOf, Symbol

LEMMA FlushType ==
  ASSUME TypeOK, FlushSection
  PROVE  TypeOK'
<1> DEFINE s == SectionOrder[flushIdx]
<1>1. s \in SectionNames
  BY ProgramAssumption DEF ProgramAssumption, FlushSection, TypeOK
<1>2. queue[s] \subseteq Labels
  BY <1>1 DEF TypeOK
<1>3. /\ DOMAIN lookup' = DOMAIN lookup \cup queue[s]
      /\ lookup' = [l \in DOMAIN lookup' |-> lookup'[l]]
  BY DEF FlushSection, WithSymbols
<1>4. \A l \in DOMAIN lookup' : lookup'[l] \in Symbol
  BY <1>2, PositionType
     DEF TypeOK, Known, FlushSection, WithSymbols, Symbol, SymbolTypes
<1>5. /\ queue' \in [SectionNames -> SUBSET Labels]
      /\ flushIdx' \in 1 .. (Len(SectionOrder) + 1)
  BY ProgramAssumption DEF ProgramAssumption, FlushSection, TypeOK
<1>6. LayoutTypeOK'
  BY DEF FlushSection, layoutVars, sectionVars, cursorVars, TypeOK, LayoutTypeOK
<1>7. QED
  BY <1>2, <1>3, <1>4, <1>5, <1>6
     DEF FlushSection, historyVars, layoutVars, sectionVars, cursorVars, TypeOK, Known

LEMMA HeadWork ==
  ASSUME TypeOK, NEW l \in Labels, NEW work, Running(l, work)
  PROVE  /\ work \in Work
         /\ l \in Known
         /\ schedule[l] # <<>>
         /\ work = schedule[l][1]
BY DEF Running, AtSymbol, TypeOK, Known

LEMMA TakeWorkType ==
  ASSUME TypeOK, NEW l \in Labels, schedule[l] # <<>>, TakeWork(l)
  PROVE  schedule' \in [Labels -> Seq(Work)]
<1>1. Tail(schedule[l]) \in Seq(Work)
  BY DEF TypeOK
<1>2. QED
  BY <1>1 DEF TakeWork, TypeOK

LEMMA StoreType ==
  ASSUME TypeOK, NEW work \in Work, NEW value \in Nat, Store(work, value)
  PROVE  /\ DOMAIN patched' \subseteq Location
         /\ patched' \in [DOMAIN patched' -> Nat]
<1> DEFINE loc == [sec |-> work.sec, off |-> work.off]
<1>1. loc \in Location
  BY DEF Work, Location
<1>2. DOMAIN patched' = DOMAIN patched \cup {loc}
  BY DEF Store
<1>3. \A x \in DOMAIN patched' : patched'[x] \in Nat
  BY DEF Store, TypeOK
<1>4. patched' = [x \in DOMAIN patched' |-> patched'[x]]
  BY <1>2 DEF Store
<1>5. QED
  BY <1>1, <1>2, <1>3, <1>4 DEF TypeOK

LEMMA SizeValueType ==
  ASSUME TypeOK, NEW l \in Known, NEW work \in Work
  PROVE  SizeValue(l, work) \in Nat
<1>1. /\ AddressOf(l) \in Nat /\ base[work.sec] \in Nat
      /\ work.pos \in Nat /\ work.off \in Nat
  BY AddressType DEF Work, TypeOK, LayoutTypeOK
<1>2. Mod32 \in Nat \ {0}
  BY ProgramAssumption DEF ProgramAssumption
<1>3. \A x \in Int : x % Mod32 \in Nat
  BY <1>2, DivisionLemma
<1>4. QED
  BY <1>1, <1>3 DEF SizeValue

\* Work leaves everything but the symbol, the patched values and the schedule.
LEMMA PatchingCloses ==
  ASSUME TypeOK, DuringPatching,
         DOMAIN lookup' \subseteq Labels,
         lookup' \in [DOMAIN lookup' -> Symbol],
         schedule' \in [Labels -> Seq(Work)],
         DOMAIN patched' \subseteq Location,
         patched' \in [DOMAIN patched' -> Nat]
  PROVE  TypeOK'
<1>1. LayoutTypeOK'
  BY DEF DuringPatching, layoutVars, sectionVars, cursorVars, TypeOK, LayoutTypeOK
<1>2. QED
  BY <1>1 DEF DuringPatching, historyVars, TypeOK, Known

\* What work does to the record of a known symbol.
LEMMA SymbolRetype ==
  ASSUME TypeOK, NEW l \in Known, NEW type \in SymbolTypes,
         lookup' = [lookup EXCEPT ![l].type = type]
  PROVE  DOMAIN lookup' \subseteq Labels /\ lookup' \in [DOMAIN lookup' -> Symbol]
<1>1. Known \subseteq Labels /\ lookup \in [Known -> Symbol]
  BY DEF TypeOK
<1>2. [lookup[l] EXCEPT !.type = type] \in Symbol
  BY <1>1 DEF Symbol
<1>3. lookup' = [lookup EXCEPT ![l] = [lookup[l] EXCEPT !.type = type]]
  OBVIOUS
<1>4. QED
  BY <1>1, <1>2, <1>3

LEMMA SymbolUpdate ==
  ASSUME TypeOK, NEW l \in Known, NEW type \in SymbolTypes, NEW extent \in Nat,
         lookup' = [lookup EXCEPT ![l].size = extent, ![l].type = type]
  PROVE  DOMAIN lookup' \subseteq Labels /\ lookup' \in [DOMAIN lookup' -> Symbol]
<1> DEFINE record == [[lookup[l] EXCEPT !.size = extent] EXCEPT !.type = type]
<1>1. Known \subseteq Labels /\ lookup \in [Known -> Symbol]
  BY DEF TypeOK
<1>2. record \in Symbol
  BY <1>1 DEF Symbol
<1>3. lookup' = [lookup EXCEPT ![l] = record]
  BY <1>1
<1>4. QED
  BY <1>1, <1>2, <1>3

LEMMA RunWorkType ==
  ASSUME TypeOK, RunWork
  PROVE  TypeOK'
<1>1. PICK l \in Labels :
        \/ \E work \in {Head(schedule[l])} :
             \/ PatchInstruction(l, work)
             \/ PatchSize(l, work)
             \/ SetFunction(l, work)
             \/ AssignType(l, work)
        \/ Fail
  BY DEF RunWork, PatchFails, UnknownSymbol
<1>2. CASE Fail
  BY <1>2, PhaseStepType DEF Fail, Phases
<1>3. ASSUME NEW work, PatchInstruction(l, work) PROVE TypeOK'
  <2>1. work \in Work /\ l \in Known /\ schedule[l] # <<>>
    BY <1>3, HeadWork DEF PatchInstruction
  <2>2. DOMAIN patched' \subseteq Location /\ patched' \in [DOMAIN patched' -> Nat]
    BY <1>3, <2>1, AddressType, StoreType DEF PatchInstruction
  <2>3. schedule' \in [Labels -> Seq(Work)]
    BY <1>3, <2>1, TakeWorkType DEF PatchInstruction
  <2>4. DOMAIN lookup' \subseteq Labels /\ lookup' \in [DOMAIN lookup' -> Symbol]
    BY <1>3 DEF PatchInstruction, TypeOK, Known
  <2>5. QED
    BY <1>3, <2>2, <2>3, <2>4, PatchingCloses DEF PatchInstruction
<1>4. ASSUME NEW work, PatchSize(l, work) PROVE TypeOK'
  <2>1. work \in Work /\ l \in Known /\ schedule[l] # <<>>
    BY <1>4, HeadWork DEF PatchSize
  <2>2. SizeValue(l, work) \in Nat
    BY <2>1, SizeValueType
  <2>3. DOMAIN patched' \subseteq Location /\ patched' \in [DOMAIN patched' -> Nat]
    BY <1>4, <2>1, <2>2, StoreType DEF PatchSize
  <2>4. schedule' \in [Labels -> Seq(Work)]
    BY <1>4, <2>1, TakeWorkType DEF PatchSize
  <2>5. DOMAIN lookup' \subseteq Labels /\ lookup' \in [DOMAIN lookup' -> Symbol]
    BY <1>4, <2>1, <2>2 DEF PatchSize, TypeOK, Known, Symbol
  <2>6. QED
    BY <1>4, <2>3, <2>4, <2>5, PatchingCloses DEF PatchSize
<1>5. ASSUME NEW work, SetFunction(l, work) PROVE TypeOK'
  <2>1. work \in Work /\ l \in Known /\ schedule[l] # <<>>
    BY <1>5, HeadWork DEF SetFunction
  <2>2. (base[work.sec] + work.off - AddressOf(l)) % Mod64 \in Nat
    <3>1. base[work.sec] + work.off - AddressOf(l) \in Int
      <4>1. AddressOf(l) \in Nat
        BY <2>1, AddressType
      <4>2. base[work.sec] \in Nat /\ work.off \in Nat
        BY <2>1 DEF Work, TypeOK, LayoutTypeOK
      <4>3. QED
        BY <4>1, <4>2
    <3>2. Mod64 \in Nat \ {0}
      BY ProgramAssumption DEF ProgramAssumption
    <3>3. QED
      BY <3>1, <3>2, DivisionLemma
  <2>3. schedule' \in [Labels -> Seq(Work)]
    BY <1>5, <2>1, TakeWorkType DEF SetFunction
  <2>4. DOMAIN patched' \subseteq Location /\ patched' \in [DOMAIN patched' -> Nat]
    BY <1>5 DEF SetFunction, TypeOK
  <2>5. DOMAIN lookup' \subseteq Labels /\ lookup' \in [DOMAIN lookup' -> Symbol]
    <3> DEFINE v == (base[work.sec] + work.off - AddressOf(l)) % Mod64
    <3>1. lookup' = [lookup EXCEPT ![l].size = v, ![l].type = work.type]
      BY <1>5 DEF SetFunction
    <3>2. v \in Nat /\ work.type \in SymbolTypes
      BY <2>1, <2>2 DEF Work
    <3> HIDE DEF v
    <3>3. QED
      BY <2>1, <3>1, <3>2, SymbolUpdate
  <2>6. QED
    BY <1>5, <2>3, <2>4, <2>5, PatchingCloses DEF SetFunction
<1>6. ASSUME NEW work, AssignType(l, work) PROVE TypeOK'
  <2>1. work \in Work /\ l \in Known /\ schedule[l] # <<>>
    BY <1>6, HeadWork DEF AssignType
  <2>2. schedule' \in [Labels -> Seq(Work)]
    BY <1>6, <2>1, TakeWorkType DEF AssignType
  <2>3. DOMAIN patched' \subseteq Location /\ patched' \in [DOMAIN patched' -> Nat]
    BY <1>6 DEF AssignType, TypeOK
  <2>4. DOMAIN lookup' \subseteq Labels /\ lookup' \in [DOMAIN lookup' -> Symbol]
    <3>1. lookup' = [lookup EXCEPT ![l].type = work.type]
      BY <1>6 DEF AssignType
    <3>2. work.type \in SymbolTypes
      BY <2>1 DEF Work
    <3>3. QED
      BY <2>1, <3>1, <3>2, SymbolRetype
  <2>5. QED
    BY <1>6, <2>2, <2>3, <2>4, PatchingCloses DEF AssignType
<1>7. QED
  BY <1>1, <1>2, <1>3, <1>4, <1>5, <1>6

LEMMA InitType ==
  ASSUME Init
  PROVE  TypeOK
<1>1. /\ TextSection \in SectionNames /\ OptionsBase \in Nat
      /\ MaxStatements \in Nat /\ SectionOrder \in Seq(SectionNames)
  BY SectionsAssumption, LayoutAssumption, ProgramAssumption
     DEF SectionsAssumption, LayoutAssumption, ProgramAssumption
<1>2. LayoutTypeOK
  <2>1. order = <<TextSection>> /\ idx = 1
    BY DEF Init, CursorInit
  <2>2. order \in Seq(SectionNames) /\ Len(order) = 1 /\ DOMAIN order = {1}
    BY <1>1, <2>1
  <2>3. size \in [SectionNames -> Nat] /\ flags \in [SectionNames -> SUBSET SectionFlags]
    BY DEF Init
  <2>4. base \in [SectionNames -> Nat]
    BY <1>1 DEF Init
  <2>5. hasBase \subseteq SectionNames /\ pinned \subseteq hasBase
    BY <1>1 DEF Init
  <2>6. baseAddr \in Nat /\ wasExecutable \in BOOLEAN /\ wasReadonly \in BOOLEAN
    BY <1>1 DEF Init, CursorInit
  <2>7. idx \in 1 .. (Len(order) + 1)
    BY <2>1, <2>2
  <2>8. \A i, j \in DOMAIN order : order[i] = order[j] => i = j
    BY <2>2
  <2>9. QED
    BY <2>2, <2>3, <2>4, <2>5, <2>6, <2>7, <2>8 DEF LayoutTypeOK
<1>3. /\ DOMAIN lookup = {} /\ DOMAIN patched = {}
      /\ lookup = [l \in DOMAIN lookup |-> lookup[l]]
      /\ patched = [x \in DOMAIN patched |-> patched[x]]
  BY DEF Init
<1>4. schedule \in [Labels -> Seq(Work)]
  BY DEF Init
<1>5. lookup \in [Known -> Symbol] /\ patched \in [DOMAIN patched -> Nat]
  BY <1>3 DEF Known
<1>6. QED
  BY <1>1, <1>2, <1>3, <1>4, <1>5 DEF Init, TypeOK, Known, Phases, SymbolTypes

-----------------------------------------------------------------------------
(***************************************************************************)
(* The assembler starts resolve_base_addresses as LoopStarts requires, and *)
(* leaves the layout alone while it runs and afterwards.                   *)
(***************************************************************************)

Assembling == phase \in {"assembling", "flushing"}

AsmInv ==
  /\ TypeOK
  /\ Assembling => CursorInit /\ hasBase = pinned
  /\ ~Assembling => LoopInv

\* Every phase has the loop invariant; before the loop starts, trivially.
LEMMA AlwaysLoopInv ==
  ASSUME AsmInv
  PROVE  LoopInv
<1>1. CASE Assembling
  BY <1>1, LayoutAssumption, LoopStarts DEF AsmInv, TypeOK
<1>2. QED
  BY <1>1 DEF AsmInv

LEMMA StatementKeeps ==
  ASSUME AsmInv, Statement
  PROVE  \/ /\ Assembling'
            /\ CursorInit' /\ hasBase' = pinned'
         \/ Fail
<1>1. Assembling => CursorInit /\ hasBase = pinned
  BY DEF AsmInv
<1>2. ASSUME NEW kind, Consume(kind), SameSections, UNCHANGED phase
      PROVE  Assembling' /\ CursorInit' /\ hasBase' = pinned'
  BY <1>1, <1>2 DEF Consume, Reading, SameSections, Assembling, cursorVars, CursorInit
<1>3. ASSUME NEW s \in SectionNames, SetSection(s)
      PROVE  Assembling' /\ CursorInit' /\ hasBase' = pinned'
  BY <1>1, <1>3 DEF SetSection, Consume, Reading, Assembling, cursorVars, CursorInit
<1>4. ASSUME NEW b \in Bases, Org(b)
      PROVE  Assembling' /\ CursorInit' /\ hasBase' = pinned'
  BY <1>1, <1>4 DEF Org, Consume, Reading, Assembling, cursorVars, CursorInit
<1>5. QED
  <2>1. CASE \/ \E l \in Labels :
                  \/ Label(l)
                  \/ \E form \in Forms : Reference(l, form)
                  \/ EndFunction(l)
                  \/ SizeOf(l)
                  \/ \E t \in {"object", "func"} : SetType(l, t)
             \/ \E words \in CodeLengths : Instruction(words)
             \/ \E w \in Widths : DataConstant(w)
    BY <1>2, <2>1 DEF Label, Reference, EndFunction, SizeOf, SetType, Instruction,
                      DataConstant
  <2>2. CASE \/ DataByte
             \/ \E w \in Widths, times \in Counts : Reserve(w, times)
             \/ \E times \in Counts : ReserveBytes(times)
             \/ \E len \in Lengths : Bytes(len)
             \/ \E a \in Alignments : Align(a)
             \/ FinishLabels
             \/ \E flag \in {"execonly", "readonly"} : SetAttribute(flag)
    BY <1>2, <2>2 DEF DataByte, Reserve, ReserveBytes, Bytes, Align, FinishLabels,
                      SetAttribute
  <2>3. CASE Back
    BY <1>2, <2>3, BackShortens DEF AsmInv
  <2>4. QED
    BY <1>3, <1>4, <2>1, <2>2, <2>3 DEF Statement, OrgTooLate, Reject, NoRoom, Back

LEMMA FailKeeps ==
  ASSUME AsmInv, Fail
  PROVE  AsmInv'
<1>1. TypeOK'
  BY PhaseStepType DEF AsmInv, Fail, Phases
<1>2. LoopInv'
  BY AlwaysLoopInv, LoopInvStutter DEF Fail
<1>3. QED
  BY <1>1, <1>2 DEF AsmInv, Assembling, Fail

LEMMA ResolveType ==
  ASSUME AsmInv, ResolveSection
  PROVE  TypeOK' /\ LoopInv'
<1>1. LoopInv'
  BY AlwaysLoopInv, LayoutAssumption, LoopInvStep DEF ResolveSection
<1>2. LayoutTypeOK'
  BY <1>1 DEF LoopInv
<1>3. QED
  BY <1>1, <1>2
     DEF AsmInv, ResolveSection, asmVars, contentVars, historyVars, TypeOK, Known

LEMMA AsmInvStep ==
  ASSUME AsmInv, [Next]_vars
  PROVE  AsmInv'
<1>1. CASE Statement
  <2>1. TypeOK'
    BY <1>1, StatementType DEF AsmInv
  <2>2. QED
    BY <1>1, <2>1, StatementKeeps, FailKeeps DEF AsmInv
<1>2. CASE EndOfProgram
  <2>1. TypeOK'
    BY <1>2, PhaseStepType DEF AsmInv, EndOfProgram, Phases
  <2>2. QED
    BY <1>2, <2>1
       DEF AsmInv, EndOfProgram, Assembling, CursorInit,
           layoutVars, sectionVars, cursorVars
<1>3. CASE FlushSection
  <2>1. TypeOK'
    BY <1>3, FlushType DEF AsmInv
  <2>2. QED
    BY <1>3, <2>1
       DEF AsmInv, FlushSection, Assembling, CursorInit,
           layoutVars, sectionVars, cursorVars
<1>4. CASE StartResolving \/ StartPatching \/ Finished
  <2>1. TypeOK'
    BY <1>4, PhaseStepType DEF AsmInv, StartResolving, StartPatching, Finished, Phases
  <2>2. LoopInv'
    BY <1>4, AlwaysLoopInv, LoopInvStutter DEF StartResolving, StartPatching, Finished
  <2>3. QED
    BY <1>4, <2>1, <2>2 DEF AsmInv, Assembling, StartResolving, StartPatching, Finished
<1>5. CASE ResolveSection
  <2>1. TypeOK' /\ LoopInv'
    BY <1>5, ResolveType
  <2>2. ~Assembling'
    BY <1>5 DEF Assembling, ResolveSection, asmVars, ResolveStep
  <2>3. QED
    BY <2>1, <2>2 DEF AsmInv
<1>6. CASE RunWork
  <2>1. TypeOK'
    BY <1>6, RunWorkType DEF AsmInv
  <2>2. UNCHANGED layoutVars
    BY <1>6 DEF RunWork, PatchInstruction, PatchSize, SetFunction, AssignType,
                PatchFails, UnknownSymbol, Fail, DuringPatching
  <2>3. LoopInv'
    BY <2>2, AlwaysLoopInv, LoopInvStutter
  <2>4. ~Assembling'
    BY <1>6 DEF RunWork, AtSymbol, PatchInstruction, PatchSize, SetFunction,
                AssignType, PatchFails, UnknownSymbol, Fail, DuringPatching, Assembling
  <2>5. QED
    BY <2>1, <2>3, <2>4 DEF AsmInv
<1>7. CASE UNCHANGED vars
  <2>1. UNCHANGED <<layoutVars, contentVars>> /\ phase' = phase
    BY <1>7 DEF vars, asmVars
  <2>2. TypeOK' /\ LoopInv'
    BY <2>1, PhaseStepType, AlwaysLoopInv, LoopInvStutter DEF AsmInv, TypeOK
  <2>3. QED
    BY <2>1, <2>2
       DEF AsmInv, Assembling, CursorInit, layoutVars, sectionVars, cursorVars
<1>8. QED
  BY <1>1, <1>2, <1>3, <1>4, <1>5, <1>6, <1>7 DEF Next, Finish, Terminated

LEMMA AsmInvariant == Spec => []AsmInv
<1>1. Init => AsmInv
  BY InitType DEF Init, AsmInv, Assembling
<1>2. AsmInv /\ [Next]_vars => AsmInv'
  BY AsmInvStep
<1>3. QED
  BY <1>1, <1>2, PTL DEF Spec

(***************************************************************************)
(* The types of the assembler's state hold in every behaviour.             *)
(***************************************************************************)
THEOREM TypeCorrect == Spec => []TypeOK
<1>1. AsmInv => TypeOK
  BY DEF AsmInv
<1>2. QED
  BY <1>1, AsmInvariant, PTL

(***************************************************************************)
(* Whatever the program, sections that did not choose their own addresses  *)
(* do not overlap (resolve_base_addresses as finish calls it).             *)
(***************************************************************************)
THEOREM SectionsDisjoint == Spec => []AutomaticSectionsDisjoint
<1>1. AsmInv => AutomaticSectionsDisjoint
  BY AlwaysLoopInv DEF LoopInv
<1>2. QED
  BY <1>1, AsmInvariant, PTL

-----------------------------------------------------------------------------
(***************************************************************************)
(* Items do not overlap                                                    *)
(***************************************************************************)

\* The items of a section are inside it and do not overlap.
ItemsDisjoint ==
  \A s \in SectionNames : \A x \in output[s] :
    /\ x.off + x.len <= size[s]
    /\ \A y \in output[s] :
         x # y => x.off + x.len <= y.off \/ y.off + y.len <= x.off

\* An item is output at `at', at the end of the current section or behind
\* padding.
AppendsItem(at, len, kind, refs, flag) ==
  /\ at >= Position
  /\ AddOutput(at, len, kind, refs, flag)

\* The current section is padded.
PadsTo(n) ==
  /\ n >= Position
  /\ size' = [size EXCEPT ![current] = n]
  /\ UNCHANGED output

\* A statement outputs one item, or pads or shortens the section, or leaves
\* the output as it is.
OutputChanges ==
  \/ UNCHANGED <<size, output>>
  \/ \E at, len \in Nat : \E kind, refs, flag :
       AppendsItem(at, len, kind, refs, flag)
  \/ \E n \in Nat : PadsTo(n)
  \/ \E n \in Nat : \E added \in SUBSET SectionFlags : Shorten(n, added)

LEMMA AlignedAppends ==
  ASSUME TypeOK, NEW alignment \in Nat \ {0}, NEW len \in Nat,
         NEW kind, NEW refs, NEW flag,
         AlignedOutput(alignment, len, kind, refs, flag)
  PROVE  OutputChanges
<1>1. /\ AlignUp(Position, alignment) \in Nat
      /\ AlignUp(Position, alignment) >= Position
  BY PositionType, AlignUpBounds
<1>2. QED
  BY <1>1 DEF AlignedOutput, AppendsItem, OutputChanges

LEMMA StatementOutput ==
  ASSUME TypeOK, Statement
  PROVE  OutputChanges
<1>1. /\ CodeLengths \subseteq Nat \ {0} /\ Widths \subseteq Nat \ {0}
      /\ Lengths \subseteq Nat
      /\ \A form \in Forms : form.words \in Nat
  BY ProgramAssumption DEF ProgramAssumption, ReferenceForms
<1>2. ASSUME NEW l \in Labels, NEW form \in Forms, Reference(l, form)
      PROVE  OutputChanges
  BY <1>1, <1>2, AlignedAppends DEF Reference
<1>3. ASSUME NEW l \in Labels, SizeOf(l) PROVE OutputChanges
  BY <1>3, AlignedAppends DEF SizeOf
<1>4. ASSUME NEW words \in CodeLengths, Instruction(words) PROVE OutputChanges
  BY <1>1, <1>4, AlignedAppends DEF Instruction
<1>5. ASSUME NEW w \in Widths, DataConstant(w) PROVE OutputChanges
  BY <1>1, <1>5, AlignedAppends DEF DataConstant
<1>6. ASSUME NEW w \in Widths, NEW times \in Counts, Reserve(w, times)
      PROVE  OutputChanges
  <2>1. PICK len \in Nat : AlignedOutput(w, len, "resv", {}, "resv")
    BY <1>6, ReserveOutputs
  <2>2. QED
    BY <1>1, <2>1, AlignedAppends
<1>7. ASSUME NEW len \in Lengths, Bytes(len) PROVE OutputChanges
  BY <1>1, <1>7, AlignedAppends DEF Bytes
<1>8. ASSUME DataByte \/ \E times \in Counts : ReserveBytes(times)
      PROVE  OutputChanges
  <2>1. PICK len \in Nat : \E kind, flag : AddOutput(Position, len, kind, {}, flag)
    BY <1>8, ReserveBytesOutputs DEF DataByte
  <2>2. QED
    BY <2>1, PositionType DEF AppendsItem, OutputChanges
<1>9. CASE \/ \E l \in Labels :
                \/ Label(l)
                \/ EndFunction(l)
                \/ \E t \in {"object", "func"} : SetType(l, t)
           \/ FinishLabels
           \/ \E s \in SectionNames : SetSection(s)
           \/ \E b \in Bases : Org(b) \/ OrgTooLate(b)
           \/ \E flag \in {"execonly", "readonly"} : SetAttribute(flag)
           \/ Reject
           \/ NoRoom
  BY <1>9 DEF Label, EndFunction, SetType, FinishLabels, SetSection, Org, OrgTooLate,
              SetAttribute, Reject, NoRoom, Fail, NoOutput, OutputChanges,
              layoutVars, sectionVars, contentVars
<1>10. ASSUME NEW a \in Alignments, Align(a) PROVE OutputChanges
  <2>1. AlignedSize(Position, a) \in Nat
    BY PositionType, AlignedSizeType
  <2>2. PadsTo(AlignedSize(Position, a))
    BY <1>10 DEF Align, PadsTo
  <2>3. QED
    BY <2>1, <2>2 DEF OutputChanges
<1>11. CASE Back
  BY <1>11, BackShortens DEF OutputChanges
<1>12. QED
  BY <1>2, <1>3, <1>4, <1>5, <1>6, <1>7, <1>8, <1>9, <1>10, <1>11 DEF Statement, Back

LEMMA StepOutput ==
  ASSUME TypeOK, [Next]_vars
  PROVE  OutputChanges
<1>1. CASE Statement
  BY <1>1, StatementOutput
<1>2. CASE EndOfProgram \/ StartResolving \/ StartPatching \/ Finished
  BY <1>2 DEF EndOfProgram, StartResolving, StartPatching, Finished, OutputChanges,
              layoutVars, sectionVars, contentVars
<1>3. CASE FlushSection
  BY <1>3 DEF FlushSection, OutputChanges, layoutVars, sectionVars
<1>4. CASE ResolveSection
  BY <1>4 DEF ResolveSection, ResolveStep, KeepBase, PlaceNext, AdvancePast,
              OutputChanges, asmVars, contentVars
<1>5. CASE RunWork
  BY <1>5 DEF RunWork, PatchInstruction, PatchSize, SetFunction, AssignType,
              PatchFails, UnknownSymbol, Fail, DuringPatching, OutputChanges,
              layoutVars, sectionVars, contentVars
<1>6. CASE UNCHANGED vars
  BY <1>6 DEF vars, asmVars, OutputChanges, layoutVars, sectionVars, contentVars
<1>7. QED
  BY <1>1, <1>2, <1>3, <1>4, <1>5, <1>6 DEF Next, Finish, Terminated

-----------------------------------------------------------------------------

LEMMA ItemsStep ==
  ASSUME TypeOK, ItemsDisjoint, OutputChanges
  PROVE  ItemsDisjoint'
<1>1. /\ current \in SectionNames
      /\ size \in [SectionNames -> Nat]
      /\ output \in [SectionNames -> SUBSET Item]
      /\ \A s \in SectionNames : \A x \in output[s] : x.off \in Nat /\ x.len \in Nat
  BY DEF TypeOK, LayoutTypeOK, Item
<1>2. CASE UNCHANGED <<size, output>>
  BY <1>2 DEF ItemsDisjoint
<1>3. ASSUME NEW at \in Nat, NEW len \in Nat, NEW kind, NEW refs, NEW flag,
             AppendsItem(at, len, kind, refs, flag)
      PROVE  ItemsDisjoint'
  <2> DEFINE new == [off |-> at, len |-> len, kind |-> kind, refs |-> refs]
  <2>1. /\ size' = [size EXCEPT ![current] = at + len]
        /\ \A s \in SectionNames :
             output'[s] \subseteq output[s] \cup
               (IF s = current THEN {new} ELSE {})
    BY <1>1, <1>3 DEF AppendsItem, AddOutput
  <2>2. \A x \in output[current] : x.off + x.len <= at
    BY <1>1, <1>3 DEF AppendsItem, Position, ItemsDisjoint
  <2>3. SUFFICES ASSUME NEW s \in SectionNames, NEW x \in output'[s]
                 PROVE  /\ x.off + x.len <= size'[s]
                        /\ \A y \in output'[s] : x # y =>
                             x.off + x.len <= y.off \/ y.off + y.len <= x.off
    BY DEF ItemsDisjoint
  <2>4. CASE s # current
    BY <1>1, <2>1, <2>4 DEF ItemsDisjoint
  <2>5. CASE s = current
    <3>1. new.off = at /\ new.len = len /\ size'[s] = at + len
      BY <1>1, <2>1, <2>5
    <3>2. x \in output[s] \/ x = new
      BY <2>1, <2>5
    <3>3. x.off + x.len <= size'[s]
      BY <1>1, <2>2, <2>5, <3>1, <3>2
    <3>4. ASSUME NEW y \in output'[s], x # y
          PROVE  x.off + x.len <= y.off \/ y.off + y.len <= x.off
      <4>1. y \in output[s] \/ y = new
        BY <2>1, <2>5
      <4>2. QED
        BY <1>1, <2>2, <2>5, <3>1, <3>2, <3>4, <4>1 DEF ItemsDisjoint
    <3>5. QED
      BY <3>3, <3>4
  <2>6. QED
    BY <2>4, <2>5
<1>4. ASSUME NEW n \in Nat, PadsTo(n)
      PROVE  ItemsDisjoint'
  <2>1. \A s \in SectionNames : size'[s] \in Nat /\ size[s] <= size'[s]
    BY <1>1, <1>4 DEF PadsTo, Position
  <2>2. QED
    BY <1>1, <1>4, <2>1 DEF PadsTo, ItemsDisjoint
<1>5. ASSUME NEW n \in Nat, NEW added \in SUBSET SectionFlags, Shorten(n, added)
      PROVE  ItemsDisjoint'
  <2> SUFFICES ASSUME NEW s \in SectionNames, NEW x \in output'[s]
               PROVE  /\ x.off + x.len <= size'[s]
                      /\ \A y \in output'[s] : x # y =>
                           x.off + x.len <= y.off \/ y.off + y.len <= x.off
    BY DEF ItemsDisjoint
  <2>1. CASE s # current
    <3>1. output'[s] = output[s] /\ size'[s] = size[s]
      BY <1>1, <1>5, <2>1 DEF Shorten
    <3>2. QED
      BY <3>1 DEF ItemsDisjoint
  <2>2. CASE s = current
    <3>1. output'[s] = Truncate(output[s], n) /\ size'[s] = n
      BY <1>1, <1>5, <2>2 DEF Shorten
    <3>2. /\ \A z \in output'[s] : z.off + z.len <= n
          /\ output'[s] \subseteq Item
      BY <1>1, <3>1, TruncateType
    <3>3. ASSUME NEW y \in output'[s], x # y
          PROVE  x.off + x.len <= y.off \/ y.off + y.len <= x.off
      <4>1. PICK v \in output[s] :
              /\ v.off < n
              /\ x = [v EXCEPT !.len = IF v.off + v.len <= n THEN @ ELSE n - v.off]
        BY <3>1 DEF Truncate
      <4>2. PICK w \in output[s] :
              /\ w.off < n
              /\ y = [w EXCEPT !.len = IF w.off + w.len <= n THEN @ ELSE n - w.off]
        BY <3>1 DEF Truncate
      <4>3. v # w
        BY <3>3, <4>1, <4>2
      <4>4. v.off + v.len <= w.off \/ w.off + w.len <= v.off
        BY <4>3 DEF ItemsDisjoint
      <4>5. v \in Item /\ w \in Item
        BY <1>1
      <4>6. x.off = v.off /\ y.off = w.off
        BY <4>1, <4>2, <4>5 DEF Item
      <4>7. /\ x.len = IF v.off + v.len <= n THEN v.len ELSE n - v.off
            /\ y.len = IF w.off + w.len <= n THEN w.len ELSE n - w.off
        BY <4>1, <4>2, <4>5 DEF Item
      <4>8. /\ v.off \in Nat /\ v.len \in Nat /\ w.off \in Nat /\ w.len \in Nat
        BY <4>5 DEF Item
      <4>9. QED
        BY <4>4, <4>6, <4>7, <4>8
    <3>4. QED
      BY <3>1, <3>2, <3>3
  <2>3. QED
    BY <2>1, <2>2
<1>6. QED
  BY <1>2, <1>3, <1>4, <1>5 DEF OutputChanges

\* Items never overlap and never leave their section, whatever the program
\* outputs, aligns, removes and interleaves.
LEMMA ItemsNeverOverlap == Spec => []ItemsDisjoint
<1>1. Init => ItemsDisjoint
  BY DEF Init, ItemsDisjoint
<1>2. AsmInv /\ ItemsDisjoint /\ [Next]_vars => ItemsDisjoint'
  BY StepOutput, ItemsStep DEF AsmInv
<1>3. QED
  BY <1>1, <1>2, AsmInvariant, PTL DEF Spec

-----------------------------------------------------------------------------
(***************************************************************************)
(* Symbols do not move                                                     *)
(***************************************************************************)

SymbolsStay ==
  \A l \in Known :
    /\ l \in Known'
    /\ lookup'[l].sec = lookup[l].sec
    /\ lookup'[l].off = lookup[l].off

LEMMA SameStay ==
  ASSUME UNCHANGED lookup
  PROVE  SymbolsStay
BY DEF SymbolsStay, Known

LEMMA WithStay ==
  ASSUME NEW names, NEW s, NEW off, lookup' = WithSymbols(names, s, off)
  PROVE  SymbolsStay
BY DEF SymbolsStay, Known, WithSymbols

LEMMA StatementStays ==
  ASSUME Statement
  PROVE  SymbolsStay
<1>1. ASSUME NEW alignment, NEW len, NEW kind, NEW refs, NEW flag,
             AlignedOutput(alignment, len, kind, refs, flag)
      PROVE  SymbolsStay
  BY <1>1, WithStay DEF AlignedOutput, OutputLabels
<1>2. CASE \/ \E l \in Labels, form \in Forms : Reference(l, form)
           \/ \E l \in Labels : SizeOf(l)
           \/ \E words \in CodeLengths : Instruction(words)
           \/ \E w \in Widths : DataConstant(w)
           \/ \E w \in Widths, times \in Counts : Reserve(w, times)
           \/ \E len \in Lengths : Bytes(len)
  BY <1>1, <1>2 DEF Reference, SizeOf, Instruction, DataConstant, Reserve, Bytes
<1>3. CASE FinishLabels \/ \E w \in Widths, times \in Counts : ReserveBack(w, times)
  BY <1>3, WithStay DEF FinishLabels, ReserveBack, OutputLabels
<1>4. CASE \/ \E l \in Labels :
                \/ Label(l)
                \/ EndFunction(l)
                \/ \E t \in {"object", "func"} : SetType(l, t)
           \/ DataByte
           \/ \E times \in Counts : ReserveBytes(times) \/ ReserveBytesBack(times)
           \/ \E a \in Alignments : Align(a) \/ AlignBack(a)
           \/ \E s \in SectionNames : SetSection(s)
           \/ \E b \in Bases : Org(b) \/ OrgTooLate(b)
           \/ \E flag \in {"execonly", "readonly"} : SetAttribute(flag)
           \/ Reject
           \/ NoRoom
  BY <1>4, SameStay
     DEF Label, EndFunction, SetType, DataByte, ReserveBytes, Align, SetSection, Org,
         ReserveBytesBack, AlignBack, OrgTooLate, SetAttribute, Reject, NoRoom, Fail,
         KeepLabels, contentVars
<1>5. QED
  BY <1>2, <1>3, <1>4 DEF Statement

LEMMA WorkStays ==
  ASSUME TypeOK, RunWork
  PROVE  SymbolsStay
<1>1. PICK l \in Labels :
        \/ \E work \in {Head(schedule[l])} :
             \/ PatchInstruction(l, work)
             \/ PatchSize(l, work)
             \/ SetFunction(l, work)
             \/ AssignType(l, work)
        \/ Fail
  BY DEF RunWork, PatchFails, UnknownSymbol
<1>2. CASE Fail
  BY <1>2, SameStay DEF Fail, contentVars
<1>3. ASSUME NEW work, PatchInstruction(l, work) PROVE SymbolsStay
  BY <1>3, SameStay DEF PatchInstruction
<1>4. \A k \in Known : lookup[k] \in Symbol
  BY DEF TypeOK
<1>5. ASSUME NEW work, PatchSize(l, work) \/ SetFunction(l, work) \/ AssignType(l, work)
      PROVE  SymbolsStay
  BY <1>4, <1>5 DEF PatchSize, SetFunction, AssignType, SymbolsStay, Known, Symbol
<1>6. QED
  BY <1>1, <1>2, <1>3, <1>5

(***************************************************************************)
(* A symbol keeps the section and the offset it first got, through every   *)
(* later statement, duplicate label and patch (m_lookup.emplace).          *)
(***************************************************************************)
THEOREM SymbolsAreFixed == Spec => SymbolsNeverMove
<1>1. ASSUME TypeOK, [Next]_vars PROVE SymbolsStay
  <2>1. CASE Statement
    BY <2>1, StatementStays
  <2>2. CASE EndOfProgram \/ StartResolving \/ StartPatching \/ Finished
    BY <2>2, SameStay DEF EndOfProgram, StartResolving, StartPatching, Finished,
                          contentVars
  <2>3. CASE FlushSection
    BY <2>3, WithStay DEF FlushSection
  <2>4. CASE ResolveSection
    BY <2>4, SameStay DEF ResolveSection, asmVars, contentVars
  <2>5. CASE RunWork
    BY <1>1, <2>5, WorkStays
  <2>6. CASE UNCHANGED vars
    BY <2>6, SameStay DEF vars, asmVars, contentVars
  <2>7. QED
    BY <1>1, <2>1, <2>2, <2>3, <2>4, <2>5, <2>6 DEF Next, Finish, Terminated
<1>2. TypeOK /\ [Next]_vars =>
        [\A l \in Known :
           /\ l \in Known'
           /\ lookup'[l].sec = lookup[l].sec
           /\ lookup'[l].off = lookup[l].off]_vars
  BY <1>1 DEF SymbolsStay
<1>3. QED
  BY <1>2, TypeCorrect, PTL DEF Spec, SymbolsNeverMove

-----------------------------------------------------------------------------
(***************************************************************************)
(* Labels are not lost                                                     *)
(***************************************************************************)

Queued(l) == \E s \in SectionNames : l \in queue[s]

LabelInv ==
  /\ \A l \in Labels : declared[l] # {} => l \in Known \/ Queued(l)
  /\ phase = "assembling" => flushIdx = 1
  /\ \A i \in 1 .. (flushIdx - 1) : queue[SectionOrder[i]] = {}
  /\ Resolving => \A s \in SectionNames : queue[s] = {}

\* The labels of one queue become known together.
LEMMA QueueMoves ==
  ASSUME TypeOK, NEW s \in SectionNames, NEW t, NEW off,
         lookup' = WithSymbols(queue[s], t, off),
         queue' = [queue EXCEPT ![s] = {}]
  PROVE  /\ \A l \in Labels : l \in Known \/ Queued(l) => l \in Known' \/ Queued(l)'
         /\ queue'[s] = {}
         /\ \A r \in SectionNames : queue[r] = {} => queue'[r] = {}
<1>1. queue \in [SectionNames -> SUBSET Labels]
  BY DEF TypeOK
<1>2. Known' = Known \cup queue[s]
  BY DEF Known, WithSymbols
<1>3. QED
  BY <1>1, <1>2 DEF Queued

LEMMA StatementLabels ==
  ASSUME TypeOK, LabelInv, Statement
  PROVE  LabelInv'
<1>1. phase = "assembling" /\ flushIdx = 1 /\ current \in SectionNames
  BY OnlyAssembling DEF LabelInv, TypeOK
<1>2. ASSUME phase' = "assembling", flushIdx' = flushIdx,
             \A l \in Labels : declared'[l] # {} => l \in Known' \/ Queued(l)'
      PROVE  LabelInv'
  BY <1>1, <1>2 DEF LabelInv, Resolving
<1>3. ASSUME NEW kind, Consume(kind), UNCHANGED <<phase, declared>>,
             (\E at : OutputLabels(at)) \/ KeepLabels
      PROVE  LabelInv'
  <2>1. \A l \in Labels : l \in Known \/ Queued(l) => l \in Known' \/ Queued(l)'
    BY <1>1, <1>3, QueueMoves DEF OutputLabels, KeepLabels, Known, Queued
  <2>2. QED
    BY <1>1, <1>2, <1>3, <2>1 DEF LabelInv, Consume
<1>4. ASSUME NEW l \in Labels, Label(l) PROVE LabelInv'
  <2>1. queue \in [SectionNames -> SUBSET Labels] /\ declared \in [Labels -> SUBSET Location]
    BY DEF TypeOK
  <2>2. Queued(l)' /\ \A k \in Labels : Queued(k) => Queued(k)'
    BY <1>1, <1>4, <2>1 DEF Label, Queued
  <2>3. \A k \in Labels \ {l} : declared'[k] = declared[k]
    BY <1>4, <2>1 DEF Label
  <2>4. QED
    BY <1>1, <1>2, <1>4, <2>2, <2>3 DEF LabelInv, Label, Consume, Known
<1>5. CASE Fail
  BY <1>5 DEF Fail, contentVars, historyVars, LabelInv, Resolving, Known, Queued
<1>6. CASE \/ \E l \in Labels :
                \/ \E form \in Forms : Reference(l, form)
                \/ EndFunction(l)
                \/ SizeOf(l)
                \/ \E t \in {"object", "func"} : SetType(l, t)
           \/ \E words \in CodeLengths : Instruction(words)
           \/ \E w \in Widths : DataConstant(w)
           \/ DataByte
           \/ \E w \in Widths, times \in Counts : Reserve(w, times)
           \/ \E times \in Counts : ReserveBytes(times)
  BY <1>3, <1>6
     DEF Reference, EndFunction, SizeOf, SetType, Instruction, DataConstant,
         DataByte, Reserve, ReserveBytes, AlignedOutput, historyVars
<1>7. CASE \/ \E len \in Lengths : Bytes(len)
           \/ \E a \in Alignments : Align(a)
           \/ FinishLabels
           \/ \E s \in SectionNames : SetSection(s)
           \/ \E b \in Bases : Org(b)
           \/ \E flag \in {"execonly", "readonly"} : SetAttribute(flag)
  BY <1>3, <1>7
     DEF Bytes, Align, FinishLabels, SetSection, Org, SetAttribute, AlignedOutput,
         historyVars
<1>8. CASE Back
  BY <1>3, <1>8, BackShortens DEF historyVars
<1>9. QED
  BY <1>4, <1>5, <1>6, <1>7, <1>8 DEF Back, Statement, OrgTooLate, Reject, NoRoom

LEMMA FlushLabels ==
  ASSUME TypeOK, LabelInv, FlushSection
  PROVE  LabelInv'
<1> DEFINE s == SectionOrder[flushIdx]
<1>1. /\ s \in SectionNames
      /\ flushIdx \in Nat \ {0}
      /\ \A i \in 1 .. flushIdx : SectionOrder[i] \in SectionNames
  BY ProgramAssumption DEF ProgramAssumption, FlushSection, TypeOK
<1>2. /\ \A l \in Labels : l \in Known \/ Queued(l) => l \in Known' \/ Queued(l)'
      /\ queue'[s] = {}
      /\ \A r \in SectionNames : queue[r] = {} => queue'[r] = {}
  BY <1>1, QueueMoves DEF FlushSection
<1>3. \A i \in 1 .. (flushIdx' - 1) : queue'[SectionOrder[i]] = {}
  <2>1. flushIdx' = flushIdx + 1
    BY DEF FlushSection
  <2>2. SUFFICES ASSUME NEW i \in 1 .. flushIdx
                 PROVE  queue'[SectionOrder[i]] = {}
    BY <1>1, <2>1
  <2>3. CASE i = flushIdx
    BY <1>2, <2>3
  <2>4. CASE i \in 1 .. (flushIdx - 1)
    BY <1>1, <1>2, <2>4 DEF LabelInv
  <2>5. QED
    BY <1>1, <2>3, <2>4
<1>4. QED
  BY <1>2, <1>3 DEF FlushSection, LabelInv, Resolving, historyVars

LEMMA LabelStep ==
  ASSUME TypeOK, LabelInv, [Next]_vars
  PROVE  LabelInv'
<1>1. CASE Statement
  BY <1>1, StatementLabels
<1>2. CASE EndOfProgram
  BY <1>2 DEF EndOfProgram, contentVars, historyVars, LabelInv, Resolving, Known, Queued
<1>3. CASE FlushSection
  BY <1>3, FlushLabels
<1>4. CASE StartResolving
  <2>1. \A t \in SectionNames : \E i \in 1 .. (flushIdx - 1) : SectionOrder[i] = t
    <3>1. SectionOrder \in Seq(SectionNames)
      BY ProgramAssumption DEF ProgramAssumption
    <3>2. DOMAIN SectionOrder = 1 .. (flushIdx - 1)
      BY <1>4, <3>1 DEF StartResolving, TypeOK
    <3>3. QED
      BY <3>2, ProgramAssumption DEF ProgramAssumption
  <2>2. \A t \in SectionNames : queue[t] = {}
    BY <2>1 DEF LabelInv
  <2>3. QED
    BY <1>4, <2>2
       DEF StartResolving, contentVars, historyVars, LabelInv, Resolving, Known, Queued
<1>5. CASE StartPatching \/ Finished
  BY <1>5 DEF StartPatching, Finished, contentVars, historyVars, LabelInv, Resolving,
              Known, Queued
<1>6. CASE ResolveSection
  BY <1>6 DEF ResolveSection, asmVars, contentVars, historyVars, LabelInv, Resolving,
              Known, Queued
<1>7. CASE RunWork
  <2>1. SymbolsStay
    BY <1>7, WorkStays
  <2>2. \A l \in Labels : l \in Known => l \in Known'
    BY <2>1 DEF SymbolsStay
  <2>3. /\ UNCHANGED <<queue, flushIdx, declared>>
        /\ phase' \in {phase, "failed"}
        /\ Resolving
    BY <1>7 DEF RunWork, AtSymbol, PatchInstruction, PatchSize, SetFunction,
                AssignType, PatchFails, UnknownSymbol, Fail, DuringPatching,
                contentVars, historyVars, Resolving
  <2>4. QED
    BY <2>2, <2>3 DEF LabelInv, Resolving, Queued
<1>8. CASE UNCHANGED vars
  BY <1>8 DEF vars, asmVars, contentVars, historyVars, LabelInv, Resolving, Known, Queued
<1>9. QED
  BY <1>1, <1>2, <1>3, <1>4, <1>5, <1>6, <1>7, <1>8 DEF Next, Finish, Terminated

(***************************************************************************)
(* A declared label waits in a queue or is known; when finish resolves     *)
(* addresses, it is known.                                                 *)
(***************************************************************************)
THEOREM LabelsAreKept == Spec => []LabelsAccountedFor
<1>1. Init => LabelInv
  BY DEF Init, LabelInv, Resolving, Queued
<1>2. AsmInv /\ LabelInv /\ [Next]_vars => LabelInv'
  BY LabelStep DEF AsmInv
<1>3. LabelInv => LabelsAccountedFor
  BY DEF LabelInv, LabelsAccountedFor, Queued
<1>4. QED
  BY <1>1, <1>2, <1>3, AsmInvariant, PTL DEF Spec

-----------------------------------------------------------------------------
(***************************************************************************)
(* Work and what it was scheduled for                                      *)
(***************************************************************************)

Unshrunk == shrunk = {}

\* What is made shorter stays so noted: a program that makes no section
\* shorter has not done so before.
LEMMA ShrunkStays ==
  ASSUME TypeOK, Unshrunk', [Next]_vars
  PROVE  Unshrunk /\ ~Back
<1>1. ~Back
  BY BackShortens DEF Shorten, Unshrunk
<1>2. ASSUME Statement PROVE shrunk' = shrunk
  <2>1. \A alignment, len, kind, refs, flag :
          AlignedOutput(alignment, len, kind, refs, flag) => shrunk' = shrunk
    BY DEF AlignedOutput, AddOutput
  <2>2. CASE \/ \E l \in Labels :
                  \/ Label(l)
                  \/ \E form \in Forms : Reference(l, form)
                  \/ EndFunction(l)
                  \/ SizeOf(l)
                  \/ \E t \in {"object", "func"} : SetType(l, t)
             \/ \E words \in CodeLengths : Instruction(words)
             \/ \E w \in Widths : DataConstant(w)
             \/ DataByte
    BY <2>1, <2>2 DEF Label, Reference, EndFunction, SizeOf, SetType, Instruction,
                      DataConstant, DataByte, AddOutput, NoOutput
  <2>3. CASE \/ \E w \in Widths, times \in Counts : Reserve(w, times)
             \/ \E times \in Counts : ReserveBytes(times)
             \/ \E len \in Lengths : Bytes(len)
             \/ \E a \in Alignments : Align(a)
             \/ FinishLabels
             \/ \E flag \in {"execonly", "readonly"} : SetAttribute(flag)
    BY <2>1, <2>3 DEF Reserve, ReserveBytes, Bytes, Align, FinishLabels,
                      SetAttribute, AddOutput, NoOutput
  <2>4. CASE \/ \E s \in SectionNames : SetSection(s)
             \/ \E b \in Bases : Org(b) \/ OrgTooLate(b)
             \/ Reject \/ NoRoom
    BY <2>4 DEF SetSection, Org, OrgTooLate, Reject, NoRoom, Fail, NoOutput, contentVars
  <2>5. QED
    BY <1>1, <1>2, <2>2, <2>3, <2>4 DEF Statement, Back
<1>3. ASSUME \/ EndOfProgram \/ FlushSection \/ StartResolving \/ ResolveSection
             \/ StartPatching \/ Finished
      PROVE  shrunk' = shrunk
  BY <1>3 DEF EndOfProgram, FlushSection, StartResolving, ResolveSection,
              StartPatching, Finished, asmVars, contentVars
<1>4. ASSUME RunWork PROVE shrunk' = shrunk
  BY <1>4 DEF RunWork, PatchInstruction, PatchSize, SetFunction, AssignType,
              PatchFails, UnknownSymbol, Fail, DuringPatching, contentVars
<1>5. UNCHANGED vars => shrunk' = shrunk
  BY DEF vars, asmVars, contentVars
<1>6. shrunk' = shrunk
  BY <1>2, <1>3, <1>4, <1>5 DEF Next, Finish, Terminated
<1>7. QED
  BY <1>1, <1>6 DEF Unshrunk

\* x is an item that `work' on symbol l was scheduled for.
Owns(x, l, work) ==
  /\ x.off = work.off
  /\ l \in x.refs
  /\ work.len <= x.len
  /\ x.kind = "code" <=> work.kind # "size"

\* An item is never empty and refers to one label at most.
ItemsAreSingle ==
  \A s \in SectionNames : \A x \in output[s] :
    /\ x.len > 0
    /\ \A k, l \in x.refs : k = l

SitesOwnItems ==
  \A l \in Labels : \A i \in DOMAIN schedule[l] :
    schedule[l][i].kind \in Patches =>
      \E x \in output[schedule[l][i].sec] : Owns(x, l, schedule[l][i])

\* The patch of reference x of section s to l is still to be run, or has been.
Pending(s, x, l) ==
  \E i \in DOMAIN schedule[l] :
    /\ schedule[l][i].kind \in {"patch", "jump"}
    /\ schedule[l][i].sec = s
    /\ schedule[l][i].off = x.off

Done(s, x, l) ==
  /\ phase \in {"patching", "finished", "failed"}
  /\ l \in Known
  /\ [sec |-> s, off |-> x.off] \in DOMAIN patched
  /\ patched[[sec |-> s, off |-> x.off]] = AddressOf(l)

ReferencesPendingOrDone ==
  \A s \in SectionNames : \A x \in output[s] : \A l \in x.refs :
    x.kind = "code" => Pending(s, x, l) \/ Done(s, x, l)

ReferenceInv ==
  /\ ItemsAreSingle
  /\ SitesOwnItems
  /\ ReferencesPendingOrDone
  /\ phase = "finished" => \A l \in Labels : schedule[l] = <<>>

-----------------------------------------------------------------------------
(***************************************************************************)
(* Statements                                                              *)
(***************************************************************************)

\* What a statement outputs and schedules: items without references, or one
\* item and the work for it, or work that patches nothing.
PlainOutput ==
  /\ UNCHANGED schedule
  /\ \A s \in SectionNames :
       /\ output[s] \subseteq output'[s]
       /\ \A x \in output'[s] \ output[s] : x.refs = {} /\ x.len > 0

ReferenceOutput(l, work, x) ==
  /\ Schedule(l, work)
  /\ work.kind \in Patches
  /\ Owns(x, l, work)
  /\ x.refs = {l} /\ x.len > 0
  /\ output' = [output EXCEPT ![work.sec] = @ \cup {x}]

SilentWork(l, work) ==
  /\ Schedule(l, work)
  /\ work.kind \notin Patches
  /\ UNCHANGED output

StatementRefs ==
  \/ PlainOutput
  \/ \E l \in Labels, work \in Work, x \in Item : ReferenceOutput(l, work, x)
  \/ \E l \in Labels, work \in Work : SilentWork(l, work)

LEMMA PlainAppends ==
  ASSUME TypeOK, NEW at \in Nat, NEW len \in Nat, NEW kind, NEW flag,
         AddOutput(at, len, kind, {}, flag), UNCHANGED schedule
  PROVE  PlainOutput
BY DEF AddOutput, PlainOutput, TypeOK

LEMMA PlainAligned ==
  ASSUME TypeOK, NEW alignment \in Nat \ {0}, NEW len \in Nat, NEW kind, NEW flag,
         AlignedOutput(alignment, len, kind, {}, flag), UNCHANGED schedule
  PROVE  PlainOutput
BY PositionType, AlignUpBounds, PlainAppends DEF AlignedOutput

LEMMA ReferenceRefs ==
  ASSUME TypeOK, NEW l \in Labels, NEW form \in Forms, Reference(l, form)
  PROVE  StatementRefs
<1> DEFINE at == AlignUp(Position, 4)
           work == [kind |-> IF form.checked THEN "jump" ELSE "patch",
                    sec |-> current, off |-> at, len |-> 4 * form.patched,
                    pos |-> at, type |-> "notype"]
           x == [off |-> at, len |-> 4 * form.words, kind |-> "code", refs |-> {l}]
<1>1. at \in Nat /\ current \in SectionNames
  BY PositionType, AlignUpBounds
<1>2. /\ form.words \in Nat \ {0} /\ form.patched \in Nat
      /\ form.patched <= form.words
  <2>1. form \in ReferenceForms
    BY ProgramAssumption DEF ProgramAssumption
  <2>2. \A f \in ReferenceForms : f.words \in {1, 2, 14} /\ f.patched \in {1, 2, 12}
    BY DEF ReferenceForms
  <2>3. \A f \in ReferenceForms : f.patched <= f.words
    BY DEF ReferenceForms
  <2>4. QED
    BY <2>1, <2>2, <2>3
<1>3. work \in Work /\ x \in Item
  BY <1>1, <1>2 DEF Work, Item, SymbolTypes
<1>4. Schedule(l, work) /\ output' = [output EXCEPT ![current] = @ \cup {x}]
  <2>1. Schedule(l, work)
    BY DEF Reference
  <2>2. 4 * form.words # 0
    BY <1>2
  <2>3. AddOutput(at, 4 * form.words, "code", {l}, "code")
    BY DEF Reference, AlignedOutput
  <2>4. QED
    BY <2>1, <2>2, <2>3 DEF AddOutput
<1>5. work.kind \in {"patch", "jump"} /\ work.sec = current
  OBVIOUS
<1>6. Owns(x, l, work)
  BY <1>1, <1>2, <1>5 DEF Owns
<1>7. ReferenceOutput(l, work, x)
  BY <1>2, <1>4, <1>5, <1>6 DEF ReferenceOutput, Patches
<1>8. QED
  BY <1>3, <1>7 DEF StatementRefs

LEMMA SizeRefs ==
  ASSUME TypeOK, NEW l \in Labels, SizeOf(l)
  PROVE  StatementRefs
<1> DEFINE at == AlignUp(Position, 4)
           work == [kind |-> "size", sec |-> current, off |-> at, len |-> 4,
                    pos |-> Position, type |-> "notype"]
           x == [off |-> at, len |-> 4, kind |-> "data", refs |-> {l}]
<1>1. at \in Nat /\ current \in SectionNames /\ Position \in Nat
  BY PositionType, AlignUpBounds
<1>2. work \in Work /\ x \in Item
  BY <1>1 DEF Work, Item, SymbolTypes
<1>3. Schedule(l, work) /\ output' = [output EXCEPT ![current] = @ \cup {x}]
  BY DEF SizeOf, AlignedOutput, AddOutput
<1>4. ReferenceOutput(l, work, x)
  BY <1>1, <1>3 DEF ReferenceOutput, Owns, Patches
<1>5. QED
  BY <1>2, <1>4 DEF StatementRefs

LEMMA StatementRefsHold ==
  ASSUME TypeOK, Statement, ~Back
  PROVE  StatementRefs
<1>1. /\ CodeLengths \subseteq Nat \ {0} /\ Widths \subseteq Nat \ {0}
      /\ Lengths \subseteq Nat
  BY ProgramLengths
<1>2. ASSUME NEW l \in Labels,
             EndFunction(l) \/ \E t \in {"object", "func"} : SetType(l, t)
      PROVE  StatementRefs
  <2>1. PICK k \in {"endfunc", "type"}, t \in {"object", "func"} :
          Schedule(l, [kind |-> k, sec |-> current, off |-> Position, len |-> 0,
                       pos |-> Position, type |-> t])
    BY <1>2 DEF EndFunction, SetType
  <2> DEFINE work == [kind |-> k, sec |-> current, off |-> Position, len |-> 0,
                      pos |-> Position, type |-> t]
  <2>2. work \in Work /\ work.kind \notin Patches
    BY PositionType DEF Work, SymbolTypes, Patches
  <2>3. UNCHANGED output
    BY <1>2 DEF EndFunction, SetType, NoOutput
  <2>4. SilentWork(l, work)
    BY <2>1, <2>2, <2>3 DEF SilentWork
  <2>5. QED
    BY <2>2, <2>4 DEF StatementRefs
<1>3. CASE \/ \E words \in CodeLengths : Instruction(words)
           \/ \E w \in Widths : DataConstant(w)
           \/ \E len \in Lengths : Bytes(len)
  <2>1. \A n \in Nat : 4 * n \in Nat
    OBVIOUS
  <2>2. PlainOutput
    BY <1>1, <1>3, <2>1, PlainAligned DEF Instruction, DataConstant, Bytes
  <2>3. QED
    BY <2>2 DEF StatementRefs
<1>4. CASE DataByte \/ \E times \in Counts : ReserveBytes(times)
  <2>1. PICK len \in Nat : \E kind, flag : AddOutput(Position, len, kind, {}, flag)
    BY <1>4, ReserveBytesOutputs DEF DataByte
  <2>2. UNCHANGED schedule
    BY <1>4 DEF DataByte, ReserveBytes
  <2>3. PlainOutput
    BY <2>1, <2>2, PositionType, PlainAppends
  <2>4. QED
    BY <2>3 DEF StatementRefs
<1>5. ASSUME NEW a \in Alignments, Align(a) PROVE StatementRefs
  <2>1. output' = output /\ UNCHANGED schedule
    BY <1>5 DEF Align
  <2>2. QED
    BY <2>1 DEF PlainOutput, StatementRefs
<1>6. CASE \/ \E l \in Labels : Label(l)
           \/ FinishLabels
           \/ \E s \in SectionNames : SetSection(s)
           \/ \E b \in Bases : Org(b) \/ OrgTooLate(b)
           \/ \E flag \in {"execonly", "readonly"} : SetAttribute(flag)
           \/ Reject
           \/ NoRoom
  <2>1. UNCHANGED <<output, schedule>>
    BY <1>6 DEF Label, FinishLabels, SetSection, Org, OrgTooLate, SetAttribute,
                Reject, NoRoom, Fail, NoOutput, contentVars
  <2>2. QED
    BY <2>1 DEF PlainOutput, StatementRefs
<1>7. ASSUME NEW w \in Widths, NEW times \in Counts, Reserve(w, times)
      PROVE  StatementRefs
  <2>1. PICK len \in Nat : AlignedOutput(w, len, "resv", {}, "resv")
    BY <1>7, ReserveOutputs
  <2>2. PlainOutput
    BY <1>1, <1>7, <2>1, PlainAligned DEF Reserve
  <2>3. QED
    BY <2>2 DEF StatementRefs
<1>8. QED
  BY <1>2, <1>3, <1>4, <1>5, <1>6, <1>7, ReferenceRefs, SizeRefs DEF Statement, Back

-----------------------------------------------------------------------------
(***************************************************************************)
(* The invariant                                                           *)
(***************************************************************************)

\* Before anything is patched, nothing is done.
LEMMA OnlyPending ==
  ASSUME ReferenceInv, phase \notin {"patching", "finished", "failed"},
         NEW s \in SectionNames, NEW x \in output[s], NEW l \in x.refs,
         x.kind = "code"
  PROVE  Pending(s, x, l)
BY DEF ReferenceInv, ReferencesPendingOrDone, Done

\* What is scheduled stays scheduled.
LEMMA ScheduleKeeps ==
  ASSUME TypeOK, NEW l \in Labels, NEW work \in Work, Schedule(l, work)
  PROVE  /\ \A k \in Labels : \A i \in DOMAIN schedule[k] :
              i \in DOMAIN schedule'[k] /\ schedule'[k][i] = schedule[k][i]
         /\ \A k \in Labels : \A i \in DOMAIN schedule'[k] :
              i \in DOMAIN schedule[k] \/ (k = l /\ schedule'[k][i] = work)
         /\ \E i \in DOMAIN schedule'[l] : schedule'[l][i] = work
<1>1. schedule[l] \in Seq(Work) /\ schedule' = [schedule EXCEPT ![l] = Append(@, work)]
  BY DEF TypeOK, Schedule
<1>2. schedule'[l] = Append(schedule[l], work)
  BY <1>1 DEF TypeOK
<1>3. /\ DOMAIN schedule[l] = 1 .. Len(schedule[l])
      /\ DOMAIN schedule'[l] = 1 .. (Len(schedule[l]) + 1)
      /\ schedule'[l][Len(schedule[l]) + 1] = work
      /\ \A i \in 1 .. Len(schedule[l]) : schedule'[l][i] = schedule[l][i]
      /\ Len(schedule[l]) \in Nat
  BY <1>1, <1>2
<1>4. \A k \in Labels \ {l} : schedule'[k] = schedule[k]
  BY <1>1 DEF TypeOK
<1>5. QED
  BY <1>3, <1>4

LEMMA StatementReferences ==
  ASSUME TypeOK, ReferenceInv, Statement, ~Back
  PROVE  ReferenceInv'
<1>1. phase = "assembling" /\ phase' \in {"assembling", "failed"}
  BY OnlyAssembling
<1>2. /\ output \in [SectionNames -> SUBSET Item]
      /\ \A s \in SectionNames : \A x \in output[s] : x.refs \subseteq Labels
      /\ \A k \in Labels : \A i \in DOMAIN schedule[k] :
           schedule[k][i].sec \in SectionNames
  <2>1. output \in [SectionNames -> SUBSET Item] /\ schedule \in [Labels -> Seq(Work)]
    BY DEF TypeOK
  <2>2. \A s \in SectionNames : \A x \in output[s] : x.refs \subseteq Labels
    BY <2>1 DEF Item
  <2>3. \A k \in Labels : \A i \in DOMAIN schedule[k] : schedule[k][i] \in Work
    BY <2>1
  <2>4. QED
    BY <2>1, <2>2, <2>3 DEF Work
<1>3. \A s \in SectionNames : \A x \in output[s] : \A l \in x.refs :
        x.kind = "code" => Pending(s, x, l)
  BY <1>1, OnlyPending
<1>4. CASE PlainOutput
  <2>1. \A s \in SectionNames :
          /\ output[s] \subseteq output'[s]
          /\ \A x \in output'[s] : x \in output[s] \/ (x.refs = {} /\ x.len > 0)
    BY <1>4 DEF PlainOutput
  <2>2. ItemsAreSingle'
    BY <2>1 DEF ReferenceInv, ItemsAreSingle
  <2>3. SitesOwnItems'
    BY <1>2, <1>4, <2>1 DEF PlainOutput, ReferenceInv, SitesOwnItems
  <2>4. ReferencesPendingOrDone'
    BY <1>3, <1>4, <2>1 DEF PlainOutput, ReferencesPendingOrDone, Pending
  <2>5. QED
    BY <1>1, <2>2, <2>3, <2>4 DEF ReferenceInv
<1>5. ASSUME NEW l \in Labels, NEW work \in Work, NEW x \in Item,
             ReferenceOutput(l, work, x)
      PROVE  ReferenceInv'
  <2>1. work.sec \in SectionNames
    BY DEF Work
  <2>2. /\ x \in output'[work.sec]
        /\ \A s \in SectionNames :
             /\ output[s] \subseteq output'[s]
             /\ \A y \in output'[s] : y \in output[s] \/ (s = work.sec /\ y = x)
    BY <1>2, <1>5, <2>1 DEF ReferenceOutput
  <2>3. x.refs = {l} /\ x.len > 0 /\ Owns(x, l, work) /\ work.kind \in Patches
    BY <1>5 DEF ReferenceOutput
  <2>4. /\ \A k \in Labels : \A i \in DOMAIN schedule[k] :
             i \in DOMAIN schedule'[k] /\ schedule'[k][i] = schedule[k][i]
        /\ \A k \in Labels : \A i \in DOMAIN schedule'[k] :
             i \in DOMAIN schedule[k] \/ (k = l /\ schedule'[k][i] = work)
        /\ \E i \in DOMAIN schedule'[l] : schedule'[l][i] = work
    BY <1>5, ScheduleKeeps DEF ReferenceOutput
  <2>5. ItemsAreSingle'
    BY <2>2, <2>3 DEF ReferenceInv, ItemsAreSingle
  <2>6. SitesOwnItems'
    BY <1>2, <2>1, <2>2, <2>3, <2>4 DEF ReferenceInv, SitesOwnItems
  <2>7. ReferencesPendingOrDone'
    <3> SUFFICES ASSUME NEW s \in SectionNames, NEW y \in output'[s], NEW k \in y.refs,
                        y.kind = "code"
                 PROVE  Pending(s, y, k)'
      BY DEF ReferencesPendingOrDone
    <3>1. CASE y \in output[s]
      <4>1. Pending(s, y, k) /\ k \in Labels
        BY <1>2, <1>3, <3>1
      <4>2. QED
        BY <2>4, <4>1 DEF Pending
    <3>2. CASE s = work.sec /\ y = x
      <4>1. k = l /\ work.kind \in {"patch", "jump"} /\ work.off = y.off
        BY <2>3, <3>2 DEF Owns, Patches
      <4>2. QED
        BY <2>4, <3>2, <4>1 DEF Pending
    <3>3. QED
      BY <2>2, <3>1, <3>2
  <2>8. QED
    BY <1>1, <2>5, <2>6, <2>7 DEF ReferenceInv
<1>6. ASSUME NEW l \in Labels, NEW work \in Work, SilentWork(l, work)
      PROVE  ReferenceInv'
  <2>1. /\ \A k \in Labels : \A i \in DOMAIN schedule[k] :
             i \in DOMAIN schedule'[k] /\ schedule'[k][i] = schedule[k][i]
        /\ \A k \in Labels : \A i \in DOMAIN schedule'[k] :
             i \in DOMAIN schedule[k] \/ (k = l /\ schedule'[k][i] = work)
    BY <1>6, ScheduleKeeps DEF SilentWork
  <2>2. output' = output /\ work.kind \notin Patches
    BY <1>6 DEF SilentWork
  <2>3. ItemsAreSingle'
    BY <2>2 DEF ReferenceInv, ItemsAreSingle
  <2>4. SitesOwnItems'
    BY <2>1, <2>2 DEF ReferenceInv, SitesOwnItems
  <2>5. ReferencesPendingOrDone'
    BY <1>2, <1>3, <2>1, <2>2 DEF ReferencesPendingOrDone, Pending
  <2>6. QED
    BY <1>1, <2>3, <2>4, <2>5 DEF ReferenceInv
<1>7. QED
  BY <1>4, <1>5, <1>6, StatementRefsHold DEF StatementRefs

\* Taking the first work of l takes nothing else.
LEMMA TakeWorkTakes ==
  ASSUME TypeOK, NEW l \in Labels, schedule[l] # <<>>, TakeWork(l)
  PROVE  /\ \A k \in Labels : \A i \in DOMAIN schedule'[k] :
              \E j \in DOMAIN schedule[k] : schedule'[k][i] = schedule[k][j]
         /\ \A k \in Labels : \A i \in DOMAIN schedule[k] :
              \/ k = l /\ i = 1
              \/ \E j \in DOMAIN schedule'[k] : schedule'[k][j] = schedule[k][i]
<1>1. schedule[l] \in Seq(Work) /\ schedule'[l] = Tail(schedule[l])
  BY DEF TypeOK, TakeWork
<1>2. \A k \in Labels \ {l} : schedule'[k] = schedule[k]
  BY DEF TypeOK, TakeWork
<1>3. /\ Len(schedule[l]) \in Nat \ {0}
      /\ DOMAIN schedule[l] = 1 .. Len(schedule[l])
      /\ DOMAIN schedule'[l] = 1 .. (Len(schedule[l]) - 1)
      /\ \A i \in 1 .. (Len(schedule[l]) - 1) : schedule'[l][i] = schedule[l][i + 1]
  BY <1>1
<1>4. \A i \in DOMAIN schedule'[l] :
        \E j \in DOMAIN schedule[l] : schedule'[l][i] = schedule[l][j]
  <2>1. TAKE i \in DOMAIN schedule'[l]
  <2>2. i + 1 \in DOMAIN schedule[l] /\ schedule'[l][i] = schedule[l][i + 1]
    BY <1>3
  <2>3. QED
    BY <2>2
<1>5. ASSUME NEW i \in DOMAIN schedule[l], i # 1
      PROVE  \E j \in DOMAIN schedule'[l] : schedule'[l][j] = schedule[l][i]
  <2>1. i - 1 \in DOMAIN schedule'[l] /\ schedule'[l][i - 1] = schedule[l][i]
    BY <1>3, <1>5
  <2>2. QED
    BY <2>1
<1>6. QED
  BY <1>2, <1>4, <1>5

\* The location of a reference is patched by its own work only.
LEMMA SameLocation ==
  ASSUME TypeOK, ItemsDisjoint, ReferenceInv,
         NEW l \in Labels, NEW i \in DOMAIN schedule[l],
         schedule[l][i].kind \in Patches,
         NEW s \in SectionNames, NEW x \in output[s], NEW k \in x.refs,
         x.kind = "code",
         schedule[l][i].sec = s, schedule[l][i].off = x.off
  PROVE  k = l /\ schedule[l][i].kind # "size"
<1>1. PICK y \in output[s] : Owns(y, l, schedule[l][i])
  BY DEF ReferenceInv, SitesOwnItems
<1>2. /\ x \in Item /\ y \in Item
      /\ x.len > 0 /\ y.len > 0
  BY DEF TypeOK, ReferenceInv, ItemsAreSingle
<1>3. x.off = y.off
  BY <1>1 DEF Owns
<1>4. x.off \in Nat /\ x.len \in Nat /\ y.len \in Nat
  BY <1>2 DEF Item
<1>5. x = y
  BY <1>2, <1>3, <1>4 DEF ItemsDisjoint
<1>6. QED
  BY <1>1, <1>5 DEF Owns, ReferenceInv, ItemsAreSingle

LEMMA PatchingReferences ==
  ASSUME TypeOK, ItemsDisjoint, ReferenceInv,
         NEW l \in Labels, NEW work, NEW value,
         Running(l, work), TakeWork(l), DuringPatching, SymbolsStay,
         \/ UNCHANGED patched /\ work.kind \notin {"patch", "jump"}
         \/ /\ Store(work, value) /\ work.kind \in Patches
            /\ work.kind # "size" => value = AddressOf(l)
  PROVE  ReferenceInv'
<1>1. /\ work \in Work /\ l \in Known /\ schedule[l] # <<>>
      /\ work = schedule[l][1] /\ 1 \in DOMAIN schedule[l]
      /\ phase = "patching" /\ phase' = "patching"
  <2>1. work \in Work /\ l \in Known /\ schedule[l] # <<>> /\ work = schedule[l][1]
    BY HeadWork
  <2>2. schedule[l] \in Seq(Work)
    BY DEF TypeOK
  <2>3. 1 \in DOMAIN schedule[l]
    BY <2>1, <2>2
  <2>4. QED
    BY <2>1, <2>3 DEF Running, AtSymbol, DuringPatching
<1>2. /\ \A k \in Labels : \A i \in DOMAIN schedule'[k] :
           \E j \in DOMAIN schedule[k] : schedule'[k][i] = schedule[k][j]
      /\ \A k \in Labels : \A i \in DOMAIN schedule[k] :
           \/ k = l /\ i = 1
           \/ \E j \in DOMAIN schedule'[k] : schedule'[k][j] = schedule[k][i]
  BY <1>1, TakeWorkTakes
<1>3. output' = output /\ base' = base
  BY DEF DuringPatching, layoutVars, sectionVars
<1>4. \A k \in Known : k \in Known' /\ AddressOf(k)' = AddressOf(k)
  BY <1>3 DEF SymbolsStay, AddressOf
<1>5. ItemsAreSingle'
  BY <1>3 DEF ReferenceInv, ItemsAreSingle
<1>6. SitesOwnItems'
  BY <1>2, <1>3 DEF ReferenceInv, SitesOwnItems
<1>7. ReferencesPendingOrDone'
  <2> SUFFICES ASSUME NEW s \in SectionNames, NEW x \in output[s], NEW k \in x.refs,
                      x.kind = "code"
               PROVE  Pending(s, x, k)' \/ Done(s, x, k)'
    BY <1>3 DEF ReferencesPendingOrDone
  <2> DEFINE here == [sec |-> s, off |-> x.off]
             there == [sec |-> work.sec, off |-> work.off]
  <2>1. k \in Labels
    BY DEF TypeOK, Item
  <2>2. here = there => work.sec = s /\ work.off = x.off
    OBVIOUS
  <2>3. CASE Done(s, x, k)
    <3>1. k \in Known /\ here \in DOMAIN patched /\ patched[here] = AddressOf(k)
      BY <2>3 DEF Done
    <3>2. here \in DOMAIN patched' /\ patched'[here] = AddressOf(k)
      <4>1. CASE UNCHANGED patched
        BY <3>1, <4>1
      <4>2. CASE /\ Store(work, value) /\ work.kind \in Patches
                 /\ work.kind # "size" => value = AddressOf(l)
        <5>1. CASE here = there
          <6>1. k = l /\ work.kind # "size"
            BY <1>1, <2>2, <4>2, <5>1, SameLocation
          <6>2. here \in DOMAIN patched' /\ patched'[here] = value
            BY <4>2, <5>1 DEF Store
          <6>3. QED
            BY <4>2, <6>1, <6>2
        <5>2. CASE here # there
          BY <3>1, <4>2, <5>2 DEF Store
        <5>3. QED
          BY <5>1, <5>2
      <4>3. QED
        BY <4>1, <4>2
    <3>3. QED
      BY <1>1, <1>4, <3>1, <3>2 DEF Done
  <2>4. CASE Pending(s, x, k)
    <3>1. PICK i \in DOMAIN schedule[k] :
            /\ schedule[k][i].kind \in {"patch", "jump"}
            /\ schedule[k][i].sec = s
            /\ schedule[k][i].off = x.off
      BY <2>4 DEF Pending
    <3>2. CASE k = l /\ i = 1
      <4>1. work.kind \in {"patch", "jump"} /\ here = there
        BY <1>1, <3>1, <3>2
      <4>2. Store(work, value) /\ value = AddressOf(l)
        BY <4>1
      <4>3. here \in DOMAIN patched' /\ patched'[here] = AddressOf(k)
        BY <3>2, <4>1, <4>2 DEF Store
      <4>4. QED
        BY <1>1, <1>4, <3>2, <4>3 DEF Done
    <3>3. CASE \E j \in DOMAIN schedule'[k] : schedule'[k][j] = schedule[k][i]
      BY <3>1, <3>3 DEF Pending
    <3>4. QED
      BY <1>2, <2>1, <3>2, <3>3
  <2>5. QED
    BY <2>3, <2>4 DEF ReferenceInv, ReferencesPendingOrDone
<1>8. QED
  BY <1>1, <1>5, <1>6, <1>7 DEF ReferenceInv

\* A step that outputs, schedules and patches nothing, and moves no address
\* that a patch has used.
LEMMA QuietReferences ==
  ASSUME ReferenceInv, UNCHANGED <<output, schedule, patched, lookup, base>>,
         phase \in {"patching", "finished", "failed"}
           => phase' \in {"patching", "finished", "failed"},
         phase' = "finished" => \A l \in Labels : schedule[l] = <<>>
  PROVE  ReferenceInv'
BY DEF ReferenceInv, ItemsAreSingle, SitesOwnItems, ReferencesPendingOrDone, Pending,
       Done, Known, AddressOf

\* Before patching, symbols and base addresses may change.
LEMMA EarlyReferences ==
  ASSUME ReferenceInv, UNCHANGED <<output, schedule>>,
         phase \notin {"patching", "finished", "failed"}, phase' # "finished"
  PROVE  ReferenceInv'
<1>1. \A s \in SectionNames : \A x \in output[s] : \A l \in x.refs :
        x.kind = "code" => Pending(s, x, l)
  BY OnlyPending
<1>2. ReferencesPendingOrDone'
  BY <1>1 DEF ReferencesPendingOrDone, Pending
<1>3. QED
  BY <1>2 DEF ReferenceInv, ItemsAreSingle, SitesOwnItems

LEMMA ReferenceStep ==
  ASSUME TypeOK, ItemsDisjoint, ReferenceInv, Unshrunk', [Next]_vars
  PROVE  ReferenceInv'
<1>1. CASE Statement
  BY <1>1, ShrunkStays, StatementReferences
<1>2. CASE EndOfProgram \/ FlushSection \/ StartResolving \/ StartPatching
  BY <1>2, EarlyReferences
     DEF EndOfProgram, FlushSection, StartResolving, StartPatching, contentVars
<1>3. CASE ResolveSection
  BY <1>3, EarlyReferences DEF ResolveSection, asmVars, contentVars
<1>4. CASE Finished
  BY <1>4, QuietReferences DEF Finished, layoutVars, sectionVars, contentVars
<1>5. CASE RunWork
  <2>1. SymbolsStay
    BY <1>5, WorkStays
  <2>2. ASSUME Fail, phase = "patching" PROVE ReferenceInv'
    BY <2>2, QuietReferences DEF Fail, layoutVars, sectionVars, contentVars
  <2>3. ASSUME NEW l \in Labels, NEW work, PatchInstruction(l, work)
        PROVE  ReferenceInv'
    <3>1. work.kind # "size" /\ work.kind \in Patches
      BY <2>3 DEF PatchInstruction, Patches
    <3>2. /\ Running(l, work) /\ TakeWork(l) /\ DuringPatching
          /\ Store(work, AddressOf(l))
      BY <2>3 DEF PatchInstruction
    <3>3. QED
      BY <2>1, <3>1, <3>2, PatchingReferences
  <2>4. ASSUME NEW l \in Labels, NEW work, PatchSize(l, work)
        PROVE  ReferenceInv'
    <3>1. work.kind = "size" /\ work.kind \in Patches
      BY <2>4 DEF PatchSize, Patches
    <3>2. /\ Running(l, work) /\ TakeWork(l) /\ DuringPatching
          /\ Store(work, SizeValue(l, work))
      BY <2>4 DEF PatchSize
    <3>3. QED
      BY <2>1, <3>1, <3>2, PatchingReferences
  <2>5. ASSUME NEW l \in Labels, NEW work, SetFunction(l, work) \/ AssignType(l, work)
        PROVE  ReferenceInv'
    <3>1. work.kind \notin {"patch", "jump"}
      BY <2>5 DEF SetFunction, AssignType
    <3>2. /\ Running(l, work) /\ TakeWork(l) /\ DuringPatching
          /\ UNCHANGED patched
      BY <2>5 DEF SetFunction, AssignType
    <3>3. QED
      BY <2>1, <3>1, <3>2, PatchingReferences
  <2>6. QED
    BY <1>5, <2>2, <2>3, <2>4, <2>5
       DEF RunWork, AtSymbol, PatchFails, UnknownSymbol
<1>6. CASE UNCHANGED vars
  <2>1. UNCHANGED <<output, schedule, patched, lookup, base, phase>>
    BY <1>6 DEF vars, asmVars, contentVars, layoutVars, sectionVars
  <2>2. QED
    BY <2>1, QuietReferences DEF ReferenceInv
<1>7. QED
  BY <1>1, <1>2, <1>3, <1>4, <1>5, <1>6 DEF Next, Finish, Terminated

-----------------------------------------------------------------------------
(***************************************************************************)
(* Every symbol is in a section that resolve_base_addresses places.        *)
(***************************************************************************)

Exists(s) == \E i \in DOMAIN order : order[i] = s

PlacedInv ==
  /\ Exists(current)
  /\ \A l \in Known : Exists(lookup[l].sec)
  /\ \A i \in Visited : order[i] \in hasBase
  /\ phase \in {"patching", "finished"} => \A i \in DOMAIN order : order[i] \in hasBase

\* A statement only adds to the sections and the base addresses, and gives new
\* symbols the current section.
StatementPlaces ==
  /\ \A i \in DOMAIN order : i \in DOMAIN order' /\ order'[i] = order[i]
  /\ Exists(current)'
  /\ \A l \in Known' :
       \/ l \in Known /\ lookup'[l] = lookup[l]
       \/ lookup'[l].sec = current
  /\ idx' = idx
  /\ hasBase \subseteq hasBase'
  /\ phase' \in {"assembling", "failed"}

LEMMA StatementPlacesHold ==
  ASSUME TypeOK, PlacedInv, Statement
  PROVE  StatementPlaces
<1>1. ASSUME NEW at, OutputLabels(at)
      PROVE  \A l \in Known' : \/ l \in Known /\ lookup'[l] = lookup[l]
                               \/ lookup'[l].sec = current
  BY <1>1 DEF OutputLabels, WithSymbols, Known
<1>2. ASSUME NEW kind, Consume(kind), SameSections, UNCHANGED phase,
             (\E at : OutputLabels(at)) \/ UNCHANGED lookup
      PROVE  StatementPlaces
  <2>1. \A l \in Known' : \/ l \in Known /\ lookup'[l] = lookup[l]
                          \/ lookup'[l].sec = current
    BY <1>1, <1>2 DEF Known
  <2>2. QED
    BY <1>2, <2>1 DEF StatementPlaces, PlacedInv, SameSections, Consume, Reading,
                      cursorVars, Exists
<1>3. CASE Fail
  BY <1>3 DEF Fail, layoutVars, sectionVars, cursorVars, contentVars, Known, Exists,
              StatementPlaces, PlacedInv
<1>4. ASSUME NEW s \in SectionNames, SetSection(s) PROVE StatementPlaces
  <2>1. order \in Seq(SectionNames)
    BY DEF TypeOK, LayoutTypeOK
  <2>2. /\ \A i \in DOMAIN order : i \in DOMAIN order' /\ order'[i] = order[i]
        /\ \E i \in DOMAIN order' : order'[i] = s
    <3>1. CASE \E i \in DOMAIN order : order[i] = s
      BY <1>4, <3>1 DEF SetSection
    <3>2. CASE ~ \E i \in DOMAIN order : order[i] = s
      <4>1. order' = Append(order, s)
        BY <1>4, <3>2 DEF SetSection
      <4>2. /\ DOMAIN order' = 1 .. (Len(order) + 1)
            /\ order'[Len(order) + 1] = s
            /\ \A i \in 1 .. Len(order) : order'[i] = order[i]
            /\ DOMAIN order = 1 .. Len(order) /\ Len(order) \in Nat
        BY <2>1, <4>1
      <4>3. QED
        BY <4>2
    <3>3. QED
      BY <3>1, <3>2
  <2>3. QED
    BY <1>4, <2>2 DEF SetSection, KeepLabels, Consume, Reading, cursorVars, Known,
                      Exists, StatementPlaces
<1>5. ASSUME NEW b \in Bases, Org(b) PROVE StatementPlaces
  BY <1>5 DEF Org, KeepLabels, Consume, Reading, cursorVars, Known, Exists,
              StatementPlaces, PlacedInv
<1>6. CASE \/ \E l \in Labels :
                \/ Label(l)
                \/ \E form \in Forms : Reference(l, form)
                \/ EndFunction(l)
                \/ SizeOf(l)
                \/ \E t \in {"object", "func"} : SetType(l, t)
           \/ \E words \in CodeLengths : Instruction(words)
           \/ \E w \in Widths : DataConstant(w)
           \/ DataByte
  BY <1>2, <1>6
     DEF Label, Reference, EndFunction, SizeOf, SetType, Instruction, DataConstant,
         DataByte, AlignedOutput, KeepLabels
<1>7. CASE \/ \E w \in Widths, times \in Counts : Reserve(w, times)
           \/ \E times \in Counts : ReserveBytes(times)
           \/ \E len \in Lengths : Bytes(len)
           \/ \E a \in Alignments : Align(a)
           \/ FinishLabels
           \/ \E flag \in {"execonly", "readonly"} : SetAttribute(flag)
  BY <1>2, <1>7
     DEF Reserve, ReserveBytes, Bytes, Align, FinishLabels, SetAttribute,
         AlignedOutput, KeepLabels
<1>8. CASE Back
  BY <1>2, <1>8, BackShortens DEF KeepLabels
<1>9. QED
  BY <1>3, <1>4, <1>5, <1>6, <1>7, <1>8 DEF Statement, OrgTooLate, Reject, NoRoom, Back

LEMMA PlacedStep ==
  ASSUME TypeOK, PlacedInv, [Next]_vars
  PROVE  PlacedInv'
<1>1. /\ order \in Seq(SectionNames) /\ idx \in 1 .. (Len(order) + 1)
      /\ DOMAIN order = 1 .. Len(order) /\ Len(order) \in Nat
  BY DEF TypeOK, LayoutTypeOK
<1>2. CASE Statement
  <2>1. StatementPlaces
    BY <1>2, StatementPlacesHold
  <2>2. \A s : Exists(s) => \E i \in DOMAIN order' : order'[i] = s
    BY <2>1 DEF StatementPlaces, Exists
  <2>3. \A i \in Visited' : order'[i] \in hasBase'
    BY <1>1, <2>1 DEF StatementPlaces, PlacedInv, Visited
  <2>4. \A l \in Known' : \E i \in DOMAIN order' : order'[i] = lookup'[l].sec
    BY <2>1, <2>2 DEF StatementPlaces, PlacedInv
  <2>5. QED
    BY <2>1, <2>3, <2>4 DEF StatementPlaces, PlacedInv, Exists
<1>3. CASE EndOfProgram \/ StartResolving \/ Finished
  BY <1>3 DEF EndOfProgram, StartResolving, Finished, contentVars, layoutVars,
              sectionVars, cursorVars, PlacedInv, Known, Visited, Exists
<1>4. CASE StartPatching
  BY <1>1, <1>4 DEF StartPatching, Resolved, contentVars, layoutVars,
              sectionVars, cursorVars, PlacedInv, Known, Visited, Exists
<1>5. CASE FlushSection
  <2>1. \A l \in Known' : \/ l \in Known /\ lookup'[l] = lookup[l]
                          \/ lookup'[l].sec = current
    BY <1>5 DEF FlushSection, WithSymbols, Known
  <2>2. QED
    BY <1>5, <2>1 DEF FlushSection, layoutVars, sectionVars, cursorVars, PlacedInv,
                      Visited, Exists
<1>6. CASE ResolveSection
  <2>1. PICK s \in SectionNames : Visiting(s) /\ \E start : AdvancePast(s, start)
    BY <1>6 DEF ResolveSection, ResolveStep, KeepBase, PlaceNext
  <2>2. Visited' = Visited \cup {idx} /\ order[idx] = s
    BY <1>1, <2>1 DEF Visiting, AdvancePast, Visited
  <2>3. \A i \in Visited' : order'[i] \in hasBase'
    BY <2>1, <2>2 DEF AdvancePast, PlacedInv
  <2>4. QED
    BY <1>6, <2>1, <2>3 DEF ResolveSection, ResolveStep, AdvancePast, asmVars,
                            contentVars, PlacedInv, Known, Exists
<1>7. CASE RunWork
  <2>1. /\ UNCHANGED <<order, hasBase, idx, current>>
        /\ phase = "patching"
        /\ Known' = Known
    BY <1>7 DEF RunWork, AtSymbol, PatchInstruction, PatchSize, SetFunction,
                AssignType, PatchFails, UnknownSymbol, Fail, DuringPatching,
                contentVars, layoutVars, sectionVars, cursorVars, Known
  <2>2. \A l \in Known : lookup'[l].sec = lookup[l].sec
    BY <1>7, WorkStays DEF SymbolsStay
  <2>3. QED
    BY <2>1, <2>2 DEF PlacedInv, Visited, Exists
<1>8. CASE UNCHANGED vars
  BY <1>8 DEF vars, asmVars, contentVars, layoutVars, sectionVars, cursorVars,
              PlacedInv, Known, Visited, Exists
<1>9. QED
  BY <1>2, <1>3, <1>4, <1>5, <1>6, <1>7, <1>8 DEF Next, Finish, Terminated

-----------------------------------------------------------------------------

LEMMA ReferenceInit ==
  ASSUME Init
  PROVE  ReferenceInv /\ PlacedInv
<1>1. ItemsAreSingle /\ ReferencesPendingOrDone
  BY DEF Init, ItemsAreSingle, ReferencesPendingOrDone
<1>2. SitesOwnItems
  BY DEF Init, SitesOwnItems
<1>3. order = <<TextSection>> /\ current = TextSection /\ idx = 1 /\ DOMAIN lookup = {}
  BY DEF Init, CursorInit
<1>4. PlacedInv
  BY <1>3 DEF Init, PlacedInv, Known, Exists, Visited
<1>5. QED
  BY <1>1, <1>2, <1>4 DEF Init, ReferenceInv

LEMMA ReferenceInvariant ==
  Spec => []((Unshrunk => ReferenceInv) /\ PlacedInv)
<1>1. Init => ReferenceInv /\ PlacedInv
  BY ReferenceInit
<1>2. /\ AsmInv /\ ItemsDisjoint
      /\ (Unshrunk => ReferenceInv) /\ PlacedInv
      /\ [Next]_vars
      => ((Unshrunk => ReferenceInv) /\ PlacedInv)'
  BY ShrunkStays, ReferenceStep, PlacedStep DEF AsmInv
<1>3. QED
  BY <1>1, <1>2, AsmInvariant, ItemsNeverOverlap, PTL DEF Spec

(***************************************************************************)
(* The location a closure captured before its instruction was output is    *)
(* the start of that instruction when the closure runs, for every program  *)
(* that makes no section shorter.                                          *)
(***************************************************************************)
THEOREM SitesStay == Spec => [](shrunk = {} => SiteOwnsItem)
<1>1. (Unshrunk => ReferenceInv) => (shrunk = {} => SiteOwnsItem)
  BY DEF Unshrunk, ReferenceInv, SitesOwnItems, Owns, SiteOwnsItem
<1>2. QED
  BY <1>1, ReferenceInvariant, PTL

(***************************************************************************)
(* When finish returns, every instruction that refers to a label holds the *)
(* address of the label, in a section that has a base address: for every   *)
(* program that makes no section shorter, with any number of sections,     *)
(* labels and references, forwards and backwards.                          *)
(***************************************************************************)
THEOREM ReferencesAreResolved == Spec => [](shrunk = {} => ReferencesResolved)
<1>1. /\ AsmInv /\ (Unshrunk => ReferenceInv) /\ PlacedInv
      => (shrunk = {} => ReferencesResolved)
  <2> SUFFICES ASSUME AsmInv, ReferenceInv, PlacedInv, phase = "finished",
                      NEW s \in SectionNames, NEW x \in output[s], NEW l \in x.refs,
                      x.kind = "code"
               PROVE  /\ l \in Known
                      /\ lookup[l].sec \in hasBase
                      /\ [sec |-> s, off |-> x.off] \in DOMAIN patched
                      /\ patched[[sec |-> s, off |-> x.off]] = AddressOf(l)
    BY DEF ReferencesResolved, Referencing, Unshrunk
  <2>1. l \in Labels /\ schedule[l] = <<>>
    BY DEF AsmInv, TypeOK, Item, ReferenceInv
  <2>2. Done(s, x, l)
    BY <2>1 DEF ReferenceInv, ReferencesPendingOrDone, Pending
  <2>3. lookup[l].sec \in hasBase
    BY <2>2 DEF Done, PlacedInv, Exists
  <2>4. QED
    BY <2>2, <2>3 DEF Done
<1>2. QED
  BY <1>1, AsmInvariant, ReferenceInvariant, PTL

-----------------------------------------------------------------------------
(***************************************************************************)
(* The shapes of a statement                                               *)
(***************************************************************************)

\* An item at `at' takes the queued labels.
TakesLabels(at, len, kind, refs, flag) ==
  /\ at >= Position
  /\ OutputLabels(at)
  /\ AddOutput(at, len, kind, refs, flag)
  /\ UNCHANGED declared

\* Bytes are output without the labels.
PassesLabels(len, kind, flag) ==
  /\ kind \in {"db", "resb"}
  /\ AddOutput(Position, len, kind, {}, flag)
  /\ KeepLabels
  /\ UNCHANGED declared

\* The section is padded.
Pads ==
  /\ \E n \in Nat : n >= Position /\ size' = [size EXCEPT ![current] = n]
  /\ UNCHANGED <<output, declared>>
  /\ KeepLabels

\* Nothing is output.
OutputsNothing ==
  /\ UNCHANGED <<size, output, declared>>
  /\ KeepLabels \/ OutputLabels(Position)

LabelShape ==
  \/ \E at, len \in Nat : \E kind, refs, flag : TakesLabels(at, len, kind, refs, flag)
  \/ \E len \in Nat : \E kind, flag : PassesLabels(len, kind, flag)
  \/ Pads
  \/ OutputsNothing
  \/ \E l \in Labels : Label(l)

LEMMA AlignedTakes ==
  ASSUME TypeOK, NEW alignment \in Nat \ {0}, NEW len \in Nat,
         NEW kind, NEW refs, NEW flag,
         AlignedOutput(alignment, len, kind, refs, flag), UNCHANGED declared
  PROVE  LabelShape
<1>1. /\ AlignUp(Position, alignment) \in Nat
      /\ AlignUp(Position, alignment) >= Position
  BY PositionType, AlignUpBounds
<1>2. QED
  BY <1>1 DEF AlignedOutput, TakesLabels, LabelShape

LEMMA StatementShape ==
  ASSUME TypeOK, Statement, ~Back
  PROVE  LabelShape
<1>1. /\ CodeLengths \subseteq Nat \ {0} /\ Widths \subseteq Nat \ {0}
      /\ Lengths \subseteq Nat
      /\ \A form \in Forms : form.words \in Nat \ {0}
  BY ProgramLengths
<1>2. ASSUME NEW l \in Labels, NEW form \in Forms, Reference(l, form)
      PROVE  LabelShape
  <2>1. 4 * form.words \in Nat
    BY <1>1
  <2>2. QED
    BY <1>2, <2>1, AlignedTakes DEF Reference, historyVars
<1>3. ASSUME NEW l \in Labels, SizeOf(l) PROVE LabelShape
  BY <1>3, AlignedTakes DEF SizeOf, historyVars
<1>4. ASSUME NEW words \in CodeLengths, Instruction(words) PROVE LabelShape
  <2>1. 4 * words \in Nat
    BY <1>1
  <2>2. QED
    BY <1>4, <2>1, AlignedTakes DEF Instruction, historyVars
<1>5. ASSUME NEW w \in Widths, DataConstant(w) PROVE LabelShape
  BY <1>1, <1>5, AlignedTakes DEF DataConstant, historyVars
<1>6. ASSUME NEW w \in Widths, NEW times \in Counts, Reserve(w, times)
      PROVE  LabelShape
  <2>1. PICK len \in Nat : AlignedOutput(w, len, "resv", {}, "resv")
    BY <1>6, ReserveOutputs
  <2>2. QED
    BY <1>1, <1>6, <2>1, AlignedTakes DEF Reserve, historyVars
<1>7. ASSUME NEW len \in Lengths, Bytes(len) PROVE LabelShape
  BY <1>1, <1>7, AlignedTakes DEF Bytes, historyVars
<1>8. CASE DataByte
  BY <1>8 DEF DataByte, PassesLabels, LabelShape, historyVars
<1>9. ASSUME NEW times \in Counts, ReserveBytes(times) PROVE LabelShape
  <2>1. PICK len \in Nat : AddOutput(Position, len, "resb", {}, "resv")
    BY <1>9, ReserveBytesOutputs
  <2>2. QED
    BY <1>9, <2>1 DEF ReserveBytes, PassesLabels, LabelShape, historyVars
<1>10. ASSUME NEW a \in Alignments, Align(a) PROVE LabelShape
  <2>1. AlignedSize(Position, a) \in Nat
    BY PositionType, AlignedSizeType
  <2>2. \E n \in Nat : n >= Position /\ size' = [size EXCEPT ![current] = n]
    BY <1>10, <2>1 DEF Align
  <2>3. UNCHANGED <<output, declared>> /\ KeepLabels
    BY <1>10 DEF Align, historyVars
  <2>4. QED
    BY <2>2, <2>3 DEF Pads, LabelShape
<1>11. CASE \/ \E l \in Labels : EndFunction(l) \/ \E t \in {"object", "func"} : SetType(l, t)
            \/ FinishLabels
            \/ \E s \in SectionNames : SetSection(s)
            \/ \E b \in Bases : Org(b) \/ OrgTooLate(b)
            \/ \E flag \in {"execonly", "readonly"} : SetAttribute(flag)
            \/ Reject \/ NoRoom
  BY <1>11 DEF EndFunction, SetType, FinishLabels, SetSection, Org, OrgTooLate, Reject,
               NoRoom, SetAttribute, Fail, NoOutput, KeepLabels, OutputsNothing, LabelShape,
               layoutVars, sectionVars, contentVars, historyVars
<1>12. QED
  BY <1>2, <1>3, <1>4, <1>5, <1>6, <1>7, <1>8, <1>9, <1>10, <1>11
     DEF Back, Statement, LabelShape

\* Only a statement leads to a state in which statements are still read.
LEMMA OnlyStatements ==
  ASSUME TypeOK, [Next]_vars, phase' = "assembling"
  PROVE  Statement \/ UNCHANGED vars
BY DEF Next, EndOfProgram, Finish, FlushSection, StartResolving, ResolveSection,
       StartPatching, RunWork, AtSymbol, PatchInstruction, PatchSize, SetFunction,
       AssignType, PatchFails, UnknownSymbol, Fail, Finished, Terminated,
       DuringPatching, asmVars

-----------------------------------------------------------------------------
(***************************************************************************)
(* Labels attach to the next item                                          *)
(***************************************************************************)

PassedKinds == {"db", "resb"}

\* l was declared in s, and since then only passed items were output to it.
Waits(l, s) ==
  \E d \in declared[l] :
    /\ d.sec = s
    /\ d.off <= size[s]
    /\ \A x \in output[s] : d.off <= x.off => x.kind \in PassedKinds

StandsFor(l) ==
  /\ lookup[l].off <= size[lookup[l].sec]
  /\ BoundBehind(PassedKinds, l, lookup[l].sec, lookup[l].off)

AttachInv ==
  /\ \A s \in SectionNames : \A x \in output[s] : x.off < size[s]
  /\ \A s \in SectionNames : \A l \in queue[s] : Waits(l, s)
  /\ \A l \in Known : StandsFor(l)

\* The state AttachInv speaks of, as the proofs below need it.
LEMMA AttachTypes ==
  ASSUME TypeOK
  PROVE  /\ current \in SectionNames
         /\ size \in [SectionNames -> Nat]
         /\ output \in [SectionNames -> SUBSET Item]
         /\ \A s \in SectionNames : \A x \in output[s] : x.off \in Nat /\ x.len \in Nat
         /\ queue \in [SectionNames -> SUBSET Labels]
         /\ declared \in [Labels -> SUBSET Location]
         /\ \A l \in Labels : \A d \in declared[l] : d.sec \in SectionNames /\ d.off \in Nat
         /\ Known \subseteq Labels
         /\ \A l \in Known : lookup[l].sec \in SectionNames /\ lookup[l].off \in Nat
BY DEF TypeOK, LayoutTypeOK, Item, Location, Symbol

\* What an output at or behind the size leaves as it was.
LEMMA AppendKeeps ==
  ASSUME TypeOK, AttachInv, NEW at \in Nat, NEW len \in Nat, NEW kind, NEW refs, NEW flag,
         at >= Position, AddOutput(at, len, kind, refs, flag), UNCHANGED declared
  PROVE  /\ \A s \in SectionNames : \A x \in output'[s] : x.off < size'[s]
         /\ \A s \in SectionNames : size'[s] \in Nat /\ size[s] <= size'[s]
         /\ size'[current] = at + len
         /\ \A s \in SectionNames \ {current} : output'[s] = output[s]
         /\ \A x \in output'[current] :
              x \in output[current] \/ (x.off = at /\ x.kind = kind)
<1>1. /\ current \in SectionNames
      /\ size \in [SectionNames -> Nat]
      /\ output \in [SectionNames -> SUBSET Item]
      /\ \A s \in SectionNames : \A x \in output[s] : x.off \in Nat
  BY AttachTypes
<1>2. /\ \A s \in SectionNames : size'[s] \in Nat /\ size[s] <= size'[s]
      /\ size'[current] = at + len
      /\ \A s \in SectionNames \ {current} : output'[s] = output[s] /\ size'[s] = size[s]
  BY <1>1 DEF AddOutput, Position
<1>3. \A x \in output'[current] :
        x \in output[current] \/ (x.off = at /\ x.kind = kind /\ len # 0)
  BY <1>1 DEF AddOutput
<1>4. \A s \in SectionNames : \A x \in output'[s] : x.off < size'[s]
  BY <1>1, <1>2, <1>3 DEF AttachInv
<1>5. QED
  BY <1>2, <1>3, <1>4

\* A known symbol goes on standing for what it stood for.
LEMMA StandsStill ==
  ASSUME TypeOK, AttachInv, NEW l \in Known,
         NEW at \in Nat, at >= Position,
         \A s \in SectionNames : size'[s] \in Nat /\ size[s] <= size'[s],
         \A s \in SectionNames \ {current} : output'[s] = output[s],
         \A x \in output'[current] : x \in output[current] \/ x.off = at,
         \A d \in declared[l] : d \in declared'[l],
         l \in Known', lookup'[l].sec = lookup[l].sec, lookup'[l].off = lookup[l].off
  PROVE  StandsFor(l)'
<1> DEFINE s == lookup[l].sec
           off == lookup[l].off
<1>1. /\ s \in SectionNames /\ off \in Nat /\ l \in Labels
      /\ size \in [SectionNames -> Nat]
      /\ \A d \in declared[l] : d.off \in Nat
  BY AttachTypes
<1>2. off <= size[s] /\ size[s] <= size'[s] /\ size'[s] \in Nat
  BY <1>1 DEF AttachInv, StandsFor
<1>3. PICK d \in declared[l] :
        /\ d.sec = s /\ d.off <= off
        /\ \A x \in output[s] : d.off <= x.off /\ x.off < off => x.kind \in PassedKinds
  BY DEF AttachInv, StandsFor, BoundBehind
<1>4. \A x \in output'[s] : x.off < off => x \in output[s]
  BY <1>1, <1>2 DEF Position
<1>5. BoundBehind(PassedKinds, l, s, off)'
  BY <1>3, <1>4 DEF BoundBehind, PassedKinds
<1>6. QED
  BY <1>1, <1>2, <1>5 DEF StandsFor

\* A label that is not passed keeps waiting, in a section that only grows.
LEMMA WaitsOn ==
  ASSUME TypeOK, NEW s \in SectionNames, NEW l \in Labels, Waits(l, s),
         size'[s] \in Nat, size[s] <= size'[s],
         \A x \in output'[s] : x \in output[s] \/ x.kind \in PassedKinds,
         \A d \in declared[l] : d \in declared'[l]
  PROVE  Waits(l, s)'
<1>1. PICK d \in declared[l] :
        /\ d.sec = s /\ d.off <= size[s]
        /\ \A x \in output[s] : d.off <= x.off => x.kind \in PassedKinds
  BY DEF Waits
<1>2. size[s] \in Nat /\ d.off \in Nat
  BY AttachTypes
<1>3. d.off <= size'[s]
  BY <1>1, <1>2
<1>4. QED
  BY <1>1, <1>3 DEF Waits, PassedKinds

\* The labels that waited in the current section come to stand for `at'.
LEMMA Attached ==
  ASSUME TypeOK, AttachInv, NEW at \in Nat, at >= Position, OutputLabels(at),
         \A s \in SectionNames : size'[s] \in Nat /\ size[s] <= size'[s],
         at <= size'[current],
         \A s \in SectionNames \ {current} : output'[s] = output[s],
         \A x \in output'[current] : x \in output[current] \/ x.off = at,
         UNCHANGED declared
  PROVE  /\ \A s \in SectionNames : \A l \in queue'[s] : Waits(l, s)'
         /\ \A l \in Known' : StandsFor(l)'
<1>1. /\ current \in SectionNames
      /\ queue \in [SectionNames -> SUBSET Labels]
      /\ size \in [SectionNames -> Nat]
      /\ Known \subseteq Labels
  BY AttachTypes
<1>2. ASSUME NEW s \in SectionNames, NEW l \in queue'[s] PROVE Waits(l, s)'
  <2>1. s # current /\ l \in queue[s] /\ l \in Labels
    BY <1>1, <1>2 DEF OutputLabels
  <2>2. Waits(l, s)
    BY <2>1 DEF AttachInv
  <2>3. QED
    BY <2>1, <2>2, WaitsOn
<1>3. ASSUME NEW l \in Known' PROVE StandsFor(l)'
  <2>1. CASE l \in Known
    <3>1. /\ lookup'[l].sec = lookup[l].sec
          /\ lookup'[l].off = lookup[l].off
      BY <2>1 DEF OutputLabels, WithSymbols, Known
    <3>2. QED
      BY <1>1, <1>3, <2>1, <3>1, StandsStill
  <2>2. CASE l \notin Known
    <3>1. /\ l \in queue[current] /\ l \in Labels
          /\ lookup'[l].sec = current /\ lookup'[l].off = at
      BY <1>1, <1>3, <2>2 DEF OutputLabels, WithSymbols, Known
    <3>2. PICK d \in declared[l] :
            /\ d.sec = current /\ d.off <= size[current]
            /\ \A x \in output[current] : d.off <= x.off => x.kind \in PassedKinds
      BY <1>1, <3>1 DEF AttachInv, Waits
    <3>3. d.off \in Nat /\ d.off <= at
      BY <1>1, <3>1, <3>2, AttachTypes DEF Position
    <3>4. \A x \in output'[current] : d.off <= x.off /\ x.off < at => x.kind \in PassedKinds
      BY <3>2
    <3>5. QED
      BY <3>1, <3>2, <3>3, <3>4 DEF StandsFor, BoundBehind
  <2>3. QED
    BY <2>1, <2>2
<1>4. QED
  BY <1>2, <1>3

LEMMA AttachStep ==
  ASSUME TypeOK, AttachInv, LabelShape
  PROVE  AttachInv'
<1>1. /\ current \in SectionNames
      /\ size \in [SectionNames -> Nat]
      /\ queue \in [SectionNames -> SUBSET Labels]
      /\ Known \subseteq Labels
      /\ Position \in Nat /\ Position = size[current]
      /\ \A s \in SectionNames : size[s] \in Nat
  BY AttachTypes DEF Position
<1>2. ASSUME NEW at \in Nat, NEW len \in Nat, NEW kind, NEW refs, NEW flag,
             TakesLabels(at, len, kind, refs, flag)
      PROVE  AttachInv'
  <2>1. /\ \A s \in SectionNames : \A x \in output'[s] : x.off < size'[s]
        /\ \A s \in SectionNames : size'[s] \in Nat /\ size[s] <= size'[s]
        /\ size'[current] = at + len
        /\ \A s \in SectionNames \ {current} : output'[s] = output[s]
        /\ \A x \in output'[current] : x \in output[current] \/ x.off = at
    BY <1>2, AppendKeeps DEF TakesLabels
  <2>2. at <= size'[current]
    BY <2>1
  <2>3. /\ \A s \in SectionNames : \A l \in queue'[s] : Waits(l, s)'
        /\ \A l \in Known' : StandsFor(l)'
    BY <1>2, <2>1, <2>2, Attached DEF TakesLabels
  <2>4. QED
    BY <2>1, <2>3 DEF AttachInv
<1>3. ASSUME KeepLabels, UNCHANGED declared,
             \A s \in SectionNames : size'[s] \in Nat /\ size[s] <= size'[s],
             \A s \in SectionNames : \A x \in output'[s] : x.off < size'[s],
             \A s \in SectionNames \ {current} : output'[s] = output[s],
             \A x \in output'[current] :
               x \in output[current] \/ (x.off = Position /\ x.kind \in PassedKinds)
      PROVE  AttachInv'
  <2>1. ASSUME NEW s \in SectionNames, NEW l \in queue'[s] PROVE Waits(l, s)'
    <3>1. l \in Labels /\ Waits(l, s)
      BY <1>1, <1>3, <2>1 DEF KeepLabels, AttachInv
    <3>2. QED
      BY <1>3, <3>1, WaitsOn
  <2>2. ASSUME NEW l \in Known' PROVE StandsFor(l)'
    <3>1. l \in Known /\ lookup' = lookup
      BY <1>3, <2>2 DEF KeepLabels, Known
    <3>2. QED
      BY <1>1, <1>3, <2>2, <3>1, StandsStill
  <2>3. QED
    BY <1>3, <2>1, <2>2 DEF AttachInv
<1>4. ASSUME NEW len \in Nat, NEW kind, NEW flag, PassesLabels(len, kind, flag)
      PROVE  AttachInv'
  <2>1. /\ \A s \in SectionNames : \A x \in output'[s] : x.off < size'[s]
        /\ \A s \in SectionNames : size'[s] \in Nat /\ size[s] <= size'[s]
        /\ \A s \in SectionNames \ {current} : output'[s] = output[s]
        /\ \A x \in output'[current] :
             x \in output[current] \/ (x.off = Position /\ x.kind = kind)
    BY <1>1, <1>4, AppendKeeps DEF PassesLabels
  <2>2. QED
    BY <1>3, <1>4, <2>1 DEF PassesLabels, PassedKinds
<1>5. CASE Pads
  <2>1. PICK n \in Nat : n >= Position /\ size' = [size EXCEPT ![current] = n]
    BY <1>5 DEF Pads
  <2>2. \A s \in SectionNames : size'[s] \in Nat /\ size[s] <= size'[s]
    BY <1>1, <2>1
  <2>3. \A s \in SectionNames : \A x \in output'[s] : x.off < size'[s]
    BY <1>1, <1>5, <2>2, AttachTypes DEF Pads, AttachInv
  <2>4. QED
    BY <1>3, <1>5, <2>2, <2>3 DEF Pads
<1>6. CASE OutputsNothing
  <2>1. /\ UNCHANGED <<size, output, declared>>
        /\ \A s \in SectionNames : size'[s] \in Nat /\ size[s] <= size'[s]
        /\ \A s \in SectionNames : \A x \in output'[s] : x.off < size'[s]
    BY <1>1, <1>6 DEF OutputsNothing, AttachInv
  <2>2. CASE KeepLabels
    BY <1>3, <2>1, <2>2
  <2>3. CASE OutputLabels(Position)
    <3>1. /\ \A s \in SectionNames : \A l \in queue'[s] : Waits(l, s)'
          /\ \A l \in Known' : StandsFor(l)'
      BY <1>1, <2>1, <2>3, Attached
    <3>2. QED
      BY <2>1, <3>1 DEF AttachInv
  <2>4. QED
    BY <1>6, <2>2, <2>3 DEF OutputsNothing
<1>7. ASSUME NEW k \in Labels, Label(k) PROVE AttachInv'
  <2> DEFINE here == [sec |-> current, off |-> Position]
  <2>1. /\ UNCHANGED <<size, output, lookup>>
        /\ queue' = [queue EXCEPT ![current] = @ \cup {k}]
        /\ declared' = [declared EXCEPT ![k] = @ \cup {here}]
    BY <1>7 DEF Label, NoOutput
  <2>2. /\ \A l \in Labels : \A d \in declared[l] : d \in declared'[l]
        /\ here \in declared'[k]
    BY <2>1, AttachTypes
  <2>3. \A s \in SectionNames : \A x \in output'[s] : x.off < size'[s]
    BY <2>1 DEF AttachInv
  <2>4. ASSUME NEW s \in SectionNames, NEW l \in queue'[s] PROVE Waits(l, s)'
    <3>1. CASE l \in queue[s]
      <4>1. l \in Labels /\ Waits(l, s)
        BY <1>1, <3>1 DEF AttachInv
      <4>2. QED
        BY <1>1, <2>1, <2>2, <4>1, WaitsOn
    <3>2. CASE l \notin queue[s]
      <4>1. l = k /\ s = current
        BY <1>1, <2>1, <2>4, <3>2
      <4>2. here.sec = s /\ here.off = size'[s] /\ here.off <= size'[s]
        BY <1>1, <2>1, <4>1
      <4>3. \A x \in output'[s] : ~(here.off <= x.off)
        BY <1>1, <2>1, <2>3, <4>2, AttachTypes
      <4>4. QED
        BY <2>2, <4>1, <4>2, <4>3 DEF Waits
    <3>3. QED
      BY <3>1, <3>2
  <2>5. ASSUME NEW l \in Known' PROVE StandsFor(l)'
    <3>1. l \in Known /\ l \in Labels
      BY <1>1, <2>1, <2>5 DEF Known
    <3>2. QED
      BY <1>1, <2>1, <2>2, <2>5, <3>1, StandsStill
  <2>6. QED
    BY <2>3, <2>4, <2>5 DEF AttachInv
<1>8. QED
  BY <1>2, <1>4, <1>5, <1>6, <1>7 DEF LabelShape

(***************************************************************************)
(* A label that becomes known while assembling stands for the next item    *)
(* output to its own section, for any number of statements, sections and   *)
(* labels (section.cpp:9-11, 37-44), as long as no operand of .align or of *)
(* a reservation has made a section shorter.                               *)
(***************************************************************************)
THEOREM LabelsAttach == Spec => [](shrunk = {} => LabelsAttachToNextItem)
<1> DEFINE Inv == Unshrunk /\ phase = "assembling" => AttachInv
<1>1. Init => Inv
  BY DEF Init, AttachInv, Known
<1>2. ASSUME TypeOK, Inv, [Next]_vars PROVE Inv'
  <2>1. SUFFICES ASSUME Unshrunk', phase' = "assembling" PROVE AttachInv'
    OBVIOUS
  <2>2. Unshrunk /\ ~Back
    BY <1>2, <2>1, ShrunkStays
  <2>3. CASE Statement
    <3>1. phase = "assembling"
      BY <2>3, OnlyAssembling
    <3>2. QED
      BY <1>2, <2>2, <2>3, <3>1, StatementShape, AttachStep
  <2>4. CASE UNCHANGED vars
    BY <1>2, <2>1, <2>2, <2>4
       DEF vars, layoutVars, sectionVars, asmVars, contentVars, historyVars, AttachInv,
           Waits, StandsFor, BoundBehind, Known
  <2>5. QED
    BY <1>2, <2>1, <2>3, <2>4, OnlyStatements
<1>3. Inv => (shrunk = {} => LabelsAttachToNextItem)
  BY DEF AttachInv, StandsFor, LabelsAttachToNextItem, PassedKinds, Unshrunk
<1>4. AsmInv /\ Inv /\ [Next]_vars => Inv'
  BY <1>2 DEF AsmInv
<1>5. QED
  BY <1>1, <1>3, <1>4, AsmInvariant, PTL DEF Spec

-----------------------------------------------------------------------------
(***************************************************************************)
(* The base address of code is fixed                                       *)
(***************************************************************************)

HasCode(s) == \E x \in output[s] : x.kind = "code"

\* A section that still holds some of an instruction is not empty.
LEMMA CodeHasSize ==
  ASSUME TypeOK, ItemsDisjoint, NEW s \in SectionNames, HasCode(s)
  PROVE  size[s] \in Nat /\ size[s] > 0
<1>1. PICK x \in output[s] : x.kind = "code"
  BY DEF HasCode
<1>2. x.off \in Nat /\ x.len \in Nat \ {0} /\ size[s] \in Nat
  BY <1>1 DEF TypeOK, LayoutTypeOK, Item
<1>3. x.off + x.len <= size[s]
  BY <1>1 DEF ItemsDisjoint
<1>4. QED
  BY <1>2, <1>3

FixedByCode == \A s \in hasBase : HasCode(s) => base'[s] = base[s]

LEMMA BasesFixed ==
  ASSUME TypeOK, ItemsDisjoint, [Next]_vars
  PROVE  FixedByCode
<1>1. /\ hasBase \subseteq SectionNames
      /\ base \in [SectionNames -> Nat]
      /\ current \in SectionNames
  BY DEF TypeOK, LayoutTypeOK
<1>2. UNCHANGED base => FixedByCode
  BY DEF FixedByCode
<1>3. ASSUME NEW b \in Bases, Org(b) PROVE FixedByCode
  <2>1. ~HasCode(current)
    BY <1>1, <1>3, CodeHasSize DEF Org, Position
  <2>2. \A s \in SectionNames \ {current} : base'[s] = base[s]
    BY <1>1, <1>3 DEF Org
  <2>3. QED
    BY <1>1, <2>1, <2>2 DEF FixedByCode
<1>4. CASE Statement
  <2>1. CASE \E b \in Bases : Org(b)
    BY <1>3, <2>1
  <2>2. CASE Back
    BY <1>2, <2>2, BackShortens DEF SameSections
  <2>3. CASE ~Back /\ ~\E b \in Bases : Org(b)
    BY <1>2, <1>4, <2>3
       DEF Back, Statement, Label, Reference, EndFunction, SizeOf, SetType, Instruction,
           DataConstant, DataByte, Reserve, ReserveBytes, Bytes, Align, FinishLabels,
           SetSection, OrgTooLate, SetAttribute, Reject, NoRoom, Fail, SameSections,
           layoutVars, sectionVars
  <2>4. QED
    BY <2>1, <2>2, <2>3
<1>5. CASE ResolveSection
  <2>1. PICK s \in SectionNames : KeepBase(s) \/ PlaceNext(s)
    BY <1>5 DEF ResolveSection, ResolveStep
  <2>2. QED
    BY <1>1, <2>1 DEF KeepBase, PlaceNext, AdvancePast, FixedByCode
<1>6. CASE EndOfProgram \/ FlushSection \/ StartResolving \/ StartPatching \/ Finished
  BY <1>2, <1>6 DEF EndOfProgram, FlushSection, StartResolving, StartPatching, Finished,
                    layoutVars, sectionVars
<1>7. CASE RunWork
  BY <1>2, <1>7 DEF RunWork, PatchInstruction, PatchSize, SetFunction, AssignType,
                    PatchFails, UnknownSymbol, Fail, DuringPatching, layoutVars, sectionVars
<1>8. CASE UNCHANGED vars
  BY <1>2, <1>8 DEF vars, layoutVars, sectionVars
<1>9. QED
  BY <1>4, <1>5, <1>6, <1>7, <1>8 DEF Next, Finish, Terminated

(***************************************************************************)
(* A section that still holds some of an instruction keeps the base        *)
(* address it has, through every later .org and the whole of finish        *)
(* (directive.cpp:36-41), whatever .align and the reservations did to its  *)
(* size: the check of the size is as good as one of the code.              *)
(***************************************************************************)
THEOREM CodeKeepsBase == Spec => BaseFixedByCode
<1>1. AsmInv /\ ItemsDisjoint /\ [Next]_vars =>
        [\A s \in hasBase :
           (\E x \in output[s] : x.kind = "code") => base'[s] = base[s]]_vars
  BY BasesFixed DEF AsmInv, FixedByCode, HasCode
<1>2. QED
  BY <1>1, AsmInvariant, ItemsNeverOverlap, PTL DEF Spec, BaseFixedByCode

-----------------------------------------------------------------------------
(***************************************************************************)
(* The last type wins                                                      *)
(***************************************************************************)

SetsType(work) == work.kind \in {"type", "endfunc"}

\* The type the program gave last is what the last work to set it will set.
TypePending(l) ==
  \E i \in DOMAIN schedule[l] :
    /\ SetsType(schedule[l][i])
    /\ schedule[l][i].type = typed[l]
    /\ \A j \in DOMAIN schedule[l] : j > i => ~SetsType(schedule[l][j])

TypeSettled(l) ==
  /\ \A i \in DOMAIN schedule[l] : ~SetsType(schedule[l][i])
  /\ IF l \in Known THEN lookup[l].type = typed[l] ELSE typed[l] = "notype"

TypesInv == \A l \in Labels : TypePending(l) \/ TypeSettled(l)

\* Symbols keep their type; those that become known have none.
LookupGrows ==
  /\ \A l \in Known : l \in Known' /\ lookup'[l].type = lookup[l].type
  /\ \A l \in Known' \ Known : lookup'[l].type = "notype"

LEMMA GrowsWith ==
  ASSUME (\E names, s, off : lookup' = WithSymbols(names, s, off)) \/ UNCHANGED lookup
  PROVE  LookupGrows
<1>1. CASE UNCHANGED lookup
  BY <1>1 DEF LookupGrows, Known
<1>2. ASSUME NEW names, NEW s, NEW off, lookup' = WithSymbols(names, s, off)
      PROVE  LookupGrows
  BY <1>2 DEF LookupGrows, WithSymbols, Known
<1>3. QED
  BY <1>1, <1>2

LEMMA TypesGrow ==
  ASSUME TypesInv, LookupGrows, UNCHANGED <<schedule, typed>>
  PROVE  TypesInv'
<1>1. ASSUME NEW l \in Labels PROVE TypePending(l)' \/ TypeSettled(l)'
  <2>1. TypePending(l) => TypePending(l)'
    BY DEF TypePending
  <2>2. TypeSettled(l) => TypeSettled(l)'
    BY DEF TypeSettled, LookupGrows
  <2>3. QED
    BY <2>1, <2>2 DEF TypesInv
<1>2. QED
  BY <1>1 DEF TypesInv

\* Work is appended; work that sets the type is what the program said last.
LEMMA TypesScheduled ==
  ASSUME TypeOK, TypesInv, LookupGrows, NEW l \in Labels, NEW work \in Work,
         Schedule(l, work),
         IF SetsType(work) THEN typed' = [typed EXCEPT ![l] = work.type] ELSE UNCHANGED typed
  PROVE  TypesInv'
<1>1. /\ schedule \in [Labels -> Seq(Work)]
      /\ typed \in [Labels -> SymbolTypes]
  BY DEF TypeOK
<1>2. ASSUME NEW k \in Labels, k # l PROVE TypePending(k)' \/ TypeSettled(k)'
  <2>1. schedule'[k] = schedule[k] /\ typed'[k] = typed[k]
    BY <1>1, <1>2 DEF Schedule
  <2>2. TypePending(k) => TypePending(k)'
    BY <2>1 DEF TypePending
  <2>3. TypeSettled(k) => TypeSettled(k)'
    BY <2>1 DEF TypeSettled, LookupGrows
  <2>4. QED
    BY <2>2, <2>3 DEF TypesInv
<1>3. TypePending(l)' \/ TypeSettled(l)'
  <2> DEFINE n == Len(schedule[l])
  <2>1. /\ n \in Nat
        /\ DOMAIN schedule[l] = 1 .. n
        /\ DOMAIN schedule'[l] = 1 .. (n + 1)
        /\ schedule'[l][n + 1] = work
        /\ \A i \in 1 .. n : schedule'[l][i] = schedule[l][i]
    BY <1>1 DEF Schedule
  <2>2. CASE SetsType(work)
    <3>1. typed'[l] = work.type
      BY <1>1, <2>2
    <3>2. n + 1 \in DOMAIN schedule'[l] /\ \A j \in DOMAIN schedule'[l] : ~(j > n + 1)
      BY <2>1
    <3>3. QED
      BY <2>1, <2>2, <3>1, <3>2 DEF TypePending
  <2>3. CASE ~SetsType(work)
    <3>1. CASE TypePending(l)
      <4>1. PICK i \in 1 .. n :
              /\ SetsType(schedule[l][i])
              /\ schedule[l][i].type = typed[l]
              /\ \A j \in 1 .. n : j > i => ~SetsType(schedule[l][j])
        BY <2>1, <3>1 DEF TypePending
      <4>2. \A j \in 1 .. (n + 1) : j > i => ~SetsType(schedule'[l][j])
        <5>1. SUFFICES ASSUME NEW j \in 1 .. (n + 1), j > i
                       PROVE  ~SetsType(schedule'[l][j])
          OBVIOUS
        <5>2. CASE j = n + 1
          BY <2>1, <2>3, <5>2
        <5>3. CASE j \in 1 .. n
          BY <2>1, <4>1, <5>1, <5>3
        <5>4. QED
          BY <2>1, <5>2, <5>3
      <4>3. i \in 1 .. (n + 1)
        BY <2>1
      <4>4. QED
        BY <2>1, <2>3, <4>1, <4>2, <4>3 DEF TypePending
    <3>2. CASE TypeSettled(l)
      <4>1. \A j \in 1 .. (n + 1) : ~SetsType(schedule'[l][j])
        <5>1. SUFFICES ASSUME NEW j \in 1 .. (n + 1)
                       PROVE  ~SetsType(schedule'[l][j])
          OBVIOUS
        <5>2. CASE j = n + 1
          BY <2>1, <2>3, <5>2
        <5>3. CASE j \in 1 .. n
          BY <2>1, <3>2, <5>3 DEF TypeSettled
        <5>4. QED
          BY <2>1, <5>2, <5>3
      <4>2. QED
        BY <2>1, <2>3, <3>2, <4>1 DEF TypeSettled, LookupGrows
    <3>3. QED
      BY <3>1, <3>2 DEF TypesInv
  <2>4. QED
    BY <2>2, <2>3
<1>4. QED
  BY <1>2, <1>3 DEF TypesInv

\* The first work of symbol l is run: it sets the type, or leaves it.
LEMMA TypesTaken ==
  ASSUME TypeOK, TypesInv, NEW l \in Labels, schedule[l] # <<>>, l \in Known,
         TakeWork(l), UNCHANGED typed,
         \A k \in Labels \ {l} :
           (k \in Known' <=> k \in Known) /\ (k \in Known => lookup'[k] = lookup[k]),
         l \in Known',
         lookup'[l].type = IF SetsType(schedule[l][1]) THEN schedule[l][1].type
                           ELSE lookup[l].type
  PROVE  TypesInv'
<1>1. schedule \in [Labels -> Seq(Work)]
  BY DEF TypeOK
<1>2. ASSUME NEW k \in Labels, k # l PROVE TypePending(k)' \/ TypeSettled(k)'
  <2>1. schedule'[k] = schedule[k] /\ typed'[k] = typed[k]
    BY <1>1, <1>2 DEF TakeWork
  <2>2. TypePending(k) => TypePending(k)'
    BY <2>1 DEF TypePending
  <2>3. TypeSettled(k) => TypeSettled(k)'
    BY <1>2, <2>1 DEF TypeSettled
  <2>4. QED
    BY <2>2, <2>3 DEF TypesInv
<1>3. TypePending(l)' \/ TypeSettled(l)'
  <2> DEFINE n == Len(schedule[l])
  <2>1. /\ n \in Nat \ {0}
        /\ DOMAIN schedule[l] = 1 .. n
        /\ DOMAIN schedule'[l] = 1 .. (n - 1)
        /\ \A i \in 1 .. (n - 1) : schedule'[l][i] = schedule[l][i + 1]
    BY <1>1 DEF TakeWork
  <2>2. CASE TypePending(l)
    <3>1. PICK i \in 1 .. n :
            /\ SetsType(schedule[l][i])
            /\ schedule[l][i].type = typed[l]
            /\ \A j \in 1 .. n : j > i => ~SetsType(schedule[l][j])
      BY <2>1, <2>2 DEF TypePending
    <3>2. CASE i = 1
      <4>1. \A j \in 1 .. (n - 1) : ~SetsType(schedule'[l][j])
        <5>1. SUFFICES ASSUME NEW j \in 1 .. (n - 1) PROVE ~SetsType(schedule'[l][j])
          OBVIOUS
        <5>2. j + 1 \in 1 .. n /\ j + 1 > i
          BY <2>1, <3>2
        <5>3. QED
          BY <2>1, <3>1, <5>2
      <4>2. lookup'[l].type = typed'[l]
        BY <3>1, <3>2
      <4>3. QED
        BY <2>1, <4>1, <4>2 DEF TypeSettled
    <3>3. CASE i # 1
      <4>1. i - 1 \in 1 .. (n - 1) /\ schedule'[l][i - 1] = schedule[l][i]
        BY <2>1, <3>3
      <4>2. \A j \in 1 .. (n - 1) : j > i - 1 => ~SetsType(schedule'[l][j])
        <5>1. SUFFICES ASSUME NEW j \in 1 .. (n - 1), j > i - 1
                       PROVE  ~SetsType(schedule'[l][j])
          OBVIOUS
        <5>2. j + 1 \in 1 .. n /\ j + 1 > i
          BY <2>1, <5>1
        <5>3. QED
          BY <2>1, <3>1, <5>2
      <4>3. QED
        BY <2>1, <3>1, <4>1, <4>2 DEF TypePending
    <3>4. QED
      BY <3>2, <3>3
  <2>3. CASE TypeSettled(l)
    <3>1. \A j \in 1 .. n : ~SetsType(schedule[l][j])
      BY <2>1, <2>3 DEF TypeSettled
    <3>2. \A j \in 1 .. (n - 1) : ~SetsType(schedule'[l][j])
      <4>1. SUFFICES ASSUME NEW j \in 1 .. (n - 1) PROVE ~SetsType(schedule'[l][j])
        OBVIOUS
      <4>2. j + 1 \in 1 .. n
        BY <2>1
      <4>3. QED
        BY <2>1, <3>1, <4>2
    <3>3. lookup'[l].type = typed'[l]
      BY <2>1, <2>3, <3>1 DEF TypeSettled
    <3>4. QED
      BY <2>1, <3>2, <3>3 DEF TypeSettled
  <2>4. QED
    BY <2>2, <2>3 DEF TypesInv
<1>4. QED
  BY <1>2, <1>3 DEF TypesInv

LEMMA TypesStatement ==
  ASSUME TypeOK, TypesInv, Statement
  PROVE  TypesInv'
<1>1. /\ Position \in Nat /\ current \in SectionNames
      /\ AlignUp(Position, 4) \in Nat
  BY PositionType, AlignUpBounds
<1>2. ASSUME NEW alignment, NEW len, NEW kind, NEW refs, NEW flag,
             AlignedOutput(alignment, len, kind, refs, flag)
      PROVE  LookupGrows
  BY <1>2, GrowsWith DEF AlignedOutput, OutputLabels
<1>3. KeepLabels => LookupGrows
  BY GrowsWith DEF KeepLabels
<1>4. ASSUME NEW l \in Labels, NEW form \in Forms, Reference(l, form) PROVE TypesInv'
  <2> DEFINE work == [kind |-> IF form.checked THEN "jump" ELSE "patch",
                      sec |-> current, off |-> AlignUp(Position, 4),
                      len |-> 4 * form.patched, pos |-> AlignUp(Position, 4),
                      type |-> "notype"]
  <2>1. 4 * form.patched \in Nat
    BY ProgramAssumption DEF ProgramAssumption, ReferenceForms
  <2>2. work \in Work /\ ~SetsType(work)
    BY <1>1, <2>1 DEF Work, SymbolTypes, SetsType
  <2>3. LookupGrows /\ Schedule(l, work) /\ UNCHANGED typed
    BY <1>2, <1>4 DEF Reference, historyVars
  <2>4. QED
    BY <2>2, <2>3, TypesScheduled
<1>5. ASSUME NEW l \in Labels, SizeOf(l) PROVE TypesInv'
  <2> DEFINE work == [kind |-> "size", sec |-> current, off |-> AlignUp(Position, 4),
                      len |-> 4, pos |-> Position, type |-> "notype"]
  <2>1. work \in Work /\ ~SetsType(work)
    BY <1>1 DEF Work, SymbolTypes, SetsType
  <2>2. LookupGrows /\ Schedule(l, work) /\ UNCHANGED typed
    BY <1>2, <1>5 DEF SizeOf, historyVars
  <2>3. QED
    BY <2>1, <2>2, TypesScheduled
<1>6. ASSUME NEW l \in Labels, EndFunction(l) PROVE TypesInv'
  <2> DEFINE work == [kind |-> "endfunc", sec |-> current, off |-> Position,
                      len |-> 0, pos |-> Position, type |-> "func"]
  <2>1. work \in Work /\ SetsType(work)
    BY <1>1 DEF Work, SymbolTypes, SetsType
  <2>2. LookupGrows /\ Schedule(l, work) /\ typed' = [typed EXCEPT ![l] = work.type]
    BY <1>3, <1>6 DEF EndFunction
  <2>3. QED
    BY <2>1, <2>2, TypesScheduled
<1>7. ASSUME NEW l \in Labels, NEW t \in {"object", "func"}, SetType(l, t) PROVE TypesInv'
  <2> DEFINE work == [kind |-> "type", sec |-> current, off |-> Position, len |-> 0,
                      pos |-> Position, type |-> t]
  <2>1. work \in Work /\ SetsType(work)
    BY <1>1 DEF Work, SymbolTypes, SetsType
  <2>2. LookupGrows /\ Schedule(l, work) /\ typed' = [typed EXCEPT ![l] = work.type]
    BY <1>3, <1>7 DEF SetType
  <2>3. QED
    BY <2>1, <2>2, TypesScheduled
<1>8. CASE \/ \E words \in CodeLengths : Instruction(words)
           \/ \E w \in Widths : DataConstant(w)
           \/ \E w \in Widths, times \in Counts : Reserve(w, times)
           \/ \E len \in Lengths : Bytes(len)
  BY <1>2, <1>8, TypesGrow DEF Instruction, DataConstant, Reserve, Bytes, historyVars
<1>9. CASE FinishLabels
  BY <1>9, GrowsWith, TypesGrow DEF FinishLabels, OutputLabels, historyVars
<1>10. CASE \/ DataByte
            \/ \E times \in Counts : ReserveBytes(times)
            \/ \E a \in Alignments : Align(a)
            \/ \E s \in SectionNames : SetSection(s)
            \/ \E b \in Bases : Org(b)
            \/ \E flag \in {"execonly", "readonly"} : SetAttribute(flag)
  BY <1>3, <1>10, TypesGrow
     DEF DataByte, ReserveBytes, Align, SetSection, Org, SetAttribute, historyVars
<1>11. CASE \/ \E l \in Labels : Label(l)
            \/ \E b \in Bases : OrgTooLate(b)
            \/ Reject \/ NoRoom
  BY <1>11, GrowsWith, TypesGrow
     DEF Label, OrgTooLate, Reject, NoRoom, Fail, contentVars, historyVars
<1>12. CASE Back
  BY <1>12, BackShortens, GrowsWith, TypesGrow DEF OutputLabels, KeepLabels, historyVars
<1>13. QED
  BY <1>4, <1>5, <1>6, <1>7, <1>8, <1>9, <1>10, <1>11, <1>12 DEF Back, Statement

LEMMA TypesWork ==
  ASSUME TypeOK, TypesInv, RunWork
  PROVE  TypesInv'
<1>1. PICK l \in Labels :
        \/ \E work \in {Head(schedule[l])} :
             \/ PatchInstruction(l, work)
             \/ PatchSize(l, work)
             \/ SetFunction(l, work)
             \/ AssignType(l, work)
        \/ Fail
  BY DEF RunWork, PatchFails, UnknownSymbol
<1>2. CASE Fail
  BY <1>2, GrowsWith, TypesGrow DEF Fail, contentVars, historyVars
<1>3. lookup \in [Known -> Symbol]
  BY DEF TypeOK
<1>4. ASSUME NEW work, Running(l, work)
      PROVE  /\ work = schedule[l][1] /\ schedule[l] # <<>> /\ l \in Known
             /\ lookup[l] \in Symbol
  BY <1>3, <1>4, HeadWork
<1>5. ASSUME NEW work, PatchInstruction(l, work) PROVE TypesInv'
  <2>1. Running(l, work) /\ UNCHANGED lookup /\ TakeWork(l) /\ UNCHANGED typed
    BY <1>5 DEF PatchInstruction, DuringPatching, historyVars
  <2>2. ~SetsType(work)
    BY <1>5 DEF PatchInstruction, SetsType
  <2>3. QED
    BY <1>4, <2>1, <2>2, TypesTaken DEF Known
<1>6. ASSUME NEW work, PatchSize(l, work) PROVE TypesInv'
  <2>1. Running(l, work) /\ TakeWork(l) /\ UNCHANGED typed /\ ~SetsType(work)
    BY <1>6 DEF PatchSize, DuringPatching, historyVars, SetsType
  <2>2. lookup' = [lookup EXCEPT ![l].size = SizeValue(l, work)]
    BY <1>6 DEF PatchSize
  <2>3. /\ Known' = Known
        /\ lookup'[l].type = lookup[l].type
        /\ \A k \in Labels \ {l} : k \in Known => lookup'[k] = lookup[k]
    BY <1>3, <1>4, <2>1, <2>2 DEF Known, Symbol
  <2>4. QED
    BY <1>4, <2>1, <2>3, TypesTaken
<1>7. ASSUME NEW work, SetFunction(l, work) PROVE TypesInv'
  <2>1. Running(l, work) /\ TakeWork(l) /\ UNCHANGED typed /\ SetsType(work)
    BY <1>7 DEF SetFunction, DuringPatching, historyVars, SetsType
  <2>2. lookup' = [lookup EXCEPT
          ![l].size = (base[work.sec] + work.off - AddressOf(l)) % Mod64,
          ![l].type = work.type]
    BY <1>7 DEF SetFunction
  <2>3. /\ Known' = Known
        /\ lookup'[l].type = work.type
        /\ \A k \in Labels \ {l} : k \in Known => lookup'[k] = lookup[k]
    BY <1>3, <1>4, <2>1, <2>2 DEF Known, Symbol
  <2>4. QED
    BY <1>4, <2>1, <2>3, TypesTaken
<1>8. ASSUME NEW work, AssignType(l, work) PROVE TypesInv'
  <2>1. Running(l, work) /\ TakeWork(l) /\ UNCHANGED typed /\ SetsType(work)
    BY <1>8 DEF AssignType, DuringPatching, historyVars, SetsType
  <2>2. lookup' = [lookup EXCEPT ![l].type = work.type]
    BY <1>8 DEF AssignType
  <2>3. /\ Known' = Known
        /\ lookup'[l].type = work.type
        /\ \A k \in Labels \ {l} : k \in Known => lookup'[k] = lookup[k]
    BY <1>3, <1>4, <2>1, <2>2 DEF Known, Symbol
  <2>4. QED
    BY <1>4, <2>1, <2>3, TypesTaken
<1>9. QED
  BY <1>1, <1>2, <1>5, <1>6, <1>7, <1>8

LEMMA TypesStep ==
  ASSUME TypeOK, TypesInv, [Next]_vars
  PROVE  TypesInv'
<1>1. CASE Statement
  BY <1>1, TypesStatement
<1>2. CASE EndOfProgram \/ StartResolving \/ StartPatching \/ Finished
  BY <1>2, GrowsWith, TypesGrow
     DEF EndOfProgram, StartResolving, StartPatching, Finished, contentVars, historyVars
<1>3. CASE FlushSection
  BY <1>3, GrowsWith, TypesGrow DEF FlushSection, historyVars
<1>4. CASE ResolveSection
  BY <1>4, GrowsWith, TypesGrow DEF ResolveSection, asmVars, contentVars, historyVars
<1>5. CASE RunWork
  BY <1>5, TypesWork
<1>6. CASE UNCHANGED vars
  BY <1>6, GrowsWith, TypesGrow DEF vars, asmVars, contentVars, historyVars
<1>7. QED
  BY <1>1, <1>2, <1>3, <1>4, <1>5, <1>6 DEF Next, Finish, Terminated

AllDone == phase = "finished" => \A l \in Labels : schedule[l] = <<>>

LEMMA DoneStep ==
  ASSUME TypeOK, AllDone, [Next]_vars
  PROVE  AllDone'
<1>1. SUFFICES ASSUME phase' = "finished"
               PROVE  Finished \/ UNCHANGED vars
  BY DEF AllDone, Finished, contentVars, vars, asmVars
<1>2. ~Statement
  BY <1>1, OnlyAssembling
<1>3. QED
  BY <1>1, <1>2
     DEF Next, EndOfProgram, Finish, FlushSection, StartResolving, ResolveSection,
         StartPatching, RunWork, AtSymbol, PatchInstruction, PatchSize, SetFunction,
         AssignType, PatchFails, UnknownSymbol, Fail, Terminated, DuringPatching, asmVars

(***************************************************************************)
(* When finish returns, every symbol has the type that the last .type or   *)
(* .endfunc of it gave, wherever that stood before or after the label, and *)
(* whatever else was scheduled on it (directive.cpp:10-18, 46-55).         *)
(***************************************************************************)
THEOREM TypesAreLast == Spec => []LastTypeWins
<1>1. Init => TypesInv /\ AllDone
  BY DEF Init, TypesInv, TypeSettled, Known, AllDone
<1>2. AsmInv /\ TypesInv /\ AllDone /\ [Next]_vars => TypesInv' /\ AllDone'
  BY TypesStep, DoneStep DEF AsmInv
<1>3. AsmInv /\ TypesInv /\ AllDone => LastTypeWins
  BY DEF AsmInv, TypeOK, TypesInv, AllDone, LastTypeWins, TypePending, TypeSettled
<1>4. QED
  BY <1>1, <1>2, <1>3, AsmInvariant, PTL DEF Spec

-----------------------------------------------------------------------------
(***************************************************************************)
(* .size measures what was output                                          *)
(***************************************************************************)

\* A symbol stands for a position of its section that is inside no item.
OutsideItems ==
  \A l \in Known :
    /\ lookup[l].off <= size[lookup[l].sec]
    /\ \A x \in output[lookup[l].sec] :
         x.off < lookup[l].off => x.off + x.len <= lookup[l].off

\* Whatever a step outputs or makes known is at `at', behind what there was.
Grows(at) ==
  /\ at >= Position /\ at <= size'[current]
  /\ \A s \in SectionNames : size'[s] \in Nat /\ size[s] <= size'[s]
  /\ \A s \in SectionNames :
       /\ output[s] \subseteq output'[s]
       /\ \A x \in output'[s] : x \in output[s] \/ (s = current /\ x.off = at)
  /\ \A l \in Known' \ Known : lookup'[l].sec = current /\ lookup'[l].off = at

LEMMA ShapeGrows ==
  ASSUME TypeOK, LabelShape
  PROVE  \E at \in Nat : Grows(at)
<1>1. /\ current \in SectionNames
      /\ size \in [SectionNames -> Nat]
      /\ output \in [SectionNames -> SUBSET Item]
      /\ Position \in Nat /\ Position = size[current]
      /\ \A s \in SectionNames : size[s] \in Nat
  BY AttachTypes DEF Position
<1>2. ASSUME NEW at \in Nat, NEW len \in Nat, NEW kind, NEW refs, NEW flag,
             at >= Position, AddOutput(at, len, kind, refs, flag),
             \A l \in Known' \ Known : lookup'[l].sec = current /\ lookup'[l].off = at
      PROVE  Grows(at)
  <2>1. /\ \A s \in SectionNames : size'[s] \in Nat /\ size[s] <= size'[s]
        /\ size'[current] = at + len
    BY <1>1, <1>2 DEF AddOutput
  <2>2. \A s \in SectionNames :
          /\ output[s] \subseteq output'[s]
          /\ \A x \in output'[s] : x \in output[s] \/ (s = current /\ x.off = at)
    BY <1>1, <1>2 DEF AddOutput
  <2>3. QED
    BY <1>2, <2>1, <2>2 DEF Grows
<1>3. \A at : OutputLabels(at) =>
        \A l \in Known' \ Known : lookup'[l].sec = current /\ lookup'[l].off = at
  BY DEF OutputLabels, WithSymbols, Known
<1>4. KeepLabels => Known' = Known
  BY DEF KeepLabels, Known
<1>5. ASSUME NEW at \in Nat, NEW len \in Nat, NEW kind, NEW refs, NEW flag,
             TakesLabels(at, len, kind, refs, flag)
      PROVE  Grows(at)
  BY <1>2, <1>3, <1>5 DEF TakesLabels
<1>6. ASSUME NEW len \in Nat, NEW kind, NEW flag, PassesLabels(len, kind, flag)
      PROVE  Grows(Position)
  BY <1>1, <1>2, <1>4, <1>6 DEF PassesLabels
<1>7. CASE Pads
  <2>1. PICK n \in Nat : n >= Position /\ size' = [size EXCEPT ![current] = n]
    BY <1>7 DEF Pads
  <2>2. /\ \A s \in SectionNames : size'[s] \in Nat /\ size[s] <= size'[s]
        /\ Position <= size'[current]
    BY <1>1, <2>1
  <2>3. output' = output /\ Known' = Known
    BY <1>4, <1>7 DEF Pads
  <2>4. Grows(Position)
    BY <1>1, <2>2, <2>3 DEF Grows
  <2>5. QED
    BY <1>1, <2>4
<1>8. CASE OutputsNothing
  <2>1. /\ size' = size /\ output' = output
        /\ \A l \in Known' \ Known : lookup'[l].sec = current /\ lookup'[l].off = Position
    BY <1>3, <1>4, <1>8 DEF OutputsNothing
  <2>2. Grows(Position)
    BY <1>1, <2>1 DEF Grows
  <2>3. QED
    BY <1>1, <2>2
<1>9. ASSUME NEW l \in Labels, Label(l) PROVE Grows(Position)
  <2>1. size' = size /\ output' = output /\ Known' = Known
    BY <1>9 DEF Label, NoOutput, Known
  <2>2. QED
    BY <1>1, <2>1 DEF Grows
<1>10. QED
  BY <1>1, <1>5, <1>6, <1>7, <1>8, <1>9 DEF LabelShape

LEMMA OutsideGrows ==
  ASSUME TypeOK, ItemsDisjoint, OutsideItems, SymbolsStay, NEW at \in Nat, Grows(at)
  PROVE  OutsideItems'
<1>1. /\ current \in SectionNames
      /\ \A s \in SectionNames : size[s] \in Nat /\ size'[s] \in Nat /\ size[s] <= size'[s]
      /\ \A s \in SectionNames : \A x \in output[s] : x.off \in Nat /\ x.len \in Nat
      /\ \A l \in Known : lookup[l].sec \in SectionNames /\ lookup[l].off \in Nat
      /\ size[current] <= at /\ at <= size'[current]
  BY AttachTypes DEF Grows, Position
<1>2. SUFFICES ASSUME NEW l \in Known'
               PROVE  /\ lookup'[l].off <= size'[lookup'[l].sec]
                      /\ \A x \in output'[lookup'[l].sec] :
                           x.off < lookup'[l].off => x.off + x.len <= lookup'[l].off
  BY DEF OutsideItems
<1>3. CASE l \in Known
  <2>1. PICK s \in SectionNames, off \in Nat :
          /\ s = lookup[l].sec /\ off = lookup[l].off
          /\ s = lookup'[l].sec /\ off = lookup'[l].off
    BY <1>1, <1>3 DEF SymbolsStay
  <2>2. /\ off <= size[s]
        /\ \A x \in output[s] : x.off < off => x.off + x.len <= off
    BY <1>3, <2>1 DEF OutsideItems
  <2>3. off <= size'[s]
    BY <1>1, <2>2
  <2>4. \A x \in output'[s] : x.off < off => x.off + x.len <= off
    BY <1>1, <2>1, <2>2 DEF Grows
  <2>5. QED
    BY <2>1, <2>3, <2>4
<1>4. CASE l \notin Known
  <2>1. lookup'[l].sec = current /\ lookup'[l].off = at
    BY <1>4 DEF Grows
  <2>2. \A x \in output'[current] : x.off < at => x.off + x.len <= at
    <3>1. ASSUME NEW x \in output'[current], x.off < at PROVE x.off + x.len <= at
      <4>1. x \in output[current]
        BY <1>1, <3>1 DEF Grows
      <4>2. x.off + x.len <= size[current]
        BY <1>1, <4>1 DEF ItemsDisjoint
      <4>3. QED
        BY <1>1, <4>1, <4>2
    <3>2. QED
      BY <3>1
  <2>3. QED
    BY <1>1, <2>1, <2>2
<1>5. QED
  BY <1>3, <1>4

\* Item x of section s was output when the section ended at `pos'.
OutputAt(s, x, pos) ==
  /\ pos \in Nat /\ pos <= x.off /\ x.off <= pos + 3
  /\ x.len = 4
  /\ \A y \in output[s] : y.off < x.off => y.off + y.len <= pos

\* The work for a .size of l captured that end.
ItemOfSize(l, work) ==
  \E x \in output[work.sec] : Owns(x, l, work) /\ OutputAt(work.sec, x, work.pos)

SizesScheduled ==
  \A l \in Labels : \A i \in DOMAIN schedule[l] :
    schedule[l][i].kind = "size" => ItemOfSize(l, schedule[l][i])

\* What a .size of l holds that was output at `off' when its section ended at pos.
Extent(l, s, off, pos) == SizeValue(l, [sec |-> s, off |-> off, pos |-> pos])

SizesStored ==
  \A s \in SectionNames : \A x \in output[s] : \A l \in x.refs :
    x.kind = "data" /\ [sec |-> s, off |-> x.off] \in DOMAIN patched =>
      /\ l \in Known
      /\ \E pos \in Nat :
           /\ OutputAt(s, x, pos)
           /\ patched[[sec |-> s, off |-> x.off]] = Extent(l, s, x.off, pos)

Unpatched == phase \in {"assembling", "flushing", "resolving"} => DOMAIN patched = {}

SizesInv == OutsideItems /\ SizesScheduled /\ Unpatched /\ SizesStored

LEMMA OutputGrows ==
  ASSUME TypeOK, ItemsDisjoint, NEW at \in Nat, Grows(at),
         NEW s \in SectionNames, NEW x \in output[s], NEW pos, OutputAt(s, x, pos)
  PROVE  OutputAt(s, x, pos)'
<1>1. /\ size[s] \in Nat /\ x.off \in Nat
      /\ s = current => at >= size[s]
  BY AttachTypes DEF Grows, Position
<1>2. x.off + 4 <= size[s]
  BY DEF ItemsDisjoint, OutputAt
<1>3. \A y \in output'[s] : y.off < x.off => y \in output[s]
  BY <1>1, <1>2 DEF Grows
<1>4. QED
  BY <1>3 DEF OutputAt

\* Statements that are no .size schedule no work of its kind.
LEMMA OnlySizeOf ==
  ASSUME TypeOK, Statement, ~Back, NEW k \in Labels, NEW i \in DOMAIN schedule'[k],
         schedule'[k][i].kind = "size"
  PROVE  \/ \E l \in Labels : SizeOf(l)
         \/ i \in DOMAIN schedule[k] /\ schedule'[k][i] = schedule[k][i]
<1>1. ASSUME NEW l \in Labels, NEW work \in Work, Schedule(l, work), work.kind # "size"
      PROVE  i \in DOMAIN schedule[k] /\ schedule'[k][i] = schedule[k][i]
  BY <1>1, ScheduleKeeps
<1>2. ASSUME NEW l \in Labels, NEW form \in Forms, Reference(l, form)
      PROVE  i \in DOMAIN schedule[k] /\ schedule'[k][i] = schedule[k][i]
  <2> DEFINE at == AlignUp(Position, 4)
             work == [kind |-> IF form.checked THEN "jump" ELSE "patch",
                      sec |-> current, off |-> at, len |-> 4 * form.patched,
                      pos |-> at, type |-> "notype"]
  <2>1. at \in Nat /\ current \in SectionNames
    BY PositionType, AlignUpBounds
  <2>2. 4 * form.patched \in Nat
    BY ProgramAssumption DEF ProgramAssumption, ReferenceForms
  <2>3. work \in Work /\ work.kind # "size"
    BY <2>1, <2>2 DEF Work, SymbolTypes
  <2>4. Schedule(l, work)
    BY <1>2 DEF Reference
  <2>5. QED
    BY <1>1, <2>3, <2>4
<1>3. ASSUME NEW l \in Labels,
             EndFunction(l) \/ \E t \in {"object", "func"} : SetType(l, t)
      PROVE  i \in DOMAIN schedule[k] /\ schedule'[k][i] = schedule[k][i]
  <2>1. PICK kind \in {"endfunc", "type"}, t \in {"object", "func"} :
          Schedule(l, [kind |-> kind, sec |-> current, off |-> Position, len |-> 0,
                       pos |-> Position, type |-> t])
    BY <1>3 DEF EndFunction, SetType
  <2> DEFINE work == [kind |-> kind, sec |-> current, off |-> Position, len |-> 0,
                      pos |-> Position, type |-> t]
  <2>2. work \in Work /\ work.kind # "size"
    BY PositionType DEF Work, SymbolTypes
  <2>3. QED
    BY <1>1, <2>1, <2>2
<1>4. CASE UNCHANGED schedule
  BY <1>4
<1>5. QED
  BY <1>2, <1>3, <1>4
     DEF Back, Statement, Label, Instruction, DataConstant, DataByte, Reserve,
         ReserveBytes, Bytes, Align, FinishLabels, SetSection, Org, OrgTooLate,
         SetAttribute, Reject, NoRoom, Fail, contentVars

LEMMA SizesGrow ==
  ASSUME TypeOK, ItemsDisjoint, SizesScheduled, Statement, ~Back
  PROVE  SizesScheduled'
<1>1. PICK at \in Nat : Grows(at)
  BY StatementShape, ShapeGrows
<1>2. ASSUME NEW l \in Labels, NEW i \in DOMAIN schedule[l]
      PROVE  schedule[l][i] \in Work
  <2>1. schedule[l] \in Seq(Work)
    BY DEF TypeOK
  <2>2. QED
    BY <2>1
<1> SUFFICES ASSUME NEW k \in Labels, NEW i \in DOMAIN schedule'[k],
                    NEW work, work = schedule'[k][i], work.kind = "size"
             PROVE  ItemOfSize(k, work)'
  BY DEF SizesScheduled, ItemOfSize, OutputAt
<1>3. CASE i \in DOMAIN schedule[k] /\ schedule'[k][i] = schedule[k][i]
  <2>1. ItemOfSize(k, work) /\ work.sec \in SectionNames
    BY <1>2, <1>3 DEF SizesScheduled, Work
  <2>2. PICK x \in output[work.sec] : Owns(x, k, work) /\ OutputAt(work.sec, x, work.pos)
    BY <2>1 DEF ItemOfSize
  <2>3. x \in output'[work.sec] /\ OutputAt(work.sec, x, work.pos)'
    BY <1>1, <2>1, <2>2, OutputGrows DEF Grows
  <2>4. QED
    BY <2>2, <2>3 DEF ItemOfSize
<1>4. ASSUME NEW l \in Labels, SizeOf(l),
             ~(i \in DOMAIN schedule[k] /\ schedule'[k][i] = schedule[k][i])
      PROVE  ItemOfSize(k, work)'
  <2>1. PICK s \in SectionNames, pos \in Nat : s = current /\ pos = Position
    BY PositionType DEF TypeOK
  <2> DEFINE off == AlignUp(pos, 4)
             new == [kind |-> "size", sec |-> s, off |-> off, len |-> 4,
                     pos |-> pos, type |-> "notype"]
             x == [off |-> off, len |-> 4, kind |-> "data", refs |-> {l}]
  <2>2. off \in Nat /\ pos <= off /\ off <= pos + 3
    BY AlignUpBounds
  <2>3. Schedule(l, new) /\ output' = [output EXCEPT ![s] = @ \cup {x}]
    BY <1>4, <2>1 DEF SizeOf, AlignedOutput, AddOutput
  <2>4. new \in Work
    BY <2>2 DEF Work, SymbolTypes
  <2>5. k = l /\ work = new
    BY <1>4, <2>3, <2>4, ScheduleKeeps
  <2>6. x \in output'[s] /\ \A y \in output'[s] : y \in output[s] \/ y = x
    BY <2>3 DEF TypeOK
  <2>7. Owns(x, l, new)
    BY <2>2 DEF Owns
  <2>8. \A y \in output[s] : y.off + y.len <= pos
    BY <2>1 DEF ItemsDisjoint, Position
  <2>9. \A y \in output'[s] : y.off < off => y.off + y.len <= pos
    BY <2>2, <2>6, <2>8
  <2>10. OutputAt(s, x, pos)'
    BY <2>2, <2>9 DEF OutputAt
  <2>11. work.sec = s /\ work.pos = pos
    BY <2>5
  <2>12. QED
    BY <2>5, <2>6, <2>7, <2>10, <2>11 DEF ItemOfSize
<1>5. QED
  BY <1>3, <1>4, OnlySizeOf

\* A step that outputs nothing and makes no symbol known grows nothing.
LEMMA NothingGrows ==
  ASSUME TypeOK, UNCHANGED <<size, output>>, Known' \subseteq Known
  PROVE  \E at \in Nat : Grows(at)
<1>1. /\ current \in SectionNames /\ Position \in Nat /\ Position = size[current]
      /\ \A s \in SectionNames : size[s] \in Nat
  BY AttachTypes DEF Position
<1>2. Grows(Position)
  BY <1>1 DEF Grows
<1>3. QED
  BY <1>1, <1>2

\* What .size measured stays what it is while symbols and sections stay.
LEMMA ExtentStays ==
  ASSUME SymbolsStay, base' = base, NEW l \in Known, NEW s, NEW off, NEW pos
  PROVE  Extent(l, s, off, pos)' = Extent(l, s, off, pos)
BY DEF SymbolsStay, Extent, SizeValue, AddressOf

LEMMA PatchingSizes ==
  ASSUME TypeOK, ItemsDisjoint, ReferenceInv, SizesInv,
         NEW l \in Labels, NEW work, NEW value,
         Running(l, work), TakeWork(l), DuringPatching, SymbolsStay,
         \/ UNCHANGED patched
         \/ /\ Store(work, value) /\ work.kind \in Patches
            /\ work.kind = "size" => value = SizeValue(l, work)
  PROVE  SizesScheduled' /\ Unpatched' /\ SizesStored'
<1>1. /\ work \in Work /\ l \in Known /\ schedule[l] # <<>>
      /\ work = schedule[l][1] /\ 1 \in DOMAIN schedule[l]
      /\ phase = "patching" /\ phase' = "patching"
  <2>1. work \in Work /\ l \in Known /\ schedule[l] # <<>> /\ work = schedule[l][1]
    BY HeadWork
  <2>2. schedule[l] \in Seq(Work)
    BY DEF TypeOK
  <2>3. 1 \in DOMAIN schedule[l]
    BY <2>1, <2>2
  <2>4. QED
    BY <2>1, <2>3 DEF Running, AtSymbol, DuringPatching
<1>2. \A k \in Labels : \A i \in DOMAIN schedule'[k] :
        \E j \in DOMAIN schedule[k] : schedule'[k][i] = schedule[k][j]
  BY <1>1, TakeWorkTakes
<1>3. output' = output /\ base' = base
  BY DEF DuringPatching, layoutVars, sectionVars
<1>4. \A k, w : ItemOfSize(k, w) => ItemOfSize(k, w)'
  BY <1>3 DEF ItemOfSize, OutputAt
<1>5. SizesScheduled'
  <2> SUFFICES ASSUME NEW k \in Labels, NEW i \in DOMAIN schedule'[k],
                      NEW w, w = schedule'[k][i], w.kind = "size"
               PROVE  ItemOfSize(k, w)'
    BY DEF SizesScheduled, ItemOfSize, OutputAt
  <2>1. PICK j \in DOMAIN schedule[k] : w = schedule[k][j]
    BY <1>2
  <2>2. ItemOfSize(k, w)
    BY <2>1 DEF SizesInv, SizesScheduled
  <2>3. QED
    BY <1>4, <2>2
<1>6. Unpatched'
  BY <1>1 DEF Unpatched
<1>7. SizesStored'
  <2> SUFFICES ASSUME NEW s \in SectionNames, NEW x \in output[s], NEW k \in x.refs,
                      x.kind = "data", [sec |-> s, off |-> x.off] \in DOMAIN patched'
               PROVE  /\ k \in Known'
                      /\ \E pos \in Nat :
                           /\ OutputAt(s, x, pos)'
                           /\ patched'[[sec |-> s, off |-> x.off]] = Extent(k, s, x.off, pos)'
    BY <1>3 DEF SizesStored
  <2> DEFINE here == [sec |-> s, off |-> x.off]
             there == [sec |-> work.sec, off |-> work.off]
  <2>1. \A pos : OutputAt(s, x, pos)' = OutputAt(s, x, pos)
    BY <1>3 DEF OutputAt
  <2>2. CASE here \in DOMAIN patched /\ patched'[here] = patched[here]
    <3>1. PICK pos \in Nat :
            /\ k \in Known /\ OutputAt(s, x, pos)
            /\ patched[here] = Extent(k, s, x.off, pos)
      BY <2>2 DEF SizesInv, SizesStored
    <3>2. Extent(k, s, x.off, pos)' = Extent(k, s, x.off, pos) /\ k \in Known'
      BY <1>3, <3>1, ExtentStays DEF SymbolsStay
    <3>3. QED
      BY <2>1, <2>2, <3>1, <3>2
  <2>3. here = there => work.sec = s /\ work.off = x.off
    OBVIOUS
  <2>4. CASE /\ Store(work, value) /\ work.kind \in Patches
             /\ work.kind = "size" => value = SizeValue(l, work)
             /\ here = there
    <3>1. /\ work.sec = s /\ work.off = x.off /\ work.kind \in Patches
          /\ patched'[here] = value
      <4>1. patched'[here] = value
        BY <2>4 DEF Store
      <4>2. QED
        BY <2>3, <2>4, <4>1
    <3>2. PICK y \in output[s] : Owns(y, l, work)
      BY <1>1, <3>1 DEF ReferenceInv, SitesOwnItems
    <3>3. ASSUME NEW z \in output[s], Owns(z, l, work) PROVE z = x
      <4>1. x \in Item /\ z \in Item /\ x.len > 0 /\ z.len > 0
        BY DEF TypeOK, ReferenceInv, ItemsAreSingle
      <4>2. x.off = z.off
        BY <3>1, <3>3 DEF Owns
      <4>3. x.off \in Nat /\ x.len \in Nat /\ z.len \in Nat
        BY <4>1 DEF Item
      <4>4. QED
        BY <4>1, <4>2, <4>3 DEF ItemsDisjoint
    <3>4. k = l /\ work.kind = "size"
      BY <3>2, <3>3 DEF Owns, ReferenceInv, ItemsAreSingle
    <3>5. ItemOfSize(l, work)
      BY <1>1, <3>4 DEF SizesInv, SizesScheduled
    <3>6. OutputAt(s, x, work.pos)
      BY <3>1, <3>3, <3>5 DEF ItemOfSize
    <3>7. PICK pos \in Nat : pos = work.pos /\ OutputAt(s, x, pos)
      BY <3>6 DEF OutputAt
    <3>8. value = Extent(k, s, x.off, pos)
      <4>1. value = SizeValue(l, work) /\ k = l
        BY <2>4, <3>4
      <4>2. SizeValue(l, work) = Extent(l, s, x.off, pos)
        BY <3>1, <3>7 DEF Extent, SizeValue
      <4>3. QED
        BY <4>1, <4>2
    <3>9. Extent(k, s, x.off, pos)' = Extent(k, s, x.off, pos) /\ k \in Known'
      BY <1>1, <1>3, <3>4, ExtentStays DEF SymbolsStay
    <3>10. QED
      BY <2>1, <3>1, <3>7, <3>8, <3>9
  <2>5. CASE UNCHANGED patched
    BY <2>2, <2>5
  <2>6. CASE /\ Store(work, value) /\ work.kind \in Patches
             /\ work.kind = "size" => value = SizeValue(l, work)
             /\ here # there
    BY <2>2, <2>6 DEF Store
  <2>7. QED
    BY <2>4, <2>5, <2>6
<1>8. QED
  BY <1>5, <1>6, <1>7

\* Nothing is stored before patching, and what work measures is as before.
LEMMA EarlySizes ==
  ASSUME TypeOK, ItemsDisjoint, SizesInv, SymbolsStay, NEW at \in Nat, Grows(at),
         UNCHANGED <<output, schedule, patched>>,
         phase \in {"assembling", "flushing", "resolving"}
  PROVE  SizesInv'
<1>1. OutsideItems'
  BY OutsideGrows DEF SizesInv
<1>2. DOMAIN patched' = {}
  BY DEF SizesInv, Unpatched
<1>3. SizesScheduled'
  BY DEF SizesInv, SizesScheduled, ItemOfSize, OutputAt
<1>4. QED
  BY <1>1, <1>2, <1>3 DEF SizesInv, Unpatched, SizesStored

\* The phase may change when nothing else does.
LEMMA QuietSizes ==
  ASSUME SizesInv, UNCHANGED <<size, output, schedule, patched, lookup, base>>,
         phase' \in {"assembling", "flushing", "resolving"} => phase' = phase
  PROVE  SizesInv'
<1>1. OutsideItems' /\ SizesScheduled'
  BY DEF SizesInv, OutsideItems, Known, SizesScheduled, ItemOfSize, OutputAt
<1>2. Unpatched'
  BY DEF SizesInv, Unpatched
<1>3. ASSUME NEW l, NEW s, NEW off, NEW pos
      PROVE  Extent(l, s, off, pos)' = Extent(l, s, off, pos)
  BY DEF Extent, SizeValue, AddressOf
<1>4. SizesStored'
  BY <1>3 DEF SizesInv, SizesStored, OutputAt, Known
<1>5. QED
  BY <1>1, <1>2, <1>4 DEF SizesInv

LEMMA SizesStatement ==
  ASSUME TypeOK, ItemsDisjoint, SizesInv, Statement, ~Back
  PROVE  SizesInv'
<1>1. phase = "assembling" /\ patched' = patched
  BY OnlyAssembling
<1>2. DOMAIN patched' = {}
  BY <1>1 DEF SizesInv, Unpatched
<1>3. PICK at \in Nat : Grows(at)
  BY StatementShape, ShapeGrows
<1>4. OutsideItems'
  BY <1>3, StatementStays, OutsideGrows DEF SizesInv
<1>5. SizesScheduled'
  BY SizesGrow DEF SizesInv
<1>6. QED
  BY <1>2, <1>4, <1>5 DEF SizesInv, Unpatched, SizesStored

LEMMA SizesWork ==
  ASSUME TypeOK, ItemsDisjoint, ReferenceInv, SizesInv, RunWork
  PROVE  SizesInv'
<1>1. SymbolsStay
  BY WorkStays
<1>2. ASSUME Fail PROVE SizesInv'
  BY <1>2, QuietSizes DEF Fail, layoutVars, sectionVars, contentVars
<1>3. ASSUME NEW l \in Labels, NEW work, NEW value,
             Running(l, work), TakeWork(l), DuringPatching,
             Known' \subseteq Known,
             \/ UNCHANGED patched
             \/ /\ Store(work, value) /\ work.kind \in Patches
                /\ work.kind = "size" => value = SizeValue(l, work)
      PROVE  SizesInv'
  <2>1. UNCHANGED <<size, output>>
    BY <1>3 DEF DuringPatching, layoutVars, sectionVars
  <2>2. OutsideItems'
    BY <1>1, <1>3, <2>1, NothingGrows, OutsideGrows DEF SizesInv
  <2>3. SizesScheduled' /\ Unpatched' /\ SizesStored'
    BY <1>1, <1>3, PatchingSizes
  <2>4. QED
    BY <2>2, <2>3 DEF SizesInv
<1>4. ASSUME NEW l \in Labels, NEW work, PatchInstruction(l, work) PROVE SizesInv'
  <2>1. work.kind \in Patches /\ work.kind # "size"
    BY <1>4 DEF PatchInstruction, Patches
  <2>2. /\ Running(l, work) /\ TakeWork(l) /\ DuringPatching
        /\ Known' \subseteq Known /\ Store(work, AddressOf(l))
    BY <1>4 DEF PatchInstruction, Known
  <2>3. QED
    BY <1>3, <2>1, <2>2
<1>5. ASSUME NEW l \in Labels, NEW work, PatchSize(l, work) PROVE SizesInv'
  <2>1. work.kind \in Patches
    BY <1>5 DEF PatchSize, Patches
  <2>2. /\ Running(l, work) /\ TakeWork(l) /\ DuringPatching
        /\ Known' \subseteq Known /\ Store(work, SizeValue(l, work))
    BY <1>5 DEF PatchSize, Known
  <2>3. QED
    BY <1>3, <2>1, <2>2
<1>6. ASSUME NEW l \in Labels, NEW work, SetFunction(l, work) \/ AssignType(l, work)
      PROVE  SizesInv'
  <2>1. /\ Running(l, work) /\ TakeWork(l) /\ DuringPatching
        /\ Known' \subseteq Known /\ UNCHANGED patched
    BY <1>6 DEF SetFunction, AssignType, Known
  <2>2. QED
    BY <1>3, <2>1
<1>7. QED
  BY <1>2, <1>4, <1>5, <1>6 DEF RunWork, PatchFails, UnknownSymbol

LEMMA SizesStep ==
  ASSUME TypeOK, ItemsDisjoint, ReferenceInv, SizesInv, Unshrunk', [Next]_vars
  PROVE  SizesInv'
<1>1. CASE Statement
  BY <1>1, ShrunkStays, SizesStatement
<1>2. CASE EndOfProgram \/ StartResolving \/ StartPatching
  <2>1. /\ UNCHANGED <<size, output, schedule, patched, lookup>>
        /\ phase \in {"assembling", "flushing", "resolving"}
    BY <1>2 DEF EndOfProgram, StartResolving, StartPatching, layoutVars, sectionVars,
                contentVars
  <2>2. QED
    BY <2>1, SameStay, NothingGrows, EarlySizes DEF Known
<1>3. CASE FlushSection
  <2>1. /\ UNCHANGED <<size, output, schedule, patched>>
        /\ phase \in {"assembling", "flushing", "resolving"}
    BY <1>3 DEF FlushSection, layoutVars, sectionVars
  <2>2. lookup' = WithSymbols(queue[SectionOrder[flushIdx]], current, Position)
    BY <1>3 DEF FlushSection
  <2>3. Grows(Position)
    <3>1. \A l \in Known' \ Known : lookup'[l].sec = current /\ lookup'[l].off = Position
      BY <2>2 DEF WithSymbols, Known
    <3>2. /\ current \in SectionNames /\ Position \in Nat /\ Position = size[current]
          /\ \A s \in SectionNames : size[s] \in Nat
      BY AttachTypes DEF Position
    <3>3. QED
      BY <2>1, <3>1, <3>2 DEF Grows
  <2>4. SymbolsStay
    BY <2>2, WithStay
  <2>5. QED
    BY <2>1, <2>3, <2>4, PositionType, EarlySizes
<1>4. CASE ResolveSection
  <2>1. /\ UNCHANGED <<size, output, schedule, patched, lookup>>
        /\ phase \in {"assembling", "flushing", "resolving"}
    BY <1>4 DEF ResolveSection, ResolveStep, KeepBase, PlaceNext, AdvancePast, asmVars,
                contentVars
  <2>2. QED
    BY <2>1, SameStay, NothingGrows, EarlySizes DEF Known
<1>5. CASE RunWork
  BY <1>5, SizesWork
<1>6. CASE Finished \/ UNCHANGED vars
  BY <1>6, QuietSizes DEF Finished, vars, asmVars, contentVars, layoutVars, sectionVars
<1>7. QED
  BY <1>1, <1>2, <1>3, <1>4, <1>5, <1>6 DEF Next, Finish, Terminated

\* No section outgrows the constant of four bytes that .size outputs.
Short == \A s \in SectionNames : size[s] < Mod32

LEMMA SmallMod ==
  ASSUME NEW n \in Nat, NEW m \in Nat, n < m
  PROVE  n % m = n
OBVIOUS

\* The distance .size stores, of addresses.
Distance(address, dataloc, loc) ==
  IF address < dataloc THEN (dataloc - address) % Mod32
  ELSE (address - 4 - loc) % Mod32

LEMMA ExtentIsDistance ==
  ASSUME NEW l, NEW s, NEW off, NEW pos
  PROVE  Extent(l, s, off, pos) = Distance(AddressOf(l), base[s] + pos, base[s] + off)
<1> DEFINE work == [sec |-> s, off |-> off, pos |-> pos]
<1>1. work.sec = s /\ work.off = off /\ work.pos = pos
  OBVIOUS
<1>2. Extent(l, s, off, pos) = SizeValue(l, work)
  BY DEF Extent
<1> HIDE DEF work
<1>3. SizeValue(l, work)
        = Distance(AddressOf(l), base[work.sec] + work.pos, base[work.sec] + work.off)
  BY DEF SizeValue, Distance
<1>4. QED
  BY <1>1, <1>2, <1>3

LEMMA ShortDistance ==
  ASSUME NEW address \in Nat, NEW dataloc \in Nat, NEW loc \in Nat
  PROVE  /\ address < dataloc /\ dataloc - address < Mod32 =>
              Distance(address, dataloc, loc) = dataloc - address
         /\ ~(address < dataloc) /\ loc + 4 <= address /\ address - 4 - loc < Mod32 =>
              Distance(address, dataloc, loc) = address - 4 - loc
<1>1. Mod32 \in Nat
  BY ProgramAssumption DEF ProgramAssumption
<1>2. ASSUME address < dataloc, dataloc - address < Mod32
      PROVE  Distance(address, dataloc, loc) = dataloc - address
  <2>1. (dataloc - address) % Mod32 = dataloc - address
    BY <1>1, <1>2, SmallMod
  <2>2. QED
    BY <1>2, <2>1, Zenon DEF Distance
<1>3. ASSUME ~(address < dataloc), loc + 4 <= address, address - 4 - loc < Mod32
      PROVE  Distance(address, dataloc, loc) = address - 4 - loc
  <2>1. (address - 4 - loc) % Mod32 = address - 4 - loc
    BY <1>1, <1>3, SmallMod
  <2>2. QED
    BY <1>3, <2>1, Zenon DEF Distance
<1>4. QED
  BY <1>2, <1>3

\* What SizesMeasureData says of one item.
Measured(s, x, at, value) ==
  LET Between == { y \in output[s] : at <= y.off /\ y.off < x.off }
  IN  /\ Between # {} =>
           /\ \A y \in Between : y.off + y.len <= at + value
           /\ x.off - (at + value) \in 0 .. 3
      /\ x.off < at => at = x.off + x.len + value

LEMMA ExtentsMeasure ==
  ASSUME TypeOK, ItemsDisjoint, ReferenceInv, SizesInv, Short,
         NEW s \in SectionNames, NEW x \in output[s], NEW l \in Labels \cap Known,
         NEW at, NEW value, Measures(x, s, l),
         at = lookup[l].off, value = patched[[sec |-> s, off |-> x.off]]
  PROVE  Measured(s, x, at, value)
<1>1. PICK pos \in Nat : OutputAt(s, x, pos) /\ value = Extent(l, s, x.off, pos)
  BY DEF Measures, SizesInv, SizesStored
<1>2. PICK n \in Nat, b \in Nat, off \in Nat, m \in Nat \ {0} :
        n = size[s] /\ b = base[s] /\ off = x.off /\ m = Mod32
  <2>1. size[s] \in Nat /\ base[s] \in Nat
    BY DEF TypeOK, LayoutTypeOK
  <2>2. x.off \in Nat /\ Mod32 \in Nat \ {0}
    BY AttachTypes, ProgramAssumption DEF ProgramAssumption
  <2>3. QED
    BY <2>1, <2>2
<1>3. at \in Nat /\ at <= n /\ n < m /\ off + 4 <= n
  BY <1>1, <1>2, AttachTypes DEF Measures, SizesInv, OutsideItems, Short, ItemsDisjoint,
                                 OutputAt
<1>4. pos <= off /\ off <= pos + 3 /\ x.len = 4
  BY <1>1, <1>2 DEF OutputAt
<1>5. value = Distance(b + at, b + pos, b + off)
  <2>1. AddressOf(l) = b + at
    BY <1>2 DEF AddressOf, Measures
  <2>2. QED
    BY <1>1, <1>2, <2>1, ExtentIsDistance
<1>6. ASSUME at < pos PROVE value = pos - at
  <2>1. b + at < b + pos /\ b + pos - (b + at) = pos - at /\ pos - at < m
    BY <1>2, <1>3, <1>4, <1>6
  <2>2. b + at \in Nat /\ b + pos \in Nat /\ b + off \in Nat
    BY <1>2, <1>3
  <2>3. QED
    BY <1>2, <1>5, <2>1, <2>2, ShortDistance
<1>7. ASSUME NEW y \in output[s], at <= y.off, y.off < x.off
      PROVE  at < pos /\ y.off + y.len <= pos
  <2>1. y.off + y.len <= pos
    BY <1>1, <1>7 DEF OutputAt
  <2>2. y.off \in Nat /\ y.len \in Nat /\ y.len > 0
    BY AttachTypes DEF ReferenceInv, ItemsAreSingle
  <2>3. QED
    BY <1>3, <1>7, <2>1, <2>2
<1>8. ASSUME NEW y \in output[s], at <= y.off, y.off < x.off
      PROVE  /\ y.off + y.len <= at + value
             /\ x.off - (at + value) \in 0 .. 3
             /\ ~(x.off < at)
  <2>1. value = pos - at /\ y.off + y.len <= pos /\ at < pos
    BY <1>6, <1>7, <1>8
  <2>2. at + value = pos
    BY <1>3, <2>1
  <2>3. off - pos \in 0 .. 3 /\ ~(off < at)
    BY <1>3, <1>4, <2>1
  <2>4. QED
    BY <1>2, <2>1, <2>2, <2>3
<1>9. ASSUME x.off < at PROVE at = x.off + x.len + value
  <2>1. off + 4 <= at
    BY <1>2, <1>4, <1>9 DEF SizesInv, OutsideItems, Measures
  <2>2. ~(b + at < b + pos)
    BY <1>2, <1>3, <1>4, <2>1
  <2>3. /\ b + at - 4 - (b + off) = at - 4 - off
        /\ at - 4 - off < m /\ b + off + 4 <= b + at
    BY <1>2, <1>3, <2>1
  <2>4. value = at - 4 - off
    <3>1. PICK address \in Nat, dataloc \in Nat, loc \in Nat :
            address = b + at /\ dataloc = b + pos /\ loc = b + off
      BY <1>2, <1>3
    <3>2. /\ ~(address < dataloc) /\ loc + 4 <= address
          /\ address - 4 - loc = at - 4 - off /\ address - 4 - loc < Mod32
      BY <1>2, <1>3, <2>2, <2>3, <3>1
    <3>3. Distance(address, dataloc, loc) = address - 4 - loc
      BY <3>2, ShortDistance
    <3>4. QED
      BY <1>5, <3>1, <3>2, <3>3
  <2>5. QED
    BY <1>2, <1>3, <1>4, <2>4
<1>10. QED
  BY <1>8, <1>9 DEF Measured

(***************************************************************************)
(* When finish returns, .size of a label behind it holds the extent of the *)
(* items in between, and .size of a label ahead the distance to it, for    *)
(* every program that makes no section shorter and whose sections fit the  *)
(* four bytes of the constant (directive.cpp:56-75).                       *)
(***************************************************************************)
THEOREM SizesAreMeasured == Spec => [](shrunk = {} /\ Short => SizesMeasureData)
<1>1. Init => SizesInv
  BY DEF Init, SizesInv, OutsideItems, Known, SizesScheduled, Unpatched, SizesStored
<1>2. /\ AsmInv /\ ItemsDisjoint /\ (Unshrunk => ReferenceInv)
      /\ (Unshrunk => SizesInv) /\ [Next]_vars
      => (Unshrunk => SizesInv)'
  BY SizesStep, ShrunkStays DEF AsmInv
<1>3. /\ AsmInv /\ ItemsDisjoint /\ (Unshrunk => ReferenceInv) /\ (Unshrunk => SizesInv)
      => (shrunk = {} /\ Short => SizesMeasureData)
  <2>1. ASSUME AsmInv, ItemsDisjoint, ReferenceInv, SizesInv, Short
        PROVE  SizesMeasureData
    <3>1. \A s \in SectionNames : \A x \in output[s] : \A l \in Labels \cap Known :
            Measures(x, s, l) =>
              Measured(s, x, lookup[l].off, patched[[sec |-> s, off |-> x.off]])
      BY <2>1, ExtentsMeasure DEF AsmInv
    <3>2. QED
      BY <3>1 DEF SizesMeasureData, Measured
  <2>2. QED
    BY <2>1 DEF Unshrunk
<1>4. QED
  BY <1>1, <1>2, <1>3, AsmInvariant, ItemsNeverOverlap, ReferenceInvariant, PTL DEF Spec

-----------------------------------------------------------------------------
(***************************************************************************)
(* The refinement                                                          *)
(***************************************************************************)

Early == phase \in {"assembling", "flushing", "resolving"}

\* Nothing is patched while addresses may still change.
EarlyUnpatched == Early => DOMAIN patched = {}

\* References are typed, and a position holds one at most.
ReferencesSingle ==
  /\ References \subseteq [label : Labels, site : Location]
  /\ \A r, q \in References : r.site = q.site => r = q

LinkValue == [p \in ValueSites |-> patched[p]]

SameBound == Bound' = Bound
SameReferences == References' = References
SameValue == LinkValue' = LinkValue

-----------------------------------------------------------------------------

LEMMA ReferenceMember ==
  ASSUME NEW r \in References
  PROVE  \E s \in SectionNames : \E x \in output[s] :
           /\ x.kind = "code"
           /\ r.label \in x.refs
           /\ r = [label |-> r.label, site |-> [sec |-> s, off |-> x.off]]
<1>1. PICK s \in SectionNames :
        r \in UNION { { ReferenceAt(l, s, x.off) : l \in x.refs } : x \in Instructions(s) }
  BY DEF References
<1>2. PICK x \in Instructions(s) : r \in { ReferenceAt(l, s, x.off) : l \in x.refs }
  BY <1>1
<1>3. PICK l \in x.refs : r = ReferenceAt(l, s, x.off)
  BY <1>2
<1>4. r = [label |-> l, site |-> [sec |-> s, off |-> x.off]] /\ r.label = l
  BY <1>3 DEF ReferenceAt
<1>5. x \in output[s] /\ x.kind = "code"
  BY DEF Instructions
<1>6. QED
  BY <1>4, <1>5

LEMMA ReferencesFine ==
  ASSUME TypeOK, ItemsDisjoint, ReferenceInv
  PROVE  ReferencesSingle
<1>1. ASSUME NEW r \in References
      PROVE  r \in [label : Labels, site : Location]
  <2>1. PICK s \in SectionNames : \E x \in output[s] :
           /\ r.label \in x.refs
           /\ r = [label |-> r.label, site |-> [sec |-> s, off |-> x.off]]
    BY ReferenceMember
  <2>2. \A x \in output[s] : x.off \in Nat /\ x.refs \subseteq Labels
    BY DEF TypeOK, Item
  <2>3. QED
    BY <2>1, <2>2 DEF Location
<1>2. ASSUME NEW r \in References, NEW q \in References, r.site = q.site
      PROVE  r = q
  <2>1. PICK s \in SectionNames : \E x \in output[s] :
           /\ r.label \in x.refs
           /\ r = [label |-> r.label, site |-> [sec |-> s, off |-> x.off]]
    BY ReferenceMember
  <2>2. PICK x \in output[s] :
           /\ r.label \in x.refs
           /\ r = [label |-> r.label, site |-> [sec |-> s, off |-> x.off]]
    BY <2>1
  <2>3. PICK t \in SectionNames : \E y \in output[t] :
           /\ q.label \in y.refs
           /\ q = [label |-> q.label, site |-> [sec |-> t, off |-> y.off]]
    BY ReferenceMember
  <2>4. PICK y \in output[t] :
           /\ q.label \in y.refs
           /\ q = [label |-> q.label, site |-> [sec |-> t, off |-> y.off]]
    BY <2>3
  <2>5. s = t /\ x.off = y.off
    <3>1. r.site = [sec |-> s, off |-> x.off] /\ q.site = [sec |-> t, off |-> y.off]
      BY <2>2, <2>4
    <3> DEFINE here == [sec |-> s, off |-> x.off]
               there == [sec |-> t, off |-> y.off]
    <3>2. here = there
      BY <1>2, <3>1
    <3>3. here.sec = s /\ here.off = x.off /\ there.sec = t /\ there.off = y.off
      OBVIOUS
    <3>4. QED
      BY <3>2, <3>3
  <2>6. /\ x.off \in Nat /\ x.len \in Nat /\ y.len \in Nat
        /\ x.len > 0 /\ y.len > 0
    BY DEF TypeOK, Item, ReferenceInv, ItemsAreSingle
  <2>7. x = y
    BY <2>5, <2>6 DEF ItemsDisjoint
  <2>8. r.label = q.label
    BY <2>2, <2>4, <2>7 DEF ReferenceInv, ItemsAreSingle
  <2>9. QED
    BY <2>2, <2>4, <2>5, <2>8
<1>3. QED
  BY <1>1, <1>2 DEF ReferencesSingle

\* What keeps the output keeps the references, and more output has more.
LEMMA ReferencesGrow ==
  ASSUME \A s \in SectionNames : output[s] \subseteq output'[s]
  PROVE  References \subseteq References'
<1> SUFFICES ASSUME NEW r \in References PROVE r \in References'
  OBVIOUS
<1>1. PICK s \in SectionNames : \E x \in output[s] :
         /\ x.kind = "code"
         /\ r.label \in x.refs
         /\ r = [label |-> r.label, site |-> [sec |-> s, off |-> x.off]]
  BY ReferenceMember
<1>2. PICK x \in output[s] :
         /\ x.kind = "code"
         /\ r.label \in x.refs
         /\ r = [label |-> r.label, site |-> [sec |-> s, off |-> x.off]]
  BY <1>1
<1>3. x \in Instructions(s)'
  BY <1>2 DEF Instructions
<1>4. r \in { ReferenceAt(l, s, x.off) : l \in x.refs }
  BY <1>2 DEF ReferenceAt
<1>5. r \in UNION { { ReferenceAt(l, s, y.off) : l \in y.refs } : y \in Instructions(s)' }
  BY <1>3, <1>4
<1>6. QED
  BY <1>5 DEF References

LEMMA StatementGrows ==
  ASSUME TypeOK, Statement, ~Back
  PROVE  \A s \in SectionNames : output[s] \subseteq output'[s]
<1>1. StatementRefs
  BY StatementRefsHold
<1>2. output \in [SectionNames -> SUBSET Item]
  BY DEF TypeOK
<1>3. ASSUME NEW l, NEW work, NEW x, ReferenceOutput(l, work, x)
      PROVE  \A s \in SectionNames : output[s] \subseteq output'[s]
  BY <1>2, <1>3 DEF ReferenceOutput
<1>4. QED
  BY <1>1, <1>3 DEF StatementRefs, PlainOutput, SilentWork

LEMMA SameOutput ==
  ASSUME UNCHANGED output
  PROVE  SameReferences
BY DEF SameReferences, References, Instructions

LEMMA BoundKept ==
  ASSUME SymbolsStay
  PROVE  /\ DOMAIN Bound \subseteq DOMAIN Bound'
         /\ \A l \in DOMAIN Bound : Bound'[l] = Bound[l]
BY DEF SymbolsStay, Bound, Known

\* A step of the assembler before patching reads more of the program.
LEMMA ReadStep ==
  ASSUME Early, Early', EarlyUnpatched, EarlyUnpatched', TypeOK',
         ReferencesSingle', SymbolsStay,
         \A s \in SectionNames : output[s] \subseteq output'[s]
  PROVE  Link!Read
<1>1. LinkStage = "reading" /\ LinkStage' = "reading"
  BY DEF Early, LinkStage
<1>2. base' \in [SectionNames -> Nat]
  BY DEF TypeOK, LayoutTypeOK
<1>3. SameValue
  <2>1. ValueSites = {} /\ ValueSites' = {}
    BY DEF EarlyUnpatched, ValueSites
  <2>2. QED
    BY <2>1 DEF SameValue, LinkValue
<1>4. QED
  BY <1>1, <1>2, <1>3, BoundKept, ReferencesGrow
     DEF Link!Read, Link!At, ReferencesSingle, Location, SameValue, LinkValue

LEMMA QuietStep ==
  ASSUME UNCHANGED <<output, lookup, patched>>
  PROVE  SameBound /\ SameReferences /\ SameValue
<1>1. SameReferences
  BY SameOutput
<1>2. SameBound /\ SameValue
  BY DEF SameBound, Bound, SameValue, LinkValue, ValueSites, Instructions
<1>3. QED
  BY <1>1, <1>2

-----------------------------------------------------------------------------
(***************************************************************************)
(* Scheduled work                                                          *)
(***************************************************************************)

\* Work changes no binding.
LEMMA WorkBound ==
  ASSUME TypeOK, RunWork
  PROVE  SameBound /\ SameReferences
<1>1. SymbolsStay
  BY WorkStays
<1>2. output' = output /\ Known' = Known
  BY DEF RunWork, PatchInstruction, PatchSize, SetFunction, AssignType, PatchFails,
         UnknownSymbol, Fail, DuringPatching, contentVars, Known
<1>3. SameBound
  BY <1>1, <1>2 DEF SameBound, Bound, SymbolsStay, Known
<1>4. QED
  BY <1>2, <1>3, SameOutput

\* A patch is the resolution of a reference.
LEMMA PatchResolves ==
  ASSUME TypeOK, ReferenceInv, SameBound, SameReferences,
         NEW l \in Labels, NEW work, PatchInstruction(l, work)
  PROVE  \E r \in References : Link!Resolve(r)
<1> DEFINE here == [sec |-> work.sec, off |-> work.off]
           r == ReferenceAt(l, work.sec, work.off)
<1>1. /\ work \in Work /\ l \in Known /\ schedule[l] # <<>> /\ work = schedule[l][1]
      /\ Running(l, work)
  BY HeadWork DEF PatchInstruction
<1>2. 1 \in DOMAIN schedule[l]
  <2>1. schedule[l] \in Seq(Work)
    BY DEF TypeOK
  <2>2. QED
    BY <1>1, <2>1
<1>3. /\ work.sec \in SectionNames
      /\ \E x \in output[work.sec] : x.kind = "code" /\ l \in x.refs /\ x.off = work.off
  <2>1. work.kind \in Patches /\ work.kind # "size" /\ work.sec \in SectionNames
    BY <1>1 DEF PatchInstruction, Patches, Work
  <2>2. PICK x \in output[work.sec] : Owns(x, l, work)
    BY <1>1, <1>2, <2>1 DEF ReferenceInv, SitesOwnItems
  <2>3. QED
    BY <2>1, <2>2 DEF Owns
<1>4. PICK x \in output[work.sec] : x.kind = "code" /\ l \in x.refs /\ x.off = work.off
  BY <1>3
<1>5. r \in References
  <2>1. x \in Instructions(work.sec) /\ r \in { ReferenceAt(k, work.sec, x.off) : k \in x.refs }
    BY <1>4 DEF Instructions
  <2>2. r \in UNION { { ReferenceAt(k, work.sec, y.off) : k \in y.refs } :
                      y \in Instructions(work.sec) }
    BY <2>1
  <2>3. QED
    BY <1>3, <2>2 DEF References
<1>6. /\ patched' = [p \in DOMAIN patched \cup {here} |->
                      IF p = here THEN AddressOf(l) ELSE patched[p]]
      /\ phase = "patching" /\ phase' = phase /\ base' = base /\ output' = output
  BY <1>1 DEF PatchInstruction, Store, DuringPatching, layoutVars, sectionVars, Running,
              AtSymbol
<1>7. ValueSites' = ValueSites \cup {here}
  <2>1. here.sec = work.sec /\ here.off = work.off
    OBVIOUS
  <2>2. \E y \in Instructions(here.sec) : y.off = here.off
    BY <1>4, <2>1 DEF Instructions
  <2>3. DOMAIN patched' = DOMAIN patched \cup {here}
    BY <1>6
  <2>4. QED
    BY <1>6, <2>2, <2>3 DEF ValueSites, Instructions
<1>8. LinkValue' = [p \in DOMAIN LinkValue \cup {here} |->
                      IF p = here THEN AddressOf(l) ELSE LinkValue[p]]
  <2>1. DOMAIN LinkValue = ValueSites /\ \A p \in ValueSites : LinkValue[p] = patched[p]
    BY DEF LinkValue
  <2>2. \A p \in ValueSites' :
          patched'[p] = IF p = here THEN AddressOf(l) ELSE LinkValue[p]
    BY <1>6, <1>7, <2>1 DEF ValueSites
  <2>3. QED
    BY <1>7, <2>1, <2>2 DEF LinkValue
<1>9. r.site = here /\ r.label = l
  BY DEF ReferenceAt
<1>10. /\ l \in DOMAIN Bound
       /\ AddressOf(l) = base[Bound[l].sec] + Bound[l].off
  BY <1>1 DEF Bound, Known, AddressOf
<1>11. LinkStage = "placed" /\ LinkStage' = LinkStage
  BY <1>6 DEF LinkStage
<1>12. Link!Resolve(r)
  <2>1. Link!TargetOf(r) = AddressOf(l)
    BY <1>9, <1>10 DEF Link!TargetOf
  <2>2. LinkValue' = [p \in DOMAIN LinkValue \cup {r.site} |->
                        IF p = r.site THEN Link!TargetOf(r) ELSE LinkValue[p]]
    BY <1>8, <1>9, <2>1
  <2>3. UNCHANGED <<LinkStage, base, Bound, References>>
    BY <1>6, <1>11 DEF SameBound, SameReferences
  <2>4. LinkStage = "placed" /\ r.label \in DOMAIN Bound
    BY <1>9, <1>10, <1>11
  <2> HIDE DEF here, r
  <2>5. QED
    BY <2>2, <2>3, <2>4 DEF Link!Resolve, LinkValue
<1>13. QED
  BY <1>5, <1>12

\* What is stored in a .size constant is no reference's value.
LEMMA SizeIsNoValue ==
  ASSUME TypeOK, ItemsDisjoint, ReferenceInv,
         NEW l \in Labels, NEW work, PatchSize(l, work)
  PROVE  SameValue
<1> DEFINE here == [sec |-> work.sec, off |-> work.off]
<1>1. /\ work \in Work /\ schedule[l] # <<>> /\ work = schedule[l][1]
      /\ work.kind = "size" /\ work.kind \in Patches
  BY HeadWork DEF PatchSize, Patches
<1>2. 1 \in DOMAIN schedule[l]
  <2>1. schedule[l] \in Seq(Work)
    BY DEF TypeOK
  <2>2. QED
    BY <1>1, <2>1
<1>3. work.sec \in SectionNames /\ here.sec = work.sec /\ here.off = work.off
  BY <1>1 DEF Work
<1>4. ASSUME NEW x \in output[work.sec], x.kind = "code", x.off = work.off
      PROVE  FALSE
  <2>1. PICK y \in output[work.sec] : Owns(y, l, work)
    BY <1>1, <1>2 DEF ReferenceInv, SitesOwnItems
  <2>2. /\ x.off = y.off
        /\ x.off \in Nat /\ x.len \in Nat /\ y.len \in Nat
        /\ x.len > 0 /\ y.len > 0
    BY <1>3, <1>4, <2>1 DEF Owns, TypeOK, Item, ReferenceInv, ItemsAreSingle
  <2>3. x = y
    BY <1>3, <2>2 DEF ItemsDisjoint
  <2>4. QED
    BY <1>1, <1>4, <2>1, <2>3 DEF Owns
<1>5. /\ output' = output
      /\ DOMAIN patched' = DOMAIN patched \cup {here}
      /\ \A p \in DOMAIN patched : p # here => patched'[p] = patched[p]
  BY DEF PatchSize, DuringPatching, Store
<1>6. here \notin ValueSites /\ here \notin ValueSites'
  BY <1>3, <1>4, <1>5 DEF ValueSites, Instructions
<1>7. ValueSites' = ValueSites
  BY <1>5, <1>6 DEF ValueSites, Instructions
<1>8. \A p \in ValueSites : patched'[p] = patched[p]
  BY <1>5, <1>6 DEF ValueSites
<1>9. QED
  BY <1>7, <1>8 DEF SameValue, LinkValue

LEMMA FailStops ==
  ASSUME Fail, phase \notin {"finished", "failed"}, phase \in Phases
  PROVE  Link!Stop
<1>1. SameBound /\ SameReferences /\ SameValue
  BY QuietStep DEF Fail, contentVars
<1>2. base' = base
  BY DEF Fail, layoutVars, sectionVars
<1>3. LinkStage \in {"reading", "placed"} /\ LinkStage' = "failed"
  BY DEF Fail, LinkStage, Phases
<1>4. QED
  BY <1>1, <1>2, <1>3 DEF Link!Stop, SameBound, SameReferences, SameValue, LinkValue

LEMMA WorkLinks ==
  ASSUME TypeOK, ItemsDisjoint, ReferenceInv, RunWork
  PROVE  [Link!LinkNext]_(Link!linkVars)
<1>1. SameBound /\ SameReferences
  BY WorkBound
<1>2. phase = "patching"
  BY DEF RunWork, AtSymbol
<1>3. ASSUME DuringPatching, SameValue
      PROVE  UNCHANGED Link!linkVars
  BY <1>1, <1>3 DEF Link!linkVars, SameBound, SameReferences, SameValue, LinkValue,
                    DuringPatching, layoutVars, sectionVars, LinkStage
<1>4. ASSUME Fail PROVE Link!LinkNext
  BY <1>2, <1>4, FailStops DEF Link!LinkNext, Phases
<1>5. ASSUME NEW l \in Labels, NEW work, PatchInstruction(l, work)
      PROVE  Link!LinkNext
  BY <1>1, <1>5, PatchResolves DEF Link!LinkNext
<1>6. ASSUME NEW l \in Labels, NEW work, PatchSize(l, work)
      PROVE  UNCHANGED Link!linkVars
  BY <1>3, <1>6, SizeIsNoValue DEF PatchSize
<1>7. ASSUME NEW l \in Labels, NEW work, SetFunction(l, work) \/ AssignType(l, work)
      PROVE  UNCHANGED Link!linkVars
  <2>1. DuringPatching /\ UNCHANGED patched
    BY <1>7 DEF SetFunction, AssignType
  <2>2. SameValue
    BY <2>1 DEF SameValue, LinkValue, ValueSites, Instructions, DuringPatching
  <2>3. QED
    BY <1>3, <2>1, <2>2
<1>8. QED
  BY <1>4, <1>5, <1>6, <1>7 DEF RunWork, PatchFails, UnknownSymbol

-----------------------------------------------------------------------------
(***************************************************************************)
(* Every step                                                              *)
(***************************************************************************)

LEMMA StatementLinks ==
  ASSUME TypeOK, TypeOK', EarlyUnpatched, EarlyUnpatched', ReferencesSingle',
         Statement, ~Back
  PROVE  Link!LinkNext
<1>1. phase = "assembling" /\ phase' \in {"assembling", "failed"}
  BY OnlyAssembling
<1>2. CASE phase' = "assembling"
  <2>1. Link!Read
    BY <1>1, <1>2, StatementStays, StatementGrows, ReadStep DEF Early
  <2>2. QED
    BY <2>1 DEF Link!LinkNext
<1>3. CASE phase' = "failed"
  <2>1. Fail
    BY <1>3, OnlyAssembling
  <2>2. QED
    BY <1>1, <2>1, FailStops DEF Link!LinkNext, Phases
<1>4. QED
  BY <1>1, <1>2, <1>3

LEMMA FinishedCloses ==
  ASSUME TypeOK, ReferenceInv, Finished
  PROVE  Link!Close
<1>1. SameBound /\ SameReferences /\ SameValue
  BY QuietStep DEF Finished, contentVars
<1>2. base' = base
  BY DEF Finished, layoutVars, sectionVars
<1>3. LinkStage = "placed" /\ LinkStage' = "linked"
  BY DEF Finished, LinkStage
<1>4. ASSUME NEW r \in References PROVE r.site \in DOMAIN LinkValue
  <2>1. PICK s \in SectionNames : \E x \in output[s] :
           /\ x.kind = "code"
           /\ r.label \in x.refs
           /\ r = [label |-> r.label, site |-> [sec |-> s, off |-> x.off]]
    BY ReferenceMember
  <2>2. PICK x \in output[s] :
           /\ x.kind = "code"
           /\ r.label \in x.refs
           /\ r = [label |-> r.label, site |-> [sec |-> s, off |-> x.off]]
    BY <2>1
  <2>3. r.label \in Labels
    BY <2>2 DEF TypeOK, Item
  <2>4. ~Pending(s, x, r.label)
    BY <2>3 DEF Finished, Pending
  <2>5. Done(s, x, r.label)
    BY <2>2, <2>4 DEF ReferenceInv, ReferencesPendingOrDone
  <2> DEFINE here == [sec |-> s, off |-> x.off]
  <2>6. here \in DOMAIN patched /\ here.sec = s /\ here.off = x.off
    BY <2>5 DEF Done
  <2>7. here \in ValueSites
    BY <2>2, <2>6 DEF ValueSites, Instructions
  <2>8. r.site = here
    BY <2>2
  <2>9. QED
    BY <2>7, <2>8 DEF LinkValue
<1>5. QED
  BY <1>1, <1>2, <1>3, <1>4
     DEF Link!Close, SameBound, SameReferences, SameValue, LinkValue

LEMMA PatchingPlaces ==
  ASSUME StartPatching
  PROVE  Link!Place
<1>1. SameBound /\ SameReferences /\ SameValue
  BY QuietStep DEF StartPatching, contentVars
<1>2. base' = base
  BY DEF StartPatching, layoutVars, sectionVars
<1>3. LinkStage = "reading" /\ LinkStage' = "placed"
  BY DEF StartPatching, LinkStage
<1>4. QED
  BY <1>1, <1>2, <1>3 DEF Link!Place, SameBound, SameReferences, SameValue, LinkValue

LEMMA StepLinks ==
  ASSUME TypeOK, ItemsDisjoint, ReferenceInv, EarlyUnpatched, Unshrunk',
         TypeOK', ReferencesSingle', EarlyUnpatched', [Next]_vars
  PROVE  [Link!LinkNext]_(Link!linkVars)
<1>1. CASE Statement
  BY <1>1, ShrunkStays, StatementLinks
<1>2. CASE EndOfProgram \/ FlushSection \/ StartResolving \/ ResolveSection
  <2>1. Early /\ Early'
    BY <1>2 DEF EndOfProgram, FlushSection, StartResolving, ResolveSection, asmVars, Early
  <2>2. SymbolsStay
    BY <1>2, SameStay, WithStay
       DEF EndOfProgram, FlushSection, StartResolving, ResolveSection, asmVars, contentVars
  <2>3. output' = output
    BY <1>2
       DEF EndOfProgram, FlushSection, StartResolving, ResolveSection, asmVars, contentVars
  <2>4. Link!Read
    BY <2>1, <2>2, <2>3, ReadStep
  <2>5. QED
    BY <2>4 DEF Link!LinkNext
<1>3. CASE StartPatching
  BY <1>3, PatchingPlaces DEF Link!LinkNext
<1>4. CASE RunWork
  BY <1>4, WorkLinks
<1>5. CASE Finished
  BY <1>5, FinishedCloses DEF Link!LinkNext
<1>6. CASE UNCHANGED vars
  <2>1. SameBound /\ SameReferences /\ SameValue
    BY <1>6, QuietStep DEF vars, asmVars, contentVars
  <2>2. base' = base /\ phase' = phase
    BY <1>6 DEF vars, asmVars, layoutVars, sectionVars
  <2>3. UNCHANGED Link!linkVars
    BY <2>1, <2>2 DEF Link!linkVars, SameBound, SameReferences, SameValue, LinkValue,
                      LinkStage
  <2>4. QED
    BY <2>3
<1>7. QED
  BY <1>1, <1>2, <1>3, <1>4, <1>5, <1>6 DEF Next, Finish, Terminated

LEMMA EarlyStep ==
  ASSUME EarlyUnpatched, [Next]_vars
  PROVE  EarlyUnpatched'
<1>1. CASE Statement
  <2>1. phase = "assembling" /\ patched' = patched
    BY <1>1, OnlyAssembling
  <2>2. QED
    BY <2>1 DEF EarlyUnpatched, Early
<1>2. CASE \/ EndOfProgram \/ FlushSection \/ StartResolving \/ ResolveSection
           \/ StartPatching \/ Finished
  BY <1>2 DEF EndOfProgram, FlushSection, StartResolving, ResolveSection, StartPatching,
              Finished, asmVars, contentVars, EarlyUnpatched, Early
<1>3. CASE RunWork
  <2>1. phase' \in {"patching", "failed"}
    BY <1>3 DEF RunWork, AtSymbol, PatchInstruction, PatchSize, SetFunction, AssignType,
                PatchFails, UnknownSymbol, Fail, DuringPatching
  <2>2. QED
    BY <2>1 DEF EarlyUnpatched, Early
<1>4. CASE UNCHANGED vars
  BY <1>4 DEF vars, asmVars, contentVars, EarlyUnpatched, Early
<1>5. QED
  BY <1>1, <1>2, <1>3, <1>4 DEF Next, Finish, Terminated

LEMMA InitLinks ==
  ASSUME Init
  PROVE  Link!LinkInit /\ EarlyUnpatched
<1>1. DOMAIN lookup = {} /\ DOMAIN patched = {} /\ phase = "assembling"
  BY DEF Init
<1>2. \A s \in SectionNames : output[s] = {}
  BY DEF Init
<1>3. References = {}
  BY <1>2, ReferenceMember
<1>4. base \in [SectionNames -> Nat]
  BY InitType DEF TypeOK, LayoutTypeOK
<1>5. Bound = [l \in {} |-> 0] /\ LinkValue = [x \in {} |-> 0]
  BY <1>1 DEF Bound, LinkValue, ValueSites
<1>6. QED
  BY <1>1, <1>3, <1>4, <1>5
     DEF Link!LinkInit, LinkStage, LinkValue, EarlyUnpatched

(***************************************************************************)
(* For every program that makes no section shorter, and any sections and   *)
(* labels, the assembler is a Linker: nothing it queues, schedules or      *)
(* moves shows in what references become (assemble.cpp:14-73, 143-191).    *)
(***************************************************************************)
THEOREM AssemblerImplementsLinker == Spec => ([](shrunk = {}) => ImplementsLinker)
<1> DEFINE LinkInv == /\ TypeOK /\ ItemsDisjoint /\ ReferenceInv /\ Unshrunk
                      /\ EarlyUnpatched /\ ReferencesSingle
<1>1. Init => Link!LinkInit /\ EarlyUnpatched
  BY InitLinks
<1>2. EarlyUnpatched /\ [Next]_vars => EarlyUnpatched'
  BY EarlyStep
<1>3. TypeOK /\ ItemsDisjoint /\ ReferenceInv => ReferencesSingle
  BY ReferencesFine
<1>4. LinkInv /\ LinkInv' /\ [Next]_vars => [Link!LinkNext]_(Link!linkVars)
  BY StepLinks
<1>5. Spec => [](TypeOK /\ ItemsDisjoint /\ (Unshrunk => ReferenceInv))
  BY TypeCorrect, ItemsNeverOverlap, ReferenceInvariant, PTL
<1>6. shrunk = {} => Unshrunk
  BY DEF Unshrunk
<1>7. Spec /\ [](shrunk = {}) => []LinkInv
  BY <1>1, <1>2, <1>3, <1>5, <1>6, PTL DEF Spec
<1>8. QED
  BY <1>1, <1>4, <1>7, PTL DEF Spec, ImplementsLinker, Link!LinkSpec
=============================================================================

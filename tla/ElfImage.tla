------------------------------ MODULE ElfImage ------------------------------
(***************************************************************************)
(* Elf_Writer (elfwriter.cpp): the headers, string tables, symbol table    *)
(* and segments of an ELF file, appended to one vector, for the formats of *)
(* elf64.cpp and elf128.cpp.  The writer fills the headers in through a    *)
(* pointer and references into the vector while the vector grows; once it  *)
(* has grown beyond what was reserved they point to freed memory.          *)
(*                                                                         *)
(* The bytes behind the headers are chunks: a name with its terminator, a  *)
(* symbol record or the output of a section.                               *)
(***************************************************************************)
EXTENDS Integers, Sequences, FiniteSets

CONSTANTS
  Programs,     \* what finish can leave: sections and symbols
  NameLength,   \* the length of every name
  Reserved,     \* 262144
  FixedSize,    \* sizeof(ElfData): the header and the section headers
  PhdrSize, SymSize,
  AddrMod       \* 2^64 or 2^128: the range of Elf_Addr

ASSUME SizeAssumption ==
  /\ {Reserved, FixedSize} \subseteq Nat
  /\ {PhdrSize, SymSize, AddrMod} \subseteq Nat \ {0}

VARIABLES
  program,  \* [sections, symbols, entry], in the order of the maps
  hdr,      \* the headers in the vector
  chunks,   \* what was appended to it
  binsize,  \* elfbin.size()
  stale,    \* the vector was reallocated
  nextName, \* ElfStringSection::offset
  namelist, \* name -> offset, of both string tables
  item,     \* the next element of the loop; 0: the table is not there yet
  file,     \* what is in the output file
  phase

elfVars ==
  <<program, hdr, chunks, binsize, stale, nextName, namelist, item, file, phase>>

Shstrtab == 1
Symtab == 2
Strtab == 3

SectionNamesTable == <<".shstrtab", ".symtab", ".strtab">>

NoShdr == [name |-> 0, offset |-> 0, size |-> 0, info |-> 0, link |-> 0]
NoPhdr == [load |-> FALSE, flags |-> {}, offset |-> 0, vaddr |-> 0, filesz |-> 0, memsz |-> 0]
NoFile == [hdr |-> <<>>, chunks |-> <<>>, size |-> 0]

Sections == program.sections
Symbols == program.symbols

\* elfhdr_size, and the capacity after reserve and resize.
HeaderSize == FixedSize + PhdrSize * Len(Sections)
Capacity == IF HeaderSize > Reserved THEN HeaderSize ELSE Reserved

SymbolNames == [i \in DOMAIN Symbols |-> Symbols[i].name]

\* What finish leaves of a section and of a symbol.
SectionRecord ==
  [flags : SUBSET {"code", "data", "resv", "execonly", "readonly"}, size : Nat, base : Nat]

SymbolRecord ==
  [name : DOMAIN NameLength, addr : Nat, type : {"notype", "object", "func"},
   size : Nat, global : BOOLEAN]

\* The first section is there from the beginning.
ASSUME ProgramsAssumption ==
  /\ NameLength \in [DOMAIN NameLength -> Nat]
  /\ \A k \in 1 .. 3 : SectionNamesTable[k] \in DOMAIN NameLength
  /\ \A p \in Programs :
       /\ p.sections \in Seq(SectionRecord) /\ p.sections # <<>>
       /\ p.symbols \in Seq(SymbolRecord)

ElfInit ==
  /\ program \in Programs
  /\ hdr = [entry |-> 0, sh |-> [k \in 1 .. 3 |-> NoShdr],
            ph |-> [i \in DOMAIN program.sections |-> NoPhdr]]
  /\ chunks = <<>>
  /\ binsize = FixedSize + PhdrSize * Len(program.sections)
  /\ stale = FALSE
  /\ nextName = 0
  /\ namelist = [k \in {Shstrtab, Strtab} |-> <<>>]
  /\ item = 0
  /\ file = NoFile
  /\ phase = "start"

(***************************************************************************)
(* The headers become `before', len bytes are appended, and the headers    *)
(* become `after'; what is written through a stale reference is lost.      *)
(***************************************************************************)
AppendChunk(before, what, len, after) ==
  /\ chunks' = Append(chunks, [at |-> binsize, len |-> len, what |-> what])
  /\ binsize' = binsize + len
  /\ stale' = (stale \/ binsize + len > Capacity)
  /\ hdr' = IF stale THEN hdr ELSE IF stale' THEN before ELSE after

Grown(h, table, len) == [h EXCEPT !.sh[table].size = @ + len]

\* The ELF header, where the entry symbol must be known.
WriteHeader ==
  /\ phase = "start"
  /\ LET entries == { i \in DOMAIN Symbols : Symbols[i].name = program.entry }
     IN  IF entries = {} THEN phase' = "threw" /\ UNCHANGED hdr
         ELSE /\ phase' = "shstrtab"
              /\ \E i \in entries : hdr' = [hdr EXCEPT !.entry = Symbols[i].addr % AddrMod]
  /\ UNCHANGED <<program, chunks, binsize, stale, nextName, namelist, item, file>>

\* Mutant of OpenStrings: the table starts behind the terminator.
OpenStringsMutOffset(table) ==
  /\ item = 0
  /\ LET opened == [hdr EXCEPT !.sh[table] = [NoShdr EXCEPT !.offset = binsize + 1]]
         named == IF table = Strtab
                  THEN [opened EXCEPT !.sh[table].name = namelist[Shstrtab][Strtab]]
                  ELSE opened
     IN  AppendChunk(opened, [kind |-> "null"], 1, Grown(named, table, 1))
  /\ nextName' = 1
  /\ item' = 1
  /\ UNCHANGED <<program, namelist, file, phase>>

\* ElfStringSection's constructor and append_null.
OpenStrings(table) ==
  /\ item = 0
  /\ LET opened == [hdr EXCEPT !.sh[table] = [NoShdr EXCEPT !.offset = binsize]]
         named == IF table = Strtab
                  THEN [opened EXCEPT !.sh[table].name = namelist[Shstrtab][Strtab]]
                  ELSE opened
     IN  AppendChunk(opened, [kind |-> "null"], 1, Grown(named, table, 1))
  /\ nextName' = 1
  /\ item' = 1
  /\ UNCHANGED <<program, namelist, file, phase>>

\* Mutant of AddName: the offset is taken behind the name.
AddNameMutOffset(table, names) ==
  /\ item \in DOMAIN names
  /\ LET len == NameLength[names[item]] + 1
         grown == Grown(hdr, table, len)
         named == IF table = Shstrtab /\ item = Shstrtab
                  THEN [grown EXCEPT !.sh[table].name = nextName] ELSE grown
     IN  /\ AppendChunk(hdr, [kind |-> "name", name |-> names[item]], len, named)
         /\ nextName' = nextName + len
         /\ namelist' = [namelist EXCEPT ![table] = Append(@, nextName + len)]
  /\ item' = item + 1
  /\ UNCHANGED <<program, file, phase>>

\* ElfStringSection::add
AddName(table, names) ==
  /\ item \in DOMAIN names
  /\ LET len == NameLength[names[item]] + 1
         grown == Grown(hdr, table, len)
         named == IF table = Shstrtab /\ item = Shstrtab
                  THEN [grown EXCEPT !.sh[table].name = nextName] ELSE grown
     IN  /\ AppendChunk(hdr, [kind |-> "name", name |-> names[item]], len, named)
         /\ nextName' = nextName + len
  /\ namelist' = [namelist EXCEPT ![table] = Append(@, nextName)]
  /\ item' = item + 1
  /\ UNCHANGED <<program, file, phase>>

\* The loop is over; the next part begins.
EndLoop(length, next) ==
  /\ item = length + 1
  /\ item' = 0
  /\ phase' = next
  /\ UNCHANGED <<program, hdr, chunks, binsize, stale, nextName, namelist, file>>

SectionNamesStep ==
  /\ phase = "shstrtab"
  /\ \/ OpenStrings(Shstrtab)
     \/ AddName(Shstrtab, SectionNamesTable)
     \/ EndLoop(3, "strtab")

SymbolNamesStep ==
  /\ phase = "strtab"
  /\ \/ OpenStrings(Strtab)
     \/ AddName(Strtab, SymbolNames)
     \/ EndLoop(Len(Symbols), "symtab")

\* ElfSymSection::add_sym; sh_info counts the records.
Counted(h) == [Grown(h, Symtab, SymSize) EXCEPT !.sh[Symtab].info = @ + 1]

\* ElfSymSection's constructor, with the symbol that is none; then its name.
OpenSymbols ==
  /\ phase = "symtab" /\ item = 0
  /\ LET opened == [hdr EXCEPT !.sh[Symtab] =
                      [NoShdr EXCEPT !.offset = binsize, !.link = Strtab]]
     IN  AppendChunk(opened, [kind |-> "nosym"], SymSize,
                     [Counted(opened) EXCEPT !.sh[Symtab].name = namelist[Shstrtab][Symtab]])
  /\ item' = 1
  /\ UNCHANGED <<program, nextName, namelist, file, phase>>

\* ElfSymSection::add: `info' is only the type, whatever was computed.
AddSymbol ==
  /\ phase = "symtab" /\ item \in DOMAIN Symbols
  /\ LET sym == Symbols[item]
         record == [kind |-> "sym", name |-> namelist[Strtab][item],
                    value |-> sym.addr % AddrMod, type |-> sym.type, global |-> FALSE,
                    size |-> sym.size]
     IN  AppendChunk(hdr, record, SymSize, Counted(hdr))
  /\ item' = item + 1
  /\ UNCHANGED <<program, nextName, namelist, file, phase>>

\* Written once without, and once with the segments.
WriteFile == file' = [hdr |-> hdr', chunks |-> chunks', size |-> binsize']

EndSymbols ==
  /\ phase = "symtab" /\ item = Len(Symbols) + 1
  /\ hdr' = IF stale THEN hdr
            ELSE [hdr EXCEPT !.sh[Symtab].info = Len(Symbols) + 1]
  /\ UNCHANGED <<program, chunks, binsize, stale, nextName, namelist>>
  /\ WriteFile
  /\ phase' = "segments"
  /\ item' = 1

\* p_flags
SegmentFlags(s) ==
  (IF "code" \in s.flags THEN {"X"} ELSE {})
    \cup (IF {"data", "resv"} \cap s.flags # {} /\ ~({"code", "execonly"} \subseteq s.flags)
          THEN {"R"} \cup (IF "readonly" \in s.flags THEN {} ELSE {"W"})
          ELSE {})

Loadable(s) == {"code", "data"} \cap s.flags # {}

Segment(s, offset) ==
  [load |-> Loadable(s), flags |-> SegmentFlags(s), offset |-> offset,
   vaddr |-> s.base % AddrMod, filesz |-> IF Loadable(s) THEN s.size ELSE 0,
   memsz |-> s.size]

\* Mutant of AddSegment: the output is appended before its header is filled in.
AddSegmentMutOrder ==
  /\ phase = "segments" /\ item \in DOMAIN Sections
  /\ LET s == Sections[item]
     IN  AppendChunk(hdr, [kind |-> "section", index |-> item], s.size,
                     [hdr EXCEPT !.ph[item] = Segment(s, binsize + s.size)])
  /\ item' = item + 1
  /\ UNCHANGED <<program, nextName, namelist, file, phase>>

AddSegment ==
  /\ phase = "segments" /\ item \in DOMAIN Sections
  /\ LET s == Sections[item]
         described == [hdr EXCEPT !.ph[item] = Segment(s, binsize)]
     IN  AppendChunk(described, [kind |-> "section", index |-> item], s.size, described)
  /\ item' = item + 1
  /\ UNCHANGED <<program, nextName, namelist, file, phase>>

EndSegments ==
  /\ phase = "segments" /\ item = Len(Sections) + 1
  /\ UNCHANGED <<program, hdr, chunks, binsize, stale, nextName, namelist, item>>
  /\ WriteFile
  /\ phase' = "written"

\* A write through a stale reference may also hit memory that was unmapped.
Fault ==
  /\ stale
  /\ \/ phase \in {"shstrtab", "strtab", "symtab"}
     \/ phase = "segments" /\ item \in DOMAIN Sections
  /\ phase' = "crashed"
  /\ UNCHANGED <<program, hdr, chunks, binsize, stale, nextName, namelist, item, file>>

ElfStopped == phase \in {"written", "threw", "crashed"} /\ UNCHANGED elfVars

ElfNext ==
  \/ WriteHeader
  \/ SectionNamesStep
  \/ SymbolNamesStep
  \/ OpenSymbols \/ AddSymbol \/ EndSymbols
  \/ AddSegment \/ EndSegments
  \/ Fault \/ ElfStopped

ElfSpec == ElfInit /\ [][ElfNext]_elfVars
-----------------------------------------------------------------------------
(***************************************************************************)
(* Properties: what a reader of the file finds, through its headers        *)
(***************************************************************************)

SumOf(seq) ==
  LET upTo[n \in 0 .. Len(seq)] == IF n = 0 THEN 0 ELSE upTo[n - 1] + seq[n]
  IN  upTo[Len(seq)]

\* The size of the file in front of the output of section i.
SizeBefore(i) ==
  HeaderSize + 2
    + SumOf([k \in 1 .. 3 |-> NameLength[SectionNamesTable[k]] + 1])
    + SumOf([k \in DOMAIN Symbols |-> NameLength[Symbols[k].name] + 1])
    + SymSize * (Len(Symbols) + 1)
    + SumOf([k \in 1 .. (i - 1) |-> Sections[k].size])

\* Nothing is reallocated while there are headers to fill in.
Fits == Len(Sections) > 0 => SizeBefore(Len(Sections)) <= Capacity

\* What a reader finds at a position of the file.
FoundAt(f, at) ==
  { f.chunks[i].what : i \in { k \in DOMAIN f.chunks : f.chunks[k].at = at } }

NameIn(f, table, offset) ==
  { what.name : what \in { w \in FoundAt(f, f.hdr.sh[table].offset + offset) : w.kind = "name" } }

\* The records of a symbol table, by position.
RecordAt(f, i) ==
  { what \in FoundAt(f, f.hdr.sh[Symtab].offset + i * SymSize) : what.kind = "sym" }

(***************************************************************************)
(* Every symbol is found by following the headers from e_shoff: its record *)
(* in the table of symbols, its name in the table that is linked to it,    *)
(* and the value finish gave it; the tables are found by their own names.  *)
(* So it is in the file without segments and in the final one, if all that *)
(* precedes the last section's output fits in what is reserved             *)
(* (elfwriter.cpp:28-41, 65-80, 137-163).                                  *)
(***************************************************************************)
SymbolsAreFound ==
  file.size > 0 /\ Fits =>
    /\ \A k \in 1 .. 3 : NameIn(file, Shstrtab, file.hdr.sh[k].name) = {SectionNamesTable[k]}
    /\ file.hdr.sh[Symtab].size = SymSize * file.hdr.sh[Symtab].info
    /\ { <<r.value, r.size, NameIn(file, file.hdr.sh[Symtab].link, r.name)>> :
           r \in UNION { RecordAt(file, i) : i \in 1 .. (file.hdr.sh[Symtab].info - 1) } }
       = { <<Symbols[i].addr % AddrMod, Symbols[i].size, {Symbols[i].name}>> :
             i \in DOMAIN Symbols }

\* The parts of the file that its headers describe.
Ranges(f) ==
  { [at |-> f.hdr.sh[k].offset, len |-> f.hdr.sh[k].size] : k \in 1 .. 3 }
    \cup { [at |-> f.hdr.ph[i].offset, len |-> f.hdr.ph[i].filesz] : i \in DOMAIN f.hdr.ph }
    \cup { [at |-> 0, len |-> HeaderSize] }

\* The headers that name a part: two that share one count twice.
Parts(f) ==
  3 + 1 + Cardinality({ i \in DOMAIN f.hdr.ph : f.hdr.ph[i].filesz > 0 })

\* The output of sections that are not loaded: it is written without being a
\* part.
Unloaded(f) ==
  { [at |-> f.hdr.ph[i].offset, len |-> f.hdr.ph[i].memsz] :
      i \in { k \in DOMAIN f.hdr.ph : ~f.hdr.ph[k].load } }

Contains(range, pos) == range.at <= pos /\ pos < range.at + range.len

(***************************************************************************)
(* The parts of the final file are disjoint and within it, and every       *)
(* position of the file is in a part or in the output of a section that is *)
(* not loaded (elfwriter.cpp:20, 56, 193-199).                             *)
(***************************************************************************)
PartsTileFile ==
  phase = "written" /\ Fits =>
    LET parts == { r \in Ranges(file) : r.len > 0 }
    IN  /\ Cardinality(parts) = Parts(file)
        /\ \A a, b \in parts : a # b => a.at + a.len <= b.at \/ b.at + b.len <= a.at
        /\ \A a \in parts : a.at + a.len <= file.size
        /\ \A pos \in 0 .. (file.size - 1) :
             \E r \in parts \cup Unloaded(file) : Contains(r, pos)

(***************************************************************************)
(* However large the program, a program header of the final file is right  *)
(* or, once the vector has outgrown what was reserved, empty: if it is not *)
(* lost it has the attributes and address of its section, and its offset   *)
(* is where the section's output is (elfwriter.cpp:112-114, 167-200).      *)
(***************************************************************************)
SegmentsRightOrMissing ==
  phase = "written" =>
    \A i \in DOMAIN Sections :
      LET p == file.hdr.ph[i]
      IN  \/ p = NoPhdr
          \/ /\ p = Segment(Sections[i], p.offset)
             /\ [kind |-> "section", index |-> i] \in FoundAt(file, p.offset)
=============================================================================

--------------------------- MODULE BaseResolution ---------------------------
(***************************************************************************)
(* Assembler::resolve_base_addresses: the pass of Assembler::finish that   *)
(* gives every section its base address.                                   *)
(*                                                                         *)
(* Sections are visited in the order they first appeared in the program    *)
(* (their index).  A section with a base address of its own (the           *)
(* constructor's, or .org's) keeps it and restarts the running address     *)
(* there; any other section is placed at the running address, which is     *)
(* first rounded up to a page where two sections need different page       *)
(* permissions.                                                            *)
(*                                                                         *)
(* Addresses are natural numbers: the 128-bit wrap of address_t is not     *)
(* modelled.  The module is used twice: on its own, where LayoutInit       *)
(* starts it from every configuration of sections, and as a phase of       *)
(* Assembler, which EXTENDS it and reaches the configurations by           *)
(* assembling programs.                                                    *)
(***************************************************************************)
EXTENDS Integers, Sequences

CONSTANTS
  SectionNames,     \* the names a program may give to sections
  TextSection,      \* ".text", which the constructor creates first
  OptionsBase,      \* Options::base, 0x100000 in the program
  PageSeparation,   \* Options::section_attr_page_separation
  PageSize,         \* 0x1000
  BaseGranule       \* 0x10, the granule of automatic base addresses

ASSUME SectionsAssumption == TextSection \in SectionNames

ASSUME LayoutAssumption ==
  /\ PageSeparation \in BOOLEAN
  /\ BaseGranule \in Nat \ {0}
  /\ PageSize \in Nat \ {0}
  /\ PageSize % BaseGranule = 0
  /\ OptionsBase \in Nat
  /\ OptionsBase % BaseGranule = 0

VARIABLES
  order,          \* the sections that exist, by index
  size,           \* bytes output to each section
  flags,          \* what each section holds, and .execonly / .readonly
  base,           \* base address of each section
  hasBase,        \* the sections whose base address is set
  pinned,         \* history: those whose base the program or the options chose
  idx,            \* resolve_base_addresses: next section to visit
  baseAddr,       \* resolve_base_addresses: base_addr
  wasExecutable,  \* resolve_base_addresses: was_executable
  wasReadonly     \* resolve_base_addresses: was_readonly

sectionVars == <<order, size, flags, base, hasBase, pinned>>
cursorVars  == <<idx, baseAddr, wasExecutable, wasReadonly>>
layoutVars  == <<sectionVars, cursorVars>>

SectionFlags == {"code", "data", "resv", "execonly", "readonly"}

\* Mutant of AlignUp: the mask alone, which rounds down.
AlignUpMutMask(n, a) == n - (n % a)

(***************************************************************************)
(* Round n up to a multiple of a.  The program writes it with masks, for   *)
(* powers of two: (n + (a-1)) & ~(a-1).                                    *)
(***************************************************************************)
AlignUp(n, a) == n + ((-n) % a)

Executable(s) == "code" \in flags[s]
ReadOnlySection(s) == "readonly" \in flags[s]

SectionEnd(s) == base[s] + size[s]

-----------------------------------------------------------------------------

CursorInit ==
  /\ idx = 1
  /\ baseAddr = OptionsBase
  /\ wasExecutable = FALSE
  /\ wasReadonly = FALSE

\* Mutants of AdvancePast: the loop index counted twice; base_addr not rounded
\* up; the size of the section left out.
AdvancePastMutSkip(s, start) ==
  /\ base' = [base EXCEPT ![s] = start]
  /\ hasBase' = hasBase \cup {s}
  /\ baseAddr' = AlignUp(start + size[s], BaseGranule)
  /\ idx' = idx + 2
  /\ UNCHANGED <<order, size, flags, pinned>>

AdvancePastMutGranule(s, start) ==
  /\ base' = [base EXCEPT ![s] = start]
  /\ hasBase' = hasBase \cup {s}
  /\ baseAddr' = start + size[s]
  /\ idx' = idx + 1
  /\ UNCHANGED <<order, size, flags, pinned>>

AdvancePastMutSize(s, start) ==
  /\ base' = [base EXCEPT ![s] = start]
  /\ hasBase' = hasBase \cup {s}
  /\ baseAddr' = AlignUp(start, BaseGranule)
  /\ idx' = idx + 1
  /\ UNCHANGED <<order, size, flags, pinned>>

\* What follows a section's own placement, in every iteration of the loop.
AdvancePast(s, start) ==
  /\ base' = [base EXCEPT ![s] = start]
  /\ hasBase' = hasBase \cup {s}
  /\ baseAddr' = AlignUp(start + size[s], BaseGranule)
  /\ idx' = idx + 1
  /\ UNCHANGED <<order, size, flags, pinned>>

Visiting(s) == idx <= Len(order) /\ s = order[idx]

\* Mutants of KeepBase: was_executable not updated; the running address used.
KeepBaseMutFlag(s) ==
  /\ Visiting(s)
  /\ s \in hasBase
  /\ UNCHANGED <<wasExecutable, wasReadonly>>
  /\ AdvancePast(s, base[s])

KeepBaseMutMove(s) ==
  /\ Visiting(s)
  /\ s \in hasBase
  /\ wasExecutable' = Executable(s)
  /\ UNCHANGED wasReadonly
  /\ AdvancePast(s, baseAddr)

\* A section that has a base address keeps it.
KeepBase(s) ==
  /\ Visiting(s)
  /\ s \in hasBase
  /\ wasExecutable' = Executable(s)
  /\ UNCHANGED wasReadonly
  /\ AdvancePast(s, base[s])

LeavesExecutable(s) == PageSeparation /\ wasExecutable /\ ~Executable(s)
LeavesReadonly(s) ==
  PageSeparation /\ ~LeavesExecutable(s) /\ wasReadonly /\ ~ReadOnlySection(s)

\* Any other section follows the one before it, on a new page if need be.
PlaceNext(s) ==
  /\ Visiting(s)
  /\ s \notin hasBase
  /\ wasExecutable' = (wasExecutable /\ ~LeavesExecutable(s))
  /\ wasReadonly' = (wasReadonly /\ ~LeavesReadonly(s))
  /\ AdvancePast(s, IF LeavesExecutable(s) \/ LeavesReadonly(s)
                    THEN AlignUp(baseAddr, PageSize)
                    ELSE baseAddr)

ResolveStep == \E s \in SectionNames : KeepBase(s) \/ PlaceNext(s)

Resolved == idx > Len(order)

-----------------------------------------------------------------------------
(***************************************************************************)
(* What a layout promises, of the sections visited so far.                 *)
(***************************************************************************)

(***************************************************************************)
(* The types of the layout state, with the facts about it that every       *)
(* program guarantees: sections are listed once, and .text comes first and *)
(* has a base address.                                                     *)
(***************************************************************************)
LayoutTypeOK ==
  /\ order \in Seq(SectionNames)
  /\ size \in [SectionNames -> Nat]
  /\ flags \in [SectionNames -> SUBSET SectionFlags]
  /\ base \in [SectionNames -> Nat]
  /\ hasBase \subseteq SectionNames
  /\ pinned \subseteq hasBase
  /\ idx \in 1 .. (Len(order) + 1)
  /\ baseAddr \in Nat
  /\ wasExecutable \in BOOLEAN
  /\ wasReadonly \in BOOLEAN
  /\ \A i, j \in DOMAIN order : order[i] = order[j] => i = j

Visited == 1 .. (idx - 1)

\* No section from index i+1 to index j chose its own base address.
AutomaticRun(i, j) == \A k \in (i + 1) .. j : order[k] \notin pinned

(***************************************************************************)
(* Sections that are placed one after another never overlap, however many  *)
(* of them follow the last one with an address of its own and wherever     *)
(* page realignment intervenes: base_addr always clears what was placed    *)
(* since the last restart (assemble.cpp:103-110).                          *)
(***************************************************************************)
AutomaticSectionsDisjoint ==
  \A i, j \in Visited :
    i < j /\ AutomaticRun(i, j) => SectionEnd(order[i]) <= base[order[j]]

(***************************************************************************)
(* An automatic base address is on the 16-byte granule, so the alignment   *)
(* that align_with_labels gives an item inside its section (at most 16) is *)
(* also the alignment of its address.  Holds although .org takes any       *)
(* address (assemble.cpp:82, 105-110).                                     *)
(***************************************************************************)
AutomaticBaseAligned ==
  \A i \in Visited : order[i] \notin pinned => base[order[i]] % BaseGranule = 0

\* The first section after i, in a run of automatic ones, that is not code.
FirstDataAfter(i, j) ==
  /\ i < j
  /\ AutomaticRun(i, j)
  /\ ~Executable(order[j])
  /\ \A k \in i .. (j - 1) : Executable(order[k])

(***************************************************************************)
(* The first non-executable section that follows an executable section     *)
(* with an address of its own, directly or behind further code sections,   *)
(* starts on a page none of that code reaches (assemble.cpp:93-97, 106).   *)
(***************************************************************************)
DataLeavesPinnedCodePages ==
  PageSeparation =>
    \A i, j \in Visited :
      order[i] \in pinned /\ FirstDataAfter(i, j) =>
        /\ base[order[j]] % PageSize = 0
        /\ \A k \in i .. (j - 1) : SectionEnd(order[k]) <= base[order[j]]

(***************************************************************************)
(* resolve_base_addresses overrides no address that is already set: one    *)
(* from the constructor, from .org, or from an earlier iteration           *)
(* (assemble.cpp:91, 104-107).                                             *)
(***************************************************************************)
SetBasesKept == [][\A s \in hasBase : base'[s] = base[s]]_layoutVars
=============================================================================

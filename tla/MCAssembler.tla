---------------------------- MODULE MCAssembler ----------------------------
(***************************************************************************)
(* Small instances of Assembler.  Two sections and two labels whose        *)
(* alphabetical order is the opposite of the order of first appearance in  *)
(* some programs; 2^32 and 2^64 scaled down to what TLC's integers hold.   *)
(* Each run takes the statements its question is about.                    *)
(***************************************************************************)
EXTENDS AssemblerLinks

MCSections == {".data", ".text"}
MCSectionOrder == <<".data", ".text">>
MCLabels == {"a", "b"}
MCLabelOrder == <<"a", "b">>
OneLabel == {"a"}
OneLabelOrder == <<"a">>

Named(names) == { form \in ReferenceForms : form.name \in names }
Branches == Named({"branch"})
LongAndJumps == Named({"laq", "jump"})

MCMod32 == 2^24
MCMod64 == 2^27

\* Reservations of -4 units take the section back, and so do .align 0 and -8.
MCCounts == {2, MCMod64 - 4}
MCAlignments == {0, 8, MCMod64 - 8}

\* One that a file could be linked at, and one 2^64 and a little past .text.
MCBases == {20484, 2^20 + MCMod64 + 8}

\* Where labels are declared, bound, referred to and measured, and what stops
\* the program on the way.
LabelStatements ==
  {"label", "ref", "const", "db", "align", "finish_labels", "section", "size", "bad"}

\* What decides the base address of a section and the size and type of a
\* symbol, and takes output away that they, or scheduled work, refer to.
SectionStatements ==
  {"section", "org", "attr", "instr", "ref", "res", "resb", "label", "size", "type",
   "endfunc", "bytes", "const", "align"}

\* What gives a section its base address, and takes its output away.
OrgStatements == {"section", "org", "instr", "resb", "align"}
=============================================================================

------------------------------- MODULE Layout -------------------------------
(***************************************************************************)
(* resolve_base_addresses on its own, started from every configuration of  *)
(* sections that assembling can leave: .text is the first section and has  *)
(* a base address (the Assembler constructor), any other section may have  *)
(* been given one by .org.                                                 *)
(***************************************************************************)
EXTENDS BaseResolution

CONSTANTS
  MaxSections,  \* bound: sections of a program
  Sizes,        \* section sizes to try
  Bases         \* base addresses .org may have set

ASSUME LayoutInputsAssumption ==
  /\ MaxSections \in Nat
  /\ Sizes \subseteq Nat
  /\ Bases \subseteq Nat

\* Layouts depend on these two flags only.
LayoutFlags == {"code", "readonly"}

SectionOrders ==
  { o \in UNION { [1 .. n -> SectionNames] : n \in 1 .. MaxSections } :
      /\ o[1] = TextSection
      /\ \A i, j \in DOMAIN o : o[i] = o[j] => i = j }

LayoutInit ==
  /\ order \in SectionOrders
  /\ LET Existing == { order[i] : i \in DOMAIN order }
     IN /\ pinned \in { p \in SUBSET Existing : TextSection \in p }
        /\ size \in { f \in [SectionNames -> Sizes \cup {0}] :
                        \A s \in SectionNames \ Existing : f[s] = 0 }
        /\ flags \in { f \in [SectionNames -> SUBSET LayoutFlags] :
                         \A s \in SectionNames \ Existing : f[s] = {} }
  /\ hasBase = pinned
  /\ base \in { f \in [SectionNames -> Bases \cup {0}] :
                  \A s \in SectionNames \ pinned : f[s] = 0 }
  /\ CursorInit

LayoutTerminated == Resolved /\ UNCHANGED layoutVars

LayoutNext == ResolveStep \/ LayoutTerminated

LayoutSpec == LayoutInit /\ [][LayoutNext]_layoutVars
=============================================================================

--------------------------- MODULE AssemblerLinks ---------------------------
(***************************************************************************)
(* The assembler implements Linker.  A reference is an instruction item    *)
(* that refers to a label; a label is bound once it is in m_lookup; what   *)
(* finish_scheduled_work stores in an instruction is the reference's value.*)
(* Everything up to resolve_base_addresses is reading.                     *)
(***************************************************************************)
EXTENDS Assembler

LinkStage ==
  CASE phase \in {"assembling", "flushing", "resolving"} -> "reading"
    [] phase = "patching" -> "placed"
    [] phase = "finished" -> "linked"
    [] phase = "failed"   -> "failed"

Bound == [l \in DOMAIN lookup |-> [sec |-> lookup[l].sec, off |-> lookup[l].off]]

Instructions(s) == { x \in output[s] : x.kind = "code" }

ReferenceAt(l, s, off) == [label |-> l, site |-> [sec |-> s, off |-> off]]

References ==
  UNION { UNION { { ReferenceAt(l, s, x.off) : l \in x.refs } : x \in Instructions(s) } :
            s \in SectionNames }

\* The positions patched that are in instructions, not in .size constants.
ValueSites ==
  { p \in DOMAIN patched : \E x \in Instructions(p.sec) : x.off = p.off }

Link ==
  INSTANCE Linker WITH
    Places <- SectionNames, Names <- Labels,
    stage <- LinkStage, place <- base, bound <- Bound,
    references <- References,
    value <- [p \in ValueSites |-> patched[p]]

(***************************************************************************)
(* Every behaviour of the assembler is one of Linker: labels never move    *)
(* once bound, no reference is forgotten or resolved before the addresses  *)
(* are final, each gets the address of its own label, and finish returns   *)
(* only when all are resolved, through any interleaving of statements,     *)
(* queues and scheduled work (assemble.cpp:14-73, 143-191).                *)
(* Of a program that makes no section shorter: the references in what is   *)
(* removed are forgotten.                                                  *)
(***************************************************************************)
ImplementsLinker == Link!LinkSpec
=============================================================================

------------------------------- MODULE Linker -------------------------------
(***************************************************************************)
(* What the assembler promises of labels and references, whatever is       *)
(* output, queued and scheduled to keep the promise: while the program is  *)
(* read, labels are bound to positions that never change and references    *)
(* to labels collect, forwards or backwards.  When all of it is read the   *)
(* sections get their final places, and only then is a reference resolved, *)
(* to the address of its label.  The program is linked once no reference   *)
(* is left over.                                                           *)
(***************************************************************************)
EXTENDS Integers

CONSTANTS Places, Names  \* the sections and the labels

VARIABLES
  stage,       \* "reading", "placed", "linked" or "failed"
  place,       \* section -> its address
  bound,       \* label -> its position, for the labels that are bound
  references,  \* what is to be resolved
  value        \* position -> the address stored there

linkVars == <<stage, place, bound, references, value>>

At == [sec : Places, off : Nat]

TargetOf(r) == place[bound[r.label].sec] + bound[r.label].off

LinkInit ==
  /\ stage = "reading"
  /\ place \in [Places -> Nat]
  /\ bound = [l \in {} |-> 0]
  /\ references = {}
  /\ value = [x \in {} |-> 0]

\* More of the program is read: bindings and references are only added, and
\* a position holds one reference.
Read ==
  /\ stage = "reading"
  /\ place' \in [Places -> Nat]
  /\ DOMAIN bound \subseteq DOMAIN bound'
  /\ \A l \in DOMAIN bound : bound'[l] = bound[l]
  /\ references \subseteq references'
  /\ references' \subseteq [label : Names, site : At]
  /\ \A r, q \in references' : r.site = q.site => r = q
  /\ UNCHANGED <<stage, value>>

Place ==
  /\ stage = "reading"
  /\ stage' = "placed"
  /\ UNCHANGED <<place, bound, references, value>>

Resolve(r) ==
  /\ stage = "placed"
  /\ r.label \in DOMAIN bound
  /\ value' = [x \in DOMAIN value \cup {r.site} |->
                 IF x = r.site THEN TargetOf(r) ELSE value[x]]
  /\ UNCHANGED <<stage, place, bound, references>>

Close ==
  /\ stage = "placed"
  /\ \A r \in references : r.site \in DOMAIN value
  /\ stage' = "linked"
  /\ UNCHANGED <<place, bound, references, value>>

Stop ==
  /\ stage \in {"reading", "placed"}
  /\ stage' = "failed"
  /\ UNCHANGED <<place, bound, references, value>>

LinkNext == Read \/ Place \/ (\E r \in references : Resolve(r)) \/ Close \/ Stop

LinkSpec == LinkInit /\ [][LinkNext]_linkVars
=============================================================================

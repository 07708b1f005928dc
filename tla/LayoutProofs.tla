---------------------------- MODULE LayoutProofs ----------------------------
(***************************************************************************)
(* The promises of resolve_base_addresses, for every number and size of    *)
(* sections, every page size and granule that fit each other, and every    *)
(* address that .org may set.                                              *)
(***************************************************************************)
EXTENDS Layout, BaseResolutionProofs

LEMMA LayoutInitInv ==
  ASSUME SectionsAssumption, LayoutAssumption, LayoutInputsAssumption, LayoutInit
  PROVE  LoopInv
<1>1. PICK n \in 1 .. MaxSections : order \in [1 .. n -> SectionNames]
  BY DEF LayoutInit, SectionOrders
<1>2. /\ order \in Seq(SectionNames) /\ Len(order) = n
      /\ \A i, j \in DOMAIN order : order[i] = order[j] => i = j
  BY <1>1 DEF LayoutInit, SectionOrders
<1>3. size \in [SectionNames -> Nat] /\ base \in [SectionNames -> Nat]
  <2>1. Sizes \cup {0} \subseteq Nat /\ Bases \cup {0} \subseteq Nat
    BY DEF LayoutInputsAssumption
  <2>2. size \in [SectionNames -> Sizes \cup {0}]
    BY DEF LayoutInit
  <2>3. base \in [SectionNames -> Bases \cup {0}]
    BY DEF LayoutInit
  <2>4. QED
    BY <2>1, <2>2, <2>3
<1>4. flags \in [SectionNames -> SUBSET SectionFlags]
  BY DEF LayoutInit, LayoutFlags, SectionFlags
<1>5. /\ hasBase = pinned /\ hasBase \subseteq SectionNames
      /\ CursorInit
  BY <1>2 DEF LayoutInit
<1>6. LayoutTypeOK
  <2>1. idx \in 1 .. (Len(order) + 1) /\ baseAddr \in Nat
    BY <1>2, <1>5 DEF CursorInit, LayoutAssumption
  <2>2. wasExecutable \in BOOLEAN /\ wasReadonly \in BOOLEAN
    BY <1>5 DEF CursorInit
  <2>3. QED
    BY <1>2, <1>3, <1>4, <1>5, <2>1, <2>2 DEF LayoutTypeOK
<1>7. QED
  BY <1>5, <1>6, LoopStarts

LEMMA LayoutStepInv ==
  ASSUME LayoutAssumption, LoopInv, [LayoutNext]_layoutVars
  PROVE  LoopInv'
<1>1. CASE ResolveStep
  BY <1>1, LoopInvStep
<1>2. CASE UNCHANGED layoutVars
  BY <1>2, LoopInvStutter
<1>3. QED
  BY <1>1, <1>2 DEF LayoutNext, LayoutTerminated

(***************************************************************************)
(* The loop invariant, from which the promises follow.                     *)
(***************************************************************************)
THEOREM LayoutInvariant == LayoutSpec => []LoopInv
<1>1. LayoutInit => LoopInv
  BY LayoutInitInv, SectionsAssumption, LayoutAssumption, LayoutInputsAssumption
<1>2. LoopInv /\ [LayoutNext]_layoutVars => LoopInv'
  BY LayoutStepInv, LayoutAssumption
<1>3. QED
  BY <1>1, <1>2, PTL DEF LayoutSpec

\* Type correctness of the layout state.
THEOREM LayoutTypeCorrect == LayoutSpec => []LayoutTypeOK
<1>1. LoopInv => LayoutTypeOK
  BY DEF LoopInv
<1>2. QED
  BY <1>1, LayoutInvariant, PTL

\* Sections placed one after another never overlap.
THEOREM LayoutDisjoint == LayoutSpec => []AutomaticSectionsDisjoint
<1>1. LoopInv => AutomaticSectionsDisjoint
  BY DEF LoopInv
<1>2. QED
  BY <1>1, LayoutInvariant, PTL

\* Automatic base addresses are on the 16-byte granule, whatever .org set.
THEOREM LayoutAligned == LayoutSpec => []AutomaticBaseAligned
<1>1. LoopInv => AutomaticBaseAligned
  BY DEF LoopInv
<1>2. QED
  BY <1>1, LayoutInvariant, PTL

\* Data behind code that has an address of its own starts on a fresh page.
THEOREM LayoutCodePages == LayoutSpec => []DataLeavesPinnedCodePages
<1>1. LoopInv => DataLeavesPinnedCodePages
  BY DEF LoopInv
<1>2. QED
  BY <1>1, LayoutInvariant, PTL

\* resolve_base_addresses never changes an address that is set.
THEOREM LayoutKeepsBases == LayoutSpec => SetBasesKept
<1>1. LoopInv /\ [LayoutNext]_layoutVars =>
        [\A s \in hasBase : base'[s] = base[s]]_layoutVars
  <2> SUFFICES ASSUME LoopInv, LayoutNext, NEW t \in hasBase
               PROVE  base'[t] = base[t]
    OBVIOUS
  <2>1. base \in [SectionNames -> Nat] /\ t \in SectionNames
    BY DEF LoopInv, LayoutTypeOK
  <2>2. CASE UNCHANGED layoutVars
    BY <2>2 DEF layoutVars, sectionVars
  <2>3. ASSUME NEW s \in SectionNames, KeepBase(s) PROVE base'[t] = base[t]
    BY <2>1, <2>3 DEF KeepBase, AdvancePast
  <2>4. ASSUME NEW s \in SectionNames, PlaceNext(s) PROVE base'[t] = base[t]
    BY <2>1, <2>4 DEF PlaceNext, AdvancePast
  <2>5. QED
    BY <2>2, <2>3, <2>4 DEF LayoutNext, LayoutTerminated, ResolveStep
<1>2. QED
  BY <1>1, LayoutInvariant, PTL DEF LayoutSpec, SetBasesKept
=============================================================================

------------------------ MODULE BaseResolutionProofs ------------------------
(***************************************************************************)
(* What one iteration of resolve_base_addresses preserves, for every value *)
(* of the constants.  Layout and Assembler both build on these lemmas.     *)
(***************************************************************************)
EXTENDS BaseResolution, TLAPS

-----------------------------------------------------------------------------
(***************************************************************************)
(* Rounding up                                                             *)
(***************************************************************************)

LEMMA DivisionLemma ==
  ASSUME NEW n \in Int, NEW a \in Nat \ {0}
  PROVE  /\ n % a \in 0 .. (a - 1)
         /\ n = (a * (n \div a)) + (n % a)
         /\ n \div a \in Int
  OBVIOUS

LEMMA MultipleLemma ==
  ASSUME NEW a \in Nat \ {0}, NEW q \in Int
  PROVE  (a * q) % a = 0
  OBVIOUS

\* AlignUp rounds up, by less than the alignment.
LEMMA AlignUpBounds ==
  ASSUME NEW n \in Nat, NEW a \in Nat \ {0}
  PROVE  /\ AlignUp(n, a) \in Nat
         /\ n <= AlignUp(n, a)
         /\ AlignUp(n, a) < n + a
  BY DivisionLemma, -n \in Int DEF AlignUp

LEMMA FactorLemma ==
  ASSUME NEW n \in Int, NEW a \in Nat \ {0}, n % a = 0
  PROVE  \E q \in Int : n = a * q
<1>1. n = a * (n \div a) /\ n \div a \in Int
  BY DivisionLemma
<1>2. QED
  BY <1>1

\* AlignUp returns a multiple of the alignment.
LEMMA AlignUpMultiple ==
  ASSUME NEW n \in Nat, NEW a \in Nat \ {0}
  PROVE  AlignUp(n, a) % a = 0
<1> DEFINE q == (-n) \div a
<1>1. -n = (a * q) + ((-n) % a) /\ q \in Int /\ (-n) % a \in Int
  BY DivisionLemma, -n \in Int
<1>2. AlignUp(n, a) = a * (-q)
  BY <1>1 DEF AlignUp
<1>3. QED
  BY <1>1, <1>2, MultipleLemma, -q \in Int

\* A multiple of the page size is a multiple of what divides the page size.
LEMMA AlignUpPageGranule ==
  ASSUME NEW n \in Nat, LayoutAssumption
  PROVE  AlignUp(n, PageSize) % BaseGranule = 0
<1>1. /\ PageSize \in Nat \ {0} /\ BaseGranule \in Nat \ {0}
      /\ PageSize % BaseGranule = 0
  BY DEF LayoutAssumption
<1>2. AlignUp(n, PageSize) \in Int /\ AlignUp(n, PageSize) % PageSize = 0
  BY <1>1, AlignUpBounds, AlignUpMultiple
<1>3. PICK p \in Int : AlignUp(n, PageSize) = PageSize * p
  BY <1>1, <1>2, FactorLemma
<1>4. PICK g \in Int : PageSize = BaseGranule * g
  BY <1>1, FactorLemma
<1>5. AlignUp(n, PageSize) = BaseGranule * (g * p) /\ g * p \in Int
  BY <1>1, <1>3, <1>4
<1>6. QED
  BY <1>1, <1>5, MultipleLemma

-----------------------------------------------------------------------------
(***************************************************************************)
(* The inductive invariant of the loop                                     *)
(***************************************************************************)

\* What is placed since the last restart lies below the running address.
RunningAddressClears ==
  \A i \in Visited :
    AutomaticRun(i, idx - 1) => SectionEnd(order[i]) <= baseAddr

\* Only visited sections have been given an address by the loop.
AddressesChosenOrVisited ==
  \A s \in hasBase : s \in pinned \/ \E i \in Visited : order[i] = s

\* The running address is on the granule.
RunningAddressAligned == baseAddr % BaseGranule = 0

\* was_executable is set behind nothing but code, since an address of its own.
CodeIsRemembered ==
  \A i \in Visited :
    /\ order[i] \in pinned
    /\ AutomaticRun(i, idx - 1)
    /\ \A k \in i .. (idx - 1) : Executable(order[k])
    => wasExecutable

LoopInv ==
  /\ LayoutTypeOK
  /\ AddressesChosenOrVisited
  /\ RunningAddressClears
  /\ RunningAddressAligned
  /\ CodeIsRemembered
  /\ AutomaticSectionsDisjoint
  /\ AutomaticBaseAligned
  /\ DataLeavesPinnedCodePages

-----------------------------------------------------------------------------

\* Before the first iteration nothing is visited.
LEMMA LoopStarts ==
  ASSUME LayoutAssumption, LayoutTypeOK, CursorInit, hasBase = pinned
  PROVE  LoopInv
BY DEF LoopInv, LayoutAssumption, LayoutTypeOK, CursorInit, Visited,
       AddressesChosenOrVisited, RunningAddressClears, RunningAddressAligned,
       CodeIsRemembered, AutomaticSectionsDisjoint, AutomaticBaseAligned,
       DataLeavesPinnedCodePages

\* A visited section differs from the one that is being visited.
LEMMA VisitedDiffer ==
  ASSUME LayoutTypeOK, NEW s \in SectionNames, Visiting(s), NEW i \in Visited
  PROVE  /\ i \in DOMAIN order
         /\ order[i] \in SectionNames
         /\ order[i] # s
<1>1. i \in DOMAIN order /\ idx \in DOMAIN order /\ i # idx
  BY DEF LayoutTypeOK, Visiting, Visited
<1>2. QED
  BY <1>1 DEF LayoutTypeOK, Visiting

\* Every iteration places its section; one that did not choose its address is
\* placed no lower than the running address, on the granule, and behind code on
\* a new page.
LEMMA Placement ==
  ASSUME LayoutAssumption, LayoutTypeOK, AddressesChosenOrVisited,
         RunningAddressAligned,
         NEW s \in SectionNames, KeepBase(s) \/ PlaceNext(s)
  PROVE  \E start \in Nat :
           /\ AdvancePast(s, start)
           /\ s \notin pinned =>
                /\ baseAddr <= start
                /\ start % BaseGranule = 0
                /\ LeavesExecutable(s) => start % PageSize = 0
<1>1. CASE KeepBase(s)
  <2>1. s \in pinned
    BY <1>1, VisitedDiffer DEF KeepBase, AddressesChosenOrVisited
  <2>2. base[s] \in Nat /\ AdvancePast(s, base[s])
    BY <1>1 DEF KeepBase, LayoutTypeOK
  <2>3. QED
    BY <2>1, <2>2
<1>2. CASE PlaceNext(s)
  <2> DEFINE page == AlignUp(baseAddr, PageSize)
  <2>1. baseAddr \in Nat /\ PageSize \in Nat \ {0}
    BY DEF LayoutTypeOK, LayoutAssumption
  <2>2. /\ page \in Nat /\ baseAddr <= page
        /\ page % PageSize = 0
        /\ page % BaseGranule = 0
    BY <2>1, AlignUpBounds, AlignUpMultiple, AlignUpPageGranule
  <2>3. CASE LeavesExecutable(s) \/ LeavesReadonly(s)
    <3>1. AdvancePast(s, page)
      BY <1>2, <2>3 DEF PlaceNext
    <3>2. QED
      BY <2>2, <3>1
  <2>4. CASE ~LeavesExecutable(s) /\ ~LeavesReadonly(s)
    <3>1. AdvancePast(s, baseAddr)
      BY <1>2, <2>4 DEF PlaceNext
    <3>2. QED
      BY <2>1, <2>4, <3>1 DEF RunningAddressAligned
  <2>5. QED
    BY <2>3, <2>4
<1>3. QED
  BY <1>1, <1>2

LEMMA AdvanceType ==
  ASSUME LayoutAssumption, LayoutTypeOK, NEW s \in SectionNames, Visiting(s),
         NEW start \in Nat, AdvancePast(s, start)
  PROVE  /\ base' \in [SectionNames -> Nat]
         /\ base'[s] = start
         /\ hasBase' \subseteq SectionNames
         /\ pinned' \subseteq hasBase'
         /\ idx' \in 1 .. (Len(order) + 1)
         /\ idx' = idx + 1
         /\ baseAddr' \in Nat
         /\ start + size[s] <= baseAddr'
         /\ baseAddr' % BaseGranule = 0
         /\ UNCHANGED <<order, size, flags, pinned>>
<1>1. /\ start + size[s] \in Nat
      /\ BaseGranule \in Nat \ {0}
  BY DEF LayoutTypeOK, LayoutAssumption
<1>2. /\ baseAddr' \in Nat /\ start + size[s] <= baseAddr'
      /\ baseAddr' % BaseGranule = 0
  BY <1>1, AlignUpBounds, AlignUpMultiple DEF AdvancePast
<1>3. idx' \in 1 .. (Len(order) + 1) /\ idx' = idx + 1
  BY DEF AdvancePast, LayoutTypeOK, Visiting
<1>4. QED
  BY <1>2, <1>3 DEF AdvancePast, LayoutTypeOK

LEMMA LoopTypeStep ==
  ASSUME LayoutAssumption, LoopInv, ResolveStep
  PROVE  LayoutTypeOK'
<1> USE DEF LoopInv
<1>1. PICK s \in SectionNames : KeepBase(s) \/ PlaceNext(s)
  BY DEF ResolveStep
<1>2. Visiting(s)
  BY <1>1 DEF KeepBase, PlaceNext
<1>3. PICK start \in Nat : AdvancePast(s, start)
  BY <1>1, Placement
<1>4. wasExecutable' \in BOOLEAN /\ wasReadonly' \in BOOLEAN
  <2>1. wasExecutable \in BOOLEAN /\ wasReadonly \in BOOLEAN
    BY DEF LayoutTypeOK
  <2>2. CASE KeepBase(s)
    <3>1. wasExecutable' = Executable(s) /\ wasReadonly' = wasReadonly
      BY <2>2 DEF KeepBase
    <3>2. Executable(s) \in BOOLEAN
      BY DEF Executable
    <3>3. QED
      BY <2>1, <3>1, <3>2
  <2>3. CASE PlaceNext(s)
    BY <2>1, <2>3, Zenon DEF PlaceNext
  <2>4. QED
    BY <1>1, <2>2, <2>3
<1>5. QED
  BY <1>2, <1>3, <1>4, AdvanceType DEF LayoutTypeOK

\* One iteration keeps the invariant.
LEMMA LoopInvStep ==
  ASSUME LayoutAssumption, LoopInv, ResolveStep
  PROVE  LoopInv'
<1> USE DEF LoopInv
<1>1. PICK s \in SectionNames : KeepBase(s) \/ PlaceNext(s)
  BY DEF ResolveStep
<1>2. Visiting(s)
  BY <1>1 DEF KeepBase, PlaceNext
<1>3. PICK start \in Nat :
        /\ AdvancePast(s, start)
        /\ s \notin pinned =>
             /\ baseAddr <= start
             /\ start % BaseGranule = 0
             /\ LeavesExecutable(s) => start % PageSize = 0
  BY <1>1, Placement
<1>4. /\ base'[s] = start
      /\ idx' = idx + 1
      /\ start + size[s] <= baseAddr'
      /\ UNCHANGED <<order, size, flags, pinned>>
      /\ baseAddr' \in Nat
      /\ baseAddr' % BaseGranule = 0
  BY <1>2, <1>3, AdvanceType
<1>5. /\ idx \in Nat \ {0} /\ Visited' = Visited \cup {idx} /\ idx \notin Visited
      /\ order[idx] = s
  BY <1>2, <1>4 DEF LayoutTypeOK, Visited, Visiting
<1>6. \A i \in Visited : /\ i \in Nat /\ i < idx
                         /\ base'[order[i]] = base[order[i]]
                         /\ base[order[i]] + size[order[i]] \in Nat
  <2> SUFFICES ASSUME NEW i \in Visited
               PROVE  /\ i \in Nat /\ i < idx
                      /\ base'[order[i]] = base[order[i]]
                      /\ base[order[i]] + size[order[i]] \in Nat
    OBVIOUS
  <2>1. i \in DOMAIN order /\ order[i] \in SectionNames /\ order[i] # s
    BY <1>2, VisitedDiffer
  <2>2. i \in Nat /\ i < idx
    BY <1>5 DEF Visited
  <2>3. base'[order[i]] = base[order[i]]
    <3>1. base' = [base EXCEPT ![s] = start]
      BY <1>3 DEF AdvancePast
    <3>2. DOMAIN base = SectionNames
      BY DEF LayoutTypeOK
    <3>3. QED
      BY <2>1, <3>1, <3>2
  <2>4. base[order[i]] \in Nat /\ size[order[i]] \in Nat
    BY <2>1 DEF LayoutTypeOK
  <2>5. QED
    BY <2>2, <2>3, <2>4
<1>7. start + size[s] \in Nat
  BY DEF LayoutTypeOK
<1>8. LayoutTypeOK'
  BY LoopTypeStep
<1>9. AddressesChosenOrVisited'
  BY <1>3, <1>4, <1>5 DEF AddressesChosenOrVisited, AdvancePast
\* A run of automatic sections up to the new one starts above what came before.
<1>10. \A i \in Visited :
         (\A k \in (i + 1) .. idx : order[k] \notin pinned) =>
           base[order[i]] + size[order[i]] <= start
  <2> SUFFICES ASSUME NEW i \in Visited,
                      \A k \in (i + 1) .. idx : order[k] \notin pinned
               PROVE  base[order[i]] + size[order[i]] <= start
    OBVIOUS
  <2>1. s \notin pinned
    BY <1>5, <1>6
  <2>2. AutomaticRun(i, idx - 1)
    BY <1>5, <1>6 DEF AutomaticRun
  <2>3. QED
    BY <1>3, <1>6, <2>1, <2>2
       DEF RunningAddressClears, LayoutTypeOK, SectionEnd
<1>11. RunningAddressClears'
  <2> SUFFICES ASSUME NEW i \in Visited \cup {idx},
                      \A k \in (i + 1) .. idx : order[k] \notin pinned
               PROVE  base'[order[i]] + size[order[i]] <= baseAddr'
    BY <1>4, <1>5 DEF RunningAddressClears, AutomaticRun, SectionEnd
  <2>1. CASE i = idx
    BY <1>4, <1>5, <2>1
  <2>2. CASE i \in Visited
    <3>1. base'[order[i]] + size[order[i]] <= start
      BY <1>6, <1>10, <2>2
    <3>2. start <= baseAddr' /\ base'[order[i]] + size[order[i]] \in Nat
      BY <1>4, <1>6, <2>2 DEF LayoutTypeOK
    <3>3. QED
      BY <1>4, <3>1, <3>2
  <2>3. QED
    BY <2>1, <2>2
<1>12. AutomaticSectionsDisjoint'
  <2> SUFFICES ASSUME NEW i \in Visited \cup {idx}, NEW j \in Visited \cup {idx},
                      i < j,
                      \A k \in (i + 1) .. j : order[k] \notin pinned
               PROVE  base'[order[i]] + size[order[i]] <= base'[order[j]]
    BY <1>4, <1>5 DEF AutomaticSectionsDisjoint, AutomaticRun, SectionEnd
  <2>1. i \in Visited
    BY <1>5, <1>6
  <2>2. CASE j = idx
    BY <1>4, <1>5, <1>6, <1>10, <2>1, <2>2
  <2>3. CASE j \in Visited
    BY <1>6, <2>1, <2>3 DEF AutomaticSectionsDisjoint, AutomaticRun, SectionEnd
  <2>4. QED
    BY <2>2, <2>3
<1>13. AutomaticBaseAligned'
  BY <1>3, <1>4, <1>5, <1>6 DEF AutomaticBaseAligned
\* Code all the way to the new section: it does not leave executable code.
<1>14. CodeIsRemembered'
  <2> SUFFICES ASSUME NEW i \in Visited \cup {idx},
                      order[i] \in pinned,
                      \A k \in (i + 1) .. idx : order[k] \notin pinned,
                      \A k \in i .. idx : Executable(order[k])
               PROVE  wasExecutable'
    BY <1>4, <1>5 DEF CodeIsRemembered, AutomaticRun, Executable
  <2>1. Executable(s)
    BY <1>5, <1>6
  <2>2. CASE KeepBase(s)
    BY <2>1, <2>2 DEF KeepBase
  <2>3. CASE PlaceNext(s)
    <3>1. i \in Visited
      BY <1>5, <2>3 DEF PlaceNext, LayoutTypeOK
    <3>2. wasExecutable
      BY <1>5, <1>6, <3>1 DEF CodeIsRemembered, AutomaticRun
    <3>3. QED
      BY <2>1, <2>3, <3>2 DEF PlaceNext, LeavesExecutable
  <2>4. QED
    BY <1>1, <2>2, <2>3
<1>15. DataLeavesPinnedCodePages'
  <2> SUFFICES ASSUME PageSeparation,
                      NEW i \in Visited \cup {idx}, NEW j \in Visited \cup {idx},
                      order[i] \in pinned, FirstDataAfter(i, j)
               PROVE  /\ base'[order[j]] % PageSize = 0
                      /\ \A k \in i .. (j - 1) :
                           base'[order[k]] + size[order[k]] <= base'[order[j]]
    BY <1>4, <1>5 DEF DataLeavesPinnedCodePages, FirstDataAfter, AutomaticRun,
                      Executable, SectionEnd
  <2>1. i \in Visited /\ i < j /\ i \in Nat /\ j \in Nat
    BY <1>5, <1>6 DEF FirstDataAfter
  <2>2. CASE j = idx
    <3>1. s \notin pinned /\ ~Executable(s)
      BY <1>5, <2>1, <2>2 DEF FirstDataAfter, AutomaticRun
    <3>2. wasExecutable
      BY <1>5, <2>1, <2>2 DEF FirstDataAfter, AutomaticRun, CodeIsRemembered
    <3>3. start % PageSize = 0
      BY <1>3, <3>1, <3>2 DEF LeavesExecutable
    <3>4. \A k \in i .. (idx - 1) :
            k \in Visited /\ \A n \in (k + 1) .. idx : order[n] \notin pinned
      BY <1>5, <1>6, <2>1, <2>2 DEF FirstDataAfter, AutomaticRun, Visited
    <3>5. QED
      BY <1>4, <1>5, <1>6, <1>10, <2>2, <3>3, <3>4
  <2>3. CASE j \in Visited
    <3>1. \A k \in i .. (j - 1) : k \in Visited
      BY <1>5, <1>6, <2>1, <2>3 DEF Visited
    <3>2. QED
      BY <1>6, <2>1, <2>3, <3>1 DEF DataLeavesPinnedCodePages, SectionEnd
  <2>4. QED
    BY <2>2, <2>3
<1>16. QED
  BY <1>4, <1>8, <1>9, <1>11, <1>12, <1>13, <1>14, <1>15 DEF RunningAddressAligned

\* What only primes variables of no interest to the loop keeps it too.
LEMMA LoopInvStutter ==
  ASSUME LoopInv, UNCHANGED layoutVars
  PROVE  LoopInv'
<1>1. /\ UNCHANGED <<order, size, flags, base, hasBase, pinned>>
      /\ UNCHANGED <<idx, baseAddr, wasExecutable, wasReadonly>>
  BY DEF layoutVars, sectionVars, cursorVars
<1>2. LayoutTypeOK' /\ AddressesChosenOrVisited'
  BY <1>1 DEF LoopInv, LayoutTypeOK, AddressesChosenOrVisited, Visited
<1>3. RunningAddressClears' /\ RunningAddressAligned' /\ CodeIsRemembered'
  BY <1>1 DEF LoopInv, RunningAddressClears, RunningAddressAligned,
              CodeIsRemembered, AutomaticRun, Executable, SectionEnd, Visited
<1>4. AutomaticSectionsDisjoint' /\ AutomaticBaseAligned'
  BY <1>1 DEF LoopInv, AutomaticSectionsDisjoint, AutomaticBaseAligned,
              AutomaticRun, SectionEnd, Visited
<1>5. DataLeavesPinnedCodePages'
  BY <1>1 DEF LoopInv, DataLeavesPinnedCodePages, FirstDataAfter, AutomaticRun,
              Executable, SectionEnd, Visited
<1>6. QED
  BY <1>2, <1>3, <1>4, <1>5 DEF LoopInv
=============================================================================

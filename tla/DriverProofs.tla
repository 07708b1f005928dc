----------------------------- MODULE DriverProofs -----------------------------
(***************************************************************************)
(* Theorems about main and the token cursor that assemble saves around     *)
(* every .include, for any files, any nesting the stack has room for and   *)
(* any number of inputs.  What a program stands for is put together with   *)
(* FlattenSeq, so what the proofs need of it comes first, by induction.    *)
(***************************************************************************)
EXTENDS Driver, SequenceTheorems, WellFoundedInduction, TLAPS

-----------------------------------------------------------------------------
\* Induction over the natural numbers, for sets: the least number outside of
\* such a set would have a predecessor outside of it.
Less == OpToRel(<, Nat)

LEMMA LessIsWellFounded == IsWellFoundedOn(Less, Nat)
BY NatLessThanWellFounded DEF Less

LEMMA LessPairs ==
  ASSUME NEW a \in Nat, NEW b \in Nat, a < b
  PROVE  <<a, b>> \in Less
<1>1. <<a, b>> \in Nat \X Nat /\ <<a, b>>[1] = a /\ <<a, b>>[2] = b
  OBVIOUS
<1>2. QED
  BY <1>1 DEF Less, OpToRel

LEMMA SetInduction ==
  ASSUME NEW S, 0 \in S, \A n \in Nat : n \in S => n + 1 \in S
  PROVE  Nat \subseteq S
<1> SUFFICES ASSUME Nat \ S # {} PROVE FALSE
  OBVIOUS
<1>1. PICK x \in Nat \ S : \A y \in Nat \ S : ~ (<<y, x>> \in Less)
  <2>1. Nat \ S \subseteq Nat
    OBVIOUS
  <2>2. QED
    BY <2>1, LessIsWellFounded, WFMin, Zenon
<1>2. x # 0 /\ x \in Nat
  BY <1>1
<1>3. x - 1 \in Nat /\ x - 1 + 1 = x /\ x - 1 < x
  BY <1>2
<1>4. x - 1 \in Nat \ S
  BY <1>1, <1>3
<1>5. <<x - 1, x>> \in Less
  BY <1>2, <1>3, LessPairs, Zenon
<1>6. QED
  BY <1>1, <1>4, <1>5, Zenon

-----------------------------------------------------------------------------
(***************************************************************************)
(* FlattenSeq                                                              *)
(***************************************************************************)

\* f holds the concatenations of the first n elements of seqs and of fewer.
Joins(f, T, seqs, n) ==
  /\ f \in [1 .. n -> T]
  /\ \A i \in 1 .. n : f[i] = IF i = 1 THEN seqs[i] ELSE f[i - 1] \o seqs[i]

JoinsTo(T, seqs) == { n \in Nat : n <= Len(seqs) => \E f : Joins(f, T, seqs, n) }

EndsIn(g, T, seqs, m, last) == Joins(g, T, seqs, m) /\ g[m] = last

IsNext(last, f, T, seqs, n) ==
  /\ n \in Nat
  /\ last \in T
  /\ last = IF n = 0 THEN seqs[1] ELSE f[n] \o seqs[n + 1]

\* Longer concatenations are made from shorter ones.
LEMMA JoinsGrow ==
  ASSUME NEW T, NEW seqs, NEW f, NEW n, Joins(f, T, seqs, n),
         NEW last, IsNext(last, f, T, seqs, n)
  PROVE  \E g : EndsIn(g, T, seqs, n + 1, last)
<1>0. n \in Nat /\ last \in T /\ last = IF n = 0 THEN seqs[1] ELSE f[n] \o seqs[n + 1]
  BY DEF IsNext
<1> DEFINE g == [i \in 1 .. (n + 1) |-> IF i = n + 1 THEN last ELSE f[i]]
<1>1. /\ g \in [1 .. (n + 1) -> T]
      /\ g[n + 1] = last
      /\ \A i \in 1 .. n : g[i] = f[i]
  <2>1. \A i \in 1 .. n : f[i] \in T
    BY DEF Joins
  <2>2. n + 1 \in 1 .. (n + 1) /\ \A i \in 1 .. n : i \in 1 .. (n + 1) /\ i # n + 1
    BY <1>0
  <2>3. \A i \in 1 .. (n + 1) : i = n + 1 \/ i \in 1 .. n
    BY <1>0
  <2>4. \A i \in 1 .. (n + 1) : (IF i = n + 1 THEN last ELSE f[i]) \in T
    BY <1>0, <2>1, <2>3
  <2>5. QED
    BY <2>2, <2>4
<1> HIDE DEF g
<1>2. ASSUME NEW i \in 1 .. (n + 1)
      PROVE  g[i] = IF i = 1 THEN seqs[i] ELSE g[i - 1] \o seqs[i]
  <2>1. CASE i = n + 1 /\ n = 0
    BY <1>0, <1>1, <2>1
  <2>2. CASE i = n + 1 /\ n # 0
    <3>1. n \in 1 .. n /\ i - 1 = n /\ i # 1
      BY <1>0, <2>2
    <3>2. QED
      BY <1>0, <1>1, <2>2, <3>1
  <2>3. CASE i # n + 1
    <3>1. i \in 1 .. n /\ (i # 1 => i - 1 \in 1 .. n)
      BY <1>0, <2>3
    <3>2. QED
      BY <1>0, <1>1, <3>1 DEF Joins
  <2>4. QED
    BY <2>1, <2>2, <2>3
<1>3. Joins(g, T, seqs, n + 1)
  BY <1>1, <1>2 DEF Joins
<1>4. QED
  BY <1>1, <1>3 DEF EndsIn

LEMMA JoinsExist ==
  ASSUME NEW S, NEW seqs \in Seq(Seq(S)), NEW m \in 0 .. Len(seqs)
  PROVE  \E f : Joins(f, Seq(S), seqs, m)
<1>1. 0 \in JoinsTo(Seq(S), seqs)
  <2>1. [i \in 1 .. 0 |-> <<>>] \in [1 .. 0 -> Seq(S)]
    OBVIOUS
  <2>2. Joins([i \in 1 .. 0 |-> <<>>], Seq(S), seqs, 0)
    BY <2>1 DEF Joins
  <2>3. QED
    BY <2>2 DEF JoinsTo
<1>2. ASSUME NEW n \in Nat, n \in JoinsTo(Seq(S), seqs), n + 1 <= Len(seqs)
      PROVE  \E g : Joins(g, Seq(S), seqs, n + 1)
  <2>1. PICK f : Joins(f, Seq(S), seqs, n)
    BY <1>2 DEF JoinsTo
  <2>2. seqs[n + 1] \in Seq(S)
    BY <1>2
  <2>3. PICK last \in Seq(S) : last = IF n = 0 THEN seqs[1] ELSE f[n] \o seqs[n + 1]
    <3>1. n # 0 => n \in 1 .. n
      BY <1>2
    <3>2. n # 0 => f[n] \in Seq(S)
      BY <2>1, <3>1 DEF Joins
    <3>3. n # 0 => f[n] \o seqs[n + 1] \in Seq(S)
      BY <2>2, <3>2, ConcatProperties
    <3>4. n = 0 => seqs[1] \in Seq(S)
      BY <2>2
    <3>5. QED
      BY <3>3, <3>4
  <2>4. IsNext(last, f, Seq(S), seqs, n)
    BY <1>2, <2>3 DEF IsNext
  <2>5. \E g : EndsIn(g, Seq(S), seqs, n + 1, last)
    BY <2>1, <2>4, JoinsGrow, Zenon
  <2>6. QED
    BY <2>5 DEF EndsIn
<1>3. \A n \in Nat : n \in JoinsTo(Seq(S), seqs) => n + 1 \in JoinsTo(Seq(S), seqs)
  BY <1>2 DEF JoinsTo
<1>4. Nat \subseteq JoinsTo(Seq(S), seqs)
  BY <1>1, <1>3, SetInduction
<1>5. QED
  BY <1>4 DEF JoinsTo

Alike(f, g, m) == { n \in Nat : n + 1 <= m => f[n + 1] = g[n + 1] }

\* FlattenSeq is the last of the concatenations.
LEMMA FlattenIs ==
  ASSUME NEW T, NEW seqs \in Seq(T), Len(seqs) > 0,
         NEW g, Joins(g, T, seqs, Len(seqs))
  PROVE  FlattenSeq(seqs) = g[Len(seqs)]
<1>0. PICK m \in Nat : m = Len(seqs)
  OBVIOUS
<1> DEFINE flatten == CHOOSE f : f = [i \in 1 .. Len(seqs) |->
                                       IF i = 1 THEN seqs[i] ELSE f[i - 1] \o seqs[i]]
<1>1. FlattenSeq(seqs) = flatten[Len(seqs)]
  BY DEF FlattenSeq
<1>2. g = [i \in 1 .. Len(seqs) |-> IF i = 1 THEN seqs[i] ELSE g[i - 1] \o seqs[i]]
  BY DEF Joins
<1>3. flatten = [i \in 1 .. Len(seqs) |->
                   IF i = 1 THEN seqs[i] ELSE flatten[i - 1] \o seqs[i]]
  BY <1>2, Zenon
<1> HIDE DEF flatten
<1>5. 0 \in Alike(flatten, g, m)
  <2>1. flatten[1] = seqs[1] /\ g[1] = seqs[1]
    <3>1. 1 \in 1 .. Len(seqs)
      OBVIOUS
    <3>2. QED
      BY <1>2, <1>3, <3>1
  <2>2. QED
    BY <2>1 DEF Alike
<1>6. ASSUME NEW n \in Nat, n \in Alike(flatten, g, m), n + 1 + 1 <= m
      PROVE  flatten[n + 1 + 1] = g[n + 1 + 1]
  <2>1. n + 1 + 1 \in 1 .. Len(seqs) /\ n + 1 + 1 # 1 /\ n + 1 + 1 - 1 = n + 1
        /\ flatten[n + 1] = g[n + 1]
    BY <1>0, <1>6 DEF Alike
  <2>2. PICK k \in Nat : k = n + 1 + 1
    OBVIOUS
  <2>3. k \in 1 .. Len(seqs) /\ k # 1 /\ k - 1 = n + 1
    BY <2>1, <2>2
  <2>4. flatten[k] = flatten[k - 1] \o seqs[k]
    BY <1>3, <2>3
  <2>5. g[k] = g[k - 1] \o seqs[k]
    BY <2>3 DEF Joins
  <2>6. QED
    BY <2>1, <2>2, <2>3, <2>4, <2>5
<1>7. \A n \in Nat : n \in Alike(flatten, g, m) => n + 1 \in Alike(flatten, g, m)
  BY <1>6 DEF Alike
<1>8. Nat \subseteq Alike(flatten, g, m)
  BY <1>5, <1>7, SetInduction
<1>9. m - 1 \in Nat /\ m - 1 + 1 = m
  BY <1>0
<1>10. flatten[m] = g[m]
  <2>1. m - 1 \in Alike(flatten, g, m)
    BY <1>8, <1>9
  <2>2. flatten[m - 1 + 1] = g[m - 1 + 1]
    BY <1>9, <2>1 DEF Alike
  <2>3. QED
    BY <1>9, <2>2
<1>11. QED
  BY <1>0, <1>1, <1>10

LEMMA FlattenEmpty == FlattenSeq(<<>>) = <<>>
BY DEF FlattenSeq

LEMMA FlattenType ==
  ASSUME NEW S, NEW seqs \in Seq(Seq(S))
  PROVE  FlattenSeq(seqs) \in Seq(S)
<1>1. CASE Len(seqs) = 0
  <2>1. seqs = <<>>
    BY <1>1, EmptySeq
  <2>2. FlattenSeq(seqs) = <<>>
    BY <2>1, FlattenEmpty
  <2>3. QED
    BY <2>2, EmptySeq
<1>2. CASE Len(seqs) > 0
  <2>1. PICK g : Joins(g, Seq(S), seqs, Len(seqs))
    BY JoinsExist
  <2>2. FlattenSeq(seqs) = g[Len(seqs)]
    BY <1>2, <2>1, FlattenIs
  <2>3. Len(seqs) \in 1 .. Len(seqs)
    BY <1>2
  <2>4. g[Len(seqs)] \in Seq(S)
    BY <2>1, <2>3 DEF Joins
  <2>5. QED
    BY <2>2, <2>4
<1>3. QED
  BY <1>1, <1>2

LEMMA FlattenAppend ==
  ASSUME NEW S, NEW seqs \in Seq(Seq(S)), NEW next \in Seq(S)
  PROVE  FlattenSeq(Append(seqs, next)) = FlattenSeq(seqs) \o next
<1>0. PICK n \in Nat : n = Len(seqs)
  OBVIOUS
<1>a. PICK all : all = Append(seqs, next)
  OBVIOUS
<1>1. /\ all \in Seq(Seq(S))
      /\ Len(all) = n + 1
      /\ all[n + 1] = next
      /\ \A i \in 1 .. n : all[i] = seqs[i]
  BY <1>0, <1>a, AppendProperties
<1>2. PICK f : Joins(f, Seq(S), seqs, n)
  BY <1>0, JoinsExist
<1>3. Joins(f, Seq(S), all, n)
  BY <1>1, <1>2 DEF Joins
<1>4. PICK last \in Seq(S) : last = IF n = 0 THEN all[1] ELSE f[n] \o all[n + 1]
  <2>1. n # 0 => n \in 1 .. n
    BY <1>1
  <2>2. n # 0 => f[n] \in Seq(S)
    BY <1>2, <2>1 DEF Joins
  <2>3. n # 0 => f[n] \o all[n + 1] \in Seq(S)
    BY <1>1, <2>2, ConcatProperties
  <2>4. n = 0 => all[1] \in Seq(S)
    BY <1>1
  <2>5. QED
    BY <2>3, <2>4
<1>5. PICK g : EndsIn(g, Seq(S), all, n + 1, last)
  <2>1. IsNext(last, f, Seq(S), all, n)
    BY <1>4 DEF IsNext
  <2>2. QED
    BY <1>3, <2>1, JoinsGrow, Zenon
<1>6. FlattenSeq(all) = last
  <2>1. Len(all) > 0 /\ Joins(g, Seq(S), all, Len(all)) /\ g[Len(all)] = last
    BY <1>1, <1>5 DEF EndsIn
  <2>2. QED
    BY <1>1, <2>1, FlattenIs
<1>7. CASE n = 0
  <2>1. seqs = <<>>
    BY <1>0, <1>7, EmptySeq
  <2>2. FlattenSeq(seqs) = <<>>
    BY <2>1, FlattenEmpty
  <2>3. last = next
    BY <1>1, <1>4, <1>7
  <2>4. QED
    BY <1>a, <1>6, <2>2, <2>3, ConcatEmptySeq
<1>8. CASE n # 0
  <2>1. FlattenSeq(seqs) = f[n]
    <3>1. Len(seqs) > 0 /\ Joins(f, Seq(S), seqs, Len(seqs))
      BY <1>0,  <1>2, <1>8
    <3>2. QED
      BY <1>0, <3>1, FlattenIs
  <2>2. QED
    BY <1>a, <1>1, <1>4, <1>6, <1>8, <2>1
<1>9. QED
  BY <1>7, <1>8

-----------------------------------------------------------------------------
(***************************************************************************)
(* The invariant                                                           *)
(***************************************************************************)

Statements == UNION { ToSet(t) : t \in Texts }
Cursors == [tokens : Seq(Statements), index : Nat, rpath : Dirs]

\* A cursor in the text of a file.
InFile(c) ==
  /\ c \in Cursors
  /\ c.tokens \in Texts
  /\ c.index \in 1 .. (Len(c.tokens) + 1)

\* What the first n statements stand for that the cursor c of the call of
\* assemble at this level reads.
Before(level, c, n) ==
  FlattenSeq([i \in 1 .. n |-> Inlined(c.tokens[i], c.rpath, Expansion[MaxDepth - level])])

\* The cursor d is in the file that is named by path, from dir.
Reads(d, path, dir) ==
  /\ Opened(path, dir) # {}
  /\ d.tokens = TextOf(path, dir)
  /\ d.rpath = GetRealpath(path)

\* The cursor d is in the file that the statement in front of c includes.
Calls(c, d) ==
  /\ c.index > 1
  /\ c.tokens[c.index - 1].op = "include"
  /\ Reads(d, c.tokens[c.index - 1].path, c.rpath)

\* n times the first input.
Repeated(n) == FlattenSeq([i \in 1 .. n |-> ExpansionOf(inputs[1])])

LEMMA SameFiles ==
  ASSUME disk' = disk, inputs' = inputs
  PROVE  /\ Texts' = Texts /\ Dirs' = Dirs /\ Statements' = Statements /\ Cursors' = Cursors
         /\ Expansion' = Expansion
         /\ \A c : InFile(c)' <=> InFile(c)
         /\ \A level, c, n : Before(level, c, n)' = Before(level, c, n)
         /\ \A c, d : Calls(c, d)' <=> Calls(c, d)
         /\ \A d, path, dir : Reads(d, path, dir)' <=> Reads(d, path, dir)
         /\ \A n : Repeated(n)' = Repeated(n)
<1>1. Texts' = Texts
  BY DEF Texts
<1>2. Dirs' = Dirs
  BY DEF Dirs
<1>3. Statements' = Statements
  BY <1>1 DEF Statements
<1>4. Cursors' = Cursors
  BY <1>2, <1>3 DEF Cursors
<1>5. Expansion' = Expansion
  BY DEF Expansion, Expanded, Inlined, TextOf, Opened, Exists, GetRealpath, Texts, Dirs
<1>6. ASSUME NEW c PROVE InFile(c)' <=> InFile(c)
  BY <1>1, <1>4 DEF InFile
<1>7. ASSUME NEW level, NEW c, NEW n PROVE Before(level, c, n)' = Before(level, c, n)
  BY <1>5 DEF Before, Inlined, TextOf, Opened, Exists, GetRealpath
<1>8. ASSUME NEW d, NEW path, NEW dir PROVE Reads(d, path, dir)' <=> Reads(d, path, dir)
  BY DEF Reads, TextOf, Opened, Exists, GetRealpath
<1>9. ASSUME NEW c, NEW d PROVE Calls(c, d)' <=> Calls(c, d)
  BY <1>8 DEF Calls
<1>10. ASSUME NEW n PROVE Repeated(n)' = Repeated(n)
  BY <1>5 DEF Repeated, ExpansionOf, TextOf, Opened, Exists, GetRealpath
<1>11. QED
  BY <1>1, <1>2, <1>3, <1>4, <1>5, <1>6, <1>7, <1>8, <1>9, <1>10

-----------------------------------------------------------------------------
(***************************************************************************)
(* What a text stands for                                                  *)
(***************************************************************************)

Shallow == [p \in Texts \X Dirs |-> <<>>]
Deeper(meaning) == [p \in Texts \X Dirs |-> Expanded(p[1], p[2], meaning)]

\* f holds the expansions for files that are nested up to n deep.
Expands(f, n) ==
  /\ f = [i \in 0 .. n |-> f[i]]
  /\ f[0] = Shallow
  /\ \A i \in 1 .. n : f[i] = Deeper(f[i - 1])

ExpandsTo == { n \in Nat : \E f : Expands(f, n) }

LEMMA ExpansionsExist ==
  ASSUME NEW m \in Nat
  PROVE  \E f : Expands(f, m)
<1>1. 0 \in ExpandsTo
  <2>1. Expands([i \in 0 .. 0 |-> Shallow], 0)
    BY DEF Expands
  <2>2. QED
    BY <2>1 DEF ExpandsTo
<1>2. ASSUME NEW n \in Nat, n \in ExpandsTo
      PROVE  \E g : Expands(g, n + 1)
  <2>1. PICK f : Expands(f, n)
    BY <1>2 DEF ExpandsTo
  <2>2. PICK last : last = Deeper(f[n])
    OBVIOUS
  <2> DEFINE g == [i \in 0 .. (n + 1) |-> IF i = n + 1 THEN last ELSE f[i]]
  <2>3. /\ g = [i \in 0 .. (n + 1) |-> g[i]]
        /\ g[n + 1] = last
        /\ \A i \in 0 .. n : g[i] = f[i]
    OBVIOUS
  <2> HIDE DEF g
  <2>4. g[0] = Shallow
    BY <2>1, <2>3 DEF Expands
  <2>5. ASSUME NEW i \in 1 .. (n + 1) PROVE g[i] = Deeper(g[i - 1])
    <3>1. CASE i = n + 1
      <4>1. n \in 0 .. n /\ i - 1 = n
        BY <3>1
      <4>2. QED
        BY <2>2, <2>3, <3>1, <4>1
    <3>2. CASE i # n + 1
      <4>1. i \in 1 .. n /\ i \in 0 .. n /\ i - 1 \in 0 .. n
        BY <3>2
      <4>2. QED
        BY <2>1, <2>3, <4>1 DEF Expands
    <3>3. QED
      BY <3>1, <3>2
  <2>6. Expands(g, n + 1)
    BY <2>3, <2>4, <2>5 DEF Expands
  <2>7. QED
    BY <2>6
<1>3. \A n \in Nat : n \in ExpandsTo => n + 1 \in ExpandsTo
  BY <1>2 DEF ExpandsTo
<1>4. Nat \subseteq ExpandsTo
  BY <1>1, <1>3, SetInduction
<1>5. QED
  BY <1>4 DEF ExpandsTo

LEMMA ExpansionIs ==
  ASSUME DepthAssumption
  PROVE  Expands(Expansion, MaxDepth)
<1>1. PICK g : Expands(g, MaxDepth)
  BY ExpansionsExist DEF DepthAssumption
<1>2. g = [depth \in 0 .. MaxDepth |->
             IF depth = 0 THEN Shallow ELSE Deeper(g[depth - 1])]
  <2>1. g = [i \in 0 .. MaxDepth |-> g[i]]
    BY <1>1 DEF Expands
  <2>2. \A i \in 0 .. MaxDepth : g[i] = IF i = 0 THEN Shallow ELSE Deeper(g[i - 1])
    <3>1. \A i \in 0 .. MaxDepth : i # 0 => i \in 1 .. MaxDepth
      BY DEF DepthAssumption
    <3>2. QED
      BY <1>1, <3>1 DEF Expands
  <2>3. QED
    BY <2>1, <2>2
<1>3. Expansion = CHOOSE f : f = [depth \in 0 .. MaxDepth |->
             IF depth = 0 THEN Shallow ELSE Deeper(f[depth - 1])]
  BY DEF Expansion, Shallow, Deeper
<1>4. Expansion = [depth \in 0 .. MaxDepth |->
             IF depth = 0 THEN Shallow ELSE Deeper(Expansion[depth - 1])]
  BY <1>2, <1>3, Zenon
<1>5. QED
  BY <1>4 DEF Expands, DepthAssumption

TextsAreStatements == \A t \in Texts : t \in Seq(Statements)

Meanings == [Texts \X Dirs -> Seq(Statements)]

LEMMA TextsTyped ==
  ASSUME FilesAssumption, disk \in FileSystems
  PROVE  TextsAreStatements
<1> SUFFICES ASSUME NEW f \in DOMAIN disk.files PROVE disk.files[f] \in Seq(Statements)
  BY DEF TextsAreStatements, Texts
<1>1. PICK t : t = disk.files[f]
  OBVIOUS
<1>2. t \in Seq(ToSet(t)) /\ t \in Texts
  BY <1>1 DEF FilesAssumption, Texts
<1>3. ToSet(t) \subseteq Statements
  BY <1>2 DEF Statements
<1>4. t \in Seq(Statements)
  BY <1>2, <1>3, SeqMonotonic, Zenon
<1>5. QED
  BY <1>1, <1>4

\* An include names a text.
LEMMA OpenedIsText ==
  ASSUME NEW path, NEW dir, Opened(path, dir) # {}
  PROVE  TextOf(path, dir) \in Texts /\ GetRealpath(path) \in Dirs
<1>1. Opened(path, dir) \subseteq DOMAIN disk.files
  BY DEF Opened, Exists
<1>2. (CHOOSE f \in Opened(path, dir) : TRUE) \in Opened(path, dir)
  OBVIOUS
<1>3. TextOf(path, dir) \in Texts
  BY <1>1, <1>2 DEF TextOf, Texts
<1>4. GetRealpath(path) \in Dirs
  BY DEF GetRealpath, Dirs
<1>5. QED
  BY <1>3, <1>4

LEMMA InlinedType ==
  ASSUME NEW s \in Statements, NEW dir, NEW meaning \in Meanings
  PROVE  Inlined(s, dir, meaning) \in Seq(Statements)
<1>1. <<s>> \in Seq(Statements)
  OBVIOUS
<1>2. Opened(s.path, dir) # {} =>
        <<TextOf(s.path, dir), GetRealpath(s.path)>> \in Texts \X Dirs
  BY OpenedIsText
<1>3. Opened(s.path, dir) # {} =>
        meaning[<<TextOf(s.path, dir), GetRealpath(s.path)>>] \in Seq(Statements)
  BY <1>2 DEF Meanings
<1>4. QED
  BY <1>1, <1>3 DEF Inlined

LEMMA ExpandedType ==
  ASSUME NEW t \in Seq(Statements), NEW dir, NEW meaning \in Meanings
  PROVE  Expanded(t, dir, meaning) \in Seq(Statements)
<1>1. DOMAIN t = 1 .. Len(t) /\ Len(t) \in Nat /\ \A n \in 1 .. Len(t) : t[n] \in Statements
  OBVIOUS
<1>2. \A n \in 1 .. Len(t) : Inlined(t[n], dir, meaning) \in Seq(Statements)
  BY <1>1, InlinedType
<1>3. [n \in 1 .. Len(t) |-> Inlined(t[n], dir, meaning)] \in Seq(Seq(Statements))
  BY <1>1, <1>2, IsASeq
<1>4. QED
  BY <1>1, <1>3, FlattenType DEF Expanded

LEMMA ExpansionType ==
  ASSUME DepthAssumption, TextsAreStatements, NEW m \in 0 .. MaxDepth
  PROVE  Expansion[m] \in Meanings
<1> DEFINE S == { n \in Nat : n <= MaxDepth => Expansion[n] \in Meanings }
<1>1. Expands(Expansion, MaxDepth)
  BY ExpansionIs
<1>2. 0 \in S
  <2>1. Shallow \in Meanings
    BY EmptySeq DEF Shallow, Meanings
  <2>2. QED
    BY <1>1, <2>1 DEF Expands
<1>3. ASSUME NEW n \in Nat, n \in S PROVE n + 1 \in S
  <2> SUFFICES ASSUME n + 1 <= MaxDepth PROVE Expansion[n + 1] \in Meanings
    OBVIOUS
  <2>1. MaxDepth \in Nat
    BY DEF DepthAssumption
  <2>2. PICK meaning \in Meanings : meaning = Expansion[n]
    BY <1>3, <2>1
  <2>3. PICK k \in 1 .. MaxDepth : k = n + 1 /\ k - 1 = n
    BY <2>1
  <2>4. Expansion[k] = Deeper(meaning)
    BY <1>1, <2>2, <2>3 DEF Expands
  <2>5. ASSUME NEW p \in Texts \X Dirs
        PROVE  Expanded(p[1], p[2], meaning) \in Seq(Statements)
    <3>1. p[1] \in Seq(Statements)
      BY DEF TextsAreStatements
    <3>2. QED
      BY <3>1, ExpandedType
  <2>6. QED
    BY <2>3, <2>4, <2>5 DEF Deeper, Meanings
<1> HIDE DEF S
<1>4. Nat \subseteq S
  BY <1>2, <1>3, SetInduction
<1>5. QED
  BY <1>4 DEF S, DepthAssumption

\* What the statement of c at n + 1 stands for.
Here(level, c, n) == Inlined(c.tokens[n + 1], c.rpath, Expansion[MaxDepth - level])

LEMMA HereType ==
  ASSUME DepthAssumption, TextsAreStatements, NEW level \in 1 .. MaxDepth,
         NEW c, InFile(c), NEW n \in Nat, n < Len(c.tokens)
  PROVE  Here(level, c, n) \in Seq(Statements)
<1>1. MaxDepth - level \in 0 .. MaxDepth
  BY DEF DepthAssumption
<1>2. Expansion[MaxDepth - level] \in Meanings
  BY <1>1, ExpansionType
<1>3. c.tokens \in Seq(Statements)
  BY DEF InFile, Cursors
<1>4. c.tokens[n + 1] \in Statements
  BY <1>3
<1>5. QED
  BY <1>2, <1>4, InlinedType DEF Here

LEMMA BeforeNone ==
  ASSUME NEW level, NEW c
  PROVE  Before(level, c, 0) = <<>>
<1>1. [i \in 1 .. 0 |-> Inlined(c.tokens[i], c.rpath, Expansion[MaxDepth - level])] = <<>>
  OBVIOUS
<1>2. QED
  BY <1>1, FlattenEmpty DEF Before

LEMMA BeforeNext ==
  ASSUME DepthAssumption, TextsAreStatements, NEW level \in 1 .. MaxDepth,
         NEW c, InFile(c), NEW n \in Nat, n < Len(c.tokens)
  PROVE  /\ Before(level, c, n) \in Seq(Statements)
         /\ Before(level, c, n + 1) = Before(level, c, n) \o Here(level, c, n)
<1> DEFINE In(i) == Inlined(c.tokens[i], c.rpath, Expansion[MaxDepth - level])
<1>1. ASSUME NEW i \in 1 .. (n + 1) PROVE In(i) \in Seq(Statements)
  <2>1. i - 1 \in Nat /\ i - 1 < Len(c.tokens) /\ i - 1 + 1 = i
    <3>1. Len(c.tokens) \in Nat
      BY DEF InFile, Cursors
    <3>2. QED
      BY <3>1
  <2>2. Here(level, c, i - 1) \in Seq(Statements)
    BY <2>1, HereType
  <2>3. QED
    BY <2>1, <2>2 DEF Here
<1>2. Before(level, c, n) = FlattenSeq([i \in 1 .. n |-> In(i)])
  BY DEF Before
<1>3. Before(level, c, n + 1) = FlattenSeq([i \in 1 .. (n + 1) |-> In(i)])
  BY DEF Before
<1>4. Here(level, c, n) = In(n + 1)
  BY DEF Here
<1> HIDE DEF In
<1>5. [i \in 1 .. n |-> In(i)] \in Seq(Seq(Statements))
  BY <1>1, IsASeq
<1>6. [i \in 1 .. (n + 1) |-> In(i)] = Append([i \in 1 .. n |-> In(i)], In(n + 1))
  <2>1. [i \in 1 .. (n + 1) |-> In(i)] \in Seq(Seq(Statements))
    BY <1>1, IsASeq
  <2>2. In(n + 1) \in Seq(Statements)
    BY <1>1
  <2>3. QED
    BY <1>5, <2>1, <2>2
<1>7. In(n + 1) \in Seq(Statements)
  BY <1>1
<1>8. QED
  BY <1>2, <1>3, <1>4, <1>5, <1>6, <1>7, FlattenType, FlattenAppend

LEMMA BeforeAll ==
  ASSUME DepthAssumption, NEW level \in 1 .. MaxDepth, NEW c, InFile(c)
  PROVE  Before(level, c, Len(c.tokens)) = Expansion[MaxDepth - level + 1][<<c.tokens, c.rpath>>]
<1>1. PICK k \in 1 .. MaxDepth : k = MaxDepth - level + 1 /\ k - 1 = MaxDepth - level
  BY DEF DepthAssumption
<1>2. PICK meaning : meaning = Expansion[MaxDepth - level]
  OBVIOUS
<1>3. Expansion[k] = Deeper(meaning)
  BY <1>1, <1>2, ExpansionIs DEF Expands
<1>4. c.tokens \in Texts /\ c.rpath \in Dirs /\ c.tokens \in Seq(Statements)
  BY DEF InFile, Cursors
<1>5. Expansion[k][<<c.tokens, c.rpath>>] = Expanded(c.tokens, c.rpath, meaning)
  BY <1>3, <1>4 DEF Deeper
<1>6. DOMAIN c.tokens = 1 .. Len(c.tokens)
  BY <1>4
<1>7. QED
  BY <1>1, <1>2, <1>5, <1>6 DEF Before, Expanded

LEMMA BeforeType ==
  ASSUME DepthAssumption, TextsAreStatements, NEW level \in 1 .. MaxDepth,
         NEW c, InFile(c), NEW n \in 0 .. Len(c.tokens)
  PROVE  Before(level, c, n) \in Seq(Statements)
<1>1. Len(c.tokens) \in Nat
  BY DEF InFile, Cursors
<1>2. CASE n = 0
  BY <1>2, BeforeNone, EmptySeq
<1>3. CASE n # 0
  <2>1. PICK k \in Nat : k < Len(c.tokens) /\ k + 1 = n
    BY <1>1, <1>3, n - 1 \in Nat
  <2>2. /\ Before(level, c, k) \in Seq(Statements)
        /\ Before(level, c, k + 1) = Before(level, c, k) \o Here(level, c, k)
    BY <2>1, BeforeNext
  <2>3. Here(level, c, k) \in Seq(Statements)
    BY <2>1, HereType
  <2>4. QED
    BY <2>1, <2>2, <2>3, ConcatProperties
<1>4. QED
  BY <1>2, <1>3

LEMMA RepeatedIs ==
  ASSUME NEW n \in Nat, ExpansionOf(inputs[1]) \in Seq(Statements)
  PROVE  /\ Repeated(n) \in Seq(Statements)
         /\ Repeated(n + 1) = Repeated(n) \o ExpansionOf(inputs[1])
<1>1. PICK e \in Seq(Statements) : e = ExpansionOf(inputs[1])
  OBVIOUS
<1>2. Repeated(n) = FlattenSeq([i \in 1 .. n |-> e])
  BY <1>1 DEF Repeated
<1>3. Repeated(n + 1) = FlattenSeq([i \in 1 .. (n + 1) |-> e])
  BY <1>1 DEF Repeated
<1>4. /\ [i \in 1 .. n |-> e] \in Seq(Seq(Statements))
      /\ [i \in 1 .. (n + 1) |-> e] \in Seq(Seq(Statements))
  BY IsASeq
<1>5. [i \in 1 .. (n + 1) |-> e] = Append([i \in 1 .. n |-> e], e)
  BY <1>4
<1>6. QED
  BY <1>1, <1>2, <1>3, <1>4, <1>5, FlattenType, FlattenAppend

LEMMA RepeatedNone == Repeated(0) = <<>>
<1>1. [i \in 1 .. 0 |-> ExpansionOf(inputs[1])] = <<>>
  OBVIOUS
<1>2. QED
  BY <1>1, FlattenEmpty DEF Repeated

-----------------------------------------------------------------------------
(***************************************************************************)
(* What was read so far                                                    *)
(***************************************************************************)

\* The assembler has seen the statements of program.
Seen(program) ==
  /\ emitted = ItemsOf(program)
  /\ known = NamesOf(program, "label")
  /\ globals = NamesOf(program, "global")

LEMMA ItemsOfAppend ==
  ASSUME NEW S, NEW program \in Seq(S), NEW s \in S
  PROVE  ItemsOf(Append(program, s)) =
           IF s.op = "item" THEN Append(ItemsOf(program), s.name) ELSE ItemsOf(program)
<1> DEFINE Names == { x.name : x \in S }
<1>0. PICK n \in Nat : n = Len(program)
  OBVIOUS
<1>1. PICK all \in Seq(S) : all = Append(program, s)
  BY AppendProperties
<1>2. /\ DOMAIN program = 1 .. n
      /\ DOMAIN all = 1 .. (n + 1)
      /\ all[n + 1] = s
      /\ \A i \in 1 .. n : all[i] = program[i]
  BY <1>0, <1>1, AppendProperties
<1>3. ASSUME NEW x \in S PROVE ItemOf(x) \in Seq(Names)
  <2>1. PICK name \in Names : name = x.name
    OBVIOUS
  <2>2. <<name>> \in Seq(Names) /\ <<>> \in Seq(Names)
    OBVIOUS
  <2>3. QED
    BY <2>1, <2>2 DEF ItemOf
<1> HIDE DEF Names
<1>4. [i \in 1 .. n |-> ItemOf(program[i])] \in Seq(Seq(Names))
  BY <1>0, <1>3, IsASeq
<1>5. [i \in 1 .. (n + 1) |-> ItemOf(all[i])] \in Seq(Seq(Names))
  BY <1>2, <1>3, IsASeq
<1>6. [i \in 1 .. (n + 1) |-> ItemOf(all[i])]
        = Append([i \in 1 .. n |-> ItemOf(program[i])], ItemOf(s))
  BY <1>2, <1>4, <1>5
<1>7. ItemsOf(all) = ItemsOf(program) \o ItemOf(s) /\ ItemsOf(program) \in Seq(Names)
  <2>1. PICK parts \in Seq(Seq(Names)) : parts = [i \in 1 .. n |-> ItemOf(program[i])]
    BY <1>4
  <2>2. ItemsOf(program) = FlattenSeq(parts)
    BY <1>2, <2>1 DEF ItemsOf
  <2>3. ItemsOf(all) = FlattenSeq(Append(parts, ItemOf(s)))
    BY <1>2, <1>6, <2>1 DEF ItemsOf
  <2>4. FlattenSeq(Append(parts, ItemOf(s))) = FlattenSeq(parts) \o ItemOf(s)
    BY <1>3, FlattenAppend
  <2>5. FlattenSeq(parts) \in Seq(Names)
    BY FlattenType
  <2>6. QED
    BY <2>2, <2>3, <2>4, <2>5
<1>8. PICK items \in Seq(Names) : items = ItemsOf(program)
  BY <1>7
<1>9. CASE s.op = "item"
  <2>1. ItemOf(s) = <<s.name>> /\ s.name \in Names
    BY <1>9 DEF ItemOf, Names
  <2>2. QED
    BY <1>1, <1>7, <1>8, <1>9, <2>1, AppendIsConcat
<1>10. CASE s.op # "item"
  BY <1>1, <1>7, <1>8, <1>10, ConcatEmptySeq DEF ItemOf
<1>11. QED
  BY <1>9, <1>10

LEMMA NamesOfAppend ==
  ASSUME NEW S, NEW program \in Seq(S), NEW s \in S, NEW op
  PROVE  NamesOf(Append(program, s), op) =
           NamesOf(program, op) \cup IF s.op = op THEN {s.name} ELSE {}
<1>0. PICK n \in Nat : n = Len(program)
  OBVIOUS
<1>1. PICK all \in Seq(S) : all = Append(program, s)
  BY AppendProperties
<1>2. /\ DOMAIN program = 1 .. n
      /\ DOMAIN all = 1 .. (n + 1)
      /\ all[n + 1] = s
      /\ \A i \in 1 .. n : all[i] = program[i]
  BY <1>0, <1>1, AppendProperties
<1>3. \A i \in 1 .. (n + 1) : i = n + 1 \/ i \in 1 .. n
  OBVIOUS
<1>4. 1 .. n \subseteq 1 .. (n + 1) /\ n + 1 \in 1 .. (n + 1)
  OBVIOUS
<1>5. QED
  BY <1>1, <1>2, <1>3, <1>4 DEF NamesOf

LEMMA NothingSeen ==
  /\ ItemsOf(<<>>) = <<>>
  /\ \A op : NamesOf(<<>>, op) = {}
<1>1. DOMAIN <<>> = {}
  OBVIOUS
<1>2. [n \in {} |-> ItemOf(<<>>[n])] = <<>>
  OBVIOUS
<1>3. QED
  BY <1>1, <1>2, FlattenEmpty DEF ItemsOf, NamesOf

-----------------------------------------------------------------------------
(***************************************************************************)
(* Where assemble is                                                       *)
(***************************************************************************)

\* The cursor of the call of assemble at a level; the deepest is the current one.
Frame(k) == IF k = Len(saved) THEN cursor ELSE saved[k + 1]

StackInv ==
  /\ saved \in Seq(Cursors) /\ Len(saved) \in 1 .. MaxDepth
  /\ saved[1] = NoCursor
  /\ argi \in 1 .. Len(inputs)
  /\ \A k \in 1 .. Len(saved) : InFile(Frame(k))
  /\ Reads(Frame(1), inputs[1], NoPath)
  /\ \A k \in 1 .. (Len(saved) - 1) : Calls(Frame(k), Frame(k + 1))

\* What was read before the current call, by the inputs before this one and by
\* each of the calls around it, up to its .include.
Around ==
  [k \in 1 .. Len(saved) |->
     IF k = 1 THEN Repeated(argi - 1)
     ELSE Before(k - 1, Frame(k - 1), Frame(k - 1).index - 2)]

SoFar == FlattenSeq(Around) \o Before(Len(saved), cursor, cursor.index - 1)

AssemblingInv == phase = "assembling" => StackInv /\ Seen(SoFar)

LoadingInv ==
  phase = "loading" =>
    /\ argi \in 1 .. (Len(inputs) + 1)
    /\ argi > 1 => Opened(inputs[1], NoPath) # {}
    /\ Seen(Repeated(argi - 1))

\* With any number of inputs, main assembles the first one that many times.
InlineInv ==
  Assembled =>
    LET program == Repeated(Len(inputs))
    IN  /\ emitted = ItemsOf(program)
        /\ known = NamesOf(program, "label")
        /\ globals = NamesOf(program, "global")

IdleInv ==
  phase \notin {"assembling", "terminated", "crashed"} => saved = <<>> /\ cursor = NoCursor

DriverInv ==
  /\ disk \in FileSystems /\ inputs \in Arguments
  /\ AssemblingInv /\ LoadingInv /\ IdleInv /\ InlineInv

-----------------------------------------------------------------------------
Moved(d, c) ==
  /\ InFile(c) /\ c.index <= Len(c.tokens)
  /\ d = [c EXCEPT !.index = @ + 1]

\* d is behind c in the same call.
Behind(d, c) ==
  /\ InFile(d)
  /\ d.tokens = c.tokens /\ d.rpath = c.rpath /\ d.index = c.index + 1
  /\ \A level, n : Before(level, d, n) = Before(level, c, n)
  /\ \A path, dir : Reads(d, path, dir) <=> Reads(c, path, dir)
  /\ \A b : Calls(b, d) <=> Calls(b, c)

LEMMA MovedCursor ==
  ASSUME NEW c, NEW d, Moved(d, c)
  PROVE  Behind(d, c)
<1>1. c \in Cursors /\ c.index \in Nat /\ Len(c.tokens) \in Nat
  BY DEF Moved, InFile, Cursors
<1>2. /\ d \in Cursors
      /\ d.tokens = c.tokens /\ d.rpath = c.rpath /\ d.index = c.index + 1
  BY <1>1 DEF Moved, Cursors
<1>3. InFile(d)
  BY <1>1, <1>2 DEF Moved, InFile
<1>4. \A level, n : Before(level, d, n) = Before(level, c, n)
  BY <1>2 DEF Before
<1>5. \A path, dir : Reads(d, path, dir) <=> Reads(c, path, dir)
  BY <1>2 DEF Reads
<1>6. \A b : Calls(b, d) <=> Calls(b, c)
  BY <1>5 DEF Calls
<1>7. QED
  BY <1>2, <1>3, <1>4, <1>5, <1>6 DEF Behind

LEMMA FirstFileTyped ==
  ASSUME DepthAssumption, TextsAreStatements, Opened(inputs[1], NoPath) # {}
  PROVE  ExpansionOf(inputs[1]) \in Seq(Statements)
<1>1. Expansion[MaxDepth] \in Meanings
  BY ExpansionType DEF DepthAssumption
<1>2. <<TextOf(inputs[1], NoPath), GetRealpath(inputs[1])>> \in Texts \X Dirs
  BY OpenedIsText
<1>3. QED
  BY <1>1, <1>2 DEF ExpansionOf, Meanings

LEMMA AroundType ==
  ASSUME DepthAssumption, TextsAreStatements, StackInv
  PROVE  /\ Around \in Seq(Seq(Statements))
         /\ FlattenSeq(Around) \in Seq(Statements)
         /\ Before(Len(saved), cursor, cursor.index - 1) \in Seq(Statements)
         /\ SoFar \in Seq(Statements)
<1>1. Len(saved) \in Nat /\ Len(saved) \in 1 .. MaxDepth /\ MaxDepth \in Nat
  BY DEF StackInv, DepthAssumption
<1>2. Repeated(argi - 1) \in Seq(Statements)
  <2>1. Opened(inputs[1], NoPath) # {}
    BY DEF StackInv, Reads
  <2>2. argi - 1 \in Nat
    BY DEF StackInv
  <2>3. QED
    BY <2>1, <2>2, FirstFileTyped, RepeatedIs
<1>3. ASSUME NEW k \in 2 .. Len(saved)
      PROVE  Before(k - 1, Frame(k - 1), Frame(k - 1).index - 2) \in Seq(Statements)
  <2>1. PICK j \in 1 .. (Len(saved) - 1) : j = k - 1
    BY <1>1
  <2>2. j \in 1 .. Len(saved) /\ j \in 1 .. MaxDepth
    BY <1>1
  <2>3. InFile(Frame(j)) /\ Calls(Frame(j), Frame(j + 1))
    BY <2>1, <2>2 DEF StackInv
  <2>4. Frame(j).index - 2 \in 0 .. Len(Frame(j).tokens)
    <3>1. PICK i \in Nat, l \in Nat : i = Frame(j).index /\ l = Len(Frame(j).tokens)
      BY <2>3 DEF InFile, Cursors
    <3>2. i > 1 /\ i <= l + 1
      BY <2>3, <3>1 DEF Calls, InFile
    <3>3. QED
      BY <3>1, <3>2
  <2>5. QED
    BY <2>1, <2>2, <2>3, <2>4, BeforeType
<1>4. Around \in Seq(Seq(Statements))
  <2>1. ASSUME NEW k \in 1 .. Len(saved)
        PROVE  (IF k = 1 THEN Repeated(argi - 1)
                ELSE Before(k - 1, Frame(k - 1), Frame(k - 1).index - 2)) \in Seq(Statements)
    <3>1. k # 1 => k \in 2 .. Len(saved)
      BY <1>1
    <3>2. QED
      BY <1>2, <1>3, <3>1
  <2>2. QED
    BY <1>1, <2>1, IsASeq DEF Around
<1>5. Before(Len(saved), cursor, cursor.index - 1) \in Seq(Statements)
  <2>1. InFile(cursor)
    BY <1>1 DEF StackInv, Frame
  <2>2. cursor.index - 1 \in 0 .. Len(cursor.tokens)
    BY <2>1 DEF InFile, Cursors
  <2>3. QED
    BY <1>1, <2>1, <2>2, BeforeType
<1>6. FlattenSeq(Around) \in Seq(Statements)
  BY <1>4, FlattenType
<1>7. QED
  BY <1>4, <1>5, <1>6, ConcatProperties DEF SoFar

-----------------------------------------------------------------------------
(***************************************************************************)
(* The steps of assemble                                                   *)
(***************************************************************************)

LEMMA PrimedBefore ==
  ASSUME disk' = disk, inputs' = inputs
  PROVE  /\ SoFar' = FlattenSeq(Around') \o Before(Len(saved'), cursor', cursor'.index - 1)
         /\ Around' = [k \in 1 .. Len(saved') |->
                         IF k = 1 THEN Repeated(argi' - 1)
                         ELSE Before(k - 1, Frame(k - 1)', Frame(k - 1)'.index - 2)]
         /\ \A k : Frame(k)' = IF k = Len(saved') THEN cursor' ELSE saved'[k + 1]
<1>1. Expansion' = Expansion
  BY SameFiles
<1>2. SoFar' = FlattenSeq(Around') \o Before(Len(saved'), cursor', cursor'.index - 1)
  BY <1>1 DEF SoFar, Before, Inlined, TextOf, Opened, Exists, GetRealpath
<1>3. \A k : Frame(k)' = IF k = Len(saved') THEN cursor' ELSE saved'[k + 1]
  BY DEF Frame
<1>4. Around' = [k \in 1 .. Len(saved') |->
                  IF k = 1 THEN Repeated(argi' - 1)
                  ELSE Before(k - 1, Frame(k - 1)', Frame(k - 1)'.index - 2)]
  BY <1>1 DEF Around, Repeated, ExpansionOf, Before, Inlined, TextOf, Opened, Exists, GetRealpath
<1>5. QED
  BY <1>2, <1>3, <1>4

\* StackInv, in the next state, of files that are what they were.
LEMMA PrimedStack ==
  ASSUME disk' = disk, inputs' = inputs,
         saved' \in Seq(Cursors), Len(saved') \in 1 .. MaxDepth,
         saved'[1] = NoCursor,
         argi' \in 1 .. Len(inputs),
         \A k \in 1 .. Len(saved') : InFile(Frame(k)'),
         Reads(Frame(1)', inputs[1], NoPath),
         \A k \in 1 .. (Len(saved') - 1) : Calls(Frame(k)', Frame(k + 1)')
  PROVE  StackInv'
<1>1. Texts' = Texts /\ Dirs' = Dirs /\ Cursors' = Cursors
  BY SameFiles
<1>2. \A k \in 1 .. Len(saved') : InFile(Frame(k))'
  BY <1>1 DEF InFile
<1>3. Reads(Frame(1), inputs[1], NoPath)'
  BY DEF Reads, TextOf, Opened, Exists, GetRealpath
<1>4. \A k \in 1 .. (Len(saved') - 1) : Calls(Frame(k), Frame(k + 1))'
  BY DEF Calls, Reads, TextOf, Opened, Exists, GetRealpath
<1>5. QED
  BY <1>1, <1>2, <1>3, <1>4 DEF StackInv

Unmoved == UNCHANGED <<disk, inputs>>

\* A statement that is not an include is read where it is.
LEMMA ReadStatement ==
  ASSUME DepthAssumption, TextsAreStatements, StackInv, Unmoved,
         saved' = saved, argi' = argi,
         cursor.index <= Len(cursor.tokens), Step,
         Statement.op # "include"
  PROVE  /\ Statement \in Statements
         /\ StackInv'
         /\ SoFar' = Append(SoFar, Statement)
<1>0. disk' = disk /\ inputs' = inputs
  BY DEF Unmoved
<1>1. PICK n \in 1 .. MaxDepth : n = Len(saved)
  BY DEF StackInv
<1>2. InFile(cursor) /\ Frame(n) = cursor
  BY <1>1 DEF StackInv, Frame
<1>3. cursor' = [cursor EXCEPT !.index = @ + 1]
  BY DEF Step
<1>4. /\ InFile(cursor')
      /\ cursor'.tokens = cursor.tokens /\ cursor'.rpath = cursor.rpath
      /\ cursor'.index = cursor.index + 1
      /\ \A level, m : Before(level, cursor', m) = Before(level, cursor, m)
      /\ \A path, dir : Reads(cursor', path, dir) <=> Reads(cursor, path, dir)
      /\ \A b : Calls(b, cursor') <=> Calls(b, cursor)
  <2>1. Moved(cursor', cursor)
    BY <1>2, <1>3 DEF Moved
  <2>2. Behind(cursor', cursor)
    BY <2>1, MovedCursor
  <2>3. QED
    BY <2>2 DEF Behind
<1>5. \A k \in 1 .. n : Frame(k)' = IF k = n THEN cursor' ELSE Frame(k)
  BY <1>0, <1>1, PrimedBefore DEF Frame
<1>6. StackInv'
  <2>1. \A k \in 1 .. n : InFile(Frame(k)')
    BY <1>1, <1>4, <1>5 DEF StackInv
  <2>2. Reads(Frame(1)', inputs[1], NoPath)
    <3>1. Reads(Frame(1), inputs[1], NoPath) /\ 1 \in 1 .. n
      BY <1>1 DEF StackInv
    <3>2. CASE n = 1
      BY <1>2, <1>4, <1>5, <3>1, <3>2
    <3>3. CASE n # 1
      BY <1>5, <3>1, <3>3
    <3>4. QED
      BY <3>2, <3>3
  <2>3. ASSUME NEW k \in 1 .. (n - 1) PROVE Calls(Frame(k)', Frame(k + 1)')
    <3>1. Calls(Frame(k), Frame(k + 1)) /\ k \in 1 .. n /\ k # n /\ k + 1 \in 1 .. n
      BY <1>1 DEF StackInv
    <3>2. Frame(k)' = Frame(k)
      BY <1>5, <3>1
    <3>3. CASE k + 1 = n
      BY <1>2, <1>4, <1>5, <3>1, <3>2, <3>3
    <3>4. CASE k + 1 # n
      BY <1>5, <3>1, <3>2, <3>4
    <3>5. QED
      BY <3>3, <3>4
  <2>4. saved' \in Seq(Cursors) /\ Len(saved') \in 1 .. MaxDepth /\ saved'[1] = NoCursor
        /\ argi' \in 1 .. Len(inputs)
    BY DEF StackInv
  <2>5. QED
    BY <1>0, <1>1, <2>1, <2>2, <2>3, <2>4, PrimedStack
<1>7. Around' = Around
  <2>1. ASSUME NEW k \in 2 .. n PROVE Frame(k - 1)' = Frame(k - 1)
    <3>1. k - 1 \in 1 .. n /\ k - 1 # n
      OBVIOUS
    <3>2. QED
      BY <1>5, <3>1
  <2>2. \A k \in 1 .. n : k # 1 => k \in 2 .. n
    OBVIOUS
  <2>3. QED
    BY <1>0, <1>1, <2>1, <2>2, PrimedBefore DEF Around
<1>8. PICK i \in Nat : i = cursor.index - 1 /\ i < Len(cursor.tokens) /\ i + 1 = cursor.index
  BY <1>2 DEF InFile, Cursors
<1>9. Statement \in Statements /\ Statement = cursor.tokens[i + 1]
  BY <1>2, <1>8 DEF Statement, InFile, Cursors
<1>10. Here(n, cursor, i) = <<Statement>>
  BY <1>9 DEF Here, Inlined
<1>11. /\ Before(n, cursor, i) \in Seq(Statements)
       /\ Before(n, cursor, i + 1) = Before(n, cursor, i) \o <<Statement>>
  <2>1. PICK c : c = cursor
    OBVIOUS
  <2>2. InFile(c) /\ i < Len(c.tokens) /\ Here(n, c, i) = <<Statement>>
    BY <1>2, <1>8, <1>10, <2>1
  <2>3. /\ Before(n, c, i) \in Seq(Statements)
        /\ Before(n, c, i + 1) = Before(n, c, i) \o <<Statement>>
    BY <2>2, BeforeNext
  <2>4. QED
    BY <2>1, <2>3
<1>12. SoFar' = FlattenSeq(Around) \o Before(n, cursor, i + 1)
  <2>1. cursor'.index - 1 = i + 1
    BY <1>4, <1>8
  <2>2. SoFar' = FlattenSeq(Around') \o Before(n, cursor', i + 1)
    BY <1>0, <1>1, <2>1, PrimedBefore
  <2>3. QED
    BY <1>4, <1>7, <2>2
<1>13. SoFar = FlattenSeq(Around) \o Before(n, cursor, i)
  BY <1>1, <1>8 DEF SoFar
<1>14. SoFar' = SoFar \o <<Statement>>
  <2>1. FlattenSeq(Around) \in Seq(Statements) /\ <<Statement>> \in Seq(Statements)
    BY <1>9, AroundType
  <2>2. PICK a \in Seq(Statements), b \in Seq(Statements), s \in Seq(Statements) :
          a = FlattenSeq(Around) /\ b = Before(n, cursor, i) /\ s = <<Statement>>
    BY <1>11, <2>1
  <2>3. a \o (b \o s) = (a \o b) \o s
    BY ConcatAssociative
  <2>4. QED
    BY <1>11, <1>12, <1>13, <2>2, <2>3
<1>15. QED
  BY <1>6, <1>9, <1>14, AroundType, AppendIsConcat

\* The cursor a file is read with from its start.
LEMMA NewCursor ==
  ASSUME TextsAreStatements, NEW path, NEW dir, NEW f \in Opened(path, dir),
         NEW c, c = [tokens |-> disk.files[f], index |-> 1, rpath |-> GetRealpath(path)]
  PROVE  InFile(c) /\ c.index = 1 /\ Reads(c, path, dir)
<1>1. \A x, y \in Opened(path, dir) : x = y
  BY DEF Opened
<1>2. f = CHOOSE x \in Opened(path, dir) : TRUE
  BY <1>1
<1>3. c.tokens = TextOf(path, dir) /\ c.rpath = GetRealpath(path) /\ c.index = 1
  BY <1>2 DEF TextOf
<1>4. c.tokens \in Texts /\ c.rpath \in Dirs
  BY <1>3, OpenedIsText
<1>5. c.tokens \in Seq(Statements)
  BY <1>4 DEF TextsAreStatements
<1>6. c \in Cursors
  <2>1. c = [tokens |-> c.tokens, index |-> c.index, rpath |-> c.rpath]
    BY <1>3
  <2>2. QED
    BY <1>3, <1>4, <1>5, <2>1 DEF Cursors
<1>7. InFile(c)
  BY <1>3, <1>4, <1>5, <1>6 DEF InFile
<1>8. QED
  BY <1>3, <1>7 DEF Reads

LEMMA NoCursorTyped == NoCursor \in Cursors
BY EmptySeq DEF NoCursor, Cursors, Dirs

\* An input is read from its start.
LEMMA StartInput ==
  ASSUME DepthAssumption, TextsAreStatements, Unmoved,
         saved = <<>>, cursor = NoCursor, saved' = Append(saved, cursor),
         argi \in 1 .. Len(inputs), argi' = argi,
         NEW f \in Opened(inputs[1], NoPath),
         cursor' = [tokens |-> disk.files[f], index |-> 1, rpath |-> GetRealpath(inputs[1])]
  PROVE  StackInv' /\ SoFar' = Repeated(argi - 1)
<1>0. disk' = disk /\ inputs' = inputs
  BY DEF Unmoved
<1>1. InFile(cursor') /\ cursor'.index = 1 /\ Reads(cursor', inputs[1], NoPath)
  BY NewCursor
<1>2. /\ saved' \in Seq(Cursors) /\ Len(saved') = 1 /\ saved'[1] = NoCursor
      /\ Len(saved') \in 1 .. MaxDepth
  BY NoCursorTyped DEF DepthAssumption
<1>3. Frame(1)' = cursor'
  BY <1>0, <1>2, PrimedBefore
<1>4. StackInv'
  <2>1. \A k \in 1 .. Len(saved') : InFile(Frame(k)')
    BY <1>1, <1>2, <1>3
  <2>2. Reads(Frame(1)', inputs[1], NoPath)
    BY <1>1, <1>3
  <2>3. \A k \in 1 .. (Len(saved') - 1) : Calls(Frame(k)', Frame(k + 1)')
    BY <1>2
  <2>4. QED
    BY <1>0, <1>2, <2>1, <2>2, <2>3, PrimedStack
<1>5. PICK r \in Seq(Statements) : r = Repeated(argi - 1)
  BY FirstFileTyped, RepeatedIs, argi - 1 \in Nat
<1>6. Around' = Append(<<>>, r)
  <2>1. Around' = [k \in 1 .. 1 |->
                     IF k = 1 THEN r
                     ELSE Before(k - 1, Frame(k - 1)', Frame(k - 1)'.index - 2)]
    BY <1>0, <1>2, <1>5, PrimedBefore
  <2>2. Around' = [k \in 1 .. 1 |-> r]
    BY <2>1
  <2>3. QED
    BY <2>2
<1>7. FlattenSeq(Around') = <<>> \o r
  BY <1>5, <1>6, FlattenEmpty, FlattenAppend, EmptySeq
<1>8. Before(Len(saved'), cursor', cursor'.index - 1) = <<>>
  BY <1>1, BeforeNone
<1>9. SoFar' = (<<>> \o r) \o <<>>
  BY <1>0, <1>7, <1>8, PrimedBefore
<1>10. QED
  BY <1>4, <1>5, <1>9, ConcatEmptySeq

CanAppend(s, e, S, n) == s \in Seq(S) /\ e \in S /\ n = Len(s)

Appended(s, e, n) == [k \in 1 .. (n + 1) |-> IF k = n + 1 THEN e ELSE s[k]]

LEMMA AppendIs ==
  ASSUME NEW S, NEW s, NEW e, NEW n, CanAppend(s, e, S, n)
  PROVE  Append(s, e) = Appended(s, e, n)
<1>0. s \in Seq(S) /\ e \in S /\ n = Len(s) /\ n \in Nat
  BY DEF CanAppend
<1>1. /\ Append(s, e) \in Seq(S) /\ Len(Append(s, e)) = n + 1
      /\ Append(s, e)[n + 1] = e
      /\ \A k \in 1 .. n : Append(s, e)[k] = s[k]
  BY <1>0, AppendProperties
<1>2. Append(s, e) = [k \in 1 .. (n + 1) |-> Append(s, e)[k]]
  <2>1. PICK a \in Seq(S) : a = Append(s, e) /\ Len(a) = n + 1
    BY <1>1
  <2>2. a = [k \in 1 .. Len(a) |-> a[k]]
    OBVIOUS
  <2>3. QED
    BY <2>1, <2>2
<1>3. \A k \in 1 .. (n + 1) : k = n + 1 \/ k \in 1 .. n
  BY <1>0
<1>4. QED
  BY <1>1, <1>2, <1>3 DEF Appended

\* An included file is read from its start, inside of the call around it.
LEMMA StartInclude ==
  ASSUME DepthAssumption, TextsAreStatements, StackInv, Unmoved, argi' = argi,
         cursor.index <= Len(cursor.tokens), Statement.op = "include",
         Len(saved) # MaxDepth,
         NEW moved, moved = [cursor EXCEPT !.index = @ + 1],
         saved' = Append(saved, moved),
         NEW f \in Opened(Statement.path, cursor.rpath),
         cursor' = [tokens |-> disk.files[f], index |-> 1, rpath |-> GetRealpath(Statement.path)]
  PROVE  StackInv' /\ SoFar' = SoFar
<1>0. disk' = disk /\ inputs' = inputs
  BY DEF Unmoved
<1>1. PICK n \in 1 .. MaxDepth : n = Len(saved) /\ n + 1 \in 1 .. MaxDepth
  BY DEF StackInv, DepthAssumption
<1>2. PICK c : c = cursor
  OBVIOUS
<1>3. InFile(c) /\ Frame(n) = c
  BY <1>1, <1>2 DEF StackInv, Frame
<1>4. /\ InFile(moved)
      /\ moved.tokens = c.tokens /\ moved.rpath = c.rpath
      /\ moved.index = c.index + 1
      /\ \A level, m : Before(level, moved, m) = Before(level, c, m)
      /\ \A path, dir : Reads(moved, path, dir) <=> Reads(c, path, dir)
      /\ \A b : Calls(b, moved) <=> Calls(b, c)
  <2>1. Moved(moved, c)
    BY <1>2, <1>3 DEF Moved
  <2>2. Behind(moved, c)
    BY <2>1, MovedCursor
  <2>3. QED
    BY <2>2 DEF Behind
<1>5. /\ c.index \in Nat /\ c.index > 0
      /\ moved.index > 1 /\ moved.index - 1 = c.index /\ moved.index - 2 = c.index - 1
  BY <1>3, <1>4 DEF InFile, Cursors
<1>6. Statement = moved.tokens[moved.index - 1]
  BY <1>2, <1>4, <1>5 DEF Statement
<1>7. InFile(cursor') /\ cursor'.index = 1 /\ Reads(cursor', Statement.path, c.rpath)
  BY <1>2, NewCursor
<1>8. Calls(moved, cursor')
  BY <1>4, <1>5, <1>6, <1>7 DEF Calls
<1>9. moved \in Cursors /\ saved \in Seq(Cursors)
  BY <1>4 DEF InFile, StackInv
<1>10. /\ saved' \in Seq(Cursors) /\ Len(saved') = n + 1
       /\ saved'[n + 1] = moved
       /\ \A k \in 1 .. n : saved'[k] = saved[k]
  BY <1>1, <1>9, AppendProperties
<1>11. \A k \in 1 .. (n + 1) :
         Frame(k)' = IF k = n + 1 THEN cursor' ELSE IF k = n THEN moved ELSE Frame(k)
  <2>1. ASSUME NEW k \in 1 .. (n + 1), k # n + 1, k # n
        PROVE  saved'[k + 1] = saved[k + 1]
    <3>1. k + 1 \in 1 .. n
      BY <2>1
    <3>2. QED
      BY <1>10, <3>1
  <2>2. QED
    BY <1>0, <1>1, <1>10, <2>1, PrimedBefore DEF Frame
<1>12. Frame(n)' = moved /\ Frame(n + 1)' = cursor'
  BY <1>11, n \in 1 .. (n + 1), n + 1 \in 1 .. (n + 1), n # n + 1
<1>13. \A k \in 1 .. n : k # n => Frame(k)' = Frame(k)
  BY <1>11
<1>14. StackInv'
  <2>1. \A k \in 1 .. Len(saved') : InFile(Frame(k)')
    <3>1. \A k \in 1 .. n : InFile(Frame(k))
      BY <1>1 DEF StackInv
    <3>2. \A k \in 1 .. Len(saved') : k = n + 1 \/ k = n \/ (k \in 1 .. n /\ k # n)
      BY <1>10
    <3>3. QED
      BY <1>4, <1>7, <1>12, <1>13, <3>1, <3>2
  <2>2. Reads(Frame(1)', inputs[1], NoPath)
    <3>1. Reads(Frame(1), inputs[1], NoPath) /\ 1 \in 1 .. n
      BY <1>1 DEF StackInv
    <3>2. CASE n = 1
      BY <1>3, <1>4, <1>12, <3>1, <3>2
    <3>3. CASE n # 1
      BY <1>13, <3>1, <3>3
    <3>4. QED
      BY <3>2, <3>3
  <2>3. ASSUME NEW k \in 1 .. (Len(saved') - 1) PROVE Calls(Frame(k)', Frame(k + 1)')
    <3>1. k \in 1 .. n
      BY <1>10
    <3>2. CASE k = n
      BY <1>8, <1>12, <3>2
    <3>3. CASE k # n
      <4>1. k \in 1 .. (n - 1) /\ k + 1 \in 1 .. n
        BY <3>1, <3>3
      <4>2. Calls(Frame(k), Frame(k + 1)) /\ Frame(k)' = Frame(k)
        BY <1>1, <1>13, <3>1, <3>3, <4>1 DEF StackInv
      <4>3. CASE k + 1 = n
        BY <1>3, <1>4, <1>12, <4>2, <4>3
      <4>4. CASE k + 1 # n
        BY <1>13, <4>1, <4>2, <4>4
      <4>5. QED
        BY <4>3, <4>4
    <3>4. QED
      BY <3>2, <3>3
  <2>4. Len(saved') \in 1 .. MaxDepth /\ saved'[1] = NoCursor /\ argi' \in 1 .. Len(inputs)
    BY <1>1, <1>10 DEF StackInv
  <2>5. QED
    BY <1>0, <1>10, <2>1, <2>2, <2>3, <2>4, PrimedStack
<1>15. PICK b \in Seq(Statements) : b = Before(n, c, c.index - 1)
  BY <1>1, <1>2, AroundType
<1>16. Around' = Append(Around, b)
  <2>1. Around' = [k \in 1 .. (n + 1) |->
                     IF k = 1 THEN Repeated(argi - 1)
                     ELSE Before(k - 1, Frame(k - 1)', Frame(k - 1)'.index - 2)]
    BY <1>0, <1>10, PrimedBefore
  <2>2. Around \in Seq(Seq(Statements)) /\ Len(Around) = n
    BY <1>1, AroundType DEF Around
  <2>3. Append(Around, b) = [k \in 1 .. (n + 1) |-> IF k = n + 1 THEN b ELSE Around[k]]
    <3>1. CanAppend(Around, b, Seq(Statements), n)
      BY <2>2 DEF CanAppend
    <3>2. QED
      BY <3>1, AppendIs DEF Appended
  <2>4. ASSUME NEW k \in 1 .. (n + 1)
        PROVE  (IF k = 1 THEN Repeated(argi - 1)
                ELSE Before(k - 1, Frame(k - 1)', Frame(k - 1)'.index - 2))
                 = IF k = n + 1 THEN b ELSE Around[k]
    <3>1. CASE k = n + 1
      <4>1. k # 1 /\ k - 1 = n
        BY <1>1, <3>1
      <4>2. Frame(k - 1)' = moved
        BY <1>12, <4>1
      <4>3. Before(n, moved, moved.index - 2) = b
        BY <1>4, <1>5, <1>15
      <4>4. QED
        BY <3>1, <4>1, <4>2, <4>3
    <3>2. CASE k # n + 1 /\ k # 1
      <4>1. k \in 1 .. n /\ k - 1 \in 1 .. n /\ k - 1 # n
        BY <3>2
      <4>2. Frame(k - 1)' = Frame(k - 1)
        BY <1>13, <4>1
      <4>3. Around[k] = Before(k - 1, Frame(k - 1), Frame(k - 1).index - 2)
        BY <1>1, <3>2, <4>1 DEF Around
      <4>4. QED
        BY <3>2, <4>2, <4>3
    <3>3. CASE k # n + 1 /\ k = 1
      BY <1>1, <3>3 DEF Around
    <3>4. QED
      BY <3>1, <3>2, <3>3
  <2>5. QED
    BY <2>1, <2>3, <2>4
<1>17. FlattenSeq(Around') = FlattenSeq(Around) \o b
  BY <1>15, <1>16, AroundType, FlattenAppend
<1>18. SoFar = FlattenSeq(Around) \o b /\ SoFar \in Seq(Statements)
  BY <1>1, <1>2, <1>15, AroundType DEF SoFar
<1>19. Before(Len(saved'), cursor', cursor'.index - 1) = <<>>
  BY <1>7, BeforeNone
<1>20. SoFar' = SoFar \o <<>>
  BY <1>0, <1>17, <1>18, <1>19, PrimedBefore
<1>21. QED
  BY <1>14, <1>18, <1>20, ConcatEmptySeq

CanShorten(s, S, n) == s \in Seq(S) /\ n \in Nat /\ Len(s) = n + 1

Shortened(f, s, S, n) ==
  /\ f \in Seq(S) /\ Len(f) = n
  /\ \A k \in 1 .. n : f[k] = s[k]
  /\ Last(s) = s[n + 1]

LEMMA FrontIs ==
  ASSUME NEW S, NEW s, NEW n, CanShorten(s, S, n)
  PROVE  Shortened(Front(s), s, S, n)
<1>0. s \in Seq(S) /\ n \in Nat /\ Len(s) = n + 1
  BY DEF CanShorten
<1> DEFINE f == Front(s)
<1>1. f = SubSeq(s, 1, n)
  BY <1>0 DEF Front
<1> HIDE DEF f
<1>2. /\ f \in Seq(S) /\ Len(f) = n
      /\ \A k \in 1 .. n : f[k] = s[k]
  <2>1. 1 \in 1 .. (Len(s) + 1) /\ n \in (1 - 1) .. Len(s)
    BY <1>0
  <2>2. QED
    BY <1>0, <1>1, <2>1, SubSeqProperties
<1>3. QED
  BY <1>0, <1>2 DEF f, Last, Shortened

\* An included file was read to its end: so was the .include.
LEMMA EndInclude ==
  ASSUME DepthAssumption, TextsAreStatements, StackInv, Unmoved, argi' = argi,
         cursor.index > Len(cursor.tokens), Len(saved) # 1,
         cursor' = Last(saved), saved' = Front(saved)
  PROVE  StackInv' /\ SoFar' = SoFar
<1>0. disk' = disk /\ inputs' = inputs
  BY DEF Unmoved
<1>1. PICK n \in 1 .. MaxDepth : n + 1 = Len(saved) /\ n + 1 \in 1 .. MaxDepth
  <2>1. PICK l \in 1 .. MaxDepth : l = Len(saved) /\ MaxDepth \in Nat
    BY DEF StackInv, DepthAssumption
  <2>2. l - 1 \in 1 .. MaxDepth /\ l - 1 + 1 = l
    BY <2>1
  <2>3. QED
    BY <2>1, <2>2
<1>2. PICK c, d : c = cursor /\ d = saved[n + 1]
  OBVIOUS
<1>3. /\ saved' \in Seq(Cursors) /\ Len(saved') = n
      /\ \A k \in 1 .. n : saved'[k] = saved[k]
      /\ cursor' = d
  <2>1. saved \in Seq(Cursors) /\ n \in Nat
    BY DEF StackInv
  <2>2. PICK s \in Seq(Cursors) : s = saved
    BY <2>1
  <2>3. PICK f : f = Front(s)
    OBVIOUS
  <2>4. /\ f \in Seq(Cursors) /\ Len(f) = n
        /\ \A k \in 1 .. n : f[k] = s[k]
        /\ Last(s) = s[n + 1]
    <3>1. CanShorten(s, Cursors, n)
      BY <1>1, <2>1, <2>2 DEF CanShorten
    <3>2. QED
      BY <2>3, <3>1, FrontIs DEF Shortened
  <2>5. QED
    BY <1>2, <2>2, <2>3, <2>4
<1>4. \A k \in 1 .. n : Frame(k)' = Frame(k)
  <2>1. ASSUME NEW k \in 1 .. n, k # n PROVE saved'[k + 1] = saved[k + 1]
    BY <1>3, <2>1, k + 1 \in 1 .. n
  <2>2. QED
    BY <1>0, <1>1, <1>2, <1>3, <2>1, PrimedBefore DEF Frame
<1>5. Frame(n) = d /\ Frame(n + 1) = c
  BY <1>1, <1>2 DEF Frame
<1>6. InFile(c) /\ InFile(d) /\ Calls(d, c)
  <2>1. n \in 1 .. Len(saved) /\ n + 1 \in 1 .. Len(saved) /\ n \in 1 .. (Len(saved) - 1)
    BY <1>1
  <2>2. QED
    BY <1>5, <2>1 DEF StackInv
<1>7. StackInv'
  <2>1. \A k \in 1 .. n : k \in 1 .. Len(saved)
    BY <1>1
  <2>2. \A k \in 1 .. Len(saved') : InFile(Frame(k)')
    BY <1>3, <1>4, <2>1 DEF StackInv
  <2>3. Reads(Frame(1)', inputs[1], NoPath)
    BY <1>4, 1 \in 1 .. n DEF StackInv
  <2>4. ASSUME NEW k \in 1 .. (Len(saved') - 1) PROVE Calls(Frame(k)', Frame(k + 1)')
    <3>1. k \in 1 .. n /\ k + 1 \in 1 .. n /\ k \in 1 .. (Len(saved) - 1)
      BY <1>1, <1>3
    <3>2. Calls(Frame(k), Frame(k + 1))
      BY <3>1 DEF StackInv
    <3>3. QED
      BY <1>4, <3>1, <3>2
  <2>5. saved'[1] = NoCursor /\ Len(saved') \in 1 .. MaxDepth /\ argi' \in 1 .. Len(inputs)
    BY <1>3, 1 \in 1 .. n DEF StackInv
  <2>6. QED
    BY <1>0, <1>3, <2>2, <2>3, <2>4, <2>5, PrimedStack
<1>8. PICK i \in Nat : i = d.index - 2 /\ i + 1 = d.index - 1 /\ i < Len(d.tokens)
  <2>1. PICK j \in Nat, l \in Nat : j = d.index /\ l = Len(d.tokens)
    BY <1>6 DEF InFile, Cursors
  <2>2. j > 1 /\ j <= l + 1
    BY <1>6, <2>1 DEF Calls, InFile
  <2>3. QED
    BY <2>1, <2>2, j - 2 \in Nat
<1>9. PICK b \in Seq(Statements), e \in Seq(Statements) :
        b = Before(n, d, i) /\ e = Here(n, d, i)
  BY <1>6, <1>8, BeforeNext, HereType
<1>10. Before(n, d, i + 1) = b \o e
  BY <1>6, <1>8, <1>9, BeforeNext
<1>11. Before(n + 1, c, Len(c.tokens)) = e
  <2>1. PICK k \in 1 .. MaxDepth : k = n + 1 /\ MaxDepth - k + 1 = MaxDepth - n
    BY <1>1 DEF DepthAssumption
  <2>2. Before(k, c, Len(c.tokens)) = Expansion[MaxDepth - n][<<c.tokens, c.rpath>>]
    BY <1>6, <2>1, BeforeAll
  <2>3. PICK s : s = d.tokens[d.index - 1]
    OBVIOUS
  <2>4. /\ s.op = "include" /\ Opened(s.path, d.rpath) # {}
        /\ c.tokens = TextOf(s.path, d.rpath) /\ c.rpath = GetRealpath(s.path)
    BY <1>6, <2>3 DEF Calls, Reads
  <2>5. e = Inlined(s, d.rpath, Expansion[MaxDepth - n])
    BY <1>8, <1>9, <2>3 DEF Here
  <2>6. e = Expansion[MaxDepth - n][<<c.tokens, c.rpath>>]
    BY <2>4, <2>5 DEF Inlined
  <2>7. QED
    BY <2>1, <2>2, <2>6
<1>12. c.index - 1 = Len(c.tokens)
  <2>1. PICK j \in Nat, l \in Nat : j = c.index /\ l = Len(c.tokens)
    BY <1>6 DEF InFile, Cursors
  <2>2. j > l /\ j <= l + 1
    BY <1>2, <1>6, <2>1 DEF InFile
  <2>3. QED
    BY <2>1, <2>2
<1>13. PICK around \in Seq(Seq(Statements)) : around = Around' /\ Len(around) = n
  <2>1. Around' = [k \in 1 .. n |-> Around[k]]
    <3>1. Around' = [k \in 1 .. n |->
                       IF k = 1 THEN Repeated(argi - 1)
                       ELSE Before(k - 1, Frame(k - 1)', Frame(k - 1)'.index - 2)]
      BY <1>0, <1>3, PrimedBefore
    <3>2. ASSUME NEW k \in 1 .. n
          PROVE  (IF k = 1 THEN Repeated(argi - 1)
                  ELSE Before(k - 1, Frame(k - 1)', Frame(k - 1)'.index - 2)) = Around[k]
      <4>1. k \in 1 .. Len(saved)
        BY <1>1
      <4>2. k # 1 => Frame(k - 1)' = Frame(k - 1)
        BY <1>4
      <4>3. QED
        BY <4>1, <4>2 DEF Around
    <3>3. QED
      BY <3>1, <3>2
  <2>2. \A k \in 1 .. n : Around[k] \in Seq(Statements)
    <3>1. Around \in Seq(Seq(Statements)) /\ Len(Around) = n + 1
      BY <1>1, AroundType DEF Around
    <3>2. QED
      BY <3>1
  <2>3. [k \in 1 .. n |-> Around[k]] \in Seq(Seq(Statements))
    BY <2>2, IsASeq
  <2>4. Len([k \in 1 .. n |-> Around[k]]) = n
    OBVIOUS
  <2>5. QED
    BY <2>1, <2>3, <2>4
<1>14. Around = Append(around, b)
  <2>1. Around = [k \in 1 .. (n + 1) |->
                    IF k = 1 THEN Repeated(argi - 1)
                    ELSE Before(k - 1, Frame(k - 1), Frame(k - 1).index - 2)]
    BY <1>1 DEF Around
  <2>2. Append(around, b) = [k \in 1 .. (n + 1) |-> IF k = n + 1 THEN b ELSE around[k]]
    <3>1. CanAppend(around, b, Seq(Statements), n)
      BY <1>13 DEF CanAppend
    <3>2. Append(around, b) = Appended(around, b, n)
      BY <3>1, AppendIs
    <3>3. QED
      BY <3>2 DEF Appended
  <2>3. around = [k \in 1 .. n |->
                    IF k = 1 THEN Repeated(argi - 1)
                    ELSE Before(k - 1, Frame(k - 1)', Frame(k - 1)'.index - 2)]
    BY <1>0, <1>3, <1>13, PrimedBefore
  <2>4. ASSUME NEW k \in 1 .. (n + 1)
        PROVE  (IF k = 1 THEN Repeated(argi - 1)
                ELSE Before(k - 1, Frame(k - 1), Frame(k - 1).index - 2))
                 = IF k = n + 1 THEN b ELSE around[k]
    <3>1. CASE k = n + 1
      <4>1. k # 1 /\ k - 1 = n
        BY <3>1
      <4>2. QED
        BY <1>5, <1>8, <1>9, <3>1, <4>1
    <3>2. CASE k # n + 1
      <4>1. k \in 1 .. n /\ (k # 1 => k - 1 \in 1 .. n)
        BY <3>2
      <4>2. k # 1 => Frame(k - 1)' = Frame(k - 1)
        BY <1>4, <4>1
      <4>3. QED
        BY <2>3, <3>2, <4>1, <4>2
    <3>3. QED
      BY <3>1, <3>2
  <2>5. QED
    BY <2>1, <2>2, <2>4
<1>15. PICK a \in Seq(Statements) : a = FlattenSeq(around)
  BY <1>13, FlattenType
<1>16. FlattenSeq(Around) = a \o b
  BY <1>9, <1>13, <1>14, <1>15, FlattenAppend
<1>17. SoFar = (a \o b) \o e
  BY <1>1, <1>2, <1>11, <1>12, <1>16 DEF SoFar
<1>18. SoFar' = a \o (b \o e)
  BY <1>0, <1>3, <1>8, <1>10, <1>13, <1>15, PrimedBefore
<1>19. (a \o b) \o e = a \o (b \o e)
  BY ConcatAssociative
<1>20. QED
  BY <1>7, <1>17, <1>18, <1>19

\* An input was read to its end.
LEMMA EndInput ==
  ASSUME DepthAssumption, TextsAreStatements, StackInv,
         cursor.index > Len(cursor.tokens), Len(saved) = 1
  PROVE  /\ Last(saved) = NoCursor /\ Front(saved) = <<>>
         /\ argi \in 1 .. Len(inputs)
         /\ Opened(inputs[1], NoPath) # {}
         /\ SoFar = Repeated(argi)
<1>1. /\ saved \in Seq(Cursors) /\ saved[1] = NoCursor
      /\ argi \in 1 .. Len(inputs) /\ argi - 1 \in Nat /\ argi - 1 + 1 = argi
  BY DEF StackInv
<1>2. Last(saved) = NoCursor
  BY <1>1 DEF Last
<1>3. Front(saved) = <<>>
  BY <1>1 DEF Front
<1>4. PICK c : c = cursor
  OBVIOUS
<1>5. Frame(1) = c /\ InFile(c) /\ Reads(c, inputs[1], NoPath)
  <2>1. Frame(1) = c
    BY <1>4 DEF Frame
  <2>2. QED
    BY <2>1, 1 \in 1 .. 1 DEF StackInv
<1>6. Opened(inputs[1], NoPath) # {}
  BY <1>5 DEF Reads
<1>7. PICK e \in Seq(Statements) : e = ExpansionOf(inputs[1])
  BY <1>6, FirstFileTyped
<1>8. PICK r \in Seq(Statements) : r = Repeated(argi - 1) /\ Repeated(argi) = r \o e
  BY <1>1, <1>7, RepeatedIs
<1>9. Before(1, c, Len(c.tokens)) = e
  <2>1. 1 \in 1 .. MaxDepth /\ MaxDepth - 1 + 1 = MaxDepth
    BY DEF DepthAssumption
  <2>2. Before(1, c, Len(c.tokens)) = Expansion[MaxDepth][<<c.tokens, c.rpath>>]
    BY <1>5, <2>1, BeforeAll
  <2>3. QED
    BY <1>5, <1>7, <2>2 DEF ExpansionOf, Reads
<1>10. c.index - 1 = Len(c.tokens)
  <2>1. PICK j \in Nat, l \in Nat : j = c.index /\ l = Len(c.tokens)
    BY <1>5 DEF InFile, Cursors
  <2>2. j > l /\ j <= l + 1
    BY <1>4, <1>5, <2>1 DEF InFile
  <2>3. QED
    BY <2>1, <2>2
<1>11. FlattenSeq(Around) = <<>> \o r
  <2>1. Around = [k \in 1 .. 1 |-> r]
    BY <1>8 DEF Around
  <2>2. Around = Append(<<>>, r)
    BY <2>1
  <2>3. PICK none \in Seq(Seq(Statements)) : none = <<>>
    BY EmptySeq
  <2>4. FlattenSeq(Append(none, r)) = FlattenSeq(none) \o r
    BY <1>8, FlattenAppend
  <2>5. FlattenSeq(none) = <<>>
    BY <2>3, FlattenEmpty
  <2>6. QED
    BY <2>2, <2>3, <2>4, <2>5
<1>12. SoFar = (<<>> \o r) \o e
  BY <1>4, <1>9, <1>10, <1>11 DEF SoFar
<1>13. QED
  BY <1>1, <1>2, <1>3, <1>6, <1>8, <1>12, ConcatEmptySeq

-----------------------------------------------------------------------------
(***************************************************************************)
(* The invariant of the driver                                             *)
(***************************************************************************)

\* What the next state has to be for the invariant, when files are what they were.
LEMMA InvKept ==
  ASSUME DriverInv, Unmoved,
         phase' = "assembling" => StackInv' /\ Seen(SoFar)',
         phase' = "loading" =>
           /\ argi' \in 1 .. (Len(inputs) + 1)
           /\ argi' > 1 => Opened(inputs[1], NoPath) # {}
           /\ emitted' = ItemsOf(Repeated(argi' - 1))
           /\ known' = NamesOf(Repeated(argi' - 1), "label")
           /\ globals' = NamesOf(Repeated(argi' - 1), "global"),
         phase' \notin {"assembling", "terminated", "crashed"} =>
           saved' = <<>> /\ cursor' = NoCursor,
         phase' \notin {"loading", "assembling", "terminated", "crashed"} =>
           /\ emitted' = ItemsOf(Repeated(Len(inputs)))
           /\ known' = NamesOf(Repeated(Len(inputs)), "label")
           /\ globals' = NamesOf(Repeated(Len(inputs)), "global")
  PROVE  DriverInv'
<1>1. disk' = disk /\ inputs' = inputs
  BY DEF Unmoved
<1>2. \A n : Repeated(n)' = Repeated(n)
  BY <1>1, SameFiles
<1>3. LoadingInv'
  BY <1>1, <1>2 DEF LoadingInv, Seen, Opened, Exists
<1>4. InlineInv'
  BY <1>1, <1>2 DEF InlineInv, Assembled
<1>5. QED
  BY <1>1, <1>3, <1>4 DEF DriverInv, AssemblingInv, IdleInv

LEMMA StatementInv ==
  ASSUME DepthAssumption, FilesAssumption, DriverInv, NEW op,
         Reading(op), op # "include", Step, Unmoved,
         saved' = saved, argi' = argi, phase' = phase,
         emitted' = IF op = "item" THEN Append(emitted, Statement.name) ELSE emitted,
         known' = IF op = "label" THEN known \cup {Statement.name} ELSE known,
         globals' = IF op = "global" THEN globals \cup {Statement.name} ELSE globals
  PROVE  DriverInv'
<1>1. TextsAreStatements
  BY TextsTyped DEF DriverInv
<1>2. /\ phase = "assembling" /\ cursor.index <= Len(cursor.tokens)
      /\ Statement.op = op
      /\ StackInv /\ Seen(SoFar)
  BY DEF Reading, DriverInv, AssemblingInv
<1>3. /\ Statement \in Statements /\ StackInv'
      /\ SoFar' = Append(SoFar, Statement)
  BY <1>1, <1>2, ReadStatement
<1>4. PICK program \in Seq(Statements), s \in Statements : program = SoFar /\ s = Statement
  BY <1>1, <1>2, <1>3, AroundType
<1>5. /\ emitted = ItemsOf(program)
      /\ known = NamesOf(program, "label")
      /\ globals = NamesOf(program, "global")
      /\ s.op = op
  BY <1>2, <1>4 DEF Seen
<1>6. emitted' = ItemsOf(Append(program, s))
  BY <1>4, <1>5, ItemsOfAppend
<1>7. /\ known' = NamesOf(Append(program, s), "label")
      /\ globals' = NamesOf(Append(program, s), "global")
  <2>1. /\ NamesOf(Append(program, s), "label") =
             NamesOf(program, "label") \cup IF s.op = "label" THEN {s.name} ELSE {}
        /\ NamesOf(Append(program, s), "global") =
             NamesOf(program, "global") \cup IF s.op = "global" THEN {s.name} ELSE {}
    BY NamesOfAppend
  <2>2. /\ known' = IF op = "label" THEN known \cup {s.name} ELSE known
        /\ globals' = IF op = "global" THEN globals \cup {s.name} ELSE globals
    BY <1>4
  <2>3. QED
    BY <1>5, <2>1, <2>2
<1>8. Seen(SoFar)'
  BY <1>3, <1>4, <1>6, <1>7 DEF Seen
<1>9. QED
  BY <1>2, <1>3, <1>8, InvKept

LEMMA IncludeInv ==
  ASSUME DepthAssumption, FilesAssumption, DriverInv, Include
  PROVE  DriverInv'
<1>1. TextsAreStatements
  BY TextsTyped DEF DriverInv
<1>2. /\ phase = "assembling" /\ cursor.index <= Len(cursor.tokens)
      /\ Statement.op = "include"
      /\ StackInv /\ Seen(SoFar)
      /\ Unmoved /\ argi' = argi
      /\ emitted' = emitted /\ known' = known /\ globals' = globals
  BY DEF Include, Reading, Unmoved, programVars, DriverInv, AssemblingInv
<1>3. CASE phase' \in {"terminated", "crashed"}
  BY <1>2, <1>3, InvKept
<1>4. CASE phase' \notin {"terminated", "crashed"}
  <2>1. PICK moved : moved = [cursor EXCEPT !.index = @ + 1]
    OBVIOUS
  <2>2. /\ phase' = "assembling" /\ Len(saved) # MaxDepth
        /\ saved' = Append(saved, moved)
        /\ \E f \in Opened(Statement.path, cursor.rpath) :
             cursor' = [tokens |-> disk.files[f], index |-> 1,
                        rpath |-> GetRealpath(Statement.path)]
    BY <1>4, <2>1 DEF Include, Enter, Throw
  <2>3. StackInv' /\ SoFar' = SoFar
    BY <1>1, <1>2, <2>1, <2>2, StartInclude
  <2>4. Seen(SoFar)'
    BY <1>2, <2>3 DEF Seen
  <2>5. QED
    BY <1>2, <2>2, <2>3, <2>4, InvKept
<1>5. QED
  BY <1>3, <1>4

LEMMA LoadInputInv ==
  ASSUME DepthAssumption, FilesAssumption, DriverInv, LoadInput
  PROVE  DriverInv'
<1>1. TextsAreStatements
  BY TextsTyped DEF DriverInv
<1>2. /\ phase = "loading" /\ argi \in 1 .. Len(inputs)
      /\ saved = <<>> /\ cursor = NoCursor
      /\ Seen(Repeated(argi - 1))
      /\ Unmoved /\ argi' = argi
      /\ emitted' = emitted /\ known' = known /\ globals' = globals
  <2>1. PICK n \in Nat : n = Len(inputs)
    BY DEF DriverInv, FilesAssumption
  <2>2. QED
    BY <2>1 DEF LoadInput, Unmoved, programVars, DriverInv, LoadingInv, IdleInv
<1>3. CASE phase' \in {"terminated", "crashed"}
  BY <1>2, <1>3, InvKept
<1>4. CASE phase' \notin {"terminated", "crashed"}
  <2>1. /\ phase' = "assembling"
        /\ saved' = Append(saved, cursor)
        /\ \E f \in Opened(inputs[1], NoPath) :
             cursor' = [tokens |-> disk.files[f], index |-> 1,
                        rpath |-> GetRealpath(inputs[1])]
    BY <1>4 DEF LoadInput, Enter, Throw
  <2>2. StackInv' /\ SoFar' = Repeated(argi - 1)
    BY <1>1, <1>2, <2>1, StartInput
  <2>3. Seen(SoFar)'
    BY <1>2, <2>2 DEF Seen
  <2>4. QED
    BY <1>2, <2>1, <2>2, <2>3, InvKept
<1>5. QED
  BY <1>3, <1>4

LEMMA ResumeInv ==
  ASSUME DepthAssumption, FilesAssumption, DriverInv, Resume
  PROVE  DriverInv'
<1>1. TextsAreStatements
  BY TextsTyped DEF DriverInv
<1>2. /\ cursor.index > Len(cursor.tokens)
      /\ StackInv /\ Seen(SoFar)
      /\ cursor' = Last(saved) /\ saved' = Front(saved)
      /\ Unmoved
      /\ emitted' = emitted /\ known' = known /\ globals' = globals
  BY DEF Resume, Unmoved, programVars, DriverInv, AssemblingInv
<1>3. CASE Len(saved) = 1
  <2>1. /\ Last(saved) = NoCursor /\ Front(saved) = <<>>
        /\ argi \in 1 .. Len(inputs)
        /\ Opened(inputs[1], NoPath) # {}
        /\ SoFar = Repeated(argi)
    BY <1>1, <1>2, <1>3, EndInput
  <2>2. /\ phase' = "loading"
        /\ argi' \in 1 .. (Len(inputs) + 1) /\ argi' - 1 = argi
    <3>1. PICK n \in Nat : n = Len(inputs)
      BY DEF DriverInv, FilesAssumption
    <3>2. QED
      BY <1>3, <2>1, <3>1 DEF Resume
  <2>3. /\ emitted' = ItemsOf(Repeated(argi' - 1))
        /\ known' = NamesOf(Repeated(argi' - 1), "label")
        /\ globals' = NamesOf(Repeated(argi' - 1), "global")
    BY <1>2, <2>1, <2>2 DEF Seen
  <2>4. QED
    BY <1>2, <2>1, <2>2, <2>3, InvKept
<1>4. CASE Len(saved) # 1
  <2>1. phase' = "assembling" /\ argi' = argi
    BY <1>4 DEF Resume
  <2>2. StackInv' /\ SoFar' = SoFar
    BY <1>1, <1>2, <1>4, <2>1, EndInclude
  <2>3. Seen(SoFar)'
    BY <1>2, <2>2 DEF Seen
  <2>4. QED
    BY <1>2, <2>1, <2>2, <2>3, InvKept
<1>5. QED
  BY <1>3, <1>4

LEMMA WritingInv ==
  ASSUME DriverInv, Unmoved,
         UNCHANGED <<cursor, saved, programVars>>,
         phase \notin {"loading", "assembling", "terminated", "crashed"},
         phase' \notin {"loading", "assembling"}
  PROVE  DriverInv'
<1>1. /\ saved = <<>> /\ cursor = NoCursor
      /\ emitted = ItemsOf(Repeated(Len(inputs)))
      /\ known = NamesOf(Repeated(Len(inputs)), "label")
      /\ globals = NamesOf(Repeated(Len(inputs)), "global")
  BY DEF DriverInv, IdleInv, InlineInv, Assembled
<1>2. QED
  BY <1>1, InvKept DEF programVars

LEMMA FinishInv ==
  ASSUME FilesAssumption, DriverInv, Finish
  PROVE  DriverInv'
<1>1. /\ saved = <<>> /\ cursor = NoCursor
      /\ argi - 1 = Len(inputs)
      /\ Seen(Repeated(argi - 1))
      /\ phase' \in {"elf64", "terminated"}
      /\ Unmoved /\ cursor' = cursor /\ saved' = saved
      /\ emitted' = emitted /\ known' = known /\ globals' = globals
  <2>1. PICK n \in Nat : n = Len(inputs)
    BY DEF DriverInv, FilesAssumption
  <2>2. QED
    BY <2>1 DEF Finish, Unmoved, programVars, DriverInv, LoadingInv, IdleInv
<1>2. QED
  BY <1>1, InvKept DEF Seen

LEMMA DriverInitInv ==
  ASSUME FilesAssumption, DriverInit
  PROVE  DriverInv
<1>1. PICK n \in Nat : n = Len(inputs)
  BY DEF DriverInit, FilesAssumption
<1>2. LoadingInv
  BY <1>1, RepeatedNone, NothingSeen DEF DriverInit, LoadingInv, Seen
<1>3. AssemblingInv /\ IdleInv /\ InlineInv
  BY DEF DriverInit, AssemblingInv, IdleInv, InlineInv, Assembled
<1>4. QED
  BY <1>2, <1>3 DEF DriverInit, DriverInv

-----------------------------------------------------------------------------
(***************************************************************************)
(* The theorems                                                            *)
(***************************************************************************)

LEMMA StutterInv ==
  ASSUME DriverInv, UNCHANGED driverVars
  PROVE  DriverInv'
<1>1. /\ Unmoved /\ disk' = disk /\ inputs' = inputs
      /\ UNCHANGED <<argi, cursor, saved, emitted, known, globals, phase>>
  BY DEF driverVars, Unmoved
<1>2. /\ Cursors' = Cursors
      /\ \A c : InFile(c)' <=> InFile(c)
      /\ \A c, d : Calls(c, d)' <=> Calls(c, d)
      /\ \A d, path, dir : Reads(d, path, dir)' <=> Reads(d, path, dir)
      /\ \A n : Repeated(n)' = Repeated(n)
  BY <1>1, SameFiles
<1>3. \A k : Frame(k)' = Frame(k)
  BY <1>1 DEF Frame
<1>4. SoFar' = SoFar
  <2>1. Around' = Around
    BY <1>1, <1>3, PrimedBefore DEF Around
  <2>2. SoFar' = FlattenSeq(Around') \o Before(Len(saved'), cursor', cursor'.index - 1)
    BY <1>1, PrimedBefore
  <2>3. QED
    BY <1>1, <2>1, <2>2 DEF SoFar
<1>5. CASE phase = "assembling"
  <2>1. StackInv /\ Seen(SoFar)
    BY <1>5 DEF DriverInv, AssemblingInv
  <2>2. StackInv'
    BY <1>1, <1>3, <2>1, PrimedStack DEF StackInv
  <2>3. Seen(SoFar)'
    BY <1>1, <1>4, <2>1 DEF Seen
  <2>4. QED
    BY <1>1, <1>5, <2>2, <2>3, InvKept
<1>6. CASE phase # "assembling"
  BY <1>1, <1>2, <1>6 DEF DriverInv, AssemblingInv, LoadingInv, IdleInv, InlineInv,
                          Assembled, Seen, Opened, Exists
<1>7. QED
  BY <1>5, <1>6

LEMMA DriverStep ==
  ASSUME DepthAssumption, FilesAssumption, DriverInv, [DriverNext]_driverVars
  PROVE  DriverInv'
<1>1. CASE LoadInput
  BY <1>1, LoadInputInv
<1>2. CASE Resume
  BY <1>2, ResumeInv
<1>3. CASE Emit
  <2>1. Reading("item")
    BY <1>3 DEF Emit
  <2>2. /\ Step /\ Unmoved
        /\ saved' = saved /\ argi' = argi /\ phase' = phase
        /\ emitted' = IF "item" = "item" THEN Append(emitted, Statement.name) ELSE emitted
        /\ known' = IF "item" = "label" THEN known \cup {Statement.name} ELSE known
        /\ globals' = IF "item" = "global" THEN globals \cup {Statement.name} ELSE globals
    BY <1>3 DEF Emit, Unmoved
  <2>3. QED
    BY <2>1, <2>2, StatementInv
<1>4. CASE Label
  <2>1. Reading("label")
    BY <1>4 DEF Label
  <2>2. /\ Step /\ Unmoved
        /\ saved' = saved /\ argi' = argi /\ phase' = phase
        /\ emitted' = IF "label" = "item" THEN Append(emitted, Statement.name) ELSE emitted
        /\ known' = IF "label" = "label" THEN known \cup {Statement.name} ELSE known
        /\ globals' = IF "label" = "global" THEN globals \cup {Statement.name} ELSE globals
    BY <1>4 DEF Label, Unmoved
  <2>3. QED
    BY <2>1, <2>2, StatementInv
<1>5. CASE MakeGlobal
  <2>1. Reading("global")
    BY <1>5 DEF MakeGlobal
  <2>2. /\ Step /\ Unmoved
        /\ saved' = saved /\ argi' = argi /\ phase' = phase
        /\ emitted' = IF "global" = "item" THEN Append(emitted, Statement.name) ELSE emitted
        /\ known' = IF "global" = "label" THEN known \cup {Statement.name} ELSE known
        /\ globals' = IF "global" = "global" THEN globals \cup {Statement.name} ELSE globals
    BY <1>5 DEF MakeGlobal, Unmoved
  <2>3. QED
    BY <2>1, <2>2, StatementInv
<1>6. CASE Include
  BY <1>6, IncludeInv
<1>7. CASE Refuse
  <2>1. Unmoved /\ phase' = "terminated"
    BY <1>7 DEF Refuse, Throw, Unmoved
  <2>2. QED
    BY <2>1, InvKept
<1>8. CASE Finish
  BY <1>8, FinishInv
<1>9. CASE \/ WriteElf("elf64", "elf128") \/ WriteElf("elf128", "globals")
           \/ PrintGlobals \/ WriteBin
  <2>1. /\ phase \in {"elf64", "elf128", "globals", "bin"}
        /\ phase' \in {"elf128", "globals", "bin", "exited", "terminated", "crashed"}
        /\ Unmoved /\ UNCHANGED <<cursor, saved, programVars>>
    BY <1>9 DEF WriteElf, PrintGlobals, WriteBin, Throw, Unmoved
  <2>2. QED
    BY <2>1, WritingInv
<1>10. CASE UNCHANGED driverVars
  BY <1>10, StutterInv
<1>11. QED
  BY <1>1, <1>2, <1>3, <1>4, <1>5, <1>6, <1>7, <1>8, <1>9, <1>10
     DEF DriverNext, DriverStopped

(***************************************************************************)
(* While files are read, what was output, declared and made global so far  *)
(* is what the statements read so far ask for: those of the inputs before  *)
(* this one and, of each call of assemble, those up to its .include; every *)
(* saved cursor is that of the call that it returns to.                    *)
(***************************************************************************)
THEOREM DriverInvariant == DriverSpec => []DriverInv
<1>1. DriverInit => DriverInv
  BY FilesAssumption, DriverInitInv
<1>2. DriverInv /\ [DriverNext]_driverVars => DriverInv'
  BY DepthAssumption, FilesAssumption, DriverStep
<1>3. QED
  BY <1>1, <1>2, PTL DEF DriverSpec

\* Once a program with an input is assembled, that input could be opened.
OpenedInv == Assembled /\ Len(inputs) >= 1 => Opened(inputs[1], NoPath) # {}

LEMMA OpenedStep ==
  ASSUME DriverInv, OpenedInv, [DriverNext]_driverVars
  PROVE  OpenedInv'
<1>1. disk' = disk /\ inputs' = inputs
  BY DEF DriverNext, LoadInput, Resume, Emit, Label, MakeGlobal, Include, Refuse, Finish,
         WriteElf, PrintGlobals, WriteBin, DriverStopped, driverVars
<1>2. Opened(inputs[1], NoPath)' = Opened(inputs[1], NoPath)
  BY <1>1 DEF Opened, Exists
<1>3. CASE Assembled
  BY <1>1, <1>2, <1>3 DEF OpenedInv
<1>4. CASE Finish
  <2>1. argi > Len(inputs) /\ (argi > 1 => Opened(inputs[1], NoPath) # {}) /\ argi \in Nat
    BY <1>4 DEF Finish, DriverInv, LoadingInv
  <2>2. Len(inputs) \in Nat
    BY FilesAssumption DEF DriverInv
  <2>3. Len(inputs) >= 1 => Opened(inputs[1], NoPath) # {}
    BY <2>1, <2>2
  <2>4. QED
    BY <1>1, <1>2, <2>3 DEF OpenedInv
<1>5. CASE ~Assembled /\ ~Finish
  <2>1. ~Assembled'
    BY <1>5 DEF DriverNext, LoadInput, Enter, Resume, Emit, Label, MakeGlobal, Include, Refuse,
                WriteElf, PrintGlobals, WriteBin, DriverStopped, driverVars, Reading, Throw,
                Assembled
  <2>2. QED
    BY <2>1 DEF OpenedInv
<1>6. QED
  BY <1>3, <1>4, <1>5

(***************************************************************************)
(* Whatever the files are and however they are nested, the program that is *)
(* assembled from one input is that input with each .include replaced by   *)
(* what it names (Assembler::assemble, Directives::parse).                 *)
(***************************************************************************)
THEOREM IncludesInlined == DriverSpec => []IncludesAreInline
<1>1. DriverInit => OpenedInv
  BY DEF DriverInit, OpenedInv, Assembled
<1>2. DriverInv /\ OpenedInv /\ [DriverNext]_driverVars => OpenedInv'
  BY OpenedStep
<1>3. DriverInv /\ OpenedInv => IncludesAreInline
  <2> SUFFICES ASSUME DriverInv, OpenedInv, Assembled, Len(inputs) = 1
               PROVE  IncludesAreInline
    BY DEF IncludesAreInline
  <2>1. /\ emitted = ItemsOf(Repeated(1))
        /\ known = NamesOf(Repeated(1), "label")
        /\ globals = NamesOf(Repeated(1), "global")
    BY DEF DriverInv, InlineInv
  <2>2. ExpansionOf(inputs[1]) \in Seq(Statements)
    <3>1. Opened(inputs[1], NoPath) # {}
      BY DEF OpenedInv
    <3>2. TextsAreStatements
      BY FilesAssumption, TextsTyped DEF DriverInv
    <3>3. QED
      BY DepthAssumption, <3>1, <3>2, FirstFileTyped
  <2>3. Repeated(1) = ExpansionOf(inputs[1])
    <3>1. 0 \in Nat /\ 0 + 1 = 1
      OBVIOUS
    <3>2. Repeated(0 + 1) = Repeated(0) \o ExpansionOf(inputs[1])
      BY <2>2, <3>1, RepeatedIs
    <3>3. QED
      BY <2>2, <3>1, <3>2, RepeatedNone, ConcatEmptySeq
  <2>4. QED
    BY <2>1, <2>3 DEF IncludesAreInline
<1>4. QED
  BY <1>1, <1>2, <1>3, DriverInvariant, PTL DEF DriverSpec

-----------------------------------------------------------------------------
\* What was written, and what is known of the program, when main has come to
\* `phase'.
WrittenInv ==
  /\ phase \in {"loading", "assembling", "elf64"} => tried = {}
  /\ phase = "crashed" =>
       tried = {} \/ (tried \in {{"elf64"}, {"elf64", "elf128"}} /\ Entry \in known)
  /\ phase = "elf128" => tried = {"elf64"} /\ Entry \in known
  /\ phase \in {"globals", "bin"} => tried = {"elf64", "elf128"} /\ Entry \in known
  /\ phase \in {"bin", "exited"} => globals \subseteq known
  /\ phase = "exited" => tried = OutputFiles /\ Entry \in known
  /\ phase = "terminated" =>
       \/ tried = {}
       \/ tried = {"elf64", "elf128"} /\ ~(globals \subseteq known)
  /\ phase \in {"loading", "assembling", "elf64", "elf128", "globals", "bin",
                "exited", "terminated", "crashed"}

(***************************************************************************)
(* Whatever the program, once output files are being written only a global *)
(* without a label makes main throw; a crash in the writers, too, leaves   *)
(* no binary (main.cpp, Elf_Writer).                                       *)
(***************************************************************************)
THEOREM LateFailure == DriverSpec => []LateFailureIsGlobal
<1>1. DriverInit => WrittenInv
  BY DEF DriverInit, WrittenInv
<1>2. WrittenInv /\ [DriverNext]_driverVars => WrittenInv'
  <2> SUFFICES ASSUME WrittenInv, [DriverNext]_driverVars PROVE WrittenInv'
    OBVIOUS
  <2>1. CASE LoadInput
    BY <2>1 DEF LoadInput, Enter, Throw, programVars, resultVars, WrittenInv
  <2>2. CASE Resume
    BY <2>2 DEF Resume, programVars, resultVars, WrittenInv
  <2>3. CASE Emit \/ Label \/ MakeGlobal
    BY <2>3 DEF Emit, Label, MakeGlobal, Reading, resultVars, WrittenInv
  <2>4. CASE Include
    BY <2>4 DEF Include, Reading, Enter, Throw, programVars, resultVars, WrittenInv
  <2>5. CASE Refuse \/ Finish
    BY <2>5 DEF Refuse, Finish, Reading, Throw, programVars, resultVars, WrittenInv
  <2>6. CASE WriteElf("elf64", "elf128")
    BY <2>6 DEF WriteElf, WriteFile, Throw, programVars, resultVars, WrittenInv
  <2>7. CASE WriteElf("elf128", "globals")
    BY <2>7 DEF WriteElf, WriteFile, Throw, programVars, resultVars, WrittenInv
  <2>8. CASE PrintGlobals
    BY <2>8 DEF PrintGlobals, programVars, resultVars, WrittenInv
  <2>9. CASE WriteBin
    BY <2>9 DEF WriteBin, WriteFile, OutputFiles, programVars, WrittenInv
  <2>10. CASE UNCHANGED driverVars
    BY <2>10 DEF driverVars, WrittenInv
  <2>11. QED
    BY <2>1, <2>2, <2>3, <2>4, <2>5, <2>6, <2>7, <2>8, <2>9, <2>10
       DEF DriverNext, DriverStopped
<1>3. WrittenInv => LateFailureIsGlobal
  BY DEF WrittenInv, LateFailureIsGlobal, OutputFiles
<1>4. QED
  BY <1>1, <1>2, <1>3, PTL DEF DriverSpec

=============================================================================

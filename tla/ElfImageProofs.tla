---------------------------- MODULE ElfImageProofs ----------------------------
(***************************************************************************)
(* Theorems about the writer of ELF files: what a reader finds through the *)
(* headers, for programs of any size.  The invariant says how far the      *)
(* writer is and what the vector, the headers and the files hold then; its *)
(* positions are sums over the names and sections, so what the proofs need *)
(* of sums comes first, by induction.                                      *)
(***************************************************************************)
EXTENDS ElfImage, WellFoundedInduction, FiniteSetTheorems, TLAPS

-----------------------------------------------------------------------------
\* Induction over the natural numbers, for sets: the least number outside of
\* such a set would have a predecessor outside of it.
Less == OpToRel(<, Nat)

LEMMA LessIsWellFounded == IsWellFoundedOn(Less, Nat)
BY NatLessThanWellFounded DEF Less

LEMMA LessPairs ==
  ASSUME NEW a \in Nat, NEW b \in Nat, a < b
  PROVE  <<a, b>> \in Less
<1>1. <<a, b>> \in Nat \X Nat /\ <<a, b>>[1] = a /\ <<a, b>>[2] = b
  OBVIOUS
<1>2. QED
  BY <1>1 DEF Less, OpToRel

LEMMA SetInduction ==
  ASSUME NEW S, 0 \in S, \A n \in Nat : n \in S => n + 1 \in S
  PROVE  Nat \subseteq S
<1> SUFFICES ASSUME Nat \ S # {} PROVE FALSE
  OBVIOUS
<1>1. PICK x \in Nat \ S : \A y \in Nat \ S : ~ (<<y, x>> \in Less)
  <2>1. Nat \ S \subseteq Nat
    OBVIOUS
  <2>2. QED
    BY <2>1, LessIsWellFounded, WFMin, Zenon
<1>2. x # 0 /\ x \in Nat
  BY <1>1
<1>3. x - 1 \in Nat /\ x - 1 + 1 = x /\ x - 1 < x
  BY <1>2
<1>4. x - 1 \in Nat \ S
  BY <1>1, <1>3
<1>5. <<x - 1, x>> \in Less
  BY <1>2, <1>3, LessPairs, Zenon
<1>6. QED
  BY <1>1, <1>4, <1>5, Zenon

-----------------------------------------------------------------------------
(***************************************************************************)
(* Sums                                                                    *)
(***************************************************************************)

\* f holds the sums of the first n elements of seq and of fewer.
Sums(f, seq, n) ==
  /\ f \in [0 .. n -> Nat]
  /\ f[0] = 0
  /\ \A i \in 1 .. n : f[i] = f[i - 1] + seq[i]

SumsTo(seq) == { n \in Nat : n <= Len(seq) => \E f : Sums(f, seq, n) }

LEMMA SumsExist ==
  ASSUME NEW seq \in Seq(Nat), NEW m \in 0 .. Len(seq)
  PROVE  \E f : Sums(f, seq, m)
<1>1. 0 \in SumsTo(seq)
  <2>1. [i \in 0 .. 0 |-> 0] \in [0 .. 0 -> Nat] /\ [i \in 0 .. 0 |-> 0][0] = 0
    OBVIOUS
  <2>2. Sums([i \in 0 .. 0 |-> 0], seq, 0)
    BY <2>1 DEF Sums
  <2>3. QED
    BY <2>2 DEF SumsTo
<1>2. ASSUME NEW n \in Nat, n \in SumsTo(seq), n + 1 <= Len(seq)
      PROVE  \E f : Sums(f, seq, n + 1)
  <2>1. PICK f : Sums(f, seq, n)
    BY <1>2 DEF SumsTo
  <2>2. PICK next \in Nat : next = f[n] + seq[n + 1]
    <3>1. n \in 0 .. n /\ n + 1 \in 1 .. Len(seq)
      BY <1>2
    <3>2. f[n] \in Nat /\ seq[n + 1] \in Nat
      BY <2>1, <3>1 DEF Sums
    <3>3. QED
      BY <3>2
  <2> DEFINE g == [i \in 0 .. (n + 1) |-> IF i = n + 1 THEN next ELSE f[i]]
  <2>3. /\ g \in [0 .. (n + 1) -> Nat]
        /\ g[n + 1] = next
        /\ \A i \in 0 .. n : g[i] = f[i]
    BY <2>1 DEF Sums
  <2> HIDE DEF g
  <2>4. g[0] = 0
    BY <2>1, <2>3 DEF Sums
  <2>5. ASSUME NEW i \in 1 .. (n + 1) PROVE g[i] = g[i - 1] + seq[i]
    <3>1. CASE i = n + 1
      <4>1. n \in 0 .. n /\ i - 1 = n
        BY <3>1
      <4>2. QED
        BY <2>2, <2>3, <3>1, <4>1
    <3>2. CASE i # n + 1
      <4>1. i \in 1 .. n /\ i \in 0 .. n /\ i - 1 \in 0 .. n
        BY <3>2
      <4>2. QED
        BY <2>1, <2>3, <4>1 DEF Sums
    <3>3. QED
      BY <3>1, <3>2
  <2>6. Sums(g, seq, n + 1)
    BY <2>3, <2>4, <2>5 DEF Sums
  <2>7. QED
    BY <2>6
<1>3. \A n \in Nat : n \in SumsTo(seq) => n + 1 \in SumsTo(seq)
  BY <1>2 DEF SumsTo
<1>4. Nat \subseteq SumsTo(seq)
  BY <1>1, <1>3, SetInduction
<1>5. QED
  BY <1>4 DEF SumsTo

\* Sums of what begins alike begin alike.
Agree(f, g, m) == { n \in Nat : n <= m => f[n] = g[n] }

LEMMA SumsAgree ==
  ASSUME NEW p, NEW q, NEW m \in Nat, NEW k \in Nat, m <= k, NEW f, NEW g,
         Sums(f, p, m), Sums(g, q, k),
         \A i \in 1 .. m : p[i] = q[i]
  PROVE  f[m] = g[m]
<1>1. 0 \in Agree(f, g, m)
  BY DEF Sums, Agree
<1>2. ASSUME NEW n \in Nat, n \in Agree(f, g, m), n + 1 <= m
      PROVE  f[n + 1] = g[n + 1]
  <2>1. n + 1 \in 1 .. m /\ n + 1 \in 1 .. k /\ n + 1 - 1 = n /\ f[n] = g[n]
    BY <1>2 DEF Agree
  <2>2. f[n + 1] = f[n + 1 - 1] + p[n + 1] /\ g[n + 1] = g[n + 1 - 1] + q[n + 1]
    BY <2>1 DEF Sums
  <2>3. QED
    BY <2>1, <2>2
<1>3. \A n \in Nat : n \in Agree(f, g, m) => n + 1 \in Agree(f, g, m)
  BY <1>2 DEF Agree
<1>4. Nat \subseteq Agree(f, g, m)
  BY <1>1, <1>3, SetInduction
<1>5. QED
  BY <1>4 DEF Agree

LEMMA SumOfIs ==
  ASSUME NEW seq \in Seq(Nat), NEW g, Sums(g, seq, Len(seq))
  PROVE  SumOf(seq) = g[Len(seq)]
<1> DEFINE upTo == CHOOSE f : f = [n \in 0 .. Len(seq) |->
                                     IF n = 0 THEN 0 ELSE f[n - 1] + seq[n]]
<1>1. SumOf(seq) = upTo[Len(seq)]
  BY DEF SumOf
<1>2. g = [n \in 0 .. Len(seq) |-> IF n = 0 THEN 0 ELSE g[n - 1] + seq[n]]
  BY DEF Sums
<1>3. upTo = [n \in 0 .. Len(seq) |-> IF n = 0 THEN 0 ELSE upTo[n - 1] + seq[n]]
  BY <1>2, Zenon
<1> HIDE DEF upTo
<1>4. Len(seq) \in Nat
  OBVIOUS
<1>5. 0 \in Agree(upTo, g, Len(seq))
  BY <1>3, <1>4 DEF Sums, Agree
<1>6. ASSUME NEW n \in Nat, n \in Agree(upTo, g, Len(seq)), n + 1 <= Len(seq)
      PROVE  upTo[n + 1] = g[n + 1]
  <2>1. n + 1 \in 1 .. Len(seq) /\ n + 1 - 1 = n /\ upTo[n] = g[n]
    BY <1>6 DEF Agree
  <2>2. upTo[n + 1] = upTo[n] + seq[n + 1]
    BY <1>3, <2>1
  <2>3. g[n + 1] = g[n] + seq[n + 1]
    BY <2>1 DEF Sums
  <2>4. QED
    BY <2>1, <2>2, <2>3
<1>7. \A n \in Nat : n \in Agree(upTo, g, Len(seq)) => n + 1 \in Agree(upTo, g, Len(seq))
  BY <1>6 DEF Agree
<1>8. Nat \subseteq Agree(upTo, g, Len(seq))
  BY <1>5, <1>7, SetInduction
<1>9. QED
  BY <1>1, <1>4, <1>8 DEF Agree

\* The first n elements, and their sum.
First(seq, n) == [k \in 1 .. n |-> seq[k]]

Total(seq, n) == SumOf(First(seq, n))

LEMMA TotalIs ==
  ASSUME NEW seq, NEW n \in Nat, \A k \in 1 .. n : seq[k] \in Nat
  PROVE  \E f : Sums(f, First(seq, n), n) /\ Total(seq, n) = f[n]
<1>1. First(seq, n) \in Seq(Nat) /\ Len(First(seq, n)) = n
  BY DEF First
<1>2. PICK f : Sums(f, First(seq, n), n)
  BY <1>1, SumsExist
<1>3. QED
  BY <1>1, <1>2, SumOfIs DEF Total

LEMMA TotalOfNone ==
  ASSUME NEW seq
  PROVE  Total(seq, 0) = 0
BY TotalIs DEF Sums

LEMMA TotalOfNext ==
  ASSUME NEW seq, NEW n \in Nat, \A k \in 1 .. (n + 1) : seq[k] \in Nat
  PROVE  /\ Total(seq, n) \in Nat
         /\ Total(seq, n + 1) = Total(seq, n) + seq[n + 1]
<1>1. PICK f : Sums(f, First(seq, n), n) /\ Total(seq, n) = f[n]
  BY TotalIs
<1>2. PICK g : Sums(g, First(seq, n + 1), n + 1) /\ Total(seq, n + 1) = g[n + 1]
  BY TotalIs
<1>3. \A k \in 1 .. n : First(seq, n)[k] = First(seq, n + 1)[k]
  BY DEF First
<1>4. f[n] = g[n]
  BY <1>1, <1>2, <1>3, SumsAgree
<1>5. f[n] \in Nat
  BY <1>1 DEF Sums
<1>6. n + 1 \in 1 .. (n + 1) /\ n + 1 - 1 = n /\ First(seq, n + 1)[n + 1] = seq[n + 1]
  BY DEF First
<1>7. g[n + 1] = g[n] + seq[n + 1]
  BY <1>2, <1>6 DEF Sums
<1>8. QED
  BY <1>1, <1>2, <1>4, <1>5, <1>7
-----------------------------------------------------------------------------
(***************************************************************************)
(* The layout of the file of a program                                     *)
(***************************************************************************)

HeadersSize(p) == FixedSize + PhdrSize * Len(p.sections)

NameSizes == [k \in 1 .. 3 |-> NameLength[SectionNamesTable[k]] + 1]
SymbolSizes(p) == [k \in DOMAIN p.symbols |-> NameLength[p.symbols[k].name] + 1]
SectionSizes(p) == [k \in DOMAIN p.sections |-> p.sections[k].size]

\* The offset of a name in its table; behind the last, the table's size.
NameOffset(k) == 1 + Total(NameSizes, k - 1)
StringOffset(p, k) == 1 + Total(SymbolSizes(p), k - 1)

RecordOf(p, k) ==
  [kind |-> "sym", name |-> StringOffset(p, k), value |-> p.symbols[k].addr % AddrMod,
   type |-> p.symbols[k].type, global |-> FALSE, size |-> p.symbols[k].size]

(***************************************************************************)
(* How far the writer is: `names', `strings' and `records' are 0 if the    *)
(* table is not there yet, or one more than the number of its elements;    *)
(* `outputs' is the number of the sections that were output.               *)
(***************************************************************************)
NamesSize(names) == IF names = 0 THEN 0 ELSE NameOffset(names)
StringsSize(p, strings) == IF strings = 0 THEN 0 ELSE StringOffset(p, strings)

StringsAt(p) == HeadersSize(p) + NamesSize(4)
SymbolsAt(p) == StringsAt(p) + StringsSize(p, Len(p.symbols) + 1)
SectionAt(p, i) ==
  SymbolsAt(p) + SymSize * (Len(p.symbols) + 1) + Total(SectionSizes(p), i - 1)

End(p, names, strings, records, outputs) ==
  HeadersSize(p) + NamesSize(names) + StringsSize(p, strings) + SymSize * records
    + Total(SectionSizes(p), outputs)

TableHeader(name, offset, size, info, link) ==
  [name |-> name, offset |-> offset, size |-> size, info |-> info, link |-> link]

NamesHeader(p, names) ==
  IF names = 0 THEN NoShdr
  ELSE TableHeader(IF names = 1 THEN 0 ELSE NameOffset(1), HeadersSize(p),
                   NamesSize(names), 0, 0)

StringsHeader(p, strings) ==
  IF strings = 0 THEN NoShdr
  ELSE TableHeader(NameOffset(Strtab), StringsAt(p), StringsSize(p, strings), 0, 0)

SymbolsHeader(p, records) ==
  IF records = 0 THEN NoShdr
  ELSE TableHeader(NameOffset(Symtab), SymbolsAt(p), SymSize * records, records, Strtab)

(***************************************************************************)
(* Chunks, headers                                                         *)
(***************************************************************************)

What ==
  [kind : {"null", "nosym"}]
    \cup [kind : {"name"}, name : DOMAIN NameLength]
    \cup [kind : {"sym"}, name : Nat, value : Nat, type : {"notype", "object", "func"},
          global : {FALSE}, size : Nat]
    \cup [kind : {"section"}, index : Nat]

Chunk == [at : Nat, len : Nat, what : What]

Shdr == [name : Nat, offset : Nat, size : Nat, info : Nat, link : Nat]
Phdr ==
  [load : BOOLEAN, flags : SUBSET {"X", "R", "W"}, offset : Nat, vaddr : Nat,
   filesz : Nat, memsz : Nat]
Header(p) == [entry : Nat, sh : [1 .. 3 -> Shdr], ph : [DOMAIN p.sections -> Phdr]]

Has(cs, at, what) == \E i \in DOMAIN cs : cs[i].at = at /\ cs[i].what = what

\* Chunks follow one another; only a section may be empty.
Tiled(cs, end) ==
  /\ cs \in Seq(Chunk)
  /\ \A i \in DOMAIN cs :
       /\ cs[i].at + cs[i].len <= end
       /\ cs[i].what.kind # "section" => cs[i].len > 0
  /\ \A i, j \in DOMAIN cs : i < j => cs[i].at + cs[i].len <= cs[j].at

Contents(p, cs, names, strings, records) ==
  /\ \A k \in 1 .. (names - 1) :
       Has(cs, HeadersSize(p) + NameOffset(k), [kind |-> "name", name |-> SectionNamesTable[k]])
  /\ \A k \in 1 .. (strings - 1) :
       Has(cs, StringsAt(p) + StringOffset(p, k), [kind |-> "name", name |-> p.symbols[k].name])
  /\ \A k \in 1 .. (records - 1) : Has(cs, SymbolsAt(p) + SymSize * k, RecordOf(p, k))

Headers(p, h, names, strings, records, outputs) ==
  /\ h.sh[Shstrtab] = NamesHeader(p, names)
  /\ h.sh[Strtab] = StringsHeader(p, strings)
  /\ h.sh[Symtab] = SymbolsHeader(p, records)
  /\ \A i \in 1 .. outputs : h.ph[i] = Segment(p.sections[i], SectionAt(p, i))

\* The sums of sizes grow.
AtLeast(seq, m, n) ==
  { k \in Nat : m <= k /\ k <= n => Total(seq, k) \in Nat /\ Total(seq, m) <= Total(seq, k) }

LEMMA TotalGrows ==
  ASSUME NEW seq, NEW m \in Nat, NEW n \in Nat, m <= n,
         \A k \in 1 .. n : seq[k] \in Nat
  PROVE  /\ Total(seq, m) \in Nat /\ Total(seq, n) \in Nat
         /\ Total(seq, m) <= Total(seq, n)
<1>1. Total(seq, m) \in Nat
  <2>1. PICK f : Sums(f, First(seq, m), m) /\ Total(seq, m) = f[m]
    BY TotalIs
  <2>2. QED
    BY <2>1 DEF Sums
<1>2. 0 \in AtLeast(seq, m, n)
  BY <1>1 DEF AtLeast
<1>3. ASSUME NEW k \in Nat, k \in AtLeast(seq, m, n), m <= k + 1, k + 1 <= n
      PROVE  Total(seq, k + 1) \in Nat /\ Total(seq, m) <= Total(seq, k + 1)
  <2>1. CASE m = k + 1
    BY <1>1, <2>1
  <2>2. CASE m <= k
    <3>1. Total(seq, m) <= Total(seq, k)
      BY <1>3, <2>2 DEF AtLeast
    <3>2. seq[k + 1] \in Nat /\ \A i \in 1 .. (k + 1) : seq[i] \in Nat
      BY <1>3
    <3>3. Total(seq, k) \in Nat /\ Total(seq, k + 1) = Total(seq, k) + seq[k + 1]
      BY <3>2, TotalOfNext
    <3>4. QED
      BY <1>1, <3>1, <3>2, <3>3
  <2>3. QED
    BY <1>3, <2>1, <2>2
<1>4. \A k \in Nat : k \in AtLeast(seq, m, n) => k + 1 \in AtLeast(seq, m, n)
  BY <1>3 DEF AtLeast
<1>5. Nat \subseteq AtLeast(seq, m, n)
  BY <1>2, <1>4, SetInduction
<1>6. QED
  BY <1>1, <1>5 DEF AtLeast

LEMMA Multiples ==
  ASSUME NEW size \in Nat, NEW m \in Nat, NEW n \in Nat, m <= n
  PROVE  size * m \in Nat /\ size * n \in Nat /\ size * m <= size * n
<1>1. PICK d \in Nat : n = m + d
  <2>1. n - m \in Nat /\ n = m + (n - m)
    OBVIOUS
  <2>2. QED
    BY <2>1
<1>2. size * n = size * m + size * d /\ size * d >= 0 /\ size * d \in Nat /\ size * m \in Nat
  BY <1>1
<1>3. QED
  BY <1>2

-----------------------------------------------------------------------------
(***************************************************************************)
(* The sizes and offsets are numbers, and add up                           *)
(***************************************************************************)

LEMMA ProgramFacts ==
  ASSUME NEW p \in Programs
  PROVE  /\ p.sections \in Seq(SectionRecord) /\ p.symbols \in Seq(SymbolRecord)
         /\ Len(p.sections) \in Nat /\ Len(p.symbols) \in Nat /\ Len(p.sections) > 0
         /\ DOMAIN p.sections = 1 .. Len(p.sections)
         /\ DOMAIN p.symbols = 1 .. Len(p.symbols)
         /\ \A k \in 1 .. Len(p.sections) : p.sections[k] \in SectionRecord
         /\ \A k \in 1 .. Len(p.symbols) : p.symbols[k] \in SymbolRecord
         /\ HeadersSize(p) \in Nat /\ HeadersSize(p) > 0
<1>1. p.sections \in Seq(SectionRecord) /\ p.sections # <<>> /\ p.symbols \in Seq(SymbolRecord)
  BY ProgramsAssumption
<1>2. /\ Len(p.sections) \in Nat /\ Len(p.symbols) \in Nat /\ Len(p.sections) > 0
      /\ DOMAIN p.sections = 1 .. Len(p.sections)
      /\ DOMAIN p.symbols = 1 .. Len(p.symbols)
  BY <1>1
<1>3. FixedSize \in Nat /\ PhdrSize \in Nat /\ PhdrSize > 0
  BY SizeAssumption
<1>4. PhdrSize * 1 <= PhdrSize * Len(p.sections) /\ PhdrSize * Len(p.sections) \in Nat
  BY <1>2, <1>3, Multiples
<1>5. HeadersSize(p) \in Nat /\ HeadersSize(p) > 0
  BY <1>2, <1>3, <1>4 DEF HeadersSize
<1>6. /\ \A k \in 1 .. Len(p.sections) : p.sections[k] \in SectionRecord
      /\ \A k \in 1 .. Len(p.symbols) : p.symbols[k] \in SymbolRecord
  BY <1>1
<1>7. QED
  BY <1>1, <1>2, <1>5, <1>6

LEMMA NameFacts ==
  /\ \A k \in 1 .. 4 : NameOffset(k) \in Nat /\ NameOffset(k) >= 1
  /\ NameOffset(1) = 1
  /\ \A k \in 1 .. 3 :
       /\ NameLength[SectionNamesTable[k]] \in Nat
       /\ NameOffset(k + 1) = NameOffset(k) + (NameLength[SectionNamesTable[k]] + 1)
<1>1. \A k \in 1 .. 3 : NameLength[SectionNamesTable[k]] \in Nat
  BY ProgramsAssumption
<1>2. \A k \in 1 .. 3 :
        NameSizes[k] \in Nat /\ NameSizes[k] = NameLength[SectionNamesTable[k]] + 1
  BY <1>1 DEF NameSizes
<1>3. ASSUME NEW k \in 1 .. 4
      PROVE  NameOffset(k) \in Nat /\ NameOffset(k) >= 1
  <2>1. k - 1 \in Nat /\ \A i \in 1 .. (k - 1) : NameSizes[i] \in Nat
    BY <1>2
  <2>2. Total(NameSizes, k - 1) \in Nat
    BY <2>1, TotalGrows
  <2>3. QED
    BY <2>2 DEF NameOffset
<1>4. ASSUME NEW k \in 1 .. 3
      PROVE  NameOffset(k + 1) = NameOffset(k) + (NameLength[SectionNamesTable[k]] + 1)
  <2>1. /\ k - 1 \in Nat /\ k - 1 + 1 = k /\ k + 1 - 1 = k
        /\ \A i \in 1 .. (k - 1 + 1) : NameSizes[i] \in Nat
    BY <1>2
  <2>2. /\ Total(NameSizes, k - 1) \in Nat
        /\ Total(NameSizes, k - 1 + 1) = Total(NameSizes, k - 1) + NameSizes[k - 1 + 1]
    BY <2>1, TotalOfNext
  <2>3. NameOffset(k + 1) = 1 + Total(NameSizes, k - 1 + 1)
    BY <2>1 DEF NameOffset
  <2>4. NameSizes[k - 1 + 1] = NameLength[SectionNamesTable[k]] + 1
    BY <1>2, <2>1
  <2>5. QED
    BY <1>1, <2>2, <2>3, <2>4 DEF NameOffset
<1>5. NameOffset(1) = 1
  BY TotalOfNone DEF NameOffset
<1>6. QED
  BY <1>1, <1>3, <1>4, <1>5

LEMMA StringOffsetBehind ==
  ASSUME NEW p, NEW i \in Nat
  PROVE  StringOffset(p, i + 1) = 1 + Total(SymbolSizes(p), i)
<1>1. i + 1 - 1 = i
  OBVIOUS
<1>2. QED
  BY <1>1 DEF StringOffset

LEMMA StringFacts ==
  ASSUME NEW p \in Programs
  PROVE  /\ \A k \in 1 .. (Len(p.symbols) + 1) :
              StringOffset(p, k) \in Nat /\ StringOffset(p, k) >= 1
         /\ StringOffset(p, 1) = 1
         /\ \A k \in 1 .. Len(p.symbols) :
              /\ NameLength[p.symbols[k].name] \in Nat
              /\ StringOffset(p, k + 1) = StringOffset(p, k) + (NameLength[p.symbols[k].name] + 1)
         /\ \A k \in 1 .. (Len(p.symbols) + 1) :
              StringOffset(p, k) <= StringOffset(p, Len(p.symbols) + 1)
<1>1. PICK n \in Nat : n = Len(p.symbols) /\ DOMAIN p.symbols = 1 .. n
  BY ProgramFacts
<1>2. \A k \in 1 .. n : p.symbols[k].name \in DOMAIN NameLength
  BY <1>1, ProgramFacts DEF SymbolRecord
<1>3. \A k \in 1 .. n : NameLength[p.symbols[k].name] \in Nat
  BY <1>2, ProgramsAssumption
<1>4. \A k \in 1 .. n :
        /\ SymbolSizes(p)[k] \in Nat
        /\ SymbolSizes(p)[k] = NameLength[p.symbols[k].name] + 1
  BY <1>1, <1>3 DEF SymbolSizes
<1>5. ASSUME NEW k \in 1 .. (n + 1)
      PROVE  /\ StringOffset(p, k) \in Nat /\ StringOffset(p, k) >= 1
             /\ StringOffset(p, k) <= StringOffset(p, n + 1)
  <2>1. k - 1 \in Nat /\ k - 1 <= n /\ n + 1 - 1 = n
    BY <1>1
  <2>2. /\ Total(SymbolSizes(p), k - 1) \in Nat /\ Total(SymbolSizes(p), n) \in Nat
        /\ Total(SymbolSizes(p), k - 1) <= Total(SymbolSizes(p), n)
    BY <1>1, <1>4, <2>1, TotalGrows
  <2>3. StringOffset(p, n + 1) = 1 + Total(SymbolSizes(p), n)
    BY StringOffsetBehind
  <2>4. StringOffset(p, k) = 1 + Total(SymbolSizes(p), k - 1)
    BY DEF StringOffset
  <2>5. QED
    BY <2>2, <2>3, <2>4
<1>6. ASSUME NEW k \in 1 .. n
      PROVE  StringOffset(p, k + 1) = StringOffset(p, k) + (NameLength[p.symbols[k].name] + 1)
  <2>1. /\ k - 1 \in Nat /\ k - 1 + 1 = k /\ k + 1 - 1 = k
        /\ \A i \in 1 .. (k - 1 + 1) : SymbolSizes(p)[i] \in Nat
    BY <1>1, <1>4
  <2>2. /\ Total(SymbolSizes(p), k - 1) \in Nat
        /\ Total(SymbolSizes(p), k - 1 + 1)
             = Total(SymbolSizes(p), k - 1) + SymbolSizes(p)[k - 1 + 1]
    BY <2>1, TotalOfNext
  <2>3. StringOffset(p, k + 1) = 1 + Total(SymbolSizes(p), k - 1 + 1)
    BY <2>1 DEF StringOffset
  <2>4. SymbolSizes(p)[k - 1 + 1] = NameLength[p.symbols[k].name] + 1
    BY <1>4, <2>1
  <2>5. QED
    BY <1>3, <2>2, <2>3, <2>4 DEF StringOffset
<1>7. StringOffset(p, 1) = 1
  BY TotalOfNone DEF StringOffset
<1>8. QED
  BY <1>1, <1>3, <1>5, <1>6, <1>7

LEMMA SectionFacts ==
  ASSUME NEW p \in Programs
  PROVE  /\ \A m \in 0 .. Len(p.sections) : Total(SectionSizes(p), m) \in Nat
         /\ Total(SectionSizes(p), 0) = 0
         /\ \A m \in 1 .. Len(p.sections) :
              /\ p.sections[m].size \in Nat
              /\ Total(SectionSizes(p), m) = Total(SectionSizes(p), m - 1) + p.sections[m].size
         /\ \A m, n \in 0 .. Len(p.sections) :
              m <= n => Total(SectionSizes(p), m) <= Total(SectionSizes(p), n)
<1> DEFINE c == Len(p.sections)
<1>1. c \in Nat /\ DOMAIN p.sections = 1 .. c
  BY ProgramFacts
<1>2. \A m \in 1 .. c : p.sections[m].size \in Nat
  BY ProgramFacts DEF SectionRecord
<1>3. \A m \in 1 .. c :
        SectionSizes(p)[m] \in Nat /\ SectionSizes(p)[m] = p.sections[m].size
  BY <1>1, <1>2 DEF SectionSizes
<1> HIDE DEF c
<1>4. ASSUME NEW m \in 0 .. c, NEW n \in 0 .. c, m <= n
      PROVE  /\ Total(SectionSizes(p), m) \in Nat
             /\ Total(SectionSizes(p), m) <= Total(SectionSizes(p), n)
  <2>1. m \in Nat /\ n \in Nat /\ \A k \in 1 .. n : SectionSizes(p)[k] \in Nat
    BY <1>1, <1>3, <1>4
  <2>2. QED
    BY <1>4, <2>1, TotalGrows
<1>5. ASSUME NEW m \in 1 .. c
      PROVE  Total(SectionSizes(p), m) = Total(SectionSizes(p), m - 1) + p.sections[m].size
  <2>1. /\ m - 1 \in Nat /\ m - 1 + 1 = m
        /\ \A i \in 1 .. (m - 1 + 1) : SectionSizes(p)[i] \in Nat
    BY <1>1, <1>3
  <2>2. Total(SectionSizes(p), m - 1 + 1)
          = Total(SectionSizes(p), m - 1) + SectionSizes(p)[m - 1 + 1]
    BY <2>1, TotalOfNext
  <2>3. QED
    BY <1>3, <2>1, <2>2
<1>6. \A m \in 0 .. c : Total(SectionSizes(p), m) \in Nat
  <2>1. ASSUME NEW m \in 0 .. c PROVE m <= m
    BY <1>1
  <2>2. QED
    BY <1>4, <2>1
<1>7. QED
  BY <1>2, <1>4, <1>5, <1>6, TotalOfNone DEF c

LEMMA NamesSizeFacts ==
  /\ NamesSize(0) = 0 /\ NamesSize(1) = 1
  /\ \A k \in 0 .. 4 : NamesSize(k) \in Nat /\ NamesSize(k) <= NamesSize(4)
  /\ \A k \in 1 .. 4 : NamesSize(k) = NameOffset(k)
  /\ \A k \in 1 .. 3 : NamesSize(k + 1) = NamesSize(k) + (NameLength[SectionNamesTable[k]] + 1)
<1>1. NamesSize(0) = 0 /\ \A k \in 1 .. 4 : NamesSize(k) = NameOffset(k)
  BY DEF NamesSize
<1>2. ASSUME NEW k \in 1 .. 3
      PROVE  /\ NamesSize(k + 1) = NamesSize(k) + (NameLength[SectionNamesTable[k]] + 1)
             /\ NamesSize(k + 1) \in Nat /\ NamesSize(k) \in Nat
             /\ NamesSize(k) <= NamesSize(k + 1)
  <2>1. k \in 1 .. 4 /\ k + 1 \in 1 .. 4
    OBVIOUS
  <2>2. QED
    BY <1>1, <2>1, NameFacts
<1>3. NamesSize(1) = 1
  BY <1>1, NameFacts
<1>4. /\ NamesSize(1) <= NamesSize(2) /\ NamesSize(2) <= NamesSize(3)
      /\ NamesSize(3) <= NamesSize(4) /\ NamesSize(2) \in Nat
      /\ NamesSize(3) \in Nat /\ NamesSize(4) \in Nat
  BY <1>2
<1>5. ASSUME NEW k \in 0 .. 4
      PROVE  NamesSize(k) \in Nat /\ NamesSize(k) <= NamesSize(4)
  <2>1. k = 0 \/ k = 1 \/ k = 2 \/ k = 3 \/ k = 4
    OBVIOUS
  <2>2. QED
    BY <1>1, <1>3, <1>4, <2>1
<1>6. QED
  BY <1>1, <1>2, <1>3, <1>5

LEMMA StringsSizeFacts ==
  ASSUME NEW p \in Programs
  PROVE  /\ StringsSize(p, 0) = 0 /\ StringsSize(p, 1) = 1
         /\ \A k \in 0 .. (Len(p.symbols) + 1) :
              StringsSize(p, k) \in Nat /\ StringsSize(p, k) <= StringsSize(p, Len(p.symbols) + 1)
         /\ \A k \in 1 .. (Len(p.symbols) + 1) : StringsSize(p, k) = StringOffset(p, k)
         /\ \A k \in 1 .. Len(p.symbols) :
              StringsSize(p, k + 1) = StringsSize(p, k) + (NameLength[p.symbols[k].name] + 1)
<1>1. PICK n \in Nat : n = Len(p.symbols)
  BY ProgramFacts
<1>2. n + 1 # 0 /\ 1 \in 1 .. (n + 1) /\ n + 1 \in 1 .. (n + 1)
  BY <1>1
<1>3. StringsSize(p, 0) = 0 /\ \A k \in 1 .. (n + 1) : StringsSize(p, k) = StringOffset(p, k)
  BY <1>1 DEF StringsSize
<1>4. ASSUME NEW k \in 1 .. n
      PROVE  StringsSize(p, k + 1) = StringsSize(p, k) + (NameLength[p.symbols[k].name] + 1)
  <2>1. k \in 1 .. (n + 1) /\ k + 1 \in 1 .. (n + 1)
    BY <1>1
  <2>2. StringOffset(p, k + 1) = StringOffset(p, k) + (NameLength[p.symbols[k].name] + 1)
    BY <1>1, StringFacts
  <2>3. QED
    BY <1>3, <2>1, <2>2
<1>5. StringsSize(p, 1) = 1
  BY <1>2, <1>3, StringFacts
<1>6. StringsSize(p, n + 1) \in Nat
  <2>1. StringOffset(p, n + 1) \in Nat
    BY <1>1, <1>2, StringFacts
  <2>2. QED
    BY <1>2, <1>3, <2>1
<1>7. ASSUME NEW k \in 0 .. (n + 1)
      PROVE  StringsSize(p, k) \in Nat /\ StringsSize(p, k) <= StringsSize(p, n + 1)
  <2>1. CASE k = 0
    BY <1>3, <1>6, <2>1
  <2>2. CASE k # 0
    <3>1. k \in 1 .. (n + 1)
      BY <2>2
    <3>2. StringOffset(p, k) \in Nat /\ StringOffset(p, k) <= StringOffset(p, n + 1)
      BY <1>1, <3>1, StringFacts
    <3>3. QED
      BY <1>2, <1>3, <3>1, <3>2
  <2>3. QED
    BY <2>1, <2>2
<1>8. QED
  BY <1>1, <1>3, <1>4, <1>5, <1>7

\* The size of the file, and what is at its end.
LEMMA EndFacts ==
  ASSUME NEW p \in Programs, NEW names \in 0 .. 4,
         NEW strings \in 0 .. (Len(p.symbols) + 1), NEW records \in 0 .. (Len(p.symbols) + 1),
         NEW outputs \in 0 .. Len(p.sections)
  PROVE  /\ End(p, names, strings, records, outputs) \in Nat
         /\ HeadersSize(p) <= End(p, names, strings, records, outputs)
         /\ \A m \in outputs .. Len(p.sections) :
              End(p, names, strings, records, outputs)
                <= End(p, 4, Len(p.symbols) + 1, Len(p.symbols) + 1, m)
<1> DEFINE all == Len(p.symbols) + 1
<1>1. HeadersSize(p) \in Nat /\ Len(p.symbols) \in Nat /\ Len(p.sections) \in Nat
  BY ProgramFacts
<1>2. NamesSize(names) \in Nat /\ NamesSize(4) \in Nat /\ NamesSize(names) <= NamesSize(4)
  <2>1. 4 \in 0 .. 4
    OBVIOUS
  <2>2. QED
    BY <2>1, NamesSizeFacts
<1>3. /\ StringsSize(p, strings) \in Nat /\ StringsSize(p, all) \in Nat
      /\ StringsSize(p, strings) <= StringsSize(p, all)
  <2>1. all \in 0 .. (Len(p.symbols) + 1)
    BY <1>1
  <2>2. QED
    BY <2>1, StringsSizeFacts
<1>4. /\ SymSize * records \in Nat /\ SymSize * all \in Nat
      /\ SymSize * records <= SymSize * all
  <2>1. SymSize \in Nat /\ records \in Nat /\ all \in Nat /\ records <= all
    BY <1>1, SizeAssumption
  <2>2. QED
    BY <2>1, Multiples
<1>5. Total(SectionSizes(p), outputs) \in Nat
  BY SectionFacts
<1> HIDE DEF all
<1>6. PICK h \in Nat, n \in Nat, s \in Nat, r \in Nat, o \in Nat :
        /\ h = HeadersSize(p) /\ n = NamesSize(names) /\ s = StringsSize(p, strings)
        /\ r = SymSize * records /\ o = Total(SectionSizes(p), outputs)
  BY <1>1, <1>2, <1>3, <1>4, <1>5
<1>7. End(p, names, strings, records, outputs) = h + n + s + r + o
  BY <1>6, Zenon DEF End
<1>8. ASSUME NEW m \in outputs .. Len(p.sections)
      PROVE  End(p, names, strings, records, outputs) <= End(p, 4, all, all, m)
  <2>1. m \in 0 .. Len(p.sections) /\ outputs <= m
    BY <1>1
  <2>2. /\ Total(SectionSizes(p), m) \in Nat
        /\ Total(SectionSizes(p), outputs) <= Total(SectionSizes(p), m)
    BY <2>1, SectionFacts
  <2>3. PICK n4 \in Nat, sa \in Nat, ra \in Nat, om \in Nat :
          /\ n4 = NamesSize(4) /\ sa = StringsSize(p, all) /\ ra = SymSize * all
          /\ om = Total(SectionSizes(p), m)
    BY <1>2, <1>3, <1>4, <2>2
  <2>4. n <= n4 /\ s <= sa /\ r <= ra /\ o <= om
    BY <1>2, <1>3, <1>4, <1>6, <2>2, <2>3
  <2>5. End(p, 4, all, all, m) = h + n4 + sa + ra + om
    BY <1>6, <2>3, Zenon DEF End
  <2>6. QED
    BY <1>7, <2>4, <2>5
<1>9. /\ End(p, names, strings, records, outputs) \in Nat
      /\ HeadersSize(p) <= End(p, names, strings, records, outputs)
  <2>1. h + n + s + r + o \in Nat /\ h <= h + n + s + r + o
    OBVIOUS
  <2>2. QED
    BY <1>6, <1>7, <2>1, Zenon
<1>10. QED
  BY <1>8, <1>9 DEF all

LEMMA Positions ==
  ASSUME NEW p \in Programs
  PROVE  /\ End(p, 0, 0, 0, 0) = HeadersSize(p)
         /\ \A k \in 1 .. 4 : End(p, k, 0, 0, 0) = HeadersSize(p) + NameOffset(k)
         /\ StringsAt(p) \in Nat /\ End(p, 4, 0, 0, 0) = StringsAt(p)
         /\ \A k \in 1 .. (Len(p.symbols) + 1) :
              End(p, 4, k, 0, 0) = StringsAt(p) + StringOffset(p, k)
         /\ SymbolsAt(p) \in Nat
         /\ \A k \in 0 .. (Len(p.symbols) + 1) :
              End(p, 4, Len(p.symbols) + 1, k, 0) = SymbolsAt(p) + SymSize * k
         /\ \A i \in 1 .. (Len(p.sections) + 1) :
              /\ SectionAt(p, i) \in Nat
              /\ SectionAt(p, i) = End(p, 4, Len(p.symbols) + 1, Len(p.symbols) + 1, i - 1)
<1> DEFINE all == Len(p.symbols) + 1
<1>1. HeadersSize(p) \in Nat /\ Len(p.symbols) \in Nat /\ Len(p.sections) \in Nat
  BY ProgramFacts
<1>2. SymSize \in Nat /\ SymSize * 0 = 0
  BY SizeAssumption
<1>3. all \in 0 .. (Len(p.symbols) + 1) /\ all \in Nat
  BY <1>1
<1>4. NamesSize(0) = 0 /\ NamesSize(4) \in Nat
  <2>1. 4 \in 0 .. 4
    OBVIOUS
  <2>2. QED
    BY <2>1, NamesSizeFacts
<1>5. StringsSize(p, 0) = 0 /\ StringsSize(p, all) \in Nat
  BY <1>3, StringsSizeFacts
<1>6. Total(SectionSizes(p), 0) = 0
  BY SectionFacts
<1>7. SymSize * all \in Nat
  BY <1>2, <1>3
<1> HIDE DEF all
<1>8. End(p, 0, 0, 0, 0) = HeadersSize(p)
  BY <1>1, <1>2, <1>4, <1>5, <1>6 DEF End
<1>9. ASSUME NEW k \in 1 .. 4
      PROVE  End(p, k, 0, 0, 0) = HeadersSize(p) + NameOffset(k)
  <2>1. NamesSize(k) = NameOffset(k) /\ NameOffset(k) \in Nat
    BY NamesSizeFacts, NameFacts
  <2>2. QED
    BY <1>1, <1>2, <1>5, <1>6, <2>1 DEF End
<1>10. StringsAt(p) \in Nat /\ End(p, 4, 0, 0, 0) = StringsAt(p)
  BY <1>1, <1>2, <1>4, <1>5, <1>6 DEF End, StringsAt
<1>11. ASSUME NEW k \in 1 .. (Len(p.symbols) + 1)
       PROVE  End(p, 4, k, 0, 0) = StringsAt(p) + StringOffset(p, k)
  <2>1. StringsSize(p, k) = StringOffset(p, k) /\ StringOffset(p, k) \in Nat
    BY StringsSizeFacts, StringFacts
  <2>2. QED
    BY <1>1, <1>2, <1>4, <1>6, <1>10, <2>1 DEF End, StringsAt
<1>12. SymbolsAt(p) = StringsAt(p) + StringsSize(p, all) /\ SymbolsAt(p) \in Nat
  BY <1>5, <1>10 DEF SymbolsAt, all
<1>13. ASSUME NEW k \in 0 .. (Len(p.symbols) + 1)
       PROVE  End(p, 4, all, k, 0) = SymbolsAt(p) + SymSize * k
  <2>1. SymSize * k \in Nat
    BY <1>2
  <2>2. QED
    BY <1>1, <1>4, <1>5, <1>6, <1>12, <2>1 DEF End, StringsAt
<1>14. ASSUME NEW i \in 1 .. (Len(p.sections) + 1)
       PROVE  SectionAt(p, i) \in Nat /\ SectionAt(p, i) = End(p, 4, all, all, i - 1)
  <2>1. i - 1 \in 0 .. Len(p.sections)
    BY <1>1
  <2>2. Total(SectionSizes(p), i - 1) \in Nat
    BY <2>1, SectionFacts
  <2>3. SectionAt(p, i) = SymbolsAt(p) + SymSize * all + Total(SectionSizes(p), i - 1)
    BY DEF SectionAt, all
  <2>4. PICK h \in Nat, n \in Nat, s \in Nat, r \in Nat, o \in Nat :
          /\ h = HeadersSize(p) /\ n = NamesSize(4) /\ s = StringsSize(p, all)
          /\ r = SymSize * all /\ o = Total(SectionSizes(p), i - 1)
    BY <1>1, <1>4, <1>5, <1>7, <2>2
  <2>5. SectionAt(p, i) = h + n + s + r + o /\ End(p, 4, all, all, i - 1) = h + n + s + r + o
    BY <1>12, <2>3, <2>4, Zenon DEF End, StringsAt
  <2>6. QED
    BY <2>5
<1>15. QED
  BY <1>8, <1>9, <1>10, <1>11, <1>12, <1>13, <1>14 DEF all

\* How much the file grows.
LEMMA Growth ==
  ASSUME NEW p \in Programs
  PROVE  /\ End(p, 1, 0, 0, 0) = End(p, 0, 0, 0, 0) + 1
         /\ \A k \in 1 .. 3 :
              End(p, k + 1, 0, 0, 0) = End(p, k, 0, 0, 0) + (NameLength[SectionNamesTable[k]] + 1)
         /\ End(p, 4, 1, 0, 0) = End(p, 4, 0, 0, 0) + 1
         /\ \A k \in 1 .. Len(p.symbols) :
              End(p, 4, k + 1, 0, 0) = End(p, 4, k, 0, 0) + (NameLength[p.symbols[k].name] + 1)
         /\ \A k \in 0 .. Len(p.symbols) :
              End(p, 4, Len(p.symbols) + 1, k + 1, 0)
                = End(p, 4, Len(p.symbols) + 1, k, 0) + SymSize
         /\ \A i \in 1 .. Len(p.sections) :
              End(p, 4, Len(p.symbols) + 1, Len(p.symbols) + 1, i)
                = End(p, 4, Len(p.symbols) + 1, Len(p.symbols) + 1, i - 1) + p.sections[i].size
<1> DEFINE all == Len(p.symbols) + 1
<1>1. HeadersSize(p) \in Nat /\ Len(p.symbols) \in Nat /\ Len(p.sections) \in Nat
  BY ProgramFacts
<1>2. StringsAt(p) \in Nat /\ SymbolsAt(p) \in Nat /\ SymSize \in Nat
  BY Positions, SizeAssumption
<1>3. End(p, 1, 0, 0, 0) = End(p, 0, 0, 0, 0) + 1
  <2>1. 1 \in 1 .. 4
    OBVIOUS
  <2>2. QED
    BY <2>1, Positions, NameFacts
<1>4. ASSUME NEW k \in 1 .. 3
      PROVE  End(p, k + 1, 0, 0, 0)
               = End(p, k, 0, 0, 0) + (NameLength[SectionNamesTable[k]] + 1)
  <2>1. k \in 1 .. 4 /\ k + 1 \in 1 .. 4
    OBVIOUS
  <2>2. /\ NameOffset(k) \in Nat /\ NameLength[SectionNamesTable[k]] \in Nat
        /\ NameOffset(k + 1) = NameOffset(k) + (NameLength[SectionNamesTable[k]] + 1)
    BY <2>1, NameFacts
  <2>3. /\ End(p, k, 0, 0, 0) = HeadersSize(p) + NameOffset(k)
        /\ End(p, k + 1, 0, 0, 0) = HeadersSize(p) + NameOffset(k + 1)
    BY <2>1, Positions
  <2>4. QED
    BY <1>1, <2>2, <2>3
<1>5. End(p, 4, 1, 0, 0) = End(p, 4, 0, 0, 0) + 1
  <2>1. 1 \in 1 .. (Len(p.symbols) + 1)
    BY <1>1
  <2>2. StringOffset(p, 1) = 1
    BY StringFacts
  <2>3. End(p, 4, 1, 0, 0) = StringsAt(p) + StringOffset(p, 1) /\ End(p, 4, 0, 0, 0) = StringsAt(p)
    BY <2>1, Positions
  <2>4. QED
    BY <2>2, <2>3
<1>6. ASSUME NEW k \in 1 .. Len(p.symbols)
      PROVE  End(p, 4, k + 1, 0, 0)
               = End(p, 4, k, 0, 0) + (NameLength[p.symbols[k].name] + 1)
  <2>1. k \in 1 .. (Len(p.symbols) + 1) /\ k + 1 \in 1 .. (Len(p.symbols) + 1)
    BY <1>1
  <2>2. /\ StringOffset(p, k) \in Nat /\ NameLength[p.symbols[k].name] \in Nat
        /\ StringOffset(p, k + 1) = StringOffset(p, k) + (NameLength[p.symbols[k].name] + 1)
    BY <2>1, StringFacts
  <2>3. /\ End(p, 4, k, 0, 0) = StringsAt(p) + StringOffset(p, k)
        /\ End(p, 4, k + 1, 0, 0) = StringsAt(p) + StringOffset(p, k + 1)
    BY <2>1, Positions
  <2>4. QED
    BY <1>2, <2>2, <2>3
<1>7. ASSUME NEW k \in 0 .. Len(p.symbols)
      PROVE  End(p, 4, all, k + 1, 0) = End(p, 4, all, k, 0) + SymSize
  <2>1. k \in 0 .. (Len(p.symbols) + 1) /\ k + 1 \in 0 .. (Len(p.symbols) + 1)
    BY <1>1
  <2>2. /\ End(p, 4, all, k, 0) = SymbolsAt(p) + SymSize * k
        /\ End(p, 4, all, k + 1, 0) = SymbolsAt(p) + SymSize * (k + 1)
    BY <2>1, Positions
  <2>3. SymSize * (k + 1) = SymSize * k + SymSize /\ SymSize * k \in Nat
    BY <1>2
  <2>4. QED
    BY <1>2, <2>2, <2>3
<1>8. ASSUME NEW i \in 1 .. Len(p.sections)
      PROVE  End(p, 4, all, all, i) = End(p, 4, all, all, i - 1) + p.sections[i].size
  <2>1. i - 1 \in 0 .. Len(p.sections)
    BY <1>1
  <2>2. /\ Total(SectionSizes(p), i - 1) \in Nat /\ p.sections[i].size \in Nat
        /\ Total(SectionSizes(p), i) = Total(SectionSizes(p), i - 1) + p.sections[i].size
    BY <2>1, SectionFacts
  <2>3. PICK a \in Nat : a = HeadersSize(p) + NamesSize(4) + StringsSize(p, all) + SymSize * all
    <3>1. 4 \in 0 .. 4 /\ all \in 0 .. (Len(p.symbols) + 1) /\ all \in Nat
      BY <1>1
    <3>2. NamesSize(4) \in Nat /\ StringsSize(p, all) \in Nat
      BY <3>1, NamesSizeFacts, StringsSizeFacts
    <3>3. SymSize * all \in Nat
      BY <1>2, <3>1
    <3> HIDE DEF all
    <3>4. QED
      BY <1>1, <3>2, <3>3
  <2>4. /\ End(p, 4, all, all, i - 1) = a + Total(SectionSizes(p), i - 1)
        /\ End(p, 4, all, all, i) = a + Total(SectionSizes(p), i)
    <3> HIDE DEF all
    <3>1. QED
      BY <2>3 DEF End
  <2>5. QED
    BY <2>2, <2>4
<1>9. QED
  BY <1>3, <1>4, <1>5, <1>6, <1>7, <1>8

-----------------------------------------------------------------------------
(***************************************************************************)
(* What fits in what is reserved                                           *)
(***************************************************************************)

LEMMA SizeBeforeIsEnd ==
  ASSUME NEW p \in Programs, program = p, NEW i \in 1 .. Len(p.sections)
  PROVE  SizeBefore(i) = End(p, 4, Len(p.symbols) + 1, Len(p.symbols) + 1, i - 1)
<1>1. PICK n \in Nat, c \in Nat :
        /\ n = Len(p.symbols) /\ c = Len(p.sections)
        /\ DOMAIN p.symbols = 1 .. n /\ DOMAIN p.sections = 1 .. c
  BY ProgramFacts
<1>2. HeaderSize = HeadersSize(p) /\ Sections = p.sections /\ Symbols = p.symbols
  BY DEF HeaderSize, HeadersSize, Sections, Symbols
<1>3. SumOf([k \in 1 .. 3 |-> NameLength[SectionNamesTable[k]] + 1]) = Total(NameSizes, 3)
  <2>1. First(NameSizes, 3) = [k \in 1 .. 3 |-> NameLength[SectionNamesTable[k]] + 1]
    BY DEF First, NameSizes
  <2>2. QED
    BY <2>1 DEF Total
<1>4. SumOf([k \in DOMAIN Symbols |-> NameLength[Symbols[k].name] + 1])
        = Total(SymbolSizes(p), n)
  <2>1. First(SymbolSizes(p), n) = [k \in DOMAIN Symbols |-> NameLength[Symbols[k].name] + 1]
    BY <1>1, <1>2 DEF First, SymbolSizes
  <2>2. QED
    BY <2>1 DEF Total
<1>5. SumOf([k \in 1 .. (i - 1) |-> Sections[k].size]) = Total(SectionSizes(p), i - 1)
  <2>1. \A k \in 1 .. (i - 1) : k \in 1 .. c
    BY <1>1
  <2>2. First(SectionSizes(p), i - 1) = [k \in 1 .. (i - 1) |-> Sections[k].size]
    BY <1>1, <1>2, <2>1 DEF First, SectionSizes
  <2>3. QED
    BY <2>2 DEF Total
<1>6. NamesSize(4) = 1 + Total(NameSizes, 3)
  <2>1. NamesSize(4) = 1 + Total(NameSizes, 4 - 1) /\ 4 - 1 = 3
    BY DEF NamesSize, NameOffset
  <2>2. QED
    BY <2>1
<1>7. StringsSize(p, n + 1) = 1 + Total(SymbolSizes(p), n)
  <2>1. n + 1 # 0
    BY <1>1
  <2>2. QED
    BY <2>1, StringOffsetBehind DEF StringsSize
<1>8. PICK h \in Nat, a \in Nat, b \in Nat, r \in Nat, o \in Nat :
        /\ h = HeadersSize(p) /\ a = Total(NameSizes, 3) /\ b = Total(SymbolSizes(p), n)
        /\ r = SymSize * (n + 1) /\ o = Total(SectionSizes(p), i - 1)
  <2>1. HeadersSize(p) \in Nat
    BY ProgramFacts
  <2>2. NamesSize(4) \in Nat /\ NamesSize(4) >= 1
    <3>1. 4 \in 1 .. 4
      OBVIOUS
    <3>2. QED
      BY <3>1, NamesSizeFacts, NameFacts
  <2>3. Total(NameSizes, 3) \in Nat
    <3>1. \A k \in 1 .. 3 : NameSizes[k] \in Nat
      BY ProgramsAssumption DEF NameSizes
    <3>2. QED
      BY <3>1, TotalGrows
  <2>4. Total(SymbolSizes(p), n) \in Nat
    <3>1. \A k \in 1 .. n : SymbolSizes(p)[k] \in Nat
      BY <1>1, StringFacts DEF SymbolSizes
    <3>2. QED
      BY <1>1, <3>1, TotalGrows
  <2>5. SymSize * (n + 1) \in Nat
    BY <1>1, SizeAssumption
  <2>6. Total(SectionSizes(p), i - 1) \in Nat
    <3>1. i - 1 \in 0 .. Len(p.sections)
      BY <1>1
    <3>2. QED
      BY <3>1, SectionFacts
  <2>7. QED
    BY <2>1, <2>3, <2>4, <2>5, <2>6
<1>9. SizeBefore(i) = h + 2 + a + b + r + o
  BY <1>1, <1>2, <1>3, <1>4, <1>5, <1>8, Zenon DEF SizeBefore
<1>10. End(p, 4, n + 1, n + 1, i - 1) = h + (1 + a) + (1 + b) + r + o
  BY <1>6, <1>7, <1>8, Zenon DEF End
<1>11. QED
  BY <1>1, <1>9, <1>10

LEMMA FitsMeans ==
  ASSUME NEW p \in Programs, program = p, Fits, NEW names \in 0 .. 4,
         NEW strings \in 0 .. (Len(p.symbols) + 1), NEW records \in 0 .. (Len(p.symbols) + 1),
         NEW outputs \in 0 .. (Len(p.sections) - 1)
  PROVE  End(p, names, strings, records, outputs) <= Capacity
<1>1. PICK c \in Nat : c = Len(p.sections) /\ c > 0
  BY ProgramFacts
<1>2. SizeBefore(c) <= Capacity
  BY <1>1 DEF Fits, Sections
<1>3. SizeBefore(c) = End(p, 4, Len(p.symbols) + 1, Len(p.symbols) + 1, c - 1)
  BY <1>1, SizeBeforeIsEnd
<1>4. outputs \in 0 .. c /\ c - 1 \in outputs .. c /\ c - 1 \in 0 .. c
  BY <1>1
<1>5. /\ End(p, names, strings, records, outputs) \in Nat
      /\ End(p, names, strings, records, outputs)
           <= End(p, 4, Len(p.symbols) + 1, Len(p.symbols) + 1, c - 1)
  BY <1>1, <1>4, EndFacts
<1>6. End(p, 4, Len(p.symbols) + 1, Len(p.symbols) + 1, c - 1) \in Nat
  <2>1. 4 \in 0 .. 4 /\ Len(p.symbols) + 1 \in 0 .. (Len(p.symbols) + 1)
    BY ProgramFacts
  <2>2. QED
    BY <1>1, <1>4, <2>1, EndFacts
<1>7. Capacity \in Nat
  <2>1. HeaderSize = HeadersSize(p)
    BY DEF HeaderSize, HeadersSize, Sections
  <2>2. HeaderSize \in Nat
    BY <2>1, ProgramFacts
  <2>3. QED
    BY <2>2, SizeAssumption DEF Capacity
<1>8. QED
  BY <1>2, <1>3, <1>5, <1>6, <1>7

-----------------------------------------------------------------------------
(***************************************************************************)
(* Chunks                                                                  *)
(***************************************************************************)

LEMMA Appended ==
  ASSUME NEW T, NEW s \in Seq(T), NEW e \in T
  PROVE  /\ Len(s) \in Nat /\ DOMAIN s = 1 .. Len(s)
         /\ Append(s, e) \in Seq(T)
         /\ Len(Append(s, e)) = Len(s) + 1 /\ DOMAIN Append(s, e) = 1 .. (Len(s) + 1)
         /\ Append(s, e)[Len(s) + 1] = e
         /\ \A i \in 1 .. Len(s) : s[i] \in T /\ Append(s, e)[i] = s[i]
OBVIOUS

LEMMA AppendTiles ==
  ASSUME NEW cs, NEW end \in Nat, Tiled(cs, end), NEW len \in Nat, NEW what \in What,
         what.kind # "section" => len > 0
  PROVE  /\ Tiled(Append(cs, [at |-> end, len |-> len, what |-> what]), end + len)
         /\ Has(Append(cs, [at |-> end, len |-> len, what |-> what]), end, what)
         /\ \A at, w : Has(cs, at, w)
                         => Has(Append(cs, [at |-> end, len |-> len, what |-> what]), at, w)
<1>1. PICK c \in Chunk : c = [at |-> end, len |-> len, what |-> what]
  BY DEF Chunk
<1>2. cs \in Seq(Chunk)
  BY DEF Tiled
<1>3. PICK n, new :
        /\ n \in Nat /\ new \in Seq(Chunk)
        /\ n = Len(cs) /\ new = Append(cs, c) /\ DOMAIN cs = 1 .. n
        /\ DOMAIN new = 1 .. (n + 1) /\ new[n + 1] = c
        /\ \A i \in 1 .. n : new[i] = cs[i]
  <2>1. /\ Len(cs) \in Nat /\ DOMAIN cs = 1 .. Len(cs)
        /\ Append(cs, c) \in Seq(Chunk)
        /\ DOMAIN Append(cs, c) = 1 .. (Len(cs) + 1)
        /\ Append(cs, c)[Len(cs) + 1] = c
        /\ \A i \in 1 .. Len(cs) : Append(cs, c)[i] = cs[i]
    BY <1>2, Appended
  <2>2. QED
    BY <2>1, Zenon
<1>4. c.at = end /\ c.len = len /\ c.what = what
  BY <1>1
<1>5. \A i \in 1 .. (n + 1) : i = n + 1 \/ i \in 1 .. n
  BY <1>3
<1>6. \A i \in 1 .. n :
        cs[i] \in Chunk /\ cs[i].at \in Nat /\ cs[i].len \in Nat
  <2>1. \A i \in 1 .. n : cs[i] \in Chunk
    BY <1>2, <1>3
  <2>2. QED
    BY <2>1 DEF Chunk
<1>7. ASSUME NEW i \in 1 .. (n + 1)
      PROVE  /\ new[i].at + new[i].len <= end + len
             /\ new[i].what.kind # "section" => new[i].len > 0
  <2>1. CASE i = n + 1
    BY <1>3, <1>4, <2>1
  <2>2. CASE i \in 1 .. n
    <3>1. /\ cs[i].at + cs[i].len <= end
          /\ cs[i].what.kind # "section" => cs[i].len > 0
      BY <1>3, <2>2 DEF Tiled
    <3>2. QED
      BY <1>3, <1>6, <2>2, <3>1
  <2>3. QED
    BY <1>5, <2>1, <2>2
<1>8. ASSUME NEW i \in 1 .. (n + 1), NEW j \in 1 .. (n + 1), i < j
      PROVE  new[i].at + new[i].len <= new[j].at
  <2>1. i \in 1 .. n /\ new[i] = cs[i]
    BY <1>3, <1>8
  <2>2. CASE j = n + 1
    <3>1. new[j].at = end /\ cs[i].at + cs[i].len <= end
      BY <1>3, <1>4, <2>1, <2>2 DEF Tiled
    <3>2. QED
      BY <2>1, <3>1
  <2>3. CASE j \in 1 .. n
    <3>1. new[j] = cs[j] /\ cs[i].at + cs[i].len <= cs[j].at
      BY <1>3, <1>8, <2>1, <2>3 DEF Tiled
    <3>2. QED
      BY <2>1, <3>1
  <2>4. QED
    BY <1>5, <2>2, <2>3
<1>9. Tiled(new, end + len)
  BY <1>3, <1>7, <1>8 DEF Tiled
<1>10. Has(new, end, what)
  <2>1. n + 1 \in DOMAIN new
    BY <1>3
  <2>2. QED
    BY <1>3, <1>4, <2>1 DEF Has
<1>11. ASSUME NEW at, NEW w, Has(cs, at, w)
       PROVE  Has(new, at, w)
  <2>1. PICK i \in 1 .. n : cs[i].at = at /\ cs[i].what = w
    BY <1>3, <1>11 DEF Has
  <2>2. i \in DOMAIN new /\ new[i] = cs[i]
    BY <1>3, <2>1
  <2>3. QED
    BY <2>1, <2>2 DEF Has
<1>12. QED
  BY <1>1, <1>3, <1>9, <1>10, <1>11

\* Only an empty section can share its position.
LEMMA OneAtEach ==
  ASSUME NEW cs, NEW end, Tiled(cs, end), NEW i \in DOMAIN cs, NEW j \in DOMAIN cs,
         cs[i].at = cs[j].at, cs[i].what.kind # "section", cs[j].what.kind # "section"
  PROVE  i = j
<1>1. cs \in Seq(Chunk) /\ cs[i] \in Chunk /\ cs[j] \in Chunk /\ i \in Nat /\ j \in Nat
  BY DEF Tiled
<1>2. /\ cs[i].at \in Nat /\ cs[i].len \in Nat
      /\ cs[j].at \in Nat /\ cs[j].len \in Nat
  BY <1>1 DEF Chunk
<1>3. cs[i].len > 0 /\ cs[j].len > 0
  BY DEF Tiled
<1>4. /\ i < j => cs[i].at + cs[i].len <= cs[j].at
      /\ j < i => cs[j].at + cs[j].len <= cs[i].at
  BY DEF Tiled
<1>5. ~ (i < j) /\ ~ (j < i)
  BY <1>2, <1>3, <1>4
<1>6. QED
  BY <1>1, <1>5

LEMMA ContentsKept ==
  ASSUME NEW p, NEW cs, NEW new, NEW names, NEW strings, NEW records,
         Contents(p, cs, names, strings, records),
         \A at, w : Has(cs, at, w) => Has(new, at, w)
  PROVE  Contents(p, new, names, strings, records)
BY DEF Contents

LEMMA NameContained ==
  ASSUME NEW p, NEW cs, NEW names \in 1 .. 3, Contents(p, cs, names, 0, 0),
         Has(cs, HeadersSize(p) + NameOffset(names),
             [kind |-> "name", name |-> SectionNamesTable[names]])
  PROVE  Contents(p, cs, names + 1, 0, 0)
<1>1. \A k \in 1 .. (names + 1 - 1) : k = names \/ k \in 1 .. (names - 1)
  OBVIOUS
<1>2. QED
  BY <1>1 DEF Contents

LEMMA StringContained ==
  ASSUME NEW p, NEW cs, NEW n \in Nat, NEW k \in 1 .. n, Contents(p, cs, 4, k, 0),
         Has(cs, StringsAt(p) + StringOffset(p, k),
             [kind |-> "name", name |-> p.symbols[k].name])
  PROVE  Contents(p, cs, 4, k + 1, 0)
<1>1. \A i \in 1 .. (k + 1 - 1) : i = k \/ i \in 1 .. (k - 1)
  OBVIOUS
<1>2. QED
  BY <1>1 DEF Contents

LEMMA RecordContained ==
  ASSUME NEW p, NEW cs, NEW n \in Nat, NEW k \in 1 .. n, Contents(p, cs, 4, n + 1, k),
         Has(cs, SymbolsAt(p) + SymSize * k, RecordOf(p, k))
  PROVE  Contents(p, cs, 4, n + 1, k + 1)
<1>1. \A i \in 1 .. (k + 1 - 1) : i = k \/ i \in 1 .. (k - 1)
  OBVIOUS
<1>2. QED
  BY <1>1 DEF Contents

\* A table that was opened is empty, but for what precedes its elements.
LEMMA NoneContained ==
  ASSUME NEW p, NEW cs, NEW all
  PROVE  /\ Contents(p, cs, 0, 0, 0) /\ Contents(p, cs, 1, 0, 0)
         /\ Contents(p, cs, 4, 0, 0) => Contents(p, cs, 4, 1, 0)
         /\ Contents(p, cs, 4, all, 0) => Contents(p, cs, 4, all, 1)
<1>1. 1 .. (0 - 1) = {} /\ 1 .. (1 - 1) = {}
  OBVIOUS
<1>2. QED
  BY <1>1 DEF Contents

-----------------------------------------------------------------------------
(***************************************************************************)
(* Headers                                                                 *)
(***************************************************************************)

\* From h to g nothing but the header of one table changes.
OnlyTable(p, h, g, table) ==
  /\ g \in Header(p)
  /\ g.ph = h.ph
  /\ \A t \in 1 .. 3 : t # table => g.sh[t] = h.sh[t]

\* The assignments to headers.
Replaced(h, t, s) == [h EXCEPT !.sh[t] = s]
Opened(h, t, at) == [h EXCEPT !.sh[t] = [NoShdr EXCEPT !.offset = at]]
OpenedLinked(h, at) == [h EXCEPT !.sh[Symtab] = [NoShdr EXCEPT !.offset = at, !.link = Strtab]]
Named(h, t, n) == [h EXCEPT !.sh[t].name = n]
Informed(h, t, n) == [h EXCEPT !.sh[t].info = n]
Placed(h, i, s) == [h EXCEPT !.ph[i] = s]

Renamed(r, n) == [r EXCEPT !.name = n]
Resized(r, len) == [r EXCEPT !.size = r.size + len]
Numbered(r, n) == [r EXCEPT !.info = n]

LEMMA TableHeaderType ==
  ASSUME NEW n \in Nat, NEW o \in Nat, NEW s \in Nat, NEW i \in Nat, NEW l \in Nat
  PROVE  TableHeader(n, o, s, i, l) \in Shdr
BY DEF TableHeader, Shdr

LEMMA TableReplaced ==
  ASSUME NEW p, NEW h \in Header(p), NEW t \in 1 .. 3, NEW s \in Shdr
  PROVE  OnlyTable(p, h, Replaced(h, t, s), t) /\ Replaced(h, t, s).sh[t] = s
BY DEF Header, OnlyTable, Replaced

LEMMA TableOpened ==
  ASSUME NEW p, NEW h \in Header(p), NEW t \in 1 .. 3, NEW at \in Nat
  PROVE  /\ OnlyTable(p, h, Opened(h, t, at), t)
         /\ Opened(h, t, at).sh[t] = TableHeader(0, at, 0, 0, 0)
<1>1. PICK s \in Shdr : s = TableHeader(0, at, 0, 0, 0)
  BY TableHeaderType
<1>2. Opened(h, t, at) = Replaced(h, t, s)
  BY <1>1 DEF NoShdr, TableHeader, Opened, Replaced
<1>3. QED
  BY <1>1, <1>2, TableReplaced

LEMMA LinkedOpened ==
  ASSUME NEW p, NEW h \in Header(p), NEW at \in Nat
  PROVE  /\ OnlyTable(p, h, OpenedLinked(h, at), Symtab)
         /\ OpenedLinked(h, at).sh[Symtab] = TableHeader(0, at, 0, 0, Strtab)
<1>1. Symtab \in 1 .. 3 /\ Strtab \in Nat
  BY DEF Symtab, Strtab
<1>2. PICK s \in Shdr : s = TableHeader(0, at, 0, 0, Strtab)
  BY <1>1, TableHeaderType
<1>3. OpenedLinked(h, at) = Replaced(h, Symtab, s)
  <2>1. PICK r : r = [NoShdr EXCEPT !.offset = at]
    OBVIOUS
  <2>2. r = TableHeader(0, at, 0, 0, 0)
    BY <2>1 DEF NoShdr, TableHeader
  <2>3. [r EXCEPT !.link = Strtab] = s
    BY <1>2, <2>2 DEF TableHeader
  <2>4. [NoShdr EXCEPT !.offset = at, !.link = Strtab] = s
    BY <2>1, <2>3
  <2>5. QED
    BY <2>4 DEF OpenedLinked, Replaced
<1>4. QED
  BY <1>1, <1>2, <1>3, TableReplaced

LEMMA TableNamed ==
  ASSUME NEW p, NEW h \in Header(p), NEW t \in 1 .. 3, NEW name \in Nat
  PROVE  /\ OnlyTable(p, h, Named(h, t, name), t)
         /\ Named(h, t, name).sh[t] = Renamed(h.sh[t], name)
<1>1. PICK r \in Shdr : r = Renamed(h.sh[t], name)
  BY DEF Renamed, Header, Shdr
<1>2. Named(h, t, name) = Replaced(h, t, r)
  BY <1>1 DEF Header, Named, Replaced, Renamed
<1>3. QED
  BY <1>1, <1>2, TableReplaced

LEMMA TableGrown ==
  ASSUME NEW p, NEW h \in Header(p), NEW t \in 1 .. 3, NEW len \in Nat
  PROVE  /\ OnlyTable(p, h, Grown(h, t, len), t)
         /\ Grown(h, t, len).sh[t] = Resized(h.sh[t], len)
<1>1. PICK r \in Shdr : r = Resized(h.sh[t], len)
  <2>1. h.sh[t] \in Shdr
    BY DEF Header
  <2>2. Resized(h.sh[t], len) \in Shdr
    BY <2>1 DEF Resized, Shdr
  <2>3. QED
    BY <2>2
<1>2. Grown(h, t, len) = Replaced(h, t, r)
  BY <1>1 DEF Header, Grown, Replaced, Resized
<1>3. QED
  BY <1>1, <1>2, TableReplaced

LEMMA TableNumbered ==
  ASSUME NEW p, NEW h \in Header(p), NEW t \in 1 .. 3, NEW n \in Nat
  PROVE  /\ OnlyTable(p, h, Informed(h, t, n), t)
         /\ Informed(h, t, n).sh[t] = Numbered(h.sh[t], n)
<1>1. PICK r \in Shdr : r = Numbered(h.sh[t], n)
  BY DEF Numbered, Header, Shdr
<1>2. Informed(h, t, n) = Replaced(h, t, r)
  BY <1>1 DEF Header, Informed, Replaced, Numbered
<1>3. QED
  BY <1>1, <1>2, TableReplaced

LEMMA OnlyTableTwice ==
  ASSUME NEW p, NEW h, NEW f, NEW g, NEW t,
         OnlyTable(p, h, f, t), OnlyTable(p, f, g, t)
  PROVE  OnlyTable(p, h, g, t)
BY DEF OnlyTable

LEMMA SymbolCounted ==
  ASSUME NEW p, NEW h \in Header(p)
  PROVE  /\ OnlyTable(p, h, Counted(h), Symtab)
         /\ Counted(h).sh[Symtab]
              = Numbered(Resized(h.sh[Symtab], SymSize), h.sh[Symtab].info + 1)
<1>1. Symtab \in 1 .. 3 /\ SymSize \in Nat
  BY SizeAssumption DEF Symtab
<1>2. PICK g : g = Grown(h, Symtab, SymSize)
  OBVIOUS
<1>3. OnlyTable(p, h, g, Symtab) /\ g.sh[Symtab] = Resized(h.sh[Symtab], SymSize)
  BY <1>1, <1>2, TableGrown
<1>4. g \in Header(p)
  BY <1>3 DEF OnlyTable
<1>5. h.sh[Symtab] \in Shdr
  BY <1>1 DEF Header
<1>6. h.sh[Symtab].info \in Nat /\ g.sh[Symtab].info = h.sh[Symtab].info
  BY <1>3, <1>5 DEF Shdr, Resized
<1>7. Counted(h) = Informed(g, Symtab, g.sh[Symtab].info + 1)
  BY <1>1, <1>2, <1>4 DEF Counted, Header, Informed
<1>8. PICK n \in Nat : n = h.sh[Symtab].info + 1
  BY <1>6
<1>9. Counted(h) = Informed(g, Symtab, n)
  BY <1>6, <1>7, <1>8
<1>10. OnlyTable(p, g, Counted(h), Symtab) /\ Counted(h).sh[Symtab] = Numbered(g.sh[Symtab], n)
  BY <1>1, <1>4, <1>9, TableNumbered
<1>11. QED
  BY <1>3, <1>8, <1>10, OnlyTableTwice

LEMMA SegmentPlaced ==
  ASSUME NEW p \in Programs, NEW h \in Header(p), NEW i \in 1 .. Len(p.sections), NEW s \in Phdr
  PROVE  /\ Placed(h, i, s) \in Header(p)
         /\ Placed(h, i, s).sh = h.sh
         /\ Placed(h, i, s).ph[i] = s
         /\ \A j \in 1 .. Len(p.sections) : j # i => Placed(h, i, s).ph[j] = h.ph[j]
<1>1. DOMAIN p.sections = 1 .. Len(p.sections)
  BY ProgramFacts
<1>2. QED
  BY <1>1 DEF Header, Placed

LEMMA SegmentType ==
  ASSUME NEW s \in SectionRecord, NEW offset \in Nat
  PROVE  Segment(s, offset) \in Phdr /\ Segment(s, offset).offset = offset
<1>1. s.base % AddrMod \in Nat
  BY SizeAssumption DEF SectionRecord
<1>2. s.size \in Nat
  BY DEF SectionRecord
<1>3. Loadable(s) \in BOOLEAN
  BY DEF Loadable
<1>4. SegmentFlags(s) \in SUBSET {"X", "R", "W"}
  BY DEF SegmentFlags
<1>5. QED
  BY <1>1, <1>2, <1>3, <1>4 DEF Segment, Phdr

\* A table of names when it was opened, and its first byte counted.
LEMMA TableHeaderChanges ==
  ASSUME NEW n, NEW o, NEW s, NEW i, NEW l, NEW x
  PROVE  /\ Renamed(TableHeader(n, o, s, i, l), x) = TableHeader(x, o, s, i, l)
         /\ Resized(TableHeader(n, o, s, i, l), x) = TableHeader(n, o, s + x, i, l)
         /\ Numbered(TableHeader(n, o, s, i, l), x) = TableHeader(n, o, s, x, l)
         /\ TableHeader(n, o, s, i, l).info = i
BY DEF Renamed, Resized, Numbered, TableHeader

\* A table of names when it was opened, and its first byte counted.
LEMMA NamesOpened ==
  ASSUME NEW p, NEW h \in Header(p), NEW t \in 1 .. 3, NEW at \in Nat
  PROVE  /\ Opened(h, t, at) \in Header(p) /\ Opened(h, t, at).ph = h.ph
         /\ OnlyTable(p, h, Grown(Opened(h, t, at), t, 1), t)
         /\ Grown(Opened(h, t, at), t, 1).sh[t] = TableHeader(0, at, 1, 0, 0)
<1>1. PICK opened : opened = Opened(h, t, at)
  OBVIOUS
<1>2. OnlyTable(p, h, opened, t) /\ opened.sh[t] = TableHeader(0, at, 0, 0, 0)
  BY <1>1, TableOpened
<1>3. opened \in Header(p) /\ opened.ph = h.ph
  BY <1>2 DEF OnlyTable
<1>4. /\ OnlyTable(p, opened, Grown(opened, t, 1), t)
      /\ Grown(opened, t, 1).sh[t] = Resized(opened.sh[t], 1)
  BY <1>3, TableGrown
<1>5. Grown(opened, t, 1).sh[t] = TableHeader(0, at, 1, 0, 0)
  BY <1>2, <1>4 DEF Resized, TableHeader
<1>6. QED
  BY <1>1, <1>2, <1>3, <1>4, <1>5, OnlyTableTwice

LEMMA StringsOpened ==
  ASSUME NEW p, NEW h \in Header(p), NEW t \in 1 .. 3, NEW at \in Nat, NEW n \in Nat
  PROVE  /\ OnlyTable(p, h, Grown(Named(Opened(h, t, at), t, n), t, 1), t)
         /\ Grown(Named(Opened(h, t, at), t, n), t, 1).sh[t] = TableHeader(n, at, 1, 0, 0)
<1>1. PICK opened, named : opened = Opened(h, t, at) /\ named = Named(opened, t, n)
  OBVIOUS
<1>2. OnlyTable(p, h, opened, t) /\ opened.sh[t] = TableHeader(0, at, 0, 0, 0)
  BY <1>1, TableOpened
<1>3. opened \in Header(p)
  BY <1>2 DEF OnlyTable
<1>4. OnlyTable(p, opened, named, t) /\ named.sh[t] = Renamed(opened.sh[t], n)
  BY <1>1, <1>3, TableNamed
<1>5. named \in Header(p)
  BY <1>4 DEF OnlyTable
<1>6. /\ OnlyTable(p, named, Grown(named, t, 1), t)
      /\ Grown(named, t, 1).sh[t] = Resized(named.sh[t], 1)
  BY <1>5, TableGrown
<1>7. Grown(named, t, 1).sh[t] = TableHeader(n, at, 1, 0, 0)
  <2>1. named.sh[t] = TableHeader(n, at, 0, 0, 0)
    BY <1>2, <1>4, TableHeaderChanges
  <2>2. QED
    BY <1>6, <2>1 DEF Resized, TableHeader
<1>8. QED
  BY <1>1, <1>2, <1>4, <1>6, <1>7, OnlyTableTwice

-----------------------------------------------------------------------------
(***************************************************************************)
(* What the writer makes of the headers, if nothing is lost                *)
(***************************************************************************)

LEMMA TableChanges ==
  ASSUME NEW p, NEW h, NEW g, NEW names, NEW strings, NEW records,
         Headers(p, h, names, strings, records, 0)
  PROVE  /\ \A n : OnlyTable(p, h, g, Shstrtab) /\ g.sh[Shstrtab] = NamesHeader(p, n)
                     => Headers(p, g, n, strings, records, 0)
         /\ \A n : OnlyTable(p, h, g, Strtab) /\ g.sh[Strtab] = StringsHeader(p, n)
                     => Headers(p, g, names, n, records, 0)
         /\ \A n : OnlyTable(p, h, g, Symtab) /\ g.sh[Symtab] = SymbolsHeader(p, n)
                     => Headers(p, g, names, strings, n, 0)
<1>1. 1 .. 0 = {}
  OBVIOUS
<1>2. QED
  BY <1>1 DEF Headers, OnlyTable, Shstrtab, Symtab, Strtab

LEMMA NamesBegin ==
  ASSUME NEW p \in Programs, NEW h \in Header(p), Headers(p, h, 0, 0, 0, 0)
  PROVE  Headers(p, Grown(Opened(h, Shstrtab, HeadersSize(p)), Shstrtab, 1), 1, 0, 0, 0)
<1>1. PICK g, at :
        at \in Nat /\ at = HeadersSize(p) /\ g = Grown(Opened(h, Shstrtab, at), Shstrtab, 1)
  BY ProgramFacts
<1>2. Shstrtab \in 1 .. 3
  BY DEF Shstrtab
<1>3. OnlyTable(p, h, g, Shstrtab) /\ g.sh[Shstrtab] = TableHeader(0, at, 1, 0, 0)
  BY <1>1, <1>2, NamesOpened
<1>4. NamesHeader(p, 1) = TableHeader(0, at, 1, 0, 0)
  BY <1>1, NamesSizeFacts DEF NamesHeader
<1>5. Headers(p, g, 1, 0, 0, 0)
  BY <1>3, <1>4, TableChanges
<1>6. QED
  BY <1>1, <1>5

LEMMA NamesGrow ==
  ASSUME NEW p \in Programs, NEW h \in Header(p), NEW k \in 1 .. 3,
         Headers(p, h, k, 0, 0, 0),
         NEW len \in Nat, len = NameLength[SectionNamesTable[k]] + 1
  PROVE  LET grown == Grown(h, Shstrtab, len)
             named == IF k = Shstrtab THEN Named(grown, Shstrtab, NameOffset(k)) ELSE grown
         IN  named \in Header(p) /\ Headers(p, named, k + 1, 0, 0, 0)
<1>1. PICK grown : grown = Grown(h, Shstrtab, len)
  OBVIOUS
<1>2. Shstrtab = 1 /\ Shstrtab \in 1 .. 3 /\ k \in 1 .. 4
  BY DEF Shstrtab
<1>3. OnlyTable(p, h, grown, Shstrtab) /\ grown.sh[Shstrtab] = Resized(h.sh[Shstrtab], len)
  BY <1>1, <1>2, TableGrown
<1>4. grown \in Header(p)
  BY <1>3 DEF OnlyTable
<1>5. PICK at, z, z1, n :
        /\ at = HeadersSize(p) /\ z = NamesSize(k) /\ z1 = NamesSize(k + 1)
        /\ n = (IF k = 1 THEN 0 ELSE NameOffset(1))
  OBVIOUS
<1>6. z1 = z + len
  BY <1>5, NamesSizeFacts
<1>7. k # 0 /\ k + 1 # 0 /\ k + 1 # 1
  OBVIOUS
<1>8. h.sh[Shstrtab] = TableHeader(n, at, z, 0, 0)
  BY <1>5, <1>7 DEF Headers, NamesHeader
<1>9. NamesHeader(p, k + 1) = TableHeader(NameOffset(1), at, z1, 0, 0)
  BY <1>5, <1>7 DEF NamesHeader
<1>10. grown.sh[Shstrtab] = TableHeader(n, at, z1, 0, 0)
  BY <1>3, <1>6, <1>8, TableHeaderChanges
<1>11. CASE k = 1
  <2>1. PICK named, o :
          o \in Nat /\ o = NameOffset(k) /\ named = Named(grown, Shstrtab, o)
    BY <1>2, NameFacts
  <2>2. OnlyTable(p, grown, named, Shstrtab)
        /\ named.sh[Shstrtab] = Renamed(grown.sh[Shstrtab], o)
    BY <1>2, <1>4, <2>1, TableNamed
  <2>3. OnlyTable(p, h, named, Shstrtab) /\ named \in Header(p)
    BY <1>3, <2>2, OnlyTableTwice DEF OnlyTable
  <2>4. named.sh[Shstrtab] = NamesHeader(p, k + 1)
    BY <1>9, <1>10, <1>11, <2>1, <2>2, TableHeaderChanges
  <2>5. Headers(p, named, k + 1, 0, 0, 0)
    BY <2>3, <2>4, TableChanges
  <2>6. QED
    BY <1>1, <1>2, <1>11, <2>1, <2>3, <2>5
<1>12. CASE k # 1
  <2>1. grown.sh[Shstrtab] = NamesHeader(p, k + 1)
    BY <1>5, <1>9, <1>10, <1>12
  <2>2. Headers(p, grown, k + 1, 0, 0, 0)
    BY <1>3, <2>1, TableChanges
  <2>3. QED
    BY <1>1, <1>2, <1>4, <1>12, <2>2
<1>13. QED
  BY <1>11, <1>12

LEMMA StringsBegin ==
  ASSUME NEW p \in Programs, NEW h \in Header(p), Headers(p, h, 4, 0, 0, 0)
  PROVE  Headers(p, Grown(Named(Opened(h, Strtab, StringsAt(p)), Strtab, NameOffset(Strtab)),
                          Strtab, 1), 4, 1, 0, 0)
<1>1. Strtab \in 1 .. 3 /\ Strtab \in 1 .. 4
  BY DEF Strtab
<1>2. PICK g, at, n :
        /\ at \in Nat /\ n \in Nat
        /\ at = StringsAt(p) /\ n = NameOffset(Strtab)
        /\ g = Grown(Named(Opened(h, Strtab, at), Strtab, n), Strtab, 1)
  BY <1>1, Positions, NameFacts
<1>3. OnlyTable(p, h, g, Strtab) /\ g.sh[Strtab] = TableHeader(n, at, 1, 0, 0)
  BY <1>1, <1>2, StringsOpened
<1>4. StringsHeader(p, 1) = TableHeader(n, at, 1, 0, 0)
  BY <1>2, StringsSizeFacts DEF StringsHeader
<1>5. Headers(p, g, 4, 1, 0, 0)
  BY <1>3, <1>4, TableChanges
<1>6. QED
  BY <1>2, <1>5

LEMMA StringsGrow ==
  ASSUME NEW p \in Programs, NEW h \in Header(p), NEW k \in 1 .. Len(p.symbols),
         Headers(p, h, 4, k, 0, 0),
         NEW len \in Nat, len = NameLength[p.symbols[k].name] + 1
  PROVE  Grown(h, Strtab, len) \in Header(p) /\ Headers(p, Grown(h, Strtab, len), 4, k + 1, 0, 0)
<1>1. PICK grown : grown = Grown(h, Strtab, len)
  OBVIOUS
<1>2. Strtab \in 1 .. 3
  BY DEF Strtab
<1>3. OnlyTable(p, h, grown, Strtab) /\ grown.sh[Strtab] = Resized(h.sh[Strtab], len)
  BY <1>1, <1>2, TableGrown
<1>4. PICK at, z, z1, n :
        /\ at = StringsAt(p) /\ z = StringsSize(p, k) /\ z1 = StringsSize(p, k + 1)
        /\ n = NameOffset(Strtab)
  OBVIOUS
<1>5. z1 = z + len
  BY <1>4, StringsSizeFacts
<1>6. k # 0 /\ k + 1 # 0
  BY ProgramFacts
<1>7. h.sh[Strtab] = TableHeader(n, at, z, 0, 0)
  BY <1>4, <1>6 DEF Headers, StringsHeader
<1>8. StringsHeader(p, k + 1) = TableHeader(n, at, z1, 0, 0)
  BY <1>4, <1>6 DEF StringsHeader
<1>9. grown.sh[Strtab] = StringsHeader(p, k + 1)
  BY <1>3, <1>5, <1>7, <1>8, TableHeaderChanges
<1>10. Headers(p, grown, 4, k + 1, 0, 0) /\ grown \in Header(p)
  BY <1>3, <1>9, TableChanges DEF OnlyTable
<1>11. QED
  BY <1>1, <1>10

LEMMA SymbolsBegin ==
  ASSUME NEW p \in Programs, NEW h \in Header(p), NEW all, Headers(p, h, 4, all, 0, 0)
  PROVE  LET named == Named(Counted(OpenedLinked(h, SymbolsAt(p))), Symtab, NameOffset(Symtab))
         IN  named \in Header(p) /\ Headers(p, named, 4, all, 1, 0)
<1>1. Symtab \in 1 .. 3 /\ Symtab \in 1 .. 4 /\ SymSize \in Nat
  BY SizeAssumption DEF Symtab
<1>2. PICK opened, counted, named, at, n :
        /\ at \in Nat /\ n \in Nat
        /\ at = SymbolsAt(p) /\ n = NameOffset(Symtab)
        /\ opened = OpenedLinked(h, at) /\ counted = Counted(opened)
        /\ named = Named(counted, Symtab, n)
  BY <1>1, Positions, NameFacts
<1>3. OnlyTable(p, h, opened, Symtab) /\ opened.sh[Symtab] = TableHeader(0, at, 0, 0, Strtab)
  BY <1>2, LinkedOpened
<1>4. opened \in Header(p)
  BY <1>3 DEF OnlyTable
<1>5. /\ OnlyTable(p, opened, counted, Symtab)
      /\ counted.sh[Symtab] = Numbered(Resized(opened.sh[Symtab], SymSize), opened.sh[Symtab].info + 1)
  BY <1>2, <1>4, SymbolCounted
<1>6. counted \in Header(p)
  BY <1>5 DEF OnlyTable
<1>7. OnlyTable(p, counted, named, Symtab) /\ named.sh[Symtab] = Renamed(counted.sh[Symtab], n)
  BY <1>1, <1>2, <1>6, TableNamed
<1>8. opened.sh[Symtab].info = 0 /\ 0 + 1 = 1
  BY <1>3, TableHeaderChanges
<1>9. Resized(opened.sh[Symtab], SymSize) = TableHeader(0, at, SymSize, 0, Strtab)
  BY <1>1, <1>3 DEF Resized, TableHeader
<1>10. counted.sh[Symtab] = TableHeader(0, at, SymSize, 1, Strtab)
  BY <1>5, <1>8, <1>9, TableHeaderChanges
<1>11. named.sh[Symtab] = TableHeader(n, at, SymSize, 1, Strtab)
  BY <1>7, <1>10, TableHeaderChanges
<1>12. SymbolsHeader(p, 1) = TableHeader(n, at, SymSize, 1, Strtab)
  <2>1. SymSize * 1 = SymSize
    BY <1>1
  <2>2. QED
    BY <1>2, <2>1 DEF SymbolsHeader
<1>13. OnlyTable(p, h, named, Symtab)
  BY <1>3, <1>5, <1>7, OnlyTableTwice
<1>14. Headers(p, named, 4, all, 1, 0) /\ named \in Header(p)
  BY <1>11, <1>12, <1>13, TableChanges DEF OnlyTable
<1>15. QED
  BY <1>2, <1>14

LEMMA SymbolsGrow ==
  ASSUME NEW p \in Programs, NEW h \in Header(p), NEW all, NEW k \in 1 .. Len(p.symbols),
         Headers(p, h, 4, all, k, 0)
  PROVE  Counted(h) \in Header(p) /\ Headers(p, Counted(h), 4, all, k + 1, 0)
<1>1. SymSize \in Nat /\ k \in Nat /\ k # 0 /\ k + 1 # 0
  BY ProgramFacts, SizeAssumption
<1>2. PICK counted : counted = Counted(h)
  OBVIOUS
<1>3. /\ OnlyTable(p, h, counted, Symtab)
      /\ counted.sh[Symtab] = Numbered(Resized(h.sh[Symtab], SymSize), h.sh[Symtab].info + 1)
  BY <1>2, SymbolCounted
<1>4. PICK at, z, z1, n :
        /\ at = SymbolsAt(p) /\ z = SymSize * k /\ z1 = SymSize * (k + 1)
        /\ n = NameOffset(Symtab)
  OBVIOUS
<1>5. z1 = z + SymSize
  BY <1>1, <1>4
<1>6. h.sh[Symtab] = TableHeader(n, at, z, k, Strtab)
  BY <1>1, <1>4 DEF Headers, SymbolsHeader
<1>7. SymbolsHeader(p, k + 1) = TableHeader(n, at, z1, k + 1, Strtab)
  BY <1>1, <1>4 DEF SymbolsHeader
<1>8. h.sh[Symtab].info = k
  BY <1>6 DEF TableHeader
<1>9. Resized(h.sh[Symtab], SymSize) = TableHeader(n, at, z1, k, Strtab)
  BY <1>5, <1>6, TableHeaderChanges
<1>10. counted.sh[Symtab] = SymbolsHeader(p, k + 1)
  BY <1>3, <1>7, <1>8, <1>9, TableHeaderChanges
<1>11. Headers(p, counted, 4, all, k + 1, 0) /\ counted \in Header(p)
  BY <1>3, <1>10, TableChanges DEF OnlyTable
<1>12. QED
  BY <1>2, <1>11

\* The number of the records is assigned once more.
LEMMA SymbolsEnd ==
  ASSUME NEW p \in Programs, NEW h \in Header(p), NEW all \in Nat, all # 0
  PROVE  /\ Informed(h, Symtab, all) \in Header(p) /\ Informed(h, Symtab, all).ph = h.ph
         /\ Headers(p, h, 4, all, all, 0) => Headers(p, Informed(h, Symtab, all), 4, all, all, 0)
<1>1. Symtab \in 1 .. 3
  BY DEF Symtab
<1>2. PICK g : g = Informed(h, Symtab, all)
  OBVIOUS
<1>3. OnlyTable(p, h, g, Symtab) /\ g.sh[Symtab] = Numbered(h.sh[Symtab], all)
  BY <1>1, <1>2, TableNumbered
<1>4. ASSUME Headers(p, h, 4, all, all, 0)
      PROVE  Headers(p, g, 4, all, all, 0)
  <2>1. PICK at, z, n : at = SymbolsAt(p) /\ z = SymSize * all /\ n = NameOffset(Symtab)
    OBVIOUS
  <2>2. /\ SymbolsHeader(p, all) = TableHeader(n, at, z, all, Strtab)
        /\ h.sh[Symtab] = SymbolsHeader(p, all)
    BY <1>4, <2>1 DEF Headers, SymbolsHeader
  <2>3. g.sh[Symtab] = SymbolsHeader(p, all)
    BY <1>3, <2>2, TableHeaderChanges
  <2>4. QED
    BY <1>3, <1>4, <2>3, TableChanges
<1>5. QED
  BY <1>2, <1>3, <1>4 DEF OnlyTable

LEMMA SegmentsGrow ==
  ASSUME NEW p \in Programs, NEW h \in Header(p), NEW i \in 1 .. Len(p.sections),
         NEW names, NEW strings, NEW records,
         Headers(p, h, names, strings, records, i - 1)
  PROVE  Headers(p, Placed(h, i, Segment(p.sections[i], SectionAt(p, i))),
                 names, strings, records, i)
<1>1. Len(p.sections) \in Nat
  BY ProgramFacts
<1>2. PICK s \in Phdr : s = Segment(p.sections[i], SectionAt(p, i))
  <2>1. i \in 1 .. (Len(p.sections) + 1) /\ p.sections[i] \in SectionRecord
    BY <1>1, ProgramFacts
  <2>2. SectionAt(p, i) \in Nat
    BY <2>1, Positions
  <2>3. QED
    BY <2>1, <2>2, SegmentType
<1>3. PICK g : g = Placed(h, i, s)
  OBVIOUS
<1>4. /\ g.sh = h.sh /\ g.ph[i] = s
      /\ \A j \in 1 .. Len(p.sections) : j # i => g.ph[j] = h.ph[j]
  BY <1>3, SegmentPlaced
<1>5. ASSUME NEW j \in 1 .. i
      PROVE  g.ph[j] = Segment(p.sections[j], SectionAt(p, j))
  <2>1. CASE j = i
    BY <1>2, <1>4, <2>1
  <2>2. CASE j # i
    <3>1. j \in 1 .. (i - 1) /\ j \in 1 .. Len(p.sections)
      BY <1>1, <2>2
    <3>2. QED
      BY <1>4, <2>2, <3>1 DEF Headers
  <2>3. QED
    BY <2>1, <2>2
<1>6. Headers(p, g, names, strings, records, i)
  BY <1>4, <1>5 DEF Headers
<1>7. QED
  BY <1>2, <1>3, <1>6

-----------------------------------------------------------------------------
(***************************************************************************)
(* The invariant                                                           *)
(***************************************************************************)

\* The offsets of the names are kept in the order of the names; the next
\* one is where the table ends.
Offsets(p, list, next, names, strings) ==
  /\ list \in [{Shstrtab, Strtab} -> Seq(Nat)]
  /\ Len(list[Shstrtab]) = (IF names = 0 THEN 0 ELSE names - 1)
  /\ Len(list[Strtab]) = (IF strings = 0 THEN 0 ELSE strings - 1)
  /\ \A k \in 1 .. (names - 1) : list[Shstrtab][k] = NameOffset(k)
  /\ \A k \in 1 .. (strings - 1) : list[Strtab][k] = StringOffset(p, k)
  /\ names > 0 /\ strings = 0 => next = NameOffset(names)
  /\ strings > 0 => next = StringOffset(p, strings)

\* A program header is empty or that of its section, which is where it says.
Placeable(p, h, cs) ==
  \A i \in 1 .. Len(p.sections) :
    \/ h.ph[i] = NoPhdr
    \/ /\ h.ph[i] = Segment(p.sections[i], h.ph[i].offset)
       /\ Has(cs, h.ph[i].offset, [kind |-> "section", index |-> i])

Reached(p, names, strings, records, outputs) ==
  \/ /\ phase = "start" /\ item = 0
     /\ names = 0 /\ strings = 0 /\ records = 0 /\ outputs = 0
  \/ phase = "shstrtab" /\ names = item /\ strings = 0 /\ records = 0 /\ outputs = 0
  \/ phase = "strtab" /\ names = 4 /\ strings = item /\ records = 0 /\ outputs = 0
  \/ /\ phase = "symtab" /\ records = item
     /\ names = 4 /\ strings = Len(p.symbols) + 1 /\ outputs = 0
  \/ /\ phase = "segments" /\ item \in Nat /\ outputs = item - 1
     /\ names = 4 /\ strings = Len(p.symbols) + 1 /\ records = Len(p.symbols) + 1
  \/ /\ phase = "written" /\ outputs = Len(p.sections)
     /\ names = 4 /\ strings = Len(p.symbols) + 1 /\ records = Len(p.symbols) + 1

Built(p, names, strings, records, outputs) ==
  /\ binsize = End(p, names, strings, records, outputs)
  /\ stale => binsize > Capacity
  /\ Tiled(chunks, binsize)
  /\ Contents(p, chunks, names, strings, records)
  /\ Offsets(p, namelist, nextName, names, strings)
  /\ Placeable(p, hdr, chunks)
  /\ Fits => Headers(p, hdr, names, strings, records, outputs)

\* What is in a file, the first or the final one.
FileRight(p, f) ==
  /\ Tiled(f.chunks, f.size)
  /\ Contents(p, f.chunks, 4, Len(p.symbols) + 1, Len(p.symbols) + 1)
  /\ Headers(p, f.hdr, 4, Len(p.symbols) + 1, Len(p.symbols) + 1, 0)

ElfInv ==
  /\ program \in Programs
  /\ hdr \in Header(program)
  /\ phase \notin {"threw", "crashed"} =>
       \E names \in 0 .. 4, strings, records \in 0 .. (Len(program.symbols) + 1),
          outputs \in 0 .. Len(program.sections) :
         /\ Reached(program, names, strings, records, outputs)
         /\ Built(program, names, strings, records, outputs)
  /\ file.size > 0 /\ Fits => FileRight(program, file)
  /\ phase = "written" => file = [hdr |-> hdr, chunks |-> chunks, size |-> binsize]

-----------------------------------------------------------------------------
(***************************************************************************)
(* Steps                                                                   *)
(***************************************************************************)

LEMMA CapacityType ==
  ASSUME NEW p \in Programs, program = p
  PROVE  Capacity \in Nat
<1>1. HeaderSize = HeadersSize(p)
  BY DEF HeaderSize, HeadersSize, Sections
<1>2. HeaderSize \in Nat
  BY <1>1, ProgramFacts
<1>3. QED
  BY <1>2, SizeAssumption DEF Capacity

LEMMA ProgramStays ==
  ASSUME UNCHANGED program
  PROVE  Capacity' = Capacity /\ (Fits' => Fits)
<1>1. HeaderSize' = HeaderSize /\ Sections' = Sections /\ Symbols' = Symbols
  BY DEF HeaderSize, Sections, Symbols
<1>2. Capacity' = Capacity
  BY <1>1 DEF Capacity
<1>3. \A i : SizeBefore(i)' = SizeBefore(i)
  BY <1>1 DEF SizeBefore
<1>4. QED
  BY <1>1, <1>2, <1>3 DEF Fits

LEMMA Appends ==
  ASSUME NEW p \in Programs, program = p, UNCHANGED program,
         NEW h \in Header(p), h = hdr, NEW end \in Nat, end = binsize,
         stale => binsize > Capacity, Tiled(chunks, binsize),
         NEW before \in Header(p), NEW after \in Header(p), NEW what \in What, NEW len \in Nat,
         what.kind # "section" => len > 0,
         AppendChunk(before, what, len, after)
  PROVE  /\ binsize' = end + len
         /\ stale' => binsize' > Capacity'
         /\ Tiled(chunks', end + len)
         /\ Has(chunks', end, what)
         /\ \A at, w : Has(chunks, at, w) => Has(chunks', at, w)
         /\ hdr' = h \/ hdr' = before \/ hdr' = after
         /\ end + len <= Capacity => hdr' = after
         /\ end <= Capacity => hdr' = before \/ hdr' = after
<1>1. PICK cap \in Nat : cap = Capacity /\ Capacity' = cap
  BY CapacityType, ProgramStays
<1>2. PICK cs : cs = chunks
  OBVIOUS
<1>3. PICK new : new = Append(cs, [at |-> end, len |-> len, what |-> what])
  OBVIOUS
<1>4. chunks' = new /\ binsize' = end + len
  BY <1>2, <1>3 DEF AppendChunk
<1>5. /\ Tiled(new, end + len) /\ Has(new, end, what)
      /\ \A at, w : Has(cs, at, w) => Has(new, at, w)
  BY <1>2, <1>3, AppendTiles
<1>6. end + len \in Nat /\ (end > cap => end + len > cap) /\ (end + len <= cap => end <= cap)
  BY <1>1
<1>7. stale' => stale \/ end + len > cap
  BY <1>1 DEF AppendChunk
<1>8. stale => end > cap
  BY <1>1
<1>9. stale' => end + len > cap
  BY <1>6, <1>7, <1>8
<1>10. /\ stale => hdr' = h
       /\ ~ stale /\ stale' => hdr' = before
       /\ ~ stale /\ ~ stale' => hdr' = after
  BY DEF AppendChunk
<1>11. hdr' = h \/ hdr' = before \/ hdr' = after
  BY <1>10, Zenon
<1>12. ASSUME end <= cap
       PROVE  hdr' = before \/ hdr' = after
  <2>1. ~ stale
    BY <1>8, <1>12
  <2>2. QED
    BY <1>10, <2>1, Zenon
<1>13. ASSUME end + len <= cap
       PROVE  hdr' = after
  <2>1. ~ stale /\ ~ stale'
    BY <1>6, <1>8, <1>9, <1>13
  <2>2. QED
    BY <1>10, <2>1, Zenon
<1>14. QED
  BY <1>1, <1>2, <1>4, <1>5, <1>9, <1>11, <1>12, <1>13

LEMMA PlaceableKept ==
  ASSUME NEW p, NEW h, NEW g, NEW cs, NEW new, Placeable(p, h, cs), g.ph = h.ph,
         \A at, w : Has(cs, at, w) => Has(new, at, w)
  PROVE  Placeable(p, g, new)
BY DEF Placeable

\* The next state is one that was reached by adding to a table.
LEMMA TableStep ==
  ASSUME NEW p \in Programs, program = p, UNCHANGED <<program, file>>, ElfInv,
         NEW h \in Header(p), h = hdr,
         NEW names, NEW strings, NEW records, Built(p, names, strings, records, 0),
         NEW end \in Nat, end = binsize,
         NEW before \in Header(p), NEW after \in Header(p), NEW what \in What, NEW len \in Nat,
         what.kind # "section", len > 0, before.ph = h.ph, after.ph = h.ph,
         AppendChunk(before, what, len, after),
         NEW names2 \in 0 .. 4, NEW strings2 \in 0 .. (Len(p.symbols) + 1),
         NEW records2 \in 0 .. (Len(p.symbols) + 1),
         End(p, names2, strings2, records2, 0) = end + len,
         \A cs : Contents(p, cs, names, strings, records) /\ Has(cs, end, what)
                   => Contents(p, cs, names2, strings2, records2),
         Offsets(p, namelist', nextName', names2, strings2),
         Headers(p, h, names, strings, records, 0)
           => Headers(p, after, names2, strings2, records2, 0),
         Reached(p, names2, strings2, records2, 0)', phase' # "written"
  PROVE  ElfInv'
<1>1. /\ stale => binsize > Capacity
      /\ Tiled(chunks, binsize) /\ Contents(p, chunks, names, strings, records)
      /\ Placeable(p, h, chunks) /\ (Fits => Headers(p, h, names, strings, records, 0))
  BY DEF Built
<1>2. /\ binsize' = end + len
      /\ stale' => binsize' > Capacity'
      /\ Tiled(chunks', end + len)
      /\ Has(chunks', end, what)
      /\ \A at, w : Has(chunks, at, w) => Has(chunks', at, w)
      /\ hdr' = h \/ hdr' = before \/ hdr' = after
      /\ end + len <= Capacity => hdr' = after
  BY <1>1, Appends
<1>3. PICK cs, new, g : cs = chunks /\ new = chunks' /\ g = hdr'
  OBVIOUS
<1>4. Contents(p, new, names2, strings2, records2)
  <2>1. Contents(p, new, names, strings, records)
    BY <1>1, <1>2, <1>3, ContentsKept
  <2>2. QED
    BY <1>2, <1>3, <2>1
<1>5. g \in Header(p) /\ g.ph = h.ph
  BY <1>2, <1>3
<1>6. Placeable(p, g, new)
  BY <1>1, <1>2, <1>3, <1>5, PlaceableKept
<1>7. ASSUME Fits
      PROVE  Headers(p, g, names2, strings2, records2, 0)
  <2>1. 0 \in 0 .. (Len(p.sections) - 1)
    BY ProgramFacts
  <2>2. end + len <= Capacity
    BY <1>7, <2>1, FitsMeans
  <2>3. g = after
    BY <1>2, <1>3, <2>2
  <2>4. QED
    BY <1>1, <1>7, <2>3
<1>8. Built(p, names2, strings2, records2, 0)'
  BY <1>2, <1>3, <1>4, <1>6, <1>7, ProgramStays DEF Built
<1>9. 0 \in 0 .. Len(p.sections)
  BY ProgramFacts
<1>10. file'.size > 0 /\ Fits' => FileRight(p, file')
  BY ProgramStays DEF ElfInv
<1>11. QED
  BY <1>3, <1>5, <1>8, <1>9, <1>10 DEF ElfInv

\* The next state is one where only the entry or the loop changed.
LEMMA QuietStep ==
  ASSUME NEW p \in Programs, program = p, ElfInv,
         UNCHANGED <<program, chunks, binsize, stale, nextName, namelist, file>>,
         hdr' \in Header(p), hdr'.sh = hdr.sh, hdr'.ph = hdr.ph,
         NEW names \in 0 .. 4, NEW strings \in 0 .. (Len(p.symbols) + 1),
         NEW records \in 0 .. (Len(p.symbols) + 1), NEW outputs \in 0 .. Len(p.sections),
         Built(p, names, strings, records, outputs),
         Reached(p, names, strings, records, outputs)', phase' # "written"
  PROVE  ElfInv'
<1>1. PICK h, g : h = hdr /\ g = hdr'
  OBVIOUS
<1>2. Placeable(p, g, chunks)
  BY <1>1, PlaceableKept DEF Built
<1>3. Fits => Headers(p, g, names, strings, records, outputs)
  BY <1>1 DEF Built, Headers
<1>4. Built(p, names, strings, records, outputs)'
  BY <1>1, <1>2, <1>3, ProgramStays DEF Built
<1>5. file'.size > 0 /\ Fits' => FileRight(p, file')
  BY ProgramStays DEF ElfInv
<1>6. QED
  BY <1>4, <1>5 DEF ElfInv

LEMMA AddressRange ==
  ASSUME NEW a \in Nat
  PROVE  a % AddrMod \in Nat
BY SizeAssumption

LEMMA HeaderStep ==
  ASSUME ElfInv, WriteHeader
  PROVE  ElfInv'
<1>1. PICK p \in Programs : p = program
  BY DEF ElfInv
<1>2. hdr \in Header(p) /\ UNCHANGED program
  BY <1>1 DEF ElfInv, WriteHeader
<1>3. CASE phase' = "threw" /\ UNCHANGED hdr
  <2>1. UNCHANGED file /\ (file.size > 0 /\ Fits => FileRight(p, file))
    BY <1>1 DEF ElfInv, WriteHeader
  <2>2. file'.size > 0 /\ Fits' => FileRight(p, file')
    BY <1>2, <2>1, ProgramStays
  <2>3. QED
    BY <1>1, <1>2, <1>3, <2>2 DEF ElfInv
<1>4. CASE phase' = "shstrtab" /\ \E a \in Nat : hdr' = [hdr EXCEPT !.entry = a]
  <2>1. hdr' \in Header(p) /\ hdr'.sh = hdr.sh /\ hdr'.ph = hdr.ph
    BY <1>2, <1>4 DEF Header
  <2>2. Built(p, 0, 0, 0, 0) /\ item = 0
    BY <1>1 DEF ElfInv, WriteHeader, Reached
  <2>3. Reached(p, 0, 0, 0, 0)'
    BY <1>4, <2>2 DEF Reached, WriteHeader
  <2>4. 0 \in 0 .. 4 /\ 0 \in 0 .. (Len(p.symbols) + 1) /\ 0 \in 0 .. Len(p.sections)
    BY ProgramFacts
  <2>5. UNCHANGED <<program, chunks, binsize, stale, nextName, namelist, file>>
    BY DEF WriteHeader
  <2>6. phase' # "written"
    BY <1>4
  <2>7. QED
    BY <1>1, <2>1, <2>2, <2>3, <2>4, <2>5, <2>6, QuietStep
<1>5. QED
  <2>1. \A i \in DOMAIN Symbols : Symbols[i].addr % AddrMod \in Nat
    <3>1. ASSUME NEW i \in 1 .. Len(p.symbols) PROVE p.symbols[i].addr % AddrMod \in Nat
      <4>1. p.symbols[i] \in SymbolRecord
        BY ProgramFacts
      <4>2. p.symbols[i].addr \in Nat
        BY <4>1 DEF SymbolRecord
      <4>3. QED
        BY <4>2, AddressRange
    <3>2. QED
      BY <1>1, <3>1, ProgramFacts DEF Symbols
  <2>2. \/ phase' = "threw" /\ UNCHANGED hdr
        \/ phase' = "shstrtab" /\ \E a \in Nat : hdr' = [hdr EXCEPT !.entry = a]
    BY <2>1 DEF WriteHeader
  <2>3. QED
    BY <1>3, <1>4, <2>2

\* Where the writer is, in each phase.
LEMMA InNames ==
  ASSUME ElfInv, phase = "shstrtab", NEW p \in Programs, p = program
  PROVE  item \in 0 .. 4 /\ Built(p, item, 0, 0, 0) /\ hdr \in Header(p)
BY DEF ElfInv, Reached

LEMMA InStrings ==
  ASSUME ElfInv, phase = "strtab", NEW p \in Programs, p = program
  PROVE  /\ item \in 0 .. (Len(p.symbols) + 1) /\ Built(p, 4, item, 0, 0)
         /\ hdr \in Header(p)
BY DEF ElfInv, Reached

LEMMA InSymbols ==
  ASSUME ElfInv, phase = "symtab", NEW p \in Programs, p = program
  PROVE  /\ item \in 0 .. (Len(p.symbols) + 1)
         /\ Built(p, 4, Len(p.symbols) + 1, item, 0) /\ hdr \in Header(p)
BY DEF ElfInv, Reached

LEMMA InSegments ==
  ASSUME ElfInv, phase = "segments", NEW p \in Programs, p = program
  PROVE  /\ item \in 1 .. (Len(p.sections) + 1)
         /\ Built(p, 4, Len(p.symbols) + 1, Len(p.symbols) + 1, item - 1)
         /\ hdr \in Header(p)
<1>1. PICK outputs \in 0 .. Len(p.sections) :
        /\ item \in Nat /\ outputs = item - 1
        /\ Built(p, 4, Len(p.symbols) + 1, Len(p.symbols) + 1, outputs)
  BY DEF ElfInv, Reached
<1>2. item \in 1 .. (Len(p.sections) + 1)
  BY <1>1, ProgramFacts
<1>3. QED
  BY <1>1, <1>2 DEF ElfInv

LEMMA Ranged ==
  ASSUME NEW p \in Programs
  PROVE  /\ 0 \in 0 .. 4 /\ 1 \in 0 .. 4 /\ 4 \in 0 .. 4
         /\ 0 \in 0 .. (Len(p.symbols) + 1) /\ 1 \in 0 .. (Len(p.symbols) + 1)
         /\ Len(p.symbols) + 1 \in 0 .. (Len(p.symbols) + 1)
         /\ 0 \in 0 .. Len(p.sections)
BY ProgramFacts

LEMMA FirstChunks ==
  \A k \in {"null", "nosym"} : \E what \in What : what = [kind |-> k] /\ what.kind = k
<1>1. ASSUME NEW k \in {"null", "nosym"}
      PROVE  [kind |-> k] \in What /\ [kind |-> k].kind = k
  <2>1. [kind |-> k] \in [kind : {"null", "nosym"}] /\ [kind |-> k].kind = k
    OBVIOUS
  <2>2. QED
    BY <2>1 DEF What
<1>2. QED
  BY <1>1

LEMMA NameChunk ==
  ASSUME NEW n \in DOMAIN NameLength
  PROVE  \E what \in What : what = [kind |-> "name", name |-> n] /\ what.kind = "name"
<1>1. /\ [kind |-> "name", name |-> n] \in [kind : {"name"}, name : DOMAIN NameLength]
      /\ [kind |-> "name", name |-> n].kind = "name"
  OBVIOUS
<1>2. QED
  BY <1>1 DEF What

LEMMA SectionChunk ==
  ASSUME NEW i \in Nat
  PROVE  \E what \in What : what = [kind |-> "section", index |-> i] /\ what.kind = "section"
<1>1. /\ [kind |-> "section", index |-> i] \in [kind : {"section"}, index : Nat]
      /\ [kind |-> "section", index |-> i].kind = "section"
  OBVIOUS
<1>2. QED
  BY <1>1 DEF What

LEMMA RecordChunk ==
  ASSUME NEW p \in Programs, NEW k \in 1 .. Len(p.symbols)
  PROVE  \E what \in What : what = RecordOf(p, k) /\ what.kind = "sym"
<1>1. p.symbols[k] \in SymbolRecord
  BY ProgramFacts
<1>2. /\ p.symbols[k].addr \in Nat /\ p.symbols[k].size \in Nat
      /\ p.symbols[k].type \in {"notype", "object", "func"}
  BY <1>1 DEF SymbolRecord
<1>3. p.symbols[k].addr % AddrMod \in Nat
  BY <1>2, AddressRange
<1>4. StringOffset(p, k) \in Nat
  BY StringFacts, ProgramFacts
<1>5. /\ RecordOf(p, k) \in [kind : {"sym"}, name : Nat, value : Nat,
                             type : {"notype", "object", "func"}, global : {FALSE}, size : Nat]
      /\ RecordOf(p, k).kind = "sym"
  BY <1>2, <1>3, <1>4 DEF RecordOf
<1>6. QED
  BY <1>5 DEF What

LEMMA NamesBeginStep ==
  ASSUME ElfInv, phase = "shstrtab", OpenStrings(Shstrtab)
  PROVE  ElfInv'
<1>1. PICK p \in Programs : p = program
  BY DEF ElfInv
<1>2. Built(p, 0, 0, 0, 0) /\ hdr \in Header(p)
  BY <1>1, InNames DEF OpenStrings
<1>3. PICK h \in Header(p) : h = hdr
  BY <1>2
<1>4. PICK at \in Nat : at = binsize /\ at = HeadersSize(p) /\ at = End(p, 0, 0, 0, 0)
  <2>1. binsize = HeadersSize(p) /\ binsize = End(p, 0, 0, 0, 0)
    BY <1>2, Positions DEF Built
  <2>2. QED
    BY <2>1, ProgramFacts
<1>5. Shstrtab \in 1 .. 3 /\ Shstrtab # Strtab
  BY DEF Shstrtab, Strtab
<1>6. PICK before, after :
        before = Opened(h, Shstrtab, at) /\ after = Grown(before, Shstrtab, 1)
  OBVIOUS
<1>7. before \in Header(p) /\ before.ph = h.ph /\ OnlyTable(p, h, after, Shstrtab)
  BY <1>5, <1>6, NamesOpened
<1>8. after \in Header(p) /\ after.ph = h.ph
  BY <1>7 DEF OnlyTable
<1>9. PICK what \in What : what = [kind |-> "null"] /\ what.kind = "null"
  BY FirstChunks
<1>10. AppendChunk(before, what, 1, after)
  BY <1>3, <1>4, <1>5, <1>6, <1>9 DEF OpenStrings, Opened
<1>11. End(p, 1, 0, 0, 0) = at + 1
  BY <1>4, Growth
<1>12. \A cs : Contents(p, cs, 0, 0, 0) /\ Has(cs, at, what) => Contents(p, cs, 1, 0, 0)
  BY NoneContained
<1>13. Offsets(p, namelist', nextName', 1, 0)
  <2>1. Offsets(p, namelist, nextName, 0, 0)
    BY <1>2 DEF Built
  <2>2. namelist' = namelist /\ nextName' = 1 /\ NameOffset(1) = 1
    BY NameFacts DEF OpenStrings
  <2>3. QED
    BY <2>1, <2>2 DEF Offsets
<1>14. Headers(p, h, 0, 0, 0, 0) => Headers(p, after, 1, 0, 0, 0)
  BY <1>4, <1>6, NamesBegin
<1>15. Reached(p, 1, 0, 0, 0)' /\ phase' # "written" /\ UNCHANGED <<program, file>>
  BY DEF Reached, OpenStrings
<1>16. 1 \in Nat /\ 1 > 0
  OBVIOUS
<1>17. QED
  BY <1>1, <1>2, <1>3, <1>4, <1>7, <1>8, <1>9, <1>10, <1>11, <1>12, <1>13, <1>14, <1>15,
     <1>16, Ranged, TableStep

LEMMA StringsBeginStep ==
  ASSUME ElfInv, phase = "strtab", OpenStrings(Strtab)
  PROVE  ElfInv'
<1>1. PICK p \in Programs : p = program
  BY DEF ElfInv
<1>2. Built(p, 4, 0, 0, 0) /\ hdr \in Header(p)
  BY <1>1, InStrings DEF OpenStrings
<1>3. PICK h \in Header(p) : h = hdr
  BY <1>2
<1>4. PICK at \in Nat : at = binsize /\ at = StringsAt(p) /\ at = End(p, 4, 0, 0, 0)
  <2>1. binsize = StringsAt(p) /\ binsize = End(p, 4, 0, 0, 0)
    BY <1>2, Positions DEF Built
  <2>2. QED
    BY <2>1, Positions
<1>5. Strtab = 3 /\ Strtab \in 1 .. 3 /\ Strtab \in 1 .. 4
  BY DEF Strtab
<1>6. Offsets(p, namelist, nextName, 4, 0)
  BY <1>2 DEF Built
<1>7. PICK n \in Nat : n = namelist[Shstrtab][Strtab] /\ n = NameOffset(Strtab)
  <2>1. Strtab \in 1 .. (4 - 1)
    BY <1>5
  <2>2. namelist[Shstrtab][Strtab] = NameOffset(Strtab)
    BY <1>6, <2>1 DEF Offsets
  <2>3. QED
    BY <1>5, <2>2, NameFacts
<1>8. PICK before, named, after :
        /\ before = Opened(h, Strtab, at) /\ named = Named(before, Strtab, n)
        /\ after = Grown(named, Strtab, 1)
  OBVIOUS
<1>9. before \in Header(p) /\ before.ph = h.ph /\ OnlyTable(p, h, after, Strtab)
  BY <1>5, <1>8, NamesOpened, StringsOpened
<1>10. after \in Header(p) /\ after.ph = h.ph
  BY <1>9 DEF OnlyTable
<1>11. PICK what \in What : what = [kind |-> "null"] /\ what.kind = "null"
  BY FirstChunks
<1>12. AppendChunk(before, what, 1, after)
  BY <1>3, <1>4, <1>7, <1>8, <1>11 DEF OpenStrings, Opened, Named
<1>13. End(p, 4, 1, 0, 0) = at + 1
  BY <1>4, Growth
<1>14. \A cs : Contents(p, cs, 4, 0, 0) /\ Has(cs, at, what) => Contents(p, cs, 4, 1, 0)
  BY NoneContained
<1>15. Offsets(p, namelist', nextName', 4, 1)
  <2>1. namelist' = namelist /\ nextName' = 1 /\ StringOffset(p, 1) = 1
    BY StringFacts DEF OpenStrings
  <2>2. QED
    BY <1>6, <2>1 DEF Offsets
<1>16. Headers(p, h, 4, 0, 0, 0) => Headers(p, after, 4, 1, 0, 0)
  BY <1>4, <1>7, <1>8, StringsBegin
<1>17. Reached(p, 4, 1, 0, 0)' /\ phase' # "written" /\ UNCHANGED <<program, file>>
  BY DEF Reached, OpenStrings
<1>18. 1 \in Nat /\ 1 > 0
  OBVIOUS
<1>19. QED
  BY <1>1, <1>2, <1>3, <1>4, <1>9, <1>10, <1>11, <1>12, <1>13, <1>14, <1>15, <1>16, <1>17,
     <1>18, Ranged, TableStep

LEMMA NameKept ==
  ASSUME NEW p, NEW list, NEW next, NEW k \in 1 .. 3, Offsets(p, list, next, k, 0),
         NEW new, new = [list EXCEPT ![Shstrtab] = Append(list[Shstrtab], next)]
  PROVE  next = NameOffset(k) /\ Offsets(p, new, NameOffset(k + 1), k + 1, 0)
<1>1. Shstrtab # Strtab
  BY DEF Shstrtab, Strtab
<1>2. /\ list \in [{Shstrtab, Strtab} -> Seq(Nat)] /\ list[Shstrtab] \in Seq(Nat)
      /\ Len(list[Shstrtab]) = k - 1 /\ Len(list[Strtab]) = 0
      /\ next = NameOffset(k)
      /\ \A j \in 1 .. (k - 1) : list[Shstrtab][j] = NameOffset(j)
  BY DEF Offsets
<1>3. next \in Nat
  <2>1. k \in 1 .. 4
    OBVIOUS
  <2>2. QED
    BY <1>2, <2>1, NameFacts
<1>4. PICK q : q = list[Shstrtab]
  OBVIOUS
<1>5. PICK r : r = Append(q, next)
  OBVIOUS
<1>6. q \in Seq(Nat) /\ Len(q) = k - 1 /\ k - 1 + 1 = k
  BY <1>2, <1>4
<1>7. /\ r \in Seq(Nat) /\ Len(r) = k /\ r[k] = next
      /\ \A j \in 1 .. (k - 1) : r[j] = q[j]
  <2>1. /\ Append(q, next) \in Seq(Nat) /\ Len(Append(q, next)) = Len(q) + 1
        /\ Append(q, next)[Len(q) + 1] = next
        /\ \A j \in 1 .. Len(q) : Append(q, next)[j] = q[j]
    BY <1>3, <1>6, Appended
  <2>2. QED
    BY <1>5, <1>6, <2>1
<1>8. /\ new \in [{Shstrtab, Strtab} -> Seq(Nat)]
      /\ new[Shstrtab] = r /\ new[Strtab] = list[Strtab]
  BY <1>1, <1>2, <1>4, <1>5, <1>7
<1>9. \A j \in 1 .. (k + 1 - 1) : r[j] = NameOffset(j)
  <2>1. \A j \in 1 .. (k + 1 - 1) : j = k \/ j \in 1 .. (k - 1)
    OBVIOUS
  <2>2. QED
    BY <1>2, <1>4, <1>7, <2>1
<1>10. Len(new[Shstrtab]) = k + 1 - 1 /\ k + 1 # 0
  BY <1>7, <1>8
<1>11. 1 .. (0 - 1) = {} /\ ~ (0 > 0)
  OBVIOUS
<1>12. PICK n1, k1 : n1 = NameOffset(k1) /\ k1 = k + 1
  OBVIOUS
<1>13. Offsets(p, new, n1, k1, 0)
  <2>1. /\ Len(new[Shstrtab]) = k1 - 1 /\ k1 # 0 /\ Len(new[Strtab]) = 0
        /\ \A j \in 1 .. (k1 - 1) : new[Shstrtab][j] = NameOffset(j)
    BY <1>2, <1>8, <1>9, <1>10, <1>12
  <2>2. QED
    BY <1>8, <1>11, <1>12, <2>1 DEF Offsets
<1>14. QED
  BY <1>2, <1>12, <1>13

LEMMA StringKept ==
  ASSUME NEW p \in Programs, NEW list, NEW next, NEW k \in 1 .. Len(p.symbols),
         Offsets(p, list, next, 4, k),
         NEW new, new = [list EXCEPT ![Strtab] = Append(list[Strtab], next)]
  PROVE  next = StringOffset(p, k) /\ Offsets(p, new, StringOffset(p, k + 1), 4, k + 1)
<1>1. Shstrtab # Strtab /\ k \in Nat /\ k # 0 /\ k > 0 /\ Len(p.symbols) \in Nat
  BY ProgramFacts DEF Shstrtab, Strtab
<1>2. /\ list \in [{Shstrtab, Strtab} -> Seq(Nat)] /\ list[Strtab] \in Seq(Nat)
      /\ Len(list[Strtab]) = k - 1 /\ Len(list[Shstrtab]) = 4 - 1
      /\ next = StringOffset(p, k)
      /\ \A j \in 1 .. (k - 1) : list[Strtab][j] = StringOffset(p, j)
      /\ \A j \in 1 .. (4 - 1) : list[Shstrtab][j] = NameOffset(j)
  BY <1>1 DEF Offsets
<1>3. next \in Nat
  <2>1. k \in 1 .. (Len(p.symbols) + 1)
    BY <1>1
  <2>2. QED
    BY <1>2, <2>1, StringFacts
<1>4. PICK q : q = list[Strtab]
  OBVIOUS
<1>5. PICK r : r = Append(q, next)
  OBVIOUS
<1>6. q \in Seq(Nat) /\ Len(q) = k - 1 /\ k - 1 + 1 = k
  BY <1>1, <1>2, <1>4
<1>7. /\ r \in Seq(Nat) /\ Len(r) = k /\ r[k] = next
      /\ \A j \in 1 .. (k - 1) : r[j] = q[j]
  <2>1. /\ Append(q, next) \in Seq(Nat) /\ Len(Append(q, next)) = Len(q) + 1
        /\ Append(q, next)[Len(q) + 1] = next
        /\ \A j \in 1 .. Len(q) : Append(q, next)[j] = q[j]
    BY <1>3, <1>6, Appended
  <2>2. QED
    BY <1>5, <1>6, <2>1
<1>8. /\ new \in [{Shstrtab, Strtab} -> Seq(Nat)]
      /\ new[Strtab] = r /\ new[Shstrtab] = list[Shstrtab]
  BY <1>1, <1>2, <1>4, <1>5, <1>7
<1>9. \A j \in 1 .. (k + 1 - 1) : r[j] = StringOffset(p, j)
  <2>1. \A j \in 1 .. (k + 1 - 1) : j = k \/ j \in 1 .. (k - 1)
    BY <1>1
  <2>2. QED
    BY <1>2, <1>4, <1>7, <2>1
<1>10. Len(new[Strtab]) = k + 1 - 1 /\ k + 1 # 0 /\ k + 1 > 0
  BY <1>1, <1>7, <1>8
<1>11. QED
  BY <1>2, <1>8, <1>9, <1>10 DEF Offsets

LEMMA NameStep ==
  ASSUME ElfInv, phase = "shstrtab", AddName(Shstrtab, SectionNamesTable)
  PROVE  ElfInv'
<1>1. PICK p \in Programs : p = program
  BY DEF ElfInv
<1>2. PICK k \in 1 .. 3 : k = item
  BY DEF AddName, SectionNamesTable
<1>3. Built(p, k, 0, 0, 0) /\ hdr \in Header(p)
  BY <1>1, <1>2, InNames
<1>4. PICK h \in Header(p) : h = hdr
  BY <1>3
<1>5. PICK at \in Nat :
        at = binsize /\ at = HeadersSize(p) + NameOffset(k) /\ at = End(p, k, 0, 0, 0)
  <2>1. k \in 1 .. 4
    OBVIOUS
  <2>2. NameOffset(k) \in Nat /\ HeadersSize(p) \in Nat
    BY <2>1, NameFacts, ProgramFacts
  <2>3. binsize = HeadersSize(p) + NameOffset(k) /\ binsize = End(p, k, 0, 0, 0)
    BY <1>3, <2>1, Positions DEF Built
  <2>4. QED
    BY <2>2, <2>3
<1>6. PICK name \in DOMAIN NameLength : name = SectionNamesTable[k]
  BY ProgramsAssumption
<1>7. PICK len \in Nat : len = NameLength[name] + 1 /\ len > 0
  BY <1>6, NameFacts
<1>8. PICK list, new :
        list = namelist /\ new = [list EXCEPT ![Shstrtab] = Append(list[Shstrtab], nextName)]
  OBVIOUS
<1>9. nextName = NameOffset(k) /\ Offsets(p, new, NameOffset(k + 1), k + 1, 0)
  BY <1>3, <1>8, NameKept DEF Built
<1>10. PICK after :
         after = (IF k = Shstrtab
                  THEN Named(Grown(h, Shstrtab, len), Shstrtab, NameOffset(k))
                  ELSE Grown(h, Shstrtab, len))
  OBVIOUS
<1>11. after \in Header(p) /\ after.ph = h.ph
  <2>1. Shstrtab \in 1 .. 3 /\ k \in 1 .. 4
    BY DEF Shstrtab
  <2>2. PICK grown, named, n :
          /\ n \in Nat /\ n = NameOffset(k)
          /\ grown = Grown(h, Shstrtab, len) /\ named = Named(grown, Shstrtab, n)
    BY <2>1, NameFacts
  <2>3. OnlyTable(p, h, grown, Shstrtab)
    BY <2>1, <2>2, TableGrown
  <2>4. grown \in Header(p) /\ grown.ph = h.ph
    BY <2>3 DEF OnlyTable
  <2>5. OnlyTable(p, grown, named, Shstrtab)
    BY <2>1, <2>2, <2>4, TableNamed
  <2>6. named \in Header(p) /\ named.ph = h.ph
    BY <2>4, <2>5 DEF OnlyTable
  <2>7. after = named \/ after = grown
    BY <1>10, <2>2
  <2>8. QED
    BY <2>4, <2>6, <2>7
<1>12. PICK what \in What : what = [kind |-> "name", name |-> name] /\ what.kind = "name"
  BY NameChunk
<1>13. AppendChunk(h, what, len, after)
  BY <1>2, <1>4, <1>6, <1>7, <1>9, <1>10, <1>12 DEF AddName, Named
<1>14. End(p, k + 1, 0, 0, 0) = at + len
  BY <1>5, <1>6, <1>7, Growth
<1>15. ASSUME NEW cs, Contents(p, cs, k, 0, 0), Has(cs, at, what)
       PROVE  Contents(p, cs, k + 1, 0, 0)
  BY <1>5, <1>6, <1>12, <1>15, NameContained
<1>16. Offsets(p, namelist', nextName', k + 1, 0)
  <2>1. namelist' = new
    BY <1>8 DEF AddName
  <2>2. nextName' = nextName + len
    BY <1>2, <1>6, <1>7 DEF AddName
  <2>3. NameOffset(k + 1) = NameOffset(k) + len
    BY <1>6, <1>7, NameFacts
  <2>4. nextName' = NameOffset(k + 1)
    BY <1>9, <2>2, <2>3
  <2>5. QED
    BY <1>9, <2>1, <2>4
<1>17. Headers(p, h, k, 0, 0, 0) => Headers(p, after, k + 1, 0, 0, 0)
  BY <1>6, <1>7, <1>10, NamesGrow
<1>18. Reached(p, k + 1, 0, 0, 0)' /\ phase' # "written" /\ UNCHANGED <<program, file>>
  BY <1>2 DEF Reached, AddName
<1>19. k + 1 \in 0 .. 4
  OBVIOUS
<1>20. what.kind # "section"
  BY <1>12
<1>21. QED
  BY <1>1, <1>3, <1>4, <1>5, <1>7, <1>11, <1>13, <1>14, <1>15, <1>16, <1>17, <1>18,
     <1>19, <1>20, Ranged, TableStep

LEMMA StringStep ==
  ASSUME ElfInv, phase = "strtab", AddName(Strtab, SymbolNames)
  PROVE  ElfInv'
<1>1. PICK p \in Programs : p = program
  BY DEF ElfInv
<1>2. PICK k \in 1 .. Len(p.symbols) : k = item /\ SymbolNames[k] = p.symbols[k].name
  BY <1>1, ProgramFacts DEF AddName, SymbolNames, Symbols
<1>3. Built(p, 4, k, 0, 0) /\ hdr \in Header(p)
  BY <1>1, <1>2, InStrings
<1>4. PICK h \in Header(p) : h = hdr
  BY <1>3
<1>5. PICK at \in Nat :
        at = binsize /\ at = StringsAt(p) + StringOffset(p, k) /\ at = End(p, 4, k, 0, 0)
  <2>1. k \in 1 .. (Len(p.symbols) + 1)
    BY ProgramFacts
  <2>2. StringOffset(p, k) \in Nat /\ StringsAt(p) \in Nat
    BY <2>1, StringFacts, Positions
  <2>3. binsize = StringsAt(p) + StringOffset(p, k) /\ binsize = End(p, 4, k, 0, 0)
    BY <1>3, <2>1, Positions DEF Built
  <2>4. QED
    BY <2>2, <2>3
<1>6. PICK name \in DOMAIN NameLength : name = p.symbols[k].name
  <2>1. p.symbols[k] \in SymbolRecord
    BY ProgramFacts
  <2>2. QED
    BY <2>1 DEF SymbolRecord
<1>7. PICK len \in Nat : len = NameLength[name] + 1 /\ len > 0
  BY <1>6, StringFacts
<1>8. PICK list, new :
        list = namelist /\ new = [list EXCEPT ![Strtab] = Append(list[Strtab], nextName)]
  OBVIOUS
<1>9. nextName = StringOffset(p, k) /\ Offsets(p, new, StringOffset(p, k + 1), 4, k + 1)
  BY <1>3, <1>8, StringKept DEF Built
<1>10. PICK after : after = Grown(h, Strtab, len)
  OBVIOUS
<1>11. after \in Header(p) /\ after.ph = h.ph
  <2>1. Strtab \in 1 .. 3
    BY DEF Strtab
  <2>2. OnlyTable(p, h, after, Strtab)
    BY <1>10, <2>1, TableGrown
  <2>3. QED
    BY <2>2 DEF OnlyTable
<1>12. PICK what \in What : what = [kind |-> "name", name |-> name] /\ what.kind = "name"
  BY NameChunk
<1>13. AppendChunk(h, what, len, after)
  <2>1. Strtab # Shstrtab
    BY DEF Strtab, Shstrtab
  <2>2. QED
    BY <1>2, <1>4, <1>6, <1>7, <1>10, <1>12, <2>1 DEF AddName
<1>14. End(p, 4, k + 1, 0, 0) = at + len
  BY <1>5, <1>6, <1>7, Growth
<1>15. ASSUME NEW cs, Contents(p, cs, 4, k, 0), Has(cs, at, what)
       PROVE  Contents(p, cs, 4, k + 1, 0)
  <2>1. Len(p.symbols) \in Nat
    BY ProgramFacts
  <2>2. QED
    BY <1>5, <1>6, <1>12, <1>15, <2>1, StringContained
<1>16. Offsets(p, namelist', nextName', 4, k + 1)
  <2>1. namelist' = new
    BY <1>8 DEF AddName
  <2>2. nextName' = nextName + len
    BY <1>2, <1>6, <1>7 DEF AddName
  <2>3. StringOffset(p, k + 1) = StringOffset(p, k) + len
    BY <1>6, <1>7, StringFacts
  <2>4. nextName' = StringOffset(p, k + 1)
    BY <1>9, <2>2, <2>3
  <2>5. QED
    BY <1>9, <2>1, <2>4
<1>17. Headers(p, h, 4, k, 0, 0) => Headers(p, after, 4, k + 1, 0, 0)
  BY <1>6, <1>7, <1>10, StringsGrow
<1>18. Reached(p, 4, k + 1, 0, 0)' /\ phase' # "written" /\ UNCHANGED <<program, file>>
  BY <1>2 DEF Reached, AddName
<1>19. k + 1 \in 0 .. (Len(p.symbols) + 1)
  BY ProgramFacts
<1>20. what.kind # "section"
  BY <1>12
<1>21. QED
  BY <1>1, <1>3, <1>4, <1>5, <1>7, <1>11, <1>13, <1>14, <1>15, <1>16, <1>17, <1>18,
     <1>19, <1>20, Ranged, TableStep

LEMMA SymbolsBeginStep ==
  ASSUME ElfInv, OpenSymbols
  PROVE  ElfInv'
<1>1. PICK p \in Programs : p = program
  BY DEF ElfInv
<1>2. PICK all \in Nat : all = Len(p.symbols) + 1 /\ all \in 0 .. (Len(p.symbols) + 1)
  BY ProgramFacts
<1>3. Built(p, 4, all, 0, 0) /\ hdr \in Header(p)
  BY <1>1, <1>2, InSymbols DEF OpenSymbols
<1>4. PICK h \in Header(p) : h = hdr
  BY <1>3
<1>5. SymSize \in Nat /\ SymSize > 0
  BY SizeAssumption
<1>6. PICK at \in Nat : at = binsize /\ at = SymbolsAt(p) /\ at = End(p, 4, all, 0, 0)
  <2>1. 0 \in 0 .. (Len(p.symbols) + 1) /\ SymSize * 0 = 0
    BY <1>2, <1>5
  <2>2. binsize = SymbolsAt(p) + SymSize * 0 /\ binsize = End(p, 4, all, 0, 0)
    BY <1>2, <1>3, <2>1, Positions DEF Built
  <2>3. SymbolsAt(p) \in Nat
    BY Positions
  <2>4. QED
    BY <2>1, <2>2, <2>3
<1>7. Offsets(p, namelist, nextName, 4, all)
  BY <1>3 DEF Built
<1>8. PICK n \in Nat : n = namelist[Shstrtab][Symtab] /\ n = NameOffset(Symtab)
  <2>1. Symtab \in 1 .. (4 - 1) /\ Symtab \in 1 .. 4
    BY DEF Symtab
  <2>2. namelist[Shstrtab][Symtab] = NameOffset(Symtab)
    BY <1>7, <2>1 DEF Offsets
  <2>3. QED
    BY <2>1, <2>2, NameFacts
<1>9. PICK before, counted, after :
        /\ before = OpenedLinked(h, at) /\ counted = Counted(before)
        /\ after = Named(counted, Symtab, n)
  OBVIOUS
<1>10. OnlyTable(p, h, before, Symtab)
  BY <1>9, LinkedOpened
<1>11. before \in Header(p) /\ before.ph = h.ph
  BY <1>10 DEF OnlyTable
<1>12. after \in Header(p) /\ after.ph = h.ph
  <2>1. Symtab \in 1 .. 3
    BY DEF Symtab
  <2>2. OnlyTable(p, before, counted, Symtab)
    BY <1>9, <1>11, SymbolCounted
  <2>3. counted \in Header(p) /\ counted.ph = h.ph
    BY <1>11, <2>2 DEF OnlyTable
  <2>4. OnlyTable(p, counted, after, Symtab)
    BY <1>9, <2>1, <2>3, TableNamed
  <2>5. QED
    BY <2>3, <2>4 DEF OnlyTable
<1>13. PICK what \in What : what = [kind |-> "nosym"] /\ what.kind = "nosym"
  BY FirstChunks
<1>14. AppendChunk(before, what, SymSize, after)
  BY <1>4, <1>6, <1>8, <1>9, <1>13 DEF OpenSymbols, OpenedLinked, Named
<1>15. End(p, 4, all, 1, 0) = at + SymSize
  <2>1. 0 \in 0 .. Len(p.symbols) /\ 0 + 1 = 1
    BY ProgramFacts
  <2>2. End(p, 4, all, 0 + 1, 0) = End(p, 4, all, 0, 0) + SymSize
    BY <1>2, <2>1, Growth
  <2>3. QED
    BY <1>6, <2>1, <2>2
<1>16. \A cs : Contents(p, cs, 4, all, 0) /\ Has(cs, at, what) => Contents(p, cs, 4, all, 1)
  BY NoneContained
<1>17. Offsets(p, namelist', nextName', 4, all)
  BY <1>7 DEF OpenSymbols
<1>18. Headers(p, h, 4, all, 0, 0) => Headers(p, after, 4, all, 1, 0)
  BY <1>6, <1>8, <1>9, SymbolsBegin
<1>19. Reached(p, 4, all, 1, 0)' /\ phase' # "written" /\ UNCHANGED <<program, file>>
  BY <1>2 DEF Reached, OpenSymbols
<1>20. what.kind # "section"
  BY <1>13
<1>21. /\ program = p /\ h = hdr /\ at = binsize /\ before.ph = h.ph /\ after.ph = h.ph
       /\ UNCHANGED <<program, file>> /\ phase' # "written"
       /\ what.kind # "section" /\ SymSize > 0
       /\ AppendChunk(before, what, SymSize, after) /\ Built(p, 4, all, 0, 0)
  BY <1>1, <1>3, <1>4, <1>5, <1>6, <1>11, <1>12, <1>14, <1>19, <1>20
<1>22. /\ 4 \in 0 .. 4 /\ all \in 0 .. (Len(p.symbols) + 1) /\ 1 \in 0 .. (Len(p.symbols) + 1)
       /\ SymSize \in Nat /\ before \in Header(p) /\ after \in Header(p)
  BY <1>2, <1>5, <1>11, <1>12, Ranged
<1>23. Reached(p, 4, all, 1, 0)'
  BY <1>19
<1>24. QED
  BY <1>15, <1>16, <1>17, <1>18, <1>21, <1>22, <1>23, TableStep

LEMMA SymbolStep ==
  ASSUME ElfInv, AddSymbol
  PROVE  ElfInv'
<1>1. PICK p \in Programs : p = program
  BY DEF ElfInv
<1>2. PICK k \in 1 .. Len(p.symbols) : k = item
  BY <1>1, ProgramFacts DEF AddSymbol, Symbols
<1>3. PICK all \in Nat : all = Len(p.symbols) + 1 /\ all \in 0 .. (Len(p.symbols) + 1)
  BY ProgramFacts
<1>4. Built(p, 4, all, k, 0) /\ hdr \in Header(p)
  BY <1>1, <1>2, <1>3, InSymbols DEF AddSymbol
<1>5. PICK h \in Header(p) : h = hdr
  BY <1>4
<1>6. SymSize \in Nat /\ SymSize > 0
  BY SizeAssumption
<1>7. PICK at \in Nat : /\ at = binsize /\ at = SymbolsAt(p) + SymSize * k
                        /\ at = End(p, 4, all, k, 0)
  <2>1. k \in 0 .. (Len(p.symbols) + 1) /\ SymSize * k \in Nat
    BY <1>3, <1>6, ProgramFacts
  <2>2. binsize = SymbolsAt(p) + SymSize * k /\ binsize = End(p, 4, all, k, 0)
    BY <1>3, <1>4, <2>1, Positions DEF Built
  <2>3. SymbolsAt(p) \in Nat
    BY Positions
  <2>4. QED
    BY <2>1, <2>2, <2>3
<1>8. Offsets(p, namelist, nextName, 4, all)
  BY <1>4 DEF Built
<1>9. namelist[Strtab][k] = StringOffset(p, k)
  <2>1. k \in 1 .. (all - 1)
    BY <1>3, ProgramFacts
  <2>2. QED
    BY <1>8, <2>1 DEF Offsets
<1>10. PICK what \in What : what = RecordOf(p, k) /\ what.kind = "sym"
  BY RecordChunk
<1>11. PICK after : after = Counted(h)
  OBVIOUS
<1>12. after \in Header(p) /\ after.ph = h.ph
  BY <1>11, SymbolCounted DEF OnlyTable
<1>13. AppendChunk(h, what, SymSize, after)
  BY <1>1, <1>2, <1>5, <1>9, <1>10, <1>11 DEF AddSymbol, RecordOf, Symbols
<1>14. End(p, 4, all, k + 1, 0) = at + SymSize
  <2>1. k \in 0 .. Len(p.symbols)
    BY ProgramFacts
  <2>2. QED
    BY <1>3, <1>7, <2>1, Growth
<1>15. ASSUME NEW cs, Contents(p, cs, 4, all, k), Has(cs, at, what)
       PROVE  Contents(p, cs, 4, all, k + 1)
  <2>1. Len(p.symbols) \in Nat
    BY ProgramFacts
  <2>2. QED
    BY <1>3, <1>7, <1>10, <1>15, <2>1, RecordContained
<1>16. Offsets(p, namelist', nextName', 4, all)
  BY <1>8 DEF AddSymbol
<1>17. Headers(p, h, 4, all, k, 0) => Headers(p, after, 4, all, k + 1, 0)
  BY <1>11, SymbolsGrow
<1>18. Reached(p, 4, all, k + 1, 0)' /\ phase' # "written" /\ UNCHANGED <<program, file>>
  BY <1>2, <1>3 DEF Reached, AddSymbol
<1>19. PICK next \in 0 .. (Len(p.symbols) + 1) : next = k + 1
  BY ProgramFacts
<1>20. what.kind # "section"
  BY <1>10
<1>21. /\ End(p, 4, all, next, 0) = at + SymSize
       /\ \A cs : Contents(p, cs, 4, all, k) /\ Has(cs, at, what)
                   => Contents(p, cs, 4, all, next)
       /\ Headers(p, h, 4, all, k, 0) => Headers(p, after, 4, all, next, 0)
  BY <1>14, <1>15, <1>17, <1>19
<1>22. Reached(p, 4, all, next, 0)'
  BY <1>18, <1>19
<1>23. /\ program = p /\ h = hdr /\ at = binsize /\ h.ph = h.ph /\ after.ph = h.ph
       /\ UNCHANGED <<program, file>> /\ phase' # "written"
       /\ what.kind # "section" /\ SymSize > 0
       /\ AppendChunk(h, what, SymSize, after) /\ Built(p, 4, all, k, 0)
  BY <1>1, <1>4, <1>5, <1>6, <1>7, <1>12, <1>13, <1>18, <1>20
<1>24. 4 \in 0 .. 4 /\ all \in 0 .. (Len(p.symbols) + 1) /\ SymSize \in Nat /\ after \in Header(p)
  BY <1>3, <1>6, <1>12
<1>25. QED
  BY <1>16, <1>21, <1>22, <1>23, <1>24, TableStep

\* The loops over the names end.
LEMMA NamesEndStep ==
  ASSUME ElfInv, phase = "shstrtab", EndLoop(3, "strtab")
  PROVE  ElfInv'
<1>1. PICK p \in Programs : p = program
  BY DEF ElfInv
<1>2. item = 4
  BY DEF EndLoop
<1>3. Built(p, 4, 0, 0, 0) /\ hdr \in Header(p)
  BY <1>1, <1>2, InNames
<1>4. UNCHANGED <<program, hdr, chunks, binsize, stale, nextName, namelist, file>>
  BY DEF EndLoop
<1>5. Reached(p, 4, 0, 0, 0)' /\ phase' # "written"
  BY DEF Reached, EndLoop
<1>6. hdr' \in Header(p) /\ hdr'.sh = hdr.sh /\ hdr'.ph = hdr.ph
  BY <1>3, <1>4
<1>7. QED
  BY <1>1, <1>3, <1>4, <1>5, <1>6, Ranged, QuietStep

LEMMA StringsEndStep ==
  ASSUME ElfInv, phase = "strtab", EndLoop(Len(Symbols), "symtab")
  PROVE  ElfInv'
<1>1. PICK p \in Programs : p = program
  BY DEF ElfInv
<1>2. PICK all \in 0 .. (Len(p.symbols) + 1) : all = Len(p.symbols) + 1
  BY Ranged
<1>3. item = all
  BY <1>1, <1>2 DEF EndLoop, Symbols
<1>4. Built(p, 4, all, 0, 0) /\ hdr \in Header(p)
  BY <1>1, <1>3, InStrings
<1>5. UNCHANGED <<program, hdr, chunks, binsize, stale, nextName, namelist, file>>
  BY DEF EndLoop
<1>6. Reached(p, 4, all, 0, 0)' /\ phase' # "written"
  BY <1>2 DEF Reached, EndLoop
<1>7. hdr' \in Header(p) /\ hdr'.sh = hdr.sh /\ hdr'.ph = hdr.ph
  BY <1>4, <1>5
<1>8. QED
  BY <1>1, <1>4, <1>5, <1>6, <1>7, Ranged, QuietStep

\* The tables are complete: the first file.
LEMMA SymbolsEndStep ==
  ASSUME ElfInv, EndSymbols
  PROVE  ElfInv'
<1>1. PICK p \in Programs : p = program
  BY DEF ElfInv
<1>2. PICK all \in Nat : all = Len(p.symbols) + 1 /\ all # 0 /\ all \in 0 .. (Len(p.symbols) + 1)
  BY ProgramFacts
<1>3. item = all /\ phase = "symtab"
  BY <1>1, <1>2 DEF EndSymbols, Symbols
<1>4. Built(p, 4, all, all, 0) /\ hdr \in Header(p)
  BY <1>1, <1>2, <1>3, InSymbols
<1>5. PICK h \in Header(p) : h = hdr
  BY <1>4
<1>6. PICK g : g = Informed(h, Symtab, all)
  OBVIOUS
<1>7. /\ g \in Header(p) /\ g.ph = h.ph
      /\ Headers(p, h, 4, all, all, 0) => Headers(p, g, 4, all, all, 0)
  BY <1>2, <1>6, SymbolsEnd
<1>8. PICK d : d = hdr'
  OBVIOUS
<1>9. d = IF stale THEN h ELSE g
  BY <1>1, <1>2, <1>5, <1>6, <1>8 DEF EndSymbols, Informed, Symbols
<1>10. d \in Header(p) /\ d.ph = h.ph
  BY <1>7, <1>9
<1>11. UNCHANGED <<program, chunks, binsize, stale, nextName, namelist>>
  BY DEF EndSymbols
<1>12. ASSUME Fits
       PROVE  Headers(p, d, 4, all, all, 0)
  <2>1. PICK n \in Nat : n = End(p, 4, all, all, 0)
    <3>1. 4 \in 0 .. 4 /\ 0 \in 0 .. Len(p.sections)
      BY Ranged
    <3>2. QED
      BY <1>2, <3>1, EndFacts
  <2>2. PICK c \in Nat : c = Capacity
    BY <1>1, CapacityType
  <2>3. n <= c
    <3>1. 4 \in 0 .. 4 /\ 0 \in 0 .. (Len(p.sections) - 1)
      BY ProgramFacts
    <3>2. QED
      BY <1>1, <1>2, <1>12, <2>1, <2>2, <3>1, FitsMeans
  <2>4. binsize = n /\ (stale => binsize > c)
    BY <1>4, <2>1, <2>2 DEF Built
  <2>5. ~ stale
    BY <2>3, <2>4
  <2>6. d = g
    BY <1>9, <2>5
  <2>7. Headers(p, h, 4, all, all, 0)
    BY <1>4, <1>5, <1>12 DEF Built
  <2>8. QED
    BY <1>7, <2>6, <2>7
<1>13. Built(p, 4, all, all, 0)'
  <2>1. Placeable(p, d, chunks)
    BY <1>4, <1>5, <1>10, PlaceableKept DEF Built
  <2>2. QED
    BY <1>4, <1>8, <1>11, <1>12, <2>1, ProgramStays DEF Built
<1>14. Reached(p, 4, all, all, 0)' /\ phase' = "segments"
  BY <1>2 DEF Reached, EndSymbols
<1>15. file'.size > 0 /\ Fits' => FileRight(p, file')
  <2>1. PICK f : f = file'
    OBVIOUS
  <2>2. f = [hdr |-> d, chunks |-> chunks, size |-> binsize]
    BY <1>8, <1>11, <2>1 DEF EndSymbols, WriteFile
  <2>3. f.hdr = d /\ f.chunks = chunks /\ f.size = binsize
    BY <2>2
  <2>4. Tiled(chunks, binsize) /\ Contents(p, chunks, 4, all, all)
    BY <1>4 DEF Built
  <2>5. Fits => FileRight(p, f)
    BY <1>2, <1>12, <2>3, <2>4 DEF FileRight
  <2>6. QED
    BY <1>11, <2>1, <2>5, ProgramStays
<1>16. 4 \in 0 .. 4 /\ 0 \in 0 .. Len(p.sections)
  BY Ranged
<1>17. program' = p /\ hdr' \in Header(p)
  BY <1>1, <1>8, <1>10, <1>11
<1>18. QED
  BY <1>2, <1>13, <1>14, <1>15, <1>16, <1>17 DEF ElfInv

LEMMA SegmentStep ==
  ASSUME ElfInv, AddSegment
  PROVE  ElfInv'
<1>1. PICK p \in Programs : p = program
  BY DEF ElfInv
<1>2. PICK all \in Nat : all = Len(p.symbols) + 1 /\ all \in 0 .. (Len(p.symbols) + 1)
  BY ProgramFacts
<1>3. PICK i \in 1 .. Len(p.sections) : i = item /\ phase = "segments"
  BY <1>1, ProgramFacts DEF AddSegment, Sections
<1>4. PICK done \in 0 .. Len(p.sections) :
        done = i - 1 /\ done \in 0 .. (Len(p.sections) - 1) /\ i \in 0 .. Len(p.sections)
  BY ProgramFacts
<1>5. Built(p, 4, all, all, done) /\ hdr \in Header(p)
  BY <1>1, <1>2, <1>3, <1>4, InSegments
<1>6. PICK h \in Header(p) : h = hdr
  BY <1>5
<1>7. PICK size \in Nat : size = p.sections[i].size
  <2>1. p.sections[i] \in SectionRecord
    BY ProgramFacts
  <2>2. QED
    BY <2>1 DEF SectionRecord
<1>8. PICK at \in Nat : at = binsize /\ at = SectionAt(p, i) /\ at = End(p, 4, all, all, done)
  <2>1. i \in 1 .. (Len(p.sections) + 1)
    BY ProgramFacts
  <2>2. SectionAt(p, i) \in Nat /\ SectionAt(p, i) = End(p, 4, all, all, done)
    BY <1>2, <1>4, <2>1, Positions
  <2>3. QED
    BY <1>5, <2>2 DEF Built
<1>9. End(p, 4, all, all, i) = at + size
  BY <1>2, <1>4, <1>7, <1>8, Growth
<1>10. PICK s \in Phdr : s = Segment(p.sections[i], at) /\ s.offset = at
  BY <1>8, ProgramFacts, SegmentType
<1>11. PICK after : after = Placed(h, i, s)
  OBVIOUS
<1>12. /\ after \in Header(p) /\ after.ph[i] = s
       /\ \A j \in 1 .. Len(p.sections) : j # i => after.ph[j] = h.ph[j]
  BY <1>11, SegmentPlaced
<1>13. PICK what \in What : what = [kind |-> "section", index |-> i]
  BY <1>3, ProgramFacts, SectionChunk
<1>14. what.kind = "section"
  BY <1>13
<1>15. /\ AppendChunk(after, what, size, after) /\ item' = i + 1
       /\ UNCHANGED <<program, nextName, namelist, file, phase>>
  <2>1. Sections[item] = p.sections[i]
    BY <1>1, <1>3 DEF Sections
  <2>2. QED
    BY <1>3, <1>6, <1>7, <1>8, <1>10, <1>11, <1>13, <2>1 DEF AddSegment, Placed
<1>16. /\ stale => binsize > Capacity
       /\ Tiled(chunks, binsize) /\ Contents(p, chunks, 4, all, all)
       /\ Offsets(p, namelist, nextName, 4, all)
       /\ Placeable(p, h, chunks) /\ (Fits => Headers(p, h, 4, all, all, done))
  BY <1>5, <1>6 DEF Built
<1>17. /\ binsize' = at + size
       /\ stale' => binsize' > Capacity'
       /\ Tiled(chunks', at + size)
       /\ Has(chunks', at, what)
       /\ \A x, w : Has(chunks, x, w) => Has(chunks', x, w)
       /\ hdr' = h \/ hdr' = after
       /\ at <= Capacity => hdr' = after
  BY <1>1, <1>6, <1>7, <1>8, <1>12, <1>13, <1>14, <1>15, <1>16, Appends
<1>18. PICK new, d : new = chunks' /\ d = hdr'
  OBVIOUS
<1>19. d \in Header(p)
  BY <1>12, <1>17, <1>18
<1>20. Contents(p, new, 4, all, all)
  BY <1>16, <1>17, <1>18, ContentsKept
<1>21. Placeable(p, d, new)
  <2>1. ASSUME NEW j \in 1 .. Len(p.sections), d.ph[j] = h.ph[j]
        PROVE  \/ d.ph[j] = NoPhdr
               \/ /\ d.ph[j] = Segment(p.sections[j], d.ph[j].offset)
                  /\ Has(new, d.ph[j].offset, [kind |-> "section", index |-> j])
    BY <1>16, <1>17, <1>18, <2>1 DEF Placeable
  <2>2. CASE d = h
    BY <2>1, <2>2 DEF Placeable
  <2>3. CASE d = after
    <3>1. d.ph[i] = Segment(p.sections[i], d.ph[i].offset)
      BY <1>10, <1>12, <2>3
    <3>2. Has(new, d.ph[i].offset, [kind |-> "section", index |-> i])
      BY <1>10, <1>12, <1>13, <1>17, <1>18, <2>3
    <3>3. \A j \in 1 .. Len(p.sections) : j # i => d.ph[j] = h.ph[j]
      BY <1>12, <2>3
    <3>4. QED
      BY <2>1, <3>1, <3>2, <3>3 DEF Placeable
  <2>4. QED
    BY <1>17, <1>18, <2>2, <2>3
<1>22. ASSUME Fits
       PROVE  Headers(p, d, 4, all, all, i)
  <2>1. End(p, 4, all, all, done) <= Capacity
    <3>1. 4 \in 0 .. 4
      BY Ranged
    <3>2. QED
      BY <1>1, <1>2, <1>4, <1>22, <3>1, FitsMeans
  <2>2. d = after
    BY <1>8, <1>17, <1>18, <2>1
  <2>3. Headers(p, h, 4, all, all, i - 1)
    BY <1>4, <1>16, <1>22
  <2>4. Headers(p, Placed(h, i, Segment(p.sections[i], SectionAt(p, i))), 4, all, all, i)
    BY <2>3, SegmentsGrow
  <2>5. QED
    BY <1>8, <1>10, <1>11, <2>2, <2>4
<1>23. Offsets(p, namelist', nextName', 4, all)
  BY <1>15, <1>16
<1>24. Built(p, 4, all, all, i)'
  BY <1>9, <1>15, <1>17, <1>18, <1>20, <1>21, <1>22, <1>23, ProgramStays DEF Built
<1>25. Reached(p, 4, all, all, i)' /\ phase' # "written"
  BY <1>2, <1>3, <1>15 DEF Reached
<1>26. file'.size > 0 /\ Fits' => FileRight(p, file')
  BY <1>1, <1>15, ProgramStays DEF ElfInv
<1>27. 4 \in 0 .. 4
  OBVIOUS
<1>28. program' = p /\ hdr' \in Header(p)
  BY <1>1, <1>15, <1>18, <1>19
<1>29. QED
  BY <1>2, <1>4, <1>24, <1>25, <1>26, <1>27, <1>28 DEF ElfInv

\* All sections are output: the final file.
LEMMA SegmentsEndStep ==
  ASSUME ElfInv, EndSegments
  PROVE  ElfInv'
<1>1. PICK p \in Programs : p = program
  BY DEF ElfInv
<1>2. PICK all \in Nat : all = Len(p.symbols) + 1 /\ all \in 0 .. (Len(p.symbols) + 1)
  BY ProgramFacts
<1>3. PICK count \in 0 .. Len(p.sections) : count = Len(p.sections)
  BY ProgramFacts
<1>4. item = count + 1 /\ phase = "segments" /\ count = item - 1
  BY <1>1, <1>3 DEF EndSegments, Sections
<1>5. Built(p, 4, all, all, count) /\ hdr \in Header(p)
  BY <1>1, <1>2, <1>4, InSegments
<1>6. UNCHANGED <<program, hdr, chunks, binsize, stale, nextName, namelist, item>>
  BY DEF EndSegments
<1>7. Built(p, 4, all, all, count)'
  BY <1>5, <1>6, ProgramStays DEF Built
<1>8. Reached(p, 4, all, all, count)'
  BY <1>2, <1>3 DEF Reached, EndSegments
<1>9. file' = [hdr |-> hdr', chunks |-> chunks', size |-> binsize']
  BY DEF EndSegments, WriteFile
<1>10. file'.size > 0 /\ Fits' => FileRight(p, file')
  <2>1. PICK f, d, cs, n : f = file' /\ d = hdr /\ cs = chunks /\ n = binsize
    OBVIOUS
  <2>2. f = [hdr |-> d, chunks |-> cs, size |-> n]
    BY <1>6, <1>9, <2>1
  <2>3. f.hdr = d /\ f.chunks = cs /\ f.size = n
    BY <2>2
  <2>4. Tiled(cs, n) /\ Contents(p, cs, 4, all, all)
    BY <1>5, <2>1 DEF Built
  <2>5. Fits => Headers(p, d, 4, all, all, 0)
    BY <1>5, <2>1 DEF Built, Headers
  <2>6. Fits => FileRight(p, f)
    BY <1>2, <2>3, <2>4, <2>5 DEF FileRight
  <2>7. QED
    BY <1>6, <2>1, <2>6, ProgramStays
<1>11. 4 \in 0 .. 4
  OBVIOUS
<1>12. program' = p /\ hdr' \in Header(p)
  BY <1>1, <1>5, <1>6
<1>13. QED
  BY <1>2, <1>3, <1>7, <1>8, <1>9, <1>10, <1>11, <1>12 DEF ElfInv

LEMMA FaultStep ==
  ASSUME ElfInv, Fault
  PROVE  ElfInv'
<1>1. UNCHANGED <<program, hdr, file>> /\ phase' = "crashed"
  BY DEF Fault
<1>2. file'.size > 0 /\ Fits' => FileRight(program', file')
  BY <1>1, ProgramStays DEF ElfInv
<1>3. QED
  BY <1>1, <1>2 DEF ElfInv

LEMMA UnchangedStep ==
  ASSUME ElfInv, UNCHANGED elfVars
  PROVE  ElfInv'
<1>1. /\ UNCHANGED <<program, hdr, chunks, binsize, stale, nextName, namelist, item>>
      /\ UNCHANGED <<file, phase>>
  BY DEF elfVars
<1>2. file'.size > 0 /\ Fits' => FileRight(program', file')
  BY <1>1, ProgramStays DEF ElfInv
<1>3. PICK p : p = program
  OBVIOUS
<1>4. \A names, strings, records, outputs :
        /\ Reached(p, names, strings, records, outputs)
             => Reached(p, names, strings, records, outputs)'
        /\ Built(p, names, strings, records, outputs)
             => Built(p, names, strings, records, outputs)'
  BY <1>1, ProgramStays DEF Reached, Built
<1>5. QED
  BY <1>1, <1>2, <1>3, <1>4 DEF ElfInv

LEMMA Begin ==
  ASSUME ElfInit
  PROVE  ElfInv
<1>1. PICK p \in Programs : p = program
  BY DEF ElfInit
<1>2. PICK h : h = hdr
  OBVIOUS
<1>3. DOMAIN p.sections = 1 .. Len(p.sections) /\ HeadersSize(p) \in Nat
  BY ProgramFacts
<1>4. h = [entry |-> 0, sh |-> [k \in 1 .. 3 |-> NoShdr],
           ph |-> [i \in 1 .. Len(p.sections) |-> NoPhdr]]
  BY <1>1, <1>2, <1>3 DEF ElfInit
<1>5. /\ h.entry = 0 /\ h.sh = [k \in 1 .. 3 |-> NoShdr]
      /\ h.ph = [i \in 1 .. Len(p.sections) |-> NoPhdr]
  BY <1>4
<1>6. h \in Header(p)
  <2>1. NoShdr \in Shdr
    BY DEF NoShdr, Shdr
  <2>2. NoPhdr \in Phdr
    BY DEF NoPhdr, Phdr
  <2>3. h.sh \in [1 .. 3 -> Shdr] /\ h.ph \in [1 .. Len(p.sections) -> Phdr]
    BY <1>5, <2>1, <2>2
  <2>4. QED
    BY <1>3, <1>4, <1>5, <2>3 DEF Header
<1>7. Reached(p, 0, 0, 0, 0)
  BY DEF Reached, ElfInit
<1>8. Built(p, 0, 0, 0, 0)
  <2>1. binsize = End(p, 0, 0, 0, 0)
    <3>1. binsize = HeadersSize(p)
      BY <1>1 DEF ElfInit, HeadersSize
    <3>2. QED
      BY <3>1, Positions
  <2>2. ~ stale /\ chunks = <<>>
    BY DEF ElfInit
  <2>3. Tiled(<<>>, binsize)
    <3>1. <<>> \in Seq(Chunk) /\ DOMAIN <<>> = {}
      OBVIOUS
    <3>2. QED
      BY <3>1 DEF Tiled
  <2>4. Contents(p, chunks, 0, 0, 0)
    BY DEF Contents
  <2>5. Offsets(p, namelist, nextName, 0, 0)
    <3>1. namelist = [k \in {Shstrtab, Strtab} |-> <<>>]
      BY DEF ElfInit
    <3>2. <<>> \in Seq(Nat) /\ Len(<<>>) = 0
      OBVIOUS
    <3>3. /\ namelist \in [{Shstrtab, Strtab} -> Seq(Nat)]
          /\ Len(namelist[Shstrtab]) = 0 /\ Len(namelist[Strtab]) = 0
      BY <3>1, <3>2
    <3>4. QED
      BY <3>3 DEF Offsets
  <2>6. Placeable(p, h, chunks)
    BY <1>5 DEF Placeable
  <2>7. Headers(p, h, 0, 0, 0, 0)
    <3>1. Shstrtab \in 1 .. 3 /\ Strtab \in 1 .. 3 /\ Symtab \in 1 .. 3
      BY DEF Shstrtab, Strtab, Symtab
    <3>2. h.sh[Shstrtab] = NoShdr /\ h.sh[Strtab] = NoShdr /\ h.sh[Symtab] = NoShdr
      BY <1>5, <3>1
    <3>3. NamesHeader(p, 0) = NoShdr /\ StringsHeader(p, 0) = NoShdr /\ SymbolsHeader(p, 0) = NoShdr
      BY DEF NamesHeader, StringsHeader, SymbolsHeader
    <3>4. \A i \in 1 .. 0 : h.ph[i] = Segment(p.sections[i], SectionAt(p, i))
      OBVIOUS
    <3>5. QED
      BY <3>2, <3>3, <3>4 DEF Headers
  <2>8. QED
    BY <1>2, <2>1, <2>2, <2>3, <2>4, <2>5, <2>6, <2>7 DEF Built
<1>9. ~ (file.size > 0) /\ phase = "start"
  BY DEF ElfInit, NoFile
<1>10. QED
  BY <1>1, <1>2, <1>6, <1>7, <1>8, <1>9, Ranged DEF ElfInv

\* In every state of the writer the vector, the headers and the tables are
\* those of the names, symbols and sections that were added so far (the loops
\* of Elf_Writer).
THEOREM ElfInvariant == ElfSpec => []ElfInv
<1>1. ElfInit => ElfInv
  BY Begin
<1>2. ElfInv /\ [ElfNext]_elfVars => ElfInv'
  <2> SUFFICES ASSUME ElfInv, [ElfNext]_elfVars
               PROVE  ElfInv'
    OBVIOUS
  <2>1. CASE WriteHeader
    BY <2>1, HeaderStep
  <2>2. CASE SectionNamesStep
    BY <2>2, NamesBeginStep, NameStep, NamesEndStep DEF SectionNamesStep
  <2>3. CASE SymbolNamesStep
    BY <2>3, StringsBeginStep, StringStep, StringsEndStep DEF SymbolNamesStep
  <2>4. CASE OpenSymbols
    BY <2>4, SymbolsBeginStep
  <2>5. CASE AddSymbol
    BY <2>5, SymbolStep
  <2>6. CASE EndSymbols
    BY <2>6, SymbolsEndStep
  <2>7. CASE AddSegment
    BY <2>7, SegmentStep
  <2>8. CASE EndSegments
    BY <2>8, SegmentsEndStep
  <2>9. CASE Fault
    BY <2>9, FaultStep
  <2>10. CASE ElfStopped \/ UNCHANGED elfVars
    BY <2>10, UnchangedStep DEF ElfStopped
  <2>11. QED
    BY <2>1, <2>2, <2>3, <2>4, <2>5, <2>6, <2>7, <2>8, <2>9, <2>10 DEF ElfNext
<1>3. QED
  BY <1>1, <1>2, PTL DEF ElfSpec

-----------------------------------------------------------------------------
(***************************************************************************)
(* What a reader finds                                                     *)
(***************************************************************************)

\* However large the program, a program header of the final file is empty or
\* has the attributes and the address of its section and leads to its output
\* (Elf_Writer's add_segment, with its references into the growing vector).
THEOREM SegmentsAreRightOrMissing == ElfSpec => []SegmentsRightOrMissing
<1>1. ElfInv => SegmentsRightOrMissing
  <2> SUFFICES ASSUME ElfInv, phase = "written", NEW i \in DOMAIN Sections
               PROVE  \/ file.hdr.ph[i] = NoPhdr
                      \/ /\ file.hdr.ph[i] = Segment(Sections[i], file.hdr.ph[i].offset)
                         /\ [kind |-> "section", index |-> i]
                              \in FoundAt(file, file.hdr.ph[i].offset)
    BY DEF SegmentsRightOrMissing
  <2>1. PICK p \in Programs : p = program
    BY DEF ElfInv
  <2>2. Sections = p.sections /\ i \in 1 .. Len(p.sections)
    BY <2>1, ProgramFacts DEF Sections
  <2>3. file.hdr = hdr /\ file.chunks = chunks
    BY DEF ElfInv
  <2>4. Placeable(p, hdr, chunks)
    BY <2>1 DEF ElfInv, Built
  <2>5. \A at, w : Has(chunks, at, w) => w \in FoundAt(file, at)
    BY <2>3 DEF Has, FoundAt
  <2>6. QED
    BY <2>2, <2>3, <2>4, <2>5 DEF Placeable
<1>2. QED
  BY <1>1, ElfInvariant, PTL

\* Nothing but an empty section is found at the position of another chunk.
LEMMA FoundOnce ==
  ASSUME NEW f, Tiled(f.chunks, f.size), NEW at, NEW what, Has(f.chunks, at, what),
         what.kind # "section"
  PROVE  /\ what \in FoundAt(f, at)
         /\ \A w \in FoundAt(f, at) : w.kind # "section" => w = what
<1>1. PICK i \in DOMAIN f.chunks : f.chunks[i].at = at /\ f.chunks[i].what = what
  BY DEF Has
<1>2. ASSUME NEW w \in FoundAt(f, at), w.kind # "section"
      PROVE  w = what
  <2>1. PICK j \in DOMAIN f.chunks : f.chunks[j].at = at /\ f.chunks[j].what = w
    BY DEF FoundAt
  <2>2. i = j
    BY <1>1, <1>2, <2>1, OneAtEach
  <2>3. QED
    BY <1>1, <2>1, <2>2
<1>3. QED
  BY <1>1, <1>2 DEF FoundAt

LEMMA NameFound ==
  ASSUME NEW f, Tiled(f.chunks, f.size), NEW table, NEW offset, NEW name,
         Has(f.chunks, f.hdr.sh[table].offset + offset, [kind |-> "name", name |-> name])
  PROVE  NameIn(f, table, offset) = {name}
<1>1. PICK at, what :
        at = f.hdr.sh[table].offset + offset /\ what = [kind |-> "name", name |-> name]
  OBVIOUS
<1>2. what.kind = "name" /\ what.name = name
  BY <1>1
<1>3. what \in FoundAt(f, at) /\ \A w \in FoundAt(f, at) : w.kind # "section" => w = what
  BY <1>1, <1>2, FoundOnce
<1>4. { w \in FoundAt(f, at) : w.kind = "name" } = {what}
  BY <1>2, <1>3
<1>5. NameIn(f, table, offset) = { w.name : w \in {what} }
  BY <1>1, <1>4 DEF NameIn
<1>6. QED
  BY <1>2, <1>5

LEMMA RecordFound ==
  ASSUME NEW f, Tiled(f.chunks, f.size), NEW i, NEW what, what.kind = "sym",
         Has(f.chunks, f.hdr.sh[Symtab].offset + i * SymSize, what)
  PROVE  RecordAt(f, i) = {what}
<1>1. PICK at : at = f.hdr.sh[Symtab].offset + i * SymSize
  OBVIOUS
<1>2. what \in FoundAt(f, at) /\ \A w \in FoundAt(f, at) : w.kind # "section" => w = what
  BY <1>1, FoundOnce
<1>3. QED
  BY <1>1, <1>2 DEF RecordAt

\* The headers of a complete file.
LEMMA HeadersRead ==
  ASSUME NEW p \in Programs, NEW h,
         Headers(p, h, 4, Len(p.symbols) + 1, Len(p.symbols) + 1, 0)
  PROVE  /\ h.sh[Shstrtab].offset = HeadersSize(p) /\ h.sh[Shstrtab].size = NamesSize(4)
         /\ h.sh[Strtab].offset = StringsAt(p)
         /\ h.sh[Strtab].size = StringsSize(p, Len(p.symbols) + 1)
         /\ h.sh[Symtab].offset = SymbolsAt(p)
         /\ h.sh[Symtab].size = SymSize * (Len(p.symbols) + 1)
         /\ h.sh[Symtab].info = Len(p.symbols) + 1
         /\ h.sh[Symtab].link = Strtab
         /\ \A k \in 1 .. 3 : h.sh[k].name = NameOffset(k)
<1>1. PICK all \in Nat : all = Len(p.symbols) + 1 /\ all # 0
  BY ProgramFacts
<1>2. /\ h.sh[Shstrtab] = NamesHeader(p, 4)
      /\ h.sh[Strtab] = StringsHeader(p, all)
      /\ h.sh[Symtab] = SymbolsHeader(p, all)
  BY <1>1 DEF Headers
<1>3. NamesHeader(p, 4) = TableHeader(NameOffset(1), HeadersSize(p), NamesSize(4), 0, 0)
  BY DEF NamesHeader
<1>4. StringsHeader(p, all)
        = TableHeader(NameOffset(Strtab), StringsAt(p), StringsSize(p, all), 0, 0)
  BY <1>1 DEF StringsHeader
<1>5. SymbolsHeader(p, all)
        = TableHeader(NameOffset(Symtab), SymbolsAt(p), SymSize * all, all, Strtab)
  BY <1>1 DEF SymbolsHeader
<1>6. \A n, o, s, x, l :
        /\ TableHeader(n, o, s, x, l).name = n /\ TableHeader(n, o, s, x, l).offset = o
        /\ TableHeader(n, o, s, x, l).size = s /\ TableHeader(n, o, s, x, l).info = x
        /\ TableHeader(n, o, s, x, l).link = l
  BY DEF TableHeader
<1>7. /\ h.sh[Shstrtab].offset = HeadersSize(p) /\ h.sh[Shstrtab].size = NamesSize(4)
      /\ h.sh[Shstrtab].name = NameOffset(1)
  BY <1>2, <1>3, <1>6
<1>8. /\ h.sh[Strtab].offset = StringsAt(p) /\ h.sh[Strtab].size = StringsSize(p, all)
      /\ h.sh[Strtab].name = NameOffset(Strtab)
  BY <1>2, <1>4, <1>6
<1>9. /\ h.sh[Symtab].offset = SymbolsAt(p) /\ h.sh[Symtab].size = SymSize * all
      /\ h.sh[Symtab].info = all /\ h.sh[Symtab].link = Strtab
      /\ h.sh[Symtab].name = NameOffset(Symtab)
  BY <1>2, <1>5, <1>6
<1>10. \A k \in 1 .. 3 : h.sh[k].name = NameOffset(k)
  <2>1. Shstrtab = 1 /\ Symtab = 2 /\ Strtab = 3
    BY DEF Shstrtab, Symtab, Strtab
  <2>2. h.sh[1].name = NameOffset(1) /\ h.sh[2].name = NameOffset(2) /\ h.sh[3].name = NameOffset(3)
    BY <1>7, <1>8, <1>9, <2>1
  <2>3. QED
    BY <2>2
<1>11. QED
  BY <1>1, <1>7, <1>8, <1>9, <1>10

\* The tables and the symbols of a file that is right.
LEMMA TablesFound ==
  ASSUME NEW p \in Programs, NEW f, FileRight(p, f), NEW k \in 1 .. 3
  PROVE  NameIn(f, Shstrtab, f.hdr.sh[k].name) = {SectionNamesTable[k]}
<1>1. /\ f.hdr.sh[Shstrtab].offset = HeadersSize(p) /\ f.hdr.sh[k].name = NameOffset(k)
  BY HeadersRead DEF FileRight
<1>2. Has(f.chunks, HeadersSize(p) + NameOffset(k),
          [kind |-> "name", name |-> SectionNamesTable[k]])
  BY DEF FileRight, Contents
<1>3. QED
  BY <1>1, <1>2, NameFound DEF FileRight

LEMMA SymbolFound ==
  ASSUME NEW p \in Programs, NEW f, FileRight(p, f), NEW i \in 1 .. Len(p.symbols)
  PROVE  /\ RecordAt(f, i) = {RecordOf(p, i)}
         /\ NameIn(f, f.hdr.sh[Symtab].link, RecordOf(p, i).name) = {p.symbols[i].name}
<1>1. /\ f.hdr.sh[Symtab].offset = SymbolsAt(p) /\ f.hdr.sh[Symtab].link = Strtab
      /\ f.hdr.sh[Strtab].offset = StringsAt(p)
  BY HeadersRead DEF FileRight
<1>2. i \in 1 .. (Len(p.symbols) + 1 - 1) /\ i \in Nat
  BY ProgramFacts
<1>3. /\ Has(f.chunks, StringsAt(p) + StringOffset(p, i),
             [kind |-> "name", name |-> p.symbols[i].name])
      /\ Has(f.chunks, SymbolsAt(p) + SymSize * i, RecordOf(p, i))
  BY <1>2 DEF FileRight, Contents
<1>4. SymSize * i = i * SymSize
  BY <1>2, SizeAssumption
<1>5. RecordOf(p, i).kind = "sym" /\ RecordOf(p, i).name = StringOffset(p, i)
  BY DEF RecordOf
<1>6. RecordAt(f, i) = {RecordOf(p, i)}
  BY <1>1, <1>3, <1>4, <1>5, RecordFound DEF FileRight
<1>7. NameIn(f, Strtab, StringOffset(p, i)) = {p.symbols[i].name}
  BY <1>1, <1>3, NameFound DEF FileRight
<1>8. QED
  BY <1>1, <1>5, <1>6, <1>7

LEMMA RightIsFound ==
  ASSUME NEW p \in Programs, program = p, FileRight(p, file)
  PROVE  SymbolsAreFound
<1>1. PICK n \in Nat : n = Len(p.symbols)
  BY ProgramFacts
<1>2. /\ file.hdr.sh[Symtab].size = SymSize * (n + 1) /\ file.hdr.sh[Symtab].info = n + 1
  BY <1>1, HeadersRead DEF FileRight
<1>3. file.hdr.sh[Symtab].info - 1 = n
  BY <1>2
<1>4. PICK records :
        records = UNION { RecordAt(file, i) : i \in 1 .. (file.hdr.sh[Symtab].info - 1) }
  OBVIOUS
<1>5. records = { RecordOf(p, i) : i \in 1 .. n }
  <2>1. records = UNION { RecordAt(file, i) : i \in 1 .. n }
    BY <1>3, <1>4
  <2>2. \A i \in 1 .. n : RecordAt(file, i) = {RecordOf(p, i)}
    BY <1>1, SymbolFound
  <2>3. QED
    BY <2>1, <2>2
<1> DEFINE Read(r) == <<r.value, r.size, NameIn(file, file.hdr.sh[Symtab].link, r.name)>>
           Want(i) == <<p.symbols[i].addr % AddrMod, p.symbols[i].size, {p.symbols[i].name}>>
<1>6. ASSUME NEW i \in 1 .. n
      PROVE  Read(RecordOf(p, i)) = Want(i)
  <2>1. NameIn(file, file.hdr.sh[Symtab].link, RecordOf(p, i).name) = {p.symbols[i].name}
    BY <1>1, SymbolFound
  <2>2. /\ RecordOf(p, i).value = p.symbols[i].addr % AddrMod
        /\ RecordOf(p, i).size = p.symbols[i].size
    BY DEF RecordOf
  <2>3. QED
    BY <2>1, <2>2
<1>7. Symbols = p.symbols /\ DOMAIN Symbols = 1 .. n
  BY <1>1, ProgramFacts DEF Symbols
<1>8. { Want(i) : i \in DOMAIN Symbols }
        = { <<Symbols[i].addr % AddrMod, Symbols[i].size, {Symbols[i].name}>> :
              i \in DOMAIN Symbols }
  BY <1>7
<1>9. { Read(r) : r \in records } = { Want(i) : i \in DOMAIN Symbols }
  <2> HIDE DEF Read, Want
  <2>1. QED
    BY <1>5, <1>6, <1>7
<1>10. \A k \in 1 .. 3 : NameIn(file, Shstrtab, file.hdr.sh[k].name) = {SectionNamesTable[k]}
  BY TablesFound
<1>11. { <<r.value, r.size, NameIn(file, file.hdr.sh[Symtab].link, r.name)>> :
           r \in UNION { RecordAt(file, i) : i \in 1 .. (file.hdr.sh[Symtab].info - 1) } }
         = { <<Symbols[i].addr % AddrMod, Symbols[i].size, {Symbols[i].name}>> :
               i \in DOMAIN Symbols }
  BY <1>4, <1>8, <1>9, Zenon
<1>12. file.hdr.sh[Symtab].size = SymSize * file.hdr.sh[Symtab].info
  BY <1>2
<1> HIDE DEF Read, Want
<1>13. QED
  BY <1>10, <1>11, <1>12 DEF SymbolsAreFound

\* Every symbol of the first and of the final file is found, under its name
\* and with its value, by following the headers, if the headers and tables
\* fit in what is reserved (Elf_Writer's string and symbol sections).
THEOREM SymbolsFollowTheHeaders == ElfSpec => []SymbolsAreFound
<1>1. ElfInv => SymbolsAreFound
  <2> SUFFICES ASSUME ElfInv, file.size > 0 /\ Fits
               PROVE  SymbolsAreFound
    BY DEF SymbolsAreFound
  <2>1. program \in Programs /\ FileRight(program, file)
    BY DEF ElfInv
  <2>2. QED
    BY <2>1, RightIsFound
<1>2. QED
  BY <1>1, ElfInvariant, PTL

-----------------------------------------------------------------------------
(***************************************************************************)
(* The parts of the file                                                   *)
(***************************************************************************)

Region(at, len) == [at |-> at, len |-> len]

LEMMA RegionIs ==
  /\ \A a, n : Region(a, n).at = a /\ Region(a, n).len = n
  /\ \A a, n, b, m : Region(a, n) = Region(b, m) => a = b /\ n = m
<1>1. \A a, n : Region(a, n).at = a /\ Region(a, n).len = n
  BY DEF Region
<1>2. ASSUME NEW a, NEW n, NEW b, NEW m, Region(a, n) = Region(b, m)
      PROVE  a = b /\ n = m
  <2>1. Region(a, n).at = Region(b, m).at /\ Region(a, n).len = Region(b, m).len
    BY <1>2, Zenon
  <2>2. QED
    BY <1>1, <2>1
<1>3. QED
  BY <1>1, <1>2

Filled(regions) == { r \in regions : r.len > 0 }

\* The headers and the three tables; the outputs come behind them.
FirstFour(b1, l2, b2, l3, b3, l4) ==
  {Region(0, b1), Region(b1, l2), Region(b2, l3), Region(b3, l4)}

Chained(b1, l2, b2, l3, b3, l4, b4, end) ==
  /\ {b1, l2, b2, l3, b3, l4, b4, end} \subseteq Nat
  /\ 0 < b1 /\ 0 < l2 /\ 0 < l3 /\ 0 < l4 /\ b4 <= end
  /\ b1 + l2 = b2 /\ b2 + l3 = b3 /\ b3 + l4 = b4

Disjoint(parts) ==
  \A a, b \in parts : a # b => a.at + a.len <= b.at \/ b.at + b.len <= a.at

Within(parts, end) == \A a \in parts : a.at + a.len <= end

\* The regions are in the order of their indices.
Follow(at, len, n) == \A i, j \in 1 .. n : i < j => at[i] + len[i] <= at[j]

Between(at, len, n, b, end) == \A i \in 1 .. n : b <= at[i] /\ at[i] + len[i] <= end

Described(len, n) == { i \in 1 .. n : len[i] > 0 }

Outputs(at, len, indices) == { Region(at[i], len[i]) : i \in indices }

Arranged(n, at, len, b, end) ==
  /\ n \in Nat /\ at \in [1 .. n -> Nat] /\ len \in [1 .. n -> Nat]
  /\ Between(at, len, n, b, end) /\ Follow(at, len, n)

Laid(b1, l2, b2, l3, b3, l4, at, len, n) ==
  Filled(FirstFour(b1, l2, b2, l3, b3, l4) \cup Outputs(at, len, 1 .. n))

\* Regions that follow one another are as many as their descriptions.
LEMMA OutputsCounted ==
  ASSUME NEW n \in Nat, NEW at \in [1 .. n -> Nat], NEW len \in [1 .. n -> Nat],
         Follow(at, len, n),
         NEW filled, filled = Described(len, n)
  PROVE  /\ IsFiniteSet(Outputs(at, len, filled))
         /\ Cardinality(Outputs(at, len, filled)) = Cardinality(filled)
         /\ Cardinality(filled) \in Nat
<1>1. PICK outs : outs = Outputs(at, len, filled) /\ outs = { Region(at[i], len[i]) : i \in filled }
  BY DEF Outputs
<1>2. IsFiniteSet(filled)
  <2>1. IsFiniteSet(1 .. n)
    BY FS_Interval
  <2>2. filled \in SUBSET (1 .. n)
    BY DEF Described
  <2>3. QED
    BY <2>1, <2>2, FS_Subset
<1>3. PICK f : f = [i \in filled |-> Region(at[i], len[i])]
  OBVIOUS
<1>4. f \in [filled -> outs] /\ \A i \in filled : f[i] = Region(at[i], len[i])
  BY <1>1, <1>3
<1>5. ASSUME NEW i \in filled, NEW j \in filled, f[i] = f[j]
      PROVE  i = j
  <2>1. at[i] = at[j] /\ len[i] = len[j]
    BY <1>4, <1>5, RegionIs
  <2>2. i \in 1 .. n /\ j \in 1 .. n /\ len[i] > 0 /\ len[j] > 0
    BY DEF Described
  <2>3. at[i] \in Nat /\ len[i] \in Nat /\ at[j] \in Nat /\ len[j] \in Nat
    BY <2>2
  <2>4. ~ (i < j) /\ ~ (j < i)
    BY <2>1, <2>2, <2>3 DEF Follow
  <2>5. QED
    BY <2>2, <2>4
<1>6. \A r \in outs : \E i \in filled : f[i] = r
  BY <1>1, <1>4
<1>7. f \in Bijection(filled, outs)
  BY <1>4, <1>5, <1>6 DEF Bijection, Injection, Surjection, IsInjective
<1>8. ExistsBijection(filled, outs)
  BY <1>7 DEF ExistsBijection
<1>9. QED
  BY <1>1, <1>2, <1>8, FS_Bijection, FS_CardinalityType

LEMMA FourMore ==
  ASSUME NEW s0, IsFiniteSet(s0), Cardinality(s0) \in Nat, NEW r1, NEW r2, NEW r3, NEW r4,
         r1 \notin s0, r2 \notin s0, r3 \notin s0, r4 \notin s0,
         r1 # r2, r1 # r3, r1 # r4, r2 # r3, r2 # r4, r3 # r4
  PROVE  Cardinality(s0 \cup {r1, r2, r3, r4}) = 4 + Cardinality(s0)
<1>1. PICK s1, s2, s3, s4 :
        s1 = s0 \cup {r1} /\ s2 = s1 \cup {r2} /\ s3 = s2 \cup {r3} /\ s4 = s3 \cup {r4}
  OBVIOUS
<1>2. r2 \notin s1 /\ r3 \notin s2 /\ r4 \notin s3
  BY <1>1
<1>3. IsFiniteSet(s1) /\ Cardinality(s1) = Cardinality(s0) + 1
  BY <1>1, FS_AddElement, Zenon
<1>4. IsFiniteSet(s2) /\ Cardinality(s2) = Cardinality(s1) + 1
  BY <1>1, <1>2, <1>3, FS_AddElement, Zenon
<1>5. IsFiniteSet(s3) /\ Cardinality(s3) = Cardinality(s2) + 1
  BY <1>1, <1>2, <1>4, FS_AddElement, Zenon
<1>6. IsFiniteSet(s4) /\ Cardinality(s4) = Cardinality(s3) + 1
  BY <1>1, <1>2, <1>5, FS_AddElement, Zenon
<1>7. s4 = s0 \cup {r1, r2, r3, r4}
  BY <1>1
<1>8. Cardinality(s4) = 4 + Cardinality(s0)
  <2>1. PICK c0, c1, c2, c3, c4 :
          /\ c0 = Cardinality(s0) /\ c1 = Cardinality(s1) /\ c2 = Cardinality(s2)
          /\ c3 = Cardinality(s3) /\ c4 = Cardinality(s4)
    OBVIOUS
  <2>2. c0 \in Nat /\ c1 = c0 + 1 /\ c2 = c1 + 1 /\ c3 = c2 + 1 /\ c4 = c3 + 1
    BY <1>3, <1>4, <1>5, <1>6, <2>1, Zenon
  <2>3. c4 = 4 + c0
    BY <2>2
  <2>4. QED
    BY <2>1, <2>3, Zenon
<1>9. QED
  BY <1>7, <1>8

LEMMA PartsCounted ==
  ASSUME NEW n, NEW at, NEW len,
         NEW b1, NEW b2, NEW b3, NEW b4, NEW l2, NEW l3, NEW l4, NEW end,
         Chained(b1, l2, b2, l3, b3, l4, b4, end), Arranged(n, at, len, b4, end)
  PROVE  /\ Cardinality(Laid(b1, l2, b2, l3, b3, l4, at, len, n))
              = 4 + Cardinality(Described(len, n))
         /\ Disjoint(Laid(b1, l2, b2, l3, b3, l4, at, len, n))
         /\ Within(Laid(b1, l2, b2, l3, b3, l4, at, len, n), end)
<1> SUFFICES ASSUME n \in Nat, at \in [1 .. n -> Nat], len \in [1 .. n -> Nat],
                    Between(at, len, n, b4, end), Follow(at, len, n),
                    NEW parts, parts = Laid(b1, l2, b2, l3, b3, l4, at, len, n)
             PROVE  /\ Cardinality(parts) = 4 + Cardinality(Described(len, n))
                    /\ Disjoint(parts) /\ Within(parts, end)
  BY Zenon DEF Arranged
<1>1. /\ b1 \in Nat /\ b2 \in Nat /\ b3 \in Nat /\ b4 \in Nat /\ end \in Nat
      /\ l2 \in Nat /\ l3 \in Nat /\ l4 \in Nat
      /\ 0 < b1 /\ 0 < l2 /\ 0 < l3 /\ 0 < l4 /\ b4 <= end
      /\ b1 + l2 = b2 /\ b2 + l3 = b3 /\ b3 + l4 = b4
  BY DEF Chained
<1>2. PICK filled : filled = Described(len, n) /\ filled = { i \in 1 .. n : len[i] > 0 }
  BY DEF Described
<1>3. PICK outs : outs = Outputs(at, len, filled) /\ outs = { Region(at[i], len[i]) : i \in filled }
  BY DEF Outputs
<1>4. PICK r1, r2, r3, r4 :
        r1 = Region(0, b1) /\ r2 = Region(b1, l2) /\ r3 = Region(b2, l3) /\ r4 = Region(b3, l4)
  OBVIOUS
<1>5. /\ r1.at = 0 /\ r1.len = b1 /\ r2.at = b1 /\ r2.len = l2
      /\ r3.at = b2 /\ r3.len = l3 /\ r4.at = b3 /\ r4.len = l4
  BY <1>4, RegionIs
<1>6. ASSUME NEW i \in filled
      PROVE  /\ i \in 1 .. n /\ len[i] > 0 /\ at[i] \in Nat /\ len[i] \in Nat
             /\ Region(at[i], len[i]).at = at[i] /\ Region(at[i], len[i]).len = len[i]
  BY <1>2, RegionIs
<1>7. ASSUME NEW r \in outs
      PROVE  r.at \in Nat /\ r.len \in Nat /\ b4 <= r.at /\ r.at + r.len <= end /\ r.len > 0
  <2>1. PICK i \in filled : r = Region(at[i], len[i])
    BY <1>3
  <2>2. QED
    BY <1>1, <1>6, <2>1 DEF Between
<1>8. PICK fixed : fixed = {r1, r2, r3, r4} /\ parts = outs \cup fixed
  <2>1. r1.len > 0 /\ r2.len > 0 /\ r3.len > 0 /\ r4.len > 0
    BY <1>1, <1>5
  <2>2. Filled(Outputs(at, len, 1 .. n)) = outs
    <3>1. \A i \in 1 .. n : Region(at[i], len[i]).len = len[i]
      BY RegionIs, Zenon
    <3>2. QED
      BY <1>2, <1>3, <3>1 DEF Filled, Outputs
  <2>3. Filled({r1, r2, r3, r4}) = {r1, r2, r3, r4}
    BY <2>1 DEF Filled
  <2>4. parts = Filled({r1, r2, r3, r4} \cup Outputs(at, len, 1 .. n))
    BY <1>4, Zenon DEF FirstFour, Laid
  <2>5. parts = Filled({r1, r2, r3, r4}) \cup Filled(Outputs(at, len, 1 .. n))
    BY <2>4 DEF Filled
  <2>6. parts = outs \cup {r1, r2, r3, r4}
    BY <2>2, <2>3, <2>5
  <2>7. QED
    BY <2>6
<1>9. Cardinality(parts) = 4 + Cardinality(filled)
  <2>1. /\ IsFiniteSet(outs) /\ Cardinality(outs) = Cardinality(filled)
        /\ Cardinality(filled) \in Nat /\ Cardinality(outs) \in Nat
    <3>1. /\ IsFiniteSet(Outputs(at, len, filled))
          /\ Cardinality(Outputs(at, len, filled)) = Cardinality(filled)
          /\ Cardinality(filled) \in Nat
      BY <1>2, OutputsCounted
    <3>2. QED
      BY <1>3, <3>1
  <2>2. r1 \notin outs /\ r2 \notin outs /\ r3 \notin outs /\ r4 \notin outs
    <3>1. ASSUME NEW r \in outs
          PROVE  r.at # r1.at /\ r.at # r2.at /\ r.at # r3.at /\ r.at # r4.at
      BY <1>1, <1>5, <1>7
    <3>2. QED
      BY <3>1, Zenon
  <2>3. /\ r1.at # r2.at /\ r1.at # r3.at /\ r1.at # r4.at
        /\ r2.at # r3.at /\ r2.at # r4.at /\ r3.at # r4.at
    BY <1>1, <1>5
  <2>4. r1 # r2 /\ r1 # r3 /\ r1 # r4 /\ r2 # r3 /\ r2 # r4 /\ r3 # r4
    BY <2>3, Zenon
  <2>5. Cardinality(outs \cup {r1, r2, r3, r4}) = 4 + Cardinality(outs)
    BY <2>1, <2>2, <2>4, FourMore
  <2>6. QED
    BY <1>8, <2>1, <2>5, Zenon
<1>11. ASSUME NEW r \in fixed
       PROVE  r.at \in Nat /\ r.len \in Nat /\ r.at + r.len <= b4
  <2>1. r = r1 \/ r = r2 \/ r = r3 \/ r = r4
    BY <1>8
  <2>2. CASE r = r1
    BY <1>1, <1>5, <2>2
  <2>3. CASE r = r2
    BY <1>1, <1>5, <2>3
  <2>4. CASE r = r3
    BY <1>1, <1>5, <2>4
  <2>5. CASE r = r4
    BY <1>1, <1>5, <2>5
  <2>6. QED
    BY <2>1, <2>2, <2>3, <2>4, <2>5
<1>12. /\ r1.at + r1.len <= r2.at /\ r1.at + r1.len <= r3.at /\ r1.at + r1.len <= r4.at
       /\ r2.at + r2.len <= r3.at /\ r2.at + r2.len <= r4.at /\ r3.at + r3.len <= r4.at
  BY <1>1, <1>5
<1>13. ASSUME NEW a \in parts
       PROVE  a.at + a.len <= end
  <2>1. CASE a \in outs
    BY <1>7, <2>1
  <2>2. CASE a \in fixed
    <3>1. a.at \in Nat /\ a.len \in Nat /\ a.at + a.len <= b4
      BY <1>11, <2>2
    <3>2. QED
      BY <1>1, <3>1
  <2>3. QED
    BY <1>8, <2>1, <2>2
<1>14. ASSUME NEW a \in outs, NEW b \in outs, a # b
       PROVE  a.at + a.len <= b.at \/ b.at + b.len <= a.at
  <2>1. PICK i \in filled, j \in filled : a = Region(at[i], len[i]) /\ b = Region(at[j], len[j])
    BY <1>3
  <2>2. i # j
    BY <1>14, <2>1
  <2>3. /\ a.at = at[i] /\ a.len = len[i] /\ b.at = at[j] /\ b.len = len[j]
        /\ i \in 1 .. n /\ j \in 1 .. n
    BY <1>6, <2>1
  <2>4. i < j \/ j < i
    BY <2>2, <2>3
  <2>5. QED
    BY <2>3, <2>4 DEF Follow
<1>15. ASSUME NEW a \in fixed, NEW b \in outs
       PROVE  a.at + a.len <= b.at
  <2>1. PICK x \in Nat, l \in Nat, y \in Nat, e \in Nat : x = a.at /\ l = a.len /\ y = b.at /\ e = b4
    BY <1>1, <1>7, <1>11
  <2>2. x + l <= e
    BY <1>11, <2>1
  <2>3. e <= y
    BY <1>7, <2>1
  <2>4. x + l <= y
    BY <2>2, <2>3
  <2>5. QED
    BY <2>1, <2>4
<1>16. ASSUME NEW a \in fixed, NEW b \in fixed, a # b
       PROVE  a.at + a.len <= b.at \/ b.at + b.len <= a.at
  <2> DEFINE Apart(x, y) == x.at + x.len <= y.at \/ y.at + y.len <= x.at
  <2>1. /\ Apart(r1, r2) /\ Apart(r1, r3) /\ Apart(r1, r4) /\ Apart(r2, r3)
        /\ Apart(r2, r4) /\ Apart(r3, r4) /\ Apart(r2, r1) /\ Apart(r3, r1)
        /\ Apart(r4, r1) /\ Apart(r3, r2) /\ Apart(r4, r2) /\ Apart(r4, r3)
    BY <1>12
  <2>2. (a = r1 \/ a = r2 \/ a = r3 \/ a = r4) /\ (b = r1 \/ b = r2 \/ b = r3 \/ b = r4)
    BY <1>8
  <2>3. Apart(a, b)
    <3> HIDE DEF Apart
    <3>1. QED
      BY <1>16, <2>1, <2>2
  <2>4. QED
    BY <2>3
<1>17. \A a, b \in parts : a # b => a.at + a.len <= b.at \/ b.at + b.len <= a.at
  BY <1>8, <1>14, <1>15, <1>16, Zenon
<1>18. QED
  BY <1>2, <1>9, <1>13, <1>17 DEF Disjoint, Within

\* Where the outputs of the sections are.
SectionPlaces(p) == [i \in 1 .. Len(p.sections) |-> SectionAt(p, i)]
FileSizes(p) ==
  [i \in 1 .. Len(p.sections) |-> IF Loadable(p.sections[i]) THEN p.sections[i].size ELSE 0]

LEMMA OutputsFollow ==
  ASSUME NEW p \in Programs, NEW n \in Nat, n = Len(p.sections), NEW at, at = SectionPlaces(p),
         NEW len, len = FileSizes(p), NEW all, all = Len(p.symbols) + 1
  PROVE  /\ at \in [1 .. n -> Nat] /\ len \in [1 .. n -> Nat]
         /\ Between(at, len, n, SectionAt(p, 1), End(p, 4, all, all, n))
         /\ Follow(at, len, n)
         /\ SectionAt(p, 1) \in Nat /\ SectionAt(p, 1) <= End(p, 4, all, all, n)
         /\ End(p, 4, all, all, n) \in Nat
<1>1. all \in 0 .. (Len(p.symbols) + 1) /\ 4 \in 0 .. 4
  BY ProgramFacts
<1>2. ASSUME NEW k \in 0 .. n, NEW m \in k .. n
      PROVE  End(p, 4, all, all, k) \in Nat /\ End(p, 4, all, all, k) <= End(p, 4, all, all, m)
  BY <1>1, EndFacts
<1>3. ASSUME NEW i \in 1 .. n
      PROVE  /\ SectionAt(p, i) \in Nat /\ SectionAt(p, i) = End(p, 4, all, all, i - 1)
             /\ p.sections[i].size \in Nat
             /\ End(p, 4, all, all, i) = SectionAt(p, i) + p.sections[i].size
  <2>1. i \in 1 .. (Len(p.sections) + 1) /\ i \in 1 .. Len(p.sections)
    OBVIOUS
  <2>2. SectionAt(p, i) \in Nat /\ SectionAt(p, i) = End(p, 4, all, all, i - 1)
    BY <2>1, Positions
  <2>3. p.sections[i].size \in Nat
    BY <2>1, SectionFacts
  <2>4. End(p, 4, all, all, i) = End(p, 4, all, all, i - 1) + p.sections[i].size
    BY <2>1, Growth
  <2>5. QED
    BY <2>2, <2>3, <2>4
<1>4. ASSUME NEW i \in 1 .. n
      PROVE  /\ at[i] = SectionAt(p, i) /\ at[i] \in Nat /\ len[i] \in Nat
             /\ at[i] + len[i] <= End(p, 4, all, all, i)
  <2>1. at[i] = SectionAt(p, i)
    BY DEF SectionPlaces
  <2>2. len[i] = 0 \/ len[i] = p.sections[i].size
    BY DEF FileSizes
  <2>3. QED
    BY <1>3, <2>1, <2>2
<1>5. at \in [1 .. n -> Nat] /\ len \in [1 .. n -> Nat]
  <2>1. /\ at = [i \in 1 .. n |-> SectionAt(p, i)]
        /\ len = [i \in 1 .. n |-> IF Loadable(p.sections[i]) THEN p.sections[i].size ELSE 0]
    BY DEF SectionPlaces, FileSizes
  <2>2. QED
    BY <1>3, <2>1
<1>6. n >= 1
  BY ProgramFacts
<1>7. SectionAt(p, 1) \in Nat /\ SectionAt(p, 1) = End(p, 4, all, all, 0)
  <2>1. 1 \in 1 .. n /\ 1 - 1 = 0
    BY <1>6
  <2>2. QED
    BY <1>3, <2>1
<1>8. ASSUME NEW i \in 1 .. n
      PROVE  SectionAt(p, 1) <= at[i] /\ at[i] + len[i] <= End(p, 4, all, all, n)
  <2>1. PICK k \in 0 .. n : k = i - 1
    OBVIOUS
  <2>2. 0 \in 0 .. n /\ k \in 0 .. n /\ n \in i .. n /\ i \in 0 .. n
    BY <2>1
  <2>3. End(p, 4, all, all, 0) <= End(p, 4, all, all, k)
    BY <1>2, <2>2
  <2>4. at[i] = End(p, 4, all, all, k)
    BY <1>3, <1>4, <2>1
  <2>5. /\ End(p, 4, all, all, i) \in Nat /\ End(p, 4, all, all, n) \in Nat
        /\ End(p, 4, all, all, i) <= End(p, 4, all, all, n)
    BY <1>2, <2>2
  <2>6. SectionAt(p, 1) <= at[i]
    BY <1>7, <2>3, <2>4
  <2>7. at[i] + len[i] <= End(p, 4, all, all, n)
    BY <1>4, <2>5
  <2>8. QED
    BY <2>6, <2>7
<1>9. ASSUME NEW i \in 1 .. n, NEW j \in 1 .. n, i < j
      PROVE  at[i] + len[i] <= at[j]
  <2>1. PICK k \in 0 .. n : k = j - 1
    OBVIOUS
  <2>2. i \in 0 .. n /\ k \in i .. n
    BY <1>9, <2>1
  <2>3. End(p, 4, all, all, i) \in Nat /\ End(p, 4, all, all, i) <= End(p, 4, all, all, k)
    BY <1>2, <2>2
  <2>4. at[j] = End(p, 4, all, all, k)
    BY <1>3, <1>4, <2>1
  <2>5. QED
    BY <1>4, <2>3, <2>4
<1>10. SectionAt(p, 1) <= End(p, 4, all, all, n) /\ End(p, 4, all, all, n) \in Nat
  <2>1. 0 \in 0 .. n /\ n \in 0 .. n /\ n \in n .. n
    OBVIOUS
  <2>2. QED
    BY <1>2, <1>7, <2>1
<1>11. QED
  BY <1>5, <1>7, <1>8, <1>9, <1>10 DEF Follow, Between

LEMMA RangesAre ==
  ASSUME NEW p \in Programs, program = p, NEW n \in Nat, n = Len(p.sections),
         NEW all, all = Len(p.symbols) + 1, NEW f, f.hdr \in Header(p),
         Headers(p, f.hdr, 4, all, all, n)
  PROVE  /\ Ranges(f) = FirstFour(HeadersSize(p), NamesSize(4), StringsAt(p), StringsSize(p, all),
                                  SymbolsAt(p), SymSize * all)
                          \cup Outputs(SectionPlaces(p), FileSizes(p), 1 .. n)
         /\ Parts(f) = 4 + Cardinality(Described(FileSizes(p), n))
<1>1. PICK h : h = f.hdr
  OBVIOUS
<1>2. DOMAIN h.ph = 1 .. n
  BY <1>1, ProgramFacts DEF Header
<1>3. /\ h.sh[1].offset = HeadersSize(p) /\ h.sh[1].size = NamesSize(4)
      /\ h.sh[2].offset = SymbolsAt(p) /\ h.sh[2].size = SymSize * all
      /\ h.sh[3].offset = StringsAt(p) /\ h.sh[3].size = StringsSize(p, all)
  <2>1. Headers(p, h, 4, all, all, 0)
    BY <1>1 DEF Headers
  <2>2. QED
    BY <2>1, HeadersRead DEF Shstrtab, Symtab, Strtab
<1>4. ASSUME NEW i \in 1 .. n
      PROVE  h.ph[i].offset = SectionPlaces(p)[i] /\ h.ph[i].filesz = FileSizes(p)[i]
  <2>1. h.ph[i] = Segment(p.sections[i], SectionAt(p, i))
    BY <1>1 DEF Headers
  <2>2. QED
    BY <2>1 DEF Segment, SectionPlaces, FileSizes
<1>5. HeaderSize = HeadersSize(p)
  BY DEF HeaderSize, HeadersSize, Sections
<1>6. { [at |-> h.sh[k].offset, len |-> h.sh[k].size] : k \in 1 .. 3 }
        = {Region(HeadersSize(p), NamesSize(4)), Region(StringsAt(p), StringsSize(p, all)),
           Region(SymbolsAt(p), SymSize * all)}
  <2>1. 1 .. 3 = {1, 2, 3}
    OBVIOUS
  <2>2. { [at |-> h.sh[k].offset, len |-> h.sh[k].size] : k \in 1 .. 3 }
          = { Region(h.sh[k].offset, h.sh[k].size) : k \in {1, 2, 3} }
    BY <2>1 DEF Region
  <2>3. { Region(h.sh[k].offset, h.sh[k].size) : k \in {1, 2, 3} }
          = {Region(h.sh[1].offset, h.sh[1].size), Region(h.sh[2].offset, h.sh[2].size),
             Region(h.sh[3].offset, h.sh[3].size)}
    OBVIOUS
  <2>4. QED
    BY <1>3, <2>2, <2>3
<1>7. { [at |-> h.ph[i].offset, len |-> h.ph[i].filesz] : i \in DOMAIN h.ph }
        = Outputs(SectionPlaces(p), FileSizes(p), 1 .. n)
  BY <1>2, <1>4 DEF Outputs, Region
<1>8. { i \in DOMAIN h.ph : h.ph[i].filesz > 0 } = Described(FileSizes(p), n)
  BY <1>2, <1>4 DEF Described
<1>9. Parts(f) = 4 + Cardinality(Described(FileSizes(p), n))
  <2>1. Parts(f) = 3 + 1 + Cardinality({ i \in DOMAIN h.ph : h.ph[i].filesz > 0 })
    BY <1>1 DEF Parts
  <2>2. 3 + 1 = 4
    OBVIOUS
  <2>3. QED
    BY <1>8, <2>1, <2>2, Zenon
<1>10. Ranges(f)
         = { [at |-> h.sh[k].offset, len |-> h.sh[k].size] : k \in 1 .. 3 }
             \cup { [at |-> h.ph[i].offset, len |-> h.ph[i].filesz] : i \in DOMAIN h.ph }
             \cup {Region(0, HeadersSize(p))}
  BY <1>1, <1>5 DEF Ranges, Region
<1>11. QED
  BY <1>6, <1>7, <1>9, <1>10 DEF FirstFour

LEMMA SizesAdd ==
  ASSUME NEW p \in Programs, NEW all, all = Len(p.symbols) + 1
  PROVE  /\ HeadersSize(p) \in Nat /\ HeadersSize(p) > 0
         /\ NamesSize(4) \in Nat /\ NamesSize(4) > 0
         /\ StringsSize(p, all) \in Nat /\ StringsSize(p, all) > 0
         /\ SymSize * all \in Nat /\ SymSize * all > 0
         /\ StringsAt(p) \in Nat /\ HeadersSize(p) + NamesSize(4) = StringsAt(p)
         /\ SymbolsAt(p) \in Nat /\ StringsAt(p) + StringsSize(p, all) = SymbolsAt(p)
         /\ SymbolsAt(p) + SymSize * all = SectionAt(p, 1)
<1>1. all \in Nat /\ all >= 1 /\ all \in 1 .. (Len(p.symbols) + 1)
  BY ProgramFacts
<1>2. NamesSize(4) \in Nat /\ NamesSize(4) > 0
  <2>1. 1 \in 0 .. 4 /\ 4 \in 0 .. 4
    OBVIOUS
  <2>2. NamesSize(4) \in Nat /\ NamesSize(1) = 1 /\ NamesSize(1) <= NamesSize(4)
    BY <2>1, NamesSizeFacts
  <2>3. QED
    BY <2>2
<1>3. StringsSize(p, all) \in Nat /\ StringsSize(p, all) > 0
  <2>1. 1 \in 0 .. (Len(p.symbols) + 1) /\ all \in 0 .. (Len(p.symbols) + 1)
    BY <1>1, ProgramFacts
  <2>2. /\ StringsSize(p, all) \in Nat /\ StringsSize(p, 1) = 1
        /\ StringsSize(p, 1) <= StringsSize(p, all)
    BY <2>1, StringsSizeFacts
  <2>3. QED
    BY <2>2
<1>4. SymSize * all \in Nat /\ SymSize * all > 0
  <2>1. SymSize \in Nat /\ SymSize > 0 /\ SymSize * 1 = SymSize
    BY SizeAssumption
  <2>2. SymSize * all \in Nat /\ SymSize * 1 <= SymSize * all
    BY <1>1, <2>1, Multiples
  <2>3. QED
    BY <2>1, <2>2
<1>5. Total(SectionSizes(p), 1 - 1) = 0
  BY SectionFacts
<1>6. SymbolsAt(p) \in Nat /\ StringsAt(p) \in Nat
  BY Positions
<1>7. SectionAt(p, 1) = SymbolsAt(p) + SymSize * all
  BY <1>4, <1>5, <1>6 DEF SectionAt
<1>8. QED
  BY <1>2, <1>3, <1>4, <1>6, <1>7, ProgramFacts DEF StringsAt, SymbolsAt

\* Between the first and the last of the numbers e[0], ..., e[n] every position
\* is between two of them that follow one another.
LEMMA BetweenTwo ==
  ASSUME NEW n \in Nat, NEW e \in [0 .. n -> Nat], NEW pos \in Nat, e[0] <= pos, pos < e[n]
  PROVE  \E i \in 1 .. n : e[i - 1] <= pos /\ pos < e[i]
<1> DEFINE S == { m \in Nat : m <= n /\ pos < e[m] =>
                               \E i \in 1 .. n : e[i - 1] <= pos /\ pos < e[i] }
<1>1. 0 \in S
  BY DEF S
<1>2. ASSUME NEW m \in Nat, m \in S PROVE m + 1 \in S
  <2> SUFFICES ASSUME m + 1 <= n, pos < e[m + 1]
               PROVE  \E i \in 1 .. n : e[i - 1] <= pos /\ pos < e[i]
    OBVIOUS
  <2>1. CASE pos < e[m]
    BY <1>2, <2>1
  <2>2. CASE ~(pos < e[m])
    <3>1. m + 1 \in 1 .. n /\ (m + 1) - 1 = m /\ e[m] \in Nat
      OBVIOUS
    <3>2. e[m] <= pos
      BY <2>2, <3>1
    <3>3. QED
      BY <3>1, <3>2
  <2>3. QED
    BY <2>1, <2>2
<1> HIDE DEF S
<1>3. n \in S
  BY <1>1, <1>2, SetInduction
<1>4. QED
  BY <1>3 DEF S

\* Every position of the file is in the headers, in a table or in the output of
\* a section.
LEMMA PositionIsIn ==
  ASSUME NEW p \in Programs, NEW n \in Nat, n = Len(p.sections),
         NEW all, all = Len(p.symbols) + 1,
         NEW pos \in Nat, pos < End(p, 4, all, all, n)
  PROVE  \/ pos < HeadersSize(p)
         \/ HeadersSize(p) <= pos /\ pos < StringsAt(p)
         \/ StringsAt(p) <= pos /\ pos < SymbolsAt(p)
         \/ SymbolsAt(p) <= pos /\ pos < SectionAt(p, 1)
         \/ \E i \in 1 .. n :
              /\ p.sections[i].size \in Nat /\ SectionAt(p, i) \in Nat
              /\ SectionAt(p, i) <= pos /\ pos < SectionAt(p, i) + p.sections[i].size
<1>1. all \in 0 .. (Len(p.symbols) + 1) /\ 4 \in 0 .. 4 /\ n >= 1
  BY ProgramFacts
<1> DEFINE e == [i \in 0 .. n |-> End(p, 4, all, all, i)]
<1>2. e \in [0 .. n -> Nat]
  <2>1. ASSUME NEW i \in 0 .. n PROVE End(p, 4, all, all, i) \in Nat
    <3>1. i \in 0 .. n /\ i \in i .. n
      OBVIOUS
    <3>2. QED
      BY <1>1, <3>1, EndFacts
  <2>2. QED
    BY <2>1
<1>3. ASSUME NEW i \in 1 .. n
      PROVE  /\ SectionAt(p, i) \in Nat /\ SectionAt(p, i) = e[i - 1]
             /\ p.sections[i].size \in Nat
             /\ e[i] = SectionAt(p, i) + p.sections[i].size
  <2>1. i \in 1 .. (Len(p.sections) + 1) /\ i \in 1 .. Len(p.sections)
    OBVIOUS
  <2>2. SectionAt(p, i) \in Nat /\ SectionAt(p, i) = End(p, 4, all, all, i - 1)
    BY <2>1, Positions
  <2>3. p.sections[i].size \in Nat
    BY <2>1, SectionFacts
  <2>4. End(p, 4, all, all, i) = End(p, 4, all, all, i - 1) + p.sections[i].size
    BY <2>1, Growth
  <2>5. i - 1 \in 0 .. n /\ i \in 0 .. n
    OBVIOUS
  <2>6. QED
    BY <2>2, <2>3, <2>4, <2>5
<1>4. e[n] = End(p, 4, all, all, n)
  OBVIOUS
<1> HIDE DEF e
<1>5. e[0] = SectionAt(p, 1) /\ e[0] \in Nat
  <2>1. 1 \in 1 .. n /\ 1 - 1 = 0
    BY <1>1
  <2>2. QED
    BY <1>3, <2>1
<1>6. CASE e[0] <= pos
  <2>1. PICK i \in 1 .. n : e[i - 1] <= pos /\ pos < e[i]
    BY <1>2, <1>4, <1>6, BetweenTwo
  <2>2. QED
    BY <1>3, <2>1
<1>7. CASE ~(e[0] <= pos)
  <2>1. pos < SectionAt(p, 1)
    BY <1>5, <1>7
  <2>2. HeadersSize(p) \in Nat /\ StringsAt(p) \in Nat /\ SymbolsAt(p) \in Nat
    BY SizesAdd
  <2>3. QED
    BY <2>1, <2>2
<1>8. QED
  BY <1>6, <1>7

\* What contains a position of the file.
LEMMA PositionsCovered ==
  ASSUME NEW p \in Programs, program = p, NEW n \in Nat, n = Len(p.sections),
         NEW all, all = Len(p.symbols) + 1, NEW f, f.hdr \in Header(p),
         Headers(p, f.hdr, 4, all, all, n),
         NEW pos \in Nat, pos < End(p, 4, all, all, n)
  PROVE  \E r \in Filled(Ranges(f)) \cup Unloaded(f) : Contains(r, pos)
<1>1. PICK h : h = f.hdr
  OBVIOUS
<1>2. DOMAIN h.ph = 1 .. n
  BY <1>1, ProgramFacts DEF Header
<1>3. Ranges(f) = FirstFour(HeadersSize(p), NamesSize(4), StringsAt(p), StringsSize(p, all),
                            SymbolsAt(p), SymSize * all)
                    \cup Outputs(SectionPlaces(p), FileSizes(p), 1 .. n)
  BY RangesAre
<1>4. /\ Region(0, HeadersSize(p)) \in Ranges(f)
      /\ Region(HeadersSize(p), NamesSize(4)) \in Ranges(f)
      /\ Region(StringsAt(p), StringsSize(p, all)) \in Ranges(f)
      /\ Region(SymbolsAt(p), SymSize * all) \in Ranges(f)
  BY <1>3 DEF FirstFour
<1>5. ASSUME NEW at \in Nat, NEW len \in Nat, Region(at, len) \in Ranges(f),
             at <= pos, pos < at + len
      PROVE  \E r \in Filled(Ranges(f)) \cup Unloaded(f) : Contains(r, pos)
  <2>1. Region(at, len).at = at /\ Region(at, len).len = len /\ len > 0
    BY <1>5, RegionIs
  <2>2. Region(at, len) \in Filled(Ranges(f)) /\ Contains(Region(at, len), pos)
    BY <1>5, <2>1 DEF Filled, Contains
  <2>3. QED
    BY <2>2, Zenon
<1>6. /\ HeadersSize(p) \in Nat /\ NamesSize(4) \in Nat /\ StringsSize(p, all) \in Nat
      /\ SymSize * all \in Nat /\ StringsAt(p) \in Nat /\ SymbolsAt(p) \in Nat
      /\ HeadersSize(p) + NamesSize(4) = StringsAt(p)
      /\ StringsAt(p) + StringsSize(p, all) = SymbolsAt(p)
      /\ SymbolsAt(p) + SymSize * all = SectionAt(p, 1)
  BY SizesAdd
<1>7. CASE pos < HeadersSize(p)
  <2>1. 0 \in Nat /\ 0 <= pos /\ pos < 0 + HeadersSize(p)
    BY <1>6, <1>7
  <2>2. QED
    BY <1>4, <1>5, <1>6, <2>1
<1>8. CASE HeadersSize(p) <= pos /\ pos < StringsAt(p)
  BY <1>4, <1>5, <1>6, <1>8
<1>9. CASE StringsAt(p) <= pos /\ pos < SymbolsAt(p)
  BY <1>4, <1>5, <1>6, <1>9
<1>10. CASE SymbolsAt(p) <= pos /\ pos < SectionAt(p, 1)
  BY <1>4, <1>5, <1>6, <1>10
<1>11. ASSUME NEW i \in 1 .. n, NEW size \in Nat, size = p.sections[i].size,
              NEW at \in Nat, at = SectionAt(p, i), at <= pos, pos < at + size
       PROVE  \E r \in Filled(Ranges(f)) \cup Unloaded(f) : Contains(r, pos)
  <2>1. h.ph[i] = Segment(p.sections[i], at)
    BY <1>1, <1>11 DEF Headers
  <2>2. CASE Loadable(p.sections[i])
    <3>1. SectionPlaces(p)[i] = at /\ FileSizes(p)[i] = size
      BY <1>11, <2>2 DEF SectionPlaces, FileSizes
    <3>2. Region(at, size) \in Ranges(f)
      BY <1>3, <3>1 DEF Outputs
    <3>3. QED
      BY <1>5, <1>11, <3>2
  <2>3. CASE ~Loadable(p.sections[i])
    <3>1. h.ph[i].load = FALSE /\ h.ph[i].offset = at /\ h.ph[i].memsz = size
      BY <1>11, <2>1, <2>3 DEF Segment
    <3>2. Region(at, size) \in Unloaded(f)
      BY <1>1, <1>2, <3>1 DEF Unloaded, Region
    <3>3. Contains(Region(at, size), pos)
      BY <1>11, RegionIs DEF Contains
    <3>4. QED
      BY <3>2, <3>3, Zenon
  <2>4. QED
    BY <2>2, <2>3
<1>12. QED
  BY <1>7, <1>8, <1>9, <1>10, <1>11, PositionIsIn

\* The parts of the final file - its headers, tables and the outputs of the
\* sections - are as many as the headers describe, disjoint and within the
\* file, and cover it but for the output of sections that are not loaded, if
\* what precedes the last output fits in what is reserved (Elf_Writer's
\* offsets, taken while the vector grows).
THEOREM PartsAreDisjoint == ElfSpec => []PartsTileFile
<1>1. ElfInv => PartsTileFile
  <2> SUFFICES ASSUME ElfInv, phase = "written", Fits
               PROVE  PartsTileFile
    BY DEF PartsTileFile
  <2>1. PICK p \in Programs : p = program
    BY DEF ElfInv
  <2>2. PICK n \in Nat : n = Len(p.sections)
    BY ProgramFacts
  <2>3. PICK all : all = Len(p.symbols) + 1
    OBVIOUS
  <2>4. file.hdr = hdr /\ file.size = binsize
    BY DEF ElfInv
  <2>5. Built(p, 4, all, all, n)
    BY <2>1, <2>2, <2>3 DEF ElfInv, Reached
  <2>6. PICK end \in Nat : end = End(p, 4, all, all, n) /\ end = file.size
    BY <2>2, <2>3, <2>4, <2>5, OutputsFollow DEF Built
  <2>7. PICK f : f = file
    OBVIOUS
  <2>8. f.hdr \in Header(p) /\ Headers(p, f.hdr, 4, all, all, n)
    BY <2>1, <2>4, <2>5, <2>7 DEF ElfInv, Built
  <2>9. PICK at, len : at = SectionPlaces(p) /\ len = FileSizes(p)
    OBVIOUS
  <2>10. PICK b1 \in Nat, b2 \in Nat, b3 \in Nat, b4 \in Nat, l2 \in Nat, l3 \in Nat, l4 \in Nat :
           /\ b1 = HeadersSize(p) /\ b2 = StringsAt(p) /\ b3 = SymbolsAt(p) /\ b4 = SectionAt(p, 1)
           /\ l2 = NamesSize(4) /\ l3 = StringsSize(p, all) /\ l4 = SymSize * all
    <3>1. SectionAt(p, 1) \in Nat
      BY <2>2, OutputsFollow
    <3>2. QED
      BY <2>3, <3>1, SizesAdd
  <2>11. Chained(b1, l2, b2, l3, b3, l4, b4, end)
    <3>1. /\ 0 < b1 /\ 0 < l2 /\ 0 < l3 /\ 0 < l4
          /\ b1 + l2 = b2 /\ b2 + l3 = b3 /\ b3 + l4 = b4
      BY <2>3, <2>10, SizesAdd
    <3>2. b4 <= end
      BY <2>2, <2>3, <2>6, <2>10, OutputsFollow
    <3>3. QED
      BY <3>1, <3>2 DEF Chained
  <2>12. /\ at \in [1 .. n -> Nat] /\ len \in [1 .. n -> Nat]
         /\ Between(at, len, n, b4, end)
         /\ Follow(at, len, n)
    BY <2>2, <2>3, <2>6, <2>9, <2>10, OutputsFollow
  <2>13. /\ Ranges(f) = FirstFour(b1, l2, b2, l3, b3, l4) \cup Outputs(at, len, 1 .. n)
         /\ Parts(f) = 4 + Cardinality(Described(len, n))
    <3>1. /\ Ranges(f) = FirstFour(HeadersSize(p), NamesSize(4), StringsAt(p), StringsSize(p, all),
                                   SymbolsAt(p), SymSize * all)
                           \cup Outputs(SectionPlaces(p), FileSizes(p), 1 .. n)
          /\ Parts(f) = 4 + Cardinality(Described(FileSizes(p), n))
      BY <2>1, <2>2, <2>3, <2>8, RangesAre
    <3>2. QED
      BY <2>9, <2>10, <3>1, Zenon
  <2>14. PICK parts : parts = Filled(Ranges(f))
    OBVIOUS
  <2>15. /\ Cardinality(parts) = 4 + Cardinality(Described(len, n))
         /\ Disjoint(parts) /\ Within(parts, end)
    <3>1. parts = Laid(b1, l2, b2, l3, b3, l4, at, len, n)
      BY <2>13, <2>14, Zenon DEF Laid
    <3>2. Arranged(n, at, len, b4, end)
      BY <2>12 DEF Arranged
    <3>3. QED
      BY <2>11, <3>1, <3>2, PartsCounted, Zenon
  <2>16. parts = { r \in Ranges(f) : r.len > 0 }
    BY <2>14 DEF Filled
  <2>17. PICK ps : ps = { r \in Ranges(file) : r.len > 0 }
    OBVIOUS
  <2>18. /\ Cardinality(ps) = Parts(file)
         /\ Disjoint(ps) /\ Within(ps, file.size)
    BY <2>6, <2>7, <2>13, <2>15, <2>16, <2>17, Zenon
  <2>19. ASSUME NEW pos \in 0 .. (file.size - 1)
         PROVE  \E r \in ps \cup Unloaded(file) : Contains(r, pos)
    <3>1. pos \in Nat /\ pos < end
      BY <2>6
    <3>2. \E r \in Filled(Ranges(f)) \cup Unloaded(f) : Contains(r, pos)
      BY <2>1, <2>2, <2>3, <2>6, <2>8, <3>1, PositionsCovered
    <3>3. QED
      BY <2>7, <2>14, <2>16, <2>17, <3>2, Zenon
  <2>20. QED
    BY <2>17, <2>18, <2>19, Zenon DEF PartsTileFile, Disjoint, Within
<1>2. QED
  BY <1>1, ElfInvariant, PTL
=============================================================================

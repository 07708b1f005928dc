----------------------------- MODULE MCElfImage -----------------------------
(***************************************************************************)
(* ElfImage with up to three sections and two symbols, sizes scaled down   *)
(* so that the vector is reallocated at every point of the writer.         *)
(***************************************************************************)
EXTENDS ElfImage, TLC

MCNameLength ==
  [n \in {"_start", "f", ""} |-> CASE n = "_start" -> 3 [] n = "f" -> 1 [] n = "" -> 0]
    @@ [n \in {".shstrtab", ".symtab", ".strtab"} |-> 2]

MCSection ==
  { [flags |-> f, size |-> n, base |-> b] :
      f \in {{"code"}, {"code", "data", "execonly"}, {"data", "readonly"}, {"resv"}},
      n \in {4, 30}, b \in {1, 9} }
    \cup { [flags |-> {}, size |-> 0, base |-> 1] }

MCSymbol(names) ==
  { [name |-> n, addr |-> a, type |-> t, size |-> z, global |-> g] :
      n \in names, a \in {2, 9}, t \in {"notype", "func"}, z \in {0, 4}, g \in BOOLEAN }

MCStart == { s \in MCSymbol({"_start"}) : s.type = "func" }
MCOther == { s \in MCSymbol({"f", ""}) : s.size = 4 /\ s.addr = 9 }

MCSymbols ==
  { <<s>> : s \in MCStart } \cup { <<s, o>> : s \in MCStart, o \in MCOther }
    \cup { <<o, s>> : s \in MCStart, o \in MCOther } \cup { <<o>> : o \in MCOther }

MCPlain ==
  { s \in MCSection : s.base = 1 }

MCPrograms ==
  [sections : { <<s>> : s \in MCSection } \cup { <<s, t>> : s, t \in MCPlain },
   symbols : MCSymbols, entry : {"_start"}]
    \cup [sections : { <<s, t, u>> : s, t, u \in MCPlain },
          symbols : { q \in MCSymbols : Len(q) = 1 }, entry : {"_start"}]
=============================================================================

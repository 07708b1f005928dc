------------------------------ MODULE MCDriver ------------------------------
(***************************************************************************)
(* Driver over programs of a main file, a file beside it or in another     *)
(* directory, and a third one that two directories have under one name.    *)
(***************************************************************************)
EXTENDS Driver

Path(dir, name) == [dir |-> dir, name |-> name]
IncludeOf(dir, name) == [op |-> "include", path |-> Path(dir, name)]
Simple(op, name) == [op |-> op, name |-> name]

\* The statements of a file; the item tells which file it is in.
MCStatements(item, included) ==
  {Simple("item", item), Simple("label", "_start"), Simple("global", "g")} \cup included

MCFileSystem(a, b, c, d) ==
  [dirs |-> {<<>>, <<"sub">>},
   files |-> [f \in {Path(<<>>, "a"), Path(<<"sub">>, "a"), Path(<<"sub">>, "b"),
                     Path(<<"sub">>, "c"), Path(<<>>, "c")} |->
                CASE f = Path(<<>>, "a") -> a
                  [] f = Path(<<"sub">>, "a") -> a
                  [] f = Path(<<"sub">>, "b") -> b
                  [] f = Path(<<"sub">>, "c") -> c
                  [] OTHER -> d]]

MCMain ==
  { <<s, i, t>> :
      s \in {Simple("label", "_start"), Simple("global", "g"), Simple("bad", "")},
      i \in {IncludeOf(<<"sub">>, "b"), IncludeOf(<<>>, "b"), IncludeOf(<<>>, "c")},
      t \in MCStatements("a", {IncludeOf(<<>>, "b"), IncludeOf(<<>>, "c")}) }

MCNested ==
  { <<s, t>> :
      s \in {IncludeOf(<<>>, "c"), IncludeOf(<<"sub">>, "c"), IncludeOf(<<>>, "b"), Simple("label", "g")},
      t \in MCStatements("b", {}) }

MCLeaf(item) == { <<s>> : s \in MCStatements(item, {IncludeOf(<<>>, "b")}) }

MCFileSystems ==
  { MCFileSystem(a, b, c, d) :
      a \in MCMain, b \in MCNested, c \in MCLeaf("c"), d \in {<<Simple("item", "d")>>} }

MCArguments ==
  { <<Path(<<>>, "a")>>, <<Path(<<"sub">>, "a")>>, <<Path(<<"sub">>, "a"), Path(<<"sub">>, "c")>>,
    <<Path(<<>>, "b")>> }
=============================================================================

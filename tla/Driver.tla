------------------------------- MODULE Driver -------------------------------
(***************************************************************************)
(* main (main.cpp), with the token cursor that Assembler::assemble saves   *)
(* and restores around every .include (assemble.cpp, directive.cpp) and    *)
(* the files that load_file and file_writer reach.                         *)
(*                                                                         *)
(* A statement is an item that is output, a label, a .global, a .include,  *)
(* or one the assembler throws at.  What finish and the ELF writers do     *)
(* inside is in Assembler and ElfImage.                                    *)
(***************************************************************************)
EXTENDS Integers, Sequences, FiniteSets, SequencesExt

CONSTANTS
  FileSystems,  \* [dirs, files]: absolute directories, and files in them
  Arguments,    \* the command lines: the paths of the input files
  Entry,        \* options.entry
  MaxDepth      \* bound: the calls of assemble the stack has room for

ASSUME DepthAssumption == MaxDepth \in Nat \ {0}

ASSUME FilesAssumption ==
  /\ \A fs \in FileSystems :
       \A f \in DOMAIN fs.files : fs.files[f] \in Seq(ToSet(fs.files[f]))
  /\ \A paths \in Arguments : paths \in Seq(ToSet(paths))

VARIABLES
  disk,      \* the file system
  inputs,    \* argv[1] to argv[argc - 2]
  argi,      \* i of the loop in main
  cursor,    \* tokens, index, m_realpath
  saved,     \* prev_tokens, prev_index, prev_rpath of the calls of assemble
  emitted,   \* what was output
  known,     \* the labels declared
  globals,   \* m_globals
  outputs,   \* output file -> what is in it
  tried,     \* the outputs file_writer was called for
  phase

driverVars ==
  <<disk, inputs, argi, cursor, saved, emitted, known, globals, outputs, tried, phase>>
programVars == <<emitted, known, globals>>
resultVars == <<outputs, tried>>

OutputFiles == {"elf64", "elf128", "bin"}

NoPath == <<"NULL">>  \* what realpath returns on failure

\* A path is relative to the working directory, <<>>.
At(dir, path) == [dir |-> dir \o path.dir, name |-> path.name]

Exists(f) == f \in DOMAIN disk.files

\* realpath(dirname(path)): relative to the working directory, too.
GetRealpath(path) == IF path.dir \in disk.dirs THEN path.dir ELSE NoPath

\* The file load_file opens: that of the name, or the one below rpath.
Opened(path, rpath) ==
  IF Exists(At(<<>>, path)) THEN {At(<<>>, path)}
  ELSE IF rpath # NoPath /\ Exists(At(rpath, path)) THEN {At(rpath, path)}
  ELSE {}

\* Before the first call: tokens is nullptr and m_realpath not initialised.
NoCursor == [tokens |-> <<>>, index |-> 1, rpath |-> NoPath]

DriverInit ==
  /\ disk \in FileSystems
  /\ inputs \in Arguments
  /\ argi = 1
  /\ cursor = NoCursor
  /\ saved = <<>>
  /\ emitted = <<>>
  /\ known = {} /\ globals = {}
  /\ outputs = [f \in OutputFiles |-> "absent"]
  /\ tried = {}
  /\ phase = "loading"

Throw == phase' = "terminated"

\* load_file, split, and the entry of Assembler::assemble, which saves `back'.
Enter(path, rpath, back) ==
  LET files == Opened(path, rpath)
  IN  IF files = {} THEN Throw /\ UNCHANGED <<cursor, saved>>
      ELSE IF Len(saved) = MaxDepth THEN phase' = "crashed" /\ UNCHANGED <<cursor, saved>>
      ELSE /\ \E f \in files :
                cursor' = [tokens |-> disk.files[f], index |-> 1, rpath |-> GetRealpath(path)]
           /\ saved' = Append(saved, back)
           /\ phase' = "assembling"

\* Mutant of Resume: m_realpath is left as the included file set it.
ResumeMutPath ==
  /\ phase = "assembling" /\ cursor.index > Len(cursor.tokens)
  /\ cursor' = [Last(saved) EXCEPT !.rpath = cursor.rpath]
  /\ saved' = Front(saved)
  /\ phase' = IF Len(saved) = 1 THEN "loading" ELSE "assembling"
  /\ argi' = IF Len(saved) = 1 THEN argi + 1 ELSE argi
  /\ UNCHANGED <<disk, inputs, programVars, resultVars>>

\* The end of a call of assemble: the caller's cursor is restored.
Resume ==
  /\ phase = "assembling" /\ cursor.index > Len(cursor.tokens)
  /\ cursor' = Last(saved)
  /\ saved' = Front(saved)
  /\ phase' = IF Len(saved) = 1 THEN "loading" ELSE "assembling"
  /\ argi' = IF Len(saved) = 1 THEN argi + 1 ELSE argi
  /\ UNCHANGED <<disk, inputs, programVars, resultVars>>

\* The loop over the inputs: every turn loads argv[1].
LoadInput ==
  /\ phase = "loading" /\ argi <= Len(inputs)
  /\ Enter(inputs[1], NoPath, cursor)
  /\ UNCHANGED <<disk, inputs, argi, programVars, resultVars>>

Statement == cursor.tokens[cursor.index]

Reading(op) ==
  /\ phase = "assembling" /\ cursor.index <= Len(cursor.tokens)
  /\ Statement.op = op

Step == cursor' = [cursor EXCEPT !.index = @ + 1]

Emit ==
  /\ Reading("item")
  /\ emitted' = Append(emitted, Statement.name)
  /\ Step
  /\ UNCHANGED <<disk, inputs, argi, saved, known, globals, resultVars, phase>>

Label ==
  /\ Reading("label")
  /\ known' = known \cup {Statement.name}
  /\ Step
  /\ UNCHANGED <<disk, inputs, argi, saved, emitted, globals, resultVars, phase>>

MakeGlobal ==
  /\ Reading("global")
  /\ globals' = globals \cup {Statement.name}
  /\ Step
  /\ UNCHANGED <<disk, inputs, argi, saved, emitted, known, resultVars, phase>>

Include ==
  /\ Reading("include")
  /\ Enter(Statement.path, cursor.rpath, [cursor EXCEPT !.index = @ + 1])
  /\ UNCHANGED <<disk, inputs, argi, programVars, resultVars>>

Refuse ==
  /\ Reading("bad")
  /\ Throw
  /\ UNCHANGED <<disk, inputs, argi, cursor, saved, programVars, resultVars>>

\* Assembler::finish, which may throw.
Finish ==
  /\ phase = "loading" /\ argi > Len(inputs)
  /\ phase' \in {"elf64", "terminated"}
  /\ UNCHANGED <<disk, inputs, argi, cursor, saved, programVars, resultVars>>

\* file_writer: it may fail to open the file or to write it whole; nobody
\* looks at what it returns.
WriteFile(f) ==
  /\ tried' = tried \cup {f}
  /\ \E content \in {"written", "partial", outputs[f]} :
       outputs' = [outputs EXCEPT ![f] = content]

\* ELFwriter64 and ELFwriter128: address_of(options.entry) comes first.  The
\* file is written twice; before the first time and between the two the program
\* can crash, through a stale reference or for want of memory.
WriteElf(f, next) ==
  /\ phase = f
  /\ \/ Entry \notin known /\ Throw /\ UNCHANGED resultVars
     \/ Entry \in known /\ WriteFile(f) /\ phase' \in {next, "crashed"}
     \/ Entry \in known /\ UNCHANGED resultVars /\ phase' = "crashed"
  /\ UNCHANGED <<disk, inputs, argi, cursor, saved, programVars>>

\* Mutant of PrintGlobals: as without VERBOSE_GLOBALS.
PrintGlobalsMutSkip ==
  /\ phase = "globals"
  /\ phase' = "bin"
  /\ UNCHANGED <<disk, inputs, argi, cursor, saved, programVars, resultVars>>

\* The listing of the globals, which asks for their addresses.
PrintGlobals ==
  /\ phase = "globals"
  /\ phase' = IF globals \subseteq known THEN "bin" ELSE "terminated"
  /\ UNCHANGED <<disk, inputs, argi, cursor, saved, programVars, resultVars>>

WriteBin ==
  /\ phase = "bin"
  /\ WriteFile("bin")
  /\ phase' = "exited"
  /\ UNCHANGED <<disk, inputs, argi, cursor, saved, programVars>>

DriverStopped == phase \in {"exited", "terminated", "crashed"} /\ UNCHANGED driverVars

DriverNext ==
  \/ LoadInput \/ Resume
  \/ Emit \/ Label \/ MakeGlobal \/ Include \/ Refuse
  \/ Finish
  \/ WriteElf("elf64", "elf128") \/ WriteElf("elf128", "globals")
  \/ PrintGlobals \/ WriteBin
  \/ DriverStopped

DriverSpec == DriverInit /\ [][DriverNext]_driverVars
-----------------------------------------------------------------------------
(***************************************************************************)
(* Properties                                                              *)
(***************************************************************************)

(***************************************************************************)
(* What a file stands for: its statements, with the statements of every    *)
(* included file in the place of the .include.  The files an include may   *)
(* name are those in the working directory and, failing that, in the       *)
(* directory by which the file that includes it was named.                 *)
(***************************************************************************)

Texts == { disk.files[f] : f \in DOMAIN disk.files }
Dirs == disk.dirs \cup {NoPath}

TextOf(path, dir) == disk.files[CHOOSE f \in Opened(path, dir) : TRUE]

\* A statement read in a file that was named by `dir', where included files
\* stand for what `meaning' says.
Inlined(s, dir, meaning) ==
  IF s.op = "include" /\ Opened(s.path, dir) # {}
  THEN meaning[<<TextOf(s.path, dir), GetRealpath(s.path)>>]
  ELSE <<s>>

Expanded(statements, dir, meaning) ==
  FlattenSeq([n \in DOMAIN statements |-> Inlined(statements[n], dir, meaning)])

\* What the text of a file and where it was named stand for, with files nested
\* as deep as the stack allows.
Expansion[depth \in 0 .. MaxDepth] ==
  IF depth = 0 THEN [p \in Texts \X Dirs |-> <<>>]
  ELSE [p \in Texts \X Dirs |-> Expanded(p[1], p[2], Expansion[depth - 1])]

ExpansionOf(path) == Expansion[MaxDepth][<<TextOf(path, NoPath), GetRealpath(path)>>]

ItemOf(s) == IF s.op = "item" THEN <<s.name>> ELSE <<>>

ItemsOf(statements) == FlattenSeq([n \in DOMAIN statements |-> ItemOf(statements[n])])

NamesOf(statements, op) ==
  { statements[i].name : i \in { j \in DOMAIN statements : statements[j].op = op } }

Assembled == phase \notin {"loading", "assembling", "terminated", "crashed"}

(***************************************************************************)
(* When there is one input, the assembler sees it with every .include      *)
(* replaced by what it names, statement by statement, however deep the     *)
(* files are nested and wherever they are (assemble.cpp:17-22, 57-59,      *)
(* directive.cpp:24-29).  Several inputs are EveryInput's.                 *)
(***************************************************************************)
IncludesAreInline ==
  Assembled /\ Len(inputs) = 1 =>
    LET program == ExpansionOf(inputs[1])
    IN  /\ emitted = ItemsOf(program)
        /\ known = NamesOf(program, "label")
        /\ globals = NamesOf(program, "global")

(***************************************************************************)
(* Usage: "%s [asm ...] [bin]".  Every input is assembled, one after the   *)
(* other.                                                                  *)
(***************************************************************************)
EveryInput ==
  /\ Assembled
  /\ \A i \in DOMAIN inputs : Opened(inputs[i], NoPath) # {}
  => emitted = ItemsOf(FlattenSeq([i \in DOMAIN inputs |-> ExpansionOf(inputs[i])]))

(***************************************************************************)
(* Once output files are being written only a global that was never        *)
(* declared makes the program throw, with both ELF files written.  It can  *)
(* still crash in the writers of ELF files, for a program that has its     *)
(* entry; the binary is not written then, and only after both ELF files    *)
(* for a program without such globals (main.cpp:46-62).                    *)
(***************************************************************************)
LateFailureIsGlobal ==
  LET elfFiles == {"elf64", "elf128"}
  IN  /\ phase = "terminated" /\ tried # {} => tried = elfFiles /\ ~(globals \subseteq known)
      /\ phase = "crashed" /\ tried # {} => tried \subseteq elfFiles /\ Entry \in known
      /\ "bin" \in tried => elfFiles \subseteq tried /\ globals \cup {Entry} \subseteq known
=============================================================================

------------------------------ MODULE MCLayout ------------------------------
(***************************************************************************)
(* Layouts of up to three sections, with the program's page size and       *)
(* granule.  Sizes: empty, not a multiple of the granule, exactly a page.  *)
(* Bases: the default one and an address .org can set off the granule.     *)
(***************************************************************************)
EXTENDS Layout

MCSections == {".text", ".data", ".rodata"}
MCSizes == {0, 8, 4096}
MCBases == {1048576, 20484}
=============================================================================

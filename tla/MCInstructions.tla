--------------------------- MODULE MCInstructions ---------------------------
(***************************************************************************)
(* Instructions with three registers, the constants at the boundaries of   *)
(* 12 and 20 bits, and the distances at the boundaries of jumps and        *)
(* branches, with some that no field can hold and some that the cut to an  *)
(* int64_t, here of 20 bits, turns into others.                            *)
(***************************************************************************)
EXTENDS Instructions

MCConstants ==
  {-524290, -524288, -2049, -2048, -1366, -1, 0, 1, 31, 32, 1364, 2047, 2048,
   699050, 524286, 524288}

\* 2^20 for 2^64.
MCMod64 == 1048576

MCDistances ==
  UNION { (n - 2) .. (n + 2) : n \in {-8192, -4096, -2048, 0, 2048, 4096, 8192} }
    \cup { 2 * n : n \in -30 .. 30 } \cup {1364, -1366, 2730, -2732}
    \cup UNION { (n - 2) .. (n + 2) : n \in {-524288, 524288, 1048576, 1050624, -2095104} }
=============================================================================

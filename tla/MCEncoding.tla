----------------------------- MODULE MCEncoding -----------------------------
(***************************************************************************)
(* Encoding with 3-bit immediates: words of 6 bits, registers of 24.       *)
(* Constants are put together from the parts at the boundaries of a word   *)
(* and of an immediate; labels lie around the instruction, around 0, and a *)
(* multiple of 2^64 away from both.                                        *)
(***************************************************************************)
EXTENDS Encoding

MCLow == 8
MCHigh == 8

Parts == {0, 3, 4, 31, 32, 60, 63}

MCConstants ==
  { a * 262144 + b * 4096 + c * 64 + d : a, b, c, d \in Parts }
    \cup (0 .. 63)

MCLocations == {0, 2048, 1000000}

Around(n) == { (n + d) % (64^4) : d \in -40 .. 40 }

MCTargets ==
  UNION { Around(n) : n \in {0, 2048, 4096, 1000000, 1000000 + 4096, 32 * 262144} }
    \cup { a * 262144 + b * 4096 + c * 64 + d : a, b, c, d \in {0, 31, 32} }

MCLeftovers == {64^4 - 1}
=============================================================================

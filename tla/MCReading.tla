----------------------------- MODULE MCReading -----------------------------
(* Offsets for the run of Reading: inside the file, over either end of it, *)
(* and the largest.                                                        *)
EXTENDS Reading

MCOffsets == {-2, -1, 0, 1, 2, IntMax}
=============================================================================

----------------------------- MODULE MCEncoding ----------------------------
(* Every instruction with a colour at each end of the tables, fixed         *)
(* registers or none, and immediates around the ends of every field; float  *)
(* constants around every carry.                                            *)
EXTENDS Encoding
MCTemporaries == {-11, -1, 0, 12, 13}
MCImmediates == {0, 1, 768} \cup {s * n + d : s \in {-1, 1}, d \in {-2, -1, 0},
                                       n \in {2048, 4096, 2^19, 2^20}}
MCUppers == {-(2^19), -2, -1, 0, 1, 74565, 2^19 - 1}
MCLowers == {0, 1, 2047, 2048, 4095}
MCUninitialised == {Word(0, 0, 0, 0, 0, 0), Word(127, 31, 31, 7, 31, 127)}
=============================================================================

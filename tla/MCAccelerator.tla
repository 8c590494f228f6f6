---------------------------- MODULE MCAccelerator --------------------------
(* Every length up to past the one whose count no longer fits an immediate  *)
(* of four bits; the counter wraps at 32. One of the vectors is so close    *)
(* below the accelerator's words that the longer lengths reach into them.   *)
(* The memory ends where the shortest of the loops that are too long has    *)
(* its last turn on the other vector, length 16, which then ends, while     *)
(* length 17 traps behind the loop, and 0, 1 and 18 in it.                  *)
EXTENDS Accelerator
MCLengths == 0 .. 18
MCMemory == 65500 .. 70191
=============================================================================

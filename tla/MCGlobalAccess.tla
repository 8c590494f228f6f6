---------------------------- MODULE MCGlobalAccess -------------------------
(* Every word of the first page and a half, and the words around the middle *)
(* and the end of pages further away, up to those near the end of memory.   *)
EXTENDS GlobalAccess
MCBases == {0, 16}
MCDistances == {4 * k : k \in 0 .. 1600}
  \cup {4096 * page + half + 4 * k : page \in {2, 15, 16, 255, 524284}, half \in {2048, 4096},
                                    k \in -5 .. 5}
MCIndices == {0, 1, 600}
=============================================================================

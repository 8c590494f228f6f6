--------------------------- MODULE MCControlFlow ---------------------------
(* Every body of a few tokens with one comparison of any kind, the other    *)
(* conditions being plain values, over words of two bits and three floats.  *)
(* The block is so long that a displacement over it is near the end of its  *)
(* field.                                                                   *)
EXTENDS ControlFlow
MCFloats == {0, 1, NaN}
=============================================================================

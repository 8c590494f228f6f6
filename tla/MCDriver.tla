------------------------------ MODULE MCDriver -----------------------------
(* Every command line of up to two options, over every verdict and every    *)
(* set of files that can be opened.                                         *)
EXTENDS Driver
MCCommandLines == {<<>>} \cup {<<o>> : o \in Options} \cup {<<o, p>> : o, p \in Options}
=============================================================================

----------------------- MODULE MCRegisterAssignment ------------------------
(* Two registers and three temporaries are enough for every case: no        *)
(* conflict, a conflict that is coloured, and a temporary that finds both   *)
(* registers taken. Garbage is a zeroed page or a word that is no colour.   *)
EXTENDS RegisterAssignment
MCGarbage == {0, 7}

Mk(op, d, s, s2) == [op |-> op, dest |-> d, source |-> s, source2 |-> s2]
(* One node of each shape, two temporaries as sources in order and apart    *)
(* from dest. One with the temporary just after dest as its only source has *)
(* it second, after a fixed register, as the 0 - t of a negation and the    *)
(* sp + t of an address have.                                               *)
MCForms ==
  {Mk("COMMENT", Fixed, Fixed, Fixed)}
    \cup {Mk("ADDI", t, t, Fixed) : t \in Temps}
    \cup {Mk("STORE", t, 0, Fixed) : t \in Temps \ {0}}
    \cup {Mk("OP", t, Fixed, Fixed) : t \in Temps}
    \cup {Mk("OP", t - 1, Fixed, t) : t \in Temps \ {0}}
    \cup {n \in Node : /\ n.op = "OP" /\ n.source # Fixed /\ n.dest # n.source
                       /\ \/ n.source2 = Fixed /\ (n.dest = Fixed \/ n.dest # n.source - 1)
                          \/ n.source2 > n.source /\ n.dest \notin {Fixed, n.source2}}
=============================================================================

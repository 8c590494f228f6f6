----------------------------- MODULE Colouring -----------------------------
(* What register assignment promises, whatever order it works in: a partial *)
(* assignment of registers to temporaries that never gives two interfering  *)
(* temporaries the same register, that is only ever extended, and that may  *)
(* be given up before it is total, but is never declared finished before.   *)
EXTENDS Integers

CONSTANTS Temps,   \* every temporary
          Colors   \* the registers that may be handed out

VARIABLES nodes,   \* the temporaries of this program
          edges,   \* set of pairs <<i, j>> of interfering temporaries
          colour,  \* the partial assignment: a function on a subset of nodes
          status   \* "prepare", "working", "finished", "failed"

vars == <<nodes, edges, colour, status>>

Adjacent(t) == {u \in nodes : <<t, u>> \in edges}

Init == /\ nodes = {} /\ edges = {}
        /\ colour = [t \in {} |-> 0]
        /\ status = "prepare"

(* The interference graph is given once; it is symmetric and irreflexive. *)
Given == /\ status = "prepare"
         /\ nodes' \in SUBSET Temps
         /\ edges' \in SUBSET (nodes' \X nodes')
         /\ \A e \in edges' : e[1] # e[2] /\ <<e[2], e[1]>> \in edges'
         /\ status' = "working"
         /\ UNCHANGED colour

Assign(t, c) == /\ status = "working"
                /\ t \in nodes \ DOMAIN colour
                /\ \A u \in Adjacent(t) \cap DOMAIN colour : colour[u] # c
                /\ colour' = [u \in DOMAIN colour \cup {t} |->
                                IF u = t THEN c ELSE colour[u]]
                /\ UNCHANGED <<nodes, edges, status>>

Finish == /\ status = "working"
          /\ DOMAIN colour = nodes
          /\ status' = "finished"
          /\ UNCHANGED <<nodes, edges, colour>>

(* Giving up is allowed only on a temporary whose neighbours hold every    *)
(* register.                                                               *)
GiveUp == /\ status = "working"
          /\ \E t \in nodes \ DOMAIN colour :
                \A c \in Colors :
                   \E u \in Adjacent(t) \cap DOMAIN colour : colour[u] = c
          /\ status' = "failed"
          /\ UNCHANGED <<nodes, edges, colour>>

Next == \/ Given
        \/ \E t \in Temps, c \in Colors : Assign(t, c)
        \/ Finish
        \/ GiveUp

Spec == Init /\ [][Next]_vars
=============================================================================

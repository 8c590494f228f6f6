--------------------------- MODULE LexicalScoping --------------------------
(* What the symbol table of a language with one global scope and one scope  *)
(* per function promises: a name used in a function means its local         *)
(* declaration if there is one and the global one otherwise, and leaving a  *)
(* function leaves every global meaning as it was.                          *)
CONSTANTS Names, Declarations, None

VARIABLES global, local,  \* the declaration of each name, or None
          inside,         \* is a function being analysed?
          binding         \* what the last resolved use of a name was bound to

vars == <<global, local, inside, binding>>

Meaning(n) == IF local[n] # None THEN local[n] ELSE global[n]

Init == /\ global = [n \in Names |-> None]
        /\ local = [n \in Names |-> None]
        /\ inside = FALSE
        /\ binding = None

DeclareGlobal(n, d) == /\ ~inside /\ global[n] = None
                       /\ global' = [global EXCEPT ![n] = d]
                       /\ UNCHANGED <<local, inside, binding>>

(* A function is visible in its own body.                                   *)
Enter(n, d) == /\ ~inside
               /\ global[n] = None \/ d = global[n]
               /\ global' = [global EXCEPT ![n] = d]
               /\ inside' = TRUE
               /\ UNCHANGED <<local, binding>>

DeclareLocal(n, d) == /\ inside /\ local[n] = None
                      /\ local' = [local EXCEPT ![n] = d]
                      /\ UNCHANGED <<global, inside, binding>>

Use(n) == /\ Meaning(n) # None
          /\ binding' = Meaning(n)
          /\ UNCHANGED <<global, local, inside>>

Leave == /\ inside /\ inside' = FALSE
         /\ local' = [n \in Names |-> None]
         /\ UNCHANGED <<global, binding>>

Next == \/ \E n \in Names, d \in Declarations :
             DeclareGlobal(n, d) \/ Enter(n, d) \/ DeclareLocal(n, d)
        \/ \E n \in Names : Use(n)
        \/ Leave

Spec == Init /\ [][Next]_vars
=============================================================================

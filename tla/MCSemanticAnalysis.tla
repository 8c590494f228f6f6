------------------------- MODULE MCSemanticAnalysis ------------------------
(* Two names suffice: a global, a function, a parameter that hides either,  *)
(* a local that hides the function it is in. The parameter lists include a  *)
(* name given twice.                                                        *)
EXTENDS SemanticAnalysis
P(n, t) == [name |-> n, type |-> t]
MCParams == {<<>>, <<P("x", "int"), P("main", "float")>>,
             <<P("x", "int"), P("x", "int")>>}
MCArgTypes == {<<>>, <<"int", "float">>}
=============================================================================

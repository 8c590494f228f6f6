---------------------------- MODULE MCExpressions --------------------------
(* Expressions of up to three levels over a variable, an element, a         *)
(* constant and a call of each type, assigned to variables of each type.    *)
(* The values are such that no result is equal to another by accident.      *)
EXTENDS Expressions, TLC

MCVariables == [f |-> [type |-> "float", address |-> 0], i |-> [type |-> "int", address |-> 4],
                a |-> [type |-> "int", address |-> 8]]
MCInitially == (0 :> FloatBits(7)) @@ (4 :> IntBits(2)) @@ (8 :> IntBits(17)) @@ (12 :> IntBits(29))
MCFunctions == [g |-> [type |-> "int", value |-> 5], h |-> [type |-> "float", value |-> 11]]

Var(x) == Node("VAR_REFERENCE_NODE", x, <<>>)
Element(x, index) == Node("VAR_REFERENCE_NODE", x, <<index>>)
One == Node("INT_CONSTANT", 1, <<>>)
Binary(op, l, r) == Node(op, "", <<l, r>>)
Ints == {Var("i"), One, Node("CALL_NODE", "g", <<>>), Element("a", One)}
Floats == {Var("f"), Node("FLOAT_CONSTANT", 3, <<>>), Node("CALL_NODE", "h", <<>>)}
Level1 == Ints \cup Floats
InBounds == {Binary("SUBTRACTION_NODE", Var("i"), One)} \cup {Binary("LT_NODE", l, r) : l, r \in Level1}
Level2 == Level1 \cup {Binary(op, l, r) : op \in Arithmetic \cup {"LT_NODE", "EQ_NODE"}, l, r \in Level1}
            \cup {Node("NEG_NODE", "", <<e>>) : e \in Level1}
            \cup {Element("a", e) : e \in Floats \cup InBounds}
            \cup {Binary("ASSIGNMENT_NODE", Var("f"), e) : e \in {One, Var("i")}}
Ends == {Var("i"), One, Var("f")}
Level3 == Level2 \cup {Binary(op, l, r) : op \in {"SUBTRACTION_NODE", "GEQ_NODE"}, l \in Level2, r \in Ends}
            \cup {Binary("SUM_NODE", l, r) : l \in Ends, r \in Level2}
            \cup {Binary("LT_NODE", l, r) : l, r \in {Binary("ASSIGNMENT_NODE", Var("f"), One), Var("f")}}
MCPrograms == {Binary("ASSIGNMENT_NODE", x, e) : x \in {Var("i"), Var("f"), Element("a", One)}, e \in Level3}
=============================================================================

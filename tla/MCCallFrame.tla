----------------------------- MODULE MCCallFrame ---------------------------
(* Two registers; main with a parameter and a local, as test/fibonacci.in   *)
(* has it, a function with two parameters and a local, one with a parameter *)
(* and two locals, and calls three deep, recursive ones included.           *)
EXTENDS CallFrame
Shape(params, locals) == [params |-> params, locals |-> locals]
MCValues == {-1, -2}
MCFunctions == "main" :> Shape(1, 1) @@ "f" :> Shape(2, 1) @@ "g" :> Shape(1, 2)
=============================================================================

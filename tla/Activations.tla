----------------------------- MODULE Activations ---------------------------
(* What a calling convention promises: every activation has its parameters, *)
(* its locals and registers of its own. A call hands the arguments over and *)
(* leaves the caller as it was; a return brings back exactly the caller and *)
(* one result.                                                              *)
EXTENDS Naturals, Sequences, SequencesExt

CONSTANTS Functions,  \* [name -> [params, locals]], the numbers of each
          Main,
          Header,     \* the code that calls Main; it has no frame
          Regs,       \* the registers an expression may use
          Values

VARIABLES activations, \* [fun, params, locals, regs], the newest last
          arguments,   \* the arguments handed over so far
          result       \* of the last function that returned
vars == <<activations, arguments, result>>

Top == Last(activations)
Fresh(f, params, regs, locals) ==
  [fun |-> f, params |-> params, locals |-> locals, regs |-> regs]

(* The header hands its function arguments that it did not choose.          *)
Begin == /\ arguments \in [1 .. Functions[Main].params -> Values]
         /\ result \in Values
         /\ \E regs \in [Regs -> Values] : activations = <<Fresh(Header, <<>>, regs, <<>>)>>

Inside == Len(activations) > 1

Pass(v) == /\ Inside
           /\ arguments' = Append(arguments, v)
           /\ UNCHANGED <<activations, result>>

Enter(f) == /\ Inside \/ f = Main
            /\ Len(arguments) = Functions[f].params
            /\ \E locals \in [1 .. Functions[f].locals -> Values] :
                 activations' = Append(activations, Fresh(f, arguments, Top.regs, locals))
            /\ arguments' = <<>>
            /\ UNCHANGED result

Update(activation) == /\ Inside
                      /\ activations' = Append(Front(activations), activation)
                      /\ UNCHANGED <<arguments, result>>
SetRegister(r, v) == Update([Top EXCEPT !.regs[r] = v])
SetLocal(i, v) == i \in DOMAIN Top.locals /\ Update([Top EXCEPT !.locals[i] = v])
SetParameter(i, v) == i \in DOMAIN Top.params /\ Update([Top EXCEPT !.params[i] = v])

Return(v) == /\ Inside /\ arguments = <<>>
             /\ activations' = Front(activations)
             /\ result' = v
             /\ UNCHANGED arguments

Next == \/ \E v \in Values : Pass(v) \/ Return(v)
        \/ \E f \in DOMAIN Functions : Enter(f)
        \/ \E v \in Values, r \in Regs : SetRegister(r, v)
        \/ \E v \in Values, i \in DOMAIN Top.locals : SetLocal(i, v)
        \/ \E v \in Values, i \in DOMAIN Top.params : SetParameter(i, v)

Spec == Begin /\ [][Next]_vars
=============================================================================

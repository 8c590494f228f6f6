------------------------ MODULE StructuredExecution ------------------------
(* What a function body means: its tokens are executed from left to right,  *)
(* but for conditions, else, the end of a loop and return. The body is      *)
(* known token by token before it runs.                                     *)
EXTENDS Integers, Sequences, FiniteSetsExt

CONSTANT Tokens      \* records with a field `kind`

VARIABLES prog,      \* the body
          here,      \* the token to execute, 0 before the start
          verdict    \* of the condition evaluated here, or "none"
vars == <<prog, here, verdict>>

Openers == {"if", "while"}
Openings(i, j) == {k \in i .. j : prog[k].kind \in Openers}
Enders == {"endif", "endwhile"}
Endings(i, j) == {k \in i .. j : prog[k].kind \in Enders}
Nesting(i, j) == Cardinality(Openings(i, j)) - Cardinality(Endings(i, j))

(* The end of the construct that opens at i, and its else if it has one.    *)
EndOf(i) == CHOOSE j \in i .. Len(prog) : Nesting(i, j) = 0 /\ \A k \in i .. j - 1 : Nesting(i, k) > 0
ElsesOf(i) == {j \in i .. EndOf(i) : prog[j].kind = "else" /\ Nesting(i, j) = 1}
OpenerOf(j) == CHOOSE i \in Openings(1, j) : EndOf(i) = j \/ j \in ElsesOf(i)

Begin == prog = <<>> /\ here = 0 /\ verdict = "none"

Parse(t) == /\ here = 0
            /\ prog' = Append(prog, t)
            /\ UNCHANGED <<here, verdict>>
Start == /\ here = 0 /\ here' = 1
         /\ UNCHANGED <<prog, verdict>>

At(kinds) == here \in DOMAIN prog /\ prog[here].kind \in kinds
Go(there) == here' = there /\ UNCHANGED prog
Stay == UNCHANGED verdict

Operation == At({"op"}) /\ Go(here + 1) /\ Stay
Evaluate == /\ At(Openers) /\ verdict = "none"
            /\ verdict' \in {"true", "false"}
            /\ UNCHANGED <<prog, here>>
Decide == /\ At(Openers) /\ verdict # "none"
          /\ verdict' = "none"
          /\ Go(IF verdict = "true" THEN here + 1
                ELSE IF prog[here].kind = "while" THEN EndOf(here) + 1
                ELSE IF ElsesOf(here) = {} THEN EndOf(here)
                ELSE Max(ElsesOf(here)) + 1)
Else == At({"else"}) /\ Go(EndOf(OpenerOf(here))) /\ Stay
EndIf == At({"endif"}) /\ Go(here + 1) /\ Stay
EndWhile == At({"endwhile"}) /\ Go(OpenerOf(here)) /\ Stay
Return == At({"return"}) /\ Go(Len(prog) + 1) /\ Stay

Next == \/ \E t \in Tokens : Parse(t)
        \/ Start
        \/ Operation \/ Evaluate \/ Decide \/ Else \/ EndIf \/ EndWhile \/ Return

Spec == Begin /\ [][Next]_vars
=============================================================================

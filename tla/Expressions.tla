----------------------------- MODULE Expressions ---------------------------
(* Expressions of int and float: the types that frontend/semantic_analysis.c*)
(* gives to the nodes, the cast nodes it inserts, the code backend/codegen.c*)
(* emits for them and its execution on the two register files.              *)
(*                                                                          *)
(* A statement assigns an expression to a local variable. A 32-bit pattern  *)
(* is the value it stands for, as an int or as a float, or unknown; all     *)
(* values are small integers, which both types hold exactly.                *)
EXTENDS Integers, Sequences, SequencesExt

CONSTANTS Programs,   \* assignments: trees as the parser makes them
          Variables,  \* name |-> [type, address]: locals, arrays included
          Initially,  \* address |-> what the words of the frame hold
          Functions   \* name |-> [type, value]: what a call returns

ASSUME VariablesAssumption ==
  \A x \in DOMAIN Variables : /\ Variables[x].type \in {"int", "float"}
                              /\ Variables[x].address \in DOMAIN Initially
ASSUME FunctionsAssumption == \A f \in DOMAIN Functions : Functions[f].type \in {"int", "float"}

VARIABLES program, \* as parsed
          tree,    \* as analysed
          errors,  \* that the analysis has reported
          phase,   \* "parsed", "analysed", "refused", "crashed", "running", "done"
          code, pc,
          ints, floats, \* the registers: of temporaries, and a0 and fa0
          memory,  \* of the frame
          misread  \* a register was read as a type that it does not hold

vars == <<program, tree, errors, phase, code, pc, ints, floats, memory, misread>>

-----------------------------------------------------------------------------
IntBits(n) == <<"int", n>>
FloatBits(n) == <<"float", n>>
Unknown == <<"unknown">>     \* what a register happens to hold, and what becomes of it

(* newASTNode. An array element has the index as its child.                 *)
Node(kind, name, kids) == [kind |-> kind, name |-> name, kids |-> kids, type |-> "none", wrong |-> FALSE]
Arithmetic == {"SUM_NODE", "SUBTRACTION_NODE", "MULTIPLICATION_NODE"}
Equality == {"EQ_NODE", "DIFF_NODE"}
Comparisons == {"LT_NODE", "GT_NODE", "LEQ_NODE", "GEQ_NODE"} \cup Equality

(* datatypes.c 17-30, ast.c 23-31.                                          *)
CastsBothWays(from, to) == from = to \/ {from, to} = {"int", "float"} \* variant
CanImplicitCast(from, to) == from = to \/ (from = "int" /\ to = "float")
ImplicitCastPriority(a, b) == IF {a, b} = {"int", "float"} THEN "float" ELSE IF a = b THEN a ELSE "-1"
NeedsCast(from, to) == from = "int" /\ to = "float"
Cast(node) == [Node("INTEGER_TO_FLOAT_NODE", "", <<node>>) EXCEPT !.type = "float"]

Retag(node, type) == [node EXCEPT !.type = type]
(* Lines 285-327: the children get the common type before getCastNode is    *)
(* asked what it takes to get from their type to that.                      *)
CastWithRetag(child, type) ==
  LET retagged == Retag(child, type)
  IN IF NeedsCast(retagged.type, type) THEN Cast(retagged) ELSE retagged
AnalysedArithmetic(n) ==
  LET l == n.kids[1]  r == n.kids[2]  priority == ImplicitCastPriority(l.type, r.type)
  IN IF l.type = r.type THEN Retag(n, l.type)
     ELSE IF CanImplicitCast(l.type, priority) /\ CanImplicitCast(r.type, priority)
       THEN [Retag(n, priority) EXCEPT !.kids = <<CastWithRetag(l, priority), CastWithRetag(r, priority)>>]
     ELSE [n EXCEPT !.wrong = TRUE]
(* Lines 328-347.                                                           *)
ComparisonRetagsNone(n) == Retag(n, "int")                     \* variant
AnalysedComparison(n) ==
  LET l == n.kids[1]  r == n.kids[2]
  IN [Retag(n, "int") EXCEPT !.kids =
        IF CanImplicitCast(r.type, l.type) THEN <<l, Retag(r, l.type)>>
        ELSE IF CanImplicitCast(l.type, r.type) THEN <<Retag(l, r.type), r>> ELSE @]
(* Lines 256-281, where the cast is inserted. A void right side is refused. *)
CastForgotten(n) == Retag(n, "void")                           \* variant
AnalysedAssignment(n) ==
  LET l == n.kids[1]  r == n.kids[2]
  IN IF l.type = r.type \/ "none" \in {l.type, r.type} THEN Retag(n, "void")
     ELSE IF CanImplicitCast(r.type, l.type)
       THEN Retag([n EXCEPT !.kids[2] = IF NeedsCast(r.type, l.type) THEN Cast(r) ELSE r], "void")
     ELSE [Retag(n, "void") EXCEPT !.wrong = TRUE]

RECURSIVE Analysed(_), Errors(_)
Analysed(node) ==
  LET n == [node EXCEPT !.kids = [i \in DOMAIN node.kids |-> Analysed(node.kids[i])]]
  IN CASE n.kind \in Arithmetic -> AnalysedArithmetic(n)
       [] n.kind \in Comparisons -> AnalysedComparison(n)
       [] n.kind = "ASSIGNMENT_NODE" -> AnalysedAssignment(n)
       [] n.kind = "NEG_NODE" -> Retag(n, n.kids[1].type)
       [] n.kind = "INT_CONSTANT" -> Retag(n, "int")
       [] n.kind = "FLOAT_CONSTANT" -> Retag(n, "float")
       [] n.kind = "CALL_NODE" -> Retag(n, Functions[n.name].type)
       [] n.kind = "VAR_REFERENCE_NODE" ->
            IF n.kids # <<>> /\ n.kids[1].type # "int" THEN [Retag(n, "void") EXCEPT !.wrong = TRUE]
            ELSE Retag(n, Variables[n.name].type)
Errors(n) == (IF n.wrong THEN 1 ELSE 0)
               + FoldLeft(LAMBDA sum, kid : sum + Errors(kid), 0, n.kids)

-----------------------------------------------------------------------------
(* Code: from a node and the next temporary to the instructions, the        *)
(* temporary of the result and the next one. An instruction names the file  *)
(* of its operands; small sequences whose outcome other modules show        *)
(* (constants, comparisons, calls) are one instruction.                     *)
FileOf(n) == IF n.type = "float" THEN "float" ELSE "int"
Generated(instructions, result, next) == [code |-> instructions, result |-> result, next |-> next]

(* The address of a local as code, base register and offset: at its offset *)
(* from sp, here 0, or for an element, computed in temporary a, the index   *)
(* added once for each byte (lines 287-296, 390-399).                       *)
A0 == -1  \* A0_REGISTER, FA0_REGISTER
SP == -2
AddedOnce(a, index) == << <<"add", "int", a, index, a>> >>      \* variant
ScaledIndex(a, index) == [i \in 1 .. 4 |-> <<"add", "int", a, index, a>>]
Address(n, a, index) ==
  IF n.kids = <<>> THEN [code |-> <<>>, base |-> SP, offset |-> Variables[n.name].address]
  ELSE [code |-> << <<"li", a, Variables[n.name].address>> >> \o ScaledIndex(a, index)
                   \o << <<"add", "int", SP, a, a>> >>,
        base |-> a, offset |-> 0]

FileOfOperands(n) == IF n.kids[1].type = "int" THEN "int" ELSE "float"

RECURSIVE Gen(_, _)
GenKids(n, t) ==         \* the children one after the other
  FoldLeft(LAMBDA g, kid : LET k == Gen(kid, g.next)
                           IN [code |-> g.code \o k.code, results |-> Append(g.results, k.result),
                               next |-> k.next],
           [code |-> <<>>, results |-> <<>>, next |-> t], n.kids)
Gen(n, t) ==
  LET g == GenKids(n, t)  r == g.results  u == g.next
  IN CASE n.kind = "NEG_NODE" ->                                        \* its own first
            LET k == Gen(n.kids[1], t + 1)
            IN Generated(Append(k.code, <<"neg", FileOf(n), t, k.result>>), t, k.next)
       [] n.kind = "INTEGER_TO_FLOAT_NODE" -> Generated(Append(g.code, <<"fcvt", u, r[1]>>), u, u + 1)
       [] n.kind \in Arithmetic ->
            Generated(Append(g.code, <<CASE n.kind = "SUM_NODE" -> "add" [] n.kind = "SUBTRACTION_NODE" -> "sub"
                                         [] OTHER -> "mul", FileOf(n), r[1], r[2], u>>), u, u + 1)
       [] n.kind \in Comparisons ->
            LET aux == IF n.kids[1].type = "int" THEN 1 ELSE 0
            IN Generated(Append(g.code, <<n.kind, FileOfOperands(n), r[1], r[2], u>>), u, u + 1 + aux)
       [] n.kind \in {"INT_CONSTANT", "FLOAT_CONSTANT"} ->              \* t: aux_register
            Generated(<< <<IF n.type = "float" THEN "fli" ELSE "li", t + 1, n.name>> >>, t + 1, t + 2)
       [] n.kind = "CALL_NODE" ->
            Generated(<< <<"call", n.name>>, <<"mv", FileOf(n), t>> >>, t, t + 1)
       [] n.kind = "VAR_REFERENCE_NODE" ->
            LET at == Address(n, u, r[1])
            IN Generated(g.code \o at.code \o << <<"load", FileOf(n), u + 1, at.offset, at.base>> >>,
                         u + 1, u + 3)
       [] n.kind = "ASSIGNMENT_NODE" ->                                 \* its tempRegResult stays 0
            LET x == n.kids[1]  at == Address(x, u, Gen(x.kids[1], t).result)
            IN Generated(g.code \o at.code
                           \o << <<"store", Variables[x.name].type, r[2], at.offset, at.base>> >>, 0, u + 2)

(* getFloatComparisonFunction returns NULL for these, and it is called.     *)
RECURSIVE HasFloatEquality(_)
HasFloatEquality(n) == \/ n.kind \in Equality /\ n.kids[1].type # "int"
                       \/ \E i \in DOMAIN n.kids : HasFloatEquality(n.kids[i])

-----------------------------------------------------------------------------
Init == /\ program \in Programs /\ tree = program /\ errors = 0 /\ phase = "parsed"
        /\ code = <<>> /\ pc = 1 /\ ints = <<>> /\ floats = <<>>
        /\ memory = Initially /\ misread = FALSE

Analyse == /\ phase = "parsed"
           /\ tree' = Analysed(program) /\ errors' = Errors(tree')
           /\ phase' = IF errors' = 0 THEN "analysed" ELSE "refused"
           /\ UNCHANGED <<program, code, pc, ints, floats, memory, misread>>

Registers(next) == [r \in (0 .. next) \cup {A0} |-> Unknown]
Generate == /\ phase = "analysed"
            /\ IF HasFloatEquality(tree)
                 THEN phase' = "crashed" /\ UNCHANGED <<code, ints, floats>>
                 ELSE LET g == Gen(tree, 0)
                      IN /\ phase' = "running" /\ code' = g.code
                         /\ ints' = Registers(g.next) @@ (SP :> IntBits(0)) /\ floats' = Registers(g.next)
            /\ UNCHANGED <<program, tree, errors, pc, memory, misread>>

(* The machine.                                                             *)
Doing(op) == phase = "running" /\ pc <= Len(code) /\ code[pc][1] = op
Operand(i) == code[pc][i + 1]
Proceed == pc' = pc + 1 /\ UNCHANGED <<program, tree, errors, phase, code>>
Put(file, register, pattern) ==
  IF file = "float" THEN floats' = [floats EXCEPT ![register] = pattern] /\ UNCHANGED ints
  ELSE ints' = [ints EXCEPT ![register] = pattern] /\ UNCHANGED floats
Get(file, register) == IF file = "float" THEN floats[register] ELSE ints[register]
Read(file, registers) == misread' = (misread \/ \E r \in registers : Get(file, r)[1] # file)

(* On a pattern of the other type the outcome is some number.               *)
Combined(op, file, x, y) ==
  IF x[1] # file \/ y[1] # file THEN Unknown
  ELSE <<file, CASE op = "add" -> x[2] + y[2] [] op = "sub" -> x[2] - y[2] [] op = "mul" -> x[2] * y[2]>>
(* A comparison as the source means it; 0 is true. Ints leave that (lines   *)
(* 324-340; the difference of two words is what ControlFlow is about). Of   *)
(* floats, FLT and FLE set 1, for the operands exchanged in < and <= and    *)
(* as they are in > and >= (ir.c 389-423).                                  *)
Holds(op, x, y) == CASE op = "LT_NODE" -> x < y [] op = "GT_NODE" -> x > y [] op = "LEQ_NODE" -> x <= y
                     [] op = "GEQ_NODE" -> x >= y [] op = "EQ_NODE" -> x = y [] op = "DIFF_NODE" -> x # y
Truth(holds) == IF holds THEN 0 ELSE 1
Flag(set) == IF set THEN 1 ELSE 0
FloatFlag(op, x, y) == CASE op = "LT_NODE" -> Flag(y < x) [] op = "GT_NODE" -> Flag(x < y)
                         [] op = "LEQ_NODE" -> Flag(y <= x) [] op = "GEQ_NODE" -> Flag(x <= y)
Compared(op, file, x, y) ==
  IF x[1] # file \/ y[1] # file THEN Unknown
  ELSE IntBits(IF file = "float" THEN FloatFlag(op, x[2], y[2]) ELSE Truth(Holds(op, x[2], y[2])))

Arith == /\ \E op \in {"add", "sub", "mul"} : Doing(op)
         /\ LET file == Operand(1)
            IN /\ Put(file, Operand(4), Combined(code[pc][1], file, Get(file, Operand(2)), Get(file, Operand(3))))
               /\ Read(file, {Operand(2), Operand(3)})
         /\ Proceed /\ UNCHANGED memory
Neg == /\ Doing("neg")
       /\ Put(Operand(1), Operand(2), Combined("sub", Operand(1), <<Operand(1), 0>>, Get(Operand(1), Operand(3))))
       /\ Read(Operand(1), {Operand(3)}) /\ Proceed /\ UNCHANGED memory
Compare == /\ \E op \in Comparisons : Doing(op)
           /\ LET file == Operand(1)
              IN /\ Put("int", Operand(4), Compared(code[pc][1], file, Get(file, Operand(2)), Get(file, Operand(3))))
                 /\ Read(file, {Operand(2), Operand(3)})
           /\ Proceed /\ UNCHANGED memory
Constant == /\ Doing("li") \/ Doing("fli")
            /\ IF code[pc][1] = "li" THEN Put("int", Operand(1), IntBits(Operand(2)))
               ELSE Put("float", Operand(1), FloatBits(Operand(2)))
            /\ Proceed /\ UNCHANGED <<memory, misread>>
Fcvt == /\ Doing("fcvt")
        /\ LET x == Get("int", Operand(2))
           IN Put("float", Operand(1), IF x[1] = "int" THEN FloatBits(x[2]) ELSE Unknown)
        /\ Read("int", {Operand(2)}) /\ Proceed /\ UNCHANGED memory
(* The callee leaves its value in a0 or in fa0, anything in the other, and  *)
(* the rest as it was (what CallFrame shows).                               *)
Call == /\ Doing("call")
        /\ LET Left(type) == LET f == Functions[Operand(1)]
                             IN IF f.type = type THEN <<type, f.value>> ELSE Unknown
           IN /\ ints' = [ints EXCEPT ![A0] = Left("int")]
              /\ floats' = [floats EXCEPT ![A0] = Left("float")]
        /\ Proceed /\ UNCHANGED <<memory, misread>>
Mv == /\ Doing("mv") /\ Put(Operand(1), Operand(2), Get(Operand(1), A0))
      /\ Read(Operand(1), {A0}) /\ Proceed /\ UNCHANGED memory

Reached(offset, base) == IF base[1] = "int" /\ base[2] + offset \in DOMAIN memory THEN {base[2] + offset} ELSE {}
Load == /\ Doing("load")
        /\ LET at == Reached(Operand(3), ints[Operand(4)])
           IN Put(Operand(1), Operand(2), IF at = {} THEN Unknown ELSE memory[CHOOSE a \in at : TRUE])
        /\ Read("int", {Operand(4)}) /\ Proceed /\ UNCHANGED memory
Store == /\ Doing("store")
         /\ LET at == Reached(Operand(3), ints[Operand(4)])
            IN memory' = [a \in DOMAIN memory |-> IF at = {} THEN Unknown
                                                 ELSE IF a \in at THEN Get(Operand(1), Operand(2)) ELSE memory[a]]
         /\ misread' = (misread \/ Get(Operand(1), Operand(2))[1] # Operand(1) \/ ints[Operand(4)][1] # "int")
         /\ Proceed /\ UNCHANGED <<ints, floats>>
Finish == /\ phase = "running" /\ pc = Len(code) + 1 /\ phase' = "done"
          /\ UNCHANGED <<program, tree, errors, code, pc, ints, floats, memory, misread>>
Stop == phase \in {"refused", "crashed", "done"} /\ UNCHANGED vars

Next == \/ Analyse \/ Generate \/ Arith \/ Neg \/ Compare \/ Constant \/ Fcvt \/ Call \/ Mv
        \/ Load \/ Store \/ Finish \/ Stop
Spec == Init /\ [][Next]_vars

-----------------------------------------------------------------------------
(* What a program means: int where both operands are, float as soon as one  *)
(* is; but for the comparisons of equal floats, of which the code answers   *)
(* < and <= as each other, and > and >= (ControlFlow's FloatComparisons).   *)
RECURSIVE TypeOf(_)
TypeOf(n) ==
  CASE n.kind \in Arithmetic -> IF TypeOf(n.kids[1]) = TypeOf(n.kids[2]) THEN TypeOf(n.kids[1]) ELSE "float"
    [] n.kind = "NEG_NODE" -> TypeOf(n.kids[1])
    [] n.kind = "FLOAT_CONSTANT" -> "float" [] n.kind = "ASSIGNMENT_NODE" -> "void"
    [] n.kind = "CALL_NODE" -> Functions[n.name].type
    [] n.kind = "VAR_REFERENCE_NODE" -> Variables[n.name].type [] OTHER -> "int"

(* Of equal floats the comparison has the opposite answer.                  *)
EqualFloats(n, x, y) == x = y /\ "float" \in {TypeOf(n.kids[1]), TypeOf(n.kids[2])}
RECURSIVE Value(_)
Value(n) ==
  LET v(i) == Value(n.kids[i])
  IN CASE n.kind = "SUM_NODE" -> v(1) + v(2) [] n.kind = "SUBTRACTION_NODE" -> v(1) - v(2)
       [] n.kind = "MULTIPLICATION_NODE" -> v(1) * v(2) [] n.kind = "NEG_NODE" -> -v(1)
       [] n.kind \in Comparisons -> Truth(Holds(n.kind, v(1), v(2)) # EqualFloats(n, v(1), v(2)))
       [] n.kind \in {"INT_CONSTANT", "FLOAT_CONSTANT"} -> n.name
       [] n.kind = "CALL_NODE" -> Functions[n.name].value
       [] n.kind = "VAR_REFERENCE_NODE" ->
            LET address == Variables[n.name].address + (IF n.kids = <<>> THEN 0 ELSE 4 * v(1))
            IN Initially[address][2]

RECURSIVE Within(_)
Within(n) == {n} \cup UNION {Within(n.kids[i]) : i \in DOMAIN n.kids}
(* Operators with an int operand and a float one.                           *)
Mixed(n) == /\ n.kind \in Arithmetic \cup Comparisons
            /\ {TypeOf(n.kids[1]), TypeOf(n.kids[2])} = {"int", "float"}
IntOperand(n) == n.kids[IF TypeOf(n.kids[1]) = "int" THEN 1 ELSE 2]
Retagged == \E n \in Within(program) : Mixed(n) /\ IntOperand(n).kind # "INT_CONSTANT"
VoidOperand == \E n \in Within(program) : /\ n.kind # "ASSIGNMENT_NODE"
                                          /\ \E i \in DOMAIN n.kids : TypeOf(n.kids[i]) = "void"
Target == LET x == program.kids[1]
          IN Variables[x.name].address + (IF x.kids = <<>> THEN 0 ELSE 4 * Value(x.kids[1]))

(* Types. A node of an accepted tree has one of the language's.             *)
TypeOK == /\ phase \in {"parsed", "analysed", "refused", "crashed", "running", "done"}
          /\ errors \in Nat /\ misread \in BOOLEAN
          /\ pc \in 1 .. Len(code) + 1 /\ DOMAIN memory = DOMAIN Initially
          /\ phase \in {"analysed", "crashed", "running"} =>
               \A n \in Within(tree) : n.type \in {"int", "float", "void"}

(* The variable gets the value of the expression, converted to its type, in *)
(* every program without an int, other than a constant, that meets a float: *)
(* by way of the address of an element, of a cast node, of 0 for true. In   *)
(* that value a comparison of equal floats (codegen.c 341-347, ir.c         *)
(* 389-423) counts with the opposite of its answer: f < f is true and       *)
(* f >= f false.                                                            *)
ValueAssigned ==
  (phase = "done" /\ ~VoidOperand /\ ~Retagged) =>
    memory[Target] = <<Variables[program.kids[1].name].type, Value(program.kids[2])>>

(* Each instruction finds its operands where and as what it reads them, but *)
(* exactly where such an int meets a float: the node is given the type      *)
(* float and no cast (semantic_analysis.c 297-305, 335-344), so that it is  *)
(* loaded, computed or fetched as if it were one, from registers nobody set.*)
MisreadsAreRetagged == (phase = "done" /\ ~VoidOperand) => (misread <=> Retagged)

(* The analysis refuses what the types do not allow, and nothing else: a    *)
(* float kept in an int, an index that is no int, the value of an assignment*)
(* as an operand (of arithmetic, if only one is, and not of comparisons).   *)
Allowed(n) ==
  LET Type(i) == TypeOf(n.kids[i])
  IN CASE n.kind \in Arithmetic -> Type(1) = "void" <=> Type(2) = "void"
       [] n.kind = "ASSIGNMENT_NODE" -> Type(2) = Type(1) \/ (Type(1) = "float" /\ Type(2) = "int")
       [] n.kind = "VAR_REFERENCE_NODE" -> n.kids = <<>> \/ Type(1) = "int"
       [] OTHER -> TRUE
RefusesWhatIsNotAllowed == phase # "parsed" => (errors = 0 <=> \A n \in Within(program) : Allowed(n))

(* The types the analysis lets through, and those it leaves on the nodes.   *)
TypesAllowed == TypeOK /\ RefusesWhatIsNotAllowed

(* The compiler does not get through an == or != of anything but two ints   *)
(* (codegen.c 59-72 has no function for it, and 341-347 calls it), whatever *)
(* the conversions make of the operands; it gets through everything else.   *)
FloatEquality(n) == /\ n.kind \in Equality
                    /\ TypeOf(n.kids[1]) # "int" \/ TypeOf(n.kids[2]) = "float"
CompilesUnlessFloatEquality ==
  phase \in {"crashed", "running", "done"} =>
    (phase = "crashed" <=> \E n \in Within(program) : FloatEquality(n))
=============================================================================

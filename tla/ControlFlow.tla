----------------------------- MODULE ControlFlow ---------------------------
(* The control flow of a function body: the code that the IF, WHILE,        *)
(* comparison and RETURN cases of backend/codegen.c emit, with the          *)
(* displacements they patch in, and its execution.                          *)
(*                                                                          *)
(* The walk over the body is a sequence of tokens: a construct is opened,   *)
(* its parts are walked, it is ended. Code without control flow is a block  *)
(* of some words. The nodes of a token follow from it, but for the one      *)
(* displacement that may be patched in. Comments take no word and nothing   *)
(* reads an address of theirs: they are left out here. Register assignment  *)
(* keeps the registers of a comparison apart; they are aux and result.      *)
EXTENDS Integers, Sequences, FiniteSets

CONSTANTS BlockWords,     \* lengths of blocks
          Conditions,     \* the conditions a body may have: subset of Condition
          WordValues,     \* how many values an int has: 2^32
          BranchValues,   \* and the displacement of a branch: 2^13
          JumpValues,     \* and that of a jump: 2^21
          Floats, NaN,    \* floats are integers here, one of which is NaN
          MaxTokens,      \* bound: tokens of a body
          MaxComparisons, \* bound: comparisons in it
          MaxBytes        \* bound: its code but for the ends, below what a branch reaches

Relations == {"<", ">", "<=", ">=", "==", "!="}
Condition == [type : {"int", "float"}, op : Relations] \cup {[type |-> "value", op |-> "none"]}

ASSUME BlockWordsAssumption == BlockWords \subseteq Nat \ {0}
ASSUME ConditionsAssumption == Conditions \subseteq Condition
ASSUME FloatsAssumption == Floats \subseteq Int /\ NaN \in Int
ASSUME ValuesAssumption ==
  \A values \in {WordValues, BranchValues, JumpValues} : values \in Nat \ {0} /\ values % 2 = 0
ASSUME BoundsAssumption == MaxTokens \in Nat /\ MaxComparisons \in Nat /\ MaxBytes \in Nat
ASSUME ReachAssumption ==
  \A values \in {BranchValues, JumpValues} : MaxBytes + 4 * MaxTokens < values \div 2

VARIABLES prog,         \* the tokens walked so far
          ir,           \* of the nodes of each: address of the first, displacement patched in
          lastAddress,
          open,         \* the constructs being walked, the innermost first
          phase,        \* "walk", "run", "returned", "crashed"
          at,           \* address of the instruction to execute
          operands,     \* of the comparison under way
          aux, result   \* auxReg and tempRegResult of a comparison

vars == <<prog, ir, lastAddress, open, phase, at, operands, aux, result>>
machine == <<at, operands, aux, result>>
code == <<prog, ir, lastAddress, open>>

-----------------------------------------------------------------------------
Node(kind, imm) == [kind |-> kind, imm |-> imm]

(* Lines 317-349. An int comparison is decided by the sign of a difference, *)
(* a float one by FLT or FLE, which set the opposite of what the conditions *)
(* of IF and WHILE take for true: 0.                                        *)
Compared(c) ==
  CASE c.type = "int" -> <<Node("sub", 0), Node(c.op, 12), Node("li", 1), Node("jal", 8),
                           Node("li", 0)>>
    [] c.type = "float" -> <<Node(IF c.op \in {"<", ">"} THEN "flt" ELSE "fle", 0)>>
    [] c.type = "value" -> <<Node("value", 0)>>

(* getFloatComparisonFunction has no function for these: a call of NULL.    *)
Uncompilable(c) == c.type = "float" /\ c.op \in {"==", "!="}

Token(kind, c, words) == [kind |-> kind, cond |-> c, words |-> words]
NoCondition == [type |-> "value", op |-> "none"]

(* The nodes of a token, with the displacement patched in: the condition    *)
(* and the branch over the body (lines 110-117 and 133-150), the jump over  *)
(* the else part and the NOP before it (121-125), the NOP behind an IF      *)
(* (126-129), the jump back (151-152), and the value and the jump of a      *)
(* RETURN (224-231), which goes to functionEnd, wherever that will be. (A   *)
(* RETURN without a value is the jump alone: one word less.)                *)
IfHead(c, imm) == Compared(c) \o <<Node("bne", imm)>>
WhileHead(c, imm) == <<Node("nop", 0)>> \o IfHead(c, imm)
Code(token, imm) ==
  CASE token.kind = "op" -> <<Node("block", 0)>>
    [] token.kind = "if" -> IfHead(token.cond, imm)
    [] token.kind = "while" -> WhileHead(token.cond, imm)
    [] token.kind = "else" -> <<Node("jal", imm), Node("nop", 0)>>
    [] token.kind = "endif" -> <<Node("nop", 0)>>
    [] token.kind = "endwhile" -> <<Node("jal", imm)>>
    [] token.kind = "return" -> <<Node("mov", 0), Node("return", 0)>>
Size(token) == 4 * (IF token.kind = "op" THEN token.words ELSE Len(Code(token, 0)))

(* Where the branch of a construct is, its last node.                       *)
TestAddress(t) == ir[t].address + Size(prog[t]) - 4

-----------------------------------------------------------------------------
Init == /\ prog = <<>> /\ ir = <<>> /\ lastAddress = 0 /\ open = <<>>
        /\ phase = "walk"
        /\ at = 0 /\ operands = <<>> /\ aux = 0 /\ result = 0

(* Bounds: a body can always be finished, and is short.                     *)
Comparisons == Cardinality({t \in DOMAIN prog : prog[t].cond.type # "value"})
Room(bytes, opened) == /\ phase = "walk"
                       /\ Len(prog) + Len(open) + 1 + opened <= MaxTokens
                       /\ lastAddress + bytes <= MaxBytes

(* addNode for each node of a token.                                        *)
Emitted(imm) == Append(ir, [address |-> lastAddress, imm |-> imm])
Walk(token, list) == /\ prog' = Append(prog, token)
                     /\ ir' = list
                     /\ lastAddress' = lastAddress + Size(token)
                     /\ UNCHANGED <<phase, machine>>

Straight(n) == LET token == Token("op", NoCondition, n)
               IN /\ Room(Size(token), 0)
                  /\ Walk(token, Emitted(0))
                  /\ UNCHANGED open

Open(kind, c) == LET token == Token(kind, c, 0)
                 IN /\ Room(Size(token), 1)
                    /\ c.type # "value" => Comparisons < MaxComparisons
                    /\ ~Uncompilable(c)
                    /\ Walk(token, Emitted(0))
                    /\ open' = <<[opener |-> Len(prog) + 1, else |-> 0]>> \o open

Uncompiled(c) == /\ Room(0, 1) /\ Uncompilable(c)
                 /\ phase' = "crashed"
                 /\ UNCHANGED <<code, machine>>

(* The displacements at the end of a construct are from its branch, to the  *)
(* NOP before the else part or the one behind the IF, and from the jump     *)
(* before the else part to the one behind (lines 119-129).                  *)
Kind(construct) == prog[construct.opener].kind
Else == LET token == Token("else", NoCondition, 0)
            top == Head(open)
        IN /\ open # <<>> /\ Room(Size(token), 0) /\ Kind(top) = "if" /\ top.else = 0
           /\ Walk(token, Emitted(4))
           /\ open' = <<[top EXCEPT !.else = Len(prog) + 1]>> \o Tail(open)

EndIf == LET top == Head(open)
             endif == IF top.else = 0 THEN lastAddress ELSE ir[top.else].address + 4
             list == Emitted(0)
             patched ==
               [t \in DOMAIN list |->
                  IF t = top.opener THEN [list[t] EXCEPT !.imm = endif - TestAddress(t)]
                  ELSE IF t = top.else THEN [list[t] EXCEPT !.imm = lastAddress - list[t].address]
                  ELSE list[t]]
         IN /\ open # <<>> /\ phase = "walk" /\ Kind(top) = "if"
            /\ Walk(Token("endif", NoCondition, 0), patched)
            /\ open' = Tail(open)

(* Lines 151-155.                                                           *)
AfterLoopAtJump(endwhile) == endwhile         \* variant: branches to the jump itself
AfterLoop(endwhile) == endwhile + 4
EndWhile == LET top == Head(open)
                endwhile == lastAddress
                list == Emitted(ir[top.opener].address - endwhile)
                patched ==
                  [t \in DOMAIN list |->
                     IF t = top.opener
                       THEN [list[t] EXCEPT !.imm = AfterLoop(endwhile) - TestAddress(t)]
                     ELSE list[t]]
            IN /\ open # <<>> /\ phase = "walk" /\ Kind(top) = "while"
               /\ Walk(Token("endwhile", NoCondition, 0), patched)
               /\ open' = Tail(open)

Return == LET token == Token("return", NoCondition, 0)
          IN /\ Room(Size(token), 0)
             /\ Walk(token, Emitted(0))
             /\ UNCHANGED open

(* Line 209: functionEnd, a NOP, which has an entry in `ir` but no token.   *)
EndFunction == /\ phase = "walk" /\ open = <<>>
               /\ ir' = Emitted(0)
               /\ lastAddress' = lastAddress + 4
               /\ phase' = "run"
               /\ UNCHANGED <<prog, open, machine>>

-----------------------------------------------------------------------------
(* The machine. A displacement is what its field holds, sign extended.      *)
SignedField(imm, values) == ((imm + values \div 2) % values) - values \div 2
IntWords == -(WordValues \div 2) .. (WordValues \div 2) - 1
FunctionEnd == ir[Len(ir)].address

(* The token whose node is at an address, and which of its nodes that is.   *)
Nodes(t) == IF t \in DOMAIN prog THEN Code(prog[t], ir[t].imm) ELSE <<Node("nop", 0)>>
Holds(t) == \E k \in DOMAIN Nodes(t) : at = ir[t].address + 4 * (k - 1)
Landed == \E t \in DOMAIN ir : Holds(t)
Here == CHOOSE t \in DOMAIN ir : Holds(t)
Position == (at - ir[Here].address) \div 4 + 1
Instruction == Nodes(Here)[Position]

Fetch(kinds) == phase = "run" /\ at # FunctionEnd /\ Landed /\ Instruction.kind \in kinds
Jump(there) == at' = there /\ UNCHANGED <<code, phase>>
Continue == Jump(at + (IF Instruction.kind = "block" THEN Size(prog[Here]) ELSE 4))

(* Lines 340-357 of translator/riscv.c: the relation of aux to zero.        *)
Related(op, a, b) == CASE op = "<" -> a < b [] op = ">" -> a > b [] op = "<=" -> a <= b
                       [] op = ">=" -> a >= b [] op = "==" -> a = b [] op = "!=" -> a # b
Difference(a, b) == a - b

Straightforward == /\ Fetch({"nop", "block", "mov"})
                   /\ Continue /\ UNCHANGED <<operands, aux, result>>
Value == /\ Fetch({"value"}) /\ result' \in {0, 1}
         /\ Continue /\ UNCHANGED <<operands, aux>>
Subtract == /\ Fetch({"sub"})
            /\ \E a, b \in IntWords : /\ operands' = <<a, b>>
                                      /\ aux' = SignedField(Difference(a, b), WordValues)
            /\ Continue /\ UNCHANGED result
Branch == /\ Fetch(Relations)
          /\ IF Related(Instruction.kind, aux, 0)
               THEN Jump(at + SignedField(Instruction.imm, BranchValues)) ELSE Continue
          /\ UNCHANGED <<operands, aux, result>>
LoadImmediate == /\ Fetch({"li"}) /\ result' = Instruction.imm
                 /\ Continue /\ UNCHANGED <<operands, aux>>

(* flt.s and fle.s: < and <= have their operands exchanged, > and >= have   *)
(* not (ir.c, lines 389-423). A relation with NaN does not hold.            *)
ExchangedForNone == {}                   \* variant
Exchanged == {"<", "<="}
Less(a, b) == a # NaN /\ b # NaN /\ a < b
LessOrEqual(a, b) == a # NaN /\ b # NaN /\ a <= b
Holding(kind, exchanged, a, b) ==
  LET x == IF exchanged THEN b ELSE a
      y == IF exchanged THEN a ELSE b
  IN IF kind = "flt" THEN Less(x, y) ELSE LessOrEqual(x, y)
FloatCompare ==
  /\ Fetch({"flt", "fle"})
  /\ \E a, b \in Floats :
       /\ operands' = <<a, b>>
       /\ result' = IF Holding(Instruction.kind, prog[Here].cond.op \in Exchanged, a, b)
                      THEN 1 ELSE 0
  /\ Continue /\ UNCHANGED aux

(* The branch of IF and WHILE. After it the comparison is over.             *)
Test == /\ Fetch({"bne"})
        /\ IF result # 0 THEN Jump(at + SignedField(Instruction.imm, BranchValues))
                         ELSE Continue
        /\ operands' = <<>> /\ aux' = 0 /\ result' = 0
JumpAway == /\ Fetch({"jal"})
            /\ Jump(at + SignedField(Instruction.imm, JumpValues))
            /\ UNCHANGED <<operands, aux, result>>
ReturnJump == /\ Fetch({"return"})
              /\ Jump(at + SignedField(FunctionEnd - at, JumpValues))
              /\ UNCHANGED <<operands, aux, result>>
Returned == /\ phase = "run" /\ at = FunctionEnd
            /\ phase' = "returned"
            /\ UNCHANGED <<code, machine>>
Stopped == phase \in {"returned", "crashed"} /\ UNCHANGED vars

Next == \/ \E n \in BlockWords : Straight(n)
        \/ \E kind \in {"if", "while"}, c \in Conditions : Open(kind, c)
        \/ \E c \in Conditions : Uncompiled(c)
        \/ Else \/ EndIf \/ EndWhile \/ Return \/ EndFunction
        \/ Straightforward \/ Value \/ Subtract \/ Branch \/ LoadImmediate \/ FloatCompare \/ Test
        \/ JumpAway \/ ReturnJump \/ Returned \/ Stopped

(* Compiler and machine are each one thread that goes on while it can.      *)
Spec == Init /\ [][Next]_vars /\ WF_vars(Next)

-----------------------------------------------------------------------------
(* Types; the machine is always at a node.                                  *)
TypeOK == /\ \A t \in DOMAIN ir : ir[t].address \in 0 .. lastAddress /\ ir[t].imm \in Int
          /\ Len(prog) <= MaxTokens /\ lastAddress \in 0 .. MaxBytes + 4 * MaxTokens + 4
          /\ phase \in {"walk", "run", "returned", "crashed"}
          /\ phase = "run" => Landed
          /\ aux \in IntWords /\ result \in {0, 1}
          /\ operands \in {<<>>} \cup (IntWords \X IntWords) \cup (Floats \X Floats)

(* The condition the machine is about to act on, and the answer it has.     *)
Testing == phase = "run" /\ Landed /\ Instruction.kind = "bne"
Tested == prog[Here].cond
Answer == result = 0
A == operands[1]
B == operands[2]

(* A comparison of ints (codegen.c lines 324-340) gives the source's answer *)
(* whenever the difference of the operands is a word; otherwise the order   *)
(* comes out reversed, but == and != are still right.                       *)
IntegerComparisons ==
  (Testing /\ Tested.type = "int") =>
    LET wraps == A - B \notin IntWords /\ Tested.op \notin {"==", "!="}
    IN Answer <=> (Related(Tested.op, A, B) # wraps)

(* A comparison of floats (line 342) is right for operands that differ and  *)
(* wrong for equal ones; with a NaN every comparison comes out true.        *)
FloatComparisons ==
  (Testing /\ Tested.type = "float") =>
    IF NaN \in {A, B} THEN Answer
    ELSE Answer <=> (Related(Tested.op, A, B) # (A = B))

(* All comparisons, and the displacements patched around them, which keep   *)
(* the control within the code.                                             *)
ComparisonsAnswer == TypeOK /\ IntegerComparisons /\ FloatComparisons

(* A function returns once its loop conditions come out false: every other  *)
(* transfer of control goes forward.                                        *)
LoopsOver == (Testing /\ prog[Here].kind = "while") => ~Answer
ReturnsAfterLoops == <>[]LoopsOver => <>(phase \in {"returned", "crashed"})

(* The code executes the statements the way they are nested: every branch,  *)
(* fixed or patched, lands on the statement it is meant for. Where control  *)
(* is: at the first token not executed yet, the next one for the NOP before *)
(* an else part.                                                            *)
BeforeElsePart == Here \in DOMAIN prog /\ prog[Here].kind = "else" /\ Position = 2
Unexecuted == IF BeforeElsePart THEN Here + 1 ELSE Here
Executing == IF phase \in {"walk", "crashed"} THEN 0 ELSE IF ~Landed THEN -1 ELSE Unexecuted
Verdict == IF ~Testing THEN "none" ELSE IF Answer THEN "true" ELSE "false"
Structure == INSTANCE StructuredExecution WITH
  Tokens <- {Token("op", NoCondition, n) : n \in BlockWords}
              \cup {Token(kind, c, 0) : kind \in {"if", "while"}, c \in Conditions}
              \cup {Token(kind, NoCondition, 0) : kind \in {"else", "endif", "endwhile", "return"}},
  here <- Executing, verdict <- Verdict
ImplementsStructure == Structure!Spec
=============================================================================

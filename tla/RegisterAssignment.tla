------------------------ MODULE RegisterAssignment -------------------------
(* backend/register_assignment.c together with the two builders of          *)
(* datastructures/ir.c that feed it, registerNewTemporary and addNode.      *)
(*                                                                          *)
(* The code generator emits a list of IR nodes over numbered temporaries;   *)
(* buildDependencyGraph scans the list once to find the lifetime of every   *)
(* temporary and joins temporaries whose lifetimes meet; colorGraph removes *)
(* the temporaries from the graph one at a time, then puts them back in the *)
(* opposite order, giving each the first register no neighbour holds.       *)
EXTENDS Integers, Sequences, FiniteSets

CONSTANTS NumColors,  \* registers handed out (10 in newRegisterAssignment)
          MaxTemps,   \* bound on ir->nextTempReg
          MaxNodes,   \* bound on the length of the IR list
          Forms,      \* the nodes that may be emitted: a subset of Node
          Garbage     \* what a word of a fresh malloc block may hold

ASSUME NumColorsAssumption == NumColors \in Nat
ASSUME MaxTempsAssumption == MaxTemps \in Nat
ASSUME MaxNodesAssumption == MaxNodes \in Nat
ASSUME GarbageAssumption == Garbage \subseteq Int

Temps == 0 .. MaxTemps - 1
Colors == 0 .. NumColors - 1
Fixed == -1        \* any negative operand: a register chosen by the code generator
Unseen == -1       \* initial lifeStart and lifeEnd

VARIABLES ir,            \* the IR list
          nextTempReg,   \* number of temporaries registered so far
          pc,            \* which loop is running
          instruction,   \* the node the scan looks at
          lifeStart, lifeEnd,
          edges,         \* adjList, as a symmetric set of pairs
          num_neighbors,
          active, stack, map

vars == <<ir, nextTempReg, pc, instruction, lifeStart, lifeEnd, edges,
          num_neighbors, active, stack, map>>
scanVars == <<instruction, lifeStart, lifeEnd>>
colourVars == <<edges, num_neighbors, active, stack, map>>

-----------------------------------------------------------------------------
(* The nodes. OP stands for every instruction that writes dest and reads    *)
(* its register sources. STORE reads dest. ADDI, the ADD of                 *)
(* addAdditionImIR, reads a register it records under CONSTANT_SOURCE, so   *)
(* that the scan does not see the read; the code generator only emits it    *)
(* with source = dest or with a fixed source.                               *)
Node == [op : {"OP", "STORE", "ADDI", "COMMENT"},
         dest : Temps \cup {Fixed},
         source : Temps \cup {Fixed},
         source2 : Temps \cup {Fixed}]

Operands(n) == {n.dest, n.source, n.source2} \ {Fixed}

(* What the machine instruction reads and writes, and what the scan sees.   *)
Reads(n) == CASE n.op = "OP" -> {n.source, n.source2} \ {Fixed}
              [] n.op = "STORE" -> {n.dest, n.source} \ {Fixed}
              [] n.op = "ADDI" -> {n.source} \ {Fixed}
              [] OTHER -> {}
Writes(n) == IF n.op \in {"OP", "ADDI"} THEN {n.dest} \ {Fixed} ELSE {}

Starts(n, t) == n.op # "COMMENT" /\ n.dest = t
(* Variant: line 184 dropped, a write does not extend a lifetime.           *)
ExtendsReadsOnly(n, t) == /\ n.op # "COMMENT"
                          /\ \/ n.source = t /\ n.op # "ADDI"
                             \/ n.source2 = t

Extends(n, t) == /\ n.op # "COMMENT"
                 /\ \/ n.dest = t
                    \/ n.source = t /\ n.op # "ADDI"
                    \/ n.source2 = t

Written == UNION {Writes(ir[p]) : p \in DOMAIN ir}

ASSUME FormsAssumption == Forms \subseteq Node

(* A temporary is read only after a node that writes it. The exception is   *)
(* temporary 0: an assignment used as a value leaves tempRegResult at 0.    *)
Emittable(n) == /\ \A t \in Operands(n) : t < nextTempReg
                /\ Reads(n) \subseteq Written \cup {0}
                /\ n.op = "ADDI" => n.source \in {n.dest, Fixed} /\ n.source2 = Fixed
                /\ n.op = "STORE" => n.source2 = Fixed
                /\ n.op = "COMMENT" => Operands(n) = {}

-----------------------------------------------------------------------------
Init == /\ ir = <<>>
        /\ nextTempReg = 0
        /\ pc = "emit"
        /\ instruction = 1
        /\ lifeStart = [t \in Temps |-> Unseen]
        /\ lifeEnd = [t \in Temps |-> Unseen]
        /\ edges = {}
        /\ num_neighbors = [t \in Temps |-> 0]
        /\ active = {}
        /\ stack = <<>>
        /\ map = [t \in Temps |-> 0]

RegisterNewTemporary == /\ pc = "emit"
                        /\ nextTempReg < MaxTemps
                        /\ nextTempReg' = nextTempReg + 1
                        /\ UNCHANGED <<ir, pc, scanVars, colourVars>>

AddNode(n) == /\ pc = "emit"
              /\ Len(ir) < MaxNodes
              /\ Emittable(n)
              /\ ir' = Append(ir, n)
              /\ UNCHANGED <<nextTempReg, pc, scanVars, colourVars>>

StartScan == /\ pc = "emit"
             /\ pc' = "scan"
             /\ UNCHANGED <<ir, nextTempReg, scanVars, colourVars>>

(* Variant: the step to the next node is inside the test for a comment.     *)
ScanNodeSkips == /\ pc = "scan"
                 /\ instruction <= Len(ir)
                 /\ instruction' = IF ir[instruction].op = "COMMENT"
                                     THEN instruction ELSE instruction + 1
                 /\ UNCHANGED <<ir, nextTempReg, pc, lifeStart, lifeEnd, colourVars>>

(* One turn of the scan loop.                                               *)
ScanNode == /\ pc = "scan"
            /\ instruction <= Len(ir)
            /\ LET n == ir[instruction] IN
                 /\ lifeStart' = [t \in Temps |->
                      IF Starts(n, t) /\ lifeStart[t] = Unseen THEN instruction
                                                               ELSE lifeStart[t]]
                 /\ lifeEnd' = [t \in Temps |->
                      IF Extends(n, t) THEN instruction ELSE lifeEnd[t]]
            /\ instruction' = instruction + 1
            /\ UNCHANGED <<ir, nextTempReg, pc, colourVars>>

Overlap(i, j) == /\ lifeStart[i] <= lifeEnd[j]
                 /\ lifeStart[j] <= lifeEnd[i]
                 /\ lifeEnd[i] # Unseen
                 /\ lifeEnd[j] # Unseen

number_temporaries == 0 .. nextTempReg - 1
Adjacent(t) == {u \in Temps : <<t, u>> \in edges}

(* Variant: the second addEdge of line 203 dropped.                         *)
AddEdgesOneWay == /\ pc = "scan"
                  /\ instruction > Len(ir)
                  /\ edges' = {e \in number_temporaries \X number_temporaries :
                                 e[1] < e[2] /\ Overlap(e[1], e[2])}
                  /\ num_neighbors' = [t \in Temps |->
                                   Cardinality({u \in Temps : <<t, u>> \in edges'})]
                  /\ active' = number_temporaries
                  /\ \E g \in Garbage : map' = [t \in Temps |-> g]
                  /\ pc' = "simplify"
                  /\ UNCHANGED <<ir, nextTempReg, scanVars, stack>>

(* The pairs of line 198, and the fresh arrays colorGraph starts from. Its  *)
(* map is malloc'ed and never cleared.                                      *)
AddEdges == /\ pc = "scan"
            /\ instruction > Len(ir)
            /\ edges' = {e \in number_temporaries \X number_temporaries :
                           e[1] # e[2] /\ Overlap(e[1], e[2])}
            /\ num_neighbors' = [t \in Temps |->
                                   Cardinality({u \in Temps : <<t, u>> \in edges'})]
            /\ active' = number_temporaries
            /\ \E g \in Garbage : map' = [t \in Temps |-> g]
            /\ pc' = "simplify"
            /\ UNCHANGED <<ir, nextTempReg, scanVars, stack>>

(* The node the selection loop settles on: among those still in the graph   *)
(* one with most neighbours, the lowest-numbered of them.                   *)
Selected(t) == /\ t \in active
               /\ \A u \in active : \/ num_neighbors[u] < num_neighbors[t]
                                    \/ num_neighbors[u] = num_neighbors[t] /\ t <= u

(* Variants: the counts of the neighbours not updated (lines 87-91); a node *)
(* with no neighbour never beats the initial maximum of 0, so -1 is pushed. *)
SimplifyKeepsCounts(t) ==
  /\ pc = "simplify"
  /\ Selected(t)
  /\ stack' = <<t>> \o stack
  /\ active' = active \ {t}
  /\ num_neighbors' = [num_neighbors EXCEPT ![t] = 0]
  /\ UNCHANGED <<ir, nextTempReg, pc, scanVars, edges, map>>
SimplifySelectsNone(t) ==
  /\ pc = "simplify"
  /\ Selected(t)
  /\ stack' = <<IF num_neighbors[t] = 0 THEN -1 ELSE t>> \o stack
  /\ active' = active \ {t}
  /\ UNCHANGED <<ir, nextTempReg, pc, scanVars, edges, num_neighbors, map>>

Simplify(t) == /\ pc = "simplify"
               /\ Selected(t)
               /\ stack' = <<t>> \o stack
               /\ active' = active \ {t}
               /\ num_neighbors' = [u \in Temps |->
                    (IF u = t THEN 0 ELSE num_neighbors[u])
                      - (IF u \in Adjacent(t) THEN 1 ELSE 0)]
               /\ UNCHANGED <<ir, nextTempReg, pc, scanVars, edges, map>>

StartColouring == /\ pc = "simplify"
                  /\ active = {}
                  /\ pc' = "colour"
                  /\ UNCHANGED <<ir, nextTempReg, scanVars, colourVars>>

(* Variants: the flag of line 108 overwritten by each neighbour instead of  *)
(* and-ed; every coloured temporary counted, neighbour or not.              *)
AvailableLast(t, c) == \/ Adjacent(t) = {}
                       \/ \E u \in Adjacent(t) : ~(u \in active /\ map[u] = c)
AvailableAll(t, c) == \A u \in active : u # t => map[u] # c

Available(t, c) == \A u \in Adjacent(t) : ~(u \in active /\ map[u] = c)

FirstAvailable(t, c) == /\ c \in Colors
                        /\ Available(t, c)
                        /\ \A d \in Colors : d < c => ~Available(t, d)

Colour(c) == /\ pc = "colour"
             /\ stack # <<>>
             /\ FirstAvailable(Head(stack), c)
             /\ map' = [map EXCEPT ![Head(stack)] = c]
             /\ active' = active \cup {Head(stack)}
             /\ stack' = Tail(stack)
             /\ UNCHANGED <<ir, nextTempReg, pc, scanVars, edges, num_neighbors>>

(* Variant: after the message the loop goes on with the next temporary.     *)
FatalContinues == /\ pc = "colour"
                  /\ stack # <<>>
                  /\ \A c \in Colors : ~Available(Head(stack), c)
                  /\ stack' = Tail(stack)
                  /\ UNCHANGED <<ir, nextTempReg, pc, scanVars, edges, num_neighbors,
                                 active, map>>

(* No colour left: the message is printed and the loop is left. The stack   *)
(* is freed and map is returned with the rest of it never written.          *)
Fatal == /\ pc = "colour"
         /\ stack # <<>>
         /\ \A c \in Colors : ~Available(Head(stack), c)
         /\ pc' = "fatal"
         /\ UNCHANGED <<ir, nextTempReg, scanVars, colourVars>>

Finish == /\ pc = "colour"
          /\ stack = <<>>
          /\ pc' = "done"
          /\ UNCHANGED <<ir, nextTempReg, scanVars, colourVars>>

(* colorGraph has returned.                                                 *)
Returned == pc \in {"done", "fatal"} /\ UNCHANGED vars

Next == \/ RegisterNewTemporary
        \/ \E n \in Forms : AddNode(n)
        \/ StartScan
        \/ ScanNode
        \/ AddEdges
        \/ \E t \in Temps : Simplify(t)
        \/ StartColouring
        \/ \E c \in Colors : Colour(c)
        \/ Fatal
        \/ Finish
        \/ Returned

Spec == Init /\ [][Next]_vars
(* One thread runs the passes to their end: it never stops while a step is  *)
(* possible.                                                                *)
FairSpec == Spec /\ WF_vars(Next)

-----------------------------------------------------------------------------
TypeOK == /\ ir \in Seq(Node) /\ Len(ir) <= MaxNodes
          /\ nextTempReg \in 0 .. MaxTemps
          /\ pc \in {"emit", "scan", "simplify", "colour", "done", "fatal"}
          /\ instruction \in 1 .. Len(ir) + 1
          /\ lifeStart \in [Temps -> Int]
          /\ lifeEnd \in [Temps -> Int]
          /\ edges \subseteq Temps \X Temps
          /\ num_neighbors \in [Temps -> Int]
          /\ active \subseteq Temps
          /\ stack \in Seq(Temps)
          /\ map \in [Temps -> Int]

(* While the graph is being taken apart the count the selection loop reads  *)
(* is the number of neighbours still in it, for every temporary that can    *)
(* still be selected (lines 84-91; the counts of the others go negative).   *)
CountsAreDegrees ==
  pc = "simplify" =>
    \A t \in active : num_neighbors[t] = Cardinality(Adjacent(t) \cap active)

(* Two temporaries that interfere never hold one register, at any time      *)
(* while registers are being handed out (lines 97-123).                     *)
Coloured == IF pc \in {"colour", "done", "fatal"} THEN active ELSE {}
ProperColouring == \A t, u \in Coloured : <<t, u>> \in edges => map[t] # map[u]

(* The graph, the counts and the map agree throughout, with the types.      *)
GraphConsistent == TypeOK /\ CountsAreDegrees /\ ProperColouring

(* The purpose of the pass: once it has finished, no instruction between    *)
(* the node that writes a temporary and a node that reads it, the two       *)
(* included, writes another temporary into the same register. A value that  *)
(* is written and never read (a discarded call result) must not destroy a   *)
(* live one either.                                                         *)
NoClobber ==
  pc = "done" =>
    \A p, q, r \in DOMAIN ir : p <= q /\ q <= r =>
      \A t \in Writes(ir[p]) \cap Reads(ir[r]), u \in Writes(ir[q]) :
         t # u => map[t] # map[u]

(* The map handed to the translator names a real register for every         *)
(* temporary of the program, unless the pass said Fatal.                    *)
TotalMap == pc = "done" => \A t \in number_temporaries : map[t] \in Colors

(* Fatal is printed only for a temporary with at least NumColors            *)
(* neighbours, whichever order the temporaries were removed in.             *)
FatalOnlyWhenCrowded ==
  pc = "fatal" =>
    \E t \in number_temporaries : Cardinality(Adjacent(t)) >= NumColors

(* The pass returns, coloured or Fatal.                                     *)
Terminates == <>(pc \in {"done", "fatal"})

(* Register assignment implements the abstract colouring.                   *)
Abstract == INSTANCE Colouring WITH
  nodes <- IF pc \in {"emit", "scan"} THEN {} ELSE number_temporaries,
  colour <- [t \in Coloured |-> map[t]],
  status <- CASE pc \in {"emit", "scan"} -> "prepare"
              [] pc \in {"simplify", "colour"} -> "working"
              [] pc = "done" -> "finished"
              [] pc = "fatal" -> "failed"
ImplementsColouring == Abstract!Spec
=============================================================================

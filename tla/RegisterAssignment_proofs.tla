--------------------- MODULE RegisterAssignment_proofs ---------------------
(* Proofs about register assignment, for every number of registers and of   *)
(* temporaries, every IR list the builders can make, and every content of   *)
(* the fresh map.                                                           *)
EXTENDS RegisterAssignment, TLAPS, FiniteSetTheorems

(* The lifetimes found so far bracket what the scan has passed.             *)
ScanInv == /\ \A t \in Temps : lifeStart[t] < instruction /\ lifeEnd[t] < instruction
           /\ \A p \in 1 .. instruction - 1, t \in Temps :
                /\ Starts(ir[p], t) => lifeStart[t] # Unseen /\ lifeStart[t] <= p
                /\ Extends(ir[p], t) => p <= lifeEnd[t]

(* Operands are registered temporaries, and the read an ADDI hides from the *)
(* scan is of the register it also writes.                                  *)
OperandInv == \A p \in DOMAIN ir :
                /\ \A t \in Operands(ir[p]) : t < nextTempReg
                /\ ir[p].op = "ADDI" => ir[p].source \in {ir[p].dest, Fixed}

(* Where the passes stand: before the graph is built nothing is active, and *)
(* afterwards the graph is the overlap relation of a finished scan.         *)
PhaseInv ==
  /\ pc = "emit" => instruction = 1
  /\ pc \in {"emit", "scan"} => active = {} /\ stack = <<>>
  /\ pc \in {"simplify", "colour", "done", "fatal"} =>
       /\ instruction = Len(ir) + 1
       /\ edges = {e \in number_temporaries \X number_temporaries :
                     e[1] # e[2] /\ Overlap(e[1], e[2])}

(* A temporary is in the graph or on the stack, once.                       *)
OnStack(t) == \E i \in 1 .. Len(stack) : stack[i] = t
StackInv ==
  /\ active \subseteq number_temporaries
  /\ \A i \in 1 .. Len(stack) : stack[i] \in number_temporaries \ active
  /\ \A i, j \in 1 .. Len(stack) : stack[i] = stack[j] => i = j
  /\ pc \in {"simplify", "colour", "done", "fatal"} =>
       \A t \in number_temporaries : t \in active \/ OnStack(t)
  /\ pc = "done" => stack = <<>>

ColourInv ==
  /\ \A t \in Coloured : map[t] \in Colors
  /\ ProperColouring
  /\ pc = "fatal" => /\ stack # <<>>
                     /\ \A c \in Colors : ~Available(stack[1], c)

Inv == TypeOK /\ ScanInv /\ OperandInv /\ PhaseInv /\ StackInv /\ ColourInv

-----------------------------------------------------------------------------
(* Every step keeps every variable in its type.                             *)
LEMMA TypeStep == TypeOK /\ [Next]_vars => TypeOK'
<1> SUFFICES ASSUME TypeOK, [Next]_vars PROVE TypeOK'
  OBVIOUS
<1> USE DEF TypeOK
<1>1. CASE RegisterNewTemporary
  BY <1>1, MaxTempsAssumption DEF RegisterNewTemporary, scanVars, colourVars
<1>2. ASSUME NEW n \in Forms, AddNode(n) PROVE TypeOK'
  <2>1. n \in Node
    BY FormsAssumption
  <2>2. ir' \in Seq(Node) /\ Len(ir') = Len(ir) + 1
    BY <1>2, <2>1 DEF AddNode
  <2> QED
    BY <1>2, <2>2, MaxNodesAssumption, SMTT(30) DEF AddNode, scanVars, colourVars
<1>3. CASE StartScan
  BY <1>3 DEF StartScan, scanVars, colourVars
<1>4. CASE ScanNode
  BY <1>4 DEF ScanNode, colourVars
<1>5. CASE AddEdges
  <2>1. num_neighbors' \in [Temps -> Int]
    <3>1. ASSUME NEW t \in Temps
          PROVE  Cardinality({u \in Temps : <<t, u>> \in edges'}) \in Int
      <4>1. IsFiniteSet(Temps)
        BY FS_Interval, MaxTempsAssumption DEF Temps
      <4>2. IsFiniteSet({u \in Temps : <<t, u>> \in edges'})
        BY <4>1, FS_Subset
      <4> QED
        BY <4>2, FS_CardinalityType
    <3> QED
      BY <1>5, <3>1 DEF AddEdges
  <2>0. number_temporaries \subseteq Temps
    BY MaxTempsAssumption DEF number_temporaries, Temps
  <2>2. edges' \subseteq Temps \X Temps /\ active' \subseteq Temps
    <3>1. edges' \subseteq number_temporaries \X number_temporaries
      BY <1>5 DEF AddEdges
    <3> QED
      BY <1>5, <2>0, <3>1 DEF AddEdges
  <2>3. map' \in [Temps -> Int]
    BY <1>5, GarbageAssumption DEF AddEdges
  <2> QED
    BY <1>5, <2>1, <2>2, <2>3 DEF AddEdges, scanVars
<1>6. ASSUME NEW t \in Temps, Simplify(t) PROVE TypeOK'
  <2>1. stack' \in Seq(Temps)
    BY <1>6 DEF Simplify
  <2>2. num_neighbors' \in [Temps -> Int]
    BY <1>6 DEF Simplify
  <2>3. active' \subseteq Temps
    BY <1>6 DEF Simplify
  <2> QED
    BY <1>6, <2>1, <2>2, <2>3 DEF Simplify, scanVars
<1>7. CASE StartColouring
  BY <1>7 DEF StartColouring, scanVars, colourVars
<1>8. ASSUME NEW c \in Colors, Colour(c) PROVE TypeOK'
  <2>1. Head(stack) \in Temps /\ Tail(stack) \in Seq(Temps)
    BY <1>8 DEF Colour
  <2>2. map' \in [Temps -> Int]
    BY <1>8, <2>1, NumColorsAssumption DEF Colour, Colors
  <2>3. active' \subseteq Temps /\ stack' \in Seq(Temps)
    BY <1>8, <2>1 DEF Colour
  <2> QED
    BY <1>8, <2>2, <2>3 DEF Colour, scanVars
<1>9. CASE Fatal
  BY <1>9 DEF Fatal, scanVars, colourVars
<1>10. CASE Finish
  BY <1>10 DEF Finish, scanVars, colourVars
<1>11. CASE Returned \/ UNCHANGED vars
  BY <1>11 DEF Returned, vars
<1> QED
  BY <1>1, <1>2, <1>3, <1>4, <1>5, <1>6, <1>7, <1>8, <1>9, <1>10, <1>11 DEF Next

LEMMA TypeInit == Init => TypeOK
BY MaxTempsAssumption, MaxNodesAssumption DEF Init, TypeOK, Unseen

(* The state of the passes keeps its types: lists of well-formed nodes, a   *)
(* scan position inside the list, active nodes and stack entries that are   *)
(* temporaries, a map of integers.                                          *)
THEOREM TypeCorrect == Spec => []TypeOK
BY TypeInit, TypeStep, PTL DEF Spec

-----------------------------------------------------------------------------
LEMMA ScanStep == TypeOK /\ PhaseInv /\ ScanInv /\ [Next]_vars => ScanInv'
<1> SUFFICES ASSUME TypeOK, PhaseInv, ScanInv, [Next]_vars PROVE ScanInv'
  OBVIOUS
<1> USE DEF ScanInv
<1>1. ASSUME UNCHANGED <<ir, scanVars>> PROVE ScanInv'
  BY <1>1 DEF scanVars, Starts, Extends
<1>2. ASSUME NEW n \in Forms, AddNode(n) PROVE ScanInv'
  <2>1. instruction' = 1 /\ lifeStart' = lifeStart /\ lifeEnd' = lifeEnd
    BY <1>2 DEF AddNode, scanVars, PhaseInv
  <2> QED
    BY <1>2, <2>1 DEF AddNode, scanVars, PhaseInv
<1>3. CASE ScanNode
  <2> DEFINE n == ir[instruction]
  <2>1. /\ instruction \in Nat /\ instruction' = instruction + 1 /\ ir' = ir
        /\ lifeStart \in [Temps -> Int] /\ lifeEnd \in [Temps -> Int]
    BY <1>3 DEF ScanNode, TypeOK
  <2>2. \A t \in Temps :
          /\ lifeStart'[t] = IF Starts(n, t) /\ lifeStart[t] = Unseen
                               THEN instruction ELSE lifeStart[t]
          /\ lifeEnd'[t] = IF Extends(n, t) THEN instruction ELSE lifeEnd[t]
    BY <1>3 DEF ScanNode
  <2> HIDE DEF n
  <2>3. \A t \in Temps : lifeStart'[t] < instruction' /\ lifeEnd'[t] < instruction'
    BY <2>1, <2>2
  <2>4. ASSUME NEW p \in 1 .. instruction, NEW t \in Temps, p < instruction
        PROVE  /\ Starts(ir[p], t) => lifeStart'[t] # Unseen /\ lifeStart'[t] <= p
               /\ Extends(ir[p], t) => p <= lifeEnd'[t]
    BY <2>1, <2>2, <2>4
  <2>5. ASSUME NEW t \in Temps
        PROVE  /\ Starts(n, t) => lifeStart'[t] # Unseen /\ lifeStart'[t] <= instruction
               /\ Extends(n, t) => instruction <= lifeEnd'[t]
    BY <2>1, <2>2 DEF Unseen
  <2>6. ASSUME NEW p \in 1 .. instruction' - 1, NEW t \in Temps
        PROVE  /\ Starts(ir'[p], t) => lifeStart'[t] # Unseen /\ lifeStart'[t] <= p
               /\ Extends(ir'[p], t) => p <= lifeEnd'[t]
    <3>1. CASE p = instruction
      BY <2>1, <2>5, <3>1 DEF n
    <3>2. CASE p < instruction
      BY <2>1, <2>4, <3>2
    <3> QED
      BY <2>1, <3>1, <3>2
  <2> QED
    BY <2>3, <2>6 DEF Starts, Extends
<1> QED
  BY <1>1, <1>2, <1>3 DEF Next, RegisterNewTemporary, StartScan, AddEdges, Simplify,
     StartColouring, Colour, Fatal, Finish, Returned, vars

LEMMA OperandStep == TypeOK /\ OperandInv /\ [Next]_vars => OperandInv'
<1> SUFFICES ASSUME TypeOK, OperandInv, [Next]_vars PROVE OperandInv'
  OBVIOUS
<1> USE DEF OperandInv
<1>1. CASE RegisterNewTemporary
  <2>1. /\ nextTempReg \in Int /\ nextTempReg' = nextTempReg + 1 /\ ir' = ir
    BY <1>1, MaxTempsAssumption DEF RegisterNewTemporary, TypeOK
  <2>2. ASSUME NEW p \in DOMAIN ir, NEW t \in Operands(ir[p]) PROVE t < nextTempReg'
    <3>1. ir[p] \in Node
      BY DEF TypeOK
    <3>2. t \in Int
      BY <3>1 DEF Node, Operands, Temps
    <3> QED
      BY <2>1, <2>2, <3>2
  <2> QED
    BY <2>1, <2>2 DEF Operands
<1>2. ASSUME NEW n \in Forms, AddNode(n) PROVE OperandInv'
  <2>1. n \in Node /\ ir \in Seq(Node) /\ ir' = Append(ir, n)
    BY <1>2, FormsAssumption DEF AddNode, TypeOK
  <2>2. /\ \A t \in Operands(n) : t < nextTempReg
        /\ n.op = "ADDI" => n.source \in {n.dest, Fixed}
    BY <1>2 DEF AddNode, Emittable
  <2>3. ASSUME NEW p \in DOMAIN ir' PROVE ir'[p] = n \/ (p \in DOMAIN ir /\ ir'[p] = ir[p])
    BY <2>1
  <2>4. nextTempReg' = nextTempReg
    BY <1>2 DEF AddNode
  <2> QED
    BY <2>2, <2>3, <2>4 DEF Operands
<1>3. ASSUME UNCHANGED <<ir, nextTempReg>> PROVE OperandInv'
  BY <1>3 DEF Operands
<1> QED
  BY <1>1, <1>2, <1>3 DEF Next, StartScan, ScanNode, AddEdges, Simplify,
     StartColouring, Colour, Fatal, Finish, Returned, vars

LEMMA PhaseStep == TypeOK /\ PhaseInv /\ [Next]_vars => PhaseInv'
<1> SUFFICES ASSUME TypeOK, PhaseInv, [Next]_vars PROVE PhaseInv'
  OBVIOUS
<1> USE DEF PhaseInv
<1>1. ASSUME pc \in {"emit", "scan"}, pc' \in {"emit", "scan"},
             UNCHANGED <<active, stack>>, pc' = "emit" => instruction' = instruction,
             pc' = "emit" => pc = "emit"
      PROVE  PhaseInv'
  BY <1>1
<1>2. CASE RegisterNewTemporary \/ StartScan \/ ScanNode \/ \E n \in Forms : AddNode(n)
  BY <1>1, <1>2 DEF RegisterNewTemporary, StartScan, ScanNode, AddNode, scanVars, colourVars
<1>3. CASE AddEdges
  <2>1. instruction = Len(ir) + 1
    BY <1>3 DEF AddEdges, TypeOK
  <2> QED
    BY <1>3, <2>1 DEF AddEdges, scanVars, number_temporaries, Overlap
<1>4. ASSUME pc \in {"simplify", "colour", "done", "fatal"},
             pc' \in {"simplify", "colour", "done", "fatal"},
             UNCHANGED <<ir, nextTempReg, scanVars, edges>>
      PROVE  PhaseInv'
  BY <1>4 DEF scanVars, number_temporaries, Overlap
<1>5. CASE \/ StartColouring \/ Fatal \/ Finish
           \/ \E t \in Temps : Simplify(t)
           \/ \E c \in Colors : Colour(c)
  BY <1>4, <1>5 DEF Simplify, StartColouring, Colour, Fatal, Finish, colourVars
<1>6. CASE Returned \/ UNCHANGED vars
  BY <1>6 DEF Returned, vars, number_temporaries, Overlap
<1> QED
  BY <1>2, <1>3, <1>5, <1>6 DEF Next

(* What pushing and popping do to the entries of the stack.                 *)
LEMMA PushEntries ==
  ASSUME NEW S, NEW s \in Seq(S), NEW t \in S
  PROVE  LET r == <<t>> \o s IN
           /\ Len(r) = Len(s) + 1 /\ r[1] = t
           /\ \A i \in 1 .. Len(s) : r[i + 1] = s[i]
           /\ \A i \in 1 .. Len(r) : i = 1 \/ (i - 1 \in 1 .. Len(s) /\ r[i] = s[i - 1])
OBVIOUS

LEMMA PopEntries ==
  ASSUME NEW S, NEW s \in Seq(S), s # <<>>
  PROVE  /\ Head(s) = s[1] /\ Head(s) \in S
         /\ 1 \in 1 .. Len(s)
         /\ Len(Tail(s)) = Len(s) - 1
         /\ \A i \in 1 .. Len(Tail(s)) : i + 1 \in 1 .. Len(s) /\ Tail(s)[i] = s[i + 1]
         /\ \A i \in 1 .. Len(s) : i = 1 \/ (i - 1 \in 1 .. Len(Tail(s)) /\ Tail(s)[i - 1] = s[i])
OBVIOUS

LEMMA StackStep ==
  TypeOK /\ PhaseInv /\ StackInv /\ [Next]_vars => StackInv'
<1> SUFFICES ASSUME TypeOK, PhaseInv, StackInv, [Next]_vars PROVE StackInv'
  OBVIOUS
<1> USE DEF StackInv, OnStack
<1>0. stack \in Seq(Temps) /\ Len(stack) \in Nat
  BY DEF TypeOK
<1>1. CASE RegisterNewTemporary \/ StartScan \/ ScanNode \/ \E n \in Forms : AddNode(n)
  <2>1. active' = {} /\ stack' = <<>> /\ pc' \in {"emit", "scan"}
    BY <1>1 DEF PhaseInv, RegisterNewTemporary, StartScan, ScanNode, AddNode, colourVars
  <2> QED
    BY <2>1
<1>2. CASE AddEdges
  <2>1. active' = number_temporaries /\ stack' = <<>> /\ pc' = "simplify"
        /\ number_temporaries' = number_temporaries
    BY <1>2 DEF PhaseInv, AddEdges, number_temporaries
  <2> QED
    BY <2>1
<1>3. ASSUME NEW t \in Temps, Simplify(t) PROVE StackInv'
  <2>1. t \in active /\ stack' = <<t>> \o stack /\ active' = active \ {t}
        /\ pc = "simplify" /\ pc' = pc /\ number_temporaries' = number_temporaries
    BY <1>3 DEF Simplify, Selected, number_temporaries
  <2>2. /\ Len(stack') = Len(stack) + 1 /\ stack'[1] = t
        /\ \A i \in 1 .. Len(stack) : stack'[i + 1] = stack[i]
        /\ \A i \in 1 .. Len(stack') :
             i = 1 \/ (i - 1 \in 1 .. Len(stack) /\ stack'[i] = stack[i - 1])
    BY <1>0, <2>1, PushEntries
  <2>3. \A i \in 1 .. Len(stack') : stack'[i] \in number_temporaries' \ active'
    BY <2>1, <2>2
  <2>4. ASSUME NEW i \in 1 .. Len(stack'), NEW j \in 1 .. Len(stack'), stack'[i] = stack'[j]
        PROVE  i = j
    BY <1>0, <2>1, <2>2, <2>4
  <2>5. ASSUME NEW u \in number_temporaries'
        PROVE  u \in active' \/ \E i \in 1 .. Len(stack') : stack'[i] = u
    <3>1. CASE u = t
      BY <1>0, <2>2, <3>1
    <3>2. CASE u # t /\ u \notin active
      <4>1. PICK i \in 1 .. Len(stack) : stack[i] = u
        BY <2>1, <2>5, <3>2
      <4>2. i + 1 \in 1 .. Len(stack') /\ stack'[i + 1] = u
        BY <1>0, <2>2, <4>1
      <4> QED
        BY <4>2
    <3> QED
      BY <2>1, <3>1, <3>2
  <2> QED
    BY <2>1, <2>3, <2>4, <2>5
<1>4. ASSUME NEW c \in Colors, Colour(c) PROVE StackInv'
  <2>1. /\ stack # <<>> /\ stack' = Tail(stack) /\ active' = active \cup {Head(stack)}
        /\ pc = "colour" /\ pc' = pc /\ number_temporaries' = number_temporaries
    BY <1>4 DEF Colour, number_temporaries
  <2>2. /\ Head(stack) = stack[1] /\ 1 \in 1 .. Len(stack)
        /\ Len(stack') = Len(stack) - 1
        /\ \A i \in 1 .. Len(stack') : i + 1 \in 1 .. Len(stack) /\ stack'[i] = stack[i + 1]
        /\ \A i \in 1 .. Len(stack) :
             i = 1 \/ (i - 1 \in 1 .. Len(stack') /\ stack'[i - 1] = stack[i])
    BY <1>0, <2>1, PopEntries
  <2>3. active' \subseteq number_temporaries'
    BY <2>1, <2>2
  <2>4. ASSUME NEW i \in 1 .. Len(stack') PROVE stack'[i] \in number_temporaries' \ active'
    <3>1. stack[i + 1] # stack[1]
      BY <2>2
    <3> QED
      BY <2>1, <2>2, <3>1
  <2>5. ASSUME NEW i \in 1 .. Len(stack'), NEW j \in 1 .. Len(stack'), stack'[i] = stack'[j]
        PROVE  i = j
    <3>1. i + 1 = j + 1
      BY <2>2, <2>5
    <3> QED
      BY <3>1
  <2>6. \A u \in number_temporaries' :
          u \in active' \/ \E i \in 1 .. Len(stack') : stack'[i] = u
    BY <2>1, <2>2
  <2> QED
    BY <2>1, <2>3, <2>4, <2>5, <2>6
<1>5. CASE StartColouring \/ Fatal \/ Finish
  BY <1>5 DEF StartColouring, Fatal, Finish, colourVars, number_temporaries
<1>6. CASE Returned \/ UNCHANGED vars
  BY <1>6 DEF Returned, vars, number_temporaries
<1> QED
  BY <1>1, <1>2, <1>3, <1>4, <1>5, <1>6 DEF Next

(* The graph is symmetric and without loops.                                *)
LEMMA Symmetric ==
  ASSUME PhaseInv, pc \in {"simplify", "colour", "done", "fatal"}
  PROVE  \A t, u \in Temps : <<t, u>> \in edges => t # u /\ <<u, t>> \in edges
BY DEF PhaseInv, Overlap

LEMMA ColourStep ==
  TypeOK /\ PhaseInv /\ StackInv /\ ColourInv /\ [Next]_vars => ColourInv'
<1> SUFFICES ASSUME TypeOK, PhaseInv, StackInv, ColourInv, [Next]_vars PROVE ColourInv'
  OBVIOUS
<1> USE DEF ColourInv, ProperColouring
<1>1. ASSUME pc' \in {"emit", "scan", "simplify"} PROVE ColourInv'
  BY <1>1 DEF Coloured
<1>2. CASE \/ RegisterNewTemporary \/ StartScan \/ ScanNode \/ AddEdges
           \/ \E n \in Forms : AddNode(n)
           \/ \E t \in Temps : Simplify(t)
  BY <1>1, <1>2 DEF RegisterNewTemporary, StartScan, ScanNode, AddEdges, AddNode, Simplify
<1>3. CASE StartColouring
  BY <1>3 DEF StartColouring, Coloured, colourVars
<1>4. ASSUME NEW c \in Colors, Colour(c) PROVE ColourInv'
  <2> DEFINE t == stack[1]
  <2>0. t = Head(stack) /\ t \in Temps /\ 1 \in 1 .. Len(stack)
    BY <1>4, PopEntries DEF Colour, TypeOK
  <2>1. t = Head(stack) /\ t \in Temps /\ t \notin active
    BY <2>0 DEF StackInv
  <2>2. /\ map \in [Temps -> Int] /\ map' = [map EXCEPT ![t] = c]
        /\ active' = active \cup {t} /\ edges' = edges
        /\ active \subseteq Temps
        /\ pc = "colour" /\ pc' = "colour" /\ Available(t, c)
    BY <1>4, <2>1 DEF Colour, TypeOK, FirstAvailable
  <2> HIDE DEF t
  <2>3. Coloured = active /\ Coloured' = active \cup {t}
    BY <2>2 DEF Coloured
  <2>4. \A u \in active : <<t, u>> \in edges \/ <<u, t>> \in edges => map[u] # c
    BY <2>1, <2>2, Symmetric DEF Available, Adjacent
  <2>5. \A u \in Coloured' : map'[u] \in Colors
    BY <2>1, <2>2, <2>3
  <2>6. ASSUME NEW u \in Coloured', NEW v \in Coloured', <<u, v>> \in edges'
        PROVE  map'[u] # map'[v]
    <3>1. u # v
      BY <2>1, <2>2, <2>3, <2>6, Symmetric
    <3> QED
      BY <2>1, <2>2, <2>3, <2>4, <2>6, <3>1
  <2> QED
    BY <2>2, <2>5, <2>6
<1>5. CASE Fatal
  <2>1. stack[1] = Head(stack)
    BY <1>5, PopEntries DEF Fatal, TypeOK
  <2> QED
    BY <1>5, <2>1 DEF Fatal, Coloured, colourVars, Available, Adjacent
<1>6. CASE Finish
  BY <1>6 DEF Finish, Coloured, colourVars
<1>7. CASE Returned \/ UNCHANGED vars
  BY <1>7 DEF Returned, vars, Coloured, Available, Adjacent
<1> QED
  BY <1>2, <1>3, <1>4, <1>5, <1>6, <1>7 DEF Next

LEMMA InvInit == Init => Inv
<1> SUFFICES ASSUME Init PROVE Inv
  OBVIOUS
<1>1. TypeOK
  BY TypeInit
<1>2. ScanInv /\ OperandInv /\ PhaseInv
  BY DEF Init, ScanInv, OperandInv, PhaseInv, Unseen
<1>3. StackInv /\ ColourInv
  BY DEF Init, StackInv, OnStack, ColourInv, ProperColouring, Coloured
<1> QED
  BY <1>1, <1>2, <1>3 DEF Inv

LEMMA InvStep == Inv /\ [Next]_vars => Inv'
BY TypeStep, ScanStep, OperandStep, PhaseStep, StackStep, ColourStep DEF Inv

LEMMA Invariance == Spec => []Inv
BY InvInit, InvStep, PTL DEF Spec

(* Two temporaries that interfere never hold one register, at any moment of *)
(* the colouring loop, for any IR list and any number of registers.         *)
THEOREM ColouringIsProper == Spec => []ProperColouring
<1>1. Inv => ProperColouring
  BY DEF Inv, ColourInv
<1> QED
  BY <1>1, Invariance, PTL

(* Every temporary of the program leaves the pass with a real register.     *)
THEOREM MapIsTotal == Spec => []TotalMap
<1>1. Inv => TotalMap
  BY DEF Inv, TypeOK, StackInv, OnStack, ColourInv, TotalMap, Coloured
<1> QED
  BY <1>1, Invariance, PTL

(* A value is not overwritten between the node that writes it and a node    *)
(* that reads it: the scan's lifetimes cover the stretch, lifetimes that    *)
(* meet are joined by an edge, and the ends of an edge differ in register.  *)
THEOREM ValuesSurvive == Spec => []NoClobber
<1>1. Inv => NoClobber
  <2> SUFFICES ASSUME Inv, pc = "done",
                      NEW p \in DOMAIN ir, NEW q \in DOMAIN ir, NEW r \in DOMAIN ir,
                      p <= q, q <= r,
                      NEW t \in Writes(ir[p]) \cap Reads(ir[r]), NEW u \in Writes(ir[q]),
                      t # u
               PROVE  map[t] # map[u]
    BY DEF NoClobber
  <2>1. /\ p \in 1 .. instruction - 1 /\ q \in 1 .. instruction - 1
        /\ r \in 1 .. instruction - 1
        /\ p \in Int /\ q \in Int /\ r \in Int
        /\ ir[p] \in Node /\ ir[q] \in Node /\ ir[r] \in Node
    BY DEF Inv, TypeOK, PhaseInv
  <2>2. t \in Temps /\ u \in Temps /\ t < nextTempReg /\ u < nextTempReg
    BY <2>1 DEF Inv, OperandInv, Operands, Writes, Node
  <2>3. Starts(ir[p], t) /\ Starts(ir[q], u) /\ Extends(ir[q], u)
    BY DEF Writes, Starts, Extends
  <2>4. Extends(ir[r], t)
    <3>1. ir[r].op = "ADDI" => ir[r].source \in {ir[r].dest, Fixed}
      BY DEF Inv, OperandInv
    <3>2. ir[r].op \in {"OP", "STORE", "ADDI", "COMMENT"}
      BY <2>1 DEF Node
    <3> QED
      BY <3>1, <3>2 DEF Reads, Extends
  <2>5. /\ lifeStart[t] <= p /\ r <= lifeEnd[t]
        /\ lifeStart[u] <= q /\ q <= lifeEnd[u]
    BY <2>1, <2>2, <2>3, <2>4 DEF Inv, ScanInv
  <2>6. /\ lifeStart[t] \in Int /\ lifeEnd[t] \in Int
        /\ lifeStart[u] \in Int /\ lifeEnd[u] \in Int
    BY <2>2 DEF Inv, TypeOK
  <2>7. Overlap(t, u)
    BY <2>1, <2>5, <2>6 DEF Overlap, Unseen
  <2>8. t \in number_temporaries /\ u \in number_temporaries
    BY <2>2 DEF number_temporaries, Temps, Inv, TypeOK
  <2>9. <<t, u>> \in edges
    BY <2>7, <2>8 DEF Inv, PhaseInv
  <2>10. t \in Coloured /\ u \in Coloured
    BY <2>8 DEF Inv, StackInv, OnStack, Coloured
  <2> QED
    BY <2>9, <2>10 DEF Inv, ColourInv, ProperColouring
<1> QED
  BY <1>1, Invariance, PTL

-----------------------------------------------------------------------------
(* A temporary all of whose neighbours together hold every register has at  *)
(* least as many neighbours as there are registers.                         *)
LEMMA EveryColourTaken ==
  ASSUME TypeOK, NEW t \in Temps, \A c \in Colors : ~Available(t, c)
  PROVE  Cardinality(Adjacent(t)) >= NumColors
<1>1. IsFiniteSet(Temps)
  BY FS_Interval, MaxTempsAssumption DEF Temps
<1>2. IsFiniteSet(Adjacent(t)) /\ Cardinality(Adjacent(t)) \in Nat
  BY <1>1, FS_Subset, FS_CardinalityType DEF Adjacent
<1> DEFINE held == {u \in Adjacent(t) : map[u] \in Colors}
<1>3. IsFiniteSet(held) /\ Cardinality(held) <= Cardinality(Adjacent(t))
  BY <1>2, FS_Subset
<1>4. [u \in held |-> map[u]] \in Surjection(held, Colors)
  <2>1. \A c \in Colors : \E u \in held : map[u] = c
    BY DEF Available
  <2> QED
    BY <2>1 DEF Surjection
<1>5. Cardinality(Colors) <= Cardinality(held)
  BY <1>3, <1>4, FS_Surjection
<1>6. Cardinality(Colors) = NumColors
  BY FS_Interval, NumColorsAssumption DEF Colors
<1>7. Cardinality(held) \in Nat
  BY <1>3, FS_CardinalityType
<1> QED
  BY <1>2, <1>3, <1>5, <1>6, <1>7, NumColorsAssumption

(* The pass gives up only on a temporary with NumColors neighbours or more: *)
(* a program whose lifetimes each meet fewer than ten others always gets    *)
(* its registers, whatever the order the selection loop picked.             *)
THEOREM FatalNeedsCrowd == Spec => []FatalOnlyWhenCrowded
<1>1. Inv => FatalOnlyWhenCrowded
  <2> SUFFICES ASSUME Inv, pc = "fatal"
               PROVE  \E t \in number_temporaries : Cardinality(Adjacent(t)) >= NumColors
    BY DEF FatalOnlyWhenCrowded
  <2>1. stack # <<>> /\ \A c \in Colors : ~Available(stack[1], c)
    BY DEF Inv, ColourInv
  <2>2. 1 \in 1 .. Len(stack) /\ stack[1] \in Temps
    BY <2>1, PopEntries DEF Inv, TypeOK
  <2>3. stack[1] \in number_temporaries
    BY <2>2 DEF Inv, StackInv
  <2>4. Cardinality(Adjacent(stack[1])) >= NumColors
    BY <2>1, <2>2, EveryColourTaken DEF Inv
  <2> QED
    BY <2>3, <2>4
<1> QED
  BY <1>1, Invariance, PTL

-----------------------------------------------------------------------------
LEMMA CountsStep ==
  Inv /\ CountsAreDegrees /\ [Next]_vars => CountsAreDegrees'
<1> SUFFICES ASSUME Inv, CountsAreDegrees, [Next]_vars, pc' = "simplify"
             PROVE  \A u \in active' :
                      num_neighbors'[u] = Cardinality((Adjacent(u) \cap active)')
  BY DEF CountsAreDegrees
<1>1. CASE AddEdges
  <2>1. \A u \in active' : (Adjacent(u) \cap active)' = {v \in Temps : <<u, v>> \in edges'}
    BY <1>1, MaxTempsAssumption DEF AddEdges, Adjacent, Inv, TypeOK, number_temporaries, Temps
  <2>2. active' \subseteq Temps
    BY TypeStep DEF Inv, TypeOK
  <2> QED
    BY <1>1, <2>1, <2>2 DEF AddEdges
<1>2. ASSUME NEW t \in Temps, Simplify(t), NEW u \in active'
      PROVE  num_neighbors'[u] = Cardinality((Adjacent(u) \cap active)')
  <2>1. /\ pc = "simplify" /\ t \in active /\ active' = active \ {t} /\ edges' = edges
        /\ u \in active /\ u # t /\ u \in Temps
        /\ num_neighbors'[u] = num_neighbors[u] - (IF u \in Adjacent(t) THEN 1 ELSE 0)
    BY <1>2 DEF Simplify, Selected, Inv, TypeOK
  <2> DEFINE S == Adjacent(u) \cap active
  <2>2. (Adjacent(u) \cap active)' = S \ {t}
    BY <2>1 DEF Adjacent
  <2>3. IsFiniteSet(S)
    <3>1. IsFiniteSet(Temps)
      BY FS_Interval, MaxTempsAssumption DEF Temps
    <3> QED
      BY <3>1, FS_Subset DEF Adjacent
  <2>4. num_neighbors[u] = Cardinality(S)
    BY <2>1 DEF CountsAreDegrees
  <2>5. u \in Adjacent(t) <=> t \in S
    BY <2>1, Symmetric DEF Adjacent, Inv
  <2>6. Cardinality(S \ {t}) = IF t \in S THEN Cardinality(S) - 1 ELSE Cardinality(S)
    BY <2>3, FS_RemoveElement
  <2>7. Cardinality(S) \in Nat
    BY <2>3, FS_CardinalityType
  <2>8. num_neighbors'[u] = Cardinality(S \ {t})
    <3> HIDE DEF S
    <3>1. CASE t \in S
      BY <2>1, <2>4, <2>5, <2>6, <2>7, <3>1
    <3>2. CASE t \notin S
      BY <2>1, <2>4, <2>5, <2>6, <2>7, <3>2
    <3> QED
      BY <3>1, <3>2
  <2> QED
    BY <2>2, <2>8
<1>3. CASE Returned \/ UNCHANGED vars
  BY <1>3 DEF CountsAreDegrees, Returned, vars, Adjacent
<1> QED
  BY <1>1, <1>2, <1>3 DEF Next, RegisterNewTemporary, AddNode, StartScan, ScanNode,
     StartColouring, Colour, Fatal, Finish

(* The counts the selection loop compares are the degrees in what is left   *)
(* of the graph.                                                            *)
THEOREM CountsMatchGraph == Spec => []CountsAreDegrees
<1>1. Init => CountsAreDegrees
  BY DEF Init, CountsAreDegrees
<1> QED
  BY <1>1, CountsStep, Invariance, PTL DEF Spec

(* The graph, the counts the loops go by and the map agree throughout.      *)
THEOREM GraphIsConsistent == Spec => []GraphConsistent
BY TypeCorrect, CountsMatchGraph, ColouringIsProper, PTL DEF GraphConsistent

-----------------------------------------------------------------------------
(* Each step of the passes is a step of the abstract colouring or changes   *)
(* nothing it can see.                                                      *)
LEMMA RefinementStep == Inv /\ Inv' /\ [Next]_vars => [Abstract!Next]_(Abstract!vars)
<1> SUFFICES ASSUME Inv, Inv', [Next]_vars PROVE Abstract!Next \/ UNCHANGED Abstract!vars
  OBVIOUS
<1>1. CASE \/ RegisterNewTemporary \/ StartScan \/ ScanNode
           \/ \E n \in Forms : AddNode(n)
  <2>1. pc \in {"emit", "scan"} /\ pc' \in {"emit", "scan"} /\ edges' = edges
    BY <1>1 DEF RegisterNewTemporary, StartScan, ScanNode, AddNode, colourVars
  <2>2. Coloured = {} /\ Coloured' = {}
    BY <2>1 DEF Coloured
  <2> QED
    BY <2>1, <2>2 DEF Abstract!vars
<1>2. CASE AddEdges
  <2>1. /\ pc = "scan" /\ pc' = "simplify" /\ number_temporaries' = number_temporaries
        /\ edges' = {e \in number_temporaries \X number_temporaries :
                        e[1] # e[2] /\ Overlap(e[1], e[2])}
    BY <1>2 DEF AddEdges, number_temporaries
  <2>2. Coloured = {} /\ Coloured' = {}
    BY <2>1 DEF Coloured
  <2>3. number_temporaries \subseteq Temps
    BY MaxTempsAssumption DEF Inv, TypeOK, number_temporaries, Temps
  <2>4. edges' \subseteq number_temporaries \X number_temporaries
    BY <2>1
  <2>5. \A e \in edges' : e[1] # e[2] /\ <<e[2], e[1]>> \in edges'
    BY <2>1 DEF Overlap
  <2>6. Abstract!Given
    BY <2>1, <2>2, <2>3, <2>4, <2>5 DEF Abstract!Given
  <2> QED
    BY <2>6 DEF Abstract!Next
<1>3. CASE StartColouring \/ \E t \in Temps : Simplify(t)
  <2>1. /\ pc = "simplify" /\ pc' \in {"simplify", "colour"} /\ edges' = edges
        /\ number_temporaries' = number_temporaries
        /\ pc' = "colour" => active' = {}
    BY <1>3 DEF StartColouring, Simplify, colourVars, number_temporaries
  <2>2. Coloured = {} /\ Coloured' = {}
    BY <2>1 DEF Coloured
  <2> QED
    BY <2>1, <2>2 DEF Abstract!vars
<1>4. ASSUME NEW c \in Colors, Colour(c) PROVE Abstract!Next
  <2> DEFINE t == Head(stack)
  <2>0. t = stack[1] /\ t \in Temps /\ 1 \in 1 .. Len(stack)
    BY <1>4, PopEntries DEF Colour, Inv, TypeOK
  <2>1. t \in number_temporaries /\ t \notin active /\ t \in Temps
    BY <2>0 DEF Inv, StackInv
  <2>2. /\ pc = "colour" /\ pc' = "colour" /\ edges' = edges
        /\ number_temporaries' = number_temporaries
        /\ active' = active \cup {t} /\ map' = [map EXCEPT ![t] = c]
        /\ Available(t, c) /\ map \in [Temps -> Int] /\ active \subseteq Temps
    BY <1>4 DEF Colour, FirstAvailable, number_temporaries, Inv, TypeOK
  <2> HIDE DEF t
  <2>3. Coloured = active /\ Coloured' = active \cup {t}
    BY <2>2 DEF Coloured
  <2>4. [u \in Coloured' |-> map'[u]]
          = [u \in Coloured \cup {t} |-> IF u = t THEN c ELSE map[u]]
    BY <2>1, <2>2, <2>3
  <2>5. Abstract!Assign(t, c)
    BY <2>1, <2>2, <2>3, <2>4 DEF Abstract!Assign, Abstract!Adjacent, Available, Adjacent,
       number_temporaries, Temps
  <2> QED
    BY <2>1, <2>5 DEF Abstract!Next
<1>5. CASE Finish
  <2>1. /\ pc = "colour" /\ pc' = "done" /\ stack = <<>> /\ active' = active /\ map' = map
        /\ edges' = edges /\ number_temporaries' = number_temporaries
    BY <1>5 DEF Finish, colourVars, number_temporaries
  <2>2. Coloured = number_temporaries /\ Coloured' = Coloured
    <3>1. active \subseteq number_temporaries
      BY DEF Inv, StackInv
    <3>2. \A t \in number_temporaries : t \in active \/ OnStack(t)
      BY <2>1 DEF Inv, StackInv
    <3>3. \A t : ~OnStack(t)
      BY <2>1 DEF OnStack
    <3> QED
      BY <2>1, <3>1, <3>2, <3>3 DEF Coloured
  <2>3. Abstract!Finish
    BY <2>1, <2>2 DEF Abstract!Finish
  <2> QED
    BY <2>3 DEF Abstract!Next
<1>6. CASE Fatal
  <2> DEFINE t == Head(stack)
  <2>0. t = stack[1] /\ t \in Temps /\ 1 \in 1 .. Len(stack)
    BY <1>6, PopEntries DEF Fatal, Inv, TypeOK
  <2>1. t \in number_temporaries /\ t \notin active /\ t \in Temps
    BY <2>0 DEF Inv, StackInv
  <2>2. /\ pc = "colour" /\ pc' = "fatal" /\ active' = active /\ map' = map
        /\ edges' = edges /\ number_temporaries' = number_temporaries
        /\ active \subseteq number_temporaries
        /\ \A c \in Colors : ~Available(t, c)
    BY <1>6 DEF Fatal, colourVars, number_temporaries, Inv, StackInv
  <2> HIDE DEF t
  <2>3. Coloured = active /\ Coloured' = active
    BY <2>2 DEF Coloured
  <2>4. \A c \in Colors : \E u \in Abstract!Adjacent(t) \cap Coloured : map[u] = c
    BY <2>2, <2>3 DEF Abstract!Adjacent, Available, Adjacent
  <2>5. Abstract!GiveUp
    BY <2>1, <2>2, <2>3, <2>4 DEF Abstract!GiveUp
  <2> QED
    BY <2>5 DEF Abstract!Next
<1>7. CASE Returned \/ UNCHANGED vars
  BY <1>7 DEF Returned, vars, Abstract!vars, Coloured, number_temporaries
<1> QED
  BY <1>1, <1>2, <1>3, <1>4, <1>5, <1>6, <1>7 DEF Next

(* Register assignment is one way of extending a proper partial colouring   *)
(* step by step: no register is ever taken back or handed to a neighbour,   *)
(* it finishes only when every temporary has one, and it gives up only on a *)
(* temporary that sees them all taken.                                      *)
THEOREM AssignmentImplementsColouring == Spec => ImplementsColouring
<1>1. Init => Abstract!Init
  BY DEF Init, Abstract!Init, Coloured
<1> QED
  BY <1>1, RefinementStep, Invariance, PTL DEF Spec, ImplementsColouring, Abstract!Spec
=============================================================================

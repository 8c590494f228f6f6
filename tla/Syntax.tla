-------------------------------- MODULE Syntax -----------------------------
(* The actions of frontend/syntax.y on the tree of datastructures/ast.c:    *)
(* nodes are made and linked as productions are recognised, and on a syntax *)
(* error the values on bison's stack are thrown away.                       *)
(*                                                                          *)
(* The automaton is bison's. Here the parser guesses the production instead *)
(* of finding it out by lookahead: the values and the order of the actions  *)
(* are the same. Left recursion is a loop. Tokens have no value; a token is *)
(* written where its absence leaves other values on the stack than the      *)
(* absence of what follows.                                                 *)
EXTENDS Naturals, Sequences, FiniteSets, SequencesExt

CONSTANTS MaxNodes,   \* bound: nodes made
          MaxErrors,  \* bound: syntax errors
          MaxTokens   \* bound: closing tokens expected at a time

ASSUME BoundsAssumption == {MaxNodes, MaxErrors, MaxTokens} \subseteq Nat

VARIABLES work,    \* what is expected, and done, next: goals, tokens, actions
          values,  \* the <node> values on the stack, a node or Null
          heap,    \* the nodes made: [kind, firstChild, sibling]
          freed,   \* nodes passed to free
          syntaxErrors,
          astree,  \* root of the tree, or Null
          state    \* "parsing", "accepted", "aborted" or "crashed"

parserVars == <<work, values, heap, freed, syntaxErrors, astree, state>>

Null == 0
Node(kind, child) == [kind |-> kind, firstChild |-> child, sibling |-> Null]

G(symbol) == <<"goal", symbol>>
T == <<"token">>
Leaf(kind) == <<"leaf", kind>>       \* $$ = newASTNode(kind)
Wrap(kind) == <<"wrap", kind>>       \* and firstChild = $1
Pair(kind) == <<"pair", kind>>       \* and firstChild->sibling = $2
Do(action) == <<action>>
Recover(height) == <<"recover", height>>   \* where bison can shift "error"

-----------------------------------------------------------------------------
(* The productions. Of those that make the same links in the same place one *)
(* stands for all: EMPTY for ASM and RETURN without a value, IF for WHILE,  *)
(* a variable for a constant, LT and SUM for the other operators.           *)
Declarations(symbol) ==
  CASE symbol = "units" -> {<<G("unit"), G("more units")>>}
    [] symbol = "more units" -> {<<Do("program")>>, <<G("unit"), Do("append"), G("more units")>>}
    [] symbol = "unit" ->
         {<<G("parameters"), T, Wrap("FUNCTION_DECLARATION_NODE")>>,
          <<G("parameters"), T, G("compound_statement"), Do("definition")>>, <<G("declaration")>>}
    [] symbol = "parameters" -> {<<Do("nothing")>>, <<G("parameter"), G("more parameters")>>}
    [] symbol = "more parameters" -> {<<>>, <<G("parameter"), Do("append"), G("more parameters")>>}
    [] symbol = "parameter" -> {<<Leaf("DECLARATION_NODE")>>}
    [] symbol = "declaration" ->
         {<<T, Leaf("DECLARATION_NODE")>>, <<T, Do("array")>>,
          <<Leaf("EXTERN_STORAGE"), T, Wrap("DECLARATION_NODE")>>,
          <<Leaf("EXTERN_STORAGE"), T, Do("extern array")>>}
EmptyNull == <<Do("nothing")>>                                 \* variant: no node for ";"
Empty == <<Leaf("EMPTY_NODE")>>
Statements(symbol) ==
  CASE symbol = "compound_statement" ->
         {<<Do("nothing"), G("more declarations"), Do("nothing"), G("more statements"), Do("compound")>>}
    [] symbol = "more declarations" -> {<<>>, <<G("declaration"), Do("append"), G("more declarations")>>}
    [] symbol = "more statements" -> {<<>>, <<G("statement"), Do("append"), G("more statements")>>}
    [] symbol = "statement" ->
         {<<G("expression"), T>>, Empty, <<G("compound_statement")>>,
          <<G("expression"), T, Wrap("RETURN_NODE")>>,
          <<G("expression"), T, G("statement"), Pair("IF_NODE")>>,
          <<G("expression"), T, G("statement"), G("statement"), Do("if else")>>}
Expressions(symbol) ==
  CASE symbol = "expression" -> {<<G("var"), G("expression"), Pair("ASSIGNMENT_NODE")>>, <<G("simple_exp")>>}
    [] symbol = "var" -> {<<Leaf("VAR_REFERENCE_NODE")>>, <<G("expression"), T, Wrap("VAR_REFERENCE_NODE")>>}
    [] symbol = "simple_exp" -> {<<G("sum_exp")>>, <<G("sum_exp"), Leaf("LT_NODE"), G("sum_exp"), Do("infix")>>}
    [] symbol = "sum_exp" -> {<<G("term"), G("more terms")>>, <<G("term"), Wrap("NEG_NODE"), G("more terms")>>}
    [] symbol = "more terms" -> {<<>>, <<Leaf("SUM_NODE"), G("term"), Do("infix"), G("more terms")>>}
    [] symbol = "term" -> {<<G("factor"), G("more factors")>>}
    [] symbol = "more factors" -> {<<>>, <<G("factor"), Pair("MULTIPLICATION_NODE"), G("more factors")>>}
    [] symbol = "factor" ->
         {<<G("expression"), T>>, <<G("var")>>, <<G("factor"), Wrap("REFERENCE_NODE")>>,
          <<G("args"), T, Wrap("CALL_NODE")>>,
          <<G("expression"), G("expression"), G("expression"), T, Do("macc")>>}
    [] symbol = "args" -> {<<Do("nothing")>>, <<G("expression"), G("more args")>>}
    [] symbol = "more args" -> {<<>>, <<G("expression"), Do("append"), G("more args")>>}

(* Those with the alternative "error SEMICOLON".                            *)
Recovering == {"unit", "declaration", "statement"}
Lists == {"units", "more units", "more declarations", "more statements", "compound_statement"}
Optional == {"more parameters", "more declarations", "more statements", "more terms",
             "more factors", "more args", "parameters", "args"}
Productions(symbol) ==
  CASE symbol \in {"units", "more units", "unit", "parameters", "more parameters", "parameter",
                   "declaration"} -> Declarations(symbol)
    [] symbol \in {"compound_statement", "more declarations", "more statements", "statement"}
         -> Statements(symbol)
    [] OTHER -> Expressions(symbol)

-----------------------------------------------------------------------------
(* ast.c. A list is its first node; what is not one of its siblings yet is  *)
(* put at its end.                                                          *)
Chain(h, first) ==
  LET chain[n \in 0 .. Len(h)] == IF n = Null THEN <<>> ELSE <<n>> \o chain[h[n].sibling]
  IN chain[first]
Linked(h, first, second) == [h EXCEPT ![Last(Chain(h, first))].sibling = second]
AppendToFirst(h, reference, sibling) ==                        \* variant: does not walk
  IF reference = Null THEN <<h, sibling>>
  ELSE <<[h EXCEPT ![reference].sibling = sibling], reference>>
AppendInFront(h, reference, sibling) ==                        \* variant
  IF Null \in {reference, sibling} THEN <<h, IF reference = Null THEN sibling ELSE reference>>
  ELSE <<Linked(h, sibling, reference), sibling>>
AppendSibling(h, reference, sibling) ==                        \* heap and value
  IF reference = Null THEN <<h, sibling>> ELSE <<Linked(h, reference, sibling), reference>>

(* A node, all below it, and then its siblings with what is below them.     *)
Family(h, first) ==
  LET family[n \in 0 .. Len(h)] ==
        IF n = Null THEN <<>> ELSE <<n>> \o family[h[n].firstChild] \o family[h[n].sibling]
  IN family[first]
(* freeASTNode: the node and its children, not its own siblings.            *)
TreeOf(h, n) == IF n = Null THEN <<>> ELSE <<n>> \o Family(h, h[n].firstChild)
Destroyed(discarded) == FlattenSeq([i \in DOMAIN discarded |-> TreeOf(heap, discarded[i])])

-----------------------------------------------------------------------------
BeginParse == /\ work = <<G("units")>> /\ values = <<>> /\ heap = <<>> /\ freed = <<>>
              /\ syntaxErrors = 0 /\ astree = Null /\ state = "parsing"

Doing(item) == state = "parsing" /\ Head(work) = item
Done == work' = Tail(work) /\ UNCHANGED <<freed, syntaxErrors, astree, state>>

(* The values of the last n symbols, and their replacement by one.          *)
Arg(n, i) == values[Len(values) - n + i]
Reduce(n, value) == values' = Append(SubSeq(values, 1, Len(values) - n), value)
New == Len(heap) + 1
Make(node) == heap' = Append(heap, node)
MakeIn(h, node) == heap' = Append(h, node)

(* Bound: the nodes that what is expected will make at least, and those     *)
(* made, the two of mulacc itself not counted.                              *)
Made == Len(SelectSeq(heap, LAMBDA node : node.kind \notin {"DOT_PRODUCT_NODE", "CONSTANT_NODE"}))
Cost(item) ==
  CASE item[1] \in {"array", "extern array"} -> 2
    [] item[1] = "goal" -> IF item[2] \in Optional THEN 0 ELSE 1
    [] item[1] \in {"token", "recover", "nothing", "append", "infix", "macc"} -> 0
    [] OTHER -> 1
Bounded(items) ==
  /\ Len(SelectSeq(items, LAMBDA item : item = T)) <= MaxTokens
  /\ Made + FoldLeft(LAMBDA sum, item : sum + Cost(item), 0, items) <= MaxNodes
Expanded(symbol, production) ==
  production \o (IF symbol \in Recovering THEN <<Recover(Len(values))>> ELSE <<>>) \o Tail(work)
Expand ==
  /\ state = "parsing" /\ Head(work)[1] = "goal"
  /\ LET symbol == Head(work)[2]
     IN \E production \in Productions(symbol) : work' = Expanded(symbol, production)
  /\ Bounded(work')
  /\ UNCHANGED <<values, heap, freed, syntaxErrors, astree, state>>
Shift == /\ Doing(T) /\ Done /\ UNCHANGED <<values, heap>>
Reduction == /\ state = "parsing" /\ Head(work)[1] = "recover" /\ Done /\ UNCHANGED <<values, heap>>

Nothing == Doing(Do("nothing")) /\ Reduce(0, Null) /\ Done /\ UNCHANGED heap
NewLeaf == /\ state = "parsing" /\ Head(work)[1] = "leaf"
           /\ Make(Node(Head(work)[2], Null)) /\ Reduce(0, New) /\ Done
NewWrap == /\ state = "parsing" /\ Head(work)[1] = "wrap"
           /\ Make(Node(Head(work)[2], Arg(1, 1))) /\ Reduce(1, New) /\ Done
(* Assignments, products, WHILE, and IF without ELSE: $3->sibling = $5.     *)
NewPair == /\ state = "parsing" /\ Head(work)[1] = "pair"
           /\ MakeIn([heap EXCEPT ![Arg(2, 1)].sibling = Arg(2, 2)], Node(Head(work)[2], Arg(2, 1)))
           /\ Reduce(2, New) /\ Done
(* $$ = $2: the node of the operator was made between its operands.         *)
Infix == /\ Doing(Do("infix"))
         /\ heap' = [heap EXCEPT ![Arg(3, 2)].firstChild = Arg(3, 1),
                                 ![Arg(3, 1)].sibling = Arg(3, 3)]
         /\ Reduce(3, Arg(3, 2)) /\ Done
(* Line 162 writes through $5, which is NULL after "error SEMICOLON".       *)
IfElse ==
  /\ Doing(Do("if else"))
  /\ IF Arg(3, 2) = Null
       THEN /\ state' = "crashed"
            /\ UNCHANGED <<work, values, heap, freed, syntaxErrors, astree>>
       ELSE /\ MakeIn([heap EXCEPT ![Arg(3, 1)].sibling = Arg(3, 2), ![Arg(3, 2)].sibling = Arg(3, 3)],
                    Node("IF_NODE", Arg(3, 1)))
            /\ Reduce(3, New) /\ Done
Array == /\ Doing(Do("array"))
         /\ heap' = heap \o <<Node("DECLARATION_NODE", New + 1), Node("VAR_INDEXING_NODE", Null)>>
         /\ Reduce(0, New) /\ Done
ExternArray ==
  /\ Doing(Do("extern array"))
  /\ heap' = heap \o <<Node("DECLARATION_NODE", New + 1),
                       [Node("VAR_INDEXING_NODE", Null) EXCEPT !.sibling = Arg(1, 1)]>>
  /\ Reduce(1, New) /\ Done
AppendToList ==
  /\ Doing(Do("append"))
  /\ LET result == AppendSibling(heap, Arg(2, 1), Arg(2, 2))
     IN heap' = result[1] /\ Reduce(2, result[2])
  /\ Done
CompoundBody(declarations, statements) == AppendSibling(heap, declarations, statements)
Compound == /\ Doing(Do("compound"))
            /\ LET body == CompoundBody(Arg(2, 1), Arg(2, 2))
               IN MakeIn(body[1], Node("COMPOUND_STATEMENT_NODE", body[2])) /\ Reduce(2, New)
            /\ Done
DefinitionParts(parameters, body) == AppendSibling(heap, parameters, body)
Definition ==
  /\ Doing(Do("definition"))
  /\ LET parts == DefinitionParts(Arg(2, 1), Arg(2, 2))
     IN MakeIn(parts[1], Node("FUNCTION_DEFINITION_NODE", parts[2])) /\ Reduce(2, New)
  /\ Done
Macc == /\ Doing(Do("macc"))
        /\ heap' = [heap EXCEPT ![Arg(3, 1)].sibling = Arg(3, 2), ![Arg(3, 2)].sibling = Arg(3, 3),
                                ![Arg(3, 3)].sibling = New + 1]
                     \o <<Node("DOT_PRODUCT_NODE", Arg(3, 1)), Node("CONSTANT_NODE", Null)>>
        /\ Reduce(3, New) /\ Done

DiscardedAlways(discarded) == Destroyed(discarded)             \* variant
Discarded(discarded) == IF syntaxErrors > 0 THEN Destroyed(discarded) ELSE <<>>
(* The end of the input. bison discards the value of the start symbol, by   *)
(* default $1: after errors the tree that astree points to is freed.        *)
Program ==
  /\ Doing(Do("program"))
  /\ Make(Node("ROOT_NODE", Arg(1, 1))) /\ astree' = New
  /\ freed' = freed \o Discarded(values)
  /\ values' = <<>> /\ work' = <<>> /\ state' = "accepted"
  /\ UNCHANGED syntaxErrors

(* A token that fits nowhere. Symbols are popped, their values destroyed,   *)
(* down to where "error" can be shifted; tokens are skipped to a semicolon. *)
SyntaxError ==
  /\ state = "parsing" /\ syntaxErrors < MaxErrors
  /\ \/ Head(work) = T
     \/ Head(work)[1] = "goal" /\ Head(work)[2] \notin Recovering \cup Lists
  /\ LET at == CHOOSE i \in DOMAIN work : /\ work[i][1] = "recover"
                                          /\ \A j \in 1 .. i - 1 : work[j][1] # "recover"
         height == work[at][2]
     IN /\ work' = SubSeq(work, at + 1, Len(work))
        /\ values' = Append(SubSeq(values, 1, height), Null)
        /\ freed' = freed \o Destroyed(SubSeq(values, height + 1, Len(values)))
  /\ syntaxErrors' = syntaxErrors + 1 /\ UNCHANGED <<heap, astree, state>>
(* Or to the end of the input, or bison's stack is full: everything on it   *)
(* is given up.                                                             *)
Abort == /\ state = "parsing"
         /\ \/ Head(work) = T
            \/ /\ Head(work)[1] = "goal"
               /\ \A p \in Productions(Head(work)[2]) : ~Bounded(Expanded(Head(work)[2], p))
         /\ syntaxErrors' = syntaxErrors + 1
         /\ freed' = freed \o Destroyed(values)
         /\ values' = <<>> /\ work' = <<>> /\ state' = "aborted" /\ UNCHANGED <<heap, astree>>
Return == state # "parsing" /\ UNCHANGED parserVars

ParseStep == \/ Expand \/ Shift \/ Reduction \/ Nothing \/ NewLeaf \/ NewWrap \/ NewPair
             \/ Infix \/ IfElse \/ Array \/ ExternArray \/ AppendToList \/ Compound
             \/ Definition \/ Macc \/ Program \/ SyntaxError \/ Abort \/ Return
ParserSpec == BeginParse /\ [][ParseStep]_parserVars

-----------------------------------------------------------------------------
Kinds == {"FUNCTION_DECLARATION_NODE", "FUNCTION_DEFINITION_NODE", "DECLARATION_NODE", "EXTERN_STORAGE",
  "VAR_INDEXING_NODE", "COMPOUND_STATEMENT_NODE", "EMPTY_NODE", "RETURN_NODE", "IF_NODE",
  "ASSIGNMENT_NODE", "VAR_REFERENCE_NODE", "LT_NODE", "NEG_NODE", "SUM_NODE",
  "MULTIPLICATION_NODE", "REFERENCE_NODE", "CONSTANT_NODE", "CALL_NODE", "DOT_PRODUCT_NODE", "ROOT_NODE"}
Nodes == 1 .. Len(heap)

(* Types: the links of nodes and the values on the stack lead to nodes.     *)
LinksLead ==
  /\ values \in Seq(Nodes \cup {Null})
  /\ heap \in Seq([kind : Kinds, firstChild : Nodes \cup {Null}, sibling : Nodes \cup {Null}])
  /\ astree \in Nodes \cup {Null} /\ syntaxErrors \in 0 .. MaxErrors + 1
  /\ \A i \in DOMAIN work : work[i][1] = "recover" => work[i][2] <= Len(values)
  /\ state = "parsing" => work # <<>>
ParserTypeOK == LinksLead /\ freed \in Seq(Nodes)

(* The nodes below the values, each as often as it is met.                  *)
Held == IF astree # Null THEN TreeOf(heap, astree)
        ELSE FlattenSeq([i \in DOMAIN values |-> Family(heap, values[i])])

(* The links that reductions set (ast.c 33-41, syntax.y 44-260) make a      *)
(* forest whose trees are the values: no node is in two of them or twice in *)
(* one, and without errors none is lost on the way.                         *)
EveryNodeOnce ==
  state # "crashed" =>
    /\ IsInjective(Held)
    /\ syntaxErrors = 0 => ToSet(Held) = Nodes

(* What error recovery and the end of parsing free (syntax.y 40-41, ast.c   *)
(* 50-62) is freed once, never while a value on the stack still leads to    *)
(* it, and never in a parse without errors: the tree main goes on with is   *)
(* whole. (Of a discarded list only the first member is freed.)             *)
FreedOnce == /\ IsInjective(freed)
             /\ state = "parsing" => ToSet(Held) \cap ToSet(freed) = {}
             /\ syntaxErrors = 0 => freed = <<>>

(* Nodes without children are made as their tokens are read, so that their  *)
(* order in the tree is that of the source (of operands, arguments and      *)
(* statements). The size of an extern array comes before its storage class: *)
(* semantic_analysis.c 230 takes it from the first child.                   *)
Leaves(nodes) == SelectSeq(nodes, LAMBDA n : heap[n].firstChild = Null /\ heap[n].kind # "EXTERN_STORAGE")
SourceOrder == /\ state # "crashed" => LET leaves == Leaves(Held)
                                      IN \A i \in 2 .. Len(leaves) : leaves[i - 1] < leaves[i]
               /\ \A n \in Nodes : heap[n].kind = "EXTERN_STORAGE" => heap[n].sibling = Null

(* Without errors the nodes have the children the later passes take without *)
(* looking: a body behind the parameters, both operands, condition and      *)
(* branches.                                                                *)
KindsOf(n) == LET children == Chain(heap, heap[n].firstChild)
              IN [i \in DOMAIN children |-> heap[children[i]].kind]
Arity(kind) == CASE kind \in {"LT_NODE", "SUM_NODE", "MULTIPLICATION_NODE", "ASSIGNMENT_NODE"} -> {2}
                 [] kind = "IF_NODE" -> {2, 3} [] kind \in {"NEG_NODE", "REFERENCE_NODE", "ROOT_NODE"} -> {1}
                 [] kind = "DOT_PRODUCT_NODE" -> {4} [] kind \in {"RETURN_NODE", "VAR_REFERENCE_NODE"} -> {0, 1}
ChildrenComplete ==
  (state = "accepted" /\ syntaxErrors = 0) =>
    \A n \in Nodes :
      LET kinds == KindsOf(n)
      IN CASE heap[n].kind = "FUNCTION_DEFINITION_NODE" ->
                /\ kinds # <<>> /\ Last(kinds) = "COMPOUND_STATEMENT_NODE"
                /\ \A i \in 1 .. Len(kinds) - 1 : kinds[i] = "DECLARATION_NODE"
           [] heap[n].kind \in {"ROOT_NODE", "CALL_NODE", "COMPOUND_STATEMENT_NODE",
                               "FUNCTION_DECLARATION_NODE", "DECLARATION_NODE"} -> TRUE
           [] heap[n].firstChild = Null /\ heap[n].kind \notin {"IF_NODE"} -> TRUE
           [] OTHER -> Len(kinds) \in Arity(heap[n].kind)

(* The tree as the later passes take it.                                    *)
TreeWhole == ParserTypeOK /\ EveryNodeOnce /\ ChildrenComplete

(* What the other reductions write through (syntax.y 155-223 and 251-254)   *)
(* is a node.                                                               *)
OperandsPresent ==
  state = "parsing" =>
    /\ Head(work)[1] = "pair" => Arg(2, 1) # Null
    /\ Head(work) = Do("infix") => Null \notin {Arg(3, 1), Arg(3, 2)}
    /\ Head(work) = Do("macc") => Null \notin {Arg(3, 1), Arg(3, 2), Arg(3, 3)}

(* Parsing fails to return only for an erroneous statement between IF and   *)
(* ELSE (lines 144 and 162), never for a program without syntax errors.     *)
CrashesOnlyAfterErrors ==
  /\ OperandsPresent
  /\ state = "crashed" => syntaxErrors > 0 /\ Head(work) = Do("if else") /\ Arg(3, 1) # Null
=============================================================================

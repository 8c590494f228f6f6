-------------------------- MODULE SemanticAnalysis -------------------------
(* frontend/semantic_analysis.c over datastructures/symbolic_table.c: the   *)
(* walk over the syntax tree that enters and removes names, binds every use *)
(* of a name and counts errors. Each action is one node of the tree, in the *)
(* order the walk meets them; the parser decides which node comes next.     *)
(*                                                                          *)
(* An entry of the table is an object that the syntax tree and the list of  *)
(* a function's locals keep pointing at after the name has been removed.    *)
(* Entries live in `heap`; `table` holds, for every name, the chain made of *)
(* the visible entry and its `next` pointers.                               *)
EXTENDS Integers, Sequences, FiniteSets, SequencesExt

CONSTANTS Names,       \* identifiers
          Main,        \* the name "main"
          UsedTypes,   \* the types declarations and values have: subset of Types
          Params,      \* possible parameter lists: sequences of [name, type]
          ArgTypes,    \* possible argument lists of a call: sequences of types
          MaxEntries,  \* bound on the entries ever made
          MaxErrors    \* bound on the errors counted before the walk stops

ASSUME NamesAssumption == Main \in Names
ASSUME BoundsAssumption == MaxEntries \in Nat /\ MaxErrors \in Nat

Types == {"int", "float", "void"}
Ids == 1 .. MaxEntries
None == 0                       \* the NULL pointer

ASSUME UsedTypesAssumption == UsedTypes \subseteq Types
ASSUME ParamsAssumption == Params \subseteq Seq([name : Names, type : Types])
ASSUME ArgTypesAssumption == ArgTypes \subseteq Seq(Types)

VARIABLES heap,      \* every entry made, in the order of creation
          table,     \* [Names -> chain of entries], the visible one first
          pc,        \* "units", "params", "body", "done", "crashed"
          fn,        \* the entry of the function being walked
          fnType,    \* the type its definition node has
          pending,   \* its parameters not walked yet
          stack,     \* the names to delete at its end, newest first
          errors,
          todo,      \* "TODO: validate matching" was printed
          binding    \* the entry the last resolved use was bound to

vars == <<heap, table, pc, fn, fnType, pending, stack, errors, todo, binding>>
walkVars == <<pc, fn, fnType, pending, todo>>

Entry == [name : Names, kind : {"function", "variable"}, type : Types,
          scope_level : {0, 1}, hasBody : BOOLEAN, hasReturn : BOOLEAN,
          isParameter : BOOLEAN, params : Seq(Types), locals : Seq(Ids)]

-----------------------------------------------------------------------------
(* getSymbolicTableEntry: the head of the chain.                            *)
Visible(n) == IF table[n] = <<>> THEN None ELSE Head(table[n])

NewEntry(n, kind, type, level, params) ==
  [name |-> n, kind |-> kind, type |-> type, scope_level |-> level,
   hasBody |-> FALSE, hasReturn |-> FALSE, isParameter |-> FALSE,
   params |-> params, locals |-> <<>>]

(* The entry the next insertion makes; it is put in front of the chain.     *)
Fresh == Len(heap) + 1
Inserted(n) == [table EXCEPT ![n] = <<Fresh>> \o @]

(* Variant: the whole chain is deleted, not just its head.                  *)
RemovedAll(names) == [n \in Names |->
                        IF \E i \in DOMAIN names : names[i] = n THEN <<>>
                                                                ELSE table[n]]

(* removeSymbolicTableEntry for every name of a delete stack.               *)
Removed(names) == [n \in Names |->
                     IF \E i \in DOMAIN names : names[i] = n THEN Tail(table[n])
                                                             ELSE table[n]]

Level == IF pc = "units" THEN 0 ELSE 1

Count(b) == IF b THEN 1 ELSE 0
More == errors < MaxErrors /\ Len(heap) < MaxEntries

-----------------------------------------------------------------------------
Init == /\ heap = <<>>
        /\ table = [n \in Names |-> <<>>]
        /\ pc = "units"
        /\ fn = None /\ fnType = "void"
        /\ pending = <<>> /\ stack = <<>>
        /\ errors = 0 /\ todo = FALSE /\ binding = None

(* A second prototype, or a second body, is an error (line 77).             *)
HeadErrorsNoBodies(cur, hasBody) == Count(cur # None /\ ~hasBody)  \* variant
HeadErrors(cur, hasBody) ==
  Count(cur # None /\ (IF hasBody THEN heap[cur].hasBody ELSE TRUE))

(* A function's declaration or the head of its definition (lines 54-116,    *)
(* and 125-127 when it has a body).                                         *)
FunctionHead(n, type, ps, hasBody) ==
  /\ pc = "units" /\ More
  /\ LET cur == Visible(n)
         alreadyDeclared == cur # None
         alreadyHadBody == cur # None /\ heap[cur].hasBody
         params == [i \in DOMAIN ps |-> ps[i].type]
     IN /\ errors' = errors + HeadErrors(cur, hasBody)
        /\ todo' = (todo \/ (hasBody /\ alreadyDeclared /\ ~alreadyHadBody))
        /\ IF alreadyDeclared
             THEN UNCHANGED <<heap, table>>
             ELSE /\ heap' = Append(heap, NewEntry(n, "function", type, 0, params))
                  /\ table' = Inserted(n)
        /\ IF hasBody
             THEN /\ pc' = "params" /\ fnType' = type
                  /\ fn' = IF alreadyDeclared THEN cur ELSE Fresh
                  /\ pending' = ps /\ stack' = <<>>
             ELSE UNCHANGED <<pc, fn, fnType, pending, stack>>
  /\ UNCHANGED binding

(* A DECLARATION node: what it reports, and whether it makes an entry.      *)
DeclarationErrors(n, type) ==
  Count(type = "void") + Count(Visible(n) # None /\ heap[Visible(n)].scope_level = Level)

(* Variant: the entry is made whether the name is in use or not.            *)
AcceptedDespiteClash(n, type) == type # "void"
Accepted(n, type) ==
  type # "void" /\ (Visible(n) = None \/ heap[Visible(n)].scope_level < Level)

(* Variant: a new local is put at the end of the list.                      *)
DeclaredLast(n, type, isParameter) ==
  LET entry == [NewEntry(n, "variable", type, Level, <<>>) EXCEPT !.isParameter = isParameter]
      linked == IF fn = None THEN heap
                ELSE [heap EXCEPT ![fn].locals = Append(@, Fresh)]
  IN Append(linked, entry)

(* The heap after the entry has been made and, inside a function, put in    *)
(* front of the list of its locals.                                         *)
Declared(n, type, isParameter) ==
  LET entry == [NewEntry(n, "variable", type, Level, <<>>) EXCEPT !.isParameter = isParameter]
      linked == IF fn = None THEN heap
                ELSE [heap EXCEPT ![fn].locals = <<Fresh>> \o @]
  IN Append(linked, entry)

(* Variant: the name is put on the delete stack whether entered or not.     *)
DeclarationAlwaysDeletes(n, type) ==
  /\ pc \in {"units", "body"} /\ More
  /\ errors' = errors + DeclarationErrors(n, type)
  /\ stack' = IF pc = "units" THEN stack ELSE <<n>> \o stack
  /\ IF Accepted(n, type)
       THEN heap' = Declared(n, type, FALSE) /\ table' = Inserted(n)
       ELSE UNCHANGED <<heap, table>>
  /\ UNCHANGED <<walkVars, binding>>

(* A global, or a declaration anywhere in a body: a block opens no scope.   *)
Declaration(n, type) ==
  /\ pc \in {"units", "body"} /\ More
  /\ errors' = errors + DeclarationErrors(n, type)
  /\ IF Accepted(n, type)
       THEN /\ heap' = Declared(n, type, FALSE)
            /\ table' = Inserted(n)
            /\ stack' = IF pc = "units" THEN stack ELSE <<n>> \o stack
       ELSE UNCHANGED <<heap, table, stack>>
  /\ UNCHANGED <<walkVars, binding>>

(* The next parameter (lines 128-132). A parameter that makes no entry      *)
(* leaves p->stEntry NULL, and line 130 writes through it.                  *)
Parameter ==
  /\ pc = "params" /\ pending # <<>> /\ More
  /\ LET p == Head(pending) IN
       /\ errors' = errors + DeclarationErrors(p.name, p.type)
       /\ IF Accepted(p.name, p.type)
            THEN /\ heap' = Declared(p.name, p.type, TRUE)
                 /\ table' = Inserted(p.name)
                 /\ stack' = <<p.name>> \o stack
                 /\ pending' = Tail(pending)
                 /\ UNCHANGED pc
            ELSE /\ pc' = "crashed"
                 /\ UNCHANGED <<heap, table, stack, pending>>
  /\ UNCHANGED <<fn, fnType, todo, binding>>

StartBody == /\ pc = "params" /\ pending = <<>>
             /\ heap' = [heap EXCEPT ![fn].hasBody = TRUE]
             /\ pc' = "body"
             /\ UNCHANGED <<table, fn, fnType, pending, stack, errors, todo, binding>>

(* A VAR_REFERENCE node.                                                    *)
VarReference(n) == /\ pc = "body" /\ More
                   /\ errors' = errors + Count(Visible(n) = None)
                   /\ binding' = IF Visible(n) = None THEN binding ELSE Visible(n)
                   /\ UNCHANGED <<heap, table, walkVars, stack>>

(* An ASSIGNMENT node, its target walked first. An int may go into a float. *)
Assignment(n, type) ==
  /\ pc = "body" /\ More
  /\ LET cur == Visible(n) IN
       /\ errors' = errors + Count(\/ cur = None
                                   \/ heap[cur].kind = "function"
                                   \/ /\ heap[cur].type # type
                                      /\ ~(type = "int" /\ heap[cur].type = "float"))
       /\ binding' = IF cur = None THEN binding ELSE cur
  /\ UNCHANGED <<heap, table, walkVars, stack>>

(* A CALL node: arguments are compared with the recorded types up to the    *)
(* shorter of the two lists, then the lengths.                              *)
CallErrors(e, args) ==
  LET common == DOMAIN args \cap DOMAIN e.params
  IN Cardinality({i \in common : args[i] # e.params[i]})
       + Count(Len(args) # Len(e.params))
Call(n, args) ==
  /\ pc = "body" /\ More
  /\ LET cur == Visible(n)
         callable == cur # None /\ heap[cur].kind = "function"
     IN /\ errors' = errors + IF callable THEN CallErrors(heap[cur], args) ELSE 1
        /\ binding' = IF callable THEN cur ELSE binding
  /\ UNCHANGED <<heap, table, walkVars, stack>>

(* A RETURN node; value is "none" for a bare return.                        *)
Return(value) ==
  /\ pc = "body" /\ More
  /\ errors' = errors + Count(value # "none" /\ (heap[fn].type = "void"
                                                   \/ value # heap[fn].type))
  /\ heap' = [heap EXCEPT ![fn].hasReturn = TRUE]
  /\ UNCHANGED <<table, walkVars, stack, binding>>

(* Lines 136-147.                                                           *)
EndFunction == /\ pc = "body"
               /\ errors' = errors + Count(~heap[fn].hasReturn /\ fnType # "void")
               /\ table' = Removed(stack)
               /\ pc' = "units" /\ fn' = None /\ stack' = <<>>
               /\ UNCHANGED <<heap, fnType, pending, todo, binding>>

(* The root has been walked: main must name a function.                     *)
Finish == /\ pc = "units"
          /\ errors' = errors + Count(Visible(Main) = None
                                        \/ heap[Visible(Main)].kind # "function")
          /\ pc' = "done"
          /\ UNCHANGED <<heap, table, fn, fnType, pending, stack, todo, binding>>

Stopped == \/ pc \in {"done", "crashed"} /\ UNCHANGED vars
           \/ pc = "params" /\ pending # <<>> /\ ~More /\ UNCHANGED vars

Next == \/ \E n \in Names, type \in UsedTypes, ps \in Params, hasBody \in BOOLEAN :
             FunctionHead(n, type, ps, hasBody)
        \/ \E n \in Names, type \in UsedTypes : Declaration(n, type) \/ Assignment(n, type)
        \/ Parameter
        \/ StartBody
        \/ \E n \in Names : VarReference(n)
        \/ \E n \in Names, args \in ArgTypes : Call(n, args)
        \/ \E value \in UsedTypes \cup {"none"} : Return(value)
        \/ EndFunction
        \/ Finish
        \/ Stopped

Spec == Init /\ [][Next]_vars

-----------------------------------------------------------------------------
TypeOK == /\ heap \in Seq(Entry) /\ Len(heap) <= MaxEntries
          /\ table \in [Names -> Seq(Ids)]
          /\ pc \in {"units", "params", "body", "done", "crashed"}
          /\ fn \in Ids \cup {None} /\ fnType \in Types
          /\ pending \in Seq([name : Names, type : Types])
          /\ stack \in Seq(Names)
          /\ errors \in Nat /\ todo \in BOOLEAN
          /\ binding \in Ids \cup {None}

(* The next pointers of a name lead from the entry of the function being    *)
(* walked, if there is one, to the global entry and end there; every entry  *)
(* on the chain carries the name it is filed under.                         *)
ChainsNest ==
  \A n \in Names :
    /\ \A i \in DOMAIN table[n] : heap[table[n][i]].name = n
    /\ Len(table[n]) <= 2
    /\ \A i \in DOMAIN table[n] : i > 1 => heap[table[n][i]].scope_level = 0
    /\ Len(table[n]) = 2 => heap[Head(table[n])].scope_level = 1

(* The delete stack names exactly the local entries in the table, each      *)
(* once: removing them takes every local away and uncovers, but never       *)
(* removes, a global (lines 141-145).                                       *)
DeleteStackIsExact ==
  pc # "done" =>
    /\ IsInjective(stack)
    /\ ToSet(stack) = {n \in Names : Visible(n) # None /\ heap[Visible(n)].scope_level = 1}

(* Both hold at every moment of the walk, with the types: a chain that does *)
(* not nest shows as a wrong removal only at the end of some later function.*)
TableConsistent == TypeOK /\ ChainsNest /\ DeleteStackIsExact

(* An accepted program gives every function one list of locals with no name *)
(* twice, and no entry is on the lists of two functions: the code generator *)
(* hands out stack addresses by walking these lists.                        *)
LocalsDisjoint ==
  errors = 0 =>
    \A f \in DOMAIN heap :
      /\ \A i, j \in DOMAIN heap[f].locals :
           heap[heap[f].locals[i]].name = heap[heap[f].locals[j]].name => i = j
      /\ \A g \in DOMAIN heap : f # g => ToSet(heap[f].locals) \cap ToSet(heap[g].locals) = {}

(* What a caller is told to push is what the callee's frame expects: the    *)
(* parameters are the oldest locals and have, oldest first, the recorded    *)
(* types. Excluded is the case the analysis says it does not check ("TODO:  *)
(* validate matching", line 83).                                            *)
OldestLocal(f, i) == heap[heap[f].locals[Len(heap[f].locals) + 1 - i]]
FrameMatchesSignature ==
  (errors = 0 /\ ~todo) =>
    \A f \in DOMAIN heap :
      heap[f].hasBody =>
        /\ Len(heap[f].params) <= Len(heap[f].locals)
        /\ \A i \in DOMAIN heap[f].locals :
             /\ OldestLocal(f, i).isParameter <=> i \in DOMAIN heap[f].params
             /\ i \in DOMAIN heap[f].params => OldestLocal(f, i).type = heap[f].params[i]

(* The table implements lexical scoping: the global entry of a name is the  *)
(* one at level 0 on its chain, the local one the one at level 1.           *)
AtLevel(n, level) ==
  LET hits == {i \in DOMAIN table[n] : heap[table[n][i]].scope_level = level}
  IN IF hits = {} THEN None ELSE table[n][CHOOSE i \in hits : TRUE]
Scoping == INSTANCE LexicalScoping WITH
  Declarations <- Ids,
  global <- [n \in Names |-> AtLevel(n, 0)],
  local <- [n \in Names |-> AtLevel(n, 1)],
  inside <- fn # None
ImplementsScoping == Scoping!Spec
=============================================================================

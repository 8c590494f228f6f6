----------------------- MODULE SemanticAnalysis_proofs ---------------------
(* Proofs about semantic analysis and the symbol table, for every set of    *)
(* names, every order of nodes and any number of entries and errors.        *)
EXTENDS SemanticAnalysis, TLAPS, FiniteSetTheorems

(* No pointer dangles, and a function is under way between its head and its *)
(* end.                                                                     *)
Live ==
  /\ \A n \in Names : \A i \in DOMAIN table[n] : table[n][i] \in DOMAIN heap
  /\ \A f \in DOMAIN heap : \A i \in DOMAIN heap[f].locals : heap[f].locals[i] \in DOMAIN heap
  /\ fn \in DOMAIN heap \cup {None}
  /\ pc \in {"params", "body"} => fn # None
  /\ pc \in {"units", "done"} => fn = None /\ stack = <<>>

(* DeleteStackIsExact, after the end of the walk as well.                   *)
LocalLevel(n) == Visible(n) # None /\ heap[Visible(n)].scope_level = 1
OnStack(n) == \E i \in DOMAIN stack : stack[i] = n
StackExact == /\ IsInjective(stack)
              /\ \A n \in Names : OnStack(n) <=> LocalLevel(n)

TableInv == TypeOK /\ Live /\ ChainsNest /\ StackExact

-----------------------------------------------------------------------------
(* Lists that get a new first element, and that lose it.                    *)
LEMMA Pushed ==
  ASSUME NEW S, NEW s \in Seq(S), NEW t \in S
  PROVE  LET r == <<t>> \o s
         IN /\ r \in Seq(S) /\ Len(r) = Len(s) + 1 /\ r[1] = t /\ Head(r) = t /\ r # <<>>
            /\ DOMAIN r = 1 .. Len(s) + 1
            /\ \A i \in 1 .. Len(s) : r[i + 1] = s[i]
            /\ \A i \in DOMAIN r : i = 1 \/ (i - 1 \in DOMAIN s /\ r[i] = s[i - 1])
OBVIOUS

LEMMA Members ==
  ASSUME NEW S, NEW s \in Seq(S)
  PROVE  /\ Len(s) \in Nat /\ DOMAIN s = 1 .. Len(s)
         /\ \A i \in DOMAIN s : s[i] \in S
OBVIOUS

LEMMA Appended ==
  ASSUME NEW S, NEW s \in Seq(S), NEW t \in S
  PROVE  LET r == Append(s, t)
         IN /\ r \in Seq(S) /\ Len(r) = Len(s) + 1 /\ DOMAIN r = 1 .. Len(s) + 1
            /\ \A i \in DOMAIN s : r[i] = s[i]
            /\ r[Len(s) + 1] = t
OBVIOUS

LEMMA Popped ==
  ASSUME NEW S, NEW s \in Seq(S), s # <<>>
  PROVE  /\ Head(s) = s[1] /\ Head(s) \in S /\ 1 \in DOMAIN s
         /\ Tail(s) \in Seq(S) /\ Len(Tail(s)) = Len(s) - 1
         /\ \A i \in DOMAIN Tail(s) : i + 1 \in DOMAIN s /\ Tail(s)[i] = s[i + 1]
OBVIOUS

LEMMA NoMembers == DOMAIN <<>> = {}
OBVIOUS

(* The visible entry is in the heap.                                        *)
LEMMA VisibleEntry ==
  ASSUME TypeOK, Live, NEW n \in Names, Visible(n) # None
  PROVE  /\ table[n] # <<>> /\ 1 \in DOMAIN table[n]
         /\ Visible(n) = table[n][1] /\ Visible(n) \in DOMAIN heap
<1>1. table[n] \in Seq(Ids)
  BY DEF TypeOK
<1>2. table[n] # <<>> /\ Visible(n) = Head(table[n])
  BY DEF Visible
<1>3. Head(table[n]) = table[n][1] /\ 1 \in DOMAIN table[n]
  BY <1>1, <1>2, Popped
<1> QED
  BY <1>2, <1>3 DEF Live

LEMMA NothingVisible ==
  ASSUME TypeOK, NEW n \in Names, Visible(n) = None
  PROVE  table[n] = <<>>
<1>1. table[n] \in Seq(Ids)
  BY DEF TypeOK
<1>2. CASE table[n] # <<>>
  <2>1. Head(table[n]) \in Ids
    BY <1>1, <1>2, Popped
  <2> QED
    BY <1>2, <2>1, BoundsAssumption DEF Visible, Ids, None
<1> QED
  BY <1>2

(* The entries that are made, and the updates of entries.                   *)
LEMMA MadeEntry ==
  ASSUME NEW n \in Names, NEW kind \in {"function", "variable"}, NEW type \in Types,
         NEW level \in {0, 1}, NEW params \in Seq(Types), NEW p \in BOOLEAN
  PROVE  /\ NewEntry(n, kind, type, level, params) \in Entry
         /\ [NewEntry(n, kind, type, level, params) EXCEPT !.isParameter = p] \in Entry
<1>1. \A ls \in Seq(Ids) :
        [name |-> n, kind |-> kind, type |-> type, scope_level |-> level, hasBody |-> FALSE,
         hasReturn |-> FALSE, isParameter |-> FALSE, params |-> params, locals |-> ls] \in Entry
  BY DEF Entry
<1>2. <<>> \in Seq(Ids)
  OBVIOUS
<1>3. NewEntry(n, kind, type, level, params) \in Entry
  BY <1>1, <1>2 DEF NewEntry
<1>4. \A e \in Entry : [e EXCEPT !.isParameter = p] \in Entry
  BY DEF Entry
<1> QED
  BY <1>3, <1>4

LEMMA UpdatedEntry ==
  ASSUME NEW e \in Entry
  PROVE  /\ \A ls \in Seq(Ids) : [e EXCEPT !.locals = ls] \in Entry
         /\ [e EXCEPT !.hasBody = TRUE] \in Entry
         /\ [e EXCEPT !.hasReturn = TRUE] \in Entry
BY DEF Entry

(* What inserting a declared name does to the heap.                         *)
Extended(e) ==
  IF e = fn THEN [heap[e] EXCEPT !.locals = <<Fresh>> \o @] ELSE heap[e]
NewVariable(n, type, isParameter) ==
  [NewEntry(n, "variable", type, Level, <<>>) EXCEPT !.isParameter = isParameter]

LEMMA DeclaredEntries ==
  ASSUME TypeOK, Live, More, NEW n \in Names, NEW type \in Types, NEW p \in BOOLEAN
  PROVE  LET h == Declared(n, type, p)
         IN /\ h \in Seq(Entry) /\ Len(h) = Len(heap) + 1 /\ Len(h) <= MaxEntries
            /\ Fresh \in Ids /\ Fresh \notin DOMAIN heap /\ DOMAIN h = DOMAIN heap \cup {Fresh}
            /\ \A e \in DOMAIN heap : h[e] = Extended(e)
            /\ h[Fresh] = NewVariable(n, type, p)
<1> DEFINE linked == IF fn = None THEN heap
                     ELSE [heap EXCEPT ![fn].locals = <<Fresh>> \o @]
<1>1. /\ heap \in Seq(Entry) /\ Len(heap) \in Nat /\ Len(heap) < MaxEntries /\ MaxEntries \in Nat
      /\ DOMAIN heap = 1 .. Len(heap)
  BY BoundsAssumption DEF TypeOK, More
<1>2. /\ Fresh \in Ids /\ Fresh \notin DOMAIN heap
      /\ 1 .. Len(heap) + 1 = DOMAIN heap \cup {Fresh}
  BY <1>1 DEF Fresh, Ids
<1>3. NewVariable(n, type, p) \in Entry
  <2>1. <<>> \in Seq(Types) /\ <<>> \in Seq(Ids) /\ Level \in {0, 1}
    BY DEF Level
  <2> QED
    BY <2>1, MadeEntry DEF NewVariable
<1>4. /\ linked \in Seq(Entry) /\ Len(linked) = Len(heap) /\ DOMAIN linked = DOMAIN heap
      /\ \A e \in DOMAIN heap : linked[e] = Extended(e)
  <2>1. CASE fn = None
    <3>1. linked = heap /\ fn \notin DOMAIN heap
      BY <1>1, <2>1 DEF None
    <3> HIDE DEF linked
    <3> QED
      BY <1>1, <3>1 DEF Extended
  <2>2. CASE fn # None
    <3>1. fn \in DOMAIN heap
      BY <2>2 DEF Live
    <3>2. heap[fn] \in Entry
      BY <1>1, <3>1
    <3>3. heap[fn].locals \in Seq(Ids)
      BY <3>2 DEF Entry
    <3>4. Extended(fn) \in Entry
      BY <1>2, <3>2, <3>3, Pushed, UpdatedEntry DEF Extended
    <3>5. linked = [heap EXCEPT ![fn] = Extended(fn)]
      BY <2>2 DEF Extended
    <3> HIDE DEF linked
    <3>6. \A e \in DOMAIN heap : linked[e] = Extended(e)
      BY <1>1, <3>1, <3>5 DEF Extended
    <3> QED
      BY <1>1, <3>1, <3>4, <3>5, <3>6
  <2> QED
    BY <2>1, <2>2
<1>5. Declared(n, type, p) = Append(linked, NewVariable(n, type, p))
  BY DEF Declared, NewVariable
<1> HIDE DEF linked
<1>6. /\ Declared(n, type, p) \in Seq(Entry) /\ Len(Declared(n, type, p)) = Len(heap) + 1
      /\ DOMAIN Declared(n, type, p) = 1 .. Len(heap) + 1
      /\ \A e \in DOMAIN heap : Declared(n, type, p)[e] = linked[e]
      /\ Declared(n, type, p)[Fresh] = NewVariable(n, type, p)
  BY <1>1, <1>3, <1>4, <1>5, Appended DEF Fresh
<1> QED
  BY <1>1, <1>2, <1>4, <1>6

(* The same for a function, which no list of locals takes up.               *)
LEMMA FunctionEntries ==
  ASSUME TypeOK, More, NEW n \in Names, NEW type \in Types, NEW params \in Seq(Types)
  PROVE  LET h == Append(heap, NewEntry(n, "function", type, 0, params))
         IN /\ h \in Seq(Entry) /\ Len(h) = Len(heap) + 1 /\ Len(h) <= MaxEntries
            /\ Fresh \in Ids /\ Fresh \notin DOMAIN heap /\ DOMAIN h = DOMAIN heap \cup {Fresh}
            /\ \A e \in DOMAIN heap : h[e] = heap[e]
            /\ h[Fresh] = NewEntry(n, "function", type, 0, params)
<1> DEFINE new == NewEntry(n, "function", type, 0, params)
<1>1. /\ heap \in Seq(Entry) /\ Len(heap) \in Nat /\ Len(heap) < MaxEntries /\ MaxEntries \in Nat
      /\ DOMAIN heap = 1 .. Len(heap)
  BY BoundsAssumption DEF TypeOK, More
<1>2. new \in Entry
  BY MadeEntry
<1> HIDE DEF new
<1>3. /\ Fresh \in Ids /\ Fresh \notin DOMAIN heap
      /\ 1 .. Len(heap) + 1 = DOMAIN heap \cup {Fresh}
  BY <1>1 DEF Fresh, Ids
<1>4. /\ Append(heap, new) \in Seq(Entry) /\ Len(Append(heap, new)) = Len(heap) + 1
      /\ DOMAIN Append(heap, new) = 1 .. Len(heap) + 1
      /\ \A e \in DOMAIN heap : Append(heap, new)[e] = heap[e]
      /\ Append(heap, new)[Fresh] = new
  BY <1>1, <1>2, Appended DEF Fresh
<1> QED
  BY <1>1, <1>3, <1>4 DEF new

LEMMA InsertedChains ==
  ASSUME TypeOK, NEW n \in Names, Fresh \in Ids
  PROVE  /\ Inserted(n) \in [Names -> Seq(Ids)]
         /\ \A m \in Names : m # n => Inserted(n)[m] = table[m]
         /\ Inserted(n)[n] # <<>> /\ Head(Inserted(n)[n]) = Fresh /\ Inserted(n)[n][1] = Fresh
         /\ Len(Inserted(n)[n]) = Len(table[n]) + 1
         /\ DOMAIN Inserted(n)[n] = 1 .. Len(table[n]) + 1
         /\ \A i \in DOMAIN Inserted(n)[n] :
              i = 1 \/ (i - 1 \in DOMAIN table[n] /\ Inserted(n)[n][i] = table[n][i - 1])
<1>1. table \in [Names -> Seq(Ids)] /\ table[n] \in Seq(Ids)
  BY DEF TypeOK
<1> DEFINE chain == <<Fresh>> \o table[n]
<1>2. /\ chain \in Seq(Ids) /\ Len(chain) = Len(table[n]) + 1 /\ chain[1] = Fresh
      /\ Head(chain) = Fresh /\ chain # <<>> /\ DOMAIN chain = 1 .. Len(table[n]) + 1
      /\ \A i \in DOMAIN chain : i = 1 \/ (i - 1 \in DOMAIN table[n] /\ chain[i] = table[n][i - 1])
  BY <1>1, Pushed
<1>3. Inserted(n) = [table EXCEPT ![n] = chain]
  BY DEF Inserted
<1> HIDE DEF chain
<1>4. Inserted(n) \in [Names -> Seq(Ids)] /\ Inserted(n)[n] = chain
  BY <1>1, <1>2, <1>3
<1>5. \A m \in Names : m # n => Inserted(n)[m] = table[m]
  BY <1>1, <1>3
<1> QED
  BY <1>2, <1>4, <1>5

(* Every name on the delete stack has a chain to remove the head of.        *)
LEMMA RemovedChains ==
  ASSUME TypeOK, Live, StackExact
  PROVE  /\ Removed(stack) \in [Names -> Seq(Ids)]
         /\ \A n \in Names : OnStack(n) => table[n] # <<>> /\ Removed(stack)[n] = Tail(table[n])
         /\ \A n \in Names : ~OnStack(n) => Removed(stack)[n] = table[n]
<1>1. \A n \in Names : OnStack(n) => table[n] # <<>>
  BY VisibleEntry DEF StackExact, LocalLevel
<1>2. \A n \in Names : table[n] \in Seq(Ids)
  BY DEF TypeOK
<1>3. \A n \in Names : OnStack(n) => Tail(table[n]) \in Seq(Ids)
  BY <1>1, <1>2, Popped
<1>4. Removed(stack) = [n \in Names |-> IF OnStack(n) THEN Tail(table[n]) ELSE table[n]]
  BY DEF Removed, OnStack
<1> QED
  BY <1>1, <1>2, <1>3, <1>4

LEMMA ErrorsCounted ==
  /\ \A b \in BOOLEAN : Count(b) \in {0, 1}
  /\ \A e \in Entry, args \in Seq(Types) : CallErrors(e, args) \in Nat
<1>1. \A b \in BOOLEAN : Count(b) \in {0, 1}
  BY DEF Count
<1>2. ASSUME NEW e \in Entry, NEW args \in Seq(Types) PROVE CallErrors(e, args) \in Nat
  <2> DEFINE common == DOMAIN args \cap DOMAIN e.params
             wrong == {i \in common : args[i] # e.params[i]}
  <2>1. Len(args) \in Nat /\ DOMAIN args = 1 .. Len(args)
    OBVIOUS
  <2>2. IsFiniteSet(DOMAIN args)
    BY <2>1, FS_Interval
  <2>3. wrong \subseteq DOMAIN args
    OBVIOUS
  <2>4. CallErrors(e, args) = Cardinality(wrong) + Count(Len(args) # Len(e.params))
    BY DEF CallErrors
  <2> HIDE DEF wrong
  <2>5. Cardinality(wrong) \in Nat
    BY <2>2, <2>3, FS_Subset, FS_CardinalityType
  <2> QED
    BY <2>4, <2>5 DEF Count
<1> QED
  BY <1>1, <1>2

-----------------------------------------------------------------------------
(* Types.                                                                   *)
LEMMA EntryOf ==
  ASSUME TypeOK, NEW e \in DOMAIN heap
  PROVE  heap[e] \in Entry /\ e \in Ids
BY BoundsAssumption DEF TypeOK, Ids

LEMMA FlagEntries ==
  ASSUME TypeOK, NEW f \in DOMAIN heap, NEW new \in Entry
  PROVE  LET h == [heap EXCEPT ![f] = new]
         IN /\ h \in Seq(Entry) /\ Len(h) = Len(heap) /\ DOMAIN h = DOMAIN heap
            /\ \A e \in DOMAIN heap : h[e] = IF e = f THEN new ELSE heap[e]
BY DEF TypeOK

LEMMA DeclaredTypes ==
  ASSUME TypeOK, Live, More, NEW n \in Names, NEW type \in Types, NEW p \in BOOLEAN,
         heap' = Declared(n, type, p), table' = Inserted(n)
  PROVE  heap' \in Seq(Entry) /\ Len(heap') <= MaxEntries /\ table' \in [Names -> Seq(Ids)]
BY DeclaredEntries, InsertedChains

LEMMA TypeStep == TypeOK /\ Live /\ StackExact /\ [Next]_vars => TypeOK'
<1> SUFFICES ASSUME TypeOK, Live, StackExact, [Next]_vars PROVE TypeOK'
  OBVIOUS
<1>0. /\ heap \in Seq(Entry) /\ Len(heap) <= MaxEntries /\ table \in [Names -> Seq(Ids)]
      /\ pc \in {"units", "params", "body", "done", "crashed"}
      /\ fn \in Ids \cup {None} /\ fnType \in Types
      /\ pending \in Seq([name : Names, type : Types]) /\ stack \in Seq(Names)
      /\ errors \in Nat /\ todo \in BOOLEAN /\ binding \in Ids \cup {None}
  BY DEF TypeOK
<1>v. \A n \in Names : Visible(n) \in Ids \cup {None}
  BY VisibleEntry, EntryOf
<1>1. ASSUME NEW n \in Names, NEW type \in UsedTypes, NEW ps \in Params, NEW hasBody \in BOOLEAN,
             FunctionHead(n, type, ps, hasBody)
      PROVE  TypeOK'
  <2>1. type \in Types /\ ps \in Seq([name : Names, type : Types])
    BY UsedTypesAssumption, ParamsAssumption
  <2> DEFINE params == [i \in DOMAIN ps |-> ps[i].type]
  <2>2. params \in Seq(Types)
    <3>1. \A i \in DOMAIN ps : ps[i] \in [name : Names, type : Types]
      BY <2>1, Members
    <3>2. \A p \in [name : Names, type : Types] : p.type \in Types
      OBVIOUS
    <3>3. Len(ps) \in Nat /\ DOMAIN ps = 1 .. Len(ps)
      BY <2>1
    <3> QED
      BY <3>1, <3>2, <3>3
  <2> HIDE DEF params
  <2>3. More
    BY <1>1 DEF FunctionHead
  <2>4. \/ UNCHANGED <<heap, table>>
        \/ /\ heap' = Append(heap, NewEntry(n, "function", type, 0, params))
           /\ table' = Inserted(n)
    BY <1>1 DEF FunctionHead, params
  <2>5. heap' \in Seq(Entry) /\ Len(heap') <= MaxEntries /\ table' \in [Names -> Seq(Ids)]
    <3>1. CASE UNCHANGED <<heap, table>>
      BY <1>0, <3>1
    <3>2. CASE /\ heap' = Append(heap, NewEntry(n, "function", type, 0, params))
               /\ table' = Inserted(n)
      <4>1. heap' \in Seq(Entry) /\ Len(heap') <= MaxEntries /\ Fresh \in Ids
        BY <2>1, <2>2, <2>3, <3>2, FunctionEntries
      <4> QED
        BY <3>2, <4>1, InsertedChains
    <3> QED
      BY <2>4, <3>1, <3>2
  <2>6. Fresh \in Ids
    BY <2>1, <2>2, <2>3, FunctionEntries
  <2>7. errors' \in Nat /\ todo' \in BOOLEAN /\ binding' = binding
    <3>1. errors' = errors + HeadErrors(Visible(n), hasBody) /\ binding' = binding
      BY <1>1 DEF FunctionHead
    <3>2. HeadErrors(Visible(n), hasBody) \in {0, 1}
      BY DEF Count, HeadErrors
    <3>3. todo' \in BOOLEAN
      BY <1>1, Zenon DEF FunctionHead
    <3> QED
      BY <1>0, <3>1, <3>2, <3>3
  <2>8. /\ pc' \in {"units", "params"} /\ fn' \in Ids \cup {None} /\ fnType' \in Types
        /\ pending' \in Seq([name : Names, type : Types]) /\ stack' \in Seq(Names)
    <3>1. pc = "units"
      BY <1>1 DEF FunctionHead
    <3>2. CASE hasBody
      <4>1. /\ pc' = "params" /\ fnType' = type /\ pending' = ps /\ stack' = <<>>
            /\ fn' \in {Visible(n), Fresh}
        BY <1>1, <3>2 DEF FunctionHead
      <4> QED
        BY <1>v, <2>1, <2>6, <4>1
    <3>3. CASE ~hasBody
      BY <1>0, <1>1, <3>1, <3>3 DEF FunctionHead
    <3> QED
      BY <3>2, <3>3
  <2> QED
    BY <1>0, <2>5, <2>7, <2>8 DEF TypeOK
<1>2. ASSUME NEW n \in Names, NEW type \in UsedTypes, Declaration(n, type) PROVE TypeOK'
  <2>1. /\ type \in Types /\ More
        /\ errors' = errors + DeclarationErrors(n, type)
        /\ UNCHANGED <<pc, fn, fnType, pending, todo, binding>>
    BY <1>2, UsedTypesAssumption DEF Declaration, walkVars
  <2>2. errors' \in Nat
    BY <1>0, <2>1 DEF Count, DeclarationErrors
  <2>3. CASE UNCHANGED <<heap, table, stack>>
    BY <1>0, <2>1, <2>2, <2>3 DEF TypeOK
  <2>4. CASE /\ heap' = Declared(n, type, FALSE) /\ table' = Inserted(n)
             /\ stack' \in {stack, <<n>> \o stack}
    <3>1. heap' \in Seq(Entry) /\ Len(heap') <= MaxEntries /\ table' \in [Names -> Seq(Ids)]
      BY <2>1, <2>4, DeclaredTypes
    <3>2. stack' \in Seq(Names)
      <4>1. <<n>> \o stack \in Seq(Names)
        BY <1>0, Pushed
      <4> QED
        BY <1>0, <2>4, <4>1
    <3> QED
      BY <1>0, <2>1, <2>2, <3>1, <3>2 DEF TypeOK
  <2> QED
    BY <1>2, <2>3, <2>4 DEF Declaration
<1>3. ASSUME NEW n \in Names, NEW type \in UsedTypes, Assignment(n, type) PROVE TypeOK'
  <2>1. errors' \in Nat
    BY <1>0, <1>3 DEF Count, Assignment
  <2>2. binding' \in Ids \cup {None}
    BY <1>0, <1>v, <1>3 DEF Assignment
  <2> QED
    BY <1>0, <1>3, <2>1, <2>2 DEF Assignment, walkVars, TypeOK
<1>4. CASE Parameter
  <2> DEFINE p == Head(pending)
  <2>1. /\ pending # <<>> /\ More
        /\ errors' = errors + DeclarationErrors(p.name, p.type)
        /\ UNCHANGED <<fn, fnType, todo, binding>>
    BY <1>4 DEF Parameter
  <2>2. p \in [name : Names, type : Types] /\ Tail(pending) \in Seq([name : Names, type : Types])
    BY <1>0, <2>1, Popped
  <2>3. \/ /\ heap' = Declared(p.name, p.type, TRUE) /\ table' = Inserted(p.name)
           /\ stack' = <<p.name>> \o stack /\ pending' = Tail(pending) /\ pc' = pc
        \/ pc' = "crashed" /\ UNCHANGED <<heap, table, stack, pending>>
    BY <1>4 DEF Parameter
  <2> HIDE DEF p
  <2>4. p.name \in Names /\ p.type \in Types
    BY <2>2
  <2>5. errors' \in Nat
    BY <1>0, <2>1 DEF Count, DeclarationErrors
  <2>6. heap' \in Seq(Entry) /\ Len(heap') <= MaxEntries /\ table' \in [Names -> Seq(Ids)]
    BY <1>0, <2>1, <2>3, <2>4, DeclaredTypes
  <2>7. stack' \in Seq(Names)
    <3>1. <<p.name>> \o stack \in Seq(Names)
      BY <1>0, <2>4, Pushed
    <3> QED
      BY <1>0, <2>3, <3>1
  <2> QED
    BY <1>0, <2>1, <2>2, <2>3, <2>5, <2>6, <2>7 DEF TypeOK
<1>5. CASE StartBody
  <2>1. fn \in DOMAIN heap
    BY <1>5 DEF StartBody, Live
  <2>2. [heap[fn] EXCEPT !.hasBody = TRUE] \in Entry
    BY <2>1, EntryOf, UpdatedEntry
  <2>3. heap' = [heap EXCEPT ![fn] = [heap[fn] EXCEPT !.hasBody = TRUE]]
    BY <1>5 DEF StartBody
  <2>4. heap' \in Seq(Entry) /\ Len(heap') <= MaxEntries
    BY <1>0, <2>1, <2>2, <2>3, FlagEntries
  <2> QED
    BY <1>0, <1>5, <2>4 DEF StartBody, TypeOK
<1>6. ASSUME NEW n \in Names, VarReference(n) PROVE TypeOK'
  <2>1. errors' \in Nat
    BY <1>0, <1>6 DEF Count, VarReference
  <2> QED
    BY <1>0, <1>v, <1>6, <2>1 DEF VarReference, walkVars, TypeOK
<1>7. ASSUME NEW n \in Names, NEW args \in ArgTypes, Call(n, args) PROVE TypeOK'
  <2>1. errors' \in Nat
    <3>1. CASE errors' = errors + 1
      BY <1>0, <3>1
    <3>2. CASE Visible(n) # None /\ errors' = errors + CallErrors(heap[Visible(n)], args)
      <4>1. heap[Visible(n)] \in Entry
        BY <3>2, VisibleEntry, EntryOf
      <4>2. CallErrors(heap[Visible(n)], args) \in Nat
        BY <4>1, ErrorsCounted, ArgTypesAssumption
      <4> QED
        BY <1>0, <3>2, <4>2
    <3> QED
      BY <1>7, <3>1, <3>2 DEF Call
  <2>2. binding' \in Ids \cup {None}
    BY <1>0, <1>v, <1>7 DEF Call
  <2> QED
    BY <1>0, <1>7, <2>1, <2>2 DEF Call, walkVars, TypeOK
<1>8. ASSUME NEW value \in UsedTypes \cup {"none"}, Return(value) PROVE TypeOK'
  <2>1. fn \in DOMAIN heap
    BY <1>8 DEF Return, Live
  <2>2. [heap[fn] EXCEPT !.hasReturn = TRUE] \in Entry
    BY <2>1, EntryOf, UpdatedEntry
  <2>3. heap' = [heap EXCEPT ![fn] = [heap[fn] EXCEPT !.hasReturn = TRUE]]
    BY <1>8 DEF Return
  <2>4. heap' \in Seq(Entry) /\ Len(heap') <= MaxEntries
    BY <1>0, <2>1, <2>2, <2>3, FlagEntries
  <2>5. errors' \in Nat
    BY <1>0, <1>8 DEF Count, Return
  <2> QED
    BY <1>0, <1>8, <2>4, <2>5 DEF Return, walkVars, TypeOK
<1>9. CASE EndFunction
  <2>1. table' \in [Names -> Seq(Ids)]
    BY <1>9, RemovedChains DEF EndFunction
  <2>2. errors' \in Nat
    BY <1>0, <1>9 DEF Count, EndFunction
  <2> QED
    BY <1>0, <1>9, <2>1, <2>2 DEF EndFunction, TypeOK
<1>10. CASE Finish
  <2>1. errors' \in Nat
    BY <1>0, <1>10 DEF Count, Finish
  <2> QED
    BY <1>0, <1>10, <2>1 DEF Finish, TypeOK
<1>11. CASE Stopped \/ UNCHANGED vars
  BY <1>0, <1>11 DEF Stopped, vars, TypeOK
<1> QED
  BY <1>1, <1>2, <1>3, <1>4, <1>5, <1>6, <1>7, <1>8, <1>9, <1>10, <1>11 DEF Next

-----------------------------------------------------------------------------
(* What a step can do to heap, table and delete stack: leave them but for   *)
(* flags of entries, make an entry and put its name in front, or remove the *)
(* names on the delete stack. Nothing else is ever done to an entry than to *)
(* add to its list of locals, while its function is under way.              *)
EntriesKept ==
  \A e \in DOMAIN heap : /\ e \in DOMAIN heap'
                         /\ heap'[e].name = heap[e].name
                         /\ heap'[e].scope_level = heap[e].scope_level
                         /\ heap'[e].type = heap[e].type
                         /\ heap'[e].isParameter = heap[e].isParameter
                         /\ heap'[e].params = heap[e].params
                         /\ heap[e].hasBody => heap'[e].hasBody
                         /\ heap'[e].hasBody => heap[e].hasBody \/ (e = fn /\ StartBody)

Keeps == /\ EntriesKept /\ DOMAIN heap' = DOMAIN heap
         /\ \A e \in DOMAIN heap : heap'[e].locals = heap[e].locals
         /\ UNCHANGED <<table, stack>>

Makes(n) == /\ EntriesKept
            /\ Fresh \in Ids /\ Fresh \notin DOMAIN heap /\ DOMAIN heap' = DOMAIN heap \cup {Fresh}
            /\ heap'[Fresh].name = n /\ heap'[Fresh].scope_level = Level
            /\ heap'[Fresh].locals = <<>> /\ ~heap'[Fresh].hasBody
            /\ \A e \in DOMAIN heap :
                 heap'[e].locals = IF e = fn THEN <<Fresh>> \o heap[e].locals ELSE heap[e].locals
            /\ table' = Inserted(n)
            /\ Visible(n) = None \/ heap[Visible(n)].scope_level < Level
            /\ stack' = IF pc = "units" THEN stack ELSE <<n>> \o stack
            /\ pc \in {"units", "params", "body"}

Removes == UNCHANGED heap /\ table' = Removed(stack) /\ stack' = <<>>

LEMMA DeclaredMakes ==
  ASSUME TypeOK, Live, More, NEW n \in Names, NEW type \in Types, NEW p \in BOOLEAN,
         heap' = Declared(n, type, p), table' = Inserted(n), Accepted(n, type),
         stack' = IF pc = "units" THEN stack ELSE <<n>> \o stack,
         pc \in {"units", "params", "body"}
  PROVE  Makes(n)
<1>1. /\ Fresh \in Ids /\ Fresh \notin DOMAIN heap /\ DOMAIN heap' = DOMAIN heap \cup {Fresh}
      /\ \A e \in DOMAIN heap : heap'[e] = Extended(e)
      /\ heap'[Fresh] = NewVariable(n, type, p)
  BY DeclaredEntries
<1>2. \A e \in DOMAIN heap :
        /\ Extended(e).name = heap[e].name
        /\ Extended(e).scope_level = heap[e].scope_level
        /\ Extended(e).type = heap[e].type
        /\ Extended(e).isParameter = heap[e].isParameter
        /\ Extended(e).params = heap[e].params
        /\ Extended(e).hasBody = heap[e].hasBody
        /\ Extended(e).locals = IF e = fn THEN <<Fresh>> \o heap[e].locals ELSE heap[e].locals
  <2>1. \A e \in DOMAIN heap : heap[e] \in Entry
    BY EntryOf
  <2> QED
    BY <2>1 DEF Extended, Entry
<1>3. /\ NewVariable(n, type, p).name = n /\ NewVariable(n, type, p).scope_level = Level
      /\ NewVariable(n, type, p).locals = <<>> /\ ~NewVariable(n, type, p).hasBody
  BY DEF NewVariable, NewEntry
<1> QED
  BY <1>1, <1>2, <1>3 DEF Makes, EntriesKept, Accepted

LEMMA Shapes ==
  ASSUME TypeOK, Live, [Next]_vars
  PROVE  Keeps \/ (\E n \in Names : Makes(n)) \/ (EndFunction /\ Removes)
<1>0. \A e \in DOMAIN heap : heap[e] \in Entry
  BY EntryOf
<1>h. heap \in Seq(Entry)
  BY DEF TypeOK
<1>1. ASSUME NEW n \in Names, NEW type \in UsedTypes, NEW ps \in Params, NEW hasBody \in BOOLEAN,
             FunctionHead(n, type, ps, hasBody)
      PROVE  Keeps \/ Makes(n)
  <2>1. /\ pc = "units" /\ More /\ stack = <<>> /\ stack' = stack /\ fn = None
    BY <1>1 DEF FunctionHead, Live
  <2>2. CASE Visible(n) # None
    BY <1>1, <2>1, <2>2 DEF FunctionHead, Keeps, EntriesKept
  <2>3. CASE Visible(n) = None
    <3> DEFINE params == [i \in DOMAIN ps |-> ps[i].type]
    <3>1. params \in Seq(Types)
      <4>1. /\ Len(ps) \in Nat /\ DOMAIN ps = 1 .. Len(ps)
            /\ \A i \in DOMAIN ps : ps[i] \in [name : Names, type : Types]
        BY ParamsAssumption, Members
      <4>2. \A p \in [name : Names, type : Types] : p.type \in Types
        OBVIOUS
      <4> QED
        BY <4>1, <4>2
    <3>2. heap' = Append(heap, NewEntry(n, "function", type, 0, params)) /\ table' = Inserted(n)
      BY <1>1, <2>3 DEF FunctionHead
    <3> HIDE DEF params
    <3>3. /\ Fresh \in Ids /\ Fresh \notin DOMAIN heap /\ DOMAIN heap' = DOMAIN heap \cup {Fresh}
          /\ \A e \in DOMAIN heap : heap'[e] = heap[e]
          /\ heap'[Fresh] = NewEntry(n, "function", type, 0, params)
      BY <2>1, <3>1, <3>2, UsedTypesAssumption, FunctionEntries
    <3>4. heap'[Fresh].name = n /\ heap'[Fresh].scope_level = Level
          /\ heap'[Fresh].locals = <<>> /\ ~heap'[Fresh].hasBody
      BY <2>1, <3>3 DEF NewEntry, Level
    <3>5. fn \notin DOMAIN heap
      BY <2>1, <1>h DEF None
    <3> QED
      BY <2>1, <2>3, <3>2, <3>3, <3>4, <3>5 DEF Makes, EntriesKept
  <2> QED
    BY <2>2, <2>3
<1>2. ASSUME NEW n \in Names, NEW type \in UsedTypes, Declaration(n, type) PROVE Keeps \/ Makes(n)
  <2>1. type \in Types /\ More /\ pc \in {"units", "body"}
    BY <1>2, UsedTypesAssumption DEF Declaration
  <2>2. CASE Accepted(n, type)
    BY <1>2, <2>1, <2>2, DeclaredMakes DEF Declaration
  <2>3. CASE ~Accepted(n, type)
    BY <1>2, <2>3 DEF Declaration, Keeps, EntriesKept
  <2> QED
    BY <2>2, <2>3
<1>3. CASE Parameter
  <2> DEFINE p == Head(pending)
  <2>1. p \in [name : Names, type : Types] /\ More /\ pc = "params"
    BY <1>3, Popped DEF Parameter, TypeOK
  <2>2. \/ /\ Accepted(p.name, p.type)
           /\ heap' = Declared(p.name, p.type, TRUE) /\ table' = Inserted(p.name)
           /\ stack' = <<p.name>> \o stack
        \/ UNCHANGED <<heap, table, stack>>
    BY <1>3 DEF Parameter
  <2> HIDE DEF p
  <2>3. p.name \in Names /\ p.type \in Types
    BY <2>1
  <2>4. CASE UNCHANGED <<heap, table, stack>>
    BY <2>4 DEF Keeps, EntriesKept
  <2>5. CASE ~UNCHANGED <<heap, table, stack>>
    <3>1. Makes(p.name)
      BY <2>1, <2>2, <2>3, <2>5, DeclaredMakes
    <3> QED
      BY <2>3, <3>1
  <2> QED
    BY <2>4, <2>5
<1>4. ASSUME StartBody \/ \E value \in UsedTypes \cup {"none"} : Return(value) PROVE Keeps
  <2>1. fn \in DOMAIN heap /\ heap[fn] \in Entry
    BY <1>0, <1>4 DEF StartBody, Return, Live
  <2>2. PICK new \in Entry :
          /\ new.name = heap[fn].name /\ new.scope_level = heap[fn].scope_level
          /\ new.type = heap[fn].type /\ new.isParameter = heap[fn].isParameter
          /\ new.params = heap[fn].params /\ new.locals = heap[fn].locals
          /\ heap[fn].hasBody => new.hasBody
          /\ new.hasBody => heap[fn].hasBody \/ StartBody
          /\ heap' = [heap EXCEPT ![fn] = new]
    <3>1. CASE StartBody
      <4> DEFINE marked == [heap[fn] EXCEPT !.hasBody = TRUE]
      <4>1. marked \in Entry
        BY <2>1, UpdatedEntry
      <4>2. /\ marked.name = heap[fn].name /\ marked.scope_level = heap[fn].scope_level
            /\ marked.type = heap[fn].type /\ marked.isParameter = heap[fn].isParameter
            /\ marked.params = heap[fn].params /\ marked.locals = heap[fn].locals
            /\ marked.hasBody
        BY <2>1 DEF Entry
      <4>3. heap' = [heap EXCEPT ![fn] = marked]
        BY <3>1 DEF StartBody
      <4> HIDE DEF marked
      <4> QED
        BY <3>1, <4>1, <4>2, <4>3
    <3>2. ASSUME NEW value \in UsedTypes \cup {"none"}, Return(value)
          PROVE  \E new \in Entry :
                   /\ new.name = heap[fn].name /\ new.scope_level = heap[fn].scope_level
                   /\ new.type = heap[fn].type /\ new.isParameter = heap[fn].isParameter
                   /\ new.params = heap[fn].params /\ new.locals = heap[fn].locals
                   /\ heap[fn].hasBody => new.hasBody
                   /\ new.hasBody => heap[fn].hasBody \/ StartBody
                   /\ heap' = [heap EXCEPT ![fn] = new]
      <4> DEFINE marked == [heap[fn] EXCEPT !.hasReturn = TRUE]
      <4>1. marked \in Entry
        BY <2>1, UpdatedEntry
      <4>2. /\ marked.name = heap[fn].name /\ marked.scope_level = heap[fn].scope_level
            /\ marked.type = heap[fn].type /\ marked.isParameter = heap[fn].isParameter
            /\ marked.params = heap[fn].params /\ marked.locals = heap[fn].locals
            /\ marked.hasBody = heap[fn].hasBody
        BY <2>1 DEF Entry
      <4>3. heap' = [heap EXCEPT ![fn] = marked]
        BY <3>2 DEF Return
      <4> HIDE DEF marked
      <4> QED
        BY <4>1, <4>2, <4>3
    <3> QED
      BY <1>4, <3>1, <3>2
  <2>3. /\ DOMAIN heap' = DOMAIN heap
        /\ \A e \in DOMAIN heap : heap'[e] = IF e = fn THEN new ELSE heap[e]
    BY <2>1, <2>2, FlagEntries
  <2>4. UNCHANGED <<table, stack>>
    BY <1>4 DEF StartBody, Return
  <2> QED
    BY <2>2, <2>3, <2>4 DEF Keeps, EntriesKept
<1>5. CASE EndFunction
  BY <1>5 DEF EndFunction, Removes
<1>6. CASE \/ \E n \in Names, type \in UsedTypes : Assignment(n, type)
           \/ \E n \in Names : VarReference(n)
           \/ \E n \in Names, args \in ArgTypes : Call(n, args)
           \/ Finish \/ Stopped \/ UNCHANGED vars
  <2>1. UNCHANGED <<heap, table, stack>>
    BY <1>6 DEF Assignment, VarReference, Call, Finish, Stopped, vars
  <2> QED
    BY <2>1 DEF Keeps, EntriesKept
<1> QED
  BY <1>1, <1>2, <1>3, <1>4, <1>5, <1>6 DEF Next

LEMMA HeapGrows ==
  ASSUME TypeOK, Live, [Next]_vars
  PROVE  DOMAIN heap \subseteq DOMAIN heap'
BY Shapes DEF Keeps, Makes, Removes

-----------------------------------------------------------------------------
(* Pointers lead to entries, and a function is under way when it should be. *)
LEMMA PhaseStep ==
  ASSUME TypeOK, Live, [Next]_vars
  PROVE  /\ fn' \in DOMAIN heap' \cup {None}
         /\ pc' \in {"params", "body"} => fn' # None
         /\ pc' \in {"units", "done"} => fn' = None /\ stack' = <<>>
<1>0. DOMAIN heap \subseteq DOMAIN heap'
  BY HeapGrows
<1>1. ASSUME NEW n \in Names, NEW type \in UsedTypes, NEW ps \in Params, NEW hasBody \in BOOLEAN,
             FunctionHead(n, type, ps, hasBody)
      PROVE  /\ fn' \in DOMAIN heap' \cup {None}
             /\ pc' \in {"params", "body"} => fn' # None
             /\ pc' \in {"units", "done"} => fn' = None /\ stack' = <<>>
  <2>1. pc = "units" /\ fn = None /\ stack = <<>>
    BY <1>1 DEF FunctionHead, Live
  <2>2. CASE ~hasBody
    BY <1>0, <1>1, <2>1, <2>2 DEF FunctionHead
  <2>3. CASE hasBody
    <3>1. pc' = "params" /\ fn' = IF Visible(n) # None THEN Visible(n) ELSE Fresh
      BY <1>1, <2>3 DEF FunctionHead
    <3>2. CASE Visible(n) # None
      BY <1>0, <3>1, <3>2, VisibleEntry
    <3>3. CASE Visible(n) = None
      <4> DEFINE params == [i \in DOMAIN ps |-> ps[i].type]
      <4>1. heap' = Append(heap, NewEntry(n, "function", type, 0, params))
        BY <1>1, <3>3 DEF FunctionHead
      <4> HIDE DEF params
      <4>2. Fresh \in DOMAIN heap' /\ Fresh # None
        BY <4>1 DEF TypeOK, Fresh, None
      <4> QED
        BY <3>1, <3>3, <4>2
    <3> QED
      BY <3>2, <3>3
  <2> QED
    BY <2>2, <2>3
<1>2. CASE /\ pc' \in {pc, "crashed"} /\ fn' = fn
           /\ pc \in {"units", "done"} => stack' = stack
  BY <1>0, <1>2 DEF Live
<1>3. CASE StartBody
  BY <1>0, <1>3 DEF StartBody, Live
<1>4. CASE EndFunction
  BY <1>4 DEF EndFunction
<1>5. CASE Finish
  BY <1>0, <1>5 DEF Finish, Live
<1>6. ASSUME \/ \E n \in Names, type \in UsedTypes : Declaration(n, type) \/ Assignment(n, type)
             \/ Parameter
             \/ \E n \in Names : VarReference(n)
             \/ \E n \in Names, args \in ArgTypes : Call(n, args)
             \/ \E value \in UsedTypes \cup {"none"} : Return(value)
             \/ Stopped \/ UNCHANGED vars
      PROVE  /\ pc' \in {pc, "crashed"} /\ fn' = fn
             /\ pc \in {"units", "done"} => stack' = stack
  <2>1. CASE \E n \in Names, type \in UsedTypes : Declaration(n, type)
    BY <2>1 DEF Declaration, walkVars
  <2>2. CASE Parameter
    BY <2>2 DEF Parameter
  <2>3. CASE ~(Parameter \/ \E n \in Names, type \in UsedTypes : Declaration(n, type))
    BY <1>6, <2>3 DEF Assignment, VarReference, Call, Return, Stopped, walkVars, vars
  <2> QED
    BY <2>1, <2>2, <2>3
<1> QED
  BY <1>1, <1>2, <1>3, <1>4, <1>5, <1>6 DEF Next

LEMMA LiveStep ==
  ASSUME TypeOK, Live, StackExact, [Next]_vars
  PROVE  Live'
<1>1. \A n \in Names : table[n] \in Seq(Ids)
  BY DEF TypeOK
<1>2. CASE Keeps
  BY <1>2, PhaseStep DEF Keeps, EntriesKept, Live
<1>3. ASSUME NEW n \in Names, Makes(n) PROVE Live'
  <2>1. \A m \in Names : \A i \in DOMAIN table'[m] : table'[m][i] \in DOMAIN heap'
    <3>1. table' = Inserted(n) /\ DOMAIN heap' = DOMAIN heap \cup {Fresh} /\ Fresh \in Ids
      BY <1>3 DEF Makes
    <3>2. SUFFICES ASSUME NEW m \in Names, NEW i \in DOMAIN table'[m]
                   PROVE  table'[m][i] \in DOMAIN heap'
      OBVIOUS
    <3>3. CASE m # n
      <4>1. table'[m] = table[m]
        BY <3>1, <3>3, InsertedChains
      <4> QED
        BY <3>1, <3>2, <4>1 DEF Live
    <3>4. CASE m = n
      BY <3>1, <3>4, InsertedChains DEF Live
    <3> QED
      BY <3>3, <3>4
  <2>2. \A f \in DOMAIN heap' : \A i \in DOMAIN heap'[f].locals :
          heap'[f].locals[i] \in DOMAIN heap'
    <3>1. CASE fn = None
      <4>1. fn \notin DOMAIN heap
        BY <3>1 DEF TypeOK, None
      <4>2. /\ DOMAIN heap' = DOMAIN heap \cup {Fresh} /\ DOMAIN heap'[Fresh].locals = {}
            /\ \A e \in DOMAIN heap : heap'[e].locals = heap[e].locals
        BY <1>3, <4>1, NoMembers DEF Makes
      <4> QED
        BY <4>2 DEF Live
    <3>2. CASE fn # None
      <4>1. fn \in DOMAIN heap /\ heap[fn] \in Entry
        BY <3>2, EntryOf DEF Live
      <4>2. heap[fn].locals \in Seq(Ids) /\ Fresh \in Ids
        BY <1>3, <4>1 DEF Entry, Makes
      <4> DEFINE ls == <<Fresh>> \o heap[fn].locals
      <4>3. \A i \in DOMAIN ls :
              \/ i = 1 /\ ls[i] = Fresh
              \/ i - 1 \in DOMAIN heap[fn].locals /\ ls[i] = heap[fn].locals[i - 1]
        BY <4>2, Pushed
      <4> HIDE DEF ls
      <4>4. /\ DOMAIN heap' = DOMAIN heap \cup {Fresh}
            /\ heap'[fn].locals = ls /\ DOMAIN heap'[Fresh].locals = {}
            /\ \A e \in DOMAIN heap : e # fn => heap'[e].locals = heap[e].locals
        BY <1>3, <4>1, NoMembers DEF Makes, ls
      <4> QED
        BY <4>3, <4>4, <4>1 DEF Live
    <3> QED
      BY <3>1, <3>2
  <2> QED
    BY <2>1, <2>2, PhaseStep DEF Live
<1>4. CASE Removes
  <2>1. \A m \in Names : \A i \in DOMAIN table'[m] : table'[m][i] \in DOMAIN heap'
    <3>1. SUFFICES ASSUME NEW m \in Names
                   PROVE  \A i \in DOMAIN table'[m] : table'[m][i] \in DOMAIN heap'
      OBVIOUS
    <3>2. CASE OnStack(m)
      <4>1. table[m] \in Seq(Ids) /\ table[m] # <<>> /\ table'[m] = Tail(table[m])
        BY <1>1, <1>4, <3>2, RemovedChains DEF Removes
      <4>2. \A i \in DOMAIN table'[m] : i + 1 \in DOMAIN table[m] /\ table'[m][i] = table[m][i + 1]
        BY <4>1, Popped
      <4> QED
        BY <1>4, <4>2 DEF Removes, Live
    <3>3. CASE ~OnStack(m)
      BY <1>4, <3>3, RemovedChains DEF Removes, Live
    <3> QED
      BY <3>2, <3>3
  <2> QED
    BY <1>4, <2>1, PhaseStep DEF Removes, Live
<1> QED
  BY <1>2, <1>3, <1>4, Shapes

(* Removing takes the first entry off the chain of every name on the stack. *)
LEMMA Shorter ==
  ASSUME TypeOK, Live, StackExact, NEW m \in Names, OnStack(m)
  PROVE  LET t == Removed(stack)[m]
         IN /\ table[m] # <<>> /\ Len(t) = Len(table[m]) - 1
            /\ \A i \in DOMAIN t : i + 1 \in DOMAIN table[m] /\ t[i] = table[m][i + 1]
<1>1. table[m] \in Seq(Ids) /\ table[m] # <<>> /\ Removed(stack)[m] = Tail(table[m])
  BY RemovedChains DEF TypeOK
<1> QED
  BY <1>1, Popped

(* A chain has its level from the names on it and the levels of its entries.*)
ChainNests(n) ==
  /\ \A i \in DOMAIN table[n] : heap[table[n][i]].name = n
  /\ Len(table[n]) <= 2
  /\ \A i \in DOMAIN table[n] : i > 1 => heap[table[n][i]].scope_level = 0
  /\ Len(table[n]) = 2 => heap[Head(table[n])].scope_level = 1

LEMMA ChainKept ==
  ASSUME TypeOK, Live, ChainsNest, EntriesKept, NEW m \in Names, table'[m] = table[m]
  PROVE  ChainNests(m)'
<1>1. \A i \in DOMAIN table[m] :
        /\ heap'[table[m][i]].name = heap[table[m][i]].name
        /\ heap'[table[m][i]].scope_level = heap[table[m][i]].scope_level
  BY DEF EntriesKept, Live
<1>2. table[m] \in Seq(Ids)
  BY DEF TypeOK
<1>3. Len(table[m]) = 2 => Head(table[m]) = table[m][1] /\ 1 \in DOMAIN table[m]
  BY <1>2
<1> QED
  BY <1>1, <1>3 DEF ChainsNest, ChainNests

LEMMA ChainsStep ==
  ASSUME TypeOK, Live, ChainsNest, StackExact, [Next]_vars
  PROVE  ChainsNest'
<1>1. SUFFICES ASSUME NEW m \in Names PROVE ChainNests(m)'
  BY DEF ChainsNest, ChainNests
<1>t. table[m] \in Seq(Ids) /\ Len(table[m]) \in Nat /\ DOMAIN table[m] = 1 .. Len(table[m])
  BY DEF TypeOK
<1>l. /\ table[m] = <<>> => Len(table[m]) = 0
      /\ 1 \in DOMAIN table[m] => Len(table[m]) >= 1
  BY <1>t
<1>c. /\ \A i \in DOMAIN table[m] : heap[table[m][i]].name = m
      /\ Len(table[m]) <= 2
      /\ \A i \in DOMAIN table[m] : i > 1 => heap[table[m][i]].scope_level = 0
      /\ Len(table[m]) = 2 => heap[table[m][1]].scope_level = 1
  BY <1>t DEF ChainsNest
<1>2. CASE Keeps
  BY <1>2, ChainKept DEF Keeps
<1>3. ASSUME NEW n \in Names, Makes(n) PROVE ChainNests(m)'
  <2>1. CASE m # n
    <3>1. table'[m] = table[m]
      BY <1>3, <2>1, InsertedChains DEF Makes
    <3> QED
      BY <1>3, <3>1, ChainKept DEF Makes
  <2>2. CASE m = n
    <3>1. /\ Len(table'[m]) = Len(table[m]) + 1 /\ DOMAIN table'[m] = 1 .. Len(table[m]) + 1
          /\ Head(table'[m]) = Fresh /\ table'[m][1] = Fresh
          /\ \A i \in DOMAIN table'[m] :
               i = 1 \/ (i - 1 \in DOMAIN table[m] /\ table'[m][i] = table[m][i - 1])
      BY <1>3, <2>2, InsertedChains DEF Makes
    <3>2. heap'[Fresh].name = n /\ heap'[Fresh].scope_level = Level
      BY <1>3 DEF Makes
    <3>3. \A i \in DOMAIN table[m] :
            /\ heap'[table[m][i]].name = n
            /\ heap'[table[m][i]].scope_level = heap[table[m][i]].scope_level
      BY <1>3, <2>2 DEF Makes, EntriesKept, Live, ChainsNest
    <3>4. \/ table[m] = <<>>
          \/ Len(table[m]) = 1 /\ heap[table[m][1]].scope_level = 0 /\ Level = 1
      <4>1. CASE Visible(m) = None
        BY <4>1, NothingVisible
      <4>2. CASE Visible(m) # None
        <5>1. Visible(m) = table[m][1] /\ Visible(m) \in DOMAIN heap /\ 1 \in DOMAIN table[m]
              /\ table[m] # <<>>
          BY <4>2, VisibleEntry
        <5>2. heap[Visible(m)].scope_level < Level
          BY <1>3, <2>2, <4>2 DEF Makes
        <5>3. heap[Visible(m)].scope_level \in {0, 1}
          BY <5>1, EntryOf DEF Entry
        <5>4. Level = 1 /\ heap[Visible(m)].scope_level = 0
          BY <5>2, <5>3 DEF Level
        <5>5. Len(table[m]) # 2
          BY <1>c, <5>1, <5>4
        <5>6. Len(table[m]) = 1
          <6>1. Len(table[m]) <= 2 /\ Len(table[m]) >= 1 /\ Len(table[m]) \in Nat
            BY <1>c, <1>l, <1>t, <5>1
          <6>2. \A k \in Nat : k <= 2 /\ k >= 1 /\ k # 2 => k = 1
            OBVIOUS
          <6> QED
            BY <5>5, <6>1, <6>2
        <5> QED
          BY <5>1, <5>4, <5>6
      <4> QED
        BY <4>1, <4>2
    <3>5. \A i \in DOMAIN table'[m] : heap'[table'[m][i]].name = m
      BY <2>2, <3>1, <3>2, <3>3
    <3>6. Len(table'[m]) <= 2 /\ (Len(table'[m]) = 2 => Level = 1)
      <4>1. \/ Len(table[m]) = 0
            \/ Len(table[m]) = 1 /\ Level = 1
        BY <1>l, <3>4
      <4>2. Len(table'[m]) = Len(table[m]) + 1
        BY <3>1
      <4>3. CASE Len(table[m]) = 0
        BY <4>2, <4>3
      <4>4. CASE Len(table[m]) = 1 /\ Level = 1
        BY <4>2, <4>4
      <4> QED
        BY <4>1, <4>3, <4>4
    <3>7. \A i \in DOMAIN table'[m] : i > 1 => heap'[table'[m][i]].scope_level = 0
      <4>1. CASE table[m] = <<>>
        BY <1>l, <3>1, <4>1
      <4>2. CASE Len(table[m]) = 1 /\ heap[table[m][1]].scope_level = 0
        BY <3>1, <3>3, <4>2
      <4> QED
        BY <3>4, <4>1, <4>2
    <3> QED
      BY <3>1, <3>2, <3>5, <3>6, <3>7 DEF ChainNests
  <2> QED
    BY <2>1, <2>2
<1>4. CASE Removes
  <2>0. heap' = heap /\ table' = Removed(stack)
    BY <1>4 DEF Removes
  <2>1. CASE OnStack(m)
    <3>1. /\ Len(table'[m]) = Len(table[m]) - 1
          /\ \A i \in DOMAIN table'[m] :
               i + 1 \in DOMAIN table[m] /\ table'[m][i] = table[m][i + 1]
      BY <2>0, <2>1, Shorter
    <3>2. \A i \in DOMAIN table'[m] :
            /\ heap'[table'[m][i]].name = m
            /\ i > 1 => heap'[table'[m][i]].scope_level = 0
      BY <1>c, <1>t, <2>0, <3>1
    <3>3. Len(table'[m]) <= 1
      BY <1>c, <1>t, <3>1
    <3> QED
      BY <3>2, <3>3 DEF ChainNests
  <2>2. CASE ~OnStack(m)
    <3>1. table'[m] = table[m]
      BY <2>0, <2>2, RemovedChains
    <3> QED
      BY <2>0, <3>1 DEF ChainsNest, ChainNests
  <2> QED
    BY <2>1, <2>2
<1> QED
  BY <1>2, <1>3, <1>4, Shapes

LEMMA StackStep ==
  ASSUME TypeOK, Live, ChainsNest, StackExact, [Next]_vars
  PROVE  StackExact'
<1>1. CASE Keeps
  <2>1. \A m \in Names : LocalLevel(m)' <=> LocalLevel(m)
    <3>1. SUFFICES ASSUME NEW m \in Names PROVE LocalLevel(m)' <=> LocalLevel(m)
      OBVIOUS
    <3>2. Visible(m)' = Visible(m)
      BY <1>1 DEF Keeps, Visible
    <3>3. Visible(m) # None => heap'[Visible(m)].scope_level = heap[Visible(m)].scope_level
      BY <1>1, VisibleEntry DEF Keeps, EntriesKept
    <3> QED
      BY <3>2, <3>3 DEF LocalLevel
  <2> QED
    BY <1>1, <2>1 DEF Keeps, StackExact, OnStack
<1>2. ASSUME NEW n \in Names, Makes(n) PROVE StackExact'
  <2>1. \A m \in Names : m # n => (LocalLevel(m)' <=> LocalLevel(m))
    <3>1. SUFFICES ASSUME NEW m \in Names, m # n PROVE LocalLevel(m)' <=> LocalLevel(m)
      OBVIOUS
    <3>2. Visible(m)' = Visible(m)
      BY <1>2, <3>1, InsertedChains DEF Makes, Visible
    <3>3. Visible(m) # None => heap'[Visible(m)].scope_level = heap[Visible(m)].scope_level
      BY <1>2, VisibleEntry DEF Makes, EntriesKept
    <3> QED
      BY <3>2, <3>3 DEF LocalLevel
  <2>2. LocalLevel(n)' <=> Level = 1
    <3>1. Visible(n)' = Fresh /\ heap'[Fresh].scope_level = Level /\ Fresh # None
      BY <1>2, InsertedChains, BoundsAssumption DEF Makes, Visible, Ids, None
    <3> QED
      BY <3>1 DEF LocalLevel
  <2>3. ~LocalLevel(n)
    <3>1. CASE Visible(n) = None
      BY <3>1 DEF LocalLevel
    <3>2. CASE Visible(n) # None
      BY <1>2, <3>2 DEF Makes, Level, LocalLevel
    <3> QED
      BY <3>1, <3>2
  <2>4. CASE pc = "units"
    <3>1. Level = 0 /\ stack' = stack
      BY <1>2, <2>4 DEF Level, Makes
    <3> QED
      BY <2>1, <2>2, <2>3, <3>1 DEF StackExact, OnStack
  <2>5. CASE pc # "units"
    <3>1. Level = 1 /\ stack' = <<n>> \o stack /\ stack \in Seq(Names)
      BY <1>2, <2>5 DEF Level, Makes, TypeOK
    <3>2. /\ Len(stack) \in Nat /\ DOMAIN stack = 1 .. Len(stack)
          /\ DOMAIN stack' = 1 .. Len(stack) + 1 /\ stack'[1] = n
          /\ \A i \in 1 .. Len(stack) : stack'[i + 1] = stack[i]
          /\ \A i \in DOMAIN stack' : i = 1 \/ (i - 1 \in DOMAIN stack /\ stack'[i] = stack[i - 1])
      BY <3>1, Pushed
    <3>3. \A i \in DOMAIN stack : stack[i] # n
      BY <2>3 DEF StackExact, OnStack
    <3>4. \A m \in Names : OnStack(m)' <=> (m = n \/ OnStack(m))
      BY <3>2 DEF OnStack
    <3>5. IsInjective(stack')
      BY <3>2, <3>3 DEF StackExact, IsInjective
    <3> QED
      BY <2>1, <2>2, <3>1, <3>4, <3>5 DEF StackExact
  <2> QED
    BY <2>4, <2>5
<1>3. CASE Removes
  <2>0. heap' = heap /\ table' = Removed(stack) /\ stack' = <<>>
    BY <1>3 DEF Removes
  <2>1. \A m \in Names : ~LocalLevel(m)'
    <3>1. SUFFICES ASSUME NEW m \in Names, LocalLevel(m)' PROVE FALSE
      OBVIOUS
    <3>2. CASE OnStack(m)
      <4>1. table'[m] \in Seq(Ids) /\ table'[m] # <<>> /\ heap[Head(table'[m])].scope_level = 1
        BY <2>0, <3>1, RemovedChains DEF LocalLevel, Visible
      <4>2. 1 \in DOMAIN table'[m] /\ Head(table'[m]) = table'[m][1]
        BY <4>1, Popped
      <4>3. 2 \in DOMAIN table[m] /\ table'[m][1] = table[m][2]
        BY <2>0, <3>2, <4>2, Shorter
      <4> QED
        BY <4>1, <4>2, <4>3 DEF ChainsNest
    <3>3. CASE ~OnStack(m)
      BY <2>0, <3>1, <3>3, RemovedChains DEF StackExact, LocalLevel, Visible
    <3> QED
      BY <3>2, <3>3
  <2>2. IsInjective(stack') /\ \A m \in Names : ~OnStack(m)'
    BY <2>0, NoMembers DEF IsInjective, OnStack
  <2> QED
    BY <2>1, <2>2 DEF StackExact
<1> QED
  BY <1>1, <1>2, <1>3, Shapes

LEMMA TableInvariant == Spec => []TableInv
<1>1. Init => TableInv
  <2> SUFFICES ASSUME Init PROVE TableInv
    OBVIOUS
  <2>1. /\ \A S : <<>> \in Seq(S)
        /\ Len(<<>>) = 0 /\ DOMAIN <<>> = {} /\ \A n \in Names : table[n] = <<>>
    BY DEF Init
  <2>2. TypeOK
    <3>1. heap \in Seq(Entry) /\ Len(heap) <= MaxEntries
      BY BoundsAssumption DEF Init
    <3>2. table \in [Names -> Seq(Ids)]
      <4>1. <<>> \in Seq(Ids)
        OBVIOUS
      <4> QED
        BY <4>1 DEF Init
    <3>3. pending \in Seq([name : Names, type : Types]) /\ stack \in Seq(Names)
      BY DEF Init
    <3>4. fnType \in Types /\ errors \in Nat /\ todo \in BOOLEAN
      BY DEF Init, Types
    <3> QED
      BY <3>1, <3>2, <3>3, <3>4 DEF Init, TypeOK
  <2>3. Live
    BY <2>1 DEF Init, Live
  <2>4. ChainsNest
    BY <2>1 DEF ChainsNest
  <2>5. StackExact
    BY <2>1 DEF Init, StackExact, IsInjective, OnStack, LocalLevel, Visible
  <2> QED
    BY <2>2, <2>3, <2>4, <2>5 DEF TableInv
<1>2. TableInv /\ [Next]_vars => TableInv'
  BY TypeStep, LiveStep, ChainsStep, StackStep DEF TableInv
<1> QED
  BY <1>1, <1>2, PTL DEF Spec

(* At every moment of the walk the chain of a name leads from the local to  *)
(* the global entry and the delete stack names exactly the local entries in *)
(* the table, each once, however long the program is.                       *)
THEOREM TableIsConsistent == Spec => []TableConsistent
<1>1. TableInv => TableConsistent
  <2> SUFFICES ASSUME TableInv PROVE DeleteStackIsExact
    BY DEF TableInv, TableConsistent
  <2>1. stack \in Seq(Names)
    BY DEF TableInv, TypeOK
  <2>2. \A n : n \in ToSet(stack) <=> n \in Names /\ OnStack(n)
    BY <2>1 DEF ToSet, OnStack
  <2> QED
    BY <2>2 DEF TableInv, StackExact, LocalLevel, DeleteStackIsExact
<1> QED
  BY <1>1, TableInvariant, PTL

-----------------------------------------------------------------------------
(* Lists of locals. No entry is on two lists, whatever was reported.        *)
ListsApart ==
  \A f, g \in DOMAIN heap :
    f # g => \A i \in DOMAIN heap[f].locals, j \in DOMAIN heap[g].locals :
               heap[f].locals[i] # heap[g].locals[j]

BodyMarked == pc = "body" => heap[fn].hasBody

(* As long as nothing was reported, the list of the function under way has  *)
(* the names on the delete stack, and only a function that has its body has *)
(* locals: a second body, which would add to the list, is an error.         *)
StackNames ==
  fn # None => /\ DOMAIN heap[fn].locals = DOMAIN stack
               /\ \A i \in DOMAIN stack : heap[heap[fn].locals[i]].name = stack[i]
NamesApart ==
  \A f \in DOMAIN heap :
    \A i, j \in DOMAIN heap[f].locals :
      heap[heap[f].locals[i]].name = heap[heap[f].locals[j]].name => i = j
EmptyBefore == \A f \in DOMAIN heap : f # fn /\ ~heap[f].hasBody => heap[f].locals = <<>>

LocalsInv == /\ ListsApart /\ BodyMarked
             /\ errors = 0 => StackNames /\ NamesApart /\ EmptyBefore

(* Errors are never taken back.                                             *)
LEMMA ErrorsStay ==
  ASSUME TypeOK, Live, [Next]_vars, errors' = 0
  PROVE  errors = 0
<1>0. errors \in Nat
  BY DEF TypeOK
<1>1. PICK k \in Nat : errors' = errors + k
  <2>1. \A b : Count(b) \in Nat
    BY DEF Count
  <2>2. ASSUME NEW n \in Names, NEW type \in UsedTypes, NEW ps \in Params, NEW hasBody \in BOOLEAN,
               FunctionHead(n, type, ps, hasBody)
        PROVE  \E k \in Nat : errors' = errors + k
    BY <2>1, <2>2 DEF FunctionHead, HeadErrors, Count
  <2>3. ASSUME NEW n \in Names, NEW type \in Types, errors' = errors + DeclarationErrors(n, type)
        PROVE  \E k \in Nat : errors' = errors + k
    <3>1. DeclarationErrors(n, type) \in Nat
      BY DEF DeclarationErrors, Count
    <3> QED
      BY <2>3, <3>1
  <2>4. CASE \/ \E n \in Names, type \in UsedTypes : Declaration(n, type)
             \/ Parameter
    <3>1. Head(pending) \in [name : Names, type : Types] \/ ~Parameter
      BY Popped DEF TypeOK, Parameter
    <3> QED
      BY <2>3, <2>4, <3>1, UsedTypesAssumption DEF Declaration, Parameter
  <2>5. ASSUME NEW n \in Names, NEW type \in UsedTypes, Assignment(n, type)
        PROVE  \E k \in Nat : errors' = errors + k
    BY <2>1, <2>5 DEF Assignment, Count
  <2>6. ASSUME NEW n \in Names, VarReference(n) PROVE \E k \in Nat : errors' = errors + k
    BY <2>1, <2>6 DEF VarReference
  <2>7. ASSUME NEW n \in Names, NEW args \in ArgTypes, Call(n, args)
        PROVE  \E k \in Nat : errors' = errors + k
    <3>1. CASE errors' = errors + 1
      BY <3>1
    <3>2. CASE Visible(n) # None /\ errors' = errors + CallErrors(heap[Visible(n)], args)
      <4>1. CallErrors(heap[Visible(n)], args) \in Nat
        BY <3>2, VisibleEntry, EntryOf, ErrorsCounted, ArgTypesAssumption
      <4> QED
        BY <3>2, <4>1
    <3> QED
      BY <2>7, <3>1, <3>2 DEF Call
  <2>8. ASSUME NEW value \in UsedTypes \cup {"none"}, Return(value)
        PROVE  \E k \in Nat : errors' = errors + k
    BY <2>1, <2>8 DEF Return, Count
  <2>9. CASE EndFunction \/ Finish
    BY <2>1, <2>9 DEF EndFunction, Finish, Count
  <2>10. CASE StartBody \/ Stopped \/ UNCHANGED vars
    <3>1. errors' = errors + 0
      BY <1>0, <2>10 DEF StartBody, Stopped, vars
    <3> QED
      BY <3>1
  <2> QED
    BY <2>2, <2>4, <2>5, <2>6, <2>7, <2>8, <2>9, <2>10 DEF Next
<1> QED
  BY <1>0, <1>1

(* Every step but the ones that begin or end a function leaves it under way.*)
Begins == \E n \in Names, type \in UsedTypes, ps \in Params : FunctionHead(n, type, ps, TRUE)
LEMMA SameFunction ==
  ASSUME TypeOK, Live, [Next]_vars
  PROVE  \/ Begins
         \/ EndFunction
         \/ fn' = fn /\ (pc' = "body" => pc = "body" \/ StartBody)
<1>1. ASSUME NEW n \in Names, NEW type \in UsedTypes, NEW ps \in Params, NEW hasBody \in BOOLEAN,
             FunctionHead(n, type, ps, hasBody), ~Begins
      PROVE  fn' = fn /\ pc' = pc
  <2>1. ~hasBody
    BY <1>1, Zenon DEF Begins
  <2> QED
    BY <1>1, <2>1 DEF FunctionHead
<1>2. CASE \/ \E n \in Names, type \in UsedTypes : Declaration(n, type) \/ Assignment(n, type)
           \/ \E n \in Names : VarReference(n)
           \/ \E n \in Names, args \in ArgTypes : Call(n, args)
           \/ \E value \in UsedTypes \cup {"none"} : Return(value)
           \/ Stopped \/ UNCHANGED vars
  <2>1. fn' = fn /\ pc' = pc
    BY <1>2 DEF Declaration, Assignment, VarReference, Call, Return, Stopped, walkVars, vars
  <2> QED
    BY <2>1
<1>3. CASE Parameter
  BY <1>3 DEF Parameter
<1>4. CASE StartBody
  BY <1>4 DEF StartBody
<1>5. CASE Finish
  BY <1>5 DEF Finish
<1> QED
  BY <1>1, <1>2, <1>3, <1>4, <1>5 DEF Next

(* The lists after an entry has been made.                                  *)
LEMMA MadeLists ==
  ASSUME TypeOK, Live, NEW n \in Names, Makes(n)
  PROVE  /\ DOMAIN heap'[Fresh].locals = {}
         /\ \A e \in DOMAIN heap : e # fn => heap'[e].locals = heap[e].locals
         /\ fn # None =>
              /\ fn \in DOMAIN heap /\ fn # Fresh /\ heap[fn].locals \in Seq(Ids)
              /\ DOMAIN heap[fn].locals = 1 .. Len(heap[fn].locals)
              /\ Len(heap[fn].locals) \in Nat
              /\ Len(heap'[fn].locals) = Len(heap[fn].locals) + 1
              /\ DOMAIN heap'[fn].locals = 1 .. Len(heap[fn].locals) + 1
              /\ heap'[fn].locals[1] = Fresh
              /\ \A i \in DOMAIN heap[fn].locals :
                   heap'[fn].locals[i + 1] = heap[fn].locals[i]
              /\ \A i \in DOMAIN heap'[fn].locals :
                   i = 1 \/ (/\ i - 1 \in DOMAIN heap[fn].locals
                              /\ heap'[fn].locals[i] = heap[fn].locals[i - 1])
<1>1. DOMAIN heap'[Fresh].locals = {}
  BY NoMembers DEF Makes
<1>2. \A e \in DOMAIN heap : e # fn => heap'[e].locals = heap[e].locals
  BY DEF Makes
<1>3. ASSUME fn # None
      PROVE  /\ fn \in DOMAIN heap /\ fn # Fresh /\ heap[fn].locals \in Seq(Ids)
             /\ Fresh \in Ids /\ heap'[fn].locals = <<Fresh>> \o heap[fn].locals
  <2>1. fn \in DOMAIN heap
    BY <1>3 DEF Live
  <2>2. heap[fn].locals \in Seq(Ids)
    BY <2>1, EntryOf DEF Entry
  <2> QED
    BY <2>1, <2>2 DEF Makes
<1>4. ASSUME fn # None
      PROVE  LET ls == heap[fn].locals
                 new == <<Fresh>> \o ls
             IN /\ DOMAIN ls = 1 .. Len(ls) /\ Len(ls) \in Nat
                /\ Len(new) = Len(ls) + 1 /\ DOMAIN new = 1 .. Len(ls) + 1 /\ new[1] = Fresh
                /\ \A i \in DOMAIN ls : new[i + 1] = ls[i]
                /\ \A i \in DOMAIN new : i = 1 \/ (i - 1 \in DOMAIN ls /\ new[i] = ls[i - 1])
  BY <1>3, <1>4, Pushed
<1> QED
  BY <1>1, <1>2, <1>3, <1>4

LEMMA ApartStep ==
  ASSUME TypeOK, Live, ListsApart, [Next]_vars
  PROVE  ListsApart'
<1>1. CASE Keeps
  BY <1>1 DEF Keeps, ListsApart
<1>2. CASE Removes
  BY <1>2 DEF Removes, ListsApart
<1>3. ASSUME NEW n \in Names, Makes(n) PROVE ListsApart'
  <2>1. /\ DOMAIN heap' = DOMAIN heap \cup {Fresh} /\ Fresh \notin DOMAIN heap
        /\ fn \in DOMAIN heap \cup {None}
    BY <1>3 DEF Makes, Live
  <2>2. SUFFICES ASSUME NEW f \in DOMAIN heap', NEW g \in DOMAIN heap', f # g, g # fn,
                        NEW i \in DOMAIN heap'[f].locals, NEW j \in DOMAIN heap'[g].locals
                 PROVE  heap'[f].locals[i] # heap'[g].locals[j]
    BY DEF ListsApart
  <2>3. g \in DOMAIN heap /\ f \in DOMAIN heap
    BY <1>3, <2>1, MadeLists
  <2>4. heap'[g].locals = heap[g].locals /\ heap[g].locals[j] \in DOMAIN heap
    BY <1>3, <2>2, <2>3, MadeLists DEF Live
  <2>5. CASE f # fn
    BY <1>3, <2>2, <2>3, <2>4, <2>5, MadeLists DEF ListsApart
  <2>6. CASE f = fn
    <3>1. fn # None
      BY <2>3, <2>6 DEF TypeOK, None
    <3>2. \/ heap'[f].locals[i] = Fresh
          \/ i - 1 \in DOMAIN heap[f].locals /\ heap'[f].locals[i] = heap[f].locals[i - 1]
      BY <1>3, <2>6, <3>1, MadeLists
    <3> QED
      BY <2>1, <2>2, <2>3, <2>4, <3>2 DEF ListsApart
  <2> QED
    BY <2>5, <2>6
<1> QED
  BY <1>1, <1>2, <1>3, Shapes

LEMMA BodyStep ==
  ASSUME TypeOK, Live, BodyMarked, [Next]_vars
  PROVE  BodyMarked'
<1>1. SUFFICES ASSUME pc' = "body" PROVE heap'[fn'].hasBody
  BY DEF BodyMarked
<1>2. CASE pc = "body" /\ fn' = fn
  <2>1. fn \in DOMAIN heap /\ heap[fn].hasBody
    BY <1>2 DEF Live, BodyMarked
  <2> QED
    BY <1>2, <2>1, Shapes DEF Keeps, Makes, Removes, EntriesKept
<1>3. CASE StartBody
  <2>1. fn \in DOMAIN heap /\ heap[fn] \in Entry /\ heap \in Seq(Entry)
    BY <1>3, EntryOf DEF StartBody, Live, TypeOK
  <2>2. heap' = [heap EXCEPT ![fn] = [heap[fn] EXCEPT !.hasBody = TRUE]] /\ fn' = fn
    BY <1>3 DEF StartBody
  <2>3. [heap[fn] EXCEPT !.hasBody = TRUE].hasBody
    BY <2>1 DEF Entry
  <2> QED
    BY <2>1, <2>2, <2>3
<1>4. ~Begins /\ ~EndFunction
  BY <1>1 DEF Begins, FunctionHead, EndFunction
<1> QED
  BY <1>1, <1>2, <1>3, <1>4, SameFunction

(* A step that leaves the function under way.                               *)
LEMMA NamesKept ==
  ASSUME TypeOK, Live, StackExact, [Next]_vars, fn' = fn,
         StackNames, NamesApart, EmptyBefore
  PROVE  (StackNames /\ NamesApart /\ EmptyBefore)'
<1>0. \A e \in DOMAIN heap : \A i \in DOMAIN heap[e].locals : heap[e].locals[i] \in DOMAIN heap
  BY DEF Live
<1>1. CASE Keeps
  <2>1. /\ DOMAIN heap' = DOMAIN heap /\ stack' = stack /\ fn \in DOMAIN heap \cup {None}
        /\ \A e \in DOMAIN heap : heap'[e].locals = heap[e].locals
        /\ \A e \in DOMAIN heap : heap'[e].name = heap[e].name
        /\ \A e \in DOMAIN heap : ~heap'[e].hasBody => ~heap[e].hasBody
    BY <1>1 DEF Keeps, EntriesKept, Live
  <2>2. StackNames'
    <3>1. SUFFICES ASSUME fn # None
                   PROVE  /\ DOMAIN heap'[fn].locals = DOMAIN stack
                          /\ \A i \in DOMAIN stack : heap'[heap'[fn].locals[i]].name = stack[i]
      BY <2>1 DEF StackNames
    <3> QED
      BY <1>0, <2>1, <3>1 DEF StackNames
  <2>3. NamesApart'
    <3>1. SUFFICES ASSUME NEW f \in DOMAIN heap,
                          NEW i \in DOMAIN heap[f].locals, NEW j \in DOMAIN heap[f].locals,
                          heap'[heap[f].locals[i]].name = heap'[heap[f].locals[j]].name
                   PROVE  i = j
      BY <2>1 DEF NamesApart
    <3> QED
      BY <1>0, <2>1, <3>1 DEF NamesApart
  <2>4. EmptyBefore'
    <3>1. SUFFICES ASSUME NEW f \in DOMAIN heap, f # fn, ~heap'[f].hasBody
                   PROVE  heap'[f].locals = <<>>
      BY <2>1 DEF EmptyBefore
    <3> QED
      BY <2>1, <3>1 DEF EmptyBefore
  <2> QED
    BY <2>2, <2>3, <2>4
<1>2. ASSUME NEW n \in Names, Makes(n) PROVE (StackNames /\ NamesApart /\ EmptyBefore)'
  <2>1. /\ DOMAIN heap' = DOMAIN heap \cup {Fresh} /\ fn \in DOMAIN heap \cup {None}
        /\ Fresh \notin DOMAIN heap /\ heap'[Fresh].name = n /\ heap'[Fresh].locals = <<>>
        /\ \A e \in DOMAIN heap : heap'[e].name = heap[e].name
        /\ \A e \in DOMAIN heap : ~heap'[e].hasBody => ~heap[e].hasBody
    BY <1>2 DEF Makes, EntriesKept, Live
  <2>2. fn # None => pc # "units" /\ stack' = <<n>> \o stack /\ stack \in Seq(Names)
    BY <1>2 DEF Makes, Live, TypeOK
  <2>3. ~OnStack(n)
    <3>1. CASE Visible(n) = None
      BY <3>1 DEF StackExact, LocalLevel
    <3>2. CASE Visible(n) # None
      BY <1>2, <3>2 DEF Makes, Level, StackExact, LocalLevel
    <3> QED
      BY <3>1, <3>2
  <2>4. fn # None =>
          /\ DOMAIN stack' = 1 .. Len(stack) + 1 /\ stack'[1] = n
          /\ DOMAIN stack = 1 .. Len(stack) /\ Len(stack) \in Nat
          /\ \A i \in DOMAIN stack' : i = 1 \/ (i - 1 \in DOMAIN stack /\ stack'[i] = stack[i - 1])
    BY <2>2, Pushed
  <2>5. StackNames'
    <3>1. SUFFICES ASSUME fn # None
                   PROVE  /\ DOMAIN heap'[fn].locals = DOMAIN stack'
                          /\ \A i \in DOMAIN stack' : heap'[heap'[fn].locals[i]].name = stack'[i]
      BY DEF StackNames
    <3>2. DOMAIN heap'[fn].locals = DOMAIN stack' /\ Len(heap[fn].locals) = Len(stack)
      BY <1>2, <2>4, <3>1, MadeLists DEF StackNames
    <3>3. ASSUME NEW i \in DOMAIN stack' PROVE heap'[heap'[fn].locals[i]].name = stack'[i]
      <4>1. CASE i = 1
        BY <1>2, <2>1, <2>4, <3>1, <4>1, MadeLists
      <4>2. CASE i # 1
        <5>1. /\ i - 1 \in DOMAIN stack /\ stack'[i] = stack[i - 1]
              /\ i - 1 \in DOMAIN heap[fn].locals /\ fn \in DOMAIN heap
              /\ heap'[fn].locals[i] = heap[fn].locals[i - 1]
          <6>1. /\ fn \in DOMAIN heap
                /\ DOMAIN heap'[fn].locals = DOMAIN stack'
                /\ \A k \in DOMAIN heap'[fn].locals :
                     k = 1 \/ (/\ k - 1 \in DOMAIN heap[fn].locals
                                /\ heap'[fn].locals[k] = heap[fn].locals[k - 1])
            BY <1>2, <3>1, <3>2, MadeLists
          <6> QED
            BY <2>4, <3>1, <3>3, <4>2, <6>1
        <5> QED
          BY <1>0, <2>1, <3>1, <5>1 DEF StackNames
      <4> QED
        BY <4>1, <4>2
    <3> QED
      BY <3>2, <3>3
  <2>6. NamesApart'
    <3>1. SUFFICES ASSUME NEW f \in DOMAIN heap',
                          NEW i \in DOMAIN heap'[f].locals, NEW j \in DOMAIN heap'[f].locals,
                          heap'[heap'[f].locals[i]].name = heap'[heap'[f].locals[j]].name
                   PROVE  i = j
      BY DEF NamesApart
    <3>2. f \in DOMAIN heap
      BY <1>2, <2>1, <3>1, MadeLists
    <3>3. CASE f # fn
      <4>1. heap'[f].locals = heap[f].locals
        BY <1>2, <3>2, <3>3, MadeLists
      <4> QED
        BY <1>0, <2>1, <3>1, <3>2, <4>1 DEF NamesApart
    <3>4. CASE f = fn
      <4>1. fn # None
        BY <3>2, <3>4 DEF TypeOK, None
      <4>2. /\ i \in DOMAIN stack' /\ j \in DOMAIN stack' /\ stack'[i] = stack'[j]
        BY <2>5, <3>1, <3>4, <4>1 DEF StackNames
      <4>3. \A k \in DOMAIN stack : stack[k] # n
        BY <2>3 DEF OnStack
      <4>4. i \in Nat /\ j \in Nat
        BY <2>4, <4>1, <4>2
      <4>5. CASE i = 1 \/ j = 1
        BY <2>4, <4>1, <4>2, <4>3, <4>5
      <4>6. CASE i # 1 /\ j # 1
        <5>1. /\ i - 1 \in DOMAIN stack /\ j - 1 \in DOMAIN stack
              /\ stack[i - 1] = stack[j - 1]
          BY <2>4, <4>1, <4>2, <4>6
        <5>2. i - 1 = j - 1
          BY <5>1 DEF StackExact, IsInjective
        <5> QED
          BY <4>4, <5>2
      <4> QED
        BY <4>5, <4>6
    <3> QED
      BY <3>3, <3>4
  <2>7. EmptyBefore'
    <3>1. SUFFICES ASSUME NEW f \in DOMAIN heap', f # fn, ~heap'[f].hasBody
                   PROVE  heap'[f].locals = <<>>
      BY DEF EmptyBefore
    <3>2. CASE f = Fresh
      BY <2>1, <3>2
    <3>3. CASE f \in DOMAIN heap
      <4>1. heap'[f].locals = heap[f].locals /\ ~heap[f].hasBody
        BY <1>2, <2>1, <3>1, <3>3, MadeLists
      <4> QED
        BY <3>1, <3>3, <4>1 DEF EmptyBefore
    <3> QED
      BY <2>1, <3>2, <3>3
  <2> QED
    BY <2>5, <2>6, <2>7
<1>3. ~EndFunction
  BY DEF EndFunction, Live
<1> QED
  BY <1>1, <1>2, <1>3, Shapes

(* A function's head: what it counts, and the entry it leaves under way.    *)
LEMMA HeadStep ==
  ASSUME TypeOK, Live, NEW n \in Names, NEW type \in UsedTypes, NEW ps \in Params,
         FunctionHead(n, type, ps, TRUE)
  PROVE  LET params == [i \in DOMAIN ps |-> ps[i].type]
         IN /\ pc = "units" /\ fn = None /\ pc' = "params" /\ stack' = <<>> /\ pending' = ps
            /\ fn' \in DOMAIN heap'
            /\ params \in Seq(Types) /\ DOMAIN params = DOMAIN ps
            /\ \/ /\ fn' = Visible(n) /\ fn' \in DOMAIN heap /\ heap' = heap
                  /\ table' = table
                  /\ errors' = 0 => ~heap[fn'].hasBody
                  /\ ~todo' => heap[fn'].hasBody
               \/ /\ Visible(n) = None /\ fn' = Fresh /\ Fresh \notin DOMAIN heap
                  /\ Fresh \in Ids /\ table' = Inserted(n)
                  /\ DOMAIN heap' = DOMAIN heap \cup {Fresh}
                  /\ \A e \in DOMAIN heap : heap'[e] = heap[e]
                  /\ heap'[Fresh] = NewEntry(n, "function", type, 0, params)
            /\ ~todo' => ~todo
<1> DEFINE params == [i \in DOMAIN ps |-> ps[i].type]
<1>1. params \in Seq(Types)
  <2>1. /\ Len(ps) \in Nat /\ DOMAIN ps = 1 .. Len(ps)
        /\ \A i \in DOMAIN ps : ps[i] \in [name : Names, type : Types]
    BY ParamsAssumption, Members
  <2>2. \A p \in [name : Names, type : Types] : p.type \in Types
    OBVIOUS
  <2> QED
    BY <2>1, <2>2
<1>2. DOMAIN params = DOMAIN ps
  OBVIOUS
<1>3. pc = "units" /\ fn = None /\ pc' = "params" /\ stack' = <<>> /\ pending' = ps /\ More
  BY DEF FunctionHead, Live
<1>4. ~todo' => ~todo
  BY Zenon DEF FunctionHead
<1>5. CASE Visible(n) # None
  <2>1. fn' = Visible(n) /\ heap' = heap /\ table' = table
    BY <1>5 DEF FunctionHead
  <2>2. errors' = 0 => ~heap[fn'].hasBody
    <3>1. errors' = errors + HeadErrors(Visible(n), TRUE) /\ errors \in Nat
      BY DEF FunctionHead, TypeOK
    <3>2. heap[Visible(n)].hasBody => HeadErrors(Visible(n), TRUE) = 1
      BY <1>5 DEF HeadErrors, Count
    <3>3. HeadErrors(Visible(n), TRUE) = 1 => errors' # 0
      <4>1. \A k \in Nat : k + 1 # 0
        OBVIOUS
      <4> QED
        BY <3>1, <4>1
    <3> QED
      BY <2>1, <3>2, <3>3
  <2>3. ~todo' => heap[fn'].hasBody
    BY <1>5, <2>1, Zenon DEF FunctionHead
  <2> QED
    BY <1>1, <1>2, <1>3, <1>4, <1>5, <2>1, <2>2, <2>3, VisibleEntry
<1>6. CASE Visible(n) = None
  <2>1. /\ heap' = Append(heap, NewEntry(n, "function", type, 0, params))
        /\ table' = Inserted(n) /\ fn' = Fresh
    BY <1>6 DEF FunctionHead
  <2> HIDE DEF params
  <2>2. type \in Types
    BY UsedTypesAssumption
  <2>3. /\ Fresh \in Ids /\ Fresh \notin DOMAIN heap /\ DOMAIN heap' = DOMAIN heap \cup {Fresh}
        /\ \A e \in DOMAIN heap : heap'[e] = heap[e]
        /\ heap'[Fresh] = NewEntry(n, "function", type, 0, params)
    BY <1>1, <1>3, <2>1, <2>2, FunctionEntries
  <2>4. fn' \in DOMAIN heap'
    BY <2>1, <2>3
  <2> QED
    BY <1>1, <1>2, <1>3, <1>4, <1>6, <2>1, <2>3, <2>4 DEF params
<1> QED
  BY <1>5, <1>6

LEMMA LocalsStep == TableInv /\ LocalsInv /\ [Next]_vars => LocalsInv'
<1> SUFFICES ASSUME TypeOK, Live, StackExact, LocalsInv, [Next]_vars PROVE LocalsInv'
  BY DEF TableInv
<1>1. ListsApart' /\ BodyMarked'
  BY ApartStep, BodyStep DEF LocalsInv
<1>2. SUFFICES ASSUME errors' = 0 PROVE (StackNames /\ NamesApart /\ EmptyBefore)'
  BY <1>1 DEF LocalsInv
<1>3. StackNames /\ NamesApart /\ EmptyBefore
  BY <1>2, ErrorsStay DEF LocalsInv
<1>4. CASE fn' = fn
  BY <1>3, <1>4, NamesKept
<1>5. CASE EndFunction
  <2>1. heap' = heap /\ fn' = None /\ heap[fn].hasBody
    BY <1>5 DEF EndFunction, LocalsInv, BodyMarked
  <2>2. \A f \in DOMAIN heap : ~heap[f].hasBody => f # fn
    BY <2>1
  <2>3. StackNames'
    BY <2>1 DEF StackNames
  <2>4. NamesApart'
    BY <1>3, <2>1 DEF NamesApart
  <2>5. EmptyBefore'
    BY <1>3, <2>1, <2>2 DEF EmptyBefore
  <2> QED
    BY <2>3, <2>4, <2>5
<1>6. CASE Begins
  <2>1. PICK n \in Names, type \in UsedTypes, ps \in Params : FunctionHead(n, type, ps, TRUE)
    BY <1>6 DEF Begins
  <2>2. fn = None /\ stack' = <<>> /\ fn \notin DOMAIN heap
    <3>1. fn = None /\ stack' = <<>>
      BY <2>1, HeadStep
    <3>2. None \notin DOMAIN heap
      BY DEF TypeOK, None
    <3> QED
      BY <3>1, <3>2
  <2>3. CASE /\ fn' \in DOMAIN heap /\ heap' = heap /\ ~heap[fn'].hasBody
    <3>1. heap'[fn'].locals = <<>>
      BY <1>3, <2>2, <2>3 DEF EmptyBefore
    <3> QED
      BY <1>3, <2>2, <2>3, <3>1, NoMembers DEF StackNames, NamesApart, EmptyBefore
  <2>4. CASE /\ fn' = Fresh /\ DOMAIN heap' = DOMAIN heap \cup {Fresh} /\ Fresh \notin DOMAIN heap
             /\ \A e \in DOMAIN heap : heap'[e] = heap[e]
             /\ heap'[Fresh].locals = <<>>
    <3>0. \A e \in DOMAIN heap : \A i \in DOMAIN heap[e].locals : heap[e].locals[i] \in DOMAIN heap
      BY DEF Live
    <3>1. StackNames'
      BY <2>2, <2>4, NoMembers DEF StackNames
    <3>2. NamesApart'
      BY <1>3, <2>4, <3>0, NoMembers DEF NamesApart
    <3>3. EmptyBefore'
      <4>1. \A f \in DOMAIN heap : f # fn
        BY <2>2
      <4> QED
        BY <1>3, <2>4, <4>1 DEF EmptyBefore
    <3> QED
      BY <3>1, <3>2, <3>3
  <2>5. \A type2, params : NewEntry(n, "function", type2, 0, params).locals = <<>>
    BY DEF NewEntry
  <2>6. \/ fn' \in DOMAIN heap /\ heap' = heap /\ ~heap[fn'].hasBody
        \/ /\ fn' = Fresh /\ DOMAIN heap' = DOMAIN heap \cup {Fresh} /\ Fresh \notin DOMAIN heap
           /\ \A e \in DOMAIN heap : heap'[e] = heap[e]
           /\ \E params : heap'[Fresh] = NewEntry(n, "function", type, 0, params)
    BY <1>2, <2>1, HeadStep
  <2>7. (\E params : heap'[Fresh] = NewEntry(n, "function", type, 0, params))
          => heap'[Fresh].locals = <<>>
    BY <2>5
  <2> QED
    BY <2>3, <2>4, <2>6, <2>7
<1> QED
  BY <1>4, <1>5, <1>6, SameFunction

LEMMA LocalsInvariant == Spec => []LocalsInv
<1>1. Init => LocalsInv
  BY DEF Init, LocalsInv, ListsApart, BodyMarked, StackNames, NamesApart, EmptyBefore, None
<1> QED
  BY <1>1, LocalsStep, TableInvariant, PTL DEF Spec

(* In a program without errors no name is twice on a function's list of     *)
(* locals and no entry is on two lists, so the code generator's walk over   *)
(* the list gives every local a place of its own.                           *)
THEOREM LocalsAreDisjoint == Spec => []LocalsDisjoint
<1>1. TypeOK /\ LocalsInv => LocalsDisjoint
  <2> SUFFICES ASSUME TypeOK, LocalsInv, errors = 0, NEW f \in DOMAIN heap
               PROVE  /\ \A i, j \in DOMAIN heap[f].locals :
                            heap[heap[f].locals[i]].name = heap[heap[f].locals[j]].name => i = j
                      /\ \A g \in DOMAIN heap :
                            f # g => ToSet(heap[f].locals) \cap ToSet(heap[g].locals) = {}
    BY DEF LocalsDisjoint
  <2> QED
    BY DEF LocalsInv, NamesApart, ListsApart, ToSet
<1> QED
  BY <1>1, TableInvariant, LocalsInvariant, PTL DEF TableInv

-----------------------------------------------------------------------------
(* Frames. While the parameters are entered, those entered and those still  *)
(* to come make up the recorded signature.                                  *)
Matches(f) ==
  /\ Len(heap[f].params) <= Len(heap[f].locals)
  /\ \A i \in DOMAIN heap[f].locals :
       /\ OldestLocal(f, i).isParameter <=> i \in DOMAIN heap[f].params
       /\ i \in DOMAIN heap[f].params => OldestLocal(f, i).type = heap[f].params[i]
Entering(f) ==
  /\ ~heap[f].hasBody
  /\ Len(heap[f].locals) + Len(pending) = Len(heap[f].params)
  /\ \A i \in DOMAIN heap[f].locals :
       OldestLocal(f, i).isParameter /\ OldestLocal(f, i).type = heap[f].params[i]
  /\ \A i \in DOMAIN pending : pending[i].type = heap[f].params[Len(heap[f].locals) + i]

FrameInv ==
  (errors = 0 /\ ~todo) => /\ \A f \in DOMAIN heap : heap[f].hasBody => Matches(f)
                           /\ pc = "params" => Entering(fn)

(* A list that a step does not change, and the one that gets a new entry.   *)
LEMMA OldestKept ==
  ASSUME TypeOK, Live, EntriesKept, NEW f \in DOMAIN heap, heap'[f].locals = heap[f].locals
  PROVE  \A i \in DOMAIN heap[f].locals :
           /\ OldestLocal(f, i)'.isParameter = OldestLocal(f, i).isParameter
           /\ OldestLocal(f, i)'.type = OldestLocal(f, i).type
<1>1. SUFFICES ASSUME NEW i \in DOMAIN heap[f].locals
               PROVE  /\ OldestLocal(f, i)'.isParameter = OldestLocal(f, i).isParameter
                      /\ OldestLocal(f, i)'.type = OldestLocal(f, i).type
  OBVIOUS
<1>2. heap[f].locals \in Seq(Ids)
  BY EntryOf DEF Entry
<1> DEFINE e == heap[f].locals[Len(heap[f].locals) + 1 - i]
<1>3. Len(heap[f].locals) + 1 - i \in DOMAIN heap[f].locals
  BY <1>2
<1>4. e \in DOMAIN heap
  BY <1>3 DEF Live
<1>5. OldestLocal(f, i) = heap[e] /\ OldestLocal(f, i)' = heap'[e]
  BY DEF OldestLocal
<1> HIDE DEF e
<1> QED
  BY <1>4, <1>5 DEF EntriesKept

LEMMA OldestMade ==
  ASSUME TypeOK, Live, NEW n \in Names, Makes(n), NEW f \in DOMAIN heap, f = fn
  PROVE  /\ Len(heap'[f].locals) = Len(heap[f].locals) + 1 /\ Len(heap[f].locals) \in Nat
         /\ DOMAIN heap[f].locals = 1 .. Len(heap[f].locals)
         /\ DOMAIN heap'[f].locals = 1 .. Len(heap[f].locals) + 1
         /\ \A i : i = Len(heap[f].locals) + 1 => OldestLocal(f, i)' = heap'[Fresh]
         /\ \A i \in DOMAIN heap[f].locals :
              /\ OldestLocal(f, i)'.isParameter = OldestLocal(f, i).isParameter
              /\ OldestLocal(f, i)'.type = OldestLocal(f, i).type
<1>1. f # None
  BY DEF TypeOK, None
<1>2. /\ Len(heap[f].locals) \in Nat /\ DOMAIN heap[f].locals = 1 .. Len(heap[f].locals)
      /\ Len(heap'[f].locals) = Len(heap[f].locals) + 1
      /\ DOMAIN heap'[f].locals = 1 .. Len(heap[f].locals) + 1
      /\ heap'[f].locals[1] = Fresh
      /\ \A i \in DOMAIN heap[f].locals : heap'[f].locals[i + 1] = heap[f].locals[i]
  BY <1>1, MadeLists
<1>3. ASSUME NEW i, i = Len(heap[f].locals) + 1 PROVE OldestLocal(f, i)' = heap'[Fresh]
  <2>1. \A l \in Nat : (l + 1) + 1 - (l + 1) = 1
    OBVIOUS
  <2>2. Len(heap'[f].locals) + 1 - i = 1
    BY <1>2, <1>3, <2>1
  <2> QED
    BY <1>2, <2>2 DEF OldestLocal
<1>4. ASSUME NEW i \in DOMAIN heap[f].locals
      PROVE  /\ OldestLocal(f, i)'.isParameter = OldestLocal(f, i).isParameter
             /\ OldestLocal(f, i)'.type = OldestLocal(f, i).type
  <2> DEFINE k == Len(heap[f].locals) + 1 - i
             e == heap[f].locals[k]
  <2>1. k \in DOMAIN heap[f].locals /\ Len(heap'[f].locals) + 1 - i = k + 1
    <3>1. \A l \in Nat : \A j \in 1 .. l : l + 1 - j \in 1 .. l /\ (l + 1) + 1 - j = (l + 1 - j) + 1
      OBVIOUS
    <3> DEFINE l == Len(heap[f].locals)
    <3>2. l \in Nat /\ DOMAIN heap[f].locals = 1 .. l /\ Len(heap'[f].locals) = l + 1
      BY <1>2
    <3>3. i \in 1 .. l
      BY <1>4, <3>2
    <3> HIDE DEF l
    <3>4. l + 1 - i \in 1 .. l /\ (l + 1) + 1 - i = (l + 1 - i) + 1
      BY <3>1, <3>2, <3>3
    <3> QED
      BY <3>2, <3>4 DEF l
  <2>2. e \in DOMAIN heap /\ heap'[f].locals[k + 1] = e
    BY <1>2, <2>1 DEF Live
  <2>3. OldestLocal(f, i) = heap[e] /\ OldestLocal(f, i)' = heap'[e]
    BY <2>1, <2>2 DEF OldestLocal
  <2> HIDE DEF e
  <2> QED
    BY <2>2, <2>3 DEF Makes, EntriesKept
<1> QED
  BY <1>2, <1>3, <1>4

(* A list and its function that a step leaves as they were.                 *)
LEMMA MatchKept ==
  ASSUME TypeOK, Live, EntriesKept, NEW f \in DOMAIN heap, heap'[f].locals = heap[f].locals
  PROVE  Matches(f) => Matches(f)'
<1>1. heap'[f].params = heap[f].params
  BY DEF EntriesKept
<1> QED
  BY <1>1, OldestKept DEF Matches

(* Steps that begin no body and enter no parameter, whatever they declare:  *)
(* a local declared in a body is younger than the parameters.               *)
LEMMA MatchesStep ==
  ASSUME TypeOK, Live, BodyMarked, ~StartBody, NEW f \in DOMAIN heap, heap'[f].hasBody,
         heap[f].hasBody => Matches(f),
         \/ Keeps \/ Removes
         \/ f # fn /\ \E n \in Names : Makes(n)
         \/ \E n \in Names : Makes(n) /\ ~heap'[Fresh].isParameter
  PROVE  Matches(f)'
<1>1. CASE Keeps \/ Removes
  <2>1. EntriesKept /\ heap'[f].locals = heap[f].locals
    BY <1>1 DEF Keeps, Removes, EntriesKept
  <2> QED
    BY <2>1, MatchKept DEF EntriesKept
<1>2. ASSUME NEW n \in Names, Makes(n) PROVE EntriesKept /\ Matches(f)
  BY <1>2 DEF Makes, EntriesKept
<1>3. ASSUME NEW n \in Names, Makes(n), f # fn PROVE Matches(f)'
  BY <1>2, <1>3, MadeLists, MatchKept
<1>4. ASSUME NEW n \in Names, Makes(n), ~heap'[Fresh].isParameter, f = fn PROVE Matches(f)'
  <2> DEFINE l == Len(heap[f].locals)
             m == Len(heap[f].params)
  <2>1. /\ Len(heap'[f].locals) = l + 1 /\ l \in Nat /\ DOMAIN heap[f].locals = 1 .. l
        /\ DOMAIN heap'[f].locals = 1 .. l + 1
        /\ \A i : i = l + 1 => OldestLocal(f, i)' = heap'[Fresh]
        /\ \A i \in DOMAIN heap[f].locals :
             /\ OldestLocal(f, i)'.isParameter = OldestLocal(f, i).isParameter
             /\ OldestLocal(f, i)'.type = OldestLocal(f, i).type
    BY <1>4, OldestMade
  <2>2. heap'[f].params = heap[f].params /\ Matches(f)
    BY <1>2, <1>4 DEF EntriesKept
  <2>3. m \in Nat /\ DOMAIN heap[f].params = 1 .. m /\ m <= l
    <3>1. heap[f].params \in Seq(Types)
      BY EntryOf DEF Entry
    <3> QED
      BY <2>2, <3>1 DEF Matches
  <2> HIDE DEF l, m
  <2>4. l + 1 \notin 1 .. m /\ \A i \in 1 .. l + 1 : i \in 1 .. l \/ i = l + 1
    BY <2>1, <2>3
  <2>5. Len(heap'[f].params) <= Len(heap'[f].locals)
    <3>1. Len(heap'[f].params) = m
      BY <2>2 DEF m
    <3> QED
      BY <2>1, <2>3, <3>1
  <2>6. ASSUME NEW i \in DOMAIN heap'[f].locals
        PROVE  /\ OldestLocal(f, i)'.isParameter <=> i \in DOMAIN heap'[f].params
               /\ i \in DOMAIN heap'[f].params => OldestLocal(f, i)'.type = heap'[f].params[i]
    <3>1. CASE i = l + 1
      BY <1>4, <2>1, <2>2, <2>3, <2>4, <3>1
    <3>2. CASE i \in 1 .. l
      BY <2>1, <2>2, <3>2 DEF Matches
    <3> QED
      BY <2>1, <2>4, <2>6, <3>1, <3>2
  <2> QED
    BY <2>5, <2>6 DEF Matches
<1> QED
  BY <1>1, <1>3, <1>4

(* The next parameter takes the place it has in the signature.              *)
LEMMA ParameterStep ==
  ASSUME TypeOK, Live, Parameter, pc' = "params", Entering(fn)
  PROVE  Entering(fn)'
<1> DEFINE p == Head(pending)
           l == Len(heap[fn].locals)
           m == Len(heap[fn].params)
<1>1. /\ pc = "params" /\ pending # <<>> /\ More /\ fn' = fn
      /\ Accepted(p.name, p.type)
      /\ heap' = Declared(p.name, p.type, TRUE) /\ table' = Inserted(p.name)
      /\ stack' = <<p.name>> \o stack /\ pending' = Tail(pending)
  BY DEF Parameter
<1>2. /\ p = pending[1] /\ p \in [name : Names, type : Types]
      /\ 1 \in DOMAIN pending /\ Len(pending) \in Nat /\ Len(pending') = Len(pending) - 1
      /\ DOMAIN pending = 1 .. Len(pending)
      /\ \A i \in DOMAIN pending' : i + 1 \in DOMAIN pending /\ pending'[i] = pending[i + 1]
  <2> DEFINE R == [name : Names, type : Types]
  <2>1. pending \in Seq(R)
    BY DEF TypeOK
  <2> HIDE DEF R
  <2>2. /\ p = pending[1] /\ p \in R /\ 1 \in DOMAIN pending
        /\ Len(Tail(pending)) = Len(pending) - 1
        /\ \A i \in DOMAIN Tail(pending) :
             i + 1 \in DOMAIN pending /\ Tail(pending)[i] = pending[i + 1]
    BY <1>1, <2>1, Popped
  <2>3. Len(pending) \in Nat /\ DOMAIN pending = 1 .. Len(pending)
    BY <2>1, Members
  <2> QED
    BY <1>1, <2>2, <2>3 DEF R
<1>3. fn # None /\ fn \in DOMAIN heap
  BY <1>1 DEF Live
<1> HIDE DEF p
<1>4. p.name \in Names /\ p.type \in Types
  BY <1>2
<1>5. Makes(p.name)
  BY <1>1, <1>4, DeclaredMakes
<1>6. heap'[Fresh].isParameter /\ heap'[Fresh].type = p.type
  <2>1. heap'[Fresh] = NewVariable(p.name, p.type, TRUE)
    BY <1>1, <1>4, DeclaredEntries
  <2> QED
    BY <2>1 DEF NewVariable, NewEntry
<1>7. /\ Len(heap'[fn].locals) = l + 1 /\ l \in Nat /\ DOMAIN heap[fn].locals = 1 .. l
      /\ DOMAIN heap'[fn].locals = 1 .. l + 1
      /\ \A i : i = l + 1 => OldestLocal(fn, i)' = heap'[Fresh]
      /\ \A i \in DOMAIN heap[fn].locals :
           /\ OldestLocal(fn, i)'.isParameter = OldestLocal(fn, i).isParameter
           /\ OldestLocal(fn, i)'.type = OldestLocal(fn, i).type
  <2>1. ASSUME NEW f \in DOMAIN heap, f = fn
        PROVE  /\ Len(heap'[f].locals) = Len(heap[f].locals) + 1 /\ Len(heap[f].locals) \in Nat
               /\ DOMAIN heap[f].locals = 1 .. Len(heap[f].locals)
               /\ DOMAIN heap'[f].locals = 1 .. Len(heap[f].locals) + 1
               /\ \A i : i = Len(heap[f].locals) + 1 => OldestLocal(f, i)' = heap'[Fresh]
               /\ \A i \in DOMAIN heap[f].locals :
                    /\ OldestLocal(f, i)'.isParameter = OldestLocal(f, i).isParameter
                    /\ OldestLocal(f, i)'.type = OldestLocal(f, i).type
    BY <1>4, <1>5, <2>1, OldestMade
  <2> QED
    BY <1>1, <1>3, <2>1
<1>8. heap'[fn].params = heap[fn].params /\ ~heap'[fn].hasBody
  <2>1. ~StartBody
    BY DEF Parameter, StartBody
  <2> QED
    BY <1>3, <1>5, <2>1 DEF Makes, EntriesKept, Entering
<1>9. /\ l + Len(pending) = m
      /\ \A i \in DOMAIN heap[fn].locals :
           OldestLocal(fn, i).isParameter /\ OldestLocal(fn, i).type = heap[fn].params[i]
      /\ \A i \in DOMAIN pending : pending[i].type = heap[fn].params[l + i]
  BY DEF Entering
<1>10. p.type = heap[fn].params[l + 1]
  BY <1>2, <1>9
<1>m. m \in Nat
  <2>1. heap[fn].params \in Seq(Types)
    BY <1>3, EntryOf DEF Entry
  <2> QED
    BY <2>1
<1> HIDE DEF l, m
<1>11. Len(heap'[fn].locals) + Len(pending') = Len(heap'[fn].params)
  <2>1. Len(heap'[fn].params) = m
    BY <1>8 DEF m
  <2>2. \A k \in Nat : (l + 1) + (k - 1) = l + k
    BY <1>7
  <2> QED
    BY <1>2, <1>7, <1>9, <2>1, <2>2
<1>12. \A i \in DOMAIN heap'[fn].locals :
         OldestLocal(fn, i)'.isParameter /\ OldestLocal(fn, i)'.type = heap'[fn].params[i]
  <2>1. SUFFICES ASSUME NEW i \in 1 .. l + 1
                 PROVE  OldestLocal(fn, i)'.isParameter /\ OldestLocal(fn, i)'.type = heap[fn].params[i]
    BY <1>7, <1>8
  <2>2. CASE i = l + 1
    BY <1>6, <1>7, <1>10, <2>2
  <2>3. CASE i # l + 1
    <3>1. i \in 1 .. l
      BY <1>7, <2>3
    <3> QED
      BY <1>7, <1>9, <3>1
  <2> QED
    BY <2>2, <2>3
<1>13. \A i \in DOMAIN pending' :
         pending'[i].type = heap'[fn].params[Len(heap'[fn].locals) + i]
  <2>1. SUFFICES ASSUME NEW i \in DOMAIN pending'
                 PROVE  pending'[i].type = heap[fn].params[(l + 1) + i]
    BY <1>7, <1>8
  <2>2. i + 1 \in DOMAIN pending /\ pending'[i] = pending[i + 1] /\ i \in Nat
    BY <1>1, <1>2
  <2>3. l + (i + 1) = (l + 1) + i
    BY <1>7, <2>2
  <2>4. pending[i + 1].type = heap[fn].params[l + (i + 1)]
    BY <1>9, <2>2
  <2> QED
    BY <2>2, <2>3, <2>4
<1> QED
  BY <1>1, <1>8, <1>11, <1>12, <1>13 DEF Entering

LEMMA FrameStep == TableInv /\ LocalsInv /\ FrameInv /\ [Next]_vars => FrameInv'
<1> SUFFICES ASSUME TypeOK, Live, BodyMarked, FrameInv, [Next]_vars, errors' = 0, ~todo'
             PROVE  /\ \A f \in DOMAIN heap' : heap'[f].hasBody => Matches(f)'
                    /\ pc' = "params" => Entering(fn)'
  BY DEF TableInv, LocalsInv, FrameInv
<1>0. \/ \E n \in Names, type \in UsedTypes, ps \in Params, hasBody \in BOOLEAN :
            FunctionHead(n, type, ps, hasBody)
      \/ UNCHANGED todo
  BY DEF Next, Declaration, Assignment, Parameter, StartBody, VarReference, Call, Return,
         EndFunction, Finish, Stopped, walkVars, vars
<1>1. errors = 0 /\ ~todo
  <2>1. ASSUME NEW n \in Names, NEW type \in UsedTypes, NEW ps \in Params, NEW hasBody \in BOOLEAN,
               FunctionHead(n, type, ps, hasBody)
        PROVE  ~todo
    BY <2>1, Zenon DEF FunctionHead
  <2> QED
    BY <1>0, <2>1, ErrorsStay
<1>2. /\ \A f \in DOMAIN heap : heap[f].hasBody => Matches(f)
      /\ pc = "params" => Entering(fn)
  BY <1>1 DEF FrameInv
<1>3. ASSUME ~StartBody, Keeps \/ Removes PROVE \A f \in DOMAIN heap' : heap'[f].hasBody => Matches(f)'
  <2>1. DOMAIN heap' = DOMAIN heap
    BY <1>3 DEF Keeps, Removes
  <2> QED
    BY <1>2, <1>3, <2>1, MatchesStep
<1>4. ASSUME NEW n \in Names, Makes(n), ~StartBody,
             fn # None => (~heap'[Fresh].isParameter \/ ~heap'[fn].hasBody)
      PROVE  \A f \in DOMAIN heap' : heap'[f].hasBody => Matches(f)'
  <2>1. SUFFICES ASSUME NEW f \in DOMAIN heap', heap'[f].hasBody PROVE Matches(f)'
    OBVIOUS
  <2>2. f \in DOMAIN heap
    BY <1>4, <2>1 DEF Makes
  <2>3. f # None
    BY <2>2 DEF TypeOK, None
  <2> QED
    BY <1>2, <1>4, <2>1, <2>2, <2>3, MatchesStep
<1>5. CASE Begins
  <2>1. PICK n \in Names, type \in UsedTypes, ps \in Params : FunctionHead(n, type, ps, TRUE)
    BY <1>5 DEF Begins
  <2> DEFINE params == [i \in DOMAIN ps |-> ps[i].type]
  <2>2. /\ fn = None /\ fn' = Fresh /\ pc = "units" /\ pending' = ps
        /\ DOMAIN heap' = DOMAIN heap \cup {Fresh} /\ Fresh \notin DOMAIN heap
        /\ \A e \in DOMAIN heap : heap'[e] = heap[e]
        /\ heap'[Fresh] = NewEntry(n, "function", type, 0, params)
        /\ params \in Seq(Types)
    BY <2>1, HeadStep
  <2>3. /\ ~heap'[Fresh].hasBody /\ heap'[Fresh].locals = <<>> /\ heap'[Fresh].params = params
    BY <2>2 DEF NewEntry
  <2>4. EntriesKept
    BY <2>2 DEF EntriesKept
  <2>5. ASSUME NEW f \in DOMAIN heap', heap'[f].hasBody PROVE Matches(f)'
    <3>1. f \in DOMAIN heap /\ heap'[f] = heap[f]
      BY <2>2, <2>3, <2>5
    <3> QED
      BY <1>2, <2>4, <2>5, <3>1, MatchKept
  <2>6. Entering(fn)'
    <3>1. ps \in Seq([name : Names, type : Types])
      BY ParamsAssumption
    <3>2. Len(ps) \in Nat /\ DOMAIN ps = 1 .. Len(ps)
      BY <3>1, Members
    <3>3. Len(params) = Len(ps) /\ \A i \in DOMAIN ps : params[i] = ps[i].type
      BY <2>2, <3>2
    <3> HIDE DEF params
    <3>4. heap'[fn'].params = params /\ Len(heap'[fn'].locals) = 0 /\ DOMAIN heap'[fn'].locals = {}
          /\ ~heap'[fn'].hasBody /\ pending' = ps
      BY <2>2, <2>3, NoMembers
    <3>5. 0 + Len(ps) = Len(ps) /\ \A i \in DOMAIN ps : 0 + i = i
      BY <3>2
    <3> QED
      BY <3>3, <3>4, <3>5 DEF Entering
  <2> QED
    BY <2>5, <2>6
<1>6. ASSUME NEW n \in Names, NEW type \in UsedTypes, NEW ps \in Params, NEW hasBody \in BOOLEAN,
             FunctionHead(n, type, ps, hasBody), ~Begins
      PROVE  /\ \A f \in DOMAIN heap' : heap'[f].hasBody => Matches(f)'
             /\ pc' # "params"
  <2>1. ~hasBody
    BY <1>6, Zenon DEF Begins
  <2>2. pc = "units" /\ pc' = pc /\ fn = None /\ ~EndFunction /\ ~StartBody
    BY <1>6, <2>1 DEF FunctionHead, Live, EndFunction, StartBody
  <2> QED
    BY <1>3, <1>4, <2>2, Shapes
<1>7. ASSUME NEW n \in Names, NEW type \in UsedTypes, Declaration(n, type)
      PROVE  /\ \A f \in DOMAIN heap' : heap'[f].hasBody => Matches(f)'
             /\ pc' # "params"
  <2>1. /\ pc \in {"units", "body"} /\ pc' = pc /\ More /\ type \in Types
        /\ ~StartBody
    BY <1>7, UsedTypesAssumption DEF Declaration, walkVars, StartBody
  <2>2. CASE ~Accepted(n, type)
    <3>1. Keeps
      BY <1>7, <2>2 DEF Declaration, Keeps, EntriesKept
    <3> QED
      BY <1>3, <2>1, <3>1
  <2>3. CASE Accepted(n, type)
    <3>1. heap' = Declared(n, type, FALSE) /\ Makes(n)
      BY <1>7, <2>1, <2>3, DeclaredMakes DEF Declaration
    <3>2. heap'[Fresh] = NewVariable(n, type, FALSE)
      BY <2>1, <3>1, DeclaredEntries
    <3>3. ~heap'[Fresh].isParameter
      BY <3>2 DEF NewVariable, NewEntry
    <3> QED
      BY <1>4, <2>1, <3>1, <3>3
  <2> QED
    BY <2>2, <2>3
<1>8. CASE Parameter
  <2>1. fn' = fn /\ fn \in DOMAIN heap /\ Entering(fn) /\ ~StartBody /\ ~EndFunction
    BY <1>2, <1>8 DEF Parameter, Live, StartBody, EndFunction
  <2>2. ~heap[fn].hasBody
    BY <2>1 DEF Entering
  <2>3. EntriesKept => ~heap'[fn].hasBody
    BY <2>1, <2>2 DEF EntriesKept
  <2>4. \A f \in DOMAIN heap' : heap'[f].hasBody => Matches(f)'
    <3>1. CASE Keeps
      BY <1>3, <2>1, <3>1
    <3>2. ASSUME NEW n \in Names, Makes(n)
          PROVE  \A f \in DOMAIN heap' : heap'[f].hasBody => Matches(f)'
      <4>1. ~heap'[fn].hasBody
        BY <2>3, <3>2 DEF Makes
      <4> QED
        BY <1>4, <2>1, <3>2, <4>1
    <3> QED
      BY <2>1, <3>1, <3>2, Shapes
  <2> QED
    BY <1>8, <2>1, <2>4, ParameterStep
<1>9. CASE StartBody
  <2>1. /\ fn \in DOMAIN heap /\ Entering(fn) /\ pending = <<>> /\ pc' = "body"
    BY <1>2, <1>9 DEF StartBody, Live
  <2>2. Keeps
    <3>1. ~EndFunction /\ stack' = stack /\ table' = table
      BY <1>9 DEF StartBody, EndFunction
    <3>2. \A n \in Names : ~Makes(n)
      <4>1. Len(heap') = Len(heap) /\ DOMAIN heap' = DOMAIN heap
        BY <1>9 DEF StartBody, TypeOK
      <4> QED
        BY <4>1 DEF Makes
    <3> QED
      BY <3>1, <3>2, Shapes
  <2>3. ASSUME NEW f \in DOMAIN heap', heap'[f].hasBody PROVE Matches(f)'
    <3>1. f \in DOMAIN heap /\ EntriesKept /\ heap'[f].locals = heap[f].locals
      BY <2>2, <2>3 DEF Keeps
    <3>2. CASE f # fn
      BY <1>2, <2>3, <3>1, <3>2, MatchKept DEF EntriesKept
    <3>3. CASE f = fn
      <4>1. /\ Len(heap[fn].locals) + 0 = Len(heap[fn].params)
            /\ \A i \in DOMAIN heap[fn].locals :
                 OldestLocal(fn, i).isParameter /\ OldestLocal(fn, i).type = heap[fn].params[i]
        BY <2>1 DEF Entering
      <4>2. /\ Len(heap[fn].locals) = Len(heap[fn].params) /\ Len(heap[fn].locals) \in Nat
            /\ DOMAIN heap[fn].locals = DOMAIN heap[fn].params
        <5>1. heap[fn].locals \in Seq(Ids) /\ heap[fn].params \in Seq(Types)
          BY <2>1, EntryOf DEF Entry
        <5> QED
          BY <4>1, <5>1
      <4>3. Matches(fn)
        BY <4>1, <4>2 DEF Matches
      <4> QED
        BY <3>1, <3>3, <4>3, MatchKept
    <3> QED
      BY <3>2, <3>3
  <2> QED
    BY <2>1, <2>3
<1>10. CASE EndFunction
  <2>1. Removes /\ ~StartBody /\ pc' # "params"
    BY <1>10 DEF EndFunction, Removes, StartBody
  <2> QED
    BY <1>3, <2>1
<1>11. CASE \/ \E n \in Names, type \in UsedTypes : Assignment(n, type)
            \/ \E n \in Names : VarReference(n)
            \/ \E n \in Names, args \in ArgTypes : Call(n, args)
            \/ \E value \in UsedTypes \cup {"none"} : Return(value)
            \/ Finish
  <2>1. pc' # "params" /\ ~StartBody /\ ~EndFunction /\ pc \in {"units", "body"} /\ table' = table
        /\ stack' = stack
    BY <1>11 DEF Assignment, VarReference, Call, Return, Finish, StartBody, EndFunction, walkVars
  <2>2. \A n \in Names : ~Makes(n)
    <3>1. DOMAIN heap' = DOMAIN heap
      BY <1>11 DEF Assignment, VarReference, Call, Return, Finish, TypeOK
    <3> QED
      BY <3>1 DEF Makes
  <2> QED
    BY <1>3, <2>1, <2>2, Shapes
<1>12. CASE Stopped \/ UNCHANGED vars
  <2>1. UNCHANGED <<heap, pc, fn, pending>>
    BY <1>12 DEF Stopped, vars
  <2>2. EntriesKept
    BY <2>1 DEF EntriesKept
  <2>3. \A f \in DOMAIN heap : heap[f].hasBody => Matches(f)'
    BY <1>2, <2>1, <2>2, MatchKept
  <2>4. Entering(fn) => Entering(fn)'
    BY <2>1 DEF Entering, OldestLocal
  <2> QED
    BY <1>2, <2>1, <2>3, <2>4
<1> QED
  BY <1>5, <1>6, <1>7, <1>8, <1>9, <1>10, <1>11, <1>12 DEF Next

LEMMA FrameInvariant == Spec => []FrameInv
<1>1. Init => FrameInv
  BY DEF Init, FrameInv
<1> QED
  BY <1>1, FrameStep, TableInvariant, LocalsInvariant, PTL DEF Spec

(* In a program without errors, and without the unchecked case the analysis *)
(* announces, the parameters of a function that has its body are the oldest *)
(* of its locals and have the types callers are checked against.            *)
THEOREM FramesMatchSignatures == Spec => []FrameMatchesSignature
<1>1. FrameInv => FrameMatchesSignature
  BY DEF FrameInv, FrameMatchesSignature, Matches
<1> QED
  BY <1>1, FrameInvariant, PTL

-----------------------------------------------------------------------------
(* Lexical scoping. What AtLevel finds on one chain over one heap.          *)
Find(chain, h, level) ==
  LET hits == {i \in DOMAIN chain : h[chain[i]].scope_level = level}
  IN IF hits = {} THEN None ELSE chain[CHOOSE i \in hits : TRUE]

LEMMA AtLevelFinds ==
  ASSUME NEW n \in Names, NEW level
  PROVE  /\ AtLevel(n, level) = Find(table[n], heap, level)
         /\ AtLevel(n, level)' = Find(table'[n], heap', level)
BY DEF AtLevel, Find

LEMMA FindOne ==
  ASSUME NEW chain, NEW h, NEW level, NEW i \in DOMAIN chain, h[chain[i]].scope_level = level,
         \A j \in DOMAIN chain : j # i => h[chain[j]].scope_level # level
  PROVE  Find(chain, h, level) = chain[i]
<1> DEFINE hits == {j \in DOMAIN chain : h[chain[j]].scope_level = level}
<1>1. hits = {i}
  OBVIOUS
<1>2. hits # {} /\ (CHOOSE j \in hits : TRUE) = i
  BY <1>1
<1>3. Find(chain, h, level) = IF hits = {} THEN None ELSE chain[CHOOSE j \in hits : TRUE]
  BY DEF Find
<1> QED
  BY <1>2, <1>3

LEMMA FindNone ==
  ASSUME NEW chain, NEW h, NEW level,
         \A j \in DOMAIN chain : h[chain[j]].scope_level # level
  PROVE  Find(chain, h, level) = None
BY DEF Find

(* An entry in front of a chain of at most one.                             *)
LEMMA FindInFront ==
  ASSUME NEW S, NEW rest \in Seq(S), Len(rest) <= 1, NEW chain, NEW h, NEW g, NEW level,
         DOMAIN chain = 1 .. Len(rest) + 1,
         \A i \in DOMAIN rest : /\ chain[i + 1] = rest[i]
                               /\ h[rest[i]].scope_level = g[rest[i]].scope_level
  PROVE  /\ h[chain[1]].scope_level # level => Find(chain, h, level) = Find(rest, g, level)
         /\ h[chain[1]].scope_level = level /\ Find(rest, g, level) = None /\ None \notin S
              => Find(chain, h, level) = chain[1]
<1>1. Len(rest) \in Nat /\ DOMAIN rest = 1 .. Len(rest)
  OBVIOUS
<1>2. CASE Len(rest) = 0
  <2>1. DOMAIN chain = {1} /\ DOMAIN rest = {}
    BY <1>1, <1>2
  <2>2. Find(rest, g, level) = None
    BY <2>1, FindNone
  <2>3. h[chain[1]].scope_level # level => Find(chain, h, level) = None
    BY <2>1, FindNone
  <2>4. h[chain[1]].scope_level = level => Find(chain, h, level) = chain[1]
    BY <2>1, FindOne
  <2> QED
    BY <2>2, <2>3, <2>4
<1>3. CASE Len(rest) = 1
  <2>1. /\ DOMAIN chain = {1, 2} /\ DOMAIN rest = {1} /\ chain[2] = rest[1]
        /\ h[rest[1]].scope_level = g[rest[1]].scope_level /\ rest[1] \in S
    BY <1>1, <1>3, SMTT(30)
  <2>2. CASE g[rest[1]].scope_level = level
    <3>1. Find(rest, g, level) = rest[1]
      BY <2>1, <2>2, FindOne
    <3>2. h[chain[1]].scope_level # level => Find(chain, h, level) = chain[2]
      BY <2>1, <2>2, FindOne
    <3> QED
      BY <2>1, <3>1, <3>2
  <2>3. CASE g[rest[1]].scope_level # level
    <3>1. Find(rest, g, level) = None
      BY <2>1, <2>3, FindNone
    <3>2. h[chain[1]].scope_level # level => Find(chain, h, level) = None
      BY <2>1, <2>3, FindNone
    <3>3. h[chain[1]].scope_level = level => Find(chain, h, level) = chain[1]
      BY <2>1, <2>3, FindOne
    <3> QED
      BY <3>1, <3>2, <3>3
  <2> QED
    BY <2>2, <2>3
<1> QED
  <2>1. \A k \in Nat : k <= 1 => k = 0 \/ k = 1
    OBVIOUS
  <2> QED
    BY <1>1, <1>2, <1>3, <2>1

(* The chain of one name, as ChainsNest gives it.                           *)
LEMMA Chain ==
  ASSUME TypeOK, Live, ChainsNest, NEW n \in Names
  PROVE  /\ table[n] \in Seq(Ids) /\ Len(table[n]) \in Nat /\ DOMAIN table[n] = 1 .. Len(table[n])
         /\ Len(table[n]) \in {0, 1, 2} /\ (Len(table[n]) = 0 <=> table[n] = <<>>)
         /\ Len(table[n]) = 2 => /\ heap[table[n][1]].scope_level = 1
                                /\ heap[table[n][2]].scope_level = 0
         /\ table[n] # <<>> => /\ Visible(n) = table[n][1] /\ Visible(n) # None
                              /\ 1 \in DOMAIN table[n]
                              /\ heap[Visible(n)].scope_level \in {0, 1}
         /\ table[n] = <<>> => Visible(n) = None
<1>1. table[n] \in Seq(Ids) /\ Len(table[n]) \in Nat /\ DOMAIN table[n] = 1 .. Len(table[n])
  BY DEF TypeOK
<1>2. Len(table[n]) \in {0, 1, 2} /\ (Len(table[n]) = 0 <=> table[n] = <<>>)
  <2>1. Len(table[n]) <= 2
    BY DEF ChainsNest
  <2>2. \A k \in Nat : k <= 2 => k \in {0, 1, 2}
    OBVIOUS
  <2>3. Len(table[n]) \in {0, 1, 2}
    BY <1>1, <2>1, <2>2
  <2>4. Len(table[n]) = 0 <=> table[n] = <<>>
    BY <1>1
  <2> QED
    BY <2>3, <2>4
<1>3. ASSUME Len(table[n]) = 2
      PROVE  heap[table[n][1]].scope_level = 1 /\ heap[table[n][2]].scope_level = 0
  <2>1. 2 \in DOMAIN table[n] /\ Head(table[n]) = table[n][1]
    BY <1>1, <1>3
  <2> QED
    BY <1>3, <2>1 DEF ChainsNest
<1>4. ASSUME table[n] # <<>>
      PROVE  /\ Visible(n) = table[n][1] /\ Visible(n) # None /\ 1 \in DOMAIN table[n]
             /\ heap[Visible(n)].scope_level \in {0, 1}
  <2>1. Visible(n) # None
    BY <1>4, NothingVisible, <1>1, Popped, BoundsAssumption DEF Visible, Ids, None
  <2>2. heap[Visible(n)] \in Entry
    BY <2>1, VisibleEntry, EntryOf
  <2> QED
    BY <2>1, <2>2, VisibleEntry DEF Entry
<1>5. table[n] = <<>> => Visible(n) = None
  BY DEF Visible
<1> QED
  BY <1>1, <1>2, <1>3, <1>4, <1>5

(* A use of a name gets what the abstract scope means by it.                *)
LEMMA VisibleMeaning ==
  ASSUME TypeOK, Live, ChainsNest, NEW n \in Names
  PROVE  /\ Visible(n) = IF AtLevel(n, 1) # None THEN AtLevel(n, 1) ELSE AtLevel(n, 0)
         /\ ~LocalLevel(n) => AtLevel(n, 1) = None /\ AtLevel(n, 0) = Visible(n)
<1>1. CASE Len(table[n]) = 0
  <2>1. DOMAIN table[n] = {} /\ Visible(n) = None
    BY <1>1, Chain
  <2> QED
    BY <2>1, AtLevelFinds, FindNone
<1>2. CASE Len(table[n]) = 1
  <2>1. /\ DOMAIN table[n] = {1} /\ Visible(n) = table[n][1] /\ Visible(n) # None
        /\ heap[table[n][1]].scope_level \in {0, 1}
    BY <1>2, Chain
  <2>2. CASE heap[table[n][1]].scope_level = 0
    <3>1. Find(table[n], heap, 0) = table[n][1] /\ Find(table[n], heap, 1) = None
      BY <2>1, <2>2, FindOne, FindNone
    <3> QED
      BY <2>1, <3>1, AtLevelFinds
  <2>3. CASE heap[table[n][1]].scope_level = 1
    <3>1. Find(table[n], heap, 1) = table[n][1] /\ LocalLevel(n)
      BY <2>1, <2>3, FindOne DEF LocalLevel
    <3> QED
      BY <2>1, <3>1, AtLevelFinds
  <2> QED
    BY <2>1, <2>2, <2>3
<1>3. CASE Len(table[n]) = 2
  <2>1. /\ DOMAIN table[n] = {1, 2} /\ Visible(n) = table[n][1] /\ Visible(n) # None
        /\ heap[table[n][1]].scope_level = 1 /\ heap[table[n][2]].scope_level = 0
    BY <1>3, Chain
  <2>2. Find(table[n], heap, 1) = table[n][1] /\ LocalLevel(n)
    BY <2>1, FindOne DEF LocalLevel
  <2> QED
    BY <2>1, <2>2, AtLevelFinds
<1> QED
  BY <1>1, <1>2, <1>3, Chain

(* What the three shapes of a step do to the scopes.                        *)
LEMMA ScopeKept ==
  ASSUME TypeOK, Live, EntriesKept, NEW n \in Names, table'[n] = table[n], NEW level
  PROVE  AtLevel(n, level)' = AtLevel(n, level)
<1>1. \A i \in DOMAIN table[n] : heap'[table[n][i]].scope_level = heap[table[n][i]].scope_level
  BY DEF EntriesKept, Live
<1>2. Find(table[n], heap', level) = Find(table[n], heap, level)
  <2> DEFINE after == {i \in DOMAIN table[n] : heap'[table[n][i]].scope_level = level}
             before == {i \in DOMAIN table[n] : heap[table[n][i]].scope_level = level}
  <2>1. after = before
    BY <1>1
  <2>2. /\ Find(table[n], heap', level)
             = IF after = {} THEN None ELSE table[n][CHOOSE i \in after : TRUE]
        /\ Find(table[n], heap, level)
             = IF before = {} THEN None ELSE table[n][CHOOSE i \in before : TRUE]
    BY DEF Find
  <2> HIDE DEF after, before
  <2> QED
    BY <2>1, <2>2
<1> QED
  BY <1>2, AtLevelFinds

LEMMA ScopeMade ==
  ASSUME TypeOK, Live, ChainsNest, NEW n \in Names, Makes(n), NEW m \in Names,
         NEW level \in {0, 1}
  PROVE  /\ Fresh # None /\ Fresh \in Ids
         /\ m = n /\ level = Level => AtLevel(m, level) = None /\ AtLevel(m, level)' = Fresh
         /\ m # n \/ level # Level => AtLevel(m, level)' = AtLevel(m, level)
<1>0. Fresh # None /\ Fresh \in Ids /\ None \notin Ids /\ EntriesKept /\ table' = Inserted(n)
  BY BoundsAssumption DEF Makes, Ids, None
<1>1. CASE m # n
  <2>1. table'[m] = table[m]
    BY <1>0, <1>1, InsertedChains
  <2> QED
    BY <1>0, <1>1, <2>1, ScopeKept
<1>2. CASE m = n
  <2>1. /\ Level \in {0, 1}
        /\ \/ table[n] = <<>>
           \/ Len(table[n]) = 1 /\ heap[table[n][1]].scope_level = 0 /\ Level = 1
    <3>1. Level \in {0, 1}
      BY DEF Level
    <3>2. CASE Visible(n) = None
      BY <3>1, <3>2, NothingVisible
    <3>3. CASE Visible(n) # None
      <4>1. /\ table[n] # <<>> /\ Visible(n) = table[n][1] /\ Len(table[n]) \in {1, 2}
            /\ heap[Visible(n)].scope_level \in {0, 1}
            /\ Len(table[n]) = 2 => heap[Visible(n)].scope_level = 1
        BY <3>3, Chain DEF Visible
      <4>2. heap[Visible(n)].scope_level < Level
        BY <3>3 DEF Makes
      <4>3. heap[Visible(n)].scope_level = 0 /\ Level = 1
        BY <3>1, <4>1, <4>2
      <4> QED
        BY <3>1, <4>1, <4>3
    <3> QED
      BY <3>2, <3>3
  <2>2. /\ table[n] \in Seq(Ids) /\ Len(table[n]) \in Nat /\ DOMAIN table[n] = 1 .. Len(table[n])
        /\ Len(table[n]) <= 1
    <3>1. /\ table[n] \in Seq(Ids) /\ Len(table[n]) \in Nat /\ DOMAIN table[n] = 1 .. Len(table[n])
          /\ table[n] = <<>> => Len(table[n]) = 0
      BY Chain
    <3>2. Len(table[n]) = 0 \/ Len(table[n]) = 1
      BY <2>1, <3>1
    <3>3. \A k \in Nat : k = 0 \/ k = 1 => k <= 1
      OBVIOUS
    <3> QED
      BY <3>1, <3>2, <3>3
  <2>3. Find(table[n], heap, Level) = None
    <3>1. CASE table[n] = <<>>
      BY <3>1, NoMembers, FindNone
    <3>2. CASE Len(table[n]) = 1 /\ heap[table[n][1]].scope_level = 0 /\ Level = 1
      <4>1. DOMAIN table[n] = {1}
        BY <2>2, <3>2
      <4> QED
        BY <3>2, <4>1, FindNone
    <3> QED
      BY <2>1, <3>1, <3>2
  <2>4. /\ DOMAIN table'[n] = 1 .. Len(table[n]) + 1 /\ table'[n][1] = Fresh
        /\ \A i \in DOMAIN table[n] : table'[n][i + 1] = table[n][i]
    <3>1. DOMAIN table'[n] = 1 .. Len(table[n]) + 1 /\ table'[n][1] = Fresh
      BY <1>0, InsertedChains
    <3> DEFINE chain == <<Fresh>> \o table[n]
    <3>2. table'[n] = chain
      BY <1>0 DEF Inserted, TypeOK
    <3>3. \A i \in 1 .. Len(table[n]) : chain[i + 1] = table[n][i]
      BY <1>0, <2>2, Pushed
    <3> HIDE DEF chain
    <3> QED
      BY <2>2, <3>1, <3>2, <3>3
  <2>5. \A i \in DOMAIN table[n] : heap'[table[n][i]].scope_level = heap[table[n][i]].scope_level
    BY <1>0 DEF EntriesKept, Live
  <2>6. heap'[table'[n][1]].scope_level = Level
    BY <2>4 DEF Makes
  <2>7. /\ heap'[table'[n][1]].scope_level # level
             => Find(table'[n], heap', level) = Find(table[n], heap, level)
        /\ heap'[table'[n][1]].scope_level = level /\ Find(table[n], heap, level) = None
             => Find(table'[n], heap', level) = table'[n][1]
    BY <1>0, <2>2, <2>4, <2>5, FindInFront
  <2> QED
    BY <1>0, <1>2, <2>3, <2>4, <2>6, <2>7, AtLevelFinds
<1> QED
  BY <1>1, <1>2

LEMMA ScopeRemoved ==
  ASSUME TypeOK, Live, ChainsNest, StackExact, Removes, NEW m \in Names
  PROVE  AtLevel(m, 1)' = None /\ AtLevel(m, 0)' = AtLevel(m, 0)
<1>0. heap' = heap /\ table' = Removed(stack) /\ EntriesKept
  BY DEF Removes, EntriesKept
<1>1. CASE ~OnStack(m)
  <2>1. table'[m] = table[m] /\ ~LocalLevel(m)
    BY <1>0, <1>1, RemovedChains DEF StackExact
  <2> QED
    BY <1>0, <2>1, ScopeKept, VisibleMeaning
<1>2. CASE OnStack(m)
  <2>1. LocalLevel(m) /\ table'[m] = Tail(table[m]) /\ table[m] # <<>>
    BY <1>0, <1>2, RemovedChains DEF StackExact
  <2>2. /\ heap[table[m][1]].scope_level = 1 /\ table[m] \in Seq(Ids)
        /\ Len(table[m]) \in {1, 2} /\ DOMAIN table[m] = 1 .. Len(table[m])
        /\ Len(table[m]) = 2 => heap[table[m][2]].scope_level = 0
    BY <2>1, Chain DEF LocalLevel
  <2>3. /\ table'[m] \in Seq(Ids) /\ Len(table'[m]) = Len(table[m]) - 1
        /\ \A i \in DOMAIN table'[m] : table'[m][i] = table[m][i + 1]
    BY <2>1, <2>2, Popped
  <2>4. Len(table'[m]) <= 1 /\ DOMAIN table[m] = 1 .. Len(table'[m]) + 1
    BY <2>2, <2>3
  <2>5. Find(table[m], heap, 0) = Find(table'[m], heap, 0)
    <3>1. \A i \in DOMAIN table'[m] : /\ table[m][i + 1] = table'[m][i]
                                     /\ heap[table'[m][i]].scope_level = heap[table'[m][i]].scope_level
      BY <2>3
    <3>2. heap[table[m][1]].scope_level # 0
      BY <2>2
    <3> QED
      BY <2>3, <2>4, <3>1, <3>2, FindInFront
  <2>6. Find(table'[m], heap, 1) = None
    <3>1. \A i \in DOMAIN table'[m] : heap[table'[m][i]].scope_level # 1
      <4>1. CASE Len(table[m]) = 1
        <5>1. DOMAIN table'[m] = {}
          BY <2>3, <4>1
        <5> QED
          BY <5>1
      <4>2. CASE Len(table[m]) = 2
        <5>1. DOMAIN table'[m] = {1} /\ table'[m][1] = table[m][2]
          BY <2>3, <4>2
        <5> QED
          BY <2>2, <4>2, <5>1
      <4> QED
        BY <2>2, <4>1, <4>2
    <3> QED
      BY <3>1, FindNone
  <2> QED
    BY <1>0, <2>5, <2>6, AtLevelFinds
<1> QED
  BY <1>1, <1>2

(* A step of the walk is a step of the abstract scopes, or none.            *)
global == [n \in Names |-> AtLevel(n, 0)]
local == [n \in Names |-> AtLevel(n, 1)]

LEMMA UseStep ==
  ASSUME TypeOK, Live, ChainsNest, NEW n \in Names, UNCHANGED <<heap, table, fn>>,
         binding' \in {binding, Visible(n)}, Visible(n) = None => binding' = binding
  PROVE  [Scoping!Next]_(Scoping!vars)
<1>1. global' = global /\ local' = local
  BY ScopeKept DEF global, local, EntriesKept
<1>2. CASE binding' = binding
  BY <1>1, <1>2 DEF Scoping!vars, global, local
<1>3. CASE Visible(n) # None /\ binding' = Visible(n)
  <2>1. Scoping!Meaning(n) = Visible(n)
    BY VisibleMeaning DEF Scoping!Meaning
  <2>2. Scoping!Use(n)
    BY <1>1, <1>3, <2>1 DEF Scoping!Use, global, local
  <2> QED
    BY <2>2 DEF Scoping!Next
<1> QED
  BY <1>2, <1>3

LEMMA DeclareStep ==
  ASSUME TypeOK, Live, ChainsNest, Keeps \/ \E n \in Names : Makes(n),
         UNCHANGED <<fn, binding>>, pc = "units" <=> fn = None
  PROVE  [Scoping!Next]_(Scoping!vars)
<1>1. CASE Keeps
  <2>1. global' = global /\ local' = local
    BY <1>1, ScopeKept DEF global, local, Keeps
  <2> QED
    BY <2>1 DEF Scoping!vars, global, local
<1>2. ASSUME NEW n \in Names, Makes(n) PROVE [Scoping!Next]_(Scoping!vars)
  <2>0. Fresh \in Ids
    BY <1>2 DEF Makes
  <2>1. CASE pc = "units"
    <3>1. Level = 0 /\ fn = None
      BY <2>1 DEF Level
    <3>2. /\ AtLevel(n, 0) = None /\ AtLevel(n, 0)' = Fresh
          /\ \A m \in Names : m # n => AtLevel(m, 0)' = AtLevel(m, 0)
          /\ \A m \in Names : AtLevel(m, 1)' = AtLevel(m, 1)
      BY <1>2, <3>1, ScopeMade
    <3>3. global' = [global EXCEPT ![n] = Fresh] /\ local' = local /\ global[n] = None
      BY <3>2 DEF global, local
    <3>4. Scoping!DeclareGlobal(n, Fresh)
      BY <3>1, <3>3 DEF Scoping!DeclareGlobal, global, local
    <3> QED
      BY <2>0, <3>4 DEF Scoping!Next
  <2>2. CASE pc # "units"
    <3>1. Level = 1 /\ fn # None
      BY <2>2 DEF Level
    <3>2. /\ AtLevel(n, 1) = None /\ AtLevel(n, 1)' = Fresh
          /\ \A m \in Names : m # n => AtLevel(m, 1)' = AtLevel(m, 1)
          /\ \A m \in Names : AtLevel(m, 0)' = AtLevel(m, 0)
      BY <1>2, <3>1, ScopeMade
    <3>3. local' = [local EXCEPT ![n] = Fresh] /\ global' = global /\ local[n] = None
      BY <3>2 DEF global, local
    <3>4. Scoping!DeclareLocal(n, Fresh)
      BY <3>1, <3>3 DEF Scoping!DeclareLocal, global, local
    <3> QED
      BY <2>0, <3>4 DEF Scoping!Next
  <2> QED
    BY <2>1, <2>2
<1> QED
  BY <1>1, <1>2

LEMMA EnterStep ==
  ASSUME TypeOK, Live, ChainsNest, StackExact, Begins
  PROVE  Scoping!Next
<1>1. PICK n \in Names, type \in UsedTypes, ps \in Params : FunctionHead(n, type, ps, TRUE)
  BY DEF Begins
<1>2. binding' = binding /\ fn = None /\ pc = "units" /\ stack = <<>> /\ Level = 0
  BY <1>1 DEF FunctionHead, Live, Level
<1>3. CASE /\ fn' = Visible(n) /\ fn' \in DOMAIN heap /\ heap' = heap /\ table' = table
  <2>1. ~LocalLevel(n)
    BY <1>2, NoMembers DEF StackExact, OnStack
  <2>2. AtLevel(n, 0) = fn' /\ fn' \in Ids /\ fn' # None
    BY <1>3, <2>1, VisibleMeaning, EntryOf, BoundsAssumption DEF Ids, None
  <2>3. global' = [global EXCEPT ![n] = fn'] /\ local' = local /\ global[n] = fn'
    BY <1>3, <2>2, ScopeKept DEF global, local, EntriesKept
  <2>4. Scoping!Enter(n, fn')
    BY <1>2, <2>2, <2>3 DEF Scoping!Enter, global, local
  <2> QED
    BY <2>2, <2>4 DEF Scoping!Next
<1>4. CASE /\ Visible(n) = None /\ fn' = Fresh /\ Fresh \in Ids /\ Makes(n)
  <2>1. /\ AtLevel(n, 0) = None /\ AtLevel(n, 0)' = Fresh /\ Fresh # None
        /\ \A m \in Names : m # n => AtLevel(m, 0)' = AtLevel(m, 0)
        /\ \A m \in Names : AtLevel(m, 1)' = AtLevel(m, 1)
    BY <1>2, <1>4, ScopeMade
  <2>2. global' = [global EXCEPT ![n] = Fresh] /\ local' = local /\ global[n] = None
    BY <2>1 DEF global, local
  <2>3. Scoping!Enter(n, Fresh)
    BY <1>2, <1>4, <2>1, <2>2 DEF Scoping!Enter, global, local
  <2> QED
    BY <1>4, <2>3 DEF Scoping!Next
<1>5. \/ /\ fn' = Visible(n) /\ fn' \in DOMAIN heap /\ heap' = heap /\ table' = table
      \/ /\ Visible(n) = None /\ fn' = Fresh /\ Fresh \in Ids /\ Makes(n)
  <2> DEFINE params == [i \in DOMAIN ps |-> ps[i].type]
  <2>1. CASE /\ Visible(n) = None /\ fn' = Fresh /\ Fresh \notin DOMAIN heap
             /\ Fresh \in Ids /\ table' = Inserted(n)
             /\ DOMAIN heap' = DOMAIN heap \cup {Fresh}
             /\ \A e \in DOMAIN heap : heap'[e] = heap[e]
             /\ heap'[Fresh] = NewEntry(n, "function", type, 0, params)
    <3>1. /\ heap'[Fresh].name = n /\ heap'[Fresh].scope_level = 0
          /\ heap'[Fresh].locals = <<>> /\ ~heap'[Fresh].hasBody
      BY <2>1 DEF NewEntry
    <3>2. EntriesKept /\ \A e \in DOMAIN heap : e # fn /\ heap'[e].locals = heap[e].locals
      BY <1>2, <2>1 DEF EntriesKept, TypeOK, None
    <3>3. stack' = stack
      BY <1>1, <1>2 DEF FunctionHead
    <3> QED
      BY <1>2, <2>1, <3>1, <3>2, <3>3 DEF Makes
  <2> QED
    BY <1>1, <2>1, HeadStep
<1> QED
  BY <1>3, <1>4, <1>5

LEMMA ScopingStep == TableInv /\ [Next]_vars => [Scoping!Next]_(Scoping!vars)
<1> SUFFICES ASSUME TypeOK, Live, ChainsNest, StackExact, [Next]_vars
             PROVE  [Scoping!Next]_(Scoping!vars)
  BY DEF TableInv
<1>1. CASE Begins
  BY <1>1, EnterStep
<1>2. CASE EndFunction
  <2>1. Removes /\ fn # None /\ fn' = None /\ binding' = binding
    BY <1>2 DEF EndFunction, Removes, Live
  <2>2. local' = [n \in Names |-> None] /\ global' = global
    BY <2>1, ScopeRemoved DEF global, local
  <2>3. Scoping!Leave
    BY <2>1, <2>2 DEF Scoping!Leave, global, local
  <2> QED
    BY <2>3 DEF Scoping!Next
<1>3. ASSUME NEW n \in Names,
             \/ \E type \in UsedTypes : Assignment(n, type)
             \/ VarReference(n)
             \/ \E args \in ArgTypes : Call(n, args)
      PROVE  [Scoping!Next]_(Scoping!vars)
  <2>1. UNCHANGED <<heap, table, fn>>
    BY <1>3 DEF Assignment, VarReference, Call, walkVars
  <2>2. binding' \in {binding, Visible(n)} /\ (Visible(n) = None => binding' = binding)
    BY <1>3 DEF Assignment, VarReference, Call
  <2> QED
    BY <2>1, <2>2, UseStep
<1>4. ASSUME \/ \E n \in Names, type \in UsedTypes, ps \in Params, hasBody \in BOOLEAN :
                   FunctionHead(n, type, ps, hasBody) /\ ~Begins
             \/ \E n \in Names, type \in UsedTypes : Declaration(n, type)
             \/ Parameter \/ StartBody
             \/ \E value \in UsedTypes \cup {"none"} : Return(value)
      PROVE  [Scoping!Next]_(Scoping!vars)
  <2>1. pc \in {"units", "params", "body"} /\ ~EndFunction /\ UNCHANGED <<fn, binding>>
    <3>1. ASSUME NEW n \in Names, NEW type \in UsedTypes, NEW ps \in Params,
                 NEW hasBody \in BOOLEAN, FunctionHead(n, type, ps, hasBody), ~Begins
          PROVE  pc = "units" /\ UNCHANGED <<fn, binding>>
      <4>1. ~hasBody
        BY <3>1, Zenon DEF Begins
      <4> QED
        BY <3>1, <4>1 DEF FunctionHead
    <3>2. CASE \/ \E n \in Names, type \in UsedTypes : Declaration(n, type)
               \/ Parameter \/ StartBody
               \/ \E value \in UsedTypes \cup {"none"} : Return(value)
      <4>1. pc \in {"units", "params", "body"} /\ UNCHANGED <<fn, binding>>
        BY <3>2 DEF Declaration, Parameter, StartBody, Return, walkVars
      <4>2. fn' = fn /\ ~(pc = "body" /\ fn' = None)
        BY <4>1 DEF Live
      <4> QED
        BY <4>1, <4>2 DEF EndFunction
    <3> QED
      BY <1>4, <3>1, <3>2 DEF EndFunction
  <2>2. pc = "units" <=> fn = None
    BY <2>1 DEF Live
  <2> QED
    BY <2>1, <2>2, Shapes, DeclareStep
<1>5. CASE Finish \/ Stopped \/ UNCHANGED vars
  <2>1. UNCHANGED <<heap, table, fn, binding>>
    BY <1>5 DEF Finish, Stopped, vars
  <2>2. global' = global /\ local' = local
    BY <2>1, ScopeKept DEF global, local, EntriesKept
  <2> QED
    BY <2>1, <2>2 DEF Scoping!vars, global, local
<1> QED
  BY <1>1, <1>2, <1>3, <1>4, <1>5 DEF Next

(* A name in a function means its local declaration if it has one and the   *)
(* global one otherwise; leaving a function uncovers every global again:    *)
(* the chains, the levels and the delete stack implement the two scopes.    *)
THEOREM TableImplementsScoping == Spec => ImplementsScoping
<1>1. Init => Scoping!Init
  <2> SUFFICES ASSUME Init PROVE Scoping!Init
    OBVIOUS
  <2>1. \A n \in Names : AtLevel(n, 0) = None /\ AtLevel(n, 1) = None
    <3>1. \A n \in Names : DOMAIN table[n] = {}
      BY NoMembers DEF Init
    <3> QED
      BY <3>1, AtLevelFinds, FindNone
  <2> QED
    BY <2>1 DEF Init, Scoping!Init
<1> QED
  BY <1>1, ScopingStep, TableInvariant, PTL DEF Spec, ImplementsScoping, Scoping!Spec
=============================================================================

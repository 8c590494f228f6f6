---------------------------- MODULE Driver_proofs ---------------------------
(* Proofs about module Driver: what the output files hold when the process  *)
(* ends, for every set of command lines and of programs. And, from "The     *)
(* parser" on, about module Syntax, the parser the driver runs first: what  *)
(* its actions write through is a node, in every parse.                     *)
EXTENDS Driver, Syntax, SequenceTheorems, WellFoundedInduction, TLAPS

Opening == {"in", "bin", "asm"}
BeforeCode == Opening \cup {"options", "front end", "link", "registers", "translate"}

(* The files before and after translate.                                    *)
CodeAfterTranslation ==
  /\ pc \in BeforeCode =>
       (\A f \in Outputs : files[f] \notin Code) /\ "successful" \notin printed
  /\ pc = "finish" => (\A f \in Outputs : files[f] \in Code) /\ "successful" \notin printed
  /\ WrittenWithSuccess
(* Who has got past which pass.                                             *)
ErrorsStop ==
  /\ pc \in {"link", "registers", "translate", "finish"} =>
       source \notin {"syntax error", "semantic error"}
  /\ pc \in {"registers", "translate", "finish"} => source # "link error"
  /\ ErrorsGiveNoCode
(* Nothing is printed before the passes.                                    *)
Quiet == /\ pc \in Opening \cup {"options", "front end", "link", "registers"} => printed = {}
         /\ FilesClosed

Inv == TypeOK /\ CodeAfterTranslation /\ ErrorsStop /\ Quiet

(* A command line is a sequence, and what is a position in it.              *)
LEMMA Arguments == \A a \in CommandLines : a \in Seq(Options) /\ Len(a) \in Nat
                                           /\ DOMAIN a = 1 .. Len(a)
<1>1. \A a \in CommandLines : a \in Seq(Options)
  BY CommandLinesAssumption, Zenon
<1>2. QED BY <1>1, LenProperties

LEMMA Positions ==
  \A k \in Nat : \A i \in 1 .. k + 1 : i <= k => i \in 1 .. k /\ i + 1 \in 1 .. k + 1
  BY SMT

(* The inductive invariant.                                                 *)
LEMMA InitInv == Init => Inv
<1> SUFFICES ASSUME Init PROVE Inv
  OBVIOUS
<1>1. TypeOK
  <2>1. next \in 1 .. Len(argv) + 1
    <3>1. argv \in CommandLines /\ next = 1
      BY DEF Init
    <3>2. Len(argv) \in Nat
      BY <3>1, Arguments
    <3>3. QED BY <3>1, <3>2, SMT
  <2>2. QED BY <2>1 DEF Init, TypeOK, Files, Outputs
<1>2. CodeAfterTranslation /\ ErrorsStop /\ Quiet
  BY DEF Init, CodeAfterTranslation, ErrorsStop, Quiet, WrittenWithSuccess, ErrorsGiveNoCode,
         FilesClosed, Code, Outputs, BeforeCode, Opening
<1>3. QED BY <1>1, <1>2 DEF Inv

(* Types, by action.                                                        *)
LEMMA TypeStep == TypeOK /\ [Next]_vars => TypeOK'
<1> SUFFICES ASSUME TypeOK, [Next]_vars PROVE TypeOK'
  OBVIOUS
<1> USE DEF TypeOK, inputs, options, Exit, Continue, Files
<1>1. CASE OpenFile("in", "bin")
  BY <1>1 DEF OpenFile, Outputs
<1>2. CASE OpenFile("bin", "asm")
  BY <1>2 DEF OpenFile, Outputs
<1>3. CASE OpenFile("asm", "options")
  BY <1>3 DEF OpenFile, Outputs
<1>4. CASE Option
  <2>1. Len(argv) \in Nat
    BY Arguments, Zenon
  <2>2. next' \in 1 .. Len(argv) + 1
    <3>1. next \in 1 .. Len(argv) + 1 /\ next <= Len(argv) /\ next' = next + 1
      BY <1>4 DEF Option, NextOption
    <3>2. QED BY <2>1, <3>1, Positions
  <2>3. pc' \in {"options", "end"} /\ status' \in {"running", "0", "1", "crashed"}
        /\ (status' = "running" <=> pc' # "end")
    <3>1. pc = "options" /\ status = "running"
      BY <1>4 DEF Option
    <3>2. CASE argv[next] = "--lexical_only"
      BY <1>4, <3>1, <3>2 DEF Option, Recognised
    <3>3. CASE argv[next] = "--external missing"
      BY <1>4, <3>1, <3>3 DEF Option, Recognised
    <3>4. CASE argv[next] \in Recognised \ {"--lexical_only"}
      BY <1>4, <3>1, <3>4 DEF Option, Recognised
    <3>5. CASE argv[next] \notin Recognised \cup {"--external missing"}
      BY <1>4, <3>1, <3>5 DEF Option, Recognised
    <3>6. QED BY <3>2, <3>3, <3>4, <3>5 DEF Recognised
  <2>4. abi' \in BOOLEAN /\ keep' \in BOOLEAN
    BY <1>4 DEF Option
  <2>5. QED BY <1>4, <2>2, <2>3, <2>4 DEF Option
<1>5. CASE EndOptions
  BY <1>5 DEF EndOptions
<1>6. CASE FrontEnd
  BY <1>6 DEF FrontEnd, Fail, Pass, Crash
<1>7. CASE Link
  BY <1>7 DEF Link, Fail, Pass, Crash
<1>8. CASE AssignRegisters
  BY <1>8 DEF AssignRegisters
<1>9. CASE Translate
  BY <1>9 DEF Translate, Outputs, Written
<1>10. CASE Finish
  BY <1>10 DEF Finish
<1>11. CASE Ended \/ UNCHANGED vars
  BY <1>11 DEF Ended, vars
<1>12. QED
  BY <1>1, <1>2, <1>3, <1>4, <1>5, <1>6, <1>7, <1>8, <1>9, <1>10, <1>11 DEF Next

(* The rest of the invariant, by action.                                    *)
LEMMA InvStep == Inv /\ [Next]_vars => Inv'
<1> SUFFICES ASSUME Inv, [Next]_vars PROVE CodeAfterTranslation' /\ ErrorsStop' /\ Quiet'
  BY TypeStep DEF Inv
<1> USE DEF Inv, CodeAfterTranslation, ErrorsStop, Quiet, WrittenWithSuccess, ErrorsGiveNoCode,
            FilesClosed, Code, Outputs, BeforeCode, Opening, inputs, options, Exit, Continue
<1>0. status = "running" <=> pc # "end"
  BY DEF TypeOK
<1>1. CASE OpenFile("in", "bin")
  BY <1>0, <1>1 DEF OpenFile
<1>2. CASE OpenFile("bin", "asm")
  BY <1>0, <1>2 DEF OpenFile
<1>3. CASE OpenFile("asm", "options")
  BY <1>0, <1>3 DEF OpenFile
<1>4. CASE Option
  <2>1. pc = "options" /\ UNCHANGED <<inputs, open, files, printed>>
    BY <1>4 DEF Option
  <2>2. next \in DOMAIN argv
    <3>1. Len(argv) \in Nat /\ DOMAIN argv = 1 .. Len(argv)
      BY Arguments, Zenon DEF TypeOK
    <3>2. next \in 1 .. Len(argv) + 1 /\ next <= Len(argv)
      BY <1>4 DEF Option, TypeOK
    <3>3. QED BY <3>1, <3>2, Positions
  <2>3. CASE argv[next] = "--lexical_only"
    BY <1>0, <1>4, <2>1, <2>2, <2>3 DEF Option, Recognised
  <2>4. CASE argv[next] = "--external missing"
    BY <1>0, <1>4, <2>1, <2>4 DEF Option, Recognised
  <2>5. CASE argv[next] \in Recognised \ {"--lexical_only"}
    BY <1>0, <1>4, <2>1, <2>5 DEF Option, Recognised
  <2>6. CASE argv[next] \notin Recognised \cup {"--external missing"}
    BY <1>0, <1>4, <2>1, <2>6 DEF Option, Recognised
  <2>7. QED BY <2>3, <2>4, <2>5, <2>6 DEF Recognised
<1>5. CASE EndOptions
  BY <1>0, <1>5 DEF EndOptions
<1>6. CASE FrontEnd
  BY <1>0, <1>6 DEF FrontEnd, Fail, Pass, Crash, FrontErrors
<1>7. CASE Link
  BY <1>0, <1>7 DEF Link, Fail, Pass, Crash
<1>8. CASE AssignRegisters
  BY <1>0, <1>8 DEF AssignRegisters
<1>9. CASE Translate
  BY <1>0, <1>9 DEF Translate, Written
<1>10. CASE Finish
  BY <1>0, <1>10 DEF Finish
<1>11. CASE Ended \/ UNCHANGED vars
  BY <1>11 DEF Ended, vars
<1>12. QED
  BY <1>1, <1>2, <1>3, <1>4, <1>5, <1>6, <1>7, <1>8, <1>9, <1>10, <1>11 DEF Next

(* The files hold code exactly when success was reported, and are closed by *)
(* then, for every command line.                                            *)
THEOREM FilesAreConsistent == Spec => []FilesConsistent
<1>1. Inv => FilesConsistent
  BY DEF Inv, CodeAfterTranslation, Quiet, FilesConsistent
<1>2. QED BY <1>1, InitInv, InvStep, PTL DEF Spec

(* No code comes out of a source with an error.                             *)
THEOREM NoCodeFromErrors == Spec => []ErrorsGiveNoCode
<1>1. Inv => ErrorsGiveNoCode
  BY DEF Inv, ErrorsStop
<1>2. QED BY <1>1, InitInv, InvStep, PTL DEF Spec

-----------------------------------------------------------------------------
(* The parser. A level says of each value on the stack whether it can be    *)
(* Null: never, only after a syntax error, or always.                       *)
Never == 0
AfterErrors == 1
Maybe == 2
Nullness == {Never, AfterErrors, Maybe}
Level == Seq(Nullness)

(* What an item of the work takes off the stack, and what it leaves there.  *)
Takes(item) ==
  CASE item[1] = "goal" ->
         IF item[2] \in {"more terms", "more factors"} THEN <<Never>>
         ELSE IF item[2] \in {"more units", "more parameters", "more declarations",
                              "more statements", "more args"} THEN <<Maybe>>
         ELSE <<>>
    [] item[1] \in {"wrap", "extern array", "program"} -> <<Maybe>>
    [] item[1] = "recover" -> <<AfterErrors>>
    [] item[1] = "pair" -> <<Never, Maybe>>
    [] item[1] \in {"append", "compound", "definition"} -> <<Maybe, Maybe>>
    [] item[1] \in {"infix", "macc"} -> <<Never, Never, Never>>
    [] item[1] = "if else" -> <<Never, AfterErrors, Maybe>>
    [] OTHER -> <<>>
Gives(item) ==
  CASE item[1] \in {"token", "program"} -> <<>>
    [] item[1] \in {"nothing", "append"} -> <<Maybe>>
    [] item[1] = "recover" -> <<AfterErrors>>
    [] item[1] = "goal" ->
         IF item[2] \in {"units", "more units"} THEN <<>>
         ELSE IF item[2] \in Recovering THEN <<AfterErrors>>
         ELSE IF item[2] \in {"more parameters", "more declarations", "more statements",
                              "more args", "parameters", "args"} THEN <<Maybe>>
         ELSE <<Never>>
    [] OTHER -> <<Never>>

(* An item leads from level a to level b.                                   *)
Below(a, b, n) == \A k \in 1 .. n : a[k] <= b[k]
Leads(a, item, b) ==
  \E n \in Nat :
    /\ Len(a) = n + Len(Takes(item)) /\ Len(b) = n + Len(Gives(item))
    /\ Below(a, b, n)
    /\ \A k \in 1 .. Len(Takes(item)) : a[n + k] <= Takes(item)[k]
    /\ \A k \in 1 .. Len(Gives(item)) : Gives(item)[k] <= b[n + k]

(* The values on the stack are as a level says after so many errors.        *)
CanBeNull(nullness, errors) ==
  nullness # Never /\ (nullness = AfterErrors => errors > 0)
Holds(vals, errors, level) ==
  /\ Len(level) = Len(vals)
  /\ \A k \in 1 .. Len(vals) : vals[k] = Null => CanBeNull(level[k], errors)

(* The items still to be done lead through levels, from that of the stack;  *)
(* nothing before a "recover" goes below its height.                        *)
Final(item) == item \in {G("units"), G("more units"), Do("program")}
TopItems == {G("units"), G("more units"), G("unit"), Do("append"), Do("program")}
Guarded(items, levels, i) ==
  /\ items[i][2] \in Nat /\ Len(levels[i]) = items[i][2] + 1
  /\ \A j \in 1 .. i - 1 : /\ Len(levels[j]) >= items[i][2] + Len(Takes(items[j]))
                           /\ Below(levels[j], levels[i], items[i][2])
Typed(items, vals, errors, levels) ==
  /\ levels \in Seq(Level) /\ Len(levels) = Len(items) + 1
  /\ Holds(vals, errors, levels[1])
  /\ \A i \in 1 .. Len(items) : Leads(levels[i], items[i], levels[i + 1])
  /\ \A i \in 1 .. Len(items) : items[i][1] = "recover" => Guarded(items, levels, i)
Ordered(items) ==
  /\ items # <<>>
  /\ \A i \in 1 .. Len(items) : Final(items[i]) <=> i = Len(items)
  /\ \A i \in 1 .. Len(items) :
       items[i] \in TopItems \/ \E j \in i .. Len(items) : items[j][1] = "recover"

Symbols == {"units", "more units", "unit", "parameters", "more parameters", "parameter",
            "declaration", "compound_statement", "more declarations", "more statements",
            "statement", "expression", "var", "simple_exp", "sum_exp", "more terms", "term",
            "more factors", "factor", "args", "more args"}
Actions == {"token", "nothing", "infix", "if else", "array", "extern array", "append", "compound",
            "definition", "macc", "program"}
Items == ({"goal"} \X Symbols) \cup ({"leaf", "wrap", "pair"} \X Kinds) \cup ({"recover"} \X Nat)
         \cup {<<a>> : a \in Actions}

-----------------------------------------------------------------------------
LEMMA EffectsAreLevels ==
  ASSUME NEW item
  PROVE  /\ Takes(item) \in Level /\ Gives(item) \in Level
         /\ Len(Takes(item)) \in 0 .. 3 /\ Len(Gives(item)) \in 0 .. 1
<1>1. <<>> \in Level /\ Len(<<>>) = 0
  BY EmptySeq DEF Level
<1>2. \A x \in Nullness : <<x>> \in Level /\ Len(<<x>>) = 1
  BY DEF Level
<1>3. \A x \in Nullness, y \in Nullness : <<x, y>> \in Level /\ Len(<<x, y>>) = 2
  BY DEF Level
<1>4. \A x \in Nullness, y \in Nullness, z \in Nullness :
        <<x, y, z>> \in Level /\ Len(<<x, y, z>>) = 3
  BY DEF Level
<1>5. Never \in Nullness /\ AfterErrors \in Nullness /\ Maybe \in Nullness
  BY DEF Nullness
<1> HIDE DEF Nullness, Never, AfterErrors, Maybe
<1>6. \/ Takes(item) \in {<<>>, <<Never>>, <<Maybe>>, <<AfterErrors>>, <<Never, Maybe>>,
                          <<Maybe, Maybe>>}
      \/ Takes(item) \in {<<Never, Never, Never>>, <<Never, AfterErrors, Maybe>>}
  BY Zenon DEF Takes
<1>7. Gives(item) \in {<<>>, <<Never>>, <<Maybe>>, <<AfterErrors>>}
  BY Zenon DEF Gives
<1>8. Takes(item) \in Level /\ Len(Takes(item)) \in 0 .. 3
  BY <1>1, <1>2, <1>3, <1>4, <1>5, <1>6
<1>9. Gives(item) \in Level /\ Len(Gives(item)) \in 0 .. 1
  BY <1>1, <1>2, <1>5, <1>7
<1> QED BY <1>8, <1>9

LEMMA LevelShape ==
  ASSUME NEW a \in Level
  PROVE  Len(a) \in Nat /\ \A k \in 1 .. Len(a) : a[k] \in Nullness /\ a[k] \in Int
BY ElementOfSeq, LenProperties DEF Level, Nullness, Never, AfterErrors, Maybe

(* Above any base an item leads from and to what it does without one.       *)
LEMMA OnABase ==
  ASSUME NEW base \in Level, NEW a \in Level, NEW b \in Level, NEW item, Leads(a, item, b)
  PROVE  Leads(base \o a, item, base \o b)
<1> DEFINE m == Len(base)
           t == Takes(item)
           g == Gives(item)
<1>1. PICK n \in Nat : /\ Len(a) = n + Len(t) /\ Len(b) = n + Len(g) /\ Below(a, b, n)
                       /\ \A k \in 1 .. Len(t) : a[n + k] <= t[k]
                       /\ \A k \in 1 .. Len(g) : g[k] <= b[n + k]
  BY DEF Leads
<1>2. Len(t) \in Nat /\ Len(g) \in Nat /\ m \in Nat
  BY EffectsAreLevels, LevelShape
<1>3. /\ Len(base \o a) = m + Len(a)
      /\ \A k \in 1 .. m + Len(a) : (base \o a)[k] = IF k <= m THEN base[k] ELSE a[k - m]
      /\ Len(base \o b) = m + Len(b)
      /\ \A k \in 1 .. m + Len(b) : (base \o b)[k] = IF k <= m THEN base[k] ELSE b[k - m]
  BY ConcatProperties DEF Level
<1>4. \A k \in 1 .. m : base[k] \in Int
  BY LevelShape
<1> HIDE DEF m, t, g
<1>5. Below(base \o a, base \o b, m + n)
  <2> SUFFICES ASSUME NEW k \in 1 .. m + n PROVE (base \o a)[k] <= (base \o b)[k]
    BY DEF Below
  <2>1. k \in 1 .. m + Len(a) /\ k \in 1 .. m + Len(b)
    BY <1>1, <1>2
  <2>2. CASE k <= m
    BY <2>1, <2>2, <1>2, <1>3, <1>4
  <2>3. CASE ~(k <= m)
    <3>1. k - m \in 1 .. n
      BY <2>3, <1>2
    <3>2. a[k - m] <= b[k - m]
      BY <3>1, <1>1 DEF Below
    <3> QED BY <2>1, <2>3, <3>2, <1>3
  <2> QED BY <2>2, <2>3
<1>6. ASSUME NEW k \in 1 .. Len(t) PROVE (base \o a)[m + n + k] <= t[k]
  <2> DEFINE p == m + n + k
  <2>1. p \in 1 .. m + Len(a) /\ ~(p <= m) /\ p - m = n + k
    BY <1>1, <1>2
  <2> HIDE DEF p
  <2>2. (base \o a)[p] = a[n + k]
    BY <2>1, <1>3
  <2> USE DEF p
  <2> QED BY <2>1, <2>2, <1>1
<1>7. ASSUME NEW k \in 1 .. Len(g) PROVE g[k] <= (base \o b)[m + n + k]
  <2> DEFINE p == m + n + k
  <2>1. p \in 1 .. m + Len(b) /\ ~(p <= m) /\ p - m = n + k
    BY <1>1, <1>2
  <2> HIDE DEF p
  <2>2. (base \o b)[p] = b[n + k]
    BY <2>1, <1>3
  <2> USE DEF p
  <2> QED BY <2>1, <2>2, <1>1
<1>8. m + n \in Nat /\ Len(base \o a) = m + n + Len(t) /\ Len(base \o b) = m + n + Len(g)
  BY <1>1, <1>2, <1>3
<1> QED BY <1>5, <1>6, <1>7, <1>8 DEF Leads, t, g

(* What is below what an item takes may be assumed to be Null less often,   *)
(* and what is above the rest it leaves more often.                         *)
LEMMA LeadsHigher ==
  ASSUME NEW a \in Level, NEW b \in Level, NEW c \in Level, NEW item, Leads(a, item, b),
         Len(c) = Len(b), Below(b, c, Len(b))
  PROVE  Leads(a, item, c)
<1> DEFINE t == Takes(item)
           g == Gives(item)
<1>1. PICK n \in Nat : /\ Len(a) = n + Len(t) /\ Len(b) = n + Len(g) /\ Below(a, b, n)
                       /\ \A k \in 1 .. Len(t) : a[n + k] <= t[k]
                       /\ \A k \in 1 .. Len(g) : g[k] <= b[n + k]
  BY DEF Leads
<1>2. Len(t) \in Nat /\ Len(g) \in Nat /\ \A k \in 1 .. Len(g) : g[k] \in Int
  BY EffectsAreLevels, LevelShape
<1>3. /\ \A k \in 1 .. Len(a) : a[k] \in Int
      /\ \A k \in 1 .. Len(b) : b[k] \in Int /\ c[k] \in Int
  BY LevelShape
<1> HIDE DEF t, g
<1>4. Below(a, c, n)
  <2> SUFFICES ASSUME NEW k \in 1 .. n PROVE a[k] <= c[k]
    BY DEF Below
  <2>1. k \in 1 .. Len(a) /\ k \in 1 .. Len(b)
    BY <1>1, <1>2
  <2> QED BY <2>1, <1>1, <1>3 DEF Below
<1>5. ASSUME NEW k \in 1 .. Len(g) PROVE g[k] <= c[n + k]
  <2>1. n + k \in 1 .. Len(b)
    BY <1>1, <1>2
  <2>2. g[k] <= b[n + k] /\ b[n + k] <= c[n + k]
    BY <2>1, <1>1 DEF Below
  <2> QED BY <2>1, <2>2, <1>2, <1>3
<1> QED BY <1>1, <1>4, <1>5 DEF Leads, t, g

LEMMA HoldsHigher ==
  ASSUME NEW vals, Len(vals) \in Nat, NEW errors \in Nat, NEW a \in Level, NEW b \in Level,
         Holds(vals, errors, a), Len(b) = Len(a), Below(a, b, Len(a))
  PROVE  Holds(vals, errors, b)
<1> SUFFICES ASSUME NEW k \in 1 .. Len(vals), vals[k] = Null PROVE CanBeNull(b[k], errors)
  BY DEF Holds
<1>1. a[k] \in Nullness /\ b[k] \in Nullness /\ a[k] <= b[k] /\ CanBeNull(a[k], errors)
  BY LevelShape DEF Holds, Below
<1> QED BY <1>1 DEF CanBeNull, Nullness, Never, AfterErrors, Maybe

(* What takes values and gives as good ones.                                *)
LEMMA HoldsOn ==
  ASSUME NEW vals, Len(vals) \in Nat, NEW errors \in Nat, NEW a \in Level, NEW b \in Level,
         NEW item, Holds(vals, errors, a), Leads(a, item, b), Takes(item) = Gives(item)
  PROVE  Holds(vals, errors, b)
<1> DEFINE t == Takes(item)
<1>1. PICK n \in Nat : /\ Len(a) = n + Len(t) /\ Len(b) = n + Len(t) /\ Below(a, b, n)
                       /\ \A k \in 1 .. Len(t) : a[n + k] <= t[k] /\ t[k] <= b[n + k]
  BY DEF Leads
<1>2. Len(t) \in Nat /\ \A k \in 1 .. Len(t) : t[k] \in Int
  BY EffectsAreLevels, LevelShape
<1>3. \A k \in 1 .. Len(a) : a[k] \in Int /\ b[k] \in Int
  BY <1>1, LevelShape
<1> HIDE DEF t
<1>4. Below(a, b, Len(a))
  <2> SUFFICES ASSUME NEW k \in 1 .. Len(a) PROVE a[k] <= b[k]
    BY DEF Below
  <2>1. CASE k <= n
    BY <2>1, <1>1 DEF Below
  <2>2. CASE ~(k <= n)
    <3> DEFINE i == k - n
    <3>1. i \in 1 .. Len(t) /\ k = n + i
      BY <2>2, <1>1, <1>2
    <3> HIDE DEF i
    <3>2. a[n + i] <= t[i] /\ t[i] <= b[n + i]
      BY <3>1, <1>1
    <3> QED BY <3>1, <3>2, <1>2, <1>3
  <2> QED BY <2>1, <2>2
<1> QED BY <1>1, <1>4, HoldsHigher

(* A reduction.                                                             *)
LEMMA HoldsAfter ==
  ASSUME NEW S, NEW vals \in Seq(S), NEW errors \in Nat, NEW a \in Level, NEW b \in Level,
         NEW item, Holds(vals, errors, a), Leads(a, item, b),
         NEW g \in Nullness, Gives(item) = <<g>>, NEW v \in S, v = Null => CanBeNull(g, errors)
  PROVE  Holds(Append(SubSeq(vals, 1, Len(vals) - Len(Takes(item))), v), errors, b)
<1> DEFINE t == Takes(item)
<1>1. PICK n \in Nat : /\ Len(a) = n + Len(t) /\ Len(b) = n + 1 /\ Below(a, b, n)
                       /\ g <= b[n + 1]
  BY DEF Leads
<1>2. Len(t) \in Nat /\ Len(vals) = n + Len(t) /\ Len(vals) - Len(t) = n
  BY <1>1, EffectsAreLevels, LevelShape DEF Holds
<1>3. /\ \A k \in 1 .. Len(a) : a[k] \in Nullness
      /\ \A k \in 1 .. Len(b) : b[k] \in Nullness
  BY LevelShape
<1> DEFINE rest == SubSeq(vals, 1, n)
           after == Append(rest, v)
<1>4. /\ rest \in Seq(S) /\ Len(rest) = n
      /\ \A k \in 1 .. n : rest[k] = vals[k]
  <2>1. \A k \in 1 .. n : k \in 1 .. Len(vals) /\ vals[k] \in S
    BY <1>2, ElementOfSeq
  <2> QED BY <2>1, SubSeqProperties
<1>5. /\ Len(after) = n + 1 /\ after[n + 1] = v
      /\ \A k \in 1 .. n : after[k] = vals[k]
  BY <1>4, AppendProperties
<1>6. ASSUME NEW k \in 1 .. n + 1, after[k] = Null PROVE CanBeNull(b[k], errors)
  <2>1. b[k] \in Nullness
    BY <1>1, <1>3
  <2>2. CASE k = n + 1
    BY <2>1, <2>2, <1>1, <1>5, <1>6 DEF CanBeNull, Nullness, Never, AfterErrors, Maybe
  <2>3. CASE k # n + 1
    <3>1. k \in 1 .. n /\ k \in 1 .. Len(a) /\ k \in 1 .. Len(vals)
      BY <2>3, <1>1, <1>2
    <3>2. a[k] \in Nullness /\ a[k] <= b[k] /\ CanBeNull(a[k], errors)
      BY <3>1, <1>1, <1>3, <1>5, <1>6 DEF Below, Holds
    <3> QED BY <3>2, <2>1 DEF CanBeNull, Nullness, Never, AfterErrors, Maybe
  <2> QED BY <2>2, <2>3
<1> HIDE DEF after
<1>7. Holds(after, errors, b)
  BY <1>1, <1>5, <1>6 DEF Holds
<1> QED BY <1>2, <1>7 DEF after

-----------------------------------------------------------------------------
LEMMA TypedShape ==
  ASSUME NEW items \in Seq(Items), NEW vals, NEW errors, NEW levels,
         Typed(items, vals, errors, levels)
  PROVE  /\ Len(items) \in Nat /\ \A i \in 1 .. Len(items) : items[i] \in Items
         /\ \A i \in 1 .. Len(items) + 1 : levels[i] \in Level /\ Len(levels[i]) \in Nat
         /\ Len(vals) \in Nat /\ Len(vals) = Len(levels[1])
<1>1. Len(items) \in Nat /\ \A i \in 1 .. Len(items) : items[i] \in Items
  BY ElementOfSeq, LenProperties
<1>2. \A i \in 1 .. Len(items) + 1 : levels[i] \in Level
  BY ElementOfSeq DEF Typed
<1>3. \A i \in 1 .. Len(items) + 1 : Len(levels[i]) \in Nat
  BY <1>2, LevelShape
<1>4. Len(vals) = Len(levels[1])
  BY DEF Typed, Holds
<1> QED BY <1>1, <1>2, <1>3, <1>4

(* The first items are done, or given up.                                   *)
LEMMA Drop ==
  ASSUME NEW items \in Seq(Items), NEW vals, NEW errors, NEW levels,
         Typed(items, vals, errors, levels), NEW d \in 1 .. Len(items),
         NEW after, NEW errorsAfter, Holds(after, errorsAfter, levels[d + 1])
  PROVE  Typed(SubSeq(items, d + 1, Len(items)), after, errorsAfter,
               SubSeq(levels, d + 1, Len(items) + 1))
<1> DEFINE m == Len(items)
           r == m - d
           rest == SubSeq(items, d + 1, m)
           new == SubSeq(levels, d + 1, m + 1)
<1>1. m \in Nat /\ r \in Nat /\ d \in 1 .. m /\ levels \in Seq(Level) /\ Len(levels) = m + 1
  BY LenProperties DEF Typed
<1>2. /\ Len(rest) = r /\ \A i \in 1 .. r : i + d \in 1 .. m /\ rest[i] = items[i + d]
  <2>1. \A i \in d + 1 .. m : items[i] \in Items
    BY <1>1, ElementOfSeq
  <2>2. /\ Len(rest) = IF d + 1 <= m THEN m - (d + 1) + 1 ELSE 0
        /\ \A i \in 1 .. m - (d + 1) + 1 : rest[i] = items[d + 1 + i - 1]
    BY <1>1, <2>1, SubSeqProperties
  <2>3. ASSUME NEW i \in 1 .. r PROVE i + d \in 1 .. m /\ rest[i] = items[i + d]
    <3>1. i \in 1 .. m - (d + 1) + 1 /\ d + 1 + i - 1 = i + d /\ i + d \in 1 .. m
      BY <1>1
    <3> QED BY <2>2, <3>1
  <2>4. Len(rest) = r
    BY <1>1, <2>2
  <2> QED BY <2>3, <2>4
<1>3. /\ new \in Seq(Level) /\ Len(new) = r + 1
      /\ \A i \in 1 .. r + 1 : new[i] = levels[i + d]
  <2>1. \A i \in d + 1 .. m + 1 : levels[i] \in Level
    BY <1>1, ElementOfSeq
  <2>2. /\ new \in Seq(Level) /\ Len(new) = IF d + 1 <= m + 1 THEN m + 1 - (d + 1) + 1 ELSE 0
        /\ \A i \in 1 .. m + 1 - (d + 1) + 1 : new[i] = levels[d + 1 + i - 1]
    BY <1>1, <2>1, SubSeqProperties
  <2>3. ASSUME NEW i \in 1 .. r + 1 PROVE new[i] = levels[i + d]
    <3>1. i \in 1 .. m + 1 - (d + 1) + 1 /\ d + 1 + i - 1 = i + d
      BY <1>1
    <3> QED BY <2>2, <3>1
  <2>4. Len(new) = r + 1
    BY <1>1, <2>2
  <2> QED BY <2>2, <2>3, <2>4
<1> HIDE DEF m, r, rest, new
<1>4. ASSUME NEW i \in 1 .. r PROVE Leads(new[i], rest[i], new[i + 1])
  <2>1. i \in 1 .. r + 1 /\ i + 1 \in 1 .. r + 1 /\ i + 1 + d = i + d + 1
    BY <1>1
  <2>2. Leads(levels[i + d], items[i + d], levels[i + d + 1])
    BY <1>2 DEF Typed, m
  <2> QED BY <2>1, <2>2, <1>2, <1>3
<1>5. ASSUME NEW i \in 1 .. r, rest[i][1] = "recover" PROVE Guarded(rest, new, i)
  <2>1. i + d \in 1 .. m /\ rest[i] = items[i + d] /\ new[i] = levels[i + d]
    <3>1. i \in 1 .. r + 1
      BY <1>1
    <3> QED BY <3>1, <1>2, <1>3
  <2>2. Guarded(items, levels, i + d)
    BY <2>1, <1>5 DEF Typed, m
  <2>3. ASSUME NEW j \in 1 .. i - 1
        PROVE  /\ Len(new[j]) >= rest[i][2] + Len(Takes(rest[j]))
               /\ Below(new[j], new[i], rest[i][2])
    <3> DEFINE q == i + d
               k == j + d
    <3>1. j \in 1 .. r /\ j \in 1 .. r + 1 /\ k \in 1 .. q - 1
      BY <1>1
    <3>2. new[j] = levels[k] /\ rest[j] = items[k]
      BY <3>1, <1>2, <1>3
    <3>3. rest[i] = items[q] /\ new[i] = levels[q] /\ Guarded(items, levels, q)
      BY <2>1, <2>2
    <3> HIDE DEF q, k
    <3>4. /\ Len(levels[k]) >= items[q][2] + Len(Takes(items[k]))
          /\ Below(levels[k], levels[q], items[q][2])
      BY <3>1, <3>3 DEF Guarded
    <3> QED BY <3>2, <3>3, <3>4
  <2> QED BY <2>1, <2>2, <2>3 DEF Guarded
<1>6. Holds(after, errorsAfter, new[1])
  <2>1. 1 \in 1 .. r + 1 /\ 1 + d = d + 1
    BY <1>1
  <2> QED BY <2>1, <1>3
<1>7. Typed(rest, after, errorsAfter, new)
  BY <1>2, <1>3, <1>4, <1>5, <1>6 DEF Typed
<1> QED BY <1>7 DEF rest, new, m

LEMMA OrderedDrop ==
  ASSUME NEW items \in Seq(Items), Ordered(items), NEW d \in 1 .. Len(items), d # Len(items)
  PROVE  /\ SubSeq(items, d + 1, Len(items)) \in Seq(Items)
         /\ Ordered(SubSeq(items, d + 1, Len(items)))
<1> DEFINE m == Len(items)
           r == m - d
           rest == SubSeq(items, d + 1, m)
<1>1. m \in Nat /\ r \in Nat /\ r >= 1 /\ d \in 1 .. m
  BY LenProperties
<1>2. /\ rest \in Seq(Items) /\ Len(rest) = r
      /\ \A i \in 1 .. r : i + d \in 1 .. m /\ rest[i] = items[i + d]
  <2>1. \A i \in d + 1 .. m : items[i] \in Items
    BY <1>1, ElementOfSeq
  <2>2. /\ rest \in Seq(Items) /\ Len(rest) = IF d + 1 <= m THEN m - (d + 1) + 1 ELSE 0
        /\ \A i \in 1 .. m - (d + 1) + 1 : rest[i] = items[d + 1 + i - 1]
    BY <1>1, <2>1, SubSeqProperties
  <2>3. ASSUME NEW i \in 1 .. r PROVE i + d \in 1 .. m /\ rest[i] = items[i + d]
    <3>1. i \in 1 .. m - (d + 1) + 1 /\ d + 1 + i - 1 = i + d /\ i + d \in 1 .. m
      BY <1>1
    <3> QED BY <2>2, <3>1
  <2>4. Len(rest) = r
    BY <1>1, <2>2
  <2> QED BY <2>2, <2>3, <2>4
<1>3. \A i \in 1 .. m : Final(items[i]) <=> i = m
  BY DEF Ordered
<1>4. \A i \in 1 .. m : items[i] \in TopItems \/ \E j \in i .. m : items[j][1] = "recover"
  BY DEF Ordered
<1> HIDE DEF m, rest
<1>5. ASSUME NEW i \in 1 .. r PROVE Final(rest[i]) <=> i = r
  <2>1. i + d = m <=> i = r
    BY <1>1
  <2> QED BY <1>2, <1>3, <2>1
<1>6. ASSUME NEW i \in 1 .. r
      PROVE  rest[i] \in TopItems \/ \E j \in i .. r : rest[j][1] = "recover"
  <2>1. i + d \in 1 .. m /\ rest[i] = items[i + d]
    BY <1>2
  <2>2. ASSUME NEW j \in i + d .. m, items[j][1] = "recover"
        PROVE  \E k \in i .. r : rest[k][1] = "recover"
    <3> DEFINE k == j - d
    <3>1. k \in i .. r /\ k \in 1 .. r /\ k + d = j
      BY <1>1
    <3> HIDE DEF k
    <3>2. rest[k][1] = "recover"
      BY <1>2, <2>2, <3>1
    <3> QED BY <3>1, <3>2
  <2> QED BY <2>1, <2>2, <1>4
<1>7. rest # <<>>
  BY <1>1, <1>2, EmptySeq
<1>8. Ordered(rest)
  BY <1>2, <1>5, <1>6, <1>7 DEF Ordered
<1> QED BY <1>2, <1>8 DEF rest, m

(* The first item is done.                                                  *)
LEMMA Advance ==
  ASSUME NEW items \in Seq(Items), items # <<>>, NEW vals, NEW errors, NEW levels,
         Typed(items, vals, errors, levels), NEW after, NEW errorsAfter,
         Holds(after, errorsAfter, levels[2])
  PROVE  \E new : Typed(Tail(items), after, errorsAfter, new)
<1>1. 1 \in 1 .. Len(items) /\ 1 + 1 = 2
  BY LenProperties, EmptySeq
<1>2. Tail(items) = SubSeq(items, 1 + 1, Len(items))
  BY <1>1, TailIsSubSeq
<1> QED BY <1>1, <1>2, Drop

LEMMA OrderedTail ==
  ASSUME NEW items \in Seq(Items), Ordered(items), ~Final(items[1])
  PROVE  Tail(items) \in Seq(Items) /\ Ordered(Tail(items))
<1>1. items # <<>> /\ 1 \in 1 .. Len(items) /\ 1 + 1 = 2
  BY LenProperties, EmptySeq DEF Ordered
<1>2. 1 # Len(items)
  BY <1>1 DEF Ordered
<1>3. Tail(items) = SubSeq(items, 1 + 1, Len(items))
  BY <1>1, TailIsSubSeq
<1> QED BY <1>1, <1>2, <1>3, OrderedDrop

-----------------------------------------------------------------------------
(* A production leads from level a to level b, through the levels tops.     *)
Chained(p, a, b, tops) ==
  /\ tops \in Seq(Level) /\ Len(tops) = Len(p) + 1
  /\ tops[1] = a /\ tops[Len(p) + 1] = b
  /\ \A i \in 1 .. Len(p) : Leads(tops[i], p[i], tops[i + 1])

(* The first item is replaced by others that have the same effect.          *)
LEMMA Replace ==
  ASSUME NEW items \in Seq(Items), items # <<>>, NEW vals, NEW errors \in Nat, NEW levels,
         Typed(items, vals, errors, levels),
         NEW p \in Seq(Items), p # <<>>, NEW tops,
         Chained(p, Takes(items[1]), Gives(items[1]), tops),
         \A i \in 1 .. Len(p) : p[i][1] = "recover" =>
           Takes(items[1]) = <<>> /\ p[i][2] = Len(vals) /\ Len(tops[i]) = 1
  PROVE  \E new : Typed(p \o Tail(items), vals, errors, new)
<1> DEFINE m == Len(items)
           l == Len(p)
           a == levels[1]
           t == Takes(items[1])
           g == Gives(items[1])
           all == p \o Tail(items)
<1>1. /\ m \in Nat /\ m >= 1 /\ l \in Nat /\ l >= 1
      /\ \A i \in 1 .. m + 1 : levels[i] \in Level /\ Len(levels[i]) \in Nat
      /\ \A i \in 1 .. l + 1 : tops[i] \in Level /\ Len(tops[i]) \in Nat
  <2>1. m \in Nat /\ m >= 1 /\ l \in Nat /\ l >= 1
    BY LenProperties, EmptySeq
  <2>2. \A i \in 1 .. l + 1 : tops[i] \in Level /\ Len(tops[i]) \in Nat
    BY ElementOfSeq, LevelShape DEF Chained
  <2> QED BY <2>1, <2>2, TypedShape
<1>2. /\ t \in Level /\ Len(t) \in Nat /\ g \in Level /\ Len(g) \in Nat
      /\ tops[1] = t /\ tops[l + 1] = g
  BY EffectsAreLevels, LevelShape DEF Chained
<1>3. PICK n \in Nat : /\ Len(a) = n + Len(t) /\ Len(levels[2]) = n + Len(g)
                       /\ Below(a, levels[2], n)
                       /\ \A k \in 1 .. Len(t) : a[n + k] <= t[k]
                       /\ \A k \in 1 .. Len(g) : g[k] <= levels[2][n + k]
  <2>1. Leads(levels[1], items[1], levels[1 + 1])
    BY <1>1 DEF Typed
  <2>2. Leads(a, items[1], levels[2])
    BY <2>1
  <2> HIDE DEF a
  <2> QED BY <2>2 DEF Leads
<1>4. a \in Level /\ levels[2] \in Level
  BY <1>1
<1> DEFINE base == SubSeq(a, 1, n)
<1>5. /\ base \in Level /\ Len(base) = n
      /\ \A k \in 1 .. n : base[k] = a[k] /\ a[k] \in Int
  <2> HIDE DEF a
  <2>1. \A k \in 1 .. Len(a) : a[k] \in Nullness /\ a[k] \in Int
    BY <1>4, LevelShape
  <2>2. \A k \in 1 .. n : k \in 1 .. Len(a)
    BY <1>2, <1>3
  <2>3. \A k \in 1 .. n : a[k] \in Nullness /\ a[k] \in Int
    BY <2>1, <2>2
  <2> QED BY <2>3, SubSeqProperties DEF Level
<1>6. ASSUME NEW top \in Level
      PROVE  /\ base \o top \in Level /\ Len(base \o top) = n + Len(top)
             /\ \A k \in 1 .. n : (base \o top)[k] = a[k]
             /\ \A k \in 1 .. Len(top) : (base \o top)[n + k] = top[k]
  <2>1. /\ base \o top \in Level /\ Len(base \o top) = n + Len(top)
        /\ \A k \in 1 .. n + Len(top) : (base \o top)[k] = IF k <= n THEN base[k] ELSE top[k - n]
    BY <1>5, ConcatProperties DEF Level
  <2>2. Len(top) \in Nat
    BY LevelShape
  <2>3. ASSUME NEW k \in 1 .. n PROVE (base \o top)[k] = a[k]
    BY <2>1, <2>2, <1>5
  <2>4. ASSUME NEW k \in 1 .. Len(top) PROVE (base \o top)[n + k] = top[k]
    <3> DEFINE q == n + k
    <3>1. q \in 1 .. n + Len(top) /\ ~(q <= n) /\ q - n = k
      BY <2>2
    <3> HIDE DEF q
    <3>2. (base \o top)[q] = top[k]
      BY <2>1, <3>1
    <3> QED BY <3>2 DEF q
  <2> QED BY <2>1, <2>3, <2>4
<1> HIDE DEF base
<1> DEFINE new == [i \in 1 .. l + m |-> IF i <= l THEN base \o tops[i] ELSE levels[i - l + 1]]
<1>7. /\ \A i \in 1 .. l : new[i] = base \o tops[i]
      /\ \A i \in 2 .. m + 1 : l + i - 1 \in 1 .. l + m /\ new[l + i - 1] = levels[i]
  <2>1. ASSUME NEW i \in 1 .. l PROVE new[i] = base \o tops[i]
    BY <1>1
  <2>2. ASSUME NEW i \in 2 .. m + 1
        PROVE  l + i - 1 \in 1 .. l + m /\ new[l + i - 1] = levels[i]
    <3> DEFINE q == l + i - 1
    <3>1. q \in 1 .. l + m /\ ~(q <= l) /\ q - l + 1 = i
      BY <1>1
    <3> HIDE DEF q
    <3>2. new[q] = levels[i]
      BY <3>1
    <3> QED BY <3>1, <3>2 DEF q
  <2> QED BY <2>1, <2>2
<1>8. new \in Seq(Level) /\ Len(new) = l + m
  <2>1. ASSUME NEW i \in 1 .. l + m
        PROVE  (IF i <= l THEN base \o tops[i] ELSE levels[i - l + 1]) \in Level
    <3>1. CASE i <= l
      BY <3>1, <1>1, <1>6
    <3>2. CASE ~(i <= l)
      <4>1. i - l + 1 \in 1 .. m + 1
        BY <3>2, <1>1
      <4> QED BY <4>1, <3>2, <1>1
    <3> QED BY <3>1, <3>2
  <2>2. l + m \in Nat
    BY <1>1
  <2> QED BY <2>1, <2>2, IsASeq
<1> HIDE DEF new
<1>9. /\ all \in Seq(Items) /\ Len(all) = l + m - 1
      /\ \A i \in 1 .. l : all[i] = p[i]
      /\ \A i \in 2 .. m : l + i - 1 \in 1 .. l + m - 1 /\ all[l + i - 1] = items[i]
  <2>1. /\ Tail(items) \in Seq(Items) /\ Len(Tail(items)) = m - 1
        /\ \A i \in 1 .. m - 1 : Tail(items)[i] = items[i + 1]
    BY HeadTailProperties
  <2>2. /\ all \in Seq(Items) /\ Len(all) = l + (m - 1)
        /\ \A i \in 1 .. l + (m - 1) : all[i] = IF i <= l THEN p[i] ELSE Tail(items)[i - l]
    BY <2>1, ConcatProperties
  <2> HIDE DEF all
  <2>3. ASSUME NEW i \in 1 .. l PROVE all[i] = p[i]
    BY <2>2, <1>1
  <2>4. ASSUME NEW i \in 2 .. m PROVE l + i - 1 \in 1 .. l + m - 1 /\ all[l + i - 1] = items[i]
    <3> DEFINE q == l + i - 1
               r == i - 1
    <3>1. q \in 1 .. l + (m - 1) /\ ~(q <= l) /\ q - l = r /\ r \in 1 .. m - 1 /\ r + 1 = i
          /\ q \in 1 .. l + m - 1
      BY <1>1
    <3> HIDE DEF q, r
    <3>2. all[q] = items[i]
      BY <3>1, <2>1, <2>2
    <3> QED BY <3>1, <3>2 DEF q
  <2>5. l + (m - 1) = l + m - 1
    BY <1>1
  <2> QED BY <2>2, <2>3, <2>4, <2>5
<1> HIDE DEF all
<1>10. Holds(vals, errors, new[1])
  <2>1. new[1] = base \o t
    <3>1. 1 \in 1 .. l
      BY <1>1
    <3>2. new[1] = base \o tops[1]
      BY <3>1, <1>7
    <3> QED BY <3>2, <1>2
  <2>2. /\ base \o t \in Level /\ Len(base \o t) = Len(a)
        /\ \A k \in 1 .. n : (base \o t)[k] = a[k] /\ a[k] \in Int
        /\ \A k \in 1 .. Len(t) : (base \o t)[n + k] = t[k]
    BY <1>2, <1>3, <1>5, <1>6
  <2>3. Below(a, base \o t, Len(a))
    <3> SUFFICES ASSUME NEW k \in 1 .. Len(a) PROVE a[k] <= (base \o t)[k]
      BY DEF Below
    <3>1. CASE k <= n
      BY <3>1, <2>2
    <3>2. CASE ~(k <= n)
      <4> DEFINE j == k - n
      <4>1. j \in 1 .. Len(t) /\ k = n + j
        BY <3>2, <1>2, <1>3
      <4> HIDE DEF j
      <4>2. a[n + j] <= t[j] /\ (base \o t)[n + j] = t[j]
        BY <4>1, <1>3, <2>2
      <4> QED BY <4>1, <4>2
    <3> QED BY <3>1, <3>2
  <2>4. Holds(vals, errors, a) /\ Len(vals) \in Nat
    BY TypedShape DEF Typed
  <2> HIDE DEF a, t
  <2>5. Holds(vals, errors, base \o t)
    BY <1>4, <2>2, <2>3, <2>4, HoldsHigher
  <2> QED BY <2>1, <2>5
<1>11. ASSUME NEW i \in 1 .. l PROVE Leads(new[i], all[i], new[i + 1])
  <2>1. /\ i \in 1 .. l + 1 /\ i + 1 \in 1 .. l + 1 /\ tops[i] \in Level /\ tops[i + 1] \in Level
        /\ new[i] = base \o tops[i] /\ all[i] = p[i]
    <3>1. i \in 1 .. l + 1 /\ i + 1 \in 1 .. l + 1
      BY <1>1
    <3>2. tops[i] \in Level /\ tops[i + 1] \in Level
      BY <3>1, <1>1
    <3> QED BY <3>1, <3>2, <1>7, <1>9
  <2>2. Leads(tops[i], p[i], tops[i + 1])
    BY DEF Chained
  <2>3. Leads(base \o tops[i], p[i], base \o tops[i + 1])
    BY <1>5, <2>1, <2>2, OnABase
  <2>4. CASE i < l
    <3>1. new[i + 1] = base \o tops[i + 1]
      BY <2>4, <1>1, <1>7
    <3> QED BY <2>1, <2>3, <3>1
  <2>5. CASE i = l
    <3>1. tops[i + 1] = g
      BY <2>5, <1>2
    <3>2. new[i + 1] = levels[2]
      <4>1. 2 \in 2 .. m + 1 /\ l + 2 - 1 = i + 1
        BY <2>5, <1>1
      <4> QED BY <4>1, <1>7
    <3>3. /\ base \o g \in Level /\ Len(base \o g) = n + Len(g)
          /\ \A k \in 1 .. n : (base \o g)[k] = a[k]
          /\ \A k \in 1 .. Len(g) : (base \o g)[n + k] = g[k]
      BY <1>2, <1>6
    <3>4. Below(base \o g, levels[2], Len(base \o g))
      <4> SUFFICES ASSUME NEW k \in 1 .. n + Len(g) PROVE (base \o g)[k] <= levels[2][k]
        BY <3>3 DEF Below
      <4>1. CASE k <= n
        BY <4>1, <3>3, <1>3 DEF Below
      <4>2. CASE ~(k <= n)
        <5> DEFINE j == k - n
        <5>1. j \in 1 .. Len(g) /\ k = n + j
          BY <4>2, <1>2, <1>3
        <5> HIDE DEF j
        <5>2. (base \o g)[n + j] = g[j] /\ g[j] <= levels[2][n + j]
          BY <5>1, <1>3, <3>3
        <5> QED BY <5>1, <5>2
      <4> QED BY <4>1, <4>2
    <3>5. base \o tops[i] \in Level /\ Len(levels[2]) = Len(base \o g)
      BY <2>1, <1>3, <1>6, <3>3
    <3>6. Leads(base \o tops[i], p[i], base \o g)
      BY <2>3, <3>1
    <3> HIDE DEF g
    <3>7. Leads(base \o tops[i], p[i], levels[2])
      BY <1>4, <3>3, <3>4, <3>5, <3>6, LeadsHigher
    <3> QED BY <2>1, <3>2, <3>7
  <2> QED BY <2>4, <2>5, <1>1
<1>12. ASSUME NEW i \in 2 .. m PROVE Leads(new[l + i - 1], all[l + i - 1], new[l + i - 1 + 1])
  <2>1. i \in 2 .. m + 1 /\ i + 1 \in 2 .. m + 1 /\ i \in 1 .. m /\ l + (i + 1) - 1 = l + i - 1 + 1
    BY <1>1
  <2>2. /\ new[l + i - 1] = levels[i] /\ all[l + i - 1] = items[i]
        /\ new[l + (i + 1) - 1] = levels[i + 1]
    BY <2>1, <1>7, <1>9
  <2>3. Leads(levels[i], items[i], levels[i + 1])
    BY <2>1 DEF Typed
  <2> QED BY <2>1, <2>2, <2>3
<1>13. ASSUME NEW q \in 1 .. l + m - 1 PROVE q \in 1 .. l \/ \E i \in 2 .. m : q = l + i - 1
  <2>1. CASE q <= l
    BY <2>1, <1>1
  <2>2. CASE ~(q <= l)
    <3> DEFINE i == q - l + 1
    <3>1. i \in 2 .. m /\ q = l + i - 1
      BY <2>2, <1>1
    <3> HIDE DEF i
    <3> QED BY <3>1
  <2> QED BY <2>1, <2>2
<1>14. ASSUME NEW j \in 1 .. l
       PROVE  /\ Len(new[j]) >= n + Len(Takes(all[j])) /\ Len(new[j]) = n + Len(tops[j])
              /\ \A k \in 1 .. n : new[j][k] = a[k] /\ a[k] \in Int
  <2>1. j \in 1 .. l + 1 /\ tops[j] \in Level /\ Len(tops[j]) \in Nat /\ all[j] = p[j]
        /\ new[j] = base \o tops[j]
    BY <1>1, <1>7, <1>9
  <2>2. Leads(tops[j], p[j], tops[j + 1])
    BY DEF Chained
  <2>3. Len(tops[j]) >= Len(Takes(p[j])) /\ Len(Takes(p[j])) \in Nat
    BY <2>2, EffectsAreLevels, LevelShape DEF Leads
  <2>4. Len(new[j]) = n + Len(tops[j]) /\ \A k \in 1 .. n : new[j][k] = a[k]
    BY <2>1, <1>6
  <2> QED BY <2>1, <2>3, <2>4, <1>5
<1>15. ASSUME NEW i \in 1 .. l, all[i][1] = "recover" PROVE Guarded(all, new, i)
  <2>1. all[i] = p[i] /\ t = <<>> /\ p[i][2] = Len(vals) /\ Len(tops[i]) = 1
    BY <1>9, <1>15
  <2>2. Len(vals) = n
    <3>1. Len(t) = 0
      BY <2>1, EmptySeq
    <3>2. Len(vals) = Len(a)
      BY TypedShape
    <3> HIDE DEF t, a
    <3> QED BY <3>1, <3>2, <1>3
  <2>3. Len(new[i]) = n + 1
    BY <2>1, <1>14
  <2>4. ASSUME NEW j \in 1 .. i - 1
        PROVE  Len(new[j]) >= n + Len(Takes(all[j])) /\ Below(new[j], new[i], n)
    <3>1. j \in 1 .. l
      BY <1>1
    <3>2. /\ Len(new[j]) >= n + Len(Takes(all[j]))
          /\ \A k \in 1 .. n : new[j][k] = a[k] /\ a[k] \in Int /\ new[i][k] = a[k]
      BY <3>1, <1>14
    <3> HIDE DEF a
    <3>3. ASSUME NEW k \in 1 .. n PROVE new[j][k] <= new[i][k]
      <4>1. new[j][k] = a[k] /\ a[k] \in Int /\ new[i][k] = a[k]
        BY <3>2
      <4>2. \A x \in Int : x <= x
        OBVIOUS
      <4> QED BY <4>1, <4>2
    <3>4. Below(new[j], new[i], n)
      BY <3>3 DEF Below
    <3> QED BY <3>2, <3>4
  <2> QED BY <2>1, <2>2, <2>3, <2>4 DEF Guarded
<1>16. ASSUME NEW i \in 2 .. m, all[l + i - 1][1] = "recover" PROVE Guarded(all, new, l + i - 1)
  <2> DEFINE h == items[i][2]
  <2>1. i \in 1 .. m /\ i \in 2 .. m + 1 /\ all[l + i - 1] = items[i] /\ new[l + i - 1] = levels[i]
    <3>1. i \in 1 .. m /\ i \in 2 .. m + 1
      BY <1>1
    <3> QED BY <3>1, <1>7, <1>9
  <2>2. Guarded(items, levels, i)
    BY <2>1, <1>16 DEF Typed
  <2>3. h \in Nat /\ Len(levels[i]) = h + 1
    BY <2>2 DEF Guarded
  <2>4. h <= n /\ Below(a, levels[i], h)
    <3>1. 1 \in 1 .. i - 1
      BY <1>1
    <3>2. Len(a) >= h + Len(t) /\ Below(a, levels[i], h)
      BY <2>2, <3>1 DEF Guarded
    <3> HIDE DEF h, t, a
    <3> QED BY <3>2, <1>2, <1>3, <2>3
  <2>5. ASSUME NEW j \in 1 .. l
        PROVE  Len(new[j]) >= h + Len(Takes(all[j])) /\ Below(new[j], levels[i], h)
    <3>1. Len(Takes(all[j])) \in Nat /\ Len(tops[j]) \in Nat
      BY <1>1, EffectsAreLevels
    <3>2. /\ Len(new[j]) >= n + Len(Takes(all[j])) /\ Len(new[j]) = n + Len(tops[j])
          /\ \A k \in 1 .. n : new[j][k] = a[k]
      BY <1>14
    <3> HIDE DEF h
    <3>3. Len(new[j]) >= h + Len(Takes(all[j]))
      BY <2>3, <2>4, <3>1, <3>2
    <3>4. Below(new[j], levels[i], h)
      BY <2>3, <2>4, <3>2 DEF Below
    <3> QED BY <3>3, <3>4
  <2>6. ASSUME NEW j \in 2 .. m, j < i
        PROVE  /\ Len(new[l + j - 1]) >= h + Len(Takes(all[l + j - 1]))
               /\ Below(new[l + j - 1], levels[i], h)
    <3>1. j \in 2 .. m + 1 /\ j \in 1 .. i - 1
      BY <2>6, <1>1
    <3>2. new[l + j - 1] = levels[j] /\ all[l + j - 1] = items[j]
      BY <3>1, <1>7, <1>9
    <3>3. Len(levels[j]) >= h + Len(Takes(items[j])) /\ Below(levels[j], levels[i], h)
      BY <2>2, <3>1 DEF Guarded
    <3> QED BY <3>2, <3>3
  <2>7. ASSUME NEW q \in 1 .. (l + i - 1) - 1
        PROVE  Len(new[q]) >= h + Len(Takes(all[q])) /\ Below(new[q], levels[i], h)
    <3>1. q \in 1 .. l + m - 1
      BY <1>1
    <3>2. CASE q \in 1 .. l
      BY <3>2, <2>5
    <3>3. ASSUME NEW j \in 2 .. m, q = l + j - 1
          PROVE  Len(new[q]) >= h + Len(Takes(all[q])) /\ Below(new[q], levels[i], h)
      <4>1. j < i
        BY <3>3, <1>1
      <4> QED BY <4>1, <3>3, <2>6
    <3> QED BY <3>1, <3>2, <3>3, <1>13
  <2> HIDE DEF h
  <2>8. all[l + i - 1][2] = h /\ Len(new[l + i - 1]) = h + 1
    BY <2>1, <2>3 DEF h
  <2> QED BY <2>1, <2>3, <2>7, <2>8 DEF Guarded
<1>17. Len(new) = Len(all) + 1
  BY <1>1, <1>8, <1>9
<1>18. \A q \in 1 .. Len(all) : Leads(new[q], all[q], new[q + 1])
  BY <1>9, <1>11, <1>12, <1>13
<1>19. ASSUME NEW q \in 1 .. Len(all), all[q][1] = "recover" PROVE Guarded(all, new, q)
  <2>1. q \in 1 .. l + m - 1
    BY <1>9
  <2>2. CASE q \in 1 .. l
    BY <2>2, <1>15, <1>19
  <2>3. ASSUME NEW i \in 2 .. m, q = l + i - 1 PROVE Guarded(all, new, q)
    <3>1. all[l + i - 1][1] = "recover"
      BY <2>3, <1>19
    <3>2. Guarded(all, new, l + i - 1)
      BY <3>1, <1>16
    <3> QED BY <3>2, <2>3
  <2> QED BY <2>1, <2>2, <2>3, <1>13
<1>20. Typed(all, vals, errors, new)
  BY <1>8, <1>10, <1>17, <1>18, <1>19 DEF Typed
<1> QED BY <1>20 DEF all

LEMMA OrderedReplacement ==
  ASSUME NEW items \in Seq(Items), Ordered(items), NEW p \in Seq(Items), p # <<>>,
         \/ /\ Final(items[1])
            /\ \A i \in 1 .. Len(p) : p[i] \in TopItems /\ (Final(p[i]) <=> i = Len(p))
         \/ /\ ~Final(items[1]) /\ \A i \in 1 .. Len(p) : ~Final(p[i])
            /\ \/ p[Len(p)][1] = "recover"
               \/ items[1] \notin TopItems /\ items[1][1] # "recover"
  PROVE  Ordered(p \o Tail(items))
<1> DEFINE m == Len(items)
           l == Len(p)
           all == p \o Tail(items)
<1>1. m \in Nat /\ m >= 1 /\ l \in Nat /\ l >= 1
  BY LenProperties, EmptySeq DEF Ordered
<1>2. /\ all \in Seq(Items) /\ Len(all) = l + m - 1
      /\ \A i \in 1 .. l : all[i] = p[i]
      /\ \A q \in 1 .. l + m - 1 : q > l => all[q] = items[q - l + 1]
  <2>1. /\ Tail(items) \in Seq(Items) /\ Len(Tail(items)) = m - 1
        /\ \A i \in 1 .. m - 1 : Tail(items)[i] = items[i + 1]
    BY HeadTailProperties DEF Ordered
  <2>2. /\ all \in Seq(Items) /\ Len(all) = l + (m - 1)
        /\ \A i \in 1 .. l + (m - 1) : all[i] = IF i <= l THEN p[i] ELSE Tail(items)[i - l]
    BY <2>1, ConcatProperties
  <2> HIDE DEF all
  <2>3. ASSUME NEW i \in 1 .. l PROVE all[i] = p[i]
    BY <2>2, <1>1
  <2>4. ASSUME NEW q \in 1 .. l + m - 1, q > l PROVE all[q] = items[q - l + 1]
    <3>1. q \in 1 .. l + (m - 1) /\ ~(q <= l) /\ q - l \in 1 .. m - 1
      BY <2>4, <1>1
    <3> QED BY <3>1, <2>1, <2>2
  <2>5. l + (m - 1) = l + m - 1
    BY <1>1
  <2> QED BY <2>2, <2>3, <2>4, <2>5
<1>3. all # <<>>
  BY <1>1, <1>2, EmptySeq
<1>4. \A i \in 1 .. m : Final(items[i]) <=> i = m
  BY DEF Ordered
<1>5. \A i \in 1 .. m : items[i] \in TopItems \/ \E j \in i .. m : items[j][1] = "recover"
  BY DEF Ordered
<1> HIDE DEF m, l, all
<1>6. CASE /\ Final(items[1])
           /\ \A i \in 1 .. l : p[i] \in TopItems /\ (Final(p[i]) <=> i = l)
  <2>1. m = 1
    BY <1>1, <1>4, <1>6
  <2>2. \A i \in 1 .. Len(all) : i \in 1 .. l /\ all[i] = p[i] /\ (i = Len(all) <=> i = l)
    BY <2>1, <1>1, <1>2
  <2>3. \A i \in 1 .. Len(all) : all[i] \in TopItems /\ (Final(all[i]) <=> i = Len(all))
    BY <2>2, <1>6
  <2> QED BY <2>3, <1>3 DEF Ordered, all
<1>7. CASE /\ ~Final(items[1]) /\ \A i \in 1 .. l : ~Final(p[i])
           /\ \/ p[l][1] = "recover"
              \/ items[1] \notin TopItems /\ items[1][1] # "recover"
  <2>1. m # 1
    BY <1>1, <1>4, <1>7
  <2>2. ASSUME NEW q \in 1 .. l + m - 1 PROVE Final(all[q]) <=> q = l + m - 1
    <3>1. CASE q <= l
      <4>1. q \in 1 .. l /\ q # l + m - 1
        BY <3>1, <2>1, <1>1
      <4> QED BY <4>1, <1>2, <1>7
    <3>2. CASE q > l
      <4>1. q - l + 1 \in 1 .. m /\ (q - l + 1 = m <=> q = l + m - 1)
        BY <3>2, <1>1
      <4>2. all[q] = items[q - l + 1]
        BY <3>2, <1>2
      <4> QED BY <4>1, <4>2, <1>4
    <3> QED BY <3>1, <3>2, <1>1
  <2>3. ASSUME NEW i \in 2 .. m, items[i][1] = "recover"
        PROVE  l + i - 1 \in 1 .. l + m - 1 /\ all[l + i - 1][1] = "recover"
    <3> DEFINE q == l + i - 1
    <3>1. q \in 1 .. l + m - 1 /\ q > l /\ q - l + 1 = i
      BY <1>1
    <3> HIDE DEF q
    <3>2. all[q] = items[i]
      BY <3>1, <1>2
    <3> QED BY <3>1, <3>2, <2>3 DEF q
  <2>4. ASSUME NEW q \in 1 .. l + m - 1
        PROVE  all[q] \in TopItems \/ \E j \in q .. l + m - 1 : all[j][1] = "recover"
    <3>1. CASE q <= l /\ p[l][1] = "recover"
      <4>1. l \in q .. l + m - 1 /\ l \in 1 .. l
        BY <3>1, <1>1
      <4> QED BY <4>1, <3>1, <1>2
    <3>2. CASE q <= l /\ items[1] \notin TopItems /\ items[1][1] # "recover"
      <4>1. PICK j \in 1 .. m : items[j][1] = "recover"
        <5>1. 1 \in 1 .. m
          BY <1>1
        <5> QED BY <5>1, <3>2, <1>5
      <4>2. j \in 2 .. m
        BY <4>1, <3>2, <1>1
      <4>3. l + j - 1 \in q .. l + m - 1
        BY <4>2, <3>2, <1>1
      <4> QED BY <4>1, <4>2, <4>3, <2>3
    <3>3. CASE q > l
      <4>1. q - l + 1 \in 1 .. m /\ all[q] = items[q - l + 1]
        BY <3>3, <1>1, <1>2
      <4>2. ASSUME NEW j \in q - l + 1 .. m, items[j][1] = "recover"
            PROVE  \E k \in q .. l + m - 1 : all[k][1] = "recover"
        <5>1. j \in 2 .. m /\ l + j - 1 \in q .. l + m - 1
          BY <3>3, <1>1
        <5> QED BY <5>1, <4>2, <2>3
      <4> QED BY <4>1, <4>2, <1>5
    <3> QED BY <3>1, <3>2, <3>3, <1>1, <1>7
  <2> QED BY <2>2, <2>4, <1>2, <1>3 DEF Ordered, all
<1> QED BY <1>6, <1>7 DEF m, l

-----------------------------------------------------------------------------
(* What items do, one kind after the other.                                 *)
Plain(item) == item \in Items /\ item[1] # "recover" /\ ~Final(item)
Pushes(item, g) == Plain(item) /\ Takes(item) = <<>> /\ Gives(item) = <<g>>
Turns(item, t, g) == Plain(item) /\ Takes(item) = <<t>> /\ Gives(item) = <<g>>
Joins(item, t, u, g) == Plain(item) /\ Takes(item) = <<t, u>> /\ Gives(item) = <<g>>
Merges(item, u) == Plain(item) /\ Takes(item) = <<Never, u, IF u = Never THEN Never ELSE Maybe>>
                   /\ Gives(item) = <<Never>>

LEMMA Effects ==
  /\ \A s \in {"parameter", "compound_statement", "expression", "var", "simple_exp", "sum_exp",
               "term", "factor"} : Pushes(G(s), Never)
  /\ \A s \in {"unit", "declaration", "statement"} : Pushes(G(s), AfterErrors)
  /\ \A s \in {"parameters", "args"} : Pushes(G(s), Maybe)
  /\ \A s \in {"more parameters", "more declarations", "more statements", "more args"} :
       Turns(G(s), Maybe, Maybe)
  /\ \A s \in {"more terms", "more factors"} : Turns(G(s), Never, Never)
  /\ \A k \in Kinds : /\ Pushes(Leaf(k), Never) /\ Turns(Wrap(k), Maybe, Never)
                      /\ Joins(Pair(k), Never, Maybe, Never)
  /\ Plain(T) /\ Takes(T) = <<>> /\ Gives(T) = <<>>
  /\ Pushes(Do("nothing"), Maybe) /\ Pushes(Do("array"), Never)
  /\ Turns(Do("extern array"), Maybe, Never)
  /\ Joins(Do("append"), Maybe, Maybe, Maybe)
  /\ Joins(Do("compound"), Maybe, Maybe, Never) /\ Joins(Do("definition"), Maybe, Maybe, Never)
  /\ Merges(Do("infix"), Never) /\ Merges(Do("macc"), Never) /\ Merges(Do("if else"), AfterErrors)
<1> USE DEF Plain, Pushes, Turns, Joins, Merges, Takes, Gives, Final, Items, Symbols, Actions,
            G, T, Leaf, Wrap, Pair, Do, Recovering
<1>1. \A s \in {"parameter", "compound_statement", "expression", "var", "simple_exp", "sum_exp",
                "term", "factor"} : Pushes(G(s), Never)
  BY ZenonT(60)
<1>2. \A s \in {"unit", "declaration", "statement"} : Pushes(G(s), AfterErrors)
  OBVIOUS
<1>3. \A s \in {"parameters", "args"} : Pushes(G(s), Maybe)
  OBVIOUS
<1>4. \A s \in {"more parameters", "more declarations", "more statements", "more args"} :
        Turns(G(s), Maybe, Maybe)
  BY ZenonT(30)
<1>5. \A s \in {"more terms", "more factors"} : Turns(G(s), Never, Never)
  OBVIOUS
<1>6. ASSUME NEW k \in Kinds
      PROVE  /\ Pushes(Leaf(k), Never) /\ Turns(Wrap(k), Maybe, Never)
             /\ Joins(Pair(k), Never, Maybe, Never)
  OBVIOUS
<1>7. Plain(T) /\ Takes(T) = <<>> /\ Gives(T) = <<>>
  OBVIOUS
<1>8. /\ Pushes(Do("nothing"), Maybe) /\ Pushes(Do("array"), Never)
      /\ Turns(Do("extern array"), Maybe, Never)
  OBVIOUS
<1>9. /\ Joins(Do("append"), Maybe, Maybe, Maybe)
      /\ Joins(Do("compound"), Maybe, Maybe, Never) /\ Joins(Do("definition"), Maybe, Maybe, Never)
  OBVIOUS
<1>10. Merges(Do("infix"), Never) /\ Merges(Do("macc"), Never)
       /\ Merges(Do("if else"), AfterErrors)
  BY DEF Never, AfterErrors
<1> QED BY <1>1, <1>2, <1>3, <1>4, <1>5, <1>6, <1>7, <1>8, <1>9, <1>10

LEMMA SmallLevels ==
  /\ Never \in Nullness /\ AfterErrors \in Nullness /\ Maybe \in Nullness
  /\ <<>> \in Level
  /\ \A x \in Nullness : <<x>> \in Level
  /\ \A x \in Nullness, y \in Nullness : <<x, y>> \in Level
  /\ \A x \in Nullness, y \in Nullness, z \in Nullness : <<x, y, z>> \in Level
BY DEF Level, Nullness

LEMMA PushLeads ==
  ASSUME NEW item, NEW g \in Nullness, Pushes(item, g)
  PROVE  /\ Leads(<<>>, item, <<g>>)
         /\ \A x \in Nullness : Leads(<<x>>, item, <<x, g>>)
         /\ \A x \in Nullness, y \in Nullness : Leads(<<x, y>>, item, <<x, y, g>>)
<1>1. Takes(item) = <<>> /\ Gives(item) = <<g>> /\ g <= g /\ \A x \in Nullness : x <= x
  BY DEF Pushes, Nullness, Never, AfterErrors, Maybe
<1>2. Leads(<<>>, item, <<g>>)
  <2>1. 0 \in Nat OBVIOUS
  <2> QED BY <1>1, <2>1 DEF Leads, Below
<1>3. ASSUME NEW x \in Nullness PROVE Leads(<<x>>, item, <<x, g>>)
  BY <1>1 DEF Leads, Below
<1>4. ASSUME NEW x \in Nullness, NEW y \in Nullness PROVE Leads(<<x, y>>, item, <<x, y, g>>)
  BY <1>1 DEF Leads, Below
<1> QED BY <1>2, <1>3, <1>4

LEMMA SkipLeads ==
  ASSUME NEW item, Takes(item) = <<>>, Gives(item) = <<>>
  PROVE  /\ Leads(<<>>, item, <<>>)
         /\ \A x \in Nullness : Leads(<<x>>, item, <<x>>)
         /\ \A x \in Nullness, y \in Nullness : Leads(<<x, y>>, item, <<x, y>>)
         /\ \A x \in Nullness, y \in Nullness, z \in Nullness :
              Leads(<<x, y, z>>, item, <<x, y, z>>)
<1>1. \A x \in Nullness : x <= x
  BY DEF Nullness, Never, AfterErrors, Maybe
<1>2. Leads(<<>>, item, <<>>)
  <2>1. 0 \in Nat OBVIOUS
  <2> QED BY <1>1, <2>1 DEF Leads, Below
<1>3. ASSUME NEW x \in Nullness PROVE Leads(<<x>>, item, <<x>>)
  BY <1>1 DEF Leads, Below
<1>4. ASSUME NEW x \in Nullness, NEW y \in Nullness PROVE Leads(<<x, y>>, item, <<x, y>>)
  BY <1>1 DEF Leads, Below
<1>5. ASSUME NEW x \in Nullness, NEW y \in Nullness, NEW z \in Nullness
      PROVE  Leads(<<x, y, z>>, item, <<x, y, z>>)
  BY <1>1 DEF Leads, Below
<1> QED BY <1>2, <1>3, <1>4, <1>5

LEMMA TurnLeads ==
  ASSUME NEW item, NEW t \in Nullness, NEW g \in Nullness, Turns(item, t, g),
         NEW x \in Nullness, x <= t
  PROVE  /\ Leads(<<x>>, item, <<g>>)
         /\ \A y \in Nullness : Leads(<<y, x>>, item, <<y, g>>)
<1>1. Takes(item) = <<t>> /\ Gives(item) = <<g>> /\ g <= g
      /\ x \in Int /\ t \in Int /\ g \in Int /\ \A y \in Nullness : y \in Int
  BY DEF Turns, Nullness, Never, AfterErrors, Maybe
<1>2. Leads(<<x>>, item, <<g>>)
  <2>1. /\ 0 \in Nat /\ Len(<<x>>) = 0 + Len(<<t>>) /\ Len(<<g>>) = 0 + Len(<<g>>)
        /\ Below(<<x>>, <<g>>, 0)
    BY <1>1 DEF Below
  <2>2. \A k \in 1 .. Len(<<t>>) : <<x>>[0 + k] <= <<t>>[k]
    BY <1>1
  <2>3. \A k \in 1 .. Len(<<g>>) : <<g>>[k] <= <<g>>[0 + k]
    BY <1>1
  <2> QED BY <1>1, <2>1, <2>2, <2>3 DEF Leads
<1>3. ASSUME NEW y \in Nullness PROVE Leads(<<y, x>>, item, <<y, g>>)
  <2>1. /\ 1 \in Nat /\ Len(<<y, x>>) = 1 + Len(<<t>>) /\ Len(<<y, g>>) = 1 + Len(<<g>>)
        /\ Below(<<y, x>>, <<y, g>>, 1)
    BY <1>1 DEF Below
  <2>2. \A k \in 1 .. Len(<<t>>) : <<y, x>>[1 + k] <= <<t>>[k]
    BY <1>1
  <2>3. \A k \in 1 .. Len(<<g>>) : <<g>>[k] <= <<y, g>>[1 + k]
    BY <1>1
  <2> QED BY <1>1, <2>1, <2>2, <2>3 DEF Leads
<1> QED BY <1>2, <1>3

LEMMA JoinLeads ==
  ASSUME NEW item, NEW t \in Nullness, NEW u \in Nullness, NEW g \in Nullness, Joins(item, t, u, g),
         NEW x \in Nullness, NEW y \in Nullness, x <= t, y <= u
  PROVE  Leads(<<x, y>>, item, <<g>>)
<1>1. Takes(item) = <<t, u>> /\ Gives(item) = <<g>> /\ g <= g
  BY DEF Joins, Nullness, Never, AfterErrors, Maybe
<1>2. 0 \in Nat
  OBVIOUS
<1> QED BY <1>1, <1>2 DEF Leads, Below

LEMMA MergeLeads ==
  ASSUME NEW item
  PROVE  /\ Merges(item, Never) => Leads(<<Never, Never, Never>>, item, <<Never>>)
         /\ Merges(item, AfterErrors) =>
              Leads(<<Never, AfterErrors, AfterErrors>>, item, <<Never>>)
<1> USE DEF Never, AfterErrors, Maybe
<1>1. 0 \in Nat
  OBVIOUS
<1>2. ASSUME Merges(item, Never) PROVE Leads(<<Never, Never, Never>>, item, <<Never>>)
  BY <1>1, <1>2 DEF Merges, Leads, Below
<1>3. ASSUME Merges(item, AfterErrors)
      PROVE  Leads(<<Never, AfterErrors, AfterErrors>>, item, <<Never>>)
  BY <1>1, <1>3 DEF Merges, Leads, Below
<1> QED BY <1>2, <1>3

(* A production that can be done from level a on and gives level b.         *)
Sound(p, a, b) == /\ p \in Seq(Items) /\ p # <<>>
                  /\ \A i \in 1 .. Len(p) : Plain(p[i])
                  /\ \E tops : Chained(p, a, b, tops)

LEMMA OneItem ==
  ASSUME NEW i1, Plain(i1), NEW a1 \in Level, NEW a2 \in Level, Leads(a1, i1, a2)
  PROVE  Sound(<<i1>>, a1, a2)
<1>1. Chained(<<i1>>, a1, a2, <<a1, a2>>)
  BY DEF Chained
<1> QED BY <1>1 DEF Sound, Plain

LEMMA TwoItems ==
  ASSUME NEW i1, NEW i2, Plain(i1), Plain(i2), NEW a1 \in Level, NEW a2 \in Level, NEW a3 \in Level,
         Leads(a1, i1, a2), Leads(a2, i2, a3)
  PROVE  Sound(<<i1, i2>>, a1, a3)
<1>1. Chained(<<i1, i2>>, a1, a3, <<a1, a2, a3>>)
  BY DEF Chained
<1> QED BY <1>1 DEF Sound, Plain

LEMMA ThreeItems ==
  ASSUME NEW i1, NEW i2, NEW i3, Plain(i1), Plain(i2), Plain(i3),
         NEW a1 \in Level, NEW a2 \in Level, NEW a3 \in Level, NEW a4 \in Level,
         Leads(a1, i1, a2), Leads(a2, i2, a3), Leads(a3, i3, a4)
  PROVE  Sound(<<i1, i2, i3>>, a1, a4)
<1>1. Chained(<<i1, i2, i3>>, a1, a4, <<a1, a2, a3, a4>>)
  BY DEF Chained
<1> QED BY <1>1 DEF Sound, Plain

LEMMA FourItems ==
  ASSUME NEW i1, NEW i2, NEW i3, NEW i4, Plain(i1), Plain(i2), Plain(i3), Plain(i4),
         NEW a1 \in Level, NEW a2 \in Level, NEW a3 \in Level, NEW a4 \in Level, NEW a5 \in Level,
         Leads(a1, i1, a2), Leads(a2, i2, a3), Leads(a3, i3, a4), Leads(a4, i4, a5)
  PROVE  Sound(<<i1, i2, i3, i4>>, a1, a5)
<1>1. Chained(<<i1, i2, i3, i4>>, a1, a5, <<a1, a2, a3, a4, a5>>)
  BY DEF Chained
<1> QED BY <1>1 DEF Sound, Plain

LEMMA FiveItems ==
  ASSUME NEW i1, NEW i2, NEW i3, NEW i4, NEW i5,
         Plain(i1), Plain(i2), Plain(i3), Plain(i4), Plain(i5),
         NEW a1 \in Level, NEW a2 \in Level, NEW a3 \in Level, NEW a4 \in Level, NEW a5 \in Level,
         NEW a6 \in Level, Leads(a1, i1, a2), Leads(a2, i2, a3), Leads(a3, i3, a4),
         Leads(a4, i4, a5), Leads(a5, i5, a6)
  PROVE  Sound(<<i1, i2, i3, i4, i5>>, a1, a6)
<1>1. Chained(<<i1, i2, i3, i4, i5>>, a1, a6, <<a1, a2, a3, a4, a5, a6>>)
  BY DEF Chained
<1> QED BY <1>1 DEF Sound, Plain

LEMMA SoundHigher ==
  ASSUME NEW p, NEW a \in Level, NEW x \in Nullness, NEW y \in Nullness, x <= y, Sound(p, a, <<x>>)
  PROVE  Sound(p, a, <<y>>)
<1> DEFINE l == Len(p)
<1>1. PICK tops : Chained(p, a, <<x>>, tops)
  BY DEF Sound
<1>2. l \in Nat /\ l >= 1
  BY LenProperties, EmptySeq DEF Sound
<1>3. /\ tops \in Seq(Level) /\ Len(tops) = l + 1 /\ tops[1] = a /\ tops[l + 1] = <<x>>
      /\ \A i \in 1 .. l : Leads(tops[i], p[i], tops[i + 1])
  BY <1>1 DEF Chained
<1> HIDE DEF l
<1> DEFINE new == [i \in 1 .. l + 1 |-> IF i = l + 1 THEN <<y>> ELSE tops[i]]
<1>4. \A i \in 1 .. l + 1 : tops[i] \in Level
  BY <1>3, ElementOfSeq
<1>5. /\ <<x>> \in Level /\ <<y>> \in Level /\ Len(<<x>>) = Len(<<y>>)
      /\ Below(<<x>>, <<y>>, Len(<<x>>))
  BY SmallLevels DEF Below
<1>6. new \in Seq(Level) /\ Len(new) = l + 1
  <2>1. \A i \in 1 .. l + 1 : (IF i = l + 1 THEN <<y>> ELSE tops[i]) \in Level
    BY <1>4, <1>5
  <2>2. l + 1 \in Nat
    BY <1>2
  <2> QED BY <2>1, <2>2, IsASeq
<1>7. new[1] = a /\ new[l + 1] = <<y>>
  BY <1>2, <1>3
<1>8. ASSUME NEW i \in 1 .. l PROVE Leads(new[i], p[i], new[i + 1])
  <2>1. /\ new[i] = tops[i] /\ tops[i] \in Level /\ i + 1 \in 1 .. l + 1
        /\ new[i + 1] = IF i = l THEN <<y>> ELSE tops[i + 1]
    BY <1>2, <1>4
  <2>2. Leads(tops[i], p[i], tops[i + 1])
    BY <1>3
  <2>3. CASE i = l
    <3>1. Leads(tops[i], p[i], <<x>>)
      BY <2>2, <2>3, <1>3
    <3>2. Leads(tops[i], p[i], <<y>>)
      BY <3>1, <2>1, <1>5, LeadsHigher
    <3> QED BY <3>2, <2>1, <2>3
  <2>4. CASE i # l
    BY <2>1, <2>2, <2>4
  <2> QED BY <2>3, <2>4
<1> HIDE DEF new
<1>9. Chained(p, a, <<y>>, new)
  BY <1>6, <1>7, <1>8 DEF Chained, l
<1> QED BY <1>9 DEF Sound

LEMMA MoreOrLess == \A x \in Nullness : x <= x /\ x <= Maybe /\ Never <= x
BY DEF Nullness, Never, AfterErrors, Maybe

(* Productions do what their symbols are to do.                             *)
LEMMA UnitSound == \A p \in Productions("unit") :
  Sound(p, <<>>, <<AfterErrors>>)
<1>1. Productions("unit") = {<<G("parameters"), T, Wrap("FUNCTION_DECLARATION_NODE")>>,
                             <<G("parameters"), T, G("compound_statement"), Do("definition")>>,
                             <<G("declaration")>>}
  BY DEF Productions, Declarations
<1>2. Sound(<<G("parameters"), T, Wrap("FUNCTION_DECLARATION_NODE")>>, <<>>, <<AfterErrors>>)
  <2>1. Plain(G("parameters")) /\ Plain(T) /\ Plain(Wrap("FUNCTION_DECLARATION_NODE"))
    BY Effects DEF Kinds, Pushes, Turns, Joins, Merges
  <2>2. /\ Leads(<<>>, G("parameters"), <<Maybe>>)
        /\ Leads(<<Maybe>>, T, <<Maybe>>)
        /\ Leads(<<Maybe>>, Wrap("FUNCTION_DECLARATION_NODE"), <<Never>>)
    BY Effects, SmallLevels, MoreOrLess, PushLeads, SkipLeads, TurnLeads DEF Kinds
  <2>3. Sound(<<G("parameters"), T, Wrap("FUNCTION_DECLARATION_NODE")>>, <<>>, <<Never>>)
    BY <2>1, <2>2, SmallLevels, ThreeItems
  <2> QED BY <2>3, SmallLevels, MoreOrLess, SoundHigher
<1>3. Sound(<<G("parameters"), T, G("compound_statement"), Do("definition")>>,
            <<>>, <<AfterErrors>>)
  <2>1. /\ Plain(G("parameters")) /\ Plain(T)
        /\ Plain(G("compound_statement")) /\ Plain(Do("definition"))
    BY Effects DEF Kinds, Pushes, Turns, Joins, Merges
  <2>2. /\ Leads(<<>>, G("parameters"), <<Maybe>>)
        /\ Leads(<<Maybe>>, T, <<Maybe>>)
        /\ Leads(<<Maybe>>, G("compound_statement"), <<Maybe, Never>>)
        /\ Leads(<<Maybe, Never>>, Do("definition"), <<Never>>)
    BY Effects, SmallLevels, MoreOrLess, JoinLeads, PushLeads, SkipLeads DEF Kinds
  <2>3. Sound(<<G("parameters"), T, G("compound_statement"), Do("definition")>>, <<>>, <<Never>>)
    BY <2>1, <2>2, SmallLevels, FourItems
  <2> QED BY <2>3, SmallLevels, MoreOrLess, SoundHigher
<1>4. Sound(<<G("declaration")>>, <<>>, <<AfterErrors>>)
  <2>1. Plain(G("declaration"))
    BY Effects DEF Kinds, Pushes, Turns, Joins, Merges
  <2>2. Leads(<<>>, G("declaration"), <<AfterErrors>>)
    BY Effects, SmallLevels, MoreOrLess, PushLeads DEF Kinds
  <2> QED BY <2>1, <2>2, SmallLevels, OneItem
<1> QED BY <1>1, <1>2, <1>3, <1>4

LEMMA ParametersSound == \A p \in Productions("parameters") :
  Sound(p, <<>>, <<Maybe>>)
<1>1. Productions("parameters") = {<<Do("nothing")>>,
                                   <<G("parameter"), G("more parameters")>>}
  BY DEF Productions, Declarations
<1>2. Sound(<<Do("nothing")>>, <<>>, <<Maybe>>)
  <2>1. Plain(Do("nothing"))
    BY Effects DEF Kinds, Pushes, Turns, Joins, Merges
  <2>2. Leads(<<>>, Do("nothing"), <<Maybe>>)
    BY Effects, SmallLevels, MoreOrLess, PushLeads DEF Kinds
  <2> QED BY <2>1, <2>2, SmallLevels, OneItem
<1>3. Sound(<<G("parameter"), G("more parameters")>>, <<>>, <<Maybe>>)
  <2>1. Plain(G("parameter")) /\ Plain(G("more parameters"))
    BY Effects DEF Kinds, Pushes, Turns, Joins, Merges
  <2>2. /\ Leads(<<>>, G("parameter"), <<Never>>)
        /\ Leads(<<Never>>, G("more parameters"), <<Maybe>>)
    BY Effects, SmallLevels, MoreOrLess, PushLeads, TurnLeads DEF Kinds
  <2> QED BY <2>1, <2>2, SmallLevels, TwoItems
<1> QED BY <1>1, <1>2, <1>3

LEMMA MoreParametersSound == \A p \in Productions("more parameters") :
  p = <<>> \/ Sound(p, <<Maybe>>, <<Maybe>>)
<1>1. Productions("more parameters") = {<<>>,
                                        <<G("parameter"), Do("append"), G("more parameters")>>}
  BY DEF Productions, Declarations
<1>2. Sound(<<G("parameter"), Do("append"), G("more parameters")>>, <<Maybe>>, <<Maybe>>)
  <2>1. Plain(G("parameter")) /\ Plain(Do("append")) /\ Plain(G("more parameters"))
    BY Effects DEF Kinds, Pushes, Turns, Joins, Merges
  <2>2. /\ Leads(<<Maybe>>, G("parameter"), <<Maybe, Never>>)
        /\ Leads(<<Maybe, Never>>, Do("append"), <<Maybe>>)
        /\ Leads(<<Maybe>>, G("more parameters"), <<Maybe>>)
    BY Effects, SmallLevels, MoreOrLess, JoinLeads, PushLeads, TurnLeads DEF Kinds
  <2> QED BY <2>1, <2>2, SmallLevels, ThreeItems
<1> QED BY <1>1, <1>2

LEMMA ParameterSound == \A p \in Productions("parameter") :
  Sound(p, <<>>, <<Never>>)
<1>1. Productions("parameter") = {<<Leaf("DECLARATION_NODE")>>}
  BY DEF Productions, Declarations
<1>2. Sound(<<Leaf("DECLARATION_NODE")>>, <<>>, <<Never>>)
  <2>1. Plain(Leaf("DECLARATION_NODE"))
    BY Effects DEF Kinds, Pushes, Turns, Joins, Merges
  <2>2. Leads(<<>>, Leaf("DECLARATION_NODE"), <<Never>>)
    BY Effects, SmallLevels, MoreOrLess, PushLeads DEF Kinds
  <2> QED BY <2>1, <2>2, SmallLevels, OneItem
<1> QED BY <1>1, <1>2

LEMMA DeclarationSound == \A p \in Productions("declaration") :
  Sound(p, <<>>, <<AfterErrors>>)
<1>1. Productions("declaration") = {<<T, Leaf("DECLARATION_NODE")>>,
                                    <<T, Do("array")>>,
                                    <<Leaf("EXTERN_STORAGE"), T, Wrap("DECLARATION_NODE")>>,
                                    <<Leaf("EXTERN_STORAGE"), T, Do("extern array")>>}
  BY DEF Productions, Declarations
<1>2. Sound(<<T, Leaf("DECLARATION_NODE")>>, <<>>, <<AfterErrors>>)
  <2>1. Plain(T) /\ Plain(Leaf("DECLARATION_NODE"))
    BY Effects DEF Kinds, Pushes, Turns, Joins, Merges
  <2>2. /\ Leads(<<>>, T, <<>>)
        /\ Leads(<<>>, Leaf("DECLARATION_NODE"), <<Never>>)
    BY Effects, SmallLevels, MoreOrLess, PushLeads, SkipLeads DEF Kinds
  <2>3. Sound(<<T, Leaf("DECLARATION_NODE")>>, <<>>, <<Never>>)
    BY <2>1, <2>2, SmallLevels, TwoItems
  <2> QED BY <2>3, SmallLevels, MoreOrLess, SoundHigher
<1>3. Sound(<<T, Do("array")>>, <<>>, <<AfterErrors>>)
  <2>1. Plain(T) /\ Plain(Do("array"))
    BY Effects DEF Kinds, Pushes, Turns, Joins, Merges
  <2>2. /\ Leads(<<>>, T, <<>>)
        /\ Leads(<<>>, Do("array"), <<Never>>)
    BY Effects, SmallLevels, MoreOrLess, PushLeads, SkipLeads DEF Kinds
  <2>3. Sound(<<T, Do("array")>>, <<>>, <<Never>>)
    BY <2>1, <2>2, SmallLevels, TwoItems
  <2> QED BY <2>3, SmallLevels, MoreOrLess, SoundHigher
<1>4. Sound(<<Leaf("EXTERN_STORAGE"), T, Wrap("DECLARATION_NODE")>>, <<>>, <<AfterErrors>>)
  <2>1. Plain(Leaf("EXTERN_STORAGE")) /\ Plain(T) /\ Plain(Wrap("DECLARATION_NODE"))
    BY Effects DEF Kinds, Pushes, Turns, Joins, Merges
  <2>2. /\ Leads(<<>>, Leaf("EXTERN_STORAGE"), <<Never>>)
        /\ Leads(<<Never>>, T, <<Never>>)
        /\ Leads(<<Never>>, Wrap("DECLARATION_NODE"), <<Never>>)
    BY Effects, SmallLevels, MoreOrLess, PushLeads, SkipLeads, TurnLeads DEF Kinds
  <2>3. Sound(<<Leaf("EXTERN_STORAGE"), T, Wrap("DECLARATION_NODE")>>, <<>>, <<Never>>)
    BY <2>1, <2>2, SmallLevels, ThreeItems
  <2> QED BY <2>3, SmallLevels, MoreOrLess, SoundHigher
<1>5. Sound(<<Leaf("EXTERN_STORAGE"), T, Do("extern array")>>, <<>>, <<AfterErrors>>)
  <2>1. Plain(Leaf("EXTERN_STORAGE")) /\ Plain(T) /\ Plain(Do("extern array"))
    BY Effects DEF Kinds, Pushes, Turns, Joins, Merges
  <2>2. /\ Leads(<<>>, Leaf("EXTERN_STORAGE"), <<Never>>)
        /\ Leads(<<Never>>, T, <<Never>>)
        /\ Leads(<<Never>>, Do("extern array"), <<Never>>)
    BY Effects, SmallLevels, MoreOrLess, PushLeads, SkipLeads, TurnLeads DEF Kinds
  <2>3. Sound(<<Leaf("EXTERN_STORAGE"), T, Do("extern array")>>, <<>>, <<Never>>)
    BY <2>1, <2>2, SmallLevels, ThreeItems
  <2> QED BY <2>3, SmallLevels, MoreOrLess, SoundHigher
<1> QED BY <1>1, <1>2, <1>3, <1>4, <1>5

LEMMA CompoundStatementSound == \A p \in Productions("compound_statement") :
  Sound(p, <<>>, <<Never>>)
<1>1. Productions("compound_statement") =
        {<<Do("nothing"), G("more declarations"), Do("nothing"), G("more statements"),
           Do("compound")>>}
  BY DEF Productions, Statements
<1>2. Sound(<<Do("nothing"), G("more declarations"), Do("nothing"), G("more statements"),
              Do("compound")>>, <<>>, <<Never>>)
  <2>1. /\ Plain(Do("nothing")) /\ Plain(G("more declarations"))
        /\ Plain(G("more statements")) /\ Plain(Do("compound"))
    BY Effects DEF Kinds, Pushes, Turns, Joins, Merges
  <2>2. /\ Leads(<<>>, Do("nothing"), <<Maybe>>)
        /\ Leads(<<Maybe>>, G("more declarations"), <<Maybe>>)
        /\ Leads(<<Maybe>>, Do("nothing"), <<Maybe, Maybe>>)
        /\ Leads(<<Maybe, Maybe>>, G("more statements"), <<Maybe, Maybe>>)
        /\ Leads(<<Maybe, Maybe>>, Do("compound"), <<Never>>)
    BY Effects, SmallLevels, MoreOrLess, JoinLeads, PushLeads, TurnLeads DEF Kinds
  <2> QED BY <2>1, <2>2, SmallLevels, FiveItems
<1> QED BY <1>1, <1>2

LEMMA MoreDeclarationsSound == \A p \in Productions("more declarations") :
  p = <<>> \/ Sound(p, <<Maybe>>, <<Maybe>>)
<1>1. Productions("more declarations") = {<<>>,
                                          <<G("declaration"), Do("append"), G("more declarations")>>}
  BY DEF Productions, Statements
<1>2. Sound(<<G("declaration"), Do("append"), G("more declarations")>>, <<Maybe>>, <<Maybe>>)
  <2>1. Plain(G("declaration")) /\ Plain(Do("append")) /\ Plain(G("more declarations"))
    BY Effects DEF Kinds, Pushes, Turns, Joins, Merges
  <2>2. /\ Leads(<<Maybe>>, G("declaration"), <<Maybe, AfterErrors>>)
        /\ Leads(<<Maybe, AfterErrors>>, Do("append"), <<Maybe>>)
        /\ Leads(<<Maybe>>, G("more declarations"), <<Maybe>>)
    BY Effects, SmallLevels, MoreOrLess, JoinLeads, PushLeads, TurnLeads DEF Kinds
  <2> QED BY <2>1, <2>2, SmallLevels, ThreeItems
<1> QED BY <1>1, <1>2

LEMMA MoreStatementsSound == \A p \in Productions("more statements") :
  p = <<>> \/ Sound(p, <<Maybe>>, <<Maybe>>)
<1>1. Productions("more statements") = {<<>>,
                                        <<G("statement"), Do("append"), G("more statements")>>}
  BY DEF Productions, Statements
<1>2. Sound(<<G("statement"), Do("append"), G("more statements")>>, <<Maybe>>, <<Maybe>>)
  <2>1. Plain(G("statement")) /\ Plain(Do("append")) /\ Plain(G("more statements"))
    BY Effects DEF Kinds, Pushes, Turns, Joins, Merges
  <2>2. /\ Leads(<<Maybe>>, G("statement"), <<Maybe, AfterErrors>>)
        /\ Leads(<<Maybe, AfterErrors>>, Do("append"), <<Maybe>>)
        /\ Leads(<<Maybe>>, G("more statements"), <<Maybe>>)
    BY Effects, SmallLevels, MoreOrLess, JoinLeads, PushLeads, TurnLeads DEF Kinds
  <2> QED BY <2>1, <2>2, SmallLevels, ThreeItems
<1> QED BY <1>1, <1>2

LEMMA StatementSound == \A p \in Productions("statement") :
  Sound(p, <<>>, <<AfterErrors>>)
<1>1. Productions("statement") = {<<G("expression"), T>>,
                                  <<Leaf("EMPTY_NODE")>>,
                                  <<G("compound_statement")>>,
                                  <<G("expression"), T, Wrap("RETURN_NODE")>>,
                                  <<G("expression"), T, G("statement"), Pair("IF_NODE")>>,
                                  <<G("expression"), T, G("statement"), G("statement"), Do("if else")>>}
  BY DEF Productions, Statements, Empty
<1>2. Sound(<<G("expression"), T>>, <<>>, <<AfterErrors>>)
  <2>1. Plain(G("expression")) /\ Plain(T)
    BY Effects DEF Kinds, Pushes, Turns, Joins, Merges
  <2>2. /\ Leads(<<>>, G("expression"), <<Never>>)
        /\ Leads(<<Never>>, T, <<Never>>)
    BY Effects, SmallLevels, MoreOrLess, PushLeads, SkipLeads DEF Kinds
  <2>3. Sound(<<G("expression"), T>>, <<>>, <<Never>>)
    BY <2>1, <2>2, SmallLevels, TwoItems
  <2> QED BY <2>3, SmallLevels, MoreOrLess, SoundHigher
<1>3. Sound(<<Leaf("EMPTY_NODE")>>, <<>>, <<AfterErrors>>)
  <2>1. Plain(Leaf("EMPTY_NODE"))
    BY Effects DEF Kinds, Pushes, Turns, Joins, Merges
  <2>2. Leads(<<>>, Leaf("EMPTY_NODE"), <<Never>>)
    BY Effects, SmallLevels, MoreOrLess, PushLeads DEF Kinds
  <2>3. Sound(<<Leaf("EMPTY_NODE")>>, <<>>, <<Never>>)
    BY <2>1, <2>2, SmallLevels, OneItem
  <2> QED BY <2>3, SmallLevels, MoreOrLess, SoundHigher
<1>4. Sound(<<G("compound_statement")>>, <<>>, <<AfterErrors>>)
  <2>1. Plain(G("compound_statement"))
    BY Effects DEF Kinds, Pushes, Turns, Joins, Merges
  <2>2. Leads(<<>>, G("compound_statement"), <<Never>>)
    BY Effects, SmallLevels, MoreOrLess, PushLeads DEF Kinds
  <2>3. Sound(<<G("compound_statement")>>, <<>>, <<Never>>)
    BY <2>1, <2>2, SmallLevels, OneItem
  <2> QED BY <2>3, SmallLevels, MoreOrLess, SoundHigher
<1>5. Sound(<<G("expression"), T, Wrap("RETURN_NODE")>>, <<>>, <<AfterErrors>>)
  <2>1. Plain(G("expression")) /\ Plain(T) /\ Plain(Wrap("RETURN_NODE"))
    BY Effects DEF Kinds, Pushes, Turns, Joins, Merges
  <2>2. /\ Leads(<<>>, G("expression"), <<Never>>)
        /\ Leads(<<Never>>, T, <<Never>>)
        /\ Leads(<<Never>>, Wrap("RETURN_NODE"), <<Never>>)
    BY Effects, SmallLevels, MoreOrLess, PushLeads, SkipLeads, TurnLeads DEF Kinds
  <2>3. Sound(<<G("expression"), T, Wrap("RETURN_NODE")>>, <<>>, <<Never>>)
    BY <2>1, <2>2, SmallLevels, ThreeItems
  <2> QED BY <2>3, SmallLevels, MoreOrLess, SoundHigher
<1>6. Sound(<<G("expression"), T, G("statement"), Pair("IF_NODE")>>, <<>>, <<AfterErrors>>)
  <2>1. Plain(G("expression")) /\ Plain(T) /\ Plain(G("statement")) /\ Plain(Pair("IF_NODE"))
    BY Effects DEF Kinds, Pushes, Turns, Joins, Merges
  <2>2. /\ Leads(<<>>, G("expression"), <<Never>>)
        /\ Leads(<<Never>>, T, <<Never>>)
        /\ Leads(<<Never>>, G("statement"), <<Never, AfterErrors>>)
        /\ Leads(<<Never, AfterErrors>>, Pair("IF_NODE"), <<Never>>)
    BY Effects, SmallLevels, MoreOrLess, JoinLeads, PushLeads, SkipLeads DEF Kinds
  <2>3. Sound(<<G("expression"), T, G("statement"), Pair("IF_NODE")>>, <<>>, <<Never>>)
    BY <2>1, <2>2, SmallLevels, FourItems
  <2> QED BY <2>3, SmallLevels, MoreOrLess, SoundHigher
<1>7. Sound(<<G("expression"), T, G("statement"), G("statement"), Do("if else")>>,
            <<>>, <<AfterErrors>>)
  <2>1. Plain(G("expression")) /\ Plain(T) /\ Plain(G("statement")) /\ Plain(Do("if else"))
    BY Effects DEF Kinds, Pushes, Turns, Joins, Merges
  <2>2. /\ Leads(<<>>, G("expression"), <<Never>>)
        /\ Leads(<<Never>>, T, <<Never>>)
        /\ Leads(<<Never>>, G("statement"), <<Never, AfterErrors>>)
        /\ Leads(<<Never, AfterErrors>>, G("statement"), <<Never, AfterErrors, AfterErrors>>)
        /\ Leads(<<Never, AfterErrors, AfterErrors>>, Do("if else"), <<Never>>)
    BY Effects, SmallLevels, MoreOrLess, MergeLeads, PushLeads, SkipLeads DEF Kinds
  <2>3. Sound(<<G("expression"), T, G("statement"), G("statement"), Do("if else")>>,
              <<>>, <<Never>>)
    BY <2>1, <2>2, SmallLevels, FiveItems
  <2> QED BY <2>3, SmallLevels, MoreOrLess, SoundHigher
<1> QED BY <1>1, <1>2, <1>3, <1>4, <1>5, <1>6, <1>7

LEMMA ExpressionSound == \A p \in Productions("expression") :
  Sound(p, <<>>, <<Never>>)
<1>1. Productions("expression") = {<<G("var"), G("expression"), Pair("ASSIGNMENT_NODE")>>,
                                   <<G("simple_exp")>>}
  BY DEF Productions, Expressions
<1>2. Sound(<<G("var"), G("expression"), Pair("ASSIGNMENT_NODE")>>, <<>>, <<Never>>)
  <2>1. Plain(G("var")) /\ Plain(G("expression")) /\ Plain(Pair("ASSIGNMENT_NODE"))
    BY Effects DEF Kinds, Pushes, Turns, Joins, Merges
  <2>2. /\ Leads(<<>>, G("var"), <<Never>>)
        /\ Leads(<<Never>>, G("expression"), <<Never, Never>>)
        /\ Leads(<<Never, Never>>, Pair("ASSIGNMENT_NODE"), <<Never>>)
    BY Effects, SmallLevels, MoreOrLess, JoinLeads, PushLeads DEF Kinds
  <2> QED BY <2>1, <2>2, SmallLevels, ThreeItems
<1>3. Sound(<<G("simple_exp")>>, <<>>, <<Never>>)
  <2>1. Plain(G("simple_exp"))
    BY Effects DEF Kinds, Pushes, Turns, Joins, Merges
  <2>2. Leads(<<>>, G("simple_exp"), <<Never>>)
    BY Effects, SmallLevels, MoreOrLess, PushLeads DEF Kinds
  <2> QED BY <2>1, <2>2, SmallLevels, OneItem
<1> QED BY <1>1, <1>2, <1>3

LEMMA VarSound == \A p \in Productions("var") :
  Sound(p, <<>>, <<Never>>)
<1>1. Productions("var") = {<<Leaf("VAR_REFERENCE_NODE")>>,
                            <<G("expression"), T, Wrap("VAR_REFERENCE_NODE")>>}
  BY DEF Productions, Expressions
<1>2. Sound(<<Leaf("VAR_REFERENCE_NODE")>>, <<>>, <<Never>>)
  <2>1. Plain(Leaf("VAR_REFERENCE_NODE"))
    BY Effects DEF Kinds, Pushes, Turns, Joins, Merges
  <2>2. Leads(<<>>, Leaf("VAR_REFERENCE_NODE"), <<Never>>)
    BY Effects, SmallLevels, MoreOrLess, PushLeads DEF Kinds
  <2> QED BY <2>1, <2>2, SmallLevels, OneItem
<1>3. Sound(<<G("expression"), T, Wrap("VAR_REFERENCE_NODE")>>, <<>>, <<Never>>)
  <2>1. Plain(G("expression")) /\ Plain(T) /\ Plain(Wrap("VAR_REFERENCE_NODE"))
    BY Effects DEF Kinds, Pushes, Turns, Joins, Merges
  <2>2. /\ Leads(<<>>, G("expression"), <<Never>>)
        /\ Leads(<<Never>>, T, <<Never>>)
        /\ Leads(<<Never>>, Wrap("VAR_REFERENCE_NODE"), <<Never>>)
    BY Effects, SmallLevels, MoreOrLess, PushLeads, SkipLeads, TurnLeads DEF Kinds
  <2> QED BY <2>1, <2>2, SmallLevels, ThreeItems
<1> QED BY <1>1, <1>2, <1>3

LEMMA SimpleExpSound == \A p \in Productions("simple_exp") :
  Sound(p, <<>>, <<Never>>)
<1>1. Productions("simple_exp") = {<<G("sum_exp")>>,
                                   <<G("sum_exp"), Leaf("LT_NODE"), G("sum_exp"), Do("infix")>>}
  BY DEF Productions, Expressions
<1>2. Sound(<<G("sum_exp")>>, <<>>, <<Never>>)
  <2>1. Plain(G("sum_exp"))
    BY Effects DEF Kinds, Pushes, Turns, Joins, Merges
  <2>2. Leads(<<>>, G("sum_exp"), <<Never>>)
    BY Effects, SmallLevels, MoreOrLess, PushLeads DEF Kinds
  <2> QED BY <2>1, <2>2, SmallLevels, OneItem
<1>3. Sound(<<G("sum_exp"), Leaf("LT_NODE"), G("sum_exp"), Do("infix")>>, <<>>, <<Never>>)
  <2>1. Plain(G("sum_exp")) /\ Plain(Leaf("LT_NODE")) /\ Plain(Do("infix"))
    BY Effects DEF Kinds, Pushes, Turns, Joins, Merges
  <2>2. /\ Leads(<<>>, G("sum_exp"), <<Never>>)
        /\ Leads(<<Never>>, Leaf("LT_NODE"), <<Never, Never>>)
        /\ Leads(<<Never, Never>>, G("sum_exp"), <<Never, Never, Never>>)
        /\ Leads(<<Never, Never, Never>>, Do("infix"), <<Never>>)
    BY Effects, SmallLevels, MoreOrLess, MergeLeads, PushLeads DEF Kinds
  <2> QED BY <2>1, <2>2, SmallLevels, FourItems
<1> QED BY <1>1, <1>2, <1>3

LEMMA SumExpSound == \A p \in Productions("sum_exp") :
  Sound(p, <<>>, <<Never>>)
<1>1. Productions("sum_exp") = {<<G("term"), G("more terms")>>,
                                <<G("term"), Wrap("NEG_NODE"), G("more terms")>>}
  BY DEF Productions, Expressions
<1>2. Sound(<<G("term"), G("more terms")>>, <<>>, <<Never>>)
  <2>1. Plain(G("term")) /\ Plain(G("more terms"))
    BY Effects DEF Kinds, Pushes, Turns, Joins, Merges
  <2>2. /\ Leads(<<>>, G("term"), <<Never>>)
        /\ Leads(<<Never>>, G("more terms"), <<Never>>)
    BY Effects, SmallLevels, MoreOrLess, PushLeads, TurnLeads DEF Kinds
  <2> QED BY <2>1, <2>2, SmallLevels, TwoItems
<1>3. Sound(<<G("term"), Wrap("NEG_NODE"), G("more terms")>>, <<>>, <<Never>>)
  <2>1. Plain(G("term")) /\ Plain(Wrap("NEG_NODE")) /\ Plain(G("more terms"))
    BY Effects DEF Kinds, Pushes, Turns, Joins, Merges
  <2>2. /\ Leads(<<>>, G("term"), <<Never>>)
        /\ Leads(<<Never>>, Wrap("NEG_NODE"), <<Never>>)
        /\ Leads(<<Never>>, G("more terms"), <<Never>>)
    BY Effects, SmallLevels, MoreOrLess, PushLeads, TurnLeads DEF Kinds
  <2> QED BY <2>1, <2>2, SmallLevels, ThreeItems
<1> QED BY <1>1, <1>2, <1>3

LEMMA MoreTermsSound == \A p \in Productions("more terms") :
  p = <<>> \/ Sound(p, <<Never>>, <<Never>>)
<1>1. Productions("more terms") = {<<>>,
                                   <<Leaf("SUM_NODE"), G("term"), Do("infix"), G("more terms")>>}
  BY DEF Productions, Expressions
<1>2. Sound(<<Leaf("SUM_NODE"), G("term"), Do("infix"), G("more terms")>>, <<Never>>, <<Never>>)
  <2>1. Plain(Leaf("SUM_NODE")) /\ Plain(G("term")) /\ Plain(Do("infix")) /\ Plain(G("more terms"))
    BY Effects DEF Kinds, Pushes, Turns, Joins, Merges
  <2>2. /\ Leads(<<Never>>, Leaf("SUM_NODE"), <<Never, Never>>)
        /\ Leads(<<Never, Never>>, G("term"), <<Never, Never, Never>>)
        /\ Leads(<<Never, Never, Never>>, Do("infix"), <<Never>>)
        /\ Leads(<<Never>>, G("more terms"), <<Never>>)
    BY Effects, SmallLevels, MoreOrLess, MergeLeads, PushLeads, TurnLeads DEF Kinds
  <2> QED BY <2>1, <2>2, SmallLevels, FourItems
<1> QED BY <1>1, <1>2

LEMMA TermSound == \A p \in Productions("term") :
  Sound(p, <<>>, <<Never>>)
<1>1. Productions("term") = {<<G("factor"), G("more factors")>>}
  BY DEF Productions, Expressions
<1>2. Sound(<<G("factor"), G("more factors")>>, <<>>, <<Never>>)
  <2>1. Plain(G("factor")) /\ Plain(G("more factors"))
    BY Effects DEF Kinds, Pushes, Turns, Joins, Merges
  <2>2. /\ Leads(<<>>, G("factor"), <<Never>>)
        /\ Leads(<<Never>>, G("more factors"), <<Never>>)
    BY Effects, SmallLevels, MoreOrLess, PushLeads, TurnLeads DEF Kinds
  <2> QED BY <2>1, <2>2, SmallLevels, TwoItems
<1> QED BY <1>1, <1>2

LEMMA MoreFactorsSound == \A p \in Productions("more factors") :
  p = <<>> \/ Sound(p, <<Never>>, <<Never>>)
<1>1. Productions("more factors") = {<<>>,
                                     <<G("factor"), Pair("MULTIPLICATION_NODE"), G("more factors")>>}
  BY DEF Productions, Expressions
<1>2. Sound(<<G("factor"), Pair("MULTIPLICATION_NODE"), G("more factors")>>, <<Never>>, <<Never>>)
  <2>1. Plain(G("factor")) /\ Plain(Pair("MULTIPLICATION_NODE")) /\ Plain(G("more factors"))
    BY Effects DEF Kinds, Pushes, Turns, Joins, Merges
  <2>2. /\ Leads(<<Never>>, G("factor"), <<Never, Never>>)
        /\ Leads(<<Never, Never>>, Pair("MULTIPLICATION_NODE"), <<Never>>)
        /\ Leads(<<Never>>, G("more factors"), <<Never>>)
    BY Effects, SmallLevels, MoreOrLess, JoinLeads, PushLeads, TurnLeads DEF Kinds
  <2> QED BY <2>1, <2>2, SmallLevels, ThreeItems
<1> QED BY <1>1, <1>2

LEMMA FactorSound == \A p \in Productions("factor") :
  Sound(p, <<>>, <<Never>>)
<1>1. Productions("factor") = {<<G("expression"), T>>,
                               <<G("var")>>,
                               <<G("factor"), Wrap("REFERENCE_NODE")>>,
                               <<G("args"), T, Wrap("CALL_NODE")>>,
                               <<G("expression"), G("expression"), G("expression"), T, Do("macc")>>}
  BY DEF Productions, Expressions
<1>2. Sound(<<G("expression"), T>>, <<>>, <<Never>>)
  <2>1. Plain(G("expression")) /\ Plain(T)
    BY Effects DEF Kinds, Pushes, Turns, Joins, Merges
  <2>2. /\ Leads(<<>>, G("expression"), <<Never>>)
        /\ Leads(<<Never>>, T, <<Never>>)
    BY Effects, SmallLevels, MoreOrLess, PushLeads, SkipLeads DEF Kinds
  <2> QED BY <2>1, <2>2, SmallLevels, TwoItems
<1>3. Sound(<<G("var")>>, <<>>, <<Never>>)
  <2>1. Plain(G("var"))
    BY Effects DEF Kinds, Pushes, Turns, Joins, Merges
  <2>2. Leads(<<>>, G("var"), <<Never>>)
    BY Effects, SmallLevels, MoreOrLess, PushLeads DEF Kinds
  <2> QED BY <2>1, <2>2, SmallLevels, OneItem
<1>4. Sound(<<G("factor"), Wrap("REFERENCE_NODE")>>, <<>>, <<Never>>)
  <2>1. Plain(G("factor")) /\ Plain(Wrap("REFERENCE_NODE"))
    BY Effects DEF Kinds, Pushes, Turns, Joins, Merges
  <2>2. /\ Leads(<<>>, G("factor"), <<Never>>)
        /\ Leads(<<Never>>, Wrap("REFERENCE_NODE"), <<Never>>)
    BY Effects, SmallLevels, MoreOrLess, PushLeads, TurnLeads DEF Kinds
  <2> QED BY <2>1, <2>2, SmallLevels, TwoItems
<1>5. Sound(<<G("args"), T, Wrap("CALL_NODE")>>, <<>>, <<Never>>)
  <2>1. Plain(G("args")) /\ Plain(T) /\ Plain(Wrap("CALL_NODE"))
    BY Effects DEF Kinds, Pushes, Turns, Joins, Merges
  <2>2. /\ Leads(<<>>, G("args"), <<Maybe>>)
        /\ Leads(<<Maybe>>, T, <<Maybe>>)
        /\ Leads(<<Maybe>>, Wrap("CALL_NODE"), <<Never>>)
    BY Effects, SmallLevels, MoreOrLess, PushLeads, SkipLeads, TurnLeads DEF Kinds
  <2> QED BY <2>1, <2>2, SmallLevels, ThreeItems
<1>6. Sound(<<G("expression"), G("expression"), G("expression"), T, Do("macc")>>, <<>>, <<Never>>)
  <2>1. Plain(G("expression")) /\ Plain(T) /\ Plain(Do("macc"))
    BY Effects DEF Kinds, Pushes, Turns, Joins, Merges
  <2>2. /\ Leads(<<>>, G("expression"), <<Never>>)
        /\ Leads(<<Never>>, G("expression"), <<Never, Never>>)
        /\ Leads(<<Never, Never>>, G("expression"), <<Never, Never, Never>>)
        /\ Leads(<<Never, Never, Never>>, T, <<Never, Never, Never>>)
        /\ Leads(<<Never, Never, Never>>, Do("macc"), <<Never>>)
    BY Effects, SmallLevels, MoreOrLess, MergeLeads, PushLeads, SkipLeads DEF Kinds
  <2> QED BY <2>1, <2>2, SmallLevels, FiveItems
<1> QED BY <1>1, <1>2, <1>3, <1>4, <1>5, <1>6

LEMMA ArgsSound == \A p \in Productions("args") :
  Sound(p, <<>>, <<Maybe>>)
<1>1. Productions("args") = {<<Do("nothing")>>,
                             <<G("expression"), G("more args")>>}
  BY DEF Productions, Expressions
<1>2. Sound(<<Do("nothing")>>, <<>>, <<Maybe>>)
  <2>1. Plain(Do("nothing"))
    BY Effects DEF Kinds, Pushes, Turns, Joins, Merges
  <2>2. Leads(<<>>, Do("nothing"), <<Maybe>>)
    BY Effects, SmallLevels, MoreOrLess, PushLeads DEF Kinds
  <2> QED BY <2>1, <2>2, SmallLevels, OneItem
<1>3. Sound(<<G("expression"), G("more args")>>, <<>>, <<Maybe>>)
  <2>1. Plain(G("expression")) /\ Plain(G("more args"))
    BY Effects DEF Kinds, Pushes, Turns, Joins, Merges
  <2>2. /\ Leads(<<>>, G("expression"), <<Never>>)
        /\ Leads(<<Never>>, G("more args"), <<Maybe>>)
    BY Effects, SmallLevels, MoreOrLess, PushLeads, TurnLeads DEF Kinds
  <2> QED BY <2>1, <2>2, SmallLevels, TwoItems
<1> QED BY <1>1, <1>2, <1>3

LEMMA MoreArgsSound == \A p \in Productions("more args") :
  p = <<>> \/ Sound(p, <<Maybe>>, <<Maybe>>)
<1>1. Productions("more args") = {<<>>,
                                  <<G("expression"), Do("append"), G("more args")>>}
  BY DEF Productions, Expressions
<1>2. Sound(<<G("expression"), Do("append"), G("more args")>>, <<Maybe>>, <<Maybe>>)
  <2>1. Plain(G("expression")) /\ Plain(Do("append")) /\ Plain(G("more args"))
    BY Effects DEF Kinds, Pushes, Turns, Joins, Merges
  <2>2. /\ Leads(<<Maybe>>, G("expression"), <<Maybe, Never>>)
        /\ Leads(<<Maybe, Never>>, Do("append"), <<Maybe>>)
        /\ Leads(<<Maybe>>, G("more args"), <<Maybe>>)
    BY Effects, SmallLevels, MoreOrLess, JoinLeads, PushLeads, TurnLeads DEF Kinds
  <2> QED BY <2>1, <2>2, SmallLevels, ThreeItems
<1> QED BY <1>1, <1>2

LEMMA ProductionsSound ==
  ASSUME NEW s \in Symbols, s \notin {"units", "more units"}, NEW p \in Productions(s)
  PROVE  /\ \/ p = <<>> /\ Takes(G(s)) = Gives(G(s))
            \/ Sound(p, Takes(G(s)), Gives(G(s)))
         /\ s \in Recovering => p # <<>> /\ Takes(G(s)) = <<>> /\ Gives(G(s)) = <<AfterErrors>>
         /\ Plain(G(s))
<1>1. CASE s \in {"unit", "declaration", "statement"}
  <2>1. Takes(G(s)) = <<>> /\ Gives(G(s)) = <<AfterErrors>> /\ Plain(G(s))
    BY <1>1, Effects DEF Pushes
  <2>2. Sound(p, <<>>, <<AfterErrors>>) /\ p # <<>>
    BY <1>1, UnitSound, DeclarationSound, StatementSound DEF Sound
  <2> QED BY <2>1, <2>2
<1>2. CASE s \in {"parameters", "args"}
  <2>1. Takes(G(s)) = <<>> /\ Gives(G(s)) = <<Maybe>> /\ Plain(G(s))
    BY <1>2, Effects DEF Pushes
  <2>2. Sound(p, <<>>, <<Maybe>>)
    BY <1>2, ParametersSound, ArgsSound
  <2> QED BY <2>1, <2>2, <1>2 DEF Recovering
<1>3. CASE s \in {"parameter", "compound_statement", "expression", "var", "simple_exp", "sum_exp",
                  "term", "factor"}
  <2>1. Takes(G(s)) = <<>> /\ Gives(G(s)) = <<Never>> /\ Plain(G(s))
    BY <1>3, Effects DEF Pushes
  <2>2. Sound(p, <<>>, <<Never>>)
    BY <1>3, ParameterSound, CompoundStatementSound, ExpressionSound, VarSound, SimpleExpSound,
       SumExpSound, TermSound, FactorSound
  <2> QED BY <2>1, <2>2, <1>3 DEF Recovering
<1>4. CASE s \in {"more parameters", "more declarations", "more statements", "more args"}
  <2>1. Takes(G(s)) = <<Maybe>> /\ Gives(G(s)) = <<Maybe>> /\ Plain(G(s))
    BY <1>4, Effects DEF Turns
  <2>2. p = <<>> \/ Sound(p, <<Maybe>>, <<Maybe>>)
    BY <1>4, MoreParametersSound, MoreDeclarationsSound, MoreStatementsSound, MoreArgsSound
  <2> QED BY <2>1, <2>2, <1>4 DEF Recovering
<1>5. CASE s \in {"more terms", "more factors"}
  <2>1. Takes(G(s)) = <<Never>> /\ Gives(G(s)) = <<Never>> /\ Plain(G(s))
    BY <1>5, Effects DEF Turns
  <2>2. p = <<>> \/ Sound(p, <<Never>>, <<Never>>)
    BY <1>5, MoreTermsSound, MoreFactorsSound
  <2> QED BY <2>1, <2>2, <1>5 DEF Recovering
<1> QED BY <1>1, <1>2, <1>3, <1>4, <1>5 DEF Symbols

(* The list of units leaves nothing on the stack: "program" ends the parse. *)
Top(item) == item \in Items /\ item \in TopItems /\ item[1] # "recover"
Listed(p, a, b) ==
  /\ p \in Seq(Items) /\ p # <<>>
  /\ \A i \in 1 .. Len(p) : p[i] \in TopItems /\ p[i][1] # "recover" /\ (Final(p[i]) <=> i = Len(p))
  /\ \E tops : Chained(p, a, b, tops)

LEMMA OneTopItem ==
  ASSUME NEW i1, Top(i1), Final(i1), NEW a1 \in Level, NEW a2 \in Level, Leads(a1, i1, a2)
  PROVE  Listed(<<i1>>, a1, a2)
<1>1. Chained(<<i1>>, a1, a2, <<a1, a2>>)
  BY DEF Chained
<1> QED BY <1>1 DEF Listed, Top

LEMMA TwoTopItems ==
  ASSUME NEW i1, NEW i2, Top(i1), Top(i2), ~Final(i1), Final(i2),
         NEW a1 \in Level, NEW a2 \in Level, NEW a3 \in Level, Leads(a1, i1, a2), Leads(a2, i2, a3)
  PROVE  Listed(<<i1, i2>>, a1, a3)
<1>1. Chained(<<i1, i2>>, a1, a3, <<a1, a2, a3>>)
  BY DEF Chained
<1> QED BY <1>1 DEF Listed, Top

LEMMA ThreeTopItems ==
  ASSUME NEW i1, NEW i2, NEW i3, Top(i1), Top(i2), Top(i3), ~Final(i1), ~Final(i2), Final(i3),
         NEW a1 \in Level, NEW a2 \in Level, NEW a3 \in Level, NEW a4 \in Level,
         Leads(a1, i1, a2), Leads(a2, i2, a3), Leads(a3, i3, a4)
  PROVE  Listed(<<i1, i2, i3>>, a1, a4)
<1>1. Chained(<<i1, i2, i3>>, a1, a4, <<a1, a2, a3, a4>>)
  BY DEF Chained
<1> QED BY <1>1 DEF Listed, Top

LEMMA TopEffects ==
  /\ Takes(G("units")) = <<>> /\ Gives(G("units")) = <<>>
  /\ Takes(G("more units")) = <<Maybe>> /\ Gives(G("more units")) = <<>>
  /\ \A x \in Nullness : Leads(<<x>>, G("more units"), <<>>) /\ Leads(<<x>>, Do("program"), <<>>)
  /\ Top(G("more units")) /\ Top(Do("program")) /\ Top(G("unit")) /\ Top(Do("append"))
  /\ Final(G("more units")) /\ Final(Do("program")) /\ ~Final(G("unit")) /\ ~Final(Do("append"))
<1>1. /\ Takes(G("units")) = <<>> /\ Gives(G("units")) = <<>>
      /\ Takes(G("more units")) = <<Maybe>> /\ Gives(G("more units")) = <<>>
  BY DEF Takes, Gives, G, Do
<1>2. Takes(Do("program")) = <<Maybe>> /\ Gives(Do("program")) = <<>>
  BY DEF Takes, Gives, G, Do
<1>3. ASSUME NEW item, NEW x \in Nullness, Takes(item) = <<Maybe>>, Gives(item) = <<>>
      PROVE  Leads(<<x>>, item, <<>>)
  <2>1. 0 \in Nat /\ x <= Maybe
    BY MoreOrLess
  <2> QED BY <2>1, <1>3 DEF Leads, Below
<1>4. \A x \in Nullness : Leads(<<x>>, G("more units"), <<>>) /\ Leads(<<x>>, Do("program"), <<>>)
  BY <1>1, <1>2, <1>3
<1>5. Top(G("more units"))
  BY DEF Top, Items, Symbols, TopItems, G
<1>6. Top(Do("program"))
  BY DEF Top, Items, Actions, TopItems, Do
<1>7. Plain(G("unit")) /\ Plain(Do("append"))
  BY Effects DEF Pushes, Joins
<1>8. Top(G("unit")) /\ Top(Do("append")) /\ ~Final(G("unit")) /\ ~Final(Do("append"))
  BY <1>7 DEF Top, Plain, TopItems
<1>9. Final(G("more units")) /\ Final(Do("program"))
  BY DEF Final
<1> QED BY <1>1, <1>4, <1>5, <1>6, <1>8, <1>9

LEMMA UnitsSound ==
  ASSUME NEW s \in {"units", "more units"}, NEW p \in Productions(s)
  PROVE  Listed(p, Takes(G(s)), Gives(G(s)))
<1>1. Pushes(G("unit"), AfterErrors) /\ Joins(Do("append"), Maybe, Maybe, Maybe)
  BY Effects
<1>2. CASE s = "units"
  <2>1. p = <<G("unit"), G("more units")>>
    BY <1>2 DEF Productions, Declarations
  <2>2. Leads(<<>>, G("unit"), <<AfterErrors>>) /\ Leads(<<AfterErrors>>, G("more units"), <<>>)
    BY <1>1, TopEffects, SmallLevels, PushLeads
  <2>3. Listed(<<G("unit"), G("more units")>>, <<>>, <<>>)
    BY <2>2, TopEffects, SmallLevels, TwoTopItems
  <2> QED BY <2>1, <2>3, <1>2, TopEffects
<1>3. CASE s = "more units"
  <2>1. p = <<Do("program")>> \/ p = <<G("unit"), Do("append"), G("more units")>>
    BY <1>3 DEF Productions, Declarations
  <2>2. Listed(<<Do("program")>>, <<Maybe>>, <<>>)
    BY TopEffects, SmallLevels, OneTopItem
  <2>3. /\ Leads(<<Maybe>>, G("unit"), <<Maybe, AfterErrors>>)
        /\ Leads(<<Maybe, AfterErrors>>, Do("append"), <<Maybe>>)
        /\ Leads(<<Maybe>>, G("more units"), <<>>)
    BY <1>1, TopEffects, SmallLevels, MoreOrLess, PushLeads, JoinLeads
  <2>4. Listed(<<G("unit"), Do("append"), G("more units")>>, <<Maybe>>, <<>>)
    BY <2>3, TopEffects, SmallLevels, ThreeTopItems
  <2> QED BY <2>1, <2>2, <2>4, <1>3, TopEffects
<1> QED BY <1>2, <1>3

(* A production of a symbol that bison recovers at ends in "recover".       *)
Restored(all, height) ==
  /\ all \in Seq(Items) /\ all # <<>> /\ all[Len(all)][1] = "recover"
  /\ \A i \in 1 .. Len(all) : ~Final(all[i])
  /\ \E tops : /\ Chained(all, <<>>, <<AfterErrors>>, tops)
               /\ \A i \in 1 .. Len(all) : all[i][1] = "recover" =>
                    all[i][2] = height /\ Len(tops[i]) = 1

LEMMA WithRecovery ==
  ASSUME NEW p, Sound(p, <<>>, <<AfterErrors>>), NEW height \in Nat, NEW all,
         all = p \o <<Recover(height)>>
  PROVE  Restored(all, height)
<1> DEFINE l == Len(p)
           r == Recover(height)
<1>1. /\ r \in Items /\ r[1] = "recover" /\ r[2] = height /\ ~Final(r)
  BY DEF Recover, Items, Final, G, Do
<1>2. Takes(r) = <<AfterErrors>> /\ Gives(r) = <<AfterErrors>>
  BY DEF Recover, Takes, Gives
<1> HIDE DEF r
<1>3. /\ p \in Seq(Items) /\ l \in Nat /\ <<r>> \in Seq(Items) /\ Len(<<r>>) = 1 /\ <<r>>[1] = r
  BY <1>1, LenProperties DEF Sound
<1>4. /\ all \in Seq(Items) /\ Len(all) = l + 1 /\ all[l + 1] = r
      /\ \A i \in 1 .. l : all[i] = p[i]
  <2>1. /\ all \in Seq(Items) /\ Len(all) = l + 1
        /\ \A i \in 1 .. l + 1 : all[i] = IF i <= l THEN p[i] ELSE <<r>>[i - l]
    BY <1>3, ConcatProperties DEF r
  <2>2. /\ l + 1 \in 1 .. l + 1 /\ ~(l + 1 <= l) /\ l + 1 - l = 1
        /\ \A i \in 1 .. l : i \in 1 .. l + 1 /\ i <= l
    BY <1>3
  <2> HIDE DEF l
  <2>3. \A i \in 1 .. l : all[i] = p[i]
    BY <2>1, <2>2
  <2>4. all[l + 1] = r
    BY <2>1, <2>2, <1>3
  <2> QED BY <2>1, <2>3, <2>4
<1>5. PICK tops : Chained(p, <<>>, <<AfterErrors>>, tops)
  BY DEF Sound
<1>6. /\ tops \in Seq(Level) /\ Len(tops) = l + 1 /\ tops[1] = <<>> /\ tops[l + 1] = <<AfterErrors>>
      /\ \A i \in 1 .. l : Leads(tops[i], p[i], tops[i + 1])
  BY <1>5 DEF Chained
<1>7. \A i \in 1 .. l : Plain(p[i]) /\ p[i][1] # "recover" /\ ~Final(p[i])
  BY DEF Sound, Plain
<1> HIDE DEF l
<1> DEFINE new == Append(tops, <<AfterErrors>>)
<1>8. /\ new \in Seq(Level) /\ Len(new) = l + 2 /\ new[l + 2] = <<AfterErrors>>
      /\ \A i \in 1 .. l + 1 : new[i] = tops[i]
  <2>1. /\ new \in Seq(Level) /\ Len(new) = Len(tops) + 1 /\ new[Len(tops) + 1] = <<AfterErrors>>
        /\ \A i \in 1 .. Len(tops) : new[i] = tops[i]
    BY <1>6, SmallLevels, AppendProperties
  <2>2. Len(tops) + 1 = l + 2
    BY <1>3, <1>6
  <2> QED BY <2>1, <2>2, <1>6
<1> HIDE DEF new
<1>9. Leads(<<AfterErrors>>, r, <<AfterErrors>>)
  <2>1. 0 \in Nat /\ AfterErrors <= AfterErrors
    BY SmallLevels, MoreOrLess
  <2> QED BY <2>1, <1>2 DEF Leads, Below
<1>10. ASSUME NEW i \in 1 .. l + 1
       PROVE  /\ Leads(new[i], all[i], new[i + 1]) /\ ~Final(all[i])
              /\ all[i][1] = "recover" => all[i][2] = height /\ Len(new[i]) = 1
  <2>1. CASE i \in 1 .. l
    <3>1. i + 1 \in 1 .. l + 1 /\ i \in 1 .. l + 1
      BY <2>1, <1>3
    <3>2. new[i] = tops[i] /\ new[i + 1] = tops[i + 1] /\ all[i] = p[i]
      BY <2>1, <3>1, <1>4, <1>8
    <3> QED BY <2>1, <3>2, <1>6, <1>7
  <2>2. CASE i = l + 1
    <3>1. i + 1 = l + 2 /\ l + 1 \in 1 .. l + 1
      BY <2>2, <1>3
    <3>2. new[i] = <<AfterErrors>> /\ new[i + 1] = <<AfterErrors>> /\ all[i] = r
      BY <2>2, <3>1, <1>4, <1>6, <1>8
    <3>3. Len(<<AfterErrors>>) = 1
      OBVIOUS
    <3> QED BY <3>2, <3>3, <1>1, <1>9
  <2>3. i \in 1 .. l \/ i = l + 1
    BY <1>3
  <2> QED BY <2>1, <2>2, <2>3
<1>11. new[1] = <<>> /\ Len(new) = Len(all) + 1 /\ new[Len(all) + 1] = <<AfterErrors>>
  <2>1. 1 \in 1 .. l + 1 /\ l + 1 + 1 = l + 2
    BY <1>3
  <2> QED BY <2>1, <1>4, <1>6, <1>8
<1>12. Chained(all, <<>>, <<AfterErrors>>, new)
  BY <1>4, <1>8, <1>10, <1>11 DEF Chained
<1>13. all # <<>>
  BY <1>3, <1>4, EmptySeq
<1>14. \A i \in 1 .. Len(all) : ~Final(all[i]) /\ (all[i][1] = "recover" =>
                                                   all[i][2] = height /\ Len(new[i]) = 1)
  BY <1>4, <1>10
<1>15. all[Len(all)][1] = "recover"
  BY <1>1, <1>4
<1> QED BY <1>4, <1>12, <1>13, <1>14, <1>15 DEF Restored

(* An expansion keeps the work in order, and what it expects of the stack.  *)
LEMMA ExpandSound ==
  ASSUME work \in Seq(Items), Ordered(work), syntaxErrors \in Nat,
         NEW levels, Typed(work, values, syntaxErrors, levels),
         NEW s \in Symbols, work[1] = G(s), NEW p \in Productions(s),
         NEW replaced, replaced = Expanded(s, p)
  PROVE  /\ replaced \in Seq(Items) /\ Ordered(replaced)
         /\ \E new : Typed(replaced, values, syntaxErrors, new)
<1>1. work # <<>> /\ Tail(work) \in Seq(Items) /\ 1 \in 1 .. Len(work)
  BY LenProperties, EmptySeq, HeadTailProperties DEF Ordered
<1>2. Len(values) \in Nat /\ Len(levels[1]) = Len(values)
  BY TypedShape
<1>3. CASE s \in {"units", "more units"}
  <2>1. Listed(p, Takes(G(s)), Gives(G(s)))
    BY <1>3, UnitsSound
  <2>2. replaced = p \o Tail(work)
    <3>1. s \notin Recovering
      BY <1>3 DEF Recovering
    <3>2. p \in Seq(Items)
      BY <2>1 DEF Listed
    <3>3. p \o <<>> = p
      BY <3>2, ConcatEmptySeq
    <3> QED BY <3>1, <3>3 DEF Expanded
  <2>3. PICK tops : Chained(p, Takes(work[1]), Gives(work[1]), tops)
    BY <2>1 DEF Listed
  <2>4. p \in Seq(Items) /\ p # <<>> /\ \A i \in 1 .. Len(p) : p[i][1] # "recover"
    BY <2>1 DEF Listed
  <2>5. \E new : Typed(p \o Tail(work), values, syntaxErrors, new)
    BY <1>1, <2>3, <2>4, Replace, ZenonT(30)
  <2>6. Final(work[1]) /\ \A i \in 1 .. Len(p) : p[i] \in TopItems /\ (Final(p[i]) <=> i = Len(p))
    BY <1>3, <2>1 DEF Listed, Final
  <2>7. Ordered(replaced)
    BY <2>2, <2>4, <2>6, OrderedReplacement
  <2>8. replaced \in Seq(Items)
    BY <1>1, <2>2, <2>4, ConcatProperties
  <2> QED BY <2>2, <2>5, <2>7, <2>8
<1>4. CASE s \notin {"units", "more units"} /\ s \notin Recovering
  <2>1. /\ \/ p = <<>> /\ Takes(work[1]) = Gives(work[1])
           \/ Sound(p, Takes(work[1]), Gives(work[1]))
        /\ Plain(work[1])
    BY <1>4, ProductionsSound
  <2>2. ~Final(work[1]) /\ work[1][1] # "recover" /\ work[1] \notin TopItems
    <3>1. s # "unit"
      BY <1>4 DEF Recovering
    <3>2. G(s) \notin TopItems
      BY <1>4, <3>1 DEF TopItems, G, Do
    <3> QED BY <2>1, <3>2 DEF Plain
  <2>3. CASE p = <<>> /\ Takes(work[1]) = Gives(work[1])
    <3>1. replaced = Tail(work)
      <4>1. <<>> \o <<>> = <<>> /\ <<>> \o Tail(work) = Tail(work) /\ <<>> \in Seq(Items)
        BY <1>1, EmptySeq, ConcatEmptySeq
      <4> QED BY <4>1, <2>3, <1>4 DEF Expanded
    <3>2. /\ Leads(levels[1], work[1], levels[2]) /\ levels[1] \in Level /\ levels[2] \in Level
          /\ Holds(values, syntaxErrors, levels[1])
      <4>1. 1 \in 1 .. Len(work) + 1 /\ 1 + 1 \in 1 .. Len(work) + 1 /\ 1 + 1 = 2
        BY <1>1, TypedShape
      <4>2. levels[1] \in Level /\ levels[2] \in Level
        BY <4>1, TypedShape
      <4> QED BY <1>1, <4>1, <4>2 DEF Typed
    <3>3. Holds(values, syntaxErrors, levels[2])
      BY <1>2, <2>3, <3>2, HoldsOn
    <3>4. \E new : Typed(Tail(work), values, syntaxErrors, new)
      BY <1>1, <3>3, Advance
    <3>5. Ordered(Tail(work))
      BY <2>2, OrderedTail
    <3> QED BY <1>1, <3>1, <3>4, <3>5
  <2>4. CASE Sound(p, Takes(work[1]), Gives(work[1]))
    <3>1. /\ p \in Seq(Items) /\ p # <<>>
          /\ \A i \in 1 .. Len(p) : p[i][1] # "recover" /\ ~Final(p[i])
      BY <2>4 DEF Sound, Plain
    <3>2. replaced = p \o Tail(work)
      <4>1. p \o <<>> = p
        BY <3>1, ConcatEmptySeq
      <4> QED BY <4>1, <1>4 DEF Expanded
    <3>3. PICK tops : Chained(p, Takes(work[1]), Gives(work[1]), tops)
      BY <2>4 DEF Sound
    <3>4. \E new : Typed(p \o Tail(work), values, syntaxErrors, new)
      BY <1>1, <3>1, <3>3, Replace, ZenonT(30)
    <3>5. Ordered(replaced)
      BY <2>2, <3>1, <3>2, OrderedReplacement
    <3>6. replaced \in Seq(Items)
      BY <1>1, <3>1, <3>2, ConcatProperties
    <3> QED BY <3>2, <3>4, <3>5, <3>6
  <2> QED BY <2>1, <2>3, <2>4
<1>5. CASE s \in Recovering
  <2>1. s \notin {"units", "more units"}
    BY <1>5 DEF Recovering
  <2>2. /\ Sound(p, <<>>, <<AfterErrors>>) /\ Plain(work[1])
        /\ Takes(work[1]) = <<>> /\ Gives(work[1]) = <<AfterErrors>>
    BY <1>5, <2>1, ProductionsSound
  <2> DEFINE all == p \o <<Recover(Len(values))>>
  <2>3. all = p \o <<Recover(Len(values))>> /\ Len(values) \in Nat
    BY <1>2
  <2> HIDE DEF all
  <2>4. Restored(all, Len(values))
    BY <2>2, <2>3, WithRecovery
  <2>5. replaced = all \o Tail(work)
    BY <2>3, <1>5 DEF Expanded
  <2>6. PICK tops : /\ Chained(all, Takes(work[1]), Gives(work[1]), tops)
                    /\ \A i \in 1 .. Len(all) : all[i][1] = "recover" =>
                         all[i][2] = Len(values) /\ Len(tops[i]) = 1
    BY <2>2, <2>4 DEF Restored
  <2>7. all \in Seq(Items) /\ all # <<>> /\ \A i \in 1 .. Len(all) : ~Final(all[i])
    BY <2>4 DEF Restored
  <2>8. \E new : Typed(all \o Tail(work), values, syntaxErrors, new)
    <3>1. \A i \in 1 .. Len(all) : all[i][1] = "recover" =>
            Takes(work[1]) = <<>> /\ all[i][2] = Len(values) /\ Len(tops[i]) = 1
      BY <2>2, <2>6
    <3> QED BY <1>1, <2>6, <2>7, <3>1, Replace, ZenonT(30)
  <2>9. ~Final(work[1]) /\ all[Len(all)][1] = "recover"
    BY <2>2, <2>4 DEF Plain, Restored
  <2>10. Ordered(replaced)
    BY <2>5, <2>9, <2>7, OrderedReplacement
  <2>11. replaced \in Seq(Items)
    BY <1>1, <2>5, <2>7, ConcatProperties
  <2> QED BY <2>5, <2>8, <2>10, <2>11
<1> QED BY <1>3, <1>4, <1>5

-----------------------------------------------------------------------------
(* The inductive invariant.                                                 *)
Links(n) == [kind : Kinds, firstChild : 0 .. n, sibling : 0 .. n]
ParserShape ==
  /\ work \in Seq(Items) /\ heap \in Seq(Links(Len(heap))) /\ values \in Seq(0 .. Len(heap))
  /\ astree \in 0 .. Len(heap) /\ syntaxErrors \in Nat /\ syntaxErrors <= MaxErrors + 1
  /\ state \in {"parsing", "crashed", "accepted", "aborted"}
WorkFits ==
  /\ state \in {"parsing", "crashed"} =>
       /\ syntaxErrors <= MaxErrors /\ Ordered(work)
       /\ \E levels : Typed(work, values, syntaxErrors, levels)
  /\ state \in {"accepted", "aborted"} => work = <<>>
  /\ state = "crashed" => work[1] = Do("if else") /\ Arg(3, 2) = Null
ParserInv == ParserShape /\ WorkFits

LEMMA LinksGrow ==
  ASSUME NEW n \in Nat, NEW m \in Nat, n <= m, NEW h \in Seq(Links(n))
  PROVE  h \in Seq(Links(m))
<1>1. 0 .. n \subseteq 0 .. m
  OBVIOUS
<1>2. Links(n) \subseteq Links(m)
  BY <1>1 DEF Links
<1> QED BY <1>2, SeqMonotonic

LEMMA ValuesGrow ==
  ASSUME NEW n \in Nat, NEW m \in Nat, n <= m, NEW s \in Seq(0 .. n)
  PROVE  s \in Seq(0 .. m)
<1>1. 0 .. n \subseteq 0 .. m
  OBVIOUS
<1> QED BY <1>1, SeqMonotonic

(* Links are set to nodes that there are, whatever node they are set in.    *)
WithSibling(h, x, v) == [h EXCEPT ![x].sibling = v]
WithChild(h, x, v) == [h EXCEPT ![x].firstChild = v]

LEMMA LinkSet ==
  ASSUME NEW n \in Nat, NEW h \in Seq(Links(n)), NEW x, NEW v \in 0 .. n
  PROVE  /\ WithSibling(h, x, v) \in Seq(Links(n)) /\ Len(WithSibling(h, x, v)) = Len(h)
         /\ WithChild(h, x, v) \in Seq(Links(n)) /\ Len(WithChild(h, x, v)) = Len(h)
<1>1. Len(h) \in Nat /\ h \in [1 .. Len(h) -> Links(n)]
  BY LenProperties
<1>2. ASSUME NEW S, NEW f \in [1 .. Len(h) -> S] PROVE f \in Seq(S) /\ Len(f) = Len(h)
  BY <1>1, <1>2
<1>3. /\ WithSibling(h, x, v) \in [1 .. Len(h) -> Links(n)]
      /\ WithChild(h, x, v) \in [1 .. Len(h) -> Links(n)]
  BY <1>1 DEF Links, WithSibling, WithChild
<1> QED BY <1>2, <1>3

LEMMA NodeAdded ==
  ASSUME NEW n \in Nat, NEW h \in Seq(Links(n)), NEW node \in Links(n)
  PROVE  Append(h, node) \in Seq(Links(n)) /\ Len(Append(h, node)) = Len(h) + 1
BY AppendProperties

LEMMA FirstItem ==
  ASSUME ParserInv, state \in {"parsing", "crashed"}
  PROVE  /\ work # <<>> /\ Head(work) = work[1] /\ work[1] \in Items /\ 1 \in 1 .. Len(work)
         /\ Len(heap) \in Nat /\ Len(values) \in Nat /\ syntaxErrors \in Nat
<1>1. work # <<>> /\ work \in Seq(Items)
  BY DEF ParserInv, ParserShape, WorkFits, Ordered
<1>2. Len(work) \in Nat /\ 1 \in 1 .. Len(work) /\ Head(work) = work[1]
  BY <1>1, LenProperties, EmptySeq
<1>3. work[1] \in Items
  BY <1>1, <1>2, ElementOfSeq
<1> QED BY <1>1, <1>2, <1>3, LenProperties DEF ParserInv, ParserShape

LEMMA ItemForms ==
  ASSUME NEW item \in Items
  PROVE  /\ item[1] = "goal" => item[2] \in Symbols /\ item = G(item[2])
         /\ item[1] = "leaf" => item[2] \in Kinds /\ item = Leaf(item[2])
         /\ item[1] = "wrap" => item[2] \in Kinds /\ item = Wrap(item[2])
         /\ item[1] = "pair" => item[2] \in Kinds /\ item = Pair(item[2])
         /\ item[1] = "recover" => item[2] \in Nat /\ item = Recover(item[2])
<1>1. CASE item \in {"goal"} \X Symbols
  BY <1>1 DEF G
<1>2. CASE item \in {"leaf", "wrap", "pair"} \X Kinds
  BY <1>2 DEF Leaf, Wrap, Pair
<1>3. CASE item \in {"recover"} \X Nat
  BY <1>3 DEF Recover
<1>4. CASE item \in {<<a>> : a \in Actions}
  <2>1. item[1] \in Actions
    BY <1>4
  <2> QED BY <2>1 DEF Actions
<1> QED BY <1>1, <1>2, <1>3, <1>4 DEF Items

(* The values an action takes are there, and are nodes where it needs them. *)
LEMMA Operands ==
  ASSUME ParserInv, state \in {"parsing", "crashed"}, NEW t, t = Takes(work[1]), NEW n, n = Len(t)
  PROVE  /\ n \in Nat /\ Len(values) >= n
         /\ \A i \in 1 .. n : /\ Arg(n, i) \in 0 .. Len(heap)
                              /\ Arg(n, i) = Null => CanBeNull(t[i], syntaxErrors)
<1>1. PICK levels : Typed(work, values, syntaxErrors, levels)
  BY DEF ParserInv, WorkFits
<1> DEFINE a == levels[1]
<1>2. 1 \in 1 .. Len(work) /\ work \in Seq(Items) /\ Len(heap) \in Nat /\ 1 + 1 = 2
      /\ values \in Seq(0 .. Len(heap))
  BY FirstItem DEF ParserInv, ParserShape
<1>3. a \in Level /\ Len(values) \in Nat /\ Len(a) = Len(values)
  <2>1. 1 \in 1 .. Len(work) + 1
    BY <1>2, TypedShape
  <2> QED BY <1>1, <1>2, <2>1, TypedShape
<1>4. Leads(a, work[1], levels[2]) /\ Holds(values, syntaxErrors, a)
  <2>1. Leads(a, work[1], levels[1 + 1])
    BY <1>1, <1>2 DEF Typed
  <2> QED BY <1>1, <1>2, <2>1 DEF Typed
<1> HIDE DEF a
<1>5. n \in Nat /\ t \in Level
  BY EffectsAreLevels, LevelShape
<1>6. PICK b \in Nat : Len(a) = b + n /\ \A k \in 1 .. n : a[b + k] <= t[k]
  BY <1>4 DEF Leads
<1>7. ASSUME NEW i \in 1 .. n
      PROVE  /\ Arg(n, i) \in 0 .. Len(heap)
             /\ Arg(n, i) = Null => CanBeNull(t[i], syntaxErrors)
  <2> DEFINE k == b + i
  <2>1. k \in 1 .. Len(values) /\ k \in 1 .. Len(a) /\ Len(values) - n + i = k
    BY <1>3, <1>5, <1>6
  <2>2. a[k] <= t[i]
    BY <1>6
  <2> HIDE DEF k
  <2>3. Arg(n, i) = values[k] /\ values[k] \in 0 .. Len(heap)
    BY <1>2, <2>1, ElementOfSeq DEF Arg
  <2>4. a[k] \in Nullness /\ t[i] \in Nullness
    BY <1>3, <1>5, <2>1, LevelShape
  <2>5. Arg(n, i) = Null => CanBeNull(a[k], syntaxErrors)
    BY <1>4, <2>1, <2>3 DEF Holds
  <2> QED BY <2>2, <2>3, <2>4, <2>5 DEF CanBeNull, Nullness, Never, AfterErrors, Maybe
<1> QED BY <1>3, <1>5, <1>6, <1>7

LEMMA Taken ==
  ASSUME ParserInv, state \in {"parsing", "crashed"}, NEW n, Len(Takes(work[1])) = n
  PROVE  \A i \in 1 .. n : Arg(n, i) \in 0 .. Len(heap)
BY Operands

LEMMA TakenNull ==
  ASSUME ParserInv, state \in {"parsing", "crashed"}, NEW n, Len(Takes(work[1])) = n,
         NEW i \in 1 .. n, Arg(n, i) = Null
  PROVE  CanBeNull(Takes(work[1])[i], syntaxErrors)
BY Operands

(* A reduction, whatever nodes it makes.                                    *)
LEMMA ReduceStep ==
  ASSUME ParserInv, state = "parsing", ~Final(work[1]),
         NEW g \in Nullness, Gives(work[1]) = <<g>>,
         NEW n, n = Len(Takes(work[1])),
         Len(heap') \in Nat, Len(heap) <= Len(heap'), heap' \in Seq(Links(Len(heap'))),
         NEW v \in 0 .. Len(heap'), v = Null => CanBeNull(g, syntaxErrors),
         Reduce(n, v), Done
  PROVE  ParserInv'
<1>1. PICK levels : Typed(work, values, syntaxErrors, levels)
  BY DEF ParserInv, WorkFits
<1>2. /\ work # <<>> /\ 1 \in 1 .. Len(work) /\ work \in Seq(Items) /\ Ordered(work) /\ 1 + 1 = 2
      /\ Len(heap) \in Nat /\ syntaxErrors \in Nat /\ values \in Seq(0 .. Len(heap))
  BY FirstItem DEF ParserInv, ParserShape, WorkFits
<1>3. values \in Seq(0 .. Len(heap'))
  BY <1>2, ValuesGrow
<1>4. /\ levels[1] \in Level /\ levels[2] \in Level
      /\ Leads(levels[1], work[1], levels[2]) /\ Holds(values, syntaxErrors, levels[1])
  <2>1. 1 \in 1 .. Len(work) + 1 /\ 2 \in 1 .. Len(work) + 1
    BY <1>2, TypedShape
  <2>2. levels[1] \in Level /\ levels[2] \in Level
    BY <1>1, <1>2, <2>1, TypedShape
  <2>3. Leads(levels[1], work[1], levels[1 + 1])
    BY <1>1, <1>2 DEF Typed
  <2> QED BY <1>1, <1>2, <2>2, <2>3 DEF Typed
<1>5. Holds(values', syntaxErrors, levels[2])
  <2>1. values' = Append(SubSeq(values, 1, Len(values) - Len(Takes(work[1]))), v)
    BY DEF Reduce
  <2> QED BY <1>2, <1>3, <1>4, <2>1, HoldsAfter
<1>6. values' \in Seq(0 .. Len(heap'))
  <2>1. \A k \in 1 .. Len(values) - n : values[k] \in 0 .. Len(heap')
    <3>1. Len(values) \in Nat /\ n \in Nat
      BY <1>3, LenProperties, EffectsAreLevels
    <3>2. \A k \in 1 .. Len(values) - n : k \in 1 .. Len(values)
      BY <3>1
    <3> QED BY <1>3, <3>2, ElementOfSeq
  <2>2. Len(values) - n \in Int
    BY <1>3, LenProperties, EffectsAreLevels
  <2>3. SubSeq(values, 1, Len(values) - n) \in Seq(0 .. Len(heap'))
    BY <2>1, <2>2, SubSeqProperties
  <2> QED BY <2>3, AppendProperties DEF Reduce
<1>7. \E new : Typed(Tail(work), values', syntaxErrors, new)
  BY <1>1, <1>2, <1>5, Advance
<1>8. Tail(work) \in Seq(Items) /\ Ordered(Tail(work))
  BY <1>2, OrderedTail
<1>9. /\ work' = Tail(work) /\ syntaxErrors' = syntaxErrors /\ astree' = astree /\ state' = "parsing"
  BY DEF Done
<1>10. astree' \in 0 .. Len(heap')
  BY <1>2, <1>9 DEF ParserInv, ParserShape
<1>11. ParserShape'
  BY <1>6, <1>8, <1>9, <1>10 DEF ParserInv, ParserShape
<1>12. WorkFits'
  BY <1>7, <1>8, <1>9 DEF ParserInv, WorkFits
<1> QED BY <1>11, <1>12 DEF ParserInv

-----------------------------------------------------------------------------
(* The actions preserve it.                                                 *)
LEMMA InitParser == BeginParse => ParserInv
<1> SUFFICES ASSUME BeginParse PROVE ParserInv
  OBVIOUS
<1> DEFINE w == <<G("units")>>
<1>1. work = w /\ values = <<>> /\ heap = <<>> /\ syntaxErrors = 0 /\ astree = 0 /\ state = "parsing"
  BY DEF BeginParse, Null
<1>2. G("units") \in Items /\ Final(G("units")) /\ G("units") \in TopItems
      /\ G("units")[1] # "recover" /\ Takes(G("units")) = <<>> /\ Gives(G("units")) = <<>>
  BY DEF Items, Symbols, Final, TopItems, G, Takes, Gives
<1>3. w \in Seq(Items) /\ Len(w) = 1 /\ w[1] = G("units") /\ w # <<>>
  BY <1>2
<1> HIDE DEF w
<1>4. Ordered(w)
  BY <1>2, <1>3 DEF Ordered
<1> DEFINE l == <<<<>>, <<>>>>
<1>5. l \in Seq(Level) /\ Len(l) = 2 /\ l[1] = <<>> /\ l[2] = <<>>
  BY SmallLevels
<1> HIDE DEF l
<1>6. Leads(<<>>, G("units"), <<>>)
  BY <1>2, SkipLeads
<1>7. Holds(<<>>, 0, <<>>)
  BY DEF Holds
<1>8. Typed(w, <<>>, 0, l)
  BY <1>2, <1>3, <1>5, <1>6, <1>7 DEF Typed
<1>9. WorkFits
  BY <1>1, <1>4, <1>8, BoundsAssumption DEF WorkFits
<1>10. ParserShape
  <2>1. Len(<<>>) = 0 /\ <<>> \in Seq(Links(0)) /\ <<>> \in Seq(0 .. 0) /\ 0 \in 0 .. 0
    OBVIOUS
  <2>2. 0 \in Nat /\ 0 <= MaxErrors + 1
    BY BoundsAssumption
  <2> QED BY <1>1, <1>3, <2>1, <2>2 DEF ParserShape
<1> QED BY <1>9, <1>10 DEF ParserInv

LEMMA ExpandKeeps == ParserInv /\ Expand => ParserInv'
<1> SUFFICES ASSUME ParserInv, Expand PROVE ParserInv'
  OBVIOUS
<1>1. state = "parsing" /\ work[1][1] = "goal" /\ work[1] \in Items /\ Head(work) = work[1]
  BY FirstItem DEF Expand
<1> DEFINE s == work[1][2]
<1>2. s \in Symbols /\ work[1] = G(s)
  BY <1>1, ItemForms
<1>3. PICK p \in Productions(s) : work' = Expanded(s, p)
  BY <1>1 DEF Expand
<1>4. UNCHANGED <<values, heap, freed, syntaxErrors, astree, state>>
  BY DEF Expand
<1>5. PICK levels : Typed(work, values, syntaxErrors, levels)
  BY <1>1 DEF ParserInv, WorkFits
<1>6. work \in Seq(Items) /\ Ordered(work) /\ syntaxErrors \in Nat
  BY <1>1 DEF ParserInv, ParserShape, WorkFits
<1> HIDE DEF s
<1>7. /\ work' \in Seq(Items) /\ Ordered(work')
      /\ \E new : Typed(work', values, syntaxErrors, new)
  BY <1>2, <1>3, <1>5, <1>6, ExpandSound
<1>8. ParserShape'
  BY <1>4, <1>7 DEF ParserInv, ParserShape
<1>9. WorkFits'
  BY <1>1, <1>4, <1>7 DEF ParserInv, WorkFits
<1> QED BY <1>8, <1>9 DEF ParserInv

(* What takes and gives the same leaves the stack alone.                    *)
LEMMA PassStep ==
  ASSUME ParserInv, state = "parsing", ~Final(work[1]), Takes(work[1]) = Gives(work[1]),
         UNCHANGED <<values, heap>>, Done
  PROVE  ParserInv'
<1>1. PICK levels : Typed(work, values, syntaxErrors, levels)
  BY DEF ParserInv, WorkFits
<1>2. /\ work # <<>> /\ 1 \in 1 .. Len(work) /\ work \in Seq(Items) /\ Ordered(work) /\ 1 + 1 = 2
      /\ Len(values) \in Nat /\ syntaxErrors \in Nat
  BY FirstItem DEF ParserInv, ParserShape, WorkFits
<1>3. /\ levels[1] \in Level /\ levels[2] \in Level
      /\ Leads(levels[1], work[1], levels[2]) /\ Holds(values, syntaxErrors, levels[1])
  <2>1. 1 \in 1 .. Len(work) + 1 /\ 2 \in 1 .. Len(work) + 1
    BY <1>2, TypedShape
  <2>2. levels[1] \in Level /\ levels[2] \in Level
    BY <1>1, <1>2, <2>1, TypedShape
  <2>3. Leads(levels[1], work[1], levels[1 + 1])
    BY <1>1, <1>2 DEF Typed
  <2> QED BY <1>1, <1>2, <2>2, <2>3 DEF Typed
<1>4. Holds(values, syntaxErrors, levels[2])
  BY <1>2, <1>3, HoldsOn
<1>5. \E new : Typed(Tail(work), values, syntaxErrors, new)
  BY <1>1, <1>2, <1>4, Advance
<1>6. Tail(work) \in Seq(Items) /\ Ordered(Tail(work))
  BY <1>2, OrderedTail
<1>7. /\ work' = Tail(work) /\ syntaxErrors' = syntaxErrors /\ astree' = astree /\ state' = "parsing"
      /\ values' = values /\ heap' = heap
  BY DEF Done
<1>8. ParserShape'
  BY <1>6, <1>7 DEF ParserInv, ParserShape
<1>9. WorkFits'
  BY <1>5, <1>6, <1>7 DEF ParserInv, WorkFits
<1> QED BY <1>8, <1>9 DEF ParserInv

LEMMA NotFinal == \A item : item[1] \notin {"goal", "program"} => ~Final(item)
<1> SUFFICES ASSUME NEW item, Final(item) PROVE item[1] \in {"goal", "program"}
  OBVIOUS
<1>1. G("units")[1] = "goal" /\ G("more units")[1] = "goal" /\ Do("program")[1] = "program"
  BY DEF G, Do
<1>2. item = G("units") \/ item = G("more units") \/ item = Do("program")
  BY DEF Final
<1> QED BY <1>1, <1>2

LEMMA PassesKeep == ParserInv /\ (Shift \/ Reduction) => ParserInv'
<1> SUFFICES ASSUME ParserInv, Shift \/ Reduction PROVE ParserInv'
  OBVIOUS
<1>1. CASE Shift
  <2>1. /\ state = "parsing" /\ work[1] = T /\ UNCHANGED <<values, heap>> /\ Done
    BY <1>1, FirstItem DEF Shift, Doing
  <2>2. ~Final(T) /\ Takes(T) = Gives(T)
    BY Effects DEF Plain
  <2> QED BY <2>1, <2>2, PassStep
<1>2. CASE Reduction
  <2>1. /\ state = "parsing" /\ work[1][1] = "recover" /\ UNCHANGED <<values, heap>> /\ Done
    BY <1>2, FirstItem DEF Reduction
  <2>2. Takes(work[1]) = Gives(work[1])
    BY <2>1 DEF Takes, Gives
  <2>3. ~Final(work[1])
    BY <2>1, NotFinal
  <2> QED BY <2>1, <2>2, <2>3, PassStep
<1> QED BY <1>1, <1>2

(* A new node on top of what it replaces.                                   *)
LEMMA NodeStep ==
  ASSUME ParserInv, state = "parsing", ~Final(work[1]), Gives(work[1]) = <<Never>>,
         NEW n, n = Len(Takes(work[1])),
         NEW h \in Seq(Links(Len(heap))), Len(h) = Len(heap),
         NEW kind \in Kinds, NEW child \in 0 .. Len(heap),
         heap' = Append(h, Node(kind, child)), Reduce(n, New), Done
  PROVE  ParserInv'
<1>1. Len(heap) \in Nat
  BY FirstItem
<1> DEFINE l == Len(heap)
<1>2. Node(kind, child) \in Links(l + 1)
  BY <1>1 DEF Node, Links, Null
<1>3. h \in Seq(Links(l + 1))
  BY <1>1, LinksGrow
<1>4. /\ Append(h, Node(kind, child)) \in Seq(Links(l + 1))
      /\ Len(Append(h, Node(kind, child))) = l + 1
  BY <1>1, <1>2, <1>3, NodeAdded
<1>5. Len(heap') = l + 1 /\ heap' \in Seq(Links(Len(heap')))
  BY <1>4
<1>6. New \in 0 .. Len(heap') /\ New # Null /\ Len(heap') \in Nat /\ Len(heap) <= Len(heap')
  BY <1>1, <1>5 DEF New, Null
<1> QED BY <1>5, <1>6, SmallLevels, ReduceStep

(* No node is made, or two.                                                 *)
LEMMA ValueStep ==
  ASSUME ParserInv, state = "parsing", ~Final(work[1]), NEW g \in Nullness, Gives(work[1]) = <<g>>,
         NEW n, n = Len(Takes(work[1])),
         heap' \in Seq(Links(Len(heap))), Len(heap') = Len(heap),
         NEW v \in 0 .. Len(heap), v = Null => CanBeNull(g, syntaxErrors), Reduce(n, v), Done
  PROVE  ParserInv'
<1>1. Len(heap) \in Nat
  BY FirstItem
<1>2. heap' \in Seq(Links(Len(heap'))) /\ v \in 0 .. Len(heap') /\ Len(heap) <= Len(heap')
      /\ Len(heap') \in Nat
  BY <1>1
<1> QED BY <1>2, ReduceStep
LEMMA TwoNodesStep ==
  ASSUME ParserInv, state = "parsing", ~Final(work[1]), Gives(work[1]) = <<Never>>,
         NEW n, n = Len(Takes(work[1])),
         NEW h \in Seq(Links(Len(heap) + 2)), Len(h) = Len(heap),
         NEW one \in Links(Len(heap) + 2), NEW two \in Links(Len(heap) + 2),
         heap' = h \o <<one, two>>, Reduce(n, New), Done
  PROVE  ParserInv'
<1> DEFINE l == Len(heap)
<1>1. l \in Nat
  BY FirstItem
<1>2. <<one, two>> \in Seq(Links(l + 2)) /\ Len(<<one, two>>) = 2
  OBVIOUS
<1>3. h \o <<one, two>> \in Seq(Links(l + 2)) /\ Len(h \o <<one, two>>) = l + 2
  BY <1>1, <1>2, ConcatProperties
<1>4. Len(heap') = l + 2 /\ heap' \in Seq(Links(Len(heap')))
  BY <1>3
<1>5. New \in 0 .. Len(heap') /\ New # Null /\ Len(heap') \in Nat /\ Len(heap) <= Len(heap')
  BY <1>1, <1>4 DEF New, Null
<1> QED BY <1>4, <1>5, SmallLevels, ReduceStep

LEMMA NewsKeep == ParserInv /\ (Nothing \/ NewLeaf \/ NewWrap \/ NewPair) => ParserInv'
<1> SUFFICES ASSUME ParserInv, Nothing \/ NewLeaf \/ NewWrap \/ NewPair PROVE ParserInv'
  OBVIOUS
<1>1. state = "parsing" /\ Head(work) = work[1]
  BY FirstItem DEF Nothing, NewLeaf, NewWrap, NewPair, Doing
<1>2. /\ work[1] \in Items /\ Len(heap) \in Nat
      /\ heap \in Seq(Links(Len(heap))) /\ 0 \in 0 .. Len(heap)
  BY <1>1, FirstItem DEF ParserInv, ParserShape
<1>3. Null = 0 /\ Len(<<>>) = 0
  BY DEF Null
<1>4. CASE Nothing
  <2>1. work[1] = Do("nothing") /\ Reduce(0, Null) /\ Done /\ heap' = heap
    BY <1>1, <1>4 DEF Nothing, Doing
  <2>2. ~Final(work[1]) /\ Takes(work[1]) = <<>> /\ Gives(work[1]) = <<Maybe>>
    BY <2>1, Effects DEF Pushes, Plain
  <2>3. Null = Null => CanBeNull(Maybe, syntaxErrors)
    BY DEF CanBeNull, Maybe, Never, AfterErrors
  <2> QED BY <1>1, <1>2, <1>3, <2>1, <2>2, <2>3, SmallLevels, ValueStep
<1>5. CASE NewLeaf
  <2> DEFINE kind == work[1][2]
  <2>1. /\ work[1][1] = "leaf" /\ heap' = Append(heap, Node(kind, Null)) /\ Reduce(0, New) /\ Done
    BY <1>1, <1>5 DEF NewLeaf, Make
  <2>2. kind \in Kinds /\ work[1] = Leaf(kind)
    BY <1>2, <2>1, ItemForms
  <2> HIDE DEF kind
  <2>3. ~Final(work[1]) /\ Takes(work[1]) = <<>> /\ Gives(work[1]) = <<Never>>
    BY <2>2, Effects DEF Pushes, Plain
  <2> QED BY <1>1, <1>2, <1>3, <2>1, <2>2, <2>3, NodeStep
<1>6. CASE NewWrap
  <2> DEFINE kind == work[1][2]
  <2>1. /\ work[1][1] = "wrap" /\ heap' = Append(heap, Node(kind, Arg(1, 1)))
        /\ Reduce(1, New) /\ Done
    BY <1>1, <1>6 DEF NewWrap, Make
  <2>2. kind \in Kinds /\ work[1] = Wrap(kind)
    BY <1>2, <2>1, ItemForms
  <2> HIDE DEF kind
  <2>3. ~Final(work[1]) /\ Takes(work[1]) = <<Maybe>> /\ Gives(work[1]) = <<Never>>
    BY <2>2, Effects DEF Turns, Plain
  <2>4. Len(Takes(work[1])) = 1
    BY <2>3
  <2>5. 1 \in 1 .. 1 /\ Arg(1, 1) \in 0 .. Len(heap)
    BY <1>1, <2>4, Taken
  <2> QED BY <1>1, <1>2, <2>1, <2>2, <2>3, <2>4, <2>5, NodeStep
<1>7. CASE NewPair
  <2> DEFINE kind == work[1][2]
             h == WithSibling(heap, Arg(2, 1), Arg(2, 2))
  <2>1. /\ work[1][1] = "pair" /\ heap' = Append(h, Node(kind, Arg(2, 1)))
        /\ Reduce(2, New) /\ Done
    BY <1>1, <1>7 DEF NewPair, MakeIn, WithSibling
  <2>2. kind \in Kinds /\ work[1] = Pair(kind)
    BY <1>2, <2>1, ItemForms
  <2> HIDE DEF kind
  <2>3. ~Final(work[1]) /\ Takes(work[1]) = <<Never, Maybe>> /\ Gives(work[1]) = <<Never>>
    BY <2>2, Effects DEF Joins, Plain
  <2>4. Len(Takes(work[1])) = 2
    BY <2>3
  <2>5. Arg(2, 1) \in 0 .. Len(heap) /\ Arg(2, 2) \in 0 .. Len(heap)
    BY <1>1, <2>4, Taken
  <2>6. h \in Seq(Links(Len(heap))) /\ Len(h) = Len(heap)
    BY <1>2, <2>5, LinkSet
  <2> HIDE DEF h
  <2> QED BY <1>1, <1>2, <2>1, <2>2, <2>3, <2>4, <2>5, <2>6, NodeStep
<1> QED BY <1>4, <1>5, <1>6, <1>7

LEMMA MergesKeep == ParserInv /\ (Infix \/ IfElse \/ Macc) => ParserInv'
<1> SUFFICES ASSUME ParserInv, Infix \/ IfElse \/ Macc PROVE ParserInv'
  OBVIOUS
<1> DEFINE x == Arg(3, 1)
           y == Arg(3, 2)
           z == Arg(3, 3)
           l == Len(heap)
<1>1. state = "parsing" /\ Head(work) = work[1]
  BY FirstItem DEF Infix, IfElse, Macc, Doing
<1>2. l \in Nat /\ heap \in Seq(Links(l))
  BY <1>1, FirstItem DEF ParserInv, ParserShape
<1>3. ASSUME NEW u, Merges(work[1], u)
      PROVE  /\ ~Final(work[1]) /\ Len(Takes(work[1])) = 3 /\ Gives(work[1]) = <<Never>>
             /\ x \in 0 .. l /\ y \in 0 .. l /\ z \in 0 .. l
             /\ y = Null => CanBeNull(u, syntaxErrors)
  <2>1. /\ ~Final(work[1]) /\ Len(Takes(work[1])) = 3 /\ Gives(work[1]) = <<Never>>
        /\ Takes(work[1])[2] = u
    BY <1>3 DEF Merges, Plain
  <2>2. \A i \in 1 .. 3 : /\ Arg(3, i) \in 0 .. l
                          /\ Arg(3, i) = Null => CanBeNull(Takes(work[1])[i], syntaxErrors)
    BY <1>1, <2>1, Operands
  <2>3. 1 \in 1 .. 3 /\ 2 \in 1 .. 3 /\ 3 \in 1 .. 3
    OBVIOUS
  <2> QED BY <2>1, <2>2, <2>3
<1> HIDE DEF x, y, z
<1>4. CASE Infix
  <2> DEFINE f == WithChild(heap, y, x)
             h == WithSibling(f, x, z)
  <2>1. work[1] = Do("infix") /\ heap' = h /\ Reduce(3, y) /\ Done
    BY <1>1, <1>4 DEF Infix, Doing, WithChild, WithSibling, x, y, z
  <2>2. Merges(work[1], Never)
    BY <2>1, Effects
  <2>3. x \in 0 .. l /\ y \in 0 .. l /\ z \in 0 .. l /\ (y = Null => CanBeNull(Never, syntaxErrors))
        /\ ~Final(work[1]) /\ Len(Takes(work[1])) = 3 /\ Gives(work[1]) = <<Never>>
    BY <1>3, <2>2
  <2>4. f \in Seq(Links(l)) /\ Len(f) = l
    BY <1>2, <2>3, LinkSet
  <2> HIDE DEF f
  <2>5. h \in Seq(Links(l)) /\ Len(h) = l
    BY <1>2, <2>3, <2>4, LinkSet
  <2> HIDE DEF h
  <2> QED BY <1>1, <2>1, <2>3, <2>5, SmallLevels, ValueStep
<1>5. CASE IfElse /\ y # Null
  <2> DEFINE f == WithSibling(heap, x, y)
             h == WithSibling(f, y, z)
  <2>1. work[1] = Do("if else") /\ heap' = Append(h, Node("IF_NODE", x)) /\ Reduce(3, New) /\ Done
    BY <1>1, <1>5 DEF IfElse, Doing, MakeIn, WithSibling, x, y, z
  <2>2. Merges(work[1], AfterErrors)
    BY <2>1, Effects
  <2>3. x \in 0 .. l /\ y \in 0 .. l /\ z \in 0 .. l
        /\ ~Final(work[1]) /\ Len(Takes(work[1])) = 3 /\ Gives(work[1]) = <<Never>>
    BY <1>3, <2>2
  <2>4. f \in Seq(Links(l)) /\ Len(f) = l
    BY <1>2, <2>3, LinkSet
  <2> HIDE DEF f
  <2>5. h \in Seq(Links(l)) /\ Len(h) = l
    BY <1>2, <2>3, <2>4, LinkSet
  <2> HIDE DEF h
  <2>6. "IF_NODE" \in Kinds
    BY DEF Kinds
  <2> QED BY <1>1, <2>1, <2>3, <2>5, <2>6, NodeStep
<1>6. CASE IfElse /\ y = Null
  <2>1. /\ work[1] = Do("if else") /\ state' = "crashed"
        /\ UNCHANGED <<work, values, heap, freed, syntaxErrors, astree>>
    BY <1>1, <1>6 DEF IfElse, Doing, y
  <2>2. ParserShape'
    BY <2>1 DEF ParserInv, ParserShape
  <2>3. Arg(3, 2)' = Null
    BY <1>6, <2>1 DEF Arg, y
  <2>4. WorkFits'
    BY <1>1, <2>1, <2>3 DEF ParserInv, WorkFits
  <2> QED BY <2>2, <2>4 DEF ParserInv
<1>7. CASE Macc
  <2> DEFINE f == WithSibling(heap, x, y)
             g == WithSibling(f, y, z)
             h == WithSibling(g, z, New + 1)
             one == Node("DOT_PRODUCT_NODE", x)
             two == Node("CONSTANT_NODE", Null)
  <2>1. work[1] = Do("macc") /\ heap' = h \o <<one, two>> /\ Reduce(3, New) /\ Done
    BY <1>1, <1>7 DEF Macc, Doing, WithSibling, x, y, z
  <2>2. Merges(work[1], Never)
    BY <2>1, Effects
  <2>3. x \in 0 .. l /\ y \in 0 .. l /\ z \in 0 .. l
        /\ ~Final(work[1]) /\ Len(Takes(work[1])) = 3 /\ Gives(work[1]) = <<Never>>
    BY <1>3, <2>2
  <2>4. x \in 0 .. l + 2 /\ y \in 0 .. l + 2 /\ z \in 0 .. l + 2 /\ New + 1 \in 0 .. l + 2
        /\ 0 \in 0 .. l + 2 /\ l + 2 \in Nat /\ l <= l + 2
    BY <1>2, <2>3 DEF New
  <2>5. heap \in Seq(Links(l + 2))
    BY <1>2, <2>4, LinksGrow
  <2>6. f \in Seq(Links(l + 2)) /\ Len(f) = l
    BY <2>4, <2>5, LinkSet
  <2> HIDE DEF f
  <2>7. g \in Seq(Links(l + 2)) /\ Len(g) = l
    BY <2>4, <2>6, LinkSet
  <2> HIDE DEF g
  <2>8. h \in Seq(Links(l + 2)) /\ Len(h) = l
    BY <2>4, <2>7, LinkSet
  <2> HIDE DEF h
  <2>9. one \in Links(l + 2) /\ two \in Links(l + 2)
    BY <2>4 DEF Node, Links, Kinds, Null
  <2> HIDE DEF one, two
  <2> QED BY <1>1, <2>1, <2>3, <2>8, <2>9, TwoNodesStep
<1> QED BY <1>4, <1>5, <1>6, <1>7

LEMMA ArraysKeep == ParserInv /\ (Array \/ ExternArray) => ParserInv'
<1> SUFFICES ASSUME ParserInv, Array \/ ExternArray PROVE ParserInv'
  OBVIOUS
<1> DEFINE l == Len(heap)
           one == Node("DECLARATION_NODE", New + 1)
<1>1. state = "parsing" /\ Head(work) = work[1]
  BY FirstItem DEF Array, ExternArray, Doing
<1>2. l \in Nat /\ heap \in Seq(Links(l))
  BY <1>1, FirstItem DEF ParserInv, ParserShape
<1>3. heap \in Seq(Links(l + 2))
  BY <1>2, LinksGrow
<1>4. one \in Links(l + 2)
  BY <1>2 DEF Node, Links, Kinds, Null, New
<1>5. CASE Array
  <2> DEFINE two == Node("VAR_INDEXING_NODE", Null)
  <2>1. work[1] = Do("array") /\ heap' = heap \o <<one, two>> /\ Reduce(0, New) /\ Done
    BY <1>1, <1>5 DEF Array, Doing
  <2>2. ~Final(work[1]) /\ Len(Takes(work[1])) = 0 /\ Gives(work[1]) = <<Never>>
    <3>1. Pushes(Do("array"), Never)
      BY Effects
    <3> QED BY <2>1, <3>1 DEF Pushes, Plain
  <2>3. two \in Links(l + 2)
    BY <1>2 DEF Node, Links, Kinds, Null
  <2> HIDE DEF one, two
  <2> QED BY <1>1, <1>3, <1>4, <2>1, <2>2, <2>3, TwoNodesStep
<1>6. CASE ExternArray
  <2> DEFINE two == [Node("VAR_INDEXING_NODE", Null) EXCEPT !.sibling = Arg(1, 1)]
  <2>1. work[1] = Do("extern array") /\ heap' = heap \o <<one, two>> /\ Reduce(1, New) /\ Done
    BY <1>1, <1>6 DEF ExternArray, Doing
  <2>2. ~Final(work[1]) /\ Len(Takes(work[1])) = 1 /\ Gives(work[1]) = <<Never>>
    <3>1. Turns(work[1], Maybe, Never)
      BY <2>1, Effects
    <3>2. ~Final(work[1]) /\ Takes(work[1]) = <<Maybe>> /\ Gives(work[1]) = <<Never>>
      BY <3>1 DEF Turns, Plain
    <3> QED BY <3>2
  <2>3. Arg(1, 1) \in 0 .. l
    BY <1>1, <2>2, Taken
  <2>4. two \in Links(l + 2)
    BY <1>2, <2>3 DEF Node, Links, Kinds, Null
  <2> HIDE DEF one, two
  <2> QED BY <1>1, <1>3, <1>4, <2>1, <2>2, <2>4, TwoNodesStep
<1> QED BY <1>5, <1>6

(* appendSibling: a heap with the nodes there were, and one of the two.     *)
LEMMA Appended ==
  ASSUME NEW n \in Nat, NEW h \in Seq(Links(n)), NEW a \in 0 .. n, NEW b \in 0 .. n
  PROVE  /\ AppendSibling(h, a, b)[1] \in Seq(Links(n)) /\ Len(AppendSibling(h, a, b)[1]) = Len(h)
         /\ AppendSibling(h, a, b)[2] \in 0 .. n
<1>1. CASE a = Null
  BY <1>1 DEF AppendSibling
<1>2. CASE a # Null
  <2> DEFINE last == Last(Chain(h, a))
  <2>1. Linked(h, a, b) = WithSibling(h, last, b)
    BY DEF Linked, WithSibling
  <2> HIDE DEF last
  <2>2. Linked(h, a, b) \in Seq(Links(n)) /\ Len(Linked(h, a, b)) = Len(h)
    BY <2>1, LinkSet
  <2>3. AppendSibling(h, a, b) = <<Linked(h, a, b), a>>
    BY <1>2 DEF AppendSibling
  <2> QED BY <2>2, <2>3
<1> QED BY <1>1, <1>2

LEMMA AppendsKeep == ParserInv /\ (AppendToList \/ Compound \/ Definition) => ParserInv'
<1> SUFFICES ASSUME ParserInv, AppendToList \/ Compound \/ Definition PROVE ParserInv'
  OBVIOUS
<1> DEFINE l == Len(heap)
           result == AppendSibling(heap, Arg(2, 1), Arg(2, 2))
<1>1. state = "parsing" /\ Head(work) = work[1]
  BY FirstItem DEF AppendToList, Compound, Definition, Doing
<1>2. l \in Nat /\ heap \in Seq(Links(l))
  BY <1>1, FirstItem DEF ParserInv, ParserShape
<1>3. ASSUME NEW g, Joins(work[1], Maybe, Maybe, g)
      PROVE  /\ ~Final(work[1]) /\ Len(Takes(work[1])) = 2 /\ Gives(work[1]) = <<g>>
             /\ result[1] \in Seq(Links(l)) /\ Len(result[1]) = l /\ result[2] \in 0 .. l
  <2>1. ~Final(work[1]) /\ Len(Takes(work[1])) = 2 /\ Gives(work[1]) = <<g>>
    BY <1>3 DEF Joins, Plain
  <2>2. Arg(2, 1) \in 0 .. l /\ Arg(2, 2) \in 0 .. l
    BY <1>1, <2>1, Taken
  <2> QED BY <1>2, <2>1, <2>2, Appended
<1> HIDE DEF result
<1>4. CASE AppendToList
  <2>1. work[1] = Do("append") /\ heap' = result[1] /\ Reduce(2, result[2]) /\ Done
    BY <1>1, <1>4 DEF AppendToList, Doing, result
  <2>2. Joins(work[1], Maybe, Maybe, Maybe)
    BY <2>1, Effects
  <2>3. result[2] = Null => CanBeNull(Maybe, syntaxErrors)
    BY DEF CanBeNull, Maybe, Never, AfterErrors
  <2> QED BY <1>1, <1>3, <2>1, <2>2, <2>3, SmallLevels, ValueStep
<1>5. CASE Compound
  <2>1. /\ work[1] = Do("compound") /\ Reduce(2, New) /\ Done
        /\ heap' = Append(result[1], Node("COMPOUND_STATEMENT_NODE", result[2]))
    BY <1>1, <1>5 DEF Compound, CompoundBody, Doing, MakeIn, result
  <2>2. Joins(work[1], Maybe, Maybe, Never)
    BY <2>1, Effects
  <2>3. "COMPOUND_STATEMENT_NODE" \in Kinds
    BY DEF Kinds
  <2> QED BY <1>1, <1>3, <2>1, <2>2, <2>3, NodeStep
<1>6. CASE Definition
  <2>1. /\ work[1] = Do("definition") /\ Reduce(2, New) /\ Done
        /\ heap' = Append(result[1], Node("FUNCTION_DEFINITION_NODE", result[2]))
    BY <1>1, <1>6 DEF Definition, DefinitionParts, Doing, MakeIn, result
  <2>2. Joins(work[1], Maybe, Maybe, Never)
    BY <2>1, Effects
  <2>3. "FUNCTION_DEFINITION_NODE" \in Kinds
    BY DEF Kinds
  <2> QED BY <1>1, <1>3, <2>1, <2>2, <2>3, NodeStep
<1> QED BY <1>4, <1>5, <1>6

(* A non-empty set of natural numbers has a least element.                  *)
LEMMA LeastHeight ==
  ASSUME NEW S \in SUBSET Nat, S # {}
  PROVE  \E m \in S : \A k \in S : m <= k
<1> DEFINE Smaller == OpToRel(<, Nat)
<1>1. \E m \in S : \A k \in S : ~ (<<k, m>> \in Smaller)
  BY NatLessThanWellFounded, WFMin
<1>2. \A k, m \in Nat : (<<k, m>> \in Smaller) <=> k < m
  BY DEF OpToRel
<1>3. \A k, m \in Nat : ~ (<<k, m>> \in Smaller) => m <= k
  <2> HIDE DEF Smaller
  <2> QED BY <1>2
<1> HIDE DEF Smaller
<1> QED BY <1>1, <1>3, Zenon

LEMMA ProgramKeeps == ParserInv /\ Program => ParserInv'
<1> SUFFICES ASSUME ParserInv, Program PROVE ParserInv'
  OBVIOUS
<1> DEFINE l == Len(heap)
<1>1. /\ state = "parsing" /\ work[1] = Do("program") /\ astree' = New
      /\ syntaxErrors' = syntaxErrors
      /\ heap' = Append(heap, Node("ROOT_NODE", Arg(1, 1)))
      /\ values' = <<>> /\ work' = <<>> /\ state' = "accepted"
  BY FirstItem DEF Program, Doing, Make
<1>2. l \in Nat /\ heap \in Seq(Links(l))
  BY <1>1, FirstItem DEF ParserInv, ParserShape
<1>3. Arg(1, 1) \in 0 .. l
  <2>1. Takes(Do("program")) = <<Maybe>>
    BY DEF Takes, Do
  <2>2. work[1] = Do("program") /\ Len(<<Maybe>>) = 1
    BY <1>1
  <2>3. Len(Takes(work[1])) = 1
    BY <2>1, <2>2
  <2>4. 1 \in 1 .. 1 /\ state \in {"parsing", "crashed"}
    BY <1>1
  <2>5. \A i \in 1 .. 1 : Arg(1, i) \in 0 .. l
    BY <2>3, <2>4, Taken
  <2> QED BY <2>4, <2>5
<1>4. Node("ROOT_NODE", Arg(1, 1)) \in Links(l + 1) /\ heap \in Seq(Links(l + 1))
  <2>1. heap \in Seq(Links(l + 1))
    BY <1>2, LinksGrow
  <2> QED BY <1>2, <1>3, <2>1 DEF Node, Links, Kinds, Null
<1>5. heap' \in Seq(Links(l + 1)) /\ Len(heap') = l + 1
  BY <1>1, <1>2, <1>4, NodeAdded
<1>6. heap' \in Seq(Links(Len(heap'))) /\ astree' \in 0 .. Len(heap')
  BY <1>1, <1>2, <1>5 DEF New
<1>7. ParserShape'
  BY <1>1, <1>6 DEF ParserInv, ParserShape
<1>8. WorkFits'
  BY <1>1 DEF WorkFits
<1> QED BY <1>7, <1>8 DEF ParserInv

(* The nearest "recover" is above what the items before it leave alone.     *)
LEMMA Recovers ==
  ASSUME ParserInv, state = "parsing", work[1] \notin TopItems
  PROVE  \E at \in 1 .. Len(work) : /\ work[at][1] = "recover"
                                    /\ \A j \in 1 .. at - 1 : work[j][1] # "recover"
<1>1. 1 \in 1 .. Len(work) /\ Len(work) \in Nat /\ Ordered(work)
  BY FirstItem, LenProperties DEF ParserInv, ParserShape, WorkFits
<1> DEFINE S == {j \in 1 .. Len(work) : work[j][1] = "recover"}
<1>2. S # {} /\ S \in SUBSET Nat
  BY <1>1 DEF Ordered
<1>3. PICK at \in S : \A k \in S : at <= k
  BY <1>2, LeastHeight
<1>4. ASSUME NEW j \in 1 .. at - 1 PROVE work[j][1] # "recover"
  <2>1. j \in 1 .. Len(work) /\ ~(at <= j)
    BY <1>1, <1>3
  <2> QED BY <1>3, <2>1
<1> QED BY <1>3, <1>4

LEMMA ErrorKeeps == ParserInv /\ SyntaxError => ParserInv'
<1> SUFFICES ASSUME ParserInv, SyntaxError PROVE ParserInv'
  OBVIOUS
<1> DEFINE m == Len(work)
           Nearest(i) == /\ work[i][1] = "recover"
                         /\ \A j \in 1 .. i - 1 : work[j][1] # "recover"
           at == CHOOSE i \in DOMAIN work : Nearest(i)
           height == work[at][2]
<1>1. /\ state = "parsing" /\ syntaxErrors < MaxErrors
      /\ work' = SubSeq(work, at + 1, m) /\ values' = Append(SubSeq(values, 1, height), Null)
      /\ syntaxErrors' = syntaxErrors + 1 /\ UNCHANGED <<heap, astree, state>>
  BY DEF SyntaxError
<1>2. /\ work # <<>> /\ 1 \in 1 .. m /\ work \in Seq(Items) /\ Ordered(work) /\ Len(heap) \in Nat
      /\ syntaxErrors \in Nat /\ values \in Seq(0 .. Len(heap)) /\ MaxErrors \in Nat
      /\ m \in Nat /\ DOMAIN work = 1 .. m /\ work[1] \in Items /\ Len(values) \in Nat
  BY <1>1, FirstItem, LenProperties, BoundsAssumption DEF ParserInv, ParserShape, WorkFits
<1>3. work[1] \notin TopItems
  <2>1. \/ work[1] = T
        \/ work[1][1] = "goal" /\ work[1][2] \notin Recovering \cup Lists
    BY <1>1, FirstItem DEF SyntaxError
  <2>2. CASE work[1] = T
    BY <2>2 DEF TopItems, T, G, Do
  <2>3. CASE work[1][1] = "goal" /\ work[1][2] \notin Recovering \cup Lists
    <3> DEFINE s == work[1][2]
    <3>1. s \notin {"units", "more units", "unit"} /\ work[1] = G(s)
      BY <1>2, <2>3, ItemForms DEF Recovering, Lists
    <3> HIDE DEF s
    <3>2. /\ G(s)[1] = "goal" /\ G(s)[2] = s /\ Do("append")[1] = "append"
          /\ G("units")[2] = "units" /\ G("more units")[2] = "more units" /\ G("unit")[2] = "unit"
          /\ Do("program")[1] = "program"
      BY DEF G, Do
    <3>3. work[1][1] = "goal" /\ work[1][2] \notin {"units", "more units", "unit"}
      BY <3>1, <3>2
    <3>4. work[1] # Do("append") /\ work[1] # Do("program")
      BY <3>2, <3>3
    <3>5. work[1] # G("units") /\ work[1] # G("more units") /\ work[1] # G("unit")
      BY <3>2, <3>3
    <3> QED BY <3>4, <3>5 DEF TopItems
  <2> QED BY <2>1, <2>2, <2>3
<1> HIDE DEF Nearest
<1>4. at \in 1 .. m /\ Nearest(at)
  <2>1. \E i \in DOMAIN work : Nearest(i)
    BY <1>1, <1>2, <1>3, Recovers DEF Nearest
  <2> QED BY <1>2, <2>1
<1> HIDE DEF at
<1>5. PICK levels : Typed(work, values, syntaxErrors, levels)
  BY <1>1 DEF ParserInv, WorkFits
<1>6. at # m
  <2>1. work[at][1] = "recover"
    BY <1>4 DEF Nearest
  <2>2. ~Final(work[at])
    BY <2>1, NotFinal
  <2> QED BY <1>2, <1>4, <2>2 DEF Ordered
<1>7. Guarded(work, levels, at)
  BY <1>4, <1>5 DEF Typed, Nearest
<1> DEFINE a == levels[1]
           b == levels[at]
           c == levels[at + 1]
<1>8. /\ a \in Level /\ b \in Level /\ c \in Level /\ Leads(b, work[at], c)
      /\ Holds(values, syntaxErrors, a) /\ Len(a) = Len(values)
  <2>1. 1 \in 1 .. m + 1 /\ at \in 1 .. m + 1 /\ at + 1 \in 1 .. m + 1
    BY <1>2, <1>4
  <2>2. Len(a) = Len(values) /\ Holds(values, syntaxErrors, a)
    BY <1>5 DEF Typed, Holds
  <2> QED BY <1>2, <1>4, <1>5, <2>1, <2>2, TypedShape DEF Typed
<1>9. height \in Nat /\ Len(b) = height + 1 /\ height <= Len(values) /\ Below(a, b, height)
  <2>1. height \in Nat /\ Len(b) = height + 1
    BY <1>7 DEF Guarded
  <2>2. CASE at = 1
    <3>1. a = b
      BY <2>2
    <3>2. \A k \in 1 .. height : a[k] \in Int
      BY <1>8, <2>1, <3>1, LevelShape
    <3>3. Len(values) = height + 1
      BY <1>8, <2>1, <3>1
    <3> HIDE DEF a, b, height
    <3>4. Below(a, b, height)
      BY <3>1, <3>2 DEF Below
    <3> QED BY <2>1, <3>3, <3>4
  <2>3. CASE at # 1
    <3>1. 1 \in 1 .. at - 1
      BY <2>3, <1>2, <1>4
    <3>2. Len(a) >= height + Len(Takes(work[1])) /\ Below(a, b, height)
      BY <1>7, <3>1 DEF Guarded
    <3>3. Len(Takes(work[1])) \in Nat
      BY EffectsAreLevels
    <3> HIDE DEF height, a, b
    <3>4. height <= Len(values)
      BY <1>2, <1>8, <2>1, <3>2, <3>3
    <3> QED BY <2>1, <3>2, <3>4
  <2> QED BY <2>2, <2>3
<1>10. work[at][1] = "recover"
  BY <1>4 DEF Nearest
<1>11. Takes(work[at]) = <<AfterErrors>> /\ Gives(work[at]) = <<AfterErrors>>
  BY <1>10 DEF Takes, Gives
<1> HIDE DEF height, a, b, c
<1>12. /\ Len(c) = height + 1 /\ Below(b, c, height) /\ AfterErrors <= c[height + 1]
  <2>1. PICK n \in Nat : /\ Len(b) = n + 1 /\ Len(c) = n + 1 /\ Below(b, c, n)
                         /\ AfterErrors <= c[n + 1]
    BY <1>8, <1>11 DEF Leads
  <2>2. n = height
    BY <1>9, <2>1
  <2> QED BY <2>1, <2>2
<1> DEFINE kept == SubSeq(values, 1, height)
           after == Append(kept, Null)
<1>13. /\ kept \in Seq(0 .. Len(heap)) /\ Len(kept) = height
       /\ \A k \in 1 .. height : kept[k] = values[k]
  <2>1. \A k \in 1 .. height : k \in 1 .. Len(values) /\ values[k] \in 0 .. Len(heap)
    BY <1>2, <1>9, ElementOfSeq
  <2> QED BY <1>9, <2>1, SubSeqProperties
<1> HIDE DEF kept
<1>14. /\ after \in Seq(0 .. Len(heap)) /\ Len(after) = height + 1
       /\ after[height + 1] = Null /\ \A k \in 1 .. height : after[k] = values[k]
  <2>1. Null \in 0 .. Len(heap)
    BY <1>2 DEF Null
  <2> QED BY <1>9, <1>13, <2>1, AppendProperties
<1> HIDE DEF after
<1>15. ASSUME NEW k \in 1 .. height + 1, after[k] = Null
       PROVE  CanBeNull(c[k], syntaxErrors + 1)
  <2>1. c[k] \in Nullness /\ syntaxErrors + 1 > 0
    BY <1>2, <1>8, <1>12, LevelShape
  <2>2. CASE k = height + 1
    BY <2>1, <2>2, <1>12 DEF CanBeNull, Nullness, Never, AfterErrors, Maybe
  <2>3. CASE k # height + 1
    <3>1. k \in 1 .. height /\ k \in 1 .. Len(values) /\ k \in 1 .. Len(a) /\ k \in 1 .. Len(b)
      BY <2>3, <1>2, <1>8, <1>9
    <3>2. CanBeNull(a[k], syntaxErrors)
      BY <3>1, <1>8, <1>14, <1>15 DEF Holds
    <3>3. a[k] \in Nullness /\ b[k] \in Nullness /\ a[k] <= b[k] /\ b[k] <= c[k]
      BY <3>1, <1>8, <1>9, <1>12, LevelShape DEF Below
    <3> QED BY <2>1, <3>2, <3>3 DEF CanBeNull, Nullness, Never, AfterErrors, Maybe
  <2> QED BY <2>2, <2>3
<1>16. Holds(after, syntaxErrors + 1, c)
  BY <1>12, <1>14, <1>15 DEF Holds
<1>17. \E new : Typed(work', values', syntaxErrors', new)
  <2>1. Typed(SubSeq(work, at + 1, m), after, syntaxErrors + 1, SubSeq(levels, at + 1, m + 1))
    BY <1>2, <1>4, <1>5, <1>16, Drop DEF c
  <2> QED BY <1>1, <2>1 DEF after, kept
<1>18. work' \in Seq(Items) /\ Ordered(work')
  BY <1>1, <1>2, <1>4, <1>6, OrderedDrop
<1>19. syntaxErrors' \in Nat /\ syntaxErrors' <= MaxErrors /\ syntaxErrors' <= MaxErrors + 1
  BY <1>1, <1>2
<1>20. values' \in Seq(0 .. Len(heap)) /\ heap' = heap /\ astree' = astree /\ state' = "parsing"
  BY <1>1, <1>14 DEF after, kept
<1>21. ParserShape'
  BY <1>18, <1>19, <1>20 DEF ParserInv, ParserShape
<1>22. WorkFits'
  BY <1>17, <1>18, <1>19, <1>20 DEF WorkFits
<1> QED BY <1>21, <1>22 DEF ParserInv

LEMMA AbortKeeps == ParserInv /\ Abort => ParserInv'
<1> SUFFICES ASSUME ParserInv, Abort PROVE ParserInv'
  OBVIOUS
<1>1. /\ state = "parsing" /\ syntaxErrors' = syntaxErrors + 1 /\ values' = <<>> /\ work' = <<>>
      /\ state' = "aborted" /\ heap' = heap /\ astree' = astree
  BY DEF Abort
<1>2. syntaxErrors \in Nat /\ syntaxErrors <= MaxErrors /\ MaxErrors \in Nat
  BY <1>1, BoundsAssumption DEF ParserInv, ParserShape, WorkFits
<1>3. ParserShape'
  BY <1>1, <1>2 DEF ParserInv, ParserShape
<1>4. WorkFits'
  BY <1>1 DEF WorkFits
<1> QED BY <1>3, <1>4 DEF ParserInv

LEMMA StepKeeps == ParserInv /\ [ParseStep]_parserVars => ParserInv'
<1> SUFFICES ASSUME ParserInv, [ParseStep]_parserVars PROVE ParserInv'
  OBVIOUS
<1>1. CASE ParseStep
  <2>1. CASE Shift \/ Reduction
    BY <2>1, PassesKeep
  <2>2. CASE Nothing \/ NewLeaf \/ NewWrap \/ NewPair
    BY <2>2, NewsKeep
  <2>3. CASE Infix \/ IfElse \/ Macc
    BY <2>3, MergesKeep
  <2>4. CASE Array \/ ExternArray
    BY <2>4, ArraysKeep
  <2>5. CASE AppendToList \/ Compound \/ Definition
    BY <2>5, AppendsKeep
  <2>6. CASE Return
    BY <2>6 DEF Return, parserVars, ParserInv, ParserShape, WorkFits, Arg
  <2> QED
    BY <1>1, <2>1, <2>2, <2>3, <2>4, <2>5, <2>6, ExpandKeeps, ProgramKeeps, ErrorKeeps, AbortKeeps
       DEF ParseStep
<1>2. CASE UNCHANGED parserVars
  BY <1>2 DEF parserVars, ParserInv, ParserShape, WorkFits, Arg
<1> QED BY <1>1, <1>2

LEMMA ParserInvHolds == ParserSpec => []ParserInv
BY InitParser, StepKeeps, PTL DEF ParserSpec

(* Links lead.                                                              *)
LEMMA InvLinks == ParserInv => LinksLead
<1> SUFFICES ASSUME ParserInv PROVE LinksLead
  OBVIOUS
<1> DEFINE l == Len(heap)
<1>1. /\ l \in Nat /\ Nodes \cup {Null} = 0 .. l
      /\ heap \in Seq(Links(l)) /\ values \in Seq(0 .. l) /\ work \in Seq(Items)
  BY LenProperties DEF ParserInv, ParserShape, Nodes, Null
<1>2. heap \in Seq([kind : Kinds, firstChild : Nodes \cup {Null}, sibling : Nodes \cup {Null}])
  BY <1>1 DEF Links
<1>3. astree \in Nodes \cup {Null} /\ syntaxErrors \in 0 .. MaxErrors + 1
  BY <1>1, BoundsAssumption DEF ParserInv, ParserShape
<1>4. ASSUME NEW i \in DOMAIN work, work[i][1] = "recover" PROVE work[i][2] <= Len(values)
  <2>1. i \in 1 .. Len(work) /\ Len(work) \in Nat
    BY <1>1, LenProperties
  <2>2. state \in {"parsing", "crashed"}
    <3>1. work # <<>>
      BY <2>1, EmptySeq
    <3> QED BY <3>1 DEF ParserInv, ParserShape, WorkFits
  <2>3. PICK levels : Typed(work, values, syntaxErrors, levels)
    BY <2>2 DEF ParserInv, WorkFits
  <2>4. Guarded(work, levels, i)
    BY <1>4, <2>1, <2>3 DEF Typed
  <2>5. work[i][2] \in Nat /\ Len(levels[i]) = work[i][2] + 1
    BY <2>4 DEF Guarded
  <2>6. Len(levels[1]) = Len(values)
    BY <2>3 DEF Typed, Holds
  <2>7. CASE i = 1
    BY <2>5, <2>6, <2>7
  <2>8. CASE i # 1
    <3>1. 1 \in 1 .. i - 1
      BY <2>1, <2>8
    <3>2. Len(levels[1]) >= work[i][2] + Len(Takes(work[1]))
      BY <2>4, <3>1 DEF Guarded
    <3>3. Len(Takes(work[1])) \in Nat
      BY EffectsAreLevels
    <3> QED BY <2>5, <2>6, <3>2, <3>3
  <2> QED BY <2>7, <2>8
<1>5. state = "parsing" => work # <<>>
  BY FirstItem
<1> QED BY <1>1, <1>2, <1>3, <1>4, <1>5 DEF LinksLead

(* Operands are there.                                                      *)
LEMMA InvOperands == ParserInv => CrashesOnlyAfterErrors
<1> SUFFICES ASSUME ParserInv PROVE CrashesOnlyAfterErrors
  OBVIOUS
<1>1. OperandsPresent
  <2> SUFFICES ASSUME state = "parsing"
               PROVE  /\ Head(work)[1] = "pair" => Arg(2, 1) # Null
                      /\ Head(work) = Do("infix") => Null \notin {Arg(3, 1), Arg(3, 2)}
                      /\ Head(work) = Do("macc") => Null \notin {Arg(3, 1), Arg(3, 2), Arg(3, 3)}
    BY DEF OperandsPresent
  <2>1. Head(work) = work[1] /\ work[1] \in Items
    BY FirstItem
  <2>2. ~CanBeNull(Never, syntaxErrors)
    BY DEF CanBeNull
  <2>3. ASSUME work[1][1] = "pair" PROVE Arg(2, 1) # Null
    <3>1. Joins(work[1], Never, Maybe, Never)
      BY <2>1, <2>3, ItemForms, Effects
    <3>2. Takes(work[1]) = <<Never, Maybe>>
      BY <3>1 DEF Joins
    <3>3. Len(Takes(work[1])) = 2 /\ Takes(work[1])[1] = Never /\ 1 \in 1 .. 2
      BY <3>2
    <3>4. Arg(2, 1) = Null => CanBeNull(Takes(work[1])[1], syntaxErrors)
      BY <3>3, TakenNull
    <3> QED BY <2>2, <3>3, <3>4
  <2>4. ASSUME work[1] \in {Do("infix"), Do("macc")}
        PROVE  Null \notin {Arg(3, 1), Arg(3, 2), Arg(3, 3)}
    <3>1. Merges(work[1], Never)
      BY <2>4, Effects
    <3>2. Takes(work[1]) = <<Never, Never, Never>>
      BY <3>1 DEF Merges
    <3>3. Len(Takes(work[1])) = 3 /\ \A i \in 1 .. 3 : Takes(work[1])[i] = Never
      BY <3>2
    <3>4. \A i \in 1 .. 3 : Arg(3, i) = Null => CanBeNull(Takes(work[1])[i], syntaxErrors)
      BY <3>3, TakenNull
    <3>5. \A i \in 1 .. 3 : Arg(3, i) # Null
      BY <2>2, <3>3, <3>4
    <3> QED BY <3>5
  <2> QED BY <2>1, <2>3, <2>4
<1>2. ASSUME state = "crashed"
      PROVE  syntaxErrors > 0 /\ Head(work) = Do("if else") /\ Arg(3, 1) # Null
  <2>1. Head(work) = work[1] /\ work[1] = Do("if else") /\ Arg(3, 2) = Null
    BY <1>2, FirstItem DEF ParserInv, WorkFits
  <2>2. Merges(work[1], AfterErrors)
    BY <2>1, Effects
  <2>3. Takes(work[1]) = <<Never, AfterErrors, Maybe>>
    BY <2>2 DEF Merges, Never, AfterErrors
  <2>4. /\ Len(Takes(work[1])) = 3 /\ 1 \in 1 .. 3 /\ 2 \in 1 .. 3
        /\ Takes(work[1])[1] = Never /\ Takes(work[1])[2] = AfterErrors
    BY <2>3
  <2>5. \A i \in 1 .. 3 : Arg(3, i) = Null => CanBeNull(Takes(work[1])[i], syntaxErrors)
    BY <1>2, <2>4, TakenNull
  <2>6. CanBeNull(AfterErrors, syntaxErrors) /\ (Arg(3, 1) = Null => CanBeNull(Never, syntaxErrors))
    BY <2>1, <2>4, <2>5
  <2> QED BY <2>1, <2>6 DEF CanBeNull
<1> QED BY <1>1, <1>2 DEF CrashesOnlyAfterErrors

(* In every parse, with any number of errors, the links of the nodes and    *)
(* the values on bison's stack lead to nodes there are, and where "error"   *)
(* can be shifted is not above the top of the stack.                        *)
THEOREM ParserTypes == ParserSpec => []LinksLead
BY ParserInvHolds, InvLinks, PTL

(* What the actions of assignments, products, operators and mulacc write    *)
(* through is never NULL, and what IF with ELSE writes through is NULL only *)
(* after a syntax error: a program without one is parsed without a crash.   *)
THEOREM OperandsAreThere == ParserSpec => []CrashesOnlyAfterErrors
BY ParserInvHolds, InvOperands, PTL
=============================================================================

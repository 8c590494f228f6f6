------------------------------- MODULE Driver ------------------------------
(* main.c: the command line, the files it opens, and the order in which it  *)
(* runs the passes. What a pass does is another module's business; here it  *)
(* is the result main looks at, chosen with the source program.             *)
EXTENDS Naturals, Sequences

CONSTANTS CommandLines,  \* sequences of members of Options after the two files
          Programs       \* what the passes say of the source: subset of Verdicts

Recognised == {"--lexical_only", "--print_ast", "--debug", "--asm_comments",
               "--keep_temporaries", "--dialect=ABI", "--dialect=raw",
               "--external"}                  \* with a file that can be opened
Options == Recognised \cup {"--external missing", "--asm"}

(* "crowded": register assignment runs out of registers. Linker shows that  *)
(* no program makes link report an error; main is written for one that does.*)
(* "crash": one of the two front passes, or link, dereferences NULL.        *)
Verdicts == {"syntax error", "semantic error", "link error", "crash", "crowded", "fine"}

ASSUME CommandLinesAssumption == CommandLines \subseteq Seq(Options)
ASSUME ProgramsAssumption == Programs \subseteq Verdicts

VARIABLES argv, source,    \* the inputs
          accessible,      \* the files that can be opened
          pc, next,        \* next: the option to look at
          open,            \* the open ones of the three files
          files,           \* what is in the two output files
          abi, keep,       \* asmDialect = 2, keepTemporaries
          printed,         \* the verdicts on the compilation that were printed
          status           \* of the process

vars == <<argv, source, accessible, pc, next, open, files, abi, keep, printed, status>>
inputs == <<argv, source, accessible>>
options == <<next, abi, keep>>

Files == {"in", "bin", "asm"}
Outputs == {"bin", "asm"}

Init == /\ argv \in CommandLines /\ source \in Programs
        /\ accessible \in SUBSET Files
        /\ pc = "in" /\ next = 1
        /\ open = {} /\ files = [f \in Outputs |-> "old"]
        /\ abi = FALSE /\ keep = FALSE
        /\ printed = {} /\ status = "running"

Exit(code) == pc' = "end" /\ status' = code
Continue(at) == pc' = at /\ UNCHANGED status

(* Lines 39-58. Opening an output empties it. The second failure closes the *)
(* input, the third closes nothing.                                         *)
OpenFile(f, then) ==
  /\ pc = f
  /\ IF f \in accessible
       THEN /\ open' = open \cup {f}
            /\ files' = [o \in Outputs |-> IF o = f THEN "empty" ELSE files[o]]
            /\ Continue(then)
       ELSE /\ open' = IF f = "bin" THEN open \ {"in"} ELSE open
            /\ Exit("1") /\ UNCHANGED files
  /\ UNCHANGED <<inputs, options, printed>>

(* Lines 65 and 87. The two arguments of --external are part of it here.    *)
NextOptionStays(i, o) == i                                       \* variant
NextOption(i, o) == i + 1

(* One turn of the loop at lines 65-94. The name of an external file that   *)
(* cannot be opened leads to fclose(NULL).                                  *)
Option ==
  /\ pc = "options" /\ next <= Len(argv)
  /\ LET o == argv[next] IN
       /\ abi' = IF o = "--dialect=ABI" THEN TRUE
                 ELSE IF o = "--dialect=raw" THEN FALSE ELSE abi
       /\ keep' = (keep \/ o = "--keep_temporaries")
       /\ CASE o = "--lexical_only" -> Exit("0")
            [] o = "--external missing" -> Exit("crashed")
            [] o \in Recognised \ {"--lexical_only"} -> Continue(pc)
            [] OTHER -> Exit("1")
  /\ next' = NextOption(next, argv[next])
  /\ UNCHANGED <<inputs, open, files, printed>>

EndOptions == /\ pc = "options" /\ next > Len(argv)
              /\ Continue("front end")
              /\ UNCHANGED <<inputs, options, open, files, printed>>

(* An error ends the run with the files as they are, that is, empty.        *)
Fail(stage, verdicts) == /\ pc = stage /\ source \in verdicts
                         /\ printed' = printed \cup {"errors"}
                         /\ open' = {}
                         /\ Exit("1")
                         /\ UNCHANGED <<inputs, options, files>>
Pass(stage, verdicts, then) == /\ pc = stage /\ source \notin verdicts
                               /\ Continue(then)
                               /\ UNCHANGED <<inputs, options, open, files, printed>>

Crash(stage) == /\ pc = stage /\ source = "crash"
                /\ Exit("crashed")
                /\ UNCHANGED <<inputs, options, open, files, printed>>

(* Lines 96-120: semantic analysis is skipped after a syntax error.         *)
FrontErrorsSyntaxOnly == {"syntax error"}    \* variant
FrontErrors == {"syntax error", "semantic error"}
FrontEnd == \/ Fail("front end", FrontErrors)
            \/ Crash("front end")
            \/ Pass("front end", FrontErrors, "link")

(* Lines 123-133.                                                           *)
Link == \/ Fail("link", {"link error"})
        \/ Crash("link")
        \/ Pass("link", {"link error", "crash"}, "registers")

(* Line 135. A register assignment that gives up says so and returns.       *)
AssignRegisters == /\ pc = "registers"
                   /\ printed' = IF source = "crowded" /\ ~keep
                                   THEN printed \cup {"Fatal"} ELSE printed
                   /\ Continue("translate")
                   /\ UNCHANGED <<inputs, options, open, files>>

(* Lines 136-138. The raw dialect looks up every register in the map, the   *)
(* fixed ones, whose numbers are negative, included: it reads through NULL  *)
(* when there is no map, and before the map's start when there is one,      *)
(* which may end the process or name any register. Temporaries without a    *)
(* register get any number.                                                 *)
WriteBinaryOnly == {"bin"}    \* variant: writeAssembly is forgotten
Written == Outputs
Translate ==
  /\ pc = "translate"
  /\ \/ /\ ~abi /\ Exit("crashed") /\ UNCHANGED files
     \/ /\ abi \/ ~keep
        /\ files' = [f \in Outputs |->
                       IF f \notin Written THEN files[f]
                       ELSE IF ~abi \/ keep \/ source = "crowded" THEN "arbitrary" ELSE "good"]
        /\ Continue("finish")
  /\ UNCHANGED <<inputs, options, open, printed>>

(* Lines 140-152.                                                           *)
Finish == /\ pc = "finish"
          /\ printed' = printed \cup {"successful"}
          /\ open' = {}
          /\ Exit("0")
          /\ UNCHANGED <<inputs, options, files>>

Ended == pc = "end" /\ UNCHANGED vars

Next == \/ OpenFile("in", "bin")
        \/ OpenFile("bin", "asm")
        \/ OpenFile("asm", "options")
        \/ Option
        \/ EndOptions
        \/ FrontEnd
        \/ Link
        \/ AssignRegisters
        \/ Translate
        \/ Finish
        \/ Ended

(* One thread; every pass returns.                                          *)
Spec == Init /\ [][Next]_vars /\ WF_vars(Next)

-----------------------------------------------------------------------------
TypeOK == /\ argv \in CommandLines /\ source \in Programs /\ accessible \subseteq Files
          /\ pc \in Files \cup {"options", "front end", "link", "registers", "translate",
                                "finish", "end"}
          /\ next \in 1 .. Len(argv) + 1
          /\ open \subseteq Files
          /\ files \in [Outputs -> {"old", "empty", "good", "arbitrary"}]
          /\ abi \in BOOLEAN /\ keep \in BOOLEAN
          /\ printed \subseteq {"errors", "Fatal", "successful"}
          /\ status \in {"running", "0", "1", "crashed"}
          /\ status = "running" <=> pc # "end"

Code == {"good", "arbitrary"}

(* The two output files are written together, by compilations that print    *)
(* "Compilation successful", and by no other.                               *)
WrittenWithSuccess ==
  status \in {"0", "1"} =>
    \A f \in Outputs : files[f] \in Code <=> "successful" \in printed

(* No code comes out of a source with an error; its exit status is 1.       *)
ErrorsGiveNoCode ==
  (pc = "end" /\ source \in {"syntax error", "semantic error", "link error"}) =>
    /\ \A f \in Outputs : files[f] \notin Code
    /\ status = "0" => \E i \in DOMAIN argv : argv[i] = "--lexical_only"

(* Every run that got past the options closes its files itself, unless it   *)
(* crashed: what it wrote does not depend on how the process ends.          *)
FilesClosed == (status \in {"0", "1"} /\ printed # {}) => open = {}

(* The files as main leaves them.                                           *)
FilesConsistent == TypeOK /\ WrittenWithSuccess /\ FilesClosed

(* The compiler comes to an end whatever the command line.                  *)
Ends == <>(pc = "end")
=============================================================================

------------------------------- MODULE Linker ------------------------------
(* From the emitted IR to the words of the binary: addNode                  *)
(* (datastructures/ir.c), link (backend/linker.c), the loop of              *)
(* translateIRToObj (translator/riscv.c) and writeBinary                    *)
(* (datastructures/objectcode.c).                                           *)
(*                                                                          *)
(* Instructions are data here: a node is its kind, the table entry it       *)
(* refers to and its address. The symbol table is the list of global        *)
(* entries semantic analysis left behind, in the order of the hash table.   *)
EXTENDS Integers, Sequences, FiniteSets, SequencesExt

CONSTANTS Tables,      \* possible symbol tables: sequences of Global
          Externals,   \* possible --external options: sequences of ExternalFile
          AsmComments, \* possible values of --asm_comments
          Page,        \* what the immediate of AUIPC counts: 4096 bytes
          MaxNodes     \* bound on the nodes the code generator emits after the header

Global == [kind : {"function", "variable"}, external : BOOLEAN, words : Nat]
ExternalFile == [entry : Nat, words : Nat]   \* entry 0: a name not in the table

ASSUME TablesAssumption ==
  Tables \subseteq {t \in Seq(Global) : \E e \in DOMAIN t : t[e].kind = "function"}
ASSUME ExternalsAssumption ==
  /\ Externals \subseteq Seq(ExternalFile)
  /\ \A x \in Externals, t \in Tables : \A f \in DOMAIN x : x[f].entry \in DOMAIN t \cup {0}
ASSUME AsmCommentsAssumption == AsmComments \subseteq BOOLEAN
ASSUME PageAssumption == Page \in Nat \ {0} /\ Page % 4 = 0
ASSUME MaxNodesAssumption == MaxNodes \in Nat

NoEntry == 0
Unresolved == -1      \* the address of a new entry

VARIABLES table,       \* the global entries
          address,     \* their addresses
          ext,         \* the --external options
          comments,    \* includeASMComments
          ir, lastAddress,
          pc,          \* "codegen", then the passes of link in order, "translate", "done"
          next,        \* the next external file, entry or node
          linkErrors,
          image        \* the nodes writeBinary wrote, one word each

vars == <<table, address, ext, comments, ir, lastAddress, pc, next, linkErrors, image>>
inputs == <<table, ext, comments>>

-----------------------------------------------------------------------------
(* addNode: every node but a comment takes the next word. A comment's       *)
(* address is never set; no one reads it.                                   *)
NodeCounted(kind, entry) ==    \* variant: comments are counted too
  [list |-> Append(ir, [kind |-> kind, entry |-> entry, address |-> lastAddress]),
   last |-> lastAddress + 4]
Node(kind, entry) ==
  [list |-> Append(ir, [kind |-> kind, entry |-> entry, address |-> lastAddress]),
   last |-> IF kind = "comment" THEN lastAddress ELSE lastAddress + 4]

(* genHeader: two NOPs, floating point switched on, the stack pointer, the  *)
(* call of main, and a loop to end in. Main is the first function here.     *)
HeaderNodes == 12
HeaderKind(i) == CASE i = 5 -> "stack" [] i = 7 -> "call" [] OTHER -> "op"
Main(t) == CHOOSE e \in DOMAIN t : /\ t[e].kind = "function"
                                   /\ \A f \in 1 .. e - 1 : t[f].kind # "function"
Header(t) ==
  [i \in 1 .. HeaderNodes |->
     [kind |-> HeaderKind(i), entry |-> IF HeaderKind(i) = "call" THEN Main(t) ELSE NoEntry,
      address |-> 4 * (i - 1)]]

LabelOf(e) == {i \in DOMAIN ir : ir[i].kind = "label" /\ ir[i].entry = e}

Init == /\ table \in Tables
        /\ address = [e \in DOMAIN table |-> Unresolved]
        /\ ext \in Externals
        /\ comments \in AsmComments
        /\ ir = Header(table) /\ lastAddress = 4 * HeaderNodes
        /\ pc = "codegen" /\ next = 1 /\ linkErrors = 0
        /\ image = <<>>

(* The code generator appends plain instructions and comments, one label    *)
(* for each entry that was given a body - semantic analysis lets a variable *)
(* have one - and calls of entries that are functions.                      *)
AddNode(kind, e) == /\ pc = "codegen"
                    /\ Len(ir) - HeaderNodes < MaxNodes - (IF kind = "comment" THEN 1 ELSE 0)
                    /\ ir' = Node(kind, e).list
                    /\ lastAddress' = Node(kind, e).last
                    /\ UNCHANGED <<inputs, address, pc, next, linkErrors, image>>

EmitPlain(kind) == AddNode(kind, NoEntry)
EmitLabel(e) == LabelOf(e) = {} /\ AddNode("label", e)
EmitCall(e) == table[e].kind = "function" /\ AddNode("call", e)

(* Every function ends in the jump of its epilogue, no comment after it.    *)
EndCodeGen == /\ pc = "codegen" /\ Last(ir).kind # "comment"
              /\ pc' = "externals"
              /\ UNCHANGED <<inputs, address, ir, lastAddress, next, linkErrors, image>>

(* The words of one file become DATA nodes (lines 6-17). With no word read, *)
(* firstNode is NULL when line 15 asks for its address.                     *)
FirstDataLast(f) == lastAddress + 4 * (f.words - 1)   \* variant: the last node kept
FirstData(f) == lastAddress

LinkExternal ==
  /\ pc = "externals" /\ next <= Len(ext)
  /\ LET f == ext[next]
         wanted == f.entry # NoEntry /\ table[f.entry].external
     IN /\ ir' = ir \o [i \in 1 .. f.words |->
                          [kind |-> "data", entry |-> f.entry,
                           address |-> lastAddress + 4 * (i - 1)]]
        /\ lastAddress' = lastAddress + 4 * f.words
        /\ IF wanted /\ f.words = 0
             THEN pc' = "crashed" /\ UNCHANGED address
             ELSE /\ UNCHANGED pc
                  /\ address' = IF wanted THEN [address EXCEPT ![f.entry] = FirstData(f)]
                                          ELSE address
  /\ next' = next + 1
  /\ UNCHANGED <<inputs, linkErrors, image>>

EndExternals == /\ pc = "externals" /\ next > Len(ext)
                /\ pc' = "globals" /\ next' = 1
                /\ UNCHANGED <<inputs, address, ir, lastAddress, linkErrors, image>>

(* Room for every other global in table order. A function has no element    *)
(* and takes no room, but it gets an address here as well (lines 21-26).    *)
RoomForOne(e) == 4                      \* variant: forgets their number
Room(e) == 4 * table[e].words

LinkGlobal ==
  /\ pc = "globals" /\ next <= Len(table)
  /\ IF table[next].external
       THEN UNCHANGED <<address, lastAddress>>
       ELSE /\ address' = [address EXCEPT ![next] = lastAddress]
            /\ lastAddress' = lastAddress + Room(next)
  /\ next' = next + 1
  /\ UNCHANGED <<inputs, ir, pc, linkErrors, image>>

EndGlobals == /\ pc = "globals" /\ next > Len(table)
              /\ pc' = "labels"
              /\ UNCHANGED <<inputs, address, ir, lastAddress, next, linkErrors, image>>

(* An entry with a label is where the label is (lines 30-35).               *)
LinkLabels ==
  /\ pc = "labels"
  /\ address' = [e \in DOMAIN table |->
                   IF LabelOf(e) = {} THEN address[e]
                   ELSE ir[CHOOSE i \in LabelOf(e) : TRUE].address]
  /\ pc' = "check"
  /\ UNCHANGED <<inputs, ir, lastAddress, next, linkErrors, image>>

(* Lines 38-47, and the early exit of main on an error.                     *)
LinkCheck ==
  /\ pc = "check"
  /\ linkErrors' = Cardinality({i \in DOMAIN ir : /\ ir[i].kind = "call"
                                                  /\ address[ir[i].entry] = Unresolved})
  /\ pc' = IF linkErrors' > 0 THEN "failed" ELSE "translate"
  /\ next' = 1
  /\ UNCHANGED <<inputs, address, ir, lastAddress, image>>

(* One object per node, of which writeBinary writes those with `include`.   *)
Included(node) == node.kind = "comment" => comments
Translate == /\ pc = "translate" /\ next <= Len(ir)
             /\ image' = IF Included(ir[next]) THEN Append(image, ir[next]) ELSE image
             /\ next' = next + 1
             /\ UNCHANGED <<inputs, address, ir, lastAddress, pc, linkErrors>>

EndTranslate == /\ pc = "translate" /\ next > Len(ir)
                /\ pc' = "done"
                /\ UNCHANGED <<inputs, address, ir, lastAddress, next, linkErrors, image>>

(* What the AUIPC of PREPARE_STACK and the ADDI after it put into the stack *)
(* pointer when the program starts (riscv.c 219-224, codegen.c 26-29).      *)
PagesOfNone(list) == 3                                \* variant: the code is forgotten
Pages(list) == (Last(list).address - Head(list).address) \div Page + 3
StackStart(list) ==
  LET at == CHOOSE i \in DOMAIN list : list[i].kind = "stack"
  IN list[at].address + Page * Pages(list) - 184

Stopped == pc \in {"done", "failed", "crashed"} /\ UNCHANGED vars

Next == \/ \E kind \in {"op", "comment"} : EmitPlain(kind)
        \/ \E e \in DOMAIN table : EmitLabel(e) \/ EmitCall(e)
        \/ EndCodeGen
        \/ LinkExternal
        \/ EndExternals
        \/ LinkGlobal
        \/ EndGlobals
        \/ LinkLabels
        \/ LinkCheck
        \/ Translate
        \/ EndTranslate
        \/ Stopped

Spec == Init /\ [][Next]_vars

-----------------------------------------------------------------------------
(* Types; an address that has been given out is that of a word.             *)
Words == {4 * k : k \in 0 .. (lastAddress \div 4)}
TypeOK == /\ table \in Tables /\ ext \in Externals /\ comments \in AsmComments
          /\ lastAddress \in Nat /\ next \in Nat /\ linkErrors \in Nat
          /\ address \in [DOMAIN table -> Words \cup {Unresolved}]
          /\ pc \in {"codegen", "externals", "globals", "labels", "check", "translate",
                     "done", "failed", "crashed"}
          /\ \A i \in DOMAIN ir : ir[i].entry \in DOMAIN table \cup {NoEntry}

HasLabel(e) == LabelOf(e) # {}
IsLabelOf(word, e) == word.kind = "label" /\ word.entry = e

(* The distance a call encodes, address of the callee minus its own, leads  *)
(* from where the call is in the binary to where the callee's label is; but *)
(* the comments --asm_comments puts between them (translator/riscv.c line   *)
(* 365 gives each a word, and no pass gave it an address) lead it astray.   *)
Comments(first, last) == Cardinality({i \in first .. last : image[i].kind = "comment"})
CallsLand ==
  pc = "done" =>
    \A i \in {k \in DOMAIN image : image[k].kind = "call"} :
      \A j \in {k \in DOMAIN image : IsLabelOf(image[k], image[i].entry)} :
        i + (address[image[i].entry] - image[i].address) \div 4
          = j - Comments(i, j) + Comments(j, i)

(* The memory of a global that the program itself holds is past the end of  *)
(* the code and the data, as they were counted, and overlaps no other's.    *)
Above(e) == address[e] + 4 * table[e].words
Held(e) == table[e].kind = "variable" /\ ~table[e].external /\ ~HasLabel(e)
StorageDisjoint ==
  pc = "done" =>
    \A e \in DOMAIN table : Held(e) =>
      /\ address[e] >= 4 * (Len(image) - Comments(1, Len(image)))
      /\ \A f \in DOMAIN table :
           (e # f /\ Held(f)) => Above(e) <= address[f] \/ Above(f) <= address[e]

(* An external variable whose every file is at least as long as its         *)
(* declaration holds words of one of those files and nothing else; in the   *)
(* binary they are moved up by all the comments before them.                *)
Files(e) == {k \in DOMAIN ext : ext[k].entry = e}
ExternalsHoldTheirData ==
  pc = "done" =>
    \A e \in DOMAIN table :
      (/\ table[e].external /\ ~HasLabel(e) /\ Files(e) # {}
       /\ \A k \in Files(e) : ext[k].words >= table[e].words) =>
        \A n \in 0 .. table[e].words - 1 :
          LET word == (address[e] \div 4) + n + 1 + Comments(1, Len(image))
          IN word \in DOMAIN image /\ image[word].kind = "data" /\ image[word].entry = e

(* The layout: whole words, none of them twice.                             *)
Layout == TypeOK /\ StorageDisjoint

(* The stack starts above all code and data. The globals lie in between:    *)
(* 8024 bytes of them (with pages of 4096) it always clears, of more than   *)
(* 12116 it always starts in the middle, and no stage looks at how many     *)
(* there are.                                                               *)
Cleared == 2 * Page - 168
Reached == 3 * Page - 172
StackClearsSmallGlobals ==
  pc = "done" =>
    LET code == Last(ir).address + 4
        globals == lastAddress - code
    IN /\ StackStart(ir) >= code + Cleared
       /\ globals <= Cleared => StackStart(ir) >= lastAddress
       /\ globals > Reached => StackStart(ir) < lastAddress

(* linker.c line 3, "assert that all function calls have a destination".    *)
CallsHaveDestination ==
  pc = "done" => \A i \in DOMAIN ir : ir[i].kind = "call" => HasLabel(ir[i].entry)
=============================================================================

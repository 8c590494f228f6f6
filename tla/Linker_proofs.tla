---------------------------- MODULE Linker_proofs --------------------------
(* Proofs about the linker and the translation that follows it, for every   *)
(* table, list of external files and number of nodes, and about the accesses*)
(* to the globals it places.                                                *)
EXTENDS Linker, GlobalAccess, FiniteSetTheorems, SequenceTheorems, WellFoundedInduction, TLAPS

(* Comments among the first k nodes.                                        *)
CommentsIn(s, k) == Cardinality({j \in 1 .. k : s[j].kind = "comment"})

(* Types. The kinds of nodes, and nodes.                                    *)
Kinds == {"op", "stack", "call", "comment", "label", "data"}
Nodes == [kind : Kinds, entry : Nat, address : Nat]
Phases == {"codegen", "externals", "globals", "labels", "check", "translate",
           "done", "failed", "crashed"}
Typed ==
  /\ table \in Tables /\ ext \in Externals /\ comments \in AsmComments
  /\ lastAddress \in Nat /\ next \in Nat \ {0} /\ linkErrors \in Nat
  /\ address \in [DOMAIN table -> Int]
  /\ pc \in Phases /\ (pc = "codegen" => next = 1)
  /\ ir \in Seq(Nodes) /\ image \in Seq(Nodes)
  /\ \A i \in DOMAIN ir : ir[i].entry \in DOMAIN table \cup {NoEntry}
  /\ \A i \in DOMAIN ir : ir[i].kind \in {"call", "label"} => ir[i].entry \in DOMAIN table

(* Every node but a comment is a word on from the one before, and after the *)
(* last word of the code and the data come the globals.                     *)
CodeEnd == 4 * (Len(ir) - CommentsIn(ir, Len(ir)))
Counted ==
  /\ \A i \in DOMAIN ir : ir[i].kind # "comment" =>
       ir[i].address = 4 * (i - 1 - CommentsIn(ir, i - 1))
  /\ pc \in {"codegen", "externals"} => lastAddress = CodeEnd
  /\ lastAddress >= CodeEnd /\ lastAddress % 4 = 0
Arranged ==
  /\ Len(ir) >= HeaderNodes /\ ir[1].address = 0 /\ ir[5].address = 16
  /\ \A i \in DOMAIN ir : ir[i].kind = "stack" <=> i = 5
  /\ \A i, j \in DOMAIN ir : i < j /\ ir[i].kind = "data" => ir[j].kind = "data"
  /\ pc = "codegen" => \A i \in DOMAIN ir : ir[i].kind # "data"
  /\ pc # "codegen" => ir[Len(ir)].kind # "comment"
LabelledOnce ==
  \A i, j \in DOMAIN ir :
    ir[i].kind = "label" /\ ir[j].kind = "label" /\ ir[i].entry = ir[j].entry => i = j

(* The addresses the passes have given so far: to an external, that of the  *)
(* words of one of its files; to other globals, room of their own after the *)
(* code; then, to every entry with a label, that of the label.              *)
Late == pc \in {"check", "translate", "done", "failed"}
Given(e) == ~ (Late /\ HasLabel(e))
FilesRead == CASE pc = "codegen" -> 0 [] pc = "externals" -> next - 1 [] OTHER -> Len(ext)
GlobalsSeen == CASE pc \in {"codegen", "externals", "crashed"} -> 0
                 [] pc = "globals" -> next - 1
                 [] OTHER -> Len(table)
HoldsFile(e, k) ==
  /\ address[e] \in Nat /\ address[e] % 4 = 0
  /\ \A n \in 0 .. ext[k].words - 1 :
       \E i \in DOMAIN ir : /\ ir[i].kind = "data" /\ ir[i].entry = e
                            /\ ir[i].address = address[e] + 4 * n
ExternalsPlaced ==
  /\ FilesRead <= Len(ext)
  /\ pc # "crashed" =>
       \A e \in DOMAIN table :
         (/\ table[e].external /\ Given(e)
          /\ \E k \in 1 .. FilesRead : ext[k].entry = e) =>
           \E k \in 1 .. FilesRead : ext[k].entry = e /\ HoldsFile(e, k)
GlobalsPlaced ==
  /\ GlobalsSeen <= Len(table)
  /\ \A e \in 1 .. GlobalsSeen : ~table[e].external /\ Given(e) =>
       CodeEnd <= address[e] /\ Above(e) <= lastAddress
  /\ \A e, f \in 1 .. GlobalsSeen :
       (/\ e < f /\ ~table[e].external /\ ~table[f].external
        /\ Given(e) /\ Given(f)) => Above(e) <= address[f]
Located ==
  /\ \A e \in DOMAIN table :
       address[e] = Unresolved \/ (address[e] \in 0 .. lastAddress /\ address[e] % 4 = 0)
  /\ Late => \A i \in DOMAIN ir : ir[i].kind = "label" => address[ir[i].entry] = ir[i].address

(* The binary: the words of the nodes translated so far, every one of them, *)
(* in their order.                                                          *)
Translated == CASE pc = "translate" -> next - 1 [] pc = "done" -> Len(ir) [] OTHER -> 0
Written ==
  /\ Translated <= Len(ir)
  /\ \A k \in DOMAIN image : image[k].kind # "comment" =>
       image[k].address = 4 * (k - 1 - CommentsIn(image, k - 1))
  /\ Len(image) - CommentsIn(image, Len(image)) = Translated - CommentsIn(ir, Translated)
  /\ \A k \in DOMAIN image : \E i \in 1 .. Translated : image[k] = ir[i]
  /\ \A i \in 1 .. Translated : ir[i].kind # "comment" => \E k \in DOMAIN image : image[k] = ir[i]
  /\ \A k, l \in DOMAIN image : k < l /\ image[k].kind = "data" => image[l].kind = "data"

LinkInv == /\ Typed /\ Counted /\ Arranged /\ LabelledOnce
           /\ ExternalsPlaced /\ GlobalsPlaced /\ Located /\ Written

-----------------------------------------------------------------------------
(* A non-empty set of natural numbers has a least element.                  *)
LEMMA Least ==
  ASSUME NEW S \in SUBSET Nat, S # {}
  PROVE  \E m \in S : \A k \in S : m <= k
<1> DEFINE Below == OpToRel(<, Nat)
<1>1. \E m \in S : \A k \in S : ~ (<<k, m>> \in Below)
  BY NatLessThanWellFounded, WFMin
<1>2. \A k, m \in Nat : (<<k, m>> \in Below) <=> k < m
  BY DEF OpToRel
<1>3. \A k, m \in Nat : ~ (<<k, m>> \in Below) => m <= k
  <2> HIDE DEF Below
  <2> QED
    BY <1>2
<1> HIDE DEF Below
<1> QED
  BY <1>1, <1>3, Zenon

(* Counting comments.                                                       *)
CommentSet(s, a, b) == {j \in a .. b : s[j].kind = "comment"}

LEMMA CommentSetFinite ==
  ASSUME NEW s, NEW a \in Int, NEW b \in Int
  PROVE  /\ IsFiniteSet(CommentSet(s, a, b)) /\ Cardinality(CommentSet(s, a, b)) \in Nat
         /\ Cardinality(CommentSet(s, a, b)) <= IF a > b THEN 0 ELSE b - a + 1
<1>1. IsFiniteSet(a .. b) /\ Cardinality(a .. b) = IF a > b THEN 0 ELSE b - a + 1
  BY FS_Interval
<1>2. CommentSet(s, a, b) \in SUBSET (a .. b)
  BY DEF CommentSet
<1>3. IsFiniteSet(CommentSet(s, a, b)) /\ Cardinality(CommentSet(s, a, b)) <= Cardinality(a .. b)
  BY <1>1, <1>2, FS_Subset
<1>4. Cardinality(CommentSet(s, a, b)) \in Nat
  BY <1>3, FS_CardinalityType
<1> QED
  BY <1>1, <1>3, <1>4

LEMMA CommentsInType ==
  ASSUME NEW s, NEW k \in Nat
  PROVE  /\ CommentsIn(s, k) \in Nat /\ CommentsIn(s, k) <= k
         /\ CommentsIn(s, k) = Cardinality(CommentSet(s, 1, k))
<1>1. CommentsIn(s, k) = Cardinality(CommentSet(s, 1, k))
  BY DEF CommentsIn, CommentSet
<1>2. k \in Int /\ 1 \in Int /\ (IF 1 > k THEN 0 ELSE k - 1 + 1) = k
  OBVIOUS
<1> QED
  BY <1>1, <1>2, CommentSetFinite

LEMMA CommentsInNone ==
  ASSUME NEW s
  PROVE  CommentsIn(s, 0) = 0
<1>1. CommentSet(s, 1, 0) = {}
  BY DEF CommentSet
<1> QED
  BY <1>1, CommentsInType, FS_EmptySet

LEMMA CommentsInNext ==
  ASSUME NEW s, NEW k \in Nat
  PROVE  CommentsIn(s, k + 1) = CommentsIn(s, k) + IF s[k + 1].kind = "comment" THEN 1 ELSE 0
<1> DEFINE C == CommentSet(s, 1, k)
           D == CommentSet(s, 1, k + 1)
<1>1. /\ CommentsIn(s, k) = Cardinality(C) /\ CommentsIn(s, k + 1) = Cardinality(D)
      /\ CommentsIn(s, k) \in Nat
  <2>1. k + 1 \in Nat
    OBVIOUS
  <2> QED
    BY <2>1, CommentsInType
<1>2. IsFiniteSet(C) /\ k + 1 \notin C
  BY CommentSetFinite DEF CommentSet
<1>3. CASE s[k + 1].kind = "comment"
  <2>1. D = C \cup {k + 1}
    BY <1>3 DEF CommentSet
  <2> HIDE DEF C, D
  <2>2. Cardinality(D) = Cardinality(C) + 1
    BY <1>2, <2>1, FS_AddElement
  <2> QED
    BY <1>1, <1>3, <2>2
<1>4. CASE s[k + 1].kind # "comment"
  <2>1. D = C
    BY <1>4 DEF CommentSet
  <2> HIDE DEF C, D
  <2> QED
    BY <1>1, <1>4, <2>1
<1> QED
  BY <1>3, <1>4

LEMMA CommentsInSplit ==
  ASSUME NEW s, NEW i \in Nat, NEW k \in Nat, i <= k
  PROVE  /\ CommentsIn(s, k) = CommentsIn(s, i) + Cardinality(CommentSet(s, i + 1, k))
         /\ CommentsIn(s, i) <= CommentsIn(s, k)
         /\ k - CommentsIn(s, k) >= i - CommentsIn(s, i)
         /\ Cardinality(CommentSet(s, i + 1, k)) \in Nat
<1> DEFINE C == CommentSet(s, 1, i)
           D == CommentSet(s, i + 1, k)
           E == CommentSet(s, 1, k)
<1>1. E = C \cup D /\ C \cap D = {}
  BY DEF CommentSet
<1>2. IsFiniteSet(C) /\ IsFiniteSet(D) /\ Cardinality(D) \in Nat /\ Cardinality(D) <= k - i
  <2>1. i + 1 \in Int /\ k \in Int /\ (IF i + 1 > k THEN 0 ELSE k - (i + 1) + 1) = k - i
    OBVIOUS
  <2> QED
    BY <2>1, CommentSetFinite
<1>3. /\ CommentsIn(s, i) = Cardinality(C) /\ CommentsIn(s, k) = Cardinality(E)
      /\ CommentsIn(s, i) \in Nat /\ CommentsIn(s, k) \in Nat
  BY CommentsInType
<1> HIDE DEF C, D, E
<1>4. Cardinality(E) = Cardinality(C) + Cardinality(D)
  <2>1. Cardinality(C \cup D) = Cardinality(C) + Cardinality(D) - Cardinality(C \cap D)
    BY <1>2, FS_Union
  <2>2. Cardinality(C \cap D) = 0
    BY <1>1, FS_EmptySet
  <2>3. Cardinality(C) \in Nat
    BY <1>3
  <2> QED
    BY <1>1, <1>2, <2>1, <2>2, <2>3
<1>5. CommentsIn(s, k) = CommentsIn(s, i) + Cardinality(D)
  BY <1>3, <1>4
<1>6. CommentsIn(s, i) <= CommentsIn(s, k) /\ k - CommentsIn(s, k) >= i - CommentsIn(s, i)
  BY <1>2, <1>3, <1>5
<1> QED
  BY <1>2, <1>5, <1>6 DEF D

LEMMA CommentsInSame ==
  ASSUME NEW s, NEW t, NEW k \in Nat, \A j \in 1 .. k : s[j] = t[j]
  PROVE  CommentsIn(s, k) = CommentsIn(t, k)
<1>1. {j \in 1 .. k : s[j].kind = "comment"} = {j \in 1 .. k : t[j].kind = "comment"}
  OBVIOUS
<1> QED
  BY <1>1 DEF CommentsIn

(* What the types say.                                                      *)
LEMMA Sequence ==
  ASSUME NEW S, NEW s \in Seq(S)
  PROVE  /\ Len(s) \in Nat /\ DOMAIN s = 1 .. Len(s)
         /\ \A i \in 1 .. Len(s) : s[i] \in S
OBVIOUS

LEMMA Formed ==
  ASSUME NEW S, NEW n \in Nat, NEW s \in [1 .. n -> S]
  PROVE  s \in Seq(S) /\ Len(s) = n
OBVIOUS

LEMMA Tabled ==
  ASSUME NEW t \in Tables
  PROVE  /\ Len(t) \in Nat /\ DOMAIN t = 1 .. Len(t)
         /\ \A e \in DOMAIN t : t[e].words \in Nat
         /\ \E e \in DOMAIN t : t[e].kind = "function"
<1>1. t \in Seq(Global) /\ \E e \in DOMAIN t : t[e].kind = "function"
  BY TablesAssumption
<1>2. /\ Len(t) \in Nat /\ DOMAIN t = 1 .. Len(t)
      /\ \A e \in 1 .. Len(t) : t[e] \in Global
  BY <1>1, Sequence
<1>3. \A e \in DOMAIN t : t[e].words \in Nat
  BY <1>2 DEF Global
<1> QED
  BY <1>1, <1>2, <1>3

LEMMA Listed ==
  ASSUME NEW x \in Externals, NEW t \in Tables
  PROVE  /\ Len(x) \in Nat /\ DOMAIN x = 1 .. Len(x)
         /\ \A k \in DOMAIN x : x[k].words \in Nat
         /\ \A k \in DOMAIN x : x[k].entry \in DOMAIN t \cup {NoEntry}
<1>1. x \in Seq(ExternalFile)
  BY ExternalsAssumption
<1>2. /\ Len(x) \in Nat /\ DOMAIN x = 1 .. Len(x)
      /\ \A k \in 1 .. Len(x) : x[k] \in ExternalFile
  BY <1>1, Sequence
<1>3. \A k \in DOMAIN x : x[k].words \in Nat
  BY <1>2 DEF ExternalFile
<1>4. \A k \in DOMAIN x : x[k].entry \in DOMAIN t \cup {NoEntry}
  BY ExternalsAssumption DEF NoEntry
<1> QED
  BY <1>2, <1>3, <1>4

LEMMA Program ==
  ASSUME Typed
  PROVE  /\ Len(ir) \in Nat /\ DOMAIN ir = 1 .. Len(ir)
         /\ \A i \in DOMAIN ir : ir[i] \in Nodes
         /\ \A i \in DOMAIN ir : ir[i].kind \in Kinds /\ ir[i].address \in Nat
         /\ Len(image) \in Nat /\ DOMAIN image = 1 .. Len(image)
         /\ \A k \in DOMAIN image : image[k] \in Nodes
         /\ CodeEnd \in Nat
<1>1. ir \in Seq(Nodes) /\ image \in Seq(Nodes)
  BY DEF Typed
<1>2. /\ Len(ir) \in Nat /\ DOMAIN ir = 1 .. Len(ir)
      /\ \A i \in DOMAIN ir : ir[i] \in Nodes
  BY <1>1, Sequence
<1>3. /\ Len(image) \in Nat /\ DOMAIN image = 1 .. Len(image)
      /\ \A k \in DOMAIN image : image[k] \in Nodes
  BY <1>1, Sequence
<1>4. \A i \in DOMAIN ir : ir[i].kind \in Kinds /\ ir[i].address \in Nat
  BY <1>2 DEF Nodes
<1>5. CodeEnd \in Nat
  <2>1. CommentsIn(ir, Len(ir)) \in Nat /\ CommentsIn(ir, Len(ir)) <= Len(ir)
    BY <1>2, CommentsInType
  <2> QED
    BY <1>2, <2>1 DEF CodeEnd
<1> QED
  BY <1>2, <1>3, <1>4, <1>5

(* The first function is one of the entries.                                *)
LEMMA MainEntry ==
  ASSUME NEW t \in Tables
  PROVE  Main(t) \in DOMAIN t
<1> DEFINE F == {e \in DOMAIN t : t[e].kind = "function"}
<1>1. F \in SUBSET Nat /\ F # {}
  BY Tabled
<1>2. PICK m \in F : \A k \in F : m <= k
  <2> HIDE DEF F
  <2> QED
    BY <1>1, Least
<1>3. \A f \in 1 .. m - 1 : t[f].kind # "function"
  <2>1. DOMAIN t = 1 .. Len(t) /\ Len(t) \in Nat
    BY Tabled
  <2>2. m \in 1 .. Len(t)
    BY <2>1
  <2> SUFFICES ASSUME NEW f \in 1 .. m - 1, t[f].kind = "function" PROVE FALSE
    OBVIOUS
  <2>3. f \in F
    BY <2>1, <2>2
  <2>4. m <= f
    BY <1>2, <2>3
  <2> QED
    BY <2>1, <2>2, <2>4
<1> QED
  BY <1>2, <1>3 DEF Main

LEMMA InitInv == Init => LinkInv
<1> SUFFICES ASSUME Init PROVE LinkInv
  OBVIOUS
<1>1. /\ Len(ir) = 12 /\ DOMAIN ir = 1 .. 12
      /\ \A i \in 1 .. 12 :
           /\ ir[i].kind = HeaderKind(i) /\ ir[i].address = 4 * (i - 1)
           /\ ir[i].entry = IF HeaderKind(i) = "call" THEN Main(table) ELSE NoEntry
  BY DEF Init, Header, HeaderNodes
<1>2. Main(table) \in DOMAIN table /\ Main(table) \in Nat
  BY MainEntry, Tabled DEF Init
<1>3. ir \in Seq(Nodes)
  <2>1. \A i \in 1 .. 12 : Header(table)[i] \in Nodes
    BY <1>2 DEF Header, HeaderNodes, HeaderKind, Nodes, Kinds, NoEntry
  <2>2. Header(table) = [i \in 1 .. 12 |-> Header(table)[i]]
    BY DEF Header, HeaderNodes
  <2>3. Header(table) \in [1 .. 12 -> Nodes]
    BY <2>1, <2>2
  <2>4. ir = Header(table)
    BY DEF Init
  <2> QED
    BY <2>3, <2>4, Formed
<1>4. Typed
  <2>1. \A i \in 1 .. 12 : ir[i].entry \in DOMAIN table \cup {NoEntry}
    BY <1>1, <1>2
  <2>2. \A i \in 1 .. 12 : ir[i].kind \in {"call", "label"} => ir[i].entry \in DOMAIN table
    BY <1>1, <1>2 DEF HeaderKind
  <2>3. image \in Seq(Nodes)
    BY DEF Init
  <2>4. address \in [DOMAIN table -> Int]
    BY DEF Init, Unresolved
  <2> QED
    BY <1>1, <1>3, <2>1, <2>2, <2>3, <2>4 DEF Init, Typed, Phases, HeaderNodes
<1>5. \A k \in 0 .. 12 : CommentsIn(ir, k) = 0
  <2>1. ASSUME NEW k \in 0 .. 12 PROVE CommentsIn(ir, k) = 0
    <3>1. \A i \in 1 .. 12 : ir[i].kind # "comment"
      BY <1>1 DEF HeaderKind
    <3>2. CommentSet(ir, 1, k) = {}
      BY <3>1 DEF CommentSet
    <3> QED
      BY <3>2, CommentsInType, FS_EmptySet
  <2> QED
    BY <2>1
<1>6. Counted
  <2>1. CommentsIn(ir, Len(ir)) = 0
    BY <1>1, <1>5
  <2>2. CodeEnd = 48 /\ lastAddress = 48
    BY <1>1, <2>1 DEF CodeEnd, Init, HeaderNodes
  <2>3. \A i \in 1 .. 12 : ir[i].address = 4 * (i - 1 - CommentsIn(ir, i - 1))
    BY <1>1, <1>5
  <2> QED
    BY <1>1, <2>2, <2>3 DEF Counted
<1>7. Arranged
  <2>1. \A i \in 1 .. 12 : /\ ir[i].kind \notin {"data", "label"} 
                           /\ (ir[i].kind = "stack" <=> i = 5)
    BY <1>1 DEF HeaderKind
  <2>2. pc = "codegen"
    BY DEF Init
  <2> QED
    BY <1>1, <2>1, <2>2 DEF Arranged, HeaderNodes
<1>8. LabelledOnce
  BY <1>1 DEF LabelledOnce, HeaderKind
<1>9. FilesRead = 0 /\ GlobalsSeen = 0 /\ Translated = 0 /\ ~Late
  BY DEF Init, FilesRead, GlobalsSeen, Translated, Late
<1>10. ExternalsPlaced /\ GlobalsPlaced
  BY <1>9, Listed, Tabled DEF ExternalsPlaced, GlobalsPlaced, Init
<1>11. Located
  BY <1>9 DEF Located, Init
<1>12. Written
  <2>1. image = <<>> /\ DOMAIN image = {} /\ Len(image) = 0
    BY DEF Init
  <2>2. CommentsIn(image, 0) = 0 /\ CommentsIn(ir, 0) = 0
    BY CommentsInNone
  <2> QED
    BY <1>1, <1>9, <2>1, <2>2 DEF Written
<1> QED
  BY <1>4, <1>6, <1>7, <1>8, <1>10, <1>11, <1>12 DEF LinkInv

(* Steps from one pass to the next.                                         *)
SamePasses == /\ FilesRead' = FilesRead /\ GlobalsSeen' = GlobalsSeen
              /\ Translated' = Translated /\ (Late' <=> Late)
LEMMA PassStep ==
  ASSUME LinkInv, UNCHANGED <<table, ext, comments, address, ir, lastAddress, image>>,
         SamePasses, pc' \in Phases, next' \in Nat \ {0}, linkErrors' \in Nat,
         pc' # "codegen",
         pc' = "externals" => pc \in {"codegen", "externals"},
         ir[Len(ir)].kind # "comment",
         pc' # "crashed" => pc # "crashed"
  PROVE  LinkInv'
<1>1. Typed'
  BY DEF LinkInv, Typed
<1>2. Counted'
  BY DEF LinkInv, Counted, CodeEnd
<1>3. Arranged' /\ LabelledOnce'
  BY DEF LinkInv, Arranged, LabelledOnce
<1>4. \A e : /\ (Given(e)' <=> Given(e)) /\ Above(e)' = Above(e)
  BY DEF SamePasses, Given, HasLabel, LabelOf, Above
<1>5. \A e, k : HoldsFile(e, k)' <=> HoldsFile(e, k)
  BY DEF HoldsFile
<1>6. ExternalsPlaced'
  BY <1>4, <1>5 DEF LinkInv, ExternalsPlaced, SamePasses
<1>7. GlobalsPlaced'
  BY <1>4 DEF LinkInv, GlobalsPlaced, SamePasses, CodeEnd
<1>8. Located'
  BY DEF LinkInv, Located, SamePasses
<1>9. Written'
  BY DEF LinkInv, Written, SamePasses
<1> QED
  BY <1>1, <1>2, <1>3, <1>6, <1>7, <1>8, <1>9 DEF LinkInv

LEMMA EndCodeGenStep == LinkInv /\ EndCodeGen => LinkInv'
<1> SUFFICES ASSUME LinkInv, EndCodeGen PROVE LinkInv'
  OBVIOUS
<1>1. /\ pc = "codegen" /\ pc' = "externals" /\ ir[Len(ir)].kind # "comment" /\ next = 1
      /\ UNCHANGED <<table, ext, comments, address, ir, lastAddress, next, linkErrors, image>>
  BY DEF EndCodeGen, inputs, Last, LinkInv, Typed
<1>2. next' \in Nat \ {0} /\ linkErrors' \in Nat /\ pc' \in Phases
  BY <1>1 DEF LinkInv, Typed, Phases
<1>3. SamePasses
  BY <1>1 DEF SamePasses, FilesRead, GlobalsSeen, Translated, Late
<1> QED
  BY <1>1, <1>2, <1>3, PassStep

LEMMA EndExternalsStep == LinkInv /\ EndExternals => LinkInv'
<1> SUFFICES ASSUME LinkInv, EndExternals PROVE LinkInv'
  OBVIOUS
<1>1. /\ pc = "externals" /\ pc' = "globals" /\ ir[Len(ir)].kind # "comment"
      /\ next > Len(ext) /\ next' = 1
      /\ UNCHANGED <<table, ext, comments, address, ir, lastAddress, linkErrors, image>>
  BY DEF EndExternals, inputs, LinkInv, Arranged
<1>2. next' \in Nat \ {0} /\ linkErrors' \in Nat /\ pc' \in Phases
  BY <1>1 DEF LinkInv, Typed, Phases
<1>3. next - 1 = Len(ext)
  <2>1. next - 1 <= Len(ext)
    BY <1>1 DEF LinkInv, ExternalsPlaced, FilesRead
  <2>2. Len(ext) \in Nat /\ next \in Nat
    BY Listed DEF LinkInv, Typed
  <2> QED
    BY <1>1, <2>1, <2>2
<1>4. SamePasses
  BY <1>1, <1>3 DEF SamePasses, FilesRead, GlobalsSeen, Translated, Late
<1> QED
  BY <1>1, <1>2, <1>4, PassStep

LEMMA EndGlobalsStep == LinkInv /\ EndGlobals => LinkInv'
<1> SUFFICES ASSUME LinkInv, EndGlobals PROVE LinkInv'
  OBVIOUS
<1>1. /\ pc = "globals" /\ pc' = "labels" /\ ir[Len(ir)].kind # "comment"
      /\ next > Len(table)
      /\ UNCHANGED <<table, ext, comments, address, ir, lastAddress, next, linkErrors, image>>
  BY DEF EndGlobals, inputs, LinkInv, Arranged
<1>2. next' \in Nat \ {0} /\ linkErrors' \in Nat /\ pc' \in Phases
  BY <1>1 DEF LinkInv, Typed, Phases
<1>3. next - 1 = Len(table)
  <2>1. next - 1 <= Len(table)
    BY <1>1 DEF LinkInv, GlobalsPlaced, GlobalsSeen
  <2>2. Len(table) \in Nat /\ next \in Nat
    BY Tabled DEF LinkInv, Typed
  <2> QED
    BY <1>1, <2>1, <2>2
<1>4. SamePasses
  BY <1>1, <1>3 DEF SamePasses, FilesRead, GlobalsSeen, Translated, Late
<1> QED
  BY <1>1, <1>2, <1>4, PassStep

LEMMA LinkCheckStep == LinkInv /\ LinkCheck => LinkInv'
<1> SUFFICES ASSUME LinkInv, LinkCheck PROVE LinkInv'
  OBVIOUS
<1> DEFINE Lost == {i \in DOMAIN ir : /\ ir[i].kind = "call"
                                      /\ address[ir[i].entry] = Unresolved}
<1>1. /\ pc = "check" /\ pc' \in {"failed", "translate"} /\ ir[Len(ir)].kind # "comment"
      /\ next' = 1 /\ linkErrors' = Cardinality(Lost)
      /\ UNCHANGED <<table, ext, comments, address, ir, lastAddress, image>>
  BY DEF LinkCheck, inputs, LinkInv, Arranged
<1>2. linkErrors' \in Nat
  <2>1. DOMAIN ir = 1 .. Len(ir) /\ Len(ir) \in Nat
    BY Program DEF LinkInv
  <2>2. IsFiniteSet(DOMAIN ir)
    BY <2>1, FS_Interval
  <2>3. Lost \in SUBSET DOMAIN ir
    OBVIOUS
  <2> HIDE DEF Lost
  <2> QED
    BY <1>1, <2>2, <2>3, FS_Subset, FS_CardinalityType
<1>3. next' \in Nat \ {0} /\ pc' \in Phases
  BY <1>1 DEF Phases
<1>4. SamePasses
  BY <1>1 DEF SamePasses, FilesRead, GlobalsSeen, Translated, Late
<1> HIDE DEF Lost
<1> QED
  BY <1>1, <1>2, <1>3, <1>4, PassStep

LEMMA EndTranslateStep == LinkInv /\ EndTranslate => LinkInv'
<1> SUFFICES ASSUME LinkInv, EndTranslate PROVE LinkInv'
  OBVIOUS
<1>1. /\ pc = "translate" /\ pc' = "done" /\ ir[Len(ir)].kind # "comment"
      /\ next > Len(ir)
      /\ UNCHANGED <<table, ext, comments, address, ir, lastAddress, next, linkErrors, image>>
  BY DEF EndTranslate, inputs, LinkInv, Arranged
<1>2. next' \in Nat \ {0} /\ linkErrors' \in Nat /\ pc' \in Phases
  BY <1>1 DEF LinkInv, Typed, Phases
<1>3. next - 1 = Len(ir)
  <2>1. next - 1 <= Len(ir)
    BY <1>1 DEF LinkInv, Written, Translated
  <2>2. Len(ir) \in Nat /\ next \in Nat
    BY Program DEF LinkInv, Typed
  <2> QED
    BY <1>1, <2>1, <2>2
<1>4. SamePasses
  BY <1>1, <1>3 DEF SamePasses, FilesRead, GlobalsSeen, Translated, Late
<1> QED
  BY <1>1, <1>2, <1>4, PassStep

LEMMA UnchangedStep == LinkInv /\ UNCHANGED vars => LinkInv'
<1> SUFFICES ASSUME LinkInv, UNCHANGED vars PROVE LinkInv'
  OBVIOUS
<1>1. Typed' /\ Counted' /\ Arranged' /\ LabelledOnce'
  BY DEF LinkInv, vars, inputs, Typed, Counted, CodeEnd, Arranged, LabelledOnce
<1>2. /\ FilesRead' = FilesRead /\ GlobalsSeen' = GlobalsSeen
      /\ Translated' = Translated /\ (Late' <=> Late)
      /\ \A e : (Given(e)' <=> Given(e)) /\ Above(e)' = Above(e)
      /\ \A e, k : HoldsFile(e, k)' <=> HoldsFile(e, k)
  BY DEF vars, inputs, FilesRead, GlobalsSeen, Translated, Late, Given, HasLabel, LabelOf,
         Above, HoldsFile
<1>3. ExternalsPlaced' /\ GlobalsPlaced' /\ Located' /\ Written'
  BY <1>2 DEF LinkInv, vars, inputs, ExternalsPlaced, GlobalsPlaced, Located, Written, CodeEnd
<1> QED
  BY <1>1, <1>3 DEF LinkInv

(* A global gets the room that starts where the last one ends.              *)
LEMMA LinkGlobalStep == LinkInv /\ LinkGlobal => LinkInv'
<1> SUFFICES ASSUME LinkInv, LinkGlobal PROVE LinkInv'
  OBVIOUS
<1>1. /\ pc = "globals" /\ pc' = pc /\ next <= Len(table) /\ next' = next + 1
      /\ UNCHANGED <<table, ext, comments, ir, linkErrors, image>>
      /\ next \in Nat \ {0} /\ address \in [DOMAIN table -> Int] /\ lastAddress \in Nat
      /\ table \in Tables /\ lastAddress % 4 = 0 /\ lastAddress >= CodeEnd
  BY DEF LinkGlobal, inputs, LinkInv, Typed, Counted
<1>2. /\ Len(table) \in Nat /\ DOMAIN table = 1 .. Len(table) /\ next \in DOMAIN table
      /\ table[next].words \in Nat
  BY <1>1, Tabled
<1>3. \A e \in DOMAIN table : e # next => address'[e] = address[e]
  BY <1>1 DEF LinkGlobal
<1>4. \/ table[next].external /\ address' = address /\ lastAddress' = lastAddress
      \/ /\ ~table[next].external /\ address'[next] = lastAddress
         /\ lastAddress' = lastAddress + 4 * table[next].words
  BY <1>1, <1>2 DEF LinkGlobal, Room
<1>5. lastAddress' \in Nat /\ lastAddress' % 4 = 0 /\ lastAddress' >= lastAddress
  BY <1>1, <1>2, <1>4
<1>6. Typed'
  <2>1. address' \in [DOMAIN table -> Int]
    BY <1>1 DEF LinkGlobal
  <2>2. next' \in Nat \ {0}
    BY <1>1
  <2> QED
    BY <1>1, <1>5, <2>1, <2>2 DEF LinkInv, Typed
<1>7. CodeEnd' = CodeEnd /\ CodeEnd \in Nat
  <2>1. CodeEnd' = CodeEnd
    BY <1>1 DEF CodeEnd
  <2>2. CodeEnd \in Nat
    BY Program DEF LinkInv
  <2> QED
    BY <2>1, <2>2
<1>8. Counted'
  <2>1. \A i \in DOMAIN ir : ir[i].kind # "comment" =>
          ir[i].address = 4 * (i - 1 - CommentsIn(ir, i - 1))
    BY DEF LinkInv, Counted
  <2>2. lastAddress' >= CodeEnd'
    BY <1>1, <1>5, <1>7
  <2>3. (\A i \in DOMAIN ir : ir[i].kind # "comment" =>
          ir[i].address = 4 * (i - 1 - CommentsIn(ir, i - 1)))'
    BY <1>1, <2>1
  <2> QED
    BY <1>1, <1>5, <2>2, <2>3 DEF Counted
<1>9. Arranged' /\ LabelledOnce'
  BY <1>1 DEF LinkInv, Arranged, LabelledOnce
<1>10. /\ FilesRead' = FilesRead /\ GlobalsSeen' = next /\ GlobalsSeen = next - 1
       /\ Translated' = Translated /\ ~Late /\ ~Late'
       /\ \A e : Given(e) /\ Given(e)'
  BY <1>1 DEF FilesRead, GlobalsSeen, Translated, Late, Given
<1>11. ExternalsPlaced'
  <2>1. \A e \in DOMAIN table : table[e].external => address'[e] = address[e]
    BY <1>3, <1>4
  <2>2. \A e \in DOMAIN table : \A k :
          table[e].external /\ HoldsFile(e, k) => HoldsFile(e, k)'
    BY <1>1, <2>1 DEF HoldsFile
  <2> QED
    BY <1>1, <1>10, <2>2 DEF LinkInv, ExternalsPlaced
<1>12. GlobalsPlaced'
  <2>1. \A e \in DOMAIN table : e # next => Above(e)' = Above(e)
    BY <1>1, <1>3 DEF Above
  <2>2. ~table[next].external => \A e : e = next => Above(e)' = lastAddress'
    BY <1>1, <1>4 DEF Above
  <2>3. ASSUME NEW e \in 1 .. next, ~table[e].external
        PROVE  CodeEnd <= address'[e] /\ Above(e)' <= lastAddress'
    <3>1. CASE e = next
      <4>1. address'[e] = lastAddress
        BY <1>4, <2>3, <3>1
      <4>2. Above(e)' = lastAddress'
        BY <2>2, <2>3, <3>1
      <4> QED
        BY <1>1, <1>5, <1>7, <4>1, <4>2
    <3>2. CASE e # next
      <4>1. e \in 1 .. next - 1 /\ e \in DOMAIN table
        BY <1>1, <1>2, <3>2
      <4>2. CodeEnd <= address[e] /\ Above(e) <= lastAddress
        BY <1>10, <2>3, <4>1 DEF LinkInv, GlobalsPlaced
      <4>3. Above(e) \in Int
        BY <1>1, <4>1, Tabled DEF Above
      <4> QED
        BY <1>1, <1>3, <1>5, <2>1, <3>2, <4>1, <4>2, <4>3
    <3> QED
      BY <3>1, <3>2
  <2>4. ASSUME NEW e \in 1 .. next, NEW f \in 1 .. next, e < f,
               ~table[e].external, ~table[f].external
        PROVE  Above(e)' <= address'[f]
    <3>1. e \in 1 .. next - 1 /\ e \in DOMAIN table /\ f \in DOMAIN table /\ e # next
      BY <1>1, <1>2, <2>4
    <3>2. CASE f = next
      <4>1. Above(e) <= lastAddress
        BY <1>10, <2>4, <3>1 DEF LinkInv, GlobalsPlaced
      <4> QED
        BY <1>4, <2>1, <2>4, <3>1, <3>2, <4>1
    <3>3. CASE f # next
      <4>1. f \in 1 .. next - 1
        BY <1>1, <3>3
      <4>2. Above(e) <= address[f]
        BY <1>10, <2>4, <3>1, <4>1 DEF LinkInv, GlobalsPlaced
      <4> QED
        BY <1>3, <2>1, <3>1, <3>3, <4>2
    <3> QED
      BY <3>2, <3>3
  <2> QED
    BY <1>1, <1>7, <1>10, <2>3, <2>4 DEF GlobalsPlaced
<1>13. Located'
  <2>1. ASSUME NEW e \in DOMAIN table
        PROVE  address'[e] = Unresolved \/ (address'[e] \in 0 .. lastAddress' /\ address'[e] % 4 = 0)
    <3>1. CASE address'[e] = address[e]
      <4>1. address[e] = Unresolved \/ (address[e] \in 0 .. lastAddress /\ address[e] % 4 = 0)
        BY DEF LinkInv, Located
      <4> QED
        BY <1>1, <1>5, <3>1, <4>1
    <3>2. CASE e = next /\ ~table[next].external
      BY <1>1, <1>4, <1>5, <3>2
    <3> QED
      BY <1>3, <1>4, <3>1, <3>2
  <2> QED
    BY <1>1, <1>10, <2>1 DEF Located
<1>14. Written'
  BY <1>1, <1>10 DEF LinkInv, Written
<1> QED
  BY <1>6, <1>8, <1>9, <1>11, <1>12, <1>13, <1>14 DEF LinkInv

(* A word of the code or the data is below the end of both.                 *)
LEMMA WordBelowEnd ==
  ASSUME Typed, Counted, NEW i \in DOMAIN ir, ir[i].kind # "comment"
  PROVE  /\ ir[i].address \in Nat /\ ir[i].address % 4 = 0
         /\ ir[i].address = 4 * (i - 1 - CommentsIn(ir, i - 1))
         /\ ir[i].address + 4 <= CodeEnd /\ CodeEnd <= lastAddress
<1> DEFINE n == Len(ir)
           a == CommentsIn(ir, i - 1)
           c == CommentsIn(ir, n)
<1>1. n \in Nat /\ i \in 1 .. n /\ i - 1 \in Nat /\ i \in Nat /\ i <= n /\ CodeEnd \in Nat
  BY Program
<1>2. /\ ir[i].address = 4 * (i - 1 - a) /\ CodeEnd = 4 * (n - c)
      /\ CodeEnd <= lastAddress
  BY DEF Counted, CodeEnd
<1>3. a \in Nat /\ a <= i - 1 /\ c \in Nat
  BY <1>1, CommentsInType
<1>4. CommentsIn(ir, i) = a
  <2>1. CommentsIn(ir, (i - 1) + 1) = a + IF ir[(i - 1) + 1].kind = "comment" THEN 1 ELSE 0
    BY <1>1, CommentsInNext
  <2>2. (i - 1) + 1 = i
    BY <1>1
  <2> HIDE DEF a
  <2> QED
    BY <1>3, <2>1, <2>2
<1>5. n - c >= i - a
  BY <1>1, <1>4, CommentsInSplit
<1> HIDE DEF n, a, c
<1>6. \A x, y \in Int : y <= x => 4 * y <= 4 * x
  OBVIOUS
<1>7. 4 * (i - a) <= 4 * (n - c) /\ 4 * (i - 1 - a) + 4 = 4 * (i - a)
  BY <1>1, <1>3, <1>5, <1>6
<1>8. i - 1 - a \in Nat
  BY <1>1, <1>3
<1>9. \A x \in Nat : 4 * x \in Nat /\ (4 * x) % 4 = 0
  OBVIOUS
<1> QED
  BY <1>2, <1>7, <1>8, <1>9 DEF a

(* An entry with a label moves to it; the others stay.                      *)
LEMMA LinkLabelsStep == LinkInv /\ LinkLabels => LinkInv'
<1> SUFFICES ASSUME LinkInv, LinkLabels PROVE LinkInv'
  OBVIOUS
<1>1. /\ pc = "labels" /\ pc' = "check" /\ ir[Len(ir)].kind # "comment"
      /\ UNCHANGED <<table, ext, comments, ir, lastAddress, next, linkErrors, image>>
      /\ address' = [e \in DOMAIN table |->
                       IF LabelOf(e) = {} THEN address[e]
                       ELSE ir[CHOOSE i \in LabelOf(e) : TRUE].address]
      /\ Typed /\ Counted
  BY DEF LinkLabels, inputs, LinkInv, Arranged
<1>2. \A e \in DOMAIN table : ~HasLabel(e) => address'[e] = address[e]
  BY <1>1 DEF HasLabel
<1>3. ASSUME NEW i \in DOMAIN ir, ir[i].kind = "label"
      PROVE  ir[i].entry \in DOMAIN table /\ address'[ir[i].entry] = ir[i].address
  <2>1. ir[i].entry \in DOMAIN table
    BY <1>1, <1>3 DEF Typed
  <2>2. LabelOf(ir[i].entry) = {i}
    BY <1>3 DEF LabelOf, LinkInv, LabelledOnce
  <2>3. (CHOOSE j \in {i} : TRUE) = i
    OBVIOUS
  <2> QED
    BY <1>1, <2>1, <2>2, <2>3
<1>4. ASSUME NEW e \in DOMAIN table, HasLabel(e)
      PROVE  \E i \in DOMAIN ir : ir[i].kind = "label" /\ ir[i].entry = e
  BY <1>4 DEF HasLabel, LabelOf
<1>5. ASSUME NEW e \in DOMAIN table
      PROVE  address'[e] = Unresolved \/ (address'[e] \in 0 .. lastAddress /\ address'[e] % 4 = 0)
  <2>1. CASE HasLabel(e)
    <3>1. PICK i \in DOMAIN ir : ir[i].kind = "label" /\ ir[i].entry = e
      BY <1>4, <2>1
    <3>2. /\ ir[i].address \in Nat /\ ir[i].address % 4 = 0
          /\ ir[i].address + 4 <= CodeEnd /\ CodeEnd <= lastAddress
      BY <1>1, <3>1, WordBelowEnd
    <3>3. lastAddress \in Nat /\ CodeEnd \in Nat
      BY <1>1, Program DEF Typed
    <3>4. address'[e] = ir[i].address
      BY <1>3, <3>1
    <3> QED
      BY <3>2, <3>3, <3>4
  <2>2. CASE ~HasLabel(e)
    BY <1>2, <2>2 DEF LinkInv, Located
  <2> QED
    BY <2>1, <2>2
<1>6. address' \in [DOMAIN table -> Int]
  <2>1. \A e \in DOMAIN table : address'[e] \in Int
    <3>1. lastAddress \in Nat /\ Unresolved \in Int
      BY <1>1 DEF Typed, Unresolved
    <3> QED
      BY <1>5, <3>1
  <2>2. \A e \in DOMAIN table :
          (IF LabelOf(e) = {} THEN address[e]
           ELSE ir[CHOOSE i \in LabelOf(e) : TRUE].address) = address'[e]
    BY <1>1
  <2> QED
    BY <1>1, <2>1, <2>2
<1>7. Typed'
  BY <1>1, <1>6 DEF Typed, Phases
<1>8. Counted' /\ CodeEnd' = CodeEnd
  BY <1>1 DEF Counted, CodeEnd
<1>9. Arranged' /\ LabelledOnce'
  BY <1>1 DEF LinkInv, Arranged, LabelledOnce
<1>10. /\ FilesRead' = FilesRead /\ GlobalsSeen' = GlobalsSeen /\ Translated' = Translated
       /\ ~Late /\ Late'
       /\ \A e : Given(e) /\ (HasLabel(e)' <=> HasLabel(e)) /\ (Given(e)' <=> ~HasLabel(e))
  BY <1>1 DEF FilesRead, GlobalsSeen, Translated, Late, Given, HasLabel, LabelOf
<1>11. ExternalsPlaced'
  <2>1. \A e \in DOMAIN table : \A k :
          ~HasLabel(e) /\ HoldsFile(e, k) => HoldsFile(e, k)'
    BY <1>1, <1>2 DEF HoldsFile
  <2> QED
    BY <1>1, <1>10, <2>1 DEF LinkInv, ExternalsPlaced
<1>12. GlobalsPlaced'
  <2>1. \A e \in DOMAIN table : ~HasLabel(e) => Above(e)' = Above(e)
    BY <1>1, <1>2 DEF Above
  <2>2. 1 .. GlobalsSeen \subseteq DOMAIN table
    BY <1>1, Tabled DEF GlobalsSeen, Typed
  <2> QED
    BY <1>1, <1>2, <1>8, <1>10, <2>1, <2>2 DEF LinkInv, GlobalsPlaced
<1>13. Located'
  BY <1>1, <1>3, <1>5 DEF Located
<1>14. Written'
  BY <1>1, <1>10 DEF LinkInv, Written
<1> QED
  BY <1>7, <1>8, <1>9, <1>11, <1>12, <1>13, <1>14 DEF LinkInv

LEMMA Appended ==
  ASSUME NEW S, NEW s \in Seq(S), NEW x \in S
  PROVE  /\ Append(s, x) \in Seq(S) /\ Len(Append(s, x)) = Len(s) + 1
         /\ DOMAIN Append(s, x) = 1 .. Len(s) + 1
         /\ \A i \in 1 .. Len(s) : Append(s, x)[i] = s[i]
         /\ Append(s, x)[Len(s) + 1] = x
OBVIOUS

(* A node of the code generator follows the ones before it.                 *)
LEMMA AddNodeStep ==
  ASSUME LinkInv, NEW kind \in Kinds \ {"data", "stack"}, NEW e \in DOMAIN table \cup {NoEntry},
         kind \in {"call", "label"} => e \in DOMAIN table,
         kind = "label" => LabelOf(e) = {},
         AddNode(kind, e)
  PROVE  LinkInv'
<1> DEFINE n == Len(ir)
           c == CommentsIn(ir, n)
           node == [kind |-> kind, entry |-> e, address |-> lastAddress]
<1>1. /\ pc = "codegen" /\ pc' = pc /\ next = 1
      /\ UNCHANGED <<table, ext, comments, address, next, linkErrors, image>>
      /\ ir' = Append(ir, node)
      /\ lastAddress' = IF kind = "comment" THEN lastAddress ELSE lastAddress + 4
  BY DEF AddNode, Node, inputs, LinkInv, Typed
<1>2. /\ Typed /\ ir \in Seq(Nodes) /\ lastAddress \in Nat /\ lastAddress % 4 = 0
      /\ table \in Tables /\ lastAddress = CodeEnd
  BY <1>1 DEF LinkInv, Typed, Counted
<1>3. /\ n \in Nat /\ DOMAIN ir = 1 .. n /\ c \in Nat /\ c <= n /\ n >= 12
  <2>1. n \in Nat /\ DOMAIN ir = 1 .. n
    BY <1>2, Program
  <2>2. n >= 12
    BY DEF LinkInv, Arranged, HeaderNodes
  <2> QED
    BY <2>1, <2>2, CommentsInType
<1>4. node \in Nodes /\ node.kind = kind /\ node.entry = e /\ node.address = lastAddress
  <2>1. e \in Nat
    BY <1>2, Tabled DEF NoEntry
  <2> QED
    BY <1>2, <2>1 DEF Nodes
<1> HIDE DEF node
<1>5. /\ ir' \in Seq(Nodes) /\ Len(ir') = n + 1 /\ DOMAIN ir' = 1 .. n + 1
      /\ \A i \in 1 .. n : ir'[i] = ir[i]
      /\ ir'[n + 1] = node
  BY <1>1, <1>2, <1>4, Appended
<1>6. /\ \A k \in 0 .. n : CommentsIn(ir', k) = CommentsIn(ir, k)
      /\ CommentsIn(ir', n + 1) = c + IF kind = "comment" THEN 1 ELSE 0
  <2>1. ASSUME NEW k \in 0 .. n PROVE CommentsIn(ir', k) = CommentsIn(ir, k)
    <3>1. k \in Nat /\ \A j \in 1 .. k : ir'[j] = ir[j]
      BY <1>3, <1>5
    <3> QED
      BY <3>1, CommentsInSame
  <2>2. CommentsIn(ir', n) = c
    BY <1>3, <2>1
  <2>3. CommentsIn(ir', n + 1)
          = CommentsIn(ir', n) + IF ir'[n + 1].kind = "comment" THEN 1 ELSE 0
    BY <1>3, CommentsInNext
  <2> HIDE DEF c
  <2> QED
    BY <1>4, <1>5, <2>1, <2>2, <2>3
<1>7. CodeEnd = 4 * (n - c) /\ CodeEnd' = 4 * ((n + 1) - CommentsIn(ir', n + 1))
  <2>1. CodeEnd = 4 * (n - c)
    BY DEF CodeEnd
  <2>2. CodeEnd' = 4 * (Len(ir') - CommentsIn(ir', Len(ir')))
    BY DEF CodeEnd
  <2>3. Len(ir') = n + 1
    BY <1>5
  <2> HIDE DEF n, c
  <2> QED
    BY <2>1, <2>2, <2>3
<1> HIDE DEF n, c
<1>8. \A i \in 1 .. n + 1 : i \in 1 .. n \/ i = n + 1
  BY <1>3
<1>9. lastAddress' = CodeEnd' /\ lastAddress' \in Nat /\ lastAddress' % 4 = 0
  <2>1. \A x \in Int : 4 * (x + 1) = 4 * x + 4
    OBVIOUS
  <2>2. lastAddress' = CodeEnd'
    <3>1. CASE kind = "comment"
      <4>1. CommentsIn(ir', n + 1) = c + 1
        BY <1>6, <3>1
      <4>2. (n + 1) - (c + 1) = n - c
        BY <1>3
      <4> QED
        BY <1>1, <1>2, <1>7, <3>1, <4>1, <4>2
    <3>2. CASE kind # "comment"
      <4>1. CommentsIn(ir', n + 1) = c + 0
        BY <1>6, <3>2
      <4>2. (n + 1) - (c + 0) = (n - c) + 1 /\ n - c \in Int
        BY <1>3
      <4>3. 4 * ((n - c) + 1) = 4 * (n - c) + 4
        BY <2>1, <4>2
      <4>4. CodeEnd' = CodeEnd + 4
        BY <1>7, <4>1, <4>2, <4>3
      <4> QED
        BY <1>1, <1>2, <3>2, <4>4
    <3> QED
      BY <3>1, <3>2
  <2> QED
    BY <1>1, <1>2, <2>2
<1>10. Typed'
  <2>1. \A i \in DOMAIN ir' : ir'[i].entry \in DOMAIN table \cup {NoEntry}
    BY <1>3, <1>4, <1>5, <1>8 DEF LinkInv, Typed
  <2>2. \A i \in DOMAIN ir' : ir'[i].kind \in {"call", "label"} => ir'[i].entry \in DOMAIN table
    BY <1>3, <1>4, <1>5, <1>8 DEF LinkInv, Typed
  <2> QED
    BY <1>1, <1>2, <1>5, <1>9, <2>1, <2>2 DEF Typed
<1>11. Counted'
  <2>1. ASSUME NEW i \in DOMAIN ir', ir'[i].kind # "comment"
        PROVE  ir'[i].address = 4 * (i - 1 - CommentsIn(ir', i - 1))
    <3>1. CASE i \in 1 .. n
      <4>1. i - 1 \in 0 .. n /\ i \in DOMAIN ir /\ ir'[i] = ir[i]
        BY <1>3, <1>5, <3>1
      <4>2. ir[i].address = 4 * (i - 1 - CommentsIn(ir, i - 1))
        BY <2>1, <4>1 DEF LinkInv, Counted
      <4> QED
        BY <1>6, <4>1, <4>2
    <3>2. CASE i = n + 1
      <4>1. i - 1 = n /\ n \in 0 .. n
        BY <1>3, <3>2
      <4>2. CommentsIn(ir', n) = c
        BY <1>6, <4>1 DEF c
      <4> QED
        BY <1>2, <1>4, <1>5, <1>7, <3>2, <4>1, <4>2
    <3> QED
      BY <1>5, <1>8, <2>1, <3>1, <3>2
  <2>2. CodeEnd' \in Nat
    BY <1>9
  <2>3. lastAddress' >= CodeEnd'
    BY <1>9, <2>2
  <2> QED
    BY <1>9, <2>1, <2>3 DEF Counted
<1>12. Arranged'
  <2>1. Len(ir') >= HeaderNodes
    BY <1>3, <1>5 DEF HeaderNodes
  <2>2. ir'[1] = ir[1] /\ ir'[5] = ir[5]
    BY <1>3, <1>5
  <2>3. \A i \in DOMAIN ir' : ir'[i].kind = "stack" <=> i = 5
    <3>1. n + 1 # 5
      BY <1>3
    <3> QED
      BY <1>3, <1>4, <1>5, <1>8, <3>1 DEF LinkInv, Arranged
  <2>4. \A i \in DOMAIN ir' : ir'[i].kind # "data"
    BY <1>1, <1>3, <1>4, <1>5, <1>8 DEF LinkInv, Arranged
  <2> QED
    BY <1>1, <2>1, <2>2, <2>3, <2>4 DEF LinkInv, Arranged
<1>13. LabelledOnce'
  <2>1. kind = "label" => \A i \in 1 .. n : ~ (ir[i].kind = "label" /\ ir[i].entry = e)
    BY <1>3 DEF LabelOf
  <2> QED
    BY <1>3, <1>4, <1>5, <1>8, <2>1 DEF LinkInv, LabelledOnce
<1>14. /\ FilesRead' = 0 /\ GlobalsSeen' = 0 /\ Translated = 0 /\ Translated' = 0 /\ ~Late'
  BY <1>1 DEF FilesRead, GlobalsSeen, Translated, Late
<1>15. ExternalsPlaced' /\ GlobalsPlaced'
  <2>1. 0 <= Len(ext') /\ 0 <= Len(table')
    BY <1>1, <1>2, Tabled, Listed DEF Typed
  <2> QED
    BY <1>14, <2>1 DEF ExternalsPlaced, GlobalsPlaced
<1>16. Located'
  <2>1. lastAddress <= lastAddress'
    BY <1>1, <1>2
  <2>2. ASSUME NEW a \in 0 .. lastAddress PROVE a \in 0 .. lastAddress'
    BY <1>2, <1>9, <2>1
  <2> QED
    BY <1>1, <1>14, <2>2 DEF LinkInv, Located
<1>17. Written'
  <2>1. CommentsIn(ir', 0) = CommentsIn(ir, 0) /\ 0 <= Len(ir')
    BY <1>3, <1>5, CommentsInNone
  <2> QED
    BY <1>1, <1>14, <2>1 DEF LinkInv, Written
<1> QED
  BY <1>10, <1>11, <1>12, <1>13, <1>15, <1>16, <1>17 DEF LinkInv

LEMMA CodeGenStep ==
  ASSUME LinkInv,
         \/ \E kind \in {"op", "comment"} : EmitPlain(kind)
         \/ \E e \in DOMAIN table : EmitLabel(e) \/ EmitCall(e)
  PROVE  LinkInv'
<1>1. ASSUME NEW kind \in {"op", "comment"}, EmitPlain(kind) PROVE LinkInv'
  <2>1. kind \in Kinds \ {"data", "stack"} /\ kind \notin {"call", "label"}
    BY <1>1 DEF Kinds
  <2>2. AddNode(kind, NoEntry)
    BY <1>1 DEF EmitPlain
  <2> QED
    BY <2>1, <2>2, AddNodeStep
<1>2. ASSUME NEW e \in DOMAIN table, EmitLabel(e) PROVE LinkInv'
  <2>1. AddNode("label", e) /\ LabelOf(e) = {} /\ "label" \in Kinds \ {"data", "stack"}
    BY <1>2 DEF EmitLabel, Kinds
  <2> QED
    BY <2>1, AddNodeStep
<1>3. ASSUME NEW e \in DOMAIN table, EmitCall(e) PROVE LinkInv'
  <2>1. AddNode("call", e) /\ "call" \in Kinds \ {"data", "stack"}
    BY <1>3 DEF EmitCall, Kinds
  <2> QED
    BY <2>1, AddNodeStep
<1> QED
  BY <1>1, <1>2, <1>3

LEMMA Concatenated ==
  ASSUME NEW S, NEW s \in Seq(S), NEW t \in Seq(S)
  PROVE  /\ s \o t \in Seq(S) /\ Len(s \o t) = Len(s) + Len(t)
         /\ DOMAIN (s \o t) = 1 .. Len(s) + Len(t)
         /\ \A i \in 1 .. Len(s) : (s \o t)[i] = s[i]
         /\ \A i \in 1 .. Len(t) : (s \o t)[Len(s) + i] = t[i]
OBVIOUS

(* The words of a file follow the code and the data before them.            *)
LEMMA LinkExternalStep == LinkInv /\ LinkExternal => LinkInv'
<1> SUFFICES ASSUME LinkInv, LinkExternal PROVE LinkInv'
  OBVIOUS
<1> DEFINE n == Len(ir)
           c == CommentsIn(ir, n)
           f == ext[next]
           w == f.words
           wanted == f.entry # NoEntry /\ table[f.entry].external
           D == [i \in 1 .. w |-> [kind |-> "data", entry |-> f.entry,
                                   address |-> lastAddress + 4 * (i - 1)]]
<1>1. /\ pc = "externals" /\ next <= Len(ext) /\ next' = next + 1
      /\ UNCHANGED <<table, ext, comments, linkErrors, image>>
      /\ ir' = ir \o D /\ lastAddress' = lastAddress + 4 * w
      /\ \/ wanted /\ w = 0 /\ pc' = "crashed" /\ address' = address
         \/ wanted /\ w # 0 /\ pc' = pc /\ address' = [address EXCEPT ![f.entry] = lastAddress]
         \/ ~wanted /\ pc' = pc /\ address' = address
  BY DEF LinkExternal, FirstData, inputs
<1>2. /\ Typed /\ Counted /\ ir \in Seq(Nodes) /\ lastAddress \in Nat /\ lastAddress % 4 = 0
      /\ table \in Tables /\ ext \in Externals /\ lastAddress = CodeEnd
      /\ next \in Nat \ {0} /\ address \in [DOMAIN table -> Int]
  BY <1>1 DEF LinkInv, Typed, Counted
<1>3. /\ n \in Nat /\ DOMAIN ir = 1 .. n /\ c \in Nat /\ c <= n /\ n >= 12
      /\ Len(ext) \in Nat /\ next \in DOMAIN ext /\ w \in Nat
      /\ f.entry \in DOMAIN table \cup {NoEntry} /\ f.entry \in Nat
      /\ Len(table) \in Nat /\ DOMAIN table = 1 .. Len(table)
  <2>1. n \in Nat /\ DOMAIN ir = 1 .. n
    BY <1>2, Program
  <2>2. n >= 12
    BY DEF LinkInv, Arranged, HeaderNodes
  <2>3. /\ Len(ext) \in Nat /\ DOMAIN ext = 1 .. Len(ext)
        /\ \A k \in DOMAIN ext : ext[k].words \in Nat
        /\ \A k \in DOMAIN ext : ext[k].entry \in DOMAIN table \cup {NoEntry}
    BY <1>2, Listed
  <2>4. next \in DOMAIN ext
    BY <1>1, <1>2, <2>3
  <2>5. Len(table) \in Nat /\ DOMAIN table = 1 .. Len(table)
    BY <1>2, Tabled
  <2>6. f.entry \in Nat
    BY <2>3, <2>4, <2>5 DEF NoEntry
  <2> QED
    BY <2>1, <2>2, <2>3, <2>4, <2>5, <2>6, CommentsInType
<1>4. /\ D \in Seq(Nodes) /\ Len(D) = w
      /\ \A i \in 1 .. w : /\ D[i].kind = "data" /\ D[i].entry = f.entry
                           /\ D[i].address = lastAddress + 4 * (i - 1)
  <2>1. \A i \in 1 .. w : D[i] = [kind |-> "data", entry |-> f.entry,
                                  address |-> lastAddress + 4 * (i - 1)]
    OBVIOUS
  <2>2. \A i \in 1 .. w : lastAddress + 4 * (i - 1) \in Nat
    BY <1>2, <1>3, SMTT(30)
  <2>3. \A i \in 1 .. w : D[i] \in Nodes
    BY <1>3, <2>1, <2>2 DEF Nodes, Kinds
  <2>4. D \in [1 .. w -> Nodes]
    BY <2>3
  <2>5. \A i \in 1 .. w : /\ D[i].kind = "data" /\ D[i].entry = f.entry
                          /\ D[i].address = lastAddress + 4 * (i - 1)
    BY <2>1
  <2> HIDE DEF D
  <2> QED
    BY <1>3, <2>4, <2>5, Formed
<1> HIDE DEF D
<1>5. /\ ir' \in Seq(Nodes) /\ Len(ir') = n + w /\ DOMAIN ir' = 1 .. n + w
      /\ \A i \in 1 .. n : ir'[i] = ir[i]
      /\ \A i \in 1 .. w : ir'[n + i] = D[i]
  <2>1. /\ ir \o D \in Seq(Nodes) /\ Len(ir \o D) = Len(ir) + Len(D)
        /\ DOMAIN (ir \o D) = 1 .. Len(ir) + Len(D)
        /\ \A i \in 1 .. Len(ir) : (ir \o D)[i] = ir[i]
        /\ \A i \in 1 .. Len(D) : (ir \o D)[Len(ir) + i] = D[i]
    <3>1. ir \in Seq(Nodes) /\ D \in Seq(Nodes)
      BY <1>2, <1>4
    <3> QED
      BY <3>1
  <2>2. ir' = ir \o D
    BY <1>1
  <2> DEFINE E == ir \o D
  <2> HIDE DEF E, w
  <2>3. ir' = E /\ Len(D) = w
    BY <1>4, <2>2 DEF E
  <2>4. /\ E \in Seq(Nodes) /\ Len(E) = n + w /\ DOMAIN E = 1 .. n + w
        /\ \A i \in 1 .. n : E[i] = ir[i]
        /\ \A i \in 1 .. w : E[n + i] = D[i]
    BY <2>1, <2>3 DEF E
  <2> QED
    BY <2>3, <2>4
<1>6. /\ \A k \in 0 .. n : CommentsIn(ir', k) = CommentsIn(ir, k)
      /\ \A k \in 0 .. w : CommentsIn(ir', n + k) = c
  <2>1. ASSUME NEW k \in 0 .. n PROVE CommentsIn(ir', k) = CommentsIn(ir, k)
    <3>1. k \in Nat /\ \A j \in 1 .. k : ir'[j] = ir[j]
      BY <1>3, <1>5
    <3> QED
      BY <3>1, CommentsInSame
  <2>2. CommentsIn(ir', n) = c
    BY <1>3, <2>1
  <2>3. ASSUME NEW k \in 0 .. w PROVE CommentsIn(ir', n + k) = c
    <3>1. CommentSet(ir', n + 1, n + k) = {}
      <4> SUFFICES ASSUME NEW j \in n + 1 .. n + k PROVE ir'[j].kind # "comment"
        BY DEF CommentSet
      <4>1. j - n \in 1 .. w /\ n + (j - n) = j
        BY <1>3, <2>3
      <4> QED
        BY <1>4, <1>5, <4>1
    <3>2. n + k \in Nat /\ n <= n + k
      BY <1>3
    <3>3. CommentsIn(ir', n + k) = CommentsIn(ir', n) + Cardinality(CommentSet(ir', n + 1, n + k))
      BY <1>3, <3>2, CommentsInSplit
    <3>4. CommentsIn(ir', n + k) = c + 0
      BY <2>2, <3>1, <3>3, FS_EmptySet
    <3> QED
      BY <1>3, <3>4
  <2> QED
    BY <2>1, <2>3
<1>7. CodeEnd = 4 * (n - c) /\ CodeEnd' = 4 * ((n + w) - c)
  <2>1. CodeEnd = 4 * (n - c)
    BY DEF CodeEnd
  <2>2. CodeEnd' = 4 * (Len(ir') - CommentsIn(ir', Len(ir')))
    BY DEF CodeEnd
  <2>3. Len(ir') = n + w /\ CommentsIn(ir', n + w) = c
    BY <1>3, <1>5, <1>6
  <2> HIDE DEF n, c, w
  <2> QED
    BY <2>1, <2>2, <2>3
<1> HIDE DEF n, c, w, f
<1>8. \A i \in 1 .. n + w : i \in 1 .. n \/ \E j \in 1 .. w : i = n + j
  <2> SUFFICES ASSUME NEW i \in 1 .. n + w, i \notin 1 .. n PROVE \E j \in 1 .. w : i = n + j
    OBVIOUS
  <2>1. i - n \in 1 .. w /\ i = n + (i - n)
    BY <1>3
  <2> QED
    BY <2>1
<1> DEFINE Fresh(j) == /\ n + j \in 1 .. n + w /\ n + j \notin 1 .. n
                      /\ ir'[n + j].kind = "data" /\ ir'[n + j].entry = f.entry
                      /\ ir'[n + j].address = lastAddress + 4 * (j - 1)
<1>0. \A j \in 1 .. w : Fresh(j)
  <2> SUFFICES ASSUME NEW j \in 1 .. w PROVE Fresh(j)
    OBVIOUS
  <2>1. n + j \in 1 .. n + w /\ n + j \notin 1 .. n
    BY <1>3
  <2>2. ir'[n + j] = D[j]
    BY <1>5
  <2> QED
    BY <1>4, <2>1, <2>2
<1>9. /\ lastAddress' = CodeEnd' /\ lastAddress' \in Nat /\ lastAddress' % 4 = 0
      /\ lastAddress' >= lastAddress
  <2>1. 4 * ((n + w) - c) = 4 * (n - c) + 4 * w
    BY <1>3
  <2> QED
    BY <1>1, <1>2, <1>3, <1>7, <2>1
<1>10. \A e \in DOMAIN table :
         \/ address'[e] = address[e]
         \/ wanted /\ e = f.entry /\ w # 0 /\ address'[e] = lastAddress
  BY <1>1, <1>2
<1>11. Typed'
  <2>1. \A i \in DOMAIN ir' : ir'[i].entry \in DOMAIN table \cup {NoEntry}
    <3>1. \A i \in 1 .. n : ir'[i].entry \in DOMAIN table \cup {NoEntry}
      BY <1>2, <1>3, <1>5 DEF Typed
    <3>2. \A j \in 1 .. w : ir'[n + j].entry = f.entry
      BY <1>0
    <3>3. f.entry \in DOMAIN table \cup {NoEntry}
      BY <1>3
    <3> HIDE DEF Fresh
    <3>4. \A j \in 1 .. w : ir'[n + j].entry \in DOMAIN table \cup {NoEntry}
      BY <3>2, <3>3, Zenon
    <3> QED
      BY <1>5, <1>8, <3>1, <3>4
  <2>2. \A i \in DOMAIN ir' : ir'[i].kind \in {"call", "label"} => ir'[i].entry \in DOMAIN table
    <3>1. \A i \in 1 .. w : ir'[n + i].kind = "data"
      BY <1>0
    <3>2. \A i \in 1 .. n : ir'[i].kind \in {"call", "label"} => ir'[i].entry \in DOMAIN table
      BY <1>2, <1>3, <1>5 DEF Typed
    <3> QED
      BY <1>5, <1>8, <3>1, <3>2
  <2>3. address' \in [DOMAIN table -> Int]
    <3>1. lastAddress \in Int
      BY <1>2
    <3> HIDE DEF wanted
    <3> QED
      BY <1>1, <1>2, <3>1
  <2>4. next' \in Nat \ {0} /\ pc' \in Phases /\ pc' # "codegen"
    BY <1>1, <1>2 DEF Phases
  <2> QED
    BY <1>1, <1>2, <1>5, <1>9, <2>1, <2>2, <2>3, <2>4 DEF Typed
<1>12. Counted'
  <2>1. ASSUME NEW i \in DOMAIN ir', ir'[i].kind # "comment"
        PROVE  ir'[i].address = 4 * (i - 1 - CommentsIn(ir', i - 1))
    <3>1. CASE i \in 1 .. n
      <4>1. i - 1 \in 0 .. n /\ i \in DOMAIN ir /\ ir'[i] = ir[i]
        BY <1>3, <1>5, <3>1
      <4>2. ir[i].address = 4 * (i - 1 - CommentsIn(ir, i - 1))
        BY <1>2, <2>1, <4>1 DEF Counted
      <4> QED
        BY <1>6, <4>1, <4>2
    <3>2. ASSUME NEW j \in 1 .. w, i = n + j
          PROVE  ir'[i].address = 4 * (i - 1 - CommentsIn(ir', i - 1))
      <4>1. j - 1 \in 0 .. w /\ i - 1 = n + (j - 1)
        BY <1>3, <3>2
      <4>2. CommentsIn(ir', i - 1) = c
        BY <1>6, <4>1
      <4>3. ir'[i].address = 4 * (n - c) + 4 * (j - 1)
        BY <1>2, <1>4, <1>5, <1>7, <3>2
      <4>4. i - 1 - c = (n - c) + (j - 1)
        BY <1>3, <4>1
      <4>5. 4 * ((n - c) + (j - 1)) = 4 * (n - c) + 4 * (j - 1)
        BY <1>3
      <4> QED
        BY <4>2, <4>3, <4>4, <4>5
    <3> QED
      BY <1>5, <1>8, <3>1, <3>2
  <2>2. lastAddress' >= CodeEnd'
    BY <1>9
  <2> QED
    BY <1>9, <2>1, <2>2 DEF Counted
<1>13. Arranged'
  <2>1. Len(ir') >= HeaderNodes
    BY <1>3, <1>5 DEF HeaderNodes
  <2>2. ir'[1] = ir[1] /\ ir'[5] = ir[5]
    BY <1>3, <1>5
  <2>3. \A i \in DOMAIN ir' : ir'[i].kind = "stack" <=> i = 5
    <3>1. \A j \in 1 .. w : n + j # 5 /\ ir'[n + j].kind = "data"
      <4>1. \A j \in 1 .. w : n + j # 5
        BY <1>3
      <4>2. \A j \in 1 .. w : ir'[n + j].kind = "data"
        BY <1>0
      <4> QED
        BY <4>1, <4>2
    <3>2. \A i \in 1 .. n : ir'[i].kind = "stack" <=> i = 5
      BY <1>3, <1>5, SMTT(30) DEF LinkInv, Arranged
    <3> QED
      BY <1>5, <1>8, <3>1, <3>2
  <2>4. \A i, j \in DOMAIN ir' : i < j /\ ir'[i].kind = "data" => ir'[j].kind = "data"
    <3> SUFFICES ASSUME NEW i \in DOMAIN ir', NEW j \in DOMAIN ir', i < j, ir'[i].kind = "data"
                 PROVE  ir'[j].kind = "data"
      OBVIOUS
    <3>1. CASE j \in 1 .. n
      <4>1. i \in 1 .. n
        BY <1>3, <1>5, <3>1
      <4> QED
        BY <1>3, <1>5, <3>1, <4>1 DEF LinkInv, Arranged
    <3>2. CASE j \notin 1 .. n
      BY <1>0, <1>5, <1>8, <3>2
    <3> QED
      BY <3>1, <3>2
  <2>5. ir'[Len(ir')].kind # "comment"
    <3>1. CASE w = 0
      <4>1. Len(ir') = n /\ n \in 1 .. n
        BY <1>3, <1>5, <3>1
      <4>2. ir[n].kind # "comment"
        BY <1>1 DEF LinkInv, Arranged, n
      <4> QED
        BY <1>5, <4>1, <4>2
    <3>2. CASE w # 0
      <4>1. w \in 1 .. w
        BY <1>3, <3>2
      <4> QED
        BY <1>4, <1>5, <4>1
    <3> QED
      BY <3>1, <3>2
  <2>6. pc' # "codegen"
    BY <1>1
  <2> QED
    BY <2>1, <2>2, <2>3, <2>4, <2>5, <2>6 DEF LinkInv, Arranged
<1>14. LabelledOnce'
  <2>1. \A i \in DOMAIN ir' : ir'[i].kind = "label" => i \in DOMAIN ir /\ ir'[i] = ir[i]
    BY <1>0, <1>3, <1>5, <1>8
  <2> QED
    BY <2>1 DEF LinkInv, LabelledOnce
<1>15. /\ FilesRead = next - 1 /\ GlobalsSeen' = 0 /\ Translated = 0 /\ Translated' = 0
       /\ ~Late /\ ~Late' /\ (pc' # "crashed" => FilesRead' = next)
       /\ (pc' = "crashed" => FilesRead' = Len(ext))
  <2>1. (next + 1) - 1 = next
    BY <1>2
  <2> QED
    BY <1>1, <2>1 DEF FilesRead, GlobalsSeen, Translated, Late
<1>16. ExternalsPlaced'
  <2>1. FilesRead' <= Len(ext')
    BY <1>1, <1>3, <1>15
  <2>2. ASSUME pc' # "crashed", NEW e \in DOMAIN table, table[e].external,
               NEW k \in 1 .. next, ext[k].entry = e
        PROVE  \E l \in 1 .. next : ext[l].entry = e /\ HoldsFile(e, l)'
    <3>1. CASE f.entry = e
      <4>1. wanted /\ w # 0 /\ address'[e] = lastAddress
        <5>1. e # NoEntry
          BY <1>3 DEF NoEntry
        <5> QED
          BY <1>1, <1>2, <2>2, <3>1, <5>1
      <4>2. ASSUME NEW m \in 0 .. w - 1
            PROVE  \E i \in DOMAIN ir' : /\ ir'[i].kind = "data" /\ ir'[i].entry = e
                                         /\ ir'[i].address = address'[e] + 4 * m
        <5>1. m + 1 \in 1 .. w /\ n + (m + 1) \in 1 .. n + w /\ (m + 1) - 1 = m
          BY <1>3
        <5>2. Fresh(m + 1)
          BY <1>0, <5>1
        <5> QED
          BY <1>5, <3>1, <4>1, <5>1, <5>2
      <4> PICK d \in Nat : d = next
        BY <1>2
      <4>3. HoldsFile(e, d)'
        <5>1. address'[e] \in Nat /\ address'[e] % 4 = 0
          BY <1>2, <4>1
        <5>2. ext' = ext /\ w = ext[d].words
          BY <1>1 DEF w, f
        <5> QED
          BY <4>2, <5>1, <5>2 DEF HoldsFile
      <4>4. d \in 1 .. next /\ ext[d].entry = e
        BY <1>2, <3>1 DEF f
      <4> QED
        BY <4>3, <4>4
    <3>2. CASE f.entry # e
      <4>1. k \in 1 .. FilesRead
        BY <1>2, <1>15, <2>2, <3>2 DEF f
      <4>2. Given(e) /\ pc # "crashed"
        BY <1>1, <1>15 DEF Given
      <4>3. PICK l \in 1 .. FilesRead : ext[l].entry = e /\ HoldsFile(e, l)
        BY <2>2, <4>1, <4>2 DEF LinkInv, ExternalsPlaced
      <4>4. address'[e] = address[e]
        BY <1>10, <3>2
      <4>5. \A i \in DOMAIN ir : i \in DOMAIN ir' /\ ir'[i] = ir[i]
        BY <1>3, <1>5
      <4>6. HoldsFile(e, l)'
        BY <1>1, <4>3, <4>4, <4>5 DEF HoldsFile
      <4>7. l \in 1 .. next
        BY <1>2, <1>15, <4>3
      <4> QED
        BY <4>3, <4>6, <4>7
    <3> QED
      BY <3>1, <3>2
  <2> QED
    BY <1>1, <1>15, <2>1, <2>2 DEF ExternalsPlaced
<1>17. GlobalsPlaced'
  <2>1. 0 <= Len(table')
    BY <1>1, <1>3
  <2> QED
    BY <1>15, <2>1 DEF GlobalsPlaced
<1>18. Located'
  <2>1. ASSUME NEW a \in 0 .. lastAddress PROVE a \in 0 .. lastAddress'
    BY <1>2, <1>9
  <2>2. lastAddress \in 0 .. lastAddress /\ lastAddress % 4 = 0
    BY <1>2
  <2>3. \A e \in DOMAIN table : address'[e] = Unresolved \/
          (address'[e] \in 0 .. lastAddress' /\ address'[e] % 4 = 0)
    BY <1>10, <2>1, <2>2 DEF LinkInv, Located
  <2> QED
    BY <1>1, <1>15, <2>3 DEF Located
<1>19. Written'
  <2>1. CommentsIn(ir', 0) = CommentsIn(ir, 0) /\ 0 <= Len(ir')
    BY <1>3, <1>5, CommentsInNone
  <2> QED
    BY <1>1, <1>15, <2>1 DEF LinkInv, Written
<1> QED
  BY <1>11, <1>12, <1>13, <1>14, <1>16, <1>17, <1>18, <1>19 DEF LinkInv

(* A node is written after the ones before it, or, a comment, left out.     *)
LEMMA TranslateStep == LinkInv /\ Translate => LinkInv'
<1> SUFFICES ASSUME LinkInv, Translate PROVE LinkInv'
  OBVIOUS
<1> DEFINE m == Len(image)
           c == CommentsIn(image, m)
           b == CommentsIn(ir, next - 1)
           x == IF ir[next].kind = "comment" THEN 1 ELSE 0
<1>1. /\ pc = "translate" /\ pc' = pc /\ next <= Len(ir) /\ next' = next + 1
      /\ UNCHANGED <<table, ext, comments, address, ir, lastAddress, linkErrors>>
      /\ \/ image' = image /\ ir[next].kind = "comment"
         \/ image' = Append(image, ir[next])
  BY DEF Translate, inputs, Included
<1>2. /\ Typed /\ Counted /\ next \in Nat \ {0} /\ image \in Seq(Nodes)
  BY DEF LinkInv, Typed
<1>3. /\ Len(ir) \in Nat /\ DOMAIN ir = 1 .. Len(ir) /\ next \in DOMAIN ir
      /\ ir[next] \in Nodes /\ m \in Nat /\ DOMAIN image = 1 .. m /\ c \in Nat /\ b \in Nat
      /\ next - 1 \in Nat /\ x \in 0 .. 1
  <2>1. Len(ir) \in Nat /\ DOMAIN ir = 1 .. Len(ir) /\ m \in Nat /\ DOMAIN image = 1 .. m
    BY <1>2, Program
  <2>2. next \in DOMAIN ir /\ next - 1 \in Nat
    BY <1>1, <1>2, <2>1
  <2>3. ir[next] \in Nodes
    BY <1>2, <2>2, Program
  <2>4. x \in 0 .. 1
    OBVIOUS
  <2> QED
    BY <2>1, <2>2, <2>3, <2>4, CommentsInType
<1>4. /\ FilesRead' = FilesRead /\ GlobalsSeen' = GlobalsSeen /\ (Late' <=> Late)
      /\ Translated = next - 1 /\ Translated' = next
  <2>1. (next + 1) - 1 = next
    BY <1>2
  <2> QED
    BY <1>1, <2>1 DEF FilesRead, GlobalsSeen, Translated, Late
<1>5. CommentsIn(ir, next) = b + x
  <2>1. CommentsIn(ir, (next - 1) + 1)
          = CommentsIn(ir, next - 1) + IF ir[(next - 1) + 1].kind = "comment" THEN 1 ELSE 0
    BY <1>3, CommentsInNext
  <2>2. (next - 1) + 1 = next
    BY <1>2
  <2> QED
    BY <2>1, <2>2
<1>6. m - c = (next - 1) - b
  BY <1>4 DEF LinkInv, Written
<1>7. \A k \in 1 .. m : \E i \in 1 .. next - 1 : image[k] = ir[i]
  BY <1>3, <1>4 DEF LinkInv, Written
<1>8. \A i \in 1 .. next - 1 : ir[i].kind # "comment" => \E k \in 1 .. m : image[k] = ir[i]
  BY <1>3, <1>4 DEF LinkInv, Written
<1>9. \A k, l \in 1 .. m : k < l /\ image[k].kind = "data" => image[l].kind = "data"
  BY <1>3 DEF LinkInv, Written
<1>10. \A k \in 1 .. m : image[k].kind # "comment" =>
         image[k].address = 4 * (k - 1 - CommentsIn(image, k - 1))
  BY <1>3 DEF LinkInv, Written
<1>11. ASSUME image' = image, ir[next].kind = "comment"
       PROVE  Written' /\ image' \in Seq(Nodes)
  <2>1. CommentsIn(ir, next) = b + 1
    BY <1>5, <1>11
  <2> HIDE DEF m, c, b, x
  <2>2. Written'
    <3>1. m - c = next - (b + 1)
      BY <1>2, <1>3, <1>6
    <3>2. Len(image) - CommentsIn(image, Len(image)) = next - CommentsIn(ir, next)
      BY <2>1, <3>1 DEF m, c
    <3>3. \A k \in DOMAIN image : \E i \in 1 .. next : image[k] = ir[i]
      <4>1. \A i \in 1 .. next - 1 : i \in 1 .. next
        BY <1>2
      <4> QED
        BY <1>3, <1>7, <4>1
    <3>4. \A i \in 1 .. next : ir[i].kind # "comment" => \E k \in DOMAIN image : image[k] = ir[i]
      <4>1. \A i \in 1 .. next : i \in 1 .. next - 1 \/ i = next
        BY <1>2
      <4> QED
        BY <1>3, <1>8, <1>11, <4>1
    <3> QED
      BY <1>1, <1>3, <1>4, <1>9, <1>10, <1>11, <3>2, <3>3, <3>4 DEF Written
  <2>3. image' \in Seq(Nodes)
    BY <1>2, <1>11
  <2> QED
    BY <2>2, <2>3
<1>12. ASSUME image' = Append(image, ir[next])
       PROVE  Written' /\ image' \in Seq(Nodes)
  <2>1. /\ Append(image, ir[next]) \in Seq(Nodes) /\ Len(Append(image, ir[next])) = m + 1
        /\ DOMAIN Append(image, ir[next]) = 1 .. m + 1
        /\ \A k \in 1 .. m : Append(image, ir[next])[k] = image[k]
        /\ Append(image, ir[next])[m + 1] = ir[next]
    BY <1>2, <1>3, Appended
  <2> HIDE DEF m
  <2>2. /\ image' \in Seq(Nodes) /\ Len(image') = m + 1 /\ DOMAIN image' = 1 .. m + 1
        /\ \A k \in 1 .. m : image'[k] = image[k]
        /\ image'[m + 1] = ir[next]
    <3> DEFINE E == Append(image, ir[next])
    <3> HIDE DEF E
    <3>1. /\ E \in Seq(Nodes) /\ Len(E) = m + 1 /\ DOMAIN E = 1 .. m + 1
          /\ \A k \in 1 .. m : E[k] = image[k]
          /\ E[m + 1] = ir[next]
      BY <2>1 DEF E
    <3>2. image' = E
      BY <1>12 DEF E
    <3> QED
      BY <3>1, <3>2
  <2>3. \A k \in 0 .. m : CommentsIn(image', k) = CommentsIn(image, k)
    <3> SUFFICES ASSUME NEW k \in 0 .. m PROVE CommentsIn(image', k) = CommentsIn(image, k)
      OBVIOUS
    <3>1. k \in Nat /\ \A j \in 1 .. k : image'[j] = image[j]
      BY <1>3, <2>2
    <3> QED
      BY <3>1, CommentsInSame
  <2>4. CommentsIn(image', m) = c /\ CommentsIn(image', m + 1) = c + x
    <3>1. CommentsIn(image', m) = c
      BY <1>3, <2>3 DEF c, m
    <3>2. CommentsIn(image', m + 1)
            = CommentsIn(image', m) + IF image'[m + 1].kind = "comment" THEN 1 ELSE 0
      BY <1>3, CommentsInNext
    <3> HIDE DEF c
    <3> QED
      BY <2>2, <3>1, <3>2
  <2> HIDE DEF c, b, x
  <2>5. (m + 1) - (c + x) = next - (b + x)
    BY <1>2, <1>3, <1>6
  <2>6. \A k \in 1 .. m + 1 : k \in 1 .. m \/ k = m + 1
    BY <1>3
  <2>7. \A i \in 1 .. next : i \in 1 .. next - 1 \/ i = next
    BY <1>2
  <2>8. Len(image') - CommentsIn(image', Len(image')) = next - CommentsIn(ir, next)
    BY <1>5, <2>2, <2>4, <2>5
  <2>9. \A k \in DOMAIN image' : \E i \in 1 .. next : image'[k] = ir[i]
    <3>1. next \in 1 .. next /\ \A i \in 1 .. next - 1 : i \in 1 .. next
      BY <1>2
    <3> QED
      BY <1>7, <2>2, <2>6, <3>1
  <2>10. \A i \in 1 .. next : ir[i].kind # "comment" => \E k \in DOMAIN image' : image'[k] = ir[i]
    <3>1. m + 1 \in 1 .. m + 1 /\ \A k \in 1 .. m : k \in 1 .. m + 1
      BY <1>3
    <3> QED
      BY <1>8, <2>2, <2>7, <3>1
  <2>11. \A k, l \in DOMAIN image' : k < l /\ image'[k].kind = "data" => image'[l].kind = "data"
    <3> SUFFICES ASSUME NEW k \in 1 .. m + 1, NEW l \in 1 .. m + 1, k < l,
                        image'[k].kind = "data"
                 PROVE  image'[l].kind = "data"
      BY <2>2
    <3>1. k \in 1 .. m
      BY <1>3
    <3>2. CASE l \in 1 .. m
      BY <1>9, <2>2, <3>1, <3>2
    <3>3. CASE l = m + 1
      <4>1. PICK i \in 1 .. next - 1 : image[k] = ir[i]
        BY <1>7, <3>1
      <4>2. i \in DOMAIN ir /\ i < next /\ ir[i].kind = "data"
        BY <1>1, <1>2, <1>3, <2>2, <3>1, <4>1
      <4> QED
        BY <1>3, <2>2, <3>3, <4>2 DEF LinkInv, Arranged
    <3> QED
      BY <2>6, <3>2, <3>3
  <2>12. ASSUME NEW k \in DOMAIN image', image'[k].kind # "comment"
         PROVE  image'[k].address = 4 * (k - 1 - CommentsIn(image', k - 1))
    <3>1. CASE k \in 1 .. m
      <4>1. k - 1 \in 0 .. m
        BY <1>3, <3>1
      <4> QED
        BY <1>10, <2>2, <2>3, <2>12, <3>1, <4>1
    <3>2. CASE k = m + 1
      <4>1. ir[next].address = 4 * (next - 1 - b)
        BY <1>2, <1>3, <2>2, <2>12, <3>2 DEF Counted, b
      <4>2. k - 1 = m /\ k - 1 - c = next - 1 - b
        BY <1>2, <1>3, <1>6, <3>2
      <4> QED
        BY <2>2, <2>4, <3>2, <4>1, <4>2
    <3> QED
      BY <2>2, <2>6, <3>1, <3>2
  <2>13. Written'
    BY <1>1, <1>4, <2>8, <2>9, <2>10, <2>11, <2>12 DEF Written
  <2> QED
    BY <2>2, <2>13
<1> HIDE DEF m, c, b, x
<1>13. Written' /\ image' \in Seq(Nodes)
  BY <1>1, <1>11, <1>12
<1>14. Typed'
  <2>1. next' \in Nat \ {0}
    BY <1>1, <1>2
  <2> QED
    BY <1>1, <1>2, <1>13, <2>1 DEF Typed
<1>15. Counted' /\ Arranged' /\ LabelledOnce' /\ CodeEnd' = CodeEnd
  BY <1>1 DEF LinkInv, Counted, CodeEnd, Arranged, LabelledOnce
<1>16. \A e : /\ (Given(e)' <=> Given(e)) /\ Above(e)' = Above(e)
  BY <1>1, <1>4 DEF Given, HasLabel, LabelOf, Above
<1>17. \A e, k : HoldsFile(e, k)' <=> HoldsFile(e, k)
  BY <1>1 DEF HoldsFile
<1>18. ExternalsPlaced'
  BY <1>1, <1>4, <1>16, <1>17 DEF LinkInv, ExternalsPlaced
<1>19. GlobalsPlaced'
  BY <1>1, <1>4, <1>15, <1>16 DEF LinkInv, GlobalsPlaced
<1>20. Located'
  BY <1>1, <1>4 DEF LinkInv, Located
<1> QED
  BY <1>13, <1>14, <1>15, <1>18, <1>19, <1>20 DEF LinkInv

LEMMA NextInv == LinkInv /\ [Next]_vars => LinkInv'
<1> SUFFICES ASSUME LinkInv, [Next]_vars PROVE LinkInv'
  OBVIOUS
<1>1. CASE \/ \E kind \in {"op", "comment"} : EmitPlain(kind)
           \/ \E e \in DOMAIN table : EmitLabel(e) \/ EmitCall(e)
  BY <1>1, CodeGenStep
<1>2. CASE Stopped \/ UNCHANGED vars
  BY <1>2, UnchangedStep DEF Stopped
<1> QED
  BY <1>1, <1>2, EndCodeGenStep, LinkExternalStep, EndExternalsStep, LinkGlobalStep,
     EndGlobalsStep, LinkLabelsStep, LinkCheckStep, TranslateStep, EndTranslateStep
     DEF Next

LEMMA SpecInv == Spec => []LinkInv
BY InitInv, NextInv, PTL DEF Spec

-----------------------------------------------------------------------------
(* Every address given out is that of a whole word, no higher than what the *)
(* linker has counted to.                                                   *)
LEMMA WholeWords == LinkInv => TypeOK
<1> SUFFICES ASSUME LinkInv PROVE TypeOK
  OBVIOUS
<1>1. lastAddress \in Nat /\ address \in [DOMAIN table -> Int]
  BY DEF LinkInv, Typed
<1>2. \A a, b \in Nat : a <= b /\ a % 4 = 0 => a \div 4 \in 0 .. (b \div 4) /\ a = 4 * (a \div 4)
  OBVIOUS
<1>3. ASSUME NEW e \in DOMAIN table PROVE address[e] \in Words \cup {Unresolved}
  <2>1. address[e] = Unresolved \/ (address[e] \in 0 .. lastAddress /\ address[e] % 4 = 0)
    BY DEF LinkInv, Located
  <2>2. CASE address[e] = Unresolved
    BY <2>2
  <2>3. CASE address[e] \in 0 .. lastAddress /\ address[e] % 4 = 0
    <3>1. /\ address[e] \div 4 \in 0 .. (lastAddress \div 4)
          /\ address[e] = 4 * (address[e] \div 4)
      BY <1>1, <1>2, <2>3
    <3> QED
      BY <3>1 DEF Words
  <2> QED
    BY <2>1, <2>2, <2>3
<1>4. address \in [DOMAIN table -> Words \cup {Unresolved}]
  BY <1>1, <1>3
<1> QED
  BY <1>4 DEF LinkInv, Typed, TypeOK, Phases

(* The room of a global of the program starts past the code and the data,   *)
(* and overlaps no other's (linker.c lines 21-26).                          *)
LEMMA RoomOfTheirOwn == LinkInv => StorageDisjoint
<1> SUFFICES ASSUME LinkInv, pc = "done",
                    NEW e \in DOMAIN table, Held(e)
             PROVE  /\ address[e] >= 4 * (Len(image) - Comments(1, Len(image)))
                    /\ \A f \in DOMAIN table :
                         (e # f /\ Held(f)) => Above(e) <= address[f] \/ Above(f) <= address[e]
  BY DEF StorageDisjoint
<1>1. /\ DOMAIN table = 1 .. Len(table) /\ Len(table) \in Nat /\ address \in [DOMAIN table -> Int]
      /\ Len(image) \in Nat /\ CodeEnd \in Nat
  <2>1. Typed
    BY DEF LinkInv
  <2>2. table \in Tables /\ address \in [DOMAIN table -> Int]
    BY <2>1 DEF Typed
  <2> QED
    BY <2>1, <2>2, Tabled, Program
<1>2. GlobalsSeen = Len(table) /\ Translated = Len(ir)
  BY DEF GlobalsSeen, Translated
<1>3. ASSUME NEW f \in DOMAIN table, Held(f)
      PROVE  Given(f) /\ ~table[f].external /\ f \in 1 .. GlobalsSeen
  BY <1>1, <1>2, <1>3 DEF Given, Held
<1>4. 4 * (Len(image) - Comments(1, Len(image))) = CodeEnd
  <2>1. Comments(1, Len(image)) = CommentsIn(image, Len(image))
    BY DEF Comments, CommentsIn
  <2>2. Len(image) - CommentsIn(image, Len(image)) = Len(ir) - CommentsIn(ir, Len(ir))
    BY <1>2 DEF LinkInv, Written
  <2> QED
    BY <2>1, <2>2 DEF CodeEnd
<1>5. CodeEnd <= address[e]
  BY <1>3 DEF LinkInv, GlobalsPlaced
<1>6. ASSUME NEW f \in DOMAIN table, e # f, Held(f)
      PROVE  Above(e) <= address[f] \/ Above(f) <= address[e]
  <2>1. e < f \/ f < e
    BY <1>1, <1>6
  <2> QED
    BY <1>3, <1>6, <2>1 DEF LinkInv, GlobalsPlaced
<1>7. address[e] >= 4 * (Len(image) - Comments(1, Len(image)))
  BY <1>1, <1>4, <1>5
<1> QED
  BY <1>6, <1>7

(* Whatever the table, the files and the code, no word of memory is given   *)
(* to two of the globals the program holds, or to one of them and the code. *)
THEOREM GlobalsHaveTheirOwnRoom == Spec => []Layout
<1>1. LinkInv => Layout
  BY WholeWords, RoomOfTheirOwn DEF Layout
<1> QED
  BY <1>1, SpecInv, PTL

(* In the binary, too, a word's address counts the words before it, and     *)
(* leaves the comments out.                                                 *)
LEMMA CommentsBetween ==
  ASSUME LinkInv, NEW i \in DOMAIN image, NEW j \in DOMAIN image, i < j,
         image[j].kind # "comment"
  PROVE  /\ Comments(i, j) = CommentsIn(image, j - 1) - CommentsIn(image, i - 1)
         /\ Comments(j, i) = 0
<1>1. /\ DOMAIN image = 1 .. Len(image) /\ i \in Nat /\ j \in Nat /\ i - 1 \in Nat /\ j - 1 \in Nat
      /\ (i - 1) + 1 = i /\ (j - 1) + 1 = j /\ i - 1 <= j
  <2>1. DOMAIN image = 1 .. Len(image) /\ Len(image) \in Nat
    BY Program DEF LinkInv
  <2> QED
    BY <2>1
<1>2. Comments(i, j) = Cardinality(CommentSet(image, i, j)) /\ Comments(j, i) = Cardinality({})
  <2>1. {k \in j .. i : image[k].kind = "comment"} = {}
    BY <1>1
  <2> QED
    BY <2>1 DEF Comments, CommentSet
<1>3. CommentsIn(image, j) = CommentsIn(image, i - 1) + Cardinality(CommentSet(image, (i - 1) + 1, j))
      /\ Cardinality(CommentSet(image, (i - 1) + 1, j)) \in Nat
  BY <1>1, CommentsInSplit
<1>4. CommentsIn(image, (j - 1) + 1)
        = CommentsIn(image, j - 1) + IF image[(j - 1) + 1].kind = "comment" THEN 1 ELSE 0
  BY <1>1, CommentsInNext
<1>5. CommentsIn(image, j - 1) \in Nat /\ CommentsIn(image, i - 1) \in Nat
  BY <1>1, CommentsInType
<1>6. CommentsIn(image, j) = CommentsIn(image, j - 1)
  BY <1>1, <1>4, <1>5
<1>7. Comments(i, j) = CommentsIn(image, j - 1) - CommentsIn(image, i - 1)
  BY <1>1, <1>2, <1>3, <1>5, <1>6
<1> QED
  BY <1>2, <1>7, FS_EmptySet

LEMMA CallsReachLabels == LinkInv => CallsLand
<1> SUFFICES ASSUME LinkInv, pc = "done",
                    NEW i \in DOMAIN image, image[i].kind = "call",
                    NEW j \in DOMAIN image, IsLabelOf(image[j], image[i].entry)
             PROVE  i + (address[image[i].entry] - image[i].address) \div 4
                      = j - Comments(i, j) + Comments(j, i)
  BY DEF CallsLand
<1> DEFINE a == CommentsIn(image, i - 1)
           b == CommentsIn(image, j - 1)
<1>1. /\ DOMAIN image = 1 .. Len(image) /\ i \in Nat /\ j \in Nat /\ i - 1 \in Nat /\ j - 1 \in Nat
  <2>1. DOMAIN image = 1 .. Len(image) /\ Len(image) \in Nat
    BY Program DEF LinkInv
  <2> QED
    BY <2>1
<1>2. image[j].kind = "label" /\ image[j].entry = image[i].entry /\ i # j
  BY DEF IsLabelOf
<1>3. a \in Nat /\ b \in Nat
  BY <1>1, CommentsInType
<1>4. image[i].address = 4 * (i - 1 - a) /\ image[j].address = 4 * (j - 1 - b)
  BY <1>2 DEF LinkInv, Written
<1>5. address[image[i].entry] = image[j].address
  <2>1. PICK k \in 1 .. Len(ir) : image[j] = ir[k]
    BY DEF LinkInv, Written, Translated
  <2>2. k \in DOMAIN ir
    BY Program DEF LinkInv
  <2> QED
    BY <1>2, <2>1, <2>2 DEF LinkInv, Located, Late
<1> HIDE DEF a, b
<1>6. (4 * (j - 1 - b) - 4 * (i - 1 - a)) \div 4 = (j - b) - (i - a)
  <2>1. \A x, y \in Int : (4 * x - 4 * y) \div 4 = x - y
    OBVIOUS
  <2>2. j - 1 - b \in Int /\ i - 1 - a \in Int
    BY <1>1, <1>3
  <2>3. (j - 1 - b) - (i - 1 - a) = (j - b) - (i - a)
    <3>1. \A w, x, y, z \in Nat : (w - 1 - x) - (y - 1 - z) = (w - x) - (y - z)
      OBVIOUS
    <3> QED
      BY <1>1, <1>3, <3>1
  <2> QED
    BY <2>1, <2>2, <2>3
<1>7. i + (address[image[i].entry] - image[i].address) \div 4 = j - b + a
  <2>1. i + ((j - b) - (i - a)) = j - b + a
    BY <1>1, <1>3
  <2> QED
    BY <1>4, <1>5, <1>6, <2>1
<1>8. CASE i < j
  <2>1. Comments(i, j) = b - a /\ Comments(j, i) = 0
    BY <1>2, <1>8, CommentsBetween DEF a, b
  <2>2. j - (b - a) + 0 = j - b + a
    BY <1>1, <1>3
  <2> QED
    BY <1>7, <2>1, <2>2
<1>9. CASE j < i
  <2>1. Comments(j, i) = a - b /\ Comments(i, j) = 0
    BY <1>9, CommentsBetween DEF a, b
  <2>2. j - 0 + (a - b) = j - b + a
    BY <1>1, <1>3
  <2> QED
    BY <1>7, <2>1, <2>2
<1> QED
  BY <1>1, <1>2, <1>8, <1>9

(* A call leads to the label of its function, or as far from it as there    *)
(* are comments between the two in the binary (riscv.c line 365).           *)
THEOREM CallsReachTheirLabels == Spec => []CallsLand
BY CallsReachLabels, SpecInv, PTL

(* The data end the binary: no comment comes after the first of their       *)
(* words, and all that come before it move it up.                           *)
LEMMA DataMovedUp ==
  ASSUME LinkInv, NEW l \in DOMAIN image, image[l].kind = "data"
  PROVE  /\ image[l].address % 4 = 0
         /\ l = (image[l].address \div 4) + 1 + Comments(1, Len(image))
<1> DEFINE c == CommentsIn(image, l - 1)
           n == Len(image)
<1>1. /\ n \in Nat /\ l \in 1 .. n /\ l - 1 \in Nat /\ (l - 1) + 1 = l /\ l - 1 <= n
  <2>1. DOMAIN image = 1 .. n /\ n \in Nat
    BY Program DEF LinkInv
  <2> QED
    BY <2>1
<1>2. c \in Nat /\ c <= l - 1
  BY <1>1, CommentsInType
<1>3. image[l].address = 4 * (l - 1 - c)
  BY DEF LinkInv, Written
<1>4. CommentSet(image, l, n) = {}
  <2> SUFFICES ASSUME NEW j \in l .. n PROVE image[j].kind # "comment"
    BY DEF CommentSet
  <2>1. j \in DOMAIN image /\ (j = l \/ l < j)
    <3>1. DOMAIN image = 1 .. n
      BY Program DEF LinkInv
    <3> QED
      BY <1>1, <3>1
  <2>2. image[j].kind = "data"
    BY <2>1 DEF LinkInv, Written
  <2> QED
    BY <2>2
<1>5. Comments(1, n) = c
  <2>1. CommentsIn(image, n) = c + Cardinality(CommentSet(image, (l - 1) + 1, n))
    BY <1>1, CommentsInSplit
  <2>2. Cardinality(CommentSet(image, (l - 1) + 1, n)) = 0
    BY <1>1, <1>4, FS_EmptySet
  <2>3. Comments(1, n) = CommentsIn(image, n)
    BY DEF Comments, CommentsIn
  <2> HIDE DEF c
  <2> QED
    BY <1>2, <2>1, <2>2, <2>3
<1> HIDE DEF c, n
<1>6. \A x \in Int : (4 * x) % 4 = 0 /\ (4 * x) \div 4 = x
  OBVIOUS
<1>7. l - 1 - c \in Int /\ l = (l - 1 - c) + 1 + c
  BY <1>1, <1>2
<1> QED
  BY <1>3, <1>5, <1>6, <1>7 DEF n

LEMMA ExternalsHeld == LinkInv => ExternalsHoldTheirData
<1> SUFFICES ASSUME LinkInv, pc = "done", NEW e \in DOMAIN table,
                    table[e].external, ~HasLabel(e), Files(e) # {},
                    \A k \in Files(e) : ext[k].words >= table[e].words,
                    NEW n \in 0 .. table[e].words - 1
             PROVE  LET word == (address[e] \div 4) + n + 1 + Comments(1, Len(image))
                    IN  word \in DOMAIN image /\ image[word].kind = "data" /\ image[word].entry = e
  BY DEF ExternalsHoldTheirData
<1> DEFINE c == Comments(1, Len(image))
<1>1. /\ table \in Tables /\ ext \in Externals /\ Typed
  BY DEF LinkInv, Typed
<1>2. /\ DOMAIN ext = 1 .. Len(ext) /\ Len(ext) \in Nat /\ table[e].words \in Nat
      /\ \A k \in DOMAIN ext : ext[k].words \in Nat
      /\ DOMAIN ir = 1 .. Len(ir)
  BY <1>1, Tabled, Listed, Program
<1>3. PICK k \in 1 .. Len(ext) : ext[k].entry = e /\ HoldsFile(e, k)
  <2>1. Given(e) /\ FilesRead = Len(ext)
    BY DEF Given, FilesRead
  <2>2. \E k \in 1 .. FilesRead : ext[k].entry = e
    BY <1>2, <2>1 DEF Files
  <2> QED
    BY <2>1, <2>2 DEF LinkInv, ExternalsPlaced
<1>4. n \in 0 .. ext[k].words - 1
  <2>1. ext[k].words >= table[e].words /\ ext[k].words \in Nat
    BY <1>2, <1>3 DEF Files
  <2> QED
    BY <1>2, <2>1
<1>5. PICK i \in DOMAIN ir : ir[i].kind = "data" /\ ir[i].entry = e /\ ir[i].address = address[e] + 4 * n
  BY <1>3, <1>4 DEF HoldsFile
<1>6. PICK l \in DOMAIN image : image[l] = ir[i]
  <2>1. i \in 1 .. Translated
    BY <1>2 DEF Translated
  <2> QED
    BY <1>5, <2>1 DEF LinkInv, Written
<1>7. l = ((address[e] + 4 * n) \div 4) + 1 + c
  BY <1>5, <1>6, DataMovedUp
<1>8. address[e] \in Nat /\ n \in Nat
  BY <1>2, <1>3 DEF HoldsFile
<1>9. (address[e] + 4 * n) \div 4 = (address[e] \div 4) + n
  <2>1. \A x, y \in Nat : (x + 4 * y) \div 4 = (x \div 4) + y
    OBVIOUS
  <2> QED
    BY <1>8, <2>1
<1>10. l = (address[e] \div 4) + n + 1 + c
  BY <1>7, <1>9
<1> HIDE DEF c
<1> QED
  BY <1>5, <1>6, <1>10 DEF c

(* An external variable no shorter in its files than in its declaration     *)
(* holds the words of one of them (linker.c lines 6-17), moved up in the    *)
(* binary by all the comments.                                              *)
THEOREM ExternalsAreHeld == Spec => []ExternalsHoldTheirData
BY ExternalsHeld, SpecInv, PTL

(* What AUIPC's immediate counts, by the pages: the highest multiple of     *)
(* them below an address.                                                   *)
LEMMA WholePages ==
  ASSUME NEW a \in Nat, a % 4 = 0
  PROVE  /\ Page * (a \div Page) \in Nat /\ Page * (a \div Page + 3) = Page * (a \div Page) + 3 * Page
         /\ Page * (a \div Page) <= a /\ a + 4 <= Page * (a \div Page) + Page
<1> DEFINE q == a \div Page
           b == a \div 4
           r == Page \div 4
<1>1. Page \in Nat \ {0} /\ Page = 4 * r /\ r \in Nat /\ a = 4 * b /\ b \in Nat
  BY PageAssumption
<1>2. \A x \in Nat, y \in Nat \ {0} : /\ x \div y \in Nat /\ y * (x \div y) \in Nat
                                      /\ y * (x \div y) <= x /\ x < y * (x \div y) + y
  OBVIOUS
<1>3. q \in Nat /\ Page * q \in Nat /\ Page * q <= a /\ a < Page * q + Page
  BY <1>1, <1>2
<1>4. Page * (q + 3) = Page * q + 3 * Page
  <2>1. \A x, y \in Int : y * (x + 3) = y * x + 3 * y
    OBVIOUS
  <2> HIDE DEF q
  <2> QED
    BY <1>1, <1>3, <2>1
<1> HIDE DEF q, b, r
<1>5. Page * q = 4 * (r * q) /\ r * q \in Int
  <2>1. \A x, y \in Nat : (4 * x) * y = 4 * (x * y) /\ x * y \in Int
    OBVIOUS
  <2> QED
    BY <1>1, <1>3, <2>1
<1>6. \A x, y, z \in Int : 4 * x < 4 * y + 4 * z => 4 * x + 4 <= 4 * y + 4 * z
  OBVIOUS
<1>7. a + 4 <= Page * q + Page
  BY <1>1, <1>3, <1>5, <1>6
<1> QED
  BY <1>3, <1>4, <1>7 DEF q

LEMMA StackAndGlobals == LinkInv => StackClearsSmallGlobals
<1> SUFFICES ASSUME LinkInv, pc = "done"
             PROVE  LET code == Last(ir).address + 4
                        globals == lastAddress - code
                    IN  /\ StackStart(ir) >= code + Cleared
                        /\ globals <= Cleared => StackStart(ir) >= lastAddress
                        /\ globals > Reached => StackStart(ir) < lastAddress
  BY DEF StackClearsSmallGlobals
<1> DEFINE a == ir[Len(ir)].address
           w == Page * (a \div Page)
<1>1. /\ Typed /\ Counted /\ ir \in Seq(Nodes) /\ Len(ir) \in Nat /\ DOMAIN ir = 1 .. Len(ir)
      /\ Len(ir) >= 12 /\ lastAddress \in Nat
  <2>1. Typed /\ Counted /\ Len(ir) >= 12
    BY DEF LinkInv, Arranged, HeaderNodes
  <2> QED
    BY <2>1, Program DEF Typed
<1>2. a \in Nat /\ a % 4 = 0
  <2>1. Len(ir) \in DOMAIN ir
    BY <1>1
  <2>2. ir[Len(ir)].kind # "comment"
    BY DEF LinkInv, Arranged
  <2> QED
    BY <1>1, <2>1, <2>2, WordBelowEnd
<1>3. Last(ir) = ir[Len(ir)] /\ Head(ir).address = 0
  <2>1. Head(ir) = ir[1]
    BY <1>1
  <2> QED
    BY <2>1 DEF Last, LinkInv, Arranged
<1>4. (CHOOSE i \in DOMAIN ir : ir[i].kind = "stack") = 5 /\ ir[5].address = 16
  <2>1. 5 \in DOMAIN ir
    BY <1>1
  <2> QED
    BY <2>1 DEF LinkInv, Arranged
<1>5. StackStart(ir) = 16 + Page * (a \div Page + 3) - 184
  <2>1. a - 0 = a
    BY <1>2
  <2> QED
    BY <1>3, <1>4, <2>1 DEF StackStart, Pages
<1>6. /\ w \in Nat /\ Page * (a \div Page + 3) = w + 3 * Page /\ w <= a /\ a + 4 <= w + Page
      /\ Page \in Nat
  BY <1>2, WholePages, PageAssumption
<1> HIDE DEF w
<1>7. StackStart(ir) = w + 3 * Page - 168
  BY <1>5, <1>6
<1> HIDE DEF a
<1>8. /\ StackStart(ir) >= (a + 4) + Cleared
      /\ lastAddress - (a + 4) <= Cleared => StackStart(ir) >= lastAddress
      /\ lastAddress - (a + 4) > Reached => StackStart(ir) < lastAddress
  BY <1>1, <1>2, <1>6, <1>7 DEF Cleared, Reached
<1> QED
  BY <1>3, <1>8 DEF a

(* For any size of a page and any program: how much of globals the stack,   *)
(* placed by the length of the code alone (riscv.c lines 219-224), clears,  *)
(* and from how much on it begins among them.                               *)
THEOREM StackClearsWhatItCan == Spec => []StackClearsSmallGlobals
BY StackAndGlobals, SpecInv, PTL

-----------------------------------------------------------------------------
(* A word of the code is a word or more in front of any data.               *)
LEMMA CodeBeforeData ==
  ASSUME LinkInv, NEW i \in DOMAIN ir, NEW j \in DOMAIN ir,
         ir[i].kind = "op", ir[j].kind = "data"
  PROVE  ir[i].address + 4 <= ir[j].address
<1> DEFINE a == CommentsIn(ir, i - 1)
           b == CommentsIn(ir, j - 1)
<1>1. /\ Typed /\ Counted
      /\ \A k, l \in DOMAIN ir : k < l /\ ir[k].kind = "data" => ir[l].kind = "data"
  BY DEF LinkInv, Arranged
<1>2. /\ i \in Int /\ j \in Int /\ i >= 1 /\ j >= 1
  BY <1>1, Program
<1>3. i # j /\ ~(j < i)
  <2>1. "op" # "data"
    OBVIOUS
  <2> QED BY <1>1, <2>1
<1>4. i < j
  BY <1>2, <1>3
<1>5. /\ ir[i].address = 4 * (i - 1 - a) /\ ir[j].address = 4 * (j - 1 - b)
  BY <1>1, WordBelowEnd
<1>6. /\ i - 1 \in Nat /\ j - 1 \in Nat /\ (i - 1) + 1 = i /\ i \in Nat /\ i <= j - 1
  BY <1>2, <1>4
<1>7. a \in Nat /\ b \in Nat /\ CommentsIn(ir, i) = a
  <2>1. CommentsIn(ir, (i - 1) + 1) = a + IF ir[(i - 1) + 1].kind = "comment" THEN 1 ELSE 0
    BY <1>6, CommentsInNext
  <2>2. a \in Nat /\ b \in Nat
    BY <1>6, CommentsInType
  <2>3. ir[i].kind # "comment"
    OBVIOUS
  <2> HIDE DEF a, b
  <2> QED BY <1>6, <2>1, <2>2, <2>3
<1>8. (j - 1) - b >= i - CommentsIn(ir, i)
  BY <1>6, CommentsInSplit
<1> HIDE DEF a, b
<1>9. (j - 1) - b >= i - a
  BY <1>7, <1>8
<1> QED BY <1>2, <1>5, <1>7, <1>9

(* The distance from an instruction of the code to a variable, which its    *)
(* AUIPC is given: the storage of the program's own variables is past the   *)
(* code, and that of an external one is among its data.                     *)
Stored(e) == /\ table[e].kind = "variable" /\ ~HasLabel(e)
             /\ table[e].external => Files(e) # {} /\ \A k \in Files(e) : ext[k].words > 0
GlobalsLieAhead ==
  pc = "done" =>
    \A e \in DOMAIN table, i \in DOMAIN ir :
      (Stored(e) /\ ir[i].kind = "op") =>
        \E words \in Nat \ {0} : address[e] - ir[i].address = 4 * words

LEMMA GlobalsAhead == LinkInv => GlobalsLieAhead
<1> SUFFICES ASSUME LinkInv, pc = "done", NEW e \in DOMAIN table, NEW i \in DOMAIN ir,
                    Stored(e), ir[i].kind = "op"
             PROVE  \E words \in Nat \ {0} : address[e] - ir[i].address = 4 * words
  BY DEF GlobalsLieAhead
<1>1. /\ Typed /\ Counted /\ table \in Tables /\ ext \in Externals
      /\ DOMAIN table = 1 .. Len(table) /\ CodeEnd \in Nat
  BY Tabled, Program DEF LinkInv, Typed
<1>2. /\ ir[i].address \in Nat /\ ir[i].address % 4 = 0 /\ ir[i].address + 4 <= CodeEnd
  BY <1>1, WordBelowEnd
<1>3. Given(e) /\ GlobalsSeen = Len(table) /\ FilesRead = Len(ext)
  BY DEF Given, Stored, GlobalsSeen, FilesRead
<1>4. /\ address[e] \in Int /\ address[e] % 4 = 0
      /\ ir[i].address + 4 <= address[e]
  <2>1. CASE table[e].external
    <3>1. DOMAIN ext = 1 .. Len(ext) /\ Len(ext) \in Nat
      BY <1>1, Listed
    <3>2. \E k \in 1 .. FilesRead : ext[k].entry = e
      BY <1>3, <2>1, <3>1 DEF Stored, Files
    <3>3. PICK k \in 1 .. FilesRead : ext[k].entry = e /\ HoldsFile(e, k)
      BY <1>3, <2>1, <3>2 DEF LinkInv, ExternalsPlaced
    <3>4. ext[k].words > 0 /\ ext[k].words \in Nat
      BY <1>1, <1>3, <2>1, <3>1, <3>3, Listed DEF Stored, Files
    <3>5. 0 \in 0 .. ext[k].words - 1
      BY <3>4
    <3>6. PICK j \in DOMAIN ir : ir[j].kind = "data" /\ ir[j].address = address[e] + 4 * 0
      BY <3>3, <3>5 DEF HoldsFile
    <3>7. address[e] \in Nat /\ address[e] % 4 = 0
      BY <3>3 DEF HoldsFile
    <3>8. ir[i].address + 4 <= ir[j].address
      BY <3>6, CodeBeforeData
    <3> QED BY <3>6, <3>7, <3>8
  <2>2. CASE ~table[e].external
    <3>1. CodeEnd <= address[e]
      BY <1>1, <1>3, <2>2 DEF LinkInv, GlobalsPlaced
    <3>2. address[e] \in Int
      BY <1>1 DEF Typed
    <3>3. address[e] # Unresolved
      BY <1>1, <3>1, <3>2 DEF Unresolved
    <3>4. address[e] % 4 = 0
      BY <3>3 DEF LinkInv, Located
    <3> QED BY <1>1, <1>2, <3>1, <3>2, <3>4
  <2> QED BY <2>1, <2>2
<1>5. \A x, y \in Nat : (x % 4 = 0 /\ y % 4 = 0 /\ x + 4 <= y) =>
        y \div 4 - x \div 4 \in Nat \ {0} /\ y - x = 4 * (y \div 4 - x \div 4)
  OBVIOUS
<1>6. address[e] \in Nat
  BY <1>2, <1>4
<1> QED BY <1>2, <1>4, <1>5, <1>6

(* Whatever the table, the files and the code, every variable that has      *)
(* storage lies ahead of every instruction, by a whole number of words: the *)
(* distances that the accesses of GlobalAccess are made for.                *)
THEOREM DistancesAreForward == Spec => []GlobalsLieAhead
BY GlobalsAhead, SpecInv, PTL

-----------------------------------------------------------------------------
(* How the code then reaches those globals: where an access and a reference *)
(* lead, from every base, over every distance and for every index.          *)

(* What the cuts of riscv.c do to a distance.                               *)
LEMMA LowBounds == \A d \in Int : Low(d) \in Int /\ 0 <= Low(d) /\ Low(d) <= 4095
  BY SMT DEF Low, UpperUnit

(* The upper immediate is the page, or the next one in its second half.     *)
LEMMA UpperRounds ==
  \A d \in Nat : /\ Upper(d) \in Nat
                 /\ UpperUnit * Upper(d) = d - Low(d) + (IF Low(d) >= 2048 THEN UpperUnit ELSE 0)
  BY SMT DEF Low, UpperUnit, Upper

(* The low immediate, taken g bytes later.                                  *)
LEMMA LowAfterGap ==
  \A d \in Nat, g \in 1 .. 12 :
    Low(d - g) = IF Low(d) >= g THEN Low(d) - g ELSE Low(d) - g + UpperUnit
  BY SMT DEF Low, UpperUnit

(* Adding the gap before the second cut undoes it.                          *)
LEMMA LowRoundTrip == \A d \in Nat, g \in 1 .. 12 : Low(Low(d - g) + g) = Low(d)
  BY SMT DEF Low, UpperUnit

LEMMA Gaps == /\ \A f \in Accesses : Gap(f) \in {8, 12}
              /\ \A f \in References : Gap(f) \in {4, 8}
  BY DEF Gap, Accesses, References

(* The two immediates of an access together.                                *)
LEMMA AccessArithmetic ==
  ASSUME NEW d \in Nat, NEW f \in Accesses
  PROVE  UpperUnit * Upper(d) + Gap(f) + Signed(Low(d - Gap(f)))
           = d + (IF Straddles(d, f) THEN UpperUnit ELSE 0)
<1>1. PICK g \in {8, 12} : g = Gap(f)
  BY Gaps
<1>2. Low(d) \in Int /\ 0 <= Low(d) /\ Low(d) <= 4095
  BY LowBounds
<1>3. /\ Upper(d) \in Nat
      /\ UpperUnit * Upper(d) = d - Low(d) + (IF Low(d) >= 2048 THEN UpperUnit ELSE 0)
  BY UpperRounds
<1>4. Low(d - g) = IF Low(d) >= g THEN Low(d) - g ELSE Low(d) - g + UpperUnit
  BY LowAfterGap
<1>5. UpperUnit * Upper(d) + g + Signed(Low(d - g))
        = d + (IF 2048 <= Low(d) /\ Low(d) < 2048 + g THEN UpperUnit ELSE 0)
  BY <1>2, <1>3, <1>4 DEF Signed, UpperUnit
<1> QED BY <1>1, <1>5 DEF Straddles

(* The two immediates of a reference together.                              *)
LEMMA ReferenceArithmetic ==
  ASSUME NEW d \in Nat, NEW f \in References
  PROVE  UpperUnit * Upper(d) + Signed(Combined(d, f)) = d
<1>1. PICK g \in {4, 8} : g = Gap(f)
  BY Gaps
<1>2. Low(d) \in Int /\ 0 <= Low(d) /\ Low(d) <= 4095
  BY LowBounds
<1>3. /\ Upper(d) \in Nat
      /\ UpperUnit * Upper(d) = d - Low(d) + (IF Low(d) >= 2048 THEN UpperUnit ELSE 0)
  BY UpperRounds
<1>4. Low(Low(d - g) + g) = Low(d)
  BY LowRoundTrip
<1>5. Combined(d, f) = Low(d)
  BY <1>1, <1>4 DEF Combined
<1> QED BY <1>2, <1>3, <1>5 DEF Signed, UpperUnit

-----------------------------------------------------------------------------
(* The register before each instruction, and the address at the end.        *)
Corrected == UpperUnit * Upper(distance) + (IF form \in Accesses THEN Gap(form) ELSE 0)
RegisterInv ==
  /\ step = "correct" => form \in Accesses /\ reg = base + UpperUnit * Upper(distance)
  /\ step = "element" => reg = base + Corrected
  /\ step = "low" => reg = base + Corrected + 4 * index
  /\ ReferenceIsExact
  /\ AccessIsExactUnlessStraddling
AccessInv == AccessTypeOK /\ RegisterInv

LEMMA AccessInputs ==
  ASSUME AccessTypeOK
  PROVE  /\ form \in Forms /\ base \in Nat /\ distance \in Nat /\ index \in Nat
         /\ reg \in Nat
  BY BasesAssumption, DistancesAssumption, IndicesAssumption DEF AccessTypeOK

LEMMA CorrectedType ==
  ASSUME AccessTypeOK
  PROVE  /\ UpperUnit * Upper(distance) \in Nat /\ Corrected \in Nat
         /\ form \in Accesses => Gap(form) \in {8, 12}
         /\ form \in Accesses => Corrected = UpperUnit * Upper(distance) + Gap(form)
         /\ form \in References => Corrected = UpperUnit * Upper(distance)
<1>1. Upper(distance) \in Nat
  BY AccessInputs, UpperRounds
<1>2. UpperUnit * Upper(distance) \in Nat
  BY <1>1 DEF UpperUnit
<1>3. form \in Accesses => Gap(form) \in {8, 12}
  BY Gaps
<1>4. form \in References => form \notin Accesses
  BY DEF References, Accesses
<1>5. CASE form \in Accesses
  <2>1. PICK g \in {8, 12} : g = Gap(form)
    BY <1>3, <1>5
  <2> QED BY <1>2, <1>4, <1>5, <2>1 DEF Corrected
<1>6. CASE form \notin Accesses
  BY <1>2, <1>6 DEF Corrected
<1> QED BY <1>2, <1>3, <1>4, <1>5, <1>6

LEMMA AccessInit == BeginAccess => AccessInv
<1> SUFFICES ASSUME BeginAccess PROVE AccessInv
  OBVIOUS
<1>1. AccessTypeOK
  BY DEF BeginAccess, AccessTypeOK
<1>2. step = "auipc"
  BY DEF BeginAccess
<1>3. RegisterInv
  BY <1>2 DEF RegisterInv, ReferenceIsExact, AccessIsExactUnlessStraddling
<1> QED BY <1>1, <1>3 DEF AccessInv

LEMMA AccessNext == AccessInv /\ [AccessStep]_accessVars => AccessInv'
<1> SUFFICES ASSUME AccessInv, [AccessStep]_accessVars PROVE AccessInv'
  OBVIOUS
<1> USE DEF AccessInv
<1> DEFINE up == UpperUnit * Upper(distance)
<1>0. /\ form \in Forms /\ base \in Nat /\ distance \in Nat /\ index \in Nat /\ reg \in Nat
      /\ up \in Nat /\ Corrected \in Nat
      /\ form \in Accesses => Corrected = up + Gap(form) /\ Gap(form) \in {8, 12}
      /\ form \in References => Corrected = up
  BY AccessInputs, CorrectedType
<1> HIDE DEF up
<1>1. CASE Auipc
  <2>1. reg' = base + up /\ UNCHANGED accessInputs
        /\ step' = IF form \in Accesses THEN "correct" ELSE "element"
    BY <1>1 DEF Auipc, Execute, up
  <2>2. reg' \in Nat
    BY <1>0, <2>1
  <2>3. form \notin Accesses => form \in References
    BY <1>0 DEF Forms
  <2>4. Corrected' = Corrected /\ up' = up
    BY <2>1 DEF Corrected, up, accessInputs
  <2>5. AccessTypeOK'
    BY <2>1, <2>2 DEF AccessTypeOK, accessInputs
  <2>6. RegisterInv'
    BY <1>0, <2>1, <2>3, <2>4
       DEF RegisterInv, ReferenceIsExact, AccessIsExactUnlessStraddling, accessInputs, up
  <2> QED BY <2>5, <2>6
<1>2. CASE Correct
  <2>1. step = "correct" /\ step' = "element" /\ UNCHANGED accessInputs
        /\ reg' = reg + (IF form = "scalar" THEN 8 ELSE 12)
    BY <1>2 DEF Correct, Execute
  <2>2. form \in Accesses /\ reg = base + up
    BY <2>1 DEF RegisterInv, up
  <2>3. reg' = reg + Gap(form)
    BY <2>1, <2>2 DEF Accesses, Gap
  <2>4. reg' = base + Corrected
    BY <1>0, <2>2, <2>3
  <2>5. Corrected' = Corrected
    BY <2>1 DEF Corrected, accessInputs
  <2>6. AccessTypeOK'
    BY <1>0, <2>1, <2>4 DEF AccessTypeOK, accessInputs
  <2>7. RegisterInv'
    BY <2>1, <2>4, <2>5 DEF RegisterInv, ReferenceIsExact, AccessIsExactUnlessStraddling, accessInputs
  <2> QED BY <2>6, <2>7
<1>3. CASE AddIndex
  <2>1. step = "element" /\ step' = "low" /\ UNCHANGED accessInputs /\ reg' = reg + 4 * index
    BY <1>3 DEF AddIndex, Execute
  <2>2. reg' = base + Corrected + 4 * index
    BY <2>1 DEF RegisterInv
  <2>3. Corrected' = Corrected
    BY <2>1 DEF Corrected, accessInputs
  <2>4. AccessTypeOK'
    BY <1>0, <2>1, <2>2 DEF AccessTypeOK, accessInputs
  <2>5. RegisterInv'
    BY <2>1, <2>2, <2>3 DEF RegisterInv, ReferenceIsExact, AccessIsExactUnlessStraddling, accessInputs
  <2> QED BY <2>4, <2>5
<1>4. CASE Displace
  <2>1. form \in Accesses /\ step = "low" /\ step' = "done" /\ UNCHANGED accessInputs
        /\ reg' = reg + Signed(Low(distance - Gap(form)))
    BY <1>4 DEF Displace, Execute
  <2>2. PICK g \in {8, 12} : g = Gap(form)
    BY <1>0, <2>1
  <2>3. reg = base + up + g + 4 * index
    BY <1>0, <2>1, <2>2 DEF RegisterInv
  <2>4. up + g + Signed(Low(distance - g))
          = distance + (IF Straddles(distance, form) THEN UpperUnit ELSE 0)
    BY <1>0, <2>1, <2>2, AccessArithmetic DEF up
  <2>5. Signed(Low(distance - g)) \in Int
    BY <1>0, LowBounds DEF Signed, UpperUnit
  <2>6. reg' = Target + (IF Straddles(distance, form) THEN UpperUnit ELSE 0)
    BY <1>0, <2>1, <2>2, <2>3, <2>4, <2>5 DEF Target, UpperUnit
  <2>7. reg' \in Nat
    BY <1>0, <2>6 DEF Target, UpperUnit
  <2>8. form \notin References
    BY <2>1 DEF References, Accesses
  <2>9. AccessTypeOK'
    BY <2>1, <2>7 DEF AccessTypeOK, accessInputs
  <2>10. RegisterInv'
    BY <2>1, <2>6, <2>8
       DEF RegisterInv, ReferenceIsExact, AccessIsExactUnlessStraddling, Target, Straddles, accessInputs
  <2> QED BY <2>9, <2>10
<1>5. CASE AddLow
  <2>1. form \in References /\ step = "low" /\ step' = "done" /\ UNCHANGED accessInputs
        /\ reg' = reg + Signed(Combined(distance, form))
    BY <1>5 DEF AddLow, Execute
  <2>2. reg = base + up + 4 * index
    BY <1>0, <2>1 DEF RegisterInv
  <2>3. up + Signed(Combined(distance, form)) = distance
    BY <1>0, <2>1, ReferenceArithmetic DEF up
  <2>4. Signed(Combined(distance, form)) \in Int
    <3>1. PICK g \in {4, 8} : g = Gap(form)
      BY <2>1, Gaps
    <3>2. Low(distance - g) + g \in Int
      BY <1>0, LowBounds
    <3> QED BY <3>1, <3>2, LowBounds DEF Combined, Signed, UpperUnit
  <2>5. reg' = Target
    BY <1>0, <2>1, <2>2, <2>3, <2>4 DEF Target
  <2>6. reg' \in Nat
    BY <1>0, <2>5 DEF Target
  <2>7. form \notin Accesses
    BY <2>1 DEF References, Accesses
  <2>8. AccessTypeOK'
    BY <2>1, <2>6 DEF AccessTypeOK, accessInputs
  <2>9. RegisterInv'
    BY <2>1, <2>5, <2>7
       DEF RegisterInv, ReferenceIsExact, AccessIsExactUnlessStraddling, Target, accessInputs
  <2> QED BY <2>8, <2>9
<1>6. CASE UNCHANGED accessVars
  <2>1. UNCHANGED accessInputs /\ UNCHANGED <<step, reg>>
    BY <1>6 DEF accessVars, accessInputs
  <2> QED BY <2>1 DEF AccessTypeOK, RegisterInv, ReferenceIsExact, AccessIsExactUnlessStraddling,
                      Corrected, Target, Straddles, accessInputs
<1> QED BY <1>1, <1>2, <1>3, <1>4, <1>5, <1>6 DEF AccessStep, AccessDone

LEMMA AccessInvariance == AccessSpec => []AccessInv
  BY AccessInit, AccessNext, PTL DEF AccessSpec

(* The machine keeps its types: no access is computed below address zero.   *)
THEOREM AccessTypes == AccessSpec => []AccessTypeOK
<1>1. AccessInv => AccessTypeOK
  BY DEF AccessInv
<1> QED BY <1>1, AccessInvariance, PTL

(* codegen.c 463-475: the address of a global or of an element of one is    *)
(* exact at every distance.                                                 *)
THEOREM ReferencesAreExact == AccessSpec => []ReferenceIsExact
<1>1. AccessInv => ReferenceIsExact
  BY DEF AccessInv, RegisterInv
<1> QED BY <1>1, AccessInvariance, PTL

(* codegen.c 373-386 and 273-286: a load or store of a global is exact, but *)
(* for the distances whose halves of a page lie between its two immediates, *)
(* and there it is exactly one page too high.                               *)
THEOREM AccessesAreExactUnlessStraddling == AccessSpec => []AccessIsExactUnlessStraddling
<1>1. AccessInv => AccessIsExactUnlessStraddling
  BY DEF AccessInv, RegisterInv
<1> QED BY <1>1, AccessInvariance, PTL
=============================================================================

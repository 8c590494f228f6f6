-------------------------- MODULE ControlFlow_proofs ------------------------
(* Proofs about the code of a function body, for every body, every block    *)
(* and condition, and every width of an int and of a displacement that      *)
(* reaches over the body.                                                   *)
EXTENDS ControlFlow, FiniteSetTheorems, SequenceTheorems, TLAPS

Openers == {"if", "while"}
Enders == {"endif", "endwhile"}
Kinds == {"op", "else", "return"} \cup Openers \cup Enders
Tokens == {t \in [kind : Kinds, cond : Condition, words : Nat] :
             /\ ~Uncompilable(t.cond)
             /\ t.kind = "op" => t.words > 0}

-----------------------------------------------------------------------------
(* Two's complement: a value of a field is itself, and a difference of two  *)
(* ints is off by the number of ints if it is none.                         *)
LEMMA Remainders ==
  ASSUME NEW m \in Nat \ {0}, NEW x \in Int
  PROVE  /\ x % m \in 0 .. m - 1
         /\ x \in 0 .. m - 1 => x % m = x
         /\ x \in -m .. -1 => x % m = x + m
         /\ x \in m .. 2 * m - 1 => x % m = x - m
<1>1. x % m \in 0 .. m - 1
  OBVIOUS
<1>2. x \in 0 .. m - 1 => x % m = x
  OBVIOUS
<1>3. x \in -m .. -1 => x % m = x + m
  OBVIOUS
<1>4. x \in m .. 2 * m - 1 => x % m = x - m
  OBVIOUS
<1> QED BY <1>1, <1>2, <1>3, <1>4

LEMMA Halves ==
  ASSUME NEW v \in {WordValues, BranchValues, JumpValues}
  PROVE  v \div 2 \in Nat \ {0} /\ v \in Nat \ {0} /\ v = 2 * (v \div 2)
<1> DEFINE h == v \div 2
<1>1. v \in Nat \ {0} /\ v % 2 = 0
  BY ValuesAssumption
<1>2. h \in Nat /\ v = 2 * h + (v % 2)
  BY <1>1
<1>3. v = 2 * h /\ h \in Nat \ {0}
  BY <1>1, <1>2
<1> QED BY <1>1, <1>3

LEMMA FieldOf ==
  ASSUME NEW v \in {WordValues, BranchValues, JumpValues}, NEW h, h = v \div 2, NEW d \in Int
  PROVE  /\ h \in Nat \ {0}
         /\ SignedField(d, v) \in -h .. h - 1
         /\ d \in -h .. h - 1 => SignedField(d, v) = d
         /\ d \in h .. 3 * h - 1 => SignedField(d, v) = d - 2 * h
         /\ d \in -(3 * h) .. -h - 1 => SignedField(d, v) = d + 2 * h
<1>1. h \in Nat \ {0} /\ v \in Nat \ {0} /\ v = 2 * h
  BY Halves
<1>2. SignedField(d, v) = ((d + h) % v) - h
  BY DEF SignedField
<1> DEFINE r == (d + h) % v
<1>3. /\ r \in 0 .. v - 1
      /\ d + h \in 0 .. v - 1 => r = d + h
      /\ d + h \in -v .. -1 => r = d + h + v
      /\ d + h \in v .. 2 * v - 1 => r = d + h - v
  <2> DEFINE x == d + h
  <2>1. x \in Int
    BY <1>1
  <2> HIDE DEF x
  <2>2. /\ x % v \in 0 .. v - 1
        /\ x \in 0 .. v - 1 => x % v = x
        /\ x \in -v .. -1 => x % v = x + v
        /\ x \in v .. 2 * v - 1 => x % v = x - v
    BY <1>1, <2>1, Remainders
  <2>3. r = x % v
    BY DEF x
  <2> HIDE DEF r
  <2>4. /\ r \in 0 .. v - 1
        /\ x \in 0 .. v - 1 => r = x
        /\ x \in -v .. -1 => r = x + v
        /\ x \in v .. 2 * v - 1 => r = x - v
    BY <2>2, <2>3
  <2> QED BY <1>1, <2>1, <2>4 DEF x
<1> HIDE DEF r
<1>4. SignedField(d, v) = r - h
  BY <1>2 DEF r
<1> QED BY <1>1, <1>3, <1>4

-----------------------------------------------------------------------------
(* The code of a token, node by node. In front of the condition of a WHILE  *)
(* there is a node.                                                         *)
Front(token) == IF token.kind = "while" THEN 1 ELSE 0
Length(c) == IF c.type = "int" THEN 5 ELSE 1

LEMMA FiveNodes ==
  ASSUME NEW S, NEW a \in S, NEW b \in S, NEW c \in S, NEW d \in S, NEW e \in S
  PROVE  LET s == <<a, b, c, d, e>>
         IN s \in Seq(S) /\ Len(s) = 5 /\ s[1] = a /\ s[2] = b /\ s[3] = c /\ s[4] = d /\ s[5] = e
OBVIOUS

LEMMA OneNode ==
  ASSUME NEW S, NEW a \in S
  PROVE  <<a>> \in Seq(S) /\ Len(<<a>>) = 1 /\ <<a>>[1] = a
OBVIOUS

NodeKinds == {"nop", "block", "value", "sub", "li", "flt", "fle", "jal", "bne", "mov", "return"}
               \cup Relations
NodeType == [kind : NodeKinds, imm : Int]

LEMMA NodeTyped ==
  ASSUME NEW kind \in NodeKinds, NEW imm \in Int
  PROVE  Node(kind, imm) \in NodeType /\ Node(kind, imm).kind = kind /\ Node(kind, imm).imm = imm
  BY DEF Node, NodeType

LEMMA ConditionKinds ==
  ASSUME NEW c \in Condition
  PROVE  c.type \in {"int", "float", "value"} /\ (c.type # "value" => c.op \in Relations)
  BY DEF Condition

LEMMA ComparedInt ==
  ASSUME NEW c \in Condition, c.type = "int"
  PROVE  /\ Compared(c) \in Seq(NodeType) /\ Len(Compared(c)) = 5
         /\ Compared(c)[1] = Node("sub", 0) /\ Compared(c)[2] = Node(c.op, 12)
         /\ Compared(c)[3] = Node("li", 1) /\ Compared(c)[4] = Node("jal", 8)
         /\ Compared(c)[5] = Node("li", 0)
<1> DEFINE n1 == Node("sub", 0)
           n2 == Node(c.op, 12)
           n3 == Node("li", 1)
           n4 == Node("jal", 8)
           n5 == Node("li", 0)
<1>1. Compared(c) = <<n1, n2, n3, n4, n5>>
  BY DEF Compared
<1>2. c.op \in NodeKinds
  BY ConditionKinds DEF NodeKinds
<1>3. n1 \in NodeType /\ n3 \in NodeType /\ n4 \in NodeType /\ n5 \in NodeType
  BY NodeTyped DEF NodeKinds
<1>0. n2 \in NodeType
  BY <1>2, NodeTyped
<1> HIDE DEF n1, n2, n3, n4, n5
<1>4. /\ Compared(c) \in Seq(NodeType) /\ Len(Compared(c)) = 5
      /\ Compared(c)[1] = n1 /\ Compared(c)[2] = n2 /\ Compared(c)[3] = n3
      /\ Compared(c)[4] = n4 /\ Compared(c)[5] = n5
  BY <1>0, <1>1, <1>3, FiveNodes
<1> QED BY <1>4 DEF n1, n2, n3, n4, n5

LEMMA ComparedOther ==
  ASSUME NEW c \in Condition, c.type # "int"
  PROVE  /\ Compared(c) \in Seq(NodeType) /\ Len(Compared(c)) = 1
         /\ c.type = "float" =>
              Compared(c)[1] = Node(IF c.op \in {"<", ">"} THEN "flt" ELSE "fle", 0)
         /\ c.type = "value" => Compared(c)[1] = Node("value", 0)
<1>1. CASE c.type = "float"
  <2> DEFINE n == Node(IF c.op \in {"<", ">"} THEN "flt" ELSE "fle", 0)
  <2>1. Compared(c) = <<n>>
    BY <1>1 DEF Compared
  <2>2. n \in NodeType
    BY NodeTyped DEF NodeKinds
  <2> HIDE DEF n
  <2>3. Compared(c) \in Seq(NodeType) /\ Len(Compared(c)) = 1 /\ Compared(c)[1] = n
    BY <2>1, <2>2, OneNode
  <2> QED BY <1>1, <2>3 DEF n
<1>2. CASE c.type = "value"
  <2> DEFINE n == Node("value", 0)
  <2>1. Compared(c) = <<n>>
    BY <1>2 DEF Compared
  <2>2. n \in NodeType
    BY NodeTyped DEF NodeKinds
  <2> HIDE DEF n
  <2>3. Compared(c) \in Seq(NodeType) /\ Len(Compared(c)) = 1 /\ Compared(c)[1] = n
    BY <2>1, <2>2, OneNode
  <2> QED BY <1>2, <2>3 DEF n
<1> QED BY <1>1, <1>2, ConditionKinds

LEMMA ComparedShape ==
  ASSUME NEW c \in Condition
  PROVE  /\ Compared(c) \in Seq(NodeType) /\ Len(Compared(c)) = Length(c)
         /\ Length(c) \in {1, 5} /\ (Length(c) = 5 <=> c.type = "int")
<1>1. CASE c.type = "int"
  BY <1>1, ComparedInt DEF Length
<1>2. CASE c.type # "int"
  BY <1>2, ComparedOther DEF Length
<1> QED BY <1>1, <1>2

(* A list with an element before it, and one behind it.                     *)
LEMMA Behind ==
  ASSUME NEW S, NEW s \in Seq(S), NEW y \in S
  PROVE  /\ s \o <<y>> \in Seq(S) /\ Len(s \o <<y>>) = Len(s) + 1
         /\ \A k \in 1 .. Len(s) : (s \o <<y>>)[k] = s[k]
         /\ (s \o <<y>>)[Len(s) + 1] = y
OBVIOUS

LEMMA Before ==
  ASSUME NEW S, NEW s \in Seq(S), NEW x \in S
  PROVE  /\ <<x>> \o s \in Seq(S) /\ Len(<<x>> \o s) = Len(s) + 1
         /\ (<<x>> \o s)[1] = x
         /\ \A k \in 1 .. Len(s) : (<<x>> \o s)[k + 1] = s[k]
OBVIOUS

LEMMA HeadShape ==
  ASSUME NEW token \in Tokens, NEW imm \in Int, token.kind \in Openers,
         NEW f, f = Front(token), NEW n, n = Length(token.cond)
  PROVE  /\ token.cond \in Condition /\ f \in {0, 1} /\ n \in {1, 5}
         /\ Code(token, imm) \in Seq(NodeType) /\ Len(Code(token, imm)) = f + n + 1
         /\ f = 1 => Code(token, imm)[1] = Node("nop", 0)
         /\ \A k \in 1 .. n : Code(token, imm)[f + k] = Compared(token.cond)[k]
         /\ Code(token, imm)[f + n + 1] = Node("bne", imm)
<1> DEFINE s == Compared(token.cond)
           y == Node("bne", imm)
           x == Node("nop", 0)
           first == s \o <<y>>
           whole == <<x>> \o first
<1>1. token.cond \in Condition
  BY DEF Tokens
<1>2. x \in NodeType /\ y \in NodeType
  BY NodeTyped DEF NodeKinds
<1>3. s \in Seq(NodeType) /\ Len(s) = n /\ n \in {1, 5}
  BY <1>1, ComparedShape
<1>4. IfHead(token.cond, imm) = first
  BY DEF IfHead
<1>5. WhileHead(token.cond, imm) = whole
  BY <1>4 DEF WhileHead
<1> HIDE DEF s, x, y
<1>6. /\ first \in Seq(NodeType) /\ Len(first) = Len(s) + 1
      /\ \A k \in 1 .. Len(s) : first[k] = s[k]
      /\ first[Len(s) + 1] = y
  BY <1>2, <1>3, Behind
<1> HIDE DEF first
<1>7. /\ whole \in Seq(NodeType) /\ Len(whole) = Len(first) + 1
      /\ whole[1] = x
      /\ \A k \in 1 .. Len(first) : whole[k + 1] = first[k]
  BY <1>2, <1>6, Before
<1> HIDE DEF whole
<1>8. CASE token.kind = "if"
  <2>1. Code(token, imm) = first /\ f = 0
    BY <1>4, <1>8 DEF Code, Front
  <2>2. \A k \in 1 .. n : first[0 + k] = s[k]
    BY <1>3, <1>6
  <2>3. first[0 + n + 1] = y /\ Len(first) = 0 + n + 1
    BY <1>3, <1>6
  <2> QED BY <1>1, <1>3, <1>6, <2>1, <2>2, <2>3 DEF s, x, y
<1>9. CASE token.kind = "while"
  <2>1. Code(token, imm) = whole /\ f = 1
    BY <1>5, <1>9 DEF Code, Front
  <2>2. \A k \in 1 .. n : whole[1 + k] = s[k]
    <3> SUFFICES ASSUME NEW k \in 1 .. n PROVE whole[1 + k] = s[k]
      OBVIOUS
    <3>1. k \in 1 .. Len(first) /\ k + 1 = 1 + k /\ k \in 1 .. Len(s)
      BY <1>3, <1>6
    <3> QED BY <1>6, <1>7, <3>1
  <2>3. whole[1 + n + 1] = y /\ Len(whole) = 1 + n + 1
    <3>1. Len(s) + 1 \in 1 .. Len(first) /\ (Len(s) + 1) + 1 = 1 + n + 1
      BY <1>3, <1>6
    <3>2. whole[(Len(s) + 1) + 1] = first[Len(s) + 1]
      BY <1>7, <3>1
    <3> QED BY <1>3, <1>6, <1>7, <3>1, <3>2
  <2> QED BY <1>1, <1>3, <1>7, <2>1, <2>2, <2>3 DEF s, x, y
<1> QED BY <1>8, <1>9 DEF Openers

LEMMA OtherShapes ==
  ASSUME NEW token, NEW imm \in Int
  PROVE  /\ token.kind = "op" => Code(token, imm) = <<Node("block", 0)>>
         /\ token.kind = "else" => Code(token, imm) = <<Node("jal", imm), Node("nop", 0)>>
         /\ token.kind = "endif" => Code(token, imm) = <<Node("nop", 0)>>
         /\ token.kind = "endwhile" => Code(token, imm) = <<Node("jal", imm)>>
         /\ token.kind = "return" => Code(token, imm) = <<Node("mov", 0), Node("return", 0)>>
<1>1. token.kind = "op" => Code(token, imm) = <<Node("block", 0)>>
  BY DEF Code
<1>2. token.kind = "else" => Code(token, imm) = <<Node("jal", imm), Node("nop", 0)>>
  BY DEF Code
<1>3. token.kind = "endif" => Code(token, imm) = <<Node("nop", 0)>>
  BY DEF Code
<1>4. token.kind = "endwhile" => Code(token, imm) = <<Node("jal", imm)>>
  BY DEF Code
<1>5. token.kind = "return" => Code(token, imm) = <<Node("mov", 0), Node("return", 0)>>
  BY DEF Code
<1> QED BY <1>1, <1>2, <1>3, <1>4, <1>5

LEMMA TwoNodes ==
  ASSUME NEW S, NEW a \in S, NEW b \in S
  PROVE  <<a, b>> \in Seq(S) /\ Len(<<a, b>>) = 2 /\ <<a, b>>[1] = a /\ <<a, b>>[2] = b
OBVIOUS

(* How long it is.                                                          *)
LEMMA CodeLength ==
  ASSUME NEW token \in Tokens, NEW imm \in Int
  PROVE  /\ Code(token, imm) \in Seq(NodeType)
         /\ Len(Code(token, imm)) = Len(Code(token, 0))
         /\ Len(Code(token, imm)) =
              CASE token.kind \in Openers -> Front(token) + Length(token.cond) + 1
                [] token.kind \in {"else", "return"} -> 2
                [] token.kind \in {"op", "endif", "endwhile"} -> 1
<1>1. token.kind \in Kinds
  BY DEF Tokens
<1>2. CASE token.kind \in Openers
  <2>1. /\ Code(token, imm) \in Seq(NodeType)
        /\ Len(Code(token, imm)) = Front(token) + Length(token.cond) + 1
        /\ Len(Code(token, 0)) = Front(token) + Length(token.cond) + 1
    BY <1>2, HeadShape
  <2> QED BY <1>2, <2>1 DEF Openers
<1>3. CASE token.kind \in {"else", "return"}
  <2> DEFINE a(i) == IF token.kind = "else" THEN Node("jal", i) ELSE Node("mov", 0)
             b == IF token.kind = "else" THEN Node("nop", 0) ELSE Node("return", 0)
  <2>1. Code(token, imm) = <<a(imm), b>> /\ Code(token, 0) = <<a(0), b>>
    BY <1>3, OtherShapes
  <2>2. a(imm) \in NodeType /\ a(0) \in NodeType /\ b \in NodeType
    BY NodeTyped DEF NodeKinds
  <2> HIDE DEF a, b
  <2>3. Code(token, imm) \in Seq(NodeType) /\ Len(Code(token, imm)) = 2 /\ Len(Code(token, 0)) = 2
    BY <2>1, <2>2, TwoNodes
  <2> QED BY <1>3, <2>3 DEF Openers
<1>4. CASE token.kind \in {"op", "endif", "endwhile"}
  <2> DEFINE a(i) == IF token.kind = "op" THEN Node("block", 0)
                     ELSE IF token.kind = "endif" THEN Node("nop", 0) ELSE Node("jal", i)
  <2>1. Code(token, imm) = <<a(imm)>> /\ Code(token, 0) = <<a(0)>>
    BY <1>4, OtherShapes
  <2>2. a(imm) \in NodeType /\ a(0) \in NodeType
    BY NodeTyped DEF NodeKinds
  <2> HIDE DEF a
  <2>3. Code(token, imm) \in Seq(NodeType) /\ Len(Code(token, imm)) = 1 /\ Len(Code(token, 0)) = 1
    BY <2>1, <2>2, OneNode
  <2> QED BY <1>4, <2>3 DEF Openers
<1> QED BY <1>1, <1>2, <1>3, <1>4 DEF Kinds, Enders

LEMMA CodeSize ==
  ASSUME NEW token \in Tokens, NEW imm \in Int
  PROVE  /\ Code(token, imm) \in Seq(NodeType)
         /\ Len(Code(token, imm)) \in Nat \ {0} /\ Size(token) \in Nat
         /\ Size(token) >= 4 * Len(Code(token, imm))
         /\ token.kind # "op" => Size(token) = 4 * Len(Code(token, imm))
<1> DEFINE n == Len(Code(token, imm))
<1>1. n = Len(Code(token, 0)) /\ Code(token, imm) \in Seq(NodeType)
  BY CodeLength
<1>2. n = CASE token.kind \in Openers -> Front(token) + Length(token.cond) + 1
            [] token.kind \in {"else", "return"} -> 2
            [] token.kind \in {"op", "endif", "endwhile"} -> 1
  BY CodeLength
<1>3. token.kind \in Kinds /\ token.words \in Nat /\ (token.kind = "op" => token.words > 0)
  BY DEF Tokens
<1>4. Front(token) \in {0, 1} /\ Length(token.cond) \in {1, 5}
  BY DEF Front, Length
<1> HIDE DEF n
<1>5. n \in Nat \ {0} /\ (token.kind = "op" => n = 1)
  BY <1>2, <1>3, <1>4 DEF Kinds, Openers, Enders
<1>6. Size(token) = 4 * (IF token.kind = "op" THEN token.words ELSE n)
  BY <1>1 DEF Size
<1>7. /\ Size(token) \in Nat /\ Size(token) >= 4 * n
      /\ token.kind # "op" => Size(token) = 4 * n
  BY <1>3, <1>5, <1>6
<1> QED BY <1>1, <1>5, <1>7 DEF n

LEMMA SizeType ==
  ASSUME NEW token \in Tokens
  PROVE  Size(token) \in Nat /\ Size(token) >= 4
<1>1. /\ Len(Code(token, 0)) \in Nat \ {0} /\ Size(token) \in Nat
      /\ Size(token) >= 4 * Len(Code(token, 0))
  BY CodeSize
<1> QED BY <1>1

-----------------------------------------------------------------------------
(* How deep a token is nested in the constructs that open at i or later.    *)
Starts(p, i, j) == {k \in i .. j : p[k].kind \in Openers}
Ends(p, i, j) == {k \in i .. j : p[k].kind \in Enders}
Nest(p, i, j) == Cardinality(Starts(p, i, j)) - Cardinality(Ends(p, i, j))
Weight(x) == IF x.kind \in Openers THEN 1 ELSE IF x.kind \in Enders THEN -1 ELSE 0

(* Counting the members of a set in an interval.                            *)
Count(F, i, j) == Cardinality(F \cap (i .. j))

LEMMA Counted ==
  ASSUME NEW F, NEW i \in Int, NEW j \in Int
  PROVE  /\ IsFiniteSet(F \cap (i .. j)) /\ Count(F, i, j) \in Nat
         /\ j < i => Count(F, i, j) = 0
<1>1. IsFiniteSet(i .. j)
  BY FS_Interval
<1>2. IsFiniteSet(F \cap (i .. j))
  BY <1>1, FS_Subset
<1>3. ASSUME j < i PROVE F \cap (i .. j) = {}
  BY <1>3
<1> QED BY <1>2, <1>3, FS_CardinalityType, FS_EmptySet DEF Count

LEMMA CountedOneMore ==
  ASSUME NEW F, NEW i \in Int, NEW j \in Int, i <= j + 1
  PROVE  Count(F, i, j + 1) = Count(F, i, j) + (IF j + 1 \in F THEN 1 ELSE 0)
<1>1. IsFiniteSet(F \cap (i .. j)) /\ Count(F, i, j) \in Nat
  BY Counted
<1>2. j + 1 \notin F \cap (i .. j)
  OBVIOUS
<1>3. CASE j + 1 \in F
  <2>1. F \cap (i .. j + 1) = (F \cap (i .. j)) \cup {j + 1}
    BY <1>3
  <2> QED BY <1>1, <1>2, <1>3, <2>1, FS_AddElement DEF Count
<1>4. CASE j + 1 \notin F
  <2>1. F \cap (i .. j + 1) = F \cap (i .. j)
    BY <1>4
  <2> QED BY <1>1, <1>4, <2>1 DEF Count
<1> QED BY <1>3, <1>4

LEMMA CountedInTwo ==
  ASSUME NEW F, NEW i \in Int, NEW k \in Int, NEW j \in Int, i <= k + 1, k <= j
  PROVE  Count(F, i, j) = Count(F, i, k) + Count(F, k + 1, j)
<1> DEFINE S == F \cap (i .. k)
           T == F \cap (k + 1 .. j)
<1>1. IsFiniteSet(S) /\ IsFiniteSet(T)
  <2>1. IsFiniteSet(i .. k) /\ IsFiniteSet(k + 1 .. j)
    BY FS_Interval
  <2>2. S \in SUBSET (i .. k) /\ T \in SUBSET (k + 1 .. j)
    OBVIOUS
  <2> QED BY <2>1, <2>2, FS_Subset
<1>2. S \cap T = {}
  OBVIOUS
<1>3. F \cap (i .. j) = S \cup T
  OBVIOUS
<1>4. Cardinality(S \cup T) = Cardinality(S) + Cardinality(T) - Cardinality(S \cap T)
  BY <1>1, FS_Union
<1>5. Cardinality(S \cap T) = 0
  BY <1>2, FS_EmptySet
<1>6. Cardinality(S) \in Nat /\ Cardinality(T) \in Nat
  BY <1>1, FS_CardinalityType
<1> QED BY <1>3, <1>4, <1>5, <1>6 DEF Count

LEMMA NestCounts ==
  ASSUME NEW p, NEW i \in Int, NEW j \in Int,
         NEW F, F = {k \in Int : p[k].kind \in Openers},
         NEW G, G = {k \in Int : p[k].kind \in Enders}
  PROVE  Nest(p, i, j) = Count(F, i, j) - Count(G, i, j)
<1>1. Starts(p, i, j) = F \cap (i .. j) /\ Ends(p, i, j) = G \cap (i .. j)
  BY DEF Starts, Ends
<1> QED BY <1>1 DEF Nest, Count

LEMMA NestType ==
  ASSUME NEW p, NEW i \in Int, NEW j \in Int
  PROVE  Nest(p, i, j) \in Int /\ (j < i => Nest(p, i, j) = 0)
<1> DEFINE F == {k \in Int : p[k].kind \in Openers}
           G == {k \in Int : p[k].kind \in Enders}
<1>1. Nest(p, i, j) = Count(F, i, j) - Count(G, i, j)
  BY NestCounts
<1> HIDE DEF F, G
<1>2. Count(F, i, j) \in Nat /\ (j < i => Count(F, i, j) = 0)
  BY Counted
<1>3. Count(G, i, j) \in Nat /\ (j < i => Count(G, i, j) = 0)
  BY Counted
<1> QED BY <1>1, <1>2, <1>3

LEMMA NestStep ==
  ASSUME NEW p, NEW i \in Int, NEW j \in Int, i <= j + 1
  PROVE  Nest(p, i, j + 1) = Nest(p, i, j) + Weight(p[j + 1])
<1> DEFINE F == {k \in Int : p[k].kind \in Openers}
           G == {k \in Int : p[k].kind \in Enders}
<1>1. /\ Nest(p, i, j) = Count(F, i, j) - Count(G, i, j)
      /\ Nest(p, i, j + 1) = Count(F, i, j + 1) - Count(G, i, j + 1)
  BY NestCounts
<1>2. /\ j + 1 \in F <=> p[j + 1].kind \in Openers
      /\ j + 1 \in G <=> p[j + 1].kind \in Enders
  OBVIOUS
<1>3. ~(p[j + 1].kind \in Openers /\ p[j + 1].kind \in Enders)
  BY DEF Openers, Enders
<1> HIDE DEF F, G
<1>4. /\ Count(F, i, j + 1) = Count(F, i, j) + (IF j + 1 \in F THEN 1 ELSE 0)
      /\ Count(G, i, j + 1) = Count(G, i, j) + (IF j + 1 \in G THEN 1 ELSE 0)
  BY CountedOneMore
<1>5. Count(F, i, j) \in Nat /\ Count(G, i, j) \in Nat
  BY Counted
<1> QED BY <1>1, <1>2, <1>3, <1>4, <1>5 DEF Weight

LEMMA NestInTwo ==
  ASSUME NEW p, NEW i \in Int, NEW k \in Int, NEW j \in Int, i <= k + 1, k <= j
  PROVE  Nest(p, i, j) = Nest(p, i, k) + Nest(p, k + 1, j)
<1> DEFINE F == {l \in Int : p[l].kind \in Openers}
           G == {l \in Int : p[l].kind \in Enders}
<1>1. /\ Nest(p, i, j) = Count(F, i, j) - Count(G, i, j)
      /\ Nest(p, i, k) = Count(F, i, k) - Count(G, i, k)
      /\ Nest(p, k + 1, j) = Count(F, k + 1, j) - Count(G, k + 1, j)
  BY NestCounts
<1> HIDE DEF F, G
<1>2. /\ Count(F, i, j) = Count(F, i, k) + Count(F, k + 1, j)
      /\ Count(G, i, j) = Count(G, i, k) + Count(G, k + 1, j)
  BY CountedInTwo
<1>3. Count(F, i, k) \in Nat /\ Count(G, i, k) \in Nat
  BY Counted
<1>4. k + 1 \in Int
  OBVIOUS
<1>5. Count(F, k + 1, j) \in Nat /\ Count(G, k + 1, j) \in Nat
  BY <1>4, Counted
<1> QED BY <1>1, <1>2, <1>3, <1>5

LEMMA NestSame ==
  ASSUME NEW p, NEW q, NEW i \in Int, NEW j \in Int, \A k \in i .. j : p[k] = q[k]
  PROVE  Nest(p, i, j) = Nest(q, i, j)
<1>1. Starts(p, i, j) = Starts(q, i, j) /\ Ends(p, i, j) = Ends(q, i, j)
  BY DEF Starts, Ends
<1> QED BY <1>1 DEF Nest

LEMMA NestOne ==
  ASSUME NEW p, NEW i \in Int
  PROVE  Nest(p, i, i) = Weight(p[i])
<1>1. Nest(p, i, i - 1) = 0
  BY NestType
<1>2. Nest(p, i, (i - 1) + 1) = Nest(p, i, i - 1) + Weight(p[(i - 1) + 1])
  BY NestStep
<1>3. Weight(p[i]) \in Int
  BY DEF Weight
<1> QED BY <1>1, <1>2, <1>3

-----------------------------------------------------------------------------
(* A construct from i to j; a token that is in the construct that opens at  *)
(* i and in none within that; a construct that is still open.               *)
Closed(p, i, j) == /\ p[i].kind \in Openers /\ i <= j
                   /\ Nest(p, i, j) = 0
                   /\ \A k \in i .. j - 1 : Nest(p, i, k) > 0
Owned(p, i, e) == /\ p[i].kind \in Openers /\ i <= e
                  /\ Nest(p, i, e) = 1
                  /\ \A k \in i .. e : Nest(p, i, k) > 0
StillOpen(p, i) == p[i].kind \in Openers /\ \A k \in i .. Len(p) : Nest(p, i, k) > 0

LEMMA ClosedByEnder ==
  ASSUME NEW p, NEW i \in Int, NEW j \in Int, Closed(p, i, j)
  PROVE  p[j].kind \in Enders /\ i < j
<1>1. i < j
  <2> SUFFICES ASSUME i = j PROVE FALSE
    BY DEF Closed
  <2>1. Nest(p, i, i) = Weight(p[i]) /\ Nest(p, i, i) = 0
    BY NestOne DEF Closed
  <2> QED BY <2>1 DEF Weight, Closed
<1>2. j - 1 \in i .. j - 1 /\ j - 1 \in Int /\ (j - 1) + 1 = j
  BY <1>1
<1>3. Nest(p, i, j - 1) > 0 /\ Nest(p, i, j - 1) \in Int
  BY <1>2, NestType DEF Closed
<1>4. Nest(p, i, j) = Nest(p, i, j - 1) + Weight(p[j])
  BY <1>1, <1>2, NestStep
<1>5. Weight(p[j]) < 0
  BY <1>3, <1>4 DEF Closed, Weight
<1> QED BY <1>1, <1>5 DEF Weight

LEMMA ClosedOnce ==
  ASSUME NEW p, NEW i \in Int, NEW j \in Int, NEW l \in Int, Closed(p, i, j), Closed(p, i, l)
  PROVE  j = l
<1>1. ASSUME NEW a \in Int, NEW b \in Int, Closed(p, i, a), Closed(p, i, b), a < b PROVE FALSE
  <2>1. a \in i .. b - 1
    BY <1>1 DEF Closed
  <2>2. Nest(p, i, a) > 0 /\ Nest(p, i, a) = 0
    BY <1>1, <2>1 DEF Closed
  <2> QED BY <2>2
<1>2. ~(j < l) /\ ~(l < j)
  BY <1>1
<1> QED BY <1>2

(* Two constructs that both hold a token at their own depth are the same:   *)
(* the outer one would have been closed before the inner one opened.        *)
LEMMA NestAgrees ==
  ASSUME NEW p, NEW i \in Int, NEW l \in Int, NEW j \in Int, i < l, l <= j,
         Nest(p, i, j) = Nest(p, l, j)
  PROVE  Nest(p, i, l - 1) = 0
<1>1. l - 1 \in Int /\ i <= (l - 1) + 1 /\ l - 1 <= j /\ (l - 1) + 1 = l
  OBVIOUS
<1>2. Nest(p, i, j) = Nest(p, i, l - 1) + Nest(p, l, j)
  BY <1>1, NestInTwo
<1>3. Nest(p, i, l - 1) \in Int /\ Nest(p, l, j) \in Int
  BY <1>1, NestType
<1> QED BY <1>2, <1>3

LEMMA OneOpener ==
  ASSUME NEW p, NEW i \in Int, NEW l \in Int, NEW j \in Int, Closed(p, i, j), Closed(p, l, j)
  PROVE  i = l
<1>1. ASSUME NEW a \in Int, NEW b \in Int, Closed(p, a, j), Closed(p, b, j), a < b PROVE FALSE
  <2>1. Nest(p, a, b - 1) = 0
    BY <1>1, NestAgrees DEF Closed
  <2>2. b - 1 \in a .. j - 1
    BY <1>1 DEF Closed
  <2>3. Nest(p, a, b - 1) > 0
    BY <1>1, <2>2 DEF Closed
  <2> QED BY <2>1, <2>3
<1> QED BY <1>1

LEMMA OneOwner ==
  ASSUME NEW p, NEW i \in Int, NEW l \in Int, NEW e \in Int, Owned(p, i, e), Owned(p, l, e)
  PROVE  i = l
<1>1. ASSUME NEW a \in Int, NEW b \in Int, Owned(p, a, e), Owned(p, b, e), a < b PROVE FALSE
  <2>1. Nest(p, a, b - 1) = 0
    BY <1>1, NestAgrees DEF Owned
  <2>2. b - 1 \in a .. e
    BY <1>1 DEF Owned
  <2>3. Nest(p, a, b - 1) > 0
    BY <1>1, <2>2 DEF Owned
  <2> QED BY <2>1, <2>3
<1> QED BY <1>1

LEMMA OpenNotClosed ==
  ASSUME NEW p, NEW i \in Int, NEW j \in Int, StillOpen(p, i), j <= Len(p)
  PROVE  ~Closed(p, i, j)
<1> SUFFICES ASSUME Closed(p, i, j) PROVE FALSE
  OBVIOUS
<1>1. j \in i .. Len(p)
  BY DEF Closed
<1>2. Nest(p, i, j) > 0 /\ Nest(p, i, j) = 0
  BY <1>1 DEF Closed, StillOpen
<1> QED BY <1>2

(* What is appended changes nothing before it.                              *)
LEMMA Appended ==
  ASSUME NEW S, NEW p \in Seq(S), NEW x \in S, NEW q, q = Append(p, x)
  PROVE  /\ q \in Seq(S) /\ Len(q) = Len(p) + 1 /\ q[Len(p) + 1] = x
         /\ \A k \in 1 .. Len(p) : q[k] = p[k]
         /\ DOMAIN p = 1 .. Len(p) /\ DOMAIN q = 1 .. Len(p) + 1 /\ Len(p) \in Nat
OBVIOUS

Agree(p, q, n) == n \in Nat /\ \A k \in 1 .. n : q[k] = p[k]

LEMMA NestBefore ==
  ASSUME NEW p, NEW q, NEW n, Agree(p, q, n),
         NEW i \in Int, NEW j \in Int, 1 <= i, j <= n
  PROVE  Nest(q, i, j) = Nest(p, i, j)
<1>1. \A k \in i .. j : q[k] = p[k]
  BY DEF Agree
<1> QED BY <1>1, NestSame

LEMMA NestBehind ==
  ASSUME NEW p, NEW q, NEW n, Agree(p, q, n), NEW i \in 1 .. n
  PROVE  Nest(q, i, n + 1) = Nest(p, i, n) + Weight(q[n + 1])
<1>1. n \in Nat /\ i \in Int /\ 1 <= i /\ i <= n + 1 /\ n <= n /\ n \in Int
  BY DEF Agree
<1>2. Nest(q, i, n + 1) = Nest(q, i, n) + Weight(q[n + 1])
  BY <1>1, NestStep
<1>3. Nest(q, i, n) = Nest(p, i, n)
  BY <1>1, NestBefore
<1> QED BY <1>2, <1>3

LEMMA ClosedBefore ==
  ASSUME NEW p, NEW q, NEW n, Agree(p, q, n), NEW i \in 1 .. n, NEW j \in 1 .. n
  PROVE  Closed(q, i, j) <=> Closed(p, i, j)
<1>1. q[i] = p[i] /\ n \in Nat /\ i \in Int /\ j \in Int /\ 1 <= i /\ j <= n
  BY DEF Agree
<1>2. Nest(q, i, j) = Nest(p, i, j)
  BY <1>1, NestBefore
<1>3. ASSUME NEW k \in i .. j - 1 PROVE Nest(q, i, k) = Nest(p, i, k)
  <2>1. k \in Int /\ k <= n
    BY <1>1
  <2> QED BY <1>1, <2>1, NestBefore
<1> QED BY <1>1, <1>2, <1>3 DEF Closed

LEMMA OwnedBefore ==
  ASSUME NEW p, NEW q, NEW n, Agree(p, q, n), NEW i \in 1 .. n, NEW j \in 1 .. n
  PROVE  Owned(q, i, j) <=> Owned(p, i, j)
<1>1. q[i] = p[i] /\ n \in Nat /\ i \in Int /\ j \in Int /\ 1 <= i /\ j <= n
  BY DEF Agree
<1>2. Nest(q, i, j) = Nest(p, i, j)
  BY <1>1, NestBefore
<1>3. ASSUME NEW k \in i .. j PROVE Nest(q, i, k) = Nest(p, i, k)
  <2>1. k \in Int /\ k <= n
    BY <1>1
  <2> QED BY <1>1, <2>1, NestBefore
<1> QED BY <1>1, <1>2, <1>3 DEF Owned

LEMMA StillOpenBehind ==
  ASSUME NEW p, NEW q, NEW n, Agree(p, q, n), n = Len(p), Len(q) = n + 1, NEW i \in 1 .. n
  PROVE  StillOpen(q, i) <=> StillOpen(p, i) /\ Nest(p, i, n) + Weight(q[n + 1]) > 0
<1>1. q[i] = p[i] /\ n \in Nat /\ i \in Int /\ 1 <= i
  BY DEF Agree
<1>2. Nest(q, i, n + 1) = Nest(p, i, n) + Weight(q[n + 1])
  BY NestBehind
<1>3. ASSUME NEW k \in i .. n PROVE Nest(q, i, k) = Nest(p, i, k)
  <2>1. k \in Int /\ k <= n
    BY <1>1
  <2> QED BY <1>1, <2>1, NestBefore
<1>4. i .. Len(q) = (i .. n) \cup {n + 1}
  BY <1>1
<1> QED BY <1>1, <1>2, <1>3, <1>4 DEF StillOpen

-----------------------------------------------------------------------------
(* What the list of open constructs says of the body walked so far: the     *)
(* k-th innermost one is still open, k deep, and knows its else part. What  *)
(* is not open has been closed; an end has closed something; an else is the *)
(* only one of an if.                                                       *)
IsElse(p, e) == p[e].kind = "else"
HasElse(p, i, e) == IF e = 0 THEN \A f \in 1 .. Len(p) : IsElse(p, f) => ~Owned(p, i, f)
                             ELSE e \in 1 .. Len(p) /\ IsElse(p, e) /\ Owned(p, i, e)
OpenAt(p, i, e, k) == /\ i \in 1 .. Len(p) /\ StillOpen(p, i)
                      /\ Nest(p, i, Len(p)) = k /\ HasElse(p, i, e)

OpenKnown(p, o) == \A k \in 1 .. Len(o) : OpenAt(p, o[k].opener, o[k].else, k)
OpenListed(p, o) == \A i \in 1 .. Len(p) : StillOpen(p, i) => \E k \in 1 .. Len(o) : o[k].opener = i
OthersClosed(p) == \A i \in 1 .. Len(p) :
                     (p[i].kind \in Openers /\ ~StillOpen(p, i)) =>
                       \E j \in 1 .. Len(p) : Closed(p, i, j)
EndersClose(p) == \A j \in 1 .. Len(p) :
                    p[j].kind \in Enders => \E i \in 1 .. Len(p) : Closed(p, i, j)
ElsesOwned(p) == \A e \in 1 .. Len(p) :
                   IsElse(p, e) => \E i \in 1 .. Len(p) : p[i].kind = "if" /\ Owned(p, i, e)
OneElse(p) == \A i, e, f \in 1 .. Len(p) :
                (IsElse(p, e) /\ IsElse(p, f) /\ Owned(p, i, e) /\ Owned(p, i, f)) => e = f

Nested(p, o) == /\ OpenKnown(p, o) /\ OpenListed(p, o) /\ OthersClosed(p)
                /\ EndersClose(p) /\ ElsesOwned(p) /\ OneElse(p)

(* How a token that is appended extends each of these.                      *)
Extends(p, q, n) == Agree(p, q, n) /\ n = Len(p) /\ Len(q) = n + 1

LEMMA ClosesBehind ==
  ASSUME NEW p, NEW q, NEW n, Extends(p, q, n), q[n + 1].kind \in Enders,
         NEW i \in 1 .. n, StillOpen(p, i), Nest(p, i, n) = 1
  PROVE  Closed(q, i, n + 1)
<1>1. n \in Nat /\ Agree(p, q, n) /\ q[i] = p[i]
  BY DEF Extends, Agree
<1>2. Weight(q[n + 1]) = -1
  BY DEF Weight, Openers, Enders
<1>3. Nest(q, i, n + 1) = Nest(p, i, n) + Weight(q[n + 1])
  BY <1>1, NestBehind
<1>4. ASSUME NEW k \in i .. n PROVE Nest(q, i, k) > 0
  <2>1. Nest(p, i, k) > 0
    BY DEF StillOpen, Extends
  <2>2. i \in Int /\ k \in Int /\ 1 <= i /\ k <= n
    BY <1>1
  <2>3. Nest(q, i, k) = Nest(p, i, k)
    BY <1>1, <2>2, NestBefore
  <2> QED BY <2>1, <2>3
<1>5. (n + 1) - 1 = n /\ i <= n + 1
  BY <1>1
<1> QED BY <1>1, <1>2, <1>3, <1>4, <1>5 DEF Closed, StillOpen

LEMMA OpensBehind ==
  ASSUME NEW p, NEW q, NEW n, Extends(p, q, n)
  PROVE  /\ StillOpen(q, n + 1) <=> q[n + 1].kind \in Openers
         /\ Nest(q, n + 1, n + 1) = Weight(q[n + 1])
<1>1. n + 1 \in Int /\ Len(q) = n + 1 /\ n \in Nat
  BY DEF Extends, Agree
<1>2. Nest(q, n + 1, n + 1) = Weight(q[n + 1])
  BY <1>1, NestOne
<1>3. \A k \in n + 1 .. n + 1 : k = n + 1
  BY <1>1
<1> QED BY <1>1, <1>2, <1>3 DEF StillOpen, Weight

LEMMA OthersClosedBehind ==
  ASSUME NEW p, NEW q, NEW n, Extends(p, q, n), OthersClosed(p)
  PROVE  OthersClosed(q)
<1>1. n \in Nat /\ Agree(p, q, n) /\ Len(q) = n + 1 /\ n = Len(p)
  BY DEF Extends, Agree
<1>2. SUFFICES ASSUME NEW i \in 1 .. n + 1, q[i].kind \in Openers, ~StillOpen(q, i)
               PROVE  \E j \in 1 .. n + 1 : Closed(q, i, j)
  BY <1>1 DEF OthersClosed
<1>3. i # n + 1 /\ i \in 1 .. n
  BY <1>1, <1>2, OpensBehind
<1>4. p[i] = q[i]
  BY <1>1, <1>3 DEF Agree
<1>5. CASE ~StillOpen(p, i)
  <2>1. PICK j \in 1 .. n : Closed(p, i, j)
    BY <1>1, <1>2, <1>3, <1>4, <1>5 DEF OthersClosed
  <2>2. Closed(q, i, j)
    BY <1>1, <1>3, <2>1, ClosedBefore
  <2> QED BY <1>1, <2>2
<1>6. CASE StillOpen(p, i)
  <2>1. ~(Nest(p, i, n) + Weight(q[n + 1]) > 0)
    BY <1>1, <1>2, <1>3, <1>6, StillOpenBehind
  <2>2. n \in i .. Len(p)
    BY <1>1, <1>3
  <2>3. Nest(p, i, n) > 0 /\ Nest(p, i, n) \in Int
    BY <1>1, <1>6, <2>2, NestType DEF StillOpen
  <2>4. q[n + 1].kind \in Enders /\ Nest(p, i, n) = 1
    BY <2>1, <2>3 DEF Weight
  <2>5. Closed(q, i, n + 1)
    BY <1>3, <1>6, <2>4, ClosesBehind
  <2> QED BY <1>1, <2>5
<1> QED BY <1>5, <1>6

LEMMA EndersCloseBehind ==
  ASSUME NEW p, NEW q, NEW n, Extends(p, q, n), EndersClose(p),
         q[n + 1].kind \in Enders => \E i \in 1 .. n : StillOpen(p, i) /\ Nest(p, i, n) = 1
  PROVE  EndersClose(q)
<1>1. n \in Nat /\ Agree(p, q, n) /\ Len(q) = n + 1 /\ n = Len(p)
  BY DEF Extends, Agree
<1>2. SUFFICES ASSUME NEW j \in 1 .. n + 1, q[j].kind \in Enders
               PROVE  \E i \in 1 .. n + 1 : Closed(q, i, j)
  BY <1>1 DEF EndersClose
<1>3. CASE j \in 1 .. n
  <2>1. p[j] = q[j]
    BY <1>1, <1>3 DEF Agree
  <2>2. PICK i \in 1 .. n : Closed(p, i, j)
    BY <1>1, <1>2, <1>3, <2>1 DEF EndersClose
  <2>3. Closed(q, i, j)
    BY <1>1, <1>3, <2>2, ClosedBefore
  <2> QED BY <1>1, <2>3
<1>4. CASE j = n + 1
  <2>1. PICK i \in 1 .. n : StillOpen(p, i) /\ Nest(p, i, n) = 1
    BY <1>2, <1>4
  <2>2. Closed(q, i, n + 1)
    BY <1>2, <1>4, <2>1, ClosesBehind
  <2> QED BY <1>1, <1>4, <2>2
<1> QED BY <1>1, <1>3, <1>4

(* An else that is appended belongs to the innermost open construct.        *)
LEMMA OwnsBehind ==
  ASSUME NEW p, NEW q, NEW n, Extends(p, q, n), IsElse(q, n + 1), NEW i \in 1 .. n + 1
  PROVE  Owned(q, i, n + 1) <=> i # n + 1 /\ StillOpen(p, i) /\ Nest(p, i, n) = 1
<1>1. n \in Nat /\ Agree(p, q, n) /\ Len(q) = n + 1 /\ n = Len(p)
  BY DEF Extends, Agree
<1>2. Weight(q[n + 1]) = 0 /\ q[n + 1].kind \notin Openers
  BY DEF Weight, Openers, Enders, IsElse
<1>3. CASE i = n + 1
  BY <1>2, <1>3 DEF Owned
<1>4. CASE i # n + 1
  <2>1. i \in 1 .. n
    BY <1>1, <1>4
  <2>2. Nest(q, i, n + 1) = Nest(p, i, n) /\ Nest(p, i, n) \in Int
    <3>1. Nest(q, i, n + 1) = Nest(p, i, n) + Weight(q[n + 1])
      BY <1>1, <2>1, NestBehind
    <3>2. Nest(p, i, n) \in Int
      BY <1>1, <2>1, NestType
    <3> QED BY <1>2, <3>1, <3>2
  <2>3. StillOpen(q, i) <=> StillOpen(p, i) /\ Nest(p, i, n) > 0
    <3>1. StillOpen(q, i) <=> StillOpen(p, i) /\ Nest(p, i, n) + Weight(q[n + 1]) > 0
      BY <1>1, <2>1, StillOpenBehind
    <3> QED BY <1>2, <2>2, <3>1
  <2>4. Owned(q, i, n + 1) <=> StillOpen(q, i) /\ Nest(q, i, n + 1) = 1
    BY <1>1, <2>1 DEF Owned, StillOpen
  <2> QED BY <1>4, <2>2, <2>3, <2>4
<1> QED BY <1>3, <1>4

LEMMA ElsesOwnedBehind ==
  ASSUME NEW p, NEW q, NEW n, Extends(p, q, n), ElsesOwned(p),
         IsElse(q, n + 1) =>
           \E i \in 1 .. n : p[i].kind = "if" /\ StillOpen(p, i) /\ Nest(p, i, n) = 1
  PROVE  ElsesOwned(q)
<1>1. n \in Nat /\ Agree(p, q, n) /\ Len(q) = n + 1 /\ n = Len(p)
  BY DEF Extends, Agree
<1>2. SUFFICES ASSUME NEW e \in 1 .. n + 1, IsElse(q, e)
               PROVE  \E i \in 1 .. n + 1 : q[i].kind = "if" /\ Owned(q, i, e)
  BY <1>1 DEF ElsesOwned
<1>3. CASE e \in 1 .. n
  <2>1. IsElse(p, e)
    BY <1>1, <1>2, <1>3 DEF Agree, IsElse
  <2>2. PICK i \in 1 .. n : p[i].kind = "if" /\ Owned(p, i, e)
    BY <1>1, <1>3, <2>1 DEF ElsesOwned
  <2>3. Owned(q, i, e) /\ q[i].kind = "if"
    BY <1>1, <1>3, <2>2, OwnedBefore DEF Agree
  <2> QED BY <1>1, <2>3
<1>4. CASE e = n + 1
  <2>1. PICK i \in 1 .. n : p[i].kind = "if" /\ StillOpen(p, i) /\ Nest(p, i, n) = 1
    BY <1>2, <1>4
  <2>2. i \in 1 .. n + 1 /\ i # n + 1 /\ q[i] = p[i]
    BY <1>1 DEF Agree
  <2>3. Owned(q, i, n + 1)
    BY <1>2, <1>4, <2>1, <2>2, OwnsBehind
  <2> QED BY <1>4, <2>1, <2>2, <2>3
<1> QED BY <1>1, <1>3, <1>4

LEMMA OneElseBehind ==
  ASSUME NEW p, NEW q, NEW n, Extends(p, q, n), OneElse(p),
         IsElse(q, n + 1) =>
           \A i, f \in 1 .. n :
             (StillOpen(p, i) /\ Nest(p, i, n) = 1 /\ IsElse(p, f)) => ~Owned(p, i, f)
  PROVE  OneElse(q)
<1>1. n \in Nat /\ Agree(p, q, n) /\ Len(q) = n + 1 /\ n = Len(p)
  BY DEF Extends, Agree
<1>2. ASSUME NEW i \in 1 .. n + 1, NEW e \in 1 .. n + 1, NEW f \in 1 .. n + 1,
             IsElse(q, e), IsElse(q, f), Owned(q, i, e), Owned(q, i, f), e < f
      PROVE  FALSE
  <2>1. e \in 1 .. n /\ IsElse(p, e)
    BY <1>1, <1>2 DEF Agree, IsElse
  <2>2. i \in 1 .. n
    BY <1>1, <1>2, <2>1 DEF Owned
  <2>3. Owned(p, i, e)
    BY <1>1, <1>2, <2>1, <2>2, OwnedBefore
  <2>4. CASE f \in 1 .. n
    <3>1. IsElse(p, f)
      BY <1>1, <1>2, <2>4 DEF Agree, IsElse
    <3>2. Owned(p, i, f)
      BY <1>1, <1>2, <2>2, <2>4, OwnedBefore
    <3>3. e = f
      BY <1>1, <2>1, <2>2, <2>3, <2>4, <3>1, <3>2 DEF OneElse
    <3> QED BY <1>1, <1>2, <3>3
  <2>5. CASE f = n + 1
    <3>1. StillOpen(p, i) /\ Nest(p, i, n) = 1
      BY <1>2, <2>5, OwnsBehind
    <3> QED BY <1>2, <2>1, <2>2, <2>3, <2>5, <3>1
  <2> QED BY <1>1, <2>4, <2>5
<1>3. ASSUME NEW i \in 1 .. n + 1, NEW e \in 1 .. n + 1, NEW f \in 1 .. n + 1,
             IsElse(q, e), IsElse(q, f), Owned(q, i, e), Owned(q, i, f)
      PROVE  e = f
  <2>1. ~(e < f) /\ ~(f < e)
    BY <1>2, <1>3
  <2> QED BY <1>1, <2>1
<1> QED BY <1>1, <1>3 DEF OneElse

LEMMA OpenAtBehind ==
  ASSUME NEW p, NEW q, NEW n, Extends(p, q, n), NEW i, NEW e, NEW k, OpenAt(p, i, e, k),
         k + Weight(q[n + 1]) > 0, IsElse(q, n + 1) => k # 1
  PROVE  OpenAt(q, i, e, k + Weight(q[n + 1]))
<1>1. n \in Nat /\ Agree(p, q, n) /\ Len(q) = n + 1 /\ n = Len(p)
  BY DEF Extends, Agree
<1>2. i \in 1 .. n /\ StillOpen(p, i) /\ Nest(p, i, n) = k /\ HasElse(p, i, e)
  BY <1>1 DEF OpenAt
<1>3. Nest(q, i, n + 1) = k + Weight(q[n + 1])
  BY <1>1, <1>2, NestBehind
<1>4. StillOpen(q, i)
  BY <1>1, <1>2, StillOpenBehind
<1>5. ASSUME NEW f \in 1 .. n PROVE /\ IsElse(q, f) <=> IsElse(p, f)
                                    /\ Owned(q, i, f) <=> Owned(p, i, f)
  BY <1>1, <1>2, OwnedBefore DEF Agree, IsElse
<1>6. IsElse(q, n + 1) => ~Owned(q, i, n + 1)
  BY <1>1, <1>2, OwnsBehind
<1>7. HasElse(q, i, e)
  <2>1. CASE e = 0
    <3>1. \A f \in 1 .. n : IsElse(p, f) => ~Owned(p, i, f)
      BY <1>1, <1>2, <2>1 DEF HasElse
    <3>2. ASSUME NEW f \in 1 .. n + 1, IsElse(q, f) PROVE ~Owned(q, i, f)
      <4>1. CASE f \in 1 .. n
        BY <1>5, <3>1, <3>2, <4>1
      <4>2. CASE f = n + 1
        BY <1>6, <3>2, <4>2
      <4> QED BY <1>1, <4>1, <4>2
    <3> QED BY <1>1, <2>1, <3>2 DEF HasElse
  <2>2. CASE e # 0
    <3>1. e \in 1 .. n /\ IsElse(p, e) /\ Owned(p, i, e)
      BY <1>1, <1>2, <2>2 DEF HasElse
    <3> QED BY <1>1, <1>5, <2>2, <3>1 DEF HasElse
  <2> QED BY <2>1, <2>2
<1> QED BY <1>1, <1>2, <1>3, <1>4, <1>7 DEF OpenAt

(* A token without nesting, an opener, an else, an end.                     *)
LEMMA NestedBesides ==
  ASSUME NEW p, NEW q, NEW n, Extends(p, q, n), NEW o, Nested(p, o),
         Weight(q[n + 1]) = 0, ~IsElse(q, n + 1)
  PROVE  Nested(q, o)
<1>1. n \in Nat /\ Agree(p, q, n) /\ Len(q) = n + 1 /\ n = Len(p)
  BY DEF Extends, Agree
<1>2. q[n + 1].kind \notin Openers /\ q[n + 1].kind \notin Enders
  BY DEF Weight, Openers, Enders
<1>3. OpenKnown(q, o)
  <2> SUFFICES ASSUME NEW k \in 1 .. Len(o) PROVE OpenAt(q, o[k].opener, o[k].else, k)
    BY DEF OpenKnown
  <2>1. OpenAt(p, o[k].opener, o[k].else, k)
    BY DEF Nested, OpenKnown
  <2>2. k + Weight(q[n + 1]) = k /\ k > 0
    OBVIOUS
  <2> QED BY <2>1, <2>2, OpenAtBehind
<1>4. OpenListed(q, o)
  <2> SUFFICES ASSUME NEW i \in 1 .. n + 1, StillOpen(q, i)
               PROVE  \E k \in 1 .. Len(o) : o[k].opener = i
    BY <1>1 DEF OpenListed
  <2>1. i \in 1 .. n
    BY <1>1, <1>2, OpensBehind
  <2>2. StillOpen(p, i)
    BY <1>1, <2>1, StillOpenBehind
  <2> QED BY <1>1, <2>1, <2>2 DEF Nested, OpenListed
<1>5. OthersClosed(q) /\ EndersClose(q)
  BY <1>2, OthersClosedBehind, EndersCloseBehind DEF Nested
<1>6. ElsesOwned(q) /\ OneElse(q)
  BY ElsesOwnedBehind, OneElseBehind DEF Nested
<1> QED BY <1>3, <1>4, <1>5, <1>6 DEF Nested

LEMMA NestedOpen ==
  ASSUME NEW p, NEW q, NEW n, Extends(p, q, n), NEW o, Nested(p, o), Len(o) \in Nat,
         q[n + 1].kind \in Openers,
         NEW w, Len(w) = Len(o) + 1, w[1].opener = n + 1, w[1].else = 0,
         \A k \in 1 .. Len(o) : w[k + 1] = o[k]
  PROVE  Nested(q, w)
<1>1. n \in Nat /\ Agree(p, q, n) /\ Len(q) = n + 1 /\ n = Len(p)
  BY DEF Extends, Agree
<1>2. q[n + 1].kind \notin Enders /\ ~IsElse(q, n + 1) /\ Weight(q[n + 1]) = 1
  BY DEF Openers, Enders, IsElse, Weight
<1>3. OpenKnown(q, w)
  <2> SUFFICES ASSUME NEW k \in 1 .. Len(w) PROVE OpenAt(q, w[k].opener, w[k].else, k)
    BY DEF OpenKnown
  <2>1. CASE k = 1
    <3>1. StillOpen(q, n + 1) /\ Nest(q, n + 1, n + 1) = 1
      BY <1>2, OpensBehind
    <3>2. ASSUME NEW f \in 1 .. n + 1, IsElse(q, f) PROVE ~Owned(q, n + 1, f)
      BY <1>1, <1>2, <3>2 DEF Owned
    <3>3. HasElse(q, n + 1, 0)
      BY <1>1, <3>2 DEF HasElse
    <3> QED BY <1>1, <2>1, <3>1, <3>3 DEF OpenAt
  <2>2. CASE k # 1
    <3>1. k - 1 \in 1 .. Len(o) /\ (k - 1) + 1 = k
      BY <2>2
    <3>2. w[k] = o[k - 1] /\ OpenAt(p, o[k - 1].opener, o[k - 1].else, k - 1)
      BY <3>1 DEF Nested, OpenKnown
    <3>3. OpenAt(q, o[k - 1].opener, o[k - 1].else, (k - 1) + Weight(q[n + 1]))
      BY <1>2, <3>1, <3>2, OpenAtBehind
    <3> QED BY <1>2, <3>1, <3>2, <3>3
  <2> QED BY <2>1, <2>2
<1>4. OpenListed(q, w)
  <2> SUFFICES ASSUME NEW i \in 1 .. n + 1, StillOpen(q, i)
               PROVE  \E k \in 1 .. Len(w) : w[k].opener = i
    BY <1>1 DEF OpenListed
  <2>1. CASE i = n + 1
    <3>1. 1 \in 1 .. Len(w)
      OBVIOUS
    <3> QED BY <2>1, <3>1
  <2>2. CASE i # n + 1
    <3>1. i \in 1 .. n
      BY <1>1, <2>2
    <3>2. StillOpen(p, i)
      BY <1>1, <3>1, StillOpenBehind
    <3>3. PICK k \in 1 .. Len(o) : o[k].opener = i
      BY <1>1, <3>1, <3>2 DEF Nested, OpenListed
    <3>4. k + 1 \in 1 .. Len(w) /\ w[k + 1] = o[k]
      OBVIOUS
    <3> QED BY <3>3, <3>4
  <2> QED BY <2>1, <2>2
<1>5. OthersClosed(q) /\ EndersClose(q)
  BY <1>2, OthersClosedBehind, EndersCloseBehind DEF Nested
<1>6. ElsesOwned(q) /\ OneElse(q)
  BY <1>2, ElsesOwnedBehind, OneElseBehind DEF Nested
<1> QED BY <1>3, <1>4, <1>5, <1>6 DEF Nested

(* Only the innermost open construct has depth 1.                           *)
LEMMA Innermost ==
  ASSUME NEW p, NEW o, Nested(p, o), Len(o) \in Nat, NEW i \in 1 .. Len(p),
         StillOpen(p, i), Nest(p, i, Len(p)) = 1
  PROVE  Len(o) > 0 /\ i = o[1].opener
<1>1. PICK k \in 1 .. Len(o) : o[k].opener = i
  BY DEF Nested, OpenListed
<1>2. Nest(p, i, Len(p)) = k
  BY <1>1 DEF Nested, OpenKnown, OpenAt
<1> QED BY <1>1, <1>2

LEMMA NestedElse ==
  ASSUME NEW p, NEW q, NEW n, Extends(p, q, n), NEW o, Nested(p, o), Len(o) \in Nat \ {0},
         IsElse(q, n + 1), p[o[1].opener].kind = "if", o[1].else = 0,
         NEW w, Len(w) = Len(o), w[1].opener = o[1].opener, w[1].else = n + 1,
         \A k \in 2 .. Len(o) : w[k] = o[k]
  PROVE  Nested(q, w)
<1>1. n \in Nat /\ Agree(p, q, n) /\ Len(q) = n + 1 /\ n = Len(p)
  BY DEF Extends, Agree
<1>2. /\ q[n + 1].kind \notin Enders /\ q[n + 1].kind \notin Openers /\ Weight(q[n + 1]) = 0
  BY DEF Openers, Enders, IsElse, Weight
<1> DEFINE i == o[1].opener
<1>3. OpenAt(p, i, 0, 1)
  BY DEF Nested, OpenKnown
<1>4. /\ i \in 1 .. n /\ StillOpen(p, i) /\ Nest(p, i, n) = 1
      /\ \A f \in 1 .. n : IsElse(p, f) => ~Owned(p, i, f)
  BY <1>1, <1>3 DEF OpenAt, HasElse
<1>5. Owned(q, i, n + 1)
  <2> HIDE DEF i
  <2>1. i \in 1 .. n + 1 /\ i # n + 1
    BY <1>1, <1>4
  <2> QED BY <1>4, <2>1, OwnsBehind
<1>6. OpenKnown(q, w)
  <2> SUFFICES ASSUME NEW k \in 1 .. Len(w) PROVE OpenAt(q, w[k].opener, w[k].else, k)
    BY DEF OpenKnown
  <2>1. CASE k = 1
    <3>0. Nest(p, i, n) + Weight(q[n + 1]) > 0
      BY <1>2, <1>4
    <3>1. StillOpen(q, i)
      BY <1>1, <1>4, <3>0, StillOpenBehind
    <3>2. Nest(q, i, n + 1) = 1
      BY <1>1, <1>2, <1>4, NestBehind
    <3>3. HasElse(q, i, n + 1)
      BY <1>1, <1>5 DEF HasElse
    <3> QED BY <1>1, <1>4, <2>1, <3>1, <3>2, <3>3 DEF OpenAt
  <2>2. CASE k # 1
    <3>1. w[k] = o[k] /\ OpenAt(p, o[k].opener, o[k].else, k)
      BY <2>2 DEF Nested, OpenKnown
    <3>2. k + Weight(q[n + 1]) = k /\ k > 0
      BY <1>2
    <3>3. OpenAt(q, o[k].opener, o[k].else, k + Weight(q[n + 1]))
      BY <2>2, <3>1, <3>2, OpenAtBehind
    <3> QED BY <3>1, <3>2, <3>3
  <2> QED BY <2>1, <2>2
<1>7. OpenListed(q, w)
  <2> SUFFICES ASSUME NEW l \in 1 .. n + 1, StillOpen(q, l)
               PROVE  \E k \in 1 .. Len(w) : w[k].opener = l
    BY <1>1 DEF OpenListed
  <2>1. l \in 1 .. n
    BY <1>1, <1>2, OpensBehind
  <2>2. StillOpen(p, l)
    BY <1>1, <2>1, StillOpenBehind
  <2>3. PICK k \in 1 .. Len(o) : o[k].opener = l
    BY <1>1, <2>1, <2>2 DEF Nested, OpenListed
  <2>4. w[k].opener = l
    <3>1. CASE k = 1
      BY <2>3, <3>1
    <3>2. CASE k # 1
      BY <2>3, <3>2
    <3> QED BY <3>1, <3>2
  <2> QED BY <2>4
<1>8. OthersClosed(q) /\ EndersClose(q)
  BY <1>2, OthersClosedBehind, EndersCloseBehind DEF Nested
<1>9. ElsesOwned(q)
  BY <1>4, ElsesOwnedBehind DEF Nested
<1>10. OneElse(q)
  <2>1. ASSUME NEW l \in 1 .. n, NEW f \in 1 .. n,
               StillOpen(p, l), Nest(p, l, n) = 1, IsElse(p, f)
        PROVE  ~Owned(p, l, f)
    <3>1. l = i
      BY <1>1, <2>1, Innermost
    <3> QED BY <1>4, <2>1, <3>1
  <2> QED BY <2>1, OneElseBehind DEF Nested
<1> QED BY <1>6, <1>7, <1>8, <1>9, <1>10 DEF Nested

LEMMA NestedEnd ==
  ASSUME NEW p, NEW q, NEW n, Extends(p, q, n), NEW o, Nested(p, o), Len(o) \in Nat \ {0},
         q[n + 1].kind \in Enders, NEW S, o \in Seq(S)
  PROVE  Nested(q, Tail(o))
<1> DEFINE w == Tail(o)
<1>0. Len(w) = Len(o) - 1 /\ \A k \in 1 .. Len(w) : w[k] = o[k + 1]
  OBVIOUS
<1> HIDE DEF w
<1>1. n \in Nat /\ Agree(p, q, n) /\ Len(q) = n + 1 /\ n = Len(p)
  BY DEF Extends, Agree
<1>2. q[n + 1].kind \notin Openers /\ ~IsElse(q, n + 1) /\ Weight(q[n + 1]) = -1
  BY DEF Openers, Enders, IsElse, Weight
<1> DEFINE i == o[1].opener
<1>3. OpenAt(p, i, o[1].else, 1)
  BY DEF Nested, OpenKnown
<1>4. i \in 1 .. n /\ StillOpen(p, i) /\ Nest(p, i, n) = 1
  BY <1>1, <1>3 DEF OpenAt
<1>5. OpenKnown(q, w)
  <2> SUFFICES ASSUME NEW k \in 1 .. Len(w) PROVE OpenAt(q, w[k].opener, w[k].else, k)
    BY DEF OpenKnown
  <2>1. k + 1 \in 1 .. Len(o) /\ w[k] = o[k + 1]
    BY <1>0
  <2>2. OpenAt(p, o[k + 1].opener, o[k + 1].else, k + 1)
    BY <2>1 DEF Nested, OpenKnown
  <2>3. (k + 1) + Weight(q[n + 1]) = k /\ k > 0
    BY <1>2
  <2>4. OpenAt(q, o[k + 1].opener, o[k + 1].else, (k + 1) + Weight(q[n + 1]))
    BY <1>2, <2>2, <2>3, OpenAtBehind
  <2> QED BY <2>1, <2>3, <2>4
<1>6. OpenListed(q, w)
  <2> SUFFICES ASSUME NEW l \in 1 .. n + 1, StillOpen(q, l)
               PROVE  \E k \in 1 .. Len(w) : w[k].opener = l
    BY <1>1 DEF OpenListed
  <2>1. l \in 1 .. n
    BY <1>1, <1>2, OpensBehind
  <2>2. StillOpen(p, l) /\ Nest(p, l, n) + Weight(q[n + 1]) > 0
    BY <1>1, <2>1, StillOpenBehind
  <2>3. PICK k \in 1 .. Len(o) : o[k].opener = l
    BY <1>1, <2>1, <2>2 DEF Nested, OpenListed
  <2>4. k # 1
    BY <1>2, <1>4, <2>2, <2>3
  <2>5. k - 1 \in 1 .. Len(w) /\ (k - 1) + 1 = k
    BY <1>0, <2>4
  <2>6. w[k - 1] = o[k]
    BY <1>0, <2>5
  <2> QED BY <2>3, <2>5, <2>6
<1>7. OthersClosed(q) /\ EndersClose(q)
  BY <1>4, OthersClosedBehind, EndersCloseBehind DEF Nested
<1>8. ElsesOwned(q) /\ OneElse(q)
  BY <1>2, ElsesOwnedBehind, OneElseBehind DEF Nested
<1> QED BY <1>5, <1>6, <1>7, <1>8 DEF Nested, w

-----------------------------------------------------------------------------
(* Where the nodes of the tokens are: one token behind the other.           *)
Entry == [address : Nat, imm : Int]
AddressIn(r, last, t) == IF t \in DOMAIN r THEN r[t].address ELSE last
Consecutive(p, r, last) ==
  \A t \in 1 .. Len(p) : AddressIn(r, last, t + 1) = r[t].address + Size(p[t])
Ordered(p, r, last) ==
  \A t \in 1 .. Len(p), u \in 1 .. Len(p) + 1 :
    t < u => r[t].address + Size(p[t]) <= AddressIn(r, last, u)
Addressed(p, r, last) ==
  AddressIn(r, last, 1) = 0 /\ Consecutive(p, r, last) /\ Ordered(p, r, last)

LEMMA AddressedBehind ==
  ASSUME NEW n \in Nat, NEW p \in Seq(Tokens), NEW q \in Seq(Tokens), Extends(p, q, n),
         NEW r \in Seq(Entry), Len(r) = n, NEW last \in Nat, Addressed(p, r, last),
         NEW s \in Seq(Entry), Len(s) = n + 1, s[n + 1].address = last,
         \A t \in 1 .. n : s[t].address = r[t].address
  PROVE  Addressed(q, s, last + Size(q[n + 1]))
<1> DEFINE end == last + Size(q[n + 1])
<1>1. Agree(p, q, n) /\ Len(q) = n + 1 /\ Len(p) = n
  BY DEF Extends
<1>2. DOMAIN r = 1 .. n /\ DOMAIN s = 1 .. n + 1
  OBVIOUS
<1>3. q[n + 1] \in Tokens
  BY <1>1
<1>4. Size(q[n + 1]) \in Nat
  BY <1>3, SizeType
<1>5. \A t \in 1 .. n + 1 : AddressIn(s, end, t) = AddressIn(r, last, t)
  BY <1>2 DEF AddressIn
<1>6. AddressIn(s, end, n + 2) = end /\ AddressIn(r, last, n + 1) = last
  BY <1>2 DEF AddressIn
<1>7. \A t \in 1 .. n : q[t] = p[t]
  BY <1>1 DEF Agree
<1> HIDE DEF end
<1>8. Consecutive(q, s, end)
  <2> SUFFICES ASSUME NEW t \in 1 .. n + 1
               PROVE  AddressIn(s, end, t + 1) = s[t].address + Size(q[t])
    BY <1>1 DEF Consecutive
  <2>1. CASE t \in 1 .. n
    <3>1. AddressIn(r, last, t + 1) = r[t].address + Size(p[t])
      BY <1>1, <2>1 DEF Addressed, Consecutive
    <3>2. t + 1 \in 1 .. n + 1
      BY <2>1
    <3> QED BY <1>5, <1>7, <2>1, <3>1, <3>2
  <2>2. CASE t = n + 1
    <3>1. t + 1 = n + 2
      BY <2>2
    <3> QED BY <1>6, <2>2, <3>1 DEF end
  <2> QED BY <2>1, <2>2
<1>9. Ordered(q, s, end)
  <2> SUFFICES ASSUME NEW t \in 1 .. n + 1, NEW u \in 1 .. n + 2, t < u
               PROVE  s[t].address + Size(q[t]) <= AddressIn(s, end, u)
    <3>1. (n + 1) + 1 = n + 2
      OBVIOUS
    <3> QED BY <1>1, <3>1 DEF Ordered
  <2>1. CASE t = n + 1
    <3>1. u = n + 2
      BY <2>1
    <3> QED BY <1>4, <1>6, <2>1, <3>1 DEF end
  <2>2. CASE t # n + 1 /\ u # n + 2
    <3>1. t \in 1 .. n /\ u \in 1 .. n + 1
      BY <2>2
    <3>2. r[t].address + Size(p[t]) <= AddressIn(r, last, u)
      BY <1>1, <3>1 DEF Addressed, Ordered
    <3> QED BY <1>5, <1>7, <3>1, <3>2
  <2>3. CASE t # n + 1 /\ u = n + 2
    <3>1. t \in 1 .. n /\ n + 1 \in 1 .. n + 1 /\ t < n + 1
      BY <2>3
    <3>2. r[t].address + Size(p[t]) <= last
      BY <1>1, <1>6, <3>1 DEF Addressed, Ordered
    <3>3. last <= end
      BY <1>4 DEF end
    <3>4. p[t] \in Tokens /\ r[t] \in Entry
      BY <1>1, <3>1
    <3>5. Size(p[t]) \in Nat /\ r[t].address \in Nat
      BY <3>4, SizeType DEF Entry
    <3>6. end \in Nat
      BY <1>4 DEF end
    <3>7. r[t].address + Size(p[t]) <= end
      <4> DEFINE x == r[t].address + Size(p[t])
      <4>1. x \in Nat
        <5>1. \A i, j \in Nat : i + j \in Nat
          OBVIOUS
        <5> QED BY <3>5, <5>1
      <4> HIDE DEF x
      <4> QED BY <3>2, <3>3, <3>6, <4>1 DEF x
    <3> QED BY <1>6, <1>7, <2>3, <3>1, <3>7
  <2> QED BY <2>1, <2>2, <2>3
<1>10. AddressIn(s, end, 1) = 0
  <2>1. 1 \in 1 .. n + 1 /\ AddressIn(r, last, 1) = 0
    BY DEF Addressed
  <2> QED BY <1>5, <2>1
<1> QED BY <1>8, <1>9, <1>10 DEF Addressed, end

(* The displacements of a construct that has been closed.                   *)
BranchAddress(p, r, i) == r[i].address + Size(p[i]) - 4
PatchedLoop(p, r, i, j) ==
  /\ p[i].kind = "while" /\ p[j].kind = "endwhile"
  /\ r[i].imm = (r[j].address + 4) - BranchAddress(p, r, i)
  /\ r[j].imm = r[i].address - r[j].address
PatchedElse(p, r, i, j) ==
  \A e \in i .. j : (IsElse(p, e) /\ Owned(p, i, e)) =>
                      /\ r[e].imm = r[j].address - r[e].address
                      /\ r[i].imm = (r[e].address + 4) - BranchAddress(p, r, i)
WithoutElse(p, i, j) == \A e \in i .. j : IsElse(p, e) => ~Owned(p, i, e)
PatchedIf(p, r, i, j) ==
  /\ p[i].kind = "if" /\ p[j].kind = "endif"
  /\ PatchedElse(p, r, i, j)
  /\ WithoutElse(p, i, j) => r[i].imm = r[j].address - BranchAddress(p, r, i)
PatchedPair(p, r, i, j) == PatchedLoop(p, r, i, j) \/ PatchedIf(p, r, i, j)
Patched(p, r) == \A i, j \in 1 .. Len(p) : Closed(p, i, j) => PatchedPair(p, r, i, j)

(* A pair keeps its displacements while the entries of its tokens stay.     *)
LEMMA PairKept ==
  ASSUME NEW p, NEW q, NEW n, Extends(p, q, n), NEW r, NEW s,
         NEW i \in 1 .. n, NEW j \in 1 .. n, Closed(p, i, j), PatchedPair(p, r, i, j),
         \A t \in 1 .. n : s[t].address = r[t].address,
         s[i].imm = r[i].imm, s[j].imm = r[j].imm,
         \A e \in i .. j : (IsElse(p, e) /\ Owned(p, i, e)) => s[e].imm = r[e].imm
  PROVE  PatchedPair(q, s, i, j)
<1>1. n \in Nat /\ Agree(p, q, n)
  BY DEF Extends, Agree
<1>2. q[i] = p[i] /\ q[j] = p[j]
  BY <1>1 DEF Agree
<1>3. s[i].address = r[i].address /\ s[j].address = r[j].address
  OBVIOUS
<1>4. BranchAddress(q, s, i) = BranchAddress(p, r, i)
  BY <1>2, <1>3 DEF BranchAddress
<1>5. \A e \in i .. j : e \in 1 .. n
  BY <1>1
<1>6. \A e \in i .. j : /\ IsElse(q, e) <=> IsElse(p, e)
                        /\ Owned(q, i, e) <=> Owned(p, i, e)
                        /\ s[e].address = r[e].address
  BY <1>1, <1>5, OwnedBefore DEF Agree, IsElse
<1>7. CASE PatchedLoop(p, r, i, j)
  <2>1. PatchedLoop(q, s, i, j)
    BY <1>2, <1>3, <1>4, <1>7 DEF PatchedLoop
  <2> QED BY <2>1 DEF PatchedPair
<1>8. CASE PatchedIf(p, r, i, j)
  <2>1. PatchedElse(q, s, i, j)
    <3> SUFFICES ASSUME NEW e \in i .. j, IsElse(q, e), Owned(q, i, e)
                 PROVE  /\ s[e].imm = s[j].address - s[e].address
                        /\ s[i].imm = (s[e].address + 4) - BranchAddress(q, s, i)
      BY DEF PatchedElse
    <3>1. IsElse(p, e) /\ Owned(p, i, e) /\ s[e].address = r[e].address
      BY <1>6
    <3>2. /\ r[e].imm = r[j].address - r[e].address
          /\ r[i].imm = (r[e].address + 4) - BranchAddress(p, r, i)
      BY <1>8, <3>1 DEF PatchedIf, PatchedElse
    <3>3. s[e].imm = r[e].imm
      BY <3>1
    <3> QED BY <1>3, <1>4, <3>1, <3>2, <3>3
  <2>2. WithoutElse(q, i, j) => WithoutElse(p, i, j)
    BY <1>6 DEF WithoutElse
  <2>3. PatchedIf(q, s, i, j)
    BY <1>2, <1>3, <1>4, <1>8, <2>1, <2>2 DEF PatchedIf
  <2> QED BY <2>3 DEF PatchedPair
<1> QED BY <1>7, <1>8 DEF PatchedPair

LEMMA PatchedBehind ==
  ASSUME NEW p, NEW q, NEW n, Extends(p, q, n), NEW r, NEW s, Patched(p, r),
         \A t \in 1 .. n : s[t].address = r[t].address,
         \A t \in 1 .. n : \/ s[t].imm = r[t].imm
                           \/ StillOpen(p, t)
                           \/ IsElse(p, t) /\ \E i \in 1 .. n : StillOpen(p, i) /\ Owned(p, i, t),
         \A i \in 1 .. n : Closed(q, i, n + 1) => PatchedPair(q, s, i, n + 1)
  PROVE  Patched(q, s)
<1>1. n \in Nat /\ Agree(p, q, n) /\ Len(q) = n + 1 /\ n = Len(p)
  BY DEF Extends, Agree
<1>2. SUFFICES ASSUME NEW i \in 1 .. n + 1, NEW j \in 1 .. n + 1, Closed(q, i, j)
               PROVE  PatchedPair(q, s, i, j)
  BY <1>1 DEF Patched
<1>3. i < j /\ q[j].kind \in Enders
  BY <1>1, <1>2, ClosedByEnder
<1>4. i \in 1 .. n
  BY <1>1, <1>3
<1>5. CASE j = n + 1
  BY <1>2, <1>4, <1>5
<1>6. CASE j # n + 1
  <2>1. j \in 1 .. n
    BY <1>1, <1>6
  <2>2. Closed(p, i, j)
    BY <1>1, <1>2, <1>4, <2>1, ClosedBefore
  <2>3. PatchedPair(p, r, i, j)
    BY <1>1, <1>4, <2>1, <2>2 DEF Patched
  <2>4. p[i].kind \in Openers /\ p[j].kind \in Enders
    BY <1>1, <1>3, <2>1, <2>2 DEF Closed, Agree
  <2>5. ~StillOpen(p, i)
    BY <1>1, <1>4, <2>1, <2>2, OpenNotClosed
  <2>6. ~StillOpen(p, j) /\ ~IsElse(p, i) /\ ~IsElse(p, j)
    BY <2>4 DEF StillOpen, IsElse, Openers, Enders
  <2>7. s[i].imm = r[i].imm /\ s[j].imm = r[j].imm
    BY <1>4, <2>1, <2>5, <2>6
  <2>8. ASSUME NEW e \in i .. j, IsElse(p, e), Owned(p, i, e) PROVE s[e].imm = r[e].imm
    <3>1. e \in 1 .. n /\ e \in Int /\ i \in Int
      BY <1>1, <1>4, <2>1
    <3>2. ~StillOpen(p, e)
      BY <2>8 DEF StillOpen, IsElse, Openers
    <3>3. ASSUME NEW l \in 1 .. n, StillOpen(p, l), Owned(p, l, e) PROVE FALSE
      <4>1. l = i
        BY <2>8, <3>1, <3>3, OneOwner
      <4> QED BY <2>5, <3>3, <4>1
    <3> QED BY <3>1, <3>2, <3>3
  <2> QED BY <1>4, <2>1, <2>2, <2>3, <2>7, <2>8, PairKept
<1> QED BY <1>5, <1>6

LEMMA ClosesTop ==
  ASSUME NEW p, NEW q, NEW n, Extends(p, q, n), NEW o, Nested(p, o), Len(o) \in Nat,
         q[n + 1].kind \in Enders, NEW i \in 1 .. n, Closed(q, i, n + 1)
  PROVE  i = o[1].opener
<1>1. n \in Nat /\ Agree(p, q, n) /\ n = Len(p) /\ q[i] = p[i]
  BY DEF Extends, Agree
<1>2. Weight(q[n + 1]) = -1
  BY DEF Weight, Openers, Enders
<1>3. Nest(p, i, n) = 1
  <2>1. Nest(q, i, n + 1) = Nest(p, i, n) + Weight(q[n + 1])
    BY <1>1, NestBehind
  <2>2. Nest(p, i, n) \in Int
    BY <1>1, NestType
  <2> QED BY <1>2, <2>1, <2>2 DEF Closed
<1>4. ASSUME NEW k \in i .. n PROVE Nest(p, i, k) > 0
  <2>1. k \in i .. (n + 1) - 1 /\ k \in Int /\ i \in Int /\ 1 <= i /\ k <= n
    BY <1>1
  <2>2. Nest(q, i, k) = Nest(p, i, k)
    BY <1>1, <2>1, NestBefore
  <2>3. Nest(q, i, k) > 0
    BY <2>1 DEF Closed
  <2> QED BY <2>2, <2>3
<1>5. StillOpen(p, i)
  BY <1>1, <1>4 DEF Closed, StillOpen
<1> QED BY <1>1, <1>3, <1>5, Innermost

AddressesKept(r, s, n) == \A t \in 1 .. n : s[t].address = r[t].address

LEMMA IfClosed ==
  ASSUME NEW p, NEW q, NEW n, Extends(p, q, n), NEW o, Nested(p, o), Len(o) \in Nat \ {0},
         q[n + 1].kind = "endif", NEW i, i = o[1].opener, NEW e, e = o[1].else,
         p[i].kind = "if", NEW r, NEW s, AddressesKept(r, s, n),
         e = 0 => s[i].imm = s[n + 1].address - BranchAddress(p, r, i),
         e # 0 => /\ s[i].imm = (r[e].address + 4) - BranchAddress(p, r, i)
                  /\ s[e].imm = s[n + 1].address - r[e].address
  PROVE  PatchedIf(q, s, i, n + 1)
<1>1. n \in Nat /\ Agree(p, q, n) /\ Len(q) = n + 1 /\ n = Len(p)
  BY DEF Extends, Agree
<1>2. OpenAt(p, i, e, 1)
  BY DEF Nested, OpenKnown
<1>3. i \in 1 .. n /\ HasElse(p, i, e)
  BY <1>1, <1>2 DEF OpenAt
<1>4. q[i] = p[i] /\ s[i].address = r[i].address
  BY <1>1, <1>3 DEF Agree, AddressesKept
<1>5. BranchAddress(q, s, i) = BranchAddress(p, r, i)
  BY <1>4 DEF BranchAddress
<1>6. ASSUME NEW f \in i .. n + 1, IsElse(q, f), Owned(q, i, f)
      PROVE  f \in 1 .. n /\ IsElse(p, f) /\ Owned(p, i, f)
  <2>1. f \in 1 .. n
    BY <1>1, <1>3, <1>6 DEF IsElse
  <2>2. Owned(p, i, f)
    BY <1>1, <1>3, <1>6, <2>1, OwnedBefore
  <2> QED BY <1>1, <1>6, <2>1, <2>2 DEF Agree, IsElse
<1>7. CASE e = 0
  <2>1. WithoutElse(q, i, n + 1)
    BY <1>1, <1>3, <1>6, <1>7 DEF HasElse, WithoutElse
  <2>2. PatchedElse(q, s, i, n + 1)
    BY <2>1 DEF PatchedElse, WithoutElse
  <2> QED BY <1>4, <1>5, <1>7, <2>2 DEF PatchedIf
<1>8. CASE e # 0
  <2>1. e \in 1 .. n /\ IsElse(p, e) /\ Owned(p, i, e)
    BY <1>1, <1>3, <1>8 DEF HasElse
  <2>2. s[e].address = r[e].address
    BY <2>1 DEF AddressesKept
  <2>5. /\ s[e].imm = s[n + 1].address - s[e].address
        /\ s[i].imm = (s[e].address + 4) - BranchAddress(q, s, i)
    <3>1. s[e].imm = s[n + 1].address - s[e].address
      BY <1>8, <2>2
    <3>3. s[i].imm = (s[e].address + 4) - BranchAddress(q, s, i)
      BY <1>5, <1>8, <2>2
    <3> QED BY <3>1, <3>3
  <2>3. PatchedElse(q, s, i, n + 1)
    <3> SUFFICES ASSUME NEW f \in i .. n + 1, IsElse(q, f), Owned(q, i, f) PROVE f = e
      BY <2>5 DEF PatchedElse
    <3>1. f \in 1 .. n /\ IsElse(p, f) /\ Owned(p, i, f)
      BY <1>6
    <3> QED BY <1>1, <1>3, <2>1, <3>1 DEF Nested, OneElse
  <2>4. ~WithoutElse(q, i, n + 1)
    <3>1. IsElse(q, e) /\ Owned(q, i, e)
      BY <1>1, <1>3, <2>1, OwnedBefore DEF Agree, IsElse
    <3>2. e \in i .. n + 1
      BY <1>1, <1>3, <2>1 DEF Owned
    <3> QED BY <3>1, <3>2 DEF WithoutElse
  <2> QED BY <1>4, <2>3, <2>4 DEF PatchedIf
<1> QED BY <1>7, <1>8

LEMMA LoopClosed ==
  ASSUME NEW p, NEW q, NEW n, Extends(p, q, n), NEW i \in 1 .. n,
         p[i].kind = "while", q[n + 1].kind = "endwhile", NEW r, NEW s, AddressesKept(r, s, n),
         s[i].imm = (s[n + 1].address + 4) - BranchAddress(p, r, i),
         s[n + 1].imm = r[i].address - s[n + 1].address
  PROVE  PatchedLoop(q, s, i, n + 1)
<1>1. q[i] = p[i] /\ s[i].address = r[i].address
  BY DEF Extends, Agree, AddressesKept
<1>2. BranchAddress(q, s, i) = BranchAddress(p, r, i)
  BY <1>1 DEF BranchAddress
<1> QED BY <1>1, <1>2 DEF PatchedLoop

-----------------------------------------------------------------------------
(* The invariant of the walk, which the code keeps while it runs.           *)
Ended == phase \in {"run", "returned"}
FunctionEnds == IF Ended THEN 1 ELSE 0
Record == [opener : Nat, else : Nat]
Typed == /\ prog \in Seq(Tokens) /\ ir \in Seq(Entry) /\ lastAddress \in Nat
         /\ open \in Seq(Record) /\ (Ended => open = <<>>)
         /\ phase \in {"walk", "run", "returned", "crashed"}
         /\ Len(ir) = Len(prog) + FunctionEnds
         /\ Len(prog) + Len(open) <= MaxTokens
         /\ lastAddress <= MaxBytes + 4 * (Len(prog) + FunctionEnds)
         /\ Ended => ir[Len(prog) + 1].address + 4 = lastAddress
Built == /\ Typed /\ Nested(prog, open) /\ Addressed(prog, ir, lastAddress)
         /\ Patched(prog, ir)

LEMMA BuiltInit == Init => Built
<1> SUFFICES ASSUME Init PROVE Built
  OBVIOUS
<1>1. prog = <<>> /\ ir = <<>> /\ open = <<>> /\ lastAddress = 0 /\ phase = "walk"
  BY DEF Init
<1>2. Len(prog) = 0 /\ Len(ir) = 0 /\ Len(open) = 0 /\ FunctionEnds = 0 /\ ~Ended
  BY <1>1 DEF FunctionEnds, Ended
<1>3. Typed
  BY <1>1, <1>2, BoundsAssumption DEF Typed
<1>4. Nested(prog, open)
  BY <1>2 DEF Nested, OpenKnown, OpenListed, OthersClosed, EndersClose, ElsesOwned, OneElse
<1>5. AddressIn(ir, lastAddress, 1) = 0
  BY <1>1, <1>2 DEF AddressIn
<1>6. Addressed(prog, ir, lastAddress) /\ Patched(prog, ir)
  BY <1>2, <1>5 DEF Addressed, Consecutive, Ordered, Patched
<1> QED BY <1>3, <1>4, <1>6 DEF Built

LEMMA TokenTyped ==
  ASSUME NEW kind \in Kinds, NEW c \in Condition, NEW words \in Nat,
         ~Uncompilable(c), kind = "op" => words > 0
  PROVE  /\ Token(kind, c, words) \in Tokens
         /\ Token(kind, c, words).kind = kind /\ Token(kind, c, words).cond = c
  BY DEF Token, Tokens

LEMMA PlainToken ==
  ASSUME NEW kind \in Kinds, NEW words \in Nat, kind = "op" => words > 0
  PROVE  /\ Token(kind, NoCondition, words) \in Tokens
         /\ Token(kind, NoCondition, words).kind = kind
         /\ Token(kind, NoCondition, words).cond = NoCondition
<1>1. NoCondition \in Condition
  BY DEF NoCondition, Condition
<1>2. ~Uncompilable(NoCondition)
  BY DEF NoCondition, Uncompilable
<1> QED BY <1>1, <1>2, TokenTyped

LEMMA EmittedShape ==
  ASSUME Typed, phase = "walk", NEW imm \in Int, NEW list, list = Emitted(imm)
  PROVE  /\ list \in Seq(Entry) /\ Len(list) = Len(prog) + 1 /\ Len(prog) \in Nat
         /\ DOMAIN list = 1 .. Len(prog) + 1
         /\ \A t \in 1 .. Len(prog) : list[t] = ir[t]
         /\ list[Len(prog) + 1].address = lastAddress
         /\ list[Len(prog) + 1].imm = imm
<1> DEFINE entry == [address |-> lastAddress, imm |-> imm]
<1>1. entry \in Entry /\ entry.address = lastAddress /\ entry.imm = imm
  BY DEF Typed, Entry
<1>2. ir \in Seq(Entry) /\ Len(ir) = Len(prog) /\ prog \in Seq(Tokens)
  BY DEF Typed, FunctionEnds, Ended
<1>3. list = Append(ir, entry)
  BY DEF Emitted
<1> HIDE DEF entry
<1>4. /\ list \in Seq(Entry) /\ Len(list) = Len(ir) + 1 /\ list[Len(ir) + 1] = entry
      /\ \A k \in 1 .. Len(ir) : list[k] = ir[k]
      /\ DOMAIN list = 1 .. Len(ir) + 1 /\ Len(ir) \in Nat
  BY <1>1, <1>2, <1>3, Appended
<1> QED BY <1>1, <1>2, <1>4

(* What every step of the walk has in common.                               *)
LEMMA Walked ==
  ASSUME Built, phase = "walk", NEW token \in Tokens, NEW list, Walk(token, list),
         list \in Seq(Entry), Len(list) = Len(prog) + 1,
         list[Len(prog) + 1].address = lastAddress,
         \A t \in 1 .. Len(prog) : list[t].address = ir[t].address
  PROVE  /\ Extends(prog, prog', Len(prog)) /\ prog'[Len(prog) + 1] = token
         /\ prog' \in Seq(Tokens) /\ ir' = list /\ phase' = phase
         /\ lastAddress' = lastAddress + Size(token) /\ lastAddress' \in Nat
         /\ Addressed(prog', ir', lastAddress')
         /\ UNCHANGED machine
<1>1. /\ prog \in Seq(Tokens) /\ ir \in Seq(Entry) /\ Len(ir) = Len(prog) /\ lastAddress \in Nat
      /\ Addressed(prog, ir, lastAddress)
  BY DEF Built, Typed, FunctionEnds, Ended
<1>2. /\ prog' = Append(prog, token) /\ ir' = list /\ lastAddress' = lastAddress + Size(token)
      /\ phase' = phase /\ UNCHANGED machine
  BY DEF Walk
<1>3. /\ prog' \in Seq(Tokens) /\ Len(prog') = Len(prog) + 1 /\ prog'[Len(prog) + 1] = token
      /\ \A k \in 1 .. Len(prog) : prog'[k] = prog[k]
      /\ Len(prog) \in Nat
  BY <1>1, <1>2, Appended
<1>4. Extends(prog, prog', Len(prog))
  BY <1>3 DEF Extends, Agree
<1>5. Addressed(prog', list, lastAddress + Size(prog'[Len(prog) + 1]))
  BY <1>1, <1>3, <1>4, AddressedBehind
<1>6. Size(token) \in Nat
  BY SizeType
<1> QED BY <1>1, <1>2, <1>3, <1>4, <1>5, <1>6

(* A step of the walk that closes nothing leaves the displacements.         *)
LEMMA PatchedBesides ==
  ASSUME NEW p, NEW q, NEW n, Extends(p, q, n), NEW r, NEW s, Patched(p, r),
         \A t \in 1 .. n : s[t] = r[t], q[n + 1].kind \notin Enders
  PROVE  Patched(q, s)
<1>1. n \in Nat
  BY DEF Extends, Agree
<1>2. ASSUME NEW i \in 1 .. n PROVE ~Closed(q, i, n + 1)
  <2>1. i \in Int /\ n + 1 \in Int
    BY <1>1
  <2> QED BY <2>1, ClosedByEnder
<1> QED BY <1>2, PatchedBehind

(* The rest of a step's invariant, but for the list of open constructs.     *)
LEMMA BuiltBehind ==
  ASSUME Built, phase = "walk", NEW token \in Tokens, NEW list, Walk(token, list),
         list \in Seq(Entry), Len(list) = Len(prog) + 1,
         list[Len(prog) + 1].address = lastAddress,
         \A t \in 1 .. Len(prog) : list[t].address = ir[t].address,
         open' \in Seq(Record), Len(prog) + 1 + Len(open') <= MaxTokens,
         \/ lastAddress + Size(token) <= MaxBytes
         \/ Size(token) = 4,
         Nested(prog', open'), Patched(prog', ir')
  PROVE  Built'
<1>1. /\ Extends(prog, prog', Len(prog)) /\ prog' \in Seq(Tokens) /\ ir' = list /\ phase' = phase
      /\ lastAddress' = lastAddress + Size(token) /\ lastAddress' \in Nat
      /\ Addressed(prog', ir', lastAddress')
  BY Walked
<1>2. /\ FunctionEnds = 0 /\ FunctionEnds' = 0 /\ ~Ended' /\ phase' = "walk"
  BY <1>1 DEF FunctionEnds, Ended
<1>3. Len(prog') = Len(prog) + 1 /\ Len(prog) \in Nat
  BY <1>1 DEF Extends, Agree
<1>4. lastAddress' <= MaxBytes + 4 * (Len(prog') + FunctionEnds')
  <2>1. lastAddress <= MaxBytes + 4 * Len(prog) /\ lastAddress \in Nat
    BY <1>2, <1>3 DEF Built, Typed
  <2>2. MaxBytes \in Nat /\ Size(token) \in Nat
    BY BoundsAssumption, SizeType
  <2> QED BY <1>1, <1>2, <1>3, <2>1, <2>2
<1>5. Typed'
  BY <1>1, <1>2, <1>3, <1>4 DEF Typed
<1> QED BY <1>1, <1>5 DEF Built

LEMMA BuiltBesides ==
  ASSUME Built, phase = "walk", NEW token \in Tokens, Weight(token) = 0, ~(token.kind = "else"),
         Room(Size(token), 0), Walk(token, Emitted(0)), UNCHANGED open
  PROVE  Built'
<1> DEFINE list == Emitted(0)
<1>1. Typed /\ Nested(prog, open) /\ Patched(prog, ir)
  BY DEF Built
<1>2. /\ list \in Seq(Entry) /\ Len(list) = Len(prog) + 1 /\ Len(prog) \in Nat
      /\ \A t \in 1 .. Len(prog) : list[t] = ir[t]
      /\ list[Len(prog) + 1].address = lastAddress
  BY <1>1, EmittedShape
<1> HIDE DEF list
<1>3. /\ Extends(prog, prog', Len(prog)) /\ prog'[Len(prog) + 1] = token /\ ir' = list
  BY <1>2, Walked DEF list
<1>4. Nested(prog', open')
  <2>1. Nested(prog', open)
    BY <1>1, <1>3, NestedBesides DEF IsElse
  <2> QED BY <2>1
<1>5. Patched(prog', ir')
  <2>1. prog'[Len(prog) + 1].kind \notin Enders
    BY <1>3 DEF Weight, Openers, Enders
  <2>2. Patched(prog', list)
    BY <1>1, <1>2, <1>3, <2>1, PatchedBesides
  <2> QED BY <1>3, <2>2
<1>6. open' \in Seq(Record) /\ Len(prog) + 1 + Len(open') <= MaxTokens
  <2>1. open \in Seq(Record) /\ Len(open) \in Nat /\ MaxTokens \in Nat
    BY <1>1, BoundsAssumption DEF Typed
  <2>2. Len(prog) + Len(open) + 1 + 0 <= MaxTokens
    BY DEF Room
  <2> QED BY <1>2, <2>1, <2>2
<1>7. lastAddress + Size(token) <= MaxBytes
  BY DEF Room
<1> QED BY <1>2, <1>4, <1>5, <1>6, <1>7, BuiltBehind DEF list

LEMMA BuiltStraight ==
  ASSUME Built, NEW n \in BlockWords, Straight(n)
  PROVE  Built'
<1> DEFINE token == Token("op", NoCondition, n)
<1>1. n \in Nat /\ n > 0
  BY BlockWordsAssumption
<1>2. token \in Tokens /\ token.kind = "op"
  BY <1>1, PlainToken DEF Kinds
<1>3. phase = "walk" /\ Room(Size(token), 0) /\ Walk(token, Emitted(0)) /\ UNCHANGED open
  BY DEF Straight, Room
<1> HIDE DEF token
<1> QED BY <1>2, <1>3, BuiltBesides DEF Weight, Openers, Enders

LEMMA BuiltReturn ==
  ASSUME Built, Return
  PROVE  Built'
<1> DEFINE token == Token("return", NoCondition, 0)
<1>1. token \in Tokens /\ token.kind = "return"
  BY PlainToken DEF Kinds
<1>2. phase = "walk" /\ Room(Size(token), 0) /\ Walk(token, Emitted(0)) /\ UNCHANGED open
  BY DEF Return, Room
<1> HIDE DEF token
<1> QED BY <1>1, <1>2, BuiltBesides DEF Weight, Openers, Enders

LEMMA BuiltOpen ==
  ASSUME Built, NEW kind \in {"if", "while"}, NEW c \in Conditions, Open(kind, c)
  PROVE  Built'
<1> DEFINE token == Token(kind, c, 0)
           list == Emitted(0)
           record == [opener |-> Len(prog) + 1, else |-> 0]
<1>1. token \in Tokens /\ token.kind = kind
  <2>1. c \in Condition /\ kind \in Kinds /\ 0 \in Nat /\ (kind = "op" => 0 > 0)
    BY ConditionsAssumption DEF Kinds, Openers
  <2>2. ~Uncompilable(c)
    BY DEF Open
  <2> QED BY <2>1, <2>2, TokenTyped
<1>2. phase = "walk" /\ Room(Size(token), 1) /\ Walk(token, list) /\ open' = <<record>> \o open
  BY DEF Open, Room
<1>3. Typed /\ Nested(prog, open) /\ Patched(prog, ir)
  BY DEF Built
<1>4. /\ list \in Seq(Entry) /\ Len(list) = Len(prog) + 1 /\ Len(prog) \in Nat
      /\ \A t \in 1 .. Len(prog) : list[t] = ir[t]
      /\ list[Len(prog) + 1].address = lastAddress
  BY <1>2, <1>3, EmittedShape
<1> HIDE DEF list, token
<1>5. /\ Extends(prog, prog', Len(prog)) /\ prog'[Len(prog) + 1] = token /\ ir' = list
  BY <1>1, <1>2, <1>4, Walked
<1>6. record \in Record /\ record.opener = Len(prog) + 1 /\ record.else = 0
  BY <1>4 DEF Record
<1>7. open \in Seq(Record) /\ Len(open) \in Nat
  BY <1>3 DEF Typed
<1> HIDE DEF record
<1>8. /\ open' \in Seq(Record) /\ Len(open') = Len(open) + 1 /\ open'[1] = record
      /\ \A k \in 1 .. Len(open) : open'[k + 1] = open[k]
  BY <1>2, <1>6, <1>7, Before
<1>9. token.kind \in Openers /\ token.kind \notin Enders
  BY <1>1 DEF Openers, Enders
<1>10. Nested(prog', open')
  <2>1. prog'[Len(prog) + 1].kind \in Openers
    BY <1>5, <1>9
  <2>2. open'[1].opener = Len(prog) + 1 /\ open'[1].else = 0
    BY <1>6, <1>8
  <2> DEFINE w == open'
  <2>3. /\ Len(w) = Len(open) + 1 /\ w[1].opener = Len(prog) + 1 /\ w[1].else = 0
        /\ \A k \in 1 .. Len(open) : w[k + 1] = open[k]
    BY <1>8, <2>2
  <2>4. Len(open) \in Nat /\ Nested(prog, open) /\ Extends(prog, prog', Len(prog))
    BY <1>3, <1>5, <1>7
  <2> HIDE DEF w
  <2>5. Nested(prog', w)
    BY <2>1, <2>3, <2>4, NestedOpen
  <2> QED BY <2>5 DEF w
<1>11. Patched(prog', list)
  BY <1>3, <1>4, <1>5, <1>9, PatchedBesides
<1>12. Len(prog) + 1 + Len(open') <= MaxTokens
  <2>1. Len(prog) + Len(open) + 1 + 1 <= MaxTokens /\ MaxTokens \in Nat
    BY <1>2, BoundsAssumption DEF Room
  <2> QED BY <1>4, <1>7, <1>8, <2>1
<1>13. lastAddress + Size(token) <= MaxBytes
  BY <1>2 DEF Room
<1> QED BY <1>1, <1>2, <1>4, <1>5, <1>8, <1>10, <1>11, <1>12, <1>13, BuiltBehind

(* The innermost open construct, in the middle of a body.                   *)
LEMMA Top ==
  ASSUME Built, phase = "walk", open # <<>>, NEW top, top = Head(open)
  PROVE  /\ open \in Seq(Record) /\ Len(open) \in Nat \ {0} /\ top = open[1] /\ top \in Record
         /\ top.opener \in 1 .. Len(prog) /\ top.else \in 0 .. Len(prog)
         /\ StillOpen(prog, top.opener) /\ HasElse(prog, top.opener, top.else)
         /\ Nest(prog, top.opener, Len(prog)) = 1
         /\ Len(prog) \in Nat /\ Len(ir) = Len(prog) /\ ir \in Seq(Entry)
<1>1. open \in Seq(Record) /\ prog \in Seq(Tokens) /\ Len(ir) = Len(prog) /\ ir \in Seq(Entry)
  BY DEF Built, Typed, FunctionEnds, Ended
<1>2. Len(open) \in Nat \ {0} /\ top = open[1] /\ top \in Record
  BY <1>1
<1>3. OpenAt(prog, open[1].opener, open[1].else, 1)
  BY <1>2 DEF Built, Nested, OpenKnown
<1>4. top.else \in 0 .. Len(prog)
  <2>1. top.else = 0 \/ top.else \in 1 .. Len(prog)
    BY <1>2, <1>3 DEF OpenAt, HasElse
  <2> QED BY <1>1, <2>1
<1> QED BY <1>1, <1>2, <1>3, <1>4 DEF OpenAt

LEMMA RecordChanged ==
  ASSUME NEW r \in Record, NEW e \in Nat, NEW w, w = [r EXCEPT !.else = e]
  PROVE  w \in Record /\ w.opener = r.opener /\ w.else = e
  BY DEF Record

LEMMA BuiltElse ==
  ASSUME Built, Else
  PROVE  Built'
<1> DEFINE token == Token("else", NoCondition, 0)
           list == Emitted(4)
           top == Head(open)
           record == [top EXCEPT !.else = Len(prog) + 1]
           rest == Tail(open)
<1>1. token \in Tokens /\ token.kind = "else"
  BY PlainToken DEF Kinds
<1>2. /\ phase = "walk" /\ Room(Size(token), 0) /\ Walk(token, list) /\ open # <<>>
      /\ open' = <<record>> \o rest /\ Kind(top) = "if" /\ top.else = 0
  BY DEF Else, Room
<1>3. Typed /\ Nested(prog, open) /\ Patched(prog, ir)
  BY DEF Built
<1>4. /\ list \in Seq(Entry) /\ Len(list) = Len(prog) + 1 /\ Len(prog) \in Nat
      /\ \A t \in 1 .. Len(prog) : list[t] = ir[t]
      /\ list[Len(prog) + 1].address = lastAddress
  BY <1>2, <1>3, EmittedShape
<1>5. /\ open \in Seq(Record) /\ Len(open) \in Nat \ {0} /\ top = open[1] /\ top \in Record
  BY <1>2, Top
<1>6. record \in Record /\ record.opener = top.opener /\ record.else = Len(prog) + 1
  BY <1>4, <1>5, RecordChanged
<1>7. /\ rest \in Seq(Record) /\ Len(rest) = Len(open) - 1
      /\ \A k \in 1 .. Len(open) - 1 : rest[k] = open[k + 1]
  BY <1>5
<1>8. prog[top.opener].kind = "if"
  BY <1>2 DEF Kind
<1> HIDE DEF list, token, record, rest, top
<1>9. /\ Extends(prog, prog', Len(prog)) /\ prog'[Len(prog) + 1] = token /\ ir' = list
  BY <1>1, <1>2, <1>4, Walked
<1>10. /\ open' \in Seq(Record) /\ Len(open') = Len(rest) + 1 /\ open'[1] = record
       /\ \A k \in 1 .. Len(rest) : open'[k + 1] = rest[k]
  BY <1>2, <1>6, <1>7, Before
<1>11. Len(open') = Len(open) /\ \A k \in 2 .. Len(open) : open'[k] = open[k]
  <2>1. Len(open') = Len(open)
    BY <1>5, <1>7, <1>10
  <2>2. ASSUME NEW k \in 2 .. Len(open) PROVE open'[k] = open[k]
    <3>1. k - 1 \in 1 .. Len(rest) /\ (k - 1) + 1 = k /\ k - 1 \in 1 .. Len(open) - 1
      BY <1>5, <1>7
    <3> QED BY <1>7, <1>10, <3>1
  <2> QED BY <2>1, <2>2
<1>12. Nested(prog', open')
  <2>1. open'[1].opener = open[1].opener /\ open'[1].else = Len(prog) + 1
    BY <1>5, <1>6, <1>10
  <2>2. IsElse(prog', Len(prog) + 1) /\ prog[open[1].opener].kind = "if" /\ open[1].else = 0
    BY <1>1, <1>2, <1>5, <1>8, <1>9 DEF IsElse
  <2> QED BY <1>3, <1>5, <1>9, <1>11, <2>1, <2>2, NestedElse
<1>13. Patched(prog', list)
  <2>1. prog'[Len(prog) + 1].kind \notin Enders
    BY <1>1, <1>9 DEF Enders
  <2> QED BY <1>3, <1>4, <1>9, <2>1, PatchedBesides
<1>14. Len(prog) + 1 + Len(open') <= MaxTokens
  <2>1. Len(prog) + Len(open) + 1 + 0 <= MaxTokens /\ MaxTokens \in Nat
    BY <1>2, BoundsAssumption DEF Room
  <2> QED BY <1>4, <1>5, <1>11, <2>1
<1>15. lastAddress + Size(token) <= MaxBytes
  BY <1>2 DEF Room
<1> QED BY <1>1, <1>2, <1>4, <1>9, <1>10, <1>12, <1>13, <1>14, <1>15, BuiltBehind

LEMMA EntryChanged ==
  ASSUME NEW r \in Entry, NEW x \in Int, NEW w, w = [r EXCEPT !.imm = x]
  PROVE  w \in Entry /\ w.address = r.address /\ w.imm = x
  BY DEF Entry

(* The entries with those of two tokens patched.                            *)
Patches(list, i, e, x, last) ==
  [t \in DOMAIN list |-> IF t = i THEN [list[t] EXCEPT !.imm = x]
                         ELSE IF t = e THEN [list[t] EXCEPT !.imm = last - list[t].address]
                         ELSE list[t]]

LEMMA IfPatch ==
  ASSUME NEW list \in Seq(Entry), NEW m \in Nat, m = Len(list), NEW i \in 1 .. m, NEW e \in 0 .. m,
         NEW x \in Int, NEW last \in Int, NEW g, g = Patches(list, i, e, x, last)
  PROVE  /\ g \in Seq(Entry) /\ Len(g) = m
         /\ \A t \in 1 .. m : g[t].address = list[t].address
         /\ \A t \in 1 .. m : t # i /\ t # e => g[t] = list[t]
         /\ g[i].imm = x
         /\ e # 0 /\ e # i => g[e].imm = last - list[e].address
<1>1. DOMAIN list = 1 .. m /\ \A t \in 1 .. m : list[t] \in Entry
  OBVIOUS
<1>0. g = [t \in DOMAIN list |-> IF t = i THEN [list[t] EXCEPT !.imm = x]
                                ELSE IF t = e THEN [list[t] EXCEPT !.imm = last - list[t].address]
                                ELSE list[t]]
  BY DEF Patches
<1>2. ASSUME NEW t \in 1 .. m
      PROVE  /\ g[t] \in Entry /\ g[t].address = list[t].address
             /\ t = i => g[t].imm = x
             /\ t = e /\ t # i => g[t].imm = last - list[t].address
             /\ t # i /\ t # e => g[t] = list[t]
  <2>1. list[t] \in Entry /\ last - list[t].address \in Int
    BY <1>1 DEF Entry
  <2>2. CASE t = i
    <3>1. g[t] = [list[t] EXCEPT !.imm = x]
      BY <1>0, <1>1, <2>2
    <3> QED BY <2>1, <2>2, <3>1, EntryChanged
  <2>3. CASE t # i /\ t = e
    <3>1. g[t] = [list[t] EXCEPT !.imm = last - list[t].address]
      BY <1>0, <1>1, <2>3
    <3> QED BY <2>1, <2>3, <3>1, EntryChanged
  <2>4. CASE t # i /\ t # e
    BY <1>0, <1>1, <2>1, <2>4
  <2> QED BY <2>2, <2>3, <2>4
<1>3. DOMAIN g = 1 .. m /\ g = [t \in 1 .. m |-> g[t]]
  BY <1>0, <1>1
<1>4. g \in [1 .. m -> Entry]
  BY <1>2, <1>3
<1>5. g \in Seq(Entry)
  BY <1>4, SeqDef
<1>6. g \in Seq(Entry) /\ Len(g) = m
  BY <1>3, <1>5
<1> QED BY <1>2, <1>6

LEMMA EndSize ==
  ASSUME NEW token \in Tokens, token.kind \in {"endif", "endwhile"}
  PROVE  Size(token) = 4
<1> DEFINE len == Len(Code(token, 0))
<1>1. token.kind # "op" /\ token.kind \notin Openers /\ token.kind \notin {"else", "return"}
  BY DEF Openers
<1>2. len = 1
  BY <1>1, CodeLength
<1>3. Size(token) = 4 * len
  BY <1>1, CodeSize
<1> HIDE DEF len
<1> QED BY <1>2, <1>3

LEMMA BuiltEndIf ==
  ASSUME Built, EndIf
  PROVE  Built'
<1> DEFINE token == Token("endif", NoCondition, 0)
           list == Emitted(0)
           top == Head(open)
           n == Len(prog)
           i == top.opener
           e == top.else
           endif == IF top.else = 0 THEN lastAddress ELSE ir[top.else].address + 4
           x == endif - TestAddress(top.opener)
           patched ==
             [t \in DOMAIN list |->
                IF t = top.opener THEN [list[t] EXCEPT !.imm = x]
                ELSE IF t = top.else THEN [list[t] EXCEPT !.imm = lastAddress - list[t].address]
                ELSE list[t]]
<1>1. token \in Tokens /\ token.kind = "endif"
  BY PlainToken DEF Kinds, Enders
<1>2. /\ phase = "walk" /\ open # <<>> /\ Walk(token, patched)
      /\ open' = Tail(open) /\ Kind(top) = "if"
  BY DEF EndIf
<1>3. Typed /\ Nested(prog, open) /\ Patched(prog, ir)
  BY DEF Built
<1>4. /\ list \in Seq(Entry) /\ Len(list) = n + 1 /\ n \in Nat
      /\ \A t \in 1 .. n : list[t] = ir[t]
      /\ list[n + 1].address = lastAddress
  BY <1>2, <1>3, EmittedShape
<1>5. /\ open \in Seq(Record) /\ Len(open) \in Nat \ {0} /\ top = open[1] /\ top \in Record
      /\ i \in 1 .. n /\ e \in 0 .. n
      /\ StillOpen(prog, i) /\ HasElse(prog, i, e)
      /\ Len(ir) = n /\ ir \in Seq(Entry)
  BY <1>2, Top
<1>6. prog[i].kind = "if" /\ lastAddress \in Nat /\ prog \in Seq(Tokens)
  BY <1>2, <1>3 DEF Kind, Typed
<1>7. /\ open' \in Seq(Record) /\ Len(open') = Len(open) - 1
      /\ \A k \in 1 .. Len(open') : open'[k] = open[k + 1]
  BY <1>2, <1>5
<1>8. x \in Int /\ (e = 0 => endif = lastAddress) /\ (e # 0 => endif = ir[e].address + 4)
      /\ x = endif - BranchAddress(prog, ir, i)
  <2>1. ir[i] \in Entry /\ prog[i] \in Tokens
    BY <1>5, <1>6
  <2>2. Size(prog[i]) \in Nat /\ ir[i].address \in Nat
    BY <2>1, SizeType DEF Entry
  <2>3. TestAddress(i) = BranchAddress(prog, ir, i) /\ TestAddress(i) \in Int
    BY <2>2 DEF TestAddress, BranchAddress
  <2>4. ASSUME e # 0 PROVE ir[e].address \in Nat
    <3>1. ir[e] \in Entry
      BY <1>5, <2>4
    <3> QED BY <3>1 DEF Entry
  <2>5. endif \in Int
    BY <1>6, <2>4
  <2>6. x = endif - BranchAddress(prog, ir, i) /\ x \in Int
    BY <2>3, <2>5
  <2> QED BY <2>6
<1> HIDE DEF token, list, endif, x
<1>9. patched = Patches(list, i, e, x, lastAddress)
  BY DEF Patches
<1>19. i = open[1].opener /\ e = open[1].else
  BY <1>5
<1> HIDE DEF patched, top, i, e
<1>10. i \in 1 .. n + 1 /\ e \in 0 .. n + 1 /\ n + 1 \in Nat /\ lastAddress \in Int
  BY <1>4, <1>5, <1>6
<1>11. /\ patched \in Seq(Entry) /\ Len(patched) = n + 1
       /\ \A t \in 1 .. n + 1 : patched[t].address = list[t].address
       /\ \A t \in 1 .. n + 1 : t # i /\ t # e => patched[t] = list[t]
       /\ patched[i].imm = x
       /\ e # 0 /\ e # i => patched[e].imm = lastAddress - list[e].address
  BY <1>4, <1>8, <1>9, <1>10, IfPatch
<1>12. /\ \A t \in 1 .. n : patched[t].address = ir[t].address
       /\ patched[n + 1].address = lastAddress
       /\ \A t \in 1 .. n : t # i /\ t # e => patched[t].imm = ir[t].imm
  BY <1>4, <1>11
<1>13. Extends(prog, prog', n) /\ prog'[n + 1] = token /\ ir' = patched
  BY <1>1, <1>2, <1>11, <1>12, Walked
<1>14. Nested(prog', open')
  <2>1. prog'[n + 1].kind \in Enders
    BY <1>1, <1>13 DEF Enders
  <2>2. Nested(prog, open) /\ Len(open) \in Nat \ {0} /\ Extends(prog, prog', n)
    BY <1>3, <1>5, <1>13
  <2>3. Nested(prog', Tail(open))
    BY <1>5, <2>1, <2>2, NestedEnd
  <2> QED BY <1>2, <2>3
<1>15. e # 0 => e \in 1 .. n /\ IsElse(prog, e) /\ Owned(prog, i, e) /\ e # i
  BY <1>5, <1>6 DEF HasElse, IsElse
<1>16. PatchedIf(prog', patched, i, n + 1)
  <2>1. e # 0 => patched[e].imm = lastAddress - ir[e].address
    BY <1>4, <1>11, <1>15
  <2>2. prog'[n + 1].kind = "endif"
    BY <1>1, <1>13
  <2>3. patched[i].imm = endif - BranchAddress(prog, ir, i)
    BY <1>8, <1>11
  <2>4. Nested(prog, open) /\ Len(open) \in Nat \ {0} /\ Extends(prog, prog', n)
    BY <1>3, <1>5, <1>13
  <2>5. AddressesKept(ir, patched, n) /\ patched[n + 1].address = lastAddress
    BY <1>12 DEF AddressesKept
  <2>6. e = 0 => patched[i].imm = patched[n + 1].address - BranchAddress(prog, ir, i)
    BY <1>8, <2>3, <2>5
  <2>7. e # 0 => /\ patched[i].imm = (ir[e].address + 4) - BranchAddress(prog, ir, i)
                 /\ patched[e].imm = patched[n + 1].address - ir[e].address
    BY <1>8, <2>1, <2>3, <2>5
  <2> QED BY <1>6, <1>19, <2>2, <2>4, <2>5, <2>6, <2>7, IfClosed
<1>17. Patched(prog', patched)
  <2>1. ASSUME NEW t \in 1 .. n
        PROVE  \/ patched[t].imm = ir[t].imm
               \/ StillOpen(prog, t)
               \/ IsElse(prog, t) /\ \E l \in 1 .. n : StillOpen(prog, l) /\ Owned(prog, l, t)
    BY <1>5, <1>12, <1>15
  <2>2. ASSUME NEW l \in 1 .. n, Closed(prog', l, n + 1)
        PROVE  PatchedPair(prog', patched, l, n + 1)
    <3>1. prog'[n + 1].kind \in Enders
      BY <1>1, <1>13 DEF Enders
    <3>2. l = i
      BY <1>3, <1>5, <1>13, <1>19, <2>2, <3>1, ClosesTop
    <3> QED BY <1>16, <3>2 DEF PatchedPair
  <2> QED BY <1>3, <1>12, <1>13, <2>1, <2>2, PatchedBehind
<1>18. Len(prog) + 1 + Len(open') <= MaxTokens
  <2>1. Len(prog) + Len(open) <= MaxTokens /\ MaxTokens \in Nat
    BY <1>3, BoundsAssumption DEF Typed
  <2> QED BY <1>4, <1>5, <1>7, <2>1
<1>20. Size(token) = 4
  BY <1>1, EndSize
<1> QED BY <1>1, <1>2, <1>7, <1>11, <1>12, <1>13, <1>14, <1>17, <1>18, <1>20, BuiltBehind

LEMMA BuiltEndWhile ==
  ASSUME Built, EndWhile
  PROVE  Built'
<1> DEFINE token == Token("endwhile", NoCondition, 0)
           top == Head(open)
           n == Len(prog)
           i == top.opener
           back == ir[i].address - lastAddress
           list == Emitted(back)
           x == AfterLoop(lastAddress) - TestAddress(i)
           patched ==
             [t \in DOMAIN list |-> IF t = i THEN [list[t] EXCEPT !.imm = x] ELSE list[t]]
<1>1. token \in Tokens /\ token.kind = "endwhile"
  BY PlainToken DEF Kinds, Enders
<1>2. /\ phase = "walk" /\ open # <<>> /\ Walk(token, patched)
      /\ open' = Tail(open) /\ Kind(top) = "while"
  BY DEF EndWhile
<1>3. Typed /\ Nested(prog, open) /\ Patched(prog, ir)
  BY DEF Built
<1>5. /\ open \in Seq(Record) /\ Len(open) \in Nat \ {0} /\ top = open[1] /\ top \in Record
      /\ i \in 1 .. n /\ StillOpen(prog, i) /\ n \in Nat
      /\ Len(ir) = n /\ ir \in Seq(Entry)
  BY <1>2, Top
<1>6. prog[i].kind = "while" /\ lastAddress \in Nat /\ prog \in Seq(Tokens)
  BY <1>2, <1>3 DEF Kind, Typed
<1>7. /\ open' \in Seq(Record) /\ Len(open') = Len(open) - 1
  <2>1. open' = Tail(open) /\ open \in Seq(Record) /\ open # <<>>
    BY <1>2, <1>5
  <2> HIDE DEF token, top, i, back, list, x, patched
  <2> QED BY <2>1
<1>8. ir[i].address \in Nat /\ x \in Int /\ x = (lastAddress + 4) - BranchAddress(prog, ir, i)
  <2>1. ir[i] \in Entry /\ prog[i] \in Tokens
    BY <1>5, <1>6
  <2>2. Size(prog[i]) \in Nat /\ ir[i].address \in Nat
    BY <2>1, SizeType DEF Entry
  <2>3. TestAddress(i) = BranchAddress(prog, ir, i) /\ TestAddress(i) \in Int
    BY <2>2 DEF TestAddress, BranchAddress
  <2> QED BY <1>6, <2>2, <2>3 DEF AfterLoop
<1>9. back \in Int
  BY <1>6, <1>8
<1>4. /\ list \in Seq(Entry) /\ Len(list) = n + 1 /\ DOMAIN list = 1 .. n + 1
      /\ \A t \in 1 .. n : list[t] = ir[t]
      /\ list[n + 1].address = lastAddress /\ list[n + 1].imm = back
  <2>1. phase = "walk" /\ Typed /\ back \in Int
    BY <1>2, <1>3, <1>9
  <2> HIDE DEF back, token, top, x, patched
  <2> QED BY <2>1, EmittedShape
<1> HIDE DEF token, list, x
<1>10. patched = Patches(list, i, 0, x, lastAddress)
  <2>1. \A t \in DOMAIN list : t # 0
    BY <1>4
  <2> QED BY <2>1 DEF Patches
<1>11. i = open[1].opener
  BY <1>5
<1> HIDE DEF patched, top, i, back
<1>12. i \in 1 .. n + 1 /\ 0 \in 0 .. n + 1 /\ n + 1 \in Nat /\ lastAddress \in Int
  BY <1>5, <1>6
<1>13. /\ patched \in Seq(Entry) /\ Len(patched) = n + 1
       /\ \A t \in 1 .. n + 1 : patched[t].address = list[t].address
       /\ \A t \in 1 .. n + 1 : t # i /\ t # 0 => patched[t] = list[t]
       /\ patched[i].imm = x
  BY <1>4, <1>8, <1>10, <1>12, IfPatch
<1>14. /\ \A t \in 1 .. n : patched[t].address = ir[t].address
       /\ patched[n + 1].address = lastAddress
       /\ \A t \in 1 .. n : t # i => patched[t].imm = ir[t].imm
       /\ patched[n + 1].imm = back
  <2>1. n + 1 # i /\ n + 1 # 0 /\ n + 1 \in 1 .. n + 1
    BY <1>5
  <2>2. patched[n + 1] = list[n + 1]
    BY <1>13, <2>1
  <2>3. \A t \in 1 .. n : t # i => patched[t].imm = ir[t].imm
    BY <1>4, <1>5, <1>13
  <2> QED BY <1>4, <1>5, <1>13, <2>2, <2>3
<1>15. Extends(prog, prog', n) /\ prog'[n + 1] = token /\ ir' = patched
  BY <1>1, <1>2, <1>13, <1>14, Walked
<1>16. prog'[n + 1].kind = "endwhile" /\ prog'[n + 1].kind \in Enders
  BY <1>1, <1>15 DEF Enders
<1>17. Nested(prog', open')
  <2>1. Nested(prog, open) /\ Len(open) \in Nat \ {0} /\ Extends(prog, prog', n)
    BY <1>3, <1>5, <1>15
  <2>2. Nested(prog', Tail(open))
    BY <1>5, <1>16, <2>1, NestedEnd
  <2> QED BY <1>2, <2>2
<1>18. PatchedLoop(prog', patched, i, n + 1)
  <2>1. AddressesKept(ir, patched, n) /\ i \in 1 .. n /\ Extends(prog, prog', n)
    BY <1>5, <1>14, <1>15 DEF AddressesKept
  <2>2. patched[i].imm = (patched[n + 1].address + 4) - BranchAddress(prog, ir, i)
    BY <1>8, <1>13, <1>14
  <2>3. patched[n + 1].imm = ir[i].address - patched[n + 1].address
    BY <1>14 DEF back
  <2> QED BY <1>6, <1>16, <2>1, <2>2, <2>3, LoopClosed
<1>19. Patched(prog', patched)
  <2>1. ASSUME NEW t \in 1 .. n
        PROVE  \/ patched[t].imm = ir[t].imm
               \/ StillOpen(prog, t)
               \/ IsElse(prog, t) /\ \E l \in 1 .. n : StillOpen(prog, l) /\ Owned(prog, l, t)
    BY <1>5, <1>14
  <2>2. ASSUME NEW l \in 1 .. n, Closed(prog', l, n + 1)
        PROVE  PatchedPair(prog', patched, l, n + 1)
    <3>1. l = i
      BY <1>3, <1>5, <1>11, <1>15, <1>16, <2>2, ClosesTop
    <3> QED BY <1>18, <3>1 DEF PatchedPair
  <2> QED BY <1>3, <1>14, <1>15, <2>1, <2>2, PatchedBehind
<1>20. Len(prog) + 1 + Len(open') <= MaxTokens
  <2>1. Len(prog) + Len(open) <= MaxTokens /\ MaxTokens \in Nat
    BY <1>3, BoundsAssumption DEF Typed
  <2> QED BY <1>5, <1>7, <2>1
<1>21. Size(token) = 4
  BY <1>1, EndSize
<1> QED BY <1>1, <1>2, <1>7, <1>13, <1>14, <1>15, <1>17, <1>19, <1>20, <1>21, BuiltBehind

(* The code does not change any more once functionEnd is behind it.         *)
LEMMA BuiltEndFunction ==
  ASSUME Built, EndFunction
  PROVE  Built'
<1> DEFINE n == Len(prog)
<1>1. /\ phase = "walk" /\ open = <<>> /\ ir' = Emitted(0) /\ lastAddress' = lastAddress + 4
      /\ phase' = "run" /\ prog' = prog /\ open' = open
  BY DEF EndFunction
<1>2. Typed /\ Nested(prog, open) /\ Patched(prog, ir) /\ Addressed(prog, ir, lastAddress)
  BY DEF Built
<1>3. /\ ir' \in Seq(Entry) /\ Len(ir') = n + 1 /\ n \in Nat
      /\ \A t \in 1 .. n : ir'[t] = ir[t]
      /\ ir'[n + 1].address = lastAddress
  BY <1>1, <1>2, EmittedShape
<1>4. /\ Len(ir) = n /\ FunctionEnds = 0 /\ FunctionEnds' = 1 /\ ir \in Seq(Entry)
      /\ lastAddress \in Nat /\ lastAddress <= MaxBytes + 4 * n /\ MaxBytes \in Nat
  BY <1>1, <1>2, BoundsAssumption DEF Typed, FunctionEnds, Ended
<1>5. Typed'
  <2>1. lastAddress' \in Nat /\ lastAddress' <= MaxBytes + 4 * (n + 1)
    BY <1>1, <1>3, <1>4
  <2>2. ir'[Len(prog') + 1].address + 4 = lastAddress'
    BY <1>1, <1>3
  <2> QED BY <1>1, <1>2, <1>3, <1>4, <2>1, <2>2 DEF Typed
<1>6. \A t \in 1 .. n + 1 : AddressIn(ir', lastAddress', t) = AddressIn(ir, lastAddress, t)
  <2>1. DOMAIN ir = 1 .. n /\ DOMAIN ir' = 1 .. n + 1
    BY <1>3, <1>4
  <2> QED BY <1>3, <2>1 DEF AddressIn
<1>7. Addressed(prog, ir', lastAddress')
  <2>1. AddressIn(ir', lastAddress', 1) = 0
    BY <1>2, <1>3, <1>6 DEF Addressed
  <2>2. Consecutive(prog, ir', lastAddress')
    <3> SUFFICES ASSUME NEW t \in 1 .. n
                 PROVE  AddressIn(ir', lastAddress', t + 1) = ir'[t].address + Size(prog[t])
      BY DEF Consecutive
    <3>1. AddressIn(ir, lastAddress, t + 1) = ir[t].address + Size(prog[t])
      BY <1>2 DEF Addressed, Consecutive
    <3>2. t + 1 \in 1 .. n + 1
      BY <1>3
    <3> QED BY <1>3, <1>6, <3>1, <3>2
  <2>3. Ordered(prog, ir', lastAddress')
    BY <1>2, <1>3, <1>6 DEF Addressed, Ordered
  <2> QED BY <2>1, <2>2, <2>3 DEF Addressed
<1>8. Patched(prog, ir')
  <2> SUFFICES ASSUME NEW i \in 1 .. n, NEW j \in 1 .. n, Closed(prog, i, j)
               PROVE  PatchedPair(prog, ir', i, j)
    BY DEF Patched
  <2>1. PatchedPair(prog, ir, i, j)
    BY <1>2 DEF Patched
  <2>2. ir'[i] = ir[i] /\ ir'[j] = ir[j] /\ \A e \in i .. j : ir'[e] = ir[e]
    BY <1>3
  <2>3. BranchAddress(prog, ir', i) = BranchAddress(prog, ir, i)
    BY <2>2 DEF BranchAddress
  <2>4. PatchedElse(prog, ir, i, j) => PatchedElse(prog, ir', i, j)
    BY <2>2, <2>3 DEF PatchedElse
  <2> QED BY <2>1, <2>2, <2>3, <2>4 DEF PatchedPair, PatchedLoop, PatchedIf
<1> QED BY <1>1, <1>2, <1>5, <1>7, <1>8 DEF Built

LEMMA BuiltKept ==
  ASSUME Built, UNCHANGED code, Ended' <=> Ended, phase' \in {"walk", "run", "returned", "crashed"}
  PROVE  Built'
<1>1. prog' = prog /\ ir' = ir /\ lastAddress' = lastAddress /\ open' = open
  BY DEF code
<1>2. FunctionEnds' = FunctionEnds
  BY DEF FunctionEnds
<1>3. Typed'
  BY <1>1, <1>2 DEF Built, Typed
<1> QED BY <1>1, <1>3 DEF Built

-----------------------------------------------------------------------------
(* A finished body: every construct has been closed, and what the abstract  *)
(* specification calls its end, its else and its opener are the tokens the  *)
(* displacements were patched for.                                          *)
Finished == Built /\ phase = "run"

LEMMA AllClosed ==
  ASSUME Finished
  PROVE  /\ \A i \in 1 .. Len(prog) : ~StillOpen(prog, i)
         /\ \A i \in 1 .. Len(prog) :
              prog[i].kind \in Openers => \E j \in 1 .. Len(prog) : Closed(prog, i, j)
<1>1. open = <<>> /\ Nested(prog, open)
  BY DEF Finished, Built, Typed, Ended
<1>2. Len(open) = 0
  BY <1>1
<1>3. \A i \in 1 .. Len(prog) : ~StillOpen(prog, i)
  BY <1>1, <1>2 DEF Nested, OpenListed
<1> QED BY <1>1, <1>3 DEF Nested, OthersClosed

LEMMA NestingIs ==
  ASSUME NEW i, NEW j
  PROVE  Structure!Nesting(i, j) = Nest(prog, i, j)
<1>1. Structure!Openings(i, j) = Starts(prog, i, j)
  BY DEF Structure!Openings, Starts, Structure!Openers, Openers
<1>2. Structure!Endings(i, j) = Ends(prog, i, j)
  BY DEF Structure!Endings, Ends, Structure!Enders, Enders
<1>3. \A S : Structure!Cardinality(S) = Cardinality(S)
  BY DEF Structure!Cardinality, Cardinality
<1> QED BY <1>1, <1>2, <1>3 DEF Structure!Nesting, Nest

LEMMA EndOfIs ==
  ASSUME Finished, NEW i \in 1 .. Len(prog), NEW j \in 1 .. Len(prog), Closed(prog, i, j)
  PROVE  Structure!EndOf(i) = j
<1>1. Len(prog) \in Nat
  BY DEF Finished, Built, Typed
<1> DEFINE P(l) == /\ l \in i .. Len(prog) /\ Nest(prog, i, l) = 0
                   /\ \A k \in i .. l - 1 : Nest(prog, i, k) > 0
<1>2. P(j)
  BY <1>1 DEF Closed
<1>3. ASSUME NEW l, P(l) PROVE l = j
  <2>1. Closed(prog, i, l) /\ l \in Int /\ i \in Int /\ j \in Int
    BY <1>1, <1>3 DEF Closed
  <2> QED BY <2>1, ClosedOnce
<1>4. Structure!EndOf(i) = CHOOSE l \in i .. Len(prog) :
                             Nest(prog, i, l) = 0 /\ \A k \in i .. l - 1 : Nest(prog, i, k) > 0
  BY NestingIs DEF Structure!EndOf
<1> QED BY <1>2, <1>3, <1>4

LEMMA ElsesOfIs ==
  ASSUME Finished, NEW i \in 1 .. Len(prog), NEW j \in 1 .. Len(prog), Closed(prog, i, j), NEW e
  PROVE  e \in Structure!ElsesOf(i) <=> e \in i .. j /\ IsElse(prog, e) /\ Owned(prog, i, e)
<1>1. Len(prog) \in Nat
  BY DEF Finished, Built, Typed
<1>2. Structure!EndOf(i) = j
  BY EndOfIs
<1>3. e \in Structure!ElsesOf(i) <=> e \in i .. j /\ IsElse(prog, e) /\ Nest(prog, i, e) = 1
  BY <1>2, NestingIs DEF Structure!ElsesOf, IsElse
<1>4. ASSUME e \in i .. j, IsElse(prog, e), Nest(prog, i, e) = 1 PROVE Owned(prog, i, e)
  <2>1. e # j
    BY <1>4 DEF Closed
  <2>2. \A k \in i .. e : k \in i .. j - 1
    BY <1>1, <1>4, <2>1
  <2> QED BY <1>4, <2>2 DEF Closed, Owned
<1> QED BY <1>3, <1>4 DEF Owned

LEMMA OpenerOfEnder ==
  ASSUME Finished, NEW i \in 1 .. Len(prog), NEW j \in 1 .. Len(prog), Closed(prog, i, j)
  PROVE  Structure!OpenerOf(j) = i
<1>1. Len(prog) \in Nat
  BY DEF Finished, Built, Typed
<1> DEFINE P(l) == Structure!EndOf(l) = j \/ j \in Structure!ElsesOf(l)
<1>2. i \in Structure!Openings(1, j) /\ P(i)
  <2>1. i \in 1 .. j /\ prog[i].kind \in Openers
    BY <1>1 DEF Closed
  <2>2. Structure!EndOf(i) = j
    BY EndOfIs
  <2> QED BY <2>1, <2>2 DEF Structure!Openings, Structure!Openers, Openers
<1>3. ASSUME NEW l \in Structure!Openings(1, j), P(l) PROVE l = i
  <2>1. l \in 1 .. Len(prog) /\ prog[l].kind \in Openers
    BY <1>1 DEF Structure!Openings, Structure!Openers, Openers
  <2>2. PICK m \in 1 .. Len(prog) : Closed(prog, l, m)
    BY <2>1, AllClosed
  <2>3. Structure!EndOf(l) = m
    BY <2>1, <2>2, EndOfIs
  <2>4. prog[j].kind \in Enders
    BY <1>1, ClosedByEnder
  <2>5. j \notin Structure!ElsesOf(l)
    BY <2>1, <2>2, <2>4, ElsesOfIs DEF IsElse, Enders
  <2>6. m = j
    BY <1>3, <2>3, <2>5
  <2> QED BY <1>1, <2>1, <2>2, <2>6, OneOpener
<1>4. Structure!OpenerOf(j) = CHOOSE l \in Structure!Openings(1, j) : P(l)
  BY DEF Structure!OpenerOf
<1> HIDE DEF P
<1> QED BY <1>2, <1>3, <1>4

LEMMA OpenerOfElse ==
  ASSUME Finished, NEW i \in 1 .. Len(prog), NEW e \in 1 .. Len(prog),
         IsElse(prog, e), Owned(prog, i, e)
  PROVE  Structure!OpenerOf(e) = i
<1>1. Len(prog) \in Nat
  BY DEF Finished, Built, Typed
<1> DEFINE P(l) == Structure!EndOf(l) = e \/ e \in Structure!ElsesOf(l)
<1>2. i \in Structure!Openings(1, e) /\ P(i)
  <2>1. i \in 1 .. e /\ prog[i].kind \in Openers
    BY <1>1 DEF Owned
  <2>2. PICK j \in 1 .. Len(prog) : Closed(prog, i, j)
    BY <2>1, AllClosed
  <2>3. e \in i .. j
    <3> SUFFICES ASSUME j < e PROVE FALSE
      BY <1>1, <2>1
    <3>1. j \in i .. e
      BY <1>1, <2>2 DEF Closed
    <3>2. Nest(prog, i, j) > 0 /\ Nest(prog, i, j) = 0
      BY <2>2, <3>1 DEF Closed, Owned
    <3> QED BY <3>2
  <2>4. e \in Structure!ElsesOf(i)
    BY <2>2, <2>3, ElsesOfIs
  <2> QED BY <2>1, <2>4 DEF Structure!Openings, Structure!Openers, Openers
<1>3. ASSUME NEW l \in Structure!Openings(1, e), P(l) PROVE l = i
  <2>1. l \in 1 .. Len(prog) /\ prog[l].kind \in Openers
    BY <1>1 DEF Structure!Openings, Structure!Openers, Openers
  <2>2. PICK m \in 1 .. Len(prog) : Closed(prog, l, m)
    BY <2>1, AllClosed
  <2>3. Structure!EndOf(l) = m
    BY <2>1, <2>2, EndOfIs
  <2>4. prog[m].kind \in Enders
    BY <1>1, <2>1, <2>2, ClosedByEnder
  <2>5. m # e
    BY <2>4 DEF IsElse, Enders
  <2>6. e \in Structure!ElsesOf(l)
    BY <1>3, <2>3, <2>5
  <2>7. Owned(prog, l, e)
    BY <2>1, <2>2, <2>6, ElsesOfIs
  <2> QED BY <1>1, <2>1, <2>7, OneOwner
<1>4. Structure!OpenerOf(e) = CHOOSE l \in Structure!Openings(1, e) : P(l)
  BY DEF Structure!OpenerOf
<1> HIDE DEF P
<1> QED BY <1>2, <1>3, <1>4

-----------------------------------------------------------------------------
(* Where the machine is. An address is that of at most one node.            *)
NodeAt(t, k, a) == /\ t \in DOMAIN ir /\ k \in DOMAIN Nodes(t)
                   /\ a = ir[t].address + 4 * (k - 1)

LEMMA NodesShape ==
  ASSUME Finished, NEW n, n = Len(prog)
  PROVE  /\ n \in Nat /\ DOMAIN ir = 1 .. n + 1 /\ DOMAIN prog = 1 .. n /\ Len(ir) = n + 1
         /\ \A t \in 1 .. n + 1 : ir[t] \in Entry /\ ir[t].address \in Nat /\ ir[t].imm \in Int
         /\ \A t \in 1 .. n : prog[t] \in Tokens /\ Nodes(t) = Code(prog[t], ir[t].imm)
         /\ \A t \in 1 .. n + 1 : /\ DOMAIN Nodes(t) = 1 .. Len(Nodes(t))
                                  /\ Len(Nodes(t)) \in Nat \ {0}
         /\ Nodes(n + 1) = <<Node("nop", 0)>>
         /\ \A t \in 1 .. n : Size(prog[t]) \in Nat /\ 4 * Len(Nodes(t)) <= Size(prog[t])
<1>1. /\ prog \in Seq(Tokens) /\ ir \in Seq(Entry) /\ Len(ir) = n + 1
  BY DEF Finished, Built, Typed, FunctionEnds, Ended
<1>2. n \in Nat /\ DOMAIN ir = 1 .. n + 1 /\ DOMAIN prog = 1 .. n
  BY <1>1
<1>3. \A t \in 1 .. n + 1 : ir[t] \in Entry
  BY <1>1
<1>4. \A t \in 1 .. n + 1 : ir[t].address \in Nat /\ ir[t].imm \in Int
  BY <1>3 DEF Entry
<1>5. \A t \in 1 .. n : prog[t] \in Tokens /\ Nodes(t) = Code(prog[t], ir[t].imm)
  BY <1>1, <1>2 DEF Nodes
<1>6. Nodes(n + 1) = <<Node("nop", 0)>>
  BY <1>2 DEF Nodes
<1>7. ASSUME NEW t \in 1 .. n
      PROVE  /\ Nodes(t) \in Seq(NodeType) /\ Len(Nodes(t)) \in Nat \ {0}
             /\ Size(prog[t]) \in Nat /\ 4 * Len(Nodes(t)) <= Size(prog[t])
  <2>1. prog[t] \in Tokens /\ ir[t].imm \in Int /\ Nodes(t) = Code(prog[t], ir[t].imm)
    BY <1>2, <1>4, <1>5
  <2>2. /\ Code(prog[t], ir[t].imm) \in Seq(NodeType) /\ Len(Code(prog[t], ir[t].imm)) \in Nat \ {0}
        /\ Size(prog[t]) \in Nat /\ Size(prog[t]) >= 4 * Len(Code(prog[t], ir[t].imm))
    BY <2>1, CodeSize
  <2> DEFINE len == Len(Nodes(t))
  <2>3. len \in Nat \ {0} /\ Size(prog[t]) \in Nat /\ Size(prog[t]) >= 4 * len
    BY <2>1, <2>2
  <2> HIDE DEF len
  <2>4. 4 * len <= Size(prog[t])
    BY <2>3
  <2> QED BY <2>1, <2>2, <2>3, <2>4 DEF len
<1>8. \A t \in 1 .. n + 1 : DOMAIN Nodes(t) = 1 .. Len(Nodes(t)) /\ Len(Nodes(t)) \in Nat \ {0}
  <2> SUFFICES ASSUME NEW t \in 1 .. n + 1
               PROVE  DOMAIN Nodes(t) = 1 .. Len(Nodes(t)) /\ Len(Nodes(t)) \in Nat \ {0}
    OBVIOUS
  <2>1. CASE t \in 1 .. n
    BY <1>7, <2>1
  <2>2. CASE t = n + 1
    <3>1. Node("nop", 0) \in NodeType
      BY NodeTyped DEF NodeKinds
    <3> QED BY <1>6, <2>2, <3>1, OneNode
  <2> QED BY <1>2, <2>1, <2>2
<1> QED BY <1>1, <1>2, <1>3, <1>4, <1>5, <1>6, <1>7, <1>8

LEMMA EntryShape ==
  ASSUME Finished, NEW t \in 1 .. Len(prog) + 1
  PROVE  /\ t \in DOMAIN ir /\ ir[t].address \in Nat /\ ir[t].imm \in Int
         /\ DOMAIN Nodes(t) = 1 .. Len(Nodes(t)) /\ Len(Nodes(t)) \in Nat \ {0}
         /\ Len(prog) \in Nat
  BY NodesShape

LEMMA LastNode ==
  ASSUME Finished
  PROVE  Nodes(Len(prog) + 1) = <<Node("nop", 0)>>
  BY NodesShape

LEMMA LastShape ==
  ASSUME Finished, NEW u, u = Len(prog) + 1
  PROVE  Len(prog) \in Nat /\ Len(ir) = u /\ u \in 1 .. Len(prog) + 1
<1>1. Len(prog) \in Nat /\ Len(ir) = Len(prog) + 1
  BY NodesShape
<1> QED BY <1>1

LEMMA TokenShape ==
  ASSUME Finished, NEW t \in 1 .. Len(prog)
  PROVE  /\ prog[t] \in Tokens /\ Nodes(t) = Code(prog[t], ir[t].imm) /\ t \in DOMAIN prog
         /\ Size(prog[t]) \in Nat /\ 4 * Len(Nodes(t)) <= Size(prog[t])
         /\ t \in 1 .. Len(prog) + 1 /\ t + 1 \in 1 .. Len(prog) + 1
<1>1. /\ prog[t] \in Tokens /\ Nodes(t) = Code(prog[t], ir[t].imm) /\ DOMAIN prog = 1 .. Len(prog)
      /\ Size(prog[t]) \in Nat /\ 4 * Len(Nodes(t)) <= Size(prog[t]) /\ Len(prog) \in Nat
  BY NodesShape
<1> QED BY <1>1

LEMMA NodeOnce ==
  ASSUME Finished, NEW a, NEW t, NEW k, NodeAt(t, k, a), NEW u, NEW l, NodeAt(u, l, a)
  PROVE  t = u /\ k = l
<1> DEFINE n == Len(prog)
<1>1. ASSUME NEW x, NEW y, NEW i, NEW j, NodeAt(x, i, a), NodeAt(y, j, a), x < y,
             x \in 1 .. n + 1, y \in 1 .. n + 1
      PROVE  FALSE
  <2>1. x \in 1 .. n /\ n \in Nat
    BY <1>1, NodesShape
  <2>2. /\ i \in 1 .. Len(Nodes(x)) /\ Len(Nodes(x)) \in Nat \ {0}
        /\ Size(prog[x]) \in Nat /\ 4 * Len(Nodes(x)) <= Size(prog[x])
        /\ ir[x].address \in Nat /\ ir[y].address \in Nat
        /\ j \in 1 .. Len(Nodes(y)) /\ Len(Nodes(y)) \in Nat \ {0}
    BY <1>1, <2>1, NodesShape DEF NodeAt
  <2>3. a = ir[x].address + 4 * (i - 1) /\ a = ir[y].address + 4 * (j - 1)
    BY <1>1 DEF NodeAt
  <2>4. ir[x].address + Size(prog[x]) <= ir[y].address
    <3>1. AddressIn(ir, lastAddress, y) = ir[y].address
      BY <1>1, NodesShape DEF AddressIn
    <3>2. Ordered(prog, ir, lastAddress)
      BY DEF Finished, Built, Addressed
    <3> QED BY <1>1, <2>1, <3>1, <3>2 DEF Ordered
  <2> DEFINE p == Len(Nodes(x))
             q == Len(Nodes(y))
  <2> HIDE DEF p, q
  <2>5. i \in 1 .. p /\ j \in 1 .. q /\ p \in Nat \ {0} /\ q \in Nat \ {0} /\ 4 * p <= Size(prog[x])
    BY <2>2 DEF p, q
  <2>6. i \in Int /\ i <= p /\ p \in Int /\ j \in Int /\ 1 <= j
    BY <2>5
  <2>7. ir[x].address \in Int /\ ir[y].address \in Int /\ Size(prog[x]) \in Int
    BY <2>2
  <2>8. a < ir[x].address + Size(prog[x])
    BY <2>3, <2>5, <2>6, <2>7
  <2>9. ir[y].address <= a
    BY <2>3, <2>6, <2>7
  <2> QED BY <2>3, <2>4, <2>6, <2>7, <2>8, <2>9
<1>2. t \in 1 .. n + 1 /\ u \in 1 .. n + 1 /\ n \in Nat
  BY NodesShape DEF NodeAt
<1>3. ~(t < u) /\ ~(u < t)
  BY <1>1, <1>2
<1>4. t = u
  BY <1>2, <1>3
<1>5. /\ a = ir[t].address + 4 * (k - 1) /\ a = ir[t].address + 4 * (l - 1)
      /\ k \in 1 .. Len(Nodes(t)) /\ l \in 1 .. Len(Nodes(t))
      /\ Len(Nodes(t)) \in Nat /\ ir[t].address \in Nat
  BY <1>2, <1>4, NodesShape DEF NodeAt
<1>6. k \in Int /\ l \in Int
  BY <1>5
<1> QED BY <1>4, <1>5, <1>6

Located == Finished => \A t, k : NodeAt(t, k, at) =>
                         /\ Landed /\ Here = t /\ Position = k /\ Instruction = Nodes(t)[k]

LEMMA Locates == Located
<1> SUFFICES ASSUME Finished, NEW t, NEW k, NodeAt(t, k, at)
             PROVE  Landed /\ Here = t /\ Position = k /\ Instruction = Nodes(t)[k]
  BY DEF Located
<1>1. t \in DOMAIN ir /\ Holds(t)
  BY DEF NodeAt, Holds
<1>2. Landed
  BY <1>1 DEF Landed
<1>3. ASSUME NEW u \in DOMAIN ir, Holds(u) PROVE u = t
  <2>1. PICK l \in DOMAIN Nodes(u) : at = ir[u].address + 4 * (l - 1)
    BY <1>3 DEF Holds
  <2>2. NodeAt(u, l, at)
    BY <1>3, <2>1 DEF NodeAt
  <2> QED BY <2>2, NodeOnce
<1>4. Here = t
  BY <1>1, <1>3 DEF Here
<1>5. /\ at = ir[t].address + 4 * (k - 1) /\ k \in 1 .. Len(Nodes(t))
      /\ Len(Nodes(t)) \in Nat /\ ir[t].address \in Nat
  BY NodesShape DEF NodeAt
<1>6. k \in Int
  BY <1>5
<1>7. Position = k
  <2>1. (at - ir[t].address) = 4 * (k - 1)
    BY <1>5, <1>6
  <2>2. (4 * (k - 1)) \div 4 = k - 1
    BY <1>6
  <2> QED BY <1>4, <1>6, <2>1, <2>2 DEF Position
<1> QED BY <1>2, <1>4, <1>7 DEF Instruction

(* The token and node it is at.                                             *)
LEMMA AtSome ==
  ASSUME Finished, Landed
  PROVE  NodeAt(Here, Position, at) /\ Instruction = Nodes(Here)[Position]
<1>1. PICK t \in DOMAIN ir : Holds(t)
  BY DEF Landed
<1>2. PICK k \in DOMAIN Nodes(t) : at = ir[t].address + 4 * (k - 1)
  BY <1>1 DEF Holds
<1>3. NodeAt(t, k, at)
  BY <1>1, <1>2 DEF NodeAt
<1>4. Here = t /\ Position = k
  BY <1>3, Locates DEF Located
<1> QED BY <1>3, <1>4 DEF Instruction

(* The ways from one node to another, and what a displacement reaches.      *)
LEMMA WithinToken ==
  ASSUME Finished, NEW t, NEW k, NodeAt(t, k, at), NEW l \in DOMAIN Nodes(t)
  PROVE  NodeAt(t, l, at + 4 * (l - k))
<1>1. /\ at = ir[t].address + 4 * (k - 1) /\ k \in 1 .. Len(Nodes(t)) /\ l \in 1 .. Len(Nodes(t))
      /\ Len(Nodes(t)) \in Nat /\ ir[t].address \in Nat /\ t \in DOMAIN ir
  BY NodesShape DEF NodeAt
<1>2. k \in Int /\ l \in Int
  BY <1>1
<1>3. at + 4 * (l - k) = ir[t].address + 4 * (l - 1)
  BY <1>1, <1>2
<1> QED BY <1>1, <1>3 DEF NodeAt

LEMMA TokenStart ==
  ASSUME Finished, NEW t \in 1 .. Len(prog) + 1
  PROVE  NodeAt(t, 1, ir[t].address) /\ ir[t].address \in Nat
<1>1. /\ t \in DOMAIN ir /\ DOMAIN Nodes(t) = 1 .. Len(Nodes(t)) /\ Len(Nodes(t)) \in Nat \ {0}
      /\ ir[t].address \in Nat
  BY NodesShape
<1>2. 1 \in DOMAIN Nodes(t) /\ ir[t].address = ir[t].address + 4 * (1 - 1)
  BY <1>1
<1> QED BY <1>1, <1>2 DEF NodeAt

LEMMA NextToken ==
  ASSUME Finished, NEW t \in 1 .. Len(prog), NEW k, NodeAt(t, k, at), k = Len(Nodes(t)),
         NEW d, d = IF prog[t].kind = "op" THEN Size(prog[t]) ELSE 4
  PROVE  NodeAt(t + 1, 1, at + d)
<1> DEFINE n == Len(prog)
           len == Len(Nodes(t))
<1>1. /\ n \in Nat /\ t \in 1 .. n + 1 /\ t + 1 \in 1 .. n + 1 /\ t + 1 \in DOMAIN ir
      /\ ir[t].address \in Nat /\ len \in Nat \ {0} /\ Size(prog[t]) \in Nat
      /\ prog[t] \in Tokens /\ ir[t].imm \in Int /\ Nodes(t) = Code(prog[t], ir[t].imm)
  <2>1. /\ t \in 1 .. n + 1 /\ t + 1 \in 1 .. n + 1 /\ Size(prog[t]) \in Nat
        /\ prog[t] \in Tokens /\ Nodes(t) = Code(prog[t], ir[t].imm)
    BY TokenShape
  <2>2. ir[t].address \in Nat /\ len \in Nat \ {0} /\ ir[t].imm \in Int /\ n \in Nat
    BY <2>1, EntryShape
  <2>3. t + 1 \in DOMAIN ir
    BY <2>1, EntryShape
  <2> QED BY <2>1, <2>2, <2>3
<1>2. ir[t + 1].address = ir[t].address + Size(prog[t])
  <2>1. AddressIn(ir, lastAddress, t + 1) = ir[t + 1].address
    BY <1>1 DEF AddressIn
  <2>2. Consecutive(prog, ir, lastAddress)
    BY DEF Finished, Built, Addressed
  <2> QED BY <2>1, <2>2 DEF Consecutive
<1>3. at = ir[t].address + 4 * (len - 1)
  BY DEF NodeAt
<1>4. at + d = ir[t].address + Size(prog[t])
  <2>1. CASE prog[t].kind = "op"
    <3>1. len = 1
      BY <1>1, <2>1, CodeLength DEF Openers
    <3> HIDE DEF len
    <3>2. d = Size(prog[t]) /\ at = ir[t].address
      BY <1>1, <1>3, <2>1, <3>1
    <3> QED BY <3>2
  <2>2. CASE prog[t].kind # "op"
    <3>1. Size(prog[t]) = 4 * len
      BY <1>1, <2>2, CodeSize
    <3> HIDE DEF len
    <3>2. d = 4
      BY <2>2
    <3>3. ir[t].address \in Int /\ len \in Int
      BY <1>1
    <3> QED BY <1>3, <3>1, <3>2, <3>3
  <2> QED BY <2>1, <2>2
<1>5. NodeAt(t + 1, 1, ir[t + 1].address)
  BY <1>1, TokenStart
<1> QED BY <1>2, <1>4, <1>5

LEMMA AddressRange ==
  ASSUME Finished, NEW t, NEW k, NEW a, NodeAt(t, k, a)
  PROVE  a \in 0 .. MaxBytes + 4 * MaxTokens
<1> DEFINE n == Len(prog)
           end == ir[n + 1].address
           len == Len(Nodes(t))
<1>1. /\ n \in Nat /\ t \in 1 .. n + 1 /\ ir[t].address \in Nat /\ end \in Nat
      /\ len \in Nat \ {0} /\ k \in 1 .. len /\ a = ir[t].address + 4 * (k - 1)
  <2>1. DOMAIN ir = 1 .. n + 1 /\ n \in Nat
    BY NodesShape
  <2>2. t \in 1 .. n + 1 /\ n + 1 \in 1 .. n + 1
    BY <2>1 DEF NodeAt
  <2>3. end \in Nat
    BY <2>2, EntryShape
  <2> QED BY <2>1, <2>2, <2>3, EntryShape DEF NodeAt
<1>2. end <= MaxBytes + 4 * MaxTokens
  <2>1. end + 4 = lastAddress /\ lastAddress <= MaxBytes + 4 * (n + 1) /\ n + Len(open) <= MaxTokens
    BY DEF Finished, Built, Typed, Ended, FunctionEnds
  <2>2. Len(open) = 0 /\ MaxBytes \in Nat /\ MaxTokens \in Nat
    BY BoundsAssumption DEF Finished, Built, Typed, Ended
  <2>3. end \in Nat /\ n \in Nat
    BY <1>1
  <2> HIDE DEF end, n
  <2>4. n <= MaxTokens
    BY <2>1, <2>2, <2>3
  <2>5. end + 4 <= MaxBytes + 4 * (n + 1)
    BY <2>1
  <2> QED BY <2>2, <2>3, <2>4, <2>5
<1>3. a <= end
  <2>1. CASE t = n + 1
    <3>1. len = 1
      <4>1. Node("nop", 0) \in NodeType
        BY NodeTyped DEF NodeKinds
      <4>2. Nodes(t) = <<Node("nop", 0)>>
        BY <2>1, LastNode
      <4>3. Len(<<Node("nop", 0)>>) = 1
        BY <4>1, OneNode
      <4> QED BY <4>2, <4>3
    <3> HIDE DEF len
    <3>2. k = 1
      BY <1>1, <3>1
    <3> QED BY <1>1, <2>1, <3>2
  <2>2. CASE t \in 1 .. n
    <3>1. Size(prog[t]) \in Nat /\ 4 * len <= Size(prog[t])
      BY <2>2, NodesShape
    <3>2. ir[t].address + Size(prog[t]) <= end
      <4>0. n + 1 \in 1 .. n + 1
        BY <1>1
      <4>1. AddressIn(ir, lastAddress, n + 1) = end
        BY <4>0, EntryShape DEF AddressIn
      <4>2. Ordered(prog, ir, lastAddress)
        BY DEF Finished, Built, Addressed
      <4>3. t \in 1 .. Len(prog) /\ n + 1 \in 1 .. Len(prog) + 1 /\ t < n + 1
        BY <1>1, <2>2
      <4> HIDE DEF end
      <4> QED BY <4>1, <4>2, <4>3 DEF Ordered
    <3> HIDE DEF len, end
    <3>3. k \in Int /\ k <= len
      BY <1>1
    <3> QED BY <1>1, <3>1, <3>2, <3>3
  <2> QED BY <1>1, <2>1, <2>2
<1>4. 0 <= a /\ a \in Int
  <2>1. k \in Int /\ k >= 1
    BY <1>1
  <2> QED BY <1>1, <2>1
<1> QED BY <1>1, <1>2, <1>3, <1>4, BoundsAssumption

LEMMA Reaches ==
  ASSUME Finished, NEW t, NEW k, NEW u, NEW l, NEW b, NodeAt(t, k, at), NodeAt(u, l, b),
         NEW imm, imm = b - at, NEW v \in {BranchValues, JumpValues}
  PROVE  at + SignedField(imm, v) = b
<1> DEFINE h == v \div 2
           m == MaxBytes + 4 * MaxTokens
<1>1. at \in 0 .. m /\ b \in 0 .. m
  BY AddressRange
<1>2. m < h /\ m \in Nat
  BY ReachAssumption, BoundsAssumption
<1>3. imm \in Int /\ h \in Nat
  BY <1>1, Halves
<1> HIDE DEF h, m
<1>4. imm \in -h .. h - 1
  BY <1>1, <1>2, <1>3
<1>5. SignedField(imm, v) = imm
  BY <1>3, <1>4, FieldOf DEF h
<1> QED BY <1>1, <1>2, <1>5

-----------------------------------------------------------------------------
(* The nodes of a token, by its kind and by what comes before them.         *)
LEMMA PlainNode ==
  ASSUME Finished, NEW t \in 1 .. Len(prog), prog[t].kind \notin Openers,
         NEW k \in DOMAIN Nodes(t), NEW node, node = Nodes(t)[k]
  PROVE  \/ prog[t].kind = "op" /\ k = 1 /\ Len(Nodes(t)) = 1 /\ node.kind = "block"
         \/ /\ prog[t].kind = "else" /\ k = 1 /\ Len(Nodes(t)) = 2
            /\ node.kind = "jal" /\ node.imm = ir[t].imm
         \/ prog[t].kind = "else" /\ k = 2 /\ Len(Nodes(t)) = 2 /\ node.kind = "nop"
         \/ prog[t].kind = "endif" /\ k = 1 /\ Len(Nodes(t)) = 1 /\ node.kind = "nop"
         \/ /\ prog[t].kind = "endwhile" /\ k = 1 /\ Len(Nodes(t)) = 1
            /\ node.kind = "jal" /\ node.imm = ir[t].imm
         \/ prog[t].kind = "return" /\ k = 1 /\ Len(Nodes(t)) = 2 /\ node.kind = "mov"
         \/ prog[t].kind = "return" /\ k = 2 /\ Len(Nodes(t)) = 2 /\ node.kind = "return"
<1> DEFINE token == prog[t]
           imm == ir[t].imm
<1>1. /\ token \in Tokens /\ Nodes(t) = Code(token, imm) /\ t \in 1 .. Len(prog) + 1
  BY TokenShape
<1>2. imm \in Int /\ DOMAIN Nodes(t) = 1 .. Len(Nodes(t))
  BY <1>1, EntryShape
<1>3. token.kind \in {"op", "else", "endif", "endwhile", "return"}
  BY <1>1 DEF Tokens, Kinds, Openers, Enders
<1> HIDE DEF token, imm
<1>4. /\ Node("nop", 0) \in NodeType /\ Node("nop", 0).kind = "nop"
      /\ Node("block", 0) \in NodeType /\ Node("block", 0).kind = "block"
      /\ Node("mov", 0) \in NodeType /\ Node("mov", 0).kind = "mov"
      /\ Node("return", 0) \in NodeType /\ Node("return", 0).kind = "return"
      /\ Node("jal", imm) \in NodeType /\ Node("jal", imm).kind = "jal" /\ Node("jal", imm).imm = imm
  BY <1>2, NodeTyped DEF NodeKinds
<1>5. CASE token.kind = "op"
  <2>1. Nodes(t) = <<Node("block", 0)>> /\ Len(Nodes(t)) = 1
    <3>1. Nodes(t) = <<Node("block", 0)>>
      BY <1>1, <1>2, <1>5, OtherShapes
    <3>2. Len(<<Node("block", 0)>>) = 1
      BY <1>4, OneNode
    <3> QED BY <3>1, <3>2
  <2>2. k = 1
    BY <1>2, <2>1
  <2> QED BY <1>4, <1>5, <2>1, <2>2, OneNode DEF token
<1>6. CASE token.kind = "else"
  <2>1. Nodes(t) = <<Node("jal", imm), Node("nop", 0)>> /\ Len(Nodes(t)) = 2
    <3>1. Nodes(t) = <<Node("jal", imm), Node("nop", 0)>>
      BY <1>1, <1>2, <1>6, OtherShapes
    <3>2. Len(<<Node("jal", imm), Node("nop", 0)>>) = 2
      BY <1>4, TwoNodes
    <3> QED BY <3>1, <3>2
  <2>2. k \in {1, 2}
    BY <1>2, <2>1
  <2>3. Nodes(t)[1] = Node("jal", imm) /\ Nodes(t)[2] = Node("nop", 0)
    BY <1>4, <2>1, TwoNodes
  <2> QED BY <1>4, <1>6, <2>1, <2>2, <2>3 DEF token, imm
<1>7. CASE token.kind = "endif"
  <2>1. Nodes(t) = <<Node("nop", 0)>> /\ Len(Nodes(t)) = 1
    <3>1. Nodes(t) = <<Node("nop", 0)>>
      BY <1>1, <1>2, <1>7, OtherShapes
    <3>2. Len(<<Node("nop", 0)>>) = 1
      BY <1>4, OneNode
    <3> QED BY <3>1, <3>2
  <2>2. k = 1
    BY <1>2, <2>1
  <2> QED BY <1>4, <1>7, <2>1, <2>2, OneNode DEF token
<1>8. CASE token.kind = "endwhile"
  <2>1. Nodes(t) = <<Node("jal", imm)>> /\ Len(Nodes(t)) = 1
    <3>1. Nodes(t) = <<Node("jal", imm)>>
      BY <1>1, <1>2, <1>8, OtherShapes
    <3>2. Len(<<Node("jal", imm)>>) = 1
      BY <1>4, OneNode
    <3> QED BY <3>1, <3>2
  <2>2. k = 1
    BY <1>2, <2>1
  <2> QED BY <1>4, <1>8, <2>1, <2>2, OneNode DEF token, imm
<1>9. CASE token.kind = "return"
  <2>1. Nodes(t) = <<Node("mov", 0), Node("return", 0)>> /\ Len(Nodes(t)) = 2
    <3>1. Nodes(t) = <<Node("mov", 0), Node("return", 0)>>
      BY <1>1, <1>2, <1>9, OtherShapes
    <3>2. Len(<<Node("mov", 0), Node("return", 0)>>) = 2
      BY <1>4, TwoNodes
    <3> QED BY <3>1, <3>2
  <2>2. k \in {1, 2}
    BY <1>2, <2>1
  <2>3. Nodes(t)[1] = Node("mov", 0) /\ Nodes(t)[2] = Node("return", 0)
    BY <1>4, <2>1, TwoNodes
  <2> QED BY <1>4, <1>9, <2>1, <2>2, <2>3 DEF token
<1> QED BY <1>3, <1>5, <1>6, <1>7, <1>8, <1>9

(* The k-th node in front of a body is the m-th one behind the first f,     *)
(* which are followed by n of a comparison and the branch.                  *)
InHead(f, n, k, m) == /\ f \in {0, 1} /\ n \in {1, 5}
                      /\ k \in 1 .. f + n + 1 /\ m \in Int /\ k = f + m
LEMMA HeadPositions ==
  ASSUME NEW f, NEW n, NEW k, NEW m, InHead(f, n, k, m)
  PROVE  /\ m \in 0 .. n + 1 /\ m \in 0 .. 6 /\ (m = 0 => f = 1 /\ k = 1)
         /\ k + 1 - m \in {1, 2}
         /\ \A i \in 0 .. n + 1 - m : k + i \in 1 .. f + n + 1
<1>1. /\ f \in Int /\ 0 <= f /\ f <= 1 /\ n \in Int /\ n <= 5
      /\ k \in Int /\ 1 <= k /\ k <= f + n + 1 /\ m \in Int /\ k = f + m
      /\ f \in {0, 1}
  BY DEF InHead
<1>2. 0 <= m /\ m <= n + 1 /\ m <= 6
  BY <1>1
<1>3. m = 0 => f = 1 /\ k = 1
  BY <1>1
<1>4. k + 1 - m = f + 1 /\ f + 1 \in {1, 2}
  <2>1. k + 1 - m = f + 1
    BY <1>1
  <2>2. f + 1 \in {1, 2}
    BY <1>1
  <2> QED BY <2>1, <2>2
<1>5. ASSUME NEW i \in 0 .. n + 1 - m PROVE k + i \in 1 .. f + n + 1
  <2>1. i \in Int /\ 0 <= i /\ i <= n + 1 - m
    BY <1>1
  <2> QED BY <1>1, <2>1
<1> QED BY <1>1, <1>2, <1>3, <1>4, <1>5

LEMMA HeadNode ==
  ASSUME Finished, NEW t \in 1 .. Len(prog), prog[t].kind \in Openers,
         NEW k \in DOMAIN Nodes(t), NEW node, node = Nodes(t)[k],
         NEW m, m = k - Front(prog[t]), NEW c, c = prog[t].cond
  PROVE  /\ c \in Condition /\ m \in 0 .. 6 /\ (m = 0 => Front(prog[t]) = 1)
         /\ m = 0 => node.kind = "nop"
         /\ m = Length(c) + 1 => node.kind = "bne" /\ node.imm = ir[t].imm /\ k = Len(Nodes(t))
         /\ m <= Length(c) + 1 /\ k + 1 - m \in {1, 2}
         /\ m \in 1 .. Length(c) => node = Compared(c)[m]
         /\ \A i \in 0 .. Length(c) + 1 - m : k + i \in DOMAIN Nodes(t)
<1> DEFINE token == prog[t]
           imm == ir[t].imm
           f == Front(token)
           n == Length(c)
<1>1. /\ token \in Tokens /\ Nodes(t) = Code(token, imm) /\ t \in 1 .. Len(prog) + 1
  BY TokenShape
<1>2. imm \in Int /\ DOMAIN Nodes(t) = 1 .. Len(Nodes(t))
  BY <1>1, EntryShape
<1>3. /\ c \in Condition /\ f \in {0, 1} /\ n \in {1, 5}
      /\ Len(Code(token, imm)) = f + n + 1
      /\ f = 1 => Code(token, imm)[1] = Node("nop", 0)
      /\ \A i \in 1 .. n : Code(token, imm)[f + i] = Compared(c)[i]
      /\ Code(token, imm)[f + n + 1] = Node("bne", imm)
  <2>1. token.kind \in Openers /\ c = token.cond /\ token \in Tokens
    BY <1>1
  <2>2. f = Front(token) /\ n = Length(token.cond)
    BY <2>1
  <2> HIDE DEF token, imm, f, n
  <2>3. /\ token.cond \in Condition /\ f \in {0, 1} /\ n \in {1, 5}
        /\ Len(Code(token, imm)) = f + n + 1
        /\ f = 1 => Code(token, imm)[1] = Node("nop", 0)
        /\ Code(token, imm)[f + n + 1] = Node("bne", imm)
    BY <1>2, <2>1, <2>2, HeadShape
  <2>4. \A i \in 1 .. n : Code(token, imm)[f + i] = Compared(token.cond)[i]
    BY <1>2, <2>1, <2>2, HeadShape
  <2> QED BY <2>1, <2>3, <2>4
<1>4. /\ Node("nop", 0).kind = "nop"
      /\ Node("bne", imm).kind = "bne" /\ Node("bne", imm).imm = imm
  BY DEF Node
<1>5. m = k - f
  OBVIOUS
<1>6. node = Code(token, imm)[k] /\ Len(Nodes(t)) = f + n + 1 /\ DOMAIN Nodes(t) = 1 .. f + n + 1
  BY <1>1, <1>2, <1>3
<1> HIDE DEF f, n, token, imm
<1>7. k \in 1 .. f + n + 1 /\ k \in Int /\ m \in Int /\ k = f + m
  <2>1. k \in 1 .. f + n + 1 /\ f + n + 1 \in Int
    BY <1>3, <1>6
  <2> QED BY <1>3, <1>5, <2>1
<1>8. /\ m \in 0 .. n + 1 /\ m \in 0 .. 6 /\ (m = 0 => f = 1 /\ k = 1) /\ k + 1 - m \in {1, 2}
      /\ \A i \in 0 .. n + 1 - m : k + i \in 1 .. f + n + 1
  <2>1. InHead(f, n, k, m)
    BY <1>3, <1>7 DEF InHead
  <2> QED BY <2>1, HeadPositions
<1>9. m = 0 => node.kind = "nop"
  BY <1>3, <1>4, <1>6, <1>8
<1>10. m = n + 1 => node.kind = "bne" /\ node.imm = imm /\ k = f + n + 1
  <2> SUFFICES ASSUME m = n + 1 PROVE node.kind = "bne" /\ node.imm = imm /\ k = f + n + 1
    OBVIOUS
  <2>1. k = f + n + 1
    BY <1>3, <1>7
  <2> QED BY <1>3, <1>4, <1>6, <2>1
<1>11. m \in 1 .. n => node = Compared(c)[m]
  BY <1>3, <1>6, <1>7
<1>12. \A i \in 0 .. n + 1 - m : k + i \in DOMAIN Nodes(t)
  BY <1>6, <1>8
<1> QED BY <1>3, <1>6, <1>8, <1>9, <1>10, <1>11, <1>12 DEF f, n, token, imm

-----------------------------------------------------------------------------
(* What the registers hold at the m-th node of the code of a comparison: a  *)
(* difference behind the SUB, an answer at the branch.                      *)
FloatKind(c) == IF c.op \in {"<", ">"} THEN "flt" ELSE "fle"
Compares(c, m, ops, au, res) ==
  /\ c.type = "int" =>
       /\ m >= 2 => /\ ops \in IntWords \X IntWords
                    /\ au = SignedField(Difference(ops[1], ops[2]), WordValues)
       /\ m \in {3, 4} => ~Related(c.op, au, 0)
       /\ m = 4 => res = 1
       /\ m = 5 => Related(c.op, au, 0)
       /\ m = 6 => (res = 0 <=> Related(c.op, au, 0))
  /\ (c.type = "float" /\ m = 2) =>
       /\ ops \in Floats \X Floats
       /\ res = 0 <=> ~Holding(FloatKind(c), c.op \in Exchanged, ops[1], ops[2])
Comparing(t, k, ops, au, res) ==
  (t \in DOMAIN prog /\ prog[t].kind \in Openers) =>
    Compares(prog[t].cond, k - Front(prog[t]), ops, au, res)

(* The inductive invariant: the code is well built, and the machine is at a *)
(* node of it, with what the nodes before have left in the registers.       *)
Registers == /\ aux \in IntWords /\ result \in {0, 1}
             /\ operands \in {<<>>} \cup (IntWords \X IntWords) \cup (Floats \X Floats)
Running == Landed /\ \A t, k : NodeAt(t, k, at) => Comparing(t, k, operands, aux, result)
Inv == /\ Built /\ Registers
       /\ phase \in {"walk", "crashed"} => at = 0
       /\ phase = "run" => Running

(* Where control is in the abstract specification while it is at a node.    *)
HereAt(t, k) == IF t \in DOMAIN prog /\ prog[t].kind = "else" /\ k = 2 THEN t + 1 ELSE t
VerdictAt(t, k, res) == IF Nodes(t)[k].kind # "bne" THEN "none"
                        ELSE IF res = 0 THEN "true" ELSE "false"
Mapped == Finished => \A t, k : NodeAt(t, k, at) =>
                        Executing = HereAt(t, k) /\ Verdict = VerdictAt(t, k, result)
LEMMA Maps == Mapped
<1> SUFFICES ASSUME Finished, NEW t, NEW k, NodeAt(t, k, at)
             PROVE  Executing = HereAt(t, k) /\ Verdict = VerdictAt(t, k, result)
  BY DEF Mapped
<1>1. Landed /\ Here = t /\ Position = k /\ Instruction = Nodes(t)[k]
  BY Locates DEF Located
<1>2. phase = "run"
  BY DEF Finished
<1>3. Executing = HereAt(t, k)
  BY <1>1, <1>2 DEF Executing, Unexecuted, BeforeElsePart, HereAt
<1>4. Verdict = VerdictAt(t, k, result)
  BY <1>1, <1>2 DEF Verdict, VerdictAt, Testing, Answer
<1> QED BY <1>3, <1>4

LEMMA Arrives ==
  ASSUME Finished, UNCHANGED <<code, phase>>, Registers',
         NEW u, NEW l, NodeAt(u, l, at'), Comparing(u, l, operands', aux', result')
  PROVE  /\ Inv' /\ Executing' = HereAt(u, l) /\ Verdict' = VerdictAt(u, l, result')
         /\ prog' = prog
<1>1. prog' = prog /\ ir' = ir /\ phase' = phase /\ phase = "run"
  BY DEF code, Finished
<1>2. Built'
  BY <1>1, BuiltKept DEF Finished, Ended
<1>3. Finished'
  BY <1>1, <1>2 DEF Finished
<1>4. NodeAt(u, l, at)'
  BY <1>1 DEF NodeAt, Nodes
<1>5. Executing' = HereAt(u, l)' /\ Verdict' = VerdictAt(u, l, result)'
  <2>1. Mapped'
    BY Maps, PTL
  <2> QED BY <1>3, <1>4, <2>1 DEF Mapped
<1>6. HereAt(u, l)' = HereAt(u, l) /\ VerdictAt(u, l, result)' = VerdictAt(u, l, result')
  BY <1>1 DEF HereAt, VerdictAt, Nodes
<1>7. Running'
  <2>1. Landed'
    <3>1. Located'
      BY Locates, PTL
    <3> QED BY <1>3, <1>4, <3>1 DEF Located
  <2>2. ASSUME NEW t, NEW k, NodeAt(t, k, at)'
        PROVE  Comparing(t, k, operands, aux, result)'
    <3>1. NodeAt(t, k, at')
      BY <1>1, <2>2 DEF NodeAt, Nodes
    <3>2. t = u /\ k = l
      BY <3>1, NodeOnce
    <3> QED BY <1>1, <3>2 DEF Comparing
  <2> QED BY <2>1, <2>2 DEF Running
<1> QED BY <1>1, <1>2, <1>5, <1>6, <1>7 DEF Inv

(* At the first node of a token nothing is asked of the registers.          *)
LEMMA ComparingFirst ==
  ASSUME NEW t, NEW ops, NEW au, NEW res
  PROVE  Comparing(t, 1, ops, au, res)
  BY DEF Comparing, Compares, Front

(* The parts of a machine step.                                             *)
LEMMA MachineAt ==
  ASSUME Inv, phase = "run"
  PROVE  /\ Finished /\ NodeAt(Here, Position, at) /\ Instruction = Nodes(Here)[Position]
         /\ Comparing(Here, Position, operands, aux, result) /\ Registers
         /\ Executing = HereAt(Here, Position) /\ Verdict = VerdictAt(Here, Position, result)
<1>1. Finished /\ Running
  BY DEF Inv, Finished
<1>2. NodeAt(Here, Position, at) /\ Instruction = Nodes(Here)[Position]
  BY <1>1, AtSome DEF Running
<1> QED BY <1>1, <1>2, Maps DEF Inv, Running, Mapped

(* The nodes of the code in front of a body, by what comes before them.     *)
FrontNode(c, m, node, imm) ==
  \/ m = 0 /\ node.kind = "nop"
  \/ c.type = "int" /\ m = 1 /\ node.kind = "sub"
  \/ c.type = "int" /\ m = 2 /\ node.kind = c.op /\ c.op \in Relations /\ node.imm = 12
  \/ c.type = "int" /\ m = 3 /\ node.kind = "li" /\ node.imm = 1
  \/ c.type = "int" /\ m = 4 /\ node.kind = "jal" /\ node.imm = 8
  \/ c.type = "int" /\ m = 5 /\ node.kind = "li" /\ node.imm = 0
  \/ c.type = "float" /\ m = 1 /\ node.kind = FloatKind(c)
  \/ c.type = "value" /\ m = 1 /\ node.kind = "value"
  \/ m = Length(c) + 1 /\ node.kind = "bne" /\ node.imm = imm
LEMMA HeadCases ==
  ASSUME Finished, NEW t \in 1 .. Len(prog), prog[t].kind \in Openers,
         NEW k \in DOMAIN Nodes(t), NEW node, node = Nodes(t)[k],
         NEW m, m = k - Front(prog[t]), NEW c, c = prog[t].cond
  PROVE  /\ c \in Condition
         /\ FrontNode(c, m, node, ir[t].imm)
<1>1. /\ c \in Condition /\ m \in 0 .. 6 /\ k + 1 - m \in {1, 2} /\ m <= Length(c) + 1
      /\ m = 0 => node.kind = "nop" /\ Front(prog[t]) = 1
      /\ m = Length(c) + 1 => node.kind = "bne" /\ node.imm = ir[t].imm /\ k = Len(Nodes(t))
      /\ m \in 1 .. Length(c) => node = Compared(c)[m]
  BY HeadNode
<1>2. c.type \in {"int", "float", "value"} /\ (c.type # "value" => c.op \in Relations)
  BY <1>1, ConditionKinds
<1>3. CASE c.type = "int"
  <2>1. Length(c) = 5 /\ m \in {0, 1, 2, 3, 4, 5, 6}
    BY <1>1, <1>3 DEF Length
  <2>2. m \in {1, 2, 3, 4, 5} => node = Compared(c)[m]
    BY <1>1, <2>1
  <2>3. /\ Compared(c)[1].kind = "sub"
        /\ Compared(c)[2].kind = c.op /\ Compared(c)[2].imm = 12
        /\ Compared(c)[3].kind = "li" /\ Compared(c)[3].imm = 1
        /\ Compared(c)[4].kind = "jal" /\ Compared(c)[4].imm = 8
        /\ Compared(c)[5].kind = "li" /\ Compared(c)[5].imm = 0
    <3>1. /\ Compared(c)[1] = Node("sub", 0) /\ Compared(c)[2] = Node(c.op, 12)
          /\ Compared(c)[3] = Node("li", 1) /\ Compared(c)[4] = Node("jal", 8)
          /\ Compared(c)[5] = Node("li", 0)
      BY <1>1, <1>3, ComparedInt
    <3>2. \A kind, imm : Node(kind, imm).kind = kind /\ Node(kind, imm).imm = imm
      BY DEF Node
    <3> QED BY <3>1, <3>2
  <2> QED BY <1>1, <1>2, <1>3, <2>1, <2>2, <2>3 DEF FrontNode
<1>4. CASE c.type # "int"
  <2>1. Length(c) = 1 /\ m \in {0, 1, 2}
    BY <1>1, <1>4 DEF Length
  <2>2. m = 1 => node = Compared(c)[1]
    BY <1>1, <2>1
  <2>3. /\ c.type = "float" => Compared(c)[1].kind = FloatKind(c)
        /\ c.type = "value" => Compared(c)[1].kind = "value"
    <3>1. /\ c.type = "float" => Compared(c)[1] = Node(FloatKind(c), 0)
          /\ c.type = "value" => Compared(c)[1] = Node("value", 0)
      BY <1>1, <1>4, ComparedOther DEF FloatKind
    <3>2. \A kind, imm : Node(kind, imm).kind = kind /\ Node(kind, imm).imm = imm
      BY DEF Node
    <3> QED BY <3>1, <3>2
  <2> QED BY <1>1, <1>2, <1>4, <2>1, <2>2, <2>3 DEF FrontNode
<1> QED BY <1>3, <1>4

(* A verdict is there only at the branch of a construct.                    *)
LEMMA HeadVerdict ==
  ASSUME Finished, NEW t \in 1 .. Len(prog), prog[t].kind \in Openers,
         NEW k \in DOMAIN Nodes(t), NEW res, NEW c, c = prog[t].cond
  PROVE  VerdictAt(t, k, res) = IF k - Front(prog[t]) = Length(c) + 1
                                  THEN IF res = 0 THEN "true" ELSE "false" ELSE "none"
<1> DEFINE m == k - Front(prog[t])
           node == Nodes(t)[k]
<1>1. /\ c \in Condition
      /\ FrontNode(c, m, node, ir[t].imm)
  BY HeadCases
<1> HIDE DEF m, node
<1>2. node.kind = "bne" <=> m = Length(c) + 1
  BY <1>1 DEF FrontNode, Length, Relations, FloatKind
<1> QED BY <1>2 DEF VerdictAt, m, node

LEMMA PlainVerdict ==
  ASSUME Finished, NEW t \in 1 .. Len(prog), prog[t].kind \notin Openers,
         NEW k \in DOMAIN Nodes(t), NEW res
  PROVE  VerdictAt(t, k, res) = "none"
<1>1. Nodes(t)[k].kind # "bne"
  BY PlainNode
<1> QED BY <1>1 DEF VerdictAt

LEMMA FirstVerdict ==
  ASSUME Finished, NEW t \in 1 .. Len(prog) + 1, NEW res
  PROVE  VerdictAt(t, 1, res) = "none" /\ HereAt(t, 1) = t
<1>1. 1 \in DOMAIN Nodes(t) /\ Len(prog) \in Nat
  BY EntryShape
<1>2. HereAt(t, 1) = t
  BY DEF HereAt
<1>3. CASE t = Len(prog) + 1
  <2>1. Nodes(t)[1].kind = "nop"
    BY <1>3, LastNode DEF Node
  <2> QED BY <1>2, <2>1 DEF VerdictAt
<1>4. CASE t \in 1 .. Len(prog) /\ prog[t].kind \notin Openers
  BY <1>1, <1>2, <1>4, PlainVerdict
<1>5. CASE t \in 1 .. Len(prog) /\ prog[t].kind \in Openers
  <2>1. prog[t].cond \in Condition
    BY <1>5, TokenShape DEF Tokens
  <2>2. 1 - Front(prog[t]) # Length(prog[t].cond) + 1
    BY DEF Front, Length
  <2> QED BY <1>1, <1>2, <1>5, <2>2, HeadVerdict
<1> QED BY <1>1, <1>3, <1>4, <1>5

(* An instruction that is executed is one of a token.                       *)
LEMMA Fetched ==
  ASSUME Inv, phase = "run", at # FunctionEnd, NEW t, t = Here
  PROVE  t \in 1 .. Len(prog) /\ t \in DOMAIN prog
<1>1. Finished /\ NodeAt(t, Position, at)
  BY MachineAt
<1>2. t \in 1 .. Len(prog) + 1 /\ Len(prog) \in Nat /\ Len(ir) = Len(prog) + 1
  BY <1>1, NodesShape DEF NodeAt
<1>3. t # Len(prog) + 1
  <2> SUFFICES ASSUME t = Len(prog) + 1 PROVE FALSE
    OBVIOUS
  <2>1. Nodes(t) = <<Node("nop", 0)>>
    BY <1>1, LastNode
  <2>2. Position = 1
    BY <1>1, <2>1 DEF NodeAt
  <2>3. at = ir[t].address + 4 * (1 - 1) /\ ir[t].address \in Nat
    BY <1>1, <1>2, <2>2, EntryShape DEF NodeAt
  <2>4. at = FunctionEnd
    BY <1>2, <2>3 DEF FunctionEnd
  <2> QED BY <2>4
<1>4. t \in 1 .. Len(prog)
  BY <1>2, <1>3
<1> QED BY <1>1, <1>4, TokenShape

-----------------------------------------------------------------------------
(* The steps of the abstract specification, as it sees the machine.         *)
Simulated == [Structure!Next]_(Structure!vars)
Kept == prog' = prog /\ Verdict' = Verdict
LEMMA Stutters ==
  ASSUME Kept, Executing' = Executing
  PROVE  Simulated
  BY DEF Simulated, Kept, Structure!vars

LEMMA StepsOn ==
  ASSUME Kept, Executing \in DOMAIN prog, prog[Executing].kind \in {"op", "endif"},
         Executing' = Executing + 1
  PROVE  Simulated
  BY DEF Simulated, Kept, Structure!Next, Structure!Operation, Structure!EndIf, Structure!At,
         Structure!Go, Structure!Stay

LEMMA StepsElse ==
  ASSUME Kept, Executing \in DOMAIN prog, prog[Executing].kind = "else",
         Executing' = Structure!EndOf(Structure!OpenerOf(Executing))
  PROVE  Simulated
  BY DEF Simulated, Kept, Structure!Next, Structure!Else, Structure!At, Structure!Go, Structure!Stay

LEMMA StepsBack ==
  ASSUME Kept, Executing \in DOMAIN prog, prog[Executing].kind = "endwhile",
         Executing' = Structure!OpenerOf(Executing)
  PROVE  Simulated
  BY DEF Simulated, Kept, Structure!Next, Structure!EndWhile, Structure!At, Structure!Go,
         Structure!Stay

LEMMA StepsReturn ==
  ASSUME Kept, Executing \in DOMAIN prog, prog[Executing].kind = "return",
         Executing' = Len(prog) + 1
  PROVE  Simulated
  BY DEF Simulated, Kept, Structure!Next, Structure!Return, Structure!At, Structure!Go,
         Structure!Stay

LEMMA StepsEvaluate ==
  ASSUME prog' = prog, Executing' = Executing,
         Executing \in DOMAIN prog, prog[Executing].kind \in Openers,
         Verdict = "none", Verdict' \in {"true", "false"}
  PROVE  Simulated
  BY DEF Simulated, Structure!Next, Structure!Evaluate, Structure!At, Structure!Openers, Openers

LEMMA StepsDecide ==
  ASSUME prog' = prog, Executing \in DOMAIN prog, prog[Executing].kind \in Openers,
         Verdict # "none", Verdict' = "none",
         Executing' = IF Verdict = "true" THEN Executing + 1
                      ELSE IF prog[Executing].kind = "while" THEN Structure!EndOf(Executing) + 1
                      ELSE IF Structure!ElsesOf(Executing) = {} THEN Structure!EndOf(Executing)
                      ELSE Structure!Max(Structure!ElsesOf(Executing)) + 1
  PROVE  Simulated
  BY DEF Simulated, Structure!Next, Structure!Decide, Structure!At, Structure!Openers, Openers,
         Structure!Go

(* A machine step that ends at the first node of a token, and one within    *)
(* the code in front of a body.                                             *)
Executes == phase = "run" /\ UNCHANGED <<code, phase>> /\ Registers'

LEMMA ToStart ==
  ASSUME Inv, Executes, NEW u \in 1 .. Len(prog) + 1, NodeAt(u, 1, at')
  PROVE  Inv' /\ Executing' = u /\ Verdict' = "none" /\ prog' = prog
<1>1. Finished
  BY DEF Inv, Executes, Finished
<1>2. Comparing(u, 1, operands', aux', result')
  BY ComparingFirst
<1>3. VerdictAt(u, 1, result') = "none" /\ HereAt(u, 1) = u
  BY <1>1, FirstVerdict
<1> QED BY <1>1, <1>2, <1>3, Arrives DEF Executes

LEMMA PlainHere ==
  ASSUME Inv, Executes, NEW t \in 1 .. Len(prog), t = Here, prog[t].kind \notin Openers
  PROVE  /\ Verdict = "none" /\ t \in DOMAIN prog
         /\ Executing = IF prog[t].kind = "else" /\ Position = 2 THEN t + 1 ELSE t
<1>1. /\ Finished /\ NodeAt(t, Position, at)
      /\ Executing = HereAt(t, Position) /\ Verdict = VerdictAt(t, Position, result)
  BY MachineAt DEF Executes
<1>2. Position \in DOMAIN Nodes(t) /\ t \in DOMAIN prog
  BY <1>1, TokenShape DEF NodeAt
<1>3. Verdict = "none"
  BY <1>1, <1>2, PlainVerdict
<1> QED BY <1>1, <1>2, <1>3 DEF HereAt

LEMMA WithinHead ==
  ASSUME Inv, Executes, NEW t \in 1 .. Len(prog), t = Here, prog[t].kind \in Openers,
         NEW c, c = prog[t].cond, NEW m, m = Position - Front(prog[t]),
         NEW i \in {1, 2, 3}, at' = at + 4 * i, m + i <= Length(c) + 1,
         Compares(c, m + i, operands', aux', result')
  PROVE  Inv' /\ Simulated
<1> DEFINE k == Position
           token == prog[t]
<1>1. /\ Finished /\ NodeAt(t, k, at) /\ k \in DOMAIN Nodes(t)
      /\ Executing = HereAt(t, k) /\ Verdict = VerdictAt(t, k, result)
  BY MachineAt DEF Executes, NodeAt
<1>2. /\ m \in 0 .. 6 /\ k + 1 - m \in {1, 2}
      /\ \A j \in 0 .. Length(c) + 1 - m : k + j \in DOMAIN Nodes(t)
  BY <1>1, HeadNode
<1>3. Length(c) \in {1, 5} /\ Front(token) \in {0, 1} /\ m = k - Front(token) /\ m \in Int
  BY <1>2 DEF Length, Front
<1>4. k \in Int
  BY <1>1, EntryShape, TokenShape
<1> HIDE DEF k, token
<1>5. i \in 0 .. Length(c) + 1 - m /\ (k + i) - Front(token) = m + i
  <2>1. Length(c) \in Int /\ Front(token) \in Int
    BY <1>3
  <2>2. i \in Int /\ 0 <= i
    OBVIOUS
  <2>3. i <= Length(c) + 1 - m
    BY <1>3, <2>1, <2>2
  <2>4. (k + i) - Front(token) = m + i
    BY <1>3, <1>4, <2>1, <2>2
  <2> QED BY <1>3, <2>1, <2>2, <2>3, <2>4
<1>6. k + i \in DOMAIN Nodes(t)
  BY <1>2, <1>5
<1>7. NodeAt(t, k + i, at')
  <2>1. NodeAt(t, k + i, at + 4 * ((k + i) - k))
    BY <1>1, <1>6, WithinToken
  <2>2. (k + i) - k = i
    BY <1>4
  <2> QED BY <2>1, <2>2
<1>8. Comparing(t, k + i, operands', aux', result')
  BY <1>5 DEF Comparing, token
<1>9. /\ Inv' /\ Executing' = HereAt(t, k + i) /\ Verdict' = VerdictAt(t, k + i, result')
      /\ prog' = prog
  BY <1>1, <1>7, <1>8, Arrives DEF Executes
<1>10. Executing = t /\ Executing' = t /\ t \in DOMAIN prog
  <2>1. prog[t].kind # "else"
    BY DEF Openers
  <2> QED BY <1>1, <1>9, <2>1, TokenShape DEF HereAt
<1>11. Verdict = "none"
  <2>1. k - Front(token) # Length(c) + 1
    BY <1>3
  <2> QED BY <1>1, <2>1, HeadVerdict DEF token
<1>12. Verdict' = IF m + i = Length(c) + 1 THEN IF result' = 0 THEN "true" ELSE "false" ELSE "none"
  BY <1>1, <1>5, <1>6, <1>9, HeadVerdict DEF token
<1>13. Simulated
  <2>1. CASE m + i = Length(c) + 1
    BY <1>9, <1>10, <1>11, <1>12, <2>1, StepsEvaluate
  <2>2. CASE m + i # Length(c) + 1
    BY <1>9, <1>10, <1>11, <1>12, <2>2, Stutters DEF Kept
  <2> QED BY <2>1, <2>2
<1> QED BY <1>9, <1>13

(* What the machine fetches.                                                *)
LEMMA Fetches ==
  ASSUME Inv, NEW kinds, Fetch(kinds), NEW t, t = Here, NEW k, k = Position
  PROVE  /\ phase = "run" /\ Finished /\ Registers
         /\ t \in 1 .. Len(prog) /\ t \in DOMAIN prog /\ k \in DOMAIN Nodes(t)
         /\ NodeAt(t, k, at) /\ Instruction = Nodes(t)[k] /\ Instruction.kind \in kinds
         /\ Comparing(t, k, operands, aux, result)
  BY Fetched, MachineAt DEF Fetch, NodeAt

LEMMA FetchesHead ==
  ASSUME Inv, NEW kinds, Fetch(kinds), NEW t, t = Here, prog[t].kind \in Openers,
         NEW c, c = prog[t].cond, NEW m, m = Position - Front(prog[t])
  PROVE  /\ c \in Condition /\ Compares(c, m, operands, aux, result)
         /\ FrontNode(c, m, Instruction, ir[t].imm)
<1> DEFINE k == Position
<1>1. /\ Finished /\ t \in 1 .. Len(prog) /\ t \in DOMAIN prog /\ k \in DOMAIN Nodes(t)
      /\ Instruction = Nodes(t)[k] /\ Comparing(t, k, operands, aux, result)
  BY Fetches
<1>2. Compares(c, m, operands, aux, result)
  BY <1>1 DEF Comparing
<1> QED BY <1>1, <1>2, HeadCases

(* Fixed displacements.                                                     *)
LEMMA FieldWithin ==
  ASSUME Inv, NEW kinds, Fetch(kinds), NEW t, t = Here, prog[t].kind \in Openers,
         NEW c, c = prog[t].cond, NEW m, m = Position - Front(prog[t]),
         NEW i \in {1, 2, 3}, m + i <= Length(c) + 1, NEW imm, imm = 4 * i,
         NEW v \in {BranchValues, JumpValues}
  PROVE  at + SignedField(imm, v) = at + 4 * i
<1> DEFINE k == Position
           token == prog[t]
<1>1. /\ Finished /\ t \in 1 .. Len(prog) /\ k \in DOMAIN Nodes(t) /\ NodeAt(t, k, at)
  BY Fetches
<1>2. /\ m \in 0 .. 6 /\ \A j \in 0 .. Length(c) + 1 - m : k + j \in DOMAIN Nodes(t)
  BY <1>1, HeadNode
<1>3. Length(c) \in {1, 5} /\ m \in Int
  BY <1>2 DEF Length
<1>4. k \in Int /\ at \in Int
  BY <1>1, EntryShape, TokenShape, AddressRange, BoundsAssumption
<1> HIDE DEF k
<1>5. i \in 0 .. Length(c) + 1 - m
  BY <1>3
<1>6. NodeAt(t, k + i, at + 4 * ((k + i) - k))
  BY <1>1, <1>2, <1>5, WithinToken
<1>7. at + 4 * ((k + i) - k) = at + 4 * i /\ (at + 4 * i) - at = imm
  BY <1>4
<1>8. NodeAt(t, k + i, at + 4 * i)
  BY <1>6, <1>7
<1> QED BY <1>1, <1>7, <1>8, Reaches

(* The step to the token behind.                                            *)
LEMMA ToNext ==
  ASSUME Inv, Executes, NEW t \in 1 .. Len(prog), t = Here, Position = Len(Nodes(t)),
         at' = at + (IF prog[t].kind = "op" THEN Size(prog[t]) ELSE 4)
  PROVE  Inv' /\ Executing' = t + 1 /\ Verdict' = "none" /\ prog' = prog
<1>1. Finished /\ NodeAt(t, Position, at)
  BY MachineAt DEF Executes
<1>2. NodeAt(t + 1, 1, at')
  BY <1>1, NextToken
<1> QED BY <1>1, <1>2, ToStart, TokenShape

LEMMA InvSubtract ==
  ASSUME Inv, Subtract
  PROVE  Inv' /\ Simulated
<1> DEFINE t == Here
           c == prog[t].cond
           m == Position - Front(prog[t])
<1>1. /\ Finished /\ Registers /\ t \in 1 .. Len(prog) /\ Instruction.kind = "sub" /\ Fetch({"sub"})
      /\ Instruction = Nodes(t)[Position] /\ Position \in DOMAIN Nodes(t)
  BY Fetches DEF Subtract
<1>2. prog[t].kind \in Openers
  BY <1>1, PlainNode
<1>3. c.type = "int" /\ m = 1
  BY <1>1, <1>2, FetchesHead DEF FrontNode, Relations, FloatKind
<1>4. /\ at' = at + 4 * 1 /\ UNCHANGED <<code, phase>> /\ phase = "run" /\ result' = result
      /\ operands' \in IntWords \X IntWords
      /\ aux' = SignedField(Difference(operands'[1], operands'[2]), WordValues)
  BY <1>1 DEF Subtract, Continue, Jump, Fetch
<1>5. aux' \in IntWords
  <2>1. Difference(operands'[1], operands'[2]) \in Int
    BY <1>4, Halves DEF Difference, IntWords
  <2> QED BY <1>4, <2>1, FieldOf DEF IntWords
<1>6. Executes
  BY <1>1, <1>4, <1>5 DEF Executes, Registers
<1> HIDE DEF t, c, m
<1>7. Compares(c, m + 1, operands', aux', result')
  BY <1>3, <1>4 DEF Compares
<1>8. m + 1 <= Length(c) + 1
  BY <1>3 DEF Length
<1> QED BY <1>1, <1>2, <1>4, <1>6, <1>7, <1>8, WithinHead DEF t, c, m

LEMMA InvBranch ==
  ASSUME Inv, Branch
  PROVE  Inv' /\ Simulated
<1> DEFINE t == Here
           c == prog[t].cond
           m == Position - Front(prog[t])
<1>1. /\ Finished /\ Registers /\ t \in 1 .. Len(prog) /\ Fetch(Relations) /\ phase = "run"
      /\ Instruction.kind \in Relations
      /\ Instruction = Nodes(t)[Position] /\ Position \in DOMAIN Nodes(t)
  BY Fetches DEF Branch
<1>2. prog[t].kind \in Openers
  BY <1>1, PlainNode DEF Relations
<1>3. /\ c.type = "int" /\ m = 2 /\ Instruction.kind = c.op /\ Instruction.imm = 12
      /\ Compares(c, m, operands, aux, result)
  BY <1>1, <1>2, FetchesHead DEF FrontNode, Relations, FloatKind
<1>4. UNCHANGED <<code, phase, operands, aux, result>>
  BY <1>1 DEF Branch, Continue, Jump
<1>5. Executes
  BY <1>1, <1>4 DEF Executes, Registers
<1>6. Length(c) = 5
  BY <1>3 DEF Length
<1>7. CASE Related(c.op, aux, 0)
  <2>1. at' = at + SignedField(12, BranchValues)
    BY <1>3, <1>7 DEF Branch, Jump
  <2>2. m + 3 <= Length(c) + 1 /\ 12 = 4 * 3
    BY <1>3, <1>6
  <2>3. at' = at + 4 * 3
    BY <1>1, <1>2, <2>1, <2>2, FieldWithin
  <2>4. Compares(c, m + 3, operands', aux', result')
    BY <1>3, <1>4, <1>7 DEF Compares
  <2> HIDE DEF t, c, m
  <2> QED BY <1>1, <1>2, <1>5, <2>2, <2>3, <2>4, WithinHead DEF t, c, m
<1>8. CASE ~Related(c.op, aux, 0)
  <2>1. at' = at + 4 * 1
    BY <1>1, <1>3, <1>8 DEF Branch, Continue, Jump, Relations
  <2>2. m + 1 <= Length(c) + 1
    BY <1>3, <1>6
  <2>3. Compares(c, m + 1, operands', aux', result')
    BY <1>3, <1>4, <1>8 DEF Compares
  <2> HIDE DEF t, c, m
  <2> QED BY <1>1, <1>2, <1>5, <2>1, <2>2, <2>3, WithinHead DEF t, c, m
<1> QED BY <1>7, <1>8

LEMMA InvLoadImmediate ==
  ASSUME Inv, LoadImmediate
  PROVE  Inv' /\ Simulated
<1> DEFINE t == Here
           c == prog[t].cond
           m == Position - Front(prog[t])
<1>1. /\ Finished /\ Registers /\ t \in 1 .. Len(prog) /\ Fetch({"li"}) /\ phase = "run"
      /\ Instruction.kind = "li"
      /\ Instruction = Nodes(t)[Position] /\ Position \in DOMAIN Nodes(t)
  BY Fetches DEF LoadImmediate
<1>2. prog[t].kind \in Openers
  BY <1>1, PlainNode
<1>3. /\ c.type = "int" /\ ((m = 3 /\ Instruction.imm = 1) \/ (m = 5 /\ Instruction.imm = 0))
      /\ Compares(c, m, operands, aux, result)
  BY <1>1, <1>2, FetchesHead DEF FrontNode, Relations, FloatKind
<1>4. /\ at' = at + 4 * 1 /\ result' = Instruction.imm /\ UNCHANGED <<code, phase, operands, aux>>
  BY <1>1 DEF LoadImmediate, Continue, Jump
<1>5. Executes
  BY <1>1, <1>3, <1>4 DEF Executes, Registers
<1>6. m + 1 <= Length(c) + 1
  BY <1>3 DEF Length
<1>7. Compares(c, m + 1, operands', aux', result')
  BY <1>3, <1>4 DEF Compares
<1> HIDE DEF t, c, m
<1> QED BY <1>1, <1>2, <1>4, <1>5, <1>6, <1>7, WithinHead DEF t, c, m

LEMMA InvValue ==
  ASSUME Inv, Value
  PROVE  Inv' /\ Simulated
<1> DEFINE t == Here
           c == prog[t].cond
           m == Position - Front(prog[t])
<1>1. /\ Finished /\ Registers /\ t \in 1 .. Len(prog) /\ Fetch({"value"}) /\ phase = "run"
      /\ Instruction.kind = "value"
      /\ Instruction = Nodes(t)[Position] /\ Position \in DOMAIN Nodes(t)
  BY Fetches DEF Value
<1>2. prog[t].kind \in Openers
  BY <1>1, PlainNode
<1>3. c.type = "value" /\ m = 1
  BY <1>1, <1>2, FetchesHead DEF FrontNode, Relations, FloatKind
<1>4. /\ at' = at + 4 * 1 /\ result' \in {0, 1} /\ UNCHANGED <<code, phase, operands, aux>>
  BY <1>1 DEF Value, Continue, Jump
<1>5. Executes
  BY <1>1, <1>4 DEF Executes, Registers
<1>6. m + 1 <= Length(c) + 1
  BY <1>3 DEF Length
<1>7. Compares(c, m + 1, operands', aux', result')
  BY <1>3 DEF Compares
<1> HIDE DEF t, c, m
<1> QED BY <1>1, <1>2, <1>4, <1>5, <1>6, <1>7, WithinHead DEF t, c, m

LEMMA InvFloatCompare ==
  ASSUME Inv, FloatCompare
  PROVE  Inv' /\ Simulated
<1> DEFINE t == Here
           c == prog[t].cond
           m == Position - Front(prog[t])
<1>1. /\ Finished /\ Registers /\ t \in 1 .. Len(prog) /\ Fetch({"flt", "fle"}) /\ phase = "run"
      /\ Instruction.kind \in {"flt", "fle"}
      /\ Instruction = Nodes(t)[Position] /\ Position \in DOMAIN Nodes(t)
  BY Fetches DEF FloatCompare
<1>2. prog[t].kind \in Openers
  BY <1>1, PlainNode
<1>3. c.type = "float" /\ m = 1 /\ Instruction.kind = FloatKind(c)
  BY <1>1, <1>2, FetchesHead DEF FrontNode, Relations
<1>4. /\ at' = at + 4 * 1 /\ UNCHANGED <<code, phase, aux>>
  BY <1>1 DEF FloatCompare, Continue, Jump
<1>5. /\ operands' \in Floats \X Floats
      /\ result' = IF Holding(FloatKind(c), c.op \in Exchanged, operands'[1], operands'[2])
                     THEN 1 ELSE 0
  BY <1>3 DEF FloatCompare
<1>6. Executes
  BY <1>1, <1>4, <1>5 DEF Executes, Registers
<1>7. m + 1 <= Length(c) + 1
  BY <1>3 DEF Length
<1>8. Compares(c, m + 1, operands', aux', result')
  BY <1>3, <1>5 DEF Compares
<1> HIDE DEF t, c, m
<1> QED BY <1>1, <1>2, <1>4, <1>6, <1>7, <1>8, WithinHead DEF t, c, m

LEMMA InvStraightforward ==
  ASSUME Inv, Straightforward
  PROVE  Inv' /\ Simulated
<1> DEFINE t == Here
           k == Position
<1>1. /\ Finished /\ Registers /\ t \in 1 .. Len(prog) /\ t \in DOMAIN prog
      /\ Fetch({"nop", "block", "mov"}) /\ phase = "run"
      /\ Instruction.kind \in {"nop", "block", "mov"}
      /\ Instruction = Nodes(t)[k] /\ k \in DOMAIN Nodes(t) /\ NodeAt(t, k, at)
  BY Fetches DEF Straightforward
<1>2. /\ UNCHANGED <<code, phase, operands, aux, result>>
      /\ at' = at + (IF Instruction.kind = "block" THEN Size(prog[t]) ELSE 4)
  BY DEF Straightforward, Continue, Jump
<1>3. Executes
  BY <1>1, <1>2 DEF Executes, Registers
<1>4. CASE prog[t].kind \in Openers
  <2> DEFINE c == prog[t].cond
             m == Position - Front(prog[t])
  <2>1. m = 0 /\ Instruction.kind = "nop"
    BY <1>1, <1>4, FetchesHead DEF FrontNode, Relations, FloatKind
  <2>2. at' = at + 4 * 1
    BY <1>2, <2>1
  <2>3. m + 1 <= Length(c) + 1
    BY <2>1 DEF Length
  <2>4. Compares(c, m + 1, operands', aux', result')
    BY <2>1 DEF Compares
  <2> HIDE DEF t, c, m, k
  <2> QED BY <1>1, <1>3, <1>4, <2>2, <2>3, <2>4, WithinHead DEF t, c, m
<1>5. CASE prog[t].kind \notin Openers
  <2>1. \/ prog[t].kind = "op" /\ k = 1 /\ Len(Nodes(t)) = 1 /\ Instruction.kind = "block"
        \/ prog[t].kind = "else" /\ k = 2 /\ Len(Nodes(t)) = 2 /\ Instruction.kind = "nop"
        \/ prog[t].kind = "endif" /\ k = 1 /\ Len(Nodes(t)) = 1 /\ Instruction.kind = "nop"
        \/ prog[t].kind = "return" /\ k = 1 /\ Len(Nodes(t)) = 2 /\ Instruction.kind = "mov"
    BY <1>1, <1>5, PlainNode
  <2>2. Verdict = "none" /\ Executing = IF prog[t].kind = "else" /\ k = 2 THEN t + 1 ELSE t
    BY <1>1, <1>3, <1>5, PlainHere
  <2>3. CASE prog[t].kind # "return"
    <3>1. k = Len(Nodes(t)) /\ at' = at + (IF prog[t].kind = "op" THEN Size(prog[t]) ELSE 4)
      BY <1>2, <2>1, <2>3
    <3>2. Inv' /\ Executing' = t + 1 /\ Verdict' = "none" /\ prog' = prog
      BY <1>1, <1>3, <3>1, ToNext
    <3>3. CASE prog[t].kind = "else"
      <4>1. Executing' = Executing
        BY <2>1, <2>2, <3>2, <3>3
      <4> QED BY <2>2, <3>2, <4>1, Stutters DEF Kept
    <3>4. CASE prog[t].kind # "else"
      <4>1. Executing = t /\ prog[t].kind \in {"op", "endif"}
        BY <2>1, <2>2, <2>3, <3>4
      <4> QED BY <1>1, <2>2, <3>2, <4>1, StepsOn DEF Kept
    <3> QED BY <3>3, <3>4
  <2>4. CASE prog[t].kind = "return"
    <3>1. /\ k = 1 /\ Len(Nodes(t)) = 2 /\ at' = at + 4
      BY <1>2, <2>1, <2>4
    <3>2. 2 \in DOMAIN Nodes(t)
      BY <1>1, <3>1, EntryShape, TokenShape
    <3>3. NodeAt(t, 2, at + 4 * (2 - 1))
      BY <1>1, <3>1, <3>2, WithinToken
    <3>4. NodeAt(t, 2, at')
      <4>1. at + 4 * (2 - 1) = at + 4
        OBVIOUS
      <4> QED BY <3>1, <3>3, <4>1
    <3>5. Comparing(t, 2, operands', aux', result')
      BY <1>5 DEF Comparing
    <3>6. Inv' /\ Executing' = HereAt(t, 2) /\ Verdict' = VerdictAt(t, 2, result') /\ prog' = prog
      BY <1>1, <1>3, <3>4, <3>5, Arrives DEF Executes
    <3>7. Executing' = t /\ Executing = t
      BY <2>2, <2>4, <3>6 DEF HereAt
    <3>8. Verdict' = "none"
      BY <1>1, <1>5, <3>2, <3>6, PlainVerdict
    <3> QED BY <2>2, <3>6, <3>7, <3>8, Stutters DEF Kept
  <2> QED BY <2>3, <2>4
<1> QED BY <1>4, <1>5

(* The parts of a finished body that belong together.                       *)
LEMMA PairPatched ==
  ASSUME Finished, NEW i \in 1 .. Len(prog), NEW j \in 1 .. Len(prog), Closed(prog, i, j)
  PROVE  PatchedPair(prog, ir, i, j)
  BY DEF Finished, Built, Patched

LEMMA ElseBelongs ==
  ASSUME Finished, NEW e \in 1 .. Len(prog), prog[e].kind = "else"
  PROVE  \E i, j \in 1 .. Len(prog) :
           /\ Closed(prog, i, j) /\ Owned(prog, i, e) /\ IsElse(prog, e) /\ e \in i .. j
           /\ prog[i].kind = "if"
<1>1. IsElse(prog, e) /\ Len(prog) \in Nat
  BY NodesShape DEF IsElse
<1>2. PICK i \in 1 .. Len(prog) : prog[i].kind = "if" /\ Owned(prog, i, e)
  BY <1>1 DEF Finished, Built, Nested, ElsesOwned
<1>3. PICK j \in 1 .. Len(prog) : Closed(prog, i, j)
  BY <1>2, AllClosed DEF Openers
<1>4. e \in i .. j
  <2>1. i <= e
    BY <1>2 DEF Owned
  <2> SUFFICES ASSUME j < e PROVE FALSE
    BY <1>1, <2>1
  <2>2. j \in i .. e
    BY <1>1, <1>3 DEF Closed
  <2>3. Nest(prog, i, j) > 0 /\ Nest(prog, i, j) = 0
    BY <1>2, <1>3, <2>2 DEF Closed, Owned
  <2> QED BY <2>3
<1> QED BY <1>1, <1>2, <1>3, <1>4

LEMMA ElseTarget ==
  ASSUME Finished, NEW e \in 1 .. Len(prog), prog[e].kind = "else"
  PROVE  \E j \in 1 .. Len(prog) :
           /\ ir[e].imm = ir[j].address - ir[e].address
           /\ Structure!EndOf(Structure!OpenerOf(e)) = j
<1>1. PICK i \in 1 .. Len(prog), j \in 1 .. Len(prog) :
        /\ Closed(prog, i, j) /\ Owned(prog, i, e) /\ IsElse(prog, e) /\ e \in i .. j
        /\ prog[i].kind = "if"
  BY ElseBelongs
<1>2. PatchedIf(prog, ir, i, j)
  BY <1>1, PairPatched DEF PatchedPair, PatchedLoop
<1>3. ir[e].imm = ir[j].address - ir[e].address
  BY <1>1, <1>2 DEF PatchedIf, PatchedElse
<1>4. Structure!OpenerOf(e) = i
  BY <1>1, OpenerOfElse
<1>5. Structure!EndOf(i) = j
  BY <1>1, EndOfIs
<1> QED BY <1>3, <1>4, <1>5

LEMMA LoopTarget ==
  ASSUME Finished, NEW j \in 1 .. Len(prog), prog[j].kind = "endwhile"
  PROVE  \E i \in 1 .. Len(prog) :
           /\ ir[j].imm = ir[i].address - ir[j].address
           /\ Structure!OpenerOf(j) = i
<1>1. PICK i \in 1 .. Len(prog) : Closed(prog, i, j)
  BY DEF Finished, Built, Nested, EndersClose, Enders
<1>2. PatchedLoop(prog, ir, i, j)
  BY <1>1, PairPatched DEF PatchedPair, PatchedIf
<1> QED BY <1>1, <1>2, OpenerOfEnder DEF PatchedLoop

LEMMA InvJumpAway ==
  ASSUME Inv, JumpAway
  PROVE  Inv' /\ Simulated
<1> DEFINE t == Here
           k == Position
<1>1. /\ Finished /\ Registers /\ t \in 1 .. Len(prog) /\ t \in DOMAIN prog
      /\ Fetch({"jal"}) /\ phase = "run" /\ Instruction.kind = "jal"
      /\ Instruction = Nodes(t)[k] /\ k \in DOMAIN Nodes(t) /\ NodeAt(t, k, at)
  BY Fetches DEF JumpAway
<1>2. /\ UNCHANGED <<code, phase, operands, aux, result>>
      /\ at' = at + SignedField(Instruction.imm, JumpValues)
  BY DEF JumpAway, Jump
<1>3. Executes
  BY <1>1, <1>2 DEF Executes, Registers
<1>4. CASE prog[t].kind \in Openers
  <2> DEFINE c == prog[t].cond
             m == Position - Front(prog[t])
  <2>1. /\ m = 4 /\ Instruction.imm = 8 /\ c.type = "int"
        /\ Compares(c, m, operands, aux, result)
    BY <1>1, <1>4, FetchesHead DEF FrontNode, Relations, FloatKind
  <2>2. m + 2 <= Length(c) + 1 /\ 8 = 4 * 2
    BY <2>1 DEF Length
  <2>3. at' = at + 4 * 2
    BY <1>1, <1>2, <1>4, <2>1, <2>2, FieldWithin
  <2>4. Compares(c, m + 2, operands', aux', result')
    BY <1>2, <2>1 DEF Compares
  <2> HIDE DEF t, c, m, k
  <2> QED BY <1>1, <1>3, <1>4, <2>2, <2>3, <2>4, WithinHead DEF t, c, m
<1>5. CASE prog[t].kind \notin Openers
  <2>1. prog[t].kind \in {"else", "endwhile"} /\ k = 1 /\ Instruction.imm = ir[t].imm
    BY <1>1, <1>5, PlainNode
  <2>2. Verdict = "none" /\ Executing = t
    BY <1>1, <1>3, <1>5, <2>1, PlainHere
  <2>3. t \in 1 .. Len(prog) + 1 /\ ir[t].address \in Nat
    BY <1>1, TokenShape, EntryShape
  <2>4. at = ir[t].address
    <3>1. at = ir[t].address + 4 * (1 - 1)
      BY <1>1, <2>1 DEF NodeAt
    <3> QED BY <2>3, <3>1
  <2>5. ASSUME NEW u \in 1 .. Len(prog), ir[t].imm = ir[u].address - ir[t].address
        PROVE  Inv' /\ Executing' = u /\ Verdict' = "none" /\ prog' = prog
    <3>1. u \in 1 .. Len(prog) + 1
      BY <1>1, TokenShape
    <3>2. NodeAt(u, 1, ir[u].address)
      BY <1>1, <3>1, TokenStart
    <3>3. at + SignedField(Instruction.imm, JumpValues) = ir[u].address
      <4>1. Instruction.imm = ir[u].address - at
        BY <2>1, <2>4, <2>5
      <4> QED BY <1>1, <3>2, <4>1, Reaches
    <3>4. NodeAt(u, 1, at')
      BY <1>2, <3>2, <3>3
    <3> QED BY <1>3, <3>1, <3>4, ToStart
  <2>6. CASE prog[t].kind = "else"
    <3>1. PICK j \in 1 .. Len(prog) : /\ ir[t].imm = ir[j].address - ir[t].address
                                      /\ Structure!EndOf(Structure!OpenerOf(t)) = j
      BY <1>1, <2>6, ElseTarget
    <3>2. Inv' /\ Executing' = j /\ Verdict' = "none" /\ prog' = prog
      BY <2>5, <3>1
    <3> QED BY <1>1, <2>2, <2>6, <3>1, <3>2, StepsElse DEF Kept
  <2>7. CASE prog[t].kind = "endwhile"
    <3>1. PICK i \in 1 .. Len(prog) : /\ ir[t].imm = ir[i].address - ir[t].address
                                      /\ Structure!OpenerOf(t) = i
      BY <1>1, <2>7, LoopTarget
    <3>2. Inv' /\ Executing' = i /\ Verdict' = "none" /\ prog' = prog
      BY <2>5, <3>1
    <3> QED BY <1>1, <2>2, <2>7, <3>1, <3>2, StepsBack DEF Kept
  <2> QED BY <2>1, <2>6, <2>7
<1> QED BY <1>4, <1>5

LEMMA InvReturnJump ==
  ASSUME Inv, ReturnJump
  PROVE  Inv' /\ Simulated
<1> DEFINE t == Here
           k == Position
           u == Len(prog) + 1
<1>1. /\ Finished /\ Registers /\ t \in 1 .. Len(prog) /\ t \in DOMAIN prog
      /\ Fetch({"return"}) /\ phase = "run" /\ Instruction.kind = "return"
      /\ Instruction = Nodes(t)[k] /\ k \in DOMAIN Nodes(t) /\ NodeAt(t, k, at)
  BY Fetches DEF ReturnJump
<1>2. /\ UNCHANGED <<code, phase, operands, aux, result>>
      /\ at' = at + SignedField(FunctionEnd - at, JumpValues)
  BY DEF ReturnJump, Jump
<1>3. Executes
  BY <1>1, <1>2 DEF Executes, Registers
<1>4. prog[t].kind \notin Openers
  <2> SUFFICES ASSUME prog[t].kind \in Openers PROVE FALSE
    OBVIOUS
  <2> QED BY <1>1, FetchesHead DEF FrontNode, Relations, FloatKind
<1>5. prog[t].kind = "return"
  BY <1>1, <1>4, PlainNode
<1>6. Verdict = "none" /\ Executing = t
  BY <1>1, <1>3, <1>4, <1>5, PlainHere
<1>7. Len(prog) \in Nat /\ Len(ir) = u /\ u \in 1 .. Len(prog) + 1
  BY <1>1, LastShape
<1>8. NodeAt(u, 1, ir[u].address)
  BY <1>1, <1>7, TokenStart
<1>9. FunctionEnd = ir[u].address
  BY <1>7 DEF FunctionEnd
<1>10. at + SignedField(FunctionEnd - at, JumpValues) = ir[u].address
  <2>1. FunctionEnd - at = ir[u].address - at
    BY <1>9
  <2> QED BY <1>1, <1>8, <2>1, Reaches
<1>11. NodeAt(u, 1, at')
  BY <1>2, <1>8, <1>10
<1>12. Inv' /\ Executing' = u /\ Verdict' = "none" /\ prog' = prog
  BY <1>3, <1>7, <1>11, ToStart
<1> QED BY <1>1, <1>5, <1>6, <1>12, StepsReturn DEF Kept

(* Where the branch of a construct goes, and that it is the last node.      *)
LEMMA BranchIs ==
  ASSUME Finished, NEW t \in 1 .. Len(prog), prog[t].kind \in Openers,
         NEW k, k = Len(Nodes(t)), NodeAt(t, k, at)
  PROVE  at = BranchAddress(prog, ir, t)
<1>1. /\ prog[t] \in Tokens /\ Nodes(t) = Code(prog[t], ir[t].imm) /\ Size(prog[t]) \in Nat
      /\ t \in 1 .. Len(prog) + 1
  BY TokenShape
<1>2. ir[t].address \in Nat /\ ir[t].imm \in Int /\ Len(Nodes(t)) \in Nat
  BY <1>1, EntryShape
<1>3. prog[t].kind # "op"
  BY DEF Openers
<1> DEFINE len == Len(Nodes(t))
<1>4. Size(prog[t]) = 4 * len
  BY <1>1, <1>2, <1>3, CodeSize
<1>5. at = ir[t].address + 4 * (len - 1)
  BY DEF NodeAt
<1>6. len \in Nat
  BY <1>2
<1> HIDE DEF len
<1>7. at = ir[t].address + Size(prog[t]) - 4
  BY <1>1, <1>2, <1>4, <1>5, <1>6
<1> QED BY <1>7 DEF BranchAddress

LEMMA LoopLeft ==
  ASSUME Finished, NEW i \in 1 .. Len(prog), prog[i].kind = "while"
  PROVE  \E j \in 1 .. Len(prog) :
           /\ ir[i].imm = ir[j + 1].address - BranchAddress(prog, ir, i)
           /\ Structure!EndOf(i) = j
<1>1. PICK j \in 1 .. Len(prog) : Closed(prog, i, j)
  BY AllClosed DEF Openers
<1>2. PatchedLoop(prog, ir, i, j)
  BY <1>1, PairPatched DEF PatchedPair, PatchedIf
<1>3. ir[j + 1].address = ir[j].address + 4
  <2>1. prog[j] \in Tokens /\ j + 1 \in 1 .. Len(prog) + 1
    BY TokenShape
  <2>2. Size(prog[j]) = 4
    BY <1>2, <2>1, EndSize DEF PatchedLoop
  <2>3. AddressIn(ir, lastAddress, j + 1) = ir[j + 1].address
    BY <2>1, EntryShape DEF AddressIn
  <2>4. Consecutive(prog, ir, lastAddress)
    BY DEF Finished, Built, Addressed
  <2> QED BY <2>2, <2>3, <2>4 DEF Consecutive
<1> QED BY <1>1, <1>2, <1>3, EndOfIs DEF PatchedLoop

LEMMA IfLeft ==
  ASSUME Finished, NEW i \in 1 .. Len(prog), prog[i].kind = "if"
  PROVE  \/ \E j \in 1 .. Len(prog) :
              /\ ir[i].imm = ir[j].address - BranchAddress(prog, ir, i)
              /\ Structure!ElsesOf(i) = {} /\ Structure!EndOf(i) = j
         \/ \E e \in 1 .. Len(prog) :
              /\ ir[i].imm = (ir[e].address + 4) - BranchAddress(prog, ir, i)
              /\ Structure!ElsesOf(i) = {e} /\ prog[e].kind = "else"
<1>1. PICK j \in 1 .. Len(prog) : Closed(prog, i, j)
  BY AllClosed DEF Openers
<1>2. PatchedIf(prog, ir, i, j)
  BY <1>1, PairPatched DEF PatchedPair, PatchedLoop
<1>3. \A e : e \in Structure!ElsesOf(i) <=> e \in i .. j /\ IsElse(prog, e) /\ Owned(prog, i, e)
  BY <1>1, ElsesOfIs
<1>4. CASE WithoutElse(prog, i, j)
  <2>1. Structure!ElsesOf(i) = {}
    BY <1>3, <1>4 DEF WithoutElse
  <2>2. ir[i].imm = ir[j].address - BranchAddress(prog, ir, i)
    BY <1>2, <1>4 DEF PatchedIf
  <2> QED BY <1>1, <2>1, <2>2, EndOfIs
<1>5. CASE ~WithoutElse(prog, i, j)
  <2>1. PICK e \in i .. j : IsElse(prog, e) /\ Owned(prog, i, e)
    BY <1>5 DEF WithoutElse
  <2>2. e \in 1 .. Len(prog) /\ Len(prog) \in Nat
    BY NodesShape
  <2>3. ir[i].imm = (ir[e].address + 4) - BranchAddress(prog, ir, i)
    BY <1>2, <2>1 DEF PatchedIf, PatchedElse
  <2>4. ASSUME NEW f \in Structure!ElsesOf(i) PROVE f = e
    <3>1. f \in i .. j /\ IsElse(prog, f) /\ Owned(prog, i, f)
      BY <1>3, <2>4
    <3>2. f \in 1 .. Len(prog)
      BY <2>2, <3>1
    <3> QED BY <2>1, <2>2, <3>1, <3>2 DEF Finished, Built, Nested, OneElse
  <2>5. e \in Structure!ElsesOf(i)
    BY <1>3, <2>1
  <2>6. Structure!ElsesOf(i) = {e}
    BY <2>4, <2>5
  <2> QED BY <2>1, <2>2, <2>3, <2>6 DEF IsElse
<1> QED BY <1>4, <1>5

LEMMA MaxOfOne ==
  ASSUME NEW e \in Int
  PROVE  Structure!Max({e}) = e
<1>1. Structure!Max({e}) = CHOOSE x \in {e} : \A y \in {e} : x >= y
  BY DEF Structure!Max
<1> QED BY <1>1

LEMMA InvTest ==
  ASSUME Inv, Test
  PROVE  Inv' /\ Simulated
<1> DEFINE t == Here
           k == Position
           c == prog[t].cond
           m == k - Front(prog[t])
           n == Len(prog)
<1>1. /\ Finished /\ Registers /\ t \in 1 .. n /\ t \in DOMAIN prog
      /\ Fetch({"bne"}) /\ phase = "run" /\ Instruction.kind = "bne"
      /\ Instruction = Nodes(t)[k] /\ k \in DOMAIN Nodes(t) /\ NodeAt(t, k, at)
  BY Fetches DEF Test
<1>2. /\ UNCHANGED <<code, phase>> /\ operands' = <<>> /\ aux' = 0 /\ result' = 0
      /\ result # 0 => at' = at + SignedField(Instruction.imm, BranchValues)
      /\ result = 0 => at' = at + 4
  BY <1>1 DEF Test, Jump, Continue
<1>3. Executes
  <2>1. 0 \in IntWords
    BY Halves DEF IntWords
  <2> QED BY <1>1, <1>2, <2>1 DEF Executes, Registers
<1>4. prog[t].kind \in Openers
  BY <1>1, PlainNode
<1>5. Instruction.imm = ir[t].imm /\ m = Length(c) + 1 /\ k = Len(Nodes(t))
  <2>1. /\ c \in Condition /\ (m = Length(c) + 1 => k = Len(Nodes(t)))
    BY <1>1, <1>4, HeadNode
  <2>2. m = Length(c) + 1 /\ Instruction.imm = ir[t].imm
    BY <1>1, <1>4, FetchesHead DEF FrontNode, Relations, FloatKind
  <2> QED BY <2>1, <2>2
<1>6. Executing = t /\ Verdict = IF result = 0 THEN "true" ELSE "false"
  <2>1. Executing = HereAt(t, k) /\ Verdict = VerdictAt(t, k, result)
    BY <1>1, MachineAt
  <2>2. Executing = t
    BY <1>4, <2>1 DEF HereAt, Openers
  <2> QED BY <1>1, <1>4, <1>5, <2>1, <2>2, HeadVerdict
<1>7. CASE result = 0
  <2>1. at' = at + (IF prog[t].kind = "op" THEN Size(prog[t]) ELSE 4)
    BY <1>2, <1>4, <1>7 DEF Openers
  <2>2. Inv' /\ Executing' = t + 1 /\ Verdict' = "none" /\ prog' = prog
    BY <1>1, <1>3, <1>5, <2>1, ToNext
  <2>3. Verdict = "true" /\ Executing' = Executing + 1
    BY <1>6, <1>7, <2>2
  <2> HIDE DEF t
  <2> QED BY <1>1, <1>4, <1>6, <2>2, <2>3, StepsDecide
<1>8. CASE result # 0
  <2>1. at = BranchAddress(prog, ir, t)
    BY <1>1, <1>4, <1>5, BranchIs
  <2>2. ASSUME NEW u, NEW l, NEW b, NodeAt(u, l, b), ir[t].imm = b - BranchAddress(prog, ir, t)
        PROVE  NodeAt(u, l, at')
    <3>1. ir[t].imm = b - at
      BY <2>1, <2>2
    <3>2. at + SignedField(ir[t].imm, BranchValues) = b
      BY <1>1, <2>2, <3>1, Reaches
    <3> QED BY <1>2, <1>5, <1>8, <2>2, <3>2
  <2>3. ASSUME NEW u \in 1 .. n + 1, ir[t].imm = ir[u].address - BranchAddress(prog, ir, t)
        PROVE  Inv' /\ Executing' = u /\ Verdict' = "none" /\ prog' = prog
    <3>1. NodeAt(u, 1, ir[u].address)
      BY <1>1, TokenStart
    <3>2. NodeAt(u, 1, at')
      BY <2>2, <2>3, <3>1
    <3> QED BY <1>3, <3>2, ToStart
  <2>4. Verdict = "false"
    BY <1>6, <1>8
  <2>5. CASE prog[t].kind = "while"
    <3>1. PICK j \in 1 .. n : /\ ir[t].imm = ir[j + 1].address - BranchAddress(prog, ir, t)
                              /\ Structure!EndOf(t) = j
      BY <1>1, <2>5, LoopLeft
    <3>2. j + 1 \in 1 .. n + 1
      BY <1>1, TokenShape
    <3>3. Inv' /\ Executing' = j + 1 /\ Verdict' = "none" /\ prog' = prog
      BY <2>3, <3>1, <3>2
    <3> HIDE DEF t
    <3> QED BY <1>1, <1>4, <1>6, <2>4, <2>5, <3>1, <3>3, StepsDecide
  <2>6. CASE prog[t].kind = "if"
    <3>1. CASE \E j \in 1 .. n : /\ ir[t].imm = ir[j].address - BranchAddress(prog, ir, t)
                                 /\ Structure!ElsesOf(t) = {} /\ Structure!EndOf(t) = j
      <4>1. PICK j \in 1 .. n : /\ ir[t].imm = ir[j].address - BranchAddress(prog, ir, t)
                                /\ Structure!ElsesOf(t) = {} /\ Structure!EndOf(t) = j
        BY <3>1
      <4>2. j \in 1 .. n + 1
        BY <1>1, TokenShape
      <4>3. Inv' /\ Executing' = j /\ Verdict' = "none" /\ prog' = prog
        BY <2>3, <4>1, <4>2
      <4> HIDE DEF t
      <4> QED BY <1>1, <1>4, <1>6, <2>4, <2>6, <4>1, <4>3, StepsDecide
    <3>2. CASE \E e \in 1 .. n : /\ ir[t].imm = (ir[e].address + 4) - BranchAddress(prog, ir, t)
                                 /\ Structure!ElsesOf(t) = {e} /\ prog[e].kind = "else"
      <4>1. PICK e \in 1 .. n : /\ ir[t].imm = (ir[e].address + 4) - BranchAddress(prog, ir, t)
                                /\ Structure!ElsesOf(t) = {e} /\ prog[e].kind = "else"
        BY <3>2
      <4>2. prog[e].kind \notin Openers /\ e \in DOMAIN prog /\ e \in Int
        BY <1>1, <4>1, TokenShape DEF Openers
      <4>3. NodeAt(e, 2, ir[e].address + 4) /\ 2 \in DOMAIN Nodes(e)
        <5>1. e \in 1 .. n + 1
          BY <1>1, TokenShape
        <5>2. /\ e \in DOMAIN ir /\ ir[e].address \in Nat /\ 1 \in DOMAIN Nodes(e)
              /\ DOMAIN Nodes(e) = 1 .. Len(Nodes(e))
          BY <1>1, <5>1, EntryShape
        <5>3. Len(Nodes(e)) = 2
          <6>1. Nodes(e) = Code(prog[e], ir[e].imm) /\ ir[e].imm \in Int
            BY <1>1, <5>1, TokenShape, EntryShape
          <6>2. Nodes(e) = <<Node("jal", ir[e].imm), Node("nop", 0)>>
            BY <4>1, <6>1, OtherShapes
          <6> QED BY <6>2
        <5>4. 2 \in DOMAIN Nodes(e) /\ ir[e].address + 4 = ir[e].address + 4 * (2 - 1)
          BY <5>2, <5>3
        <5> QED BY <5>2, <5>4 DEF NodeAt
      <4>4. NodeAt(e, 2, at')
        BY <2>2, <4>1, <4>3
      <4>5. Comparing(e, 2, operands', aux', result')
        BY <4>2 DEF Comparing
      <4>6. Inv' /\ Executing' = HereAt(e, 2) /\ Verdict' = VerdictAt(e, 2, result') /\ prog' = prog
        BY <1>1, <1>3, <4>4, <4>5, Arrives DEF Executes
      <4>7. Executing' = e + 1
        BY <4>1, <4>2, <4>6 DEF HereAt
      <4>8. Verdict' = "none"
        BY <1>1, <4>2, <4>3, <4>6, PlainVerdict
      <4>9. Structure!Max(Structure!ElsesOf(t)) = e
        BY <4>1, <4>2, MaxOfOne
      <4>10. Structure!ElsesOf(t) # {}
        BY <4>1
      <4> HIDE DEF t
      <4> QED BY <1>1, <1>4, <1>6, <2>4, <2>6, <4>6, <4>7, <4>8, <4>9, <4>10, StepsDecide
    <3> QED BY <1>1, <2>6, <3>1, <3>2, IfLeft
  <2> QED BY <1>4, <2>5, <2>6 DEF Openers
<1> QED BY <1>7, <1>8

-----------------------------------------------------------------------------
(* The walk, which the abstract specification sees as parsing.              *)
LEMMA WalkMaps ==
  ASSUME phase \in {"walk", "crashed"}
  PROVE  Executing = 0 /\ Verdict = "none"
  BY DEF Executing, Verdict, Testing

LEMMA WalkMapsNext ==
  ASSUME phase' \in {"walk", "crashed"}
  PROVE  Executing' = 0 /\ Verdict' = "none"
  BY DEF Executing, Verdict, Testing

Parsed == {Token("op", NoCondition, n) : n \in BlockWords}
            \cup {Token(kind, c, 0) : kind \in {"if", "while"}, c \in Conditions}
            \cup {Token(kind, NoCondition, 0) : kind \in {"else", "endif", "endwhile", "return"}}
LEMMA StepsParse ==
  ASSUME phase = "walk", NEW token \in Parsed, NEW list, Walk(token, list)
  PROVE  Simulated
<1>1. prog' = Append(prog, token) /\ phase' = phase
  BY DEF Walk
<1>2. Executing = 0 /\ Verdict = "none" /\ Executing' = 0 /\ Verdict' = "none"
  BY <1>1, WalkMaps, WalkMapsNext
<1>3. Structure!Parse(token)
  BY <1>1, <1>2 DEF Structure!Parse
<1>4. Structure!Next
  BY <1>3 DEF Structure!Next, Parsed
<1> QED BY <1>4 DEF Simulated

LEMMA InvWalk ==
  ASSUME Inv, phase = "walk", NEW token \in Parsed, NEW list, Walk(token, list), Built'
  PROVE  Inv' /\ Simulated
<1>1. phase' = "walk" /\ UNCHANGED machine
  BY DEF Walk
<1>2. Inv'
  BY <1>1 DEF Inv, Registers, machine
<1> QED BY <1>2, StepsParse

LEMMA InvStraight ==
  ASSUME Inv, NEW n \in BlockWords, Straight(n)
  PROVE  Inv' /\ Simulated
<1>1. Built' /\ phase = "walk"
  BY BuiltStraight DEF Inv, Straight, Room
<1>2. Token("op", NoCondition, n) \in Parsed
  BY DEF Parsed
<1>3. Walk(Token("op", NoCondition, n), Emitted(0))
  BY DEF Straight
<1> QED BY <1>1, <1>2, <1>3, InvWalk

LEMMA InvOpen ==
  ASSUME Inv, NEW kind \in {"if", "while"}, NEW c \in Conditions, Open(kind, c)
  PROVE  Inv' /\ Simulated
<1>1. Built' /\ phase = "walk"
  BY BuiltOpen DEF Inv, Open, Room
<1>2. Token(kind, c, 0) \in Parsed
  BY DEF Parsed
<1>3. Walk(Token(kind, c, 0), Emitted(0))
  BY DEF Open
<1> QED BY <1>1, <1>2, <1>3, InvWalk

LEMMA InvElse ==
  ASSUME Inv, Else
  PROVE  Inv' /\ Simulated
<1>1. Built' /\ phase = "walk"
  BY BuiltElse DEF Inv, Else, Room
<1>2. Token("else", NoCondition, 0) \in Parsed
  BY DEF Parsed
<1>3. Walk(Token("else", NoCondition, 0), Emitted(4))
  BY DEF Else
<1> QED BY <1>1, <1>2, <1>3, InvWalk

LEMMA InvEndIf ==
  ASSUME Inv, EndIf
  PROVE  Inv' /\ Simulated
<1>1. Built' /\ phase = "walk"
  BY BuiltEndIf DEF Inv, EndIf
<1>2. Token("endif", NoCondition, 0) \in Parsed
  BY DEF Parsed
<1>3. \E list : Walk(Token("endif", NoCondition, 0), list)
  BY DEF EndIf
<1> QED BY <1>1, <1>2, <1>3, InvWalk

LEMMA InvEndWhile ==
  ASSUME Inv, EndWhile
  PROVE  Inv' /\ Simulated
<1>1. Built' /\ phase = "walk"
  BY BuiltEndWhile DEF Inv, EndWhile
<1>2. Token("endwhile", NoCondition, 0) \in Parsed
  BY DEF Parsed
<1>3. \E list : Walk(Token("endwhile", NoCondition, 0), list)
  BY DEF EndWhile
<1> QED BY <1>1, <1>2, <1>3, InvWalk

LEMMA InvReturn ==
  ASSUME Inv, Return
  PROVE  Inv' /\ Simulated
<1>1. Built' /\ phase = "walk"
  BY BuiltReturn DEF Inv, Return, Room
<1>2. Token("return", NoCondition, 0) \in Parsed
  BY DEF Parsed
<1>3. Walk(Token("return", NoCondition, 0), Emitted(0))
  BY DEF Return
<1> QED BY <1>1, <1>2, <1>3, InvWalk

(* The machine starts at the first token.                                   *)
StartsAtFirst == (Finished /\ at = 0) =>
                   /\ NodeAt(1, 1, at) /\ HereAt(1, 1) = 1
                   /\ VerdictAt(1, 1, result) = "none"
LEMMA Starting == StartsAtFirst
<1> SUFFICES ASSUME Finished, at = 0
             PROVE  NodeAt(1, 1, at) /\ HereAt(1, 1) = 1 /\ VerdictAt(1, 1, result) = "none"
  BY DEF StartsAtFirst
<1>1. 1 \in 1 .. Len(prog) + 1
  BY NodesShape
<1>2. NodeAt(1, 1, ir[1].address) /\ HereAt(1, 1) = 1 /\ VerdictAt(1, 1, result) = "none"
  BY <1>1, TokenStart, FirstVerdict
<1>3. AddressIn(ir, lastAddress, 1) = 0 /\ 1 \in DOMAIN ir
  BY <1>1, EntryShape DEF Finished, Built, Addressed
<1>4. ir[1].address = 0
  BY <1>3 DEF AddressIn
<1> QED BY <1>2, <1>4

LEMMA InvEndFunction ==
  ASSUME Inv, EndFunction
  PROVE  Inv' /\ Simulated
<1>1. /\ phase = "walk" /\ phase' = "run" /\ prog' = prog /\ UNCHANGED machine /\ at = 0
  BY DEF EndFunction, Inv
<1>2. Built'
  BY BuiltEndFunction DEF Inv
<1>3. Finished' /\ at' = 0
  BY <1>1, <1>2 DEF Finished, machine
<1>4. NodeAt(1, 1, at)' /\ HereAt(1, 1)' = 1 /\ VerdictAt(1, 1, result)' = "none"
  <2>1. StartsAtFirst'
    BY Starting, PTL
  <2> QED BY <1>3, <2>1 DEF StartsAtFirst
<1>5. Landed' /\ Here' = 1 /\ Position' = 1
  <2>1. Located'
    BY Locates, PTL
  <2> QED BY <1>3, <1>4, <2>1 DEF Located
<1>6. Executing' = 1 /\ Verdict' = "none"
  <2>1. Mapped'
    BY Maps, PTL
  <2> QED BY <1>3, <1>4, <2>1 DEF Mapped
<1>7. Running'
  <2> SUFFICES ASSUME NEW t, NEW k, NodeAt(t, k, at)'
               PROVE  Comparing(t, k, operands, aux, result)'
    BY <1>5 DEF Running
  <2>1. t = 1 /\ k = 1
    <3>1. Located'
      BY Locates, PTL
    <3> QED BY <1>3, <1>5, <3>1 DEF Located
  <2> QED BY <2>1 DEF Comparing, Compares, Front
<1>8. Inv'
  BY <1>1, <1>2, <1>3, <1>7 DEF Inv, Registers, machine
<1>9. Executing = 0 /\ Verdict = "none"
  BY <1>1, WalkMaps
<1>10. Structure!Start
  BY <1>1, <1>6, <1>9 DEF Structure!Start
<1> QED BY <1>8, <1>10 DEF Simulated, Structure!Next

LEMMA InvUncompiled ==
  ASSUME Inv, NEW c \in Conditions, Uncompiled(c)
  PROVE  Inv' /\ Simulated
<1>1. phase = "walk" /\ phase' = "crashed" /\ UNCHANGED <<code, machine>>
  BY DEF Uncompiled, Room
<1>2. Built'
  BY <1>1, BuiltKept DEF Inv, Ended
<1>3. Inv'
  BY <1>1, <1>2 DEF Inv, Registers, machine
<1>4. Executing' = Executing /\ Kept
  BY <1>1, WalkMaps, WalkMapsNext DEF Kept, code
<1> QED BY <1>3, <1>4, Stutters

(* Past its end the abstract specification does not see the machine stop.   *)
LEMMA InvReturned ==
  ASSUME Inv, Returned
  PROVE  Inv' /\ Simulated
<1>1. phase = "run" /\ phase' = "returned" /\ UNCHANGED <<code, machine>> /\ at = FunctionEnd
  BY DEF Returned
<1>2. Built' /\ Finished
  BY <1>1, BuiltKept DEF Inv, Ended, Finished
<1>3. Inv'
  BY <1>1, <1>2 DEF Inv, Registers, machine
<1>4. Executing' = Executing
  BY <1>1 DEF Executing, Landed, Holds, Unexecuted, BeforeElsePart, Position, Here, Nodes,
              code, machine
<1>5. Verdict' = "none"
  BY <1>1 DEF Verdict, Testing
<1>6. Verdict = "none"
  <2> DEFINE u == Len(prog) + 1
  <2>1. Len(prog) \in Nat /\ Len(ir) = u /\ u \in 1 .. Len(prog) + 1
    BY <1>2, LastShape
  <2>2. NodeAt(u, 1, ir[u].address)
    BY <1>2, <2>1, TokenStart
  <2>3. NodeAt(u, 1, at)
    BY <1>1, <2>1, <2>2 DEF FunctionEnd
  <2>4. VerdictAt(u, 1, result) = "none"
    BY <1>2, <2>1, FirstVerdict
  <2> QED BY <1>2, <2>3, <2>4, Maps DEF Mapped
<1>7. prog' = prog
  BY <1>1 DEF code
<1> QED BY <1>3, <1>4, <1>5, <1>6, <1>7, Stutters DEF Kept

LEMMA InvUnchanged ==
  ASSUME Inv, UNCHANGED vars
  PROVE  Inv' /\ Simulated
<1>1. UNCHANGED <<prog, ir, lastAddress, open, phase, at, operands, aux, result>>
  BY DEF vars
<1>2. Built'
  BY <1>1, BuiltKept DEF Inv, Built, Typed, Ended, code
<1>3. Running' <=> Running
  BY <1>1 DEF Running, Landed, Holds, NodeAt, Nodes, Comparing
<1>4. Inv'
  BY <1>1, <1>2, <1>3 DEF Inv, Registers
<1>5. Executing' = Executing
  BY <1>1 DEF Executing, Landed, Holds, Unexecuted, BeforeElsePart, Position, Here, Nodes
<1>6. Verdict' = Verdict
  BY <1>1 DEF Verdict, Testing, Answer, Instruction, Landed, Holds, Position, Here, Nodes
<1> QED BY <1>1, <1>4, <1>5, <1>6, Stutters DEF Kept

-----------------------------------------------------------------------------
LEMMA InvInit == Init => Inv /\ Structure!Begin
<1> SUFFICES ASSUME Init PROVE Inv /\ Structure!Begin
  OBVIOUS
<1>1. Built
  BY BuiltInit
<1>2. /\ phase = "walk" /\ at = 0 /\ operands = <<>> /\ aux = 0 /\ result = 0 /\ prog = <<>>
  BY DEF Init
<1>3. 0 \in IntWords
  BY Halves DEF IntWords
<1>4. Inv
  BY <1>1, <1>2, <1>3 DEF Inv, Registers
<1> QED BY <1>2, <1>4, WalkMaps DEF Structure!Begin

LEMMA InvNext ==
  ASSUME Inv, [Next]_vars
  PROVE  Inv' /\ Simulated
<1>1. ASSUME NEW n \in BlockWords, Straight(n) PROVE Inv' /\ Simulated
  BY <1>1, InvStraight
<1>2. ASSUME NEW kind \in {"if", "while"}, NEW c \in Conditions, Open(kind, c)
      PROVE  Inv' /\ Simulated
  BY <1>2, InvOpen
<1>3. ASSUME NEW c \in Conditions, Uncompiled(c) PROVE Inv' /\ Simulated
  BY <1>3, InvUncompiled
<1>4. CASE Else
  BY <1>4, InvElse
<1>5. CASE EndIf
  BY <1>5, InvEndIf
<1>6. CASE EndWhile
  BY <1>6, InvEndWhile
<1>7. CASE Return
  BY <1>7, InvReturn
<1>8. CASE EndFunction
  BY <1>8, InvEndFunction
<1>9. CASE Straightforward
  BY <1>9, InvStraightforward
<1>10. CASE Value
  BY <1>10, InvValue
<1>11. CASE Subtract
  BY <1>11, InvSubtract
<1>12. CASE Branch
  BY <1>12, InvBranch
<1>13. CASE LoadImmediate
  BY <1>13, InvLoadImmediate
<1>14. CASE FloatCompare
  BY <1>14, InvFloatCompare
<1>15. CASE Test
  BY <1>15, InvTest
<1>16. CASE JumpAway
  BY <1>16, InvJumpAway
<1>17. CASE ReturnJump
  BY <1>17, InvReturnJump
<1>18. CASE Returned
  BY <1>18, InvReturned
<1>19. CASE Stopped
  BY <1>19, InvUnchanged DEF Stopped
<1>20. CASE UNCHANGED vars
  BY <1>20, InvUnchanged
<1> QED BY <1>1, <1>2, <1>3, <1>4, <1>5, <1>6, <1>7, <1>8, <1>9, <1>10, <1>11, <1>12, <1>13,
           <1>14, <1>15, <1>16, <1>17, <1>18, <1>19, <1>20 DEF Next

(* The inductive invariant: in every reachable state the code is well built *)
(* and the registers hold what the node the machine is at needs.            *)
THEOREM Invariance == Spec => []Inv
<1>1. Init => Inv
  BY InvInit
<1>2. Inv /\ [Next]_vars => Inv'
  BY InvNext
<1> QED BY <1>1, <1>2, PTL DEF Spec

(* The code implements the statements it was generated from: the machine's  *)
(* control goes from statement to statement the way these are nested.       *)
THEOREM CodeImplementsStructure == Spec => ImplementsStructure
<1>1. Init => Structure!Begin
  BY InvInit
<1>2. Inv /\ [Next]_vars => [Structure!Next]_(Structure!vars)
  BY InvNext DEF Simulated
<1> QED BY <1>1, <1>2, Invariance, PTL DEF Spec, ImplementsStructure, Structure!Spec

(* A difference of two words, and the word that is taken for it.            *)
LEMMA Wraps ==
  ASSUME NEW a \in IntWords, NEW b \in IntWords, NEW h, h = WordValues \div 2,
         NEW w, w = SignedField(a - b, WordValues)
  PROVE  /\ h \in Nat \ {0} /\ a \in -h .. h - 1 /\ b \in -h .. h - 1 /\ w \in -h .. h - 1
         /\ a - b \in IntWords <=> (-h <= a - b /\ a - b < h)
         /\ a - b \in IntWords => w = a - b
         /\ a - b >= h => w = (a - b) - 2 * h
         /\ a - b < -h => w = (a - b) + 2 * h
<1>1. h \in Nat \ {0} /\ WordValues = 2 * h
  BY Halves
<1>2. a \in -h .. h - 1 /\ b \in -h .. h - 1 /\ IntWords = -h .. h - 1
  BY DEF IntWords
<1> DEFINE d == a - b
<1>3. d \in Int /\ d >= -(2 * h) /\ d < 2 * h
  BY <1>1, <1>2
<1> HIDE DEF d
<1>4. /\ w \in -h .. h - 1
      /\ d \in -h .. h - 1 => w = d
      /\ d \in h .. 3 * h - 1 => w = d - 2 * h
      /\ d \in -(3 * h) .. -h - 1 => w = d + 2 * h
  BY <1>3, FieldOf DEF d
<1>5. d \in IntWords <=> (-h <= d /\ d < h)
  BY <1>1, <1>2, <1>3
<1>6. d \in IntWords => w = d
  BY <1>2, <1>4
<1>7. d >= h => w = d - 2 * h
  BY <1>1, <1>3, <1>4
<1>8. d < -h => w = d + 2 * h
  BY <1>1, <1>3, <1>4
<1> QED BY <1>1, <1>2, <1>4, <1>5, <1>6, <1>7, <1>8 DEF d

LEMMA RelatedType ==
  ASSUME NEW op \in Relations, NEW a \in Int, NEW b \in Int
  PROVE  Related(op, a, b) \in BOOLEAN
<1>1. CASE op = "<"
  <2>1. Related(op, a, b) = (a < b)
    BY <1>1 DEF Related
  <2> QED BY <2>1
<1>2. CASE op = ">"
  <2>1. Related(op, a, b) = (a > b)
    BY <1>2 DEF Related
  <2> QED BY <2>1
<1>3. CASE op = "<="
  <2>1. Related(op, a, b) = (a <= b)
    BY <1>3 DEF Related
  <2> QED BY <2>1
<1>4. CASE op = ">="
  <2>1. Related(op, a, b) = (a >= b)
    BY <1>4 DEF Related
  <2> QED BY <2>1
<1>5. CASE op = "=="
  <2>1. Related(op, a, b) = (a = b)
    BY <1>5 DEF Related
  <2> QED BY <2>1
<1>6. CASE op = "!="
  <2>1. Related(op, a, b) = (a # b)
    BY <1>6 DEF Related
  <2> QED BY <2>1
<1> QED BY <1>1, <1>2, <1>3, <1>4, <1>5, <1>6 DEF Relations

LEMMA RelatedOrder ==
  ASSUME NEW op \in {"<", ">", "<=", ">="}, NEW a \in Int, NEW b \in Int, a # b
  PROVE  Related(op, a, b) <=> (op \in {"<", "<="} /\ a < b) \/ (op \in {">", ">="} /\ a > b)
<1>1. CASE op = "<"
  <2>1. Related(op, a, b) = (a < b)
    BY <1>1 DEF Related
  <2> QED BY <1>1, <2>1
<1>2. CASE op = ">"
  <2>1. Related(op, a, b) = (a > b)
    BY <1>2 DEF Related
  <2> QED BY <1>2, <2>1
<1>3. CASE op = "<="
  <2>1. Related(op, a, b) = (a <= b)
    BY <1>3 DEF Related
  <2>2. a <= b <=> a < b
    OBVIOUS
  <2> QED BY <1>3, <2>1, <2>2
<1>4. CASE op = ">="
  <2>1. Related(op, a, b) = (a >= b)
    BY <1>4 DEF Related
  <2>2. a >= b <=> a > b
    OBVIOUS
  <2> QED BY <1>4, <2>1, <2>2
<1> QED BY <1>1, <1>2, <1>3, <1>4

(* What the sign of that word says of the two.                              *)
LEMMA SignDecides ==
  ASSUME NEW a \in IntWords, NEW b \in IntWords, NEW w, w = SignedField(a - b, WordValues),
         NEW op \in Relations
  PROVE  Related(op, w, 0) <=>
           (Related(op, a, b) # (a - b \notin IntWords /\ op \notin {"==", "!="}))
<1> DEFINE h == WordValues \div 2
<1>1. /\ h \in Nat \ {0} /\ a \in -h .. h - 1 /\ b \in -h .. h - 1 /\ w \in -h .. h - 1
      /\ a - b \in IntWords <=> (-h <= a - b /\ a - b < h)
      /\ a - b \in IntWords => w = a - b
      /\ a - b >= h => w = (a - b) - 2 * h
      /\ a - b < -h => w = (a - b) + 2 * h
  BY Wraps
<1> HIDE DEF h
<1>2. a \in Int /\ b \in Int /\ w \in Int
  BY <1>1
<1>3. op \in {"<", ">", "<=", ">=", "==", "!="}
  BY DEF Relations
<1>4. Related(op, w, 0) \in BOOLEAN /\ Related(op, a, b) \in BOOLEAN
  BY <1>2, RelatedType
<1>5. CASE a - b \in IntWords
  <2>1. w = a - b
    BY <1>1, <1>5
  <2>2. Related(op, w, 0) <=> Related(op, a, b)
    BY <1>2, <1>3, <2>1 DEF Related
  <2> QED BY <1>5, <1>4, <2>2
<1>6. CASE a - b \notin IntWords
  <2>1. (a - b >= h /\ w < 0) \/ (a - b < -h /\ w > 0)
    BY <1>1, <1>2, <1>6
  <2>2. w # 0 /\ a # b /\ (w < 0 <=> a > b) /\ (w > 0 <=> a < b)
    BY <1>1, <1>2, <2>1
  <2>3. CASE op \in {"==", "!="}
    <3>1. Related(op, w, 0) <=> Related(op, a, b)
      BY <1>2, <2>2, <2>3 DEF Related
    <3> QED BY <1>4, <2>3, <3>1
  <2>4. CASE op \in {"<", ">", "<=", ">="}
    <3>1. /\ Related(op, w, 0) <=> (op \in {"<", "<="} /\ w < 0) \/ (op \in {">", ">="} /\ w > 0)
          /\ Related(op, a, b) <=> (op \in {"<", "<="} /\ a < b) \/ (op \in {">", ">="} /\ a > b)
      BY <1>2, <2>2, <2>4, RelatedOrder
    <3>2. Related(op, w, 0) <=> ~Related(op, a, b)
      BY <1>2, <2>2, <2>4, <3>1
    <3>3. op \notin {"==", "!="}
      BY <2>4
    <3> QED BY <1>6, <1>4, <3>2, <3>3
  <2> QED BY <1>3, <2>3, <2>4
<1> QED BY <1>5, <1>6

LEMMA TestedHead ==
  ASSUME Inv, Testing
  PROVE  /\ Finished /\ Here \in 1 .. Len(prog) /\ prog[Here].kind \in Openers
         /\ Tested \in Condition /\ Compares(Tested, Length(Tested) + 1, operands, aux, result)
         /\ ~Uncompilable(Tested)
<1> DEFINE t == Here
           k == Position
           m == k - Front(prog[t])
           c == prog[t].cond
<1>1. /\ phase = "run" /\ Finished /\ NodeAt(t, k, at) /\ Instruction = Nodes(t)[k]
      /\ Comparing(t, k, operands, aux, result) /\ Instruction.kind = "bne"
  BY MachineAt DEF Testing
<1>2. t \in 1 .. Len(prog) + 1 /\ Len(prog) \in Nat /\ k \in DOMAIN Nodes(t)
  BY <1>1, NodesShape DEF NodeAt
<1>3. t # Len(prog) + 1
  <2> SUFFICES ASSUME t = Len(prog) + 1 PROVE FALSE
    OBVIOUS
  <2>1. Nodes(t) = <<Node("nop", 0)>>
    BY <1>1, LastNode
  <2>2. k = 1
    BY <1>2, <2>1
  <2>3. Instruction.kind = "nop"
    BY <1>1, <2>1, <2>2 DEF Node
  <2> QED BY <1>1, <2>3
<1>4. t \in 1 .. Len(prog)
  BY <1>2, <1>3
<1>5. prog[t].kind \in Openers
  BY <1>1, <1>2, <1>4, PlainNode
<1>6. /\ c \in Condition
      /\ FrontNode(c, m, Instruction, ir[t].imm)
  BY <1>1, <1>2, <1>4, <1>5, HeadCases
<1>7. m = Length(c) + 1
  BY <1>1, <1>6 DEF FrontNode, Relations, FloatKind
<1>8. Compares(c, m, operands, aux, result)
  BY <1>1, <1>4, <1>5, TokenShape DEF Comparing
<1>9. ~Uncompilable(c)
  BY <1>1, <1>4, TokenShape DEF Tokens
<1> QED BY <1>1, <1>4, <1>5, <1>6, <1>7, <1>8, <1>9 DEF Tested

LEMMA InvTypeOK == Inv => TypeOK
<1> SUFFICES ASSUME Inv PROVE TypeOK
  OBVIOUS
<1>1. Built /\ Typed
  BY DEF Inv, Built
<1>2. /\ Len(prog) \in Nat /\ Len(open) \in Nat /\ MaxTokens \in Nat /\ MaxBytes \in Nat
      /\ Len(prog) <= MaxTokens /\ lastAddress \in Nat
      /\ FunctionEnds \in {0, 1} /\ Len(ir) = Len(prog) + FunctionEnds
  BY <1>1, BoundsAssumption DEF Typed, FunctionEnds
<1>3. lastAddress \in 0 .. MaxBytes + 4 * MaxTokens + 4
  <2>1. lastAddress <= MaxBytes + 4 * (Len(prog) + FunctionEnds)
    BY <1>1 DEF Typed
  <2> QED BY <1>2, <2>1
<1>4. ASSUME NEW t \in DOMAIN ir PROVE ir[t].address \in 0 .. lastAddress /\ ir[t].imm \in Int
  <2>1. ir \in Seq(Entry) /\ t \in 1 .. Len(prog) + FunctionEnds
    BY <1>1, <1>2 DEF Typed
  <2>2. ir[t] \in Entry
    BY <2>1
  <2>3. ir[t].address \in Nat /\ ir[t].imm \in Int
    BY <2>2 DEF Entry
  <2>4. CASE t \in 1 .. Len(prog)
    <3>1. prog[t] \in Tokens
      BY <1>1, <2>4 DEF Typed
    <3>2. Size(prog[t]) \in Nat
      BY <3>1, SizeType
    <3> DEFINE last == AddressIn(ir, lastAddress, Len(prog) + 1)
    <3>3. ir[t].address + Size(prog[t]) <= last
      BY <1>1, <1>2, <2>4 DEF Built, Addressed, Ordered
    <3>4. last <= lastAddress /\ last \in Int
      <4>1. CASE Ended
        <5>1. FunctionEnds = 1 /\ ir[Len(prog) + 1].address + 4 = lastAddress
          BY <1>1, <4>1 DEF Typed, FunctionEnds
        <5>2. Len(prog) + 1 \in DOMAIN ir /\ DOMAIN ir = 1 .. Len(ir)
          BY <1>2, <2>1, <5>1
        <5>3. ir[Len(prog) + 1] \in Entry
          BY <2>1, <5>2
        <5> QED BY <1>2, <5>1, <5>2, <5>3 DEF AddressIn, Entry
      <4>2. CASE ~Ended
        <5>1. FunctionEnds = 0
          BY <4>2 DEF FunctionEnds
        <5>2. Len(prog) + 1 \notin DOMAIN ir
          BY <1>2, <2>1, <5>1
        <5> QED BY <1>2, <5>2 DEF AddressIn
      <4> QED BY <4>1, <4>2
    <3> HIDE DEF last
    <3> QED BY <1>2, <2>3, <3>2, <3>3, <3>4
  <2>5. CASE t = Len(prog) + 1
    <3>1. Ended
      BY <1>2, <2>1, <2>5 DEF FunctionEnds
    <3>2. ir[t].address + 4 = lastAddress
      BY <1>1, <2>5, <3>1 DEF Typed
    <3> QED BY <1>2, <2>3, <3>2
  <2> QED BY <1>2, <2>1, <2>4, <2>5
<1>5. /\ phase \in {"walk", "run", "returned", "crashed"} /\ (phase = "run" => Landed)
      /\ aux \in IntWords /\ result \in {0, 1}
      /\ operands \in {<<>>} \cup (IntWords \X IntWords) \cup (Floats \X Floats)
  BY <1>1 DEF Inv, Running, Registers, Typed
<1> QED BY <1>2, <1>3, <1>4, <1>5 DEF TypeOK

LEMMA InvInteger == Inv => IntegerComparisons
<1> SUFFICES ASSUME Inv, Testing, Tested.type = "int"
             PROVE  Answer <=> (Related(Tested.op, A, B) #
                                  (A - B \notin IntWords /\ Tested.op \notin {"==", "!="}))
  BY DEF IntegerComparisons
<1>1. /\ Tested \in Condition /\ Compares(Tested, Length(Tested) + 1, operands, aux, result)
      /\ Length(Tested) = 5
  BY TestedHead DEF Length
<1>2. Tested.op \in Relations
  BY <1>1, ConditionKinds
<1>3. /\ operands \in IntWords \X IntWords
      /\ aux = SignedField(Difference(operands[1], operands[2]), WordValues)
      /\ result = 0 <=> Related(Tested.op, aux, 0)
  BY <1>1 DEF Compares
<1>4. A \in IntWords /\ B \in IntWords /\ aux = SignedField(A - B, WordValues)
  BY <1>3 DEF A, B, Difference
<1> QED BY <1>2, <1>3, <1>4, SignDecides DEF Answer

LEMMA InvFloat == Inv => FloatComparisons
<1> SUFFICES ASSUME Inv, Testing, Tested.type = "float"
             PROVE  IF NaN \in {A, B} THEN Answer
                    ELSE Answer <=> (Related(Tested.op, A, B) # (A = B))
  BY DEF FloatComparisons
<1>1. /\ Tested \in Condition /\ Compares(Tested, Length(Tested) + 1, operands, aux, result)
      /\ Length(Tested) = 1 /\ ~Uncompilable(Tested)
  BY TestedHead DEF Length
<1>2. Tested.op \in {"<", ">", "<=", ">="}
  BY <1>1, ConditionKinds DEF Uncompilable, Relations
<1>3. /\ operands \in Floats \X Floats
      /\ result = 0 <=>
           ~Holding(FloatKind(Tested), Tested.op \in Exchanged, operands[1], operands[2])
  BY <1>1 DEF Compares
<1>4. A \in Int /\ B \in Int
  BY <1>3, FloatsAssumption DEF A, B
<1>5. Answer <=> ~Holding(FloatKind(Tested), Tested.op \in Exchanged, A, B)
  BY <1>3 DEF A, B, Answer
<1>6. CASE NaN \in {A, B}
  BY <1>5, <1>6 DEF Holding, Less, LessOrEqual
<1>7. CASE NaN \notin {A, B}
  <2> DEFINE op == Tested.op
  <2>1. op \in {"<", ">", "<=", ">="}
    BY <1>2
  <2>2. Holding(FloatKind(Tested), op \in Exchanged, A, B) <=>
          \/ op = "<" /\ B < A
          \/ op = ">" /\ A < B
          \/ op = "<=" /\ B <= A
          \/ op = ">=" /\ A <= B
    BY <1>7, <2>1 DEF Holding, Less, LessOrEqual, FloatKind, Exchanged
  <2> HIDE DEF op
  <2>3. Related(op, A, B) <=>
          \/ op = "<" /\ A < B
          \/ op = ">" /\ A > B
          \/ op = "<=" /\ A <= B
          \/ op = ">=" /\ A >= B
    BY <2>1 DEF Related
  <2>4. Related(op, A, B) \in BOOLEAN
    BY <1>4, <2>1, RelatedType DEF Relations
  <2>5. ~Holding(FloatKind(Tested), op \in Exchanged, A, B) <=> (Related(op, A, B) # (A = B))
    <3>1. CASE A = B
      <4>1. Holding(FloatKind(Tested), op \in Exchanged, A, B) <=> op \in {"<=", ">="}
        BY <1>4, <2>1, <2>2, <3>1
      <4>2. Related(op, A, B) <=> op \in {"<=", ">="}
        BY <1>4, <2>1, <2>3, <3>1
      <4> QED BY <2>4, <3>1, <4>1, <4>2
    <3>2. CASE A # B
      <4>1. Holding(FloatKind(Tested), op \in Exchanged, A, B) <=> ~Related(op, A, B)
        BY <1>4, <2>1, <2>2, <2>3, <3>2
      <4> QED BY <2>4, <3>2, <4>1
    <3> QED BY <3>1, <3>2
  <2> QED BY <1>5, <1>7, <2>5 DEF op
<1> QED BY <1>6, <1>7

(* Every comparison answers as IntegerComparisons and FloatComparisons say, *)
(* wherever in a body it is, for every width of an int; the machine never   *)
(* leaves the code.                                                         *)
THEOREM ComparisonsAnswered == Spec => []ComparisonsAnswer
<1>1. Inv => ComparisonsAnswer
  BY InvTypeOK, InvInteger, InvFloat DEF ComparisonsAnswer
<1> QED BY <1>1, Invariance, PTL
=============================================================================

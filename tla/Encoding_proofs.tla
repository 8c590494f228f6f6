--------------------------- MODULE Encoding_proofs ------------------------
(* Proofs about module Encoding, for every line, immediate and constant:    *)
(* what is left of an immediate and of a constant once binary.c has packed  *)
(* it, that the machine sees the instruction meant and the encoders of      *)
(* opcodes.h make the same word, and that the file holds the words. The     *)
(* fields of a word are quotients and remainders by powers of two; that     *)
(* they fit together again is arithmetic, done once per format, and the     *)
(* rest is which format a line is packed in, and tables that agree.         *)
EXTENDS Encoding, SequenceTheorems, TLAPS

(* The powers of two that occur, as numbers.                                *)
LEMMA Powers ==
  /\ 2^0 = 1 /\ 2^1 = 2 /\ 2^2 = 4 /\ 2^3 = 8 /\ 2^4 = 16 /\ 2^5 = 32 /\ 2^6 = 64 /\ 2^7 = 128
  /\ 2^8 = 256 /\ 2^10 = 1024 /\ 2^11 = 2048 /\ 2^12 = 4096 /\ 2^13 = 8192 /\ 2^15 = 32768
  /\ 2^16 = 65536 /\ 2^19 = 524288 /\ 2^20 = 1048576 /\ 2^21 = 2097152 /\ 2^30 = 1073741824
  BY SMT

(* int2signedbin changes only bits above its digits.                        *)
LEMMA Digits12 == \A n \in Int : SignedBin(n, 12) \in Int /\ SignedBin(n, 12) % 4096 = n % 4096
  BY Powers, SMT DEF SignedBin
LEMMA Digits16 == \A n \in Int : SignedBin(n, 16) \in Int /\ SignedBin(n, 16) % 4096 = n % 4096
  BY Powers, SMT DEF SignedBin
LEMMA Digits20 == \A n \in Int : SignedBin(n, 20) \in Int /\ SignedBin(n, 20) % 1048576 = n % 1048576
  BY Powers, SMT DEF SignedBin
LEMMA Digits30 ==
  \A n \in Int : /\ SignedBin(n, 30) \in Int /\ SignedBin(n, 30) % 8192 = n % 8192
                 /\ SignedBin(n, 30) % 2097152 = n % 2097152
  BY Powers, SMT DEF SignedBin

(* A sign extension depends on the bits it extends only.                    *)
LEMMA Extended12 ==
  \A m, n \in Int : m % 4096 = n % 4096 => SignExtended(m, 12) = SignExtended(n, 12)
  BY Powers, SMT DEF SignExtended
LEMMA Extended13 ==
  \A m, n \in Int : m % 8192 = n % 8192 => SignExtended(m, 13) = SignExtended(n, 13)
  BY Powers, SMT DEF SignExtended
LEMMA Extended20 ==
  \A m, n \in Int : m % 1048576 = n % 1048576 => SignExtended(m, 20) = SignExtended(n, 20)
  BY Powers, SMT DEF SignExtended
LEMMA Extended21 ==
  \A m, n \in Int : m % 2097152 = n % 2097152 => SignExtended(m, 21) = SignExtended(n, 21)
  BY Powers, SMT DEF SignExtended

(* The formats: the immediate decode.h reads out of what binary.c packed.   *)
(* First those of loads and stores.                                         *)
LEMMA LoadCut == ASSUME NEW m \in Int, NEW r1, NEW f3, NEW d, NEW opc
                 PROVE IImm(LoadWord(m, r1, f3, d, opc)) = SignExtended(m, 12)
<1>1. Bits(m, 11, 5) * 32 + Bits(m, 4, 0) \in Int
      /\ (Bits(m, 11, 5) * 32 + Bits(m, 4, 0)) % 4096 = m % 4096
  BY Powers, SMT DEF Bits
<1>2. QED BY <1>1, Extended12 DEF IImm, LoadWord, Word

LEMMA StoreCut == ASSUME NEW m \in Int, NEW r2, NEW r1, NEW f3, NEW opc
                  PROVE SImm(StoreWord(m, r2, r1, f3, opc)) = SignExtended(m, 12)
<1>1. Bits(m, 4, 0) + 32 * SignExtended(Bits(m, 11, 5), 7) = SignExtended(m, 12)
  BY Powers, SMT DEF Bits, SignExtended
<1>2. QED BY <1>1 DEF SImm, StoreWord, Word

(* The fields of an immediate, next to each other, are its low bits.        *)
LEMMA Joined20 ==
  ASSUME NEW m \in Int, NEW a \in Int, NEW b \in Int, NEW c \in Int, NEW d \in Int,
         d = (m % 8), c = ((m \div 8) % 32), b = ((m \div 256) % 32), a = ((m \div 8192) % 128)
  PROVE a * 8192 + b * 256 + c * 8 + d = (m % 1048576)
<1>1. (m % 256) = (c * 8) + d
  BY SMT
<1>2. (m % 8192) = (b * 256) + (m % 256)
  BY SMT
<1>3. (m % 1048576) = (a * 8192) + (m % 8192)
  BY SMT
<1>4. (m % 256) \in Int /\ (m % 8192) \in Int /\ (m % 1048576) \in Int
  BY SMT
<1>5. ASSUME NEW x \in Int, NEW y \in Int, NEW z \in Int,
             x = (c * 8) + d, y = (b * 256) + x, z = (a * 8192) + y
      PROVE a * 8192 + b * 256 + c * 8 + d = z
  BY <1>5, SMT
<1>6. QED BY <1>1, <1>2, <1>3, <1>4, <1>5, SMT
LEMMA Joined21 ==
  ASSUME NEW m \in Int, (m % 2) = 0, NEW a \in Int, NEW b \in Int, NEW c \in Int, NEW d \in Int,
         NEW e \in Int, a = ((m \div 2) % 16), b = ((m \div 32) % 64), c = ((m \div 2048) % 2),
         d = ((m \div 4096) % 8), e = ((m \div 32768) % 32)
  PROVE 2 * a + 32 * b + 2048 * c + 4096 * d + 32768 * e = (m % 1048576)
<1>1. (m % 32) = 2 * a
  BY SMT
<1>2. (m % 2048) = (32 * b) + (m % 32)
  BY SMT
<1>3. (m % 4096) = (2048 * c) + (m % 2048)
  BY SMT
<1>4. (m % 32768) = (4096 * d) + (m % 4096)
  BY SMT
<1>5. (m % 1048576) = (32768 * e) + (m % 32768)
  BY SMT
<1>6. /\ (m % 32) \in Int /\ (m % 2048) \in Int /\ (m % 4096) \in Int
      /\ (m % 32768) \in Int /\ (m % 1048576) \in Int
  BY SMT
<1>7. ASSUME NEW v \in Int, NEW w \in Int, NEW x \in Int, NEW y \in Int, NEW z \in Int,
             v = 2 * a, w = (32 * b) + v, x = (2048 * c) + w, y = (4096 * d) + x,
             z = (32768 * e) + y
      PROVE 2 * a + 32 * b + 2048 * c + 4096 * d + 32768 * e = z
  BY <1>7, SMT
<1>8. QED BY <1>1, <1>2, <1>3, <1>4, <1>5, <1>6, <1>7, SMT

(* The format of LUI and AUIPC.                                             *)
LEMMA UpperCut == ASSUME NEW m \in Int, NEW r, NEW opc
                  PROVE Upper(Upper20(m, r, opc)) = SignExtended(m, 20)
<1>1. PICK a \in Int : a = ((m \div 8192) % 128) /\ a = Bits(m, 19, 13)
  BY Powers, SMT DEF Bits
<1>2. PICK b \in Int : b = ((m \div 256) % 32) /\ b = Bits(m, 12, 8)
  BY Powers, SMT DEF Bits
<1>3. PICK c \in Int : c = ((m \div 8) % 32) /\ c = Bits(m, 7, 3)
  BY Powers, SMT DEF Bits
<1>4. PICK d \in Int : d = (m % 8) /\ d = Bits(m, 2, 0)
  BY Powers, SMT DEF Bits
<1>5. a * 8192 + b * 256 + c * 8 + d = (m % 1048576)
  BY <1>1, <1>2, <1>3, <1>4, Joined20, SMT
<1>6. Upper(Upper20(m, r, opc)) = SignExtended(a * 8192 + b * 256 + c * 8 + d, 20)
  <2>1. Upper20(m, r, opc) = Word(a, b, c, d, r, opc)
    BY <1>1, <1>2, <1>3, <1>4, SMT DEF Upper20
  <2>2. QED BY <2>1 DEF Upper, Word
<1>7. (m % 1048576) \in Int /\ ((m % 1048576) % 1048576) = (m % 1048576)
  BY SMT
<1>8. QED BY <1>5, <1>6, <1>7, Extended20, SMT

(* Two fields in one, and how they come apart again.                        *)
LEMMA Apart ==
  /\ \A a \in 0 .. 15, b \in 0 .. 1 : ((a * 2 + b) \div 2) = a /\ ((a * 2 + b) % 2) = b
  /\ \A a \in 0 .. 1, b \in 0 .. 63 : ((a * 64 + b) \div 64) = a /\ ((a * 64 + b) % 64) = b
  BY SMT

(* The format of branches.                                                  *)
LEMMA BranchCut == ASSUME NEW m \in Int, (m % 2) = 0, NEW r2, NEW r1, NEW f3
                   PROVE SbImm(BranchWord(m, r2, r1, f3)) = SignExtended(m, 13)
<1>1. /\ Bits(m, 4, 1) = ((m \div 2) % 16) /\ Bits(m, 10, 5) = ((m \div 32) % 64)
      /\ Bits(m, 11, 11) = ((m \div 2048) % 2) /\ Bits(m, 12, 12) = ((m \div 4096) % 2)
  BY Powers, SMT DEF Bits
<1>2. /\ Bits(m, 4, 1) \in 0 .. 15 /\ Bits(m, 10, 5) \in 0 .. 63
      /\ Bits(m, 11, 11) \in 0 .. 1 /\ Bits(m, 12, 12) \in 0 .. 1
  BY <1>1, SMT
<1>3. (m % 4096) = 2 * Bits(m, 4, 1) + 32 * Bits(m, 10, 5) + 2048 * Bits(m, 11, 11)
  <2>1. (m % 32) = 2 * ((m \div 2) % 16)
    BY SMT
  <2>2. (m % 2048) = (32 * ((m \div 32) % 64)) + (m % 32)
    BY SMT
  <2>3. (m % 4096) = (2048 * ((m \div 2048) % 2)) + (m % 2048)
    BY SMT
  <2>4. QED BY <1>1, <2>1, <2>2, <2>3, SMT
<1>4. SignExtended(m, 13) = (m % 4096) - (4096 * ((m \div 4096) % 2))
  BY Powers, SMT DEF SignExtended
<1>5. SbImm(BranchWord(m, r2, r1, f3))
        = 2 * ((Bits(m, 4, 1) * 2 + Bits(m, 11, 11)) \div 2)
            + 32 * ((Bits(m, 12, 12) * 64 + Bits(m, 10, 5)) % 64)
            + 2048 * ((Bits(m, 4, 1) * 2 + Bits(m, 11, 11)) % 2)
            + 4096 * (-((Bits(m, 12, 12) * 64 + Bits(m, 10, 5)) \div 64))
  BY DEF SbImm, ImmSign, BranchWord, Word
<1>6. /\ ((Bits(m, 4, 1) * 2 + Bits(m, 11, 11)) \div 2) = Bits(m, 4, 1)
      /\ ((Bits(m, 4, 1) * 2 + Bits(m, 11, 11)) % 2) = Bits(m, 11, 11)
      /\ ((Bits(m, 12, 12) * 64 + Bits(m, 10, 5)) % 64) = Bits(m, 10, 5)
      /\ ((Bits(m, 12, 12) * 64 + Bits(m, 10, 5)) \div 64) = Bits(m, 12, 12)
  BY <1>2, Apart, SMT
<1>7. SbImm(BranchWord(m, r2, r1, f3))
        = 2 * Bits(m, 4, 1) + 32 * Bits(m, 10, 5) + 2048 * Bits(m, 11, 11)
            + 4096 * (-Bits(m, 12, 12))
  BY <1>5, <1>6, SMT
<1>8. QED BY <1>1, <1>2, <1>3, <1>4, <1>7, SMT

(* The format of JAL.                                                       *)
LEMMA JalCut == ASSUME NEW m \in Int, (m % 2) = 0, NEW r
                PROVE UjImm(JalWord(m, r)) = SignExtended(m, 21)
<1>1. PICK a \in 0 .. 15 : a = ((m \div 2) % 16) /\ a = Bits(m, 4, 1)
  BY Powers, SMT DEF Bits
<1>2. PICK b \in 0 .. 63 : b = ((m \div 32) % 64) /\ b = Bits(m, 10, 5)
  BY Powers, SMT DEF Bits
<1>3. PICK c \in 0 .. 1 : c = ((m \div 2048) % 2) /\ c = Bits(m, 11, 11)
  BY Powers, SMT DEF Bits
<1>4. PICK d \in 0 .. 7 : d = ((m \div 4096) % 8) /\ d = Bits(m, 14, 12)
  BY Powers, SMT DEF Bits
<1>5. PICK e \in 0 .. 31 : e = ((m \div 32768) % 32) /\ e = Bits(m, 19, 15)
  BY Powers, SMT DEF Bits
<1>6. PICK s \in 0 .. 1 : s = ((m \div 1048576) % 2) /\ s = Bits(m, 20, 20)
  BY Powers, SMT DEF Bits
<1>7. 2 * a + 32 * b + 2048 * c + 4096 * d + 32768 * e = (m % 1048576)
  BY <1>1, <1>2, <1>3, <1>4, <1>5, Joined21, SMT
<1>8. SignExtended(m, 21) = (m % 1048576) - (1048576 * s)
  BY <1>6, Powers, SMT DEF SignExtended
<1>9. UjImm(JalWord(m, r))
        = 2 * ((a * 2 + c) \div 2) + 32 * ((s * 64 + b) % 64) + 2048 * ((a * 2 + c) % 2)
            + 4096 * (e * 8 + d) + 2^20 * (-((s * 64 + b) \div 64))
  <2>1. JalWord(m, r) = Word(s * 64 + b, a * 2 + c, e, d, r, 111)
    <3>1. /\ Bits(m, 4, 1) = a /\ Bits(m, 10, 5) = b /\ Bits(m, 11, 11) = c
          /\ Bits(m, 14, 12) = d /\ Bits(m, 19, 15) = e /\ Bits(m, 20, 20) = s
      BY <1>1, <1>2, <1>3, <1>4, <1>5, <1>6
    <3>2. QED BY <3>1, SMT DEF JalWord
  <2>2. QED BY <2>1 DEF UjImm, ImmSign, Word
<1>10. /\ ((a * 2 + c) \div 2) = a /\ ((a * 2 + c) % 2) = c
       /\ ((s * 64 + b) % 64) = b /\ ((s * 64 + b) \div 64) = s
  BY Apart, SMT
<1>11. UjImm(JalWord(m, r)) = 2 * a + 32 * b + 2048 * c + 4096 * (e * 8 + d) + 1048576 * (-s)
  BY <1>9, <1>10, Powers, SMT
<1>12. (m % 1048576) \in Int
  BY SMT
<1>13. QED BY <1>7, <1>8, <1>11, <1>12, SMT

-----------------------------------------------------------------------------
(* The instruction a line stands for, by the set it comes from.             *)
TwelveBits == 0 .. 4095
Written == Operations \cup {"neg", "mv", "nop"}
Fits(op, n) == /\ op \in BranchOps \cup {"jal"} => (n % 2) = 0
               /\ op \in ShiftOps \cup {"csrrw"} => n \in TwelveBits
               /\ op = "macc" => n = 0
Shaped(i) == /\ i.op \in Operations \cup {"neg"}
             /\ i.rd \in Int /\ i.rs1 \in Int /\ i.rs2 \in Int /\ i.imm \in Int
             /\ Fits(i.op, i.imm)

(* A line of a mnemonic, with the immediates that are written for it.       *)
LEMMA Spelt ==
  /\ \A op \in IntOps \cup FloatOps \cup CompareOps \cup LoadOps \cup ImmediateOps \cup StoreOps
            \cup UpperOps \cup CustomOps \cup MoveOps \cup {"mv", "neg", "nop"} :
       op \in Written /\ \A n \in Int : Fits(op, n)
  /\ \A op \in BranchOps \cup {"jal"} :
       op \in Written /\ \A n \in Int : (n % 2) = 0 => Fits(op, n)
  /\ \A op \in ShiftOps \cup {"csrrw"} :
       op \in Written /\ \A n \in TwelveBits : Fits(op, n)
  /\ "macc" \in Written /\ Fits("macc", 0)
<1>1. \A op \in IntOps \cup FloatOps \cup CompareOps \cup LoadOps \cup ImmediateOps \cup StoreOps
            \cup UpperOps \cup CustomOps \cup MoveOps \cup {"mv", "neg", "nop"} :
        op \in Written /\ op \notin BranchOps \cup {"jal"} /\ op \notin ShiftOps \cup {"csrrw"}
        /\ op # "macc"
  BY SMT DEF Written, Operations, IntOps, FloatOps, CompareOps, LoadOps, ImmediateOps, StoreOps,
             UpperOps, CustomOps, MoveOps, BranchOps, ShiftOps
<1>2. \A op \in BranchOps \cup {"jal"} : op \in Written /\ op \notin ShiftOps \cup {"csrrw"} /\ op # "macc"
  BY SMT DEF Written, Operations, BranchOps, ShiftOps
<1>3. \A op \in ShiftOps \cup {"csrrw"} : op \in Written /\ op \notin BranchOps \cup {"jal"} /\ op # "macc"
  BY SMT DEF Written, Operations, BranchOps, ShiftOps
<1>4. "macc" \in Written /\ "macc" \notin BranchOps \cup {"jal"} /\ "macc" \notin ShiftOps \cup {"csrrw"}
  BY SMT DEF Written, Operations, BranchOps, ShiftOps
<1>5. QED BY <1>1, <1>2, <1>3, <1>4, Zenon DEF Fits

LEMMA LineShape == ASSUME NEW line \in Lines PROVE Shaped(Pseudo(line))
<1>1. ASSUME NEW op \in Written, NEW d \in Int, NEW r1 \in Int, NEW r2 \in Int, NEW n \in Int,
             line = Asm(op, d, r1, r2, n), Fits(op, n)
      PROVE Shaped(Pseudo(line))
  <2>1. line = [op |-> op, rd |-> d, rs1 |-> r1, rs2 |-> r2, imm |-> n] /\ line.op = op
    BY <1>1 DEF Asm
  <2>2. "addi" \in Operations /\ Fits("addi", 0)
    BY Spelt, SMT DEF Operations, ImmediateOps
  <2>3. CASE op = "mv"
    <3>1. Pseudo(line) = [line EXCEPT !.op = "addi", !.imm = 0]
      BY <2>1, <2>3, SMT DEF Pseudo
    <3>2. Pseudo(line) = [op |-> "addi", rd |-> d, rs1 |-> r1, rs2 |-> r2, imm |-> 0]
      BY <2>1, <3>1
    <3>3. QED BY <1>1, <2>2, <3>2 DEF Shaped
  <2>4. CASE op = "nop"
    <3>1. Pseudo(line) = [op |-> "addi", rd |-> -1, rs1 |-> -1, rs2 |-> -1, imm |-> 0]
      BY <2>1, <2>4, SMT DEF Pseudo
    <3>2. QED BY <1>1, <2>2, <3>1 DEF Shaped
  <2>5. CASE op # "mv" /\ op # "nop"
    <3>1. Pseudo(line) = line
      BY <2>1, <2>5, SMT DEF Pseudo
    <3>2. op \in Operations \cup {"neg"}
      BY <2>5 DEF Written
    <3>3. QED BY <1>1, <2>1, <3>1, <3>2 DEF Shaped
  <2>6. QED BY <2>3, <2>4, <2>5
<1>2. -1 \in Int /\ 0 \in Int /\ Temporaries \subseteq Int /\ Immediates \subseteq Int
  BY TemporariesAssumption, ImmediatesAssumption
<1>3. CASE line \in Plain(IntOps \cup FloatOps \cup CompareOps)
  <2>1. PICK op \in IntOps \cup FloatOps \cup CompareOps, d, r1, r2 \in Temporaries :
          line = Asm(op, d, r1, r2, 0)
    BY <1>3 DEF Plain
  <2>2. QED BY <1>1, <1>2, <2>1, Spelt
<1>4. CASE line \in {Asm(op, d, r, -1, i) : op \in LoadOps \cup ImmediateOps, d, r \in Temporaries,
                                            i \in Immediates}
  <2>1. PICK op \in LoadOps \cup ImmediateOps, d, r \in Temporaries, i \in Immediates :
          line = Asm(op, d, r, -1, i)
    BY <1>4
  <2>2. QED BY <1>1, <1>2, <2>1, Spelt
<1>5. CASE line \in {Asm(op, -1, r1, r2, i) : op \in StoreOps, r1, r2 \in Temporaries,
                                              i \in Immediates}
  <2>1. PICK op \in StoreOps, r1, r2 \in Temporaries, i \in Immediates :
          line = Asm(op, -1, r1, r2, i)
    BY <1>5
  <2>2. QED BY <1>1, <1>2, <2>1, Spelt
<1>6. CASE line \in {Asm(op, -1, r1, r2, i) : op \in BranchOps, r1, r2 \in Temporaries,
                                              i \in Even}
  <2>1. PICK op \in BranchOps, r1, r2 \in Temporaries, i \in Immediates :
          line = Asm(op, -1, r1, r2, i) /\ (i % 2) = 0
    BY <1>6 DEF Even
  <2>2. QED BY <1>1, <1>2, <2>1, Spelt
<1>7. CASE line \in {Asm(op, d, -1, -1, i) : op \in UpperOps, d \in Temporaries, i \in Immediates}
  <2>1. PICK op \in UpperOps, d \in Temporaries, i \in Immediates :
          line = Asm(op, d, -1, -1, i)
    BY <1>7
  <2>2. QED BY <1>1, <1>2, <2>1, Spelt
<1>8. CASE line \in {Asm("jal", d, -1, -1, i) : d \in Temporaries, i \in Even}
  <2>1. PICK d \in Temporaries, i \in Immediates :
          line = Asm("jal", d, -1, -1, i) /\ (i % 2) = 0
    BY <1>8 DEF Even
  <2>2. QED BY <1>1, <1>2, <2>1, Spelt
<1>9. CASE line \in {Asm(op, d, r, -1, i) : op \in ShiftOps \cup {"csrrw"}, d, r \in Temporaries,
                                            i \in Unsigned}
  <2>1. PICK op \in ShiftOps \cup {"csrrw"}, d, r \in Temporaries, i \in Unsigned :
          line = Asm(op, d, r, -1, i)
    BY <1>9
  <2>2. i \in Immediates /\ i \in TwelveBits
    BY DEF Unsigned, TwelveBits
  <2>3. QED BY <1>1, <1>2, <2>1, <2>2, Spelt
<1>10. CASE line \in {Asm(op, d, r, -1, 0) : op \in MoveOps \cup {"mv", "neg"},
                                            d, r \in Temporaries}
  <2>1. PICK op \in MoveOps \cup {"mv", "neg"}, d, r \in Temporaries :
          line = Asm(op, d, r, -1, 0)
    BY <1>10
  <2>2. QED BY <1>1, <1>2, <2>1, Spelt
<1>11. CASE line \in {Asm(op, -1, -1, -1, i) : op \in CustomOps, i \in Immediates}
  <2>1. PICK op \in CustomOps, i \in Immediates :
          line = Asm(op, -1, -1, -1, i)
    BY <1>11
  <2>2. QED BY <1>1, <1>2, <2>1, Spelt
<1>12. CASE line \in {Asm(op, -1, -1, -1, 0) : op \in {"macc", "nop"}}
  <2>1. PICK op \in {"macc", "nop"} :
          line = Asm(op, -1, -1, -1, 0)
    BY <1>12
  <2>2. QED BY <1>1, <1>2, <2>1, Spelt
<1>13. QED
  BY <1>3, <1>4, <1>5, <1>6, <1>7, <1>8, <1>9, <1>10, <1>11, <1>12, SMTT(60) DEF Lines

(* The shapes of lines exclude each other.                                  *)
LEMMA Distinct ==
  /\ \A op \in UpperOps : op \notin BranchOps \cup LoadOps \cup StoreOps \cup ImmediateOps
       \cup ShiftOps \cup IntOps \cup FloatOps \cup CompareOps \cup MoveOps \cup CustomOps
  /\ \A op \in BranchOps : op \notin LoadOps \cup StoreOps \cup ImmediateOps
       \cup ShiftOps \cup IntOps \cup FloatOps \cup CompareOps \cup MoveOps \cup CustomOps
  /\ \A op \in LoadOps \cup ImmediateOps : op \notin StoreOps \cup ShiftOps \cup IntOps
       \cup FloatOps \cup CompareOps \cup MoveOps \cup CustomOps
  /\ \A op \in StoreOps : op \notin ShiftOps \cup IntOps \cup FloatOps \cup CompareOps
       \cup MoveOps \cup CustomOps
  /\ \A op \in CustomOps : op \notin ShiftOps \cup IntOps \cup FloatOps \cup CompareOps
       \cup MoveOps
  /\ \A op \in UpperOps \cup BranchOps \cup LoadOps \cup StoreOps \cup ImmediateOps
       \cup ShiftOps \cup IntOps \cup FloatOps \cup CompareOps \cup MoveOps \cup CustomOps :
       op # "jal" /\ op # "csrrw" /\ op # "macc"
  /\ \A op \in LoadOps \cup ImmediateOps \cup BranchOps \cup StoreOps \cup CustomOps :
       op # "auipc" /\ op # "lui"
  /\ "auipc" \in UpperOps /\ "lui" \in UpperOps /\ "fsw" \in StoreOps
  BY SMT DEF UpperOps, BranchOps, LoadOps, StoreOps, ImmediateOps, ShiftOps,
         IntOps, FloatOps, CompareOps, MoveOps, CustomOps

(* The fields asmToBinary gives a word, by the shape of the line.           *)
LEMMA PackedFields ==
  ASSUME NEW line, NEW i, i = Pseudo(line)
  PROVE /\ i.op \in UpperOps =>
             AsmToBinary(line) = Upper20(Immediate(i), Field(i, "rd"), OpcodeOf(i.op))
        /\ i.op = "jal" => AsmToBinary(line) = JalWord(Immediate(i), Field(i, "rd"))
        /\ i.op \in BranchOps =>
             AsmToBinary(line)
               = BranchWord(Immediate(i), Field(i, "rs2"), Field(i, "rs1"), Funct3(i.op))
        /\ i.op \in LoadOps \cup ImmediateOps =>
             AsmToBinary(line) = LoadWord(Immediate(i), Field(i, "rs1"), Funct3(i.op),
                                          Field(i, "rd"), OpcodeOf(i.op))
        /\ i.op = "csrrw" =>
             AsmToBinary(line) = LoadWord(Immediate(i), Field(i, "rs1"), 1,
                                          Field(i, "rd"), OpcodeOf(i.op))
        /\ i.op \in StoreOps =>
             AsmToBinary(line) = StoreWord(Immediate(i), Field(i, "rs2"), Field(i, "rs1"),
                                           Funct3(i.op), OpcodeOf(i.op))
        /\ i.op \in ShiftOps =>
             AsmToBinary(line)
               = ShiftWord(Immediate(i), i.op, Field(i, "rs1"), Field(i, "rd"))
        /\ i.op \in IntOps \cup FloatOps \cup CompareOps \cup MoveOps =>
             AsmToBinary(line) = Word(Funct7(i.op), Field(i, "rs2"), Field(i, "rs1"),
                                      Funct3(i.op), Field(i, "rd"), OpcodeOf(i.op))
        /\ i.op \in CustomOps =>
             AsmToBinary(line) = Upper20(Immediate(i), Funct3(i.op), OpcodeOf(i.op))
        /\ i.op = "macc" => AsmToBinary(line) = Upper20(0, 0, OpcodeOf(i.op))
<1>0. \A op \in IntOps \cup FloatOps \cup CompareOps \cup MoveOps : op \notin ShiftOps
  BY SMT DEF ShiftOps, IntOps, FloatOps, CompareOps, MoveOps
<1>1. i.op \in UpperOps =>
        AsmToBinary(line) = Upper20(Immediate(i), Field(i, "rd"), OpcodeOf(i.op))
  BY Distinct, SMT DEF AsmToBinary
<1>2. i.op = "jal" => AsmToBinary(line) = JalWord(Immediate(i), Field(i, "rd"))
  BY Distinct, SMT DEF AsmToBinary
<1>3. i.op \in BranchOps =>
        AsmToBinary(line)
          = BranchWord(Immediate(i), Field(i, "rs2"), Field(i, "rs1"), Funct3(i.op))
  BY Distinct, SMT DEF AsmToBinary
<1>4. i.op \in LoadOps \cup ImmediateOps =>
        AsmToBinary(line) = LoadWord(Immediate(i), Field(i, "rs1"), Funct3(i.op),
                                     Field(i, "rd"), OpcodeOf(i.op))
  BY Distinct, SMT DEF AsmToBinary
<1>5. i.op = "csrrw" =>
        AsmToBinary(line) = LoadWord(Immediate(i), Field(i, "rs1"), 1,
                                     Field(i, "rd"), OpcodeOf(i.op))
  BY Distinct, SMT DEF AsmToBinary
<1>6. i.op \in StoreOps =>
        AsmToBinary(line) = StoreWord(Immediate(i), Field(i, "rs2"), Field(i, "rs1"),
                                      Funct3(i.op), OpcodeOf(i.op))
  BY Distinct, SMT DEF AsmToBinary
<1>7. i.op \in ShiftOps =>
        AsmToBinary(line) = ShiftWord(Immediate(i), i.op, Field(i, "rs1"), Field(i, "rd"))
  BY <1>0, Distinct, SMT DEF AsmToBinary
<1>8. i.op \in IntOps \cup FloatOps \cup CompareOps \cup MoveOps =>
        AsmToBinary(line) = Word(Funct7(i.op), Field(i, "rs2"), Field(i, "rs1"),
                                 Funct3(i.op), Field(i, "rd"), OpcodeOf(i.op))
  BY <1>0, Distinct, SMT DEF AsmToBinary
<1>9. i.op \in CustomOps =>
        AsmToBinary(line) = Upper20(Immediate(i), Funct3(i.op), OpcodeOf(i.op))
  BY Distinct, SMT DEF AsmToBinary
<1>10. i.op = "macc" => AsmToBinary(line) = Upper20(0, 0, OpcodeOf(i.op))
  BY Distinct, SMT DEF AsmToBinary
<1>11. QED BY <1>1, <1>2, <1>3, <1>4, <1>5, <1>6, <1>7, <1>8, <1>9, <1>10

(* The format of each, by the shape of the line.                            *)
LEMMA Packed ==
  ASSUME NEW line, NEW i, i = Pseudo(line)
  PROVE /\ i.op \in UpperOps \cup CustomOps =>
             \E d, opc : AsmToBinary(line) = Upper20(Immediate(i), d, opc)
        /\ i.op = "jal" => \E d : AsmToBinary(line) = JalWord(Immediate(i), d)
        /\ i.op \in BranchOps =>
             \E r2, r1, f3 : AsmToBinary(line) = BranchWord(Immediate(i), r2, r1, f3)
        /\ i.op \in LoadOps \cup ImmediateOps \cup {"csrrw"} =>
             \E r1, f3, d, opc : AsmToBinary(line) = LoadWord(Immediate(i), r1, f3, d, opc)
        /\ i.op \in StoreOps =>
             \E r2, r1, f3, opc :
               AsmToBinary(line) = StoreWord(Immediate(i), r2, r1, f3, opc)
<1>1. i.op \in UpperOps \cup CustomOps =>
        \E d, opc : AsmToBinary(line) = Upper20(Immediate(i), d, opc)
  BY PackedFields
<1>2. i.op = "jal" => \E d : AsmToBinary(line) = JalWord(Immediate(i), d)
  BY PackedFields
<1>3. i.op \in BranchOps =>
        \E r2, r1, f3 : AsmToBinary(line) = BranchWord(Immediate(i), r2, r1, f3)
  BY PackedFields
<1>4. i.op \in LoadOps \cup ImmediateOps \cup {"csrrw"} =>
        \E r1, f3, d, opc : AsmToBinary(line) = LoadWord(Immediate(i), r1, f3, d, opc)
  BY PackedFields
<1>5. i.op \in StoreOps =>
        \E r2, r1, f3, opc : AsmToBinary(line) = StoreWord(Immediate(i), r2, r1, f3, opc)
  BY PackedFields
<1>6. QED BY <1>1, <1>2, <1>3, <1>4, <1>5

(* The digits each immediate is given.                                      *)
LEMMA Digits ==
  ASSUME NEW i, i.imm \in Int
  PROVE /\ i.op \in {"lui"} \cup CustomOps => Immediate(i) = SignedBin(i.imm, 20)
        /\ i.op = "auipc" =>
             Immediate(i) = SignedBin(IF i.imm < 0 THEN -i.imm ELSE i.imm, 20)
        /\ i.op \in BranchOps \cup {"jal"} => Immediate(i) = SignedBin(i.imm, 30)
        /\ i.op = "fsw" => Immediate(i) = SignedBin(i.imm, 16)
        /\ i.op = "csrrw" => Immediate(i) = i.imm
        /\ i.op \in LoadOps \cup ImmediateOps \cup (StoreOps \ {"fsw"}) =>
             Immediate(i) = SignedBin(i.imm, 12)
  BY SMT DEF Immediate, UpperOps, BranchOps, LoadOps, StoreOps, ImmediateOps, ShiftOps,
             CustomOps

(* ImmediateIsCut of one line and its word.                                 *)
CutOf(i, w) ==
  CASE i.op = "auipc" -> Upper(w) = SignExtended(IF i.imm < 0 THEN -i.imm ELSE i.imm, 20)
    [] i.op = "csrrw" -> Csr(w) = i.imm
    [] i.op \in Immediated \ {"auipc"} ->
         DecodedImmediate(i.op, w) = SignExtended(i.imm, Width(i.op))
    [] OTHER -> TRUE

(* A line keeps of its immediate what the field of its format holds.        *)
LEMMA LineCut == ASSUME NEW line \in Lines
                 PROVE CutOf(Pseudo(line), AsmToBinary(line))
<1> DEFINE w == AsmToBinary(line)
<1>1. PICK i : i = Pseudo(line)
  OBVIOUS
<1>2. /\ i.imm \in Int
      /\ i.op \in BranchOps \cup {"jal"} => (i.imm % 2) = 0
      /\ i.op \in ShiftOps \cup {"csrrw"} => i.imm \in TwelveBits
  <2>1. Shaped(i)
    BY <1>1, LineShape
  <2>2. QED BY <2>1 DEF Shaped, Fits
<1>3. ASSUME i.op \in UpperOps \cup CustomOps, NEW n \in Int, Immediate(i) = SignedBin(n, 20)
      PROVE Upper(w) = SignExtended(n, 20)
  <2>1. PICK d, opc : w = Upper20(Immediate(i), d, opc)
    BY <1>1, <1>3, Packed
  <2>2. SignedBin(n, 20) \in Int /\ (SignedBin(n, 20) % 1048576) = (n % 1048576)
    BY Digits20
  <2>3. Upper(w) = SignExtended(SignedBin(n, 20), 20)
    BY <1>3, <2>1, <2>2, UpperCut
  <2>4. QED BY <2>2, <2>3, Extended20, SMT
<1>4. CASE i.op = "auipc"
  <2>1. PICK n \in Int : n = (IF i.imm < 0 THEN -i.imm ELSE i.imm)
    BY <1>2, SMT
  <2>2. Immediate(i) = SignedBin(n, 20)
    BY <1>2, <1>4, <2>1, Digits
  <2>3. Upper(w) = SignExtended(n, 20)
    BY <1>3, <1>4, <2>2, Distinct
  <2>4. QED BY <1>1, <1>4, <2>1, <2>3, SMT DEF CutOf
<1>5. CASE i.op \in {"lui"} \cup CustomOps
  <2>1. Immediate(i) = SignedBin(i.imm, 20)
    BY <1>2, <1>5, Digits
  <2>2. Upper(w) = SignExtended(i.imm, 20)
    BY <1>2, <1>3, <1>5, <2>1, Distinct
  <2>3. DecodedImmediate(i.op, w) = Upper(w) /\ Width(i.op) = 20
    BY <1>5, Distinct, SMT DEF DecodedImmediate, Width
  <2>4. i.op # "auipc" /\ i.op # "csrrw"
    BY <1>5, Distinct, SMT
  <2>5. QED BY <1>1, <2>2, <2>3, <2>4, SMT DEF CutOf
<1>6. CASE i.op = "jal"
  <2>1. PICK d : w = JalWord(SignedBin(i.imm, 30), d)
    BY <1>1, <1>2, <1>6, Packed, Digits
  <2>2. /\ SignedBin(i.imm, 30) \in Int
        /\ (SignedBin(i.imm, 30) % 2097152) = (i.imm % 2097152)
    BY <1>2, Digits30
  <2>3. (SignedBin(i.imm, 30) % 2) = 0
    BY <1>2, <1>6, <2>2, SMT
  <2>4. UjImm(w) = SignExtended(SignedBin(i.imm, 30), 21)
    BY <2>1, <2>2, <2>3, JalCut
  <2>5. UjImm(w) = SignExtended(i.imm, 21)
    BY <1>2, <2>2, <2>4, Extended21, SMT
  <2>6. DecodedImmediate(i.op, w) = UjImm(w) /\ Width(i.op) = 21
    BY <1>6, SMT DEF DecodedImmediate, Width, UpperOps, BranchOps, StoreOps, CustomOps
  <2>7. QED BY <1>1, <1>6, <2>5, <2>6, SMT DEF CutOf
<1>7. CASE i.op \in BranchOps
  <2>1. PICK r2, r1, f3 : w = BranchWord(SignedBin(i.imm, 30), r2, r1, f3)
    BY <1>1, <1>2, <1>7, Packed, Digits
  <2>2. /\ SignedBin(i.imm, 30) \in Int
        /\ (SignedBin(i.imm, 30) % 8192) = (i.imm % 8192)
    BY <1>2, Digits30
  <2>3. (SignedBin(i.imm, 30) % 2) = 0
    BY <1>2, <1>7, <2>2, SMT
  <2>4. SbImm(w) = SignExtended(SignedBin(i.imm, 30), 13)
    BY <2>1, <2>2, <2>3, BranchCut
  <2>5. SbImm(w) = SignExtended(i.imm, 13)
    BY <1>2, <2>2, <2>4, Extended13, SMT
  <2>6. DecodedImmediate(i.op, w) = SbImm(w) /\ Width(i.op) = 13
    BY <1>7, SMT DEF DecodedImmediate, Width, UpperOps, BranchOps, StoreOps, CustomOps
  <2>7. i.op # "auipc" /\ i.op # "csrrw"
    BY <1>7, Distinct, SMT
  <2>8. QED BY <1>1, <2>5, <2>6, <2>7, SMT DEF CutOf
<1>8. CASE i.op \in StoreOps
  <2>1. PICK r2, r1, f3, opc : w = StoreWord(Immediate(i), r2, r1, f3, opc)
    BY <1>1, <1>8, Packed
  <2>2. PICK m \in Int : m = Immediate(i) /\ (m % 4096) = (i.imm % 4096)
    BY <1>2, <1>8, Digits, Digits12, Digits16
  <2>3. SImm(w) = SignExtended(m, 12)
    BY <2>1, <2>2, StoreCut
  <2>4. SImm(w) = SignExtended(i.imm, 12)
    BY <1>2, <2>2, <2>3, Extended12, SMT
  <2>5. DecodedImmediate(i.op, w) = SImm(w) /\ Width(i.op) = 12
    BY <1>8, SMT DEF DecodedImmediate, Width, UpperOps, BranchOps, StoreOps, CustomOps
  <2>6. i.op # "auipc" /\ i.op # "csrrw"
    BY <1>8, Distinct, SMT
  <2>7. QED BY <1>1, <2>4, <2>5, <2>6, SMT DEF CutOf
<1>9. CASE i.op \in LoadOps \cup ImmediateOps
  <2>1. PICK r1, f3, d, opc : w = LoadWord(Immediate(i), r1, f3, d, opc)
    BY <1>1, <1>9, Packed
  <2>2. PICK m \in Int : m = Immediate(i) /\ (m % 4096) = (i.imm % 4096)
    BY <1>2, <1>9, Digits, Digits12
  <2>3. IImm(w) = SignExtended(m, 12)
    BY <2>1, <2>2, LoadCut
  <2>4. IImm(w) = SignExtended(i.imm, 12)
    BY <1>2, <2>2, <2>3, Extended12, SMT
  <2>5. DecodedImmediate(i.op, w) = IImm(w) /\ Width(i.op) = 12
    BY <1>9, SMT DEF DecodedImmediate, Width, UpperOps, BranchOps, StoreOps, CustomOps, LoadOps,
                     ImmediateOps
  <2>6. i.op # "auipc" /\ i.op # "csrrw"
    BY <1>9, Distinct, SMT
  <2>7. QED BY <1>1, <2>4, <2>5, <2>6, SMT DEF CutOf
<1>10. CASE i.op = "csrrw"
  <2>1. PICK r1, f3, d, opc : w = LoadWord(i.imm, r1, f3, d, opc)
    BY <1>1, <1>2, <1>10, Packed, Digits
  <2>2. Csr(w) = Bits(i.imm, 11, 5) * 32 + Bits(i.imm, 4, 0)
    BY <2>1 DEF Csr, LoadWord, Word
  <2>3. i.op \in ShiftOps \cup {"csrrw"}
    BY <1>10
  <2>4. \A n \in TwelveBits : Bits(n, 11, 5) * 32 + Bits(n, 4, 0) = n
    BY Powers, SMT DEF Bits, TwelveBits
  <2>5. Csr(w) = i.imm
    BY <1>2, <2>2, <2>3, <2>4
  <2>6. i.op \notin Immediated
    BY <1>10, Distinct, SMT DEF Immediated
  <2>7. QED BY <1>1, <1>10, <2>5, <2>6, SMT DEF CutOf
<1>11. CASE i.op \notin Immediated \cup {"csrrw"}
  <2>1. i.op # "auipc"
    BY <1>11, Distinct, SMT DEF Immediated
  <2>2. QED BY <1>1, <1>11, <2>1, SMT DEF CutOf
<1>12. QED
  <2>1. i.op \in {"auipc", "lui", "jal", "csrrw"} \cup CustomOps \cup BranchOps \cup StoreOps
                   \cup LoadOps \cup ImmediateOps
          \/ i.op \notin Immediated \cup {"csrrw"}
    BY SMT DEF Immediated, UpperOps
  <2>2. QED BY <1>4, <1>5, <1>6, <1>7, <1>8, <1>9, <1>10, <1>11, <2>1

-----------------------------------------------------------------------------
(* What a request has come to: the lines left of it, and the words of those *)
(* assembled. Nothing is assembled before, and dumping changes neither.     *)
LineStage ==
  \E insn \in Lines :
    /\ source = [kind |-> "line", insn |-> insn]
    /\ \/ text = <<insn>> /\ words = <<>>
       \/ text = <<>> /\ \E w : words = <<w>> /\ (insn.op # "neg" => w = AsmToBinary(insn))
IntStage ==
  \E n \in Immediates :
    /\ source = [kind |-> "int", value |-> n]
    /\ \/ text = <<Asm("addi", T, -1, -1, n)>> /\ words = <<>>
       \/ text = <<>> /\ words = <<AsmToBinary(Asm("addi", T, -1, -1, n))>>
UpperLine(u, l) == Asm("lui", T, -1, -1, Rounded(u, l))
LowerLine(l) == Asm("addi", T, T, -1, l)
FloatStage ==
  \E u \in Uppers, l \in Lowers :
    /\ source = [kind |-> "float", upper |-> u, lower |-> l]
    /\ \/ l = 0 /\ text = <<UpperLine(u, l)>> /\ words = <<>>
       \/ l = 0 /\ text = <<>> /\ words = <<AsmToBinary(UpperLine(u, l))>>
       \/ l # 0 /\ text = <<UpperLine(u, l), LowerLine(l)>> /\ words = <<>>
       \/ l # 0 /\ text = <<LowerLine(l)>> /\ words = <<AsmToBinary(UpperLine(u, l))>>
       \/ /\ l # 0 /\ text = <<>>
          /\ words = <<AsmToBinary(UpperLine(u, l)), AsmToBinary(LowerLine(l))>>
Stages == \/ source = Nothing /\ text = <<>> /\ words = <<>>
          \/ LineStage \/ IntStage \/ FloatStage

(* The sequences that occur have at most two elements.                      *)
LEMMA Appended ==
  ASSUME NEW x, NEW y
  PROVE /\ Append(<<>>, x) = <<x>> /\ Append(<<x>>, y) = <<x, y>>
        /\ <<x>> \o <<>> = <<x>> /\ <<x>> \o <<y>> = <<x, y>>
<1>1. <<x>> \in Seq({x, y}) /\ <<y>> \in Seq({x, y}) /\ <<x, y>> \in Seq({x, y}) /\ y \in {x, y}
  OBVIOUS
<1>2. Len(<<x, y>>) = 2 /\ <<x, y>>[1] = x /\ <<x, y>>[2] = y
  OBVIOUS
<1>3. ASSUME NEW s \in Seq({x, y}), Len(s) = 2, s[1] = x, s[2] = y PROVE s = <<x, y>>
  <2>1. \A k \in 1 .. Len(s) : s[k] = <<x, y>>[k]
    BY <1>2, <1>3, SMT
  <2>2. QED BY <1>1, <1>2, <1>3, <2>1, SeqEqual, Zenon
<1>4. /\ Append(<<x>>, y) \in Seq({x, y}) /\ Len(Append(<<x>>, y)) = 2
      /\ Append(<<x>>, y)[1] = x /\ Append(<<x>>, y)[2] = y
  BY <1>1, AppendProperties, SMT
<1>5. /\ <<x>> \o <<y>> \in Seq({x, y}) /\ Len(<<x>> \o <<y>>) = 2
      /\ (<<x>> \o <<y>>)[1] = x /\ (<<x>> \o <<y>>)[2] = y
  BY <1>1, ConcatProperties, SMT
<1>6. Append(<<>>, x) = <<x>> /\ <<x>> \o <<>> = <<x>>
  BY SMT
<1>7. QED BY <1>3, <1>4, <1>5, <1>6
LEMMA Taken ==
  ASSUME NEW x, NEW y
  PROVE /\ Head(<<x>>) = x /\ Tail(<<x>>) = <<>> /\ <<x>> # <<>>
        /\ Head(<<x, y>>) = x /\ Tail(<<x, y>>) = <<y>> /\ <<x, y>> # <<>>
<1>1. Head(<<x>>) = x /\ Tail(<<x>>) = <<>>
  OBVIOUS
<1>2. Head(<<x, y>>) = x /\ Tail(<<x, y>>) = <<y>>
  OBVIOUS
<1>3. <<x>> # <<>> /\ <<x, y>> # <<>>
  OBVIOUS
<1>4. QED BY <1>1, <1>2, <1>3

(* A request is in one of these stages, always.                             *)
LEMMA InitStages == Init => Stages
  BY DEF Init, Stages

LEMMA StagesKept == Stages /\ [Next]_vars => Stages'
<1> SUFFICES ASSUME Stages, [Next]_vars PROVE Stages'
  OBVIOUS
<1> USE DEF Stages, LineStage, IntStage, FloatStage
<1>1. ASSUME NEW insn \in Lines, Emit(insn) PROVE Stages'
  <2>1. text = <<>> /\ words = <<>>
    BY <1>1 DEF Emit, Request, Nothing
  <2>2. LineStage'
    BY <1>1, <2>1 DEF Emit, Request
  <2>3. QED BY <2>2
<1>2. ASSUME NEW n \in Immediates, ConstantInt(n) PROVE Stages'
  <2>1. text = <<>> /\ words = <<>>
    BY <1>2 DEF ConstantInt, Request, Nothing
  <2>2. IntStage'
    BY <1>2, <2>1 DEF ConstantInt, Request
  <2>3. QED BY <2>2
<1>3. ASSUME NEW u \in Uppers, NEW l \in Lowers, ConstantFloat(u, l) PROVE Stages'
  <2>1. text = <<>> /\ words = <<>>
    BY <1>3 DEF ConstantFloat, Request, Nothing
  <2>2. source' = [kind |-> "float", upper |-> u, lower |-> l] /\ words' = <<>>
    BY <1>3, <2>1 DEF ConstantFloat, Request
  <2>3. CASE l = 0
    <3>1. text' = <<UpperLine(u, l)>>
      BY <1>3, <2>3, Appended DEF ConstantFloat, Request, UpperLine
    <3>2. QED BY <2>2, <2>3, <3>1
  <2>4. CASE l # 0
    <3>1. text' = <<UpperLine(u, l), LowerLine(l)>>
      BY <1>3, <2>4, Appended DEF ConstantFloat, Request, UpperLine, LowerLine
    <3>2. QED BY <2>2, <2>4, <3>1
  <2>5. QED BY <2>3, <2>4
<1>4. CASE Assemble
  <2>1. /\ text # <<>> /\ source' = source /\ Head(text).op # "neg"
        /\ words' = Append(words, AsmToBinary(Head(text))) /\ text' = Tail(text)
    BY <1>4 DEF Assemble
  <2>2. CASE LineStage
    <3>1. PICK insn \in Lines : source = [kind |-> "line", insn |-> insn]
                                /\ text = <<insn>> /\ words = <<>>
      BY <2>1, <2>2
    <3>2. text' = <<>> /\ words' = <<AsmToBinary(insn)>>
      BY <2>1, <3>1, Taken, Appended, Zenon
    <3>3. LineStage'
      BY <2>1, <3>1, <3>2
    <3>4. QED BY <3>3
  <2>3. CASE IntStage
    <3>1. PICK n \in Immediates : source = [kind |-> "int", value |-> n]
                                  /\ text = <<Asm("addi", T, -1, -1, n)>> /\ words = <<>>
      BY <2>1, <2>3
    <3>2. text' = <<>> /\ words' = <<AsmToBinary(Asm("addi", T, -1, -1, n))>>
      BY <2>1, <3>1, Taken, Appended, Zenon
    <3>3. IntStage'
      BY <2>1, <3>1, <3>2
    <3>4. QED BY <3>3
  <2>4. CASE FloatStage
    <3>1. PICK u \in Uppers, l \in Lowers :
            /\ source = [kind |-> "float", upper |-> u, lower |-> l]
            /\ \/ l = 0 /\ text = <<UpperLine(u, l)>> /\ words = <<>>
               \/ l # 0 /\ text = <<UpperLine(u, l), LowerLine(l)>> /\ words = <<>>
               \/ l # 0 /\ text = <<LowerLine(l)>> /\ words = <<AsmToBinary(UpperLine(u, l))>>
      BY <2>1, <2>4
    <3>2. CASE l = 0
      <4>1. text = <<UpperLine(u, l)>> /\ words = <<>>
        BY <3>1, <3>2
      <4>2. text' = <<>> /\ words' = <<AsmToBinary(UpperLine(u, l))>>
        BY <2>1, <4>1, Taken, Appended, Zenon
      <4>3. FloatStage'
        BY <2>1, <3>1, <3>2, <4>2
      <4>4. QED BY <4>3
    <3>3. CASE l # 0 /\ text = <<UpperLine(u, l), LowerLine(l)>> /\ words = <<>>
      <4>1. text' = <<LowerLine(l)>> /\ words' = <<AsmToBinary(UpperLine(u, l))>>
        <5>1. Head(text) = UpperLine(u, l) /\ Tail(text) = <<LowerLine(l)>>
          BY <3>3, Taken
        <5>2. words' = Append(<<>>, AsmToBinary(UpperLine(u, l)))
          BY <2>1, <3>3, <5>1
        <5>3. QED BY <2>1, <5>1, <5>2, Appended
      <4>2. FloatStage'
        BY <2>1, <3>1, <3>3, <4>1
      <4>3. QED BY <4>2
    <3>4. CASE l # 0 /\ text = <<LowerLine(l)>> /\ words = <<AsmToBinary(UpperLine(u, l))>>
      <4>1. text' = <<>>
              /\ words' = <<AsmToBinary(UpperLine(u, l)), AsmToBinary(LowerLine(l))>>
        <5>1. Head(text) = LowerLine(l) /\ Tail(text) = <<>>
          BY <3>4, Taken
        <5>2. words' = Append(<<AsmToBinary(UpperLine(u, l))>>, AsmToBinary(LowerLine(l)))
          BY <2>1, <3>4, <5>1
        <5>3. QED BY <2>1, <5>1, <5>2, Appended
      <4>2. FloatStage'
        BY <2>1, <3>1, <3>4, <4>1
      <4>3. QED BY <4>2
    <3>5. QED BY <3>1, <3>2, <3>3, <3>4
  <2>5. QED BY <2>1, <2>2, <2>3, <2>4
<1>5. ASSUME NEW garbage \in Uninitialised, AssembleUnknown(garbage) PROVE Stages'
  <2>1. /\ text # <<>> /\ source' = source /\ Head(text).op = "neg"
        /\ words' = Append(words, garbage) /\ text' = Tail(text)
    BY <1>5 DEF AssembleUnknown
  <2>2. CASE LineStage
    <3>1. PICK insn \in Lines : source = [kind |-> "line", insn |-> insn]
                                /\ text = <<insn>> /\ words = <<>>
      BY <2>1, <2>2
    <3>2. text' = <<>> /\ words' = <<garbage>> /\ insn.op = "neg"
      BY <2>1, <3>1, Taken, Appended, Zenon
    <3>3. LineStage'
      BY <2>1, <3>1, <3>2
    <3>4. QED BY <3>3
  <2>3. ~IntStage
    <3>1. \A n : Asm("addi", T, -1, -1, n).op = "addi"
      BY DEF Asm
    <3>2. QED BY <2>1, <3>1, Taken
  <2>4. ~FloatStage
    <3>1. \A u, l : UpperLine(u, l).op = "lui" /\ LowerLine(l).op = "addi"
      BY DEF UpperLine, LowerLine, Asm
    <3>2. QED BY <2>1, <3>1, Taken
  <2>5. QED BY <2>1, <2>2, <2>3, <2>4
<1>6. ASSUME UNCHANGED <<source, text, words>> PROVE Stages'
  BY <1>6
<1>7. QED
  BY <1>1, <1>2, <1>3, <1>4, <1>5, <1>6 DEF Next, Dump, Done, vars

(* Every immediate of an assembled line is what its field can hold of the   *)
(* number that was written: binary.c cuts it, nothing else happens to it,   *)
(* except that AUIPC takes the absolute value.                              *)
THEOREM ImmediatesAreCut == Spec => []ImmediateIsCut
<1>1. Stages => ImmediateIsCut
  <2> SUFFICES ASSUME Stages, Assembled PROVE ImmediateIsCut
    BY DEF ImmediateIsCut
  <2>1. PICK insn \in Lines :
          /\ source = [kind |-> "line", insn |-> insn]
          /\ \E w : words = <<w>> /\ (insn.op # "neg" => w = AsmToBinary(insn))
    BY DEF Stages, Assembled, LineStage, IntStage, FloatStage
  <2>2. CASE insn.op # "neg"
    <3>1. W = AsmToBinary(insn) /\ Meant = Pseudo(insn)
      BY <2>1, <2>2 DEF W, Meant
    <3>2. CutOf(Meant, W)
      BY <2>2, <3>1, LineCut
    <3>3. QED BY <3>2 DEF ImmediateIsCut, CutOf
  <2>3. CASE insn.op = "neg"
    <3>1. Meant.op = "neg"
      BY <2>1, <2>3, SMT DEF Meant, Pseudo
    <3>2. QED BY <3>1, SMT DEF ImmediateIsCut, Immediated, LoadOps, StoreOps, ImmediateOps,
               UpperOps, CustomOps, BranchOps
  <2>4. QED BY <2>2, <2>3
<1>2. QED BY <1>1, InitStages, StagesKept, PTL DEF Spec

(* What the two instructions of a constant load.                            *)
LEMMA AddiLoads ==
  ASSUME NEW n \in Int, NEW t, NEW r
  PROVE IImm(AsmToBinary(Asm("addi", t, r, -1, n))) = SignExtended(n, 12)
<1>1. PICK i : i = Asm("addi", t, r, -1, n)
  OBVIOUS
<1>2. Pseudo(i) = i /\ i.op = "addi" /\ i.imm = n
  BY <1>1, SMT DEF Asm, Pseudo
<1>3. i.op \in ImmediateOps
  BY <1>2 DEF ImmediateOps
<1>4. PICK r1, f3, d, opc : AsmToBinary(i) = LoadWord(Immediate(i), r1, f3, d, opc)
  BY <1>2, <1>3, Packed
<1>5. Immediate(i) = SignedBin(n, 12)
  BY <1>2, <1>3, Digits
<1>6. IImm(AsmToBinary(i)) = SignExtended(SignedBin(n, 12), 12)
  BY <1>4, <1>5, LoadCut, Digits12
<1>7. QED BY <1>1, <1>6, Extended12, Digits12, SMT

LEMMA LuiLoads ==
  ASSUME NEW n \in Int, NEW t
  PROVE Upper(AsmToBinary(Asm("lui", t, -1, -1, n))) = SignExtended(n, 20)
<1>1. PICK i : i = Asm("lui", t, -1, -1, n)
  OBVIOUS
<1>2. Pseudo(i) = i /\ i.op = "lui" /\ i.imm = n
  BY <1>1, SMT DEF Asm, Pseudo
<1>3. PICK d, opc : AsmToBinary(i) = Upper20(Immediate(i), d, opc)
  BY <1>2, Packed, Distinct
<1>4. Immediate(i) = SignedBin(n, 20)
  BY <1>2, Digits
<1>5. Upper(AsmToBinary(i)) = SignExtended(SignedBin(n, 20), 20)
  BY <1>3, <1>4, UpperCut, Digits20
<1>6. QED BY <1>1, <1>5, Extended20, Digits20, SMT

(* Which numbers an ADDI can load, and what it makes of the lower part of a *)
(* float.                                                                   *)
LEMMA SmallInts == \A n \in Int : (SignExtended(n, 12) = n) <=> (n \in -2048 .. 2047)
<1>1. ASSUME NEW n \in Int PROVE SignExtended(n, 12) = ((n + 2048) % 4096) - 2048
  BY Powers, SMT DEF SignExtended
<1>2. ASSUME NEW n \in Int
      PROVE (((n + 2048) % 4096) - 2048 = n) <=> (n \in -2048 .. 2047)
  BY SMT
<1>3. QED BY <1>1, <1>2, SMT
LEMMA LowParts ==
  ASSUME NEW n \in Int, 0 <= n, n <= 4095
  PROVE /\ n > 2047 => SignExtended(n, 12) = n - 4096
        /\ n <= 2047 => SignExtended(n, 12) = n
<1>1. SignExtended(n, 12) = ((n + 2048) % 4096) - 2048
  BY Powers, SMT DEF SignExtended
<1>2. /\ n > 2047 => ((n + 2048) % 4096) - 2048 = n - 4096
      /\ n <= 2047 => ((n + 2048) % 4096) - 2048 = n
  BY SMT
<1>3. QED BY <1>1, <1>2, SMT
LEMMA Parts20 ==
  \A n \in Int : SignExtended(n, 20) \in Int /\ ((SignExtended(n, 20) - n) % 1048576) = 0
  BY Powers, SMT DEF SignExtended

(* A float constant is put together from its two parts to the bit; an int   *)
(* constant is right exactly if twelve bits hold it.                        *)
THEOREM ConstantsAreLoaded == Spec => []ConstantsLoaded
<1>1. Stages => ConstantsLoaded
  <2> SUFFICES ASSUME Stages, Complete PROVE Loaded
    BY DEF ConstantsLoaded
  <2>1. CASE LineStage
    <3>1. source.kind = "line"
      BY <2>1 DEF LineStage
    <3>2. QED BY <3>1, SMT DEF Loaded
  <2>2. CASE IntStage
    <3>1. PICK n \in Immediates : source = [kind |-> "int", value |-> n]
                                  /\ words = <<AsmToBinary(Asm("addi", T, -1, -1, n))>>
      BY <2>2, Taken DEF IntStage, Complete
    <3>2. n \in Int
      BY ImmediatesAssumption
    <3>3. IImm(W) = SignExtended(n, 12)
      BY <3>1, <3>2, AddiLoads DEF W
    <3>4. source.kind = "int" /\ source.value = n
      BY <3>1
    <3>5. IImm(W) = source.value <=> source.value \in -2048 .. 2047
      <4>1. (SignExtended(n, 12) = n) <=> (n \in -2048 .. 2047)
        BY <3>2, SmallInts, SMT
      <4>2. QED BY <3>3, <3>4, <4>1, SMT
    <3>6. QED BY <3>4, <3>5, SMT DEF Loaded
  <2>3. CASE FloatStage
    <3>1. PICK u \in Uppers, l \in Lowers :
            /\ source = [kind |-> "float", upper |-> u, lower |-> l]
            /\ \/ l = 0 /\ words = <<AsmToBinary(UpperLine(u, l))>>
               \/ l # 0 /\ words = <<AsmToBinary(UpperLine(u, l)), AsmToBinary(LowerLine(l))>>
      <4>1. text = <<>>
        BY DEF Complete
      <4>2. \A u, l : <<UpperLine(u, l)>> # <<>> /\ <<LowerLine(l)>> # <<>>
                     /\ <<UpperLine(u, l), LowerLine(l)>> # <<>>
        BY Taken
      <4>3. QED BY <2>3, <4>1, <4>2, Zenon DEF FloatStage
    <3>2. u \in Int /\ l \in Int /\ 0 <= l /\ l <= 4095
      <4>1. u \in -(2^19) .. 2^19 - 1
        BY <3>1, ConstantsAssumption, SMT
      <4>2. l \in 0 .. 4095
        BY <3>1, ConstantsAssumption, SMT
      <4>3. u \in Int
        BY <4>1, Powers, SMT
      <4>4. QED BY <4>2, <4>3, SMT
    <3>3. source.kind = "float" /\ source.upper = u /\ source.lower = l
      BY <3>1
    <3>4. PICK low : low = (IF Len(words) = 2 THEN IImm(words[2]) ELSE 0)
      OBVIOUS
    <3>5. low \in Int /\ (l > 2047 => low = l - 4096) /\ (l <= 2047 => low = l)
      <4>1. CASE l = 0
        BY <3>1, <3>4, <4>1, SMT
      <4>2. CASE l # 0
        <5>1. low = IImm(AsmToBinary(LowerLine(l)))
          BY <3>1, <3>4, <4>2
        <5>2. low = SignExtended(l, 12)
          BY <3>2, <5>1, AddiLoads DEF LowerLine
        <5>3. (l > 2047 => low = l - 4096) /\ (l <= 2047 => low = l)
          BY <3>2, <5>2, LowParts, SMT
        <5>4. QED BY <3>2, <5>3, SMT
      <4>3. QED BY <4>1, <4>2, SMT
    <3>6. PICK r \in Int : r = Rounded(u, l) /\ r = (IF l > 2047 THEN u + 1 ELSE u)
      BY <3>2, SMT DEF Rounded
    <3>7. PICK up \in Int : up = Upper(W) /\ ((up - r) % 1048576) = 0
      <4>1. W = AsmToBinary(UpperLine(u, l))
        BY <3>1 DEF W
      <4>2. Upper(W) = SignExtended(r, 20)
        <5>1. r = Rounded(u, l)
          BY <3>6, SMT
        <5>2. UpperLine(u, l) = Asm("lui", T, -1, -1, r)
          BY <5>1 DEF UpperLine
        <5>3. QED BY <4>1, <5>2, LuiLoads
      <4>3. Upper(W) \in Int /\ ((Upper(W) - r) % 1048576) = 0
        BY <4>2, Parts20, SMT
      <4>4. QED BY <4>3, SMT
    <3>8. ((low - l) % 4096) = 0 /\ ((up + ((low - l) \div 4096) - u) % 1048576) = 0
      <4>1. CASE l > 2047
        <5>1. low - l = -4096 /\ ((low - l) \div 4096) = -1 /\ r = u + 1
          BY <3>2, <3>5, <3>6, <4>1, SMT
        <5>2. QED BY <3>2, <3>7, <5>1, SMT
      <4>2. CASE ~(l > 2047)
        <5>1. low - l = 0 /\ ((low - l) \div 4096) = 0 /\ r = u
          BY <3>2, <3>5, <3>6, <4>2, SMT
        <5>2. QED BY <3>2, <3>7, <5>1, SMT
      <4>3. QED BY <4>1, <4>2, SMT
    <3>9. QED BY <3>3, <3>4, <3>7, <3>8, Powers, SMT DEF Loaded
  <2>4. QED BY <2>1, <2>2, <2>3 DEF Stages, Complete
<1>2. QED BY <1>1, InitStages, StagesKept, PTL DEF Spec

-----------------------------------------------------------------------------
(* Registers and function codes reach the words; the words reach the file.  *)

(* The two tables of names are one table without repetition.                *)
LEMMA Tables ==
  /\ \A i, j \in 1 .. 32 : IntNames[i] = IntNames[j] => i = j
  /\ \A i, j \in 1 .. 32 : FloatNames[i] = FloatNames[j] => i = j
  /\ \A i, j \in 1 .. 32 : IntNames[i] # FloatNames[j]
  /\ \A i \in 1 .. 32 : IntNames[i] # NoName /\ FloatNames[i] # NoName
<1>1. \A i, j \in 1 .. 32 : IntNames[i] = IntNames[j] => i = j
  BY SMTT(60) DEF IntNames
<1>2. \A i, j \in 1 .. 32 : FloatNames[i] = FloatNames[j] => i = j
  BY SMTT(60) DEF FloatNames
<1>3. \A i, j \in 1 .. 32 : IntNames[i] # FloatNames[j]
  BY SMTT(60) DEF IntNames, FloatNames
<1>4. \A i \in 1 .. 32 : IntNames[i] # NoName /\ FloatNames[i] # NoName
  BY SMTT(60) DEF IntNames, FloatNames, NoName
<1>5. QED BY <1>1, <1>2, <1>3, <1>4

(* The number found for a name is its place in its table.                   *)
LEMMA Numbered ==
  /\ \A k \in 1 .. 32 : Number(IntNames[k]) = k - 1 /\ Number(FloatNames[k]) = k - 1
  /\ Number(NoName) = 31
<1>1. ASSUME NEW k \in 1 .. 32 PROVE Number(IntNames[k]) = k - 1
  <2>1. In(IntNames[k], IntNames)
    BY DEF In
  <2>2. PlaceIn(IntNames[k], IntNames) \in 1 .. 32
        /\ IntNames[PlaceIn(IntNames[k], IntNames)] = IntNames[k]
    BY <2>1 DEF In, PlaceIn
  <2>3. PlaceIn(IntNames[k], IntNames) = k
    BY <2>2, Tables
  <2>4. QED BY <2>1, <2>3 DEF Number
<1>2. ASSUME NEW k \in 1 .. 32 PROVE Number(FloatNames[k]) = k - 1
  <2>1. In(FloatNames[k], FloatNames) /\ ~In(FloatNames[k], IntNames)
    BY Tables DEF In
  <2>2. PlaceIn(FloatNames[k], FloatNames) \in 1 .. 32
        /\ FloatNames[PlaceIn(FloatNames[k], FloatNames)] = FloatNames[k]
    BY <2>1 DEF In, PlaceIn
  <2>3. PlaceIn(FloatNames[k], FloatNames) = k
    BY <2>2, Tables
  <2>4. QED BY <2>1, <2>3 DEF Number
<1>3. ~In(NoName, IntNames) /\ ~In(NoName, FloatNames)
  BY Tables DEF In
<1>4. QED BY <1>1, <1>2, <1>3 DEF Number

(* A colour is the same register in the translator's table of names and in  *)
(* that of its numbers.                                                     *)
LEMMA Coloured ==
  \A c \in Colours : /\ IntCodes[c + 1] \in 0 .. 31 /\ FloatCodes[c + 1] \in 0 .. 31
                     /\ IntColours[c + 1] = IntNames[IntCodes[c + 1] + 1]
                     /\ FloatColours[c + 1] = FloatNames[FloatCodes[c + 1] + 1]
<1>1. ASSUME NEW c \in Colours PROVE IntCodes[c + 1] \in 0 .. 31 /\ FloatCodes[c + 1] \in 0 .. 31
  BY SMT DEF Colours, IntCodes, FloatCodes
<1>2. ASSUME NEW c \in Colours PROVE IntColours[c + 1] = IntNames[IntCodes[c + 1] + 1]
  <2>1. c \in {0, 1, 2, 3, 4, 5, 6, 7, 8, 9, 10, 11, 12}
    BY SMT DEF Colours
  <2>2. QED BY <2>1, SMT DEF IntCodes, IntColours, IntNames
<1>3. ASSUME NEW c \in Colours PROVE FloatColours[c + 1] = FloatNames[FloatCodes[c + 1] + 1]
  <2>1. c \in {0, 1, 2, 3, 4, 5, 6, 7, 8, 9, 10, 11, 12}
    BY SMT DEF Colours
  <2>2. QED BY <2>1, SMT DEF FloatCodes, FloatColours, FloatNames
<1>4. QED BY <1>1, <1>2, <1>3

(* A temporary's name is read back as its register.                         *)
RegisterIn(codes, t) == IF t \in Fixed THEN -1 - t ELSE IF t \notin Colours THEN 31 ELSE codes[t + 1]
LEMMA NamedAndRead ==
  \A t \in Int : /\ Number(GetReg(t)) = RegisterIn(IntCodes, t)
                 /\ Number(GetFloatReg(t)) = RegisterIn(FloatCodes, t)
                 /\ RegisterIn(IntCodes, t) \in 0 .. 31 /\ RegisterIn(FloatCodes, t) \in 0 .. 31
<1> SUFFICES ASSUME NEW t \in Int
             PROVE /\ Number(GetReg(t)) = RegisterIn(IntCodes, t)
                   /\ Number(GetFloatReg(t)) = RegisterIn(FloatCodes, t)
                   /\ RegisterIn(IntCodes, t) \in 0 .. 31 /\ RegisterIn(FloatCodes, t) \in 0 .. 31
  OBVIOUS
<1> USE DEF RegisterIn, GetReg, GetFloatReg, RegisterNamed
<1>1. CASE t \in Fixed
  <2>1. -t \in 1 .. 32 /\ (-t) - 1 = -1 - t /\ -1 - t \in 0 .. 31
    BY <1>1 DEF Fixed
  <2>2. Number(IntNames[-t]) = -1 - t /\ Number(FloatNames[-t]) = -1 - t
    BY <2>1, Numbered
  <2>3. QED BY <1>1, <2>1, <2>2
<1>2. CASE t \in Colours /\ t \notin Fixed
  <2> DEFINE a == IntCodes[t + 1]
             b == FloatCodes[t + 1]
  <2>1. /\ a \in 0 .. 31 /\ b \in 0 .. 31
        /\ IntColours[t + 1] = IntNames[a + 1] /\ FloatColours[t + 1] = FloatNames[b + 1]
    BY <1>2, Coloured
  <2> HIDE DEF a, b
  <2>2. a + 1 \in 1 .. 32 /\ (a + 1) - 1 = a /\ b + 1 \in 1 .. 32 /\ (b + 1) - 1 = b
    BY <2>1
  <2>3. Number(IntNames[a + 1]) = a /\ Number(FloatNames[b + 1]) = b
    BY <2>2, Numbered
  <2>4. QED BY <1>2, <2>1, <2>3 DEF a, b
<1>3. CASE t \notin Colours /\ t \notin Fixed
  BY <1>3, Numbered
<1>4. QED BY <1>1, <1>2, <1>3

(* The registers of a line reach its word.                                  *)
LEMMA FieldIsRegister ==
  ASSUME NEW i, Shaped(i), NEW f \in {"rd", "rs1", "rs2"}
  PROVE /\ Field(i, f) \in 0 .. 31
        /\ f \in Names(i.op) => Field(i, f) = RegisterOf(f, i)
        /\ RegisterOf(f, i) = RegisterIn(IF f \in FloatFields(i.op) THEN FloatCodes ELSE IntCodes,
                                         i[f])
<1>1. i[f] \in Int
  BY DEF Shaped
<1>2. RegisterOf(f, i) = RegisterIn(IF f \in FloatFields(i.op) THEN FloatCodes ELSE IntCodes, i[f])
  BY DEF RegisterOf, RegisterIn
<1>3. f \in Names(i.op) => Field(i, f) = RegisterOf(f, i) /\ RegisterOf(f, i) \in 0 .. 31
  BY <1>1, <1>2, NamedAndRead DEF Field
<1>4. f \notin Names(i.op) => Field(i, f) = 0
  BY DEF Field
<1>5. QED BY <1>2, <1>3, <1>4

(* The function codes, their text read as a decimal number and cut.         *)
LEMMA Functions3 ==
  ASSUME NEW op
  PROVE /\ op \in {"bne", "lh", "sh", "slli", "sll", "flt", "fsgnjn", "setpa"} => Funct3(op) = 1
        /\ op \in {"lw", "sw", "slti", "slt", "flw", "fsw", "feq", "setpb"} => Funct3(op) = 2
        /\ op \in {"sltiu", "sltu", "store"} => Funct3(op) = 3
        /\ op \in {"blt", "lbu", "xori", "xor"} => Funct3(op) = 4
        /\ op \in {"bge", "lhu", "srli", "srai", "srl", "sra"} => Funct3(op) = 5
        /\ op \in {"bltu", "ori", "or", "setacc"} => Funct3(op) = 6
        /\ op \in {"bgeu", "andi", "and"} => Funct3(op) = 7
        /\ op \in {"beq", "lb", "sb", "jalr", "addi", "add", "sub", "mul", "fsgnj", "fle",
                   "fmv", "fadd", "fsub", "fmul", "fcvt"} => Funct3(op) = 0
        /\ Funct3(op) \in 0 .. 7
<1>2. /\ Atoi(<<0, 0, 0>>) % 8 = 0 /\ Atoi(<<0, 0, 1>>) % 8 = 1 /\ Atoi(<<0, 1, 0>>) % 8 = 2
      /\ Atoi(<<0, 1, 1>>) % 8 = 3 /\ Atoi(<<1, 0, 0>>) % 8 = 4 /\ Atoi(<<1, 0, 1>>) % 8 = 5
      /\ Atoi(<<1, 1, 0>>) % 8 = 6 /\ Atoi(<<1, 1, 1>>) % 8 = 7
  BY SMT DEF Atoi
<1>3. /\ op \in {"bne", "lh", "sh", "slli", "sll", "flt", "fsgnjn", "setpa"} =>
           Funct3Text(op) = <<0, 0, 1>>
      /\ op \in {"lw", "sw", "slti", "slt", "flw", "fsw", "feq", "setpb"} =>
           Funct3Text(op) = <<0, 1, 0>>
      /\ op \in {"sltiu", "sltu", "store"} => Funct3Text(op) = <<0, 1, 1>>
      /\ op \in {"blt", "lbu", "xori", "xor"} => Funct3Text(op) = <<1, 0, 0>>
  BY SMTT(30) DEF Funct3Text
<1>4. /\ op \in {"bge", "lhu", "srli", "srai", "srl", "sra"} => Funct3Text(op) = <<1, 0, 1>>
      /\ op \in {"bltu", "ori", "or", "setacc"} => Funct3Text(op) = <<1, 1, 0>>
      /\ op \in {"bgeu", "andi", "and"} => Funct3Text(op) = <<1, 1, 1>>
      /\ op \in {"beq", "lb", "sb", "jalr", "addi", "add", "sub", "mul", "fsgnj", "fle",
                 "fmv", "fadd", "fsub", "fmul", "fcvt"} => Funct3Text(op) = <<0, 0, 0>>
  BY SMTT(30) DEF Funct3Text
<1>5. \/ Funct3Text(op) = <<0, 0, 0>> \/ Funct3Text(op) = <<0, 0, 1>>
      \/ Funct3Text(op) = <<0, 1, 0>> \/ Funct3Text(op) = <<0, 1, 1>>
      \/ Funct3Text(op) = <<1, 0, 0>> \/ Funct3Text(op) = <<1, 0, 1>>
      \/ Funct3Text(op) = <<1, 1, 0>> \/ Funct3Text(op) = <<1, 1, 1>>
  BY SMTT(30) DEF Funct3Text
<1>6. Funct3(op) = Atoi(Funct3Text(op)) % 8
  BY DEF Funct3
<1>7. Funct3(op) \in 0 .. 7
  BY <1>2, <1>5, <1>6
<1>8. QED BY <1>2, <1>3, <1>4, <1>6, <1>7

(* The function codes of seven bits.                                        *)
LEMMA Functions7 ==
  ASSUME NEW op
  PROVE /\ Funct7(op) \in 0 .. 120 /\ (op \in ShiftOps => Funct7(op) \in {0, 32})
        /\ op \in {"srai", "sub", "sra"} => Funct7(op) = 32
        /\ op = "mul" => Funct7(op) = 1
        /\ op \in {"add", "sll", "slt", "sltu", "xor", "srl", "or", "and", "fadd", "slli", "srli"} =>
             Funct7(op) = 0
        /\ op = "fsub" => Funct7(op) = 4
        /\ op = "fmul" => Funct7(op) = 8
        /\ op \in {"fsgnj", "fsgnjn"} => Funct7(op) = 16
        /\ op \in {"feq", "flt", "fle"} => Funct7(op) = 80
        /\ op = "fcvt" => Funct7(op) = 104
        /\ op = "fmv" => Funct7(op) = 120
  BY SMT DEF Funct7, ShiftOps

(* The opcodes, by the shape of the line.                                   *)
LEMMA Opcodes ==
  ASSUME NEW op
  PROVE /\ op = "lui" => OpcodeOf(op) = 55
        /\ op = "auipc" => OpcodeOf(op) = 23
        /\ op = "jal" => OpcodeOf(op) = 111
        /\ op \in BranchOps => OpcodeOf(op) = 99
        /\ op = "jalr" => OpcodeOf(op) = 103
        /\ op = "flw" => OpcodeOf(op) = 7
        /\ op = "fsw" => OpcodeOf(op) = 39
        /\ op \in LoadOps \ {"flw", "jalr"} => OpcodeOf(op) = 3
        /\ op \in StoreOps \ {"fsw"} => OpcodeOf(op) = 35
        /\ op \in ImmediateOps \cup ShiftOps => OpcodeOf(op) = 19
        /\ op \in IntOps => OpcodeOf(op) = 51
        /\ op \in FloatOps \cup CompareOps \cup MoveOps => OpcodeOf(op) = 83
        /\ op = "csrrw" => OpcodeOf(op) = 115
        /\ op \in CustomOps \cup {"macc"} => OpcodeOf(op) = 11
<1>1. \A o \in IntOps \cup FloatOps \cup CompareOps \cup MoveOps \cup ShiftOps \cup {"macc"} :
        o \notin LoadOps \cup StoreOps \cup ImmediateOps \cup BranchOps \cup UpperOps
        /\ o \notin CustomOps
  BY SMT DEF LoadOps, StoreOps, ImmediateOps, BranchOps, UpperOps, CustomOps, ShiftOps,
             IntOps, FloatOps, CompareOps, MoveOps
<1>2. /\ \A o \in IntOps : o \notin FloatOps \cup CompareOps \cup MoveOps \cup ShiftOps
      /\ \A o \in FloatOps \cup CompareOps \cup MoveOps : o \notin ShiftOps
      /\ "flw" \in LoadOps /\ "jalr" \in LoadOps /\ \A o \in LoadOps : o \notin ImmediateOps
  BY SMT DEF LoadOps, ImmediateOps, ShiftOps, IntOps, FloatOps, CompareOps, MoveOps
<1>3. op = "lui" => OpcodeOf(op) = 55
  BY Distinct, SMT DEF OpcodeOf
<1>4. op = "auipc" => OpcodeOf(op) = 23
  BY Distinct, SMT DEF OpcodeOf
<1>5. op = "jalr" => OpcodeOf(op) = 103
  BY <1>2, Distinct, SMT DEF OpcodeOf
<1>6. op = "flw" => OpcodeOf(op) = 7
  BY <1>2, Distinct, SMT DEF OpcodeOf
<1>7. op = "fsw" => OpcodeOf(op) = 39
  BY Distinct, SMT DEF OpcodeOf
<1>8. op \in LoadOps \ {"flw", "jalr"} => OpcodeOf(op) = 3
  BY <1>2, Distinct, SMT DEF OpcodeOf
<1>9. op \in StoreOps \ {"fsw"} => OpcodeOf(op) = 35
  BY Distinct, <1>2, SMT DEF OpcodeOf
<1>10. op \in ImmediateOps \cup ShiftOps => OpcodeOf(op) = 19
  BY <1>1, <1>2, Distinct, SMT DEF OpcodeOf
<1>11. op \in IntOps => OpcodeOf(op) = 51
  BY <1>1, <1>2, Distinct, SMT DEF OpcodeOf
<1>12. op \in FloatOps \cup CompareOps \cup MoveOps => OpcodeOf(op) = 83
  BY <1>1, <1>2, Distinct, SMT DEF OpcodeOf
<1>13. op = "csrrw" => OpcodeOf(op) = 115
  BY Distinct, SMT DEF OpcodeOf
<1>14. op \in CustomOps \cup {"macc"} => OpcodeOf(op) = 11
  BY <1>1, Distinct, SMT DEF OpcodeOf
<1>15. op = "jal" => OpcodeOf(op) = 111
  BY Distinct, SMT DEF OpcodeOf
<1>16. op \in BranchOps => OpcodeOf(op) = 99
  BY <1>2, Distinct, SMT DEF OpcodeOf
<1>17. QED
  BY <1>15, <1>16, <1>3, <1>4, <1>5, <1>6, <1>7, <1>8, <1>9, <1>10, <1>11, <1>12, <1>13, <1>14

(* The fields an immediate is cut into.                                     *)
LEMMA Pieces ==
  ASSUME NEW n \in Int
  PROVE /\ Bits(n, 19, 13) \in 0 .. 127 /\ Bits(n, 12, 8) \in 0 .. 31 /\ Bits(n, 7, 3) \in 0 .. 31
        /\ Bits(n, 2, 0) \in 0 .. 7 /\ Bits(n, 20, 20) \in 0 .. 1 /\ Bits(n, 10, 5) \in 0 .. 63
        /\ Bits(n, 4, 1) \in 0 .. 15 /\ Bits(n, 11, 11) \in 0 .. 1 /\ Bits(n, 19, 15) \in 0 .. 31
        /\ Bits(n, 14, 12) \in 0 .. 7 /\ Bits(n, 12, 12) \in 0 .. 1 /\ Bits(n, 11, 5) \in 0 .. 127
        /\ Bits(n, 4, 0) \in 0 .. 31
<1>1. /\ Bits(n, 19, 13) \in 0 .. 127
      /\ Bits(n, 12, 8) \in 0 .. 31
      /\ Bits(n, 7, 3) \in 0 .. 31
  BY Powers, SMT DEF Bits
<1>2. /\ Bits(n, 2, 0) \in 0 .. 7
      /\ Bits(n, 20, 20) \in 0 .. 1
      /\ Bits(n, 10, 5) \in 0 .. 63
  BY Powers, SMT DEF Bits
<1>3. /\ Bits(n, 4, 1) \in 0 .. 15
      /\ Bits(n, 11, 11) \in 0 .. 1
      /\ Bits(n, 19, 15) \in 0 .. 31
  BY Powers, SMT DEF Bits
<1>4. /\ Bits(n, 14, 12) \in 0 .. 7
      /\ Bits(n, 12, 12) \in 0 .. 1
      /\ Bits(n, 11, 5) \in 0 .. 127
      /\ Bits(n, 4, 0) \in 0 .. 31
  BY Powers, SMT DEF Bits
<1>5. QED BY <1>1, <1>2, <1>3, <1>4

(* The digits of an immediate are those of an integer.                      *)
LEMMA ImmediateInt == ASSUME NEW i, i.imm \in Int PROVE Immediate(i) \in Int
<1>1. /\ \A n \in Int : SignedBin(n, 12) \in Int
      /\ \A n \in Int : SignedBin(n, 16) \in Int
      /\ \A n \in Int : SignedBin(n, 20) \in Int
      /\ \A n \in Int : SignedBin(n, 30) \in Int
  <2>1. \A n \in Int : SignedBin(n, 12) \in Int
    BY Digits12, SMT
  <2>2. \A n \in Int : SignedBin(n, 16) \in Int
    BY Digits16, SMT
  <2>3. \A n \in Int : SignedBin(n, 20) \in Int
    BY Digits20, SMT
  <2>4. \A n \in Int : SignedBin(n, 30) \in Int
    BY Digits30, SMT
  <2>5. QED BY <2>1, <2>2, <2>3, <2>4
<1>2. PICK a \in Int : a = (IF i.imm < 0 THEN -i.imm ELSE i.imm)
  BY SMT
<1>3. \/ Immediate(i) = SignedBin(a, 20) \/ Immediate(i) = SignedBin(i.imm, 20)
      \/ Immediate(i) = SignedBin(i.imm, 30) \/ Immediate(i) = SignedBin(i.imm, 16)
      \/ Immediate(i) = i.imm \/ Immediate(i) = SignedBin(i.imm, 12)
  BY <1>2, SMT DEF Immediate, BranchOps, CustomOps, ShiftOps
<1>4. QED BY <1>1, <1>2, <1>3, SMT

(* Every line becomes a word: no field of it is larger than its place.      *)
F3 == 0 .. 7
F5 == 0 .. 31
F7 == 0 .. 127
LEMMA WordOfLine ==
  ASSUME NEW line, Shaped(Pseudo(line)), Pseudo(line).op # "neg"
  PROVE AsmToBinary(line) \in Fields
<1>1. PICK i : i = Pseudo(line)
  OBVIOUS
<1>2. Shaped(i) /\ i.op \in Operations /\ i.imm \in Int
  BY <1>1 DEF Shaped
<1>3. /\ Field(i, "rd") \in F5 /\ Field(i, "rs1") \in F5 /\ Field(i, "rs2") \in F5
  BY <1>2, FieldIsRegister DEF F5
<1>4. PICK m \in Int : m = Immediate(i)
  BY <1>2, ImmediateInt
<1>5. Funct3(i.op) \in F3 /\ Funct7(i.op) \in F7
  BY Functions3, Functions7, SMT DEF F3, F7
<1>6. \A f7 \in F7, r2, r1, d \in F5, f3 \in F3, c \in F7 :
        Word(f7, r2, r1, f3, d, c) \in Fields
  BY DEF Word, Fields, F3, F5, F7
<1>7. ASSUME NEW d \in F5, NEW c \in F7, NEW n \in Int
      PROVE Upper20(n, d, c) \in Fields
  <2>1. /\ Bits(n, 19, 13) \in F7 /\ Bits(n, 12, 8) \in F5 /\ Bits(n, 7, 3) \in F5
        /\ Bits(n, 2, 0) \in F3
    BY <1>7, Pieces DEF F3, F5, F7
  <2>2. QED BY <1>6, <1>7, <2>1 DEF Upper20
<1>8. ASSUME NEW r1 \in F5, NEW d \in F5, NEW f3 \in F3, NEW c \in F7
      PROVE LoadWord(m, r1, f3, d, c) \in Fields
  <2>1. Bits(m, 11, 5) \in F7 /\ Bits(m, 4, 0) \in F5
    BY Pieces DEF F5, F7
  <2>2. QED BY <1>6, <1>8, <2>1 DEF LoadWord
<1>9. ASSUME NEW r1 \in F5, NEW r2 \in F5, NEW f3 \in F3, NEW c \in F7
      PROVE StoreWord(m, r2, r1, f3, c) \in Fields
  <2>1. Bits(m, 11, 5) \in F7 /\ Bits(m, 4, 0) \in F5
    BY Pieces DEF F5, F7
  <2>2. QED BY <1>6, <1>9, <2>1 DEF StoreWord
<1>10. /\ \A x \in 0 .. 1, y \in 0 .. 63 : x * 64 + y \in F7
       /\ \A x \in 0 .. 15, y \in 0 .. 1 : x * 2 + y \in F5
  BY SMT DEF F5, F7
<1>11. ASSUME NEW d \in F5
       PROVE JalWord(m, d) \in Fields
  <2>1. Bits(m, 20, 20) * 64 + Bits(m, 10, 5) \in F7
    BY <1>10, Pieces
  <2>2. Bits(m, 4, 1) * 2 + Bits(m, 11, 11) \in F5
    BY <1>10, Pieces
  <2>3. 111 \in F7
    BY DEF F7
  <2>4. Bits(m, 19, 15) \in F5 /\ Bits(m, 14, 12) \in F3
    BY Pieces DEF F3, F5
  <2>5. QED BY <1>6, <1>11, <2>1, <2>2, <2>3, <2>4 DEF JalWord
<1>12. ASSUME NEW r1 \in F5, NEW r2 \in F5, NEW f3 \in F3
       PROVE BranchWord(m, r2, r1, f3) \in Fields
  <2>1. Bits(m, 12, 12) * 64 + Bits(m, 10, 5) \in F7
    BY <1>10, Pieces
  <2>2. Bits(m, 4, 1) * 2 + Bits(m, 11, 11) \in F5
    BY <1>10, Pieces
  <2>3. 99 \in F7
    BY DEF F7
  <2>4. QED BY <1>6, <1>12, <2>1, <2>2, <2>3 DEF BranchWord
<1>13. ASSUME i.op \in ShiftOps, NEW r1 \in F5, NEW d \in F5
       PROVE ShiftWord(m, i.op, r1, d) \in Fields
  <2>1. Funct3(i.op) \in {1, 5} /\ Funct7(i.op) \in {0, 32}
    BY <1>13, Functions3, Functions7 DEF ShiftOps
  <2>2. \A r \in F5, f \in {1, 5} : r \div 8 + 4 * f \in F5 /\ (r % 8) \in F3
    BY SMT DEF F3, F5
  <2>3. \A f \in {0, 32} : f + 19 \in F7
    BY SMT DEF F7
  <2>4. /\ r1 \div 8 + 4 * Funct3(i.op) \in F5 /\ (r1 % 8) \in F3
        /\ Funct7(i.op) + 19 \in F7 /\ Bits(m, 4, 0) \in F5 /\ 0 \in F7
    <3>1. Bits(m, 4, 0) \in F5 /\ 0 \in F7
      BY Pieces DEF F5, F7
    <3>2. QED BY <1>13, <2>1, <2>2, <2>3, <3>1, Zenon
  <2>5. QED BY <1>6, <1>13, <2>4 DEF ShiftWord
<1>14. i.op \notin ShiftOps \cup BranchOps \cup {"jal"} => OpcodeOf(i.op) \in F7
  BY <1>2, Opcodes, SMT DEF Operations, UpperOps, F7
<1>15. 0 \in F5 /\ 0 \in Int /\ 1 \in F3 /\ \A f \in F3 : f \in F5
  BY DEF F3, F5
<1> DEFINE w == AsmToBinary(line)
<1>16. CASE i.op \in UpperOps
  <2>1. w = Upper20(m, Field(i, "rd"), OpcodeOf(i.op)) /\ OpcodeOf(i.op) \in F7
    BY <1>1, <1>4, <1>14, <1>16, PackedFields, Distinct
  <2>2. QED BY <1>3, <1>7, <2>1
<1>17. CASE i.op = "jal"
  <2>1. w = JalWord(m, Field(i, "rd"))
    BY <1>1, <1>4, <1>17, PackedFields
  <2>2. QED BY <1>3, <1>11, <2>1
<1>18. CASE i.op \in BranchOps
  <2>1. w = BranchWord(m, Field(i, "rs2"), Field(i, "rs1"), Funct3(i.op))
    BY <1>1, <1>4, <1>18, PackedFields
  <2>2. QED BY <1>3, <1>5, <1>12, <2>1
<1>19. CASE i.op \in LoadOps \cup ImmediateOps
  <2>1. w = LoadWord(m, Field(i, "rs1"), Funct3(i.op), Field(i, "rd"), OpcodeOf(i.op))
    BY <1>1, <1>4, <1>19, PackedFields
  <2>2. i.op \notin ShiftOps \cup BranchOps \cup {"jal"}
    BY <1>19, Distinct
  <2>3. QED BY <1>3, <1>5, <1>8, <1>14, <2>1, <2>2
<1>20. CASE i.op = "csrrw"
  <2>1. w = LoadWord(m, Field(i, "rs1"), 1, Field(i, "rd"), OpcodeOf(i.op))
    BY <1>1, <1>4, <1>20, PackedFields
  <2>2. i.op \notin ShiftOps \cup BranchOps \cup {"jal"}
    BY <1>20, Distinct, SMT
  <2>3. QED BY <1>3, <1>8, <1>14, <1>15, <2>1, <2>2
<1>21. CASE i.op \in StoreOps
  <2>1. w = StoreWord(m, Field(i, "rs2"), Field(i, "rs1"), Funct3(i.op), OpcodeOf(i.op))
    BY <1>1, <1>4, <1>21, PackedFields
  <2>2. i.op \notin ShiftOps \cup BranchOps \cup {"jal"}
    BY <1>21, Distinct
  <2>3. QED BY <1>3, <1>5, <1>9, <1>14, <2>1, <2>2
<1>22. CASE i.op \in ShiftOps
  <2>1. w = ShiftWord(m, i.op, Field(i, "rs1"), Field(i, "rd"))
    BY <1>1, <1>4, <1>22, PackedFields
  <2>2. QED BY <1>3, <1>13, <1>22, <2>1
<1>23. CASE i.op \in IntOps \cup FloatOps \cup CompareOps \cup MoveOps
  <2>1. w = Word(Funct7(i.op), Field(i, "rs2"), Field(i, "rs1"), Funct3(i.op), Field(i, "rd"),
                 OpcodeOf(i.op))
    BY <1>1, <1>23, PackedFields
  <2>2. i.op \notin ShiftOps \cup BranchOps \cup {"jal"}
    BY <1>23, SMT DEF ShiftOps, BranchOps, IntOps, FloatOps, CompareOps, MoveOps
  <2>3. QED BY <1>3, <1>5, <1>6, <1>14, <2>1, <2>2
<1>24. CASE i.op \in CustomOps
  <2>1. w = Upper20(m, Funct3(i.op), OpcodeOf(i.op))
    BY <1>1, <1>4, <1>24, PackedFields
  <2>2. i.op \notin ShiftOps \cup BranchOps \cup {"jal"}
    BY <1>24, Distinct
  <2>3. QED BY <1>5, <1>7, <1>14, <1>15, <2>1, <2>2
<1>25. CASE i.op = "macc"
  <2>1. w = Upper20(0, 0, OpcodeOf(i.op))
    BY <1>1, <1>25, PackedFields
  <2>2. i.op \notin ShiftOps \cup BranchOps \cup {"jal"}
    BY <1>25, Distinct, SMT
  <2>3. QED BY <1>7, <1>14, <1>15, <2>1, <2>2
<1>26. QED
  BY <1>2, <1>16, <1>17, <1>18, <1>19, <1>20, <1>21, <1>22, <1>23, <1>24, <1>25 DEF Operations

(* A byte, signed and shifted bit by bit, is read back from its bits.       *)
LEMMA ByteReadBack ==
  ASSUME NEW b \in 0 .. 255
  PROVE /\ Byte(ByteToBinary(Char(b))) = b
        /\ ByteToBinary(Char(b)) \in [1 .. 8 -> {0, 1}]
<1>1. PICK c \in Int : c = Char(b) /\ (c % 256) = b
  BY SMT DEF Char
<1>2. /\ (c % 4) = 2 * ((c \div 2) % 2) + ((c \div 1) % 2)
      /\ (c % 8) = 4 * ((c \div 4) % 2) + (c % 4)
      /\ (c % 16) = 8 * ((c \div 8) % 2) + (c % 8)
      /\ (c % 32) = 16 * ((c \div 16) % 2) + (c % 16)
  BY SMT
<1>3. /\ (c % 64) = 32 * ((c \div 32) % 2) + (c % 32)
      /\ (c % 128) = 64 * ((c \div 64) % 2) + (c % 64)
      /\ (c % 256) = 128 * ((c \div 128) % 2) + (c % 128)
  BY SMT
<1> DEFINE bits == ByteToBinary(c)
<1>4. /\ bits[1] = (c \div 128) % 2 /\ bits[2] = (c \div 64) % 2 /\ bits[3] = (c \div 32) % 2
      /\ bits[4] = (c \div 16) % 2 /\ bits[5] = (c \div 8) % 2 /\ bits[6] = (c \div 4) % 2
      /\ bits[7] = (c \div 2) % 2 /\ bits[8] = (c \div 1) % 2
  <2>1. 8 - 1 = 7 /\ 8 - 2 = 6 /\ 8 - 3 = 5 /\ 8 - 4 = 4 /\ 8 - 5 = 3 /\ 8 - 6 = 2 /\ 8 - 7 = 1
        /\ 8 - 8 = 0
    OBVIOUS
  <2>2. /\ bits[1] = (c \div 2^7) % 2 /\ bits[2] = (c \div 2^6) % 2 /\ bits[3] = (c \div 2^5) % 2
        /\ bits[4] = (c \div 2^4) % 2 /\ bits[5] = (c \div 2^3) % 2 /\ bits[6] = (c \div 2^2) % 2
        /\ bits[7] = (c \div 2^1) % 2 /\ bits[8] = (c \div 2^0) % 2
    BY <2>1 DEF ByteToBinary
  <2>3. QED BY <2>2, Powers, SMT
<1>5. /\ bits[1] \in {0, 1} /\ bits[2] \in {0, 1} /\ bits[3] \in {0, 1} /\ bits[4] \in {0, 1}
      /\ bits[5] \in {0, 1} /\ bits[6] \in {0, 1} /\ bits[7] \in {0, 1} /\ bits[8] \in {0, 1}
  <2>1. \A x \in Int : (x % 2) \in {0, 1}
    BY SMT
  <2>2. /\ (c \div 1) \in Int /\ (c \div 2) \in Int /\ (c \div 4) \in Int /\ (c \div 8) \in Int
        /\ (c \div 16) \in Int /\ (c \div 32) \in Int /\ (c \div 64) \in Int
        /\ (c \div 128) \in Int
    BY SMT
  <2>3. QED BY <1>4, <2>1, <2>2
<1>6. bits \in [1 .. 8 -> {0, 1}]
  <2>1. \A k \in 1 .. 8 : bits[k] \in {0, 1}
    BY <1>5
  <2>2. DOMAIN bits = 1 .. 8 /\ bits = [k \in 1 .. 8 |-> bits[k]]
    BY DEF ByteToBinary
  <2> HIDE DEF bits
  <2>3. QED BY <2>1, <2>2
<1>7. Byte(bits) = b
  <2>1. \A x1, x2, x3, x4, x5, x6, x7, x8, m2, m3, m4, m5, m6, m7, m8 \in Int :
          /\ m2 = 2 * x7 + x8 /\ m3 = 4 * x6 + m2 /\ m4 = 8 * x5 + m3 /\ m5 = 16 * x4 + m4
          /\ m6 = 32 * x3 + m5 /\ m7 = 64 * x2 + m6 /\ m8 = 128 * x1 + m7
          => 128 * x1 + 64 * x2 + 32 * x3 + 16 * x4 + 8 * x5 + 4 * x6 + 2 * x7 + x8 = m8
    BY SMT
  <2>2. /\ (c % 4) \in Int /\ (c % 8) \in Int /\ (c % 16) \in Int /\ (c % 32) \in Int
        /\ (c % 64) \in Int /\ (c % 128) \in Int /\ (c % 256) \in Int
    BY SMT
  <2>3. /\ bits[1] \in Int /\ bits[2] \in Int /\ bits[3] \in Int /\ bits[4] \in Int
        /\ bits[5] \in Int /\ bits[6] \in Int /\ bits[7] \in Int /\ bits[8] \in Int
    BY <1>5
  <2>4. /\ (c % 4) = 2 * bits[7] + bits[8] /\ (c % 8) = 4 * bits[6] + (c % 4)
        /\ (c % 16) = 8 * bits[5] + (c % 8) /\ (c % 32) = 16 * bits[4] + (c % 16)
        /\ (c % 64) = 32 * bits[3] + (c % 32) /\ (c % 128) = 64 * bits[2] + (c % 64)
        /\ (c % 256) = 128 * bits[1] + (c % 128)
    BY <1>2, <1>3, <1>4
  <2> HIDE DEF bits
  <2>5. 128 * bits[1] + 64 * bits[2] + 32 * bits[3] + 16 * bits[4] + 8 * bits[5] + 4 * bits[6]
          + 2 * bits[7] + bits[8] = (c % 256)
    BY <2>1, <2>2, <2>3, <2>4
  <2>6. QED BY <1>1, <2>5 DEF Byte
<1>8. QED BY <1>1, <1>6, <1>7

(* A word is in its four bytes.                                             *)
LEMMA BytesOfWord ==
  ASSUME NEW w \in Fields
  PROVE /\ \A k \in 0 .. 3 : ByteOf(w, k) \in 0 .. 255
        /\ Word(ByteOf(w, 3) \div 2, (ByteOf(w, 3) % 2) * 16 + ByteOf(w, 2) \div 16,
                (ByteOf(w, 2) % 16) * 2 + ByteOf(w, 1) \div 128, (ByteOf(w, 1) \div 16) % 8,
                (ByteOf(w, 1) % 16) * 2 + ByteOf(w, 0) \div 128, ByteOf(w, 0) % 128) = w
<1>1. /\ w.funct7 \in 0 .. 127 /\ w.rs2 \in 0 .. 31 /\ w.rs1 \in 0 .. 31 /\ w.funct3 \in 0 .. 7
      /\ w.rd \in 0 .. 31 /\ w.opcode \in 0 .. 127
      /\ w = Word(w.funct7, w.rs2, w.rs1, w.funct3, w.rd, w.opcode)
  BY DEF Fields, Word
<1>2. /\ ByteOf(w, 0) = w.opcode + 128 * (w.rd % 2)
      /\ ByteOf(w, 1) = (w.rd \div 2) + 16 * w.funct3 + 128 * (w.rs1 % 2)
      /\ ByteOf(w, 2) = (w.rs1 \div 2) + 16 * (w.rs2 % 16)
      /\ ByteOf(w, 3) = (w.rs2 \div 16) + 2 * w.funct7
  BY SMT DEF ByteOf
<1>4. PICK f7 \in 0 .. 127, r2 \in 0 .. 31, r1 \in 0 .. 31, f3 \in 0 .. 7, d \in 0 .. 31,
           c \in 0 .. 127 :
        w = Word(f7, r2, r1, f3, d, c)
  BY <1>1
<1>3. /\ c + 128 * (d % 2) \in 0 .. 255 /\ (c + 128 * (d % 2)) % 128 = c
      /\ (c + 128 * (d % 2)) \div 128 = d % 2
      /\ (d \div 2) + 16 * f3 + 128 * (r1 % 2) \in 0 .. 255
      /\ ((d \div 2) + 16 * f3 + 128 * (r1 % 2)) % 16 = d \div 2
      /\ (((d \div 2) + 16 * f3 + 128 * (r1 % 2)) \div 16) % 8 = f3
      /\ ((d \div 2) + 16 * f3 + 128 * (r1 % 2)) \div 128 = r1 % 2
      /\ (r1 \div 2) + 16 * (r2 % 16) \in 0 .. 255
      /\ ((r1 \div 2) + 16 * (r2 % 16)) % 16 = r1 \div 2
      /\ ((r1 \div 2) + 16 * (r2 % 16)) \div 16 = r2 % 16
      /\ (r2 \div 16) + 2 * f7 \in 0 .. 255 /\ ((r2 \div 16) + 2 * f7) \div 2 = f7
      /\ ((r2 \div 16) + 2 * f7) % 2 = r2 \div 16
      /\ (r2 \div 16) * 16 + (r2 % 16) = r2
      /\ (r1 \div 2) * 2 + (r1 % 2) = r1 /\ (d \div 2) * 2 + (d % 2) = d
  <2>1. /\ d \div 2 \in 0 .. 15 /\ d % 2 \in 0 .. 1 /\ (d \div 2) * 2 + (d % 2) = d
        /\ r1 \div 2 \in 0 .. 15 /\ r1 % 2 \in 0 .. 1 /\ (r1 \div 2) * 2 + (r1 % 2) = r1
        /\ r2 \div 16 \in 0 .. 1 /\ r2 % 16 \in 0 .. 15 /\ (r2 \div 16) * 16 + (r2 % 16) = r2
    BY SMT
  <2>2. \A x \in 0 .. 1 : c + 128 * x \in 0 .. 255 /\ ((c + 128 * x) % 128) = c
                          /\ ((c + 128 * x) \div 128) = x
    BY SMT
  <2>3. \A x \in 0 .. 15, y \in 0 .. 1 :
          /\ x + 16 * f3 + 128 * y \in 0 .. 255 /\ ((x + 16 * f3 + 128 * y) % 16) = x
          /\ (((x + 16 * f3 + 128 * y) \div 16) % 8) = f3
          /\ ((x + 16 * f3 + 128 * y) \div 128) = y
    BY SMT
  <2>4. \A x, y \in 0 .. 15 : x + 16 * y \in 0 .. 255 /\ ((x + 16 * y) % 16) = x
                              /\ ((x + 16 * y) \div 16) = y
    BY SMT
  <2>5. \A x \in 0 .. 1 : x + 2 * f7 \in 0 .. 255 /\ ((x + 2 * f7) \div 2) = f7
                          /\ ((x + 2 * f7) % 2) = x
    BY SMT
  <2>6. PICK p \in 0 .. 15, q \in 0 .. 1 : p = d \div 2 /\ q = d % 2
    BY <2>1
  <2>7. PICK s \in 0 .. 15, t \in 0 .. 1 : s = r1 \div 2 /\ t = r1 % 2
    BY <2>1
  <2>8. PICK u \in 0 .. 1, v \in 0 .. 15 : u = r2 \div 16 /\ v = r2 % 16
    BY <2>1
  <2>9. QED BY <2>1, <2>2, <2>3, <2>4, <2>5, <2>6, <2>7, <2>8
<1>5. /\ ByteOf(w, 0) = c + 128 * (d % 2)
      /\ ByteOf(w, 1) = (d \div 2) + 16 * f3 + 128 * (r1 % 2)
      /\ ByteOf(w, 2) = (r1 \div 2) + 16 * (r2 % 16)
      /\ ByteOf(w, 3) = (r2 \div 16) + 2 * f7
  <2>1. /\ w.funct7 = f7 /\ w.rs2 = r2 /\ w.rs1 = r1 /\ w.funct3 = f3 /\ w.rd = d
        /\ w.opcode = c
    BY <1>4 DEF Word
  <2>2. QED BY <1>2, <2>1
<1>6. /\ ByteOf(w, 0) \in 0 .. 255 /\ ByteOf(w, 1) \in 0 .. 255 /\ ByteOf(w, 2) \in 0 .. 255
      /\ ByteOf(w, 3) \in 0 .. 255
  BY <1>3, <1>5
<1>7. /\ ByteOf(w, 3) \div 2 = f7 /\ ByteOf(w, 3) % 2 = r2 \div 16
      /\ ByteOf(w, 2) \div 16 = r2 % 16 /\ ByteOf(w, 2) % 16 = r1 \div 2
      /\ ByteOf(w, 1) \div 128 = r1 % 2 /\ (ByteOf(w, 1) \div 16) % 8 = f3
      /\ ByteOf(w, 1) % 16 = d \div 2 /\ ByteOf(w, 0) \div 128 = d % 2
      /\ ByteOf(w, 0) % 128 = c
  BY <1>3, <1>5
<1>8. /\ (r2 \div 16) * 16 + (r2 % 16) = r2 /\ (r1 \div 2) * 2 + (r1 % 2) = r1
      /\ (d \div 2) * 2 + (d % 2) = d
  BY <1>3
<1>9. \A k \in 0 .. 3 : k = 0 \/ k = 1 \/ k = 2 \/ k = 3
  OBVIOUS
<1>10. /\ (ByteOf(w, 3) % 2) * 16 + ByteOf(w, 2) \div 16 = r2
       /\ (ByteOf(w, 2) % 16) * 2 + ByteOf(w, 1) \div 128 = r1
       /\ (ByteOf(w, 1) % 16) * 2 + ByteOf(w, 0) \div 128 = d
  BY <1>7, <1>8
<1>11. QED BY <1>4, <1>6, <1>7, <1>9, <1>10

(* What is dumped: byte n of the words, on line n.                          *)
ByteLine(w, n) == [line |-> n, bits |-> ByteToBinary(Char(ByteOf(w[n \div 4 + 1], n % 4)))]
RomLine == [line : 0 .. 7, bits : [1 .. 8 -> {0, 1}]]
WordsInType == words \in Seq(Fields)
RomInv == /\ rom \in Seq(RomLine) /\ Len(rom) <= 4 * Len(words)
          /\ rom # <<>> => text = <<>>
          /\ \A k \in 1 .. Len(rom) : rom[k] = ByteLine(words, k - 1)
WordsInv == Stages /\ WordsInType /\ RomInv

(* A constant's lines have the shape of lines.                              *)
LEMMA ConstantShape ==
  /\ \A n \in Int : /\ Shaped(Pseudo(Asm("addi", T, -1, -1, n)))
                    /\ Pseudo(Asm("addi", T, -1, -1, n)).op # "neg"
  /\ \A u \in Uppers, l \in Lowers : /\ Shaped(Pseudo(UpperLine(u, l)))
                                     /\ Pseudo(UpperLine(u, l)).op # "neg"
                                     /\ Shaped(Pseudo(LowerLine(l)))
                                     /\ Pseudo(LowerLine(l)).op # "neg"
<1>1. /\ "addi" \in Operations /\ "lui" \in Operations
      /\ \A n \in Int : Fits("addi", n) /\ Fits("lui", n)
  <2>1. "addi" \in ImmediateOps /\ "lui" \in UpperOps
    BY DEF ImmediateOps, UpperOps
  <2>2. QED BY <2>1, Spelt DEF Operations
<1>2. T \in Int /\ -1 \in Int
  BY DEF T
<1>3. ASSUME NEW op \in {"addi", "lui"}, NEW d \in Int, NEW r \in Int, NEW n \in Int
      PROVE Shaped(Pseudo(Asm(op, d, r, -1, n))) /\ Pseudo(Asm(op, d, r, -1, n)).op # "neg"
  <2>1. Asm(op, d, r, -1, n) = [op |-> op, rd |-> d, rs1 |-> r, rs2 |-> -1, imm |-> n]
    BY DEF Asm
  <2>2. Asm(op, d, r, -1, n).op = op
    BY <2>1
  <2>3. Pseudo(Asm(op, d, r, -1, n)) = Asm(op, d, r, -1, n)
    BY <2>2, SMT DEF Pseudo
  <2>4. op \in Operations /\ Fits(op, n) /\ op # "neg"
    BY <1>1
  <2>5. QED BY <1>2, <2>1, <2>2, <2>3, <2>4 DEF Shaped
<1>4. ASSUME NEW u \in Uppers, NEW l \in Lowers PROVE Rounded(u, l) \in Int /\ l \in Int
  <2>1. u \in -(2^19) .. 2^19 - 1 /\ l \in 0 .. 4095
    BY ConstantsAssumption, SMT
  <2>2. u \in Int /\ l \in Int
    BY <2>1, Powers, SMT
  <2>3. QED BY <2>2, SMT DEF Rounded
<1>5. QED BY <1>2, <1>3, <1>4 DEF UpperLine, LowerLine

(* Of the lines, MV only is replaced by one that keeps its operands.        *)
LEMMA MoveBecomes == \A insn \in Lines : insn.op = "mv" => Pseudo(insn).op = "addi"
<1>1. ASSUME NEW insn \in Lines, insn.op = "mv" PROVE Pseudo(insn).op = "addi"
  <2>1. "op" \in DOMAIN insn
    BY SMT DEF Lines, Plain, Asm
  <2>2. Pseudo(insn) = [insn EXCEPT !.op = "addi", !.imm = 0]
    BY <1>1, SMT DEF Pseudo
  <2>3. QED BY <2>1, <2>2
<1>2. QED BY <1>1

(* The next line has the shape of lines.                                    *)
LEMMA HeadShape ==
  ASSUME Stages, text # <<>>
  PROVE /\ Shaped(Pseudo(Head(text)))
        /\ Head(text).op # "neg" => Pseudo(Head(text)).op # "neg"
<1>1. CASE LineStage
  <2>1. PICK insn \in Lines : text = <<insn>>
    BY <1>1 DEF LineStage
  <2>2. Head(text) = insn /\ Shaped(Pseudo(insn))
    BY <2>1, Taken, LineShape
  <2>3. insn.op # "neg" => Pseudo(insn).op # "neg"
    <3>1. CASE insn.op = "mv"
      BY <3>1, MoveBecomes
    <3>2. CASE insn.op = "nop"
      BY <3>2, SMT DEF Pseudo
    <3>3. CASE insn.op # "mv" /\ insn.op # "nop"
      BY <3>3, SMT DEF Pseudo
    <3>4. QED BY <3>1, <3>2, <3>3
  <2>4. QED BY <2>2, <2>3
<1>2. CASE IntStage
  <2>1. PICK n \in Immediates : text = <<Asm("addi", T, -1, -1, n)>>
    BY <1>2 DEF IntStage
  <2>2. QED BY <2>1, Taken, ConstantShape, ImmediatesAssumption
<1>3. CASE FloatStage
  <2>1. PICK u \in Uppers, l \in Lowers :
          \/ text = <<UpperLine(u, l)>> \/ text = <<UpperLine(u, l), LowerLine(l)>>
          \/ text = <<LowerLine(l)>>
    BY <1>3 DEF FloatStage
  <2>2. Head(text) = UpperLine(u, l) \/ Head(text) = LowerLine(l)
    BY <2>1, Taken
  <2>3. QED BY <2>2, ConstantShape
<1>4. QED BY <1>1, <1>2, <1>3 DEF Stages

(* No request has more than two lines.                                      *)
LEMMA AtMostTwo == Stages => Len(words) + Len(text) <= 2 /\ (source = Nothing => words = <<>>)
<1> SUFFICES ASSUME Stages
             PROVE Len(words) + Len(text) <= 2 /\ (source = Nothing => words = <<>>)
  OBVIOUS
<1>1. Len(<<>>) = 0 /\ \A x, y : Len(<<x>>) = 1 /\ Len(<<x, y>>) = 2
  OBVIOUS
<1>2. CASE source = Nothing /\ text = <<>> /\ words = <<>>
  BY <1>1, <1>2
<1>3. CASE LineStage
  <2>1. source.kind = "line"
    BY <1>3 DEF LineStage
  <2>2. Len(words) + Len(text) <= 2
    <3>1. PICK x, y : (text = <<x>> /\ words = <<>>) \/ (text = <<>> /\ words = <<y>>)
      BY <1>3 DEF LineStage
    <3>2. QED BY <1>1, <3>1
  <2>3. QED BY <2>1, <2>2 DEF Nothing
<1>4. CASE IntStage
  <2>1. source.kind = "int"
    BY <1>4 DEF IntStage
  <2>2. Len(words) + Len(text) <= 2
    <3>1. PICK x, y : (text = <<x>> /\ words = <<>>) \/ (text = <<>> /\ words = <<y>>)
      BY <1>4 DEF IntStage
    <3>2. QED BY <1>1, <3>1
  <2>3. QED BY <2>1, <2>2 DEF Nothing
<1>5. CASE FloatStage
  <2>1. source.kind = "float"
    BY <1>5 DEF FloatStage
  <2>2. Len(words) + Len(text) <= 2
    <3>1. PICK x, y, p, q : \/ text = <<x>> /\ words = <<>>
                            \/ text = <<>> /\ words = <<p>>
                            \/ text = <<x, y>> /\ words = <<>>
                            \/ text = <<y>> /\ words = <<p>>
                            \/ text = <<>> /\ words = <<p, q>>
      BY <1>5, Zenon DEF FloatStage
    <3>2. Len(<<x>>) = 1 /\ Len(<<y>>) = 1 /\ Len(<<p>>) = 1 /\ Len(<<x, y>>) = 2
          /\ Len(<<p, q>>) = 2
      BY <1>1
    <3>3. CASE text = <<x>> /\ words = <<>>
      BY <1>1, <3>2, <3>3
    <3>4. CASE text = <<>> /\ words = <<p>>
      BY <1>1, <3>2, <3>4
    <3>5. CASE text = <<x, y>> /\ words = <<>>
      BY <1>1, <3>2, <3>5
    <3>6. CASE text = <<y>> /\ words = <<p>>
      BY <1>1, <3>2, <3>6
    <3>7. CASE text = <<>> /\ words = <<p, q>>
      BY <1>1, <3>2, <3>7
    <3>8. QED BY <3>1, <3>3, <3>4, <3>5, <3>6, <3>7, Zenon
  <2>3. QED BY <2>1, <2>2 DEF Nothing
<1>6. QED BY <1>2, <1>3, <1>4, <1>5 DEF Stages

(* Nothing is written at first.                                             *)
LEMMA InitWords == Init => WordsInv
<1>1. Init => WordsInType /\ RomInv
  BY DEF Init, WordsInType, RomInv
<1>2. QED BY <1>1, InitStages DEF WordsInv

(* A line that is assembled adds a word, and nothing is dumped before.      *)
LEMMA WordAdded ==
  ASSUME WordsInv, text # <<>>, NEW w \in Fields, words' = Append(words, w), rom' = rom
  PROVE WordsInType' /\ RomInv'
<1>1. rom = <<>> /\ words \in Seq(Fields)
  BY DEF WordsInv, WordsInType, RomInv
<1>2. words' \in Seq(Fields) /\ Len(words') = Len(words) + 1 /\ Len(words) \in Nat
  BY <1>1
<1>3. Len(rom') = 0 /\ rom' = <<>> /\ rom' \in Seq(RomLine)
  BY <1>1
<1>4. \A k \in 1 .. Len(rom') : FALSE
  BY <1>3
<1>5. QED BY <1>2, <1>3, <1>4 DEF WordsInType, RomInv

(* The words and the bytes of the file keep their types and their order.    *)
LEMMA WordsKept == WordsInv /\ [Next]_vars => WordsInv'
<1> SUFFICES ASSUME WordsInv, [Next]_vars PROVE WordsInType' /\ RomInv'
  BY StagesKept DEF WordsInv
<1>0. Stages /\ WordsInType /\ RomInv
  BY DEF WordsInv
<1>1. ASSUME NEW s, NEW lines, Request(s, lines) PROVE WordsInType' /\ RomInv'
  <2>1. words = <<>> /\ words' = words /\ rom' = rom
    BY <1>0, <1>1, AtMostTwo DEF Request
  <2>2. rom = <<>>
    BY <1>0, <2>1 DEF RomInv
  <2>3. QED BY <1>0, <2>1, <2>2 DEF RomInv, WordsInType
<1>2. CASE Assemble
  <2>1. text # <<>> /\ Head(text).op # "neg"
        /\ words' = Append(words, AsmToBinary(Head(text))) /\ rom' = rom
    BY <1>2 DEF Assemble
  <2>2. AsmToBinary(Head(text)) \in Fields
    BY <1>0, <2>1, HeadShape, WordOfLine
  <2>3. QED BY <2>1, <2>2, WordAdded
<1>3. ASSUME NEW garbage \in Uninitialised, AssembleUnknown(garbage) PROVE WordsInType' /\ RomInv'
  BY <1>3, UninitialisedAssumption, WordAdded DEF AssembleUnknown
<1>4. CASE Dump
  <2> DEFINE n == Len(rom)
  <2>1. /\ text = <<>> /\ text' = text /\ words' = words /\ n < 4 * Len(words)
        /\ rom' = Append(rom, ByteLine(words, n))
    BY <1>4 DEF Dump, ByteLine
  <2>2. rom \in Seq(RomLine) /\ n \in Nat /\ Len(words) \in Nat /\ words \in Seq(Fields)
    BY <1>0 DEF RomInv, WordsInType
  <2>3. Len(words) <= 2
    BY <1>0, <2>1, <2>2, AtMostTwo
  <2> HIDE DEF n
  <2>4. n \div 4 + 1 \in 1 .. Len(words) /\ (n % 4) \in 0 .. 3 /\ n \in 0 .. 7
    BY <2>1, <2>2, <2>3, SMT
  <2>5. words[n \div 4 + 1] \in Fields
    BY <2>2, <2>4
  <2>6. ByteLine(words, n) \in RomLine
    BY <2>4, <2>5, BytesOfWord, ByteReadBack DEF ByteLine, RomLine
  <2>7. /\ rom' \in Seq(RomLine) /\ Len(rom') = n + 1 /\ rom'[n + 1] = ByteLine(words, n)
        /\ \A k \in 1 .. n : rom'[k] = rom[k]
    BY <2>1, <2>2, <2>6 DEF n
  <2>8. \A k \in 1 .. n + 1 : rom'[k] = ByteLine(words', k - 1)
    <3>1. \A k \in 1 .. n : rom[k] = ByteLine(words, k - 1)
      BY <1>0 DEF RomInv, n
    <3>2. (n + 1) - 1 = n /\ \A k \in 1 .. n + 1 : k = n + 1 \/ k \in 1 .. n
      BY <2>2
    <3>3. QED BY <2>1, <2>7, <3>1, <3>2
  <2>9. Len(rom') <= 4 * Len(words')
    BY <2>1, <2>2, <2>7
  <2>10. QED BY <1>0, <2>1, <2>7, <2>8, <2>9 DEF RomInv, WordsInType
<1>5. CASE UNCHANGED vars
  BY <1>0, <1>5 DEF vars, RomInv, WordsInType
<1>6. QED
  <2>1. CASE \E insn \in Lines : Emit(insn)
    BY <1>1, <2>1 DEF Emit
  <2>2. CASE \E n \in Immediates : ConstantInt(n)
    BY <1>1, <2>2 DEF ConstantInt
  <2>3. CASE \E u \in Uppers, l \in Lowers : ConstantFloat(u, l)
    BY <1>1, <2>3 DEF ConstantFloat
  <2>4. CASE Done
    BY <1>5, <2>4 DEF Done
  <2>5. QED BY <1>2, <1>3, <1>4, <1>5, <2>1, <2>2, <2>3, <2>4 DEF Next

(* Everything that is written consists of words whose fields fit in their   *)
(* places and, read back, of the bytes of these words in their order, for   *)
(* every line and constant, an unhandled mnemonic included.                 *)
THEOREM WrittenAsWords == Spec => []OutputIsWords
<1>1. WordsInv => OutputIsWords
  <2> SUFFICES ASSUME WordsInv PROVE OutputIsWords
    OBVIOUS
  <2>1. /\ words \in Seq(Fields) /\ rom \in Seq(RomLine) /\ Len(rom) <= 4 * Len(words)
        /\ Len(words) + Len(text) <= 2 /\ \A k \in 1 .. Len(rom) : rom[k] = ByteLine(words, k - 1)
        /\ Len(words) \in Nat /\ Len(rom) \in Nat
    <3>1. /\ words \in Seq(Fields) /\ rom \in Seq(RomLine) /\ Len(rom) <= 4 * Len(words)
          /\ \A k \in 1 .. Len(rom) : rom[k] = ByteLine(words, k - 1)
      BY DEF WordsInv, WordsInType, RomInv
    <3>2. Len(words) + Len(text) <= 2
      BY AtMostTwo DEF WordsInv
    <3>3. Len(words) \in Nat /\ Len(rom) \in Nat
      BY <3>1
    <3>4. QED BY <3>1, <3>2, <3>3
  <2>2. TypeOK
    <3>1. \A k \in DOMAIN words : words[k] \in Fields
      BY <2>1
    <3>2. \A k \in DOMAIN rom : rom[k] \in RomLine
      BY <2>1
    <3>3. \A k \in DOMAIN rom : rom[k] \in [line : 0 .. 7, bits : [1 .. 8 -> {0, 1}]]
      BY <3>2 DEF RomLine
    <3>4. QED BY <2>1, <3>1, <3>3 DEF TypeOK
  <2>3. \A k \in DOMAIN rom : rom[k].line = k - 1
    <3>1. \A n : ByteLine(words, n).line = n
      BY DEF ByteLine
    <3>2. DOMAIN rom = 1 .. Len(rom)
      BY <2>1
    <3>3. QED BY <2>1, <3>1, <3>2
  <2>4. ASSUME NEW i \in 1 .. Len(rom) \div 4 PROVE WordInRom(i) = words[i]
    <3>1. i \in 1 .. Len(words) /\ 4 * i <= Len(rom) /\ i \in Nat /\ i >= 1
      BY <2>1, SMT
    <3>2. words[i] \in Fields
      BY <2>1, <3>1
    <3>3. ASSUME NEW k \in 0 .. 3 PROVE Byte(rom[4 * i - 3 + k].bits) = ByteOf(words[i], k)
      <4> DEFINE p == 4 * i - 3 + k
      <4>1. p \in 1 .. Len(rom)
        BY <2>1, <3>1, SMT
      <4>2. (p - 1) \div 4 = i - 1 /\ (p - 1) % 4 = k
        BY <3>1, SMT
      <4>3. ((p - 1) \div 4) + 1 = i
        BY <3>1, <4>2
      <4> HIDE DEF p
      <4>4. rom[p] = ByteLine(words, p - 1)
        BY <2>1, <4>1
      <4>5. rom[p].bits = ByteToBinary(Char(ByteOf(words[i], k)))
        BY <4>2, <4>3, <4>4 DEF ByteLine
      <4>6. Byte(rom[p].bits) = ByteOf(words[i], k)
        BY <3>2, <4>5, BytesOfWord, ByteReadBack
      <4>7. QED BY <4>6 DEF p
    <3>4. WordInRom(i) = Word(ByteOf(words[i], 3) \div 2,
            (ByteOf(words[i], 3) % 2) * 16 + ByteOf(words[i], 2) \div 16,
            (ByteOf(words[i], 2) % 16) * 2 + ByteOf(words[i], 1) \div 128,
            (ByteOf(words[i], 1) \div 16) % 8,
            (ByteOf(words[i], 1) % 16) * 2 + ByteOf(words[i], 0) \div 128,
            ByteOf(words[i], 0) % 128)
      <4>1. 0 \in 0 .. 3 /\ 1 \in 0 .. 3 /\ 2 \in 0 .. 3 /\ 3 \in 0 .. 3
        OBVIOUS
      <4>2. /\ Byte(rom[4 * i - 3 + 0].bits) = ByteOf(words[i], 0)
            /\ Byte(rom[4 * i - 3 + 1].bits) = ByteOf(words[i], 1)
            /\ Byte(rom[4 * i - 3 + 2].bits) = ByteOf(words[i], 2)
            /\ Byte(rom[4 * i - 3 + 3].bits) = ByteOf(words[i], 3)
        BY <3>3, <4>1
      <4>3. QED BY <4>2, Zenon DEF WordInRom
    <3>5. QED BY <3>2, <3>4, BytesOfWord
  <2>5. QED BY <2>2, <2>3, <2>4 DEF OutputIsWords, RomHoldsWords
<1>2. QED BY <1>1, InitWords, WordsKept, PTL DEF Spec

-----------------------------------------------------------------------------
(* The simulator recognises the words.                                      *)

(* The row of the simulator's table for an instruction, by its shape.       *)
LEMMA Rows ==
  ASSUME NEW op
  PROVE /\ op \in CustomOps \cup {"macc"} => Match(op) = MatchCustom(op)
        /\ op \in BranchOps => Match(op) = MatchBranch(op)
        /\ op \in LoadOps \cup StoreOps => Match(op) = MatchMemory(op)
        /\ op \in ImmediateOps => Match(op) = MatchImmediate(op)
        /\ op \in IntOps => Match(op) = MatchInt(op)
        /\ op \in ShiftOps => Match(op) = MatchShift(op)
        /\ op \in FloatOps \cup CompareOps \cup MoveOps => Match(op) = MatchFloat(op)
        /\ op = "lui" => Match(op) = [opcode |-> 55]
        /\ op = "auipc" => Match(op) = [opcode |-> 23]
        /\ op = "jal" => Match(op) = [opcode |-> 111]
        /\ op = "csrrw" => Match(op) = [opcode |-> 115, funct3 |-> 1]
<1>1. \A o \in IntOps \cup FloatOps \cup CompareOps \cup MoveOps \cup ShiftOps \cup {"macc"} :
        o \notin LoadOps \cup StoreOps \cup ImmediateOps \cup BranchOps \cup UpperOps
        /\ o \notin CustomOps /\ o # "lui" /\ o # "auipc" /\ o # "jal" /\ o # "csrrw"
  BY SMT DEF LoadOps, StoreOps, ImmediateOps, BranchOps, UpperOps, CustomOps, ShiftOps,
             IntOps, FloatOps, CompareOps, MoveOps
<1>2. /\ \A o \in IntOps : o \notin FloatOps \cup CompareOps \cup MoveOps \cup ShiftOps
      /\ \A o \in FloatOps \cup CompareOps \cup MoveOps : o \notin ShiftOps
      /\ \A o \in LoadOps \cup StoreOps : o \notin ImmediateOps
  BY SMT DEF LoadOps, StoreOps, ImmediateOps, ShiftOps, IntOps, FloatOps, CompareOps, MoveOps
<1>3. op \in CustomOps \cup {"macc"} => Match(op) = MatchCustom(op)
  BY <1>1, Distinct, SMT DEF Match
<1>4. op \in BranchOps => Match(op) = MatchBranch(op)
  BY <1>1, Distinct, SMT DEF Match
<1>5. op \in LoadOps \cup StoreOps => Match(op) = MatchMemory(op)
  BY <1>1, <1>2, Distinct, SMT DEF Match
<1>6. op \in ImmediateOps => Match(op) = MatchImmediate(op)
  BY <1>1, <1>2, Distinct, SMT DEF Match
<1>7. op \in IntOps => Match(op) = MatchInt(op)
  BY <1>1, <1>2, Distinct, SMT DEF Match
<1>8. op \in ShiftOps => Match(op) = MatchShift(op)
  BY <1>1, <1>2, Distinct, SMT DEF Match
<1>9. op \in FloatOps \cup CompareOps \cup MoveOps => Match(op) = MatchFloat(op)
  BY <1>1, <1>2, Distinct, SMT DEF Match
<1>10. op = "lui" => Match(op) = [opcode |-> 55]
  BY <1>1, Distinct, SMT DEF Match
<1>11. op = "auipc" => Match(op) = [opcode |-> 23]
  BY <1>1, Distinct, SMT DEF Match
<1>12. op = "jal" => Match(op) = [opcode |-> 111]
  BY <1>1, Distinct, SMT DEF Match
<1>13. op = "csrrw" => Match(op) = [opcode |-> 115, funct3 |-> 1]
  BY <1>1, Distinct, SMT DEF Match
<1>14. QED BY <1>3, <1>4, <1>5, <1>6, <1>7, <1>8, <1>9, <1>10, <1>11, <1>12, <1>13

(* The two tables, of the simulator and of the assembler, agree.            *)
LEMMA SameCodes ==
  /\ \A op \in CustomOps \cup {"macc"} : MatchCustom(op) = [opcode |-> 11, rd4 |-> MatchCustom(op).rd4]
  /\ \A op \in CustomOps : MatchCustom(op).rd4 = Funct3(op)
  /\ MatchCustom("macc").rd4 = 0
  /\ \A op \in BranchOps : MatchBranch(op) = [opcode |-> 99, funct3 |-> Funct3(op)]
  /\ \A op \in LoadOps \cup StoreOps : MatchMemory(op) = [opcode |-> OpcodeOf(op), funct3 |-> Funct3(op)]
  /\ \A op \in ImmediateOps : MatchImmediate(op) = [opcode |-> 19, funct3 |-> Funct3(op)]
  /\ \A op \in IntOps :
       MatchInt(op) = [opcode |-> 51, funct3 |-> Funct3(op), funct7 |-> Funct7(op)]
  /\ \A op \in ShiftOps :
       MatchShift(op) = [opcode |-> 19, funct3 |-> Funct3(op), funct7 |-> Funct7(op)]
<1>1. \A op \in CustomOps \cup {"macc"} : MatchCustom(op) = [opcode |-> 11, rd4 |-> MatchCustom(op).rd4]
  <2>1. \A n : LET r == [opcode |-> 11, rd4 |-> n] IN r = [opcode |-> 11, rd4 |-> r.rd4]
    OBVIOUS
  <2>2. \A op : \E n : MatchCustom(op) = [opcode |-> 11, rd4 |-> n]
    BY Zenon DEF MatchCustom
  <2>3. QED BY <2>1, <2>2
<1>2. \A op \in CustomOps : MatchCustom(op).rd4 = Funct3(op)
  BY Functions3, SMT DEF MatchCustom, CustomOps
<1>3. MatchCustom("macc").rd4 = 0
  BY SMT DEF MatchCustom
<1>4. \A op \in BranchOps : MatchBranch(op) = [opcode |-> 99, funct3 |-> Funct3(op)]
  BY Functions3, SMT DEF MatchBranch, BranchOps
<1>5. \A op \in LoadOps \cup StoreOps : MatchMemory(op) = [opcode |-> OpcodeOf(op), funct3 |-> Funct3(op)]
  <2>1. \A op \in {"lb", "lh", "lw", "lbu", "lhu"} : op \in LoadOps \ {"flw", "jalr"}
    BY SMT DEF LoadOps
  <2>2. \A op \in {"sb", "sh", "sw"} : op \in StoreOps \ {"fsw"}
    BY SMT DEF StoreOps
  <2>3. \A op \in {"lb", "lh", "lw", "lbu", "lhu"} : OpcodeOf(op) = 3
    BY <2>1, Opcodes
  <2>4. \A op \in {"sb", "sh", "sw"} : OpcodeOf(op) = 35
    BY <2>2, Opcodes
  <2>5. OpcodeOf("flw") = 7 /\ OpcodeOf("jalr") = 103 /\ OpcodeOf("fsw") = 39
    BY Opcodes
  <2>6. \A op \in {"lb", "lh", "lw", "lbu", "lhu"} :
          MatchMemory(op) = [opcode |-> OpcodeOf(op), funct3 |-> Funct3(op)]
    BY <2>3, Functions3, SMT DEF MatchMemory
  <2>7. \A op \in {"sb", "sh", "sw"} :
          MatchMemory(op) = [opcode |-> OpcodeOf(op), funct3 |-> Funct3(op)]
    BY <2>4, Functions3, SMT DEF MatchMemory
  <2>8. \A op \in {"flw", "jalr", "fsw"} :
          MatchMemory(op) = [opcode |-> OpcodeOf(op), funct3 |-> Funct3(op)]
    BY <2>5, Functions3, SMT DEF MatchMemory
  <2>9. \A op \in LoadOps \cup StoreOps : op \in {"lb", "lh", "lw", "lbu", "lhu"}
          \/ op \in {"sb", "sh", "sw"} \/ op \in {"flw", "jalr", "fsw"}
    BY SMT DEF LoadOps, StoreOps
  <2>10. QED BY <2>6, <2>7, <2>8, <2>9
<1>6. \A op \in ImmediateOps : MatchImmediate(op) = [opcode |-> 19, funct3 |-> Funct3(op)]
  BY Functions3, SMT DEF MatchImmediate, ImmediateOps
<1>7. \A op \in IntOps :
       MatchInt(op) = [opcode |-> 51, funct3 |-> Funct3(op), funct7 |-> Funct7(op)]
  BY Functions3, Functions7, SMT DEF MatchInt, IntOps
<1>8. \A op \in ShiftOps :
       MatchShift(op) = [opcode |-> 19, funct3 |-> Funct3(op), funct7 |-> Funct7(op)]
  BY Functions3, Functions7, SMT DEF MatchShift, ShiftOps
<1>9. QED BY <1>1, <1>2, <1>3, <1>4, <1>5, <1>6, <1>7, <1>8

(* What a word must be to be seen as an instruction, by its shape.          *)
Seen(op, w) == \A f \in DOMAIN Match(op) : View(w)[f] = Match(op)[f]

(* The fields of a view.                                                    *)
LEMMA Viewed ==
  ASSUME NEW w
  PROVE /\ View(w)["funct7"] = w.funct7 /\ View(w)["rs2"] = w.rs2 /\ View(w)["funct3"] = w.funct3
        /\ View(w)["rd"] = w.rd /\ View(w)["rd4"] = w.rd % 16 /\ View(w)["opcode"] = w.opcode
  BY DEF View

(* What is asked of a word by a row, by the fields of the row.              *)
LEMMA SeenByFields ==
  ASSUME NEW w, NEW op
  PROVE /\ \A c : Match(op) = [opcode |-> c] => (Seen(op, w) <=> w.opcode = c)
        /\ \A c, n : Match(op) = [opcode |-> c, rd4 |-> n] =>
             (Seen(op, w) <=> w.opcode = c /\ w.rd % 16 = n)
        /\ \A c, n : Match(op) = [opcode |-> c, funct3 |-> n] =>
             (Seen(op, w) <=> w.opcode = c /\ w.funct3 = n)
        /\ \A c, n : Match(op) = [opcode |-> c, funct7 |-> n] =>
             (Seen(op, w) <=> w.opcode = c /\ w.funct7 = n)
        /\ \A c, n, m : Match(op) = [opcode |-> c, funct3 |-> n, funct7 |-> m] =>
             (Seen(op, w) <=> w.opcode = c /\ w.funct3 = n /\ w.funct7 = m)
        /\ \A c, n : Match(op) = [opcode |-> c, funct7 |-> n, rs2 |-> 0] =>
             (Seen(op, w) <=> w.opcode = c /\ w.funct7 = n /\ w.rs2 = 0)
        /\ \A c, n, m : Match(op) = [opcode |-> c, funct7 |-> n, funct3 |-> m, rs2 |-> 0] =>
             (Seen(op, w) <=> w.opcode = c /\ w.funct3 = m /\ w.funct7 = n /\ w.rs2 = 0)
<1>1. ASSUME NEW c, Match(op) = [opcode |-> c] PROVE Seen(op, w) <=> w.opcode = c
  BY <1>1, Viewed DEF Seen
<1>2. ASSUME NEW c, NEW n, Match(op) = [opcode |-> c, rd4 |-> n]
      PROVE Seen(op, w) <=> w.opcode = c /\ w.rd % 16 = n
  BY <1>2, Viewed DEF Seen
<1>3. ASSUME NEW c, NEW n, Match(op) = [opcode |-> c, funct3 |-> n]
      PROVE Seen(op, w) <=> w.opcode = c /\ w.funct3 = n
  BY <1>3, Viewed DEF Seen
<1>4. ASSUME NEW c, NEW n, Match(op) = [opcode |-> c, funct7 |-> n]
      PROVE Seen(op, w) <=> w.opcode = c /\ w.funct7 = n
  BY <1>4, Viewed DEF Seen
<1>5. ASSUME NEW c, NEW n, NEW m, Match(op) = [opcode |-> c, funct3 |-> n, funct7 |-> m]
      PROVE Seen(op, w) <=> w.opcode = c /\ w.funct3 = n /\ w.funct7 = m
  BY <1>5, Viewed DEF Seen
<1>6. ASSUME NEW c, NEW n, Match(op) = [opcode |-> c, funct7 |-> n, rs2 |-> 0]
      PROVE Seen(op, w) <=> w.opcode = c /\ w.funct7 = n /\ w.rs2 = 0
  BY <1>6, Viewed DEF Seen
<1>7. ASSUME NEW c, NEW n, NEW m, Match(op) = [opcode |-> c, funct7 |-> n, funct3 |-> m, rs2 |-> 0]
      PROVE Seen(op, w) <=> w.opcode = c /\ w.funct3 = m /\ w.funct7 = n /\ w.rs2 = 0
  BY <1>7, Viewed DEF Seen
<1>8. QED BY <1>1, <1>2, <1>3, <1>4, <1>5, <1>6, <1>7

(* What is asked of a word by the rows of the table, by their shape.        *)
LEMMA SeenByShape ==
  ASSUME NEW w, NEW op
  PROVE /\ op \in CustomOps \cup {"macc"} =>
             (Seen(op, w) <=> w.opcode = 11 /\ w.rd % 16 = MatchCustom(op).rd4)
        /\ op \in BranchOps => (Seen(op, w) <=> w.opcode = 99 /\ w.funct3 = Funct3(op))
        /\ op \in LoadOps \cup StoreOps =>
             (Seen(op, w) <=> w.opcode = OpcodeOf(op) /\ w.funct3 = Funct3(op))
        /\ op \in ImmediateOps => (Seen(op, w) <=> w.opcode = 19 /\ w.funct3 = Funct3(op))
        /\ op \in IntOps =>
             (Seen(op, w) <=> w.opcode = 51 /\ w.funct3 = Funct3(op) /\ w.funct7 = Funct7(op))
        /\ op \in ShiftOps =>
             (Seen(op, w) <=> w.opcode = 19 /\ w.funct3 = Funct3(op) /\ w.funct7 = Funct7(op))
        /\ op = "lui" => (Seen(op, w) <=> w.opcode = 55)
        /\ op = "auipc" => (Seen(op, w) <=> w.opcode = 23)
        /\ op = "jal" => (Seen(op, w) <=> w.opcode = 111)
        /\ op = "csrrw" => (Seen(op, w) <=> w.opcode = 115 /\ w.funct3 = 1)
<1>1. op \in CustomOps \cup {"macc"} =>
        (Seen(op, w) <=> w.opcode = 11 /\ w.rd % 16 = MatchCustom(op).rd4)
  BY Rows, SameCodes, SeenByFields
<1>2. op \in BranchOps => (Seen(op, w) <=> w.opcode = 99 /\ w.funct3 = Funct3(op))
  BY Rows, SameCodes, SeenByFields
<1>3. op \in LoadOps \cup StoreOps =>
        (Seen(op, w) <=> w.opcode = OpcodeOf(op) /\ w.funct3 = Funct3(op))
  BY Rows, SameCodes, SeenByFields
<1>4. op \in ImmediateOps => (Seen(op, w) <=> w.opcode = 19 /\ w.funct3 = Funct3(op))
  BY Rows, SameCodes, SeenByFields
<1>5. op \in IntOps =>
        (Seen(op, w) <=> w.opcode = 51 /\ w.funct3 = Funct3(op) /\ w.funct7 = Funct7(op))
  BY Rows, SameCodes, SeenByFields
<1>6. op \in ShiftOps =>
        (Seen(op, w) <=> w.opcode = 19 /\ w.funct3 = Funct3(op) /\ w.funct7 = Funct7(op))
  BY Rows, SameCodes, SeenByFields
<1>7. op = "lui" => (Seen(op, w) <=> w.opcode = 55)
  BY Rows, SeenByFields
<1>8. op = "auipc" => (Seen(op, w) <=> w.opcode = 23)
  BY Rows, SeenByFields
<1>9. op = "jal" => (Seen(op, w) <=> w.opcode = 111)
  BY Rows, SeenByFields
<1>10. op = "csrrw" => (Seen(op, w) <=> w.opcode = 115 /\ w.funct3 = 1)
  BY Rows, SeenByFields
<1>11. QED BY <1>1, <1>2, <1>3, <1>4, <1>5, <1>6, <1>7, <1>8, <1>9, <1>10

(* The float instructions have a row each; some leave funct3 to the rounding*)
(* mode.                                                                    *)
Singles == FloatOps \cup CompareOps \cup MoveOps

(* The rows that leave funct3 open, and the moves.                          *)
LEMMA FloatRows ==
  /\ MatchFloat("fadd") = [opcode |-> 83, funct7 |-> 0]
  /\ MatchFloat("fsub") = [opcode |-> 83, funct7 |-> 4]
  /\ MatchFloat("fmul") = [opcode |-> 83, funct7 |-> 8]
  /\ MatchFloat("fcvt") = [opcode |-> 83, funct7 |-> 104, rs2 |-> 0]
  /\ MatchFloat("fmv") = [opcode |-> 83, funct7 |-> 120, funct3 |-> 0, rs2 |-> 0]
<1>1. MatchFloat("fadd") = [opcode |-> 83, funct7 |-> 0]
  BY SMT DEF MatchFloat
<1>2. MatchFloat("fsub") = [opcode |-> 83, funct7 |-> 4]
  BY SMT DEF MatchFloat
<1>3. MatchFloat("fmul") = [opcode |-> 83, funct7 |-> 8]
  BY Zenon DEF MatchFloat
<1>4. MatchFloat("fcvt") = [opcode |-> 83, funct7 |-> 104, rs2 |-> 0]
  BY Zenon DEF MatchFloat
<1>5. MatchFloat("fmv") = [opcode |-> 83, funct7 |-> 120, funct3 |-> 0, rs2 |-> 0]
  BY Zenon DEF MatchFloat
<1>6. QED BY <1>1, <1>2, <1>3, <1>4, <1>5
LEMMA SeenSingles ==
  ASSUME NEW w, NEW op \in Singles
  PROVE Seen(op, w) <=> /\ w.opcode = 83 /\ w.funct7 = Funct7(op)
                        /\ op \notin {"fadd", "fsub", "fmul", "fcvt"} => w.funct3 = Funct3(op)
                        /\ op \in MoveOps => w.rs2 = 0
<1>1. Match(op) = MatchFloat(op)
  BY Rows DEF Singles
<1>2. CASE op \in {"fadd", "fsub", "fmul"}
  <2>4. Funct7("fadd") = 0 /\ Funct7("fsub") = 4 /\ Funct7("fmul") = 8
    BY Functions7
  <2>5. Match(op) = [opcode |-> 83, funct7 |-> Funct7(op)]
    BY <1>1, <1>2, <2>4, FloatRows
  <2>6. op \notin MoveOps
    BY <1>2, SMT DEF MoveOps
  <2>7. QED BY <1>2, <2>5, <2>6, SeenByFields
<1>3. CASE op \in {"fsgnj", "fsgnjn", "fle", "flt", "feq"}
  <2>1. Match(op) = [opcode |-> 83, funct7 |-> Funct7(op), funct3 |-> Funct3(op)] /\ op \notin MoveOps
    BY <1>1, <1>3, Functions7, Functions3, SMT DEF MatchFloat, MoveOps
  <2>2. [opcode |-> 83, funct7 |-> Funct7(op), funct3 |-> Funct3(op)]
          = [opcode |-> 83, funct3 |-> Funct3(op), funct7 |-> Funct7(op)]
    OBVIOUS
  <2>3. op \notin {"fadd", "fsub", "fmul", "fcvt"}
    BY <1>3
  <2>4. QED BY <2>1, <2>2, <2>3, SeenByFields
<1>4. CASE op = "fcvt"
  <2>2. Match(op) = [opcode |-> 83, funct7 |-> Funct7(op), rs2 |-> 0]
    BY <1>1, <1>4, FloatRows, Functions7
  <2>3. op \in MoveOps
    BY <1>4 DEF MoveOps
  <2>4. QED BY <1>4, <2>2, <2>3, SeenByFields
<1>5. CASE op = "fmv"
  <2>2. Match(op) = [opcode |-> 83, funct7 |-> Funct7(op), funct3 |-> Funct3(op), rs2 |-> 0]
    BY <1>1, <1>5, FloatRows, Functions7, Functions3
  <2>3. op \in MoveOps /\ op \notin {"fadd", "fsub", "fmul", "fcvt"}
    BY <1>5 DEF MoveOps
  <2>4. QED BY <2>2, <2>3, SeenByFields
<1>6. QED BY <1>2, <1>3, <1>4, <1>5, SMT DEF Singles, FloatOps, CompareOps, MoveOps

(* The fields of a line's word that tell what it is.                        *)
Identified(i, w) ==
  /\ i.op \in Operations \ ShiftOps => w.opcode = OpcodeOf(i.op)
  /\ i.op \in BranchOps \cup LoadOps \cup ImmediateOps \cup StoreOps \cup IntOps \cup Singles =>
       w.funct3 = Funct3(i.op)
  /\ i.op = "csrrw" => w.funct3 = 1
  /\ i.op \in IntOps \cup Singles => w.funct7 = Funct7(i.op)
  /\ i.op \in MoveOps => w.rs2 = 0
  /\ i.op \in CustomOps => w.rd = Funct3(i.op)
  /\ i.op = "macc" => w.rd = 0
  /\ i.op \in ShiftOps => w.opcode = 0
  /\ \A f \in Names(i.op) : i.op \notin ShiftOps => w[f] = Field(i, f)

(* The register fields a line names, by its shape.                          *)
LEMMA NamesOf ==
  ASSUME NEW op
  PROVE /\ op \in UpperOps \cup {"jal"} => Names(op) = {"rd"}
        /\ op \in BranchOps \cup StoreOps => Names(op) = {"rs1", "rs2"}
        /\ op \in LoadOps \cup ImmediateOps \cup ShiftOps \cup MoveOps \cup {"csrrw"} =>
             Names(op) = {"rd", "rs1"}
        /\ op \in IntOps \cup FloatOps \cup CompareOps => Names(op) = {"rd", "rs1", "rs2"}
        /\ op \in CustomOps \cup {"macc", "neg"} => Names(op) = {}
        /\ Names(op) \subseteq {"rd", "rs1", "rs2"}
<1>1. /\ \A o \in IntOps \cup FloatOps \cup CompareOps :
           o \notin UpperOps \cup BranchOps \cup StoreOps \cup LoadOps \cup ImmediateOps \cup ShiftOps
             \cup MoveOps \cup CustomOps \cup {"jal", "csrrw", "mv", "macc", "neg"}
      /\ \A o \in LoadOps \cup ImmediateOps \cup ShiftOps \cup MoveOps \cup {"csrrw", "mv"} :
           o \notin UpperOps \cup BranchOps \cup StoreOps \cup CustomOps \cup {"jal", "macc", "neg"}
  BY SMT DEF UpperOps, BranchOps, LoadOps, StoreOps, ImmediateOps, ShiftOps, IntOps, FloatOps,
         CompareOps, MoveOps, CustomOps
<1>2. /\ \A o \in BranchOps \cup StoreOps :
           o \notin UpperOps \cup CustomOps \cup {"jal", "macc", "neg"}
      /\ \A o \in UpperOps \cup {"jal"} : o \notin CustomOps \cup {"macc", "neg"}
  BY SMT DEF UpperOps, BranchOps, StoreOps, CustomOps
<1>3. op \in UpperOps \cup {"jal"} => Names(op) = {"rd"}
  BY <1>1, <1>2, SMT DEF Names
<1>4. op \in BranchOps \cup StoreOps => Names(op) = {"rs1", "rs2"}
  BY <1>1, <1>2, SMT DEF Names
<1>5. op \in LoadOps \cup ImmediateOps \cup ShiftOps \cup MoveOps \cup {"csrrw"} =>
        Names(op) = {"rd", "rs1"}
  BY <1>1, <1>2, SMT DEF Names
<1>6. op \in IntOps \cup FloatOps \cup CompareOps => Names(op) = {"rd", "rs1", "rs2"}
  BY <1>1, <1>2, SMT DEF Names
<1>7. op \in CustomOps \cup {"macc", "neg"} => Names(op) = {}
  <2>1. op \in CustomOps \cup {"macc", "neg"} => op # "mv"
    BY SMT DEF CustomOps
  <2>2. QED BY <1>1, <1>2, <2>1, SMT DEF Names
<1>8. Names(op) \subseteq {"rd", "rs1", "rs2"}
  BY SMT DEF Names
<1>9. QED BY <1>3, <1>4, <1>5, <1>6, <1>7, <1>8

(* The fields of a word.                                                    *)
LEMMA Cast ==
  ASSUME NEW f7, NEW r2, NEW r1, NEW f3, NEW d, NEW c
  PROVE LET w == Word(f7, r2, r1, f3, d, c)
        IN /\ w.funct7 = f7 /\ w.rs2 = r2 /\ w.rs1 = r1 /\ w.funct3 = f3 /\ w.rd = d /\ w.opcode = c
           /\ w["rs2"] = r2 /\ w["rs1"] = r1 /\ w["rd"] = d
  BY DEF Word

(* What asmToBinary packs tells what was packed.                            *)
LEMMA LineIdentified ==
  ASSUME NEW line, Shaped(Pseudo(line)), Pseudo(line).op # "neg"
  PROVE Identified(Pseudo(line), AsmToBinary(line))
<1>1. PICK i : i = Pseudo(line)
  OBVIOUS
<1>2. i.op \in Operations
  BY <1>1 DEF Shaped
<1>3. PICK w : w = AsmToBinary(line)
  OBVIOUS
<1>4. /\ \A o \in IntOps \cup Singles : o \notin ShiftOps \cup UpperOps \cup BranchOps \cup LoadOps
           \cup ImmediateOps \cup StoreOps \cup CustomOps \cup {"jal", "csrrw", "macc"}
      /\ \A o \in CustomOps \cup {"macc"} : o \notin IntOps \cup Singles \cup ShiftOps
      /\ \A o \in MoveOps : o \notin IntOps /\ o \notin CompareOps \cup FloatOps
  BY SMT DEF UpperOps, BranchOps, LoadOps, StoreOps, ImmediateOps, ShiftOps, IntOps, FloatOps,
         CompareOps, MoveOps, CustomOps, Singles
<1>5. CASE i.op \in UpperOps \cup {"jal"}
  <2>1. /\ i.op \in UpperOps => w = Upper20(Immediate(i), Field(i, "rd"), OpcodeOf(i.op))
        /\ i.op = "jal" => w = JalWord(Immediate(i), Field(i, "rd"))
    BY <1>1, <1>3, PackedFields
  <2>2. OpcodeOf("jal") = 111
    BY Opcodes
  <2>3. w.opcode = OpcodeOf(i.op) /\ w["rd"] = Field(i, "rd") /\ w.rd = Field(i, "rd")
    BY <1>5, <2>1, <2>2, Cast DEF Upper20, JalWord
  <2>4. Names(i.op) = {"rd"}
    BY <1>5, NamesOf
  <2>5. /\ i.op \notin BranchOps \cup LoadOps \cup ImmediateOps \cup StoreOps
        /\ i.op \notin IntOps \cup Singles /\ i.op \notin MoveOps
        /\ i.op \notin CustomOps /\ i.op \notin ShiftOps /\ i.op # "csrrw" /\ i.op # "macc"
    BY <1>4, <1>5, Distinct DEF Singles
  <2>6. QED BY <1>1, <1>3, <2>3, <2>4, <2>5 DEF Identified
<1>6. CASE i.op \in BranchOps \cup StoreOps
  <2>1. /\ i.op \in BranchOps => w = BranchWord(Immediate(i), Field(i, "rs2"), Field(i, "rs1"),
                                               Funct3(i.op))
        /\ i.op \in StoreOps => w = StoreWord(Immediate(i), Field(i, "rs2"), Field(i, "rs1"),
                                              Funct3(i.op), OpcodeOf(i.op))
    BY <1>1, <1>3, PackedFields
  <2>2. i.op \in BranchOps => OpcodeOf(i.op) = 99
    BY Opcodes
  <2>3. /\ w.opcode = OpcodeOf(i.op) /\ w["rs1"] = Field(i, "rs1") /\ w["rs2"] = Field(i, "rs2")
        /\ w.funct3 = Funct3(i.op)
    BY <1>6, <2>1, <2>2, Cast DEF BranchWord, StoreWord
  <2>4. Names(i.op) = {"rs1", "rs2"}
    BY <1>6, NamesOf
  <2>5. /\ i.op \notin IntOps \cup Singles /\ i.op \notin MoveOps
        /\ i.op \notin CustomOps /\ i.op \notin ShiftOps /\ i.op # "csrrw" /\ i.op # "macc"
    BY <1>4, <1>6, Distinct DEF Singles
  <2>6. QED BY <1>1, <1>3, <2>3, <2>4, <2>5 DEF Identified
<1>7. CASE i.op \in LoadOps \cup ImmediateOps
  <2>1. w = LoadWord(Immediate(i), Field(i, "rs1"), Funct3(i.op), Field(i, "rd"), OpcodeOf(i.op))
    BY <1>1, <1>3, <1>7, PackedFields
  <2>2. /\ w.opcode = OpcodeOf(i.op) /\ w["rs1"] = Field(i, "rs1") /\ w["rd"] = Field(i, "rd")
        /\ w.funct3 = Funct3(i.op)
    BY <2>1, Cast DEF LoadWord
  <2>3. Names(i.op) = {"rd", "rs1"}
    BY <1>7, NamesOf
  <2>4. /\ i.op \notin IntOps \cup Singles /\ i.op \notin MoveOps
        /\ i.op \notin CustomOps /\ i.op \notin ShiftOps /\ i.op # "csrrw" /\ i.op # "macc"
    BY <1>4, <1>7, Distinct DEF Singles
  <2>5. QED BY <1>1, <1>3, <2>2, <2>3, <2>4 DEF Identified
<1>8. CASE i.op = "csrrw"
  <2>1. w = LoadWord(Immediate(i), Field(i, "rs1"), 1, Field(i, "rd"), OpcodeOf(i.op))
    BY <1>1, <1>3, <1>8, PackedFields
  <2>2. /\ w.opcode = OpcodeOf(i.op) /\ w["rs1"] = Field(i, "rs1") /\ w["rd"] = Field(i, "rd")
        /\ w.funct3 = 1
    BY <2>1, Cast DEF LoadWord
  <2>3. Names(i.op) = {"rd", "rs1"}
    BY <1>8, NamesOf
  <2>4. /\ i.op \notin BranchOps \cup LoadOps \cup ImmediateOps \cup StoreOps
        /\ i.op \notin IntOps \cup Singles /\ i.op \notin MoveOps
        /\ i.op \notin CustomOps /\ i.op \notin ShiftOps /\ i.op # "macc"
    BY <1>4, <1>8, Distinct, SMT DEF Singles
  <2>5. QED BY <1>1, <1>3, <1>8, <2>2, <2>3, <2>4 DEF Identified
<1>9. CASE i.op \in IntOps \cup Singles
  <2>1. w = Word(Funct7(i.op), Field(i, "rs2"), Field(i, "rs1"), Funct3(i.op), Field(i, "rd"),
                 OpcodeOf(i.op))
    BY <1>1, <1>3, <1>9, PackedFields DEF Singles
  <2>2. /\ w.opcode = OpcodeOf(i.op) /\ w["rs1"] = Field(i, "rs1") /\ w["rd"] = Field(i, "rd")
        /\ w["rs2"] = Field(i, "rs2") /\ w.rs2 = Field(i, "rs2")
        /\ w.funct3 = Funct3(i.op) /\ w.funct7 = Funct7(i.op)
    BY <2>1, Cast
  <2>3. Names(i.op) \subseteq {"rd", "rs1", "rs2"}
    BY NamesOf
  <2>4. i.op \in MoveOps => Field(i, "rs2") = 0
    <3>1. i.op \in MoveOps => Names(i.op) = {"rd", "rs1"}
      BY NamesOf
    <3>2. QED BY <3>1 DEF Field
  <2>5. i.op \notin CustomOps /\ i.op \notin ShiftOps /\ i.op # "csrrw" /\ i.op # "macc"
    BY <1>4, <1>9
  <2>6. QED BY <1>1, <1>3, <2>2, <2>3, <2>4, <2>5 DEF Identified
<1>10. CASE i.op \in CustomOps \cup {"macc"}
  <2>1. /\ i.op \in CustomOps => w = Upper20(Immediate(i), Funct3(i.op), OpcodeOf(i.op))
        /\ i.op = "macc" => w = Upper20(0, 0, OpcodeOf(i.op))
    BY <1>1, <1>3, PackedFields
  <2>2. w.opcode = OpcodeOf(i.op) /\ (i.op \in CustomOps => w.rd = Funct3(i.op))
        /\ (i.op = "macc" => w.rd = 0)
    BY <1>10, <2>1, Cast DEF Upper20
  <2>3. Names(i.op) = {}
    BY <1>10, NamesOf
  <2>4. /\ i.op \notin BranchOps \cup LoadOps \cup ImmediateOps \cup StoreOps
        /\ i.op \notin IntOps \cup Singles /\ i.op \notin MoveOps
        /\ i.op \notin ShiftOps /\ i.op # "csrrw"
    BY <1>4, <1>10, Distinct, SMT DEF Singles
  <2>5. QED BY <1>1, <1>3, <2>2, <2>3, <2>4 DEF Identified
<1>11. CASE i.op \in ShiftOps
  <2>1. w = ShiftWord(Immediate(i), i.op, Field(i, "rs1"), Field(i, "rd"))
    BY <1>1, <1>3, <1>11, PackedFields
  <2>2. w.opcode = 0
    BY <2>1, Cast DEF ShiftWord
  <2>3. /\ i.op \notin BranchOps \cup LoadOps \cup ImmediateOps \cup StoreOps
        /\ i.op \notin IntOps \cup Singles /\ i.op \notin MoveOps
        /\ i.op \notin CustomOps /\ i.op # "csrrw" /\ i.op # "macc"
    BY <1>4, <1>11, Distinct DEF Singles
  <2>4. QED BY <1>1, <1>3, <1>11, <2>2, <2>3 DEF Identified
<1>12. QED
  BY <1>2, <1>5, <1>6, <1>7, <1>8, <1>9, <1>10, <1>11 DEF Operations, Singles

(* The shapes by their opcode.                                              *)
Memory == {"jalr", "flw", "fsw"}
OpcodeValues == {55, 23, 111, 103, 99, 7, 39, 3, 35, 19, 51, 83, 115, 11}
LEMMA ByOpcode ==
  ASSUME NEW op \in Operations
  PROVE /\ OpcodeOf(op) = 55 => op = "lui"
        /\ OpcodeOf(op) = 23 => op = "auipc"
        /\ OpcodeOf(op) = 111 => op = "jal"
        /\ OpcodeOf(op) = 103 => op = "jalr"
        /\ OpcodeOf(op) = 99 => op \in BranchOps
        /\ OpcodeOf(op) = 7 => op = "flw"
        /\ OpcodeOf(op) = 39 => op = "fsw"
        /\ OpcodeOf(op) = 3 => op \in LoadOps
        /\ OpcodeOf(op) = 35 => op \in StoreOps
        /\ OpcodeOf(op) = 19 => op \in ImmediateOps \cup ShiftOps
        /\ OpcodeOf(op) = 51 => op \in IntOps
        /\ OpcodeOf(op) = 83 => op \in Singles
        /\ OpcodeOf(op) = 115 => op = "csrrw"
        /\ OpcodeOf(op) = 11 => op \in CustomOps \cup {"macc"}
        /\ OpcodeOf(op) \in OpcodeValues
<1>1. \/ op = "lui" /\ OpcodeOf(op) = 55
      \/ op = "auipc" /\ OpcodeOf(op) = 23
      \/ op = "jal" /\ OpcodeOf(op) = 111
      \/ op = "jalr" /\ OpcodeOf(op) = 103
      \/ op \in BranchOps /\ OpcodeOf(op) = 99
      \/ op = "flw" /\ OpcodeOf(op) = 7
      \/ op = "fsw" /\ OpcodeOf(op) = 39
      \/ op \in LoadOps \ {"flw", "jalr"} /\ OpcodeOf(op) = 3
      \/ op \in StoreOps \ {"fsw"} /\ OpcodeOf(op) = 35
      \/ op \in ImmediateOps \cup ShiftOps /\ OpcodeOf(op) = 19
      \/ op \in IntOps /\ OpcodeOf(op) = 51
      \/ op \in Singles /\ OpcodeOf(op) = 83
      \/ op = "csrrw" /\ OpcodeOf(op) = 115
      \/ op \in CustomOps \cup {"macc"} /\ OpcodeOf(op) = 11
  BY Opcodes DEF Operations, UpperOps, Singles
<1>2. QED BY <1>1, SMT DEF OpcodeValues

(* An instruction is told from the others of its opcode by its function     *)
(* codes.                                                                   *)
LEMMA ToldApart ==
  /\ \A o, p \in BranchOps : Funct3(o) = Funct3(p) => o = p
  /\ \A o, p \in LoadOps \ {"flw", "jalr"} : Funct3(o) = Funct3(p) => o = p
  /\ \A o, p \in StoreOps \ {"fsw"} : Funct3(o) = Funct3(p) => o = p
  /\ \A o, p \in ImmediateOps : Funct3(o) = Funct3(p) => o = p
  /\ \A o \in ShiftOps, p \in ImmediateOps : Funct3(o) # Funct3(p)
  /\ \A o, p \in IntOps : Funct3(o) = Funct3(p) /\ Funct7(o) = Funct7(p) => o = p
  /\ \A o, p \in Singles :
       Funct7(o) = Funct7(p) /\ (o \notin {"fadd", "fsub", "fmul", "fcvt"} => Funct3(o) = Funct3(p))
         => o = p
  /\ \A o, p \in CustomOps : Funct3(o) = Funct3(p) => o = p
  /\ \A o \in CustomOps : Funct3(o) \in {1, 2, 3, 6}
<1>1. \A o, p \in BranchOps : Funct3(o) = Funct3(p) => o = p
  BY Functions3, SMT DEF BranchOps
<1>2. \A o, p \in LoadOps \ {"flw", "jalr"} : Funct3(o) = Funct3(p) => o = p
  BY Functions3, SMT DEF LoadOps
<1>3. \A o, p \in StoreOps \ {"fsw"} : Funct3(o) = Funct3(p) => o = p
  BY Functions3, SMT DEF StoreOps
<1>4. \A o, p \in ImmediateOps : Funct3(o) = Funct3(p) => o = p
  BY Functions3, SMT DEF ImmediateOps
<1>5. \A o \in ShiftOps, p \in ImmediateOps : Funct3(o) # Funct3(p)
  BY Functions3, SMT DEF ImmediateOps, ShiftOps
<1>6. \A o, p \in IntOps : Funct3(o) = Funct3(p) /\ Funct7(o) = Funct7(p) => o = p
  BY Functions3, Functions7, SMT DEF IntOps
<1>7. \A o, p \in Singles :
        Funct7(o) = Funct7(p) /\ (o \notin {"fadd", "fsub", "fmul", "fcvt"} => Funct3(o) = Funct3(p))
          => o = p
  BY Functions3, Functions7, SMT DEF Singles, FloatOps, CompareOps, MoveOps
<1>8. \A o, p \in CustomOps : Funct3(o) = Funct3(p) => o = p
  BY Functions3, SMT DEF CustomOps
<1>9. \A o \in CustomOps : Funct3(o) \in {1, 2, 3, 6}
  BY Functions3, SMT DEF CustomOps
<1>10. QED BY <1>1, <1>2, <1>3, <1>4, <1>5, <1>6, <1>7, <1>8, <1>9

(* To be seen as an instruction is to have its opcode.                      *)
LEMMA SeenOpcode == ASSUME NEW w, NEW op \in Operations, Seen(op, w) PROVE w.opcode = OpcodeOf(op)
<1>1. CASE op \in Singles
  <2>1. OpcodeOf(op) = 83
    BY <1>1, Opcodes DEF Singles
  <2>2. QED BY <1>1, <2>1, SeenSingles
<1>2. CASE op \notin Singles
  BY <1>2, SeenByShape, Opcodes DEF Operations, UpperOps, Singles
<1>3. QED BY <1>1, <1>2

(* A line's word is seen as the instruction of the line, and as no other.   *)
LEMMA SeenAsMeant ==
  ASSUME NEW i, NEW w, Identified(i, w), i.op \in Operations, i.op \notin ShiftOps
  PROVE Seen(i.op, w)
<1>1. w.opcode = OpcodeOf(i.op)
  BY DEF Identified
<1>2. CASE i.op \in Singles
  <2>1. /\ w.opcode = 83 /\ w.funct7 = Funct7(i.op) /\ w.funct3 = Funct3(i.op)
        /\ i.op \in MoveOps => w.rs2 = 0
    BY <1>1, <1>2, Opcodes DEF Identified, Singles
  <2>2. QED BY <1>2, <2>1, SeenSingles
<1>3. CASE i.op \in CustomOps \cup {"macc"}
  <2>1. w.opcode = 11
    BY <1>1, <1>3, Opcodes
  <2>2. w.rd % 16 = MatchCustom(i.op).rd4
    <3>1. i.op \in CustomOps => w.rd = Funct3(i.op) /\ MatchCustom(i.op).rd4 = Funct3(i.op)
                                 /\ Funct3(i.op) \in {1, 2, 3, 6}
      BY SameCodes, ToldApart DEF Identified
    <3>2. \A n \in {0, 1, 2, 3, 6} : n % 16 = n
      BY SMT
    <3>3. i.op = "macc" => w.rd = 0 /\ MatchCustom(i.op).rd4 = 0
      BY SameCodes DEF Identified
    <3>4. QED BY <1>3, <3>1, <3>2, <3>3
  <2>3. QED BY <1>3, <2>1, <2>2, SeenByShape
<1>4. CASE i.op \in BranchOps \cup LoadOps \cup StoreOps \cup ImmediateOps \cup IntOps
  <2>1. w.funct3 = Funct3(i.op) /\ (i.op \in IntOps => w.funct7 = Funct7(i.op))
    BY <1>4 DEF Identified
  <2>2. QED BY <1>1, <1>4, <2>1, SeenByShape, Opcodes
<1>5. CASE i.op \in UpperOps \cup {"jal", "csrrw"}
  BY <1>1, <1>5, SeenByShape, Opcodes DEF Identified, UpperOps
<1>6. QED BY <1>2, <1>3, <1>4, <1>5 DEF Operations, Singles

(* It is seen as no other.                                                  *)
LEMMA SeenAsNoOther ==
  ASSUME NEW i, NEW w, Identified(i, w), i.op \in Operations, i.op \notin ShiftOps,
         NEW o \in Operations, Seen(o, w)
  PROVE o = i.op
<1>1. w.opcode = OpcodeOf(o) /\ w.opcode = OpcodeOf(i.op) /\ OpcodeOf(o) = OpcodeOf(i.op)
  BY SeenOpcode DEF Identified
<1>2. CASE i.op \in Singles
  <2>1. o \in Singles
    BY <1>1, <1>2, Opcodes, ByOpcode DEF Singles
  <2>2. w.funct7 = Funct7(i.op) /\ w.funct3 = Funct3(i.op)
    BY <1>2 DEF Identified
  <2>3. Funct7(o) = Funct7(i.op)
        /\ (o \notin {"fadd", "fsub", "fmul", "fcvt"} => Funct3(o) = Funct3(i.op))
    BY <2>1, <2>2, SeenSingles
  <2>4. QED BY <1>2, <2>1, <2>3, ToldApart
<1>3. CASE i.op \in CustomOps \cup {"macc"}
  <2>1. o \in CustomOps \cup {"macc"}
    BY <1>1, <1>3, Opcodes, ByOpcode
  <2>2. w.rd % 16 = MatchCustom(o).rd4 /\ w.rd % 16 = MatchCustom(i.op).rd4
    BY <1>3, <2>1, SeenByShape, SeenAsMeant
  <2>3. \A p \in CustomOps : MatchCustom(p).rd4 = Funct3(p) /\ Funct3(p) # 0
    BY SameCodes, ToldApart, SMT
  <2>4. QED BY <1>3, <2>1, <2>2, <2>3, SameCodes, ToldApart
<1>4. CASE i.op \in BranchOps
  <2>1. o \in BranchOps
    BY <1>1, <1>4, Opcodes, ByOpcode
  <2>2. Funct3(o) = Funct3(i.op)
    BY <1>4, <2>1, SeenByShape DEF Identified
  <2>3. QED BY <1>4, <2>1, <2>2, ToldApart
<1>5. CASE i.op \in LoadOps \ {"flw", "jalr"}
  <2>1. o \in LoadOps /\ OpcodeOf(o) = 3
    BY <1>1, <1>5, Opcodes, ByOpcode
  <2>2. OpcodeOf("flw") # 3 /\ OpcodeOf("jalr") # 3
    BY Opcodes, SMT
  <2>3. o \in LoadOps \ {"flw", "jalr"}
    BY <2>1, <2>2
  <2>4. Funct3(o) = Funct3(i.op)
    BY <1>5, <2>1, SeenByShape DEF Identified
  <2>5. QED BY <1>5, <2>3, <2>4, ToldApart
<1>6. CASE i.op \in StoreOps \ {"fsw"}
  <2>1. o \in StoreOps /\ OpcodeOf(o) = 35
    BY <1>1, <1>6, Opcodes, ByOpcode
  <2>2. OpcodeOf("fsw") # 35
    BY Opcodes, SMT
  <2>3. o \in StoreOps \ {"fsw"}
    BY <2>1, <2>2
  <2>4. Funct3(o) = Funct3(i.op)
    BY <1>6, <2>1, SeenByShape DEF Identified
  <2>5. QED BY <1>6, <2>3, <2>4, ToldApart
<1>7. CASE i.op \in ImmediateOps
  <2>1. o \in ImmediateOps \cup ShiftOps
    BY <1>1, <1>7, Opcodes, ByOpcode
  <2>2. Funct3(o) = Funct3(i.op)
    BY <1>7, <2>1, SeenByShape DEF Identified
  <2>3. QED BY <1>7, <2>1, <2>2, ToldApart
<1>8. CASE i.op \in IntOps
  <2>1. o \in IntOps
    BY <1>1, <1>8, Opcodes, ByOpcode
  <2>2. Funct3(o) = Funct3(i.op) /\ Funct7(o) = Funct7(i.op)
    BY <1>8, <2>1, SeenByShape DEF Identified
  <2>3. QED BY <1>8, <2>1, <2>2, ToldApart
<1>9. CASE i.op \in UpperOps \cup {"jal", "csrrw", "jalr", "flw", "fsw"}
  BY <1>1, <1>9, Opcodes, ByOpcode DEF UpperOps
<1>10. QED
  BY <1>2, <1>3, <1>4, <1>5, <1>6, <1>7, <1>8, <1>9 DEF Operations, Singles

(* The length is told from the opcode.                                      *)
LEMMA Lengths ==
  ASSUME NEW w
  PROVE /\ w.opcode \in OpcodeValues => InsnLength(w) = 4
        /\ w.opcode = 0 => InsnLength(w) = 2
<1>1. \A c \in OpcodeValues : c % 4 = 3 /\ c % 32 < 31
  BY SMT DEF OpcodeValues
<1>2. ASSUME w.opcode \in OpcodeValues PROVE InsnLength(w) = 4
  <2>1. w.opcode % 4 = 3 /\ w.opcode % 32 < 31
    BY <1>1, <1>2
  <2>2. QED BY <2>1, SMT DEF InsnLength
<1>3. w.opcode = 0 => InsnLength(w) = 2
  BY SMT DEF InsnLength
<1>4. QED BY <1>2, <1>3

(* What is recognised, and how many bytes of it.                            *)
LEMMA RecognisedAsMeant ==
  ASSUME NEW i, NEW w, Identified(i, w), i.op \in Operations
  PROVE /\ i.op \in ShiftOps => Recognised(w) = {} /\ InsnLength(w) = 2
        /\ i.op \notin ShiftOps => Recognised(w) = {i.op} /\ InsnLength(w) = 4
<1>1. Recognised(w) = {o \in Operations : Seen(o, w)}
  BY DEF Recognised, Seen
<1>2. ASSUME i.op \in ShiftOps PROVE Recognised(w) = {} /\ InsnLength(w) = 2
  <2>1. w.opcode = 0
    BY <1>2 DEF Identified
  <2>2. ASSUME NEW o \in Operations, Seen(o, w) PROVE FALSE
    <3>1. OpcodeOf(o) = 0 /\ OpcodeOf(o) \in OpcodeValues
      BY <2>1, <2>2, SeenOpcode, ByOpcode
    <3>2. QED BY <3>1, SMT DEF OpcodeValues
  <2>3. QED BY <1>1, <2>1, <2>2, Lengths
<1>3. ASSUME i.op \notin ShiftOps PROVE Recognised(w) = {i.op} /\ InsnLength(w) = 4
  <2>1. w.opcode \in OpcodeValues
    BY <1>3, ByOpcode DEF Identified
  <2>2. QED BY <1>1, <1>3, <2>1, SeenAsMeant, SeenAsNoOther, Lengths
<1>4. QED BY <1>2, <1>3

(* What is asked of a word that a pattern claims.                           *)
LEMMA ClaimedOpcode == ASSUME NEW w, NEW a, Claims([opcode |-> a], w) PROVE w.opcode \in a
  BY Viewed DEF Claims
LEMMA ClaimedFunct3 == ASSUME NEW w, NEW a, NEW b, Claims([opcode |-> a, funct3 |-> b], w)
                       PROVE w.opcode \in a /\ w.funct3 \in b
  BY Viewed DEF Claims
LEMMA ClaimedFunct7 == ASSUME NEW w, NEW a, NEW b, Claims([opcode |-> a, funct7 |-> b], w)
                       PROVE w.opcode \in a /\ w.funct7 \in b
  BY Viewed DEF Claims
LEMMA ClaimedRd4 == ASSUME NEW w, NEW a, NEW b, Claims([opcode |-> a, rd4 |-> b], w)
                    PROVE w.opcode \in a /\ w.rd % 16 \in b
  BY Viewed DEF Claims
LEMMA ClaimedBoth ==
  ASSUME NEW w, NEW a, NEW b, NEW c, \/ Claims([opcode |-> a, funct3 |-> b, funct7 |-> c], w)
                                      \/ Claims([opcode |-> a, funct7 |-> c, funct3 |-> b], w)
  PROVE w.opcode \in a /\ w.funct3 \in b /\ w.funct7 \in c
  BY Viewed DEF Claims
LEMMA ClaimedRs2 ==
  ASSUME NEW w, NEW a, NEW b, NEW c, Claims([opcode |-> a, funct7 |-> b, rs2 |-> c], w)
  PROVE w.opcode \in a /\ w.funct7 \in b /\ w.rs2 \in c
  BY Viewed DEF Claims
LEMMA ClaimedRd == ASSUME NEW w, NEW a, NEW b, Claims([opcode |-> a, rd |-> b], w)
                   PROVE w.opcode \in a /\ w.rd \in b
  BY Viewed DEF Claims
LEMMA ClaimedPrefetch ==
  ASSUME NEW w, NEW a, NEW b, NEW c, NEW d,
         Claims([opcode |-> a, funct3 |-> b, rd |-> c, rs2 |-> d], w)
  PROVE w.opcode \in a /\ w.funct3 \in b /\ w.rd \in c
  BY Viewed DEF Claims

(* The function codes that go with an opcode.                               *)
Told(w) ==
  /\ w.opcode \in OpcodeValues
  /\ w.opcode \in {7, 39} => w.funct3 = 2
  /\ w.opcode = 3 => w.funct3 \in {0, 1, 2, 4, 5}
  /\ w.opcode = 35 => w.funct3 \in {0, 1, 2}
  /\ w.opcode = 19 => w.funct3 \in {0, 2, 3, 4, 6, 7}
  /\ w.opcode = 51 => \/ w.funct7 = 0
                      \/ w.funct7 = 1 /\ w.funct3 = 0
                      \/ w.funct7 = 32 /\ w.funct3 \in {0, 5}
  /\ w.opcode = 83 => /\ w.funct7 \in {0, 4, 8, 16, 80, 104, 120}
                      /\ w.funct7 = 16 => w.funct3 \in {0, 1}
                      /\ w.funct7 = 80 => w.funct3 \in {0, 1, 2}
                      /\ w.funct7 \in {104, 120} => w.rs2 = 0
  /\ w.opcode = 115 => w.funct3 = 1
  /\ w.opcode = 11 => w.rd % 16 \in {0, 1, 2, 3, 6}

(* A line's word has function codes that go with its opcode.                *)
LEMMA ToldByLine ==
  ASSUME NEW i, NEW w, Identified(i, w), i.op \in Operations, i.op \notin ShiftOps
  PROVE Told(w)
<1> DEFINE op == i.op
<1> HIDE DEF op
<1>0. /\ OpcodeOf(op) \in {7, 39} => op \in {"flw", "fsw"}
      /\ OpcodeOf(op) = 3 => op \in LoadOps
      /\ OpcodeOf(op) = 35 => op \in StoreOps
      /\ OpcodeOf(op) = 19 => op \in ImmediateOps \cup ShiftOps
      /\ OpcodeOf(op) = 51 => op \in IntOps
      /\ OpcodeOf(op) = 83 => op \in Singles
      /\ OpcodeOf(op) = 115 => op = "csrrw"
      /\ OpcodeOf(op) = 11 => op \in CustomOps \cup {"macc"}
      /\ OpcodeOf(op) \in OpcodeValues
  <2>1. op \in Operations
    BY DEF op
  <2>2. QED BY <2>1, ByOpcode, SMT
<1>1. w.opcode = OpcodeOf(op) /\ w.opcode \in OpcodeValues /\ op \notin ShiftOps /\ i.op = op
  BY <1>0 DEF Identified, op
<1>2. w.opcode \in {7, 39} => w.funct3 = 2
  <2>1. w.opcode \in {7, 39} => i.op \in {"flw", "fsw"}
    BY <1>1, <1>0
  <2>2. i.op \in {"flw", "fsw"} => w.funct3 = Funct3(i.op) /\ Funct3(i.op) = 2
    BY Functions3, SMT DEF Identified, LoadOps, StoreOps
  <2>3. QED BY <2>1, <2>2
<1>3. w.opcode = 3 => w.funct3 \in {0, 1, 2, 4, 5}
  <2>1. w.opcode = 3 => i.op \in LoadOps
    BY <1>1, <1>0
  <2>2. i.op \in LoadOps => Funct3(i.op) \in {0, 1, 2, 4, 5}
    BY Functions3, SMT DEF LoadOps
  <2>3. QED BY <2>1, <2>2 DEF Identified
<1>4. w.opcode = 35 => w.funct3 \in {0, 1, 2}
  <2>1. w.opcode = 35 => i.op \in StoreOps
    BY <1>1, <1>0
  <2>2. i.op \in StoreOps => Funct3(i.op) \in {0, 1, 2}
    BY Functions3, SMT DEF StoreOps
  <2>3. QED BY <2>1, <2>2 DEF Identified
<1>5. w.opcode = 19 => w.funct3 \in {0, 2, 3, 4, 6, 7}
  <2>1. w.opcode = 19 => i.op \in ImmediateOps
    BY <1>1, <1>0
  <2>2. i.op \in ImmediateOps => Funct3(i.op) \in {0, 2, 3, 4, 6, 7}
    BY Functions3, SMT DEF ImmediateOps
  <2>3. QED BY <2>1, <2>2 DEF Identified
<1>6. w.opcode = 51 => \/ w.funct7 = 0
                       \/ w.funct7 = 1 /\ w.funct3 = 0
                       \/ w.funct7 = 32 /\ w.funct3 \in {0, 5}
  <2>1. w.opcode = 51 => i.op \in IntOps
    BY <1>1, <1>0
  <2>2. i.op \in IntOps => \/ Funct7(i.op) = 0
                           \/ Funct7(i.op) = 1 /\ Funct3(i.op) = 0
                           \/ Funct7(i.op) = 32 /\ Funct3(i.op) \in {0, 5}
    BY Functions3, Functions7, SMT DEF IntOps
  <2>3. QED BY <2>1, <2>2 DEF Identified
<1>7. w.opcode = 83 => /\ w.funct7 \in {0, 4, 8, 16, 80, 104, 120}
                       /\ w.funct7 = 16 => w.funct3 \in {0, 1}
                       /\ w.funct7 = 80 => w.funct3 \in {0, 1, 2}
                       /\ w.funct7 \in {104, 120} => w.rs2 = 0
  <2>1. w.opcode = 83 => i.op \in Singles
    BY <1>1, <1>0
  <2>2. i.op \in Singles => /\ Funct7(i.op) \in {0, 4, 8, 16, 80, 104, 120}
                            /\ Funct7(i.op) = 16 => Funct3(i.op) \in {0, 1}
                            /\ Funct7(i.op) = 80 => Funct3(i.op) \in {0, 1, 2}
                            /\ Funct7(i.op) \in {104, 120} => i.op \in MoveOps
    BY Functions3, Functions7, SMT DEF Singles, FloatOps, CompareOps, MoveOps
  <2>3. i.op \in Singles => w.funct7 = Funct7(i.op) /\ w.funct3 = Funct3(i.op)
    BY DEF Identified
  <2>4. i.op \in MoveOps => w.rs2 = 0
    BY DEF Identified
  <2>5. QED BY <2>1, <2>2, <2>3, <2>4
<1>8. w.opcode = 115 => w.funct3 = 1
  <2>1. w.opcode = 115 => i.op = "csrrw"
    BY <1>1, <1>0
  <2>2. QED BY <2>1 DEF Identified
<1>9. w.opcode = 11 => w.rd % 16 \in {0, 1, 2, 3, 6}
  <2>1. w.opcode = 11 => i.op \in CustomOps \cup {"macc"}
    BY <1>1, <1>0
  <2>2. i.op \in CustomOps \cup {"macc"} => w.rd \in {0, 1, 2, 3, 6}
    BY ToldApart DEF Identified
  <2>3. \A n \in {0, 1, 2, 3, 6} : n % 16 = n
    BY SMT
  <2>4. QED BY <2>1, <2>2, <2>3
<1>10. QED BY <1>1, <1>2, <1>3, <1>4, <1>5, <1>6, <1>7, <1>8, <1>9 DEF Told

(* No other instruction of the table claims such a word.                    *)
LEMMA ClaimedByNone == ASSUME NEW w, Told(w) PROVE \A pattern \in Others : ~Claims(pattern, w)
<1>1. ASSUME Claims(Atomics, w) PROVE FALSE
  <2>1. w.opcode \in {47}
    BY <1>1, ClaimedOpcode DEF Atomics
  <2>2. QED BY <2>1, SMT DEF Told, OpcodeValues
<1>2. ASSUME Claims(Fences, w) PROVE FALSE
  <2>1. w.opcode \in {15}
    BY <1>2, ClaimedOpcode DEF Fences
  <2>2. QED BY <2>1, SMT DEF Told, OpcodeValues
<1>3. ASSUME Claims(Words, w) PROVE FALSE
  <2>1. w.opcode \in {27, 59}
    BY <1>3, ClaimedOpcode DEF Words
  <2>2. QED BY <2>1, SMT DEF Told, OpcodeValues
<1>4. ASSUME Claims(FusedMultiplications, w) PROVE FALSE
  <2>1. w.opcode \in {67, 71, 75, 79}
    BY <1>4, ClaimedOpcode DEF FusedMultiplications
  <2>2. QED BY <2>1, SMT DEF Told, OpcodeValues
<1>5. ASSUME Claims(VectorCryptography, w) PROVE FALSE
  <2>1. w.opcode \in {119}
    BY <1>5, ClaimedOpcode DEF VectorCryptography
  <2>2. QED BY <2>1, SMT DEF Told, OpcodeValues
<1>6. ASSUME Claims(Compressed, w) PROVE FALSE
  <2>1. w.opcode \in {n \in 0 .. 127 : n % 4 # 3}
    BY <1>6, ClaimedOpcode DEF Compressed
  <2>2. QED
    <3>1. \A c \in OpcodeValues : c % 4 = 3
      BY SMT DEF OpcodeValues
    <3>2. QED BY <2>1, <3>1 DEF Told
<1>7. ASSUME Claims(OtherLoads, w) PROVE FALSE
  <2>1. w.opcode \in {3} /\ w.funct3 \in {3, 6}
    BY <1>7, ClaimedFunct3 DEF OtherLoads
  <2>2. QED BY <2>1, SMT DEF Told, OpcodeValues
<1>8. ASSUME Claims(OtherStores, w) PROVE FALSE
  <2>1. w.opcode \in {35} /\ w.funct3 \in {3}
    BY <1>8, ClaimedFunct3 DEF OtherStores
  <2>2. QED BY <2>1, SMT DEF Told, OpcodeValues
<1>9. ASSUME Claims(OtherFloatMemory, w) PROVE FALSE
  <2>1. w.opcode \in {7, 39} /\ w.funct3 \in {1, 3, 4}
    BY <1>9, ClaimedFunct3 DEF OtherFloatMemory
  <2>2. QED BY <2>1, SMT DEF Told, OpcodeValues
<1>10. ASSUME Claims(VectorLoads, w) PROVE FALSE
  <2>1. w.opcode \in {7} /\ w.funct3 \in {0, 5, 6, 7}
    BY <1>10, ClaimedFunct3 DEF VectorLoads
  <2>2. QED BY <2>1, SMT DEF Told, OpcodeValues
<1>11. ASSUME Claims(VectorStores, w) PROVE FALSE
  <2>1. w.opcode \in {39} /\ w.funct3 \in {0, 5, 6, 7}
    BY <1>11, ClaimedFunct3 DEF VectorStores
  <2>2. QED BY <2>1, SMT DEF Told, OpcodeValues
<1>12. ASSUME Claims(VectorFloats, w) PROVE FALSE
  <2>1. w.opcode \in {87} /\ w.funct3 \in {1, 5}
    BY <1>12, ClaimedFunct3 DEF VectorFloats
  <2>2. QED BY <2>1, SMT DEF Told, OpcodeValues
<1>13. ASSUME Claims(VectorIntegers, w) PROVE FALSE
  <2>1. w.opcode \in {87} /\ w.funct3 \in {0, 2, 3, 4, 6}
    BY <1>13, ClaimedFunct3 DEF VectorIntegers
  <2>2. QED BY <2>1, SMT DEF Told, OpcodeValues
<1>14. ASSUME Claims(VectorConfiguration, w) PROVE FALSE
  <2>1. w.opcode \in {87} /\ w.funct3 \in {7}
    BY <1>14, ClaimedFunct3 DEF VectorConfiguration
  <2>2. QED BY <2>1, SMT DEF Told, OpcodeValues
<1>15. ASSUME Claims(Environment, w) PROVE FALSE
  <2>1. w.opcode \in {115} /\ w.funct3 \in {0}
    BY <1>15, ClaimedFunct3 DEF Environment
  <2>2. QED BY <2>1, SMT DEF Told, OpcodeValues
<1>16. ASSUME Claims(OtherCsrs, w) PROVE FALSE
  <2>1. w.opcode \in {115} /\ w.funct3 \in {2, 3, 5, 6, 7}
    BY <1>16, ClaimedFunct3 DEF OtherCsrs
  <2>2. QED BY <2>1, SMT DEF Told, OpcodeValues
<1>17. ASSUME Claims(BitsAndCryptography, w) PROVE FALSE
  <2>1. w.opcode \in {51} /\ w.funct7 \in (0 .. 127) \ {0, 1, 32}
    BY <1>17, ClaimedFunct7 DEF BitsAndCryptography
  <2>2. QED BY <2>1, SMT DEF Told, OpcodeValues
<1>18. ASSUME Claims(OtherFormats, w) PROVE FALSE
  <2>1. w.opcode \in {83} /\ w.funct7 \in {n \in 0 .. 127 : n % 4 # 0}
    BY <1>18, ClaimedFunct7 DEF OtherFormats
  <2>2. QED
    <3>1. \A n \in {0, 4, 8, 16, 80, 104, 120} : n % 4 = 0
      BY SMT
    <3>2. QED BY <2>1, <3>1 DEF Told
<1>19. ASSUME Claims(OtherSingles, w) PROVE FALSE
  <2>1. w.opcode \in {83} /\ w.funct7 \in {12, 20, 32, 44, 96, 112}
    BY <1>19, ClaimedFunct7 DEF OtherSingles
  <2>2. QED BY <2>1, SMT DEF Told, OpcodeValues
<1>20. ASSUME Claims(OtherAdded, w) PROVE FALSE
  <2>1. w.opcode \in {11} /\ w.rd % 16 \in {4, 5, 7}
    BY <1>20, ClaimedRd4 DEF OtherAdded
  <2>2. QED BY <2>1, SMT DEF Told, OpcodeValues
<1>21. ASSUME Claims(ShiftsAndBits, w) PROVE FALSE
  <2>1. w.opcode \in {19} /\ w.funct3 \in {1, 5} /\ w.funct7 \in (0 .. 127) \ {0, 1, 32, 33}
    BY <1>21, ClaimedBoth DEF ShiftsAndBits
  <2>2. QED BY <2>1, SMT DEF Told, OpcodeValues
<1>22. ASSUME Claims(MultiplyDivide, w) PROVE FALSE
  <2>1. w.opcode \in {51} /\ w.funct3 \in 1 .. 7 /\ w.funct7 \in {1}
    BY <1>22, ClaimedBoth DEF MultiplyDivide
  <2>2. QED BY <2>1, SMT DEF Told, OpcodeValues
<1>23. ASSUME Claims(Negated, w) PROVE FALSE
  <2>1. w.opcode \in {51} /\ w.funct3 \in {4, 6, 7} /\ w.funct7 \in {32}
    BY <1>23, ClaimedBoth DEF Negated
  <2>2. QED BY <2>1, SMT DEF Told, OpcodeValues
<1>24. ASSUME Claims(OtherSigns, w) PROVE FALSE
  <2>1. w.opcode \in {83} /\ w.funct3 \in {2} /\ w.funct7 \in {16}
    BY <1>24, ClaimedBoth DEF OtherSigns
  <2>2. QED BY <2>1, SMT DEF Told, OpcodeValues
<1>25. ASSUME Claims(QuietComparisons, w) PROVE FALSE
  <2>1. w.opcode \in {83} /\ w.funct3 \in {4, 5} /\ w.funct7 \in {80}
    BY <1>25, ClaimedBoth DEF QuietComparisons
  <2>2. QED BY <2>1, SMT DEF Told, OpcodeValues
<1>26. ASSUME Claims(Hypervisor, w) PROVE FALSE
  <2>1. w.opcode \in {115} /\ w.funct3 \in {4} /\ w.funct7 \in 48 .. 55
    BY <1>26, ClaimedBoth DEF Hypervisor
  <2>2. QED BY <2>1, SMT DEF Told, OpcodeValues
<1>27. ASSUME Claims(MayBeOperations, w) PROVE FALSE
  <2>1. w.opcode \in {115} /\ w.funct3 \in {4} /\ w.funct7 \in 64 .. 127
    BY <1>27, ClaimedBoth DEF MayBeOperations
  <2>2. QED BY <2>1, SMT DEF Told, OpcodeValues
<1>28. ASSUME Claims(OtherConversions, w) PROVE FALSE
  <2>1. w.opcode \in {83} /\ w.funct7 \in {104, 120} /\ w.rs2 \in {1, 2, 3}
    BY <1>28, ClaimedRs2 DEF OtherConversions
  <2>2. QED BY <2>1, SMT DEF Told, OpcodeValues
<1>29. QED
  BY <1>1, <1>2, <1>3, <1>4, <1>5, <1>6, <1>7, <1>8, <1>9, <1>10, <1>11, <1>12, <1>13, <1>14,
     <1>15, <1>16, <1>17, <1>18, <1>19, <1>20, <1>21, <1>22, <1>23, <1>24, <1>25, <1>26,
     <1>27, <1>28 DEF Others

(* Register zero is asked for by its own number only.                       *)
LEMMA ZeroRegister == \A t \in Int : RegisterIn(IntCodes, t) = 0 => t = -1
<1> SUFFICES ASSUME NEW t \in Int, RegisterIn(IntCodes, t) = 0 PROVE t = -1
  OBVIOUS
<1>1. \A c \in Colours : IntCodes[c + 1] # 0
  BY SMT DEF Colours, IntCodes
<1>2. t \in Fixed
  BY <1>1, SMT DEF RegisterIn
<1>3. -1 - t = 0
  BY <1>2, SMT DEF RegisterIn
<1>4. QED BY <1>3, SMT

(* What a colour's result goes to is saved by the callee.                   *)
LEMMA ColoursAreSaved ==
  \A c \in Colours : /\ RegisterIn(IntCodes, c) = IntCodes[c + 1] /\ -1 - IntCodes[c + 1] \in SavedInt
                     /\ RegisterIn(FloatCodes, c) = FloatCodes[c + 1]
                     /\ -1 - FloatCodes[c + 1] \in SavedFloat
<1>1. \A c \in Colours : c \notin Fixed
  BY SMT DEF Colours, Fixed
<1>2. \A c \in Colours : -1 - IntCodes[c + 1] \in SavedInt
  BY SMT DEF Colours, IntCodes, SavedInt
<1>3. \A c \in Colours : -1 - FloatCodes[c + 1] \in SavedFloat
  BY SMT DEF Colours, FloatCodes, SavedFloat
<1>4. QED BY <1>1, <1>2, <1>3 DEF RegisterIn

(* MeantInstruction and ResultsArePreserved, of one line and its word.      *)
MeantBy(i, w) ==
  IF i.op \in ShiftOps THEN Recognised(w) = {} /\ InsnLength(w) = 2
  ELSE /\ Recognised(w) = {i.op} /\ InsnLength(w) = 4
       /\ \A pattern \in Others : ~Claims(pattern, w)
       /\ Claims(LandingPad, w) \/ Claims(Prefetch, w) => i.op \in {"auipc", "ori"} /\ i.rd \in {-1}
       /\ \A f \in Names(i.op) : w[f] = RegisterOf(f, i)
PreservedBy(i, w) ==
  ("rd" \in Names(i.op) /\ i.op \notin ShiftOps /\ i.rd \in Colours) =>
    -1 - w.rd \in (IF "rd" \in FloatFields(i.op) THEN SavedFloat ELSE SavedInt)

(* A line that is a hint to another machine is AUIPC or ORI to zero.        *)
LEMMA Hinted ==
  ASSUME NEW i, NEW w, Shaped(i), Identified(i, w), i.op \in Operations, i.op \notin ShiftOps,
         Claims(LandingPad, w) \/ Claims(Prefetch, w)
  PROVE i.op \in {"auipc", "ori"} /\ i.rd \in {-1}
<1>1. w.opcode = OpcodeOf(i.op)
  BY DEF Identified
<1>2. \/ w.opcode = 23 /\ w.rd = 0
      \/ w.opcode = 19 /\ w.funct3 = 6 /\ w.rd = 0
  <2>1. CASE Claims(LandingPad, w)
    BY <2>1, ClaimedRd DEF LandingPad
  <2>2. CASE Claims(Prefetch, w)
    BY <2>2, ClaimedPrefetch DEF Prefetch
  <2>3. QED BY <2>1, <2>2
<1>3. i.op \in {"auipc", "ori"}
  <2>1. CASE w.opcode = 23
    BY <1>1, <2>1, ByOpcode
  <2>2. CASE w.opcode = 19 /\ w.funct3 = 6
    <3>1. i.op \in ImmediateOps
      BY <1>1, <2>2, ByOpcode
    <3>2. Funct3(i.op) = 6
      BY <2>2, <3>1 DEF Identified
    <3>3. Funct3("ori") = 6 /\ "ori" \in ImmediateOps
      BY Functions3 DEF ImmediateOps
    <3>4. QED BY <3>1, <3>2, <3>3, ToldApart
  <2>3. QED BY <1>2, <2>1, <2>2
<1>4. Names(i.op) \subseteq {"rd", "rs1", "rs2"} /\ "rd" \in Names(i.op)
      /\ "rd" \notin FloatFields(i.op)
  <2>1. i.op \in UpperOps \/ i.op \in ImmediateOps
    BY <1>3 DEF UpperOps, ImmediateOps
  <2>2. "rd" \notin FloatFields(i.op)
    BY <1>3, SMT DEF FloatFields, FloatOps, CompareOps, MoveOps
  <2>3. QED BY <2>1, <2>2, NamesOf
<1>5. w["rd"] = Field(i, "rd") /\ w["rd"] = 0
  BY <1>2, <1>4 DEF Identified
<1>6. RegisterIn(IntCodes, i.rd) = 0 /\ i.rd \in Int
  <2>1. Field(i, "rd") = RegisterOf("rd", i) /\ RegisterOf("rd", i) = RegisterIn(IntCodes, i["rd"])
    BY <1>4, FieldIsRegister
  <2>2. QED BY <1>5, <2>1 DEF Shaped
<1>7. QED BY <1>3, <1>6, ZeroRegister

(* The instruction of a line is what the machine sees.                      *)
LEMMA LineMeant ==
  ASSUME NEW line, Shaped(Pseudo(line)), Pseudo(line).op # "neg"
  PROVE MeantBy(Pseudo(line), AsmToBinary(line)) /\ PreservedBy(Pseudo(line), AsmToBinary(line))
<1>1. PICK i : i = Pseudo(line)
  OBVIOUS
<1>2. PICK w : w = AsmToBinary(line)
  OBVIOUS
<1>3. Shaped(i) /\ i.op \in Operations /\ Identified(i, w)
  BY <1>1, <1>2, LineIdentified DEF Shaped
<1>4. \A f \in Names(i.op) : i.op \notin ShiftOps => w[f] = RegisterOf(f, i)
  <2>1. ASSUME NEW f \in Names(i.op), i.op \notin ShiftOps PROVE w[f] = RegisterOf(f, i)
    <3>1. f \in {"rd", "rs1", "rs2"}
      BY NamesOf
    <3>2. w[f] = Field(i, f)
      BY <1>3, <2>1 DEF Identified
    <3>3. QED BY <1>3, <2>1, <3>1, <3>2, FieldIsRegister
  <2>2. QED BY <2>1
<1>5. MeantBy(i, w)
  <2>1. CASE i.op \in ShiftOps
    BY <1>3, <2>1, RecognisedAsMeant DEF MeantBy
  <2>2. CASE i.op \notin ShiftOps
    <3>1. Recognised(w) = {i.op} /\ InsnLength(w) = 4
      BY <1>3, <2>2, RecognisedAsMeant
    <3>2. \A pattern \in Others : ~Claims(pattern, w)
      BY <1>3, <2>2, ToldByLine, ClaimedByNone
    <3>3. Claims(LandingPad, w) \/ Claims(Prefetch, w) => i.op \in {"auipc", "ori"} /\ i.rd \in {-1}
      BY <1>3, <2>2, Hinted
    <3>4. QED BY <1>4, <2>2, <3>1, <3>2, <3>3 DEF MeantBy
  <2>3. QED BY <2>1, <2>2
<1>6. PreservedBy(i, w)
  <2> SUFFICES ASSUME "rd" \in Names(i.op), i.op \notin ShiftOps, i.rd \in Colours
               PROVE -1 - w.rd \in (IF "rd" \in FloatFields(i.op) THEN SavedFloat ELSE SavedInt)
    BY DEF PreservedBy
  <2>1. w.rd = RegisterOf("rd", i)
    BY <1>4
  <2>2. RegisterOf("rd", i)
          = RegisterIn(IF "rd" \in FloatFields(i.op) THEN FloatCodes ELSE IntCodes, i["rd"])
    BY <1>3, FieldIsRegister
  <2>3. QED BY <2>1, <2>2, ColoursAreSaved
<1>7. QED BY <1>1, <1>2, <1>5, <1>6

(* The machine sees the instruction that was written and no other, with the *)
(* registers that were meant, for every line of the translator and of asm   *)
(* statements and every immediate; a shift, whose fields line 233 of        *)
(* binary.c misplaces, it takes for a compressed one. What is written for a *)
(* colour is written to a register every function saves.                    *)
THEOREM MeantInstructionSeen == Spec => []InstructionMeant
<1>1. Stages => InstructionMeant
  <2> SUFFICES ASSUME Stages, Assembled PROVE InstructionMeant
    BY DEF InstructionMeant, MeantInstruction, ResultsArePreserved
  <2>1. PICK insn \in Lines :
          /\ source = [kind |-> "line", insn |-> insn]
          /\ \E w : words = <<w>> /\ (insn.op # "neg" => w = AsmToBinary(insn))
    BY DEF Stages, Assembled, LineStage, IntStage, FloatStage
  <2>2. Meant = Pseudo(insn) /\ Shaped(Meant)
    BY <2>1, LineShape DEF Meant
  <2>3. CASE Meant.op # "neg"
    <3>1. insn.op # "neg"
      BY <2>2, <2>3, SMT DEF Pseudo
    <3>2. W = AsmToBinary(insn)
      BY <2>1, <3>1 DEF W
    <3>3. MeantBy(Meant, W) /\ PreservedBy(Meant, W)
      BY <2>2, <2>3, <3>2, LineMeant
    <3>4. QED
      BY <3>3 DEF InstructionMeant, MeantInstruction, ResultsArePreserved, MeantBy, PreservedBy
  <2>4. CASE Meant.op = "neg"
    <3>1. Names(Meant.op) = {}
      BY <2>4, NamesOf
    <3>2. QED BY <2>4, <3>1 DEF InstructionMeant, MeantInstruction, ResultsArePreserved
  <2>5. QED BY <2>3, <2>4
<1>2. QED BY <1>1, InitStages, StagesKept, PTL DEF Spec

-----------------------------------------------------------------------------
(* The encoders of opcodes.h.                                               *)

(* Numbers with the same low bits are cut into the same fields.             *)
LEMMA SameCut12 ==
  ASSUME NEW m \in Int, NEW n \in Int, (m % 4096) = (n % 4096)
  PROVE Bits(m, 11, 5) = Bits(n, 11, 5) /\ Bits(m, 4, 0) = Bits(n, 4, 0)
  BY Powers, SMT DEF Bits
LEMMA SameCut20 ==
  ASSUME NEW m \in Int, NEW n \in Int, (m % 1048576) = (n % 1048576)
  PROVE /\ Bits(m, 19, 13) = Bits(n, 19, 13) /\ Bits(m, 12, 8) = Bits(n, 12, 8)
        /\ Bits(m, 7, 3) = Bits(n, 7, 3) /\ Bits(m, 2, 0) = Bits(n, 2, 0)
<1>1. Bits(m, 19, 13) = Bits(n, 19, 13) /\ Bits(m, 12, 8) = Bits(n, 12, 8)
  BY Powers, SMT DEF Bits
<1>2. Bits(m, 7, 3) = Bits(n, 7, 3) /\ Bits(m, 2, 0) = Bits(n, 2, 0)
  BY Powers, SMT DEF Bits
<1>3. QED BY <1>1, <1>2, SMT
LEMMA SameCut21 ==
  ASSUME NEW m \in Int, NEW n \in Int, (m % 2097152) = (n % 2097152)
  PROVE /\ Bits(m, 20, 20) = Bits(n, 20, 20) /\ Bits(m, 10, 5) = Bits(n, 10, 5)
        /\ Bits(m, 4, 1) = Bits(n, 4, 1) /\ Bits(m, 11, 11) = Bits(n, 11, 11)
        /\ Bits(m, 19, 15) = Bits(n, 19, 15) /\ Bits(m, 14, 12) = Bits(n, 14, 12)
<1>1. Bits(m, 20, 20) = Bits(n, 20, 20)
  BY Powers, SMTT(30) DEF Bits
<1>2. Bits(m, 10, 5) = Bits(n, 10, 5)
  BY Powers, SMTT(30) DEF Bits
<1>3. Bits(m, 4, 1) = Bits(n, 4, 1)
  BY Powers, SMTT(30) DEF Bits
<1>4. Bits(m, 11, 11) = Bits(n, 11, 11)
  BY Powers, SMTT(30) DEF Bits
<1>5. Bits(m, 19, 15) = Bits(n, 19, 15)
  BY Powers, SMTT(30) DEF Bits
<1>6. Bits(m, 14, 12) = Bits(n, 14, 12)
  BY Powers, SMTT(30) DEF Bits
<1>7. QED BY <1>1, <1>2, <1>3, <1>4, <1>5, <1>6, SMT

(* An added instruction's immediate, at its place in the two files.         *)
LEMMA TwoPlaces ==
  ASSUME NEW n \in Int
  PROVE (/\ Bits(n, 19, 13) = Bits(n, 7, 5) /\ Bits(n, 12, 8) = Bits(n, 4, 0)
         /\ Bits(n, 7, 3) = 0 /\ Bits(n, 2, 0) = 0)
        <=> (n % 1048576) = 0
<1>1. (n % 1048576) = 0 => /\ Bits(n, 19, 13) = Bits(n, 7, 5) /\ Bits(n, 12, 8) = Bits(n, 4, 0)
                           /\ Bits(n, 7, 3) = 0 /\ Bits(n, 2, 0) = 0
  BY Powers, SMT DEF Bits
<1>2. ASSUME Bits(n, 19, 13) = Bits(n, 7, 5), Bits(n, 12, 8) = Bits(n, 4, 0),
             Bits(n, 7, 3) = 0, Bits(n, 2, 0) = 0
      PROVE (n % 1048576) = 0
  <2>1. (n % 8) = 0 /\ ((n \div 8) % 32) = 0
    BY <1>2, Powers, SMT DEF Bits
  <2>2. Bits(n, 7, 5) = 0 /\ Bits(n, 4, 0) = 0
    BY <2>1, Powers, SMT DEF Bits
  <2>3. ((n \div 8192) % 128) = 0 /\ ((n \div 256) % 32) = 0
    BY <1>2, <2>2, Powers, SMT DEF Bits
  <2>4. QED BY <2>1, <2>3, SMT
<1>3. QED BY <1>1, <1>2, SMT

(* Words are equal field by field.                                          *)
LEMMA SameWord ==
  \A a, b, c, d, e, f, a2, b2, c2, d2, e2, f2 :
    Word(a, b, c, d, e, f) = Word(a2, b2, c2, d2, e2, f2)
      <=> a = a2 /\ b = b2 /\ c = c2 /\ d = d2 /\ e = e2 /\ f = f2
  BY SMT DEF Word

(* EncodersAgree, of one line and its word.                                 *)
AgreesBy(i, w) ==
  /\ i.op \in Shared => (w = EncoderOf(i) <=> (i.op \in CustomOps => i.imm % 2^20 = 0))
  /\ (i.op = "csrrw" /\ i.rd = -1) => w = EncoderOf(i)

(* When the two agree, by the shape of the line.                            *)
LEMMA AgreedAlways ==
  ASSUME NEW i, NEW w, i.op # "csrrw", i.op \notin CustomOps, w = EncoderOf(i) PROVE AgreesBy(i, w)
  BY DEF AgreesBy
LEMMA AgreedSometimes ==
  ASSUME NEW i, NEW w, i.op # "csrrw", i.op \in CustomOps,
         w = EncoderOf(i) <=> (i.imm % 1048576) = 0
  PROVE AgreesBy(i, w)
<1>1. 2^20 = 1048576
  BY Powers, SMT
<1>2. QED BY <1>1, SMT DEF AgreesBy

(* The two make the same word of a line.                                    *)
LEMMA LineAgrees ==
  ASSUME NEW line, Shaped(Pseudo(line))
  PROVE AgreesBy(Pseudo(line), AsmToBinary(line))
<1>1. PICK i : i = Pseudo(line)
  OBVIOUS
<1>2. PICK w : w = AsmToBinary(line)
  OBVIOUS
<1>3. Shaped(i) /\ i.imm \in Int
  BY <1>1 DEF Shaped
<1>4. \A f \in {"rd", "rs1", "rs2"} : f \in Names(i.op) => Field(i, f) = RegisterOf(f, i)
  BY <1>3, FieldIsRegister
<1>5. PICK m \in Int : m = Immediate(i)
  BY <1>3, ImmediateInt
<1>6. CASE i.op = "jal"
  <2>1. w = JalWord(m, Field(i, "rd")) /\ m = SignedBin(i.imm, 30)
    BY <1>1, <1>2, <1>3, <1>5, <1>6, PackedFields, Digits
  <2>2. EncoderOf(i) = EncoderJal(RegisterOf("rd", i), i.imm)
    BY <1>6, SMT DEF EncoderOf
  <2>3. (m % 2097152) = (i.imm % 2097152)
    BY <1>3, <2>1, Digits30, SMT
  <2>4. JalWord(m, Field(i, "rd")) = EncoderJal(Field(i, "rd"), i.imm)
    BY <1>3, <2>3, SameCut21, SMT DEF JalWord, EncoderJal
  <2>5. RegisterOf("rd", i) = Field(i, "rd")
    BY <1>4, <1>6, NamesOf
  <2>6. i.op \notin CustomOps /\ i.op # "csrrw"
    BY <1>6, Distinct, SMT
  <2>7. QED BY <1>1, <1>2, <2>1, <2>2, <2>4, <2>5, <2>6 DEF AgreesBy
<1>7. CASE i.op \in {"sw", "sh", "sb", "fsw"}
  <2>1. i.op \in StoreOps /\ i.op \notin CustomOps /\ i.op # "csrrw"
    BY <1>7, SMT DEF StoreOps, CustomOps
  <2>2. w = StoreWord(m, Field(i, "rs2"), Field(i, "rs1"), Funct3(i.op), OpcodeOf(i.op))
    BY <1>1, <1>2, <1>5, <2>1, PackedFields
  <2>3. m = SignedBin(i.imm, 12) \/ m = SignedBin(i.imm, 16)
    BY <1>3, <1>5, <2>1, Digits
  <2>4. (m % 4096) = (i.imm % 4096)
    <3>1. CASE m = SignedBin(i.imm, 12)
      BY <1>3, <3>1, Digits12, SMT
    <3>2. CASE m = SignedBin(i.imm, 16)
      BY <1>3, <3>2, Digits16, SMT
    <3>3. QED BY <2>3, <3>1, <3>2, SMT
  <2>5. Match(i.op).opcode = OpcodeOf(i.op) /\ Match(i.op).funct3 = Funct3(i.op)
    BY <2>1, Rows, SameCodes
  <2>6. EncoderOf(i) = EncoderStore(i.op, RegisterOf("rs2", i), RegisterOf("rs1", i), i.imm)
    BY <1>7, SMT DEF EncoderOf
  <2>7. RegisterOf("rs2", i) = Field(i, "rs2") /\ RegisterOf("rs1", i) = Field(i, "rs1")
    BY <1>4, <2>1, NamesOf
  <2>8. Bits(m, 11, 5) = Bits(i.imm, 11, 5) /\ Bits(m, 4, 0) = Bits(i.imm, 4, 0)
    BY <1>3, <2>4, SameCut12, SMT
  <2>9. w = EncoderOf(i)
    BY <2>2, <2>5, <2>6, <2>7, <2>8 DEF StoreWord, EncoderStore
  <2>10. QED BY <1>1, <1>2, <2>1, <2>9, AgreedAlways
<1>8. CASE i.op \in {"lw", "lh", "lb", "flw", "addi", "xori"}
  <2>1. i.op \in LoadOps \cup ImmediateOps /\ i.op \notin CustomOps /\ i.op # "csrrw"
    BY <1>8, SMT DEF LoadOps, ImmediateOps, CustomOps
  <2>2. w = LoadWord(m, Field(i, "rs1"), Funct3(i.op), Field(i, "rd"), OpcodeOf(i.op))
    BY <1>1, <1>2, <1>5, <2>1, PackedFields
  <2>3. m = SignedBin(i.imm, 12)
    BY <1>3, <1>5, <2>1, Digits
  <2>4. (m % 4096) = (i.imm % 4096)
    BY <1>3, <2>3, Digits12, SMT
  <2>5. Match(i.op).opcode = OpcodeOf(i.op) /\ Match(i.op).funct3 = Funct3(i.op)
    <3>1. CASE i.op \in LoadOps
      BY <3>1, Rows, SameCodes
    <3>2. CASE i.op \in ImmediateOps
      BY <3>2, Rows, SameCodes, Opcodes
    <3>3. QED BY <2>1, <3>1, <3>2
  <2>6. EncoderOf(i) = EncoderLoad(i.op, RegisterOf("rd", i), RegisterOf("rs1", i), i.imm)
    BY <1>8, SMT DEF EncoderOf, EncoderImmediate
  <2>7. RegisterOf("rd", i) = Field(i, "rd") /\ RegisterOf("rs1", i) = Field(i, "rs1")
    BY <1>4, <2>1, NamesOf
  <2>8. Bits(m, 11, 5) = Bits(i.imm, 11, 5) /\ Bits(m, 4, 0) = Bits(i.imm, 4, 0)
    BY <1>3, <2>4, SameCut12, SMT
  <2>9. w = EncoderOf(i)
    BY <2>2, <2>5, <2>6, <2>7, <2>8 DEF LoadWord, EncoderLoad
  <2>10. QED BY <1>1, <1>2, <2>1, <2>9, AgreedAlways
<1>9. CASE i.op = "lui"
  <2>1. i.op \in UpperOps /\ i.op \notin CustomOps /\ i.op # "csrrw"
    BY <1>9, Distinct, SMT
  <2>2. w = Upper20(m, Field(i, "rd"), 55)
    BY <1>1, <1>2, <1>5, <1>9, <2>1, PackedFields, Opcodes
  <2>3. m = SignedBin(i.imm, 20)
    BY <1>3, <1>5, <1>9, Digits
  <2>4. (m % 1048576) = (i.imm % 1048576)
    BY <1>3, <2>3, Digits20, SMT
  <2>5. EncoderOf(i) = EncoderLui(RegisterOf("rd", i), i.imm)
    BY <1>9, SMT DEF EncoderOf
  <2>6. RegisterOf("rd", i) = Field(i, "rd")
    BY <1>4, <2>1, NamesOf
  <2>7. Upper20(m, Field(i, "rd"), 55) = EncoderLui(Field(i, "rd"), i.imm)
    BY <1>3, <2>4, SameCut20, SMT DEF Upper20, EncoderLui
  <2>8. QED BY <1>1, <1>2, <2>1, <2>2, <2>5, <2>6, <2>7, AgreedAlways
<1>10. CASE i.op \in {"setpa", "setpb", "store"}
  <2>1. i.op \in CustomOps /\ i.op # "csrrw" /\ i.op \in Shared
    BY <1>10, SMT DEF CustomOps, Shared
  <2>2. w = Upper20(m, Funct3(i.op), 11)
    BY <1>1, <1>2, <1>5, <2>1, PackedFields, Opcodes
  <2>3. m = SignedBin(i.imm, 20)
    BY <1>3, <1>5, <2>1, Digits
  <2>4. (m % 1048576) = (i.imm % 1048576)
    BY <1>3, <2>3, Digits20, SMT
  <2>5. EncoderOf(i) = EncoderCustom(i.op, 0, 0, i.imm)
    BY <1>10, SMT DEF EncoderOf
  <2>6. Match(i.op).rd4 = Funct3(i.op) /\ 0 + Funct3(i.op) = Funct3(i.op)
    <3>1. Match(i.op).rd4 = Funct3(i.op)
      BY <2>1, Rows, SameCodes
    <3>2. Funct3(i.op) \in 0 .. 7
      BY Functions3
    <3>3. QED BY <3>1, <3>2, SMT
  <2>7. w = Word(Bits(i.imm, 19, 13), Bits(i.imm, 12, 8), Bits(i.imm, 7, 3), Bits(i.imm, 2, 0),
                 Funct3(i.op), 11)
    BY <1>3, <2>2, <2>4, SameCut20, SMT DEF Upper20
  <2>8. EncoderOf(i) = Word(Bits(i.imm, 7, 5), Bits(i.imm, 4, 0), 0, 0, Funct3(i.op), 11)
    BY <2>5, <2>6 DEF EncoderCustom
  <2>9. w = EncoderOf(i) <=> (i.imm % 1048576) = 0
    BY <1>3, <2>7, <2>8, SameWord, TwoPlaces, SMT
  <2>10. QED BY <1>1, <1>2, <2>1, <2>9, AgreedSometimes, SMT
<1>11. CASE i.op = "macc"
  <2>1. i.op \notin CustomOps /\ i.op # "csrrw" /\ i.imm = 0
    BY <1>3, <1>11, Distinct, SMT DEF Shaped, Fits
  <2>2. w = Upper20(0, 0, 11)
    BY <1>1, <1>2, <1>11, PackedFields, Opcodes
  <2>3. EncoderOf(i) = EncoderCustom("macc", 0, 0, 0)
    BY <1>11, <2>1, SMT DEF EncoderOf
  <2>4. Match("macc").rd4 = 0
    BY Rows, SameCodes
  <2>5. /\ Bits(0, 19, 13) = 0 /\ Bits(0, 12, 8) = 0 /\ Bits(0, 7, 3) = 0 /\ Bits(0, 2, 0) = 0
        /\ Bits(0, 7, 5) = 0 /\ Bits(0, 4, 0) = 0 /\ 0 + 0 = 0
    BY Powers, SMT DEF Bits
  <2>6. w = EncoderOf(i)
    BY <2>2, <2>3, <2>4, <2>5 DEF Upper20, EncoderCustom
  <2>7. QED BY <1>1, <1>2, <2>1, <2>6, AgreedAlways
<1>12. CASE i.op = "csrrw"
  <2> SUFFICES ASSUME i.rd = -1 PROVE w = EncoderOf(i)
    BY <1>1, <1>2, <1>12, SMT DEF AgreesBy, Shared
  <2>1. w = LoadWord(m, Field(i, "rs1"), 1, Field(i, "rd"), 115) /\ m = i.imm
    BY <1>1, <1>2, <1>3, <1>5, <1>12, PackedFields, Digits, Opcodes
  <2>2. EncoderOf(i) = EncoderCsrw(RegisterOf("rs1", i), i.imm)
    BY <1>12, SMT DEF EncoderOf
  <2>3. RegisterOf("rs1", i) = Field(i, "rs1") /\ Field(i, "rd") = RegisterOf("rd", i)
    BY <1>4, <1>12, NamesOf
  <2>4. RegisterOf("rd", i) = 0
    BY SMT DEF RegisterOf, Fixed
  <2>5. i.imm \in TwelveBits
    BY <1>3, <1>12 DEF Shaped, Fits
  <2>6. Bits(i.imm, 11, 5) = i.imm \div 32 /\ Bits(i.imm, 4, 0) = i.imm % 32
    <3>1. \A n \in TwelveBits : Bits(n, 11, 5) = n \div 32 /\ Bits(n, 4, 0) = n % 32
      BY Powers, SMT DEF Bits, TwelveBits
    <3>2. QED BY <2>5, <3>1
  <2>7. QED BY <2>1, <2>2, <2>3, <2>4, <2>6 DEF LoadWord, EncoderCsrw
<1>13. CASE i.op \notin Shared \cup {"csrrw"}
  BY <1>1, <1>2, <1>13 DEF AgreesBy
<1>14. QED
  BY <1>1, <1>2, <1>6, <1>7, <1>8, <1>9, <1>10, <1>11, <1>12, <1>13 DEF Shared

(* The compiler and the encoders of opcodes.h produce the same word, for    *)
(* every operand and immediate; those of the added instructions differ      *)
(* unless the twenty low bits of the immediate are zero.                    *)
THEOREM EncodersProduceTheSame == Spec => []EncodersAgree
<1>1. Stages => EncodersAgree
  <2> SUFFICES ASSUME Stages, Assembled PROVE EncodersAgree
    BY DEF EncodersAgree
  <2>1. PICK insn \in Lines :
          /\ source = [kind |-> "line", insn |-> insn]
          /\ \E w : words = <<w>> /\ (insn.op # "neg" => w = AsmToBinary(insn))
    BY DEF Stages, Assembled, LineStage, IntStage, FloatStage
  <2>2. Meant = Pseudo(insn) /\ Shaped(Meant)
    BY <2>1, LineShape DEF Meant
  <2>3. CASE insn.op # "neg"
    <3>1. W = AsmToBinary(insn)
      BY <2>1, <2>3 DEF W
    <3>2. AgreesBy(Meant, W)
      BY <2>2, <3>1, LineAgrees
    <3>3. QED BY <3>2 DEF EncodersAgree, AgreesBy
  <2>4. CASE insn.op = "neg"
    <3>1. Meant.op = "neg"
      BY <2>2, <2>4, SMT DEF Pseudo
    <3>2. QED BY <3>1, SMT DEF EncodersAgree, Shared
  <2>5. QED BY <2>3, <2>4
<1>2. QED BY <1>1, InitStages, StagesKept, PTL DEF Spec
=============================================================================

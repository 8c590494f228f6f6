------------------------------ MODULE Simulator ----------------------------
(* How the simulator takes a word apart: the table of instructions of       *)
(* spike-changes/riscv/encoding.h, the fields of decode.h and the encoders  *)
(* of opcodes.h. A word is its six fields: all formats cut it at the same   *)
(* places, so that a mask of whole fields is a set of fields, and a shift   *)
(* within an immediate a division.                                          *)
EXTENDS Integers

Fields == [funct7 : 0 .. 127, rs2 : 0 .. 31, rs1 : 0 .. 31, funct3 : 0 .. 7,
           rd : 0 .. 31, opcode : 0 .. 127]
Word(f7, r2, r1, f3, d, opc) ==
  [funct7 |-> f7, rs2 |-> r2, rs1 |-> r1, funct3 |-> f3, rd |-> d, opcode |-> opc]
Bits(v, hi, lo) == (v \div 2^lo) % 2^(hi + 1 - lo)

(* The instructions the compiler assembles, by the shape of their line.     *)
UpperOps == {"lui", "auipc"}
BranchOps == {"beq", "bne", "blt", "bge", "bltu", "bgeu"}
LoadOps == {"lb", "lh", "lw", "lbu", "lhu", "flw", "jalr"}
StoreOps == {"sb", "sh", "sw", "fsw"}
ImmediateOps == {"addi", "slti", "sltiu", "xori", "ori", "andi"}
ShiftOps == {"slli", "srli", "srai"}
IntOps == {"add", "sub", "sll", "slt", "sltu", "xor", "srl", "sra", "or", "and", "mul"}
FloatOps == {"fsgnj", "fadd", "fsub", "fmul", "fsgnjn"}
CompareOps == {"feq", "flt", "fle"}
MoveOps == {"fmv", "fcvt"}
CustomOps == {"setpa", "setpb", "setacc", "store"}

-----------------------------------------------------------------------------
(* MATCH and MASK of the compiler's instructions: the fields that identify  *)
(* one, of rd the low four bits for the added ones.                         *)
View(w) == [funct7 |-> w.funct7, rs2 |-> w.rs2, rs1 |-> w.rs1, funct3 |-> w.funct3,
            rd |-> w.rd, rd4 |-> w.rd % 16, opcode |-> w.opcode]
MatchCustom(op) ==
  [opcode |-> 11, rd4 |-> CASE op = "macc" -> 0 [] op = "setpa" -> 1 [] op = "setpb" -> 2
                            [] op = "store" -> 3 [] op = "setacc" -> 6]
MatchBranch(op) ==
  [opcode |-> 99, funct3 |-> CASE op = "beq" -> 0 [] op = "bge" -> 5 [] op = "bgeu" -> 7
                               [] op = "blt" -> 4 [] op = "bltu" -> 6 [] op = "bne" -> 1]
MatchMemory(op) ==
  [opcode |-> CASE op = "jalr" -> 103 [] op \in {"sb", "sh", "sw"} -> 35 [] op = "flw" -> 7
                [] op = "fsw" -> 39 [] OTHER -> 3,
   funct3 |-> CASE op \in {"lb", "sb", "jalr"} -> 0 [] op \in {"lbu"} -> 4
                [] op \in {"lh", "sh"} -> 1 [] op = "lhu" -> 5 [] OTHER -> 2]
MatchImmediate(op) ==
  [opcode |-> 19, funct3 |-> CASE op = "addi" -> 0 [] op = "slti" -> 2 [] op = "sltiu" -> 3
                               [] op = "xori" -> 4 [] op = "ori" -> 6 [] op = "andi" -> 7]
MatchInt(op) ==
  [opcode |-> 51,
   funct3 |-> CASE op \in {"add", "sub", "mul"} -> 0 [] op = "sll" -> 1 [] op = "slt" -> 2
                [] op = "sltu" -> 3 [] op = "xor" -> 4 [] op \in {"srl", "sra"} -> 5
                [] op = "or" -> 6 [] op = "and" -> 7,
   funct7 |-> CASE op \in {"sub", "sra"} -> 32 [] op = "mul" -> 1 [] OTHER -> 0]
MatchShift(op) == [opcode |-> 19, funct3 |-> IF op = "slli" THEN 1 ELSE 5,
                   funct7 |-> IF op = "srai" THEN 32 ELSE 0]
MatchFloat(op) ==
  LET f7(n) == [opcode |-> 83, funct7 |-> n]
      f3(n, k) == [opcode |-> 83, funct7 |-> n, funct3 |-> k]
  IN CASE op = "fadd" -> f7(0) [] op = "fsub" -> f7(4) [] op = "fmul" -> f7(8)
       [] op = "fsgnj" -> f3(16, 0) [] op = "fsgnjn" -> f3(16, 1)
       [] op = "fle" -> f3(80, 0) [] op = "flt" -> f3(80, 1) [] op = "feq" -> f3(80, 2)
       [] op = "fcvt" -> [opcode |-> 83, funct7 |-> 104, rs2 |-> 0]
       [] op = "fmv" -> [opcode |-> 83, funct7 |-> 120, funct3 |-> 0, rs2 |-> 0]
Match(op) ==
  CASE op \in CustomOps \cup {"macc"} -> MatchCustom(op) [] op \in BranchOps -> MatchBranch(op)
    [] op \in LoadOps \cup StoreOps -> MatchMemory(op) [] op \in ImmediateOps -> MatchImmediate(op)
    [] op \in IntOps -> MatchInt(op) [] op \in ShiftOps -> MatchShift(op)
    [] op \in FloatOps \cup CompareOps \cup MoveOps -> MatchFloat(op)
    [] op = "lui" -> [opcode |-> 55] [] op = "auipc" -> [opcode |-> 23]
    [] op = "jal" -> [opcode |-> 111] [] op = "csrrw" -> [opcode |-> 115, funct3 |-> 1]
Operations == UpperOps \cup BranchOps \cup LoadOps \cup StoreOps \cup ImmediateOps \cup ShiftOps
                \cup IntOps \cup FloatOps \cup CompareOps \cup MoveOps \cup CustomOps
                \cup {"jal", "csrrw", "macc"}
Recognised(w) == {op \in Operations : \A f \in DOMAIN Match(op) : View(w)[f] = Match(op)[f]}

(* And of all others of the table, by what those of a family have in common *)
(* (field |-> the values it can have), which is at least what they match.   *)
Compressed == [opcode |-> {n \in 0 .. 127 : n % 4 # 3}]
Atomics == [opcode |-> {47}]
Fences == [opcode |-> {15}]
Words == [opcode |-> {27, 59}]                              \* of 32 bits on a 64-bit machine
FusedMultiplications == [opcode |-> {67, 71, 75, 79}]
OtherLoads == [opcode |-> {3}, funct3 |-> {3, 6}]
OtherStores == [opcode |-> {35}, funct3 |-> {3}]
OtherFloatMemory == [opcode |-> {7, 39}, funct3 |-> {1, 3, 4}]
VectorLoads == [opcode |-> {7}, funct3 |-> {0, 5, 6, 7}]
VectorStores == [opcode |-> {39}, funct3 |-> {0, 5, 6, 7}]
VectorFloats == [opcode |-> {87}, funct3 |-> {1, 5}]
VectorIntegers == [opcode |-> {87}, funct3 |-> {0, 2, 3, 4, 6}]
VectorConfiguration == [opcode |-> {87}, funct3 |-> {7}]
VectorCryptography == [opcode |-> {119}]
ShiftsAndBits == [opcode |-> {19}, funct3 |-> {1, 5}, funct7 |-> (0 .. 127) \ {0, 1, 32, 33}]
MultiplyDivide == [opcode |-> {51}, funct7 |-> {1}, funct3 |-> 1 .. 7]
Negated == [opcode |-> {51}, funct7 |-> {32}, funct3 |-> {4, 6, 7}]     \* ANDN, ORN, XNOR
BitsAndCryptography == [opcode |-> {51}, funct7 |-> (0 .. 127) \ {0, 1, 32}]
OtherFormats == [opcode |-> {83}, funct7 |-> {n \in 0 .. 127 : n % 4 # 0}]   \* not single
OtherSingles == [opcode |-> {83}, funct7 |-> {12, 20, 32, 44, 96, 112}]
OtherSigns == [opcode |-> {83}, funct7 |-> {16}, funct3 |-> {2}]
QuietComparisons == [opcode |-> {83}, funct7 |-> {80}, funct3 |-> {4, 5}]
OtherConversions == [opcode |-> {83}, funct7 |-> {104, 120}, rs2 |-> {1, 2, 3}]
Environment == [opcode |-> {115}, funct3 |-> {0}]
Hypervisor == [opcode |-> {115}, funct3 |-> {4}, funct7 |-> 48 .. 55]
MayBeOperations == [opcode |-> {115}, funct3 |-> {4}, funct7 |-> 64 .. 127]
OtherCsrs == [opcode |-> {115}, funct3 |-> {2, 3, 5, 6, 7}]
OtherAdded == [opcode |-> {11}, rd4 |-> {4, 5, 7}]          \* addpa, addpb, relu
Others == {Compressed, Atomics, Fences, Words, FusedMultiplications, OtherLoads, OtherStores,
  OtherFloatMemory, VectorLoads, VectorStores, VectorFloats, VectorIntegers,
  VectorConfiguration, VectorCryptography, ShiftsAndBits, MultiplyDivide, Negated,
  BitsAndCryptography, OtherFormats, OtherSingles, OtherSigns, QuietComparisons,
  OtherConversions, Environment, Hypervisor, MayBeOperations, OtherCsrs, OtherAdded}
Claims(pattern, w) == \A f \in DOMAIN pattern : View(w)[f] \in pattern[f]

(* Two that are cases of the compiler's own, as hints to other machines.    *)
LandingPad == [opcode |-> {23}, rd |-> {0}]
Prefetch == [opcode |-> {19}, funct3 |-> {6}, rd |-> {0}, rs2 |-> {0, 1, 3}]

(* How many bytes are taken from memory for the instruction.                *)
InsnLength(w) == IF w.opcode % 4 < 3 THEN 2 ELSE IF w.opcode % 32 < 31 THEN 4
                 ELSE IF w.opcode % 64 < 63 THEN 6 ELSE 8

(* The immediates of decode.h: x and xs cut fields out of the word.         *)
SignExtended(n, bits) == ((n + 2^(bits - 1)) % 2^bits) - 2^(bits - 1)
IImm(w) == SignExtended(w.funct7 * 32 + w.rs2, 12)
SImm(w) == w.rd + 32 * SignExtended(w.funct7, 7)
ImmSign(w) == -(w.funct7 \div 64)
SbImm(w) == 2 * (w.rd \div 2) + 32 * (w.funct7 % 64) + 2048 * (w.rd % 2) + 4096 * ImmSign(w)
Upper(w) == SignExtended(w.funct7 * 8192 + w.rs2 * 256 + w.rs1 * 8 + w.funct3, 20)
UjImm(w) == 2 * (w.rs2 \div 2) + 32 * (w.funct7 % 64) + 2048 * (w.rs2 % 2)
              + 4096 * (w.rs1 * 8 + w.funct3) + 2^20 * ImmSign(w)
Csr(w) == w.funct7 * 32 + w.rs2
DecodedImmediate(op, w) ==
  CASE op \in UpperOps \cup CustomOps -> Upper(w) [] op = "jal" -> UjImm(w)
    [] op \in BranchOps -> SbImm(w) [] op \in StoreOps -> SImm(w)
    [] op = "csrrw" -> Csr(w) [] OTHER -> IImm(w)

-----------------------------------------------------------------------------
(* The encoders of opcodes.h, for the instructions they share with the      *)
(* compiler. Their immediates are unsigned, cut by fields.                  *)
EncoderJal(d, imm) ==
  Word(Bits(imm, 20, 20) * 64 + Bits(imm, 10, 5), Bits(imm, 4, 1) * 2 + Bits(imm, 11, 11),
       Bits(imm, 19, 15), Bits(imm, 14, 12), d, 111)
EncoderStore(op, src, base, offset) ==
  Word(Bits(offset, 11, 5), src, base, Match(op).funct3, Bits(offset, 4, 0), Match(op).opcode)
EncoderLoad(op, d, base, offset) ==
  Word(Bits(offset, 11, 5), Bits(offset, 4, 0), base, Match(op).funct3, d, Match(op).opcode)
EncoderImmediate(op, d, src, imm) == EncoderLoad(op, d, src, imm)
EncoderLui(d, imm) == Word(Bits(imm, 19, 13), Bits(imm, 12, 8), Bits(imm, 7, 3), Bits(imm, 2, 0), d, 55)
EncoderCsrw(src, csr) == Word(csr \div 32, csr % 32, src, 1, 0, 115)
EncoderCustom(op, d, src, imm) ==       \* setpa, setpb, macc, store: imm has eight bits
  Word(Bits(imm, 7, 5), Bits(imm, 4, 0), src, 0, d + Match(op).rd4, 11)
=============================================================================

------------------------------- MODULE Encoding ----------------------------
(* From an instruction of translator/riscv.c to the word translator/        *)
(* binary.c packs for it, the bytes of the output file and the lines        *)
(* bin2vhdl makes of them. The reference is the simulator's decoding, of    *)
(* module Simulator. A shift and a mask are a division and a remainder by a *)
(* power of two.                                                            *)
EXTENDS Simulator, Sequences

CONSTANTS Temporaries,    \* operands: colours 0 .. 12, fixed registers < 0, or not assigned
          Immediates,     \* of instructions
          Uppers, Lowers, \* float constants: their upper 20 and lower 12 bits
          Uninitialised   \* words the variable bytecode may hold when nothing sets it

Colours == 0 .. 12
Fixed == -32 .. -1
ASSUME TemporariesAssumption == Temporaries \subseteq Int
ASSUME ImmediatesAssumption == Immediates \subseteq Int
ASSUME ConstantsAssumption == /\ \A u \in Uppers : u \in -(2^19) .. 2^19 - 1
                              /\ \A l \in Lowers : l \in 0 .. 4095
ASSUME UninitialisedAssumption == Uninitialised \subseteq Fields /\ Uninitialised # {}

VARIABLES source,   \* what the code generator asks for
          text,     \* the assembly lines of it not yet assembled
          words,    \* their words
          rom       \* the lines of VHDL written: [line, bits]

vars == <<source, text, words, rom>>

-----------------------------------------------------------------------------
(* Registers: riscv.c writes a name, binary.c looks it up. The two files    *)
(* spell out the same table of ABI names, int before float.                 *)
IntNames == <<"zero", "ra", "sp", "gp", "tp", "t0", "t1", "t2", "s0", "s1", "a0", "a1", "a2",
  "a3", "a4", "a5", "a6", "a7", "s2", "s3", "s4", "s5", "s6", "s7", "s8", "s9", "s10", "s11",
  "t3", "t4", "t5", "t6">>
FloatNames == <<"ft0", "ft1", "ft2", "ft3", "ft4", "ft5", "ft6", "ft7", "fs0", "fs1", "fa0",
  "fa1", "fa2", "fa3", "fa4", "fa5", "fa6", "fa7", "fs2", "fs3", "fs4", "fs5", "fs6", "fs7",
  "fs8", "fs9", "fs10", "fs11", "ft8", "ft9", "ft10", "ft11">>
IntColours == <<"t0", "t1", "t2", "t3", "t4", "t5", "t6", "a2", "a3", "a4", "a5", "a6", "a7">>
FloatColours == <<"ft0", "ft1", "ft2", "ft3", "ft4", "ft5", "ft6", "ft7",
                  "ft8", "ft9", "ft10", "ft11", "fa1">>
NoName == "#"                            \* "#%d", a name the assembler does not know

RegisterNamed(names, colours, t) ==
  IF t \in Fixed THEN names[-t] ELSE IF t \in Colours THEN colours[t + 1] ELSE NoName
GetReg(t) == RegisterNamed(IntNames, IntColours, t)
GetFloatReg(t) == RegisterNamed(FloatNames, FloatColours, t)

In(name, names) == \E i \in 1 .. 32 : names[i] = name
PlaceIn(name, names) == CHOOSE i \in 1 .. 32 : names[i] = name
(* get_register_number, and & 0x1F of it, which makes 31 of a -1.           *)
Number(name) == IF In(name, IntNames) THEN PlaceIn(name, IntNames) - 1
                ELSE IF In(name, FloatNames) THEN PlaceIn(name, FloatNames) - 1 ELSE 31

-----------------------------------------------------------------------------
(* The maps of function codes. The text of a funct3 is read as a decimal    *)
(* number although it is binary; only its three low bits are used. That of  *)
(* a funct7 is read as binary.                                              *)
Funct3Text(op) ==
  CASE op \in {"bne", "lh", "sh", "slli", "sll", "flt", "fsgnjn", "setpa"} -> <<0, 0, 1>>
    [] op \in {"lw", "sw", "slti", "slt", "flw", "fsw", "feq", "setpb"} -> <<0, 1, 0>>
    [] op \in {"sltiu", "sltu", "store"} -> <<0, 1, 1>>
    [] op \in {"blt", "lbu", "xori", "xor"} -> <<1, 0, 0>>
    [] op \in {"bge", "lhu", "srli", "srai", "srl", "sra"} -> <<1, 0, 1>>
    [] op \in {"bltu", "ori", "or", "setacc"} -> <<1, 1, 0>>
    [] op \in {"bgeu", "andi", "and"} -> <<1, 1, 1>>
    [] OTHER -> <<0, 0, 0>>
AtoiOctal(t) == 64 * t[1] + 8 * t[2] + t[3]       \* variant
Atoi(t) == 100 * t[1] + 10 * t[2] + t[3]
Funct3(op) == Atoi(Funct3Text(op)) % 8
Funct7(op) ==
  CASE op \in {"srai", "sub", "sra"} -> 32 [] op = "mul" -> 1 [] op = "fmv" -> 120
    [] op \in {"fsgnj", "fsgnjn"} -> 16 [] op = "fsub" -> 4 [] op = "fmul" -> 8
    [] op \in {"feq", "flt", "fle"} -> 80 [] op = "fcvt" -> 104 [] OTHER -> 0

(* int2signedbin: the digits of a negative number are inverted with a mask, *)
(* bits above the mask are those of its absolute value.                     *)
SignedBinOnesComplement(n, digits) ==             \* variant
  IF n >= 0 THEN n ELSE ((-n) \div 2^digits) * 2^digits + 2^digits - 1 - ((-n) % 2^digits)
SignedBin(n, digits) ==
  IF n >= 0 THEN n ELSE ((-n) \div 2^digits) * 2^digits + 2^digits - ((-n) % 2^digits)

-----------------------------------------------------------------------------
(* asmToBinary, by the shape of the line: its operands, with their kinds.   *)
(* Which register fields the line names, and which of these are float.      *)
Names(op) ==
  CASE op \in UpperOps \cup {"jal"} -> {"rd"}
    [] op \in BranchOps \cup StoreOps -> {"rs1", "rs2"}
    [] op \in LoadOps \cup ImmediateOps \cup ShiftOps \cup MoveOps \cup {"csrrw", "mv"}
         -> {"rd", "rs1"}
    [] op \in IntOps \cup FloatOps \cup CompareOps -> {"rd", "rs1", "rs2"}
    [] OTHER -> {}
FloatFields(op) ==
  CASE op \in FloatOps -> {"rd", "rs1", "rs2"} [] op \in CompareOps -> {"rs1", "rs2"}
    [] op \in MoveOps \cup {"flw"} -> {"rd"} [] op = "fsw" -> {"rs2"} [] OTHER -> {}
Field(insn, f) ==
  IF f \notin Names(insn.op) THEN 0
  ELSE Number(IF f \in FloatFields(insn.op) THEN GetFloatReg(insn[f]) ELSE GetReg(insn[f]))

OpcodeOf(op) ==
  CASE op = "lui" -> 55 [] op = "auipc" -> 23 [] op = "jal" -> 111 [] op = "jalr" -> 103
    [] op \in BranchOps -> 99 [] op = "flw" -> 7 [] op = "fsw" -> 39
    [] op \in LoadOps \ {"jalr", "flw"} -> 3 [] op \in StoreOps \ {"fsw"} -> 35
    [] op \in ImmediateOps \cup ShiftOps -> 19 [] op \in IntOps -> 51
    [] op \in FloatOps \cup CompareOps \cup MoveOps -> 83 [] op = "csrrw" -> 115
    [] op \in CustomOps \cup {"macc"} -> 11

(* 20 bits from bit 12 on, as LUI, AUIPC and the added instructions have.   *)
Upper20(imm, d, opc) == Word(Bits(imm, 19, 13), Bits(imm, 12, 8), Bits(imm, 7, 3),
                             Bits(imm, 2, 0), d, opc)
JalWord(imm, d) == Word(Bits(imm, 20, 20) * 64 + Bits(imm, 10, 5),
                        Bits(imm, 4, 1) * 2 + Bits(imm, 11, 11),
                        Bits(imm, 19, 15), Bits(imm, 14, 12), d, 111)
BranchWordShort(imm, r2, r1, f3) ==               \* variant: bit 11 forgotten
  Word(Bits(imm, 12, 12) * 64 + Bits(imm, 10, 5), r2, r1, f3, Bits(imm, 4, 1) * 2, 99)
BranchWord(imm, r2, r1, f3) ==
  Word(Bits(imm, 12, 12) * 64 + Bits(imm, 10, 5), r2, r1, f3,
       Bits(imm, 4, 1) * 2 + Bits(imm, 11, 11), 99)
StoreWord(imm, r2, r1, f3, opc) == Word(Bits(imm, 11, 5), r2, r1, f3, Bits(imm, 4, 0), opc)
LoadWord(imm, r1, f3, d, opc) == Word(Bits(imm, 11, 5), Bits(imm, 4, 0), r1, f3, d, opc)
ShiftWord(imm, op, r1, d) ==                      \* lines 225-233
  Word(Funct7(op) + 19, d, r1 \div 8 + 4 * Funct3(op), r1 % 8, Bits(imm, 4, 0), 0)

(* The digits each case gives int2signedbin; AUIPC negates a text that      *)
(* starts with a minus sign once more.                                      *)
Immediate(insn) ==
  LET op == insn.op  imm == insn.imm
  IN CASE op = "auipc" -> SignedBin(IF imm < 0 THEN -imm ELSE imm, 20)
       [] op \in {"lui"} \cup CustomOps -> SignedBin(imm, 20)
       [] op \in BranchOps \cup {"jal"} -> SignedBin(imm, 30)
       [] op = "fsw" -> SignedBin(imm, 16)
       [] op \in {"csrrw"} \cup ShiftOps -> imm
       [] OTHER -> SignedBin(imm, 12)

(* MV and NOP become ADDI. (MV of a number writes through an uninitialised  *)
(* pointer; the compiler moves registers only.)                             *)
Pseudo(insn) ==
  CASE insn.op = "mv" -> [insn EXCEPT !.op = "addi", !.imm = 0]
    [] insn.op = "nop" -> [op |-> "addi", rd |-> -1, rs1 |-> -1, rs2 |-> -1, imm |-> 0]
    [] OTHER -> insn

AsmToBinary(line) ==
  LET insn == Pseudo(line)  op == insn.op  imm == Immediate(insn)
      d == Field(insn, "rd")  r1 == Field(insn, "rs1")  r2 == Field(insn, "rs2")
  IN CASE op \in UpperOps -> Upper20(imm, d, OpcodeOf(op))
       [] op = "jal" -> JalWord(imm, d)
       [] op \in BranchOps -> BranchWord(imm, r2, r1, Funct3(op))
       [] op \in LoadOps \cup ImmediateOps -> LoadWord(imm, r1, Funct3(op), d, OpcodeOf(op))
       [] op \in StoreOps -> StoreWord(imm, r2, r1, Funct3(op), OpcodeOf(op))
       [] op \in ShiftOps -> ShiftWord(imm, op, r1, d)
       [] op \in IntOps \cup FloatOps \cup CompareOps \cup MoveOps
            -> Word(Funct7(op), r2, r1, Funct3(op), d, OpcodeOf(op))
       [] op = "csrrw" -> LoadWord(imm, r1, 1, d, OpcodeOf(op))
       [] op \in CustomOps -> Upper20(imm, Funct3(op), OpcodeOf(op))
       [] op = "macc" -> Upper20(0, 0, OpcodeOf(op))

-----------------------------------------------------------------------------
Nothing == [kind |-> "nothing"]
Init == source = Nothing /\ text = <<>> /\ words = <<>> /\ rom = <<>>

(* One instruction of the translator, its comments and labels a NOP.        *)
Asm(op, d, r1, r2, imm) == [op |-> op, rd |-> d, rs1 |-> r1, rs2 |-> r2, imm |-> imm]
Request(s, lines) == /\ source = Nothing
                     /\ source' = s /\ text' = lines
                     /\ UNCHANGED <<words, rom>>
Emit(insn) == Request([kind |-> "line", insn |-> insn], <<insn>>)

(* CONSTANT_NODE: an int goes into one ADDI; a float into a LUI, rounded by *)
(* the sign of the lower part, and an ADDI unless that part is zero.        *)
T == 0
ConstantInt(n) == Request([kind |-> "int", value |-> n], <<Asm("addi", T, -1, -1, n)>>)
RoundedNever(u, l) == u                           \* variant
Rounded(u, l) == u + (IF l > 2047 THEN 1 ELSE 0)
ConstantFloat(u, l) ==
  Request([kind |-> "float", upper |-> u, lower |-> l],
          <<Asm("lui", T, -1, -1, Rounded(u, l))>>
            \o (IF l = 0 THEN <<>> ELSE <<Asm("addi", T, T, -1, l)>>))

Assemble == /\ text # <<>> /\ Head(text).op # "neg"
            /\ words' = Append(words, AsmToBinary(Head(text))) /\ text' = Tail(text)
            /\ UNCHANGED <<source, rom>>
(* A mnemonic no case handles leaves the variable as it was.                *)
AssembleUnknown(garbage) == /\ text # <<>> /\ Head(text).op = "neg"
                            /\ words' = Append(words, garbage) /\ text' = Tail(text)
                            /\ UNCHANGED <<source, rom>>

(* fwrite of the word on a little-endian machine, as the bytes bin2vhdl     *)
(* reads into a char; a char is signed, and is shifted arithmetically.      *)
ByteOf(w, k) ==
  CASE k = 0 -> w.opcode + 128 * (w.rd % 2)
    [] k = 1 -> w.rd \div 2 + 16 * w.funct3 + 128 * (w.rs1 % 2)
    [] k = 2 -> w.rs1 \div 2 + 16 * (w.rs2 % 16)
    [] k = 3 -> w.rs2 \div 16 + 2 * w.funct7
Char(byte) == IF byte > 127 THEN byte - 256 ELSE byte
ByteToBinaryReversed(char) == [i \in 1 .. 8 |-> (char \div 2^(i - 1)) % 2]   \* variant
ByteToBinary(char) == [i \in 1 .. 8 |-> (char \div 2^(8 - i)) % 2]
Dump == /\ text = <<>> /\ Len(rom) < 4 * Len(words)
        /\ LET n == Len(rom)
           IN rom' = Append(rom, [line |-> n, bits |-> ByteToBinary(
                                    Char(ByteOf(words[n \div 4 + 1], n % 4)))])
        /\ UNCHANGED <<source, text, words>>
Done == /\ source # Nothing /\ text = <<>> /\ Len(rom) = 4 * Len(words)
        /\ UNCHANGED vars

(* The lines the translator can write, and by an asm statement any other.   *)
Even == {i \in Immediates : i % 2 = 0}
Unsigned == {i \in Immediates : i \in 0 .. 4095}
Plain(ops) == {Asm(op, d, r1, r2, 0) : op \in ops, d, r1, r2 \in Temporaries}
Lines ==
  Plain(IntOps \cup FloatOps \cup CompareOps)
    \cup {Asm(op, d, r, -1, i) : op \in LoadOps \cup ImmediateOps, d, r \in Temporaries,
                                 i \in Immediates}
    \cup {Asm(op, -1, r1, r2, i) : op \in StoreOps, r1, r2 \in Temporaries, i \in Immediates}
    \cup {Asm(op, -1, r1, r2, i) : op \in BranchOps, r1, r2 \in Temporaries,
                                   i \in Even}
    \cup {Asm(op, d, -1, -1, i) : op \in UpperOps, d \in Temporaries, i \in Immediates}
    \cup {Asm("jal", d, -1, -1, i) : d \in Temporaries, i \in Even}
    \cup {Asm(op, d, r, -1, i) : op \in ShiftOps \cup {"csrrw"}, d, r \in Temporaries,
                                 i \in Unsigned}
    \cup {Asm(op, d, r, -1, 0) : op \in MoveOps \cup {"mv", "neg"}, d, r \in Temporaries}
    \cup {Asm(op, -1, -1, -1, i) : op \in CustomOps, i \in Immediates}
    \cup {Asm(op, -1, -1, -1, 0) : op \in {"macc", "nop"}}

Next == \/ \E insn \in Lines : Emit(insn)
        \/ \E n \in Immediates : ConstantInt(n)
        \/ \E u \in Uppers, l \in Lowers : ConstantFloat(u, l)
        \/ Assemble \/ \E garbage \in Uninitialised : AssembleUnknown(garbage)
        \/ Dump \/ Done
Spec == Init /\ [][Next]_vars

-----------------------------------------------------------------------------
(* Types of the words in the making and of the file.                        *)
TypeOK == /\ \A i \in DOMAIN words : words[i] \in Fields
          /\ Len(words) + Len(text) <= 2 /\ Len(rom) <= 4 * Len(words)
          /\ \A i \in DOMAIN rom : rom[i] \in [line : 0 .. 7, bits : [1 .. 8 -> {0, 1}]]

(* An assembled line; its word is not looked at again once it is dumped.    *)
Assembled == source # Nothing /\ source.kind = "line" /\ words # <<>> /\ rom = <<>>
Meant == Pseudo(source.insn)
W == words[1]

(* The registers of getRegBin (riscv.c lines 4-6 and 82-92), and of the     *)
(* float names in the RISC-V calling convention.                            *)
IntCodes == <<5, 6, 7, 28, 29, 30, 31, 12, 13, 14, 15, 16, 17>>
FloatCodes == <<0, 1, 2, 3, 4, 5, 6, 7, 28, 29, 30, 31, 11>>
RegisterOf(f, insn) ==
  LET t == insn[f]
  IN IF t \in Fixed THEN -1 - t ELSE IF t \notin Colours THEN 31
     ELSE (IF f \in FloatFields(insn.op) THEN FloatCodes ELSE IntCodes)[t + 1]

(* The machine sees the instruction that was written, and no other of all   *)
(* that it knows, with the registers that were meant, whatever the immediate*)
(* nothing spills from one field into another (binary.c 153-295). Two       *)
(* without effect, AUIPC and ORI to zero, are hints as well. A shift, whose *)
(* fields are placed wrongly (line 233), is taken for a compressed one.     *)
MeantInstruction ==
  (Assembled /\ Meant.op # "neg") =>
    IF Meant.op \in ShiftOps THEN Recognised(W) = {} /\ InsnLength(W) = 2
    ELSE /\ Recognised(W) = {Meant.op} /\ InsnLength(W) = 4
         /\ \A pattern \in Others : ~Claims(pattern, W)
         /\ Claims(LandingPad, W) \/ Claims(Prefetch, W) =>
              Meant.op \in {"auipc", "ori"} /\ Meant.rd \in {-1}
         /\ \A f \in Names(Meant.op) : W[f] = RegisterOf(f, Meant)

(* An immediate arrives if its field holds it; otherwise it loses its upper *)
(* bits without a word. A negative one of AUIPC (line 162) changes sign.    *)
Width(op) == CASE op \in UpperOps \cup CustomOps -> 20 [] op = "jal" -> 21
               [] op \in BranchOps -> 13 [] OTHER -> 12
Immediated == LoadOps \cup StoreOps \cup ImmediateOps \cup UpperOps \cup CustomOps
                \cup BranchOps \cup {"jal"}
ImmediateIsCut ==
  Assembled =>
    CASE Meant.op = "auipc" ->
           Upper(W) = SignExtended(IF Meant.imm < 0 THEN -Meant.imm ELSE Meant.imm, 20)
      [] Meant.op = "csrrw" -> Csr(W) = Meant.imm
      [] Meant.op \in Immediated \ {"auipc"} ->
           DecodedImmediate(Meant.op, W) = SignExtended(Meant.imm, Width(Meant.op))
      [] OTHER -> TRUE

(* Constants (codegen.c lines 300-316): a float gets all its 32 bits from   *)
(* LUI and ADDI together; an int is right exactly from -2048 to 2047.       *)
Complete == source # Nothing /\ text = <<>> /\ rom = <<>>
Loaded ==
  CASE source.kind = "int" -> IImm(W) = source.value <=> source.value \in -2048 .. 2047
    [] source.kind = "float" ->
         LET low == IF Len(words) = 2 THEN IImm(words[2]) ELSE 0
         IN /\ (low - source.lower) % 4096 = 0
            /\ (Upper(W) + (low - source.lower) \div 4096 - source.upper) % 2^20 = 0
    [] OTHER -> TRUE
ConstantsLoaded == Complete => Loaded

(* A colour is one of the registers the prologue saves (codegen.c 10-17):   *)
(* what an instruction writes for a temporary survives a call.              *)
SavedInt == {-6, -7, -8, -29, -30, -31, -32, -13, -14, -15, -16, -17, -18}
SavedFloat == {-1, -2, -3, -4, -5, -6, -7, -8, -12, -29, -30, -31, -32}
ResultsArePreserved ==
  (Assembled /\ "rd" \in Names(Meant.op) /\ Meant.op \notin ShiftOps /\ Meant.rd \in Colours) =>
    -1 - W.rd \in (IF "rd" \in FloatFields(Meant.op) THEN SavedFloat ELSE SavedInt)

(* The instruction and what becomes of its result.                          *)
InstructionMeant == MeantInstruction /\ ResultsArePreserved

(* The compiler and the encoders of opcodes.h produce the same words, but   *)
(* for the added instructions with an immediate: those have it in the       *)
(* twelve upper bits there, from bit 12 on here and in decode.h.            *)
EncoderOf(i) ==
  LET d == RegisterOf("rd", i)  r1 == RegisterOf("rs1", i)  r2 == RegisterOf("rs2", i)
  IN CASE i.op = "jal" -> EncoderJal(d, i.imm)
       [] i.op \in {"sw", "sh", "sb", "fsw"} -> EncoderStore(i.op, r2, r1, i.imm)
       [] i.op \in {"lw", "lh", "lb", "flw"} -> EncoderLoad(i.op, d, r1, i.imm)
       [] i.op \in {"addi", "xori"} -> EncoderImmediate(i.op, d, r1, i.imm)
       [] i.op = "lui" -> EncoderLui(d, i.imm)
       [] i.op = "csrrw" -> EncoderCsrw(r1, i.imm)
       [] i.op \in {"setpa", "setpb", "store", "macc"} -> EncoderCustom(i.op, 0, 0, i.imm)
Shared == {"jal", "sw", "sh", "sb", "fsw", "lw", "lh", "lb", "flw", "addi", "xori", "lui",
           "setpa", "setpb", "store", "macc"}
EncodersAgree ==
  /\ (Assembled /\ Meant.op \in Shared) =>
       (W = EncoderOf(Meant) <=> (Meant.op \in CustomOps => Meant.imm % 2^20 = 0))
  /\ (Assembled /\ Meant.op = "csrrw" /\ Meant.rd = -1) => W = EncoderOf(Meant)

(* The lines of VHDL are the bytes of the words, lowest first, each with    *)
(* its highest bit first: read back they are the words.                     *)
Byte(bits) == 128 * bits[1] + 64 * bits[2] + 32 * bits[3] + 16 * bits[4]
                + 8 * bits[5] + 4 * bits[6] + 2 * bits[7] + bits[8]
WordInRom(i) ==
  LET b(k) == Byte(rom[4 * i - 3 + k].bits)
  IN Word(b(3) \div 2, (b(3) % 2) * 16 + b(2) \div 16, (b(2) % 16) * 2 + b(1) \div 128,
          (b(1) \div 16) % 8, (b(1) % 16) * 2 + b(0) \div 128, b(0) % 128)
RomHoldsWords == /\ \A k \in DOMAIN rom : rom[k].line = k - 1
                 /\ \A i \in 1 .. Len(rom) \div 4 : WordInRom(i) = words[i]

(* What is written consists of words and their bytes.                       *)
OutputIsWords == TypeOK /\ RomHoldsWords
=============================================================================

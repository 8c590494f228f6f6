----------------------------- MODULE Accelerator ---------------------------
(* mulacc(a, b, bias, n): the code of the DOT_PRODUCT case of backend/      *)
(* codegen.c, executed on the RISC-V machine with the instructions that     *)
(* spike-changes/riscv/insns adds. setacc, whose file is not there, is      *)
(* taken from the comment and the use in codegen.c.                         *)
(*                                                                          *)
(* A float is the sequence of the products added up to make it, a product   *)
(* the sequence of its factors, and a factor the address of the word it was *)
(* read from: rounding is left out, the order is not.                       *)
EXTENDS Integers, Sequences

CONSTANTS Lengths,        \* of vectors
          Addresses,      \* at which they may start
          Memory,         \* addresses of words that can be loaded
          WordValues,     \* how many values the loop counter can have: 2^64
          ImmediateValues \* on RV64; and the immediate it is loaded with: 2^12

ASSUME ValuesAssumption ==
  /\ ImmediateValues \in Nat \ {0} /\ ImmediateValues % 2 = 0
  /\ WordValues \in Nat /\ WordValues >= ImmediateValues
ASSUME LengthsAssumption == Lengths \subseteq 0 .. WordValues - 1
ASSUME AddressesAssumption == Addresses \subseteq Nat /\ \A a \in Addresses : a % 4 = 0

VARIABLES n,         \* the length in the program
          vectors,   \* the addresses of the two
          floatBias, \* the bias is a float: its type is not checked
          pc,        \* position in the code, or Trapped
          ints,      \* int registers: those of temporaries, x18 and x19
          floats,    \* float registers: those of temporaries, f19
          scratch,   \* the words at 0x10000 and 0x10004
          biasCell,  \* the float at 0x10008
          loads      \* addresses from which vector elements were read

vars == <<n, vectors, floatBias, pc, ints, floats, scratch, biasCell, loads>>

-----------------------------------------------------------------------------
Scratch == 65536
IntRegisters == {"a", "b", "currentA", "currentB", "pa", "aux", "x18", "x19"}
FloatRegisters == {"bias", "result", "aux1", "aux2", "f19"}

Bias == -1        \* factors that are not an element of a vector
Garbage == -2
Pointer == -3
Single(factor) == << <<factor>> >>
Zero == <<>>

(* Lines 402-452, the last four instructions for an odd length only. A      *)
(* displacement is four bytes for each instruction.                         *)
StepOfOne == 4                            \* variant: one element
Step == 8
Iterations(length) == length \div 2
Decrement == -1
LoopStart == 10
BackForgotten == 19                       \* variant: never set, the jump goes to itself
Back == LoopStart
Code(length) ==
  << <<"mv", "currentA", "a">>, <<"mv", "currentB", "b">>,
     <<"lui", "pa", 16>>, <<"addi", "pa", "pa", 0>>,
     <<"sw", "a", 0, "pa">>, <<"sw", "b", 4, "pa">>, <<"fsw", "bias", 8, "pa">>,
     <<"setacc", Scratch + 8>>,
     <<"li", "aux", Iterations(length)>>,
     <<"setpa", Scratch>>, <<"setpb", Scratch + 4>>, <<"macc">>,
     <<"addi", "currentA", "currentA", Step>>, <<"addi", "currentB", "currentB", Step>>,
     <<"sw", "currentA", 0, "pa">>, <<"sw", "currentB", 4, "pa">>,
     <<"addi", "aux", "aux", Decrement>>, <<"beq", "aux", 8>>, <<"jal", 4 * (Back - 19)>>,
     <<"store", Scratch + 8>>, <<"sw", "a", 0, "pa">>,
     <<"lui", "aux", 16>>, <<"addi", "aux", "aux", 8>>, <<"flw", "result", 0, "aux">>,
     <<"flw", "aux1", 0, "currentA">>, <<"flw", "aux2", 0, "currentB">>,
     <<"fmul", "aux2", "aux1", "aux2">>, <<"fadd", "result", "aux2", "result">> >>
Size(length) == IF length % 2 = 0 THEN 24 ELSE 28

Init == /\ n \in Lengths /\ floatBias \in BOOLEAN /\ pc = 1
        /\ vectors \in [a : Addresses, b : Addresses]
        /\ ints = [r \in IntRegisters |->
                     CASE r = "a" -> vectors.a [] r = "b" -> vectors.b [] OTHER -> 0]
        /\ floats = [r \in FloatRegisters |->
                       Single(IF r = "bias" /\ floatBias THEN Bias ELSE Garbage)]
        /\ scratch = <<0, 0>> /\ biasCell = Zero /\ loads = {}

-----------------------------------------------------------------------------
(* The machine. A load from outside the memory (README.md line 34 gives the *)
(* simulator 0x10000 .. 0x13fff) traps, and there is no handler to return.  *)
Finished == pc = Size(n) + 1
Trapped == pc = 0
Op == IF Finished THEN "end" ELSE IF Trapped THEN "trap" ELSE Code(n)[pc][1]
Arg(i) == Code(n)[pc][i + 1]
Next1 == pc' = pc + 1 /\ UNCHANGED <<n, vectors, floatBias>>

SetInt(r, v) == ints' = [ints EXCEPT ![r] = v]
SetFloat(r, v) == floats' = [floats EXCEPT ![r] = v]
Wrapped(v) == v % WordValues
Half == ImmediateValues \div 2
Cut(v) == ((v + Half) % ImmediateValues) - Half
MaccReads == {ints["x18"], ints["x18"] + 4, ints["x19"], ints["x19"] + 4}
ASSUME MemoryAssumption == {Scratch, Scratch + 4, Scratch + 8} \subseteq Memory

(* What is read from an address: the words of the accelerator hold a        *)
(* pointer, a pointer and the cell of the bias.                             *)
FloatAt(address) ==
  IF address = Scratch + 8 THEN biasCell
  ELSE Single(IF address \in {Scratch, Scratch + 4} THEN Pointer ELSE address)
Product(x, y) == << x[1] \o y[1] >>
(* Addition commutes: a product goes to the end of a sum on either side.    *)
Plus(x, y) == IF Len(x) = 1 THEN y \o x ELSE x \o y

Mv == /\ Op = "mv" /\ SetInt(Arg(1), ints[Arg(2)])
      /\ Next1 /\ UNCHANGED <<floats, scratch, biasCell, loads>>
Lui == /\ Op = "lui" /\ SetInt(Arg(1), 4096 * Arg(2))
       /\ Next1 /\ UNCHANGED <<floats, scratch, biasCell, loads>>
Li == /\ Op = "li" /\ SetInt(Arg(1), Wrapped(Cut(Arg(2))))
      /\ Next1 /\ UNCHANGED <<floats, scratch, biasCell, loads>>
(* The counter wraps. The pointers only grow while macc finds them in the   *)
(* memory, which ends before the addresses do.                              *)
Addi == /\ Op = "addi"
        /\ SetInt(Arg(1), LET sum == ints[Arg(2)] + Arg(3)
                          IN IF pc < 20 /\ Arg(2) = "aux" THEN Wrapped(sum) ELSE sum)
        /\ Next1 /\ UNCHANGED <<floats, scratch, biasCell, loads>>
Sw == /\ Op = "sw"
      /\ scratch' = [scratch EXCEPT ![(ints[Arg(3)] + Arg(2) - Scratch) \div 4 + 1] = ints[Arg(1)]]
      /\ Next1 /\ UNCHANGED <<ints, floats, biasCell, loads>>
Fsw == /\ Op = "fsw" /\ ints[Arg(3)] + Arg(2) = Scratch + 8 /\ biasCell' = floats[Arg(1)]
       /\ Next1 /\ UNCHANGED <<ints, floats, scratch, loads>>
Flw == /\ Op = "flw"
       /\ LET address == ints[Arg(3)] + Arg(2)
          IN /\ address \in Memory
             /\ SetFloat(Arg(1), FloatAt(address))
             /\ loads' = IF address = Scratch + 8 THEN loads ELSE loads \cup {address}
       /\ Next1 /\ UNCHANGED <<ints, scratch, biasCell>>
Fmul == /\ Op = "fmul" /\ SetFloat(Arg(1), Product(floats[Arg(2)], floats[Arg(3)]))
        /\ Next1 /\ UNCHANGED <<ints, scratch, biasCell, loads>>
Fadd == /\ Op = "fadd" /\ SetFloat(Arg(1), Plus(floats[Arg(2)], floats[Arg(3)]))
        /\ Next1 /\ UNCHANGED <<ints, scratch, biasCell, loads>>
Beq == /\ Op = "beq"
       /\ pc' = IF ints[Arg(1)] = 0 THEN pc + Arg(2) \div 4 ELSE pc + 1
       /\ UNCHANGED <<n, vectors, floatBias, ints, floats, scratch, biasCell, loads>>
(* It also sets ra, which the prologue of the function has saved.           *)
Jal == /\ Op = "jal" /\ pc' = pc + (Arg(1) \div 4)
       /\ UNCHANGED <<n, vectors, floatBias, ints, floats, scratch, biasCell, loads>>

(* The added instructions. The pointers come from memory, macc takes two    *)
(* elements of each vector, store clears the accumulator.                   *)
SetAcc == /\ Op = "setacc" /\ SetFloat("f19", FloatAt(Arg(1)))
          /\ Next1 /\ UNCHANGED <<ints, scratch, biasCell, loads>>
SetPA == /\ Op = "setpa" /\ SetInt("x18", scratch[(Arg(1) - Scratch) \div 4 + 1])
         /\ Next1 /\ UNCHANGED <<floats, scratch, biasCell, loads>>
SetPB == /\ Op = "setpb" /\ SetInt("x19", scratch[(Arg(1) - Scratch) \div 4 + 1])
         /\ Next1 /\ UNCHANGED <<floats, scratch, biasCell, loads>>
Maccumulated(acc, x, y) == acc \o Product(FloatAt(x), FloatAt(y))
                               \o Product(FloatAt(x + 4), FloatAt(y + 4))
Macc == /\ Op = "macc" /\ MaccReads \subseteq Memory
        /\ SetFloat("f19", Maccumulated(floats["f19"], ints["x18"], ints["x19"]))
        /\ loads' = loads \cup MaccReads
        /\ Next1 /\ UNCHANGED <<ints, scratch, biasCell>>
Store == /\ Op = "store" /\ Arg(1) = Scratch + 8 /\ biasCell' = floats["f19"]
         /\ SetFloat("f19", Zero)
         /\ Next1 /\ UNCHANGED <<ints, scratch, loads>>
Faulting == \/ Op = "macc" /\ ~(MaccReads \subseteq Memory)
            \/ Op = "flw" /\ ints[Arg(3)] + Arg(2) \notin Memory
Trap == Faulting /\ pc' = 0
        /\ UNCHANGED <<n, vectors, floatBias, ints, floats, scratch, biasCell, loads>>
End == Op \in {"end", "trap"} /\ UNCHANGED vars

Next == \/ Mv \/ Lui \/ Li \/ Addi \/ Sw \/ Fsw \/ Flw \/ Fmul \/ Fadd \/ Beq \/ Jal
        \/ SetAcc \/ SetPA \/ SetPB \/ Macc \/ Store \/ Trap \/ End

(* The machine executes as long as there is code.                           *)
Spec == Init /\ [][Next]_vars /\ WF_vars(Next)

-----------------------------------------------------------------------------
(* Types; the control never leaves the code but for a trap.                 *)
TypeOK == /\ pc \in 0 .. Size(n) + 1
          /\ ints \in [IntRegisters -> Nat] /\ DOMAIN floats = FloatRegisters
          /\ scratch \in Nat \X Nat
          /\ ints["aux"] \in 0 .. WordValues - 1 \/ pc > 22 \/ Trapped

(* The lengths for which the loop runs as often as it should: its counter   *)
(* is decremented before it is tested, and loaded as a signed immediate.    *)
InReach == Iterations(n) \in 1 .. Half - 1

(* The vectors do not reach into the three words of the accelerator.        *)
Clear == \A base \in {vectors.a, vectors.b}, i \in 0 .. n - 1 :
           base + 4 * i \notin {Scratch, Scratch + 4, Scratch + 8}
Elements(v, length) == {base + 4 * i : base \in {v.a, v.b}, i \in 0 .. length - 1}
Products(k) == [i \in 1 .. k |-> <<vectors.a + 4 * (i - 1), vectors.b + 4 * (i - 1)>>]

(* The value of the node is the bias and the products of all the elements,  *)
(* in order, for every length within reach, odd ones included (lines        *)
(* 444-451), and for no other: 0 and 1 start the loop from a count of zero, *)
(* 4096 and more from a negative one, so that it ends too late or in a trap.*)
(* The bias must be a float: one of another type is stored from a float     *)
(* register that does not hold it. And a vector must not lie around         *)
(* 0x10000, where the accelerator's words are whatever the program has      *)
(* there.                                                                   *)
DotProduct ==
  Finished => (floats["result"] = Single(Bias) \o Products(n)
                 <=> InReach /\ floatBias /\ Clear)

(* Each time round (lines 425-434) the pointers, the memory they are        *)
(* reloaded from and the counter agree on how much has been summed up.      *)
AccumulatesInOrder ==
  (InReach /\ Clear /\ pc = LoopStart) =>
    \E k \in 0 .. Iterations(n) - 1 :
      /\ floats["f19"] = floats["bias"] \o Products(2 * k)
      /\ scratch = <<vectors.a + 8 * k, vectors.b + 8 * k>>
      /\ ints["aux"] = Iterations(n) - k
      /\ ints["currentA"] = vectors.a + 8 * k /\ ints["currentB"] = vectors.b + 8 * k

(* Nothing but the n elements of each vector is read: neither the pairs of  *)
(* the accelerator nor the last element of an odd length go past the end.   *)
WithinVectors == InReach => loads \subseteq Elements(vectors, n)

(* So vectors that lie in the memory never make it trap.                    *)
InMemory == Elements(vectors, n) \subseteq Memory
TrapsOutOfReach == Trapped => ~(InReach /\ InMemory)

(* The loop, from its first turn to the code behind it.                     *)
LoopInvariant == TypeOK /\ AccumulatesInOrder /\ WithinVectors /\ TrapsOutOfReach

(* The loop (lines 425-434) ends for the lengths within reach. For 0, 1,    *)
(* 4096 and more it does not go on for ever either: the pointers leave the  *)
(* memory or, if that is large enough for it, the counter comes down to 0.  *)
Ends == <>(Finished \/ (Trapped /\ ~(InReach /\ InMemory)))
=============================================================================

------------------------- MODULE Accelerator_proofs ------------------------
(* Proofs that the loop of mulacc sums up what it should, for every length, *)
(* every pair of vectors, every width of the counter and of the immediate   *)
(* it is loaded with.                                                       *)
EXTENDS Accelerator, TLAPS

-----------------------------------------------------------------------------
(* What the code makes, as operators of the length, of the vectors and of   *)
(* whether the bias is a float.                                             *)

(* How often the loop runs: as often as its counter says, or as often as    *)
(* there are values when it starts from zero.                               *)
Count(length) == Wrapped(Cut(Iterations(length)))
Turns(length) == IF Count(length) = 0 THEN WordValues ELSE Count(length)

Biased(float) == IF float THEN Bias ELSE Garbage
FactorAt(address, float) ==
  IF address = Scratch + 8 THEN Biased(float)
  ELSE IF address \in {Scratch, Scratch + 4} THEN Pointer ELSE address
Term(i, v, float) ==
  <<FactorAt(v.a + 4 * (i - 1), float), FactorAt(v.b + 4 * (i - 1), float)>>

(* s is the bias and the first k products.                                  *)
Summed(s, k, v, float) ==
  /\ s \in Seq(Seq(Int)) /\ Len(s) = k + 1
  /\ s[1] = <<Biased(float)>>
  /\ \A i \in 1 .. k : s[i + 1] = Term(i, v, float)

-----------------------------------------------------------------------------
(* The invariant: what the registers and the words of memory hold at each   *)
(* position of the code.                                                    *)
Given == /\ n \in Lengths /\ floatBias \in BOOLEAN
         /\ vectors \in [a : Addresses, b : Addresses]
         /\ ints["a"] = vectors.a /\ ints["b"] = vectors.b
         /\ floats["bias"] = Single(Biased(floatBias))

(* Before the loop, and the two words that keep their values in it.         *)
Prepared ==
  /\ pc \in 2 .. 9 => ints["currentA"] = vectors.a
  /\ pc \in 3 .. 9 => ints["currentB"] = vectors.b
  /\ pc \in 6 .. 9 => scratch[1] = vectors.a
  /\ pc \in 7 .. 9 => scratch[2] = vectors.b
  /\ pc = 9 => floats["f19"] = Single(Biased(floatBias))
  /\ pc >= 4 => ints["pa"] = Scratch
  /\ pc \in 8 .. 20 => biasCell = Single(Biased(floatBias))

(* In turn k of the loop, position by position.                             *)
Turn(k) ==
  /\ ints["currentA"] = vectors.a + 8 * (IF pc > 13 THEN k + 1 ELSE k)
  /\ ints["currentB"] = vectors.b + 8 * (IF pc > 14 THEN k + 1 ELSE k)
  /\ scratch[1] = vectors.a + 8 * (IF pc > 15 THEN k + 1 ELSE k)
  /\ scratch[2] = vectors.b + 8 * (IF pc > 16 THEN k + 1 ELSE k)
  /\ pc > 10 => ints["x18"] = vectors.a + 8 * k
  /\ pc > 11 => ints["x19"] = vectors.b + 8 * k
  /\ Summed(floats["f19"], IF pc > 12 THEN 2 * k + 2 ELSE 2 * k, vectors, floatBias)
  /\ ints["aux"] = IF pc > 17 THEN Turns(n) - (k + 1)
                   ELSE IF k = 0 THEN Count(n) ELSE Turns(n) - k
  /\ pc = 19 => k + 1 < Turns(n)
Turning == pc \in 10 .. 19 => \E k \in 0 .. Turns(n) - 1 : Turn(k)

(* Behind the loop.                                                         *)
Stored ==
  pc >= 20 =>
    /\ ints["currentA"] = vectors.a + 8 * Turns(n)
    /\ ints["currentB"] = vectors.b + 8 * Turns(n)
    /\ pc = 20 => Summed(floats["f19"], 2 * Turns(n), vectors, floatBias)
    /\ pc > 20 => Summed(biasCell, 2 * Turns(n), vectors, floatBias)
    /\ pc = 23 => ints["aux"] = Scratch
    /\ pc = 24 => ints["aux"] = Scratch + 8
Last ==
  LET pairs == 2 * Turns(n)
  IN /\ pc \in 25 .. 28 => Summed(floats["result"], pairs, vectors, floatBias)
     /\ pc \in 26 .. 27 =>
          floats["aux1"][1] = <<FactorAt(vectors.a + 4 * pairs, floatBias)>>
     /\ pc = 27 => floats["aux2"][1] = <<FactorAt(vectors.b + 4 * pairs, floatBias)>>
     /\ pc = 28 => floats["aux2"] = <<Term(pairs + 1, vectors, floatBias)>>
     /\ pc = 29 => Summed(floats["result"], pairs + 1, vectors, floatBias)

Reading == InReach => loads \subseteq Elements(vectors, n)

AccInv == /\ TypeOK /\ Given /\ Prepared /\ Turning /\ Stored /\ Last /\ Reading
          /\ TrapsOutOfReach

-----------------------------------------------------------------------------
(* What the machine does at each position, when it does not trap.           *)
Works == Next /\ ~Faulting /\ ~Trapped
IntsTo(r, v) == /\ SetInt(r, v) /\ pc' = pc + 1
                /\ UNCHANGED <<n, vectors, floatBias, floats, scratch, biasCell, loads>>
FloatsTo(r, v) == /\ SetFloat(r, v) /\ pc' = pc + 1
                  /\ UNCHANGED <<n, vectors, floatBias, ints, scratch>>
WordTo(i, v) == /\ scratch' = [scratch EXCEPT ![i] = v] /\ pc' = pc + 1
                /\ UNCHANGED <<n, vectors, floatBias, ints, floats, biasCell, loads>>
CellTo(v) == /\ biasCell' = v /\ pc' = pc + 1
             /\ UNCHANGED <<n, vectors, floatBias, ints, scratch, loads>>
Loaded(address) ==
  loads' = IF address = Scratch + 8 THEN loads ELSE loads \cup {address}
JumpTo(p) == /\ pc' = p
             /\ UNCHANGED <<n, vectors, floatBias, ints, floats, scratch, biasCell, loads>>

(* The instruction at a position is executed by its own action.             *)
LEMMA Dispatch ==
  ASSUME Works
  PROVE  /\ Op = "mv" => Mv
         /\ Op = "lui" => Lui
         /\ Op = "li" => Li
         /\ Op = "addi" => Addi
         /\ Op = "sw" => Sw
         /\ Op = "fsw" => Fsw
         /\ Op = "flw" => Flw
         /\ Op = "fmul" => Fmul
         /\ Op = "fadd" => Fadd
         /\ Op = "beq" => Beq
         /\ Op = "jal" => Jal
         /\ Op = "setacc" => SetAcc
         /\ Op = "setpa" => SetPA
         /\ Op = "setpb" => SetPB
         /\ Op = "macc" => Macc
         /\ Op = "store" => Store
         /\ Op = "end" => End
  BY DEF Works, Next, Mv, Lui, Li, Addi, Sw, Fsw, Flw, Fmul, Fadd, Beq, Jal,
         SetAcc, SetPA, SetPB, Macc, Store, Trap, End

(* The instructions of one kind and what they do, given their operands.     *)
LEMMA Moves ==
  ASSUME Works, Op = "mv"
  PROVE  IntsTo(Arg(1), ints[Arg(2)])
  BY Dispatch DEF Mv, IntsTo, Next1

LEMMA Uppers ==
  ASSUME Works, Op = "lui"
  PROVE  IntsTo(Arg(1), 4096 * Arg(2))
  BY Dispatch DEF Lui, IntsTo, Next1

LEMMA Adds ==
  ASSUME Works, Op = "addi"
  PROVE  /\ pc < 20 /\ Arg(2) = "aux" => IntsTo(Arg(1), Wrapped(ints[Arg(2)] + Arg(3)))
         /\ ~(pc < 20 /\ Arg(2) = "aux") => IntsTo(Arg(1), ints[Arg(2)] + Arg(3))
  BY Dispatch DEF Addi, IntsTo, Next1

LEMMA Words ==
  ASSUME Works, Op = "sw"
  PROVE  WordTo((ints[Arg(3)] + Arg(2) - Scratch) \div 4 + 1, ints[Arg(1)])
  BY Dispatch DEF Sw, WordTo, Next1

(* The instruction at each position, and its operands.                      *)
LEMMA Fetched ==
  ASSUME ~Finished
  PROVE  /\ pc = 1 => Op = "mv" /\ Arg(1) = "currentA" /\ Arg(2) = "a"
         /\ pc = 2 => Op = "mv" /\ Arg(1) = "currentB" /\ Arg(2) = "b"
         /\ pc = 3 => Op = "lui" /\ Arg(1) = "pa" /\ Arg(2) = 16
         /\ pc = 4 => Op = "addi" /\ Arg(1) = "pa" /\ Arg(2) = "pa" /\ Arg(3) = 0
         /\ pc = 5 => Op = "sw" /\ Arg(1) = "a" /\ Arg(2) = 0 /\ Arg(3) = "pa"
         /\ pc = 6 => Op = "sw" /\ Arg(1) = "b" /\ Arg(2) = 4 /\ Arg(3) = "pa"
         /\ pc = 7 => Op = "fsw" /\ Arg(1) = "bias" /\ Arg(2) = 8 /\ Arg(3) = "pa"
         /\ pc = 8 => Op = "setacc" /\ Arg(1) = Scratch + 8
         /\ pc = 9 => Op = "li" /\ Arg(1) = "aux" /\ Arg(2) = Iterations(n)
         /\ pc = 10 => Op = "setpa" /\ Arg(1) = Scratch
         /\ pc = 11 => Op = "setpb" /\ Arg(1) = Scratch + 4
         /\ pc = 12 => Op = "macc"
         /\ pc = 13 => Op = "addi" /\ Arg(1) = "currentA" /\ Arg(2) = "currentA" /\ Arg(3) = 8
         /\ pc = 14 => Op = "addi" /\ Arg(1) = "currentB" /\ Arg(2) = "currentB" /\ Arg(3) = 8
         /\ pc = 15 => Op = "sw" /\ Arg(1) = "currentA" /\ Arg(2) = 0 /\ Arg(3) = "pa"
         /\ pc = 16 => Op = "sw" /\ Arg(1) = "currentB" /\ Arg(2) = 4 /\ Arg(3) = "pa"
         /\ pc = 17 => Op = "addi" /\ Arg(1) = "aux" /\ Arg(2) = "aux" /\ Arg(3) = -1
         /\ pc = 18 => Op = "beq" /\ Arg(1) = "aux" /\ Arg(2) = 8
         /\ pc = 19 => Op = "jal" /\ Arg(1) = -36
         /\ pc = 20 => Op = "store" /\ Arg(1) = Scratch + 8
         /\ pc = 21 => Op = "sw" /\ Arg(1) = "a" /\ Arg(2) = 0 /\ Arg(3) = "pa"
         /\ pc = 22 => Op = "lui" /\ Arg(1) = "aux" /\ Arg(2) = 16
         /\ pc = 23 => Op = "addi" /\ Arg(1) = "aux" /\ Arg(2) = "aux" /\ Arg(3) = 8
         /\ pc = 24 => Op = "flw" /\ Arg(1) = "result" /\ Arg(2) = 0 /\ Arg(3) = "aux"
         /\ pc = 25 => Op = "flw" /\ Arg(1) = "aux1" /\ Arg(2) = 0 /\ Arg(3) = "currentA"
         /\ pc = 26 => Op = "flw" /\ Arg(1) = "aux2" /\ Arg(2) = 0 /\ Arg(3) = "currentB"
         /\ pc = 27 => Op = "fmul" /\ Arg(1) = "aux2" /\ Arg(2) = "aux1" /\ Arg(3) = "aux2"
         /\ pc = 28 => Op = "fadd" /\ Arg(1) = "result" /\ Arg(2) = "aux2" /\ Arg(3) = "result"
<1>1. ASSUME pc = 1 PROVE Op = "mv" /\ Arg(1) = "currentA" /\ Arg(2) = "a"
  BY <1>1 DEF Op, Trapped, Arg, Code
<1>2. ASSUME pc = 2 PROVE Op = "mv" /\ Arg(1) = "currentB" /\ Arg(2) = "b"
  BY <1>2 DEF Op, Trapped, Arg, Code
<1>3. ASSUME pc = 3 PROVE Op = "lui" /\ Arg(1) = "pa" /\ Arg(2) = 16
  BY <1>3 DEF Op, Trapped, Arg, Code
<1>4. ASSUME pc = 4 PROVE Op = "addi" /\ Arg(1) = "pa" /\ Arg(2) = "pa" /\ Arg(3) = 0
  BY <1>4 DEF Op, Trapped, Arg, Code
<1>5. ASSUME pc = 5 PROVE Op = "sw" /\ Arg(1) = "a" /\ Arg(2) = 0 /\ Arg(3) = "pa"
  BY <1>5 DEF Op, Trapped, Arg, Code
<1>6. ASSUME pc = 6 PROVE Op = "sw" /\ Arg(1) = "b" /\ Arg(2) = 4 /\ Arg(3) = "pa"
  BY <1>6 DEF Op, Trapped, Arg, Code
<1>7. ASSUME pc = 7 PROVE Op = "fsw" /\ Arg(1) = "bias" /\ Arg(2) = 8 /\ Arg(3) = "pa"
  BY <1>7 DEF Op, Trapped, Arg, Code
<1>8. ASSUME pc = 8 PROVE Op = "setacc" /\ Arg(1) = Scratch + 8
  BY <1>8 DEF Op, Trapped, Arg, Code
<1>9. ASSUME pc = 9 PROVE Op = "li" /\ Arg(1) = "aux" /\ Arg(2) = Iterations(n)
  BY <1>9 DEF Op, Trapped, Arg, Code
<1>10. ASSUME pc = 10 PROVE Op = "setpa" /\ Arg(1) = Scratch
  BY <1>10 DEF Op, Trapped, Arg, Code
<1>11. ASSUME pc = 11 PROVE Op = "setpb" /\ Arg(1) = Scratch + 4
  BY <1>11 DEF Op, Trapped, Arg, Code
<1>12. ASSUME pc = 12 PROVE Op = "macc"
  BY <1>12 DEF Op, Trapped, Arg, Code
<1>13. ASSUME pc = 13 PROVE Op = "addi" /\ Arg(1) = "currentA" /\ Arg(2) = "currentA" /\ Arg(3) = 8
  BY <1>13 DEF Op, Trapped, Arg, Code, Step
<1>14. ASSUME pc = 14 PROVE Op = "addi" /\ Arg(1) = "currentB" /\ Arg(2) = "currentB" /\ Arg(3) = 8
  BY <1>14 DEF Op, Trapped, Arg, Code, Step
<1>15. ASSUME pc = 15 PROVE Op = "sw" /\ Arg(1) = "currentA" /\ Arg(2) = 0 /\ Arg(3) = "pa"
  BY <1>15 DEF Op, Trapped, Arg, Code
<1>16. ASSUME pc = 16 PROVE Op = "sw" /\ Arg(1) = "currentB" /\ Arg(2) = 4 /\ Arg(3) = "pa"
  BY <1>16 DEF Op, Trapped, Arg, Code
<1>17. ASSUME pc = 17 PROVE Op = "addi" /\ Arg(1) = "aux" /\ Arg(2) = "aux" /\ Arg(3) = -1
  BY <1>17 DEF Op, Trapped, Arg, Code, Decrement
<1>18. ASSUME pc = 18 PROVE Op = "beq" /\ Arg(1) = "aux" /\ Arg(2) = 8
  BY <1>18 DEF Op, Trapped, Arg, Code
<1>19. ASSUME pc = 19 PROVE Op = "jal" /\ Arg(1) = -36
  BY <1>19 DEF Op, Trapped, Arg, Code, Back, LoopStart
<1>20. ASSUME pc = 20 PROVE Op = "store" /\ Arg(1) = Scratch + 8
  BY <1>20 DEF Op, Trapped, Arg, Code
<1>21. ASSUME pc = 21 PROVE Op = "sw" /\ Arg(1) = "a" /\ Arg(2) = 0 /\ Arg(3) = "pa"
  BY <1>21 DEF Op, Trapped, Arg, Code
<1>22. ASSUME pc = 22 PROVE Op = "lui" /\ Arg(1) = "aux" /\ Arg(2) = 16
  BY <1>22 DEF Op, Trapped, Arg, Code
<1>23. ASSUME pc = 23 PROVE Op = "addi" /\ Arg(1) = "aux" /\ Arg(2) = "aux" /\ Arg(3) = 8
  BY <1>23 DEF Op, Trapped, Arg, Code
<1>24. ASSUME pc = 24 PROVE Op = "flw" /\ Arg(1) = "result" /\ Arg(2) = 0 /\ Arg(3) = "aux"
  BY <1>24 DEF Op, Trapped, Arg, Code
<1>25. ASSUME pc = 25 PROVE Op = "flw" /\ Arg(1) = "aux1" /\ Arg(2) = 0 /\ Arg(3) = "currentA"
  BY <1>25 DEF Op, Trapped, Arg, Code
<1>26. ASSUME pc = 26 PROVE Op = "flw" /\ Arg(1) = "aux2" /\ Arg(2) = 0 /\ Arg(3) = "currentB"
  BY <1>26 DEF Op, Trapped, Arg, Code
<1>27. ASSUME pc = 27 PROVE Op = "fmul" /\ Arg(1) = "aux2" /\ Arg(2) = "aux1" /\ Arg(3) = "aux2"
  BY <1>27 DEF Op, Trapped, Arg, Code
<1>28. ASSUME pc = 28 PROVE Op = "fadd" /\ Arg(1) = "result" /\ Arg(2) = "aux2" /\ Arg(3) = "result"
  BY <1>28 DEF Op, Trapped, Arg, Code
<1> QED
  BY <1>1, <1>2, <1>3, <1>4, <1>5, <1>6, <1>7, <1>8, <1>9, <1>10, <1>11, <1>12, <1>13, <1>14, <1>15, <1>16, <1>17, <1>18, <1>19, <1>20, <1>21, <1>22, <1>23, <1>24, <1>25, <1>26, <1>27, <1>28

(* A step from each position.                                               *)
LEMMA Steps ==
  ASSUME Works, ~Finished, ints \in [IntRegisters -> Nat],
         pc >= 4 => ints["pa"] = Scratch
  PROVE  /\ pc = 1 => IntsTo("currentA", ints["a"])
         /\ pc = 2 => IntsTo("currentB", ints["b"])
         /\ pc = 3 => IntsTo("pa", Scratch)
         /\ pc = 4 => IntsTo("pa", Scratch)
         /\ pc = 5 => WordTo(1, ints["a"])
         /\ pc = 6 => WordTo(2, ints["b"])
         /\ pc = 7 => CellTo(floats["bias"]) /\ UNCHANGED floats
         /\ pc = 8 => FloatsTo("f19", FloatAt(Scratch + 8)) /\ UNCHANGED <<biasCell, loads>>
         /\ pc = 9 => IntsTo("aux", Count(n))
         /\ pc = 10 => IntsTo("x18", scratch[1])
         /\ pc = 11 => IntsTo("x19", scratch[2])
         /\ pc = 12 => /\ FloatsTo("f19", Maccumulated(floats["f19"], ints["x18"], ints["x19"]))
                        /\ loads' = loads \cup {ints["x18"], ints["x18"] + 4,
                                               ints["x19"], ints["x19"] + 4}
                        /\ UNCHANGED biasCell
         /\ pc = 13 => IntsTo("currentA", ints["currentA"] + 8)
         /\ pc = 14 => IntsTo("currentB", ints["currentB"] + 8)
         /\ pc = 15 => WordTo(1, ints["currentA"])
         /\ pc = 16 => WordTo(2, ints["currentB"])
         /\ pc = 17 => IntsTo("aux", Wrapped(ints["aux"] - 1))
         /\ pc = 18 => JumpTo(IF ints["aux"] = 0 THEN 20 ELSE 19)
         /\ pc = 19 => JumpTo(10)
         /\ pc = 20 => CellTo(floats["f19"]) /\ SetFloat("f19", Zero)
         /\ pc = 21 => WordTo(1, ints["a"])
         /\ pc = 22 => IntsTo("aux", Scratch)
         /\ pc = 23 => IntsTo("aux", ints["aux"] + 8)
         /\ pc = 24 => /\ FloatsTo("result", FloatAt(ints["aux"])) /\ Loaded(ints["aux"])
                        /\ UNCHANGED biasCell
         /\ pc = 25 => /\ FloatsTo("aux1", FloatAt(ints["currentA"])) /\ Loaded(ints["currentA"])
                        /\ UNCHANGED biasCell
         /\ pc = 26 => /\ FloatsTo("aux2", FloatAt(ints["currentB"])) /\ Loaded(ints["currentB"])
                        /\ UNCHANGED biasCell
         /\ pc = 27 => /\ FloatsTo("aux2", Product(floats["aux1"], floats["aux2"]))
                        /\ UNCHANGED <<biasCell, loads>>
         /\ pc = 28 => /\ FloatsTo("result", Plus(floats["aux2"], floats["result"]))
                        /\ UNCHANGED <<biasCell, loads>>
<1>1. pc >= 4 => /\ (ints["pa"] + 0 - Scratch) \div 4 + 1 = 1
                 /\ (ints["pa"] + 4 - Scratch) \div 4 + 1 = 2
  BY DEF Scratch
<1>2. (Scratch - Scratch) \div 4 + 1 = 1 /\ (Scratch + 4 - Scratch) \div 4 + 1 = 2
  BY DEF Scratch
<1>3. \A x \in Nat : x + 0 = x /\ x + (-1) = x - 1
  OBVIOUS
<1>4. /\ ints["pa"] \in Nat /\ ints["aux"] \in Nat
      /\ ints["currentA"] \in Nat /\ ints["currentB"] \in Nat
  BY DEF IntRegisters
<1>5. ASSUME pc = 1 PROVE IntsTo("currentA", ints["a"])
  BY <1>1, <1>2, <1>3, <1>4, <1>5, Fetched, Moves
<1>6. ASSUME pc = 2 PROVE IntsTo("currentB", ints["b"])
  BY <1>1, <1>2, <1>3, <1>4, <1>6, Fetched, Moves
<1>7. ASSUME pc = 3 PROVE IntsTo("pa", Scratch)
  BY <1>1, <1>2, <1>3, <1>4, <1>7, Fetched, Uppers DEF Scratch
<1>8. ASSUME pc = 4 PROVE IntsTo("pa", Scratch)
  BY <1>1, <1>2, <1>3, <1>4, <1>8, Fetched, Adds
<1>9. ASSUME pc = 5 PROVE WordTo(1, ints["a"])
  BY <1>1, <1>2, <1>3, <1>4, <1>9, Fetched, Words
<1>10. ASSUME pc = 6 PROVE WordTo(2, ints["b"])
  BY <1>1, <1>2, <1>3, <1>4, <1>10, Fetched, Words
<1>11. ASSUME pc = 7 PROVE CellTo(floats["bias"]) /\ UNCHANGED floats
  BY <1>1, <1>2, <1>3, <1>4, <1>11, Fetched, Dispatch DEF Fsw, CellTo, Next1
<1>12. ASSUME pc = 8 PROVE FloatsTo("f19", FloatAt(Scratch + 8)) /\ UNCHANGED <<biasCell, loads>>
  BY <1>1, <1>2, <1>3, <1>4, <1>12, Fetched, Dispatch DEF SetAcc, FloatsTo, Next1
<1>13. ASSUME pc = 9 PROVE IntsTo("aux", Count(n))
  BY <1>1, <1>2, <1>3, <1>4, <1>13, Fetched, Dispatch DEF Li, IntsTo, Next1, Count
<1>14. ASSUME pc = 10 PROVE IntsTo("x18", scratch[1])
  BY <1>1, <1>2, <1>3, <1>4, <1>14, Fetched, Dispatch DEF SetPA, IntsTo, Next1
<1>15. ASSUME pc = 11 PROVE IntsTo("x19", scratch[2])
  BY <1>1, <1>2, <1>3, <1>4, <1>15, Fetched, Dispatch DEF SetPB, IntsTo, Next1
<1>16. ASSUME pc = 12 PROVE /\ FloatsTo("f19", Maccumulated(floats["f19"], ints["x18"], ints["x19"]))
                           /\ loads' = loads \cup {ints["x18"], ints["x18"] + 4,
                                                  ints["x19"], ints["x19"] + 4}
                           /\ UNCHANGED biasCell
  BY <1>1, <1>2, <1>3, <1>4, <1>16, Fetched, Dispatch DEF Macc, MaccReads, FloatsTo, Next1
<1>17. ASSUME pc = 13 PROVE IntsTo("currentA", ints["currentA"] + 8)
  BY <1>1, <1>2, <1>3, <1>4, <1>17, Fetched, Adds
<1>18. ASSUME pc = 14 PROVE IntsTo("currentB", ints["currentB"] + 8)
  BY <1>1, <1>2, <1>3, <1>4, <1>18, Fetched, Adds
<1>19. ASSUME pc = 15 PROVE WordTo(1, ints["currentA"])
  BY <1>1, <1>2, <1>3, <1>4, <1>19, Fetched, Words
<1>20. ASSUME pc = 16 PROVE WordTo(2, ints["currentB"])
  BY <1>1, <1>2, <1>3, <1>4, <1>20, Fetched, Words
<1>21. ASSUME pc = 17 PROVE IntsTo("aux", Wrapped(ints["aux"] - 1))
  BY <1>1, <1>2, <1>3, <1>4, <1>21, Fetched, Adds
<1>22. ASSUME pc = 18 PROVE JumpTo(IF ints["aux"] = 0 THEN 20 ELSE 19)
  BY <1>1, <1>2, <1>3, <1>4, <1>22, Fetched, Dispatch DEF Beq, JumpTo
<1>23. ASSUME pc = 19 PROVE JumpTo(10)
  BY <1>1, <1>2, <1>3, <1>4, <1>23, Fetched, Dispatch DEF Jal, JumpTo
<1>24. ASSUME pc = 20 PROVE CellTo(floats["f19"]) /\ SetFloat("f19", Zero)
  BY <1>1, <1>2, <1>3, <1>4, <1>24, Fetched, Dispatch DEF Store, CellTo, Next1
<1>25. ASSUME pc = 21 PROVE WordTo(1, ints["a"])
  BY <1>1, <1>2, <1>3, <1>4, <1>25, Fetched, Words
<1>26. ASSUME pc = 22 PROVE IntsTo("aux", Scratch)
  BY <1>1, <1>2, <1>3, <1>4, <1>26, Fetched, Uppers DEF Scratch
<1>27. ASSUME pc = 23 PROVE IntsTo("aux", ints["aux"] + 8)
  BY <1>1, <1>2, <1>3, <1>4, <1>27, Fetched, Adds
<1>28. ASSUME pc = 24 PROVE /\ FloatsTo("result", FloatAt(ints["aux"])) /\ Loaded(ints["aux"])
                           /\ UNCHANGED biasCell
  BY <1>1, <1>2, <1>3, <1>4, <1>28, Fetched, Dispatch DEF Flw, FloatsTo, Next1, Loaded
<1>29. ASSUME pc = 25 PROVE /\ FloatsTo("aux1", FloatAt(ints["currentA"])) /\ Loaded(ints["currentA"])
                           /\ UNCHANGED biasCell
  BY <1>1, <1>2, <1>3, <1>4, <1>29, Fetched, Dispatch DEF Flw, FloatsTo, Next1, Loaded
<1>30. ASSUME pc = 26 PROVE /\ FloatsTo("aux2", FloatAt(ints["currentB"])) /\ Loaded(ints["currentB"])
                           /\ UNCHANGED biasCell
  BY <1>1, <1>2, <1>3, <1>4, <1>30, Fetched, Dispatch DEF Flw, FloatsTo, Next1, Loaded
<1>31. ASSUME pc = 27 PROVE /\ FloatsTo("aux2", Product(floats["aux1"], floats["aux2"]))
                           /\ UNCHANGED <<biasCell, loads>>
  BY <1>1, <1>2, <1>3, <1>4, <1>31, Fetched, Dispatch DEF Fmul, FloatsTo, Next1
<1>32. ASSUME pc = 28 PROVE /\ FloatsTo("result", Plus(floats["aux2"], floats["result"]))
                           /\ UNCHANGED <<biasCell, loads>>
  BY <1>1, <1>2, <1>3, <1>4, <1>32, Fetched, Dispatch DEF Fadd, FloatsTo, Next1
<1> QED
  BY <1>5, <1>6, <1>7, <1>8, <1>9, <1>10, <1>11, <1>12, <1>13, <1>14, <1>15, <1>16, <1>17, <1>18, <1>19, <1>20, <1>21, <1>22, <1>23, <1>24, <1>25, <1>26, <1>27, <1>28, <1>29, <1>30, <1>31, <1>32

-----------------------------------------------------------------------------
(* The counter.                                                             *)
LEMMA Constants ==
  /\ Half \in Nat \ {0} /\ ImmediateValues = 2 * Half
  /\ WordValues \in Nat /\ WordValues >= 2 * Half
<1> DEFINE h == ImmediateValues \div 2
<1>1. ImmediateValues \in Nat \ {0} /\ ImmediateValues % 2 = 0 /\ WordValues \in Nat
      /\ WordValues >= ImmediateValues
  BY ValuesAssumption
<1>2. h \in Nat /\ ImmediateValues = 2 * h + (ImmediateValues % 2)
  BY <1>1
<1>3. ImmediateValues = 2 * h /\ h \in Nat \ {0}
  BY <1>1, <1>2
<1> QED BY <1>1, <1>3 DEF Half

LEMMA Remainders ==
  ASSUME NEW m \in Nat \ {0}, NEW x \in Int
  PROVE  /\ x % m \in 0 .. m - 1
         /\ x \in 0 .. m - 1 => x % m = x
         /\ x \in -m .. -1 => x % m = x + m
<1>1. x % m \in 0 .. m - 1
  OBVIOUS
<1>2. x \in 0 .. m - 1 => x % m = x
  OBVIOUS
<1>3. x \in -m .. -1 => x % m = x + m
  OBVIOUS
<1> QED BY <1>1, <1>2, <1>3

(* The value of a count as a signed immediate.                              *)
LEMMA Signed ==
  ASSUME NEW i \in Nat
  PROVE  /\ Cut(i) \in -Half .. Half - 1
         /\ \E q \in Nat : i = (ImmediateValues * q) + Cut(i)
         /\ i \in 0 .. Half - 1 => Cut(i) = i
<1> DEFINE h == Half
           m == ImmediateValues
           c == Cut(i)
<1>0. h \in Nat \ {0} /\ m = 2 * h /\ c = ((i + h) % m) - h
  BY Constants DEF Cut
<1> HIDE DEF h, m, c
<1>1. m \in Nat \ {0} /\ i + h \in Nat
  BY <1>0
<1>2. (i + h) % m \in 0 .. m - 1 /\ (i + h) % m = c + h
  BY <1>0, <1>1, Remainders
<1>3. PICK q \in Int : i + h = (m * q) + (c + h)
  <2>1. i + h = (m * ((i + h) \div m)) + ((i + h) % m) /\ (i + h) \div m \in Int
    <3> DEFINE x == i + h
    <3>1. x \in Int
      BY <1>1
    <3> HIDE DEF x
    <3>2. x = (m * (x \div m)) + (x % m) /\ x \div m \in Int
      BY <1>1, <3>1
    <3> QED BY <3>2 DEF x
  <2> QED BY <1>2, <2>1
<1>4. c \in -h .. h - 1
  BY <1>0, <1>2
<1>5. m * q \in Int
  BY <1>0
<1>6. i = (m * q) + c
  BY <1>0, <1>3, <1>4, <1>5
<1>7. q \in Nat
  <2>1. ASSUME q <= -1 PROVE m * q <= -m
    BY <2>1, <1>1
  <2> QED BY <2>1, <1>0, <1>1, <1>3, <1>4, <1>5
<1>8. i \in 0 .. h - 1 => c = i
  <2>1. \A x \in 0 .. m - 1 : x % m = x
    BY <1>1
  <2>2. i \in 0 .. h - 1 => i + h \in 0 .. m - 1
    BY <1>0
  <2> QED BY <2>1, <2>2, <1>0, <1>2, <1>4
<1> QED BY <1>4, <1>6, <1>7, <1>8 DEF h, m, c

LEMMA Divided ==
  ASSUME NEW length \in Nat
  PROVE  /\ Iterations(length) \in Nat
         /\ length = 2 * Iterations(length) + (length % 2)
         /\ length % 2 \in 0 .. 1
  BY DEF Iterations

(* The loop runs as often as there are pairs exactly for the lengths within *)
(* reach: any other count is zero, or has lost a multiple of the values of  *)
(* the immediate, and the counter does not have enough to make up for it.   *)
LEMMA Counted ==
  ASSUME NEW length \in Lengths
  PROVE  /\ length \in Nat
         /\ Count(length) \in 0 .. WordValues - 1
         /\ Turns(length) \in 1 .. WordValues
         /\ Turns(length) = Iterations(length) <=> Iterations(length) \in 1 .. Half - 1
<1> DEFINE i == Iterations(length)
           w == WordValues
           h == Half
           c == Cut(i)
<1>1. length \in Nat /\ length <= w - 1
  BY LengthsAssumption, Constants
<1>2. i \in Nat /\ 2 * i <= w - 1
  BY <1>1, Divided, Constants
<1>3. /\ c \in -h .. h - 1
      /\ \E q \in Nat : i = (ImmediateValues * q) + c
      /\ i \in 0 .. h - 1 => c = i
  BY <1>2, Signed
<1>4. Count(length) = IF c >= 0 THEN c ELSE c + w
  <2>1. Count(length) = c % w
    BY DEF Count, Wrapped
  <2>2. w \in Nat \ {0}
    BY Constants
  <2> HIDE DEF c, i, w
  <2>3. \A x \in Int : x \in 0 .. w - 1 => x % w = x
    BY <2>2, Remainders
  <2>4. \A x \in Int : x \in -w .. -1 => x % w = x + w
    BY <2>2, Remainders
  <2>5. c \in Int /\ c <= w - 1 /\ -w <= c
    BY <1>3, Constants DEF w
  <2> QED BY <2>1, <2>2, <2>3, <2>4, <2>5
<1>5. Turns(length) = IF c > 0 THEN c ELSE c + w
  BY <1>3, <1>4, Constants DEF Turns
<1>6. /\ h \in Nat \ {0} /\ ImmediateValues = 2 * h /\ w \in Nat /\ w >= 2 * h
  BY Constants
<1>7. ASSUME i \notin 1 .. h - 1 PROVE Turns(length) # i
  <2> HIDE DEF i, w, h, c
  <2>1. PICK q \in Nat : i = (ImmediateValues * q) + c
    BY <1>3
  <2>2. CASE q = 0
    BY <2>1, <2>2, <1>2, <1>3, <1>5, <1>6, <1>7
  <2>3. CASE q # 0
    <3>1. ImmediateValues * q >= ImmediateValues
      BY <2>3, <1>6
    <3>2. i \in Int /\ c \in Int /\ ImmediateValues * q \in Int
      BY <1>2, <1>3, <1>6
    <3>3. i > c
      BY <2>1, <1>6, <3>1, <3>2
    <3>4. i < c + w
      BY <1>2, <1>3, <1>6
    <3> QED BY <3>3, <3>4, <3>2, <1>5
  <2> QED BY <2>2, <2>3
<1> HIDE DEF i, w, h, c
<1>8. Turns(length) = i <=> i \in 1 .. h - 1
  BY <1>2, <1>3, <1>5, <1>6, <1>7
<1>9. Count(length) \in 0 .. w - 1 /\ Turns(length) \in 1 .. w
  BY <1>3, <1>4, <1>5, <1>6
<1> QED BY <1>1, <1>8, <1>9 DEF i, w, h

-----------------------------------------------------------------------------
(* The sums.                                                                *)
LEMMA SequenceFacts ==
  ASSUME NEW S, NEW s \in Seq(S), NEW e \in S
  PROVE  /\ s \o <<e>> \in Seq(S) /\ Len(s \o <<e>>) = Len(s) + 1
         /\ \A i \in 1 .. Len(s) : (s \o <<e>>)[i] = s[i]
         /\ (s \o <<e>>)[Len(s) + 1] = e
  OBVIOUS

LEMMA Factors ==
  ASSUME NEW x \in Int, NEW f \in BOOLEAN
  PROVE  Biased(f) \in Int /\ FactorAt(x, f) \in Int
  BY DEF FactorAt, Biased, Bias, Garbage, Pointer

LEMMA Terms ==
  ASSUME NEW i \in Int, NEW f \in BOOLEAN, NEW v, v.a \in Int, v.b \in Int
  PROVE  Term(i, v, f) \in Seq(Int)
<1>1. v.a + 4 * (i - 1) \in Int /\ v.b + 4 * (i - 1) \in Int
  OBVIOUS
<1>2. /\ FactorAt(v.a + 4 * (i - 1), f) \in Int
      /\ FactorAt(v.b + 4 * (i - 1), f) \in Int
  BY <1>1, Factors
<1> QED BY <1>2 DEF Term

LEMMA NothingSummed ==
  ASSUME NEW f \in BOOLEAN, NEW v
  PROVE  Summed(Single(Biased(f)), 0, v, f)
<1>1. Biased(f) \in Int
  BY Factors
<1> QED BY <1>1 DEF Summed, Single

LEMMA OneMore ==
  ASSUME NEW f \in BOOLEAN, NEW v, v.a \in Int, v.b \in Int, NEW k \in Nat,
         NEW s, Summed(s, k, v, f)
  PROVE  Summed(s \o <<Term(k + 1, v, f)>>, k + 1, v, f)
<1> DEFINE t == Term(k + 1, v, f)
           u == s \o <<t>>
<1>1. t \in Seq(Int)
  BY Terms
<1>2. /\ s \in Seq(Seq(Int)) /\ Len(s) = k + 1 /\ s[1] = <<Biased(f)>>
      /\ \A i \in 1 .. k : s[i + 1] = Term(i, v, f)
  BY DEF Summed
<1> HIDE DEF t
<1>3. /\ u \in Seq(Seq(Int)) /\ Len(u) = Len(s) + 1
      /\ \A i \in 1 .. Len(s) : u[i] = s[i]
      /\ u[Len(s) + 1] = t
  BY <1>1, <1>2, SequenceFacts
<1> HIDE DEF u
<1>4. \A i \in 1 .. k + 1 : u[i + 1] = Term(i, v, f)
  <2> TAKE i \in 1 .. k + 1
  <2>1. CASE i = k + 1
    BY <2>1, <1>2, <1>3 DEF t
  <2>2. CASE i \in 1 .. k
    BY <2>2, <1>2, <1>3
  <2> QED BY <2>1, <2>2
<1>5. u[1] = <<Biased(f)>> /\ Len(u) = (k + 1) + 1
  BY <1>2, <1>3
<1>6. Summed(u, k + 1, v, f)
  BY <1>3, <1>4, <1>5 DEF Summed
<1> QED BY <1>6 DEF u, t

(* What a product is made of: the first factor of what is read.             *)
LEMMA Read ==
  ASSUME NEW f \in BOOLEAN, NEW x \in Int, biasCell[1] = <<Biased(f)>>
  PROVE  FloatAt(x)[1] = <<FactorAt(x, f)>>
  BY DEF FloatAt, FactorAt, Single

LEMMA Multiplied ==
  ASSUME NEW p, NEW q, NEW x \in Int, NEW y \in Int, p[1] = <<x>>, q[1] = <<y>>
  PROVE  Product(p, q) = << <<x, y>> >>
<1>1. <<x>> \o <<y>> = <<x, y>>
  <2> DEFINE s == <<x>>
             u == s \o <<y>>
  <2>1. s \in Seq(Int) /\ Len(s) = 1 /\ s[1] = x
    OBVIOUS
  <2> HIDE DEF s
  <2>2. /\ u \in Seq(Int) /\ Len(u) = Len(s) + 1
        /\ \A i \in 1 .. Len(s) : u[i] = s[i]
        /\ u[Len(s) + 1] = y
    BY <2>1, SequenceFacts
  <2> HIDE DEF u
  <2>3. u \in Seq(Int) /\ Len(u) = 2 /\ u[1] = x /\ u[2] = y
    BY <2>1, <2>2
  <2>4. u = <<x, y>>
    BY <2>3
  <2> QED BY <2>4 DEF u, s
<1> QED BY <1>1 DEF Product

(* The sum that the code should make, element by element.                   *)
LEMMA SameSequence ==
  ASSUME NEW S, NEW s \in Seq(S), NEW t \in Seq(S), Len(s) = Len(t),
         \A i \in 1 .. Len(s) : s[i] = t[i]
  PROVE  s = t
  OBVIOUS

Exact(i) == <<vectors.a + 4 * (i - 1), vectors.b + 4 * (i - 1)>>

LEMMA Places ==
  ASSUME Given
  PROVE  /\ vectors.a \in Nat /\ vectors.b \in Nat
         /\ n \in Nat /\ floatBias \in BOOLEAN
  BY AddressesAssumption, Counted DEF Given

LEMMA Wanted ==
  ASSUME Given, NEW x \in Int, NEW k \in Nat
  PROVE  LET w == Single(x) \o Products(k)
         IN /\ w \in Seq(Seq(Int)) /\ Len(w) = k + 1 /\ w[1] = <<x>>
            /\ \A i \in 1 .. k : w[i + 1] = Exact(i)
<1> DEFINE s == Single(x)
           t == Products(k)
<1>1. s \in Seq(Seq(Int)) /\ Len(s) = 1 /\ s[1] = <<x>>
  BY DEF Single
<1>2. \A i \in 1 .. k : Exact(i) \in Seq(Int)
  BY Places DEF Exact
<1>3. t = [i \in 1 .. k |-> Exact(i)]
  BY DEF Products, Exact
<1>4. t \in Seq(Seq(Int)) /\ Len(t) = k /\ \A i \in 1 .. k : t[i] = Exact(i)
  <2> HIDE DEF t
  <2> QED BY <1>2, <1>3
<1> HIDE DEF s, t
<1>5. /\ s \o t \in Seq(Seq(Int)) /\ Len(s \o t) = Len(s) + Len(t)
      /\ \A i \in 1 .. Len(s) : (s \o t)[i] = s[i]
      /\ \A i \in 1 .. Len(t) : (s \o t)[Len(s) + i] = t[i]
  <2>1. s \in Seq(Seq(Int)) /\ t \in Seq(Seq(Int))
    BY <1>1, <1>4
  <2>2. s \o t \in Seq(Seq(Int)) /\ Len(s \o t) = Len(s) + Len(t)
    BY <2>1
  <2>3. \A i \in 1 .. Len(s) : (s \o t)[i] = s[i]
    BY <2>1
  <2>4. \A i \in 1 .. Len(t) : (s \o t)[Len(s) + i] = t[i]
    BY <2>1
  <2> QED BY <2>2, <2>3, <2>4
<1> DEFINE w == s \o t
<1> HIDE DEF w
<1>6. /\ w \in Seq(Seq(Int)) /\ Len(w) = k + 1 /\ w[1] = <<x>>
      /\ \A i \in 1 .. k : w[i + 1] = Exact(i)
  <2>1. /\ w \in Seq(Seq(Int)) /\ Len(w) = Len(s) + Len(t)
        /\ \A i \in 1 .. Len(s) : w[i] = s[i]
        /\ \A i \in 1 .. Len(t) : w[Len(s) + i] = t[i]
    BY <1>5 DEF w
  <2>2. w \in Seq(Seq(Int)) /\ Len(w) = k + 1 /\ w[1] = <<x>>
    BY <2>1, <1>1, <1>4
  <2>3. ASSUME NEW i \in 1 .. k PROVE w[i + 1] = Exact(i)
    BY <2>1, <1>1, <1>4
  <2> QED BY <2>2, <2>3
<1> QED BY <1>6 DEF w, s, t

(* A term is the product of two elements unless one of the addresses is one *)
(* of the accelerator's words.                                              *)
AcceleratorWords == {Scratch, Scratch + 4, Scratch + 8}
LEMMA TermsOfElements ==
  ASSUME Given, NEW i \in Nat \ {0}
  PROVE  Term(i, vectors, floatBias) = Exact(i)
           <=> /\ vectors.a + 4 * (i - 1) \notin AcceleratorWords
               /\ vectors.b + 4 * (i - 1) \notin AcceleratorWords
<1>1. \A x \in Nat : FactorAt(x, floatBias) = x <=> x \notin AcceleratorWords
  BY DEF FactorAt, Biased, Bias, Garbage, Pointer, AcceleratorWords, Scratch
<1>2. vectors.a + 4 * (i - 1) \in Nat /\ vectors.b + 4 * (i - 1) \in Nat
  BY Places
<1> QED BY <1>1, <1>2 DEF Term, Exact

(* What has been summed up is what it should be exactly when every element  *)
(* of the vectors has been, the bias is a float and the vectors are clear   *)
(* of the accelerator's words.                                              *)
LEMMA Value ==
  ASSUME Given, NEW k \in Nat, NEW s, Summed(s, k, vectors, floatBias)
  PROVE  s = Single(Bias) \o Products(n) <=> k = n /\ floatBias /\ Clear
<1> DEFINE w == Single(Bias) \o Products(n)
<1>1. n \in Nat /\ Bias \in Int
  BY Places DEF Bias
<1>2. /\ w \in Seq(Seq(Int)) /\ Len(w) = n + 1 /\ w[1] = <<Bias>>
      /\ \A i \in 1 .. n : w[i + 1] = Exact(i)
  BY <1>1, Wanted
<1> HIDE DEF w
<1>3. /\ s \in Seq(Seq(Int)) /\ Len(s) = k + 1 /\ s[1] = <<Biased(floatBias)>>
      /\ \A i \in 1 .. k : s[i + 1] = Term(i, vectors, floatBias)
  BY DEF Summed
<1>4. Biased(floatBias) = Bias <=> floatBias
  BY Places DEF Biased, Bias, Garbage
<1>5. Clear <=> \A i \in 1 .. n : Term(i, vectors, floatBias) = Exact(i)
  <2>1. Clear <=> \A i \in 1 .. n : /\ vectors.a + 4 * (i - 1) \notin AcceleratorWords
                                   /\ vectors.b + 4 * (i - 1) \notin AcceleratorWords
    <3>1. ASSUME Clear, NEW i \in 1 .. n
          PROVE  /\ vectors.a + 4 * (i - 1) \notin AcceleratorWords
                 /\ vectors.b + 4 * (i - 1) \notin AcceleratorWords
      <4>1. i - 1 \in 0 .. n - 1
        BY <1>1
      <4> QED BY <3>1, <4>1 DEF Clear, AcceleratorWords
    <3>2. ASSUME \A i \in 1 .. n : /\ vectors.a + 4 * (i - 1) \notin AcceleratorWords
                                  /\ vectors.b + 4 * (i - 1) \notin AcceleratorWords,
                 NEW base \in {vectors.a, vectors.b}, NEW i \in 0 .. n - 1
          PROVE  base + 4 * i \notin {Scratch, Scratch + 4, Scratch + 8}
      <4>1. i + 1 \in 1 .. n /\ (i + 1) - 1 = i
        BY <1>1
      <4> QED BY <3>2, <4>1 DEF AcceleratorWords
    <3> QED BY <3>1, <3>2 DEF Clear
  <2>2. \A i \in 1 .. n : Term(i, vectors, floatBias) = Exact(i)
           <=> /\ vectors.a + 4 * (i - 1) \notin AcceleratorWords
               /\ vectors.b + 4 * (i - 1) \notin AcceleratorWords
    BY <1>1, TermsOfElements
  <2> QED BY <2>1, <2>2
<1>6. ASSUME s = w PROVE k = n /\ floatBias /\ Clear
  <2>1. k = n
    BY <1>6, <1>1, <1>2, <1>3
  <2>2. floatBias
    BY <1>6, <1>2, <1>3, <1>4
  <2>3. Clear
    BY <1>6, <1>2, <1>3, <1>5, <2>1
  <2> QED BY <2>1, <2>2, <2>3
<1>7. ASSUME k = n, floatBias, Clear PROVE s = w
  <2>1. \A i \in 1 .. n : s[i + 1] = w[i + 1]
    BY <1>7, <1>2, <1>3, <1>5
  <2>2. s[1] = w[1]
    BY <1>7, <1>2, <1>3, <1>4
  <2>3. ASSUME NEW j \in 1 .. Len(s) PROVE s[j] = w[j]
    <3>1. CASE j = 1
      BY <3>1, <2>2
    <3>2. CASE j # 1
      <4>1. j - 1 \in 1 .. n /\ (j - 1) + 1 = j
        BY <3>2, <1>1, <1>3, <1>7
      <4> QED BY <4>1, <2>1
    <3> QED BY <3>1, <3>2
  <2> QED BY <2>3, <1>1, <1>2, <1>3, <1>7, SameSequence
<1> QED BY <1>6, <1>7 DEF w

(* In the loop the sum is a beginning of it.                                *)
LEMMA Beginning ==
  ASSUME Given, NEW k \in 0 .. n, NEW s, Summed(s, k, vectors, floatBias), Clear
  PROVE  s = Single(Biased(floatBias)) \o Products(k)
<1> DEFINE w == Single(Biased(floatBias)) \o Products(k)
<1>1. n \in Nat /\ k \in Nat /\ Biased(floatBias) \in Int
  BY Places, Factors
<1>2. /\ w \in Seq(Seq(Int)) /\ Len(w) = k + 1 /\ w[1] = <<Biased(floatBias)>>
      /\ \A i \in 1 .. k : w[i + 1] = Exact(i)
  BY <1>1, Wanted
<1> HIDE DEF w
<1>3. /\ s \in Seq(Seq(Int)) /\ Len(s) = k + 1 /\ s[1] = <<Biased(floatBias)>>
      /\ \A i \in 1 .. k : s[i + 1] = Term(i, vectors, floatBias)
  BY DEF Summed
<1>4. ASSUME NEW i \in 1 .. k PROVE Term(i, vectors, floatBias) = Exact(i)
  <2>1. i - 1 \in 0 .. n - 1 /\ i \in Nat \ {0}
    BY <1>1
  <2>2. /\ vectors.a + 4 * (i - 1) \notin AcceleratorWords
        /\ vectors.b + 4 * (i - 1) \notin AcceleratorWords
    BY <2>1 DEF Clear, AcceleratorWords
  <2> QED BY <2>1, <2>2, TermsOfElements
<1>5. ASSUME NEW j \in 1 .. Len(s) PROVE s[j] = w[j]
  <2>1. CASE j = 1
    BY <2>1, <1>2, <1>3
  <2>2. CASE j # 1
    <3>1. j - 1 \in 1 .. k /\ (j - 1) + 1 = j
      BY <2>2, <1>1, <1>3
    <3> QED BY <3>1, <1>2, <1>3, <1>4
  <2> QED BY <2>1, <2>2
<1> QED BY <1>2, <1>3, <1>5, SameSequence DEF w

-----------------------------------------------------------------------------
(* The invariant holds initially.                                           *)
LEMMA InitInv ==
  ASSUME Init
  PROVE  AccInv
<1>1. n \in Nat /\ vectors.a \in Nat /\ vectors.b \in Nat
  BY Counted, AddressesAssumption DEF Init
<1>2. ints \in [IntRegisters -> Nat]
  BY <1>1 DEF Init, IntRegisters
<1>3. TypeOK
  BY <1>1, <1>2, Constants DEF Init, TypeOK, Size, IntRegisters
<1>4. Given
  BY DEF Init, Given, IntRegisters, FloatRegisters, Biased
<1>5. Prepared /\ Turning /\ Stored /\ Last
  BY DEF Init, Prepared, Turning, Stored, Last
<1>6. Reading
  BY DEF Init, Reading
<1>7. TrapsOutOfReach
  BY DEF Init, TrapsOutOfReach, Trapped
<1> QED BY <1>3, <1>4, <1>5, <1>6, <1>7 DEF AccInv

LEMMA Where ==
  ASSUME AccInv
  PROVE  /\ Size(n) \in {24, 28} /\ pc \in 0 .. Size(n) + 1
         /\ Works /\ ~Finished => pc \in 1 .. Size(n) /\ pc \in 1 .. 28
         /\ ints \in [IntRegisters -> Nat] /\ (pc >= 4 => ints["pa"] = Scratch)
  BY DEF AccInv, TypeOK, Size, Prepared, Finished, Works, Trapped

(* Types, and what is given.                                                *)
LEMMA TypesStep ==
  ASSUME AccInv, Works, ~Finished
  PROVE  TypeOK' /\ Given'
<1>1. /\ Size(n) \in {24, 28} /\ pc \in 1 .. Size(n) /\ pc \in 1 .. 28
      /\ ints \in [IntRegisters -> Nat] /\ DOMAIN floats = FloatRegisters
      /\ scratch \in Nat \X Nat
      /\ ints["aux"] \in 0 .. WordValues - 1 \/ pc > 22
  BY Where DEF AccInv, TypeOK, Finished, Works, Trapped
<1>2. /\ n \in Lengths /\ floatBias \in BOOLEAN
      /\ vectors \in [a : Addresses, b : Addresses]
      /\ ints["a"] = vectors.a /\ ints["b"] = vectors.b
      /\ floats["bias"] = Single(Biased(floatBias))
  BY DEF AccInv, Given
<1>3. pc >= 4 => ints["pa"] = Scratch
  BY Where
<1>4. /\ Count(n) \in 0 .. WordValues - 1 /\ Scratch \in Nat
      /\ \A x \in Int : Wrapped(x) \in 0 .. WordValues - 1
  <2>1. WordValues \in Nat \ {0}
    BY Constants
  <2>2. \A x \in Int : x % WordValues \in 0 .. WordValues - 1
    BY <2>1
  <2> QED BY <1>2, <2>2, Counted DEF Wrapped, Scratch
<1>5. ASSUME pc = 1 PROVE TypeOK' /\ Given'
  BY <1>1, <1>2, <1>3, <1>4, <1>5, Steps
     DEF TypeOK, Given, IntsTo, SetInt, IntRegisters, FloatRegisters
<1>6. ASSUME pc = 2 PROVE TypeOK' /\ Given'
  BY <1>1, <1>2, <1>3, <1>4, <1>6, Steps
     DEF TypeOK, Given, IntsTo, SetInt, IntRegisters, FloatRegisters
<1>7. ASSUME pc = 3 PROVE TypeOK' /\ Given'
  BY <1>1, <1>2, <1>3, <1>4, <1>7, Steps
     DEF TypeOK, Given, IntsTo, SetInt, IntRegisters, FloatRegisters
<1>8. ASSUME pc = 4 PROVE TypeOK' /\ Given'
  BY <1>1, <1>2, <1>3, <1>4, <1>8, Steps
     DEF TypeOK, Given, IntsTo, SetInt, IntRegisters, FloatRegisters
<1>9. ASSUME pc = 5 PROVE TypeOK' /\ Given'
  BY <1>1, <1>2, <1>3, <1>4, <1>9, Steps
     DEF TypeOK, Given, WordTo, IntRegisters, FloatRegisters
<1>10. ASSUME pc = 6 PROVE TypeOK' /\ Given'
  BY <1>1, <1>2, <1>3, <1>4, <1>10, Steps
     DEF TypeOK, Given, WordTo, IntRegisters, FloatRegisters
<1>11. ASSUME pc = 7 PROVE TypeOK' /\ Given'
  BY <1>1, <1>2, <1>3, <1>4, <1>11, Steps
     DEF TypeOK, Given, CellTo, SetFloat, IntRegisters, FloatRegisters
<1>12. ASSUME pc = 8 PROVE TypeOK' /\ Given'
  BY <1>1, <1>2, <1>3, <1>4, <1>12, Steps
     DEF TypeOK, Given, FloatsTo, SetFloat, IntRegisters, FloatRegisters
<1>13. ASSUME pc = 9 PROVE TypeOK' /\ Given'
  BY <1>1, <1>2, <1>3, <1>4, <1>13, Steps
     DEF TypeOK, Given, IntsTo, SetInt, IntRegisters, FloatRegisters
<1>14. ASSUME pc = 10 PROVE TypeOK' /\ Given'
  BY <1>1, <1>2, <1>3, <1>4, <1>14, Steps
     DEF TypeOK, Given, IntsTo, SetInt, IntRegisters, FloatRegisters
<1>15. ASSUME pc = 11 PROVE TypeOK' /\ Given'
  BY <1>1, <1>2, <1>3, <1>4, <1>15, Steps
     DEF TypeOK, Given, IntsTo, SetInt, IntRegisters, FloatRegisters
<1>16. ASSUME pc = 12 PROVE TypeOK' /\ Given'
  BY <1>1, <1>2, <1>3, <1>4, <1>16, Steps
     DEF TypeOK, Given, FloatsTo, SetFloat, IntRegisters, FloatRegisters
<1>17. ASSUME pc = 13 PROVE TypeOK' /\ Given'
  BY <1>1, <1>2, <1>3, <1>4, <1>17, Steps
     DEF TypeOK, Given, IntsTo, SetInt, IntRegisters, FloatRegisters
<1>18. ASSUME pc = 14 PROVE TypeOK' /\ Given'
  BY <1>1, <1>2, <1>3, <1>4, <1>18, Steps
     DEF TypeOK, Given, IntsTo, SetInt, IntRegisters, FloatRegisters
<1>19. ASSUME pc = 15 PROVE TypeOK' /\ Given'
  BY <1>1, <1>2, <1>3, <1>4, <1>19, Steps
     DEF TypeOK, Given, WordTo, IntRegisters, FloatRegisters
<1>20. ASSUME pc = 16 PROVE TypeOK' /\ Given'
  BY <1>1, <1>2, <1>3, <1>4, <1>20, Steps
     DEF TypeOK, Given, WordTo, IntRegisters, FloatRegisters
<1>21. ASSUME pc = 17 PROVE TypeOK' /\ Given'
  BY <1>1, <1>2, <1>3, <1>4, <1>21, Steps
     DEF TypeOK, Given, IntsTo, SetInt, IntRegisters, FloatRegisters
<1>22. ASSUME pc = 18 PROVE TypeOK' /\ Given'
  BY <1>1, <1>2, <1>3, <1>4, <1>22, Steps
     DEF TypeOK, Given, JumpTo, IntRegisters, FloatRegisters
<1>23. ASSUME pc = 19 PROVE TypeOK' /\ Given'
  BY <1>1, <1>2, <1>3, <1>4, <1>23, Steps
     DEF TypeOK, Given, JumpTo, IntRegisters, FloatRegisters
<1>24. ASSUME pc = 20 PROVE TypeOK' /\ Given'
  BY <1>1, <1>2, <1>3, <1>4, <1>24, Steps
     DEF TypeOK, Given, CellTo, SetFloat, IntRegisters, FloatRegisters
<1>25. ASSUME pc = 21 PROVE TypeOK' /\ Given'
  BY <1>1, <1>2, <1>3, <1>4, <1>25, Steps
     DEF TypeOK, Given, WordTo, IntRegisters, FloatRegisters
<1>26. ASSUME pc = 22 PROVE TypeOK' /\ Given'
  BY <1>1, <1>2, <1>3, <1>4, <1>26, Steps
     DEF TypeOK, Given, IntsTo, SetInt, IntRegisters, FloatRegisters
<1>27. ASSUME pc = 23 PROVE TypeOK' /\ Given'
  BY <1>1, <1>2, <1>3, <1>4, <1>27, Steps
     DEF TypeOK, Given, IntsTo, SetInt, IntRegisters, FloatRegisters
<1>28. ASSUME pc = 24 PROVE TypeOK' /\ Given'
  BY <1>1, <1>2, <1>3, <1>4, <1>28, Steps
     DEF TypeOK, Given, FloatsTo, SetFloat, IntRegisters, FloatRegisters
<1>29. ASSUME pc = 25 PROVE TypeOK' /\ Given'
  BY <1>1, <1>2, <1>3, <1>4, <1>29, Steps
     DEF TypeOK, Given, FloatsTo, SetFloat, IntRegisters, FloatRegisters
<1>30. ASSUME pc = 26 PROVE TypeOK' /\ Given'
  BY <1>1, <1>2, <1>3, <1>4, <1>30, Steps
     DEF TypeOK, Given, FloatsTo, SetFloat, IntRegisters, FloatRegisters
<1>31. ASSUME pc = 27 PROVE TypeOK' /\ Given'
  BY <1>1, <1>2, <1>3, <1>4, <1>31, Steps
     DEF TypeOK, Given, FloatsTo, SetFloat, IntRegisters, FloatRegisters
<1>32. ASSUME pc = 28 PROVE TypeOK' /\ Given'
  BY <1>1, <1>2, <1>3, <1>4, <1>32, Steps
     DEF TypeOK, Given, FloatsTo, SetFloat, IntRegisters, FloatRegisters
<1> QED
  BY <1>1, <1>5, <1>6, <1>7, <1>8, <1>9, <1>10, <1>11, <1>12, <1>13, <1>14, <1>15, <1>16, <1>17, <1>18, <1>19, <1>20, <1>21, <1>22, <1>23, <1>24, <1>25, <1>26, <1>27, <1>28, <1>29, <1>30, <1>31, <1>32

(* Before the loop.                                                         *)
LEMMA PreparedStep ==
  ASSUME AccInv, Works, ~Finished
  PROVE  Prepared'
<1>1. /\ pc \in 1 .. 28 /\ ints \in [IntRegisters -> Nat] /\ DOMAIN floats = FloatRegisters
      /\ scratch \in Nat \X Nat
  BY Where DEF AccInv, TypeOK
<1>2. /\ ints["a"] = vectors.a /\ ints["b"] = vectors.b
      /\ floats["bias"] = Single(Biased(floatBias))
  BY DEF AccInv, Given
<1>3. Prepared /\ (pc >= 4 => ints["pa"] = Scratch)
  BY Where DEF AccInv
<1>4. ASSUME pc = 1 PROVE Prepared'
  BY <1>1, <1>2, <1>3, <1>4, Steps
     DEF Prepared, IntsTo, SetInt, IntRegisters, FloatRegisters
<1>5. ASSUME pc = 2 PROVE Prepared'
  BY <1>1, <1>2, <1>3, <1>5, Steps
     DEF Prepared, IntsTo, SetInt, IntRegisters, FloatRegisters
<1>6. ASSUME pc = 3 PROVE Prepared'
  BY <1>1, <1>2, <1>3, <1>6, Steps
     DEF Prepared, IntsTo, SetInt, IntRegisters, FloatRegisters
<1>7. ASSUME pc = 4 PROVE Prepared'
  BY <1>1, <1>2, <1>3, <1>7, Steps
     DEF Prepared, IntsTo, SetInt, IntRegisters, FloatRegisters
<1>8. ASSUME pc = 5 PROVE Prepared'
  BY <1>1, <1>2, <1>3, <1>8, Steps
     DEF Prepared, WordTo, IntRegisters, FloatRegisters
<1>9. ASSUME pc = 6 PROVE Prepared'
  BY <1>1, <1>2, <1>3, <1>9, Steps
     DEF Prepared, WordTo, IntRegisters, FloatRegisters
<1>10. ASSUME pc = 7 PROVE Prepared'
  BY <1>1, <1>2, <1>3, <1>10, Steps
     DEF Prepared, CellTo, SetFloat, IntRegisters, FloatRegisters
<1>11. ASSUME pc = 8 PROVE Prepared'
  BY <1>1, <1>2, <1>3, <1>11, Steps
     DEF Prepared, FloatsTo, SetFloat, IntRegisters, FloatRegisters, FloatAt
<1>12. ASSUME pc = 9 PROVE Prepared'
  BY <1>1, <1>2, <1>3, <1>12, Steps
     DEF Prepared, IntsTo, SetInt, IntRegisters, FloatRegisters
<1>13. ASSUME pc = 10 PROVE Prepared'
  BY <1>1, <1>2, <1>3, <1>13, Steps
     DEF Prepared, IntsTo, SetInt, IntRegisters, FloatRegisters
<1>14. ASSUME pc = 11 PROVE Prepared'
  BY <1>1, <1>2, <1>3, <1>14, Steps
     DEF Prepared, IntsTo, SetInt, IntRegisters, FloatRegisters
<1>15. ASSUME pc = 12 PROVE Prepared'
  BY <1>1, <1>2, <1>3, <1>15, Steps
     DEF Prepared, FloatsTo, SetFloat, IntRegisters, FloatRegisters
<1>16. ASSUME pc = 13 PROVE Prepared'
  BY <1>1, <1>2, <1>3, <1>16, Steps
     DEF Prepared, IntsTo, SetInt, IntRegisters, FloatRegisters
<1>17. ASSUME pc = 14 PROVE Prepared'
  BY <1>1, <1>2, <1>3, <1>17, Steps
     DEF Prepared, IntsTo, SetInt, IntRegisters, FloatRegisters
<1>18. ASSUME pc = 15 PROVE Prepared'
  BY <1>1, <1>2, <1>3, <1>18, Steps
     DEF Prepared, WordTo, IntRegisters, FloatRegisters
<1>19. ASSUME pc = 16 PROVE Prepared'
  BY <1>1, <1>2, <1>3, <1>19, Steps
     DEF Prepared, WordTo, IntRegisters, FloatRegisters
<1>20. ASSUME pc = 17 PROVE Prepared'
  BY <1>1, <1>2, <1>3, <1>20, Steps
     DEF Prepared, IntsTo, SetInt, IntRegisters, FloatRegisters
<1>21. ASSUME pc = 18 PROVE Prepared'
  BY <1>1, <1>2, <1>3, <1>21, Steps
     DEF Prepared, JumpTo, IntRegisters, FloatRegisters
<1>22. ASSUME pc = 19 PROVE Prepared'
  BY <1>1, <1>2, <1>3, <1>22, Steps
     DEF Prepared, JumpTo, IntRegisters, FloatRegisters
<1>23. ASSUME pc = 20 PROVE Prepared'
  BY <1>1, <1>2, <1>3, <1>23, Steps
     DEF Prepared, CellTo, SetFloat, IntRegisters, FloatRegisters
<1>24. ASSUME pc = 21 PROVE Prepared'
  BY <1>1, <1>2, <1>3, <1>24, Steps
     DEF Prepared, WordTo, IntRegisters, FloatRegisters
<1>25. ASSUME pc = 22 PROVE Prepared'
  BY <1>1, <1>2, <1>3, <1>25, Steps
     DEF Prepared, IntsTo, SetInt, IntRegisters, FloatRegisters
<1>26. ASSUME pc = 23 PROVE Prepared'
  BY <1>1, <1>2, <1>3, <1>26, Steps
     DEF Prepared, IntsTo, SetInt, IntRegisters, FloatRegisters
<1>27. ASSUME pc = 24 PROVE Prepared'
  BY <1>1, <1>2, <1>3, <1>27, Steps
     DEF Prepared, FloatsTo, SetFloat, IntRegisters, FloatRegisters
<1>28. ASSUME pc = 25 PROVE Prepared'
  BY <1>1, <1>2, <1>3, <1>28, Steps
     DEF Prepared, FloatsTo, SetFloat, IntRegisters, FloatRegisters
<1>29. ASSUME pc = 26 PROVE Prepared'
  BY <1>1, <1>2, <1>3, <1>29, Steps
     DEF Prepared, FloatsTo, SetFloat, IntRegisters, FloatRegisters
<1>30. ASSUME pc = 27 PROVE Prepared'
  BY <1>1, <1>2, <1>3, <1>30, Steps
     DEF Prepared, FloatsTo, SetFloat, IntRegisters, FloatRegisters
<1>31. ASSUME pc = 28 PROVE Prepared'
  BY <1>1, <1>2, <1>3, <1>31, Steps
     DEF Prepared, FloatsTo, SetFloat, IntRegisters, FloatRegisters
<1> QED
  BY <1>1, <1>4, <1>5, <1>6, <1>7, <1>8, <1>9, <1>10, <1>11, <1>12, <1>13, <1>14, <1>15, <1>16, <1>17, <1>18, <1>19, <1>20, <1>21, <1>22, <1>23, <1>24, <1>25, <1>26, <1>27, <1>28, <1>29, <1>30, <1>31

(* The loop. A step in turn k stays in it, but for the two at the end.      *)
LEMMA Rigid ==
  ASSUME Works
  PROVE  n' = n /\ vectors' = vectors /\ floatBias' = floatBias
  BY DEF Works, Next, Mv, Lui, Li, Addi, Sw, Fsw, Flw, Fmul, Fadd, Beq, Jal,
         SetAcc, SetPA, SetPB, Macc, Store, Trap, End, Next1, vars

(* One instruction of the accelerator adds two products.                    *)
LEMMA TwoMore ==
  ASSUME AccInv, pc = 12, NEW k \in Nat, NEW s,
         Summed(s, 2 * k, vectors, floatBias)
  PROVE  Summed(Maccumulated(s, vectors.a + 8 * k, vectors.b + 8 * k),
                2 * k + 2, vectors, floatBias)
<1> DEFINE x == vectors.a + 8 * k
           y == vectors.b + 8 * k
           f == floatBias
<1>1. /\ x \in Int /\ y \in Int /\ f \in BOOLEAN
      /\ vectors.a \in Int /\ vectors.b \in Int /\ 2 * k \in Nat
  BY Places DEF AccInv
<1>2. biasCell[1] = <<Biased(f)>>
  BY DEF AccInv, Prepared, Single
<1>3. /\ Product(FloatAt(x), FloatAt(y)) = <<Term(2 * k + 1, vectors, f)>>
      /\ Product(FloatAt(x + 4), FloatAt(y + 4)) = <<Term(2 * k + 2, vectors, f)>>
  <2>1. /\ x = vectors.a + 4 * ((2 * k + 1) - 1) /\ x + 4 = vectors.a + 4 * ((2 * k + 2) - 1)
        /\ y = vectors.b + 4 * ((2 * k + 1) - 1) /\ y + 4 = vectors.b + 4 * ((2 * k + 2) - 1)
    BY <1>1
  <2> HIDE DEF x, y, f
  <2>2. /\ FloatAt(x)[1] = <<FactorAt(x, f)>> /\ FloatAt(x + 4)[1] = <<FactorAt(x + 4, f)>>
        /\ FloatAt(y)[1] = <<FactorAt(y, f)>> /\ FloatAt(y + 4)[1] = <<FactorAt(y + 4, f)>>
    BY <1>1, <1>2, Read
  <2>3. /\ FactorAt(x, f) \in Int /\ FactorAt(x + 4, f) \in Int
        /\ FactorAt(y, f) \in Int /\ FactorAt(y + 4, f) \in Int
    BY <1>1, Factors
  <2>4. /\ Product(FloatAt(x), FloatAt(y)) = << <<FactorAt(x, f), FactorAt(y, f)>> >>
        /\ Product(FloatAt(x + 4), FloatAt(y + 4))
             = << <<FactorAt(x + 4, f), FactorAt(y + 4, f)>> >>
    BY <2>2, <2>3, Multiplied
  <2> QED BY <2>1, <2>4 DEF Term
<1>4. Summed(s \o <<Term(2 * k + 1, vectors, f)>>, 2 * k + 1, vectors, f)
  BY <1>1, OneMore
<1>5. Summed((s \o <<Term(2 * k + 1, vectors, f)>>) \o <<Term((2 * k + 1) + 1, vectors, f)>>,
             (2 * k + 1) + 1, vectors, f)
  BY <1>1, <1>4, OneMore
<1>6. (2 * k + 1) + 1 = 2 * k + 2
  BY <1>1
<1> QED BY <1>3, <1>5, <1>6 DEF Maccumulated

LEMMA TurningStep ==
  ASSUME AccInv, Works, ~Finished
  PROVE  Turning'
<1>1. /\ pc \in 1 .. 28 /\ ints \in [IntRegisters -> Nat] /\ DOMAIN floats = FloatRegisters
      /\ scratch \in Nat \X Nat
  BY Where DEF AccInv, TypeOK
<1>2. n' = n /\ vectors' = vectors /\ floatBias' = floatBias
  BY Rigid
<1>3. /\ vectors.a \in Nat /\ vectors.b \in Nat /\ floatBias \in BOOLEAN
  BY Places DEF AccInv
<1>4. /\ Count(n) \in 0 .. WordValues - 1 /\ Turns(n) \in 1 .. WordValues
      /\ WordValues \in Nat
  BY Counted, Constants DEF AccInv, Given
<1>5. pc >= 4 => ints["pa"] = Scratch
  BY Where
<1>6. ASSUME pc \in 1 .. 8 \/ pc >= 20 PROVE Turning'
  <2>1. pc' = pc + 1
    BY <1>1, <1>5, <1>6, Steps DEF IntsTo, WordTo, CellTo, FloatsTo
  <2>2. pc' \notin 10 .. 19
    BY <1>1, <1>6, <2>1
  <2> QED BY <2>2 DEF Turning
<1>7. ASSUME pc = 9 PROVE Turning'
  <2>1. /\ pc' = 10 /\ ints' = [ints EXCEPT !["aux"] = Count(n)]
        /\ scratch' = scratch /\ floats' = floats
    BY <1>1, <1>5, <1>7, Steps DEF IntsTo, SetInt
  <2>2. /\ ints["currentA"] = vectors.a /\ ints["currentB"] = vectors.b
        /\ scratch[1] = vectors.a /\ scratch[2] = vectors.b
        /\ floats["f19"] = Single(Biased(floatBias))
    BY <1>7 DEF AccInv, Prepared
  <2>3. Summed(Single(Biased(floatBias)), 0, vectors, floatBias)
    BY <1>3, NothingSummed
  <2>4. Turn(0)'
    BY <1>1, <1>2, <1>3, <1>4, <2>1, <2>2, <2>3 DEF Turn, IntRegisters
  <2> QED BY <1>4, <1>2, <2>1, <2>4 DEF Turning
<1>8. ASSUME pc \in 10 .. 19
      PROVE  Turning'
  <2>1. PICK k \in 0 .. Turns(n) - 1 : Turn(k)
    BY <1>8 DEF AccInv, Turning
  <2>2. k \in Nat /\ k + 1 <= Turns(n) /\ Turns(n) \in Nat
    BY <1>4
  <2>3. ASSUME pc = 10 PROVE Turn(k)' /\ pc' = 11
    BY <1>1, <1>2, <1>3, <1>5, <2>1, <2>2, <2>3, Steps
       DEF Turn, IntsTo, SetInt, IntRegisters
  <2>4. ASSUME pc = 11 PROVE Turn(k)' /\ pc' = 12
    BY <1>1, <1>2, <1>3, <1>5, <2>1, <2>2, <2>4, Steps
       DEF Turn, IntsTo, SetInt, IntRegisters
  <2>5. ASSUME pc = 13 PROVE Turn(k)' /\ pc' = 14
    BY <1>1, <1>2, <1>3, <1>5, <2>1, <2>2, <2>5, Steps
       DEF Turn, IntsTo, SetInt, IntRegisters
  <2>6. ASSUME pc = 14 PROVE Turn(k)' /\ pc' = 15
    BY <1>1, <1>2, <1>3, <1>5, <2>1, <2>2, <2>6, Steps
       DEF Turn, IntsTo, SetInt, IntRegisters
  <2>7. ASSUME pc = 15 PROVE Turn(k)' /\ pc' = 16
    BY <1>1, <1>2, <1>3, <1>5, <2>1, <2>2, <2>7, Steps
       DEF Turn, WordTo, IntRegisters
  <2>8. ASSUME pc = 16 PROVE Turn(k)' /\ pc' = 17
    BY <1>1, <1>2, <1>3, <1>5, <2>1, <2>2, <2>8, Steps
       DEF Turn, WordTo, IntRegisters
  <2>9. ASSUME pc = 12 PROVE Turn(k)' /\ pc' = 13
    <3>1. /\ Summed(floats["f19"], 2 * k, vectors, floatBias)
          /\ ints["x18"] = vectors.a + 8 * k /\ ints["x19"] = vectors.b + 8 * k
      BY <2>1, <2>9 DEF Turn
    <3>2. Summed(Maccumulated(floats["f19"], ints["x18"], ints["x19"]),
                 2 * k + 2, vectors, floatBias)
      BY <2>2, <2>9, <3>1, TwoMore
    <3>3. /\ floats' = [floats EXCEPT !["f19"]
                         = Maccumulated(floats["f19"], ints["x18"], ints["x19"])]
          /\ pc' = 13 /\ ints' = ints /\ scratch' = scratch
      BY <1>1, <1>5, <2>9, Steps DEF FloatsTo, SetFloat
    <3>4. Summed(floats["f19"], 2 * k + 2, vectors, floatBias)'
      BY <1>1, <1>2, <3>2, <3>3 DEF FloatRegisters
    <3> QED BY <1>2, <2>1, <2>9, <3>3, <3>4 DEF Turn
  <2>10. ASSUME pc = 17 PROVE Turn(k)' /\ pc' = 18
    <3>1. ints["aux"] = IF k = 0 THEN Count(n) ELSE Turns(n) - k
      BY <2>1, <2>10 DEF Turn
    <3>2. Wrapped(ints["aux"] - 1) = Turns(n) - (k + 1)
      <4>1. WordValues \in Nat \ {0}
        BY <1>4
      <4>2. \A x \in Int : x \in 0 .. WordValues - 1 => x % WordValues = x
        BY <4>1
      <4>3. \A x \in Int : x \in -WordValues .. -1 => x % WordValues = x + WordValues
        BY <4>1
      <4>4. CASE ints["aux"] = 0
        BY <4>3, <4>4, <1>4, <2>2, <3>1 DEF Wrapped, Turns
      <4>5. CASE ints["aux"] # 0
        <5>1. ints["aux"] - 1 = Turns(n) - (k + 1)
          BY <4>5, <1>4, <2>2, <3>1 DEF Turns
        <5> QED BY <5>1, <4>2, <1>4, <2>2 DEF Wrapped
      <4> QED BY <4>4, <4>5
    <3>3. /\ ints' = [ints EXCEPT !["aux"] = Turns(n) - (k + 1)] /\ pc' = 18
          /\ floats' = floats /\ scratch' = scratch
      BY <1>1, <1>5, <2>10, <3>2, Steps DEF IntsTo, SetInt
    <3> QED BY <1>1, <1>2, <2>1, <2>2, <2>10, <3>3 DEF Turn, IntRegisters
  <2>11. ASSUME pc = 18 PROVE Turning'
    <3>1. /\ pc' = (IF ints["aux"] = 0 THEN 20 ELSE 19)
          /\ ints' = ints /\ floats' = floats /\ scratch' = scratch
      BY <1>1, <1>5, <2>11, Steps DEF JumpTo
    <3>2. ASSUME ints["aux"] # 0 PROVE Turn(k)'
      BY <1>2, <2>1, <2>2, <2>11, <3>1, <3>2 DEF Turn
    <3> QED BY <1>2, <2>2, <3>1, <3>2 DEF Turning
  <2>12. ASSUME pc = 19 PROVE Turning'
    <3>1. pc' = 10 /\ ints' = ints /\ floats' = floats /\ scratch' = scratch
      BY <1>1, <1>5, <2>12, Steps DEF JumpTo
    <3>2. k + 1 \in 0 .. Turns(n) - 1
      BY <2>1, <2>2, <2>12 DEF Turn
    <3>3. 2 * k + 2 = 2 * (k + 1) /\ k + 1 # 0
      BY <2>2
    <3>4. Turn(k + 1)'
      BY <1>2, <2>1, <2>2, <2>12, <3>1, <3>3 DEF Turn
    <3> QED BY <1>2, <3>1, <3>2, <3>4 DEF Turning
  <2> QED
    BY <1>2, <1>8, <2>2, <2>3, <2>4, <2>5, <2>6, <2>7, <2>8, <2>9, <2>10, <2>11, <2>12 DEF Turning
<1> QED
  BY <1>1, <1>6, <1>7, <1>8

(* Behind the loop, and what is read.                                       *)
LEMMA StoredStep ==
  ASSUME AccInv, Works, ~Finished
  PROVE  Stored'
<1>1. /\ pc \in 1 .. 28 /\ ints \in [IntRegisters -> Nat] /\ DOMAIN floats = FloatRegisters
      /\ (pc >= 4 => ints["pa"] = Scratch) /\ Stored
  BY Where DEF AccInv, TypeOK
<1>2. n' = n /\ vectors' = vectors /\ floatBias' = floatBias
  BY Rigid
<1>3. ASSUME pc \in 1 .. 17 \/ pc = 19 PROVE Stored'
  <2>1. pc' = IF pc = 19 THEN 10 ELSE pc + 1
    BY <1>1, <1>3, Steps DEF IntsTo, WordTo, CellTo, FloatsTo, JumpTo
  <2>2. ~(pc' >= 20)
    BY <1>1, <1>3, <2>1
  <2> QED BY <2>2 DEF Stored
<1>4. ASSUME pc = 18 PROVE Stored'
  <2>1. PICK k \in 0 .. Turns(n) - 1 : Turn(k)
    BY <1>4 DEF AccInv, Turning
  <2>2. Turns(n) \in Nat
    BY Counted, Constants DEF AccInv, Given
  <2>3. /\ ints["currentA"] = vectors.a + 8 * (k + 1)
        /\ ints["currentB"] = vectors.b + 8 * (k + 1)
        /\ Summed(floats["f19"], 2 * k + 2, vectors, floatBias)
        /\ ints["aux"] = Turns(n) - (k + 1)
    BY <1>4, <2>1 DEF Turn
  <2>4. /\ pc' = (IF ints["aux"] = 0 THEN 20 ELSE 19)
        /\ ints' = ints /\ floats' = floats
    BY <1>1, <1>4, Steps DEF JumpTo
  <2>5. ASSUME ints["aux"] = 0 PROVE k + 1 = Turns(n) /\ 2 * k + 2 = 2 * Turns(n)
    BY <2>2, <2>3, <2>5
  <2> QED BY <1>2, <2>3, <2>4, <2>5 DEF Stored
<1>5. ASSUME pc = 20 PROVE Stored'
  <2>1. /\ biasCell' = floats["f19"] /\ pc' = 21 /\ ints' = ints
    BY <1>1, <1>5, Steps DEF CellTo
  <2> QED BY <1>1, <1>2, <1>5, <2>1 DEF Stored
<1>6. ASSUME pc \in 21 .. 28 PROVE Stored'
  <2>1. /\ Summed(biasCell, 2 * Turns(n), vectors, floatBias)
        /\ ints["currentA"] = vectors.a + 8 * Turns(n)
        /\ ints["currentB"] = vectors.b + 8 * Turns(n)
        /\ pc = 23 => ints["aux"] = Scratch
    BY <1>1, <1>6 DEF Stored
  <2>2. biasCell' = biasCell /\ pc' = pc + 1
    BY <1>1, <1>6, Steps DEF IntsTo, WordTo, FloatsTo
  <2>3. ints' = IF pc = 22 THEN [ints EXCEPT !["aux"] = Scratch]
                ELSE IF pc = 23 THEN [ints EXCEPT !["aux"] = ints["aux"] + 8] ELSE ints
    BY <1>1, <1>6, Steps DEF IntsTo, SetInt, WordTo, FloatsTo
  <2>4. Summed(biasCell, 2 * Turns(n), vectors, floatBias)'
    BY <1>2, <2>1, <2>2
  <2> QED BY <1>1, <1>2, <1>6, <2>1, <2>2, <2>3, <2>4 DEF Stored, IntRegisters
<1> QED BY <1>1, <1>3, <1>4, <1>5, <1>6

LEMMA LastStep ==
  ASSUME AccInv, Works, ~Finished
  PROVE  Last'
<1>1. /\ pc \in 1 .. 28 /\ ints \in [IntRegisters -> Nat] /\ DOMAIN floats = FloatRegisters
      /\ (pc >= 4 => ints["pa"] = Scratch) /\ Stored /\ Last
  BY Where DEF AccInv, TypeOK
<1>2. n' = n /\ vectors' = vectors /\ floatBias' = floatBias
  BY Rigid
<1>3. /\ vectors.a \in Nat /\ vectors.b \in Nat /\ floatBias \in BOOLEAN
      /\ Turns(n) \in Nat
  BY Places, Counted, Constants DEF AccInv, Given
<1>4. ASSUME pc \in 1 .. 23 PROVE Last'
  <2>1. pc' \in 1 .. 24
    BY <1>1, <1>4, Steps DEF IntsTo, WordTo, CellTo, FloatsTo, JumpTo
  <2>2. pc' \notin 25 .. 28 /\ pc' \notin 26 .. 27 /\ pc' # 27 /\ pc' # 28 /\ pc' # 29
    BY <2>1
  <2> QED BY <2>2 DEF Last
<1> DEFINE pairs == 2 * Turns(n)
<1>5. pairs \in Nat
  BY <1>3
<1>6. ASSUME pc > 20
      PROVE  Summed(biasCell, pairs, vectors, floatBias) /\ biasCell[1] = <<Biased(floatBias)>>
  BY <1>1, <1>6, SMTT(30) DEF Stored, Summed
<1>7. ASSUME pc = 24 PROVE Last'
  <2>1. FloatAt(ints["aux"]) = biasCell
    BY <1>1, <1>7 DEF Stored, FloatAt
  <2>2. floats' = [floats EXCEPT !["result"] = biasCell] /\ pc' = 25
    BY <1>1, <1>7, <2>1, Steps DEF FloatsTo, SetFloat
  <2>3. Summed(floats["result"], pairs, vectors, floatBias)'
    BY <1>1, <1>2, <1>6, <1>7, <2>2 DEF FloatRegisters
  <2> QED BY <2>2, <2>3 DEF Last
<1>8. ASSUME pc = 25 PROVE Last'
  <2>1. floats' = [floats EXCEPT !["aux1"] = FloatAt(ints["currentA"])] /\ pc' = 26
    BY <1>1, <1>8, Steps DEF FloatsTo, SetFloat
  <2>2. ints["currentA"] = vectors.a + 4 * pairs /\ vectors.a + 4 * pairs \in Int
    BY <1>1, <1>3, <1>8 DEF Stored
  <2>3. FloatAt(ints["currentA"])[1] = <<FactorAt(vectors.a + 4 * pairs, floatBias)>>
    BY <1>3, <1>6, <1>8, <2>2, Read
  <2>4. Summed(floats["result"], pairs, vectors, floatBias)
    BY <1>1, <1>8 DEF Last
  <2>5. Summed(floats["result"], pairs, vectors, floatBias)'
    BY <1>1, <1>2, <2>1, <2>4 DEF FloatRegisters
  <2>6. floats["aux1"][1]' = <<FactorAt(vectors.a + 4 * pairs, floatBias)>>'
    BY <1>1, <1>2, <2>1, <2>3 DEF FloatRegisters
  <2> QED BY <2>1, <2>5, <2>6 DEF Last
<1>9. ASSUME pc = 26 PROVE Last'
  <2>1. floats' = [floats EXCEPT !["aux2"] = FloatAt(ints["currentB"])] /\ pc' = 27
    BY <1>1, <1>9, Steps DEF FloatsTo, SetFloat
  <2>2. ints["currentB"] = vectors.b + 4 * pairs /\ vectors.b + 4 * pairs \in Int
    BY <1>1, <1>3, <1>9 DEF Stored
  <2>3. FloatAt(ints["currentB"])[1] = <<FactorAt(vectors.b + 4 * pairs, floatBias)>>
    BY <1>3, <1>6, <1>9, <2>2, Read
  <2>4. /\ Summed(floats["result"], pairs, vectors, floatBias)
        /\ floats["aux1"][1] = <<FactorAt(vectors.a + 4 * pairs, floatBias)>>
    BY <1>1, <1>9 DEF Last
  <2>5. /\ Summed(floats["result"], pairs, vectors, floatBias)'
        /\ floats["aux1"][1]' = <<FactorAt(vectors.a + 4 * pairs, floatBias)>>'
    BY <1>1, <1>2, <2>1, <2>4 DEF FloatRegisters
  <2>6. floats["aux2"][1]' = <<FactorAt(vectors.b + 4 * pairs, floatBias)>>'
    BY <1>1, <1>2, <2>1, <2>3 DEF FloatRegisters
  <2> QED BY <2>1, <2>5, <2>6 DEF Last
<1>10. ASSUME pc = 27 PROVE Last'
  <2>1. /\ floats' = [floats EXCEPT !["aux2"] = Product(floats["aux1"], floats["aux2"])]
        /\ pc' = 28
    BY <1>1, <1>10, Steps DEF FloatsTo, SetFloat
  <2>2. /\ Summed(floats["result"], pairs, vectors, floatBias)
        /\ floats["aux1"][1] = <<FactorAt(vectors.a + 4 * pairs, floatBias)>>
        /\ floats["aux2"][1] = <<FactorAt(vectors.b + 4 * pairs, floatBias)>>
    BY <1>1, <1>10 DEF Last
  <2>3. /\ FactorAt(vectors.a + 4 * pairs, floatBias) \in Int
        /\ FactorAt(vectors.b + 4 * pairs, floatBias) \in Int
    BY <1>3, <1>5, Factors
  <2>4. (pairs + 1) - 1 = pairs
    BY <1>5
  <2>5. Product(floats["aux1"], floats["aux2"]) = <<Term(pairs + 1, vectors, floatBias)>>
    BY <2>2, <2>3, <2>4, Multiplied DEF Term
  <2>6. Summed(floats["result"], pairs, vectors, floatBias)'
    BY <1>1, <1>2, <2>1, <2>2 DEF FloatRegisters
  <2>7. floats["aux2"]' = <<Term(pairs + 1, vectors, floatBias)>>'
    BY <1>1, <1>2, <2>1, <2>5 DEF FloatRegisters
  <2> QED BY <2>1, <2>6, <2>7 DEF Last
<1>11. ASSUME pc = 28 PROVE Last'
  <2>1. /\ floats' = [floats EXCEPT !["result"] = Plus(floats["aux2"], floats["result"])]
        /\ pc' = 29
    BY <1>1, <1>11, Steps DEF FloatsTo, SetFloat
  <2>2. /\ Summed(floats["result"], pairs, vectors, floatBias)
        /\ floats["aux2"] = <<Term(pairs + 1, vectors, floatBias)>>
    BY <1>1, <1>11 DEF Last
  <2>3. Plus(floats["aux2"], floats["result"])
          = floats["result"] \o <<Term(pairs + 1, vectors, floatBias)>>
    BY <2>2 DEF Plus
  <2>4. Summed(floats["result"] \o <<Term(pairs + 1, vectors, floatBias)>>, pairs + 1,
               vectors, floatBias)
    BY <1>3, <1>5, <2>2, OneMore
  <2>5. Summed(floats["result"], pairs + 1, vectors, floatBias)'
    BY <1>1, <1>2, <2>1, <2>3, <2>4 DEF FloatRegisters
  <2> QED BY <2>1, <2>5 DEF Last
<1> QED BY <1>1, <1>4, <1>7, <1>8, <1>9, <1>10, <1>11

(* What macc and the loads of the last element are about to read.           *)
LEMMA NextReads ==
  ASSUME AccInv, InReach
  PROVE  /\ pc = 12 => MaccReads \subseteq Elements(vectors, n)
         /\ pc \in {25, 26} /\ ~Finished =>
              ints["currentA"] \in Elements(vectors, n) /\ ints["currentB"] \in Elements(vectors, n)
<1>1. /\ vectors.a \in Nat /\ vectors.b \in Nat /\ n \in Nat
      /\ n = 2 * Iterations(n) + (n % 2) /\ n % 2 \in 0 .. 1 /\ Iterations(n) \in Nat
  BY Places, Divided DEF AccInv
<1>2. Turns(n) = Iterations(n)
  BY Counted DEF AccInv, Given, InReach
<1>3. \A i \in 0 .. n - 1 : /\ vectors.a + 4 * i \in Elements(vectors, n)
                            /\ vectors.b + 4 * i \in Elements(vectors, n)
  BY DEF Elements
<1>4. ASSUME pc = 12 PROVE MaccReads \subseteq Elements(vectors, n)
  <2>1. PICK k \in 0 .. Turns(n) - 1 : Turn(k)
    BY <1>4 DEF AccInv, Turning
  <2>2. ints["x18"] = vectors.a + 8 * k /\ ints["x19"] = vectors.b + 8 * k
    BY <1>4, <2>1 DEF Turn
  <2>3. 2 * k \in 0 .. n - 1 /\ 2 * k + 1 \in 0 .. n - 1
    BY <1>1, <1>2, <2>1
  <2>4. /\ vectors.a + 8 * k = vectors.a + 4 * (2 * k)
        /\ vectors.b + 8 * k = vectors.b + 4 * (2 * k)
        /\ vectors.a + 8 * k + 4 = vectors.a + 4 * (2 * k + 1)
        /\ vectors.b + 8 * k + 4 = vectors.b + 4 * (2 * k + 1)
    BY <1>1, <2>1
  <2> QED BY <1>3, <2>2, <2>3, <2>4 DEF MaccReads
<1>5. ASSUME pc \in {25, 26}, ~Finished
      PROVE  ints["currentA"] \in Elements(vectors, n) /\ ints["currentB"] \in Elements(vectors, n)
  <2>1. n - 1 = 2 * Turns(n) /\ n - 1 \in 0 .. n - 1
    BY <1>1, <1>2, <1>5 DEF Finished, Size, InReach, AccInv, TypeOK
  <2>2. ints["currentA"] = vectors.a + 4 * (n - 1) /\ ints["currentB"] = vectors.b + 4 * (n - 1)
    BY <1>1, <1>2, <1>5, <2>1 DEF AccInv, Stored
  <2> QED BY <1>3, <2>1, <2>2
<1> QED BY <1>4, <1>5

LEMMA ReadingStep ==
  ASSUME AccInv, Works, ~Finished
  PROVE  Reading'
<1>1. pc \in 1 .. 28 /\ (pc >= 4 => ints["pa"] = Scratch)
  BY Where
<1>2. n' = n /\ vectors' = vectors
  BY Rigid
<1>3. SUFFICES ASSUME InReach PROVE loads' \subseteq Elements(vectors, n)
  BY <1>2 DEF Reading, InReach
<1>4. loads \subseteq Elements(vectors, n)
  BY <1>3 DEF AccInv, Reading
<1>5. ASSUME pc \in 1 .. 28 \ {12, 25, 26} PROVE loads' \subseteq Elements(vectors, n)
  <2>1. pc = 24 => ints["aux"] = Scratch + 8
    BY DEF AccInv, Stored
  <2>2. loads' = loads
    BY <1>1, <1>5, <2>1, Steps, Where
       DEF IntsTo, WordTo, CellTo, FloatsTo, JumpTo, Loaded, AccInv
  <2> QED BY <1>4, <2>2
<1>6. ASSUME pc = 12 PROVE loads' \subseteq Elements(vectors, n)
  <2>1. loads' = loads \cup MaccReads
    BY <1>1, <1>6, Steps, Where DEF MaccReads
  <2> QED BY <1>3, <1>4, <1>6, <2>1, NextReads
<1>7. ASSUME pc \in {25, 26} PROVE loads' \subseteq Elements(vectors, n)
  <2>1. Loaded(ints["currentA"]) \/ Loaded(ints["currentB"])
    BY <1>1, <1>7, Steps, Where
  <2> QED BY <1>3, <1>4, <1>7, <2>1, NextReads DEF Loaded
<1> QED BY <1>1, <1>5, <1>6, <1>7

(* What is read from the vectors is theirs when the length is in reach, and *)
(* the accelerator's words are in the memory: a trap has another reason.    *)
LEMMA TrapStep ==
  ASSUME AccInv, Trap
  PROVE  AccInv'
<1>1. /\ pc' = 0 /\ Faulting
      /\ UNCHANGED <<n, vectors, floatBias, ints, floats, scratch, biasCell, loads>>
  BY DEF Trap
<1>2. ~Finished /\ ~Trapped
  BY <1>1 DEF Faulting, Op
<1>3. pc \in 1 .. 28
  BY <1>2 DEF AccInv, TypeOK, Size, Finished, Trapped
<1>4. /\ Op = "macc" => pc = 12
      /\ Op = "flw" => pc \in {24, 25, 26}
  BY <1>2, <1>3, Fetched
<1>5. ASSUME InReach, InMemory PROVE FALSE
  <2>1. CASE pc = 12
    <3>1. MaccReads \subseteq Memory /\ Op = "macc"
      BY <1>2, <1>5, <2>1, NextReads, Fetched DEF InMemory
    <3> QED BY <1>1, <3>1 DEF Faulting
  <2>2. CASE pc = 24
    <3>1. ints["aux"] = Scratch + 8 /\ Op = "flw" /\ Arg(2) = 0 /\ Arg(3) = "aux"
      BY <1>2, <2>2, Fetched DEF AccInv, Stored
    <3>2. ints["aux"] + 0 \in Memory
      BY <3>1, MemoryAssumption DEF Scratch
    <3> QED BY <1>1, <3>1, <3>2 DEF Faulting
  <2>3. CASE pc \in {25, 26}
    <3>1. /\ Op = "flw" /\ Arg(2) = 0 /\ Arg(3) \in {"currentA", "currentB"}
      BY <1>2, <2>3, Fetched
    <3>2. ints[Arg(3)] \in Memory /\ ints[Arg(3)] \in Nat
      <4>1. ints["currentA"] \in Memory /\ ints["currentB"] \in Memory
        BY <1>2, <1>5, <2>3, NextReads DEF InMemory
      <4> QED BY <3>1, <4>1 DEF AccInv, TypeOK, IntRegisters
    <3> QED BY <1>1, <3>1, <3>2 DEF Faulting
  <2> QED BY <1>1, <1>4, <2>1, <2>2, <2>3 DEF Faulting
<1>6. TrapsOutOfReach'
  BY <1>1, <1>5 DEF TrapsOutOfReach, InReach, InMemory
<1>7. TypeOK' /\ Given' /\ Reading'
  BY <1>1 DEF AccInv, TypeOK, Given, Reading, InReach, Trapped, Size
<1>8. Prepared' /\ Turning' /\ Stored' /\ Last'
  BY <1>1 DEF Prepared, Turning, Stored, Last
<1> QED BY <1>6, <1>7, <1>8 DEF AccInv

LEMMA Unchanged ==
  ASSUME AccInv, UNCHANGED vars
  PROVE  AccInv'
BY DEF vars, AccInv, TypeOK, Given, Prepared, Turning, Turn, Stored, Last,
       Reading, InReach, TrapsOutOfReach, InMemory, Trapped

LEMMA NextInv ==
  ASSUME AccInv, [Next]_vars
  PROVE  AccInv'
<1>1. CASE Works /\ ~Finished
  <2>1. /\ TypeOK' /\ Given' /\ Prepared' /\ Turning' /\ Stored' /\ Last' /\ Reading'
    BY <1>1, TypesStep, PreparedStep, TurningStep, StoredStep, LastStep, ReadingStep
  <2>2. pc' # 0
    BY <1>1, Where, Steps
       DEF IntsTo, FloatsTo, WordTo, CellTo, JumpTo
  <2> QED BY <2>1, <2>2 DEF AccInv, TrapsOutOfReach, Trapped
<1>2. CASE Next /\ (Finished \/ Trapped)
  <2>1. Op \in {"end", "trap"}
    BY <1>2 DEF Op
  <2>2. UNCHANGED vars
    BY <1>2, <2>1 DEF Next, Mv, Lui, Li, Addi, Sw, Fsw, Flw, Fmul, Fadd, Beq, Jal,
         SetAcc, SetPA, SetPB, Macc, Store, Trap, Faulting, End
  <2> QED BY <2>2, Unchanged
<1>3. CASE UNCHANGED vars
  BY <1>3, Unchanged
<1>4. CASE Next /\ Faulting /\ ~Finished /\ ~Trapped
  <2>1. Op \in {"macc", "flw"}
    BY <1>4 DEF Faulting
  <2>2. Trap
    BY <1>4, <2>1 DEF Next, Mv, Lui, Li, Addi, Sw, Fsw, Flw, Fmul, Fadd, Beq, Jal,
         SetAcc, SetPA, SetPB, Macc, Store, Faulting, End
  <2> QED BY <2>2, TrapStep
<1> QED BY <1>1, <1>2, <1>3, <1>4 DEF Works

LEMMA SpecInv == Spec => []AccInv
<1>1. Init => AccInv
  BY InitInv
<1>2. AccInv /\ [Next]_vars => AccInv'
  BY NextInv
<1> QED BY <1>1, <1>2, PTL DEF Spec

-----------------------------------------------------------------------------
(* The loop of mulacc adds up the pairs of elements one after the other and *)
(* reads no others, for every length within reach; so it never leaves the   *)
(* memory if the vectors are in it.                                         *)
THEOREM LoopSumsThePairs == Spec => []LoopInvariant
<1>1. AccInv => LoopInvariant
  <2> SUFFICES ASSUME AccInv PROVE LoopInvariant
    OBVIOUS
  <2>1. TypeOK
    BY DEF AccInv
  <2>2. /\ vectors.a \in Nat /\ vectors.b \in Nat /\ n \in Nat
        /\ n = 2 * Iterations(n) + (n % 2) /\ n % 2 \in 0 .. 1 /\ Iterations(n) \in Nat
    BY Places, Divided DEF AccInv
  <2>3. InReach => Turns(n) = Iterations(n) /\ Count(n) = Iterations(n)
    <3>1. InReach => Turns(n) = Iterations(n)
      BY Counted DEF AccInv, Given, InReach
    <3>2. InReach => Iterations(n) < WordValues
      BY <2>2, Constants DEF InReach
    <3> QED BY <3>1, <3>2, <2>2 DEF Turns
  <2>4. AccumulatesInOrder
    <3> SUFFICES ASSUME InReach, Clear, pc = LoopStart
                 PROVE \E k \in 0 .. Iterations(n) - 1 :
                         /\ floats["f19"] = floats["bias"] \o Products(2 * k)
                         /\ scratch = <<vectors.a + 8 * k, vectors.b + 8 * k>>
                         /\ ints["aux"] = Iterations(n) - k
                         /\ ints["currentA"] = vectors.a + 8 * k
                         /\ ints["currentB"] = vectors.b + 8 * k
      BY DEF AccumulatesInOrder
    <3>1. PICK k \in 0 .. Turns(n) - 1 : Turn(k)
      BY DEF AccInv, Turning, LoopStart
    <3>2. k \in 0 .. Iterations(n) - 1 /\ 2 * k \in 0 .. n
      BY <2>2, <2>3, <3>1
    <3>3. floats["f19"] = floats["bias"] \o Products(2 * k)
      <4>1. Summed(floats["f19"], 2 * k, vectors, floatBias)
        BY <3>1 DEF Turn, LoopStart
      <4> QED BY <3>2, <4>1, Beginning DEF AccInv, Given
    <3>4. scratch = <<vectors.a + 8 * k, vectors.b + 8 * k>>
      BY <2>1, <3>1 DEF Turn, LoopStart, TypeOK
    <3>5. /\ ints["aux"] = Iterations(n) - k
          /\ ints["currentA"] = vectors.a + 8 * k
          /\ ints["currentB"] = vectors.b + 8 * k
      BY <2>2, <2>3, <3>1 DEF Turn, LoopStart
    <3> QED BY <3>2, <3>3, <3>4, <3>5
  <2>5. WithinVectors
    BY DEF AccInv, Reading, Elements, WithinVectors
  <2> QED BY <2>1, <2>4, <2>5 DEF LoopInvariant, AccInv
<1> QED BY <1>1, SpecInv, PTL

(* mulacc is the bias and all the products in order exactly when the count  *)
(* of pairs is positive and fits the immediate, the bias is a float and the *)
(* vectors are clear of the accelerator's words.                            *)
THEOREM DotProductWithinReach == Spec => []DotProduct
<1>1. AccInv => DotProduct
  <2> SUFFICES ASSUME AccInv, Finished
               PROVE  floats["result"] = Single(Bias) \o Products(n)
                        <=> InReach /\ floatBias /\ Clear
    BY DEF DotProduct
  <2> DEFINE k == 2 * Turns(n) + (n % 2)
  <2>1. /\ n \in Nat
        /\ n = 2 * Iterations(n) + (n % 2) /\ n % 2 \in 0 .. 1 /\ Iterations(n) \in Nat
    BY Places, Divided DEF AccInv
  <2>2. Turns(n) \in Nat /\ (Turns(n) = Iterations(n) <=> InReach)
    BY Counted, Constants DEF AccInv, Given, InReach
  <2>3. Summed(floats["result"], k, vectors, floatBias)
    <3>1. CASE n % 2 = 0
      <4>1. pc = 25
        BY <3>1 DEF Finished, Size
      <4>2. k = 2 * Turns(n)
        BY <2>2, <3>1
      <4> QED BY <4>1, <4>2 DEF AccInv, Last
    <3>2. CASE n % 2 # 0
      <4>1. pc = 29
        BY <3>2 DEF Finished, Size
      <4>2. k = 2 * Turns(n) + 1
        BY <2>1, <2>2, <3>2
      <4> QED BY <4>1, <4>2 DEF AccInv, Last
    <3> QED BY <3>1, <3>2
  <2>4. k \in Nat /\ (k = n <=> InReach)
    BY <2>1, <2>2
  <2> HIDE DEF k
  <2> QED BY <2>3, <2>4, Value, SMTT(30) DEF AccInv
<1> QED BY <1>1, SpecInv, PTL
=============================================================================

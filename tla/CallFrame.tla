------------------------------ MODULE CallFrame ----------------------------
(* The calling convention of backend/codegen.c, executed: the words the     *)
(* FUNCTION_DEFINITION, CALL and RETURN cases emit, run on a stack that     *)
(* grows downwards. Addresses are counted in words (every type has four     *)
(* bytes). The prologue and the epilogue are straight-line code, each run   *)
(* in one action; what bodies do between them is any sequence of writes to  *)
(* registers, locals and parameters, of calls, and a return.                *)
(*                                                                          *)
(* The int and float registers the compiler saves are one list here,        *)
(* 1 .. SavedRegisters, as they are in the frame.                           *)
EXTENDS Integers, Sequences, SequencesExt

CONSTANTS Functions,      \* [name -> [params : Nat, locals : Nat]]
          Main,
          SavedRegisters, \* SAVED_REGISTERS
          Values,         \* words a program computes
          StackWords,     \* bound: the words below the stack pointer of the header
          MaxWrites,      \* bound: writes of the bodies
          MaxCalls        \* bound: calls, the one of main excluded

Nobody == "nobody"
ASSUME FunctionsAssumption ==
  /\ Nobody \notin DOMAIN Functions
  /\ Main \in DOMAIN Functions
  /\ \A f \in DOMAIN Functions : Functions[f].params \in Nat /\ Functions[f].locals \in Nat
ASSUME SavedRegistersAssumption == SavedRegisters \in Nat
ASSUME ValuesAssumption == Values # {} /\ Values \cap Nat = {}   \* told from return addresses
ASSUME BoundsAssumption == /\ StackWords \in Nat  \* main's frame fits
                           /\ StackWords > SavedRegisters + Functions[Main].locals
                           /\ MaxWrites \in Nat /\ MaxCalls \in Nat

Regs == 1 .. SavedRegisters
(* The stack, and above it as many words as main has parameters: line 29    *)
(* leaves 46 words there.                                                   *)
StackTop == StackWords + Functions[Main].params
Words == 0 .. StackTop - 1

VARIABLES mem, sp, reg,
          ra,        \* where the last jump came from: the depth of the caller
          a0,        \* A0 or FA0
          active,    \* the bodies under way, newest last: [fun, base], where
                     \* base is what the prologue left in the stack pointer
          callee,    \* the function whose arguments are being pushed
          pushed,    \* how many of them are on the stack
          writes, calls

vars == <<mem, sp, reg, ra, a0, active, callee, pushed, writes, calls>>
counters == <<writes, calls>>

Running == active # <<>> /\ callee = Nobody
Body == Last(active).fun

-----------------------------------------------------------------------------
(* The frame of a body, from sp upwards: its locals, the registers with the *)
(* first one on top, the return address, the parameters, the last one       *)
(* lowest. Lines 173-180 and 185-192 number locals and parameters along a   *)
(* list that starts with the one declared last.                             *)
Locals(f) == Functions[f].locals
Params(f) == Functions[f].params
LocalAt(f, i) == Locals(f) - i
SaveArea == SavedRegisters + 1
SavedAt(r) == SavedRegisters - r
ReturnAt == SavedRegisters
ParamAtReversed(f, i) == Locals(f) + SaveArea + i - 1    \* variant: the first one lowest
ParamAt(f, i) == Locals(f) + SaveArea + Params(f) - i
FrameWithoutParams(f) == Locals(f) + SaveArea            \* variant
FrameSize(f) == Locals(f) + SaveArea + Params(f)

(* Lines 162-181, run on entry with the stack pointer at s.                 *)
Prologue(f, s, link) ==
  LET top == s - SaveArea
  IN /\ sp' = top - Locals(f)
     /\ mem' = [a \in Words |->
                  IF \E r \in Regs : a = top + SavedAt(r)
                    THEN reg[CHOOSE r \in Regs : a = top + SavedAt(r)]
                  ELSE IF a = top + ReturnAt THEN link ELSE mem[a]]

(* Lines 209-221, with the result already in a0.                            *)
Epilogue(f) ==
  /\ reg' = [r \in Regs |-> mem[sp + Locals(f) + SavedAt(r)]]
  /\ ra' = mem[sp + Locals(f) + ReturnAt]
  /\ sp' = sp + FrameSize(f)

(* The header (lines 19-31) pushes nothing, and what there is above its     *)
(* stack pointer is anything.                                               *)
Init == /\ reg \in [Regs -> Values]
        /\ a0 \in Values /\ ra = 0
        /\ \E above \in [1 .. Params(Main) -> Values] :
             mem = [a \in Words |-> IF a < StackWords THEN a0 ELSE above[a - StackWords + 1]]
        /\ sp = StackWords
        /\ active = <<>> /\ callee = Main /\ pushed = 0
        /\ writes = 0 /\ calls = 0

Write == /\ Running /\ writes < MaxWrites
         /\ writes' = writes + 1
         /\ UNCHANGED <<sp, ra, a0, active, callee, pushed, calls>>

WriteRegister(r, v) == /\ Write
                       /\ reg' = [reg EXCEPT ![r] = v]
                       /\ UNCHANGED mem
WriteLocal(v) == /\ Write
                 /\ \E i \in 1 .. Locals(Body) :
                      mem' = [mem EXCEPT ![sp + LocalAt(Body, i)] = v]
                 /\ UNCHANGED reg
WriteParam(v) == /\ Write
                 /\ \E i \in 1 .. Params(Body) :
                      mem' = [mem EXCEPT ![sp + ParamAt(Body, i)] = v]
                 /\ UNCHANGED reg

(* A CALL node: all arguments have been computed when the first is pushed.  *)
BeginCall(f) == /\ Running /\ calls < MaxCalls
                /\ sp >= Params(f) + SaveArea + Locals(f)
                /\ callee' = f /\ calls' = calls + 1
                /\ UNCHANGED <<mem, sp, reg, ra, a0, active, pushed, writes>>

Push(v) == /\ callee # Nobody /\ active # <<>> /\ pushed < Params(callee)
           /\ sp' = sp - 1
           /\ mem' = [mem EXCEPT ![sp - 1] = v]
           /\ pushed' = pushed + 1
           /\ UNCHANGED <<reg, ra, a0, active, callee, counters>>

(* The jump, which sets ra, and the prologue it leads to: after the last    *)
(* argument, or from the header, which jumps to main whether it has         *)
(* parameters or not (semantic_analysis.c 40-44 lets it have any).          *)
Enter == /\ callee # Nobody /\ (pushed = Params(callee) \/ active = <<>>)
         /\ ra' = Len(active)
         /\ Prologue(callee, sp, Len(active))
         /\ active' = Append(active, [fun |-> callee, base |-> sp'])
         /\ callee' = Nobody /\ pushed' = 0
         /\ UNCHANGED <<reg, a0, counters>>

(* RETURN, the jump to the epilogue, and the jump to wherever ra says.      *)
Return(v) == /\ Running
             /\ a0' = v
             /\ Epilogue(Body)
             /\ active' = IF ra' \in 0 .. Len(active) THEN SubSeq(active, 1, ra') ELSE <<>>
             /\ UNCHANGED <<mem, callee, pushed, counters>>

Halted == active = <<>> /\ callee = Nobody /\ UNCHANGED vars

Next == \/ \E r \in Regs, v \in Values : WriteRegister(r, v)
        \/ \E v \in Values : WriteLocal(v)
        \/ \E v \in Values : WriteParam(v)
        \/ \E f \in DOMAIN Functions : BeginCall(f)
        \/ \E v \in Values : Push(v)
        \/ Enter
        \/ \E v \in Values : Return(v)
        \/ Halted

Spec == Init /\ [][Next]_vars

-----------------------------------------------------------------------------
(* Types: a register holds a value, never a return address.                 *)
Links == 0 .. MaxCalls + 1
TypeOK == /\ mem \in [Words -> Values \cup Links]
          /\ sp \in 0 .. StackTop
          /\ reg \in [Regs -> Values]
          /\ ra \in Links
          /\ a0 \in Values
          /\ active \in Seq([fun : DOMAIN Functions, base : 0 .. StackTop])
          /\ Len(active) <= MaxCalls + 1
          /\ callee \in DOMAIN Functions \cup {Nobody}
          /\ pushed \in Nat
          /\ writes \in 0 .. MaxWrites /\ calls \in 0 .. MaxCalls

(* Callers push what callees pop, over any tree of calls, but for the       *)
(* header: its stack pointer is back when main has returned only if main    *)
(* has no parameters, and else above by those that the epilogue (line 220)  *)
(* took off and nobody had pushed.                                          *)
StackBalanced == (active = <<>> /\ callee = Nobody) => sp = StackWords + Params(Main)

(* And before that it stays within the memory, with the values of the types.*)
StackInBounds == TypeOK /\ StackBalanced

(* The frames implement activations: caller's locals, parameters and        *)
(* registers are untouched by what it calls (codegen.c lines 162-221), the  *)
(* callee finds the arguments in its parameters, and a return leads back to *)
(* the caller. Those of main are whatever lay above the stack.              *)
Depth == Len(active)
Fun(n) == active[n].fun
Base(n) == active[n].base
RegistersOf(n) ==
  IF n = Depth THEN reg
  ELSE [r \in Regs |-> mem[Base(n + 1) + Locals(Fun(n + 1)) + SavedAt(r)]]
ActivationOf(n) ==  \* 0: the header, which has no frame
  IF n = 0 THEN [fun |-> Nobody, regs |-> RegistersOf(0), params |-> <<>>, locals |-> <<>>]
  ELSE [fun |-> Fun(n), regs |-> RegistersOf(n),
        params |-> [i \in 1 .. Params(Fun(n)) |-> mem[Base(n) + ParamAt(Fun(n), i)]],
        locals |-> [i \in 1 .. Locals(Fun(n)) |-> mem[Base(n) + LocalAt(Fun(n), i)]]]
activations == [n \in 1 .. Depth + 1 |-> ActivationOf(n - 1)]
taken == IF active = <<>> /\ callee # Nobody THEN Params(callee) ELSE pushed
arguments == [i \in 1 .. taken |-> mem[sp + taken - i]]

Private == INSTANCE Activations WITH
  Header <- Nobody, Values <- Values \cup Links, result <- a0
ImplementsActivations == Private!Spec
=============================================================================

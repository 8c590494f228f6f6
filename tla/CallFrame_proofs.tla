--------------------------- MODULE CallFrame_proofs -------------------------
(* Proofs about the calling convention, for every set of functions, number  *)
(* of saved registers, size of the stack and tree of calls that fits it.    *)
EXTENDS CallFrame, SequenceTheorems, TLAPS

(* Frames lie one on the other without a gap, and the stack pointer is at   *)
(* the newest one, less the arguments pushed so far. The arguments of main  *)
(* are the words above the stack, taken without having been pushed.         *)
Limit(n) == IF n = 0 THEN StackTop ELSE Base(n)
FramesStack ==
  /\ \A n \in 1 .. Depth : Base(n) + FrameSize(Fun(n)) = Limit(n - 1)
  /\ \A m, n \in 1 .. Depth : m < n => Base(n) + FrameSize(Fun(n)) <= Base(m)
  /\ sp + taken = Limit(Depth)

(* In every frame the caller's registers hold values, and the return        *)
(* address is that of the caller.                                           *)
FramesSaved ==
  \A n \in 1 .. Depth :
    /\ \A r \in Regs : mem[Base(n) + Locals(Fun(n)) + SavedAt(r)] \in Values
    /\ mem[Base(n) + Locals(Fun(n)) + ReturnAt] = n - 1

(* There is room for the frame of the call under way, and a call counted    *)
(* for every frame but main's.                                              *)
Calling ==
  /\ callee = Nobody => taken = 0 /\ Depth <= calls + 1
  /\ callee # Nobody =>
       /\ taken <= Params(callee) /\ Depth <= calls
       /\ sp >= Params(callee) - taken + SaveArea + Locals(callee)
       /\ Depth = 0 => callee = Main

StackInv == TypeOK /\ FramesStack /\ FramesSaved /\ Calling

-----------------------------------------------------------------------------
(* Where the parts of a frame are: the locals, then the registers and the   *)
(* return address, then the parameters.                                     *)
LEMMA Sizes ==
  ASSUME NEW f \in DOMAIN Functions
  PROVE  /\ Locals(f) \in Nat /\ Params(f) \in Nat /\ SavedRegisters \in Nat
         /\ SaveArea = SavedRegisters + 1 /\ ReturnAt = SavedRegisters
         /\ FrameSize(f) = Locals(f) + SavedRegisters + 1 + Params(f) /\ FrameSize(f) \in Nat
         /\ \A i \in 1 .. Locals(f) : LocalAt(f, i) \in 0 .. Locals(f) - 1
         /\ \A i \in 1 .. Params(f) :
              ParamAt(f, i) \in Locals(f) + SavedRegisters + 1 .. FrameSize(f) - 1
<1>1. Locals(f) \in Nat /\ Params(f) \in Nat /\ SavedRegisters \in Nat
  BY FunctionsAssumption, SavedRegistersAssumption DEF Locals, Params
<1> QED
  BY <1>1 DEF SaveArea, ReturnAt, FrameSize, LocalAt, ParamAt

(* The end of the memory, and the arguments of the call under way.          *)
LEMMA Top ==
  /\ StackTop \in Nat /\ StackWords \in Nat /\ StackTop = StackWords + Params(Main)
  /\ Main \in DOMAIN Functions /\ Main # Nobody /\ Params(Main) \in Nat
BY FunctionsAssumption, BoundsAssumption DEF StackTop, Params

LEMMA Taken ==
  ASSUME TypeOK
  PROVE  /\ taken \in Nat /\ StackTop \in Nat
         /\ (active # <<>> \/ callee = Nobody) => taken = pushed
         /\ (active = <<>> /\ callee # Nobody) => taken = Params(callee)
<1>1. pushed \in Nat /\ (callee # Nobody => callee \in DOMAIN Functions)
  BY DEF TypeOK
<1>2. callee # Nobody => Params(callee) \in Nat
  BY <1>1, FunctionsAssumption DEF Params
<1> QED
  BY <1>1, <1>2, Top DEF taken

LEMMA Places ==
  /\ SavedRegisters \in Nat
  /\ \A r \in Regs : SavedAt(r) \in 0 .. SavedRegisters - 1
  /\ \A r, q \in Regs : SavedAt(r) = SavedAt(q) => r = q
BY SavedRegistersAssumption DEF Regs, SavedAt

(* Sequences that get a new last element, and that lose it.                 *)
LEMMA Appended ==
  ASSUME NEW S, NEW s \in Seq(S), NEW x \in S
  PROVE  LET t == Append(s, x)
         IN /\ t \in Seq(S) /\ Len(t) = Len(s) + 1 /\ Len(s) \in Nat
            /\ \A n \in 1 .. Len(s) : t[n] = s[n]
            /\ t[Len(s) + 1] = x
OBVIOUS

LEMMA Members ==
  ASSUME NEW S, NEW s \in Seq(S)
  PROVE  Len(s) \in Nat /\ \A n \in 1 .. Len(s) : s[n] \in S
OBVIOUS

LEMMA Shortened ==
  ASSUME NEW S, NEW s \in Seq(S), NEW k \in Nat, k <= Len(s)
  PROVE  LET t == SubSeq(s, 1, k)
         IN /\ t \in Seq(S) /\ Len(t) = k
            /\ \A n \in 1 .. k : t[n] = s[n]
OBVIOUS

(* The frames there are.                                                    *)
LEMMA Frame ==
  ASSUME StackInv, NEW n \in 1 .. Depth
  PROVE  /\ Depth \in Nat /\ Depth <= MaxCalls + 1
         /\ Fun(n) \in DOMAIN Functions /\ Base(n) \in Nat /\ sp \in Nat /\ taken \in Nat
         /\ StackTop \in Nat
         /\ Limit(n - 1) <= StackTop /\ Limit(n - 1) \in Nat
         /\ Base(n) + FrameSize(Fun(n)) = Limit(n - 1)
         /\ Base(Depth) = sp + taken
         /\ sp + taken <= Base(n)
         /\ n < Depth => sp + taken + FrameSize(Fun(Depth)) <= Base(n)
<1>1. active \in Seq([fun : DOMAIN Functions, base : 0 .. StackTop])
  BY DEF StackInv, TypeOK
<1>2. \A k \in 1 .. Depth : active[k] \in [fun : DOMAIN Functions, base : 0 .. StackTop]
  BY <1>1, Members DEF Depth
<1>3. Depth \in Nat /\ Depth <= MaxCalls + 1 /\ sp \in Nat /\ taken \in Nat /\ StackTop \in Nat
  BY <1>1, Taken DEF StackInv, TypeOK, Depth
<1>4. \A k \in 1 .. Depth : Fun(k) \in DOMAIN Functions /\ Base(k) \in 0 .. StackTop
  BY <1>2 DEF Fun, Base
<1>5. Limit(n - 1) <= StackTop /\ Limit(n - 1) \in Nat
  <2>1. CASE n = 1
    BY <1>3, <2>1 DEF Limit
  <2>2. CASE n # 1
    <3>1. n - 1 \in 1 .. Depth /\ n - 1 # 0
      BY <1>3, <2>2
    <3> QED
      BY <1>3, <1>4, <3>1 DEF Limit
  <2> QED
    BY <2>1, <2>2
<1>6. Base(n) + FrameSize(Fun(n)) = Limit(n - 1)
  BY DEF StackInv, FramesStack
<1>7. Depth \in 1 .. Depth /\ Base(Depth) = sp + taken
  BY <1>3 DEF StackInv, FramesStack, Limit
<1>8. n < Depth => Base(Depth) + FrameSize(Fun(Depth)) <= Base(n)
  BY <1>7 DEF StackInv, FramesStack
<1>9. FrameSize(Fun(Depth)) \in Nat
  BY <1>4, <1>7, Sizes
<1>10. sp + taken <= Base(n)
  <2>1. CASE n = Depth
    BY <1>3, <1>7, <2>1
  <2>2. CASE n < Depth
    BY <1>3, <1>4, <1>7, <1>8, <1>9, <2>2
  <2> QED
    BY <1>3, <2>1, <2>2
<1> QED
  BY <1>3, <1>4, <1>5, <1>6, <1>7, <1>8, <1>10

-----------------------------------------------------------------------------
(* What the steps of a body leave alone. Two addresses of words below the   *)
(* frames, and in the locals and the parameters of the newest.              *)
LEMMA SavedAddress ==
  ASSUME StackInv, NEW n \in 1 .. Depth, NEW k \in 0 .. SavedRegisters
  PROVE  LET a == Base(n) + Locals(Fun(n)) + k
         IN /\ a \in Words
            /\ a >= sp + taken
            /\ \A i \in 1 .. Locals(Fun(Depth)) : a # sp + taken + LocalAt(Fun(Depth), i)
            /\ \A i \in 1 .. Params(Fun(Depth)) : a # sp + taken + ParamAt(Fun(Depth), i)
<1>1. /\ Fun(n) \in DOMAIN Functions /\ Base(n) \in Nat /\ StackTop \in Nat
      /\ Limit(n - 1) <= StackTop /\ Base(n) + FrameSize(Fun(n)) = Limit(n - 1)
      /\ Base(Depth) = sp + taken /\ sp + taken <= Base(n) /\ sp \in Nat /\ taken \in Nat
      /\ n < Depth => sp + taken + FrameSize(Fun(Depth)) <= Base(n)
      /\ Depth \in Nat /\ Limit(n - 1) \in Nat
  BY Frame
<1>2. /\ Locals(Fun(n)) \in Nat /\ Params(Fun(n)) \in Nat /\ SavedRegisters \in Nat
      /\ FrameSize(Fun(n)) = Locals(Fun(n)) + SavedRegisters + 1 + Params(Fun(n))
  BY <1>1, Sizes
<1> DEFINE a == Base(n) + Locals(Fun(n)) + k
<1>3. a \in Words /\ a >= sp + taken
  BY <1>1, <1>2 DEF Words
<1>4. Depth \in 1 .. Depth
  BY <1>1
<1>5. Fun(Depth) \in DOMAIN Functions
  BY <1>4, Frame
<1> DEFINE l == Locals(Fun(Depth))
           z == FrameSize(Fun(Depth))
<1>6. /\ l \in Nat /\ z \in Nat
      /\ \A i \in 1 .. l : LocalAt(Fun(Depth), i) \in 0 .. l - 1
      /\ \A i \in 1 .. Params(Fun(Depth)) :
           ParamAt(Fun(Depth), i) \in l + SavedRegisters + 1 .. z - 1
      /\ z = l + SavedRegisters + 1 + Params(Fun(Depth)) /\ Params(Fun(Depth)) \in Nat
  BY <1>5, Sizes
<1> HIDE DEF l, z
<1>7. \/ n = Depth /\ a = sp + taken + l + k
      \/ a >= sp + taken + z
  <2>1. CASE n = Depth
    BY <1>1, <2>1 DEF l
  <2>2. CASE n # Depth
    <3>1. n < Depth
      BY <1>4, <2>2
    <3>2. sp + taken + z <= Base(n)
      BY <1>1, <3>1 DEF z
    <3> QED
      BY <1>1, <1>2, <1>6, <3>2
  <2> QED
    BY <2>1, <2>2
<1>8. a \in Int /\ k \in Nat /\ k <= SavedRegisters
  BY <1>1, <1>2
<1> HIDE DEF a
<1>9. ASSUME NEW i \in 1 .. l PROVE a # sp + taken + LocalAt(Fun(Depth), i)
  <2>1. LocalAt(Fun(Depth), i) \in 0 .. l - 1
    BY <1>6
  <2> QED
    BY <1>1, <1>2, <1>6, <1>7, <1>8, <2>1
<1>10. ASSUME NEW i \in 1 .. Params(Fun(Depth)) PROVE a # sp + taken + ParamAt(Fun(Depth), i)
  <2>1. ParamAt(Fun(Depth), i) \in l + SavedRegisters + 1 .. z - 1
    BY <1>6
  <2> QED
    BY <1>1, <1>2, <1>6, <1>7, <1>8, <2>1
<1> QED
  BY <1>3, <1>9, <1>10 DEF a, l

(* A step that does not write to the saved registers and return addresses,  *)
(* nor begin or end a body.                                                 *)
LEMMA SavedKept ==
  ASSUME StackInv, active' = active,
         \A n \in 1 .. Depth, k \in 0 .. SavedRegisters :
           mem'[Base(n) + Locals(Fun(n)) + k] = mem[Base(n) + Locals(Fun(n)) + k]
  PROVE  FramesSaved'
<1>1. \A r \in Regs : SavedAt(r) \in 0 .. SavedRegisters
  BY Places
<1>2. ReturnAt \in 0 .. SavedRegisters
  BY SavedRegistersAssumption DEF ReturnAt
<1>3. Depth' = Depth /\ \A n : Base(n)' = Base(n) /\ Fun(n)' = Fun(n)
  BY DEF Depth, Base, Fun
<1> QED
  BY <1>1, <1>2, <1>3 DEF FramesSaved, StackInv

(* The body under way.                                                      *)
LEMMA Current ==
  ASSUME StackInv, active # <<>>
  PROVE  /\ Depth \in 1 .. Depth /\ Depth \in Nat /\ Depth > 0 /\ Body = Fun(Depth)
         /\ Body \in DOMAIN Functions
<1>1. active \in Seq([fun : DOMAIN Functions, base : 0 .. StackTop])
  BY DEF StackInv, TypeOK
<1>2. Depth \in Nat /\ Depth # 0
  BY <1>1 DEF Depth
<1>3. Body = Fun(Depth)
  BY DEF Body, Fun, Depth, Last
<1> QED
  BY <1>2, <1>3, Frame

LEMMA WriteStep ==
  ASSUME StackInv, Write, NEW a \in Words, NEW v \in Values, reg' = reg,
         mem' = [mem EXCEPT ![a] = v],
         \/ \E i \in 1 .. Locals(Body) : a = sp + LocalAt(Body, i)
         \/ \E i \in 1 .. Params(Body) : a = sp + ParamAt(Body, i)
  PROVE  StackInv'
<1>1. /\ active # <<>> /\ callee = Nobody /\ taken = 0 /\ sp \in Nat
      /\ writes' \in 0 .. MaxWrites
      /\ UNCHANGED <<sp, ra, a0, active, callee, pushed, calls>>
  BY BoundsAssumption, Top DEF Write, Running, StackInv, Calling, TypeOK
<1>0. taken' = taken
  BY <1>1 DEF taken
<1>2. TypeOK'
  BY <1>1 DEF StackInv, TypeOK
<1>3. FramesStack' /\ Calling'
  BY <1>0, <1>1 DEF StackInv, FramesStack, Calling, Limit, Base, Fun, Depth
<1>4. FramesSaved'
  <2>1. ASSUME NEW n \in 1 .. Depth, NEW k \in 0 .. SavedRegisters
        PROVE  mem'[Base(n) + Locals(Fun(n)) + k] = mem[Base(n) + Locals(Fun(n)) + k]
    <3> DEFINE b == Base(n) + Locals(Fun(n)) + k
    <3>1. Body = Fun(Depth) /\ sp + taken = sp
      BY <1>1, Current
    <3>2. b # a /\ b \in Words
      BY <3>1, SavedAddress
    <3> HIDE DEF b
    <3>3. mem'[b] = mem[b]
      BY <3>2 DEF StackInv, TypeOK
    <3> QED
      BY <3>3 DEF b
  <2> QED
    BY <1>1, <2>1, SavedKept
<1> QED
  BY <1>2, <1>3, <1>4 DEF StackInv

LEMMA InitInv == Init => StackInv
<1> SUFFICES ASSUME Init PROVE StackInv
  OBVIOUS
<1>1. /\ Main \in DOMAIN Functions /\ Main # Nobody /\ Params(Main) \in Nat
      /\ StackTop \in Nat /\ StackWords \in Nat /\ StackTop = StackWords + Params(Main)
  BY Top
<1>2. Depth = 0 /\ active \in Seq([fun : DOMAIN Functions, base : 0 .. StackTop])
      /\ Len(active) = 0
  BY DEF Init, Depth
<1>3. MaxWrites \in Nat /\ MaxCalls \in Nat /\ StackWords > SavedRegisters + Locals(Main)
  BY BoundsAssumption DEF Locals
<1>4. TypeOK
  <2>1. PICK above \in [1 .. Params(Main) -> Values] :
          mem = [a \in Words |-> IF a < StackWords THEN a0 ELSE above[a - StackWords + 1]]
    BY DEF Init
  <2>2. ASSUME NEW a \in Words, ~ (a < StackWords) PROVE above[a - StackWords + 1] \in Values
    <3>1. a - StackWords + 1 \in 1 .. Params(Main)
      BY <1>1, <2>2 DEF Words
    <3> QED
      BY <3>1
  <2>3. mem \in [Words -> Values \cup Links]
    BY <2>1, <2>2 DEF Init
  <2> QED
    BY <1>1, <1>2, <1>3, <2>3 DEF Init, TypeOK, Links
<1>5. taken = Params(Main) /\ sp = StackWords
  BY <1>1 DEF Init, taken
<1>6. FramesStack /\ FramesSaved
  BY <1>1, <1>2, <1>5 DEF FramesStack, FramesSaved, Limit
<1>7. Calling
  <2>1. Locals(Main) \in Nat /\ SavedRegisters \in Nat /\ SaveArea = SavedRegisters + 1
    BY <1>1, Sizes
  <2> QED
    BY <1>1, <1>2, <1>3, <1>5, <2>1 DEF Init, Calling
<1> QED
  BY <1>4, <1>6, <1>7 DEF StackInv

LEMMA WriteRegisterStep ==
  ASSUME StackInv, NEW r \in Regs, NEW v \in Values, WriteRegister(r, v)
  PROVE  StackInv'
<1>1. /\ writes' \in 0 .. MaxWrites
      /\ UNCHANGED <<mem, sp, ra, a0, active, callee, pushed, calls>>
      /\ reg' = [reg EXCEPT ![r] = v]
  BY BoundsAssumption DEF WriteRegister, Write, StackInv, TypeOK
<1>2. TypeOK'
  BY <1>1 DEF StackInv, TypeOK
<1> QED
  BY <1>1, <1>2
  DEF StackInv, FramesStack, FramesSaved, Calling, Limit, Base, Fun, Depth, taken

LEMMA WriteLocalStep ==
  ASSUME StackInv, NEW v \in Values, WriteLocal(v)
  PROVE  StackInv'
<1>1. PICK i \in 1 .. Locals(Body) : mem' = [mem EXCEPT ![sp + LocalAt(Body, i)] = v]
  BY DEF WriteLocal
<1>2. active # <<>> /\ taken = 0
  BY DEF WriteLocal, Write, Running, StackInv, Calling
<1>3. /\ Body \in DOMAIN Functions /\ sp \in Nat /\ StackTop \in Nat
      /\ sp + FrameSize(Body) <= StackTop
  <2>1. Depth \in 1 .. Depth /\ Body = Fun(Depth)
    BY <1>2, Current
  <2>2. Base(Depth) + FrameSize(Fun(Depth)) <= StackTop /\ Base(Depth) = sp + taken
        /\ Fun(Depth) \in DOMAIN Functions /\ sp \in Nat /\ StackTop \in Nat
    BY <2>1, Frame
  <2> QED
    BY <1>2, <2>1, <2>2
<1>4. sp + LocalAt(Body, i) \in Words
  <2>1. LocalAt(Body, i) \in 0 .. Locals(Body) - 1
    BY <1>3, Sizes
  <2>2. Locals(Body) \in Nat /\ Params(Body) \in Nat /\ SavedRegisters \in Nat
        /\ FrameSize(Body) = Locals(Body) + SavedRegisters + 1 + Params(Body)
    BY <1>3, Sizes
  <2> QED
    BY <1>3, <2>1, <2>2 DEF Words
<1> QED
  BY <1>1, <1>4, WriteStep DEF WriteLocal

LEMMA WriteParamStep ==
  ASSUME StackInv, NEW v \in Values, WriteParam(v)
  PROVE  StackInv'
<1>1. PICK i \in 1 .. Params(Body) : mem' = [mem EXCEPT ![sp + ParamAt(Body, i)] = v]
  BY DEF WriteParam
<1>2. active # <<>> /\ taken = 0
  BY DEF WriteParam, Write, Running, StackInv, Calling
<1>3. /\ Body \in DOMAIN Functions /\ sp \in Nat /\ StackTop \in Nat
      /\ sp + FrameSize(Body) <= StackTop
  <2>1. Depth \in 1 .. Depth /\ Body = Fun(Depth)
    BY <1>2, Current
  <2>2. Base(Depth) + FrameSize(Fun(Depth)) <= StackTop /\ Base(Depth) = sp + taken
        /\ Fun(Depth) \in DOMAIN Functions /\ sp \in Nat /\ StackTop \in Nat
    BY <2>1, Frame
  <2> QED
    BY <1>2, <2>1, <2>2
<1>4. sp + ParamAt(Body, i) \in Words
  <2>1. ParamAt(Body, i) \in Locals(Body) + SavedRegisters + 1 .. FrameSize(Body) - 1
    BY <1>3, Sizes
  <2>2. Locals(Body) \in Nat /\ SavedRegisters \in Nat /\ FrameSize(Body) \in Nat
    BY <1>3, Sizes
  <2> QED
    BY <1>3, <2>1, <2>2 DEF Words
<1> QED
  BY <1>1, <1>4, WriteStep DEF WriteParam

LEMMA BeginCallStep ==
  ASSUME StackInv, NEW f \in DOMAIN Functions, BeginCall(f)
  PROVE  StackInv'
<1>1. /\ active # <<>> /\ callee = Nobody /\ taken = 0 /\ Depth <= calls + 1
      /\ UNCHANGED <<mem, sp, reg, ra, a0, active, pushed, writes>>
      /\ calls' = calls + 1 /\ calls < MaxCalls /\ callee' = f /\ f # Nobody
      /\ sp >= Params(f) + SaveArea + Locals(f)
  BY FunctionsAssumption DEF BeginCall, Running, StackInv, Calling
<1>0. taken' = taken
  BY <1>1 DEF taken
<1>2. Depth > 0 /\ Depth \in Nat
  BY <1>1, Current
<1>3. calls \in Nat /\ MaxCalls \in Nat
  BY BoundsAssumption DEF StackInv, TypeOK
<1>4. TypeOK'
  BY <1>1, <1>3 DEF StackInv, TypeOK
<1>5. FramesStack' /\ FramesSaved'
  BY <1>0, <1>1 DEF StackInv, FramesStack, FramesSaved, Limit, Base, Fun, Depth
<1>6. Calling'
  <2>1. Params(f) \in Nat /\ Params(f) - 0 = Params(f)
    BY Sizes
  <2>2. Depth' = Depth
    BY <1>1 DEF Depth
  <2> QED
    BY <1>0, <1>1, <1>2, <1>3, <2>1, <2>2 DEF Calling
<1> QED
  BY <1>4, <1>5, <1>6 DEF StackInv

(* An argument goes below every frame.                                      *)
LEMMA PushStep ==
  ASSUME StackInv, NEW v \in Values, Push(v)
  PROVE  StackInv' /\ sp - 1 \in Words /\ taken' = taken + 1 /\ active # <<>>
<1>0. /\ active # <<>> /\ active' = active /\ taken = pushed /\ taken \in Nat
      /\ pushed' = pushed + 1
  BY Taken DEF Push, StackInv
<1>1. /\ callee # Nobody /\ callee \in DOMAIN Functions /\ taken \in Nat
      /\ taken < Params(callee) /\ Depth <= calls
      /\ sp >= Params(callee) - taken + SaveArea + Locals(callee)
      /\ Depth = 0 => callee = Main
      /\ sp' = sp - 1 /\ mem' = [mem EXCEPT ![sp - 1] = v] /\ taken' = taken + 1
      /\ UNCHANGED <<reg, ra, a0, active, callee, writes, calls>>
      /\ sp \in 0 .. StackTop /\ StackTop \in Nat
  <2>1. taken' = taken + 1
    BY <1>0 DEF taken
  <2> QED
    BY <1>0, <2>1, Top DEF Push, StackInv, Calling, TypeOK, counters
<1>2. /\ Params(callee) \in Nat /\ Locals(callee) \in Nat /\ SavedRegisters \in Nat
      /\ SaveArea = SavedRegisters + 1
  BY <1>1, Sizes
<1>3. sp > 0 /\ sp - 1 \in Words /\ sp' \in 0 .. StackTop /\ taken' \in Nat
  BY <1>1, <1>2 DEF Words
<1>4. TypeOK'
  BY <1>0, <1>1, <1>3 DEF StackInv, TypeOK
<1>5. FramesStack'
  <2>1. sp' + taken' = sp + taken
    BY <1>1
  <2>2. Depth' = Depth /\ \A n : Fun(n)' = Fun(n) /\ Base(n)' = Base(n)
    BY <1>1 DEF Depth, Fun, Base
  <2>3. \A n : Limit(n)' = Limit(n)
    BY <2>2 DEF Limit
  <2>4. Limit(Depth)' = Limit(Depth)
    BY <1>1 DEF Limit, Depth, Base
  <2> QED
    BY <2>1, <2>2, <2>3, <2>4 DEF FramesStack, StackInv
<1>6. FramesSaved'
  <2>1. ASSUME NEW n \in 1 .. Depth, NEW k \in 0 .. SavedRegisters
        PROVE  mem'[Base(n) + Locals(Fun(n)) + k] = mem[Base(n) + Locals(Fun(n)) + k]
    <3> DEFINE b == Base(n) + Locals(Fun(n)) + k
    <3>1. b \in Words /\ b >= sp + taken
      BY SavedAddress
    <3> HIDE DEF b
    <3>2. b # sp - 1
      BY <1>1, <3>1 DEF Words
    <3>3. mem'[b] = mem[b]
      BY <1>1, <3>1, <3>2 DEF StackInv, TypeOK
    <3> QED
      BY <3>3 DEF b
  <2> QED
    BY <1>1, <2>1, SavedKept
<1>7. Calling'
  <2>1. Depth' = Depth
    BY <1>1 DEF Depth
  <2> QED
    BY <1>1, <1>2, <2>1 DEF Calling
<1> QED
  BY <1>0, <1>1, <1>3, <1>4, <1>5, <1>6, <1>7 DEF StackInv

(* What a prologue stores: the registers of the caller and the way back,    *)
(* in words of its own below everything there was.                          *)
LEMMA EnterEffect ==
  ASSUME StackInv, Enter
  PROVE  /\ callee \in DOMAIN Functions /\ taken = Params(callee) /\ taken' = 0
         /\ Depth \in Nat
         /\ Depth <= MaxCalls /\ Depth <= calls
         /\ sp \in Nat /\ sp <= StackTop /\ StackTop \in Nat
         /\ sp' \in Nat /\ sp' + Locals(callee) + SavedRegisters + 1 = sp
         /\ \A r \in Regs : mem'[sp' + Locals(callee) + SavedAt(r)] = reg[r]
         /\ mem'[sp' + Locals(callee) + ReturnAt] = Depth
         /\ \A a \in Words : a >= sp => mem'[a] = mem[a]
         /\ mem' \in [Words -> Values \cup Links]
         /\ Depth' = Depth + 1
         /\ active' \in Seq([fun : DOMAIN Functions, base : 0 .. StackTop])
         /\ \A n \in 1 .. Depth : Fun(n)' = Fun(n) /\ Base(n)' = Base(n)
         /\ \A n : n = Depth + 1 => Fun(n)' = callee /\ Base(n)' = sp'
<1>1. /\ callee # Nobody /\ callee \in DOMAIN Functions /\ taken = Params(callee)
      /\ Depth <= calls /\ calls \in 0 .. MaxCalls /\ sp \in 0 .. StackTop
      /\ sp >= Params(callee) - taken + SaveArea + Locals(callee)
      /\ StackTop \in Nat /\ MaxCalls \in Nat
      /\ mem \in [Words -> Values \cup Links] /\ reg \in [Regs -> Values]
      /\ active \in Seq([fun : DOMAIN Functions, base : 0 .. StackTop])
  BY BoundsAssumption, Taken, Top DEF Enter, StackInv, Calling, TypeOK
<1>2. /\ Params(callee) \in Nat /\ Locals(callee) \in Nat /\ SavedRegisters \in Nat
      /\ SaveArea = SavedRegisters + 1 /\ ReturnAt = SavedRegisters
  BY <1>1, Sizes
<1>3. Depth \in Nat /\ Depth \in Links /\ Depth <= MaxCalls
  BY <1>1 DEF Depth, Links
<1> DEFINE top == sp - SaveArea
<1>4. top \in Nat /\ top >= Locals(callee) /\ top + SavedRegisters + 1 = sp
  BY <1>1, <1>2
<1>5. sp' = top - Locals(callee)
  BY DEF Enter, Prologue
<1>6. /\ sp' \in Nat /\ sp' <= StackTop /\ sp' + Locals(callee) = top
      /\ sp' + Locals(callee) + SavedRegisters + 1 = sp
  <2>1. \A t, l, s, w \in Nat :
          t >= l /\ t + SavedRegisters + 1 = s /\ s <= w =>
            t - l \in Nat /\ t - l <= w /\ (t - l) + l = t
            /\ (t - l) + l + SavedRegisters + 1 = s
    BY <1>2
  <2> HIDE DEF top
  <2>2. sp \in Nat /\ sp <= StackTop
    BY <1>1
  <2> QED
    BY <1>1, <1>2, <1>4, <1>5, <2>1, <2>2, SMTT(30)
<1>7. mem' = [a \in Words |->
                IF \E r \in Regs : a = top + SavedAt(r)
                  THEN reg[CHOOSE r \in Regs : a = top + SavedAt(r)]
                ELSE IF a = top + ReturnAt THEN Depth ELSE mem[a]]
  BY DEF Enter, Prologue, Depth
<1> HIDE DEF top
<1>8. ASSUME NEW r \in Regs
      PROVE  top + SavedAt(r) \in Words /\ mem'[top + SavedAt(r)] = reg[r]
  <2>1. top + SavedAt(r) \in Words
    BY <1>1, <1>2, <1>4, Places DEF Words
  <2>2. \A q \in Regs : top + SavedAt(r) = top + SavedAt(q) => q = r
    BY <1>4, Places
  <2>3. (CHOOSE q \in Regs : top + SavedAt(r) = top + SavedAt(q)) = r
    BY <2>2
  <2> QED
    BY <1>7, <2>1, <2>3
<1>9. mem'[top + ReturnAt] = Depth
  <2>1. top + ReturnAt \in Words
    BY <1>1, <1>2, <1>4 DEF Words
  <2>2. \A r \in Regs : top + ReturnAt # top + SavedAt(r)
    BY <1>2, <1>4, Places
  <2> QED
    BY <1>7, <2>1, <2>2
<1>10. ASSUME NEW a \in Words, a >= sp PROVE mem'[a] = mem[a]
  <2>1. \A r \in Regs : a # top + SavedAt(r)
    BY <1>2, <1>4, <1>10, Places DEF Words
  <2>2. a # top + ReturnAt
    BY <1>2, <1>4, <1>10 DEF Words
  <2> QED
    BY <1>7, <2>1, <2>2
<1>11. mem' \in [Words -> Values \cup Links]
  <2>1. ASSUME NEW a \in Words PROVE mem'[a] \in Values \cup Links
    <3>1. CASE \E r \in Regs : a = top + SavedAt(r)
      BY <1>1, <1>8, <3>1
    <3>2. CASE a = top + ReturnAt
      BY <1>3, <1>9, <3>2
    <3>3. CASE ~ (\E r \in Regs : a = top + SavedAt(r)) /\ a # top + ReturnAt
      BY <1>1, <1>7, <3>3
    <3> QED
      BY <3>1, <3>2, <3>3
  <2> QED
    BY <1>7, <2>1
<1> DEFINE R == [fun : DOMAIN Functions, base : 0 .. StackTop]
           x == [fun |-> callee, base |-> sp']
<1>12. x \in R
  BY <1>1, <1>6
<1>13. x.fun = callee /\ x.base = sp'
  OBVIOUS
<1>14. active' = Append(active, x) /\ active \in Seq(R)
  BY <1>1 DEF Enter
<1> HIDE DEF R, x
<1>15. /\ active' \in Seq(R) /\ Len(active') = Len(active) + 1
       /\ \A n \in 1 .. Len(active) : active'[n] = active[n]
       /\ active'[Len(active) + 1] = x
  BY <1>12, <1>14, Appended
<1>16. active' \in Seq([fun : DOMAIN Functions, base : 0 .. StackTop])
  BY <1>15 DEF R
<1>17. Depth' = Depth + 1 /\ \A n \in 1 .. Depth : Fun(n)' = Fun(n) /\ Base(n)' = Base(n)
  BY <1>15 DEF Depth, Fun, Base
<1>18. \A n : n = Depth + 1 => Fun(n)' = callee /\ Base(n)' = sp'
  BY <1>13, <1>15 DEF Depth, Fun, Base
<1>19. mem'[sp' + Locals(callee) + ReturnAt] = Depth
       /\ \A r \in Regs : mem'[sp' + Locals(callee) + SavedAt(r)] = reg[r]
  BY <1>6, <1>8, <1>9
<1>20. sp \in Nat /\ sp <= StackTop /\ Depth <= calls
  BY <1>1
<1>21. taken' = 0
  BY DEF Enter, taken
<1> QED
  BY <1>1, <1>3, <1>6, <1>10, <1>11, <1>16, <1>17, <1>18, <1>19, <1>20, <1>21

LEMMA EnterStep ==
  ASSUME StackInv, Enter
  PROVE  StackInv'
<1>1. /\ callee \in DOMAIN Functions /\ taken = Params(callee) /\ Depth \in Nat
      /\ Depth <= MaxCalls /\ Depth <= calls
      /\ sp \in Nat /\ sp <= StackTop /\ StackTop \in Nat
      /\ sp' \in Nat /\ sp' + Locals(callee) + SavedRegisters + 1 = sp
      /\ mem' \in [Words -> Values \cup Links]
      /\ Depth' = Depth + 1
      /\ active' \in Seq([fun : DOMAIN Functions, base : 0 .. StackTop])
  BY EnterEffect
<1>2. \A n \in 1 .. Depth : Fun(n)' = Fun(n) /\ Base(n)' = Base(n)
  BY EnterEffect
<1>3. \A n : n = Depth + 1 => Fun(n)' = callee /\ Base(n)' = sp'
  BY EnterEffect
<1>4. /\ ra' = Depth /\ callee' = Nobody /\ taken' = 0 /\ pushed' = 0
      /\ UNCHANGED <<reg, a0, writes, calls>>
  BY EnterEffect DEF Enter, Depth, counters
<1>5. /\ Params(callee) \in Nat /\ Locals(callee) \in Nat /\ SavedRegisters \in Nat
      /\ FrameSize(callee) = Locals(callee) + SavedRegisters + 1 + Params(callee)
  BY <1>1, Sizes
<1>6. MaxCalls \in Nat /\ calls \in 0 .. MaxCalls
  BY BoundsAssumption DEF StackInv, TypeOK
<1>7. TypeOK'
  <2>1. sp' \in 0 .. StackTop
    BY <1>1, <1>5, SMTT(30)
  <2>2. Len(active)' <= MaxCalls + 1 /\ ra' \in Links
    BY <1>1, <1>4, <1>6 DEF Depth, Links
  <2> QED
    BY <1>1, <1>4, <2>1, <2>2 DEF StackInv, TypeOK
<1>8. Limit(Depth) = sp + taken /\ sp + taken \in Nat
  <2>1. sp + taken = Limit(Depth)
    BY DEF StackInv, FramesStack
  <2>2. taken \in Nat
    BY <1>1, <1>5
  <2> QED
    BY <1>1, <2>1, <2>2
<1>9. \A n \in 0 .. Depth : Limit(n)' = Limit(n)
  BY <1>1, <1>2 DEF Limit
<1>10. FramesStack'
  <2>1. ASSUME NEW n \in 1 .. Depth + 1
        PROVE  Base(n)' + FrameSize(Fun(n)') = Limit(n - 1)'
    <3>1. CASE n = Depth + 1
      BY <1>1, <1>3, <1>5, <1>8, <1>9, <3>1, SMTT(30)
    <3>2. CASE n \in 1 .. Depth
      <4>1. Base(n) + FrameSize(Fun(n)) = Limit(n - 1)
        BY <3>2 DEF StackInv, FramesStack
      <4>2. n - 1 \in 0 .. Depth
        BY <1>1, <3>2
      <4> QED
        BY <1>2, <1>9, <3>2, <4>1, <4>2
    <3> QED
      BY <1>1, <3>1, <3>2
  <2>2. ASSUME NEW m \in 1 .. Depth + 1, NEW n \in 1 .. Depth + 1, m < n
        PROVE  Base(n)' + FrameSize(Fun(n)') <= Base(m)'
    <3>1. m \in 1 .. Depth
      BY <1>1, <2>2
    <3>2. CASE n = Depth + 1
      <4>1. sp + taken <= Base(m)
        BY <3>1, Frame
      <4> QED
        BY <1>1, <1>2, <1>3, <1>5, <3>1, <3>2, <4>1, SMTT(30)
    <3>3. CASE n \in 1 .. Depth
      BY <1>2, <2>2, <3>1, <3>3 DEF StackInv, FramesStack
    <3> QED
      BY <1>1, <3>2, <3>3
  <2>3. sp' + taken' = sp' /\ Depth + 1 # 0
    <3>1. \A s, d \in Nat : s + 0 = s /\ d + 1 # 0
      OBVIOUS
    <3>2. sp' \in Nat /\ Depth \in Nat /\ taken' = 0
      BY <1>1, <1>4
    <3> QED
      BY <3>1, <3>2
  <2>4. \A n : n = Depth + 1 => Limit(n)' = sp'
    BY <1>3, <2>3 DEF Limit
  <2>5. Limit(Depth)' = sp'
    BY <1>1, <2>4 DEF Limit, Base
  <2> QED
    BY <1>1, <2>1, <2>2, <2>3, <2>5 DEF FramesStack
<1>11. FramesSaved'
  <2>1. ASSUME NEW n \in 1 .. Depth + 1
        PROVE  /\ \A r \in Regs :
                    mem'[Base(n)' + Locals(Fun(n)') + SavedAt(r)] \in Values
               /\ mem'[Base(n)' + Locals(Fun(n)') + ReturnAt] = n - 1
    <3>1. CASE n = Depth + 1
      <4>1. Base(n)' = sp' /\ Fun(n)' = callee
        BY <1>3, <3>1
      <4>2. \A r \in Regs : mem'[sp' + Locals(callee) + SavedAt(r)] = reg[r]
        BY EnterEffect
      <4>3. mem'[sp' + Locals(callee) + ReturnAt] = Depth
        BY EnterEffect
      <4> QED
        BY <1>1, <3>1, <4>1, <4>2, <4>3 DEF StackInv, TypeOK
    <3>2. CASE n \in 1 .. Depth
      <4>1. \A a \in Words : a >= sp => mem'[a] = mem[a]
        BY EnterEffect
      <4>2. ASSUME NEW k \in 0 .. SavedRegisters
            PROVE  mem'[Base(n) + Locals(Fun(n)) + k] = mem[Base(n) + Locals(Fun(n)) + k]
        <5> DEFINE b == Base(n) + Locals(Fun(n)) + k
        <5>1. b \in Words /\ b >= sp + taken
          BY <3>2, SavedAddress
        <5> HIDE DEF b
        <5>2. b >= sp
          BY <1>1, <1>5, <5>1, SMTT(30) DEF Words
        <5>3. mem'[b] = mem[b]
          BY <4>1, <5>1, <5>2
        <5> QED
          BY <5>3 DEF b
      <4>3. \A r \in Regs : SavedAt(r) \in 0 .. SavedRegisters
        BY Places
      <4>4. ReturnAt \in 0 .. SavedRegisters
        BY SavedRegistersAssumption DEF ReturnAt
      <4> QED
        BY <1>2, <3>2, <4>2, <4>3, <4>4 DEF FramesSaved, StackInv
    <3> QED
      BY <1>1, <3>1, <3>2
  <2> QED
    BY <1>1, <2>1 DEF FramesSaved
<1>12. Calling'
  BY <1>1, <1>4, <1>6 DEF Calling
<1> QED
  BY <1>7, <1>10, <1>11, <1>12 DEF StackInv

(* What a return brings back.                                               *)
LEMMA ReturnEffect ==
  ASSUME StackInv, NEW v \in Values, Return(v)
  PROVE  /\ Depth \in 1 .. Depth /\ Depth \in Nat
         /\ Body = Fun(Depth) /\ Body \in DOMAIN Functions
         /\ callee = Nobody /\ taken = 0 /\ taken' = 0 /\ ra' = Depth - 1
         /\ reg' = [r \in Regs |-> mem[Base(Depth) + Locals(Fun(Depth)) + SavedAt(r)]]
         /\ reg' \in [Regs -> Values]
         /\ sp' = Limit(Depth - 1) /\ sp' \in 0 .. StackTop
         /\ active' \in Seq([fun : DOMAIN Functions, base : 0 .. StackTop])
         /\ Depth' = Depth - 1
         /\ \A n \in 1 .. Depth - 1 : Fun(n)' = Fun(n) /\ Base(n)' = Base(n)
<1>1. active # <<>> /\ callee = Nobody /\ taken = 0 /\ taken' = 0
  <2>1. active # <<>> /\ callee = Nobody /\ taken = 0 /\ callee' = callee /\ pushed' = pushed
    BY DEF Return, Running, StackInv, Calling
  <2> QED
    BY <2>1 DEF taken
<1>2. /\ Depth \in 1 .. Depth /\ Depth \in Nat /\ Depth > 0 /\ Body = Fun(Depth)
      /\ Body \in DOMAIN Functions
  BY <1>1, Current
<1>3. /\ Base(Depth) + FrameSize(Fun(Depth)) = Limit(Depth - 1)
      /\ Base(Depth) = sp + taken /\ sp \in Nat /\ StackTop \in Nat
      /\ Limit(Depth - 1) <= StackTop /\ Limit(Depth - 1) \in Nat
  BY <1>2, Frame
<1>4. Base(Depth) = sp
  BY <1>1, <1>3
<1>5. /\ reg' = [r \in Regs |-> mem[sp + Locals(Body) + SavedAt(r)]]
      /\ ra' = mem[sp + Locals(Body) + ReturnAt]
      /\ sp' = sp + FrameSize(Body)
      /\ active' = IF ra' \in 0 .. Depth THEN SubSeq(active, 1, ra') ELSE <<>>
  BY DEF Return, Epilogue, Depth
<1>6. ra' = Depth - 1 /\ \A r \in Regs : mem[Base(Depth) + Locals(Fun(Depth)) + SavedAt(r)] \in Values
  BY <1>2, <1>4, <1>5 DEF StackInv, FramesSaved
<1>7. reg' = [r \in Regs |-> mem[Base(Depth) + Locals(Fun(Depth)) + SavedAt(r)]]
  BY <1>2, <1>4, <1>5
<1>8. reg' \in [Regs -> Values]
  BY <1>6, <1>7
<1>9. sp' = Limit(Depth - 1) /\ sp' \in 0 .. StackTop
  BY <1>2, <1>3, <1>4, <1>5
<1>10. active' = SubSeq(active, 1, Depth - 1)
  BY <1>2, <1>5, <1>6
<1> DEFINE R == [fun : DOMAIN Functions, base : 0 .. StackTop]
<1>11. active \in Seq(R)
  BY DEF StackInv, TypeOK
<1> HIDE DEF R
<1>12. Depth - 1 \in Nat /\ Depth - 1 <= Len(active)
  BY <1>2 DEF Depth
<1>13. /\ active' \in Seq(R) /\ Len(active') = Depth - 1
       /\ \A n \in 1 .. Depth - 1 : active'[n] = active[n]
  BY <1>10, <1>11, <1>12, Shortened
<1>14. active' \in Seq([fun : DOMAIN Functions, base : 0 .. StackTop])
  BY <1>13 DEF R
<1>15. Depth' = Depth - 1 /\ \A n \in 1 .. Depth - 1 : Fun(n)' = Fun(n) /\ Base(n)' = Base(n)
  BY <1>13 DEF Depth, Fun, Base
<1> QED
  BY <1>1, <1>2, <1>6, <1>7, <1>8, <1>9, <1>14, <1>15

LEMMA ReturnStep ==
  ASSUME StackInv, NEW v \in Values, Return(v)
  PROVE  StackInv'
<1>1. /\ Depth \in 1 .. Depth /\ Depth \in Nat
      /\ callee = Nobody /\ taken = 0 /\ ra' = Depth - 1
      /\ reg' \in [Regs -> Values]
      /\ sp' = Limit(Depth - 1) /\ sp' \in 0 .. StackTop
      /\ active' \in Seq([fun : DOMAIN Functions, base : 0 .. StackTop])
      /\ Depth' = Depth - 1
  BY ReturnEffect
<1>2. \A n \in 1 .. Depth - 1 : Fun(n)' = Fun(n) /\ Base(n)' = Base(n)
  BY ReturnEffect
<1>3. a0' = v /\ taken' = 0 /\ UNCHANGED <<mem, callee, pushed, writes, calls>>
  BY ReturnEffect DEF Return, counters
<1>4. MaxCalls \in Nat /\ calls \in 0 .. MaxCalls /\ Depth <= MaxCalls + 1 /\ Depth <= calls + 1
  BY <1>1, BoundsAssumption DEF StackInv, TypeOK, Calling, Depth
<1>5. TypeOK'
  <2>1. Len(active)' <= MaxCalls + 1 /\ ra' \in Links
    BY <1>1, <1>4 DEF Depth, Links
  <2> QED
    BY <1>1, <1>3, <2>1 DEF StackInv, TypeOK
<1>6. \A n \in 0 .. Depth - 1 : Limit(n)' = Limit(n)
  BY <1>1, <1>2 DEF Limit
<1>7. FramesStack'
  <2>1. ASSUME NEW n \in 1 .. Depth - 1
        PROVE  Base(n)' + FrameSize(Fun(n)') = Limit(n - 1)'
    <3>1. n \in 1 .. Depth /\ n - 1 \in 0 .. Depth - 1
      BY <1>1
    <3> QED
      BY <1>2, <1>6, <3>1 DEF StackInv, FramesStack
  <2>2. ASSUME NEW m \in 1 .. Depth - 1, NEW n \in 1 .. Depth - 1, m < n
        PROVE  Base(n)' + FrameSize(Fun(n)') <= Base(m)'
    <3>1. m \in 1 .. Depth /\ n \in 1 .. Depth
      BY <1>1
    <3> QED
      BY <1>2, <2>2, <3>1 DEF StackInv, FramesStack
  <2>3. Depth - 1 \in 0 .. Depth - 1 /\ sp' + taken' = sp'
    BY <1>1, <1>3
  <2>4. \A n : n = Depth - 1 => Limit(n)' = sp'
    BY <1>1, <1>6, <2>3
  <2>5. Limit(Depth)' = sp'
    BY <1>1, <2>4 DEF Limit, Base
  <2> QED
    BY <1>1, <2>1, <2>2, <2>3, <2>5 DEF FramesStack
<1>8. FramesSaved'
  <2>1. \A n \in 1 .. Depth - 1 : n \in 1 .. Depth
    BY <1>1
  <2> QED
    BY <1>1, <1>2, <1>3, <2>1 DEF StackInv, FramesSaved
<1>9. Calling'
  BY <1>1, <1>3, <1>4 DEF Calling
<1> QED
  BY <1>5, <1>7, <1>8, <1>9 DEF StackInv

LEMMA StackInvSteps ==
  ASSUME StackInv, [Next]_vars
  PROVE  StackInv'
<1>1. ASSUME NEW r \in Regs, NEW v \in Values, WriteRegister(r, v) PROVE StackInv'
  BY <1>1, WriteRegisterStep
<1>2. ASSUME NEW v \in Values, WriteLocal(v) PROVE StackInv'
  BY <1>2, WriteLocalStep
<1>3. ASSUME NEW v \in Values, WriteParam(v) PROVE StackInv'
  BY <1>3, WriteParamStep
<1>4. ASSUME NEW f \in DOMAIN Functions, BeginCall(f) PROVE StackInv'
  BY <1>4, BeginCallStep
<1>5. ASSUME NEW v \in Values, Push(v) PROVE StackInv'
  BY <1>5, PushStep
<1>6. CASE Enter
  BY <1>6, EnterStep
<1>7. ASSUME NEW v \in Values, Return(v) PROVE StackInv'
  BY <1>7, ReturnStep
<1>8. CASE UNCHANGED vars
  BY <1>8
  DEF StackInv, TypeOK, FramesStack, FramesSaved, Calling, Limit, Base, Fun, Depth, taken, vars
<1>9. CASE Halted
  BY <1>8, <1>9 DEF Halted
<1> QED
  BY <1>1, <1>2, <1>3, <1>4, <1>5, <1>6, <1>7, <1>8, <1>9 DEF Next

LEMMA InvariantHolds == Spec => []StackInv
BY InitInv, StackInvSteps, PTL DEF Spec

(* The stack stays within the memory, registers hold values and never an    *)
(* address of the code, and when main has come back everything pushed has   *)
(* been popped, and as many words above it as main has parameters, which    *)
(* the header did not push (codegen.c lines 19-31, 160-221, and the CALL    *)
(* case).                                                                   *)
THEOREM StackStaysInBounds == Spec => []StackInBounds
<1>1. StackInv => StackInBounds
  <2> SUFFICES ASSUME StackInv PROVE StackInBounds
    OBVIOUS
  <2>1. ASSUME active = <<>>, callee = Nobody PROVE sp = StackTop
    <3>1. Depth = 0
      BY <2>1 DEF Depth
    <3>2. sp + taken = StackTop /\ taken = 0 /\ sp \in Nat
      BY <2>1, <3>1, Top DEF StackInv, FramesStack, Limit, Calling, TypeOK
    <3> QED
      BY <3>2
  <2> QED
    BY <2>1, Top DEF StackInv, StackInBounds, StackBalanced
<1> QED
  BY <1>1, InvariantHolds, PTL

-----------------------------------------------------------------------------
(* The refinement. A function over 1 .. k is a sequence, and one over one   *)
(* index more that agrees with it is that sequence with an element added.   *)
Over(s, k) == s = [i \in 1 .. k |-> s[i]]

LEMMA Extended ==
  ASSUME NEW k \in Nat, NEW s, NEW t, Over(s, k), Over(t, k + 1),
         \A i \in 1 .. k : t[i] = s[i]
  PROVE  /\ Len(s) = k /\ Len(t) = k + 1
         /\ t = Append(s, t[k + 1]) /\ Last(t) = t[k + 1] /\ Front(t) = s
<1> DEFINE S == {t[i] : i \in 1 .. k + 1}
<1>1. \A i \in 1 .. k + 1 : t[i] \in S
  OBVIOUS
<1> HIDE DEF S
<1>2. t \in [1 .. k + 1 -> S] /\ s \in [1 .. k -> S]
  BY <1>1 DEF Over
<1>3. t \in Seq(S) /\ s \in Seq(S) /\ Len(s) = k /\ Len(t) = k + 1
  BY <1>2
<1>4. t = Append(s, t[k + 1])
  <2> DEFINE u == Append(s, t[k + 1])
  <2>1. t[k + 1] \in S
    BY <1>1
  <2>2. u \in Seq(S) /\ Len(u) = k + 1 /\ u[k + 1] = t[k + 1] /\ \A i \in 1 .. k : u[i] = s[i]
    BY <1>3, <2>1, AppendProperties
  <2> HIDE DEF u
  <2>3. \A i \in 1 .. k + 1 : u[i] = t[i]
    BY <2>2
  <2>4. u = t
    BY <1>3, <2>2, <2>3, SeqEqual
  <2> QED
    BY <2>4 DEF u
<1>5. Front(t) = SubSeq(t, 1, k) /\ Last(t) = t[k + 1]
  BY <1>3 DEF Front, Last
<1>6. SubSeq(t, 1, k) = s
  <2> DEFINE u == SubSeq(t, 1, k)
  <2>1. u \in Seq(S) /\ Len(u) = k /\ \A i \in 1 .. k : u[i] = t[i]
    BY <1>3, k <= Len(t), Shortened
  <2> HIDE DEF u
  <2>2. \A i \in 1 .. k : u[i] = s[i]
    BY <2>1
  <2>3. u = s
    BY <1>3, <2>1, <2>2, SeqEqual
  <2> QED
    BY <2>3 DEF u
<1> QED
  BY <1>3, <1>4, <1>5, <1>6

LEMMA FrameAddress ==
  ASSUME StackInv, NEW n \in 1 .. Depth, NEW k \in 0 .. FrameSize(Fun(n)) - 1
  PROVE  /\ Base(n) + k \in Words /\ Base(n) + k >= sp + taken
         /\ n < Depth => Base(n) + k >= sp + taken + FrameSize(Fun(Depth))
<1>1. /\ Fun(n) \in DOMAIN Functions /\ Base(n) \in Nat /\ StackTop \in Nat
      /\ Limit(n - 1) <= StackTop /\ Base(n) + FrameSize(Fun(n)) = Limit(n - 1)
      /\ sp + taken <= Base(n) /\ sp \in Nat /\ taken \in Nat
      /\ n < Depth => sp + taken + FrameSize(Fun(Depth)) <= Base(n)
      /\ Depth \in Nat /\ Limit(n - 1) \in Nat
  BY Frame
<1>2. FrameSize(Fun(n)) \in Nat
  BY <1>1, Sizes
<1>3. ASSUME n < Depth PROVE FrameSize(Fun(Depth)) \in Nat
  <2>1. Depth \in 1 .. Depth
    BY <1>1, <1>3
  <2>2. Fun(Depth) \in DOMAIN Functions
    BY <2>1, Frame
  <2> QED
    BY <2>2, Sizes
<1> QED
  BY <1>1, <1>2, <1>3 DEF Words

(* What steps leave alone of frame n: its saved words, or all of it.        *)
Same(n) == Fun(n)' = Fun(n) /\ Base(n)' = Base(n)
SavesKept(n) ==
  Same(n) /\ \A k \in 0 .. SavedRegisters :
               mem'[Base(n) + Locals(Fun(n)) + k] = mem[Base(n) + Locals(Fun(n)) + k]
FrameKept(n) ==
  Same(n) /\ \A k \in 0 .. FrameSize(Fun(n)) - 1 : mem'[Base(n) + k] = mem[Base(n) + k]

LEMMA FrameKeepsSaves ==
  ASSUME StackInv, NEW n \in 1 .. Depth, FrameKept(n)
  PROVE  SavesKept(n)
<1>1. Fun(n) \in DOMAIN Functions /\ Base(n) \in Nat
  BY Frame
<1>2. /\ Locals(Fun(n)) \in Nat /\ Params(Fun(n)) \in Nat /\ SavedRegisters \in Nat
      /\ FrameSize(Fun(n)) = Locals(Fun(n)) + SavedRegisters + 1 + Params(Fun(n))
  BY <1>1, Sizes
<1>3. ASSUME NEW k \in 0 .. SavedRegisters
      PROVE  mem'[Base(n) + Locals(Fun(n)) + k] = mem[Base(n) + Locals(Fun(n)) + k]
  <2>1. Locals(Fun(n)) + k \in 0 .. FrameSize(Fun(n)) - 1
    BY <1>2
  <2>2. mem'[Base(n) + (Locals(Fun(n)) + k)] = mem[Base(n) + (Locals(Fun(n)) + k)]
    BY <2>1 DEF FrameKept
  <2>3. Base(n) + (Locals(Fun(n)) + k) = Base(n) + Locals(Fun(n)) + k
    BY <1>1, <1>2
  <2> QED
    BY <2>2, <2>3
<1> QED
  BY <1>3 DEF FrameKept, SavesKept

LEMMA RegistersKept ==
  ASSUME NEW n \in 0 .. Depth - 1, Depth \in Nat, n # Depth', SavesKept(n + 1)
  PROVE  RegistersOf(n)' = RegistersOf(n)
<1>1. n # Depth
  OBVIOUS
<1>2. \A r \in Regs : SavedAt(r) \in 0 .. SavedRegisters
  BY Places
<1> QED
  BY <1>1, <1>2 DEF RegistersOf, SavesKept, Same

LEMMA ActivationKept ==
  ASSUME StackInv, NEW n \in 0 .. Depth, n # 0 => FrameKept(n),
         RegistersOf(n)' = RegistersOf(n)
  PROVE  ActivationOf(n)' = ActivationOf(n)
<1>1. CASE n = 0
  BY <1>1 DEF ActivationOf
<1>2. CASE n # 0
  <2>0. n \in 1 .. Depth
    BY <1>2
  <2>1. Fun(n) \in DOMAIN Functions /\ Base(n) \in Nat
    BY <2>0, Frame
  <2>2. /\ Locals(Fun(n)) \in Nat /\ Params(Fun(n)) \in Nat /\ SavedRegisters \in Nat
        /\ FrameSize(Fun(n)) = Locals(Fun(n)) + SavedRegisters + 1 + Params(Fun(n))
        /\ \A i \in 1 .. Locals(Fun(n)) : LocalAt(Fun(n), i) \in 0 .. Locals(Fun(n)) - 1
        /\ \A i \in 1 .. Params(Fun(n)) :
             ParamAt(Fun(n), i) \in Locals(Fun(n)) + SavedRegisters + 1 .. FrameSize(Fun(n)) - 1
    BY <2>1, Sizes
  <2>3. \A i \in 1 .. Locals(Fun(n)) : LocalAt(Fun(n), i) \in 0 .. FrameSize(Fun(n)) - 1
    BY <2>2
  <2>4. \A i \in 1 .. Params(Fun(n)) : ParamAt(Fun(n), i) \in 0 .. FrameSize(Fun(n)) - 1
    BY <2>2
  <2>5. \A i \in 1 .. Locals(Fun(n)) :
          mem'[Base(n) + LocalAt(Fun(n), i)] = mem[Base(n) + LocalAt(Fun(n), i)]
    BY <1>2, <2>3 DEF FrameKept
  <2>6. \A i \in 1 .. Params(Fun(n)) :
          mem'[Base(n) + ParamAt(Fun(n), i)] = mem[Base(n) + ParamAt(Fun(n), i)]
    BY <1>2, <2>4 DEF FrameKept
  <2>7. Fun(n)' = Fun(n) /\ Base(n)' = Base(n)
    BY <1>2 DEF FrameKept, Same
  <2> QED
    BY <1>2, <2>5, <2>6, <2>7 DEF ActivationOf
<1> QED
  BY <1>1, <1>2

LEMMA SameParts == \A s : Private!Last(s) = Last(s) /\ Private!Front(s) = Front(s)
BY DEF Private!Last, Private!Front, Last, Front

(* The abstract state as sequences.                                         *)
LEMMA Shown ==
  ASSUME StackInv
  PROVE  /\ Depth \in Nat
         /\ Over(activations, Depth + 1)
         /\ \A n \in 0 .. Depth : activations[n + 1] = ActivationOf(n)
         /\ Len(activations) = Depth + 1 /\ Last(activations) = ActivationOf(Depth)
         /\ RegistersOf(Depth) = reg
         /\ Over(arguments, taken)
         /\ \A i \in 1 .. taken : arguments[i] = mem[sp + taken - i]
         /\ Len(arguments) = taken
<1>1. Depth \in Nat /\ taken \in Nat
  BY Taken DEF StackInv, TypeOK, Depth
<1>2. /\ Over(activations, Depth + 1)
      /\ \A n \in 1 .. Depth + 1 : activations[n] = ActivationOf(n - 1)
  BY DEF activations, Over
<1>3. \A n \in 0 .. Depth : n + 1 \in 1 .. Depth + 1 /\ (n + 1) - 1 = n
  BY <1>1
<1>4. \A n \in 0 .. Depth : activations[n + 1] = ActivationOf(n)
  BY <1>2, <1>3
<1> DEFINE s == [n \in 1 .. Depth |-> activations[n]]
<1>5. Over(s, Depth) /\ \A n \in 1 .. Depth : activations[n] = s[n]
  BY DEF Over
<1> HIDE DEF s
<1>6. Len(activations) = Depth + 1 /\ Last(activations) = activations[Depth + 1]
  BY <1>1, <1>2, <1>5, Extended
<1>7. /\ Over(arguments, taken)
      /\ \A i \in 1 .. taken : arguments[i] = mem[sp + taken - i]
  BY DEF arguments, Over
<1> DEFINE t == [i \in 1 .. taken + 1 |-> IF i \in 1 .. taken THEN arguments[i] ELSE 0]
<1>8. Over(t, taken + 1) /\ \A i \in 1 .. taken : t[i] = arguments[i]
  BY <1>1 DEF Over
<1> HIDE DEF t
<1>9. Len(arguments) = taken
  BY <1>1, <1>7, <1>8, Extended
<1> QED
  BY <1>1, <1>2, <1>4, <1>6, <1>7, <1>9 DEF RegistersOf

(* A step after which the lower activations are what they were changes,     *)
(* adds or takes the newest one.                                            *)
LEMMA NewestChanged ==
  ASSUME StackInv, StackInv', NEW d \in Nat, Depth = d, Depth' = d,
         \A n \in 0 .. d - 1 : ActivationOf(n)' = ActivationOf(n)
  PROVE  activations' = Append(Front(activations), ActivationOf(d)')
<1> DEFINE s == [n \in 1 .. d |-> activations[n]]
<1>1. Over(s, d) /\ \A n \in 1 .. d : activations[n] = s[n]
  BY DEF Over
<1>2. Over(activations, d + 1)
      /\ \A n \in 0 .. d : activations[n + 1] = ActivationOf(n)
  BY Shown
<1>3. Over(activations', d + 1)
      /\ \A n \in 0 .. d : activations'[n + 1] = ActivationOf(n)'
  BY DEF activations, Over
<1>4. \A n \in 1 .. d : activations'[n] = s[n]
  <2>1. ASSUME NEW n \in 1 .. d PROVE activations'[n] = s[n]
    <3>1. n - 1 \in 0 .. d - 1 /\ n - 1 \in 0 .. d /\ (n - 1) + 1 = n
      OBVIOUS
    <3> QED
      BY <1>1, <1>2, <1>3, <3>1
  <2> QED
    BY <2>1
<1>5. activations'[d + 1] = ActivationOf(d)'
  BY <1>3
<1> HIDE DEF s
<1>6. Front(activations) = s
  BY <1>1, <1>2, Extended
<1>7. activations' = Append(s, activations'[d + 1])
  BY <1>1, <1>3, <1>4, Extended
<1> QED
  BY <1>5, <1>6, <1>7

LEMMA NewestAdded ==
  ASSUME StackInv, StackInv', NEW d \in Nat, Depth = d, Depth' = d + 1,
         \A n \in 0 .. d : ActivationOf(n)' = ActivationOf(n)
  PROVE  activations' = Append(activations, ActivationOf(d + 1)')
<1>1. Over(activations, d + 1)
      /\ \A n \in 0 .. d : activations[n + 1] = ActivationOf(n)
  BY Shown
<1>2. Over(activations', (d + 1) + 1)
      /\ \A n \in 0 .. d + 1 : activations'[n + 1] = ActivationOf(n)'
  BY DEF activations, Over
<1>3. \A n \in 1 .. d + 1 : activations'[n] = activations[n]
  <2>1. ASSUME NEW n \in 1 .. d + 1 PROVE activations'[n] = activations[n]
    <3>1. n - 1 \in 0 .. d /\ n - 1 \in 0 .. d + 1 /\ (n - 1) + 1 = n
      OBVIOUS
    <3> QED
      BY <1>1, <1>2, <3>1
  <2> QED
    BY <2>1
<1>4. activations'[(d + 1) + 1] = ActivationOf(d + 1)'
  BY <1>2
<1>5. d + 1 \in Nat
  OBVIOUS
<1> QED
  BY <1>1, <1>2, <1>3, <1>4, <1>5, Extended

LEMMA NewestTaken ==
  ASSUME StackInv, StackInv', NEW d \in Nat, Depth = d + 1, Depth' = d,
         \A n \in 0 .. d : ActivationOf(n)' = ActivationOf(n)
  PROVE  activations' = Front(activations)
<1>1. Over(activations, (d + 1) + 1)
      /\ \A n \in 0 .. d + 1 : activations[n + 1] = ActivationOf(n)
  BY Shown
<1>2. Over(activations', d + 1)
      /\ \A n \in 0 .. d : activations'[n + 1] = ActivationOf(n)'
  BY DEF activations, Over
<1>3. \A n \in 1 .. d + 1 : activations[n] = activations'[n]
  <2>1. ASSUME NEW n \in 1 .. d + 1 PROVE activations'[n] = activations[n]
    <3>1. n - 1 \in 0 .. d /\ n - 1 \in 0 .. d + 1 /\ (n - 1) + 1 = n
      OBVIOUS
    <3> QED
      BY <1>1, <1>2, <3>1
  <2> QED
    BY <2>1
<1>4. d + 1 \in Nat
  OBVIOUS
<1> QED
  BY <1>1, <1>2, <1>3, <1>4, Extended

(* A step of a body that stays within its own frame.                        *)
Within(d) ==
  /\ UNCHANGED <<a0, active, taken>> /\ Depth = d /\ d > 0 /\ taken = 0
  /\ SavesKept(d) /\ \A n \in 1 .. d - 1 : FrameKept(n)

LEMMA WithinFrame ==
  ASSUME StackInv, StackInv', NEW d \in Nat, Within(d)
  PROVE  /\ Private!Inside /\ UNCHANGED <<arguments, a0>>
         /\ activations' = Append(Front(activations), ActivationOf(d)')
         /\ Private!Top = ActivationOf(d)
<1>1. Depth = d /\ Depth' = d /\ d \in 1 .. d
  BY DEF Within, Depth
<1>2. ASSUME NEW n \in 0 .. d - 1 PROVE ActivationOf(n)' = ActivationOf(n)
  <2>1. SavesKept(n + 1)
    <3>1. CASE n + 1 = d
      BY <3>1 DEF Within
    <3>2. CASE n + 1 # d
      <4>1. n + 1 \in 1 .. d - 1 /\ n + 1 \in 1 .. Depth
        BY <1>1, <3>2
      <4>2. FrameKept(n + 1)
        BY <4>1 DEF Within
      <4> QED
        BY <4>1, <4>2, FrameKeepsSaves
    <3> QED
      BY <3>1, <3>2
  <2>2. n \in 0 .. Depth - 1 /\ n # Depth' /\ n \in 0 .. Depth /\ Depth \in Nat
    BY <1>1
  <2>3. RegistersOf(n)' = RegistersOf(n)
    BY <2>1, <2>2, RegistersKept
  <2>4. n # 0 => FrameKept(n)
    BY DEF Within
  <2> QED
    BY <2>2, <2>3, <2>4, ActivationKept
<1>3. activations' = Append(Front(activations), ActivationOf(d)')
  BY <1>1, <1>2, NewestChanged
<1>4. Private!Inside /\ Private!Top = ActivationOf(d)
  <2>1. Len(activations) = Depth + 1 /\ Last(activations) = ActivationOf(Depth)
    BY Shown
  <2>2. Len(activations) = d + 1 /\ Last(activations) = ActivationOf(d)
    BY <1>1, <2>1
  <2>3. d + 1 > 1
    BY <1>1
  <2> QED
    BY <2>2, <2>3, SameParts DEF Private!Inside, Private!Top
<1>5. UNCHANGED <<arguments, a0>>
  BY DEF Within, arguments
<1> QED
  BY <1>3, <1>4, <1>5

LEMMA Updated ==
  ASSUME NEW f, NEW g, NEW p, NEW l, NEW i, NEW v
  PROVE  LET x == [fun |-> f, regs |-> g, params |-> p, locals |-> l]
         IN /\ [x EXCEPT !.regs[i] = v]
                 = [fun |-> f, regs |-> [g EXCEPT ![i] = v], params |-> p, locals |-> l]
            /\ [x EXCEPT !.params[i] = v]
                 = [fun |-> f, regs |-> g, params |-> [p EXCEPT ![i] = v], locals |-> l]
            /\ [x EXCEPT !.locals[i] = v]
                 = [fun |-> f, regs |-> g, params |-> p, locals |-> [l EXCEPT ![i] = v]]
OBVIOUS

LEMMA SetRegisterStep ==
  ASSUME StackInv, StackInv', NEW r \in Regs, NEW v \in Values, WriteRegister(r, v)
  PROVE  Private!Next
<1>1. PICK d \in Nat : Depth = d
  BY Shown
<1>2. /\ UNCHANGED <<mem, a0, active, taken>> /\ active # <<>> /\ taken = 0
      /\ reg' = [reg EXCEPT ![r] = v]
  BY DEF WriteRegister, Write, Running, StackInv, Calling
<1>3. d > 0 /\ Depth' = d
  BY <1>1, <1>2, Current DEF Depth
<1>4. \A n : FrameKept(n) /\ SavesKept(n)
  BY <1>2 DEF FrameKept, SavesKept, Same, Fun, Base
<1>5. Within(d)
  BY <1>1, <1>2, <1>3, <1>4 DEF Within
<1>6. RegistersOf(d) = reg /\ RegistersOf(d)' = reg'
  BY <1>1, <1>3 DEF RegistersOf
<1>7. /\ Fun(d)' = Fun(d) /\ Base(d)' = Base(d) /\ d # 0
  BY <1>3, <1>4 DEF FrameKept, Same
<1> DEFINE P == [i \in 1 .. Params(Fun(d)) |-> mem[Base(d) + ParamAt(Fun(d), i)]]
           L == [i \in 1 .. Locals(Fun(d)) |-> mem[Base(d) + LocalAt(Fun(d), i)]]
<1>8. ActivationOf(d)' = [ActivationOf(d) EXCEPT !.regs[r] = v]
  <2>1. ActivationOf(d) = [fun |-> Fun(d), regs |-> reg, params |-> P, locals |-> L]
    BY <1>6, <1>7 DEF ActivationOf
  <2>2. ActivationOf(d)' = [fun |-> Fun(d), regs |-> reg', params |-> P, locals |-> L]
    BY <1>2, <1>6, <1>7 DEF ActivationOf
  <2> HIDE DEF P, L
  <2> QED
    BY <1>2, <2>1, <2>2, Updated
<1> HIDE DEF P, L
<1>9. /\ Private!Inside /\ UNCHANGED <<arguments, a0>>
      /\ activations' = Append(Front(activations), ActivationOf(d)')
      /\ Private!Top = ActivationOf(d)
  BY <1>5, WithinFrame
<1>10. Private!SetRegister(r, v)
  BY <1>8, <1>9, SameParts DEF Private!SetRegister, Private!Update
<1> QED
  BY <1>10 DEF Private!Next

(* A write to a word of the frame that is no saved register and no return   *)
(* address leaves the frames of the callers and what is saved for them.     *)
Wrote(d, a, v) ==
  /\ Write /\ Depth = d /\ reg' = reg /\ mem' = [mem EXCEPT ![a] = v]
  /\ \/ \E i \in 1 .. Locals(Fun(d)) : a = sp + LocalAt(Fun(d), i)
     \/ \E i \in 1 .. Params(Fun(d)) : a = sp + ParamAt(Fun(d), i)

LEMMA WriteWithin ==
  ASSUME StackInv, NEW d \in Nat, NEW a \in Words, NEW v \in Values, Wrote(d, a, v)
  PROVE  /\ Within(d) /\ d # 0 /\ Base(d) = sp /\ Fun(d) \in DOMAIN Functions
         /\ RegistersOf(d)' = RegistersOf(d) /\ Same(d)
         /\ \A b \in Words : b # a => mem'[b] = mem[b]
         /\ mem'[a] = v
<1>0. /\ Write /\ Depth = d /\ reg' = reg /\ mem' = [mem EXCEPT ![a] = v]
      /\ \/ \E i \in 1 .. Locals(Fun(d)) : a = sp + LocalAt(Fun(d), i)
         \/ \E i \in 1 .. Params(Fun(d)) : a = sp + ParamAt(Fun(d), i)
  BY DEF Wrote
<1>1. /\ active # <<>> /\ taken = 0 /\ sp \in Nat
      /\ UNCHANGED <<sp, a0, active, taken>>
  BY <1>0, Top DEF Write, Running, StackInv, Calling, TypeOK, taken
<1>2. d > 0 /\ d \in 1 .. Depth /\ Depth' = d
  BY <1>0, <1>1, Current DEF Depth
<1>3. /\ Fun(d) \in DOMAIN Functions /\ Base(d) = sp
  <2>1. Fun(d) \in DOMAIN Functions /\ Base(d) = sp + taken
    BY <1>0, <1>2, Frame
  <2> QED
    BY <1>1, <2>1
<1>4. /\ \A b \in Words : b # a => mem'[b] = mem[b]
      /\ mem'[a] = v
  BY <1>0 DEF StackInv, TypeOK
<1>5. \A n : Same(n)
  BY <1>1 DEF Same, Fun, Base
<1>6. SavesKept(d)
  <2>1. ASSUME NEW k \in 0 .. SavedRegisters
        PROVE  mem'[Base(d) + Locals(Fun(d)) + k] = mem[Base(d) + Locals(Fun(d)) + k]
    <3> DEFINE b == Base(d) + Locals(Fun(d)) + k
    <3>1. sp + taken = sp /\ Depth = d
      BY <1>0, <1>1
    <3>2. /\ b \in Words
          /\ \A i \in 1 .. Locals(Fun(Depth)) : b # sp + taken + LocalAt(Fun(Depth), i)
          /\ \A i \in 1 .. Params(Fun(Depth)) : b # sp + taken + ParamAt(Fun(Depth), i)
      BY <1>2, SavedAddress
    <3> HIDE DEF b
    <3>3. mem'[b] = mem[b]
      BY <1>0, <1>4, <3>1, <3>2
    <3> QED
      BY <3>3 DEF b
  <2> QED
    BY <1>5, <2>1 DEF SavesKept
<1>7. a < sp + FrameSize(Fun(d))
  <2>1. /\ Locals(Fun(d)) \in Nat /\ Params(Fun(d)) \in Nat /\ SavedRegisters \in Nat
        /\ FrameSize(Fun(d)) = Locals(Fun(d)) + SavedRegisters + 1 + Params(Fun(d))
        /\ \A i \in 1 .. Locals(Fun(d)) : LocalAt(Fun(d), i) \in 0 .. Locals(Fun(d)) - 1
        /\ \A i \in 1 .. Params(Fun(d)) :
             ParamAt(Fun(d), i) \in Locals(Fun(d)) + SavedRegisters + 1 .. FrameSize(Fun(d)) - 1
    BY <1>3, Sizes
  <2>2. CASE \E i \in 1 .. Locals(Fun(d)) : a = sp + LocalAt(Fun(d), i)
    BY <1>1, <2>1, <2>2
  <2>3. CASE \E i \in 1 .. Params(Fun(d)) : a = sp + ParamAt(Fun(d), i)
    BY <1>1, <2>1, <2>3
  <2> QED
    BY <1>0, <2>2, <2>3
<1>8. ASSUME NEW n \in 1 .. d - 1 PROVE FrameKept(n)
  <2>1. n \in 1 .. Depth /\ n < Depth /\ Depth = d
    BY <1>0, <1>2
  <2>2. ASSUME NEW k \in 0 .. FrameSize(Fun(n)) - 1
        PROVE  mem'[Base(n) + k] = mem[Base(n) + k]
    <3>1. Base(n) + k \in Words /\ Base(n) + k >= sp + taken + FrameSize(Fun(d))
      BY <2>1, FrameAddress
    <3>2. sp + taken = sp /\ FrameSize(Fun(d)) \in Nat
      BY <1>1, <1>3, Sizes
    <3>3. Base(n) + k # a
      BY <1>1, <1>7, <3>1, <3>2 DEF Words
    <3> QED
      BY <1>4, <3>1, <3>3
  <2> QED
    BY <1>5, <2>2 DEF FrameKept
<1>9. RegistersOf(d)' = RegistersOf(d)
  BY <1>0, <1>2 DEF RegistersOf
<1> QED
  BY <1>1, <1>2, <1>3, <1>4, <1>5, <1>6, <1>8, <1>9, <1>0 DEF Within

LEMMA SetLocalStep ==
  ASSUME StackInv, StackInv', NEW v \in Values, WriteLocal(v)
  PROVE  Private!Next
<1>1. PICK d \in Nat : Depth = d
  BY Shown
<1>2. active # <<>> /\ taken = 0 /\ sp \in Nat /\ reg' = reg /\ Write
  BY DEF WriteLocal, Write, Running, StackInv, Calling, TypeOK
<1>3. Body = Fun(d) /\ d \in 1 .. Depth
  BY <1>1, <1>2, Current
<1>4. PICK i \in 1 .. Locals(Fun(d)) : mem' = [mem EXCEPT ![sp + LocalAt(Fun(d), i)] = v]
  BY <1>3 DEF WriteLocal
<1>5. /\ Fun(d) \in DOMAIN Functions /\ Base(d) = sp
  <2>1. Fun(d) \in DOMAIN Functions /\ Base(Depth) = sp + taken
    BY <1>3, Frame
  <2> QED
    BY <1>1, <1>2, <2>1
<1>6. /\ Locals(Fun(d)) \in Nat /\ Params(Fun(d)) \in Nat /\ SavedRegisters \in Nat
      /\ FrameSize(Fun(d)) = Locals(Fun(d)) + SavedRegisters + 1 + Params(Fun(d))
      /\ \A j \in 1 .. Locals(Fun(d)) : LocalAt(Fun(d), j) \in 0 .. Locals(Fun(d)) - 1
      /\ \A j \in 1 .. Params(Fun(d)) :
           ParamAt(Fun(d), j) \in Locals(Fun(d)) + SavedRegisters + 1 .. FrameSize(Fun(d)) - 1
  BY <1>5, Sizes
<1> DEFINE a == sp + LocalAt(Fun(d), i)
<1>7. \A k \in 0 .. FrameSize(Fun(d)) - 1 : sp + k \in Words
  BY <1>3, <1>5, FrameAddress
<1>8. \A j \in 1 .. Locals(Fun(d)) : sp + LocalAt(Fun(d), j) \in Words
  BY <1>6, <1>7
<1>9. \A j \in 1 .. Params(Fun(d)) : sp + ParamAt(Fun(d), j) \in Words
  BY <1>6, <1>7
<1>10. a \in Words /\ mem' = [mem EXCEPT ![a] = v]
       /\ \E j \in 1 .. Locals(Fun(d)) : a = sp + LocalAt(Fun(d), j)
  BY <1>4, <1>8
<1>11. \A j \in 1 .. Locals(Fun(d)) : sp + LocalAt(Fun(d), j) = a => j = i
  BY <1>2, <1>6, SMTT(30) DEF LocalAt
<1>12. \A j \in 1 .. Params(Fun(d)) : sp + ParamAt(Fun(d), j) # a
  BY <1>2, <1>6
<1>13. sp + LocalAt(Fun(d), i) = a
  OBVIOUS
<1> HIDE DEF a
<1>14. /\ Within(d) /\ d # 0
       /\ RegistersOf(d)' = RegistersOf(d) /\ Same(d)
       /\ \A b \in Words : b # a => mem'[b] = mem[b]
       /\ mem'[a] = v
  <2>1. Wrote(d, a, v)
    BY <1>1, <1>2, <1>10 DEF Wrote
  <2> QED
    BY <1>10, <2>1, WriteWithin
<1> DEFINE P == [j \in 1 .. Params(Fun(d)) |-> mem[Base(d) + ParamAt(Fun(d), j)]]
           L == [j \in 1 .. Locals(Fun(d)) |-> mem[Base(d) + LocalAt(Fun(d), j)]]
           P2 == [j \in 1 .. Params(Fun(d)) |-> mem'[Base(d) + ParamAt(Fun(d), j)]]
           L2 == [j \in 1 .. Locals(Fun(d)) |-> mem'[Base(d) + LocalAt(Fun(d), j)]]
<1>15. P2 = P
  BY <1>5, <1>9, <1>12, <1>14
<1>16. L2 = [L EXCEPT ![i] = v]
  <2>1. \A j \in 1 .. Locals(Fun(d)) : L2[j] = IF j = i THEN v ELSE L[j]
    BY <1>5, <1>8, <1>11, <1>13, <1>14
  <2> QED
    BY <2>1
<1>17. ActivationOf(d) = [fun |-> Fun(d), regs |-> RegistersOf(d), params |-> P, locals |-> L]
  BY <1>14 DEF ActivationOf
<1>18. ActivationOf(d)' = [fun |-> Fun(d), regs |-> RegistersOf(d)', params |-> P2, locals |-> L2]
  BY <1>14 DEF ActivationOf, Same
<1>19. DOMAIN L = 1 .. Locals(Fun(d))
  OBVIOUS
<1> HIDE DEF P, L, P2, L2
<1>20. /\ ActivationOf(d)' = [ActivationOf(d) EXCEPT !.locals[i] = v]
       /\ i \in DOMAIN ActivationOf(d).locals
  <2>1. ActivationOf(d)' = [fun |-> Fun(d), regs |-> RegistersOf(d), params |-> P,
                            locals |-> [L EXCEPT ![i] = v]]
    BY <1>14, <1>15, <1>16, <1>18
  <2>2. ActivationOf(d).locals = L
    BY <1>17
  <2> QED
    BY <1>17, <1>19, <2>1, <2>2, Updated
<1>21. /\ Private!Inside /\ UNCHANGED <<arguments, a0>>
       /\ activations' = Append(Front(activations), ActivationOf(d)')
       /\ Private!Top = ActivationOf(d)
  BY <1>14, WithinFrame
<1>22. Private!SetLocal(i, v) /\ i \in DOMAIN Private!Top.locals
  BY <1>20, <1>21, SameParts DEF Private!SetLocal, Private!Update
<1> QED
  BY <1>22 DEF Private!Next

LEMMA SetParameterStep ==
  ASSUME StackInv, StackInv', NEW v \in Values, WriteParam(v)
  PROVE  Private!Next
<1>1. PICK d \in Nat : Depth = d
  BY Shown
<1>2. active # <<>> /\ taken = 0 /\ sp \in Nat /\ reg' = reg /\ Write
  BY DEF WriteParam, Write, Running, StackInv, Calling, TypeOK
<1>3. Body = Fun(d) /\ d \in 1 .. Depth
  BY <1>1, <1>2, Current
<1>4. PICK i \in 1 .. Params(Fun(d)) : mem' = [mem EXCEPT ![sp + ParamAt(Fun(d), i)] = v]
  BY <1>3 DEF WriteParam
<1>5. /\ Fun(d) \in DOMAIN Functions /\ Base(d) = sp
  <2>1. Fun(d) \in DOMAIN Functions /\ Base(Depth) = sp + taken
    BY <1>3, Frame
  <2> QED
    BY <1>1, <1>2, <2>1
<1>6. /\ Locals(Fun(d)) \in Nat /\ Params(Fun(d)) \in Nat /\ SavedRegisters \in Nat
      /\ SaveArea = SavedRegisters + 1
      /\ FrameSize(Fun(d)) = Locals(Fun(d)) + SavedRegisters + 1 + Params(Fun(d))
      /\ \A j \in 1 .. Locals(Fun(d)) : LocalAt(Fun(d), j) \in 0 .. Locals(Fun(d)) - 1
      /\ \A j \in 1 .. Params(Fun(d)) :
           ParamAt(Fun(d), j) \in Locals(Fun(d)) + SavedRegisters + 1 .. FrameSize(Fun(d)) - 1
  BY <1>5, Sizes
<1> DEFINE a == sp + ParamAt(Fun(d), i)
<1>7. \A k \in 0 .. FrameSize(Fun(d)) - 1 : sp + k \in Words
  BY <1>3, <1>5, FrameAddress
<1>8. \A j \in 1 .. Locals(Fun(d)) : sp + LocalAt(Fun(d), j) \in Words
  BY <1>6, <1>7
<1>9. \A j \in 1 .. Params(Fun(d)) : sp + ParamAt(Fun(d), j) \in Words
  BY <1>6, <1>7
<1>10. a \in Words /\ mem' = [mem EXCEPT ![a] = v]
       /\ \E j \in 1 .. Params(Fun(d)) : a = sp + ParamAt(Fun(d), j)
  BY <1>4, <1>9
<1>11. \A j \in 1 .. Params(Fun(d)) : sp + ParamAt(Fun(d), j) = a => j = i
  <2>1. \A s, l, w, p, x, y \in Int : s + (l + w + p - y) = s + (l + w + p - x) => y = x
    OBVIOUS
  <2>2. sp \in Int /\ Locals(Fun(d)) \in Int /\ SaveArea \in Int /\ Params(Fun(d)) \in Int
    BY <1>2, <1>6
  <2> QED
    BY <2>1, <2>2 DEF ParamAt
<1>12. \A j \in 1 .. Locals(Fun(d)) : sp + LocalAt(Fun(d), j) # a
  BY <1>2, <1>6
<1>13. sp + ParamAt(Fun(d), i) = a
  OBVIOUS
<1> HIDE DEF a
<1>14. /\ Within(d) /\ d # 0
       /\ RegistersOf(d)' = RegistersOf(d) /\ Same(d)
       /\ \A b \in Words : b # a => mem'[b] = mem[b]
       /\ mem'[a] = v
  <2>1. Wrote(d, a, v)
    BY <1>1, <1>2, <1>10 DEF Wrote
  <2> QED
    BY <1>10, <2>1, WriteWithin
<1> DEFINE P == [j \in 1 .. Params(Fun(d)) |-> mem[Base(d) + ParamAt(Fun(d), j)]]
           L == [j \in 1 .. Locals(Fun(d)) |-> mem[Base(d) + LocalAt(Fun(d), j)]]
           P2 == [j \in 1 .. Params(Fun(d)) |-> mem'[Base(d) + ParamAt(Fun(d), j)]]
           L2 == [j \in 1 .. Locals(Fun(d)) |-> mem'[Base(d) + LocalAt(Fun(d), j)]]
<1>15. L2 = L
  BY <1>5, <1>8, <1>12, <1>14
<1>16. P2 = [P EXCEPT ![i] = v]
  <2>1. \A j \in 1 .. Params(Fun(d)) : P2[j] = IF j = i THEN v ELSE P[j]
    BY <1>5, <1>9, <1>11, <1>13, <1>14
  <2> QED
    BY <2>1
<1>17. ActivationOf(d) = [fun |-> Fun(d), regs |-> RegistersOf(d), params |-> P, locals |-> L]
  BY <1>14 DEF ActivationOf
<1>18. ActivationOf(d)' = [fun |-> Fun(d), regs |-> RegistersOf(d)', params |-> P2, locals |-> L2]
  BY <1>14 DEF ActivationOf, Same
<1>19. DOMAIN P = 1 .. Params(Fun(d))
  OBVIOUS
<1> HIDE DEF P, L, P2, L2
<1>20. /\ ActivationOf(d)' = [ActivationOf(d) EXCEPT !.params[i] = v]
       /\ i \in DOMAIN ActivationOf(d).params
  <2>1. ActivationOf(d)' = [fun |-> Fun(d), regs |-> RegistersOf(d),
                            params |-> [P EXCEPT ![i] = v], locals |-> L]
    BY <1>14, <1>15, <1>16, <1>18
  <2>2. ActivationOf(d).params = P
    BY <1>17
  <2> QED
    BY <1>17, <1>19, <2>1, <2>2, Updated
<1>21. /\ Private!Inside /\ UNCHANGED <<arguments, a0>>
       /\ activations' = Append(Front(activations), ActivationOf(d)')
       /\ Private!Top = ActivationOf(d)
  BY <1>14, WithinFrame
<1>22. Private!SetParameter(i, v) /\ i \in DOMAIN Private!Top.params
  BY <1>20, <1>21, SameParts DEF Private!SetParameter, Private!Update
<1> QED
  BY <1>22 DEF Private!Next

(* A step that leaves every frame and the registers alone.                  *)
LEMMA AllKept ==
  ASSUME StackInv, StackInv', UNCHANGED <<active, reg>>,
         \A n \in 1 .. Depth : FrameKept(n)
  PROVE  activations' = activations
<1>1. PICK d \in Nat : Depth = d
  BY Shown
<1>2. Depth' = d
  BY <1>1 DEF Depth
<1>3. ASSUME NEW n \in 0 .. d PROVE ActivationOf(n)' = ActivationOf(n)
  <2>1. RegistersOf(n)' = RegistersOf(n)
    <3>1. CASE n = d
      BY <1>1, <1>2, <3>1 DEF RegistersOf
    <3>2. CASE n # d
      <4>1. n \in 0 .. Depth - 1 /\ n # Depth' /\ n + 1 \in 1 .. Depth /\ Depth \in Nat
        BY <1>1, <1>2, <3>2
      <4>2. SavesKept(n + 1)
        BY <4>1, FrameKeepsSaves
      <4> QED
        BY <4>1, <4>2, RegistersKept
    <3> QED
      BY <3>1, <3>2
  <2>2. n # 0 => FrameKept(n)
    BY <1>1
  <2> QED
    BY <1>1, <2>1, <2>2, ActivationKept
<1>4. \A n \in 1 .. d + 1 : n - 1 \in 0 .. d
  OBVIOUS
<1> QED
  BY <1>1, <1>2, <1>3, <1>4 DEF activations

LEMMA PassStep ==
  ASSUME StackInv, StackInv', NEW v \in Values, Push(v)
  PROVE  Private!Next
<1>1. /\ sp' = sp - 1 /\ mem' = [mem EXCEPT ![sp - 1] = v] /\ taken' = taken + 1
      /\ UNCHANGED <<reg, active, a0>> /\ sp \in Nat /\ taken \in Nat
      /\ sp - 1 \in Words /\ mem \in [Words -> Values \cup Links]
  <2>1. taken' = taken + 1 /\ sp - 1 \in Words
    BY PushStep
  <2>2. taken \in Nat /\ TypeOK /\ StackTop \in Nat
    BY Taken DEF StackInv
  <2> QED
    BY <2>1, <2>2 DEF Push, TypeOK
<1>2. Depth > 0
  BY PushStep, Current
<1>3. \A b \in Words : b >= sp => mem'[b] = mem[b]
  BY <1>1 DEF Words
<1>4. \A n \in 1 .. Depth : FrameKept(n)
  <2>1. \A n : Same(n)
    BY <1>1 DEF Same, Fun, Base
  <2>2. ASSUME NEW n \in 1 .. Depth, NEW k \in 0 .. FrameSize(Fun(n)) - 1
        PROVE  mem'[Base(n) + k] = mem[Base(n) + k]
    <3>1. Base(n) + k \in Words /\ Base(n) + k >= sp + taken
      BY FrameAddress
    <3>2. Base(n) + k >= sp
      BY <1>1, <3>1 DEF Words
    <3> QED
      BY <1>3, <3>1, <3>2
  <2> QED
    BY <2>1, <2>2 DEF FrameKept
<1>5. activations' = activations
  BY <1>1, <1>4, AllKept
<1>6. arguments' = Append(arguments, v)
  <2>1. Over(arguments, taken) /\ \A i \in 1 .. taken : arguments[i] = mem[sp + taken - i]
    BY Shown
  <2>2. Over(arguments', taken + 1)
        /\ \A i \in 1 .. taken + 1 : arguments'[i] = mem'[sp + taken - i]
    <3>1. \A i \in 1 .. taken + 1 : sp' + taken' - i = sp + taken - i
      BY <1>1
    <3> QED
      BY <1>1, <3>1 DEF arguments, Over
  <2>3. sp + taken <= StackTop /\ StackTop \in Nat
    <3>1. Depth \in 1 .. Depth
      BY <1>2, Shown
    <3>2. Base(Depth) + FrameSize(Fun(Depth)) = Limit(Depth - 1) /\ Base(Depth) = sp + taken
          /\ Limit(Depth - 1) <= StackTop /\ Fun(Depth) \in DOMAIN Functions
          /\ Limit(Depth - 1) \in Nat /\ StackTop \in Nat
      BY <3>1, Frame
    <3>3. FrameSize(Fun(Depth)) \in Nat
      BY <3>2, Sizes
    <3> QED
      BY <1>1, <3>2, <3>3
  <2>4. \A i \in 1 .. taken : sp + taken - i \in Words /\ sp + taken - i >= sp
    BY <1>1, <2>3 DEF Words
  <2>5. \A i \in 1 .. taken : arguments'[i] = arguments[i]
    BY <1>1, <1>3, <2>1, <2>2, <2>4
  <2>6. arguments' = Append(arguments, arguments'[taken + 1])
    BY <1>1, <2>1, <2>2, <2>5, Extended
  <2>7. arguments'[taken + 1] = v
    <3>1. sp + taken - (taken + 1) = sp - 1 /\ taken + 1 \in 1 .. taken + 1
      BY <1>1
    <3> QED
      BY <1>1, <2>2, <3>1
  <2> QED
    BY <2>6, <2>7
<1>7. Len(activations) > 1
  BY <1>2, Shown
<1>8. Private!Pass(v)
  BY <1>1, <1>5, <1>6, <1>7 DEF Private!Pass, Private!Inside
<1> QED
  BY <1>8 DEF Private!Next

LEMMA CalleeStep ==
  ASSUME StackInv, StackInv', Enter
  PROVE  Private!Next
<1>1. PICK d \in Nat : Depth = d
  BY Shown
<1>2. PICK f \in DOMAIN Functions : callee = f
  BY EnterEffect
<1>3. /\ taken = Params(f) /\ sp \in Nat /\ StackTop \in Nat /\ sp' \in Nat
      /\ sp' + Locals(f) + SavedRegisters + 1 = sp
      /\ mem' \in [Words -> Values \cup Links] /\ Depth' = d + 1
  BY <1>1, <1>2, EnterEffect
<1>4. /\ \A r \in Regs : mem'[sp' + Locals(f) + SavedAt(r)] = reg[r]
      /\ \A a \in Words : a >= sp => mem'[a] = mem[a]
  BY <1>2, EnterEffect
<1>5. \A n \in 1 .. d : Same(n)
  BY <1>1, EnterEffect DEF Same
<1>6. Fun(d + 1)' = f /\ Base(d + 1)' = sp'
  BY <1>1, <1>2, EnterEffect
<1>7. /\ reg' = reg /\ a0' = a0 /\ taken' = 0 /\ reg \in [Regs -> Values] /\ taken \in Nat
  BY EnterEffect, Taken DEF Enter, counters, StackInv, TypeOK
<1>8. \A n \in 1 .. d : FrameKept(n)
  <2>1. ASSUME NEW n \in 1 .. d, NEW k \in 0 .. FrameSize(Fun(n)) - 1
        PROVE  mem'[Base(n) + k] = mem[Base(n) + k]
    <3>1. n \in 1 .. Depth
      BY <1>1
    <3>2. Base(n) + k \in Words /\ Base(n) + k >= sp + taken
      BY <3>1, FrameAddress
    <3>3. Base(n) + k >= sp
      BY <1>3, <1>7, <3>2 DEF Words
    <3> QED
      BY <1>4, <3>2, <3>3
  <2> QED
    BY <1>5, <2>1 DEF FrameKept
<1>9. ASSUME NEW n \in 0 .. d PROVE ActivationOf(n)' = ActivationOf(n)
  <2>1. RegistersOf(n)' = RegistersOf(n)
    <3>1. CASE n = d
      <4>1. RegistersOf(n) = reg
        BY <1>1, <3>1 DEF RegistersOf
      <4>2. RegistersOf(n)' = [r \in Regs |-> mem'[sp' + Locals(f) + SavedAt(r)]]
        <5>1. n # Depth'
          BY <1>3, <3>1
        <5> QED
          BY <1>6, <3>1, <5>1 DEF RegistersOf
      <4>3. [r \in Regs |-> mem'[sp' + Locals(f) + SavedAt(r)]] = reg
        BY <1>4, <1>7
      <4> QED
        BY <4>1, <4>2, <4>3
    <3>2. CASE n # d
      <4>1. n \in 0 .. Depth - 1 /\ n # Depth' /\ n + 1 \in 1 .. d /\ n + 1 \in 1 .. Depth
            /\ Depth \in Nat
        BY <1>1, <1>3, <3>2
      <4>2. SavesKept(n + 1)
        BY <1>8, <4>1, FrameKeepsSaves
      <4> QED
        BY <4>1, <4>2, RegistersKept
    <3> QED
      BY <3>1, <3>2
  <2>2. n # 0 => FrameKept(n)
    BY <1>8
  <2> QED
    BY <1>1, <2>1, <2>2, ActivationKept
<1>10. activations' = Append(activations, ActivationOf(d + 1)')
  BY <1>1, <1>3, <1>9, NewestAdded
<1>11. Private!Top = ActivationOf(d) /\ Len(activations) = d + 1 /\ Len(arguments) = Params(f)
  <2>1. /\ Len(activations) = Depth + 1 /\ Last(activations) = ActivationOf(Depth)
        /\ Len(arguments) = taken
    BY Shown
  <2> QED
    BY <1>1, <1>3, <2>1, SameParts DEF Private!Top
<1>12. ActivationOf(d).regs = reg
  <2>1. RegistersOf(d) = reg
    BY <1>1 DEF RegistersOf
  <2> QED
    BY <2>1 DEF ActivationOf
<1>13. /\ Locals(f) \in Nat /\ Params(f) \in Nat /\ SavedRegisters \in Nat
       /\ SaveArea = SavedRegisters + 1
       /\ \A j \in 1 .. Locals(f) : LocalAt(f, j) \in 0 .. Locals(f) - 1
  BY Sizes
<1> DEFINE P == [j \in 1 .. Params(f) |-> mem'[sp' + ParamAt(f, j)]]
           L == [j \in 1 .. Locals(f) |-> mem'[sp' + LocalAt(f, j)]]
<1>14. ActivationOf(d + 1)' = [fun |-> f, regs |-> reg, params |-> P, locals |-> L]
  <2>1. RegistersOf(d + 1)' = reg
    BY <1>3, <1>7 DEF RegistersOf
  <2>2. d + 1 # 0
    BY <1>1
  <2> QED
    BY <1>6, <2>1, <2>2 DEF ActivationOf
<1>15. L \in [1 .. Locals(f) -> Values \cup Links]
  <2>1. sp <= StackTop
    BY DEF StackInv, TypeOK
  <2>2. \A j \in 1 .. Locals(f) : sp' + LocalAt(f, j) \in Words
    BY <1>3, <1>13, <2>1, SMTT(30) DEF Words
  <2> QED
    BY <1>3, <2>2
<1>16. P = arguments
  <2>1. Over(arguments, taken) /\ \A j \in 1 .. taken : arguments[j] = mem[sp + taken - j]
    BY Shown
  <2>2. sp + taken <= StackTop
    <3>1. CASE d = 0
      BY <1>1, <3>1, <1>3, <1>7 DEF StackInv, FramesStack, Limit
    <3>2. CASE d # 0
      <4>1. d \in 1 .. Depth
        BY <1>1, <3>2
      <4>2. Base(d) + FrameSize(Fun(d)) = Limit(d - 1) /\ Base(Depth) = sp + taken
            /\ Limit(d - 1) <= StackTop /\ Fun(d) \in DOMAIN Functions
            /\ Limit(d - 1) \in Nat
        BY <4>1, Frame
      <4>3. FrameSize(Fun(d)) \in Nat
        BY <4>2, Sizes
      <4> QED
        BY <1>1, <1>3, <1>7, <4>2, <4>3
    <3> QED
      BY <3>1, <3>2
  <2>3. ASSUME NEW j \in 1 .. taken PROVE mem'[sp' + ParamAt(f, j)] = mem[sp + taken - j]
    <3>1. sp + taken - j \in Words /\ sp + taken - j >= sp
      BY <1>3, <1>7, <2>2 DEF Words
    <3>2. sp' + ParamAt(f, j) = sp + taken - j
      <4>1. \A t, l, w, p, q, x \in Int :
              t + l + w + 1 = q => t + (l + (w + 1) + p - x) = q + p - x
        OBVIOUS
      <4>2. /\ sp' \in Int /\ Locals(f) \in Int /\ SavedRegisters \in Int /\ Params(f) \in Int
            /\ sp \in Int /\ j \in Int
        BY <1>3, <1>7, <1>13
      <4>3. sp' + (Locals(f) + (SavedRegisters + 1) + Params(f) - j) = sp + Params(f) - j
        BY <1>3, <4>1, <4>2
      <4> QED
        BY <1>3, <1>13, <4>3 DEF ParamAt
    <3> QED
      BY <1>4, <3>1, <3>2
  <2> QED
    BY <1>3, <2>1, <2>3 DEF Over
<1>17. Private!Inside \/ f = Main
  <2>1. d = 0 => f = Main
    BY <1>1, <1>2, FunctionsAssumption DEF StackInv, Calling
  <2>2. d # 0 => d + 1 > 1
    OBVIOUS
  <2> QED
    BY <1>11, <2>1, <2>2 DEF Private!Inside
<1>18. arguments' = <<>>
  BY <1>7 DEF arguments
<1> HIDE DEF P, L
<1>19. Len(arguments) = Functions[f].params /\ L \in [1 .. Functions[f].locals -> Values \cup Links]
  BY <1>11, <1>15 DEF Params, Locals
<1>20. activations' = Append(activations, Private!Fresh(f, arguments, Private!Top.regs, L))
  BY <1>10, <1>11, <1>12, <1>14, <1>16 DEF Private!Fresh
<1>21. Private!Enter(f)
  BY <1>7, <1>17, <1>18, <1>19, <1>20 DEF Private!Enter
<1> QED
  BY <1>21 DEF Private!Next

LEMMA CallerStep ==
  ASSUME StackInv, StackInv', NEW v \in Values, Return(v)
  PROVE  Private!Next
<1>1. PICK d \in Nat : Depth = d + 1
  <2>1. Depth \in 1 .. Depth /\ Depth \in Nat
    BY ReturnEffect
  <2>2. Depth - 1 \in Nat /\ Depth = (Depth - 1) + 1
    BY <2>1
  <2> QED
    BY <2>2
<1>2. /\ Depth' = d /\ taken = 0 /\ taken' = 0 /\ mem' = mem /\ a0' = v
      /\ d + 1 \in 1 .. Depth /\ d + 1 # d
  BY <1>1, ReturnEffect DEF Return
<1>3. reg' = [r \in Regs |-> mem[Base(d + 1) + Locals(Fun(d + 1)) + SavedAt(r)]]
  BY <1>1, ReturnEffect
<1>4. \A n \in 1 .. d : FrameKept(n)
  <2>1. \A n \in 1 .. d : Fun(n)' = Fun(n) /\ Base(n)' = Base(n)
    BY <1>1, ReturnEffect
  <2> QED
    BY <1>2, <2>1 DEF FrameKept, Same
<1>5. ASSUME NEW n \in 0 .. d PROVE ActivationOf(n)' = ActivationOf(n)
  <2>1. RegistersOf(n)' = RegistersOf(n)
    <3>1. CASE n = d
      BY <1>1, <1>2, <1>3, <3>1 DEF RegistersOf
    <3>2. CASE n # d
      <4>1. n \in 0 .. Depth - 1 /\ n # Depth' /\ n + 1 \in 1 .. d /\ n + 1 \in 1 .. Depth
            /\ Depth \in Nat
        BY <1>1, <1>2, <3>2
      <4>2. SavesKept(n + 1)
        BY <1>4, <4>1, FrameKeepsSaves
      <4> QED
        BY <4>1, <4>2, RegistersKept
    <3> QED
      BY <3>1, <3>2
  <2>2. n # 0 => FrameKept(n)
    BY <1>4
  <2>3. n \in 0 .. Depth
    BY <1>1
  <2> QED
    BY <2>1, <2>2, <2>3, ActivationKept
<1>6. activations' = Front(activations)
  BY <1>1, <1>2, <1>5, NewestTaken
<1>7. arguments = <<>> /\ arguments' = <<>>
  BY <1>2 DEF arguments
<1>8. Len(activations) > 1
  <2>1. Len(activations) = Depth + 1
    BY Shown
  <2> QED
    BY <1>1, <2>1
<1>9. Private!Return(v)
  BY <1>2, <1>6, <1>7, <1>8, SameParts DEF Private!Return, Private!Inside
<1> QED
  BY <1>9 DEF Private!Next

LEMMA Stutters ==
  ASSUME UNCHANGED <<mem, sp, reg, a0, active>>, taken' = taken
  PROVE  UNCHANGED Private!vars
BY DEF Private!vars, activations, arguments, ActivationOf, RegistersOf, Fun, Base, Depth

LEMMA ActivationsStep == StackInv /\ StackInv' /\ [Next]_vars => [Private!Next]_(Private!vars)
<1> SUFFICES ASSUME StackInv, StackInv', [Next]_vars PROVE [Private!Next]_(Private!vars)
  OBVIOUS
<1>1. ASSUME NEW r \in Regs, NEW v \in Values, WriteRegister(r, v) PROVE Private!Next
  BY <1>1, SetRegisterStep
<1>2. ASSUME NEW v \in Values, WriteLocal(v) PROVE Private!Next
  BY <1>2, SetLocalStep
<1>3. ASSUME NEW v \in Values, WriteParam(v) PROVE Private!Next
  BY <1>3, SetParameterStep
<1>4. ASSUME NEW f \in DOMAIN Functions, BeginCall(f) PROVE UNCHANGED Private!vars
  <2>1. active # <<>> /\ UNCHANGED <<mem, sp, reg, a0, active, pushed>>
    BY <1>4 DEF BeginCall, Running
  <2>2. taken' = taken
    BY <2>1 DEF taken
  <2> QED
    BY <2>1, <2>2, Stutters
<1>5. ASSUME NEW v \in Values, Push(v) PROVE Private!Next
  BY <1>5, PassStep
<1>6. CASE Enter
  BY <1>6, CalleeStep
<1>7. ASSUME NEW v \in Values, Return(v) PROVE Private!Next
  BY <1>7, CallerStep
<1>8. CASE UNCHANGED vars
  BY <1>8, Stutters DEF vars, taken
<1>9. CASE Halted
  BY <1>8, <1>9 DEF Halted
<1> QED
  BY <1>1, <1>2, <1>3, <1>4, <1>5, <1>6, <1>7, <1>8, <1>9 DEF Next

(* The frames of the stack implement activations: a call leaves the locals, *)
(* the parameters and the registers of every caller as they were, the       *)
(* callee finds the arguments in its parameters, in their order, and a      *)
(* return leads back to the caller (codegen.c lines 160-221). The           *)
(* parameters of main are words nobody pushed: the activation has them all  *)
(* the same, with values the program did not choose.                        *)
THEOREM FramesImplementActivations == Spec => ImplementsActivations
<1>1. Init => Private!Begin
  <2> SUFFICES ASSUME Init PROVE Private!Begin
    OBVIOUS
  <2>1. Depth = 0 /\ reg \in [Regs -> Values \cup Links] /\ a0 \in Values \cup Links
    BY DEF Init, Depth
  <2>2. arguments \in [1 .. Functions[Main].params -> Values \cup Links]
    <3>1. /\ taken = Params(Main) /\ sp = StackWords /\ Params(Main) \in Nat
          /\ StackWords \in Nat /\ StackTop = StackWords + Params(Main)
      BY Top DEF Init, taken
    <3>2. mem \in [Words -> Values \cup Links]
      BY InitInv DEF StackInv, TypeOK
    <3>3. \A i \in 1 .. taken : sp + taken - i \in Words
      BY <3>1 DEF Words
    <3>4. arguments \in [1 .. taken -> Values \cup Links]
      BY <3>2, <3>3 DEF arguments
    <3> QED
      BY <3>1, <3>4 DEF Params
  <2>3. ActivationOf(0) = Private!Fresh(Nobody, <<>>, reg, <<>>)
    BY <2>1 DEF ActivationOf, RegistersOf, Private!Fresh
  <2>4. activations = [n \in 1 .. 1 |-> ActivationOf(0)]
    BY <2>1 DEF activations
  <2>5. activations = <<ActivationOf(0)>>
    BY <2>4
  <2> QED
    BY <2>1, <2>2, <2>3, <2>5 DEF Private!Begin
<1> QED
  BY <1>1, ActivationsStep, InvariantHolds, PTL DEF Spec, ImplementsActivations, Private!Spec
=============================================================================

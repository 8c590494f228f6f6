----------------------------- MODULE GlobalAccess --------------------------
(* How generated code reaches a global. codegen.c emits an AUIPC and, some  *)
(* instructions later, the one that carries the low bits of the distance;   *)
(* riscv.c computes the two immediates from different addresses, each from  *)
(* its own; binary.c cuts them to 20 and 12 bits. The machine here executes *)
(* the instructions that make up the address, one per action.               *)
(*                                                                          *)
(* Everything is relative to the AUIPC: the variable is `distance` bytes    *)
(* after it. Globals come after all code, so distances are positive. The    *)
(* names differ from those of Linker, which places the globals, so that     *)
(* what is proved can be about both.                                        *)
EXTENDS Integers

CONSTANTS Bases,      \* run-time addresses of the AUIPC
          Distances,  \* from the AUIPC to the variable
          Indices     \* of the element, 0 for a scalar

UpperUnit == 4096       \* what the upper immediate counts
ASSUME BasesAssumption == Bases \subseteq Nat
ASSUME DistancesAssumption == Distances \subseteq Nat
ASSUME IndicesAssumption == Indices \subseteq Nat

(* The four shapes of code. A scalar and an element are loaded or stored    *)
(* (codegen.c 373-386, 273-286); a reference stops at the address (463-475).*)
Accesses == {"scalar", "element"}
References == {"scalar reference", "element reference"}
Forms == Accesses \cup References

VARIABLES form, base, distance, index,
          step,     \* the instruction to execute next
          reg       \* the register the address is made in
accessVars == <<form, base, distance, index, step, reg>>
accessInputs == <<form, base, distance, index>>

-----------------------------------------------------------------------------
(* The immediates of riscv.c and their fields. The twenty bits of the upper *)
(* one hold every page of a 32-bit address space, so nothing is cut there.  *)
UpperTruncated(d) == d \div UpperUnit       \* variant: not rounded
Upper(d) == (d + 2048) \div UpperUnit
Low(d) == d % UpperUnit
Signed(field) == IF field >= 2048 THEN field - UpperUnit ELSE field

(* Distance from the AUIPC to the instruction that carries the low bits,    *)
(* which the code adds again, by an ADDI for an access (376, 383) and in    *)
(* the immediate itself for a reference (466, 474).                         *)
GapOfScalar(f) == IF f \in Accesses THEN 8 ELSE 4        \* variant
Gap(f) == CASE f = "scalar" -> 8 [] f = "element" -> 12
            [] f = "scalar reference" -> 4 [] f = "element reference" -> 8

BeginAccess == /\ form \in Forms /\ base \in Bases /\ distance \in Distances
               /\ index \in Indices
               /\ form \in {"scalar", "scalar reference"} => index = 0
               /\ step = "auipc" /\ reg = 0

Execute(at, value, then) == /\ step = at /\ reg' = value /\ step' = then
                            /\ UNCHANGED accessInputs

Auipc == Execute("auipc", base + UpperUnit * Upper(distance),
                 IF form \in Accesses THEN "correct" ELSE "element")

(* addi reg, reg, 8 or 12.                                                  *)
Correct == Execute("correct", reg + (IF form = "scalar" THEN 8 ELSE 12), "element")

(* Four times the index has been added up before; adding nothing for a      *)
(* scalar stands for there being no such instruction.                       *)
AddIndex == Execute("element", reg + 4 * index, "low")

(* The displacement of the load or store.                                   *)
Displace == /\ form \in Accesses
            /\ Execute("low", reg + Signed(Low(distance - Gap(form))), "done")

(* addi reg, reg, the low bits and the gap in one immediate, cut to 12 bits.*)
Combined(d, f) == Low(Low(d - Gap(f)) + Gap(f))
AddLow == /\ form \in References
          /\ Execute("low", reg + Signed(Combined(distance, form)), "done")

AccessDone == step = "done" /\ UNCHANGED accessVars

AccessStep == Auipc \/ Correct \/ AddIndex \/ Displace \/ AddLow \/ AccessDone
AccessSpec == BeginAccess /\ [][AccessStep]_accessVars

-----------------------------------------------------------------------------
(* Types; the address never leaves the address space downwards.             *)
AccessTypeOK == /\ form \in Forms /\ base \in Bases /\ distance \in Distances
                /\ index \in Indices
                /\ step \in {"auipc", "correct", "element", "low", "done"}
                /\ reg \in Nat

Target == base + distance + 4 * index

(* A reference is the address of the variable or of the element, whatever   *)
(* the distance.                                                            *)
ReferenceIsExact == (step = "done" /\ form \in References) => reg = Target

(* The two immediates of an access are rounded from places 8 or 12 bytes    *)
(* apart. Where the halves of a page lie between the two, the access is     *)
(* one page too high, and everywhere else it is exact.                      *)
Straddles(d, f) == 2048 <= Low(d) /\ Low(d) < 2048 + Gap(f)
AccessIsExactUnlessStraddling ==
  (step = "done" /\ form \in Accesses) =>
    reg = Target + (IF Straddles(distance, form) THEN UpperUnit ELSE 0)
=============================================================================

# A TLA+ development of the SCL compiler

`src/` holds a compiler for a small C-like language (SCL) that produces RISC-V
machine code, with an assembler of its own, a converter from binaries to VHDL
and a set of instructions added to the Spike simulator. It is a sequential
program: one thread, no persistent state but the two files it writes. What is
hard about it is not interleaving but the agreement of passes: what one pass
writes down (a lifetime, a type list, an address, a frame offset) is used by
another on a path that few programs take.

This directory models those agreements in TLA+, checks them with TLC on small
instances and proves most of them with TLAPS for every instance.
`PROJECT.json` lists the runs, the mutants that show each property can fail,
the source lines each definition stands for, and the hazards.

## 1. Inventory

| component | state | operations | talks to |
|---|---|---|---|
| driver, `main.c` | open files, options | parse options, run the passes, exit | every pass |
| lexer and parser, `frontend/lex.l`, `syntax.y`, `datastructures/ast.c` | syntax tree, `syntaxErrors`, line number | one grammar action per construct | driver; tree to semantic analysis |
| symbol table, `datastructures/symbolic_table.c` | hash of names, each with a chain of entries | insert, look up, remove | semantic analysis, linker; entries are shared with the tree |
| semantic analysis, `frontend/semantic_analysis.c` | scope level, delete stack, current function, error count | one case per node kind | table; annotates the tree for the code generator |
| code generator, `backend/codegen.c` | `functionEnd`, frame sizes, temporaries | one case per node kind | IR builders |
| intermediate representation, `datastructures/ir.c` | node list, next temporary, last address | one builder per instruction | code generator, linker, register assignment |
| externals, `datastructures/externals.c` | list of (name, file) | add | driver, linker |
| linker, `backend/linker.c` | addresses of entries and nodes | append data, place globals, place labels, check calls | IR, table, externals |
| register assignment, `backend/register_assignment.c` | lifetimes, interference graph, stack, map | scan, add edges, simplify, colour | IR in, translator out |
| translator, `translator/riscv.c` | object list | one format per instruction, names of registers | IR, map |
| assembler, `translator/binary.c` | none | one line of assembly to one word | translator |
| object code, `datastructures/objectcode.c` | object list | write assembly, write binary | driver |
| accelerator, `spike-changes/riscv/insns` | two pointers, an accumulator | setpa, setpb, macc, store | DOT_PRODUCT code |
| `bin2vhdl.c` | line number | byte to bits | the binary file |

Vendored or peripheral and left aside: `external/uthash.h`, the copies of Spike
files, the notebook and the scripts.

Components meet through shared objects: a symbol table entry is pointed at by
the tree, by the IR (`varSource`) and by the list of a function's locals, after
its name has left the table; IR addresses are handed out by `addNode`, moved
on by the linker and read by the translator.

What is hard, and the property that makes each part correct:

* **Register assignment**: two values that are needed at the same time never
  share a register; every temporary gets a register, or the pass says it
  failed, and it fails only with reason; the counts it keeps by hand are right.
* **Symbol table and semantic analysis**: names are bound lexically; leaving a
  function removes its locals and nothing else; the lists the code generator
  lays frames out from are right; the analysis comes back.
* **Calling convention**: a call leaves the caller's registers, locals and
  parameters alone, over any tree of calls.
* **Access to globals**: two immediates, computed in different nodes, add up.
* **Linker**: calls land on their callee, storage is past the code and
  disjoint, external data is where the program looks for it.
* **Driver**: files and exit status agree with what was reported.
* **Control flow**: branches and jumps, fixed and patched, execute statements
  the way they are nested; comparisons answer what the source asks; loops end.
* **Parser**: every node is in the tree once and in the order of the source;
  error recovery frees nothing that is still held.
* **Types of expressions**: an assignment stores the value of its right side,
  converted; no instruction reads a register as a type it does not hold.
* **Assembler and simulator**: a word is the instruction that was written and
  no other of the machine's, with its registers and its immediate.
* **Accelerator**: `mulacc` is the bias plus the products, and reads nothing
  past the vectors.
* **Stack placement**: the stack starts above the code, and above the globals
  as long as these are small.

There is no concurrency, no message and no crash recovery, so the hazards are
of order, limits, numeric edges and partial failure. `PROJECT.json` lists them
at their lines.

## 2. Plan

Order: the pass whose mistakes are hardest to see first.

1. `RegisterAssignment`, with the abstract `Colouring` - done, proved.
2. `SemanticAnalysis`, with the abstract `LexicalScoping` - done, proved.
3. `Linker` - done, proved.
4. `CallFrame`, with the abstract `Activations` - done, proved.
5. `GlobalAccess` - done, proved.
6. `Driver` - done, proved.
7. `ControlFlow`, with the abstract `StructuredExecution` - done, proved but
   for its liveness.
8. `Syntax`, `Expressions` - done; of `Syntax` the types and
   `CrashesOnlyAfterErrors` proved.
9. `Encoding` with `Simulator` - done, proved.
10. `Accelerator` - done, proved but for its liveness.
11. The placement of the stack, within `Linker` (`StackClearsSmallGlobals`) -
    done, proved.
12. That the distances of `GlobalAccess` are those that `Linker` makes
    possible - proved.

Proofs still open: `Expressions`, which declares RECURSIVE operators, and
`TreeWhole`, `FreedOnce` and `SourceOrder` of `Syntax`, which follow trees with
recursive functions; both take an induction over trees, which TLAPS cannot do.

## 3. The modules

Modules whose name starts with `MC` give constants their values for TLC, one
configuration file per question.

### RegisterAssignment, Colouring

`RegisterAssignment` runs the passes as loops: `RegisterNewTemporary` and
`AddNode` are the two builders the code generator calls; `StartScan`,
`ScanNode` and `AddEdges` are `buildDependencyGraph`; `Simplify`,
`StartColouring`, `Colour`, `Fatal` and `Finish` are the two loops of
`colorGraph`. An IR node is a kind and three operands: all that the passes
look at. `Reads` and `Writes` say what the machine instruction does, `Starts`
and `Extends` what the scan sees; they differ for stores (the scan takes the
address for a destination) and for the ADD of `addAdditionImIR` (its source is
not seen), which is why `Emittable` records what the code generator never
emits. Adjacency lists are a set of pairs; the freshly allocated map holds
`Garbage`.

`NoClobber` is what the compiler owes its user: between a write and a later
read of a temporary no other node writes its register. `GraphConsistent` is
the graph's version: coloured neighbours differ (`ProperColouring`) and the
hand-kept counts are degrees (`CountsAreDegrees`). `TotalMap` and
`FatalOnlyWhenCrowded` say when the map is usable. `NoClobber` follows the
list, as the lifetimes do: a loop jumps back in it, but the only temporaries
that live across a jump back are those of a `mulacc`, and its loop begins none
(`codegen.c:425-434`), so that straight execution decides.
`ImplementsColouring` shows the passes implement `Colouring`, which only says:
fix a graph, colour nodes one after another with a colour no coloured
neighbour has, or give up where there is none. `Terminates` is the liveness of
the two loops.

### SemanticAnalysis, LexicalScoping

Each action is a node of the tree in the order of the walk. Entries live in
`heap`, since they outlive their names; `table` gives the chain of `next`
pointers of a name. `FunctionHead` is the part common to prototypes and
definitions, `Parameter`, `StartBody` and `EndFunction` the rest of a
definition. The walk takes any tree, so any order of nodes: a block opens no
scope in the code, hence none here. Types of expressions come with the node
that uses them (`Assignment`, `Return`, `Call`).

`LexicalScoping` has a global and a local declaration per name and is either
inside a function or not; `ImplementsScoping` maps the chains to it.
`TableConsistent` is the table's own invariant: chains nest (`ChainsNest`) and
the delete stack names the locals that were entered, each once, and nothing
else (`DeleteStackIsExact`).
`FrameMatchesSignature` ties two lists together that different passes use: the
types callers are checked against, and the order of parameters in the frame
(`OldestLocal` is the last of a function's list of locals, its first parameter).
It excludes programs for which the code prints `TODO: validate matching`,
where the code says itself that it does not check.

### Linker

From `addNode` to the words of the file: nodes get addresses, comments do not.
`Page`, which the immediate of AUIPC counts, is a constant: 4096 in the
machine. `Init` holds the twelve nodes of `genHeader`, with the instruction
that sets the stack pointer and the call of `main`; up to `MaxNodes` more
follow, the last of them never a comment, since a function ends in the jump of
its epilogue. `LinkExternal` appends the words of a file and, for an entry
declared `extern`, records the first; `LinkGlobal` gives room to the others in
table order; `LinkLabels` overwrites functions with their labels; `LinkCheck`
looks for calls of unplaced entries; `Translate` is one turn of the loop of
`translateIRToObj`, of whose objects `writeBinary` writes those that are
included; `EndTranslate` ends it. With `--asm_comments` comments are among
them, and `CallsLand` and `ExternalsHoldTheirData` say by how much that moves
what they are about. An empty file for an external variable makes the code
read through NULL: the state `crashed`.

`StackClearsSmallGlobals` puts the initial stack pointer, a multiple of pages
past the header, in relation to the end of the globals: up to `Cleared` bytes
of globals, 8024 with pages of 4096, are always below it, with more than
`Reached`, 12116, it always starts among them. In between it depends on where
the code ends within its page.

### CallFrame, Activations

The words that the FUNCTION_DEFINITION, CALL and RETURN cases emit, executed
on a memory. `Prologue` and `Epilogue` are straight-line code and one step
each; between them a body writes registers, locals and parameters, pushes
arguments and calls, or returns. `active` has, for each function under way, the
address of its frame. The saved registers are the list of 26 of the
code, shortened. `Activations` is the promise: private activations. The
refinement mapping reads, for each frame on the stack, locals and parameters
from memory and the caller's registers from the callee's save area; it holds
only if frames neither overlap nor drift and arguments arrive in order.

`main` may have parameters: `semantic_analysis.c:40-44` asks only that it is a
function, and `test/fibonacci.in:3` and `test/matrices.in:14` give it one. The
header jumps to it without pushing anything (`codegen.c:31`), and its epilogue
pops the parameters like any other's (`codegen.c:220`). So they are the words
above the initial stack pointer, where there may be anything (`Init`, up to
`StackTop`), and `main`'s activation begins with arguments nobody chose
(`taken`, `Activations.Begin`). `StackBalanced` says what that does to the stack
pointer: at the end it is above its start by `main`'s parameters.

### GlobalAccess

The instructions that form the address of a global scalar or array element,
for a load or store and for a reference, executed one per step with the
immediates `riscv.c` computes. `Signed` and `Execute` are the machine.
Arithmetic is relative to the AUIPC and unbounded: the sums stay below 2^32
for programs that fit the address space.

### ControlFlow, StructuredExecution

The body of a function is a sequence of tokens, walked in the order of the
tree: `Open` is an IF or WHILE with its condition, `Else`, `EndIf` and
`EndWhile` what `codeGenNode` does after the parts, `Straight` a block of code
without jumps, `Return` a RETURN_NODE. `Code(token, imm)` lists the nodes of a
token; what is not known before its construct ends is the one displacement
`imm`. So `ir` has, for each token, the address `addNode` gives to the first of
its nodes and that displacement, which the ends patch in. Comments have no
address and take no word (what `--asm_comments` makes of them is in `Linker`).
Then the nodes are executed, one per step; a displacement is what its field of
13 or 21 bits holds. A condition is a comparison of ints, of floats, or a value
found in a register.

`StructuredExecution` is what the tokens mean, without addresses.
`ImplementsStructure` maps the address being executed to its token
(`Executing`) and the register that the branch tests to the verdict on the
condition (`Verdict`): a jump into a neighbouring statement is a step the
abstract machine does not have.

`ComparisonsAnswer` (its parts are `IntegerComparisons` and `FloatComparisons`)
states exactly what comparisons answer. An int comparison looks at the sign of
a difference, so operands
whose difference is not a word compare the wrong way round. FLT and FLE leave 1
for a relation that holds, while IF and WHILE take 0 for true; the code
generator exchanges operands to make up for it, which is right for operands
that differ, wrong for equal ones (`<` and `<=` answer as each other, likewise
`>` and `>=`), and makes every comparison with NaN come out true. `==` and `!=`
of floats crash the compiler (`Uncompiled`).

### Driver

`main.c` in order. What a pass finds is chosen with the source program
(`Programs`); the other modules say which verdicts can occur. The model keeps
which files are open, what each output holds, what was printed and the exit
status.
`FilesConsistent` joins two statements about the outputs: both hold code when
success is reported (`WrittenWithSuccess`), and no file is left open by a run
that got past its options (`FilesClosed`). The exits before that, of
`--lexical_only` and of options that are refused, leave theirs to the operating
system.

### Syntax

The actions of `syntax.y` on the tree. The automaton is bison's and is not
repeated: `work` is what is still expected and `values` bison's stack of
semantic values; `Expand` guesses a production where bison looks ahead,
which gives the same actions in the same order. Productions that make the same
links in the same place are one (IF without ELSE stands for WHILE, a variable
for a constant). `SyntaxError` pops symbols down to one with an `error`
alternative and destroys their values with `freeASTNode`, `Abort` is the error
nothing catches, or bison's full stack.

`TreeWhole` says that every node made hangs below exactly one value on the
stack, and, without errors, that every node has the children the later passes
take without looking. `FreedOnce` is about error recovery: nothing is freed
twice, and nothing that a value still leads to. `SourceOrder` compares the
order of the leaves in the tree with that of their tokens.
`CrashesOnlyAfterErrors` is the reach of the one write through NULL
(`syntax.y:162`); what every other action writes through is a node, though
values that are NULL lie on the stack (empty lists, no parameters, and
whatever an error was recovered as).

### Expressions

One assignment of an expression: `Analyse` is the typing part of
`semantic_analysis.c`, with the cast nodes it inserts, `Generate` the cases of
`codeGenNode` for expressions, and the rest executes the code on an int and a
float register file. Values are small integers, tagged with the type whose
bit pattern they are; an instruction that reads the other type's pattern, or a
register nobody set, yields `Unknown` and sets `misread`.

`CastWithRetag` is the point of interest: the children get the common type
before `getCastNode` asks for theirs (`semantic_analysis.c:297-305`), so no
cast is ever inserted below arithmetic or a comparison, and an int variable,
element or call there is loaded and computed as if it were a float.
`MisreadsAreRetagged` says that exactly these programs misread, `ValueAssigned`
that all others store the right value, `TypesAllowed` what the analysis refuses,
`CompilesUnlessFloatEquality` for which programs the code generator calls
through NULL. Floats are compared as `ir.c:389-423` has it (`FloatFlag`), so the
value `ValueAssigned` expects counts a comparison of equal floats with the
opposite of its answer (`EqualFloats`): `i = f < f` stores true.

### Encoding, Simulator

`Encoding` follows one request of the code generator: a line of assembly, or a
constant that becomes one or two, then `AsmToBinary` on each line, the word's
bytes and the VHDL that `bin2vhdl` writes for them, byte after byte. Words are
records of the six fields all RISC-V formats share; masks and shifts are
remainders and quotients by powers of two. `GetReg`, `GetFloatReg` and
`Number` are the two sides of the register names, `Funct3` reads the text of a
funct3 as the decimal number `atoi` makes of it.

`Simulator` is the other end: the MATCH and MASK pairs of `encoding.h` for the
instructions the compiler emits, one by one, those of all other
instructions by family, length and immediates of a word as in `decode.h`, and
the encoders of `opcodes.h`.

`InstructionMeant` says that the machine recognises the instruction that was
written and no other one, with the meant registers, and that results go to
registers the prologue saves; shifts (`binary.c:233`) are the exception, which
it describes. `ImmediateIsCut` says what is left of an immediate,
`ConstantsLoaded` which constants arrive whole, `EncodersAgree` where the two
encoders of the repository differ, `OutputIsWords` that bytes and VHDL hold the
words.

### Accelerator

The code of one `mulacc`, executed one instruction per step with those that
`spike-changes/riscv/insns` adds. A float is the sequence of products added
up, and a factor the address it was read from, so that order, number and place
of the elements show and rounding does not. The counter has `WordValues`
values and the immediate it is loaded with `ImmediateValues`, 2^32 and 2^12 in
the machine. `Code(length)` is the list of instructions and `Size(length)` how
many of them an even or an odd length has. `LoopInvariant` ties pointers, the
memory they are reloaded from, the counter and the accumulator together;
`DotProduct` says exactly when the result is the sum: when the count of pairs
is at least one and fits the immediate, the bias is a float, and the vectors
stay off the three words at 0x10000 the accelerator uses (`Clear`).

`Memory` is the set of addresses that can be read, 16 KB from 0x10000 in the
documented run (`src/README.md:34`); a load from elsewhere ends the execution
(`Trap`). Vectors in the memory with lengths within reach never trap (a part of
`LoopInvariant`). For other lengths the loop runs on, to the end of the memory
or until its counter has wrapped, whichever comes first, and in the documented
memory that is always the former; `Ends` says that it stops. Pointers do not
wrap: they grow by 8 a turn, and a trap comes long before the end of the
addresses.

## 4. The runs

| run | instance | shows |
|---|---|---|
| `register_assignment` | 3 temporaries, 4 nodes, 2 registers | values survive; when the map is usable; abstract colouring |
| `semantic_analysis` | 2 names (one is `main`), 4 entries, 1 error, 3 parameter lists, 2 argument lists | scoping, delete stack, frames |
| `linker` | 6 tables, 8 lists of files (one of 50 words), 3 nodes after the header, pages of 256 bytes, with and without `--asm_comments` | calls, storage, externals, stack placement |
| `call_frame` | 3 functions, `main` with a parameter, 2 calls beside it, 2 writes, 2 registers, 16 words | private activations, where the stack pointer ends |
| `control_flow` | bodies of up to 5 tokens with one comparison, 10 kinds of comparison, ints of 4 values, 3 floats, a block of 990 words | structured execution, comparisons, loops end |
| `global_access` | 4 shapes, 1711 distances, 3 indices, 2 bases | references exact, accesses exact or off by a page |
| `driver` | up to 2 options of 10, 6 verdicts, all sets of files | files, reports and exit status agree |
| `encoding` | every line shape, 5 register operands, immediates around the ends of 12, 13, 20 and 21 bits, 35 floats | instructions, immediates and constants on the machine |
| `accelerator` | lengths 0 to 18, counts of 4 bits in words of 5, vectors at two addresses, one just below the accelerator's words, a memory that ends 192 bytes past the other | when the value is the dot product; the loop ends, or traps |
| `syntax` | 7 nodes, 2 syntax errors, 2 closing tokens awaited | whole trees, error recovery |
| `expressions` | assignments to 3 variables of expressions of up to 3 levels over 7 operands | values, misread registers, refused types |
| `calls_have_destination` | the instance of `linker`, without comments | a disagreement, see below |

A type invariant is a part of one of the invariants of each run; those are
`GraphConsistent`, `TableConsistent`, `Layout`, `StackInBounds`,
`ComparisonsAnswer`, `FilesConsistent`, `OutputIsWords`, `LoopInvariant`,
`TreeWhole` and `TypesAllowed`.

Why the bounds are enough. *Registers*: two registers and three temporaries
contain the least case in which a colour is refused, one in which the search
fails, and one in which freed registers are taken again; four nodes contain a
write, another write and a read of the first in every order. *Names*: a chain
is at most two long (`ChainsNest` says so), and two names contain shadowing,
clashes and a function hidden by its own local. *Linker*: the tables put a
variable before, between and after functions and the files are shorter than,
equal to and longer than the variable; with pages of 256 bytes the file of 50
words puts the end of the code where a page ends, and the large variables are
on both sides of the two limits of the stack, 344 and 596 bytes; the proof has
any size of page. *Calls*: two calls beside main give nesting, recursion and a
sequence; functions have different numbers of parameters and locals so that a
wrong size shows, and `main` has a parameter. *Distances*: the immediates depend on the distance only
through its remainder by a page and the page number; every word of a page is
there. The proofs remove this bound. *Bodies*: five tokens nest an IF or WHILE
in each other with a block, an ELSE or a RETURN inside; every comparison is
taken at every pair of operands, differences that overflow among them; the
block of 990 words brings displacements close to the end of their field, and
`MaxBytes` keeps them inside it. *Options*: flags act independently except for
order of two. *Encoding*: a register operand is a colour at either end of the
tables, a fixed register at either end, or none; immediates are next to every
power of two at which a field ends, of either sign; the proofs remove these
bounds. *Lengths*: with 4 bits the count is positive up to length 15, and 16
to 18 are past it; the code depends on the width only through the comparison.
The memory ends where a loop of length 16 just finishes; one of 17 traps
behind the loop, and of 0, 1 or 18 in it.
*Addresses*: two vectors may be the same one, and the longer ones at 65516
reach into the accelerator's words. *Trees*: seven nodes are enough for an IF
with ELSE, a mulacc, a list of each kind or two nested operators in a function
body; two errors are enough for one during the recovery of another.
*Expressions*: a rule of types looks at an operator and its operands, so two
levels meet every rule and the third shows what becomes of its result; the
values are chosen so that no two results coincide.

Deadlock is checked in every run: the finished program has an explicit
stuttering step (such as `Returned`, `Stopped`, `Halted`, `Done` or `Ended`).

**Fairness.** `RegisterAssignment`, `ControlFlow`, `Driver` and `Accelerator`
assume weak fairness of the whole next-state relation and nothing of single
actions. The program is a single thread that nothing suspends, so it goes on
while it can; which node or option comes next is its input and no fairness is
assumed about it.

`ReturnsAfterLoops` does not claim that programs end: it asks only that a
function whose loop conditions are eventually always false does.

**Where the code departs from what the repository says.** One run finds a
state for it (`findings` in `PROJECT.json`): `calls_have_destination`. The
check of `linker.c:3` for functions without a body cannot fire, because an
earlier pass has given every entry an address.

The other departures are part of the modules, and the properties state exactly
when they occur, so that a repair of the code shows as a violation:

| departure | where | property |
|---|---|---|
| loads and stores of globals are a page off on some distances | `riscv.c:234` | `AccessIsExactUnlessStraddling` |
| `--asm_comments` adds words to the binary | `riscv.c:365` | `CallsLand`, `ExternalsHoldTheirData` |
| the stack starts among large globals | `riscv.c:222` | `StackClearsSmallGlobals` |
| int constants beyond 12 bits lose their upper bits, like any immediate | `codegen.c:315` | `ConstantsLoaded`, `ImmediateIsCut` |
| shifts are assembled to a compressed instruction | `binary.c:233` | `InstructionMeant` |
| a negative AUIPC immediate changes sign | `binary.c:162` | `ImmediateIsCut` |
| the simulator's encoders place the immediate of the added instructions elsewhere | `opcodes.h:126` | `EncodersAgree` |
| an int that meets a float is read as one, without a cast | `semantic_analysis.c:300` | `MisreadsAreRetagged` |
| `==` and `!=` of floats crash the compiler | `codegen.c:342` | `CompilesUnlessFloatEquality` |
| operands far apart, equal floats and NaN compare the wrong way | `codegen.c:326`, `ir.c:389` | `ComparisonsAnswer`, `ValueAssigned` |
| a `main` with parameters reads them above the stack, and leaves the stack pointer above its start | `codegen.c:31` | `StackInBounds` |
| `mulacc` of length 0, 1 or 4096 and more, with an int bias, or of vectors around 0x10000 | `codegen.c:423` | `DotProduct`, `Ends` |
| an erroneous statement before ELSE crashes the parser | `syntax.y:162` | `CrashesOnlyAfterErrors` |

Some have no property that could tell the code from its repair:

* A definition after its prototype keeps the types recorded from the prototype
  (`semantic_analysis.c:82`), while its frame comes from its own parameters:
  calls are checked against the one and laid out for the other. The code prints
  that this is to be done (`semantic_analysis.c:83`), so `FrameMatchesSignature`
  leaves these programs out; `SemanticAnalysis` lets them happen.

* A variable may be given a function body after its declaration
  (`semantic_analysis.c:77`); `SemanticAnalysis` and `Linker` let it happen.
* A refused parameter is dereferenced through NULL
  (`semantic_analysis.c:130`): the state `crashed` of `SemanticAnalysis`, where
  `src/test/3-test-semantic.in:10-11` expects two more messages.
* An external file without a word is read through NULL (`linker.c:15`): the
  state `crashed` of `Linker`.
* When register assignment prints "Fatal", `main.c:135` does not notice and
  goes on to "Compilation successful": a binary of `arbitrary` contents in
  `Driver`.
* `src/README.md:19` documents `--asm`, which `main.c:91` rejects.
* `src/README.md:22` makes the raw dialect the default, and
  `getRegisterDialect1` (`riscv.c:8`) looks the negative numbers of fixed
  registers up in the map of temporaries, so that header and frames name
  arbitrary registers; `Translate` in `Driver` accounts for it.

## 5. The proofs

TLAPS proves these for every value of the constants, from the named ASSUMEs of
the modules only.

**RegisterAssignment_proofs.** `TypeCorrect`, `CountsMatchGraph`,
`ColouringIsProper`, `GraphIsConsistent`, `MapIsTotal`, `ValuesSurvive`,
`FatalNeedsCrowd` and `AssignmentImplementsColouring`: for every IR, every
number of temporaries and registers. `NoClobber` is far from inductive: it
speaks of the list and the finished map, and the link between them is made by
five passes. The invariant has one conjunct per stage. `ScanInv` says what
lifetimes mean for the part of the list scanned so far (the first node naming
a temporary as destination, the last one naming it at all), `OperandInv` that
nodes name registered temporaries and are emittable, `PhaseInv` that the graph
is exactly the overlap of lifetimes once it is made, `StackInv` that stack and
active set partition the temporaries, and `ColourInv` that coloured neighbours
differ. From these, a write that would clobber lies inside the other's
lifetime, so the two are neighbours, so their registers differ.
`FatalNeedsCrowd` is a counting argument: the colours taken are the image of
the coloured neighbours. The refinement needs only the invariant and the step.

**Encoding_proofs.** `ImmediatesAreCut`, `ConstantsAreLoaded`,
`MeantInstructionSeen`, `EncodersProduceTheSame` and `WrittenAsWords`: for
every integer as an immediate, every operand and every float. The invariant
`Stages` says which lines and words are left of a request, so that in every
state where a word is looked at it is `AsmToBinary` of the line that was asked
for; with `WordsInType` and `RomInv`, that words and the lines of VHDL are
those of what has been assembled, it is `WordsInv`. The rest is about single
words:

* Immediates are arithmetic: packing takes remainders and quotients by powers of
  two, decoding adds them up again, with one lemma for each format, after one on
  what `SignedBin` leaves of a number modulo a power of two.
* That no other instruction is recognised is a matter of tables. Of a word's
  line the fields that every shape fixes are stated once (`Identified`); each
  MATCH and MASK pair of `encoding.h` is an opcode and function codes (`Seen`), and
  rows with the same codes are the same operation (`ToldApart`). The families of
  all other instructions are excluded pattern by pattern (`ClaimedByNone`).
* The bytes of a word put together again are the word (`ByteReadBack`,
  `BytesOfWord`), and two encoders that cut at the same bits agree (`SameCut12`
  and its like).

**SemanticAnalysis_proofs.** `TableIsConsistent`, `LocalsAreDisjoint`,
`FramesMatchSignatures` and `TableImplementsScoping`: for every set of names,
every program, and any number of entries and errors. Chains that nest and a
delete stack that is exact are close to inductive; what `TableInv` adds is
that no pointer dangles and that a function is under way between its head and
its end, when the stack is not empty. `LocalsDisjoint` speaks of lists of
pointers that are kept after the names have left the table. `LocalsInv` says why they do not mix: a local joins the list of the
function under way only (`ListsApart`), and, as long as nothing was reported,
that list has the names on the delete stack, no two the same, and functions
without a body have an empty one. `FrameInv` follows the parameters while they
are being entered: those on the list and those still to come make up the
recorded signature. The refinement is one case for each node kind.

**CallFrame_proofs.** `StackStaysInBounds` and `FramesImplementActivations`:
for every set of functions with any numbers of parameters and locals, those of
`main` included, any number of saved registers, any size of the stack that has
room for the frame of `main`, and every tree of calls that fits. `FramesStack`
says that frames lie one on the other without a gap and the stack pointer is at
the newest, less the arguments pushed so far; it holds because the caller
pushes parameters, the callee the rest, and its epilogue pops both. For `main`,
whose parameters nobody pushes, it holds from the top of the memory
(`StackTop`) instead of the initial stack pointer, which is why the stack is
balanced only up to these parameters. `FramesSaved` says
what the save areas hold. With these, every write of a body is into words of
its own frame, or below all frames, so that the older activations, read out of
the memory, are what they were (`SavedKept`, `NewestChanged`); the prologue
and the epilogue add and take the newest one.

**Linker_proofs.** `GlobalsHaveTheirOwnRoom`, `CallsReachTheirLabels`,
`ExternalsAreHeld` and `StackClearsWhatItCan`: for every table, list of
external files, program, and size of page that is whole words. `CallsLand` is
about distances in the file, the passes about addresses. `LinkInv` joins them:
`Counted`, that an address is four times the number of nodes before it that
are no comments; `Arranged`, that no comment is among the data;
`GlobalsPlaced` and `ExternalsPlaced`, what each pass has given an address so
far; `Written`, that the image is the list with or without its comments. The
image of a node is thus its address in words, plus the comments before it.
That `main` is the first function of a table takes a least element of a set of
naturals (`Least`, from the well-foundedness of their order), since the
induction theorems with an operator for a parameter are out of the prover's
reach.

The same module holds the proofs about `GlobalAccess`, for all natural numbers
as bases, distances and indices: `AccessTypes`, `ReferencesAreExact` and
`AccessesAreExactUnlessStraddling`. The argument is one lemma of arithmetic on a
page per shape of code; `RegisterInv` gives the register's contents after every
instruction. `DistancesAreForward` connects the two: in whatever the linker has
laid out, the distance from an instruction to a variable with storage is a
positive number of words, as `GlobalAccess` takes it to be.

**ControlFlow_proofs.** `Invariance`, `CodeImplementsStructure` and
`ComparisonsAnswered`: for every body, however long and deeply nested, every
length of a block, set of conditions and floats, every even number of values of
an int, and every two widths of displacements that reach over the body
(`ReachAssumption`; the code does not check it). `ImplementsStructure` speaks
of addresses and of tokens. The invariant of the walk, `Built`, joins them in
four parts:

* `Nested`: the list of open constructs holds those that have not been closed,
  the k-th of them k deep, each with its `else`; everything else is closed, each
  end closes something, and a construct has one `else` at most. What is between
  an opener and its end is counted (`Nest`), since a set of tokens has a
  cardinality where a tree would need an induction.
* `Addressed`: tokens lie one behind the other without a gap.
* `Patched`: of every construct that has been closed the displacements are the
  differences of the addresses of its opener, its `else` and its end.
* `Typed`.

Of a body that is finished it follows that the `EndOf`, `ElsesOf` and
`OpenerOf` of the abstract specification are the tokens the displacements were
patched for. An address is that of at most one node of one token (`NodeOnce`),
so that each machine step can be told from the node it is at; `Registers` says
what the registers hold there: behind the SUB the difference, at the branch the
answer. The refinement is one case for each kind of node and what stands
behind it. Comparisons are arithmetic: the word that a difference of two words
leaves is that difference, or off by the number of words, and then its sign is
the opposite.

**Accelerator_proofs.** `LoopSumsThePairs` and `DotProductWithinReach`: for
every even number of values of the immediate, any number of the counter's
that is no smaller, every memory with the accelerator's three words, every
length, and every two vectors, the same one twice or
overlapping included. `AccumulatesInOrder` speaks of one position of the loop,
and of lengths within reach only. `AccInv` says what every register and word
holds at each position, with the turn the loop is in, for the other lengths as
well: `DotProduct` is an equivalence, so it has to be shown that a count that
wraps gives a sum of another length, that an int bias does not become a float,
and that the accelerator's words do not pass for elements.

**Driver_proofs.** `FilesAreConsistent` and `NoCodeFromErrors`: for every set
of command lines and verdicts. Neither property is inductive, since both speak
of the end only. The invariant adds what is true at each stage: code is in the
outputs only from translation on (`CodeAfterTranslation`), stages behind a
failing pass are not reached (`ErrorsStop`), and nothing is reported before
the end (`Quiet`).

The same module holds the proofs about `Syntax`, which the driver runs first:
`OperandsAreThere` and `ParserTypes`, for programs of any size, number of errors
and depth of nesting. (Its specification is called `ParserSpec`, so that the two
can be extended together.) `CrashesOnlyAfterErrors` speaks of the value an
action is about to use, which was left on the stack long before, and possibly
by error recovery. The invariant is a typing of the stack. A *level* says of
each value whether it can be NULL: never, only after an error, or always.
`Takes` and `Gives` say what an item of `work` needs on top of the stack and
what it leaves; `Typed` says that there are levels, one between any two items,
from that of the present stack to the empty one behind the last item, and that
nothing in front of a place where "error" can be shifted goes below the height
recorded there (`Guarded`). `Ordered` says that there is such a place behind
every item that an error can be met at.

* Every production takes and gives what its symbol does (`ProductionsSound`,
  one lemma for each symbol), so that expanding a goal splices its levels in
  (`Replace`); this is where the grammar enters.
* An action replaces what it takes by what it gives (`HoldsAfter`, `ReduceStep`).
* An error drops the items up to the nearest such place, and the levels
  behind it still fit what is left of the stack, with NULL on top (`Drop`,
  `ErrorKeeps`). That the nearest one exists takes a least element again.

The assumptions on constants say what the code's tables and types say:
distances and addresses are natural, addresses of vectors are those of words,
the entry a file is for is in the table, float constants are split at 12 bits.
`BoundsAssumption` of `CallFrame` asks that the stack has room for `main`, as
the machine gives it; frames that do not fit later are calls the model does
not make. `FunctionsAssumption` asks nothing of `main` but that there is one,
which the analysis checks. `MemoryAssumption` of `Accelerator` puts the three
words at 0x10000 in the memory.

Only model-checked: liveness (`Terminates`, `Ends`, `ReturnsAfterLoops`); of
`Syntax` what is said of whole trees (`TreeWhole`, `FreedOnce`, `SourceOrder`);
all properties of `Expressions`.
Liveness under fairness and induction over trees are beyond TLAPS, and
`Expressions` declares RECURSIVE operators, where it has no SMT prover. Nothing
is assumed beyond the constants.

## 6. What is not modelled

* The lexer, generated by flex, and the tables of bison: `Syntax` takes any
  sequence of productions the grammar allows.
* `asm` statements but for the lines they can bring (`Encoding` assembles every
  mnemonic), references to local arrays, and mulacc's checks of types.
* The text of the assembly: how a line is split into operands, how names are
  spelt, the raw dialect.
* Frames above the 2047 bytes the immediates reach: `CallFrame` works below
  it; `ImmediateIsCut` says what becomes of larger offsets.
* The disassembler and the other copies of Spike files; of `encoding.h` the
  CSRs and causes.
* Formatting, printing and freeing of memory, but for the freeing on syntax
  errors.
* uthash (a map), notebooks and scripts, the tests.

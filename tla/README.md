# PCL verification project

TLA+ models of `pcl`, a compiler for a Pascal subset with nested functions
(`src/src/`), checked with TLC, and theorems about them checked with TLAPS.

The compiler is one sequential process: bison builds a tree (`parser.y`,
`ast.hpp`), `Program::semantic_*` walks it once, `Program::compile_*` walks it a
second time and calls the LLVM `IRBuilder`, `verifyModule` decides whether the
result is acceptable, and clang links it with `libs.c`. Nothing runs
concurrently; what persists is the files a run leaves. The language is defined
in `src/pcl_greek/pcl2019.pdf` (readme.md:3), quoted below by page, translated.
What is hard is that decisions made in
one walk are relied on in the other, that both keep global mutable tables, and
that static scoping of nested functions is compiled to plain LLVM functions
with a hidden argument, whose run-time behaviour no walk ever sees.

## Inventory

| Component | State it keeps | Operations | Correct when |
|---|---|---|---|
| Runtime scoping (`compile.cpp`: `Id::compile`, `create_call`, `FunctionDef::compile`) | activations; in each a hidden struct with the parent's struct and the addresses the function provides | prologue, use of a variable, call, return | every use reaches the variable static scoping denotes, every callee gets its parent's struct, no dead address is read |
| Semantic analysis of names (`semantic.cpp`, `symbol.cpp`, `ast.cpp`) | `SymbolTable::scopeStack`; in every `FunctionDef` `requests`, `provides`, `static_parent` | declarations, forward declarations, definitions, uses, calls, labels, gotos, scope ends | what it accepts is a program the second walk can compile: requests meet slots, callees are visible, gotos have labels |
| Types and conversions (`types.hpp`, `semantic.cpp`, `ast.cpp`, `compile.cpp`) | none: pure rules, used by both walks | `equals`, `is_compatible_with`, `TypeConvert`, the casts of assignments and arguments | whatever is accepted is stored with the LLVM type of its destination |
| Control flow (`compile.cpp`, `symbol.cpp`) | basic blocks, the Builder's insertion point, the global `BBended`, gotos to patch | if, while, label, goto, return, end of a routine | every block has one terminator; the blocks run as the source means |
| Code generation table (`symbol.cpp`, `compile.cpp`) | `CodeGenTable::scopes`, `nesting_level` of the functions, the Builder's place | every handler of the second walk | the two walks agree on scopes and names; untested lookups succeed; gotos get their branches |
| Expressions (`compile.cpp`: `BinOp`, `UnOp`, `Dereference`...) | none but the insertion block | operators, short circuit | a compiled expression has its source's value |
| Storage (`compile.cpp`: `Init`, `InitArray`, `Dispose`, `DisposeArray`) | the collector's blocks; pointers | new, dispose, copies, elements | accesses stay in live blocks, only whole blocks are freed |
| Runtime library (`libs.c`, and its two descriptions in `semantic.cpp` and `compile.cpp`) | the standard input, `readString`'s buffer | the predefined routines | the descriptions agree; input arrives complete, in bounds |
| Driver (`parser.y`: `main`; `compile.cpp`: `compile_finalize`) | options, the files of earlier runs | one run of the compiler | refused programs touch nothing; listing and executable agree |
| Lexer, grammar, tree printing, examples | flex and bison state | | text processing |

Interactions: the first walk writes `requests`, `provides`, `static_parent`
into the tree, the second reads them; type rules are applied by the first walk
and presupposed by the casts of the second; labels are checked when a scope
closes in the first walk and branched to, on trust, when it closes in the
second; `nesting_level` is counted by the second walk alone. `error()` ends the
process, so no handler runs after a failed one.

The hazards, each at its line and with the properties that cover it, are listed
in `PROJECT.json`.

## Modules

| Module | What it is |
|---|---|
| `StaticScoping` | abstract: activations with a display; what static scoping promises |
| `NestedPrograms` | the record a compiled program is, and `WellFormed`, what the run-time code relies on |
| `NestedCalls` | the code emitted for nested functions, executed |
| `NestedCalls_proofs` | theorems about it |
| `Scopes` | semantic analysis of declarations, names, calls and labels |
| `Types` | types, their rules, and `TypeConvert` |
| `Conversions` | the path of a value from an expression to a variable or a parameter |
| `Types_proofs` | lemmas on types: what `TypeConvert` and the rules make of a type and its referent |
| `SourceOrder` | what the tokens of a routine mean, one by one: which execute something, and what follows each |
| `StructuredFlow` | abstract: the order in which the statements of a routine execute |
| `ControlFlow` | the basic blocks of a routine, built and run |
| `ControlFlow_proofs` | theorems about it |
| `CodeGen` | the second walk's table, levels, Builder and gotos; extends `Scopes`, a step of both walks at a time |
| `CodeGen_proofs` | theorems about `Scopes` and about it |
| `Expressions` | the code of expressions, run as it is emitted, against what the source means |
| `Values_proofs` | theorems about it and about `Conversions` |
| `Storage` | new, dispose and pointers: bytes and addresses, against objects and scalars |
| `Storage_proofs` | theorems about it |
| `Library` | the predefined routines: three descriptions, and `readString` step by step |
| `Library_proofs` | theorems about it |
| `Driver` | runs of the compiler: options, phases, exits, files |
| `Driver_proofs` | theorems about it |
| `MC*` | small instances |

`NestedCalls` takes programs for which `WellFormed` holds (an assumption on its
constant `Programs`); `Scopes` ends with such a program, and its invariant
`EmitsWellFormed` is that `WellFormed` holds of it. The two together say that
accepted programs run with correct scoping, up to the findings below.

### NestedCalls

`stack` is the machine's call stack. An activation has `dad` (field 0 of its
`hidden_struct`), `slots` (the other fields) and `addr` (its allocas, or for a
VAR parameter the pointer passed in). `reg` is the address computed last.
A use of an outer variable is `UseOuter`, then one `LoadDad` for every turn of
the loop of `Id::compile`, then `LoadSlot`. A call is `CallThroughChain` and its
`LoadDad`s when `number_load > 0`, or `CallWithOwnStruct`, which fills the
caller's slots first; then `Enter`, with the callee's prologue. `Return` pops.
A program is in effect any control flow over the calls and uses its functions
contain. `mainLevel` is the word in `main_obj->nesting_level`, which no code
sets: any element of `MainLevels`.

Hidden structs are typed: field 0 is a pointer to a struct of the parent's type,
that of main's to an empty struct. So a call that would pass the struct of
another function than the callee's parent does not run: `VerifyModule`, the first
step, accepts the module (`StructsTyped`) or refuses it, as `compile_finalize`
does. Main's functions have level 2 (`ct.getNumScopes()`), so that main passes
its own struct with a word of 1 or less, and with 2 or more walks up to the empty
one or beyond, where LLVM finds nothing to load and may break off the compiler
before it verifies anything: `refused` stands for either.

### Scopes

One action is one declaration, use, call, argument, label statement, goto or end
of a function; the program analysed is what the actions spell out. `scopeStack`
is `st.scopeStack` with scope 1 the library's. `defs` are the `FunctionDef`
nodes; `requests` and `provides` are the code's maps, `chain` is
`static_parent` followed to the end, `creator` the node an LLVM function is
created from. A call is `Call` followed by one `CheckArgument` per argument,
because an argument enters requests before a later one fails. `error()` sets
`status` to "error"; `status` is "undefined" when the code goes on with a
`FunctionEntry` taken for a `VariableEntry`.

### CodeGen

Each action is one of `Scopes` together with the code generated for the same
node: what the second walk does at a node depends on nothing the first does at
later ones, except for requests and slots, which only grow, so the walks can be
taken side by side and their tables compared after every node. `genScopes` is
`ct.scopes`; an entry is a variable or a routine, named by the `FunctionDef` it
was created for, or a label with its gotos. `builder` is the routine the Builder
writes into, `entered` the calls made and how far they go up the chain of
structs, `patched` the branches of gotos. `fault` is set when a lookup, none of
which the code tests, comes back empty or of another kind, or an entry is
doubled. A node that semantic analysis refuses generates nothing.

What main's own calls do is left to `NestedCalls` (its level is never set).
A definition with more parameters than its forward declaration, which `Scopes`
accepts as the code does, is entered with its own parameters; that
`FunctionDef::compile` then reads past the routine's arguments is not followed.

### Types, Conversions

A type is the sequence of its constructors, an LLVM type too. One behaviour is
one value: `Compile`, `Load` if it is an l-value that is not passed by
reference, and `Convert`, where assignment and `create_call` differ.

### ControlFlow

A routine is a sequence of tokens, spelled out by the actions; each action is
the part of a `compile()` between two calls of the children's. `blocks` are
LLVM basic blocks reduced to what matters for control: plain instructions,
branches, returns. `EndRoutine` writes the epilogue, patches the gotos and asks
the verifier; `Run*` then execute the blocks. The short-circuit blocks of `and`
and `or` are left to the expressions: an in-line statement is one instruction
here.

### Expressions

An expression is spelled out bottom up on `stack`, one node a step. Each entry
holds the value its code has computed (`got`, an LLVM type and data) and the
value it denotes in the source (`meant`); data are terms, so that a load too
many, a promotion missed or operands swapped make a difference, but booleans are
known. An instruction whose operands have the wrong type yields `IllTyped`. The
code of a node runs when the node is added; `and` and `or` are two steps,
`BeginShort` between their operands, and `pending` holds the branches around the
code being compiled. `performed` counts the calls the code makes, `due` those
the source demands. A call that is made may change the variables (`flag`,
`written`): what an l-value means as an operand is what it holds when it is
evaluated (`held`), as "operands are evaluated from left to right"
(pcl2019.pdf, page 9), while the code loads it when the operator is compiled.

### Storage

`blocks` and `ptr` are the compiled program's: bytes, and addresses in them.
`objects` and `meant` are what the definition says the same statements make:
arrays of scalars, pointers to scalars. A pointer variable starts out wild and
keeps its address after dispose, though by the definition it then denotes nil
(`Dispose` changes `meant`, not `ptr`). `GC_malloc` may return null; `Collect` takes
any block no variable points into; a free of anything but a whole live block is
the end of the run (`state = "corrupt"`). `lawful` is the history of disposals:
false once the program has disposed of something new has not made, or twice; a
dispose of what is nil by the definition breaks no rule, as it stands for `if p <>
nil then dispose p`. `reused` says that there was such a dispose while the code's
variable held an address.
Integer and size widths are constants, so that sign extension and wrapping
happen at small numbers.

### Library

`SemanticHeader`, `LlvmEntry` and `CPrototype` are the three tables; `Passed` is
what `create_call` passes. `CallOther` calls any routine; `ReadNumber` and
`ReadChar` consume input as `scanf` does, and `readString` runs as `ReadString`,
`ReadFirst`, `ReadNext`, `Copy` with its own local variables. Characters are a
letter, a digit, the newline, the byte 0 and the byte 255. `taken` and `lost` are
histories of what readString took and what reached nobody.

### Driver

One behaviour is several runs of the compiler. `Invoke` is `main` up to `fopen`:
argv[1] is always the file, and an option is any argument that contains its
text, the path of the file and of the compiler included (`says`, `Binary`).
`Parse`, `Semantic` and `Compile` end the run when the program is refused there;
`PrintModule`, `Clang` and `Mv` are the end of `compile_finalize`, no result of
which is looked at. `Kill` ends a run between any two steps; `Edit` changes a
source at any time. `outputs` are the files on the disk, with the program and the
optimisation each was made from. The listing's stream is never closed, but LLVM
prints a module through a stream that writes through, so clang finds all of it.

## Runs

| Run | Question | States | Bounds |
|---|---|---|---|
| `NestedCalls` | do the structs implement static scoping, and when is a module refused? | 0.2 M | every shape of main and three functions, five activations, words 0 to 3 in main's level |
| `CodeGen` | is what semantic analysis accepts well formed, and does the second walk find it so? | 2.0 M | main and two function nodes over names that clash with variables, labels and the library; main and four plain ones |
| `Values` | does what is accepted compute what it means, and is it stored with the right type? | 0.8 M | expressions of seven nodes, five variable types; conversions of all types of at most four constructors |
| `ControlFlow` | are the blocks well formed and right? | 0.7 M | six tokens, two labels; main, a function, a procedure in a function |
| `Storage` | do dynamic objects lie where the program looks for them? | 0.2 M | four pointers, two blocks |
| `Library` | do calls agree with `libs.c`, and does input arrive? | 0.4 M | every input of five characters, four calls |
| `Driver` | what do runs leave on the disk? | 2.2 M | two runs, three sources, five programs |

What each shows:

- `DadEncloses`, `CalleeGetsParent`, `SlotDenotesVariable`,
  `NoDanglingAddress`: field 0 always leads to the innermost enclosing
  activation, whatever recursion came between; a slot read through the chain
  holds the address static scoping denotes, though slots are filled only when a
  nested function is called directly. `RefusedForMain`: levels and paths agree for
  every call but main's, so verifyModule refuses nothing else. `ImplementsScoping` is the refinement of
  `StaticScoping`; `WalkEnds` says that the loops of loads end.
- `RequestsMatchProvides`: a request and the slot it was given agree for good.
  `GotoReachesLabel`: after the end of a function its gotos have labels.
  `EmitsWellFormed`: see above.
- `NoInternalError`, `SameDenotation`: no lookup of the second walk fails, and a
  name denotes the same variable or routine in both; `BuilderInOwnRoutine`,
  `GotosPatched`: code goes to the routine being compiled, and every goto gets a
  branch to a label of its routine; `CallsReachParent`: the levels counted by the
  second walk lead each call to the parent of its callee, which `NestedCalls`
  takes for granted (`Level`).
- `StoresTyped`, `PointersKeepElements`: the two sets of conversion rules agree,
  and no conversion lets memory be read as another type.
- `FlagTellsTruth`, `TidyAccepted`: `BBended` is true of the current block, and
  the verifier refuses nothing, as long as no code follows a return in its
  branch. `ImplementsSource` is the refinement of `StructuredFlow`, fairness
  included: whatever the verifier accepts executes the statements in source
  order and never stops making progress, except in a loop made of gotos alone.
- `ComputesMeaning`: every combination of operand types the rules accept is
  loaded, promoted and cast into instructions of the right types with the right
  operands, whatever the functions called in between change. `ShortCircuits`:
  calls in the operands of `and` and `or` happen when they must, nested ones
  included. Four constructs are set apart by `flaws`: `or` when only its right
  operand is true, `not` and `+` of an l-value, an r-value dereferenced, and a
  left operand that a call in the right one changes. Their code is modelled as
  it is.
- `AccessesFit`: what the definition lets a program access lies in a block that
  is there and large enough, when new is used for objects no larger than a
  pointer (see `StorageNew`). `OneAddressPerElement`: pointers to an array, to an
  array of unknown size, to a row and to an element agree on where elements are.
  `FreesOnlyBlocks`: lawful programs never free anything but a whole block, unless
  they rely on the nil dispose should leave behind (see `StorageDispose`).
- `StaysInBuffer`: readString writes within the size it is given and terminates
  what it writes, for every input and size. `LinesArrive`: a program that reads a
  number before every string gets all that is typed; the character readString
  drops is then the newline behind the number. `CallsTyped`: the three tables
  agree. `CallsReturn`: readString returns, at the end of the input too.
- `RefusedTouchesNothing`: a run that refuses its program, or prints to the
  terminal, leaves the outputs of earlier runs. `OutputsAgree`: after a run to
  the end the listing is of the program read, nothing is left under the
  listing's first name, and an executable clang made is of the same program,
  whatever was killed or failed before. `OutputsNamedAfterSource`: outputs bear
  the name of the source, not of the program's heading.

**Bounds.** `NestedCalls`: five activations are enough for the longest chain
(four functions) entered again by recursion; every pair of caller and callee
positions occurs among the shapes, deeper nesting repeats them. Main's
word is 0 or 1, with which it loads field 0 -1 and 0 times (no loop either way, as
with every lower word), or 2 or 3, with which it loads it once, as every caller of
a sibling does, or more often than there are structs; main's calls depend on the
word in no other way (the subtraction is exact in the model; in C++ the two lowest
words overflow it, which is undefined). `CodeGen`: the smallest clash
needs two scopes and two names, a request through a scope needs three; the names
overlap on purpose between variables, functions, labels and the library.
A call two levels up past a sibling, and a routine signed again under a forward
declaration, need four functions besides main; beyond two, `Bounded` (a
constraint of the run) keeps to functions without parameters and labels, whose
variables share one name and which call one function each. `MaxScopes` counts the
library. `Values`: the conversion rules look at most two constructors deep and then
compare the rest; four constructors leave room on both sides. `ControlFlow`:
with six tokens two labels can jump to each other past a return, and a goto can
leave an if in a loop or enter it; a handler only ever touches the innermost
open statement, so deeper nesting repeats these.

In the expressions of `Values`, seven nodes hold four operands under three operators, so each
operand of an operator may itself be the result of any operator, and short
circuits nest three deep; `-`, `div` and `<` stand for the operators that share
their code (`+`, `*`; `mod`; `<=`, `>`, `>=`).

`Storage`: the four pointers have the four kinds of target the rules tell apart
(array, array of unknown size, array of arrays, scalar), and two blocks let a
pointer outlive one and point into the other; sizes are negative, zero, one and
two. Widths are far smaller than the code's, so that a negative size is both too
large and, with a wide element, wrapped. `Library`: sizes reach one past the
smallest that reads two characters, so that a line may be shorter than, as long
as or longer than its buffer; five characters hold a number, its newline and two
short lines. `Driver`: any run starts from what one earlier run, ended in any
way, has left; more runs only repeat this, as a run reads no output of earlier
ones but the listing it has just printed. The third source's name contains `-i`.

**Deadlock** is checked in `NestedCalls`. The other systems stop: an analysis
ends in acceptance or error, a value is stored, a routine returns, a heap is
corrupt, and the bounds end programs, calls and runs that could go on.

**Fairness.** `NestedCalls` assumes weak fairness of `LoadDad`, `LoadSlot` and
`Enter`: between the start of an access or a call and its end the emitted
instructions are straight-line code, so the processor executes them.
`ControlFlow` assumes weak fairness of `Run` for the same reason; nothing is
assumed of the writing of programs. `Library` assumes weak fairness of `Running`:
between its call and its return readString is a loop over `getchar`, which
returns, with a character or with EOF. The other specifications state no
fairness.

## Theorems

`NestedCalls_proofs` holds, for every set of well-formed programs and every
`MaxDepth`:

- `TypeCorrect`: `Spec => []TypeOK`;
- `HiddenArgumentCorrect`: `[]DadEncloses`;
- `CallCorrect`, `AccessCorrect`, `AddressesLive`: `[]CalleeGetsParent`,
  `[]SlotDenotesVariable`, `[]NoDanglingAddress`;
- `OthersVerify`: `[]RefusedForMain`.

They assume the named assumptions of the module, and of main's level only that it
is an integer (`LevelsAssumption`). `OthersVerify` (`[]RefusedForMain`) says when a
module is refused: for a call of main alone, with a word of 2 or more in its level.
The inductive invariant is `TypeOK /\ Verified /\ RefusedForMain /\ DadEncloses /\
WalkOK /\ NoDanglingAddress`. `Verified` is what running has over compiling: where
main calls at all, its word is at most 1. It holds because the types of the
structs give a wrong word away (`MainCannotPass`), while the numbers of loads of
all other callers lead to a struct of the right type (`OthersPass`).
`DadEncloses` alone is not inductive: a call enters with the
struct a walk has reached, so the walk needs an invariant of its own (`WalkOK`:
the struct reached is that of the enclosing function as many levels up as loads
have been made, and the levels left lead to the owner or to the callee's
parent). That a slot on the chain is filled follows from `DadEncloses`, which
says so of every struct another activation was nested in; that its address is
alive needs `NoDanglingAddress`, as VAR parameters pass addresses down the
stack.

`Refinement` in the same module is `Spec => ImplementsScoping`: the structs, slots
and walks implement `StaticScoping`, step by step. Its invariant adds to the one
above that the environment `StaticScoping` computes for an activation from the
stack is the chain of hidden structs that hangs from it (`Displayed`). A call, a
return and a use of a variable each map to the abstract step; verification, the steps of a walk
and the store of a call with its own struct change nothing `StaticScoping` sees.

`ControlFlow_proofs` holds, for every set of labels and routines of any length,
`TypeCorrect` (`[]TypeOK`), `FlagIsRight` (`[]FlagTellsTruth`) and
`TidyRoutinesAccepted` (`[]TidyAccepted`). Neither of the last two is inductive.
The invariant `FlagInv` says of a routine being compiled which blocks have their
terminator: all but the Builder's (when the flag is clear), the targets kept by
the open statements, and those in which a goto waits for its label; these are
pairwise different, which is what makes the branch that `else`, `endif` or a
patched goto adds the only one of its block. It holds as long as nothing follows
a return or a goto, which is what `Tidy` demands of the source.

`StatementsInOrder` in the same module is `Spec => Flow!FlowSteps`: the blocks
implement `StructuredFlow` step by step, that is, `ImplementsSource` but for its
fairness. It holds of every routine `verifyModule` accepts, tidy or not, for any
nesting, labels and gotos. The refinement mapping is `At`: a run about to execute
an instruction is at the token control arrives at from the one the instruction
was emitted for. Its invariant is `FlowInv`, with a witness `f` that
says of every block at which token its code begins, and 0 of a block the Builder
has not come to yet. The instructions of a block then stand for consecutive
tokens from there on, and every branch leads to a block that begins where the
source goes on, or to one that an open statement keeps for it (`Leads`, `Laid`).
The blocks open statements keep are pairwise different and not begun
(`OpenApart`); a goto not patched yet was the last token of its block, so that
its branch, written at the end of the routine, comes in the right place
(`Building`). That `else`, `endif` and `endwhile` of a statement occur once, and
are there or still to come, is `SourceOK`. TLC checked `FlowInv` on the instance of
`ControlFlow.cfg`, the witness kept as a history variable, before it was proved.
One lemma for each action shows how its witness grows: `if` and `while` begin
one or two blocks, `else`, `endif` and `endwhile` the ones kept for them. A second
part is about `SourceOrder`: `Arrive` follows tokens that execute nothing for as
many steps as the routine has tokens, and to pass one of them makes no
difference (`ArriveOn`). It is the one place where a loop of gotos alone has to be
told from a long chain of them, and the pigeonhole principle does it: a walk
that has not come to rest by then has been somewhere twice, and never will.

`CodeGen_proofs` holds in its first part, for every set of names, every library,
every set of headers, types and argument lists and any bounds, about `Spec` of
`Scopes`:

- `SlotsFound`: `[]RequestsMatchProvides`;
- `GotosHaveLabels`: `[]GotoReachesLabel`;
- `AcceptedIsWellFormed`: `[]EmitsWellFormed`, with which `NestedCalls` gets from
  semantic analysis what its own theorems assume of a program, so that the two
  parts of the compiler meet in a proof and not in a convention;
- `ScopesTypeCorrect`: `[]TypeOK`.

`RequestsMatchProvides` is nowhere near inductive: that a request finds its slot
depends on whom a scope belonged to when the slot was made. `ScopesInv` is the
conjunction of what the compiler relies on at each step: the functions of the
open scopes are the chain of the innermost (`Nested`), every other chain hangs
from a chain there already is (`Chains`), a definition and its forward
declaration share a creator and at most one of them has a body (`Creators`), an
entry leads to a function of the level of the scope that holds it and, unless it
is still a forward declaration, with the chain of that scope (`Names`), calls
reach functions visible from the caller, whether defined already or later
(`CallsOK`), the variables of a scope are locals of its function (`VariablesOK`),
and the names of labels, their entries and the sets of labels targeted and bound
agree (`LabelsOK`). TLC checked it on the instance of `CodeGen.cfg` before it was
proved. The proof has one lemma for each action, over lemmas that say what the
effect of an action on one table entry or one definition leaves alone.

Its second part holds, for every set of names, every library, every set of
headers, types and argument lists and any bounds, about `GenSpec` of `CodeGen`:

- `SecondWalkSucceeds`: `[]NoInternalError`, that code generation may leave every
  lookup untested;
- `WalksAgree`: `[]SameDenotation`;
- `CallsEnterRight`, `BuilderReturns`, `BranchesWritten`: `[]CallsReachParent`,
  `[]BuilderInOwnRoutine`, `[]GotosPatched`;
- `GenTypeCorrect`: `[]GenTypeOK`;
- `FirstWalkInside`: `GenSpec => Spec`, so that the theorems of the
  first part hold of the two walks together.

They assume what the parser sees to: parameters are identifiers and `result` is a
keyword, so no name (`HeadersAssumption`, `NamesAssumption`); and that the bound
on scopes leaves room for the first two (`BoundsAssumption`). None of these
properties is inductive: what the second table holds under a name depends on what
the first held when the name was entered. `GenInv` is, together with `ScopesInv`.
Its main part is `Mirror`: scope by scope, the second table has exactly the names
of the first, and under each what `MirrorOf` says the first's entry should lead
to: the alloca or argument of the scope's own routine, the routine of the
function's creator with the level of the scope, the label with the gotos that
have named it; and each scope remembers the routine of the one around it.
`Uses` says that what a function requests it does not declare, and what it
provides it does, and names no label where a variable is expected; it
is what lets `Id::compile` look a name up without a test, and a call pass on
every variable the caller provides. `Levels` ties `nesting_level`, counted in the
second walk, to the length of the static chain, and `Entered` says of every call
made that its loads are the difference. `GotosPatched` needs of `Mirror` that
a label's gotos and its statement are all of the routine that ends. A
declaration of a function is the hard step: its parameters' names come out of
`FlattenSeq`, a recursive definition, so that the prologue and the scope of the
first walk agree is shown by a least counterexample instead of the library's
induction theorems.

`Values_proofs` holds, for every set of types of variables, of functions and of
constants, every set of operators and any depth of nesting, about `Spec` of
`Expressions`:

- `ComputesWhatIsMeant`: `[]ComputesMeaning`;
- `CallsShortCircuit`: `[]ShortCircuits`;
- `ExpressionsTyped`: `[]TypeOK`.

They assume that the types are ones the grammar can spell (`IsType`), that no
function returns an array and that constants are of basic types
(`TypesAssumption`). The two properties speak of expressions without the four
constructs the code is known to get wrong (`Flaws`), and neither is inductive.
`ExpressionsInv` follows every expression on the stack by its own flaws: if it has
none, its code has computed what it means, an address for an l-value and
otherwise a value of the LLVM type of its type (`NodeOK`); only an l-value is an
array, a boolean is known, and an r-value means what it holds. An l-value just
compiled holds what the variable holds now (`FreshNode`), which is what a load
finds unless a call comes between, and that is a flaw. Every `and` or `or` that
waits for its right operand branches as the source demands (`PendingOK`), so the
calls made are those due. The proof for a binary operator has one case for each
way the rules let two types meet: equal, one promoted to the other, and nil with
a pointer.

About `Conversion`, the specification of `Conversions`, for every set of data types
the grammar can spell (`DataTypesAssumption`):

- `ConversionsTyped`: `[]StoresTyped`;
- `PointersKept`: `[]PointersKeepElements`.

Their invariant says what the value computed so far is at every step. That a
pointer keeps its elements follows from the rules alone: whatever lies around
them, two types `is_compatible_with` accepts as pointers are equal, or the one is
`^array [n] of T` and the other `^array of T`, and `TypeConvert` makes of these a
pointer to an array of what the other points to.

`Types_proofs` holds the lemmas on types these proofs and those of `Storage` share:
that `TypeConvert`, a recursive function over the constructors, unfolds
constructor by constructor (`ConvertUnfolds`, by a least counterexample), that it
makes a type of every type, and that types the rules call equal are the same.

`Driver_proofs` holds, for every set of sources and programs, every name of the
compiler's binary, every set of writable directories and any number of runs:
`OutputsOfOneProgram`, `RefusalsAreHarmless`, `OutputNames` and `TypeCorrect`
(`[]OutputsAgree`, `[]RefusedTouchesNothing`, `[]OutputsNamedAfterSource`,
`[]TypeOK`). They assume `SourcesAssumption`: a file's name is not blank. Each has
an inductive invariant that follows one run. `ListingOfRun` is the one that
matters: `OutputsAgree` speaks of the end of a run only, so it needs what clang
and mv find on their way, that the listing under its first name is of this run's
program, and that an executable made so far is. `NamedAfterSource` needs that
`program_name` is the file's name from the first phase on, as
`set_name_if_blank` only fills a blank one.

`Storage_proofs` holds, for every set of pointer variables and types, any
number of blocks, any memory, widths and counts:

- `ElementsFit`: `[]AccessesFit`;
- `ElementsHaveOneAddress`: `[]OneAddressPerElement`;
- `OnlyBlocksFreed`: `[]FreesOnlyBlocks`;
- `StorageTypeCorrect`: `[]TypeOK`.

They assume what semantic analysis lets a variable be declared as
(`PointersAssumption`), that counts are integers of the program and an integer is
no wider than a size (`WidthsAssumption`, which also states the facts about powers
of two that the provers do not know), and `BoundsAssumption`. `ElementsFit` has a
hypothesis besides, `CountsFit`: no array is asked for whose size in bytes does
not fit in a size. `InitArray::compile` multiplies without a test, so without it
the property is false. None of the properties is inductive, as none says where
a pointer points. The invariant `StoInv` does: there is a *unit* for each object,
the size of the scalars it was made of, and a pointer that denotes scalar `k` of an
object holds the address `k` times the unit into its block; the pointer's own type
has the same unit; the block has room for the object's scalars, and after lawful
disposals it is there as long as the object is. That casts keep the unit
(`CompatibleUnits`) rests on the rule for pointers to arrays, and that
`SizeOf(TypeConvert(t))` is the number of scalars of `t` times their size
(`Measured`) on a least counterexample over the constructors of `t`, as are the
unfoldings of `Measure` and `TypeConvert`.

`Library_proofs` holds, for input of any length, every set of sizes and any number
of calls: `ReadsStayInBuffer` (`[]StaysInBuffer`), `NothingIsLost`
(`[]LinesArrive`), `TablesAgree` (`[]CallsTyped`) and `LibraryTypeCorrect`
(`[]TypeOK`). They assume of the
constants their types only (`InputAssumption`, `SizesAssumption`). The
invariant `LibInv` follows readString's loop: `buf` has one byte more than its size
and a terminator in it whatever has been stored (`Terminated`), and what the
loop has taken stands in `buf`, one place to the left of where it was typed, as
readString stores each character after reading the next (`Kept`); the character
before it is the newline behind a number, when a program reads one first.
`TablesAgree` goes through the three descriptions routine by routine: what
`create_call` makes of the modes and types of the LLVM entry is what the header's
parameters convert to and the C function takes, a string's `array of char` as
the address of a character.

Only model-checked: the fairness part of the refinement `ImplementsSource`, and the
liveness `WalkEnds` and `CallsReturn`, which are out of the prover's reach. Every
invariant a run checks is a theorem.

## Findings

Each is a run that checks one property a comment, the definition or the readme
states and finds a counterexample.

| Run | What the code does |
|---|---|
| `CodeGenForward` | a function declared forward and never defined reaches code generation with no `static_parent` |
| `NestedCallsMain` | main's `nesting_level` is read but never set (`compile.cpp:517`): with a word of 2 or more in it, a program that calls a function is refused |
| `ExpressionsOr` | `or` combines its operands with an and: `false or true` is false |
| `StorageNew` | `new p` allocates the size of the pointer, not of what it points to |
| `StorageDispose` | dispose leaves the address in the variable (`compile.cpp:1021`), where page 12 of the definition has the null pointer: a second dispose frees the block again |

Met while modelling and left to the models and the hazards:

- a definition is accepted with more or fewer parameters than its forward
  declaration (`semantic.cpp:478`);
- a library function used as a variable is not reported, and its entry is read
  as a variable's (`symbol.cpp:150`);
- the result type of a function is only tested not to be an array
  (`semantic.cpp:463`), so that `result` may point to an array of arrays without
  a size, which no variable may (`semantic.cpp:381`);
- nil as an argument keeps the type `i32**` (`compile.cpp:545`);
- a return in a procedure nested in a function returns the function's result
  (`compile.cpp:972`);
- `not b` and `+x` work on the address of the variable (`compile.cpp:446`,
  `436`), `f()^` and `(@x)^` load once too often (`compile.cpp:636`), and the left
  operand of `x + f()` is loaded after the call (`compile.cpp:282`), against pages
  9 and 10 of the definition;
- inner functions and labels do not hide outer variables of their name
  (`symbol.cpp:143`), and labels are looked up in all scopes when declared
  (`semantic.cpp:408`), against page 7;
- readString drops the first character of every call and stores the newline
  (`libs.c:69`), where page 12 keeps the first and drops the second;
- without a directory in the source's path the outputs are written to `/`
  (`compile.cpp:240`); with `-i`, the banner, and with `--ast` the tree, precede
  the LLVM code on the standard output (`parser.y:307`, readme.md:25); `-O`
  optimises `main` only (`compile.cpp:226`).

`EmitsWellFormed` is stated for programs in which every forward declaration is
defined, because of `CodeGenForward`.

## Not modelled

- Lexer, grammar, tree printing, printing of the IR: text processing and I/O with
  no state that matters later.
- LLVM, clang, the linker, the collector: modelled only as far as the code relies
  on them (loads, stores, branches, `verifyModule`, blocks, success or failure).
- The optimisation passes: LLVM's own.
- What the output and mathematical routines of `libs.c` compute: the C
  library's. The characters of string literals.
- Two compilers at work in one directory: the code makes no provision for it.

## Plan

Done: 1. `NestedCalls` with `StaticScoping` and its proofs; 2. `Scopes`;
3. `Types`, `Conversions` and its proof; 4. `ControlFlow` with `StructuredFlow`;
5. `Expressions`; 6. `CodeGen`; 7. `Library`; 8. `Storage`; 9. `Driver`
and its proofs; 10. the proofs of `Scopes`, `CodeGen` and `ControlFlow`, the
refinement of `StaticScoping`, and the proofs of `Storage` and `Library`;
11. the proofs of `Expressions` and of `PointersKeepElements`; 12. the refinement
of `StructuredFlow`, step by step.

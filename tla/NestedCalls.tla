---------------------------- MODULE NestedCalls ----------------------------
(***************************************************************************)
(* The code the compiler emits for nested functions, executed.  Every      *)
(* function carries a hidden struct: field 0 points to the struct of the   *)
(* function it is nested in, field idx holds the address of the variable   *)
(* the function provides in slot idx.  A caller that is nested deeper than *)
(* (or as deep as) the callee walks up its chain of structs; a caller that *)
(* encloses the callee fills its own struct and passes it.                 *)
(*                                                                         *)
(* NestedPrograms describes the program record.                            *)
(***************************************************************************)
EXTENDS NestedPrograms

CONSTANTS
  Programs,    \* the compiled programs considered
  Undef,       \* the contents of memory nothing was stored into
  MainLevels,  \* what the word main_obj->nesting_level may hold: the code
               \* never sets it, so any integer
  MaxDepth     \* bound on the number of simultaneous activations

ASSUME ProgramsAssumption == \A c \in Programs : WellFormed(c)
ASSUME DepthAssumption == MaxDepth \in Nat /\ MaxDepth >= 1
ASSUME LevelsAssumption == MainLevels \subseteq Int

VARIABLES
  code,        \* the program being run
  mainLevel,   \* the word found in main_obj->nesting_level
  stack,       \* activations: [fun, dad, slots, addr]
  reg,         \* the address computed last by the running activation
  pc,          \* "compiled", then "refused" by verifyModule or "body", and
               \* "access" / "call": walking the hidden structs
  want,        \* the variable or the function the walk is for
  pos,         \* the activation whose struct the walk has reached (0: none)
  left         \* loads of field 0 still to execute

vars == <<code, mainLevel, stack, reg, pc, want, pos, left>>

NoFrame == 0

Top == Len(stack)
Cur == stack[Top].fun

Level(f) == IF f = Main THEN mainLevel ELSE code.level[f]

Slots(f) == 1 .. Len(code.provides[f])

(* A mutation of Frame: VAR parameters get an alloca of their own. *)
FrameByValueOnly(f, depth, dad, arg) ==
  [fun |-> f, dad |-> dad,
   slots |-> [i \in Slots(f) |-> Undef],
   addr |-> [x \in code.locals[f] |-> <<depth, x>>]]

(* FunctionDef::compile, the prologue: a fresh struct whose field 0 is the *)
(* hidden argument; an alloca for every parameter by value and local, the  *)
(* incoming pointer for every VAR parameter.                               *)
Frame(f, depth, dad, arg) ==
  [fun |-> f, dad |-> dad,
   slots |-> [i \in Slots(f) |-> Undef],
   addr |-> [x \in code.locals[f] |->
               IF x \in code.refs[f] THEN arg ELSE <<depth, x>>]]

(* compile_initalize allocates main's struct and stores nothing into it.   *)
Init ==
  /\ code \in Programs
  /\ mainLevel \in MainLevels
  /\ stack = << Frame(Main, 1, NoFrame, Undef) >>
  /\ reg = Undef
  /\ pc = "compiled" /\ want = Main /\ pos = NoFrame /\ left = 0

(* A mutation of NumberLoad: siblings are taken for children. *)
NumberLoadShort(f, g) == Level(f) - Level(g)

(* The loads of field 0 in the code of a call of g in f. *)
NumberLoad(f, g) == Level(f) - Level(g) + 1

(* Every function has a struct type of its own.  Field 0 of a struct       *)
(* points to a struct of the parent's type; that of main's to an empty     *)
(* one, beyond which there is nothing to load.  So the type of what a call *)
(* passes is that of an enclosing function's struct, or of no function's.  *)
PassesStructOf(f, g, parent) ==
  LET loads == IF NumberLoad(f, g) > 0 THEN NumberLoad(f, g) ELSE 0
  IN  /\ loads < Len(code.path[f])
      /\ code.path[f][Len(code.path[f]) - loads] = parent

(* The hidden parameter of g points to a struct of its parent's type.      *)
StructsTyped ==
  \A f \in Funs(code) : \A g \in code.calls[f] :
    PassesStructOf(f, g, code.path[g][Len(code.path[g]) - 1])

(* A mutation of VerifyModule: whatever was compiled runs. *)
RunUnverified ==
  /\ pc = "compiled"
  /\ pc' = "body"
  /\ UNCHANGED <<code, mainLevel, stack, reg, want, pos, left>>

(* compile_finalize: only a module whose calls have the types of their     *)
(* functions becomes a program that runs.                                  *)
VerifyModule ==
  /\ pc = "compiled"
  /\ pc' = IF StructsTyped THEN "body" ELSE "refused"
  /\ UNCHANGED <<code, mainLevel, stack, reg, want, pos, left>>

Refused == pc = "refused" /\ UNCHANGED vars

(* Id::compile, the name is not requested: its own alloca or argument. *)
UseLocal(x) ==
  /\ pc = "body"
  /\ x \in code.locals[Cur]
  /\ reg' = stack[Top].addr[x]
  /\ UNCHANGED <<code, mainLevel, stack, pc, want, pos, left>>

(* A mutation of UseOuter: the walk stops one struct early. *)
UseOuterShort(x) ==
  /\ pc = "body"
  /\ x \in DOMAIN code.requests[Cur]
  /\ pc' = "access" /\ want' = x
  /\ pos' = Top /\ left' = code.requests[Cur][x].diff - 1
  /\ UNCHANGED <<code, mainLevel, stack, reg>>

(* Id::compile, the name is requested: start at the function's own struct. *)
UseOuter(x) ==
  /\ pc = "body"
  /\ x \in DOMAIN code.requests[Cur]
  /\ pc' = "access" /\ want' = x
  /\ pos' = Top /\ left' = code.requests[Cur][x].diff
  /\ UNCHANGED <<code, mainLevel, stack, reg>>

(* Mutations of LoadDad: the loop condition is lost; the loop neither      *)
(* follows the pointer nor counts.                                         *)
LoadDadUnbounded ==
  /\ pc \in {"access", "call"}
  /\ pos # NoFrame
  /\ pos' = stack[pos].dad /\ left' = left - 1
  /\ UNCHANGED <<code, mainLevel, stack, reg, pc, want>>

LoadDadInPlace ==
  /\ pc \in {"access", "call"}
  /\ left > 0 /\ pos # NoFrame
  /\ UNCHANGED vars

(* One iteration of the loops at compile.cpp:464 and compile.cpp:522: load *)
(* field 0 of the struct reached.                                          *)
LoadDad ==
  /\ pc \in {"access", "call"}
  /\ left > 0 /\ pos # NoFrame
  /\ pos' = stack[pos].dad /\ left' = left - 1
  /\ UNCHANGED <<code, mainLevel, stack, reg, pc, want>>

(* The last load of Id::compile: the address kept in the slot. *)
LoadSlot ==
  /\ pc = "access" /\ left = 0 /\ pos # NoFrame
  /\ reg' = stack[pos].slots[code.requests[Cur][want].idx]
  /\ pc' = "body"
  /\ UNCHANGED <<code, mainLevel, stack, want, pos, left>>

CallReady(g) ==
  /\ pc = "body"
  /\ g \in code.calls[Cur]
  /\ code.refs[g] # {} => reg # Undef
  /\ Top < MaxDepth

(* create_call, number_load > 0: the callee is nested in an outer function. *)
CallThroughChain(g) ==
  /\ CallReady(g)
  /\ NumberLoad(Cur, g) > 0
  /\ pc' = "call" /\ want' = g
  /\ pos' = Top /\ left' = NumberLoad(Cur, g)
  /\ UNCHANGED <<code, mainLevel, stack, reg>>

(* A mutation of CallWithOwnStruct: the stores go through the hidden       *)
(* argument, into the struct of the caller's parent.                       *)
CallStoringInDad(g) ==
  /\ CallReady(g)
  /\ NumberLoad(Cur, g) <= 0
  /\ LET d == stack[Top].dad IN
       stack' = IF d = NoFrame THEN stack
                ELSE [stack EXCEPT ![d].slots =
                        [i \in DOMAIN @ |-> IF i \in Slots(Cur)
                                            THEN stack[Top].addr[code.provides[Cur][i]]
                                            ELSE @[i]]]
  /\ pc' = "call" /\ want' = g
  /\ pos' = Top /\ left' = 0
  /\ UNCHANGED <<code, mainLevel, reg>>

(* create_call, otherwise: store the address of everything the caller      *)
(* provides into the caller's own struct, and pass that struct.            *)
CallWithOwnStruct(g) ==
  /\ CallReady(g)
  /\ NumberLoad(Cur, g) <= 0
  /\ stack' = [stack EXCEPT ![Top].slots =
                 [i \in Slots(Cur) |-> stack[Top].addr[code.provides[Cur][i]]]]
  /\ pc' = "call" /\ want' = g
  /\ pos' = Top /\ left' = 0
  /\ UNCHANGED <<code, mainLevel, reg>>

(* A mutation of Enter: every caller passes its own struct. *)
EnterWithOwnStruct ==
  /\ pc = "call" /\ left = 0
  /\ stack' = Append(stack, Frame(want, Top + 1, Top, reg))
  /\ reg' = Undef /\ pc' = "body"
  /\ UNCHANGED <<code, mainLevel, want, pos, left>>

(* CreateCall: the callee starts with the struct reached as its first      *)
(* argument.  The other argument was compiled between the walk and the     *)
(* call, but neither touches what the other reads.                         *)
Enter ==
  /\ pc = "call" /\ left = 0
  /\ stack' = Append(stack, Frame(want, Top + 1, pos, reg))
  /\ reg' = Undef /\ pc' = "body"
  /\ UNCHANGED <<code, mainLevel, want, pos, left>>

(* The ret at the end of FunctionDef::compile, or of ReturnStmt::compile. *)
Return ==
  /\ pc = "body" /\ Top > 1
  /\ stack' = SubSeq(stack, 1, Top - 1)
  /\ reg' = Undef
  /\ UNCHANGED <<code, mainLevel, pc, want, pos, left>>

Next ==
  \/ VerifyModule
  \/ Refused
  \/ \E x \in code.locals[Cur] : UseLocal(x)
  \/ \E x \in DOMAIN code.requests[Cur] : UseOuter(x)
  \/ LoadDad
  \/ LoadSlot
  \/ \E g \in code.calls[Cur] : CallThroughChain(g) \/ CallWithOwnStruct(g)
  \/ Enter
  \/ Return

Spec == Init /\ [][Next]_vars

(* Emitted instructions execute one after the other: a walk is straight-   *)
(* line code, so its next load always runs.                                *)
FairSpec == Spec /\ WF_vars(LoadDad) /\ WF_vars(LoadSlot) /\ WF_vars(Enter)

-----------------------------------------------------------------------------
(* Properties                                                              *)

Addr == { <<i, x>> : i \in 1 .. MaxDepth, x \in UNION {code.locals[f] : f \in Funs(code)} }

Activation(f) ==
  [fun : {f}, dad : 0 .. MaxDepth,
   slots : [Slots(f) -> Addr \cup {Undef}],
   addr : [code.locals[f] -> Addr \cup {Undef}]]

Activations == { stack[i] : i \in 1 .. Top }

(* Every variable of the machine has its type; the struct and the          *)
(* variables of an activation are those its function declares.             *)
TypeOK ==
  /\ code \in Programs
  /\ mainLevel \in MainLevels
  /\ stack \in Seq(Activations)
  /\ Top \in 1 .. MaxDepth
  /\ stack[1].fun = Main
  /\ \A a \in Activations : a.fun \in Funs(code) /\ a \in Activation(a.fun)
  /\ reg \in Addr \cup {Undef}
  /\ pc \in {"compiled", "refused", "body", "access", "call"}
  /\ pos \in 0 .. MaxDepth
  /\ left \in Nat

(* Activation j is the one the k-th enclosing function of activation i     *)
(* denotes: it runs that function, and since it started no activation of   *)
(* that function or of a function enclosing it has started.                *)
Encloses(i, k, j) ==
  /\ j \in 1 .. i
  /\ stack[j].fun = code.path[stack[i].fun][k]
  /\ \A m \in j + 1 .. i : \A l \in 1 .. k :
       stack[m].fun # code.path[stack[i].fun][l]

(* The struct of activation j holds the address of everything it provides. *)
Filled(j) ==
  \A i \in Slots(stack[j].fun) :
    stack[j].slots[i] = stack[j].addr[code.provides[stack[j].fun][i]]

(* Every function runs with the struct of its innermost enclosing          *)
(* activation in field 0, and that struct is already filled.  Several      *)
(* calls, direct, mutual and recursive, decide which struct that is.       *)
DadEncloses ==
  \A i \in 2 .. Top :
    /\ stack[i].dad # NoFrame
    /\ Encloses(i, Len(code.path[stack[i].fun]) - 1, stack[i].dad)
    /\ Filled(stack[i].dad)

(* When a call is about to be made the struct passed is the one of the     *)
(* callee's own parent, whatever the depths of the caller and the callee.  *)
CalleeGetsParent ==
  (pc = "call" /\ left = 0) =>
    /\ pos # NoFrame
    /\ Encloses(Top, Len(code.path[want]) - 1, pos)
    /\ Filled(pos)

(* When the slot of a requested variable is about to be read it holds the  *)
(* address of that variable in the activation static scoping denotes.      *)
SlotDenotesVariable ==
  (pc = "access" /\ left = 0) =>
    /\ pos # NoFrame
    /\ Encloses(Top, Len(code.path[Cur]) - code.requests[Cur][want].diff, pos)
    /\ stack[pos].slots[code.requests[Cur][want].idx] = stack[pos].addr[want]

(* No address outlives its variable: what an activation can name through   *)
(* its parameters, its slots or the register belongs to an activation that *)
(* is still on the stack and was entered no later than it.                 *)
Live(a, i) == a[1] \in 1 .. i /\ a[2] \in code.locals[stack[a[1]].fun]

NoDanglingAddress ==
  /\ \A i \in 1 .. Top :
       /\ \A x \in code.locals[stack[i].fun] : Live(stack[i].addr[x], i)
       /\ \A s \in Slots(stack[i].fun) :
            stack[i].slots[s] # Undef => Live(stack[i].slots[s], i)
  /\ reg # Undef => Live(reg, Top)

(* Nothing the compiler counts itself makes verifyModule refuse a call:    *)
(* levels and paths agree for every caller but main, whose level is the    *)
(* stray word.                                                             *)
RefusedForMain == pc = "refused" => mainLevel > 1 /\ code.calls[Main] # {}

(* "each function carries a hidden argument which is a struct with any     *)
(* extra variables needed from an outside scope" (readme.md:13), also in   *)
(* the calls main makes: what semantic analysis accepts compiles.          *)
HiddenArgumentPassed == pc # "refused"

(* What the walk is for: the depth of the activation it must reach. *)
Goal ==
  IF pc = "access" THEN Len(code.path[Cur]) - code.requests[Cur][want].diff
                   ELSE Len(code.path[want]) - 1

Walking == pc \in {"access", "call"}

(* A walk under way is for a name the running function may use, and has    *)
(* reached the enclosing activation that is left levels below its goal.    *)
WalkOK ==
  Walking =>
    /\ IF pc = "access" THEN want \in DOMAIN code.requests[Cur]
       ELSE /\ want \in code.calls[Cur] /\ Top < MaxDepth
            /\ code.refs[want] # {} => reg # Undef
    /\ pos # NoFrame
    /\ Goal + left <= Len(code.path[Cur])
    /\ Encloses(Top, Goal + left, pos)
    /\ left = 0 => Filled(pos)

(* What runs has been verified, and nothing runs before. *)
Verified ==
  IF pc \in {"compiled", "refused"} THEN Top = 1 ELSE code.calls[Main] # {} => mainLevel <= 1

(* The inductive strengthening of the safety properties. *)
IInv == TypeOK /\ Verified /\ RefusedForMain /\ DadEncloses /\ WalkOK /\ NoDanglingAddress

(* A walk never runs off the chain: it ends in the body or in the callee.  *)
WalkEnds == Walking ~> pc = "body"

(* The display static scoping gives activation i. *)
Display(i) ==
  [k \in 1 .. Len(code.path[stack[i].fun]) |->
     CHOOSE j \in 1 .. i : Encloses(i, k, j)]

(* The emitted code implements static scoping: structs for displays, loads *)
(* and stores for copying them.                                            *)
Scoping == INSTANCE StaticScoping WITH
  frames <- [i \in 1 .. Top |->
               [fun |-> stack[i].fun, display |-> Display(i), bind |-> stack[i].addr]]

ImplementsScoping == Scoping!AbsSpec
=============================================================================

------------------------------- MODULE Scopes -------------------------------
(***************************************************************************)
(* Semantic analysis of declarations and names: the walk that opens and    *)
(* closes scopes, enters variables, labels and functions, resolves names   *)
(* and notes, in every FunctionDef, which variables of the enclosing       *)
(* functions it requests and which of its own it provides.                 *)
(*                                                                         *)
(* One action is one declaration, one use of a name or one statement; the  *)
(* program being analysed is whatever the actions spell out.  Scope 1      *)
(* holds the library, scope 2 the main program.  A scope also remembers    *)
(* whether its block has reached begin, after which the grammar allows no  *)
(* declaration.                                                            *)
(***************************************************************************)
EXTENDS Types, SequencesExt

CONSTANTS
  VariableNames, \* the identifiers declared or used as variables,
  FunctionNames, \* as functions
  LabelNames,    \* and as labels; they may overlap
  Library,       \* the headers of the predefined functions, by name
  VariableTypes, \* the types a variable is declared with
  Headers,       \* the headers functions are declared with
  Arguments,     \* the arguments of calls: [lvalue |-> TRUE, name |-> x] or
                 \* [lvalue |-> FALSE, type |-> t]
  MaxFunctions,  \* bound on the number of FunctionDefs, main included
  MaxScopes      \* bound on the number of open scopes

VARIABLES
  scopeStack,  \* st.scopeStack, outermost first
  defs,        \* the FunctionDefs analysed so far; 1 is Program::main_obj
  todo,        \* the arguments of the call under way still to check, each
               \* with its parameter
  status       \* "run", "done", "error" (reported, exit(1)) or "undefined"

vars == <<scopeStack, defs, todo, status>>

(* A header is a result type and a sequence of parameter groups, each with *)
(* its names, a type and a pass mode.                                      *)
ParameterNames(h) == FlattenSeq([i \in DOMAIN h.groups |-> h.groups[i].names])

Parameters(h) ==
  FlattenSeq([i \in DOMAIN h.groups |->
    [j \in DOMAIN h.groups[i].names |->
      [name |-> h.groups[i].names[j], type |-> h.groups[i].type,
       byValue |-> h.groups[i].byValue]]])

ParametersNamed(h, byValue) ==
  UNION { ToSet(h.groups[i].names) : i \in { j \in DOMAIN h.groups :
                                               h.groups[j].byValue \in byValue } }

VariableEntry(t) == [entryType |-> "variable", type |-> t]
LabelEntry == [entryType |-> "label", isBound |-> FALSE, isTargeted |-> FALSE]
FunctionEntry(d, p, h) ==
  [entryType |-> "function", function |-> d, pardef |-> p, header |-> h]

NoFunction == 0

(* A mutation of NewDef: the level counts the scope of the function too. *)
NewDefInside(h, isForward, creator, chain) ==
  [header |-> h, isForward |-> isForward, creator |-> creator, chain |-> chain,
   level |-> Len(scopeStack) + 1,
   locals |-> ParametersNamed(h, BOOLEAN)
                \cup (IF Equals(h.type, typeVoid) THEN {} ELSE {"result"}),
   refs |-> ParametersNamed(h, {FALSE}),
   provides |-> << >>, requests |-> << >>, calls |-> {}, gotos |-> {}, bound |-> {}]

(* What a FunctionDef knows.  chain is static_parent followed to the end:  *)
(* the enclosing functions, outermost first, then the function itself; it  *)
(* is empty while static_parent is unset.  creator is the FunctionDef the  *)
(* LLVM function is created from, the first with its name in its scope.    *)
(* level is the number of scopes open around it, which code generation     *)
(* counts again.  calls, gotos and bound are statements of its body.       *)
NewDef(h, isForward, creator, chain) ==
  [header |-> h, isForward |-> isForward, creator |-> creator, chain |-> chain,
   level |-> Len(scopeStack),
   locals |-> ParametersNamed(h, BOOLEAN)
                \cup (IF Equals(h.type, typeVoid) THEN {} ELSE {"result"}),
   refs |-> ParametersNamed(h, {FALSE}),
   provides |-> << >>, requests |-> << >>, calls |-> {}, gotos |-> {}, bound |-> {}]

(* openScope, with the result and the parameters FunctionDef::semantic     *)
(* enters at once.                                                         *)
FunctionScope(d, h) ==
  [function |-> d,
   levelEntries |->
     [x \in ParametersNamed(h, BOOLEAN)
              \cup (IF Equals(h.type, typeVoid) THEN {} ELSE {"result"}) |->
        IF x = "result" THEN VariableEntry(h.type)
        ELSE VariableEntry((CHOOSE p \in ToSet(Parameters(h)) : p.name = x).type)],
   labelNames |-> << >>, body |-> FALSE]

MainHeader == [groups |-> << >>, type |-> typeVoid]

(* semantic_initialize: the scope of the library, then the scope of main.  *)
LibraryScope ==
  [function |-> NoFunction,
   levelEntries |-> [n \in DOMAIN Library |->
                       FunctionEntry(NoFunction, "complete", Library[n])],
   labelNames |-> << >>, body |-> FALSE]

Init ==
  /\ scopeStack = << LibraryScope, FunctionScope(1, MainHeader) >>
  /\ defs = << [header |-> MainHeader, isForward |-> FALSE, creator |-> 1,
                chain |-> << 1 >>, level |-> 1, locals |-> {}, refs |-> {},
                provides |-> << >>, requests |-> << >>, calls |-> {},
                gotos |-> {}, bound |-> {}] >>
  /\ todo = << >>
  /\ status = "run"

Top == Len(scopeStack)
Entries(i) == scopeStack[i].levelEntries
Current == scopeStack[Top].function

Declaring == status = "run" /\ todo = << >> /\ ~scopeStack[Top].body
InBody == status = "run" /\ todo = << >> /\ scopeStack[Top].body

(* error(): the message and exit(1).                                       *)
Report == status' = "error" /\ UNCHANGED <<scopeStack, defs, todo>>

(* map::insert: an entry that is already there stays.                      *)
Insert(entries, x, e) ==
  [n \in DOMAIN entries \cup {x} |-> IF n \in DOMAIN entries THEN entries[n] ELSE e]

AddEntry(x, e) == [scopeStack EXCEPT ![Top].levelEntries = Insert(@, x, e)]

SetEntry(x, e) ==
  [scopeStack EXCEPT ![Top].levelEntries =
     [n \in DOMAIN @ \cup {x} |-> IF n = x THEN e ELSE @[n]]]

-----------------------------------------------------------------------------
(* Declarations                                                            *)

DeclareVariable(x, t) ==
  /\ Declaring
  /\ IF x \in DOMAIN Entries(Top) \/ ~VariableTypeOK(t) THEN Report
     ELSE /\ scopeStack' = AddEntry(x, VariableEntry(t))
          /\ defs' = [defs EXCEPT ![Current].locals = @ \cup {x}]
          /\ UNCHANGED <<todo, status>>

(* A label must be new in every open scope, not only in its own.           *)
DeclareLabel(l) ==
  /\ Declaring
  /\ IF \E i \in 1 .. Top : l \in DOMAIN Entries(i) THEN Report
     ELSE /\ scopeStack' = [AddEntry(l, LabelEntry) EXCEPT ![Top].labelNames = Append(@, l)]
          /\ UNCHANGED <<defs, todo, status>>

HeaderOK(h) ==
  /\ \A i \in DOMAIN h.groups : ParameterTypeOK(h.groups[i].type, h.groups[i].byValue)
  /\ ~IsArray(h.type)

(* The comparison of a definition h with its forward declaration g stops   *)
(* at the end of the shorter list, of groups and of names.                 *)
MatchesForward(h, g) ==
  /\ \A i \in DOMAIN h.groups \cap DOMAIN g.groups :
       LET hi == h.groups[i]  gi == g.groups[i]
       IN  /\ hi.byValue = gi.byValue
           /\ Equals(hi.type, gi.type)
           /\ \A j \in DOMAIN hi.names \cap DOMAIN gi.names : hi.names[j] = gi.names[j]
  /\ Equals(g.type, h.type)

Pending(n) ==
  /\ n \in DOMAIN Entries(Top)
  /\ Entries(Top)[n].entryType = "function"
  /\ Entries(Top)[n].pardef = "pending"

FunctionAccepted(n, h) ==
  \/ n \notin DOMAIN Entries(Top) /\ HeaderOK(h)
  \/ Pending(n) /\ MatchesForward(h, Entries(Top)[n].header)

DeclareForward(n, h) ==
  /\ Declaring
  /\ Len(defs) < MaxFunctions
  /\ IF ~FunctionAccepted(n, h) THEN Report
     ELSE LET d == Len(defs) + 1
              creator == IF Pending(n) THEN Entries(Top)[n].function ELSE d
          IN  /\ scopeStack' = AddEntry(n, FunctionEntry(d, "pending", h))
              /\ defs' = Append(defs, NewDef(h, TRUE, creator, << >>))
              /\ UNCHANGED <<todo, status>>

(* A definition: the entry becomes complete, the scope of the function is  *)
(* opened, and openScope sets static_parent, that of the forward           *)
(* declaration included.                                                   *)
DefineFunction(n, h) ==
  /\ Declaring
  /\ Len(defs) < MaxFunctions /\ Top < MaxScopes
  /\ IF ~FunctionAccepted(n, h) \/ ~IsInjective(ParameterNames(h)) THEN Report
     ELSE LET d == Len(defs) + 1
              parents == defs[Current].chain
              forward == IF Pending(n) THEN Entries(Top)[n].function ELSE NoFunction
              creator == IF Pending(n) THEN forward ELSE d
              entry == IF Pending(n) THEN [Entries(Top)[n] EXCEPT !.pardef = "complete"]
                       ELSE FunctionEntry(d, "complete", h)
          IN  /\ scopeStack' = Append(SetEntry(n, entry), FunctionScope(d, h))
              /\ defs' = Append(IF forward = NoFunction THEN defs
                                ELSE [defs EXCEPT ![forward].chain = Append(parents, forward)],
                                NewDef(h, FALSE, creator, Append(parents, d)))
              /\ UNCHANGED <<todo, status>>

(* begin: the declarations of the block are over.                          *)
BeginBody ==
  /\ Declaring
  /\ scopeStack' = [scopeStack EXCEPT ![Top].body = TRUE]
  /\ UNCHANGED <<defs, todo, status>>

-----------------------------------------------------------------------------
(* Uses of names                                                           *)

(* The scopes in which x is a variable; functions and labels named x are   *)
(* stepped over, wherever they are.                                        *)
VariableScopes(x) ==
  { i \in 1 .. Top : x \in DOMAIN Entries(i) /\ Entries(i)[x].entryType = "variable" }

FoundIn(x) == Max(VariableScopes(x))

(* add_provide: the slot x already has, or the next one.                   *)
Provided(owner, x) ==
  IF x \in ToSet(defs[owner].provides) THEN defs[owner].provides
  ELSE Append(defs[owner].provides, x)

(* A mutation of Linked: the scopes are counted from the outside.          *)
LinkedFromOwner(x) ==
  IF FoundIn(x) = Top THEN defs
  ELSE LET owner == scopeStack[FoundIn(x)].function
           provides == Provided(owner, x)
           request == [diff |-> FoundIn(x) - 1,
                       idx |-> CHOOSE i \in DOMAIN provides : provides[i] = x]
       IN  [defs EXCEPT ![owner].provides = provides,
                        ![Current].requests = Insert(@, x, request)]

(* lookupVariable, x found: a variable of an enclosing function is         *)
(* provided by that function and requested by the current one, which keeps *)
(* the first request made under a name.                                    *)
Linked(x) ==
  IF FoundIn(x) = Top THEN defs
  ELSE LET owner == scopeStack[FoundIn(x)].function
           provides == Provided(owner, x)
           request == [diff |-> Top - FoundIn(x),
                       idx |-> CHOOSE i \in DOMAIN provides : provides[i] = x]
       IN  [defs EXCEPT ![owner].provides = provides,
                        ![Current].requests = Insert(@, x, request)]

(* lookupVariable, x not found: what the search returns is the entry of    *)
(* the outermost scope, if it has one, taken for a variable.               *)
NotFound(x) ==
  /\ status' = IF x \in DOMAIN Library THEN "undefined" ELSE "error"
  /\ UNCHANGED <<scopeStack, defs, todo>>

(* Id::semantic. *)
UseVariable(x) ==
  /\ InBody
  /\ IF VariableScopes(x) = {} THEN NotFound(x)
     ELSE defs' = Linked(x) /\ UNCHANGED <<scopeStack, todo, status>>

(* Result::semantic: only the function itself may use its result.          *)
UseResult ==
  /\ InBody
  /\ IF "result" \notin DOMAIN Entries(Top) THEN Report
     ELSE UNCHANGED vars

(* lookupEntry over all scopes: the innermost entry, whatever it is.       *)
ScopesNaming(x) == { i \in 1 .. Top : x \in DOMAIN Entries(i) }

Denoted(x) == Entries(Max(ScopesNaming(x)))[x]

(* CallProc::semantic and CallFunc::semantic up to the loop over the       *)
(* arguments.                                                              *)
Call(f, args) ==
  /\ InBody
  /\ IF \/ ScopesNaming(f) = {}
        \/ Denoted(f).entryType # "function"
        \/ Len(args) # Len(Parameters(Denoted(f).header))
     THEN Report
     ELSE LET g == Denoted(f).function
              parameters == Parameters(Denoted(f).header)
          IN  /\ todo' = [i \in DOMAIN args |-> [arg |-> args[i], par |-> parameters[i]]]
              /\ defs' = IF g = NoFunction THEN defs
                         ELSE [defs EXCEPT ![Current].calls = @ \cup {g}]
              /\ UNCHANGED <<scopeStack, status>>

ArgumentAccepted(par, t, lvalue) ==
  IF par.byValue THEN IsCompatibleWith(par.type, t)
  ELSE lvalue /\ IsCompatibleWith(typePointer(par.type), typePointer(t))

(* One turn of that loop. *)
CheckArgument ==
  /\ status = "run" /\ todo # << >>
  /\ LET arg == Head(todo).arg
         par == Head(todo).par
     IN  IF arg.lvalue /\ VariableScopes(arg.name) = {} THEN NotFound(arg.name)
         ELSE LET t == IF arg.lvalue THEN Entries(FoundIn(arg.name))[arg.name].type
                       ELSE arg.type
              IN  IF ~ArgumentAccepted(par, t, arg.lvalue) THEN Report
                  ELSE /\ todo' = Tail(todo)
                       /\ defs' = IF arg.lvalue THEN Linked(arg.name) ELSE defs
                       /\ UNCHANGED <<scopeStack, status>>

-----------------------------------------------------------------------------
(* Labels, and the end of a function                                       *)

(* lookupLabel sees the current scope only.                                *)
IsLabel(l) ==
  l \in DOMAIN Entries(Top) /\ Entries(Top)[l].entryType = "label"

PlaceLabel(l) ==
  /\ InBody
  /\ IF ~IsLabel(l) \/ Entries(Top)[l].isBound THEN Report
     ELSE /\ scopeStack' = SetEntry(l, [Entries(Top)[l] EXCEPT !.isBound = TRUE])
          /\ defs' = [defs EXCEPT ![Current].bound = @ \cup {l}]
          /\ UNCHANGED <<todo, status>>

Goto(l) ==
  /\ InBody
  /\ IF ~IsLabel(l) THEN Report
     ELSE /\ scopeStack' = SetEntry(l, [Entries(Top)[l] EXCEPT !.isTargeted = TRUE])
          /\ defs' = [defs EXCEPT ![Current].gotos = @ \cup {l}]
          /\ UNCHANGED <<todo, status>>

(* A mutation of UnboundTarget: only the first label is looked at. *)
UnboundFirstTarget ==
  /\ scopeStack[Top].labelNames # << >>
  /\ LET l == Entries(Top)[Head(scopeStack[Top].labelNames)]
     IN  l.isTargeted /\ ~l.isBound

(* closeScope refuses a label some goto names and no statement carries.    *)
UnboundTarget ==
  \E i \in DOMAIN scopeStack[Top].labelNames :
    LET l == Entries(Top)[scopeStack[Top].labelNames[i]]
    IN  l.isTargeted /\ ~l.isBound

EndFunction ==
  /\ InBody /\ Top > 2
  /\ IF UnboundTarget THEN Report
     ELSE scopeStack' = Front(scopeStack) /\ UNCHANGED <<defs, todo, status>>

(* semantic_finalize closes main and the library.                          *)
Finish ==
  /\ InBody /\ Top = 2
  /\ IF UnboundTarget THEN Report
     ELSE scopeStack' = << >> /\ status' = "done" /\ UNCHANGED <<defs, todo>>

Next ==
  \/ \E x \in VariableNames, t \in VariableTypes : DeclareVariable(x, t)
  \/ \E l \in LabelNames : DeclareLabel(l)
  \/ \E n \in FunctionNames, h \in Headers : DeclareForward(n, h)
  \/ \E n \in FunctionNames, h \in Headers : DefineFunction(n, h)
  \/ BeginBody
  \/ \E x \in VariableNames : UseVariable(x)
  \/ UseResult
  \/ \E f \in FunctionNames, args \in Arguments : Call(f, args)
  \/ CheckArgument
  \/ \E l \in LabelNames : PlaceLabel(l)
  \/ \E l \in LabelNames : Goto(l)
  \/ EndFunction
  \/ Finish

Spec == Init /\ [][Next]_vars

-----------------------------------------------------------------------------
(* Properties                                                              *)

Functions == 1 .. Len(defs)
Bodies == { d \in Functions : ~defs[d].isForward }
Open == { scopeStack[i].function : i \in 2 .. Top }

EntryOK(e) ==
  \/ e.entryType = "variable"
  \/ e.entryType = "label" /\ e.isBound \in BOOLEAN /\ e.isTargeted \in BOOLEAN
  \/ e.entryType = "function" /\ e.pardef \in {"pending", "complete"}
       /\ e.function \in Functions \cup {NoFunction}

(* Entries, scopes and definitions have their types; every label a scope   *)
(* has to check at its end is still entered as a label, so that closeScope *)
(* may use what lookupLabel returns.                                       *)
TypeOK ==
  /\ status \in {"run", "done", "error", "undefined"}
  /\ \A i \in 1 .. Top :
       /\ \A x \in DOMAIN Entries(i) : EntryOK(Entries(i)[x])
       /\ scopeStack[i].function \in Functions \cup {NoFunction}
       /\ \A k \in DOMAIN scopeStack[i].labelNames :
            /\ scopeStack[i].labelNames[k] \in DOMAIN Entries(i)
            /\ Entries(i)[scopeStack[i].labelNames[k]].entryType = "label"
  /\ \A d \in Functions :
       /\ defs[d].creator \in Functions
       /\ defs[d].calls \subseteq Functions
       /\ ToSet(defs[d].chain) \subseteq Functions

(* A request made in one function, at one moment, and the slot another     *)
(* function provides agree for good: diff steps up the static chain there  *)
(* is a function that declares the variable and keeps it in slot idx.      *)
RequestsMatchProvides ==
  \A d \in Functions : \A x \in DOMAIN defs[d].requests :
    LET r == defs[d].requests[x]
        owner == defs[d].chain[Len(defs[d].chain) - r.diff]
    IN  /\ r.diff \in 1 .. Len(defs[d].chain) - 1
        /\ r.idx \in DOMAIN defs[owner].provides
        /\ defs[owner].provides[r.idx] = x
        /\ x \in defs[owner].locals

(* Once the scope of a function is closed, every goto of its body has its  *)
(* label in that same body: code generation will patch a branch to it.     *)
GotoReachesLabel ==
  \A d \in Functions :
    (status \in {"run", "done"} /\ d \notin Open) => defs[d].gotos \subseteq defs[d].bound

(* Every forward declaration was followed by its definition. *)
Resolved == \A d \in Functions : \E b \in Bodies : defs[b].creator = defs[d].creator

(* The program handed to code generation, in the terms of NestedPrograms.  *)
Body(c) == CHOOSE b \in Bodies : defs[b].creator = c

Emitted ==
  [path |-> [d \in Bodies |-> defs[d].chain],
   locals |-> [d \in Bodies |-> defs[d].locals],
   refs |-> [d \in Bodies |-> defs[d].refs],
   calls |-> [d \in Bodies |-> { Body(c) : c \in defs[d].calls }],
   provides |-> [d \in Bodies |-> defs[d].provides],
   requests |-> [d \in Bodies |-> defs[d].requests],
   level |-> [d \in Bodies |-> defs[defs[d].creator].level]]

Program == INSTANCE NestedPrograms WITH Main <- 1

(* What semantic analysis accepts is what NestedCalls takes for granted:   *)
(* calls go to functions whose parent encloses the caller, levels count    *)
(* enclosing scopes, forward declarations and definitions are one function *)
(* and requests meet the slots provided.                                   *)
EmitsWellFormed == (status = "done" /\ Resolved) => Program!WellFormed(Emitted)

(* "in compile of forward def we need to have parent struct"               *)
(* (symbol.cpp:83): whatever code generation creates an LLVM function from *)
(* has its static_parent.                                                  *)
CreatorHasParent == status = "done" => \A d \in Functions : defs[defs[d].creator].chain # << >>

=============================================================================

------------------------------ MODULE CodeGen ------------------------------
(***************************************************************************)
(* The second walk: the table of scopes that code generation keeps, next   *)
(* to the symbol table of the first walk.  The two tables are never in     *)
(* memory together.  The compiler relies on the second meeting every name  *)
(* as the first did: it looks names up without testing what it finds, and  *)
(* counts nesting levels anew.                                             *)
(*                                                                         *)
(* The second walk visits the nodes in the order of the first, and what it *)
(* does at a node depends on nothing the first walk does at later nodes,   *)
(* but for the requests and slots of the function being compiled, which    *)
(* only grow.  So each action here is one of Scopes together with the code *)
(* generated for the node, and the two tables can be compared node by      *)
(* node.  Nothing is generated for a node that the first walk refuses.     *)
(***************************************************************************)
EXTENDS Scopes

(* Of a program that was parsed: the names of parameters are identifiers,  *)
(* each group passes them one way, and result is a keyword, so no name.    *)
ASSUME HeadersAssumption ==
  \A h \in Headers :
    /\ h.groups \in Seq(ToSet(h.groups))
    /\ \A i \in DOMAIN h.groups :
         h.groups[i].names \in Seq(VariableNames) /\ h.groups[i].byValue \in BOOLEAN

ASSUME NamesAssumption ==
  "result" \notin VariableNames \cup FunctionNames \cup LabelNames

(* The bound on scopes leaves room for those of the library and of main.   *)
ASSUME BoundsAssumption == MaxScopes \in Nat /\ MaxScopes >= 2

VARIABLES
  genScopes,  \* ct.scopes, outermost first
  levels,     \* nesting_level, by FunctionDef
  builder,    \* the routine whose blocks the Builder writes into
  entered,    \* how far each call goes up the chain of structs
  patched,    \* the branches of gotos written so far
  fault       \* the first thing that went wrong, or "none"

genVars == <<genScopes, levels, builder, entered, patched, fault>>

Sound == "none"

(* Entries.  A variable is the alloca or argument of the routine of a      *)
(* FunctionDef; a function is a routine, named by the FunctionDef it was   *)
(* created for, with its level; a label knows the statement that carries   *)
(* it, here by its function, and the gotos to be patched.                  *)
VariableGenEntry(d) == [kind |-> "variable", of |-> d]
FunctionGenEntry(d, level) == [kind |-> "function", of |-> d, level |-> level]
LabelGenEntry == [kind |-> "label", label |-> NoFunction, gotos |-> {}]

GenTop == Len(genScopes)

(* lookup, in all scopes: the innermost entry of that name.                *)
GenNaming(x) == { i \in 1 .. GenTop : x \in DOMAIN genScopes[i].locals }
GenFound(x) == genScopes[Max(GenNaming(x))].locals[x]

(* What goes wrong when the code takes what lookup(x) returns for an entry *)
(* of this kind.                                                           *)
LookupFault(x, kind) ==
  IF GenNaming(x) = {} THEN "null entry"
  ELSE IF GenFound(x).kind # kind THEN "wrong kind" ELSE Sound

Faulty(f) == fault' = IF fault = Sound THEN f ELSE fault

(* insert: an entry that is already there is an internal error.            *)
InsertFault(scope, x) == IF x \in DOMAIN scope.locals THEN "double entry" ELSE Sound
WithEntry(scope, x, e) ==
  [scope EXCEPT !.locals = [n \in DOMAIN @ \cup {x} |-> IF n = x THEN e ELSE @[n]]]

OpenGenScope(d, parentBB) ==
  [function |-> d, locals |-> [x \in {} |-> x], labelNames |-> << >>, parentBB |-> parentBB]

(* The table starts with the predefined functions and the scope of main.   *)
GenInit ==
  /\ Init
  /\ genScopes = << [OpenGenScope(NoFunction, NoFunction) EXCEPT
                       !.locals = [n \in DOMAIN Library |-> FunctionGenEntry(NoFunction, 0)]],
                    OpenGenScope(1, NoFunction) >>
  /\ levels = << 0 >>
  /\ builder = 1
  /\ entered = {}
  /\ patched = {}
  /\ fault = Sound

Refused == status' \in {"error", "undefined"} /\ UNCHANGED genVars
Walked == status' \notin {"error", "undefined"}

-----------------------------------------------------------------------------
(* Declarations                                                            *)

InsertInTop(x, e) ==
  /\ Faulty(InsertFault(genScopes[GenTop], x))
  /\ genScopes' = [genScopes EXCEPT ![GenTop] = WithEntry(@, x, e)]

(* The alloca goes where the Builder writes. *)
GenVariable(x, t) ==
  /\ DeclareVariable(x, t)
  /\ \/ Refused
     \/ /\ Walked
        /\ InsertInTop(x, VariableGenEntry(builder))
        /\ UNCHANGED <<levels, builder, entered, patched>>

(* insert, and addLabel for the end of the scope.                         *)
WithLabel(scope, l) ==
  [WithEntry(scope, l, LabelGenEntry) EXCEPT !.labelNames = Append(@, l)]

GenLabelDef(l) ==
  /\ DeclareLabel(l)
  /\ \/ Refused
     \/ /\ Walked
        /\ Faulty(InsertFault(genScopes[GenTop], l))
        /\ genScopes' = [genScopes EXCEPT ![GenTop] = WithLabel(@, l)]
        /\ UNCHANGED <<levels, builder, entered, patched>>

(* A mutation of Signed: a routine with the name, in any scope, will do.   *)
SignedInAnyScope(scopes, n, d) ==
  IF GenNaming(n) # {} THEN WithEntry(scopes[GenTop], n, GenFound(n))
  ELSE WithEntry(scopes[GenTop], n, FunctionGenEntry(d, GenTop))

(* A mutation of Signed: the level counts the scope of the function too. *)
SignedInside(scopes, n, d) ==
  IF n \in DOMAIN scopes[GenTop].locals THEN scopes[GenTop]
  ELSE WithEntry(scopes[GenTop], n, FunctionGenEntry(d, GenTop + 1))

(* The first FunctionDef of a name in its scope creates the routine; its   *)
(* level is the number of scopes then open.                                *)
Signed(scopes, n, d) ==
  IF n \in DOMAIN scopes[GenTop].locals THEN scopes[GenTop]
  ELSE WithEntry(scopes[GenTop], n, FunctionGenEntry(d, GenTop))

SignFault(n) ==
  IF /\ n \in DOMAIN genScopes[GenTop].locals
     /\ genScopes[GenTop].locals[n].kind # "function" THEN "wrong kind" ELSE Sound

GenForward(n, h) ==
  /\ DeclareForward(n, h)
  /\ \/ Refused
     \/ /\ Walked
        /\ Faulty(SignFault(n))
        /\ genScopes' = [genScopes EXCEPT ![GenTop] = Signed(genScopes, n, Len(defs) + 1)]
        /\ levels' = Append(levels, GenTop)
        /\ UNCHANGED <<builder, entered, patched>>

(* The names a routine enters into its own scope, in order.                *)
Prologue(h) ==
  ParameterNames(h) \o (IF Equals(h.type, typeVoid) THEN << >> ELSE << "result" >>)

(* A mutation of GenDefine: the parameters are inserted before the scope   *)
(* is opened, into that of the parent.                                     *)
GenDefineTooEarly(n, h) ==
  /\ DefineFunction(n, h)
  /\ \/ Refused
     \/ /\ Walked
        /\ LET d == Len(defs) + 1
               scope == Signed(genScopes, n, d)
               outer == [scope EXCEPT !.locals =
                           [x \in DOMAIN @ \cup ToSet(Prologue(h)) |->
                              IF x \in DOMAIN @ THEN @[x] ELSE VariableGenEntry(d)]]
           IN  /\ Faulty(IF \E x \in ToSet(Prologue(h)) : x \in DOMAIN scope.locals
                         THEN "double entry" ELSE SignFault(n))
               /\ genScopes' = Append([genScopes EXCEPT ![GenTop] = outer],
                                      OpenGenScope(d, builder))
               /\ builder' = scope.locals[n].of
        /\ levels' = Append(levels, GenTop)
        /\ UNCHANGED <<entered, patched>>

(* A function with a body: its routine, its level, its scope with the      *)
(* parameters and the result; the Builder goes to its entry block, and the *)
(* block it leaves is kept for the end of the function.                    *)
GenDefine(n, h) ==
  /\ DefineFunction(n, h)
  /\ \/ Refused
     \/ /\ Walked
        /\ LET d == Len(defs) + 1
               scope == Signed(genScopes, n, d)
               routine == scope.locals[n].of
           IN  /\ Faulty(IF IsInjective(Prologue(h)) THEN SignFault(n) ELSE "double entry")
               /\ genScopes' =
                    Append([genScopes EXCEPT ![GenTop] = scope],
                           [OpenGenScope(d, builder) EXCEPT !.locals =
                              [x \in ToSet(Prologue(h)) |-> VariableGenEntry(routine)]])
               /\ builder' = routine
        /\ levels' = Append(levels, GenTop)
        /\ UNCHANGED <<entered, patched>>

GenBegin == BeginBody /\ UNCHANGED genVars

-----------------------------------------------------------------------------
(* Uses                                                                    *)

(* Id::compile: a name the function requests is reached through the chain  *)
(* and never looked up.                                                    *)
IdFault(x) ==
  IF x \in DOMAIN defs'[Current].requests THEN Sound ELSE LookupFault(x, "variable")

GenUse(x) ==
  /\ UseVariable(x)
  /\ \/ Refused
     \/ Walked /\ Faulty(IdFault(x)) /\ UNCHANGED <<genScopes, levels, builder, entered, patched>>

(* Result::compile. *)
GenResult ==
  /\ UseResult
  /\ \/ Refused
     \/ Walked /\ Faulty(LookupFault("result", "variable"))
               /\ UNCHANGED <<genScopes, levels, builder, entered, patched>>

(* create_call.  main's own nesting_level is never set, so where its calls *)
(* go is left to NestedCalls.  A call that passes the caller's own struct  *)
(* looks up every variable the caller provides.                            *)
NumberLoad(level) == levels[genScopes[GenTop].function] - level + 1

ProvideFaults ==
  { LookupFault(x, "variable") : x \in ToSet(defs[Current].provides) } \ {Sound}

GenCall(f, args) ==
  /\ Call(f, args)
  /\ \/ Refused
     \/ /\ Walked
        /\ UNCHANGED <<genScopes, levels, builder, patched>>
        /\ LET bad == LookupFault(f, "function")
               called == GenFound(f)
           IN  IF bad # Sound THEN Faulty(bad) /\ UNCHANGED entered
               ELSE IF called.of = NoFunction THEN UNCHANGED <<fault, entered>>
               ELSE /\ entered' = IF Current = 1 THEN entered
                                  ELSE entered \cup {<<Current, called.of, NumberLoad(called.level)>>}
                    /\ Faulty(IF NumberLoad(called.level) > 0 \/ ProvideFaults = {} THEN Sound
                              ELSE CHOOSE bad2 \in ProvideFaults : TRUE)

GenArgument ==
  /\ CheckArgument
  /\ \/ Refused
     \/ /\ Walked
        /\ Faulty(IF Head(todo).arg.lvalue THEN IdFault(Head(todo).arg.name) ELSE Sound)
        /\ UNCHANGED <<genScopes, levels, builder, entered, patched>>

-----------------------------------------------------------------------------
(* Labels, and the end of a function                                       *)

InFound(l, e) == [genScopes EXCEPT ![Max(GenNaming(l))].locals[l] = e]

GenLabel(l) ==
  /\ PlaceLabel(l)
  /\ \/ Refused
     \/ /\ Walked
        /\ Faulty(LookupFault(l, "label"))
        /\ genScopes' = IF LookupFault(l, "label") # Sound THEN genScopes
                        ELSE InFound(l, [GenFound(l) EXCEPT !.label = builder])
        /\ UNCHANGED <<levels, builder, entered, patched>>

GenGoto(l) ==
  /\ Goto(l)
  /\ \/ Refused
     \/ /\ Walked
        /\ Faulty(LookupFault(l, "label"))
        /\ genScopes' = IF LookupFault(l, "label") # Sound THEN genScopes
                        ELSE InFound(l, [GenFound(l) EXCEPT !.gotos = @ \cup {builder}])
        /\ UNCHANGED <<levels, builder, entered, patched>>

(* A mutation of ScopeLabels: the label declared last is forgotten. *)
ScopeLabelsButLast ==
  IF genScopes[GenTop].labelNames = << >> THEN {}
  ELSE ToSet(Front(genScopes[GenTop].labelNames))

ScopeLabels == ToSet(genScopes[GenTop].labelNames)

(* A mutation of CloseGenScope: currentScope stays the scope closed. *)
CloseGenScopeButStay ==
  /\ patched' = patched \cup
       UNION { { <<g, l, GenFound(l).label>> : g \in GenFound(l).gotos } : l \in ScopeLabels }
  /\ UNCHANGED <<genScopes, fault>>

(* closeScope: the gotos to every label of the scope get their branch,     *)
(* wherever the Builder was when it met them, to the block of the label.   *)
CloseGenScope ==
  /\ patched' = patched \cup
       UNION { { <<g, l, GenFound(l).label>> : g \in GenFound(l).gotos } : l \in ScopeLabels }
  /\ Faulty(IF \E l \in ScopeLabels : GenFound(l).gotos # {} /\ GenFound(l).label = NoFunction
            THEN "null entry" ELSE Sound)
  /\ genScopes' = Front(genScopes)

(* A mutation of GenEnd: the Builder stays in the routine that has ended. *)
GenEndWithoutReturning ==
  /\ EndFunction
  /\ \/ Refused
     \/ Walked /\ CloseGenScope /\ UNCHANGED <<levels, builder, entered>>

GenEnd ==
  /\ EndFunction
  /\ \/ Refused
     \/ /\ Walked
        /\ CloseGenScope
        /\ builder' = genScopes[GenTop].parentBB
        /\ UNCHANGED <<levels, entered>>

(* compile_finalize closes the scope of main and leaves the library's.     *)
GenFinish ==
  /\ Finish
  /\ \/ Refused
     \/ Walked /\ CloseGenScope /\ UNCHANGED <<levels, builder, entered>>

GenNext ==
  \/ \E x \in VariableNames, t \in VariableTypes : GenVariable(x, t)
  \/ \E l \in LabelNames : GenLabelDef(l)
  \/ \E n \in FunctionNames, h \in Headers : GenForward(n, h)
  \/ \E n \in FunctionNames, h \in Headers : GenDefine(n, h)
  \/ GenBegin
  \/ \E x \in VariableNames : GenUse(x)
  \/ GenResult
  \/ \E f \in FunctionNames, args \in Arguments : GenCall(f, args)
  \/ GenArgument
  \/ \E l \in LabelNames : GenLabel(l)
  \/ \E l \in LabelNames : GenGoto(l)
  \/ GenEnd
  \/ GenFinish

GenSpec == GenInit /\ [][GenNext]_<<vars, genVars>>

-----------------------------------------------------------------------------
(* Properties                                                              *)

(* The types of both walks' variables; while they are inside the program,  *)
(* their tables are equally high and the scopes belong to the same         *)
(* functions.                                                              *)
GenTypeOK ==
  /\ TypeOK
  /\ fault \in {Sound, "null entry", "wrong kind", "double entry"}
  /\ builder \in Functions
  /\ levels \in [Functions -> 0 .. MaxScopes]
  /\ \A p \in patched : p[1] \in Functions /\ p[2] \in LabelNames
  /\ status = "run" =>
       /\ GenTop = Top
       /\ \A i \in 1 .. Top : genScopes[i].function = scopeStack[i].function

(* The second walk tests nothing it looks up, as the first has accepted    *)
(* the program: no lookup comes back empty, or with an entry of another    *)
(* kind than it is cast to, no label it patches is missing, and "Internal  *)
(* error, found double entry in the same scope" (symbol.cpp:263) is never  *)
(* reported.                                                               *)
NoInternalError == fault = Sound

(* The two walks mean the same things by the same names: a name of the     *)
(* innermost function's own is its own in both; a name that denotes a      *)
(* routine denotes, in the second walk, the routine created for the first  *)
(* declaration of the function the first walk found.                       *)
SameDenotation ==
  status = "run" =>
    /\ \A x \in VariableNames :
         (VariableScopes(x) # {} /\ FoundIn(x) = Top) =>
           /\ GenNaming(x) # {}
           /\ GenFound(x) = VariableGenEntry(defs[Current].creator)
           /\ x \notin DOMAIN defs[Current].requests
    /\ \A f \in FunctionNames :
         (ScopesNaming(f) # {} /\ Denoted(f).entryType = "function") =>
           LET d == Denoted(f).function
           IN  /\ GenNaming(f) # {}
               /\ GenFound(f).kind = "function"
               /\ GenFound(f).of = IF d = NoFunction THEN NoFunction ELSE defs[d].creator

(* Code goes to the routine of the function being compiled, however many   *)
(* functions have been compiled in between.                                *)
BuilderInOwnRoutine == status = "run" => builder = defs[Current].creator

(* The levels lead each call to where static scoping wants it: as many     *)
(* loads as there are functions from the caller up to the callee's parent, *)
(* none, with the caller's own struct, when the caller is that parent.     *)
CallsReachParent ==
  \A e \in entered :
    LET caller == defs[e[1]].chain
        callee == defs[e[2]].chain
        loads == IF e[3] > 0 THEN e[3] ELSE 0
    IN  callee # << >> =>
          /\ Len(caller) - loads = Len(callee) - 1
          /\ Front(callee) = SubSeq(caller, 1, Len(callee) - 1)

(* Every goto of a function that has ended has its branch, and it goes to  *)
(* a label of the same routine.                                            *)
GotosPatched ==
  /\ \A p \in patched : p[3] = p[1]
  /\ status \in {"run", "done"} =>
       \A d \in Functions : d \notin Open =>
         \A l \in defs[d].gotos : <<defs[d].creator, l, defs[d].creator>> \in patched
=============================================================================

--------------------------- MODULE StaticScoping ---------------------------
(***************************************************************************)
(* What PCL's static scoping promises at run time, with no mention of how  *)
(* the compiler implements it ("Scoping as Pascal", readme.md:6; "the      *)
(* function g can then access all variables in the outer scopes enclosing  *)
(* it", readme.md:13).                                                     *)
(*                                                                         *)
(* Every activation owns a display: for each function that lexically       *)
(* encloses it, outermost first, the activation its code is nested in.  A  *)
(* call copies the part of the caller's display that encloses the callee;  *)
(* a use of an outer variable reads the display entry of its owner.        *)
(*                                                                         *)
(* A program is a record:                                                  *)
(*   path[f]      the functions enclosing f, from the main program to f    *)
(*   locals[f]    the variables and parameters f declares                  *)
(*   refs[f]      those of them that are VAR parameters                    *)
(*   calls[f]     the functions the body of f calls                        *)
(*   requests[f]  for every outer variable x the body of f uses, diff: how *)
(*                many scopes out x is declared (and idx, unused here)     *)
(***************************************************************************)
EXTENDS Integers, Sequences

CONSTANTS
  Main,        \* the outermost program
  Programs,    \* the programs considered
  Undef,       \* no address has been computed
  MaxDepth     \* bound on the number of simultaneous activations

VARIABLES
  code,        \* the program being run
  frames,      \* its activations: [fun, display, bind]
  reg          \* the address computed last by the running activation

absVars == <<code, frames, reg>>

Current == frames[Len(frames)]

(* A VAR parameter is another name for the argument; every other local is  *)
(* a fresh variable of the activation.                                     *)
Binding(f, frame, arg) ==
  [x \in code.locals[f] |-> IF x \in code.refs[f] THEN arg ELSE <<frame, x>>]

Init ==
  /\ code \in Programs
  /\ frames = << [fun |-> Main, display |-> <<1>>,
                  bind |-> Binding(Main, 1, Undef)] >>
  /\ reg = Undef

(* A use of one of the running function's own variables. *)
Local(x) ==
  /\ x \in code.locals[Current.fun]
  /\ reg' = Current.bind[x]
  /\ UNCHANGED <<code, frames>>

(* A use of a variable declared diff scopes out. *)
Outer(x) ==
  /\ x \in DOMAIN code.requests[Current.fun]
  /\ LET depth == Len(Current.display) - code.requests[Current.fun][x].diff
     IN  reg' = frames[Current.display[depth]].bind[x]
  /\ UNCHANGED <<code, frames>>

Call(g) ==
  /\ g \in code.calls[Current.fun]
  /\ code.refs[g] # {} => reg # Undef
  /\ Len(frames) < MaxDepth
  /\ LET new == Len(frames) + 1
     IN  frames' = Append(frames,
           [fun |-> g,
            display |-> Append(SubSeq(Current.display, 1, Len(code.path[g]) - 1), new),
            bind |-> Binding(g, new, reg)])
  /\ reg' = Undef
  /\ UNCHANGED code

Return ==
  /\ Len(frames) > 1
  /\ frames' = SubSeq(frames, 1, Len(frames) - 1)
  /\ reg' = Undef
  /\ UNCHANGED code

Next ==
  \/ \E x \in code.locals[Current.fun] : Local(x)
  \/ \E x \in DOMAIN code.requests[Current.fun] : Outer(x)
  \/ \E g \in code.calls[Current.fun] : Call(g)
  \/ Return

AbsSpec == Init /\ [][Next]_absVars
=============================================================================

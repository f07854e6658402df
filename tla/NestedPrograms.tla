--------------------------- MODULE NestedPrograms ---------------------------
(***************************************************************************)
(* What a compiled program is: the record semantic analysis and the        *)
(* declarations of code generation leave behind, on which the emitted code *)
(* depends.                                                                *)
(*   path[f]      the functions enclosing f, from the main program to f    *)
(*   locals[f]    the variables and parameters f declares                  *)
(*   refs[f]      those of them that are VAR parameters                    *)
(*   calls[f]     the functions the body of f calls                        *)
(*   provides[f]  the names f keeps in its hidden struct, in slot order    *)
(*   requests[f]  for every outer variable x the body of f uses, diff: how *)
(*                many scopes out x is declared, and idx: its slot there   *)
(*   level[f]     nesting_level                                            *)
(***************************************************************************)
EXTENDS Integers, Sequences

CONSTANTS
  Main         \* the FunctionDef of the outermost program, Program::main_obj

(* The fields of a program a run depends on; all functions share a domain. *)
Funs(c) == DOMAIN c.path

Owner(c, f, x) == c.path[f][Len(c.path[f]) - c.requests[f][x].diff]

(* g is visible in f: g is nested directly in f or in a function enclosing *)
(* f, so that the path of g leaves the path of f only with g itself.       *)
Visible(c, f, g) ==
  /\ g # Main
  /\ Len(c.path[g]) - 1 <= Len(c.path[f])
  /\ \A k \in 1 .. Len(c.path[g]) - 1 : c.path[g][k] = c.path[f][k]

(* Lexical nesting: paths run from Main to the function, without           *)
(* repetition, and every prefix of a path is the path of its last element. *)
NestingOK(c) ==
  /\ Main \in Funs(c)
  /\ c.path \in [Funs(c) -> Seq(Funs(c))]
  /\ \A f \in Funs(c) :
       /\ Len(c.path[f]) >= 1
       /\ c.path[f][1] = Main
       /\ c.path[f][Len(c.path[f])] = f
       /\ \A k \in 1 .. Len(c.path[f]) :
            /\ Len(c.path[c.path[f][k]]) = k
            /\ \A l \in 1 .. k : c.path[c.path[f][k]][l] = c.path[f][l]

(* What semantic analysis and code generation must establish: every call   *)
(* is to a visible function, every requested variable sits in the slot its *)
(* owner provides it in, and levels count the enclosing scopes.            *)
LinkingOK(c) ==
  /\ c.level \in [Funs(c) -> Int]
  /\ \A f \in Funs(c) \ {Main} : c.level[f] = Len(c.path[f])
  /\ \A f \in Funs(c) : \A g \in c.calls[f] : g \in Funs(c) /\ Visible(c, f, g)
  /\ \A f \in Funs(c) : \A i \in 1 .. Len(c.provides[f]) :
       c.provides[f][i] \in c.locals[f]
  /\ \A f \in Funs(c) : \A x \in DOMAIN c.requests[f] :
       LET r == c.requests[f][x] IN
         /\ r.diff \in 1 .. Len(c.path[f]) - 1
         /\ r.idx \in 1 .. Len(c.provides[Owner(c, f, x)])
         /\ c.provides[Owner(c, f, x)][r.idx] = x

ShapeOK(c) ==
  /\ c.refs[Main] = {}
  /\ \A f \in Funs(c) :
       /\ c.refs[f] \subseteq c.locals[f]
       /\ Len(c.provides[f]) \in Nat

WellFormed(c) == NestingOK(c) /\ LinkingOK(c) /\ ShapeOK(c)
=============================================================================

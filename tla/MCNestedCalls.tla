--------------------------- MODULE MCNestedCalls ---------------------------
(***************************************************************************)
(* Small programs for NestedCalls: main, f in main, g in main or f, h in   *)
(* any of the three; each function calls everything it sees and uses every *)
(* variable in scope, innermost declaration first.                         *)
(***************************************************************************)
EXTENDS NestedCalls

Locals == [main |-> {"a", "x"}, f |-> {"x", "p"}, g |-> {"b"}, h |-> {}]
Refs == [main |-> {}, f |-> {"p"}, g |-> {}, h |-> {}]
Provides == [main |-> <<"x", "a">>, f |-> <<"p", "x">>, g |-> <<"b">>, h |-> <<>>]

Paths ==
  { [main |-> <<"main">>, f |-> <<"main", "f">>, g |-> pg, h |-> ph] :
      pg \in { <<"main", "g">>, <<"main", "f", "g">> },
      ph \in { <<"main", "h">>, <<"main", "f", "h">>, <<"main", "f", "g", "h">>,
               <<"main", "g", "h">> } }

Consistent(path) ==
  \A f \in DOMAIN path :
    \A k \in DOMAIN path[f] : path[path[f][k]] = SubSeq(path[f], 1, k)

(* The innermost enclosing function that declares x, as a distance. *)
Distance(path, f, x) ==
  CHOOSE d \in 0 .. Len(path[f]) - 1 :
    /\ x \in Locals[path[f][Len(path[f]) - d]]
    /\ \A e \in 0 .. d - 1 : x \notin Locals[path[f][Len(path[f]) - e]]

OuterNames(path, f) ==
  { x \in {"a", "b", "p", "x"} :
      /\ x \notin Locals[f]
      /\ \E k \in 1 .. Len(path[f]) : x \in Locals[path[f][k]] }

SlotOf(g, x) == CHOOSE i \in DOMAIN Provides[g] : Provides[g][i] = x

Compiled(path) ==
  [path |-> path, locals |-> Locals, refs |-> Refs, provides |-> Provides,
   level |-> [f \in DOMAIN path |-> Len(path[f])],
   calls |-> [f \in DOMAIN path |->
                { g \in DOMAIN path \ {"main"} :
                    /\ Len(path[g]) - 1 <= Len(path[f])
                    /\ SubSeq(path[g], 1, Len(path[g]) - 1)
                         = SubSeq(path[f], 1, Len(path[g]) - 1) }],
   requests |-> [f \in DOMAIN path |->
                   [x \in OuterNames(path, f) |->
                      LET d == Distance(path, f, x)
                      IN  [diff |-> d,
                           idx |-> SlotOf(path[f][Len(path[f]) - d], x)]]]]

(* Words the uninitialised main_obj->nesting_level may hold: as its        *)
(* functions have level 2, main loads field 0 one time less.               *)
MCLevels == {0, 1, 2, 3}
MCPrograms == { Compiled(path) : path \in { p \in Paths : Consistent(p) } }
=============================================================================

----------------------------- MODULE MCCodeGen -----------------------------
(* Small programs for both walks.  Names clash between variables,          *)
(* functions, labels and parameters, and the library has an f of its own.  *)
EXTENDS CodeGen

Group(names, t, byValue) == [names |-> names, type |-> t, byValue |-> byValue]
Header(groups, t) == [groups |-> groups, type |-> t]

MCLibrary == [n \in {"f"} |-> Header(<< Group(<<"">>, typeInteger, TRUE) >>, typeVoid)]

Plain == Header(<< >>, typeVoid)
Mixed == Header(<< Group(<<"x">>, typeReal, TRUE), Group(<<"f">>, typeReal, FALSE) >>, typeReal)

MCTypes == { typeReal }
MCHeaders == { Plain, Mixed }

Variable(x) == [lvalue |-> TRUE, name |-> x]
Value(t) == [lvalue |-> FALSE, type |-> t]
MCArguments ==
  { << >>, << Value(typeInteger) >>, << Variable("x"), Variable("f") >>,
    << Value(typeInteger), Variable("x") >>, << Variable("x"), Value(typeReal) >> }

(* Beyond three FunctionDefs, only those without parameters and labels,    *)
(* whose variables are named f and which call one function at most:        *)
(* nesting, siblings and forwards.                                         *)
Bounded ==
  \/ Len(defs) <= 3
  \/ /\ \A d \in Functions \ {1} : defs[d].header = Plain
     /\ \A d \in Functions :
          /\ defs[d].locals \subseteq {"f"} /\ defs[d].bound = {} /\ defs[d].gotos = {}
          /\ Cardinality(defs[d].calls) <= 1
     /\ \A i \in DOMAIN scopeStack : scopeStack[i].labelNames = << >>
=============================================================================

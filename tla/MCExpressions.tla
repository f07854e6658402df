--------------------------- MODULE MCExpressions ---------------------------
(* Expressions over variables of every kind of type. *)
EXTENDS Expressions

MCVariableTypes ==
  { typeInteger, typeBoolean, typePointer(typeIArray(typeReal)),
    typeArray(2, typeBoolean), typeIArray(typePointer(typeInteger)) }

MCCallTypes == { typeBoolean, typeReal }

MCConstants == { typeInteger, typeBoolean, typeVoid }
=============================================================================

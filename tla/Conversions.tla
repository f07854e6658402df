---------------------------- MODULE Conversions ----------------------------
(***************************************************************************)
(* Giving a value to a variable: an assignment, an argument by value or an *)
(* argument by reference.  Semantic analysis accepts it or not; code       *)
(* generation then compiles the expression, loads it if it is an l-value,  *)
(* converts it and stores or passes it.  LLVM takes the result only if its *)
(* type is the one the destination was created with.                       *)
(*                                                                         *)
(* LLVM types are the constructor sequences of TypeConvert.                *)
(***************************************************************************)
EXTENDS Types

CONSTANTS
  DataTypes    \* the types of variables and expressions

ASSUME DataTypesAssumption == \A t \in DataTypes : IsType(t)

VARIABLES
  how,      \* "assign", "value" or "reference"
  dest,     \* the type of the variable or of the parameter
  expr,     \* what the expression is: "lvalue", "rvalue", "nil", or
            \* "procedure", the call of a procedure
  source,   \* its type
  value,    \* the LLVM type of the value computed so far
  pc        \* "compile", "load", "convert", "done"

conversion == <<how, dest, expr, source, value, pc>>

NoValue == << >>

(* What the tests of Assignment::semantic, CallProc::semantic and          *)
(* CallFunc::semantic let through, for parameters that                     *)
(* ParameterGroup::semantic lets through.  Elsewhere any type may occur:   *)
(* the test of Variable::semantic is not made of the type of a function's  *)
(* result, which result and what it points to have.                        *)
Accepted ==
  IF how = "reference"
  THEN /\ expr = "lvalue" /\ IsCompatibleWith(typePointer(dest), typePointer(source))
       /\ ParameterTypeOK(dest, FALSE)
  ELSE /\ IsCompatibleWith(dest, source)
       /\ how = "value" => ParameterTypeOK(dest, TRUE)

(* nil and the call of a procedure have type void; no r-value is an array, *)
(* because no function returns one.                                        *)
Begin ==
  /\ how \in {"assign", "value", "reference"}
  /\ dest \in DataTypes
  /\ \/ expr = "lvalue" /\ source \in DataTypes
     \/ expr = "rvalue" /\ source \in { t \in DataTypes : ~IsArray(t) }
     \/ expr \in {"nil", "procedure"} /\ source = typeVoid
  /\ Accepted
  /\ value = NoValue
  /\ pc = "compile"

(* compile() of an l-value yields its address; nil is a null i32 pointer   *)
(* to pointer (Const::compile).                                            *)
Compile ==
  /\ pc = "compile"
  /\ value' = CASE expr = "lvalue" -> typePointer(TypeConvert(source))
                [] expr = "nil"    -> typePointer(typePointer(typeInteger))
                [] OTHER           -> TypeConvert(source)
  /\ pc' = "load"
  /\ UNCHANGED <<how, dest, expr, source>>

(* An l-value is loaded unless it is passed by reference: the load yields  *)
(* what the address points to.                                             *)
Load ==
  /\ pc = "load"
  /\ value' = IF expr = "lvalue" /\ how # "reference" THEN TypeConvert(source) ELSE value
  /\ pc' = "convert"
  /\ UNCHANGED <<how, dest, expr, source>>

(* The type the destination was created with: Variable::compile for a      *)
(* variable, FunctionDef::compile for a parameter.                         *)
Slot == IF how = "reference" THEN typePointer(TypeConvert(dest)) ELSE TypeConvert(dest)

(* CreatePointerCast makes a Slot of a pointer, and of nothing else: the   *)
(* call of a procedure has no value to cast.                               *)
PointerCast ==
  IF how = "reference" \/ expr = "nil" \/ Kind(source) = "pointer" THEN Slot ELSE NoValue

(* A mutation of Convert: the special case is only seen by value. *)
ConvertByValueOnly ==
  /\ pc = "convert"
  /\ value' =
       CASE how # "reference" /\ PointerSpecialCase(dest, source) -> PointerCast
         [] how = "assign" /\ Kind(source) = "void" -> PointerCast
         [] how # "reference" /\ Kind(dest) = "real" /\ Kind(source) = "integer" ->
              TypeConvert(typeReal)
         [] OTHER -> value
  /\ pc' = "done"
  /\ UNCHANGED <<how, dest, expr, source>>

(* Assignment::compile: nil and the special case of pointers are cast, an  *)
(* integer becomes a real; create_call: the same, except that a nil        *)
(* argument is left alone.                                                 *)
Convert ==
  /\ pc = "convert"
  /\ value' =
       CASE how = "reference" ->
              IF PointerSpecialCase(typePointer(dest), typePointer(source))
              THEN PointerCast ELSE value
         [] how # "reference" /\ PointerSpecialCase(dest, source) -> PointerCast
         [] how = "assign" /\ Kind(source) = "void" -> PointerCast
         [] how # "reference" /\ Kind(dest) = "real" /\ Kind(source) = "integer" ->
              TypeConvert(typeReal)
         [] OTHER -> value
  /\ pc' = "done"
  /\ UNCHANGED <<how, dest, expr, source>>

Step == Compile \/ Load \/ Convert

Conversion == Begin /\ [][Step]_conversion

-----------------------------------------------------------------------------
(* Properties                                                              *)

(* What the semantic rules accept, code generation can store: the value    *)
(* ends with exactly the LLVM type of its destination, in assignments and  *)
(* in both ways of passing, for every pair of types.  nil is claimed for   *)
(* assignments only, as create_call leaves it the i32** of Const::compile, *)
(* and the call of a procedure not at all.                                 *)
StoresTyped ==
  (pc = "done" /\ expr # "procedure" /\ (expr = "nil" => how = "assign")) =>
    value = Slot

Fetched == IF how = "reference" THEN typePointer(TypeConvert(source)) ELSE TypeConvert(source)

(* An address only ever becomes the address of the first element of the    *)
(* very array it points to: no conversion the compiler makes lets a        *)
(* program read memory as anything but what it was allocated as.           *)
PointersKeepElements ==
  (pc = "done" /\ expr \in {"lvalue", "rvalue"} /\ Kind(Slot) = "pointer") =>
    \/ Fetched = Slot
    \/ /\ Len(Fetched) >= 2
       /\ Fetched = typePointer(typeArray(Fetched[2].size, RefType(Slot)))
=============================================================================

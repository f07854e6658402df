------------------------------- MODULE Types -------------------------------
(***************************************************************************)
(* PCL types, the tests semantic analysis makes of them and the LLVM types *)
(* code generation gives them.                                             *)
(*                                                                         *)
(* A SemanticType is the sequence of its constructors, outermost first:    *)
(* ^array [3] of char is <<pointer, array(3), char>>, and refType is Tail. *)
(* size is 0 for every constructor but array.                              *)
(***************************************************************************)
EXTENDS Integers, Sequences

Constructors ==
  [kind : {"void", "integer", "real", "boolean", "char", "pointer", "array", "iarray"},
   size : Nat]

Constructor(k, n) == [kind |-> k, size |-> n]

typeVoid == << Constructor("void", 0) >>
typeInteger == << Constructor("integer", 0) >>
typeReal == << Constructor("real", 0) >>
typeBoolean == << Constructor("boolean", 0) >>
typeChar == << Constructor("char", 0) >>
typePointer(t) == << Constructor("pointer", 0) >> \o t
typeArray(n, t) == << Constructor("array", n) >> \o t
typeIArray(t) == << Constructor("iarray", 0) >> \o t

Kind(t) == t[1].kind
RefType(t) == Tail(t)
IsArray(t) == Kind(t) \in {"array", "iarray"}

(* What the grammar can spell: a basic constructor, and pointers and       *)
(* arrays before it.  Only an array has a size.                            *)
IsType(t) ==
  /\ t \in Seq(Constructors) /\ Len(t) >= 1
  /\ \A i \in 1 .. Len(t) :
       /\ t[i].kind # "void"
       /\ t[i].kind # "array" => t[i].size = 0
       /\ t[i].kind \in {"pointer", "array", "iarray"} <=> i < Len(t)

(* SemanticType::equals: constructor by constructor; only arrays have a    *)
(* size to compare.                                                        *)
Equals(t, u) ==
  /\ Len(t) = Len(u)
  /\ \A i \in 1 .. Len(t) :
       /\ t[i].kind = u[i].kind
       /\ t[i].kind = "array" => t[i].size = u[i].size

IsConcrete(t) == Kind(t) # "iarray"

(* A mutation of PointerSpecialCase: the elements are not compared. *)
PointerToAnyArray(t, u) ==
  /\ Kind(t) = "pointer" /\ Kind(u) = "pointer"
  /\ Kind(RefType(t)) = "iarray" /\ Kind(RefType(u)) = "array"

(* ^array of T may be given a ^array [n] of T. *)
PointerSpecialCase(t, u) ==
  /\ Kind(t) = "pointer" /\ Kind(u) = "pointer"
  /\ Kind(RefType(t)) = "iarray" /\ Kind(RefType(u)) = "array"
  /\ Equals(RefType(RefType(t)), RefType(RefType(u)))

(* is_compatible_with: a variable of type t can be given a value of type   *)
(* u.  One way.                                                            *)
IsCompatibleWith(t, u) ==
  \/ Kind(t) \in {"boolean", "char", "integer", "array"} /\ Equals(t, u)
  \/ Kind(t) = "real" /\ Kind(u) \in {"real", "integer"}
  \/ /\ Kind(t) = "pointer"
     /\ Equals(t, u) \/ PointerSpecialCase(t, u) \/ Kind(u) = "void"

(* The loops of Variable::semantic and ParameterGroup::semantic: the       *)
(* elements of every array in the type are concrete.                       *)
ElementsConcrete(t) ==
  \A i \in 1 .. Len(t) - 1 :
    t[i].kind \in {"array", "iarray"} => t[i + 1].kind # "iarray"

VariableTypeOK(t) == IsConcrete(t) /\ ElementsConcrete(t)

ParameterTypeOK(t, byValue) ==
  /\ byValue => ~IsArray(t)
  /\ ElementsConcrete(t)

(* TypeConvert.  The LLVM type keeps the shape but for array of T, which   *)
(* becomes the type of T: its pointer already is the address of a T.       *)
TypeConvert(t) ==
  LET convert[i \in 1 .. Len(t) + 1] ==
        IF i > Len(t) THEN << >>
        ELSE IF t[i].kind = "iarray" THEN convert[i + 1]
        ELSE << t[i] >> \o convert[i + 1]
  IN  convert[1]
=============================================================================

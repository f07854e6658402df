----------------------------- MODULE MCStorage -----------------------------
(* Storage with pointers to arrays of known and unknown size, to arrays of *)
(* arrays and to scalars.                                                  *)
EXTENDS Storage

MCTypeOf ==
  [a |-> typePointer(typeIArray(typeInteger)),
   b |-> typePointer(typeArray(2, typeInteger)),
   c |-> typePointer(typeInteger),
   d |-> typePointer(typeIArray(typeArray(2, typeInteger)))]

(* An array larger than a pointer. *)
LargeTypeOf ==
  [a |-> typePointer(typeIArray(typeInteger)),
   b |-> typePointer(typeArray(3, typeInteger))]

MCPointers == DOMAIN MCTypeOf
LargePointers == DOMAIN LargeTypeOf
MCCounts == {-1, 0, 1, 2}
MCIndices == 0 .. 2
=============================================================================

--------------------------- MODULE MCConversions ---------------------------
(* Conversions over every type of at most four constructors.               *)
EXTENDS Conversions

Basic == { typeInteger, typeReal, typeBoolean, typeChar }

Wrap(ts) ==
  ts \cup UNION { { typePointer(t), typeIArray(t), typeArray(2, t), typeArray(3, t) } : t \in ts }

SmallTypes == Wrap(Wrap(Wrap(Basic)))
=============================================================================

---------------------------- MODULE Values_proofs ----------------------------
(***************************************************************************)
(* The values of expressions and what is made of them: whatever the        *)
(* expression, the code computes what it means, and whatever the types, a  *)
(* value the semantic rules accept is stored with the LLVM type of its     *)
(* destination.                                                            *)
(***************************************************************************)
EXTENDS Conversions, Expressions, Types_proofs

-----------------------------------------------------------------------------
(* Expressions: the inductive invariant                                    *)

NilType == typePointer(typePointer(typeInteger))

(* The LLVM type of an r-value.                                            *)
ValueType(t) == IF t = typeVoid THEN NilType ELSE TypeConvert(t)

IsBool(d) == d \in { Bool(TRUE), Bool(FALSE) }

FlawKinds == {"or", "lvalue", "rvalue", "late"}

ComputesNode(e) ==
  e.got = IF e.lvalue THEN Address(e.type, e.meant) ELSE Value(ValueType(e.type), e.meant)

(* Of every expression on the stack: it has a type, only an l-value is an  *)
(* array, and code without flaws has computed it.                          *)
NodeOK(e) ==
  /\ e.lvalue \in BOOLEAN
  /\ IsType(e.type) \/ (e.type = typeVoid /\ ~e.lvalue)
  /\ IsArray(e.type) => e.lvalue
  /\ e.type = typeBoolean => IsBool(e.held)
  /\ ~e.lvalue => e.held = e.meant
  /\ e.flaws \subseteq FlawKinds
  /\ e.flaws = {} => ComputesNode(e)

(* Of every and and or that waits for its right operand: the code branches *)
(* as the source demands.                                                  *)
PendingOK(p) ==
  /\ p.op \in {"and", "or"} /\ p.base \in Nat
  /\ p.full \in BOOLEAN /\ p.demanded = (p.meant # Deciding(p.op)) /\ IsBool(p.meant)
  /\ p.flaws \subseteq FlawKinds
  /\ p.flaws = {} => p.left = Value(typeBoolean, p.meant) /\ p.full = p.demanded

NodesOK(s) == \E S : s \in Seq(S) /\ \A e \in S : NodeOK(e)
PendingsOK(s) == \E S : s \in Seq(S) /\ \A p \in S : PendingOK(p)

Bases(s, n) ==
  \A i \in 1 .. Len(s) : s[i].base <= IF i = Len(s) THEN n ELSE s[i + 1].base

(* An l-value just compiled holds what it held then: no call has happened  *)
(* since.                                                                  *)
FreshNode(e) == e.lvalue => Contents(e.meant, e.type) = e.held

Unflawed(s) == \A i \in 1 .. Len(s) : s[i].flaws = {}

Counts ==
  /\ flag \in BOOLEAN
  /\ written \in Nat /\ performed \in Nat /\ due \in Nat /\ nodes \in Nat
  /\ written <= performed /\ performed <= nodes /\ due <= nodes

ExpressionsInv ==
  /\ NodesOK(stack) /\ PendingsOK(pending) /\ Bases(pending, Len(stack))
  /\ Operands >= 1 => FreshNode(Top)
  /\ Counts
  /\ Unflawed(stack) /\ Unflawed(pending) => performed = due

-----------------------------------------------------------------------------
(* Sequences of expressions                                                *)

LEMMA NodesAre ==
  ASSUME NEW s, NodesOK(s)
  PROVE  Len(s) \in Nat /\ \A i \in 1 .. Len(s) : NodeOK(s[i])
BY DEF NodesOK

LEMMA PendingsAre ==
  ASSUME NEW s, PendingsOK(s)
  PROVE  Len(s) \in Nat /\ \A i \in 1 .. Len(s) : PendingOK(s[i])
BY DEF PendingsOK

LEMMA NodesPop ==
  ASSUME NEW s, NodesOK(s), NEW n \in Nat, n <= Len(s)
  PROVE  /\ NodesOK(SubSeq(s, 1, Len(s) - n)) /\ Len(SubSeq(s, 1, Len(s) - n)) = Len(s) - n
         /\ \A i \in 1 .. Len(s) - n : SubSeq(s, 1, Len(s) - n)[i] = s[i]
<1>1. PICK S : s \in Seq(S) /\ \A e \in S : NodeOK(e)
  BY DEF NodesOK
<1> HIDE DEF NodesOK
<1>2. /\ SubSeq(s, 1, Len(s) - n) \in Seq(S) /\ Len(SubSeq(s, 1, Len(s) - n)) = Len(s) - n
      /\ \A i \in 1 .. Len(s) - n : SubSeq(s, 1, Len(s) - n)[i] = s[i]
  BY <1>1
<1>3. QED
  BY <1>1, <1>2, Zenon DEF NodesOK

LEMMA PendingsPop ==
  ASSUME NEW s, PendingsOK(s), NEW n \in Nat, n <= Len(s)
  PROVE  /\ PendingsOK(SubSeq(s, 1, Len(s) - n)) /\ Len(SubSeq(s, 1, Len(s) - n)) = Len(s) - n
         /\ \A i \in 1 .. Len(s) - n : SubSeq(s, 1, Len(s) - n)[i] = s[i]
<1>1. PICK S : s \in Seq(S) /\ \A p \in S : PendingOK(p)
  BY DEF PendingsOK
<1>2. /\ SubSeq(s, 1, Len(s) - n) \in Seq(S) /\ Len(SubSeq(s, 1, Len(s) - n)) = Len(s) - n
      /\ \A i \in 1 .. Len(s) - n : SubSeq(s, 1, Len(s) - n)[i] = s[i]
  BY <1>1
<1>3. QED
  BY <1>1, <1>2, Zenon DEF PendingsOK

LEMMA Appended ==
  ASSUME NEW S, NEW s \in Seq(S), NEW e
  PROVE  /\ Append(s, e) \in Seq(S \cup {e}) /\ Len(Append(s, e)) = Len(s) + 1
         /\ Append(s, e)[Len(s) + 1] = e /\ Len(s) \in Nat
         /\ \A i \in 1 .. Len(s) : Append(s, e)[i] = s[i]
<1>1. s \in Seq(S \cup {e}) /\ e \in S \cup {e}
  OBVIOUS
<1>2. QED
  BY <1>1

LEMMA NodesAppend ==
  ASSUME NEW s, NodesOK(s), NEW e, NodeOK(e)
  PROVE  /\ NodesOK(Append(s, e)) /\ Len(Append(s, e)) = Len(s) + 1
         /\ Append(s, e)[Len(s) + 1] = e /\ Len(s) \in Nat
         /\ \A i \in 1 .. Len(s) : Append(s, e)[i] = s[i]
<1>1. PICK S : s \in Seq(S) /\ \A x \in S : NodeOK(x)
  BY DEF NodesOK
<1>2. \A x \in S \cup {e} : NodeOK(x)
  BY <1>1
<1>3. /\ Append(s, e) \in Seq(S \cup {e}) /\ Len(Append(s, e)) = Len(s) + 1
      /\ Append(s, e)[Len(s) + 1] = e /\ Len(s) \in Nat
      /\ \A i \in 1 .. Len(s) : Append(s, e)[i] = s[i]
  BY <1>1, Appended
<1>4. NodesOK(Append(s, e))
  BY <1>2, <1>3, Zenon DEF NodesOK
<1>5. QED
  BY <1>3, <1>4

LEMMA PendingsAppend ==
  ASSUME NEW s, PendingsOK(s), NEW p, PendingOK(p)
  PROVE  /\ PendingsOK(Append(s, p)) /\ Len(Append(s, p)) = Len(s) + 1
         /\ Append(s, p)[Len(s) + 1] = p /\ Len(s) \in Nat
         /\ \A i \in 1 .. Len(s) : Append(s, p)[i] = s[i]
<1>1. PICK S : s \in Seq(S) /\ \A x \in S : PendingOK(x)
  BY DEF PendingsOK
<1>2. \A x \in S \cup {p} : PendingOK(x)
  BY <1>1
<1>3. /\ Append(s, p) \in Seq(S \cup {p}) /\ Len(Append(s, p)) = Len(s) + 1
      /\ Append(s, p)[Len(s) + 1] = p /\ Len(s) \in Nat
      /\ \A i \in 1 .. Len(s) : Append(s, p)[i] = s[i]
  BY <1>1, Appended
<1>4. PendingsOK(Append(s, p))
  BY <1>2, <1>3, Zenon DEF PendingsOK
<1>5. QED
  BY <1>3, <1>4

-----------------------------------------------------------------------------
(* What pushing keeps                                                      *)

LEMMA OperandsCount ==
  ASSUME NodesOK(stack), PendingsOK(pending), Bases(pending, Len(stack))
  PROVE  /\ Base \in Nat /\ Base <= Len(stack) /\ Len(stack) \in Nat
         /\ Operands = Len(stack) - Base /\ Operands \in Nat
<1>1. Len(stack) \in Nat /\ Len(pending) \in Nat /\ \A i \in 1 .. Len(pending) : PendingOK(pending[i])
  BY NodesAre, PendingsAre
<1>2. CASE pending = << >>
  BY <1>1, <1>2 DEF Base, Operands
<1>3. CASE pending # << >>
  <2>1. Len(pending) \in 1 .. Len(pending)
    <3>1. PICK S : pending \in Seq(S)
      BY DEF PendingsOK
    <3>2. QED
      BY <1>3, <3>1
  <2>2. pending[Len(pending)].base \in Nat /\ pending[Len(pending)].base <= Len(stack)
    BY <1>1, <2>1 DEF PendingOK, Bases
  <2>3. QED
    BY <1>1, <1>3, <2>2 DEF Base, Operands
<1>4. QED
  BY <1>2, <1>3

LEMMA OperandsAre ==
  ASSUME NodesOK(stack), PendingsOK(pending), Bases(pending, Len(stack))
  PROVE  /\ Operands >= 1 => Len(stack) >= 1 /\ NodeOK(Top)
         /\ Operands >= 2 => Len(stack) >= 2 /\ NodeOK(Below)
<1>1. Len(stack) \in Nat /\ Base \in Nat /\ Operands = Len(stack) - Base
  BY OperandsCount
<1>2. \A i \in 1 .. Len(stack) : NodeOK(stack[i])
  BY NodesAre
<1>3. ASSUME Operands >= 1 PROVE Len(stack) >= 1 /\ NodeOK(Top)
  <2>1. Len(stack) \in 1 .. Len(stack)
    BY <1>1, <1>3
  <2>2. QED
    BY <1>1, <1>2, <2>1 DEF Top
<1>4. ASSUME Operands >= 2 PROVE Len(stack) >= 2 /\ NodeOK(Below)
  <2>1. Len(stack) - 1 \in 1 .. Len(stack) /\ Len(stack) >= 2
    BY <1>1, <1>4
  <2>2. QED
    BY <1>1, <1>2, <2>1 DEF Below
<1>5. QED
  BY <1>3, <1>4

(* Pushing onto what is left of the stack when n operands are popped.      *)
LEMMA PushKeeps ==
  ASSUME NodesOK(stack), PendingsOK(pending), Bases(pending, Len(stack)),
         NEW n \in Nat, n <= Operands,
         NEW w, NodesOK(w), Len(w) = Len(stack) - n, \A i \in 1 .. Len(w) : w[i] = stack[i],
         NEW e, NodeOK(e), Push(w, e), pending' = pending
  PROVE  /\ NodesOK(stack') /\ PendingsOK(pending') /\ Bases(pending', Len(stack'))
         /\ Len(stack') = Len(stack) - n + 1 /\ Top' = e
         /\ \A i \in 1 .. Len(stack) - n : stack'[i] = stack[i]
<1>1. stack' = Append(w, e)
  BY DEF Push
<1>2. /\ NodesOK(stack') /\ Len(stack') = Len(w) + 1 /\ stack'[Len(w) + 1] = e
      /\ Len(w) \in Nat /\ \A i \in 1 .. Len(w) : stack'[i] = w[i]
  <2>1. /\ NodesOK(Append(w, e)) /\ Len(Append(w, e)) = Len(w) + 1 /\ Append(w, e)[Len(w) + 1] = e
        /\ Len(w) \in Nat /\ \A i \in 1 .. Len(w) : Append(w, e)[i] = w[i]
    BY NodesAppend
  <2>2. QED
    BY <1>1, <2>1, Zenon
<1>3. Base \in Nat /\ Base <= Len(stack) /\ Len(stack) \in Nat /\ Operands = Len(stack) - Base
  BY OperandsCount
<1>4. Base <= Len(stack')
  BY <1>2, <1>3
<1>5. Bases(pending', Len(stack'))
  <2>1. ASSUME NEW i \in 1 .. Len(pending)
        PROVE  pending[i].base <= IF i = Len(pending) THEN Len(stack') ELSE pending[i + 1].base
    <3>1. CASE i # Len(pending)
      BY <3>1 DEF Bases
    <3>2. CASE i = Len(pending)
      <4>1. pending # << >>
        BY <3>2
      <4>2. QED
        BY <1>4, <3>2, <4>1 DEF Base
    <3>3. QED
      BY <3>1, <3>2
  <2>2. QED
    BY <2>1 DEF Bases
<1>6. QED
  BY <1>2, <1>3, <1>5 DEF Top

LEMMA PushInv ==
  ASSUME ExpressionsInv,
         NEW n \in Nat, n <= Operands,
         NEW w, NodesOK(w), Len(w) = Len(stack) - n, \A i \in 1 .. Len(w) : w[i] = stack[i],
         NEW e, NodeOK(e), FreshNode(e),
         e.flaws = {} => \A i \in Len(stack) - n + 1 .. Len(stack) : stack[i].flaws = {},
         Push(w, e), UNCHANGED <<pending, memory, performed, due>>
  PROVE  ExpressionsInv'
<1>1. NodesOK(stack) /\ PendingsOK(pending) /\ Bases(pending, Len(stack)) /\ pending' = pending
  BY DEF ExpressionsInv
<1>2. /\ NodesOK(stack') /\ PendingsOK(pending') /\ Bases(pending', Len(stack'))
      /\ Len(stack') = Len(stack) - n + 1 /\ Top' = e
      /\ \A i \in 1 .. Len(stack) - n : stack'[i] = stack[i]
  BY <1>1, PushKeeps
<1>3. FreshNode(Top)'
  BY <1>2 DEF FreshNode, Contents, memory, Top
<1>4. Counts'
  BY DEF ExpressionsInv, Counts, Push, memory
<1>5. ASSUME Unflawed(stack') PROVE Unflawed(stack)
  <2>1. Len(stack) \in Nat
    BY <1>1, NodesAre
  <2>2. Len(stack) - n + 1 \in 1 .. Len(stack') /\ stack'[Len(stack) - n + 1] = e
    <3>1. Len(stack) - n >= 0
      BY <1>1, OperandsCount
    <3>2. QED
      BY <1>2, <2>1, <3>1 DEF Top
  <2>3. e.flaws = {}
    BY <1>5, <2>2 DEF Unflawed
  <2>4. ASSUME NEW i \in 1 .. Len(stack) PROVE stack[i].flaws = {}
    <3>1. CASE i \in Len(stack) - n + 1 .. Len(stack)
      BY <2>3, <3>1
    <3>2. CASE i \in 1 .. Len(stack) - n
      <4>1. i \in 1 .. Len(stack')
        BY <1>2, <2>1, <3>2
      <4>2. QED
        BY <1>2, <1>5, <3>2, <4>1 DEF Unflawed
    <3>3. QED
      BY <2>1, <3>1, <3>2
  <2>5. QED
    BY <2>4 DEF Unflawed
<1>6. Unflawed(stack') /\ Unflawed(pending') => performed' = due'
  BY <1>1, <1>5 DEF ExpressionsInv
<1>7. QED
  BY <1>2, <1>3, <1>4, <1>6 DEF ExpressionsInv

(* The stack itself, and the stack without its top, to be pushed onto.     *)
LEMMA PopInv ==
  ASSUME ExpressionsInv, NEW n \in {1, 2}, n <= Operands,
         NEW e, NodeOK(e), FreshNode(e),
         e.flaws = {} => Top.flaws = {} /\ (n = 2 => Below.flaws = {}),
         Push(Pop(n), e), UNCHANGED <<pending, memory, performed, due>>
  PROVE  ExpressionsInv'
<1>1. NodesOK(stack) /\ PendingsOK(pending) /\ Bases(pending, Len(stack))
  BY DEF ExpressionsInv
<1>2. n \in Nat /\ n <= Len(stack) /\ Len(stack) \in Nat
  BY <1>1, OperandsCount
<1>3. /\ NodesOK(Pop(n)) /\ Len(Pop(n)) = Len(stack) - n
      /\ \A i \in 1 .. Len(stack) - n : Pop(n)[i] = stack[i]
  BY <1>1, <1>2, NodesPop DEF Pop
<1>4. e.flaws = {} => \A i \in Len(stack) - n + 1 .. Len(stack) : stack[i].flaws = {}
  <2>1. \A i \in Len(stack) - n + 1 .. Len(stack) : i = Len(stack) \/ (n = 2 /\ i = Len(stack) - 1)
    BY <1>2
  <2>2. QED
    BY <2>1 DEF Top, Below
<1> HIDE DEF Pop
<1>5. QED
  BY <1>2, <1>3, <1>4, PushInv

LEMMA GrowInv ==
  ASSUME ExpressionsInv, NEW e, NodeOK(e), FreshNode(e),
         Push(stack, e), UNCHANGED <<pending, memory, performed, due>>
  PROVE  ExpressionsInv'
<1>1. NodesOK(stack) /\ PendingsOK(pending) /\ Bases(pending, Len(stack))
  BY DEF ExpressionsInv
<1>2. Len(stack) \in Nat /\ Operands \in Nat
  BY <1>1, OperandsCount
<1>3. /\ 0 \in Nat /\ 0 <= Operands /\ Len(stack) = Len(stack) - 0
      /\ \A i \in Len(stack) - 0 + 1 .. Len(stack) : stack[i].flaws = {}
  BY <1>2
<1>4. QED
  BY <1>1, <1>3, PushInv

-----------------------------------------------------------------------------
(* Nodes and loads                                                         *)

LEMMA TypesDiffer ==
  /\ typeVoid # typeInteger /\ typeVoid # typeReal /\ typeVoid # typeBoolean
  /\ typeInteger # typeReal /\ typeInteger # typeBoolean /\ typeReal # typeBoolean
  /\ Kind(typeVoid) = "void" /\ Kind(typeInteger) = "integer" /\ Kind(typeReal) = "real"
  /\ Kind(typeBoolean) = "boolean" /\ ~IsArray(typeVoid)
BY DEF typeVoid, typeInteger, typeReal, typeBoolean, Constructor, Kind, IsArray

LEMMA NotVoid ==
  ASSUME NEW t, IsType(t)
  PROVE  t # typeVoid /\ Kind(t) # "void" /\ ValueType(t) = TypeConvert(t)
<1>1. Kind(t) # "void"
  BY ScalarOrLonger
<1>2. QED
  BY <1>1, TypesDiffer DEF ValueType

LEMMA BasicValues ==
  /\ IsType(typeInteger) /\ IsType(typeReal) /\ IsType(typeBoolean)
  /\ ~IsArray(typeInteger) /\ ~IsArray(typeReal) /\ ~IsArray(typeBoolean)
  /\ ValueType(typeInteger) = typeInteger /\ ValueType(typeReal) = typeReal
  /\ ValueType(typeBoolean) = typeBoolean
<1>1. \A t \in { typeInteger, typeReal, typeBoolean, typeChar } :
        IsType(t) /\ ~IsArray(t) /\ ValueType(t) = t
  BY BasicTypes, NotVoid DEF IsArray
<1>2. QED
  BY <1>1

LEMMA BoolIs ==
  /\ \A b : IsBool(Bool(b)) 
  /\ Bool(TRUE) # Bool(FALSE)
BY DEF IsBool, Bool

(* Without flaws the code computes w, the value meant.                     *)
Means(f, v, w) == f = {} => v = w

GoodNode(e, f) == NodeOK(e) /\ FreshNode(e) /\ e.flaws = f

RValueOK(t, m) ==
  /\ IsType(t) \/ t = typeVoid
  /\ ~IsArray(t)
  /\ t = typeBoolean => IsBool(m)

LEMMA LValueNode ==
  ASSUME NEW t, IsType(t), NEW v, NEW m, NEW f, f \subseteq FlawKinds,
         Means(f, v, Address(t, m))
  PROVE  GoodNode(Node(t, TRUE, v, m, f), f)
<1> DEFINE e == Node(t, TRUE, v, m, f)
<1>1. /\ e.type = t /\ e.lvalue = TRUE /\ e.got = v /\ e.meant = m /\ e.held = Contents(m, t)
      /\ e.flaws = f
  BY DEF Node
<1> HIDE DEF e
<1>2. t = typeBoolean => IsBool(Contents(m, t))
  BY BoolIs DEF Contents
<1>3. QED
  BY <1>1, <1>2 DEF NodeOK, ComputesNode, FreshNode, GoodNode, Means, e

LEMMA RValueNode ==
  ASSUME NEW t, NEW m, RValueOK(t, m), NEW v, NEW f, f \subseteq FlawKinds,
         Means(f, v, Value(ValueType(t), m))
  PROVE  GoodNode(Node(t, FALSE, v, m, f), f)
<1> DEFINE e == Node(t, FALSE, v, m, f)
<1>1. /\ e.type = t /\ e.lvalue = FALSE /\ e.got = v /\ e.meant = m /\ e.held = m /\ e.flaws = f
  BY DEF Node
<1> HIDE DEF e
<1>2. QED
  BY <1>1 DEF NodeOK, ComputesNode, FreshNode, GoodNode, RValueOK, Means, e

(* Loading an l-value once yields what it held.                            *)
LEMMA LoadIs ==
  ASSUME NEW e, NodeOK(e), FreshNode(e), e.flaws = {}, ~IsArray(e.type)
  PROVE  Loaded(e) = Value(ValueType(e.type), Meaning(e))
<1>1. CASE e.lvalue
  <2>1. IsType(e.type) /\ e.got = Address(e.type, e.meant) /\ Contents(e.meant, e.type) = e.held
    BY <1>1 DEF NodeOK, ComputesNode, FreshNode
  <2> DEFINE w == TypeConvert(e.type)
             v == Value(typePointer(w), e.meant)
  <2>2. w \in Seq(Constructors)
    BY <2>1, ConvertTyped
  <2>3. e.got = v /\ v.ty = typePointer(w) /\ v.data = e.meant
    BY <2>1 DEF Address, Value
  <2>4. w = typeBoolean <=> e.type = typeBoolean
    BY <2>1, ConvertBoolean
  <2> HIDE DEF w, v
  <2>5. Kind(v.ty) = "pointer" /\ RefType(v.ty) = w
    BY <2>2, <2>3, PointerPrefix
  <2>6. Loaded(e) = Value(w, Contents(e.meant, w))
    BY <1>1, <2>3, <2>5 DEF Loaded, CreateLoad
  <2>7. Contents(e.meant, w) = Contents(e.meant, e.type)
    BY <2>4 DEF Contents
  <2>8. ValueType(e.type) = w
    BY <2>1, NotVoid DEF w
  <2>9. QED
    BY <2>1, <2>6, <2>7, <2>8 DEF Meaning
<1>2. CASE ~e.lvalue
  BY <1>2 DEF NodeOK, ComputesNode, Loaded, Meaning
<1>3. QED
  BY <1>1, <1>2

LEMMA NotLate ==
  ASSUME NEW e, Late(e) = {}
  PROVE  FreshNode(e)
BY DEF Late, FreshNode

LEMMA LateKind == \A e : Late(e) \subseteq FlawKinds
BY DEF Late, FlawKinds

-----------------------------------------------------------------------------
(* The nodes, one by one                                                   *)

LEMMA InitExpressions == Init => ExpressionsInv
<1> SUFFICES ASSUME Init PROVE ExpressionsInv
  OBVIOUS
<1>1. stack = << >> /\ pending = << >> /\ Len(stack) = 0 /\ Len(pending) = 0
  BY DEF Init
<1>2. << >> \in Seq({}) /\ 1 .. 0 = {}
  OBVIOUS
<1>3. NodesOK(stack) /\ PendingsOK(pending)
  BY <1>1, <1>2 DEF NodesOK, PendingsOK
<1>4. Bases(pending, Len(stack)) /\ Operands = 0
  BY <1>1 DEF Bases, Operands, Base
<1>5. Counts /\ performed = due
  BY DEF Init, Counts
<1>6. QED
  BY <1>3, <1>4, <1>5 DEF ExpressionsInv

LEMMA TopIs ==
  ASSUME ExpressionsInv, Operands >= 1
  PROVE  NodeOK(Top) /\ FreshNode(Top) /\ Top.flaws \subseteq FlawKinds
BY OperandsAre DEF ExpressionsInv, NodeOK

LEMMA BelowIs ==
  ASSUME ExpressionsInv, Operands >= 2
  PROVE  NodeOK(Below) /\ Below.flaws \subseteq FlawKinds
BY OperandsAre DEF ExpressionsInv, NodeOK

LEMMA PushVariableInv == ExpressionsInv /\ PushVariable => ExpressionsInv'
<1> SUFFICES ASSUME ExpressionsInv, PushVariable PROVE ExpressionsInv'
  OBVIOUS
<1>1. PICK t \in VariableTypes :
        Push(stack, Node(t, TRUE, Address(t, <<"at", t>>), <<"at", t>>, {}))
  BY DEF PushVariable
<1> DEFINE e == Node(t, TRUE, Address(t, <<"at", t>>), <<"at", t>>, {})
<1>2. NodeOK(e) /\ FreshNode(e) /\ Push(stack, e)
  <2> DEFINE f == {}
             v == Address(t, <<"at", t>>)
  <2>1. IsType(t) /\ f \subseteq FlawKinds /\ Means(f, v, Address(t, <<"at", t>>))
    BY TypesAssumption DEF Means
  <2> HIDE DEF f, v
  <2>2. GoodNode(Node(t, TRUE, v, <<"at", t>>, f), f)
    BY <2>1, LValueNode
  <2>3. QED
    BY <1>1, <2>2 DEF GoodNode, f, v
<1> HIDE DEF e
<1>3. QED
  BY <1>1, <1>2, GrowInv DEF PushVariable

LEMMA PushConstInv == ExpressionsInv /\ PushConst => ExpressionsInv'
<1> SUFFICES ASSUME ExpressionsInv, PushConst PROVE ExpressionsInv'
  OBVIOUS
<1>1. PICK t \in Constants :
        \E d \in IF t = typeBoolean THEN { Bool(TRUE), Bool(FALSE) } ELSE { <<"constant">> } :
          Push(stack, Node(t, FALSE, Value(IF t = typeVoid THEN NilType ELSE t, d), d, {}))
  BY DEF PushConst, NilType
<1>2. PICK d \in IF t = typeBoolean THEN { Bool(TRUE), Bool(FALSE) } ELSE { <<"constant">> } :
        Push(stack, Node(t, FALSE, Value(IF t = typeVoid THEN NilType ELSE t, d), d, {}))
  BY <1>1
<1>3. t = typeVoid \/ (t \in { typeInteger, typeReal, typeBoolean, typeChar })
  BY TypesAssumption
<1>4. t = typeVoid \/ (IsType(t) /\ TypeConvert(t) = t /\ ~IsArray(t))
  BY <1>3, BasicTypes DEF IsArray
<1>5. (IF t = typeVoid THEN NilType ELSE t) = ValueType(t)
  BY <1>4 DEF ValueType
<1>6. t = typeBoolean => IsBool(d)
  BY <1>2 DEF IsBool
<1> DEFINE e == Node(t, FALSE, Value(ValueType(t), d), d, {})
<1>7. NodeOK(e) /\ FreshNode(e)
  <2> DEFINE f == {}
             v == Value(ValueType(t), d)
  <2>1. RValueOK(t, d) /\ f \subseteq FlawKinds /\ Means(f, v, Value(ValueType(t), d))
    BY <1>4, <1>6, TypesDiffer DEF RValueOK, Means
  <2> HIDE DEF f, v
  <2>2. GoodNode(Node(t, FALSE, v, d, f), f)
    BY <2>1, RValueNode
  <2>3. QED
    BY <2>2 DEF GoodNode, f, v
<1>8. Push(stack, e)
  BY <1>2, <1>5
<1> HIDE DEF e
<1>9. QED
  BY <1>7, <1>8, GrowInv DEF PushConst

(* The one node that calls: every branch of the code around it is taken    *)
(* exactly when the source demands it, and what a call changes is not what *)
(* the topmost l-value holds, for the result of the call is the topmost.   *)
LEMMA PushCallInv == ExpressionsInv /\ PushCall => ExpressionsInv'
<1> SUFFICES ASSUME ExpressionsInv, PushCall PROVE ExpressionsInv'
  OBVIOUS
<1>1. PICK t \in CallTypes :
        \E d \in IF t = typeBoolean THEN { Bool(TRUE), Bool(FALSE) } ELSE { <<"result">> } :
          Push(stack, Node(t, FALSE, Value(TypeConvert(t), d), d, {}))
  BY DEF PushCall
<1>2. PICK d \in IF t = typeBoolean THEN { Bool(TRUE), Bool(FALSE) } ELSE { <<"result">> } :
        Push(stack, Node(t, FALSE, Value(TypeConvert(t), d), d, {}))
  BY <1>1
<1>3. IsType(t) /\ ~IsArray(t) /\ (t = typeBoolean => IsBool(d))
  BY <1>2, TypesAssumption DEF IsBool
<1> DEFINE e == Node(t, FALSE, Value(TypeConvert(t), d), d, {})
<1>4. NodeOK(e) /\ ~e.lvalue
  <2> DEFINE f == {}
             v == Value(TypeConvert(t), d)
  <2>1. RValueOK(t, d) /\ f \subseteq FlawKinds /\ Means(f, v, Value(ValueType(t), d))
    BY <1>3, NotVoid DEF RValueOK, Means
  <2> HIDE DEF f, v
  <2>2. GoodNode(Node(t, FALSE, v, d, f), f)
    BY <2>1, RValueNode
  <2>3. QED
    BY <2>2 DEF GoodNode, Node, f, v
<1>5. Push(stack, e)
  BY <1>2
<1> HIDE DEF e
<1>6. NodesOK(stack) /\ PendingsOK(pending) /\ Bases(pending, Len(stack)) /\ pending' = pending
  BY DEF ExpressionsInv, PushCall
<1>7. 0 \in Nat /\ 0 <= Operands /\ Len(stack) = Len(stack) - 0 /\ Len(stack) \in Nat
  BY <1>6, OperandsCount
<1>8. /\ NodesOK(stack') /\ PendingsOK(pending') /\ Bases(pending', Len(stack'))
      /\ Len(stack') = Len(stack) - 0 + 1 /\ Top' = e
      /\ \A i \in 1 .. Len(stack) - 0 : stack'[i] = stack[i]
  BY <1>4, <1>5, <1>6, <1>7, PushKeeps
<1>9. FreshNode(Top)'
  BY <1>4, <1>8 DEF FreshNode, Top
<1>10. Unflawed(stack') /\ Unflawed(pending') => performed' = due'
  <2> SUFFICES ASSUME Unflawed(stack'), Unflawed(pending') PROVE performed' = due'
    OBVIOUS
  <2>1. Unflawed(stack)
    <3>1. \A i \in 1 .. Len(stack) : i \in 1 .. Len(stack') /\ stack'[i] = stack[i]
      BY <1>7, <1>8
    <3>2. QED
      BY <3>1 DEF Unflawed
  <2>2. performed = due
    BY <1>6, <2>1 DEF ExpressionsInv
  <2>3. \A i \in 1 .. Len(pending) : pending[i].full = pending[i].demanded
    BY <1>6, PendingsAre DEF Unflawed, PendingOK
  <2>4. Count(Running) = Count(Demanded)
    BY <2>3 DEF Count, Running, Demanded
  <2>5. QED
    BY <2>2, <2>4 DEF PushCall
<1>11. Counts'
  <2>1. Count(Running) \in {0, 1} /\ Count(Demanded) \in {0, 1} /\ (Running => Count(Running) = 1)
    BY DEF Count
  <2> DEFINE c == Count(Running)
             b == Count(Demanded)
  <2>2. /\ nodes' = nodes + 1
        /\ performed' = performed + c /\ due' = due + b
        /\ \/ flag' = flag /\ written' = written
           \/ c = 1 /\ flag' = ~flag /\ written' = written + 1
    BY <2>1 DEF PushCall, Push, memory
  <2>3. c \in {0, 1} /\ b \in {0, 1}
    BY <2>1
  <2> HIDE DEF c, b
  <2>4. flag' \in BOOLEAN
    BY <2>2 DEF ExpressionsInv, Counts
  <2>5. /\ written' \in Nat /\ performed' \in Nat /\ due' \in Nat /\ nodes' \in Nat
        /\ written' <= performed' /\ performed' <= nodes' /\ due' <= nodes'
    BY <2>2, <2>3 DEF ExpressionsInv, Counts
  <2>6. QED
    BY <2>4, <2>5 DEF Counts
<1>12. QED
  BY <1>8, <1>9, <1>10, <1>11 DEF ExpressionsInv

(* The index is an integer, loaded; the array is an address, and TypeConvert *)
(* says whether it is that of the array or of its first element.           *)
Stepped(e, v) ==
  CASE v.ty # typeInteger \/ Kind(e.got.ty) # "pointer" -> IllTyped
    [] Kind(e.type) = "iarray" -> Value(e.got.ty, <<"element", e.got.data, v.data>>)
    [] OTHER ->
         IF Kind(RefType(e.got.ty)) = "array"
         THEN Value(typePointer(RefType(RefType(e.got.ty))), <<"element", e.got.data, v.data>>)
         ELSE IllTyped

LEMMA ElementIs ==
  ASSUME NEW e, NodeOK(e), e.flaws = {}, IsArray(e.type), NEW v, v.ty = typeInteger, NEW x,
         v.data = x
  PROVE  Stepped(e, v) = Address(RefType(e.type), <<"element", e.meant, x>>)
<1>1. e.lvalue /\ IsType(e.type) /\ e.got = Address(e.type, e.meant)
  BY TypesDiffer DEF NodeOK, ComputesNode
<1> DEFINE t == e.type
           w == TypeConvert(t)
           u == TypeConvert(RefType(t))
<1>2. /\ w \in Seq(Constructors) /\ u \in Seq(Constructors)
      /\ Kind(t) = "iarray" => w = u
      /\ Kind(t) = "array" => w = typeArray(t[1].size, u)
  BY <1>1, ConvertTyped, LongerIs DEF IsArray
<1>3. e.got.ty = typePointer(w) /\ e.got.data = e.meant
  BY <1>1 DEF Address, Value
<1>4. Kind(t) = "array" => t[1].size \in Nat
  BY <1>1, ScalarOrLonger DEF Constructors
<1>5. Address(RefType(t), <<"element", e.meant, x>>) = Value(typePointer(u), <<"element", e.meant, x>>)
  BY DEF Address
<1>6. Kind(t) = "iarray" \/ Kind(t) = "array"
  BY DEF IsArray
<1> HIDE DEF t, w, u
<1>7. Kind(e.got.ty) = "pointer" /\ RefType(e.got.ty) = w
  BY <1>2, <1>3, PointerPrefix
<1>8. CASE Kind(t) = "iarray"
  BY <1>2, <1>3, <1>5, <1>7, <1>8 DEF t, Stepped
<1>9. CASE Kind(t) = "array"
  <2>1. Kind(w) = "array" /\ RefType(w) = u
    BY <1>2, <1>4, <1>9, ArrayPrefix
  <2>2. Kind(t) # "iarray"
    BY <1>9
  <2>3. QED
    BY <1>3, <1>5, <1>7, <2>1, <2>2 DEF t, Stepped
<1>10. QED
  BY <1>6, <1>8, <1>9

LEMMA ArrayAccessInv == ExpressionsInv /\ ArrayAccess => ExpressionsInv'
<1> SUFFICES ASSUME ExpressionsInv, ArrayAccess PROVE ExpressionsInv'
  OBVIOUS
<1>1. /\ Operands >= 2 /\ IsArray(Top.type) /\ Below.type = typeInteger
      /\ UNCHANGED <<pending, memory, performed, due>>
  BY DEF ArrayAccess
<1>2. 2 <= Operands /\ Operands >= 1
  <2>1. Operands \in Nat
    BY OperandsCount DEF ExpressionsInv
  <2>2. QED
    BY <1>1, <2>1
<1>3. NodeOK(Top) /\ NodeOK(Below) /\ Top.flaws \subseteq FlawKinds /\ Below.flaws \subseteq FlawKinds
  BY <1>1, <1>2, TopIs, BelowIs
<1> DEFINE i == Loaded(Below)
           f == Top.flaws \cup Below.flaws \cup Late(Below)
           x == Meaning(Below)
           got == Stepped(Top, i)
           e == Node(RefType(Top.type), TRUE, got, <<"element", Top.meant, x>>, f)
<1>4. Push(Pop(2), e)
  BY DEF ArrayAccess, Stepped
<1>5. f \subseteq FlawKinds /\ (f = {} => Top.flaws = {} /\ Below.flaws = {} /\ Late(Below) = {})
  BY <1>3, LateKind
<1>6. IsType(RefType(Top.type))
  <2>1. IsType(Top.type)
    BY <1>1, <1>3, TypesDiffer DEF NodeOK
  <2>2. QED
    BY <1>1, <2>1, LongerIs DEF IsArray
<1>7. Means(f, got, Address(RefType(Top.type), <<"element", Top.meant, x>>))
  <2> SUFFICES ASSUME f = {} PROVE got = Address(RefType(Top.type), <<"element", Top.meant, x>>)
    BY DEF Means
  <2>1. FreshNode(Below)
    BY <1>5, NotLate
  <2>2. i = Value(typeInteger, x)
    BY <1>1, <1>3, <1>5, <2>1, LoadIs, BasicValues
  <2>3. i.ty = typeInteger /\ i.data = x
    BY <2>2 DEF Value
  <2> HIDE DEF i, x
  <2>4. QED
    BY <1>1, <1>3, <1>5, <2>3, ElementIs, Zenon
<1> HIDE DEF got, f, x, i
<1>8. GoodNode(e, f)
  BY <1>5, <1>6, <1>7, LValueNode
<1> HIDE DEF e
<1>9. QED
  BY <1>1, <1>2, <1>4, <1>5, <1>8, PopInv DEF GoodNode

LEMMA OneOperand ==
  ASSUME ExpressionsInv, Operands >= 1
  PROVE  /\ 1 <= Operands /\ 1 \in {1, 2} /\ 1 # 2
         /\ NodeOK(Top) /\ FreshNode(Top) /\ Top.flaws \subseteq FlawKinds
<1>1. Operands \in Nat
  BY OperandsCount DEF ExpressionsInv
<1>2. QED
  BY <1>1, TopIs

LEMMA DereferenceInv == ExpressionsInv /\ Dereference => ExpressionsInv'
<1> SUFFICES ASSUME ExpressionsInv, Dereference PROVE ExpressionsInv'
  OBVIOUS
<1> DEFINE f == Top.flaws \cup IF Top.lvalue THEN {} ELSE {"rvalue"}
           t == Top.type
           x == Meaning(Top)
           e == Node(RefType(t), TRUE, CreateLoad(Top.got), x, f)
<1>1. /\ Operands >= 1 /\ Kind(t) = "pointer" /\ Push(Pop(1), e)
      /\ UNCHANGED <<pending, memory, performed, due>>
  BY DEF Dereference
<1>2. NodeOK(Top) /\ FreshNode(Top) /\ Top.flaws \subseteq FlawKinds
  BY <1>1, OneOperand
<1>3. IsType(t) /\ ~IsArray(t)
  BY <1>1, <1>2, TypesDiffer DEF NodeOK, IsArray
<1>4. IsType(RefType(t)) /\ TypeConvert(t) = typePointer(TypeConvert(RefType(t)))
  BY <1>1, <1>3, LongerIs
<1>5. f \subseteq FlawKinds /\ (f = {} => Top.flaws = {} /\ Top.lvalue)
  BY <1>2 DEF FlawKinds
<1>6. Means(f, CreateLoad(Top.got), Address(RefType(t), x))
  <2> SUFFICES ASSUME f = {} PROVE CreateLoad(Top.got) = Address(RefType(t), x)
    BY DEF Means
  <2>1. Loaded(Top) = Value(ValueType(t), x)
    BY <1>2, <1>3, <1>5, LoadIs
  <2>2. ValueType(t) = TypeConvert(t)
    BY <1>3, NotVoid
  <2>3. Loaded(Top) = CreateLoad(Top.got)
    BY <1>5 DEF Loaded
  <2>4. QED
    BY <1>4, <2>1, <2>2, <2>3 DEF Address
<1> HIDE DEF f, t, x
<1>7. GoodNode(e, f)
  BY <1>4, <1>5, <1>6, LValueNode
<1> HIDE DEF e
<1>8. QED
  BY <1>1, <1>5, <1>7, OneOperand, PopInv DEF GoodNode

LEMMA AddressOfInv == ExpressionsInv /\ AddressOf => ExpressionsInv'
<1> SUFFICES ASSUME ExpressionsInv, AddressOf PROVE ExpressionsInv'
  OBVIOUS
<1> DEFINE t == Top.type
           e == Node(typePointer(t), FALSE, Top.got, Top.meant, Top.flaws)
<1>1. /\ Operands >= 1 /\ Top.lvalue /\ Push(Pop(1), e)
      /\ UNCHANGED <<pending, memory, performed, due>>
  BY DEF AddressOf
<1>2. NodeOK(Top) /\ FreshNode(Top) /\ Top.flaws \subseteq FlawKinds
  BY <1>1, OneOperand
<1>3. IsType(t) /\ t \in Seq(Constructors)
  BY <1>1, <1>2 DEF NodeOK, IsType
<1>4. /\ IsType(typePointer(t)) /\ Kind(typePointer(t)) = "pointer"
      /\ ValueType(typePointer(t)) = typePointer(TypeConvert(t))
  BY <1>3, PointerIsType, NotVoid, ConvertPointer
<1>5. RValueOK(typePointer(t), Top.meant)
  BY <1>4, TypesDiffer DEF IsArray, RValueOK
<1>6. Means(Top.flaws, Top.got, Value(ValueType(typePointer(t)), Top.meant))
  BY <1>1, <1>2, <1>4 DEF NodeOK, ComputesNode, Address, Means
<1> HIDE DEF t
<1>7. GoodNode(e, Top.flaws)
  BY <1>2, <1>5, <1>6, RValueNode
<1> HIDE DEF e
<1>8. QED
  BY <1>1, <1>7, OneOperand, PopInv DEF GoodNode

LEMMA SignInv == ExpressionsInv /\ Sign => ExpressionsInv'
<1> SUFFICES ASSUME ExpressionsInv, Sign PROVE ExpressionsInv'
  OBVIOUS
<1> DEFINE t == Top.type
           x == Meaning(Top)
           minus == Instruction("-", t, t, Value(t, <<"zero">>), Loaded(Top))
           f == Top.flaws \cup IF Top.lvalue THEN {"lvalue"} ELSE {}
           d == Node(t, FALSE, minus, <<"-", <<"zero">>, x>>, Top.flaws)
           e == Node(t, FALSE, Top.got, x, f)
<1>1. /\ Operands >= 1 /\ t \in {typeInteger, typeReal}
      /\ Push(Pop(1), d) \/ Push(Pop(1), e)
      /\ UNCHANGED <<pending, memory, performed, due>>
  BY DEF Sign, Numeric
<1>2. NodeOK(Top) /\ FreshNode(Top) /\ Top.flaws \subseteq FlawKinds
  BY <1>1, OneOperand
<1>3. IsType(t) /\ ~IsArray(t) /\ ValueType(t) = t /\ t # typeBoolean
  BY <1>1, BasicValues, TypesDiffer
<1>4. f \subseteq FlawKinds /\ (f = {} => Top.flaws = {} /\ ~Top.lvalue)
  BY <1>2 DEF FlawKinds
<1>5. Means(Top.flaws, minus, Value(ValueType(t), <<"-", <<"zero">>, x>>))
  <2> SUFFICES ASSUME Top.flaws = {} PROVE minus = Value(t, <<"-", <<"zero">>, x>>)
    BY <1>3 DEF Means
  <2>1. Loaded(Top) = Value(t, x)
    BY <1>2, <1>3, LoadIs
  <2>2. QED
    BY <2>1 DEF Instruction, Value
<1>6. Means(f, Top.got, Value(ValueType(t), x))
  BY <1>2, <1>3, <1>4 DEF NodeOK, ComputesNode, Meaning, Means
<1>10. RValueOK(t, x) /\ RValueOK(t, <<"-", <<"zero">>, x>>)
  BY <1>3 DEF RValueOK
<1> HIDE DEF t, x, minus, f
<1>7. CASE Push(Pop(1), d)
  <2>1. GoodNode(d, Top.flaws)
    BY <1>2, <1>5, <1>10, RValueNode
  <2> HIDE DEF d, e
  <2>2. QED
    BY <1>1, <1>7, <2>1, OneOperand, PopInv DEF GoodNode
<1>8. CASE Push(Pop(1), e)
  <2>1. GoodNode(e, f)
    BY <1>4, <1>6, <1>10, RValueNode
  <2> HIDE DEF d, e
  <2>2. QED
    BY <1>1, <1>4, <1>8, <2>1, OneOperand, PopInv DEF GoodNode
<1>9. QED
  BY <1>1, <1>7, <1>8

LEMMA NotInv == ExpressionsInv /\ Not => ExpressionsInv'
<1> SUFFICES ASSUME ExpressionsInv, Not PROVE ExpressionsInv'
  OBVIOUS
<1> DEFINE f == Top.flaws \cup IF Top.lvalue THEN {"lvalue"} ELSE {}
           m == Bool(Meaning(Top) = Bool(FALSE))
           e == Node(typeBoolean, FALSE, CreateNot(Top.got), m, f)
<1>1. /\ Operands >= 1 /\ Top.type = typeBoolean /\ Push(Pop(1), e)
      /\ UNCHANGED <<pending, memory, performed, due>>
  BY DEF Not
<1>2. NodeOK(Top) /\ FreshNode(Top) /\ Top.flaws \subseteq FlawKinds
  BY <1>1, OneOperand
<1>3. f \subseteq FlawKinds /\ (f = {} => Top.flaws = {} /\ ~Top.lvalue)
  BY <1>2 DEF FlawKinds
<1>4. Means(f, CreateNot(Top.got), Value(ValueType(typeBoolean), m))
  <2> SUFFICES ASSUME f = {} PROVE CreateNot(Top.got) = Value(typeBoolean, m)
    BY BasicValues DEF Means
  <2>1. Top.got = Value(typeBoolean, Meaning(Top))
    BY <1>1, <1>2, <1>3, BasicValues DEF NodeOK, ComputesNode, Meaning
  <2>2. QED
    BY <2>1 DEF CreateNot, Value
<1>5. RValueOK(typeBoolean, m)
  BY BoolIs, BasicValues DEF RValueOK
<1> HIDE DEF f, m
<1>6. GoodNode(e, f)
  BY <1>3, <1>4, <1>5, RValueNode
<1> HIDE DEF e
<1>7. QED
  BY <1>1, <1>3, <1>6, OneOperand, PopInv DEF GoodNode

-----------------------------------------------------------------------------
(* Binary operators                                                        *)

LEMMA EqualOrVoid ==
  ASSUME NEW t, IsType(t) \/ t = typeVoid, NEW u, IsType(u) \/ u = typeVoid, Equals(t, u)
  PROVE  t = u
<1>1. CASE IsType(t) /\ IsType(u)
  BY <1>1, EqualTypes
<1>2. CASE t = typeVoid \/ u = typeVoid
  <2>1. Len(typeVoid) = 1
    BY DEF typeVoid
  <2>2. Len(t) = Len(u) /\ Len(t) = 1
    BY <1>2, <2>1 DEF Equals
  <2>3. Kind(t) = Kind(u)
    BY <2>2 DEF Equals, Kind
  <2>4. QED
    BY <1>2, <2>3, NotVoid, TypesDiffer
<1>3. QED
  BY <1>1, <1>2

(* What the operand rules let through.                                     *)
LEMMA OperandCases ==
  ASSUME NEW op, NEW t, IsType(t) \/ t = typeVoid, NEW u, IsType(u) \/ u = typeVoid,
         OperandsOK(op, t, u)
  PROVE  \/ t \in {typeInteger, typeReal} /\ u \in {typeInteger, typeReal}
         \/ op \in Equality /\ t = u /\ ~IsArray(t)
         \/ op \in Equality /\ Kind(t) = "pointer" /\ u = typeVoid
         \/ op \in Equality /\ Kind(u) = "pointer" /\ t = typeVoid
BY EqualOrVoid DEF OperandsOK, Numeric

LEMMA RealOperands ==
  ASSUME NEW op, NEW t, NEW u, IsReal(op, t, u), OperandsOK(op, t, u),
         IsType(t) \/ t = typeVoid, IsType(u) \/ u = typeVoid
  PROVE  t \in {typeInteger, typeReal} /\ u \in {typeInteger, typeReal}
<1>1. op \in Equality => op # "/"
  BY DEF Equality
<1>2. Kind(typeReal) # "pointer" /\ typeVoid # typeReal
  BY TypesDiffer
<1>3. t = typeReal \/ u = typeReal \/ op = "/"
  BY DEF IsReal
<1>4. \/ t \in {typeInteger, typeReal} /\ u \in {typeInteger, typeReal}
      \/ op \in Equality /\ t = u /\ ~IsArray(t)
      \/ op \in Equality /\ Kind(t) = "pointer" /\ u = typeVoid
      \/ op \in Equality /\ Kind(u) = "pointer" /\ t = typeVoid
  BY OperandCases
<1>5. QED
  BY <1>1, <1>2, <1>3, <1>4

OperandReady(op, e, t, u, other, w) ==
  Matched(Promoted(op, e, t, u), e.type, other) = Value(w, MeantOperand(op, e, t, u))

LEMMA RealReady ==
  ASSUME NEW op, NEW t, NEW u, IsReal(op, t, u), NEW e, NodeOK(e), FreshNode(e), e.flaws = {},
         e.type \in {typeInteger, typeReal}, NEW other
  PROVE  OperandReady(op, e, t, u, other, typeReal)
<1>1. e.type # typeVoid /\ ~IsArray(e.type) /\ ValueType(e.type) = e.type
  BY BasicValues, TypesDiffer
<1>2. Loaded(e) = Value(e.type, Meaning(e))
  BY <1>1, LoadIs
<1>3. SIToFP(Loaded(e)) = Value(typeReal, IF e.type = typeInteger THEN <<"real", Meaning(e)>>
                                          ELSE Meaning(e))
  BY <1>2, TypesDiffer DEF SIToFP, Value
<1>4. QED
  BY <1>1, <1>3 DEF OperandReady, Matched, Promoted, MeantOperand

LEMMA PlainReady ==
  ASSUME NEW op, NEW t, NEW u, ~IsReal(op, t, u), NEW e, NodeOK(e), FreshNode(e), e.flaws = {},
         IsType(e.type), ~IsArray(e.type), NEW other
  PROVE  OperandReady(op, e, t, u, other, TypeConvert(e.type))
<1>1. e.type # typeVoid /\ ValueType(e.type) = TypeConvert(e.type)
  BY NotVoid
<1>2. Loaded(e) = Value(TypeConvert(e.type), Meaning(e))
  BY <1>1, LoadIs
<1>3. QED
  BY <1>1, <1>2 DEF OperandReady, Matched, Promoted, MeantOperand

LEMMA NilReady ==
  ASSUME NEW op, NEW t, NEW u, ~IsReal(op, t, u), NEW e, NodeOK(e), FreshNode(e), e.flaws = {},
         e.type = typeVoid, NEW other
  PROVE  OperandReady(op, e, t, u, other, TypeConvert(other))
<1>1. Loaded(e) = Value(NilType, Meaning(e))
  BY LoadIs, TypesDiffer DEF ValueType
<1>2. typePointer(typeInteger) \in Seq(Constructors)
  BY BasicValues, PointerIsType DEF IsType
<1>3. Kind(NilType) = "pointer"
  BY <1>2, PointerPrefix DEF NilType
<1> DEFINE v == Value(NilType, Meaning(e))
<1>4. v.ty = NilType /\ v.data = Meaning(e)
  BY DEF Value
<1> HIDE DEF v
<1>5. CreatePointerCast(v, TypeConvert(other)) = Value(TypeConvert(other), Meaning(e))
  BY <1>3, <1>4 DEF CreatePointerCast
<1>6. QED
  BY <1>1, <1>5 DEF OperandReady, Matched, Promoted, MeantOperand, v, Meaning

(* Both operands come out with one type, which for arithmetic is that of   *)
(* the result, and with what they mean.                                    *)
LEMMA OperandsReady ==
  ASSUME NEW op, NEW a, NodeOK(a), FreshNode(a), a.flaws = {},
         NEW b, NodeOK(b), FreshNode(b), b.flaws = {},
         OperandsOK(op, a.type, b.type), ~(a.type = typeVoid /\ b.type = typeVoid)
  PROVE  \E w : /\ OperandReady(op, a, a.type, b.type, b.type, w)
                /\ OperandReady(op, b, a.type, b.type, a.type, w)
                /\ IsReal(op, a.type, b.type) => w = typeReal
                /\ op \notin Equality \cup Order => w = ResultType(op, a.type, b.type)
<1> DEFINE t == a.type
           u == b.type
           Ready(w) == /\ OperandReady(op, a, t, u, u, w)
                       /\ OperandReady(op, b, t, u, t, w)
                       /\ IsReal(op, t, u) => w = typeReal
                       /\ op \notin Equality \cup Order => w = ResultType(op, t, u)
<1>0. (IsType(t) \/ t = typeVoid) /\ (IsType(u) \/ u = typeVoid)
  BY DEF NodeOK
<1>1. CASE IsReal(op, t, u)
  <2>1. t \in {typeInteger, typeReal} /\ u \in {typeInteger, typeReal}
    BY <1>0, <1>1, RealOperands
  <2>2. OperandReady(op, a, t, u, u, typeReal) /\ OperandReady(op, b, t, u, t, typeReal)
    BY <1>1, <2>1, RealReady
  <2>3. op \notin Equality \cup Order => typeReal = ResultType(op, t, u)
    BY <1>1 DEF ResultType
  <2>4. Ready(typeReal)
    BY <2>2, <2>3
  <2>5. QED
    BY <2>4
<1>2. CASE ~IsReal(op, t, u) /\ t \in {typeInteger, typeReal} /\ u \in {typeInteger, typeReal}
  <2>1. t = typeInteger /\ u = typeInteger
    BY <1>2 DEF IsReal
  <2>2. TypeConvert(typeInteger) = typeInteger /\ IsType(typeInteger) /\ ~IsArray(typeInteger)
    BY BasicTypes DEF IsArray
  <2>3. OperandReady(op, a, t, u, u, typeInteger) /\ OperandReady(op, b, t, u, t, typeInteger)
    BY <1>2, <2>1, <2>2, PlainReady
  <2>4. op \notin Equality \cup Order => typeInteger = ResultType(op, t, u)
    BY <1>2 DEF ResultType
  <2>5. Ready(typeInteger)
    BY <1>2, <2>3, <2>4
  <2>6. QED
    BY <2>5
<1>3. CASE ~IsReal(op, t, u) /\ op \in Equality /\ t = u /\ ~IsArray(t)
  <2>1. IsType(t)
    BY <1>0, <1>3
  <2>2. OperandReady(op, a, t, u, u, TypeConvert(t)) /\ OperandReady(op, b, t, u, t, TypeConvert(t))
    BY <1>3, <2>1, PlainReady
  <2>3. Ready(TypeConvert(t))
    BY <1>3, <2>2
  <2>4. QED
    BY <2>3
<1>4. CASE ~IsReal(op, t, u) /\ op \in Equality /\ Kind(t) = "pointer" /\ u = typeVoid
  <2>1. IsType(t) /\ ~IsArray(t)
    BY <1>0, <1>4, TypesDiffer DEF IsArray
  <2>2. OperandReady(op, a, t, u, u, TypeConvert(t)) /\ OperandReady(op, b, t, u, t, TypeConvert(t))
    BY <1>4, <2>1, PlainReady, NilReady
  <2>3. Ready(TypeConvert(t))
    BY <1>4, <2>2
  <2>4. QED
    BY <2>3
<1>5. CASE ~IsReal(op, t, u) /\ op \in Equality /\ Kind(u) = "pointer" /\ t = typeVoid
  <2>1. IsType(u) /\ ~IsArray(u)
    BY <1>0, <1>5, TypesDiffer DEF IsArray
  <2>2. OperandReady(op, a, t, u, u, TypeConvert(u)) /\ OperandReady(op, b, t, u, t, TypeConvert(u))
    BY <1>5, <2>1, PlainReady, NilReady
  <2>3. Ready(TypeConvert(u))
    BY <1>5, <2>2
  <2>4. QED
    BY <2>3
<1>6. QED
  BY <1>0, <1>1, <1>2, <1>3, <1>4, <1>5, OperandCases

LEMMA InstructionIs ==
  ASSUME NEW op, NEW w, NEW z, NEW x, NEW y
  PROVE  Instruction(op, w, z, Value(w, x), Value(w, y)) = Value(z, <<op, x, y>>)
BY DEF Instruction, Value

LEMMA CompareIs ==
  ASSUME NEW op, NEW w, NEW x, NEW y, NEW b
  PROVE  CompareInstruction(op, w, Value(w, x), Value(w, y), <<op, x, y>>, b)
         = Value(typeBoolean, Bool(b))
<1> DEFINE v == Instruction(op, w, typeBoolean, Value(w, x), Value(w, y))
<1>1. v = Value(typeBoolean, <<op, x, y>>)
  BY InstructionIs
<1>2. v.ty = typeBoolean /\ v.data = <<op, x, y>>
  BY <1>1 DEF Value
<1> HIDE DEF v
<1>3. QED
  BY <1>2 DEF CompareInstruction, v

LEMMA TwoOperands ==
  ASSUME ExpressionsInv, Operands >= 2
  PROVE  /\ 2 <= Operands /\ 2 \in {1, 2}
         /\ NodeOK(Top) /\ FreshNode(Top) /\ Top.flaws \subseteq FlawKinds
         /\ NodeOK(Below) /\ Below.flaws \subseteq FlawKinds
<1>1. Operands \in Nat
  BY OperandsCount DEF ExpressionsInv
<1>2. Operands >= 1 /\ 2 <= Operands
  BY <1>1
<1>3. QED
  BY <1>2, TopIs, BelowIs

(* The operands of a binary operator, when neither is flawed nor changed   *)
(* before it is loaded.                                                    *)
LEMMA BinaryReady ==
  ASSUME ExpressionsInv, Operands >= 2, Below.flaws \cup Top.flaws \cup Late(Below) = {},
         NEW op, OperandsOK(op, Below.type, Top.type),
         ~(Below.type = typeVoid /\ Top.type = typeVoid)
  PROVE  \E w : /\ OperandReady(op, Below, Below.type, Top.type, Top.type, w)
                /\ OperandReady(op, Top, Below.type, Top.type, Below.type, w)
                /\ IsReal(op, Below.type, Top.type) => w = typeReal
                /\ op \notin Equality \cup Order => w = ResultType(op, Below.type, Top.type)
<1>1. NodeOK(Top) /\ FreshNode(Top) /\ NodeOK(Below)
  BY TwoOperands
<1>2. Below.flaws = {} /\ Top.flaws = {} /\ Late(Below) = {}
  OBVIOUS
<1>3. FreshNode(Below)
  BY <1>2, NotLate
<1>4. QED
  BY <1>1, <1>2, <1>3, OperandsReady

LEMMA VoidOutcome ==
  ASSUME NEW op, NEW x, NEW y, NEW b \in Outcomes(op, typeVoid, typeVoid, x, y)
  PROVE  Bool(b) = Bool(op = "=")
<1>1. CASE op = "="
  <2>1. Outcomes(op, typeVoid, typeVoid, x, y) = { TRUE }
    BY <1>1, TypesDiffer DEF Outcomes
  <2>2. QED
    BY <1>1, <2>1
<1>2. CASE op # "="
  <2>1. Outcomes(op, typeVoid, typeVoid, x, y) = { FALSE }
    BY <1>2, TypesDiffer DEF Outcomes
  <2>2. QED
    BY <1>2, <2>1 DEF Bool
<1>3. QED
  BY <1>1, <1>2

LEMMA BinaryInv ==
  ExpressionsInv /\ Binary => ExpressionsInv'
<1> SUFFICES ASSUME ExpressionsInv, Binary PROVE ExpressionsInv'
  OBVIOUS
<1> DEFINE t == Below.type
           u == Top.type
           f == Below.flaws \cup Top.flaws \cup Late(Below)
           l(op) == Matched(Promoted(op, Below, t, u), t, u)
           r(op) == Matched(Promoted(op, Top, t, u), u, t)
           ml(op) == MeantOperand(op, Below, t, u)
           mr(op) == MeantOperand(op, Top, t, u)
           operands(op) == IF IsReal(op, t, u) THEN typeReal ELSE l(op).ty
           compared(op, b) ==
             IF t = typeVoid /\ u = typeVoid THEN Value(typeBoolean, Bool(op = "="))
             ELSE CompareInstruction(op, operands(op), l(op), r(op), <<op, ml(op), mr(op)>>, b)
           computed(op) == Instruction(op, ResultType(op, t, u), ResultType(op, t, u), l(op), r(op))
           Test(op, b) == Node(typeBoolean, FALSE, compared(op, b), Bool(b), f)
           Sum(op) == Node(ResultType(op, t, u), FALSE, computed(op), <<op, ml(op), mr(op)>>, f)
<1>1. /\ Operands >= 2 /\ UNCHANGED <<pending, memory, performed, due>>
      /\ \E op \in Operators \ {"and", "or"} :
           /\ OperandsOK(op, t, u)
           /\ IF op \in Equality \cup Order
              THEN \E b \in Outcomes(op, t, u, ml(op), mr(op)) : Push(Pop(2), Test(op, b))
              ELSE Push(Pop(2), Sum(op))
  BY DEF Binary
<1>2. PICK op \in Operators \ {"and", "or"} :
        /\ OperandsOK(op, t, u)
        /\ IF op \in Equality \cup Order
           THEN \E b \in Outcomes(op, t, u, ml(op), mr(op)) : Push(Pop(2), Test(op, b))
           ELSE Push(Pop(2), Sum(op))
  BY <1>1
<1>3. /\ 2 <= Operands /\ 2 \in {1, 2}
      /\ f \subseteq FlawKinds
      /\ f = {} => Top.flaws = {} /\ Below.flaws = {}
  BY <1>1, TwoOperands, LateKind
<1>4. ASSUME f = {}, ~(t = typeVoid /\ u = typeVoid)
      PROVE  \E w : /\ l(op) = Value(w, ml(op)) /\ r(op) = Value(w, mr(op))
                    /\ IsReal(op, t, u) => w = typeReal
                    /\ op \notin Equality \cup Order => w = ResultType(op, t, u)
  BY <1>1, <1>2, <1>4, BinaryReady DEF OperandReady
<1> HIDE DEF l, r, ml, mr
<1>5. CASE op \in Equality \cup Order
  <2>1. PICK b \in Outcomes(op, t, u, ml(op), mr(op)) : Push(Pop(2), Test(op, b))
    BY <1>2, <1>5
  <2>2. ASSUME f = {} PROVE compared(op, b) = Value(typeBoolean, Bool(b))
    <3>1. CASE t = typeVoid /\ u = typeVoid
      <4>1. Bool(b) = Bool(op = "=")
        BY <2>1, <3>1, VoidOutcome
      <4>2. QED
        BY <3>1, <4>1
    <3>2. CASE ~(t = typeVoid /\ u = typeVoid)
      <4>1. PICK w : /\ l(op) = Value(w, ml(op)) /\ r(op) = Value(w, mr(op))
                     /\ IsReal(op, t, u) => w = typeReal
        BY <1>4, <2>2, <3>2
      <4>2. l(op).ty = w
        BY <4>1 DEF Value
      <4>3. operands(op) = w
        BY <4>1, <4>2
      <4>4. CompareInstruction(op, w, l(op), r(op), <<op, ml(op), mr(op)>>, b)
            = Value(typeBoolean, Bool(b))
        BY <4>1, CompareIs
      <4> HIDE DEF operands
      <4>5. QED
        BY <3>2, <4>3, <4>4
    <3>3. QED
      BY <3>1, <3>2
  <2> HIDE DEF f, compared, t, u
  <2>3. Means(f, compared(op, b), Value(ValueType(typeBoolean), Bool(b)))
    BY <2>2, BasicValues DEF Means
  <2>4. RValueOK(typeBoolean, Bool(b))
    BY BoolIs, BasicValues DEF RValueOK
  <2>5. GoodNode(Test(op, b), f)
    BY <1>3, <2>3, <2>4, RValueNode
  <2> HIDE DEF Test
  <2>6. QED
    BY <1>1, <1>3, <2>1, <2>5, PopInv DEF GoodNode
<1>6. CASE op \notin Equality \cup Order
  <2>1. Push(Pop(2), Sum(op))
    BY <1>2, <1>6
  <2> DEFINE z == ResultType(op, t, u)
  <2>2. z \in {typeInteger, typeReal}
    BY <1>6 DEF ResultType
  <2>3. ASSUME f = {} PROVE computed(op) = Value(z, <<op, ml(op), mr(op)>>)
    <3>1. ~(t = typeVoid /\ u = typeVoid)
      BY <1>2, <1>6, TypesDiffer DEF OperandsOK, Numeric
    <3>2. l(op) = Value(z, ml(op)) /\ r(op) = Value(z, mr(op))
      BY <1>4, <1>6, <2>3, <3>1
    <3> HIDE DEF z
    <3>3. Instruction(op, z, z, l(op), r(op)) = Value(z, <<op, ml(op), mr(op)>>)
      BY <3>2, InstructionIs
    <3>4. QED
      BY <3>3 DEF z
  <2> HIDE DEF f, computed, z
  <2>4. ValueType(z) = z /\ RValueOK(z, <<op, ml(op), mr(op)>>)
    BY <2>2, BasicValues, TypesDiffer DEF RValueOK
  <2>5. Means(f, computed(op), Value(ValueType(z), <<op, ml(op), mr(op)>>))
    BY <2>3, <2>4 DEF Means
  <2>6. GoodNode(Node(z, FALSE, computed(op), <<op, ml(op), mr(op)>>, f), f)
    BY <1>3, <2>4, <2>5, RValueNode
  <2>7. GoodNode(Sum(op), f)
    BY <2>6 DEF z
  <2> HIDE DEF Sum
  <2>8. QED
    BY <1>1, <1>3, <2>1, <2>7, PopInv DEF GoodNode
<1>7. QED
  BY <1>5, <1>6

-----------------------------------------------------------------------------
(* Short circuit                                                           *)

LEMMA BeginShortInv == ExpressionsInv /\ BeginShort => ExpressionsInv'
<1> SUFFICES ASSUME ExpressionsInv, BeginShort PROVE ExpressionsInv'
  OBVIOUS
<1> DEFINE P(op) == [op |-> op, left |-> Loaded(Top), meant |-> Meaning(Top), flaws |-> Top.flaws,
                     full |-> Loaded(Top).data # Deciding(op),
                     demanded |-> Meaning(Top) # Deciding(op), base |-> Len(stack) - 1]
<1>1. PICK op \in Operators \cap {"and", "or"} : pending' = Append(pending, P(op))
  BY DEF BeginShort
<1>2. /\ Operands >= 1 /\ Top.type = typeBoolean /\ stack' = Pop(1)
      /\ UNCHANGED <<memory, performed, due, nodes>>
  BY DEF BeginShort
<1>3. NodeOK(Top) /\ FreshNode(Top) /\ Top.flaws \subseteq FlawKinds
  BY <1>2, OneOperand
<1>4. NodesOK(stack) /\ PendingsOK(pending) /\ Bases(pending, Len(stack))
  BY DEF ExpressionsInv
<1>5. /\ Len(stack) \in Nat /\ Base \in Nat /\ Operands = Len(stack) - Base
      /\ Base <= Len(stack) - 1 /\ Len(stack) - 1 \in Nat
  <2>1. Len(stack) \in Nat /\ Base \in Nat /\ Operands = Len(stack) - Base
    BY <1>4, OperandsCount
  <2>2. QED
    BY <1>2, <2>1
<1>6. PICK p : p = P(op)
  OBVIOUS
<1>7. /\ p.op = op /\ p.left = Loaded(Top) /\ p.meant = Meaning(Top) /\ p.flaws = Top.flaws
      /\ p.full = (Loaded(Top).data # Deciding(op))
      /\ p.demanded = (Meaning(Top) # Deciding(op)) /\ p.base = Len(stack) - 1
  BY <1>6
<1>8. pending' = Append(pending, p)
  BY <1>1, <1>6
<1> HIDE DEF P
<1>9. PendingOK(p)
  <2>1. IsBool(p.meant)
    BY <1>2, <1>3, <1>7 DEF NodeOK, Meaning
  <2>2. ASSUME p.flaws = {} PROVE p.left = Value(typeBoolean, p.meant) /\ p.full = p.demanded
    <3>1. Loaded(Top) = Value(typeBoolean, Meaning(Top))
      BY <1>2, <1>3, <1>7, <2>2, LoadIs, BasicValues
    <3>2. Loaded(Top).data = Meaning(Top)
      BY <3>1 DEF Value
    <3>3. QED
      BY <1>7, <3>1, <3>2
  <2>3. p.full \in BOOLEAN /\ p.demanded = (p.meant # Deciding(p.op))
    BY <1>7
  <2>4. p.op \in {"and", "or"} /\ p.base \in Nat /\ p.flaws \subseteq FlawKinds
    BY <1>3, <1>5, <1>7
  <2>5. QED
    BY <2>1, <2>2, <2>3, <2>4 DEF PendingOK
<1>10. /\ PendingsOK(pending') /\ Len(pending') = Len(pending) + 1
       /\ pending'[Len(pending) + 1] = p /\ Len(pending) \in Nat
       /\ \A i \in 1 .. Len(pending) : pending'[i] = pending[i]
  BY <1>4, <1>8, <1>9, PendingsAppend
<1>11. /\ NodesOK(stack') /\ Len(stack') = Len(stack) - 1
       /\ \A i \in 1 .. Len(stack) - 1 : stack'[i] = stack[i]
  <2>1. 1 \in Nat /\ 1 <= Len(stack)
    BY <1>5
  <2>2. QED
    BY <1>2, <1>4, <2>1, NodesPop DEF Pop
<1>12. Bases(pending', Len(stack'))
  <2>1. ASSUME NEW i \in 1 .. Len(pending')
        PROVE  pending'[i].base <= IF i = Len(pending') THEN Len(stack') ELSE pending'[i + 1].base
    <3>1. CASE i = Len(pending) + 1
      BY <1>5, <1>7, <1>10, <1>11, <3>1
    <3>2. CASE i = Len(pending) /\ i # Len(pending) + 1
      <4>1. pending # << >> /\ i \in 1 .. Len(pending)
        BY <1>10, <3>2
      <4>2. pending[i].base <= Len(stack) - 1
        BY <1>5, <3>2, <4>1 DEF Base
      <4>3. pending'[i] = pending[i] /\ pending'[i + 1] = p /\ i # Len(pending')
        BY <1>10, <3>2, <4>1
      <4>4. QED
        BY <1>7, <4>2, <4>3
    <3>3. CASE i # Len(pending) /\ i # Len(pending) + 1
      <4>1. i \in 1 .. Len(pending) /\ i + 1 \in 1 .. Len(pending) /\ i # Len(pending')
        BY <1>10, <3>3
      <4>2. pending'[i] = pending[i] /\ pending'[i + 1] = pending[i + 1]
        BY <1>10, <4>1
      <4>3. pending[i].base <= pending[i + 1].base
        BY <1>4, <3>3, <4>1 DEF Bases
      <4>4. QED
        BY <4>1, <4>2, <4>3
    <3>4. QED
      BY <3>1, <3>2, <3>3
  <2>2. QED
    BY <2>1 DEF Bases
<1>13. ~(Operands >= 1)'
  <2>1. pending' # << >> /\ pending'[Len(pending')].base = Len(stack) - 1
    <3>1. Len(pending') # 0
      BY <1>10
    <3>2. pending' # << >>
      BY <3>1
    <3>3. QED
      BY <1>7, <1>10, <3>2
  <2>2. Base' = Len(stack) - 1
    BY <2>1 DEF Base
  <2>3. QED
    BY <1>5, <1>11, <2>2 DEF Operands
<1>14. Unflawed(stack') /\ Unflawed(pending') => performed' = due'
  <2> SUFFICES ASSUME Unflawed(stack'), Unflawed(pending') PROVE performed' = due'
    OBVIOUS
  <2>1. Unflawed(pending)
    <3>1. \A i \in 1 .. Len(pending) : i \in 1 .. Len(pending') /\ pending'[i] = pending[i]
      BY <1>10
    <3>2. QED
      BY <3>1 DEF Unflawed
  <2>2. Top.flaws = {}
    <3>1. Len(pending) + 1 \in 1 .. Len(pending')
      BY <1>10
    <3>2. QED
      BY <1>7, <1>10, <3>1 DEF Unflawed
  <2>3. \A i \in 1 .. Len(stack) : stack[i].flaws = {}
    <3>1. \A i \in 1 .. Len(stack) : i = Len(stack) \/ (i \in 1 .. Len(stack) - 1 /\ i \in 1 .. Len(stack'))
      BY <1>5, <1>11
    <3>2. QED
      BY <1>11, <2>2, <3>1 DEF Unflawed, Top
  <2>4. QED
    BY <1>2, <2>1, <2>3 DEF ExpressionsInv, Unflawed
<1>15. Counts'
  BY <1>2 DEF ExpressionsInv, Counts, memory
<1>16. QED
  BY <1>10, <1>11, <1>12, <1>13, <1>14, <1>15 DEF ExpressionsInv

(* The phi: what the two branches come to, when the left operand and the   *)
(* right one are what they mean and or is not lost.                        *)
Phi(p, c) == IF c # IllTyped /\ ~p.full THEN Value(typeBoolean, Deciding(p.op)) ELSE c
ShortMeant(p, m) == IF p.demanded THEN m ELSE p.meant
OrLost(p, m) == p.op = "or" /\ p.demanded /\ m = Bool(TRUE)

LEMMA PhiMeans ==
  ASSUME NEW p, PendingOK(p), p.flaws = {}, NEW m, IsBool(m), ~OrLost(p, m),
         NEW c, c = CreateAnd(p.left, Value(typeBoolean, m))
  PROVE  Phi(p, c) = Value(typeBoolean, ShortMeant(p, m))
<1> USE DEF Phi, ShortMeant, OrLost
<1>1. /\ p.op \in {"and", "or"} /\ p.demanded = (p.meant # Deciding(p.op)) /\ IsBool(p.meant)
      /\ p.full = p.demanded /\ p.left = Value(typeBoolean, p.meant)
  BY DEF PendingOK
<1>2. c = Value(typeBoolean, Bool(p.meant = Bool(TRUE) /\ m = Bool(TRUE)))
  BY <1>1 DEF CreateAnd, Value
<1>3. c # IllTyped
  BY <1>2, TypesDiffer DEF IllTyped, Value
<1>4. CASE ~p.demanded
  BY <1>1, <1>3, <1>4
<1>5. CASE p.demanded /\ p.op = "and"
  <2>1. p.meant = Bool(TRUE)
    BY <1>1, <1>5 DEF Deciding, IsBool
  <2>2. Bool(p.meant = Bool(TRUE) /\ m = Bool(TRUE)) = m
    BY <2>1, BoolIs DEF IsBool, Bool
  <2>3. QED
    BY <1>1, <1>2, <1>5, <2>2
<1>6. CASE p.demanded /\ p.op = "or"
  <2>1. p.meant = Bool(FALSE) /\ m = Bool(FALSE)
    BY <1>1, <1>6 DEF Deciding, IsBool
  <2>2. Bool(p.meant = Bool(TRUE) /\ m = Bool(TRUE)) = m
    BY <2>1, BoolIs DEF Bool
  <2>3. QED
    BY <1>1, <1>2, <1>6, <2>2
<1>7. QED
  BY <1>1, <1>4, <1>5, <1>6

LEMMA EndShortInv == ExpressionsInv /\ EndShort => ExpressionsInv'
<1> SUFFICES ASSUME ExpressionsInv, EndShort PROVE ExpressionsInv'
  OBVIOUS
<1> DEFINE p == pending[Len(pending)]
           c == CreateAnd(p.left, Loaded(Top))
           got == Phi(p, c)
           m == ShortMeant(p, Meaning(Top))
           lost == OrLost(p, Meaning(Top))
           f == p.flaws \cup Top.flaws \cup IF lost THEN {"or"} ELSE {}
           e == Node(typeBoolean, FALSE, got, m, f)
<1>1. /\ pending # << >> /\ Operands = 1 /\ Top.type = typeBoolean /\ Push(Pop(1), e)
      /\ pending' = SubSeq(pending, 1, Len(pending) - 1)
      /\ UNCHANGED <<memory, performed, due>>
  BY DEF EndShort, Phi, ShortMeant, OrLost
<1>2. NodesOK(stack) /\ PendingsOK(pending) /\ Bases(pending, Len(stack))
  BY DEF ExpressionsInv
<1>3. Operands >= 1
  BY <1>1
<1>4. NodeOK(Top) /\ FreshNode(Top) /\ Top.flaws \subseteq FlawKinds
  BY <1>3, OneOperand
<1>5. /\ Len(stack) \in Nat /\ Base \in Nat /\ Operands = Len(stack) - Base
      /\ Base = Len(stack) - 1 /\ 1 <= Len(stack)
  <2>1. Len(stack) \in Nat /\ Base \in Nat /\ Operands = Len(stack) - Base
    BY <1>2, OperandsCount
  <2>2. QED
    BY <1>1, <2>1
<1>6. Len(pending) \in Nat /\ 1 <= Len(pending) /\ Len(pending) \in 1 .. Len(pending)
  <2>1. PICK S : pending \in Seq(S)
    BY <1>2 DEF PendingsOK
  <2>2. QED
    BY <1>1, <2>1
<1>7. PendingOK(p) /\ p.base = Len(stack) - 1
  BY <1>1, <1>2, <1>5, <1>6, PendingsAre DEF Base
<1>8. IsBool(Meaning(Top)) /\ IsBool(m)
  BY <1>1, <1>4, <1>7 DEF NodeOK, Meaning, PendingOK, ShortMeant
<1>9. f \subseteq FlawKinds /\ (f = {} => p.flaws = {} /\ Top.flaws = {} /\ ~lost)
  BY <1>4, <1>7 DEF FlawKinds, PendingOK
<1>10. Means(f, got, Value(ValueType(typeBoolean), m))
  <2> SUFFICES ASSUME f = {} PROVE got = Value(typeBoolean, m)
    BY BasicValues DEF Means
  <2>1. Loaded(Top) = Value(typeBoolean, Meaning(Top))
    BY <1>1, <1>4, <1>9, LoadIs, BasicValues
  <2>2. c = CreateAnd(p.left, Value(typeBoolean, Meaning(Top)))
    BY <2>1
  <2> HIDE DEF c, p
  <2>3. QED
    BY <1>7, <1>8, <1>9, <2>2, PhiMeans
<1>11. RValueOK(typeBoolean, m)
  BY <1>8, BasicValues DEF RValueOK
<1> HIDE DEF got, m, f, lost, p
<1>12. GoodNode(e, f)
  BY <1>9, <1>10, <1>11, RValueNode
<1> HIDE DEF e
<1>13. /\ PendingsOK(pending') /\ Len(pending') = Len(pending) - 1
       /\ \A i \in 1 .. Len(pending) - 1 : pending'[i] = pending[i]
  <2>1. 1 \in Nat
    OBVIOUS
  <2>2. QED
    BY <1>1, <1>2, <1>6, <2>1, PendingsPop
<1>14. /\ NodesOK(stack') /\ Len(stack') = Len(stack) /\ stack'[Len(stack)] = e
       /\ \A i \in 1 .. Len(stack) - 1 : stack'[i] = stack[i]
  <2> DEFINE w == Pop(1)
  <2>1. NodesOK(w) /\ Len(w) = Len(stack) - 1 /\ \A i \in 1 .. Len(stack) - 1 : w[i] = stack[i]
    <3>1. 1 \in Nat
      OBVIOUS
    <3>2. QED
      BY <1>2, <1>5, <3>1, NodesPop DEF Pop
  <2>2. stack' = Append(w, e)
    BY <1>1 DEF Push
  <2> HIDE DEF w
  <2>3. /\ NodesOK(stack') /\ Len(stack') = Len(w) + 1 /\ stack'[Len(w) + 1] = e
        /\ \A i \in 1 .. Len(w) : stack'[i] = w[i]
    BY <1>12, <2>1, <2>2, NodesAppend DEF GoodNode
  <2>4. Len(w) + 1 = Len(stack)
    BY <1>5, <2>1
  <2>5. QED
    BY <2>1, <2>3, <2>4
<1>15. Bases(pending', Len(stack'))
  <2>1. ASSUME NEW i \in 1 .. Len(pending')
        PROVE  pending'[i].base <= IF i = Len(pending') THEN Len(stack') ELSE pending'[i + 1].base
    <3>1. /\ i \in 1 .. Len(pending) /\ i \in 1 .. Len(pending) - 1 /\ i # Len(pending)
          /\ pending'[i] = pending[i]
      BY <1>6, <1>13
    <3>2. pending[i].base <= pending[i + 1].base
      BY <1>2, <3>1 DEF Bases
    <3>3. CASE i = Len(pending')
      <4>1. i + 1 = Len(pending)
        BY <1>6, <1>13, <3>3
      <4>2. pending[i].base <= Len(stack) - 1 /\ pending[i].base \in Nat
        BY <1>2, <1>7, <3>1, <3>2, <4>1, PendingsAre DEF p, PendingOK
      <4>3. QED
        BY <1>5, <1>14, <3>1, <3>3, <4>2
    <3>4. CASE i # Len(pending')
      <4>1. i + 1 \in 1 .. Len(pending) - 1
        BY <1>6, <1>13, <3>4
      <4>2. QED
        BY <1>13, <3>1, <3>2, <3>4, <4>1
    <3>5. QED
      BY <3>3, <3>4
  <2>2. QED
    BY <2>1 DEF Bases
<1>16. FreshNode(Top)'
  <2>1. Top' = e
    BY <1>14 DEF Top
  <2>2. QED
    BY <1>1, <1>12, <2>1 DEF GoodNode, FreshNode, Contents, memory, Top
<1>17. Unflawed(stack') /\ Unflawed(pending') => performed' = due'
  <2> SUFFICES ASSUME Unflawed(stack'), Unflawed(pending') PROVE performed' = due'
    OBVIOUS
  <2>1. p.flaws = {} /\ Top.flaws = {}
    <3>1. e.flaws = {}
      BY <1>5, <1>14 DEF Unflawed
    <3>2. QED
      BY <1>9, <1>12, <3>1 DEF GoodNode
  <2>2. \A i \in 1 .. Len(pending) : pending[i].flaws = {}
    <3>1. \A i \in 1 .. Len(pending) :
            i = Len(pending) \/ (i \in 1 .. Len(pending) - 1 /\ i \in 1 .. Len(pending'))
      BY <1>6, <1>13
    <3>2. QED
      BY <1>13, <2>1, <3>1 DEF Unflawed, p
  <2>3. \A i \in 1 .. Len(stack) : stack[i].flaws = {}
    <3>1. \A i \in 1 .. Len(stack) :
            i = Len(stack) \/ (i \in 1 .. Len(stack) - 1 /\ i \in 1 .. Len(stack'))
      BY <1>5, <1>14
    <3>2. QED
      BY <1>14, <2>1, <3>1 DEF Unflawed, Top
  <2>4. QED
    BY <1>1, <2>2, <2>3 DEF ExpressionsInv, Unflawed
<1>18. Counts'
  BY <1>1 DEF ExpressionsInv, Counts, memory, Push
<1>19. QED
  BY <1>13, <1>14, <1>15, <1>16, <1>17, <1>18 DEF ExpressionsInv

-----------------------------------------------------------------------------
(* Every step, and what the invariant says                                 *)

LEMMA ExpressionsKeep == ExpressionsInv /\ [Next]_vars => ExpressionsInv'
<1> SUFFICES ASSUME ExpressionsInv, [Next]_vars PROVE ExpressionsInv'
  OBVIOUS
<1>1. CASE PushVariable
  BY <1>1, PushVariableInv
<1>2. CASE PushConst
  BY <1>2, PushConstInv
<1>3. CASE PushCall
  BY <1>3, PushCallInv
<1>4. CASE ArrayAccess
  BY <1>4, ArrayAccessInv
<1>5. CASE Dereference
  BY <1>5, DereferenceInv
<1>6. CASE AddressOf
  BY <1>6, AddressOfInv
<1>7. CASE Sign
  BY <1>7, SignInv
<1>8. CASE Not
  BY <1>8, NotInv
<1>9. CASE Binary
  BY <1>9, BinaryInv
<1>10. CASE BeginShort
  BY <1>10, BeginShortInv
<1>11. CASE EndShort
  BY <1>11, EndShortInv
<1>12. CASE UNCHANGED vars
  <2>1. /\ stack' = stack /\ pending' = pending /\ flag' = flag /\ written' = written
        /\ performed' = performed /\ due' = due /\ nodes' = nodes
    BY <1>12 DEF vars, memory
  <2>2. Counts' /\ (FreshNode(Top)' <=> FreshNode(Top)) /\ Operands' = Operands
    BY <2>1 DEF ExpressionsInv, Counts, FreshNode, Contents, Top, Operands, Base
  <2>3. QED
    BY <2>1, <2>2 DEF ExpressionsInv
<1>13. QED
  BY <1>1, <1>2, <1>3, <1>4, <1>5, <1>6, <1>7, <1>8, <1>9, <1>10, <1>11, <1>12 DEF Next

LEMMA UnflawedIs ==
  ASSUME Flaws = {}
  PROVE  Unflawed(stack) /\ Unflawed(pending)
<1>1. ASSUME NEW i \in 1 .. Len(stack) PROVE stack[i].flaws = {}
  BY Zenon DEF Flaws
<1>2. ASSUME NEW i \in 1 .. Len(pending) PROVE pending[i].flaws = {}
  BY Zenon DEF Flaws
<1>3. QED
  BY <1>1, <1>2 DEF Unflawed

LEMMA InvTypeOK == ExpressionsInv => TypeOK
<1> SUFFICES ASSUME ExpressionsInv PROVE TypeOK
  OBVIOUS
<1>1. \A i \in 1 .. Len(stack) : NodeOK(stack[i])
  BY NodesAre DEF ExpressionsInv
<1>2. \A i \in 1 .. Len(pending) : PendingOK(pending[i])
  BY PendingsAre DEF ExpressionsInv
<1>3. typeVoid \in Seq(Constructors)
  BY DEF typeVoid, Constructor, Constructors
<1>4. \A i \in 1 .. Len(stack) :
        /\ stack[i].type \in Seq(Constructors) /\ stack[i].lvalue \in BOOLEAN
        /\ stack[i].flaws \subseteq {"or", "lvalue", "rvalue", "late"}
  BY <1>1, <1>3 DEF NodeOK, IsType, FlawKinds
<1>5. \A i \in 1 .. Len(pending) :
        /\ pending[i].op \in {"and", "or"}
        /\ pending[i].full \in BOOLEAN /\ pending[i].demanded \in BOOLEAN
  BY <1>2 DEF PendingOK
<1>6. \A i \in 1 .. Len(pending) :
        pending[i].base <= IF i = Len(pending) THEN Len(stack) ELSE pending[i + 1].base
  BY DEF ExpressionsInv, Bases
<1>7. flag \in BOOLEAN /\ written \in 0 .. performed /\ performed \in 0 .. nodes /\ due \in 0 .. nodes
  BY DEF ExpressionsInv, Counts
<1>8. QED
  BY <1>4, <1>5, <1>6, <1>7 DEF TypeOK

LEMMA InvComputes == ExpressionsInv => ComputesMeaning
<1> SUFFICES ASSUME ExpressionsInv, Flaws = {}, NEW i \in 1 .. Len(stack)
             PROVE  Computes(stack[i])
  BY DEF ComputesMeaning
<1>1. NodeOK(stack[i])
  BY NodesAre DEF ExpressionsInv
<1>2. stack[i].flaws = {}
  BY UnflawedIs DEF Unflawed
<1>3. QED
  BY <1>1, <1>2 DEF NodeOK, ComputesNode, Computes, ValueType

LEMMA InvShort == ExpressionsInv => ShortCircuits
BY UnflawedIs DEF ExpressionsInv, ShortCircuits

(* Of every expression, however deep, that the operand rules accept: the   *)
(* operands of pending operators lie one above the other, and no call is   *)
(* performed or due that no node makes.                                    *)
THEOREM ExpressionsTyped == Spec => []TypeOK
<1>1. Init => ExpressionsInv
  BY InitExpressions
<1>2. ExpressionsInv /\ [Next]_vars => ExpressionsInv'
  BY ExpressionsKeep
<1>3. QED
  BY <1>1, <1>2, InvTypeOK, PTL DEF Spec

(* For any variables, functions and operators: the instructions compile()  *)
(* emits for an expression compute what the source means by it, with the   *)
(* LLVM type TypeConvert gives its type, as long as it holds none of the   *)
(* four constructs ComputesMeaning names.                                  *)
THEOREM ComputesWhatIsMeant == Spec => []ComputesMeaning
<1>1. Init => ExpressionsInv
  BY InitExpressions
<1>2. ExpressionsInv /\ [Next]_vars => ExpressionsInv'
  BY ExpressionsKeep
<1>3. QED
  BY <1>1, <1>2, InvComputes, PTL DEF Spec

(* At any depth of nesting, the branches the code of and and or takes      *)
(* perform exactly the calls the source demands.                           *)
THEOREM CallsShortCircuit == Spec => []ShortCircuits
<1>1. Init => ExpressionsInv
  BY InitExpressions
<1>2. ExpressionsInv /\ [Next]_vars => ExpressionsInv'
  BY ExpressionsKeep
<1>3. QED
  BY <1>1, <1>2, InvShort, PTL DEF Spec

-----------------------------------------------------------------------------
(* Conversions: the inductive invariant                                    *)

(* The value each step finds.                                              *)
CompiledValue ==
  CASE expr = "lvalue" -> typePointer(TypeConvert(source))
    [] expr = "nil"    -> typePointer(typePointer(typeInteger))
    [] OTHER           -> TypeConvert(source)

ConversionInv ==
  /\ how \in {"assign", "value", "reference"}
  /\ dest \in DataTypes
  /\ \/ expr \in {"lvalue", "rvalue"} /\ source \in DataTypes
     \/ expr \in {"nil", "procedure"} /\ source = typeVoid
  /\ Accepted
  /\ pc \in {"compile", "load", "convert", "done"}
  /\ pc = "load" => value = CompiledValue
  /\ pc = "convert" => value = IF expr = "lvalue" /\ how # "reference"
                               THEN TypeConvert(source) ELSE CompiledValue
  /\ StoresTyped

LEMMA EqualPointers ==
  ASSUME NEW t, IsType(t), NEW u, IsType(u), Equals(typePointer(t), typePointer(u))
  PROVE  t = u
<1>1. IsType(typePointer(t)) /\ IsType(typePointer(u))
  BY PointerIsType
<1>2. typePointer(t) = typePointer(u)
  BY <1>1, EqualTypes
<1>3. QED
  BY <1>2, PointerIsType

LEMMA RealType ==
  ASSUME NEW t, IsType(t), Kind(t) = "real"
  PROVE  t = typeReal
BY ScalarIs DEF typeReal

LEMMA BeginInv == Begin => ConversionInv
BY DEF Begin, ConversionInv, StoresTyped

LEMMA CompileInv == ConversionInv /\ Compile => ConversionInv'
BY DEF ConversionInv, Compile, CompiledValue, Accepted, StoresTyped

LEMMA LoadInv == ConversionInv /\ Load => ConversionInv'
BY DEF ConversionInv, Load, CompiledValue, Accepted, StoresTyped

(* The one step with something to show: which of its four cases applies is *)
(* decided by the rule that accepted the pair of types.                    *)
LEMMA ConvertInv == ConversionInv /\ Convert => ConversionInv'
<1> SUFFICES ASSUME ConversionInv, Convert PROVE ConversionInv'
  OBVIOUS
<1> USE DEF ConversionInv, Convert
<1>1. value' = Slot' \/ expr \in {"procedure"} \/ (expr = "nil" /\ how # "assign")
  <2>1. CASE how = "reference"
    <3>1. expr = "lvalue" /\ source \in DataTypes
      BY <2>1 DEF Accepted
    <3>2. CASE PointerSpecialCase(typePointer(dest), typePointer(source))
      BY <2>1, <3>2 DEF PointerCast, Slot
    <3>3. CASE ~PointerSpecialCase(typePointer(dest), typePointer(source))
      <4>1. /\ IsType(dest) /\ IsType(source)
            /\ Kind(typePointer(dest)) = "pointer" /\ Kind(typePointer(source)) = "pointer"
        BY <3>1, DataTypesAssumption, PointerIsType
      <4>2. Equals(typePointer(dest), typePointer(source))
        BY <2>1, <3>3, <4>1 DEF Accepted, IsCompatibleWith
      <4>3. dest = source
        BY <4>1, <4>2, EqualPointers
      <4> QED BY <2>1, <3>1, <3>3, <4>3 DEF CompiledValue, Slot
    <3> QED BY <3>2, <3>3
  <2>2. CASE how # "reference" /\ expr \in {"lvalue", "rvalue"}
    <3>1. source \in DataTypes /\ IsCompatibleWith(dest, source) /\ IsType(source) /\ IsType(dest)
      BY <2>2, DataTypesAssumption DEF Accepted
    <3>2. value = TypeConvert(source)
      BY <2>2 DEF CompiledValue
    <3>3. Kind(source) # "void"
      BY <3>1, NotVoid
    <3>4. CASE PointerSpecialCase(dest, source)
      BY <2>2, <3>4 DEF PointerCast, Slot, PointerSpecialCase
    <3>5. CASE ~PointerSpecialCase(dest, source) /\ Equals(dest, source)
      <4>1. dest = source
        BY <3>1, <3>5, EqualTypes
      <4>2. ~(Kind(dest) = "real" /\ Kind(source) = "integer")
        BY <4>1
      <4> QED BY <2>2, <3>2, <3>3, <3>5, <4>1, <4>2 DEF Slot
    <3>6. CASE ~PointerSpecialCase(dest, source) /\ ~Equals(dest, source)
      <4>1. Kind(dest) = "real" /\ Kind(source) \in {"real", "integer"}
        BY <3>1, <3>3, <3>6 DEF IsCompatibleWith
      <4>2. Kind(source) # "real"
        BY <3>1, <3>6, <4>1, RealType DEF Equals
      <4>3. dest = typeReal
        BY <3>1, <4>1, RealType
      <4> QED BY <2>2, <3>3, <3>6, <4>1, <4>2, <4>3 DEF Slot
    <3> QED BY <3>4, <3>5, <3>6
  <2>3. CASE how = "assign" /\ expr = "nil"
    <3>1. Kind(source) = "void"
      BY <2>3, TypesDiffer
    <3>2. ~PointerSpecialCase(dest, source)
      BY <3>1 DEF PointerSpecialCase
    <3> QED BY <2>3, <3>1, <3>2 DEF PointerCast, Slot
  <2> QED BY <2>1, <2>2, <2>3
<1> QED BY <1>1 DEF Accepted, StoresTyped, Slot

(* Every step keeps the invariant.                                         *)
LEMMA StepInv == ConversionInv /\ [Step]_conversion => ConversionInv'
<1> SUFFICES ASSUME ConversionInv, [Step]_conversion PROVE ConversionInv'
  OBVIOUS
<1>1. CASE Compile
  BY <1>1, CompileInv
<1>2. CASE Load
  BY <1>2, LoadInv
<1>3. CASE Convert
  BY <1>3, ConvertInv
<1>4. CASE UNCHANGED conversion
  BY <1>4 DEF ConversionInv, conversion, Accepted, CompiledValue, StoresTyped, Slot
<1> QED BY <1>1, <1>2, <1>3, <1>4 DEF Step

-----------------------------------------------------------------------------
(* The address of an array as the address of its first element             *)

LEMMA SpecialElements ==
  ASSUME NEW d, IsType(d), Kind(d) = "iarray", NEW s, IsType(s), Kind(s) = "array",
         Equals(RefType(d), RefType(s))
  PROVE  /\ TypeConvert(d) \in Seq(Constructors)
         /\ \E n \in Nat : TypeConvert(s) = typeArray(n, TypeConvert(d))
<1>1. IsType(RefType(d)) /\ TypeConvert(RefType(d)) \in Seq(Constructors)
      /\ TypeConvert(d) = TypeConvert(RefType(d))
  BY LongerIs
<1>2. IsType(RefType(s)) /\ TypeConvert(s) = typeArray(s[1].size, TypeConvert(RefType(s)))
  BY LongerIs
<1>3. RefType(d) = RefType(s)
  BY <1>1, <1>2, EqualTypes
<1>4. s[1].size \in Nat
  BY ScalarOrLonger DEF Constructors
<1>5. QED
  BY <1>1, <1>2, <1>3, <1>4

FirstElement(a, b) == Len(a) >= 2 /\ a = typePointer(typeArray(a[2].size, RefType(b)))

LEMMA FirstElementIs ==
  ASSUME NEW w \in Seq(Constructors), NEW n \in Nat
  PROVE  FirstElement(typePointer(typeArray(n, w)), typePointer(w))
<1> DEFINE c == Constructor("array", n)
           e == Constructor("pointer", 0)
           v == typeArray(n, w)
           a == typePointer(v)
<1>1. c \in Constructors /\ e \in Constructors /\ c.size = n
  BY DEF Constructor, Constructors
<1>2. v = << c >> \o w /\ a = << e >> \o v
  BY DEF typeArray, typePointer
<1> HIDE DEF c, e, v, a
<1>3. v \in Seq(Constructors) /\ Len(v) = Len(w) + 1 /\ v[1] = c
  BY <1>1, <1>2, Prefixed
<1>4. Len(a) = Len(v) + 1 /\ \A k \in 1 .. Len(v) : a[k + 1] = v[k]
  BY <1>1, <1>2, <1>3, Prefixed
<1>5. Len(w) \in Nat /\ 1 \in 1 .. Len(v) /\ 1 + 1 = 2
  BY <1>3
<1>6. Len(a) >= 2 /\ a[2] = c
  BY <1>3, <1>4, <1>5
<1>7. RefType(typePointer(w)) = w
  BY PointerPrefix
<1>8. typePointer(typeArray(a[2].size, RefType(typePointer(w)))) = typePointer(typeArray(n, w))
  BY <1>1, <1>6, <1>7
<1>9. FirstElement(a, typePointer(w))
  BY <1>6, <1>8 DEF FirstElement, a, v
<1>10. QED
  BY <1>9 DEF a, v

LEMMA KeepsElements == ConversionInv => PointersKeepElements
<1> SUFFICES ASSUME ConversionInv, expr \in {"lvalue", "rvalue"}, Kind(Slot) = "pointer"
             PROVE  Fetched = Slot \/ FirstElement(Fetched, Slot)
  BY DEF PointersKeepElements, FirstElement
<1>1. IsType(dest) /\ IsType(source)
  BY DataTypesAssumption DEF ConversionInv
<1>2. CASE how = "reference"
  <2>1. /\ Slot = typePointer(TypeConvert(dest)) /\ Fetched = typePointer(TypeConvert(source))
        /\ IsCompatibleWith(typePointer(dest), typePointer(source))
    BY <1>2 DEF Slot, Fetched, Accepted, ConversionInv
  <2>2. /\ Kind(typePointer(dest)) = "pointer" /\ Kind(typePointer(source)) = "pointer"
        /\ RefType(typePointer(dest)) = dest /\ RefType(typePointer(source)) = source
    BY <1>1, PointerIsType
  <2>3. CASE Equals(typePointer(dest), typePointer(source))
    BY <1>1, <2>1, <2>3, EqualPointers
  <2>4. CASE PointerSpecialCase(typePointer(dest), typePointer(source))
    <3>1. Kind(dest) = "iarray" /\ Kind(source) = "array" /\ Equals(RefType(dest), RefType(source))
      BY <2>2, <2>4 DEF PointerSpecialCase
    <3>2. TypeConvert(dest) \in Seq(Constructors)
      BY <1>1, <3>1, SpecialElements
    <3>3. PICK n \in Nat : TypeConvert(source) = typeArray(n, TypeConvert(dest))
      BY <1>1, <3>1, SpecialElements
    <3>4. QED
      BY <2>1, <3>2, <3>3, FirstElementIs
  <2>5. QED
    BY <2>1, <2>2, <2>3, <2>4 DEF IsCompatibleWith
<1>3. CASE how # "reference"
  <2>1. /\ Slot = TypeConvert(dest) /\ Fetched = TypeConvert(source)
        /\ IsCompatibleWith(dest, source)
    BY <1>3 DEF Slot, Fetched, Accepted, ConversionInv
  <2>2. Kind(dest) = "pointer"
    <3>1. IsConcrete(dest)
      BY <2>1 DEF IsCompatibleWith, IsConcrete
    <3>2. TypeConvert(dest)[1] = dest[1]
      BY <1>1, <3>1, ConvertTyped
    <3>3. QED
      BY <2>1, <3>2 DEF Kind
  <2>3. Kind(source) # "void"
    BY <1>1, NotVoid
  <2>4. CASE Equals(dest, source)
    BY <1>1, <2>1, <2>4, EqualTypes
  <2>5. CASE PointerSpecialCase(dest, source)
    <3> DEFINE d == RefType(dest)
               s == RefType(source)
    <3>1. /\ Kind(source) = "pointer" /\ Kind(d) = "iarray" /\ Kind(s) = "array"
          /\ Equals(RefType(d), RefType(s))
      BY <2>5 DEF PointerSpecialCase
    <3>2. /\ IsType(d) /\ IsType(s)
          /\ TypeConvert(dest) = typePointer(TypeConvert(d))
          /\ TypeConvert(source) = typePointer(TypeConvert(s))
      BY <1>1, <2>2, <3>1, LongerIs
    <3> HIDE DEF d, s
    <3>3. TypeConvert(d) \in Seq(Constructors)
      BY <3>1, <3>2, SpecialElements
    <3>4. PICK n \in Nat : TypeConvert(s) = typeArray(n, TypeConvert(d))
      BY <3>1, <3>2, SpecialElements
    <3>5. QED
      BY <2>1, <3>2, <3>3, <3>4, FirstElementIs
  <2>6. QED
    BY <2>1, <2>2, <2>3, <2>4, <2>5 DEF IsCompatibleWith
<1>4. QED
  BY <1>2, <1>3

(* Whatever the types, a value Assignment::semantic or the argument checks *)
(* of a call accept reaches its destination with the LLVM type the         *)
(* destination was created with (nil arguments and calls of procedures     *)
(* apart, as StoresTyped says).                                            *)
THEOREM ConversionsTyped == Conversion => []StoresTyped
<1>1. ConversionInv => StoresTyped
  BY DEF ConversionInv
<1>2. QED
  BY <1>1, BeginInv, StepInv, PTL DEF Conversion

(* Whatever the types, the only pointer conversion ever made is that of    *)
(* the address of an array to the address of its first element: what       *)
(* is_compatible_with accepts besides equal types, and what Assignment::   *)
(* compile and create_call cast, is ^array [n] of T where ^array of T is   *)
(* wanted.                                                                 *)
THEOREM PointersKept == Conversion => []PointersKeepElements
<1>1. QED
  BY BeginInv, StepInv, KeepsElements, PTL DEF Conversion
=============================================================================

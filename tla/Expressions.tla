---------------------------- MODULE Expressions ----------------------------
(***************************************************************************)
(* Expressions: the operand rules of semantic analysis, the instructions   *)
(* the compile() of every node emits, and what they compute, against what  *)
(* the expression means in the source.                                     *)
(*                                                                         *)
(* An expression is spelled out bottom up, as parser.y builds it: a step   *)
(* is one node, applied to the expressions on top of stack.  Each holds    *)
(* the value its code has computed (got) and the value it denotes (meant). *)
(* The code of a node runs when the node is added; and and or, which       *)
(* branch between their operands, are two steps.                           *)
(*                                                                         *)
(* A value is an LLVM type with data, and data are terms: <<"true">>,      *)
(* <<"at", x>> for the address of variable x, <<"in", a, n>> for what      *)
(* address a holds after n calls that changed variables, <<"-", d, e>> for *)
(* a difference.  A boolean is always known.                               *)
(***************************************************************************)
EXTENDS Types

CONSTANTS
  VariableTypes,   \* the types of the variables, one variable for each
  CallTypes,       \* the types of the results of the functions called
  Constants,       \* the types of the constants, void for nil
  Operators,       \* the binary operators used
  MaxNodes         \* bound on the nodes of an expression

Bool(b) == IF b THEN <<"true">> ELSE <<"false">>

(* No function returns an array (FunctionHeader::semantic), and constants  *)
(* are of basic types.  The call of a procedure in an expression, which    *)
(* semantic analysis lets through, is left to Conversions.                 *)
ASSUME TypesAssumption ==
  /\ \A t \in VariableTypes \cup CallTypes : IsType(t)
  /\ \A t \in CallTypes : ~IsArray(t)
  /\ Constants \subseteq { typeVoid, typeInteger, typeReal, typeBoolean, typeChar }

VARIABLES
  stack,       \* expressions not yet operands, the last one on top
  pending,     \* and and or whose right operand is being compiled
  flag,        \* what every boolean variable holds
  written,     \* how often a call has changed what the variables hold
  performed,   \* the calls the emitted code has made
  due,         \* the calls the source demands
  nodes        \* nodes so far

memory == <<flag, written>>
vars == <<stack, pending, memory, performed, due, nodes>>

-----------------------------------------------------------------------------
(* LLVM, as far as the code relies on it.  An instruction whose operands   *)
(* do not have the type it needs is refused by the verifier.               *)

Value(t, d) == [ty |-> t, data |-> d]
IllTyped == Value(typeVoid, <<"ill-typed">>)

Contents(a, t) == IF t = typeBoolean THEN Bool(flag) ELSE <<"in", a, written>>

CreateLoad(v) ==
  IF Kind(v.ty) = "pointer"
  THEN Value(RefType(v.ty), Contents(v.data, RefType(v.ty)))
  ELSE IllTyped

(* Two operands of type t and a result of type u. *)
Instruction(name, t, u, l, r) ==
  IF l.ty = t /\ r.ty = t THEN Value(u, <<name, l.data, r.data>>) ELSE IllTyped

(* CreateCast does nothing when the value already has the type. *)
SIToFP(v) ==
  CASE v.ty = typeInteger -> Value(typeReal, <<"real", v.data>>)
    [] v.ty = typeReal    -> v
    [] OTHER              -> IllTyped

(* CreatePointerCast: the same address, of the other type. *)
CreatePointerCast(v, t) ==
  IF Kind(v.ty) = "pointer" THEN Value(t, v.data) ELSE IllTyped

CreateAnd(l, r) ==
  IF l.ty = typeBoolean /\ r.ty = typeBoolean
  THEN Value(typeBoolean, Bool(l.data = Bool(TRUE) /\ r.data = Bool(TRUE)))
  ELSE IllTyped

CreateNot(v) ==
  IF v.ty = typeBoolean
  THEN Value(typeBoolean, Bool(v.data = Bool(FALSE)))
  ELSE IllTyped

-----------------------------------------------------------------------------
(* Nodes *)

(* held is what an l-value holds when it is evaluated, which is what the   *)
(* source means by it as an operand: "operands are evaluated from left to  *)
(* right" (pcl2019.pdf, page 9).  flaws names the constructs below a node  *)
(* whose code is known to compute something else than they mean: see the   *)
(* Properties.                                                             *)
Node(t, lval, v, m, f) ==
  [type |-> t, lvalue |-> lval, got |-> v, meant |-> m,
   held |-> IF lval THEN Contents(m, t) ELSE m, flaws |-> f]

(* The address of a variable of type t that the source calls a. *)
Address(t, a) == Value(typePointer(TypeConvert(t)), a)

(* "if (right->lvalue) r = Builder.CreateLoad(r)": an l-value is loaded by *)
(* the node that uses it.                                                  *)
Loaded(e) == IF e.lvalue THEN CreateLoad(e.got) ELSE e.got
Meaning(e) == e.held

(* An operand that a call in the next one has changed before it is loaded. *)
Late(e) ==
  IF e.lvalue /\ Contents(e.meant, e.type) # e.held THEN {"late"} ELSE {}

Top == stack[Len(stack)]
Below == stack[Len(stack) - 1]
Base == IF pending = << >> THEN 0 ELSE pending[Len(pending)].base
Operands == Len(stack) - Base      \* of the operator being built

Push(s, e) ==
  /\ stack' = Append(s, e)
  /\ nodes' = nodes + 1

(* The bound: an expression is only begun if it can still be completed,    *)
(* with one more node for every pending operator and to join the operands. *)
Fits == nodes' + Len(stack') + Len(pending') - 1 <= MaxNodes
FitsOperand == nodes + Len(stack') + Len(pending') + 1 <= MaxNodes

Pop(n) == SubSeq(stack, 1, Len(stack) - n)

Init ==
  /\ stack = << >>
  /\ pending = << >>
  /\ flag \in BOOLEAN
  /\ written = 0
  /\ performed = 0
  /\ due = 0
  /\ nodes = 0

(* Id::compile, Result::compile and StringValue::compile: the address of   *)
(* the variable, the result or the global string.                          *)
PushVariable ==
  /\ \E t \in VariableTypes :
       LET a == <<"at", t>> IN Push(stack, Node(t, TRUE, Address(t, a), a, {}))
  /\ UNCHANGED <<pending, memory, performed, due>>
  /\ Fits

(* nil is a null of type i32**, whatever it is compared with. *)
PushConst ==
  /\ \E t \in Constants :
       \E d \in IF t = typeBoolean THEN { Bool(TRUE), Bool(FALSE) } ELSE { <<"constant">> } :
         Push(stack, Node(t, FALSE,
                          Value(IF t = typeVoid THEN typePointer(typePointer(typeInteger)) ELSE t, d),
                          d, {}))
  /\ UNCHANGED <<pending, memory, performed, due>>
  /\ Fits

Count(b) == IF b THEN 1 ELSE 0
Running == \A i \in 1 .. Len(pending) : pending[i].full
Demanded == \A i \in 1 .. Len(pending) : pending[i].demanded

(* A mutation of PushCall: the operand is compiled twice, once for its     *)
(* type.                                                                   *)
PushCallTwice ==
  /\ \E t \in CallTypes :
       \E d \in IF t = typeBoolean THEN { Bool(TRUE), Bool(FALSE) } ELSE { <<"result">> } :
         Push(stack, Node(t, FALSE, Value(TypeConvert(t), d), d, {}))
  /\ performed' = performed + 2 * Count(Running)
  /\ due' = due + Count(Demanded)
  /\ UNCHANGED <<pending, memory>>
  /\ Fits

(* CallFunc::compile.  The call happens if every branch around it is       *)
(* taken, and may then change variables.  Its result is an r-value; a      *)
(* boolean one is either.                                                  *)
PushCall ==
  /\ \E t \in CallTypes :
       \E d \in IF t = typeBoolean THEN { Bool(TRUE), Bool(FALSE) } ELSE { <<"result">> } :
         Push(stack, Node(t, FALSE, Value(TypeConvert(t), d), d, {}))
  /\ performed' = performed + Count(Running)
  /\ due' = due + Count(Demanded)
  /\ \/ UNCHANGED memory
     \/ Running /\ flag' = ~flag /\ written' = written + 1
  /\ UNCHANGED pending
  /\ Fits

(* ArrayAccess: the index is compiled first, then the array, always an     *)
(* l-value, for no r-value is an array.  The address of an array [n] is    *)
(* stepped into with two indices, that of an array already is the address  *)
(* of an element.                                                          *)
ArrayAccess ==
  /\ Operands >= 2
  /\ IsArray(Top.type) /\ Below.type = typeInteger
  /\ LET i == Loaded(Below)
         elem == RefType(Top.type)
         at == RefType(Top.got.ty)
         got == CASE i.ty # typeInteger \/ Kind(Top.got.ty) # "pointer" -> IllTyped
                  [] Kind(Top.type) = "iarray" ->
                       Value(Top.got.ty, <<"element", Top.got.data, i.data>>)
                  [] OTHER ->
                       IF Kind(at) = "array"
                       THEN Value(typePointer(RefType(at)), <<"element", Top.got.data, i.data>>)
                       ELSE IllTyped
     IN Push(Pop(2), Node(elem, TRUE, got, <<"element", Top.meant, Meaning(Below)>>,
                          Top.flaws \cup Below.flaws \cup Late(Below)))
  /\ UNCHANGED <<pending, memory, performed, due>>
  /\ Fits

(* Dereference loads its operand, l-value or not, and its value is the     *)
(* address of what is pointed to.                                          *)
Dereference ==
  /\ Operands >= 1
  /\ Kind(Top.type) = "pointer"
  /\ Push(Pop(1), Node(RefType(Top.type), TRUE, CreateLoad(Top.got), Meaning(Top),
                       Top.flaws \cup IF Top.lvalue THEN {} ELSE {"rvalue"}))
  /\ UNCHANGED <<pending, memory, performed, due>>
  /\ Fits

AddressOf ==
  /\ Operands >= 1
  /\ Top.lvalue
  /\ Push(Pop(1), Node(typePointer(Top.type), FALSE, Top.got, Top.meant, Top.flaws))
  /\ UNCHANGED <<pending, memory, performed, due>>
  /\ Fits

Numeric(t) == t \in { typeInteger, typeReal }

(* A minus subtracts from a zero of the operand's type; a plus and a not   *)
(* take the operand's code as it is, an l-value's address included.        *)
Sign ==
  /\ Operands >= 1
  /\ Numeric(Top.type)
  /\ \/ LET got == Instruction("-", Top.type, Top.type, Value(Top.type, <<"zero">>), Loaded(Top))
        IN Push(Pop(1), Node(Top.type, FALSE, got, <<"-", <<"zero">>, Meaning(Top)>>, Top.flaws))
     \/ Push(Pop(1), Node(Top.type, FALSE, Top.got, Meaning(Top),
                          Top.flaws \cup IF Top.lvalue THEN {"lvalue"} ELSE {}))
  /\ UNCHANGED <<pending, memory, performed, due>>
  /\ Fits

Not ==
  /\ Operands >= 1
  /\ Top.type = typeBoolean
  /\ Push(Pop(1), Node(typeBoolean, FALSE, CreateNot(Top.got), Bool(Meaning(Top) = Bool(FALSE)),
                       Top.flaws \cup IF Top.lvalue THEN {"lvalue"} ELSE {}))
  /\ UNCHANGED <<pending, memory, performed, due>>
  /\ Fits

-----------------------------------------------------------------------------
(* Binary operators that evaluate both operands *)

Arithmetic == {"+", "-", "*", "/"}
IntegerOnly == {"div", "mod"}
Equality == {"=", "<>"}
Order == {"<", "<=", ">", ">="}

(* BinOp::semantic *)
OperandsOK(op, t, u) ==
  \/ op \in Arithmetic \cup Order /\ Numeric(t) /\ Numeric(u)
  \/ op \in IntegerOnly /\ t = typeInteger /\ u = typeInteger
  \/ /\ op \in Equality
     /\ \/ Numeric(t) /\ Numeric(u)
        \/ Equals(t, u) /\ ~IsArray(t)
        \/ Kind(t) = "pointer" /\ u = typeVoid
        \/ Kind(u) = "pointer" /\ t = typeVoid

IsReal(op, t, u) == typeReal \in {t, u} \/ op = "/"

ResultType(op, t, u) ==
  CASE op \in Equality \cup Order -> typeBoolean
    [] IsReal(op, t, u)           -> typeReal
    [] OTHER                      -> typeInteger

(* A mutation of Promoted: two integers are divided as they are. *)
PromotedUnlessDivided(op, e, t, u) ==
  IF typeReal \in {t, u} THEN SIToFP(Loaded(e)) ELSE Loaded(e)

(* The operand e of an operator on types t and u: loaded, and made a real  *)
(* when the other one is, or for a division.                               *)
Promoted(op, e, t, u) == IF IsReal(op, t, u) THEN SIToFP(Loaded(e)) ELSE Loaded(e)

(* nil takes the type of the pointer it is compared with. *)
Matched(v, t, other) ==
  IF t = typeVoid THEN CreatePointerCast(v, TypeConvert(other)) ELSE v

MeantOperand(op, e, t, u) ==
  IF IsReal(op, t, u) /\ e.type = typeInteger THEN <<"real", Meaning(e)>> ELSE Meaning(e)

(* What a comparison of l and r may come out as in the source: the data    *)
(* are unknown, but for booleans and nil.                                  *)
Outcomes(op, t, u, l, r) ==
  CASE t = typeVoid /\ u = typeVoid       -> { op = "=" }
    [] t = typeBoolean /\ u = typeBoolean -> { (l = r) <=> (op = "=") }
    [] OTHER                              -> BOOLEAN

(* The code compares the data it has: if these are the ones meant the      *)
(* outcome is the one meant.                                               *)
CompareInstruction(op, t, l, r, term, b) ==
  LET v == Instruction(op, t, typeBoolean, l, r) IN
  IF v.ty = typeBoolean /\ v.data = term THEN Value(typeBoolean, Bool(b))
  ELSE IF v.ty = typeBoolean THEN Value(typeBoolean, <<"another comparison">>) ELSE IllTyped

(* BinOp::compile, but for and and or.  FCmp and FAdd work on reals, ICmp  *)
(* and Add on the type of the operands.                                    *)
Binary ==
  /\ Operands >= 2
  /\ \E op \in Operators \ {"and", "or"} :
       LET t == Below.type
           u == Top.type
           l == Matched(Promoted(op, Below, t, u), t, u)
           r == Matched(Promoted(op, Top, t, u), u, t)
           ml == MeantOperand(op, Below, t, u)
           mr == MeantOperand(op, Top, t, u)
           real == IsReal(op, t, u)
           flaws == Below.flaws \cup Top.flaws \cup Late(Below)
       IN /\ OperandsOK(op, t, u)
          /\ IF op \in Equality \cup Order
             THEN \E b \in Outcomes(op, t, u, ml, mr) :
                    LET operands == IF real THEN typeReal ELSE l.ty
                        got == IF t = typeVoid /\ u = typeVoid
                               THEN Value(typeBoolean, Bool(op = "="))
                               ELSE CompareInstruction(op, operands, l, r, <<op, ml, mr>>, b)
                    IN Push(Pop(2), Node(typeBoolean, FALSE, got, Bool(b), flaws))
             ELSE LET type == ResultType(op, t, u)
                      got == Instruction(op, type, type, l, r)
                  IN Push(Pop(2), Node(type, FALSE, got, <<op, ml, mr>>, flaws))
  /\ UNCHANGED <<pending, memory, performed, due>>
  /\ Fits

-----------------------------------------------------------------------------
(* Short circuit *)

(* The operand that decides the result alone: false for and, true for or. *)
Deciding(op) == Bool(op = "or")

(* A mutation of BeginShort: or tests for false, as and does. *)
BeginShortOnFalse ==
  /\ Operands >= 1
  /\ Top.type = typeBoolean
  /\ \E op \in Operators \cap {"and", "or"} :
       pending' = Append(pending,
                    [op |-> op, left |-> Loaded(Top), meant |-> Meaning(Top), flaws |-> Top.flaws,
                     full |-> Loaded(Top).data # Bool(FALSE),
                     demanded |-> Meaning(Top) # Deciding(op), base |-> Len(stack) - 1])
  /\ stack' = Pop(1)
  /\ FitsOperand
  /\ UNCHANGED <<memory, performed, due, nodes>>

(* The left operand is compiled, loaded and tested before the right one is *)
(* compiled, in the block "full".                                          *)
BeginShort ==
  /\ Operands >= 1
  /\ Top.type = typeBoolean
  /\ \E op \in Operators \cap {"and", "or"} :
       pending' = Append(pending,
                    [op |-> op, left |-> Loaded(Top), meant |-> Meaning(Top), flaws |-> Top.flaws,
                     full |-> Loaded(Top).data # Deciding(op),
                     demanded |-> Meaning(Top) # Deciding(op), base |-> Len(stack) - 1])
  /\ stack' = Pop(1)
  /\ FitsOperand
  /\ UNCHANGED <<memory, performed, due, nodes>>

(* The right operand is loaded and combined with the left one by           *)
(* CreateAnd, for or as well, and a phi chooses between that and the       *)
(* deciding value.  Operands is 1: the right operand is complete.          *)
EndShort ==
  /\ pending # << >> /\ Operands = 1
  /\ Top.type = typeBoolean
  /\ LET p == pending[Len(pending)]
         combined == CreateAnd(p.left, Loaded(Top))
         got == IF combined # IllTyped /\ ~p.full
                THEN Value(typeBoolean, Deciding(p.op))
                ELSE combined
         meant == IF p.demanded THEN Meaning(Top) ELSE p.meant
         lost == p.op = "or" /\ p.demanded /\ Meaning(Top) = Bool(TRUE)
     IN Push(Pop(1), Node(typeBoolean, FALSE, got, meant,
                          p.flaws \cup Top.flaws \cup IF lost THEN {"or"} ELSE {}))
  /\ pending' = SubSeq(pending, 1, Len(pending) - 1)
  /\ UNCHANGED <<memory, performed, due>>
  /\ Fits

Next ==
  \/ PushVariable \/ PushConst \/ PushCall
  \/ ArrayAccess \/ Dereference \/ AddressOf
  \/ Sign \/ Not \/ Binary
  \/ BeginShort \/ EndShort

Spec == Init /\ [][Next]_vars

-----------------------------------------------------------------------------
(* Properties *)

Flaws ==
  UNION ({ stack[i].flaws : i \in 1 .. Len(stack) }
         \cup { pending[i].flaws : i \in 1 .. Len(pending) })

(* The operands of the pending operators lie one above the other, so that  *)
(* no operator takes an operand from outside its own.                      *)
TypeOK ==
  /\ \A i \in 1 .. Len(stack) :
       /\ stack[i].type \in Seq(Constructors) /\ stack[i].lvalue \in BOOLEAN
       /\ stack[i].flaws \subseteq {"or", "lvalue", "rvalue", "late"}
  /\ \A i \in 1 .. Len(pending) :
       /\ pending[i].op \in {"and", "or"}
       /\ pending[i].full \in BOOLEAN /\ pending[i].demanded \in BOOLEAN
       /\ pending[i].base <= IF i = Len(pending) THEN Len(stack) ELSE pending[i + 1].base
  /\ flag \in BOOLEAN /\ written \in 0 .. performed
  /\ performed \in 0 .. nodes /\ due \in 0 .. nodes

(* Whatever the operand rules accept is compiled to a value of the LLVM    *)
(* type TypeConvert gives its type, and this value is what the source      *)
(* means: operands loaded once, promoted together, in their order, and nil *)
(* comparable with every pointer, whatever the functions called on the way *)
(* change.  For an l-value that is the address.  Four constructs are left  *)
(* out, each a hazard of its own: or when only its right operand is true,  *)
(* not and plus of an l-value, an r-value dereferenced, and an operand     *)
(* changed by a call in the next one.                                      *)
Computes(e) ==
  IF e.lvalue THEN e.got = Address(e.type, e.meant)
  ELSE e.type # typeVoid => e.got = Value(TypeConvert(e.type), e.meant)

ComputesMeaning ==
  Flaws = {} => \A i \in 1 .. Len(stack) : Computes(stack[i])

(* A function in an operand of and or or is called exactly when the        *)
(* operands to its left leave the result open, however deep they nest.     *)
ShortCircuits == Flaws = {} => performed = due

(* "The PCL language is a strict subset of the pascal programming          *)
(* language" (readme.md:3): or is true when one operand is.                *)
OrMeans ==
  \A i \in 1 .. Len(stack) : stack[i].flaws \subseteq {"or"} => Computes(stack[i])
=============================================================================

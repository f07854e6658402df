--------------------------- MODULE Storage_proofs ---------------------------
(***************************************************************************)
(* For every set of pointer variables and types, blocks in any number and  *)
(* any history of new, dispose, copies and pointers to elements: accesses  *)
(* fit, elements have one address each, and only blocks are freed.         *)
(***************************************************************************)
EXTENDS Storage, Types_proofs

-----------------------------------------------------------------------------
(* Measure, unfolded at the outermost constructor                          *)

MeasureAt(f, t, scalar, k) ==
  IF t[k].kind = "array" THEN t[k].size * f[k + 1] ELSE scalar[t[k].kind]

Measuring(f, t, scalar, m, n) == f = [k \in m .. n |-> MeasureAt(f, t, scalar, k)]

LEMMA MeasuringExists ==
  ASSUME NEW t, NEW scalar, NEW n \in Nat, t[n].kind # "array"
  PROVE  \E f : Measuring(f, t, scalar, 1, n)
<1> DEFINE P == { m \in Nat : \E f : Measuring(f, t, scalar, n + 1 - m, n) }
<1>1. 0 \in P
  <2> DEFINE f == [k \in n + 1 .. n |-> 0]
  <2>1. n + 1 .. n = {} /\ n + 1 - 0 = n + 1
    OBVIOUS
  <2>2. Measuring(f, t, scalar, n + 1 - 0, n)
    BY <2>1 DEF Measuring
  <2>3. QED
    BY <2>2
<1>2. ASSUME NEW m \in P, m < n PROVE m + 1 \in P
  <2>1. PICK f : Measuring(f, t, scalar, n + 1 - m, n)
    OBVIOUS
  <2>2. m \in Nat
    OBVIOUS
  <2> HIDE DEF P
  <2> DEFINE first == MeasureAt(f, t, scalar, n - m)
             g == [k \in n - m .. n |-> IF k = n - m THEN first ELSE f[k]]
  <2>3. \A k \in n + 1 - m .. n : f[k] = MeasureAt(f, t, scalar, k)
    BY <2>1 DEF Measuring
  <2> HIDE DEF first
  <2>4. /\ g[n - m] = first /\ n - m \in n - m .. n
        /\ \A k \in n - m .. n : k # n - m => k \in n + 1 - m .. n /\ g[k] = f[k]
    BY <1>2, <2>2
  <2> HIDE DEF g
  <2>5. ASSUME NEW k \in n - m .. n
        PROVE  MeasureAt(g, t, scalar, k) = MeasureAt(f, t, scalar, k)
    <3>1. CASE k = n
      BY <3>1 DEF MeasureAt
    <3>2. CASE k # n
      <4>1. k + 1 \in n - m .. n /\ k + 1 # n - m
        BY <2>2, <3>2
      <4>2. g[k + 1] = f[k + 1]
        BY <2>4, <4>1
      <4>3. QED
        BY <4>2 DEF MeasureAt
    <3>3. QED
      BY <3>1, <3>2
  <2>6. \A k \in n - m .. n : g[k] = MeasureAt(g, t, scalar, k)
    BY <2>3, <2>4, <2>5 DEF first
  <2>7. g = [k \in n - m .. n |-> g[k]]
    BY DEF g
  <2>8. Measuring(g, t, scalar, n - m, n)
    BY <2>6, <2>7 DEF Measuring
  <2>9. n + 1 - (m + 1) = n - m /\ m + 1 \in Nat
    BY <2>2
  <2>10. QED
    BY <2>8, <2>9 DEF P
<1>3. n \in P
  <2>1. P \in SUBSET Nat
    OBVIOUS
  <2> HIDE DEF P
  <2>2. QED
    BY <1>1, <1>2, <2>1, UpTo
<1>4. QED
  BY <1>3

LEMMA MeasuringUnique ==
  ASSUME NEW t, NEW scalar, NEW n \in Nat, t[n].kind # "array",
         NEW f, Measuring(f, t, scalar, 1, n), NEW g, Measuring(g, t, scalar, 1, n),
         NEW k \in 1 .. n
  PROVE  f[k] = g[k]
<1> DEFINE P == { m \in Nat : n - m \in 1 .. n => f[n - m] = g[n - m] }
<1>1. \A j \in 1 .. n : f[j] = MeasureAt(f, t, scalar, j) /\ g[j] = MeasureAt(g, t, scalar, j)
  BY DEF Measuring
<1>2. 0 \in P
  <2>1. n \in 1 .. n => f[n] = g[n]
    BY <1>1 DEF MeasureAt
  <2>2. n - 0 = n
    OBVIOUS
  <2>3. QED
    BY <2>1, <2>2
<1>3. ASSUME NEW m \in P, m < n PROVE m + 1 \in P
  <2>1. m \in Nat /\ n - m \in 1 .. n /\ f[n - m] = g[n - m]
    BY <1>3
  <2>2. CASE n - (m + 1) \in 1 .. n
    <3>1. (n - (m + 1)) + 1 = n - m
      BY <2>1
    <3>2. f[n - (m + 1)] = g[n - (m + 1)]
      BY <1>1, <2>1, <2>2, <3>1 DEF MeasureAt
    <3>3. QED
      BY <2>1, <3>2
  <2>3. QED
    BY <2>1, <2>2
<1>4. n - k \in P
  <2>1. P \in SUBSET Nat /\ n - k \in Nat /\ n - k < n
    OBVIOUS
  <2> HIDE DEF P
  <2>2. \A m \in P : m < n - k => m + 1 \in P
    BY <1>3, <2>1
  <2>3. QED
    BY <1>2, <2>1, <2>2, UpTo
<1>5. n - (n - k) = k
  OBVIOUS
<1>6. QED
  BY <1>4, <1>5

LEMMA MeasureIs ==
  ASSUME NEW t, NEW scalar, Len(t) \in Nat, t[Len(t)].kind # "array"
  PROVE  \E f : Measuring(f, t, scalar, 1, Len(t)) /\ Measure(t, scalar) = f[1]
<1> DEFINE f == CHOOSE f : Measuring(f, t, scalar, 1, Len(t))
<1>1. Measuring(f, t, scalar, 1, Len(t))
  BY MeasuringExists
<1>2. Measure(t, scalar) = f[1]
  BY Zenon DEF Measure, Measuring, MeasureAt
<1>3. QED
  BY <1>1, <1>2

LEMMA MeasureUnfolds ==
  ASSUME NEW t \in Seq(Constructors), NEW scalar, Len(t) >= 1, t[Len(t)].kind # "array"
  PROVE  Measure(t, scalar) = IF t[1].kind = "array" THEN t[1].size * Measure(Tail(t), scalar)
                              ELSE scalar[t[1].kind]
<1> DEFINE n == Len(t)
<1>1. n \in Nat /\ 1 \in 1 .. n
  OBVIOUS
<1>2. PICK f : Measuring(f, t, scalar, 1, n) /\ Measure(t, scalar) = f[1]
  BY <1>1, MeasureIs
<1>3. \A k \in 1 .. n : f[k] = MeasureAt(f, t, scalar, k)
  BY <1>2 DEF Measuring
<1>4. CASE t[1].kind # "array"
  BY <1>1, <1>2, <1>3, <1>4 DEF MeasureAt
<1>5. CASE t[1].kind = "array"
  <2>1. n - 1 \in Nat /\ n - 1 >= 1 /\ n > 1
    BY <1>1, <1>5
  <2> DEFINE u == Tail(t)
             g == [k \in 1 .. n - 1 |-> f[k + 1]]
  <2>2. Len(u) = n - 1 /\ \A k \in 1 .. n - 1 : u[k] = t[k + 1]
    BY <2>1
  <2>3. \A k \in 1 .. n - 1 : g[k] = f[k + 1]
    OBVIOUS
  <2> HIDE DEF g, u
  <2>4. u[Len(u)].kind # "array"
    BY <2>1, <2>2
  <2>5. ASSUME NEW k \in 1 .. n - 1
        PROVE  g[k] = MeasureAt(g, u, scalar, k)
    <3>1. k + 1 \in 1 .. n /\ u[k] = t[k + 1]
      BY <1>1, <2>2
    <3>2. g[k] = MeasureAt(f, t, scalar, k + 1)
      BY <1>3, <2>3, <3>1
    <3>3. CASE k = n - 1
      <4>1. t[k + 1].kind # "array"
        BY <1>1, <3>3
      <4>2. QED
        BY <3>1, <3>2, <4>1 DEF MeasureAt
    <3>4. CASE k # n - 1
      <4>1. k + 1 \in 1 .. n - 1
        BY <2>1, <3>4
      <4>2. g[k + 1] = f[(k + 1) + 1]
        BY <2>3, <4>1
      <4>3. QED
        BY <3>1, <3>2, <4>2 DEF MeasureAt
    <3>5. QED
      BY <3>3, <3>4
  <2>6. g = [k \in 1 .. n - 1 |-> g[k]]
    BY DEF g
  <2>7. Measuring(g, u, scalar, 1, n - 1)
    BY <2>5, <2>6 DEF Measuring
  <2>8. PICK h : Measuring(h, u, scalar, 1, n - 1) /\ Measure(u, scalar) = h[1]
    BY <2>1, <2>2, <2>4, MeasureIs
  <2>9. g[1] = h[1]
    BY <2>1, <2>2, <2>4, <2>7, <2>8, MeasuringUnique
  <2>10. g[1] = f[1 + 1]
    BY <2>1, <2>3
  <2>11. QED
    BY <1>1, <1>2, <1>3, <1>5, <2>8, <2>9, <2>10 DEF MeasureAt, u
<1>6. QED
  BY <1>4, <1>5


-----------------------------------------------------------------------------
(* The types of variables and of their parts                               *)

Proper(t) == IsType(t) /\ ElementsConcrete(t)
PointerType(t) == Proper(t) /\ Kind(t) = "pointer"

LEMMA TailProper ==
  ASSUME NEW t, Proper(t), Len(t) > 1
  PROVE  /\ Proper(Tail(t)) /\ Len(Tail(t)) = Len(t) - 1
         /\ \A k \in 1 .. Len(t) - 1 : Tail(t)[k] = t[k + 1]
         /\ IsArray(t) => IsConcrete(Tail(t))
<1> DEFINE u == Tail(t)
           n == Len(t)
<1>1. /\ IsType(u) /\ Len(u) = n - 1 /\ n \in Nat
      /\ \A k \in 1 .. n - 1 : u[k] = t[k + 1]
  BY TailIsType DEF Proper, IsType
<1> HIDE DEF u
<1>2. ElementsConcrete(u)
  <2>1. ASSUME NEW k \in 1 .. Len(u) - 1, u[k].kind \in {"array", "iarray"}
        PROVE  u[k + 1].kind # "iarray"
    <3>1. k + 1 \in 1 .. n - 1 /\ k \in 1 .. n - 1
      BY <1>1
    <3>2. u[k] = t[k + 1] /\ u[k + 1] = t[(k + 1) + 1]
      BY <1>1, <3>1
    <3>3. QED
      BY <2>1, <3>1, <3>2 DEF Proper, ElementsConcrete
  <2>2. QED
    BY <2>1 DEF ElementsConcrete
<1>3. IsArray(t) => IsConcrete(u)
  <2>1. 1 \in 1 .. n - 1 /\ u[1] = t[1 + 1]
    BY <1>1
  <2>2. QED
    BY <2>1 DEF Proper, ElementsConcrete, IsArray, IsConcrete, Kind
<1>4. QED
  BY <1>1, <1>2, <1>3 DEF Proper, u

LEMMA PointedTo ==
  ASSUME NEW t, PointerType(t)
  PROVE  Proper(RefType(t))
<1>1. Len(t) > 1
  BY ScalarOrLonger DEF PointerType, Proper
<1>2. QED
  BY <1>1, TailProper DEF PointerType, RefType

LEMMA PointerTo ==
  ASSUME NEW t, Proper(t)
  PROVE  PointerType(typePointer(t)) /\ RefType(typePointer(t)) = t
<1> DEFINE v == typePointer(t)
<1>1. IsType(v) /\ Kind(v) = "pointer" /\ RefType(v) = t
  BY PointerIsType DEF Proper
<1>2. ElementsConcrete(v)
  <2>1. /\ Len(v) = Len(t) + 1 /\ Len(t) \in Nat /\ v[1].kind = "pointer"
        /\ \A k \in 1 .. Len(t) : v[k + 1] = t[k]
    <3>1. Constructor("pointer", 0) \in Constructors /\ t \in Seq(Constructors)
      BY DEF Constructor, Constructors, Proper, IsType
    <3>2. QED
      BY <1>1, <3>1, Prefixed DEF typePointer, Kind
  <2> HIDE DEF v
  <2>2. ASSUME NEW k \in 1 .. Len(v) - 1, v[k].kind \in {"array", "iarray"}
        PROVE  v[k + 1].kind # "iarray"
    <3>1. k # 1
      BY <2>1, <2>2
    <3>2. k - 1 \in 1 .. Len(t) - 1 /\ k \in 1 .. Len(t) /\ (k - 1) + 1 = k
      BY <2>1, <3>1
    <3>3. v[k] = t[k - 1] /\ v[k + 1] = t[(k - 1) + 1]
      BY <2>1, <3>2
    <3>4. QED
      BY <2>2, <3>2, <3>3 DEF Proper, ElementsConcrete
  <2>3. QED
    BY <2>2 DEF ElementsConcrete
<1>3. QED
  BY <1>1, <1>2 DEF PointerType, Proper

-----------------------------------------------------------------------------
(* The unit of a type: the size of the scalars it is made of               *)

BaseAt(t, j) ==
  /\ j \in 1 .. Len(t) /\ ~(t[j].kind \in {"array", "iarray"})
  /\ \A k \in 1 .. j - 1 : t[k].kind \in {"array", "iarray"}

Base(t) == CHOOSE j \in 1 .. Len(t) : BaseAt(t, j)
Unit(t) == ScalarSizes[t[Base(t)].kind]

LEMMA BaseIs ==
  ASSUME NEW t, Proper(t)
  PROVE  /\ BaseAt(t, Base(t))
         /\ \A j \in 1 .. Len(t) : BaseAt(t, j) => j = Base(t)
<1> DEFINE T == { j \in 1 .. Len(t) : ~(t[j].kind \in {"array", "iarray"}) }
<1>1. Len(t) \in Nat /\ Len(t) \in 1 .. Len(t)
  BY DEF Proper, IsType
<1>2. Len(t) \in T /\ T \in SUBSET Nat
  BY <1>1, LastIsScalar DEF Proper
<1>3. PICK j \in T : \A k \in T : j <= k
  BY <1>2, Least
<1>4. BaseAt(t, j)
  <2>1. j \in 1 .. Len(t) /\ ~(t[j].kind \in {"array", "iarray"})
    OBVIOUS
  <2>2. \A k \in 1 .. Len(t) : k \in T \/ t[k].kind \in {"array", "iarray"}
    OBVIOUS
  <2> HIDE DEF T
  <2>3. \A k \in 1 .. j - 1 : k \in 1 .. Len(t) /\ ~(j <= k)
    BY <1>1, <2>1
  <2>4. QED
    BY <1>3, <2>1, <2>2, <2>3 DEF BaseAt
<1>5. BaseAt(t, Base(t)) /\ Base(t) \in 1 .. Len(t)
  <2>1. j \in 1 .. Len(t)
    OBVIOUS
  <2> HIDE DEF T
  <2>2. QED
    BY <1>4, <2>1 DEF Base
<1>6. ASSUME NEW i \in 1 .. Len(t), NEW k \in 1 .. Len(t), BaseAt(t, i), BaseAt(t, k)
      PROVE  ~(i < k)
  BY <1>1, <1>6 DEF BaseAt
<1>7. QED
  BY <1>1, <1>5, <1>6

LEMMA UnitUnfolds ==
  ASSUME NEW t, Proper(t)
  PROVE  /\ IsArray(t) => Unit(t) = Unit(Tail(t))
         /\ ~IsArray(t) => Unit(t) = ScalarSizes[Kind(t)]
<1>1. Len(t) \in Nat /\ 1 \in 1 .. Len(t)
  BY DEF Proper, IsType
<1>2. CASE ~IsArray(t)
  <2>1. BaseAt(t, 1)
    BY <1>1, <1>2 DEF BaseAt, IsArray, Kind
  <2>2. Base(t) = 1
    BY <1>1, <2>1, BaseIs
  <2>3. QED
    BY <1>2, <2>2 DEF Unit, Kind
<1>3. CASE IsArray(t)
  <2> DEFINE b == Base(t)
  <2>1. Len(t) > 1
    BY <1>3, ScalarOrLonger DEF IsArray, Proper
  <2>2. /\ Proper(Tail(t)) /\ Len(Tail(t)) = Len(t) - 1
        /\ \A k \in 1 .. Len(t) - 1 : Tail(t)[k] = t[k + 1]
    BY <2>1, TailProper
  <2>3. /\ b \in 1 .. Len(t) /\ ~(t[b].kind \in {"array", "iarray"})
        /\ \A k \in 1 .. b - 1 : t[k].kind \in {"array", "iarray"}
    BY BaseIs DEF BaseAt
  <2> HIDE DEF b
  <2>4. b # 1
    BY <1>3, <2>3 DEF IsArray, Kind
  <2>5. b - 1 \in 1 .. Len(t) - 1 /\ (b - 1) + 1 = b
    BY <1>1, <2>3, <2>4
  <2>6. Tail(t)[b - 1] = t[b]
    BY <2>2, <2>5
  <2>7. \A k \in 1 .. (b - 1) - 1 : k \in 1 .. Len(t) - 1 /\ k + 1 \in 1 .. b - 1
    BY <1>1, <2>3, <2>5
  <2>8. \A k \in 1 .. (b - 1) - 1 : Tail(t)[k].kind \in {"array", "iarray"}
    BY <2>2, <2>3, <2>7
  <2>9. BaseAt(Tail(t), b - 1)
    BY <2>2, <2>3, <2>5, <2>6, <2>8 DEF BaseAt
  <2>10. Base(Tail(t)) = b - 1
    BY <2>2, <2>5, <2>9, BaseIs
  <2>11. QED
    BY <1>3, <2>6, <2>10 DEF Unit, b
<1>4. QED
  BY <1>2, <1>3

LEMMA UnitPositive ==
  ASSUME NEW t, Proper(t)
  PROVE  Unit(t) \in Nat /\ Unit(t) >= 1
<1>1. /\ Base(t) \in 1 .. Len(t) /\ t[Base(t)] \in Constructors
      /\ t[Base(t)].kind # "void" /\ ~(t[Base(t)].kind \in {"array", "iarray"})
  BY BaseIs DEF BaseAt, Proper, IsType
<1>2. t[Base(t)].kind \in {"boolean", "char", "integer", "real", "pointer"}
  BY <1>1 DEF Constructors
<1>3. QED
  BY <1>2 DEF Unit, ScalarSizes

LEMMA MeasureOfScalar ==
  ASSUME NEW t, Proper(t), NEW scalar, ~IsArray(t)
  PROVE  /\ Measure(t, scalar) = scalar[Kind(t)]
         /\ Measure(TypeConvert(t), scalar) = scalar[Kind(t)]
<1>1. t \in Seq(Constructors) /\ Len(t) >= 1 /\ t[Len(t)].kind # "array"
  BY LastIsScalar DEF Proper, IsType
<1>2. t[1].kind # "array" /\ IsConcrete(t)
  BY DEF IsArray, IsConcrete, Kind
<1>3. Measure(t, scalar) = scalar[Kind(t)]
  BY <1>1, <1>2, MeasureUnfolds DEF Kind
<1>4. Measure(TypeConvert(t), scalar) = scalar[Kind(t)]
  <2>1. /\ TypeConvert(t) \in Seq(Constructors) /\ Len(TypeConvert(t)) >= 1
        /\ TypeConvert(t)[Len(TypeConvert(t))].kind # "array" /\ TypeConvert(t)[1] = t[1]
    BY <1>2, ConvertTyped DEF Proper
  <2>2. QED
    BY <1>2, <2>1, MeasureUnfolds DEF Kind
<1>5. QED
  BY <1>3, <1>4

LEMMA MeasureOfArray ==
  ASSUME NEW t, Proper(t), NEW scalar, Kind(t) = "array"
  PROVE  /\ Measure(t, scalar) = t[1].size * Measure(Tail(t), scalar)
         /\ Measure(TypeConvert(t), scalar) = t[1].size * Measure(TypeConvert(Tail(t)), scalar)
<1>1. t \in Seq(Constructors) /\ Len(t) >= 1 /\ t[Len(t)].kind # "array"
  BY LastIsScalar DEF Proper, IsType
<1>2. t[1].kind = "array" /\ IsConcrete(t)
  BY DEF IsConcrete, Kind
<1>3. Measure(t, scalar) = t[1].size * Measure(Tail(t), scalar)
  BY <1>1, <1>2, MeasureUnfolds
<1>4. Measure(TypeConvert(t), scalar) = t[1].size * Measure(TypeConvert(Tail(t)), scalar)
  <2>1. /\ TypeConvert(t) \in Seq(Constructors) /\ Len(TypeConvert(t)) >= 1
        /\ TypeConvert(t)[Len(TypeConvert(t))].kind # "array" /\ TypeConvert(t)[1] = t[1]
        /\ Tail(TypeConvert(t)) = TypeConvert(Tail(t))
    BY <1>2, ConvertTyped DEF Proper
  <2>2. QED
    BY <1>2, <2>1, MeasureUnfolds
<1>5. QED
  BY <1>3, <1>4

(* The bytes of a type are those of its scalars.                           *)
LEMMA Measured ==
  ASSUME NEW t, Proper(t), IsConcrete(t)
  PROVE  /\ Scalars(t) \in Nat /\ Scalars(TypeConvert(t)) = Scalars(t)
         /\ SizeOf(TypeConvert(t)) = Scalars(t) * Unit(t)
<1> DEFINE Good(u) == /\ Scalars(u) \in Nat /\ Scalars(TypeConvert(u)) = Scalars(u)
                      /\ SizeOf(TypeConvert(u)) = Scalars(u) * Unit(u)
           P == { n \in Nat : \A u : Proper(u) /\ IsConcrete(u) /\ Len(u) = n + 1 => Good(u) }
<1>1. ASSUME NEW u, Proper(u), ~IsArray(u) PROVE Good(u)
  <2> DEFINE ones == [k \in DOMAIN ScalarSizes |-> 1]
  <2>1. Kind(u) \in {"boolean", "char", "integer", "real", "pointer"}
    BY <1>1, ScalarOrLonger DEF IsArray, Proper
  <2>2. ones[Kind(u)] = 1
    BY <2>1 DEF ScalarSizes
  <2> HIDE DEF ones
  <2>3. Measure(u, ones) = 1 /\ Measure(TypeConvert(u), ones) = 1
    BY <1>1, <2>2, MeasureOfScalar
  <2>4. Scalars(u) = 1 /\ Scalars(TypeConvert(u)) = 1
    BY <2>3 DEF Scalars, ones
  <2>5. SizeOf(TypeConvert(u)) = Unit(u)
    BY <1>1, MeasureOfScalar, UnitUnfolds DEF SizeOf
  <2>6. Unit(u) = 1 * Unit(u)
    BY <1>1, UnitPositive
  <2>7. QED
    BY <2>4, <2>5, <2>6
<1>2. ASSUME NEW u, Proper(u), Kind(u) = "array", Good(Tail(u)) PROVE Good(u)
  <2> DEFINE ones == [k \in DOMAIN ScalarSizes |-> 1]
  <2>1. u[1].size \in Nat /\ Len(u) > 1 /\ IsArray(u)
    BY <1>2, ScalarOrLonger DEF Constructors, IsArray, Proper
  <2> HIDE DEF ones
  <2>2. /\ Measure(u, ones) = u[1].size * Measure(Tail(u), ones)
        /\ Measure(TypeConvert(u), ones) = u[1].size * Measure(TypeConvert(Tail(u)), ones)
    BY <1>2, MeasureOfArray
  <2>3. /\ Scalars(u) = u[1].size * Scalars(Tail(u))
        /\ Scalars(TypeConvert(u)) = u[1].size * Scalars(TypeConvert(Tail(u)))
    BY <2>2 DEF Scalars, ones
  <2>4. SizeOf(TypeConvert(u)) = u[1].size * SizeOf(TypeConvert(Tail(u)))
    BY <1>2, MeasureOfArray DEF SizeOf
  <2>5. Unit(u) = Unit(Tail(u)) /\ Unit(u) \in Nat
    BY <1>2, <2>1, UnitUnfolds, UnitPositive
  <2>6. SizeOf(TypeConvert(u)) = Scalars(u) * Unit(u) /\ Scalars(u) \in Nat
    <3>1. \A a, b, d \in Nat : a * (b * d) = (a * b) * d /\ a * b \in Nat
      OBVIOUS
    <3>2. QED
      BY <1>2, <2>1, <2>3, <2>4, <2>5, <3>1
  <2>7. QED
    BY <1>2, <2>3, <2>6
<1> HIDE DEF Good
<1>3. \A u : Proper(u) /\ IsConcrete(u) => ~IsArray(u) \/ Kind(u) = "array"
  BY DEF IsArray, IsConcrete
<1>4. 0 \in P
  <2>1. ASSUME NEW u, Proper(u), IsConcrete(u), Len(u) = 0 + 1 PROVE Good(u)
    <3>1. ~(Len(u) > 1)
      BY <2>1
    <3>2. ~IsArray(u)
      BY <2>1, <3>1, ScalarOrLonger DEF IsArray, Proper
    <3>3. QED
      BY <1>1, <2>1, <3>2
  <2>2. QED
    BY <2>1
<1>5. ASSUME NEW n \in Nat, n \in P PROVE n + 1 \in P
  <2>1. ASSUME NEW u, Proper(u), IsConcrete(u), Len(u) = (n + 1) + 1 PROVE Good(u)
    <3>1. CASE ~IsArray(u)
      BY <1>1, <2>1, <3>1
    <3>2. CASE Kind(u) = "array"
      <4>1. Len(u) > 1 /\ IsArray(u)
        BY <2>1, <3>2 DEF IsArray
      <4>2. Proper(Tail(u)) /\ Len(Tail(u)) = n + 1 /\ IsConcrete(Tail(u))
        BY <2>1, <4>1, TailProper
      <4>3. Good(Tail(u))
        BY <1>5, <4>2
      <4>4. QED
        BY <1>2, <2>1, <3>2, <4>3
    <3>3. QED
      BY <1>3, <2>1, <3>1, <3>2
  <2>2. QED
    BY <2>1
<1>6. Len(t) - 1 \in P
  <2>1. P \in SUBSET Nat /\ Len(t) - 1 \in Nat
    BY DEF Proper, IsType
  <2> HIDE DEF P
  <2>2. QED
    BY <1>4, <1>5, <2>1, UpTo
<1>7. Len(t) = (Len(t) - 1) + 1
  BY DEF Proper
<1>8. Good(t)
  BY <1>6, <1>7
<1>9. QED
  BY <1>8 DEF Good

(* The same of array of T, which is measured as the T it becomes.          *)
LEMMA MeasuredAny ==
  ASSUME NEW t, Proper(t)
  PROVE  /\ Scalars(TypeConvert(t)) \in Nat
         /\ SizeOf(TypeConvert(t)) = Scalars(TypeConvert(t)) * Unit(t)
<1>1. CASE IsConcrete(t)
  BY <1>1, Measured
<1>2. CASE ~IsConcrete(t)
  <2>1. IsArray(t) /\ Kind(t) = "iarray"
    BY <1>2 DEF IsArray, IsConcrete
  <2>2. Len(t) > 1
    BY <2>1, ScalarOrLonger DEF Proper
  <2>3. Proper(Tail(t)) /\ IsConcrete(Tail(t))
    BY <2>1, <2>2, TailProper
  <2>4. t \in Seq(Constructors) /\ t # << >>
    BY ScalarOrLonger DEF Proper, IsType
  <2>5. TypeConvert(t) = TypeConvert(Tail(t))
    BY <2>1, <2>4, ConvertUnfolds DEF Kind
  <2>6. QED
    BY <2>1, <2>3, <2>5, Measured, UnitUnfolds
<1>3. QED
  BY <1>1, <1>2


-----------------------------------------------------------------------------
(* Pointers and their elements                                             *)

LEMMA ElementsOf ==
  ASSUME NEW t, Proper(t), IsArray(t)
  PROVE  /\ Proper(RefType(t)) /\ IsConcrete(RefType(t))
         /\ Unit(t) = Unit(RefType(t))
<1>1. Len(t) > 1
  BY ScalarOrLonger DEF IsArray, Proper
<1>2. QED
  BY <1>1, TailProper, UnitUnfolds DEF RefType

(* A pointer is given the value of another only if they point to scalars   *)
(* of the same size.                                                       *)
LEMMA CompatibleUnits ==
  ASSUME NEW t, PointerType(t), NEW u, PointerType(u), IsCompatibleWith(t, u)
  PROVE  Unit(RefType(t)) = Unit(RefType(u))
<1>1. Equals(t, u) \/ PointerSpecialCase(t, u)
  BY DEF IsCompatibleWith, PointerType
<1>2. CASE Equals(t, u)
  BY <1>2, EqualTypes DEF PointerType, Proper
<1>3. CASE PointerSpecialCase(t, u)
  <2>1. IsArray(RefType(t)) /\ IsArray(RefType(u))
    BY <1>3 DEF PointerSpecialCase, IsArray
  <2>2. Equals(RefType(RefType(t)), RefType(RefType(u)))
    BY <1>3 DEF PointerSpecialCase
  <2>3. Proper(RefType(t)) /\ Proper(RefType(u))
    BY PointedTo
  <2>4. /\ Proper(RefType(RefType(t))) /\ Unit(RefType(t)) = Unit(RefType(RefType(t)))
        /\ Proper(RefType(RefType(u))) /\ Unit(RefType(u)) = Unit(RefType(RefType(u)))
    BY <2>1, <2>3, ElementsOf
  <2>5. QED
    BY <2>2, <2>4, EqualTypes DEF Proper
<1>4. QED
  BY <1>1, <1>2, <1>3

(* The unit of a pointer variable: that of the objects it points into.     *)
UnitOf(p) == Unit(RefType(TypeOf[p]))

LEMMA VariableTypes ==
  ASSUME NEW p \in Pointers
  PROVE  PointerType(TypeOf[p])
BY PointersAssumption DEF PointerType, Proper, VariableTypeOK

LEMMA UnitOfIs ==
  ASSUME NEW p \in Pointers
  PROVE  UnitOf(p) \in Nat /\ UnitOf(p) >= 1
BY VariableTypes, PointedTo, UnitPositive DEF UnitOf

LEMMA ElementIs ==
  ASSUME NEW p \in Pointers
  PROVE  /\ Proper(Element(p)) /\ Unit(Element(p)) = UnitOf(p)
         /\ Scalars(Element(p)) \in Nat
         /\ SizeOf(TypeConvert(Element(p))) = Scalars(Element(p)) * UnitOf(p)
<1> DEFINE t == RefType(TypeOf[p])
<1>1. Proper(t)
  BY VariableTypes, PointedTo
<1>2. CASE IsArray(t)
  <2>1. Element(p) = RefType(t)
    BY <1>2 DEF Element
  <2>2. Proper(Element(p)) /\ IsConcrete(Element(p)) /\ Unit(t) = Unit(Element(p))
    BY <1>1, <1>2, <2>1, ElementsOf
  <2>3. QED
    BY <2>2, Measured DEF UnitOf
<1>3. CASE ~IsArray(t)
  <2>1. Element(p) = t /\ IsConcrete(t)
    BY <1>3 DEF Element, IsArray, IsConcrete
  <2>2. QED
    BY <1>1, <2>1, Measured DEF UnitOf
<1>4. QED
  BY <1>2, <1>3


-----------------------------------------------------------------------------
(* The invariant                                                           *)

Block == [bytes : 0 .. Memory, live : BOOLEAN]
Object == [scalars : Nat, live : BOOLEAN]

(* No array is asked for whose size exceeds what a size can hold; the code *)
(* multiplies without a test.                                              *)
CountsFit ==
  \A p \in Pointers, n \in Counts :
    n > 0 => SizeOf(TypeConvert(RefType(TypeOf[p]))) * n < 2 ^ SizeWidth

(* bs and os are the blocks and objects, u the unit of each.  A pointer    *)
(* holds the address of the scalar it denotes, counted in its own unit,    *)
(* which is that of the object; the block has room for the object and,     *)
(* after lawful disposals only, is there as long as the object is.  What a *)
(* dispose leaves in a variable is an address into a block that is gone.   *)
PointsTo(bs, os, law, u, p, held, denoted, b, k) ==
  /\ denoted = Address(b, k) /\ held = Address(b, k * UnitOf(p))
  /\ u[b] = UnitOf(p)
  /\ Roomy /\ CountsFit => os[b].scalars * u[b] <= bs[b].bytes
  /\ law /\ os[b].live => bs[b].live

Left(bs, law, held) ==
  ValueOK(held, Len(bs)) /\ (law /\ IsAddress(held) => ~bs[held[2]].live)

PointerOK(bs, os, law, u, p, held, denoted) ==
  \/ held = denoted /\ held \in {Wild, Nil}
  \/ denoted = Nil /\ Left(bs, law, held)
  \/ \E b \in 1 .. Len(bs), k \in Nat : PointsTo(bs, os, law, u, p, held, denoted, b, k)

Tables ==
  /\ blocks \in Seq(Block) /\ objects \in Seq(Object) /\ Len(blocks) = Len(objects)
  /\ state \in {"run", "corrupt"} /\ lawful \in BOOLEAN /\ reused \in BOOLEAN
  /\ ptr = [p \in Pointers |-> ptr[p]] /\ meant = [p \in Pointers |-> meant[p]]

PointersOK(u) ==
  \A p \in Pointers : PointerOK(blocks, objects, lawful, u, p, ptr[p], meant[p])

StoInv == Tables /\ FreesOnlyBlocks /\ \E u : PointersOK(u)

LEMMA AddressIs ==
  /\ \A b, k : /\ Address(b, k)[1] = "at" /\ Address(b, k)[2] = b /\ Address(b, k)[3] = k
               /\ Address(b, k) # Wild /\ Address(b, k) # Nil /\ IsAddress(Address(b, k))
  /\ ~IsAddress(Wild) /\ ~IsAddress(Nil) /\ Wild # Nil
  /\ \A b, k, c, j : Address(b, k) = Address(c, j) <=> b = c /\ k = j
BY DEF Address, IsAddress, Wild, Nil

(* What a variable holds, where the invariant is true.                     *)
LEMMA PointerCases ==
  ASSUME NEW bs, NEW os, NEW law, NEW u, NEW p, NEW held, NEW denoted,
         PointerOK(bs, os, law, u, p, held, denoted), IsAddress(denoted)
  PROVE  \E b \in 1 .. Len(bs), k \in Nat : PointsTo(bs, os, law, u, p, held, denoted, b, k)
BY AddressIs DEF PointerOK

LEMMA InitHolds == Init => StoInv
<1> SUFFICES ASSUME Init PROVE StoInv
  OBVIOUS
<1>1. /\ blocks = << >> /\ objects = << >> /\ lawful = TRUE /\ reused = FALSE /\ state = "run"
      /\ ptr = [p \in Pointers |-> Wild] /\ meant = [p \in Pointers |-> Wild]
  BY DEF Init
<1>2. Tables
  <2>1. blocks \in Seq(Block) /\ objects \in Seq(Object) /\ Len(blocks) = Len(objects)
    BY <1>1
  <2>2. ptr = [p \in Pointers |-> ptr[p]] /\ meant = [p \in Pointers |-> meant[p]]
    BY <1>1
  <2>3. QED
    BY <1>1, <2>1, <2>2 DEF Tables
<1>3. PointersOK(<< >>)
  BY <1>1 DEF PointersOK, PointerOK
<1>4. QED
  BY <1>1, <1>2, <1>3 DEF StoInv, FreesOnlyBlocks

-----------------------------------------------------------------------------
(* Assignments to a variable                                               *)

Set(f, p, v) == [f EXCEPT ![p] = v]

LEMMA SetIs ==
  ASSUME NEW f, f = [q \in Pointers |-> f[q]], NEW p \in Pointers, NEW v
  PROVE  /\ Set(f, p, v) = [q \in Pointers |-> Set(f, p, v)[q]]
         /\ Set(f, p, v)[p] = v
         /\ \A q \in Pointers : q # p => Set(f, p, v)[q] = f[q]
BY DEF Set

LEMMA SetKeeps ==
  ASSUME StoInv, NEW p \in Pointers, NEW held, NEW denoted,
         ptr' = Set(ptr, p, held), meant' = Set(meant, p, denoted),
         UNCHANGED <<blocks, objects, lawful, reused, state>>,
         \A u : PointersOK(u) => PointerOK(blocks, objects, lawful, u, p, held, denoted)
  PROVE  StoInv'
<1>1. Tables /\ FreesOnlyBlocks
  BY DEF StoInv
<1>2. PICK u : PointersOK(u)
  BY DEF StoInv
<1>3. /\ ptr' = [q \in Pointers |-> ptr'[q]] /\ meant' = [q \in Pointers |-> meant'[q]]
      /\ ptr'[p] = held /\ meant'[p] = denoted
      /\ \A q \in Pointers : q # p => ptr'[q] = ptr[q] /\ meant'[q] = meant[q]
  BY <1>1, SetIs DEF Tables
<1>4. Tables' /\ FreesOnlyBlocks'
  BY <1>1, <1>3 DEF Tables, FreesOnlyBlocks
<1>5. ASSUME NEW q \in Pointers
      PROVE  PointerOK(blocks, objects, lawful, u, q, ptr'[q], meant'[q])
  BY <1>2, <1>3, Zenon DEF PointersOK
<1>6. PointersOK(u)'
  BY <1>5, Zenon DEF PointersOK
<1>7. QED
  BY <1>4, <1>6 DEF StoInv

LEMMA AssignNilKeeps ==
  ASSUME StoInv, NEW p \in Pointers, AssignNil(p)
  PROVE  StoInv'
<1>1. /\ ptr' = Set(ptr, p, Nil) /\ meant' = Set(meant, p, Nil)
      /\ UNCHANGED <<blocks, objects, lawful, reused, state>>
  BY DEF AssignNil, Set
<1>2. \A u : PointerOK(blocks, objects, lawful, u, p, Nil, Nil)
  BY DEF PointerOK
<1>3. QED
  BY <1>1, <1>2, SetKeeps, Zenon

LEMMA AssignKeeps ==
  ASSUME StoInv, NEW p \in Pointers, NEW q \in Pointers, Assign(p, q)
  PROVE  StoInv'
<1>1. /\ ptr' = Set(ptr, p, ptr[q]) /\ meant' = Set(meant, p, meant[q])
      /\ UNCHANGED <<blocks, objects, lawful, reused, state>>
      /\ IsCompatibleWith(TypeOf[p], TypeOf[q])
  BY DEF Assign, Set
<1>2. UnitOf(p) = UnitOf(q)
  BY <1>1, VariableTypes, CompatibleUnits DEF UnitOf
<1>3. ASSUME NEW u, PointersOK(u)
      PROVE  PointerOK(blocks, objects, lawful, u, p, ptr[q], meant[q])
  <2>1. PointerOK(blocks, objects, lawful, u, q, ptr[q], meant[q])
    BY <1>3 DEF PointersOK
  <2>2. \A b, k : PointsTo(blocks, objects, lawful, u, q, ptr[q], meant[q], b, k)
                    => PointsTo(blocks, objects, lawful, u, p, ptr[q], meant[q], b, k)
    BY <1>2 DEF PointsTo
  <2>3. QED
    BY <2>1, <2>2, Zenon DEF PointerOK
<1>4. QED
  BY <1>1, <1>3, SetKeeps, Zenon

(* The address of an element, in terms of the scalar it is.                *)
LEMMA ElementAddressIs ==
  ASSUME NEW u, PointersOK(u), NEW q \in Pointers, NEW i \in Indices, Legal(q, i)
  PROVE  \E b \in 1 .. Len(blocks), k \in Nat :
           /\ ElementMeant(q, i) = Address(b, k)
           /\ ElementAddress(q, i) = Address(b, k * UnitOf(q))
           /\ k + Scalars(Element(q)) <= objects[b].scalars /\ objects[b].live
           /\ u[b] = UnitOf(q)
           /\ Roomy /\ CountsFit => objects[b].scalars * u[b] <= blocks[b].bytes
           /\ lawful /\ objects[b].live => blocks[b].live
<1>1. IsAddress(meant[q]) /\ PointerOK(blocks, objects, lawful, u, q, ptr[q], meant[q])
  BY DEF Legal, PointersOK
<1>0. PICK b \in 1 .. Len(blocks), k \in Nat :
        PointsTo(blocks, objects, lawful, u, q, ptr[q], meant[q], b, k)
  BY <1>1, PointerCases, Zenon
<1>2. /\ meant[q] = Address(b, k) /\ ptr[q] = Address(b, k * UnitOf(q))
      /\ u[b] = UnitOf(q)
      /\ Roomy /\ CountsFit => objects[b].scalars * u[b] <= blocks[b].bytes
      /\ lawful /\ objects[b].live => blocks[b].live
  BY <1>0 DEF PointsTo
<1> DEFINE n == Scalars(Element(q))
           j == k + i * n
<1>3. /\ meant[q][2] = b /\ meant[q][3] = k
      /\ ptr[q][2] = b /\ ptr[q][3] = k * UnitOf(q)
  BY <1>2, AddressIs
<1>4. /\ n \in Nat /\ UnitOf(q) \in Nat /\ i \in Nat
      /\ SizeOf(TypeConvert(Element(q))) = n * UnitOf(q)
  BY ElementIs, UnitOfIs, BoundsAssumption
<1>5. ElementMeant(q, i) = Address(b, j)
  BY <1>3 DEF ElementMeant
<1>6. ElementAddress(q, i) = Address(b, k * UnitOf(q) + i * (n * UnitOf(q)))
  BY <1>3, <1>4 DEF ElementAddress
<1> HIDE DEF n
<1>7. j \in Nat /\ k * UnitOf(q) + i * (n * UnitOf(q)) = j * UnitOf(q)
  <2>1. \A x, y, z, w \in Nat : x * w + y * (z * w) = (x + y * z) * w /\ x + y * z \in Nat
    OBVIOUS
  <2>2. QED
    BY <1>4, <2>1
<1>8. ElementMeant(q, i)[3] = j
  BY <1>5, AddressIs
<1>9. j + n <= objects[b].scalars /\ objects[b].live
  BY <1>3, <1>8 DEF Legal, n
<1> HIDE DEF j
<1>10. QED
  BY <1>2, <1>5, <1>6, <1>7, <1>9 DEF n

LEMMA PointToElementKeeps ==
  ASSUME StoInv, NEW p \in Pointers, NEW q \in Pointers, NEW i \in Indices,
         PointToElement(p, q, i)
  PROVE  StoInv'
<1>1. /\ ptr' = Set(ptr, p, ElementAddress(q, i)) /\ meant' = Set(meant, p, ElementMeant(q, i))
      /\ UNCHANGED <<blocks, objects, lawful, reused, state>>
      /\ IsCompatibleWith(TypeOf[p], typePointer(Element(q)))
      /\ Legal(q, i)
  BY DEF PointToElement, Set
<1>2. UnitOf(p) = UnitOf(q)
  <2>1. PointerType(typePointer(Element(q))) /\ RefType(typePointer(Element(q))) = Element(q)
    BY ElementIs, PointerTo
  <2>2. Unit(RefType(TypeOf[p])) = Unit(Element(q))
    BY <1>1, <2>1, VariableTypes, CompatibleUnits, Zenon
  <2>3. QED
    BY <2>2, ElementIs DEF UnitOf
<1>3. ASSUME NEW u, PointersOK(u)
      PROVE  PointerOK(blocks, objects, lawful, u, p, ElementAddress(q, i), ElementMeant(q, i))
  <2>1. PICK b \in 1 .. Len(blocks), k \in Nat :
           /\ ElementMeant(q, i) = Address(b, k)
           /\ ElementAddress(q, i) = Address(b, k * UnitOf(q))
           /\ k + Scalars(Element(q)) <= objects[b].scalars /\ objects[b].live
           /\ u[b] = UnitOf(q)
           /\ Roomy /\ CountsFit => objects[b].scalars * u[b] <= blocks[b].bytes
           /\ lawful /\ objects[b].live => blocks[b].live
    BY <1>1, <1>3, ElementAddressIs, Zenon
  <2>2. PointsTo(blocks, objects, lawful, u, p, ElementAddress(q, i), ElementMeant(q, i), b, k)
    BY <1>2, <2>1 DEF PointsTo
  <2>3. QED
    BY <2>2, Zenon DEF PointerOK
<1>4. QED
  BY <1>1, <1>3, SetKeeps, Zenon


-----------------------------------------------------------------------------
(* new                                                                     *)

LEMMA AppendIs ==
  ASSUME NEW S, NEW w \in Seq(S), NEW e \in S
  PROVE  /\ Append(w, e) \in Seq(S) /\ Len(Append(w, e)) = Len(w) + 1 /\ Len(w) \in Nat
         /\ Append(w, e)[Len(w) + 1] = e
         /\ \A k \in 1 .. Len(w) : Append(w, e)[k] = w[k]
OBVIOUS

(* The objects keep their units and sizes, and blocks that are gone stay   *)
(* gone; the object an address is in keeps, after lawful disposals, its    *)
(* block.                                                                  *)
SameSizes(bs, os, u, cs, ps, u2) ==
  /\ Len(bs) \in Nat /\ Len(cs) \in Nat /\ Len(bs) <= Len(cs)
  /\ \A b \in 1 .. Len(bs) :
       /\ u2[b] = u[b] /\ cs[b].bytes = bs[b].bytes /\ ps[b].scalars = os[b].scalars
       /\ cs[b].live => bs[b].live

StaysThere(bs, os, law, cs, ps, law2, p, held) ==
  /\ law2 => law
  /\ \A b \in 1 .. Len(bs), k \in Nat :
       held = Address(b, k * UnitOf(p)) /\ law2 /\ ps[b].live
         /\ (law /\ os[b].live => bs[b].live) => cs[b].live

LEMMA PointerKept ==
  ASSUME NEW bs, NEW os, NEW law, NEW u, NEW cs, NEW ps, NEW law2, NEW u2,
         NEW p, NEW held, NEW denoted,
         PointerOK(bs, os, law, u, p, held, denoted),
         SameSizes(bs, os, u, cs, ps, u2), StaysThere(bs, os, law, cs, ps, law2, p, held)
  PROVE  PointerOK(cs, ps, law2, u2, p, held, denoted)
<1>1. CASE held = denoted /\ held \in {Wild, Nil}
  BY <1>1, Zenon DEF PointerOK
<1>2. CASE \E b \in 1 .. Len(bs), k \in Nat : PointsTo(bs, os, law, u, p, held, denoted, b, k)
  <2>1. PICK b \in 1 .. Len(bs), k \in Nat : PointsTo(bs, os, law, u, p, held, denoted, b, k)
    BY <1>2, Zenon
  <2>2. /\ denoted = Address(b, k) /\ held = Address(b, k * UnitOf(p))
        /\ u[b] = UnitOf(p)
        /\ Roomy /\ CountsFit => os[b].scalars * u[b] <= bs[b].bytes
        /\ law /\ os[b].live => bs[b].live
    BY <2>1 DEF PointsTo
  <2>3. /\ b \in 1 .. Len(cs)
        /\ u2[b] = u[b] /\ cs[b].bytes = bs[b].bytes /\ ps[b].scalars = os[b].scalars
    BY DEF SameSizes
  <2>4. law2 /\ ps[b].live => cs[b].live
    BY <2>2, Zenon DEF StaysThere
  <2>5. PointsTo(cs, ps, law2, u2, p, held, denoted, b, k)
    BY <2>2, <2>3, <2>4 DEF PointsTo
  <2>6. QED
    BY <2>3, <2>5, Zenon DEF PointerOK
<1>3. CASE denoted = Nil /\ Left(bs, law, held)
  <2>1. Left(cs, law2, held)
    BY <1>3 DEF Left, ValueOK, SameSizes, StaysThere, IsAddress, Wild, Nil
  <2>2. QED
    BY <1>3, <2>1 DEF PointerOK
<1>4. QED
  BY <1>1, <1>2, <1>3 DEF PointerOK


LEMMA MallocKeeps ==
  ASSUME StoInv, NEW p \in Pointers, NEW bytes \in Nat, NEW scalars \in Nat,
         GC_malloc(p, bytes, scalars), UNCHANGED <<lawful, reused, state>>,
         Roomy /\ CountsFit => scalars * UnitOf(p) <= bytes
  PROVE  StoInv'
<1> DEFINE n == Len(blocks)
           block == [bytes |-> bytes, live |-> TRUE]
           object == [scalars |-> scalars, live |-> TRUE]
<1>1. Tables /\ FreesOnlyBlocks
  BY DEF StoInv
<1>2. PICK u : PointersOK(u)
  BY DEF StoInv
<1>3. CASE /\ ptr' = Set(ptr, p, Nil) /\ meant' = Set(meant, p, Nil)
           /\ UNCHANGED <<blocks, objects>>
  <2>1. \A v : PointerOK(blocks, objects, lawful, v, p, Nil, Nil)
    BY DEF PointerOK
  <2>2. UNCHANGED <<blocks, objects, lawful, reused, state>>
    BY <1>3
  <2>3. QED
    BY <1>3, <2>1, <2>2, SetKeeps, Zenon
<1>4. CASE /\ bytes <= Memory
           /\ blocks' = Append(blocks, block) /\ objects' = Append(objects, object)
           /\ ptr' = Set(ptr, p, Address(n + 1, 0)) /\ meant' = Set(meant, p, Address(n + 1, 0))
  <2>1. block \in Block /\ object \in Object
    BY <1>4, BoundsAssumption DEF Block, Object
  <2>2. block.bytes = bytes /\ block.live = TRUE /\ object.scalars = scalars
    OBVIOUS
  <2> HIDE DEF block, object
  <2>3. /\ blocks' \in Seq(Block) /\ Len(blocks') = n + 1 /\ n \in Nat /\ blocks'[n + 1] = block
        /\ \A k \in 1 .. n : blocks'[k] = blocks[k]
    BY <1>1, <1>4, <2>1, AppendIs DEF Tables
  <2>4. /\ objects' \in Seq(Object) /\ Len(objects') = n + 1 /\ objects'[n + 1] = object
        /\ \A k \in 1 .. n : objects'[k] = objects[k]
    BY <1>1, <1>4, <2>1, AppendIs DEF Tables
  <2>5. /\ ptr' = [q \in Pointers |-> ptr'[q]] /\ meant' = [q \in Pointers |-> meant'[q]]
        /\ ptr'[p] = Address(n + 1, 0) /\ meant'[p] = Address(n + 1, 0)
        /\ \A q \in Pointers : q # p => ptr'[q] = ptr[q] /\ meant'[q] = meant[q]
    <3>1. ptr = [q \in Pointers |-> ptr[q]] /\ meant = [q \in Pointers |-> meant[q]]
      BY <1>1 DEF Tables
    <3>2. /\ ptr' = [q \in Pointers |-> ptr'[q]] /\ ptr'[p] = Address(n + 1, 0)
          /\ \A q \in Pointers : q # p => ptr'[q] = ptr[q]
      BY <1>4, <3>1, SetIs
    <3>3. /\ meant' = [q \in Pointers |-> meant'[q]] /\ meant'[p] = Address(n + 1, 0)
          /\ \A q \in Pointers : q # p => meant'[q] = meant[q]
      BY <1>4, <3>1, SetIs
    <3>4. QED
      BY <3>2, <3>3
  <2>6. Tables' /\ FreesOnlyBlocks'
    BY <1>1, <2>3, <2>4, <2>5 DEF Tables, FreesOnlyBlocks
  <2>7. PICK v : v[n + 1] = UnitOf(p) /\ \A b \in 1 .. n : v[b] = u[b]
    <3> DEFINE v == [b \in 1 .. n + 1 |-> IF b = n + 1 THEN UnitOf(p) ELSE u[b]]
    <3>1. v[n + 1] = UnitOf(p) /\ \A b \in 1 .. n : v[b] = u[b]
      BY <2>3
    <3> HIDE DEF v
    <3>2. QED
      BY <3>1, Zenon
  <2>8. PointerOK(blocks', objects', lawful', v, p, ptr'[p], meant'[p])
    <3>1. 0 * UnitOf(p) = 0 /\ n + 1 \in 1 .. Len(blocks') /\ 0 \in Nat
      BY <2>3, <2>7, UnitOfIs
    <3>2. Roomy /\ CountsFit => objects'[n + 1].scalars * v[n + 1] <= blocks'[n + 1].bytes
      BY <2>2, <2>3, <2>4, <2>7
    <3>3. blocks'[n + 1].live
      BY <2>2, <2>3
    <3>4. PointsTo(blocks', objects', lawful', v, p, ptr'[p], meant'[p], n + 1, 0)
      BY <2>5, <2>7, <3>1, <3>2, <3>3 DEF PointsTo
    <3>5. QED
      BY <3>1, <3>4, Zenon DEF PointerOK
  <2>9. ASSUME NEW q \in Pointers, q # p
        PROVE  PointerOK(blocks', objects', lawful', v, q, ptr'[q], meant'[q])
    <3>1. PointerOK(blocks, objects, lawful, u, q, ptr[q], meant[q])
      BY <1>2 DEF PointersOK
    <3>2. SameSizes(blocks, objects, u, blocks', objects', v)
      BY <2>3, <2>4, <2>7 DEF SameSizes
    <3>3. StaysThere(blocks, objects, lawful, blocks', objects', lawful', q, ptr[q])
      BY <2>3, <2>4 DEF StaysThere
    <3>4. PointerOK(blocks', objects', lawful', v, q, ptr[q], meant[q])
      BY <3>1, <3>2, <3>3, PointerKept, Zenon
    <3>5. QED
      BY <2>5, <2>9, <3>4, Zenon
  <2>10. PointersOK(v)'
    <3>1. ASSUME NEW q \in Pointers
          PROVE  PointerOK(blocks', objects', lawful', v, q, ptr'[q], meant'[q])
      <4>1. CASE q = p
        BY <2>8, <4>1, Zenon
      <4>2. CASE q # p
        BY <2>9, <4>2, Zenon
      <4>3. QED
        BY <4>1, <4>2
    <3>2. QED
      BY <3>1, Zenon DEF PointersOK
  <2>11. QED
    BY <2>6, <2>10 DEF StoInv
<1>5. QED
  BY <1>3, <1>4 DEF GC_malloc, Set

LEMMA NewKeeps ==
  ASSUME StoInv, NEW p \in Pointers, New(p)
  PROVE  StoInv'
<1> DEFINE t == TypeOf[p]
           bytes == InitBytes(t)
           scalars == Scalars(RefType(t))
<1>1. /\ GC_malloc(p, bytes, scalars) /\ UNCHANGED <<lawful, reused, state>>
      /\ InitAccepted(t)
  BY DEF New
<1>2. PointerType(t) /\ Proper(RefType(t)) /\ IsConcrete(RefType(t))
  BY <1>1, VariableTypes, PointedTo DEF InitAccepted
<1>3. bytes = 8
  <2>1. ~IsArray(t) /\ Proper(t) /\ Kind(t) = "pointer"
    BY <1>2 DEF PointerType, IsArray
  <2>2. SizeOf(TypeConvert(t)) = ScalarSizes["pointer"]
    BY <2>1, MeasureOfScalar DEF SizeOf
  <2>3. QED
    BY <2>2 DEF InitBytes, ScalarSizes
<1>4. /\ scalars \in Nat
      /\ SizeOf(TypeConvert(RefType(t))) = scalars * UnitOf(p)
  BY <1>2, Measured DEF UnitOf
<1>5. Roomy /\ CountsFit => scalars * UnitOf(p) <= bytes
  BY <1>1, <1>3, <1>4 DEF Roomy
<1> HIDE DEF bytes, scalars
<1>6. bytes \in Nat
  BY <1>3
<1>7. QED
  BY <1>1, <1>4, <1>5, <1>6, MallocKeeps, Zenon

(* The size of a positive count is what it should be, if it fits.          *)
LEMMA ArrayBytes ==
  ASSUME NEW t, NEW n \in Counts, SizeOf(TypeConvert(RefType(t))) \in Nat
  PROVE  /\ InitArrayBytes(t, n) \in Nat
         /\ n > 0 /\ SizeOf(TypeConvert(RefType(t))) * n < 2 ^ SizeWidth
              => InitArrayBytes(t, n) = SizeOf(TypeConvert(RefType(t))) * n
<1> DEFINE half == 2 ^ (IntWidth - 1)
           int == 2 ^ IntWidth
           range == 2 ^ SizeWidth
           size == SizeOf(TypeConvert(RefType(t)))
           low == n % int
           wide == (IF low >= half THEN low - int ELSE low) % range
<1>1. /\ half \in Nat \ {0} /\ int = 2 * half /\ range \in Nat /\ int <= range
      /\ n \in -half .. half - 1
  BY WidthsAssumption
<1>2. InitArrayBytes(t, n) = (size * wide) % range
  BY DEF InitArrayBytes, SExt
<1> HIDE DEF half, int, range, size
<1>3. low \in 0 .. int - 1 /\ int \in Nat /\ range > 0 /\ n \in Int
  BY <1>1
<1>4. wide \in 0 .. range - 1
  <2> HIDE DEF low
  <2>1. (IF low >= half THEN low - int ELSE low) \in Int
    BY <1>1, <1>3
  <2>2. QED
    BY <1>1, <1>3, <2>1
<1>5. n > 0 => wide = n
  <2>1. n > 0 => low = n
    BY <1>1, <1>3
  <2> HIDE DEF low
  <2>2. n > 0 => (IF low >= half THEN low - int ELSE low) = n
    BY <1>1, <2>1
  <2>3. n > 0 => n % range = n
    BY <1>1, <1>3
  <2>4. QED
    BY <2>2, <2>3
<1> HIDE DEF wide
<1>6. size \in Nat
  BY DEF size
<1>7. size * wide \in Nat
  BY <1>1, <1>4, <1>6
<1>8. (size * wide) % range \in Nat
  BY <1>1, <1>3, <1>7
<1>9. n > 0 /\ size * n < range => (size * wide) % range = size * n
  BY <1>1, <1>3, <1>5, <1>7
<1>10. QED
  BY <1>2, <1>8, <1>9 DEF size, range

LEMMA NewArrayKeeps ==
  ASSUME StoInv, NEW p \in Pointers, NEW n \in Counts, NewArray(p, n)
  PROVE  StoInv'
<1> DEFINE t == TypeOf[p]
           each == Scalars(TypeConvert(RefType(t)))
           bytes == InitArrayBytes(t, n)
           scalars == IF n > 0 THEN n * each ELSE 0
<1>1. GC_malloc(p, bytes, scalars) /\ UNCHANGED <<lawful, reused, state>>
  BY DEF NewArray
<1>2. /\ each \in Nat /\ SizeOf(TypeConvert(RefType(t))) = each * UnitOf(p)
      /\ UnitOf(p) \in Nat
  BY VariableTypes, PointedTo, MeasuredAny, UnitOfIs DEF UnitOf
<1>3. n \in Int
  BY WidthsAssumption
<1> HIDE DEF each
<1>4. SizeOf(TypeConvert(RefType(t))) \in Nat
  BY <1>2
<1>5. /\ bytes \in Nat
      /\ n > 0 /\ SizeOf(TypeConvert(RefType(t))) * n < 2 ^ SizeWidth
           => bytes = SizeOf(TypeConvert(RefType(t))) * n
  BY <1>4, ArrayBytes
<1> HIDE DEF bytes
<1>6. scalars \in Nat
  BY <1>2, <1>3
<1>7. Roomy /\ CountsFit => scalars * UnitOf(p) <= bytes
  <2> SUFFICES ASSUME CountsFit PROVE scalars * UnitOf(p) <= bytes
    OBVIOUS
  <2>1. CASE n > 0
    <3>1. bytes = SizeOf(TypeConvert(RefType(t))) * n
      BY <1>5, <2>1 DEF CountsFit
    <3>2. scalars = n * each
      BY <2>1
    <3> HIDE DEF scalars
    <3>3. \A x, y, z \in Nat : (x * y) * z = (z * x) * y
      OBVIOUS
    <3>4. bytes = scalars * UnitOf(p)
      <4>1. n \in Nat
        BY <1>3, <2>1
      <4>2. \A x, y, z \in Nat : (x * y) * z = (z * x) * y
        OBVIOUS
      <4>3. QED
        BY <1>2, <3>1, <3>2, <4>1, <4>2
    <3>5. QED
      BY <1>5, <3>4
  <2>2. CASE ~(n > 0)
    <3>1. scalars = 0
      BY <2>2
    <3> HIDE DEF scalars
    <3>2. 0 * UnitOf(p) = 0
      BY <1>2
    <3>3. QED
      BY <1>5, <3>1, <3>2
  <2>3. QED
    BY <2>1, <2>2
<1> HIDE DEF scalars
<1>8. QED
  BY <1>1, <1>5, <1>6, <1>7, MallocKeeps, Zenon


-----------------------------------------------------------------------------
(* dispose and the collector                                               *)

Killed(w, b) == [w EXCEPT ![b].live = FALSE]

LEMMA KilledBlocks ==
  ASSUME NEW w \in Seq(Block), NEW b \in 1 .. Len(w)
  PROVE  /\ Killed(w, b) \in Seq(Block) /\ Len(Killed(w, b)) = Len(w)
         /\ \A k \in 1 .. Len(w) :
              /\ Killed(w, b)[k].bytes = w[k].bytes
              /\ Killed(w, b)[k].live = (k # b /\ w[k].live)
<1>1. /\ Len(w) \in Nat /\ w = [k \in 1 .. Len(w) |-> w[k]]
      /\ \A k \in 1 .. Len(w) : w[k] \in Block
  OBVIOUS
<1>2. \A x \in Block : /\ [x EXCEPT !.live = FALSE] \in Block
                       /\ [x EXCEPT !.live = FALSE].bytes = x.bytes
                       /\ [x EXCEPT !.live = FALSE].live = FALSE
                       /\ x.live \in BOOLEAN
  BY DEF Block
<1> DEFINE kill(k) == IF k = b THEN [w[k] EXCEPT !.live = FALSE] ELSE w[k]
<1>3. Killed(w, b) = [k \in 1 .. Len(w) |-> kill(k)]
  BY <1>1 DEF Killed
<1>4. \A k \in 1 .. Len(w) :
        kill(k) \in Block /\ kill(k).bytes = w[k].bytes /\ kill(k).live = (k # b /\ w[k].live)
  <2>1. \A k \in 1 .. Len(w) : k # b => kill(k) = w[k]
    OBVIOUS
  <2>2. kill(b) = [w[b] EXCEPT !.live = FALSE]
    OBVIOUS
  <2> HIDE DEF kill
  <2>3. kill(b) \in Block /\ kill(b).bytes = w[b].bytes /\ kill(b).live = FALSE
    BY <1>1, <1>2, <2>2
  <2>4. QED
    BY <1>1, <1>2, <2>1, <2>3
<1> HIDE DEF kill
<1>5. QED
  BY <1>1, <1>3, <1>4

LEMMA KilledObjects ==
  ASSUME NEW w \in Seq(Object), NEW b \in 1 .. Len(w)
  PROVE  /\ Killed(w, b) \in Seq(Object) /\ Len(Killed(w, b)) = Len(w)
         /\ \A k \in 1 .. Len(w) :
              /\ Killed(w, b)[k].scalars = w[k].scalars
              /\ Killed(w, b)[k].live = (k # b /\ w[k].live)
<1>1. /\ Len(w) \in Nat /\ w = [k \in 1 .. Len(w) |-> w[k]]
      /\ \A k \in 1 .. Len(w) : w[k] \in Object
  OBVIOUS
<1>2. \A x \in Object : /\ [x EXCEPT !.live = FALSE] \in Object
                        /\ [x EXCEPT !.live = FALSE].scalars = x.scalars
                        /\ [x EXCEPT !.live = FALSE].live = FALSE
                        /\ x.live \in BOOLEAN
  BY DEF Object
<1> DEFINE kill(k) == IF k = b THEN [w[k] EXCEPT !.live = FALSE] ELSE w[k]
<1>3. Killed(w, b) = [k \in 1 .. Len(w) |-> kill(k)]
  BY <1>1 DEF Killed
<1>4. \A k \in 1 .. Len(w) :
        kill(k) \in Object /\ kill(k).scalars = w[k].scalars /\ kill(k).live = (k # b /\ w[k].live)
  <2>1. \A k \in 1 .. Len(w) : k # b => kill(k) = w[k]
    OBVIOUS
  <2>2. kill(b) = [w[b] EXCEPT !.live = FALSE]
    OBVIOUS
  <2> HIDE DEF kill
  <2>3. kill(b) \in Object /\ kill(b).scalars = w[b].scalars /\ kill(b).live = FALSE
    BY <1>1, <1>2, <2>2
  <2>4. QED
    BY <1>1, <1>2, <2>1, <2>3
<1> HIDE DEF kill
<1>5. QED
  BY <1>1, <1>3, <1>4


(* Blocks and objects may die, never move or shrink; no variable changes,  *)
(* and one may be left with an address where it denotes nil.               *)
DeathsOnly ==
  /\ blocks' \in Seq(Block) /\ Len(blocks') = Len(blocks)
  /\ objects' \in Seq(Object) /\ Len(objects') = Len(objects)
  /\ \A b \in 1 .. Len(blocks) :
       /\ blocks'[b].bytes = blocks[b].bytes /\ objects'[b].scalars = objects[b].scalars
       /\ blocks'[b].live => blocks[b].live
  /\ ptr' = ptr /\ meant' = [q \in Pointers |-> meant'[q]]
  /\ \A q \in Pointers :
       meant'[q] = meant[q] \/ (meant'[q] = Nil /\ Left(blocks', lawful', ptr[q]))
  /\ state' \in {"run", "corrupt"} /\ lawful' \in BOOLEAN /\ reused' \in BOOLEAN
  /\ FreesOnlyBlocks'

LEMMA DeathsKeep ==
  ASSUME StoInv, DeathsOnly,
         \A q \in Pointers : StaysThere(blocks, objects, lawful, blocks', objects', lawful', q, ptr[q])
  PROVE  StoInv'
<1>1. Tables /\ FreesOnlyBlocks
  BY DEF StoInv
<1>2. PICK u : PointersOK(u)
  BY DEF StoInv
<1>3. Tables' /\ FreesOnlyBlocks'
  BY <1>1 DEF Tables, DeathsOnly
<1>4. SameSizes(blocks, objects, u, blocks', objects', u)
  BY <1>1 DEF Tables, DeathsOnly, SameSizes
<1>5. ptr' = ptr
  BY DEF DeathsOnly
<1>6. ASSUME NEW q \in Pointers
      PROVE  PointerOK(blocks', objects', lawful', u, q, ptr'[q], meant'[q])
  <2>1. PointerOK(blocks, objects, lawful, u, q, ptr[q], meant[q])
    BY <1>2 DEF PointersOK
  <2>2. StaysThere(blocks, objects, lawful, blocks', objects', lawful', q, ptr[q])
    OBVIOUS
  <2>3. PointerOK(blocks', objects', lawful', u, q, ptr[q], meant[q])
    BY <1>4, <2>1, <2>2, PointerKept, Zenon
  <2>4. meant'[q] = meant[q] \/ (meant'[q] = Nil /\ Left(blocks', lawful', ptr[q]))
    BY DEF DeathsOnly
  <2>5. CASE meant'[q] = meant[q]
    BY <1>5, <2>3, <2>5, Zenon
  <2>6. CASE meant'[q] = Nil /\ Left(blocks', lawful', ptr[q])
    BY <1>5, <2>6, Zenon DEF PointerOK
  <2>7. QED
    BY <2>4, <2>5, <2>6
<1>7. PointersOK(u)'
  BY <1>6, Zenon DEF PointersOK
<1>8. QED
  BY <1>3, <1>7 DEF StoInv

LEMMA CollectKeeps ==
  ASSUME StoInv, NEW b \in DOMAIN blocks, Collect(b)
  PROVE  StoInv'
<1>1. Tables /\ FreesOnlyBlocks
  BY DEF StoInv
<1>2. /\ blocks' = Killed(blocks, b) /\ UNCHANGED <<ptr, objects, meant, lawful, reused, state>>
      /\ \A p \in Pointers : ~(IsAddress(ptr[p]) /\ ptr[p][2] = b)
  BY DEF Collect, Killed
<1>3. b \in 1 .. Len(blocks) /\ blocks \in Seq(Block)
  BY <1>1 DEF Tables
<1>4. /\ blocks' \in Seq(Block) /\ Len(blocks') = Len(blocks)
      /\ \A c \in 1 .. Len(blocks) :
           /\ blocks'[c].bytes = blocks[c].bytes
           /\ blocks'[c].live = (c # b /\ blocks[c].live)
  BY <1>2, <1>3, KilledBlocks
<1>5. DeathsOnly
  BY <1>1, <1>2, <1>4 DEF Tables, DeathsOnly, FreesOnlyBlocks
<1>6. ASSUME NEW q \in Pointers
      PROVE  StaysThere(blocks, objects, lawful, blocks', objects', lawful', q, ptr[q])
  <2>1. \A c, k : ptr[q] = Address(c, k) => c # b
    BY <1>2, AddressIs
  <2>2. QED
    BY <1>2, <1>4, <2>1 DEF StaysThere
<1>7. QED
  BY <1>5, <1>6, DeathsKeep

(* An address is freed where the block begins.                             *)
LEMMA FreeIs ==
  ASSUME NEW b, NEW byte, GC_free(Address(b, byte))
  PROVE  \/ byte = 0 /\ blocks[b].live /\ blocks' = Killed(blocks, b) /\ UNCHANGED state
         \/ ~(byte = 0 /\ blocks[b].live) /\ state' = "corrupt" /\ UNCHANGED blocks
<1>1. Address(b, byte) # Nil /\ IsAddress(Address(b, byte))
      /\ Address(b, byte)[2] = b /\ Address(b, byte)[3] = byte
  BY AddressIs
<1>2. QED
  BY <1>1 DEF GC_free, Killed

(* Dispose leaves nil where the definition is concerned.                   *)
LEMMA MeantNil ==
  ASSUME Tables, NEW p \in Pointers, meant' = Set(meant, p, Nil)
  PROVE  /\ meant' = [q \in Pointers |-> meant'[q]] /\ meant'[p] = Nil
         /\ \A q \in Pointers : q # p => meant'[q] = meant[q]
BY SetIs DEF Tables

(* Where nothing was freed, nothing changes but what p denotes.            *)
LEMMA NothingFreed ==
  ASSUME StoInv, NEW p \in Pointers, ptr' = ptr, meant' = Set(meant, p, Nil),
         UNCHANGED <<blocks, objects>>, lawful' => lawful, lawful' \in BOOLEAN,
         state' \in {"run", "corrupt"}, reused' \in BOOLEAN, FreesOnlyBlocks',
         Left(blocks, lawful', ptr[p])
  PROVE  StoInv'
<1>1. Tables
  BY DEF StoInv
<1>2. /\ meant' = [q \in Pointers |-> meant'[q]] /\ meant'[p] = Nil
      /\ \A q \in Pointers : q # p => meant'[q] = meant[q]
  BY <1>1, MeantNil
<1>3. \A q \in Pointers :
        meant'[q] = meant[q] \/ (meant'[q] = Nil /\ Left(blocks', lawful', ptr[q]))
  BY <1>2
<1>4. DeathsOnly
  BY <1>1, <1>2, <1>3 DEF Tables, DeathsOnly
<1>5. \A q \in Pointers :
        StaysThere(blocks, objects, lawful, blocks', objects', lawful', q, ptr[q])
  BY DEF StaysThere
<1>6. QED
  BY <1>4, <1>5, DeathsKeep

(* After an unlawful disposal, nothing is promised about blocks.           *)
LEMMA UnlawfulKeeps ==
  ASSUME StoInv, NEW p \in Pointers, ptr' = ptr, meant' = Set(meant, p, Nil),
         UNCHANGED objects, lawful' = FALSE, ValueOK(ptr[p], Len(blocks)),
         state' \in {"run", "corrupt"}, reused' \in BOOLEAN,
         blocks' = blocks \/ \E b \in 1 .. Len(blocks) : blocks' = Killed(blocks, b)
  PROVE  StoInv'
<1>1. Tables /\ FreesOnlyBlocks
  BY DEF StoInv
<1>2. /\ blocks' \in Seq(Block) /\ Len(blocks') = Len(blocks)
      /\ \A b \in 1 .. Len(blocks) :
           blocks'[b].bytes = blocks[b].bytes /\ (blocks'[b].live => blocks[b].live)
  <2>1. CASE blocks' = blocks
    BY <1>1, <2>1 DEF Tables
  <2>2. CASE \E b \in 1 .. Len(blocks) : blocks' = Killed(blocks, b)
    <3>1. PICK b \in 1 .. Len(blocks) : blocks' = Killed(blocks, b)
      BY <2>2
    <3>2. blocks \in Seq(Block)
      BY <1>1 DEF Tables
    <3>3. QED
      BY <3>1, <3>2, KilledBlocks
  <2>3. QED
    BY <2>1, <2>2
<1>3. /\ meant' = [q \in Pointers |-> meant'[q]] /\ meant'[p] = Nil
      /\ \A q \in Pointers : q # p => meant'[q] = meant[q]
  BY <1>1, MeantNil
<1>4. Left(blocks', lawful', ptr[p])
  BY <1>2 DEF Left
<1>5. \A q \in Pointers :
        meant'[q] = meant[q] \/ (meant'[q] = Nil /\ Left(blocks', lawful', ptr[q]))
  BY <1>3, <1>4
<1>6. FreesOnlyBlocks'
  BY DEF FreesOnlyBlocks
<1>7. DeathsOnly
  BY <1>1, <1>2, <1>3, <1>5, <1>6 DEF Tables, DeathsOnly
<1>8. \A q \in Pointers :
        StaysThere(blocks, objects, lawful, blocks', objects', lawful', q, ptr[q])
  BY DEF StaysThere
<1>9. QED
  BY <1>7, <1>8, DeathsKeep

LEMMA DisposeKeeps ==
  ASSUME StoInv, NEW p \in Pointers, Dispose(p)
  PROVE  StoInv'
<1>1. Tables /\ FreesOnlyBlocks
  BY DEF StoInv
<1>2. PICK u : PointersOK(u)
  BY DEF StoInv
<1>3. /\ GC_free(ptr[p]) /\ lawful' = (lawful /\ (DisposeLegal(p) \/ meant[p] = Nil))
      /\ reused' = (reused \/ (meant[p] = Nil /\ ptr[p] # Nil))
      /\ objects' = IF DisposeLegal(p) THEN Killed(objects, meant[p][2]) ELSE objects
      /\ ptr' = ptr /\ meant' = Set(meant, p, Nil) /\ state = "run"
  BY DEF Dispose, Disposed, Killed, Set
<1>4. PointerOK(blocks, objects, lawful, u, p, ptr[p], meant[p])
  BY <1>2 DEF PointersOK
<1>0. reused' \in BOOLEAN /\ lawful' \in BOOLEAN /\ (lawful' => lawful)
  BY <1>1, <1>3 DEF Tables
<1>5. CASE meant[p] = Nil /\ ptr[p] = Nil
  <2>1. ~DisposeLegal(p)
    BY <1>5, AddressIs DEF DisposeLegal
  <2>2. UNCHANGED <<blocks, objects, lawful, reused, state, ptr>>
    BY <1>1, <1>3, <1>5, <2>1 DEF GC_free, Tables
  <2>3. Left(blocks, lawful', ptr[p])
    BY <1>5, AddressIs DEF Left, ValueOK
  <2>4. FreesOnlyBlocks' /\ state' \in {"run", "corrupt"}
    BY <1>1, <2>2 DEF FreesOnlyBlocks, Tables
  <2>5. QED
    BY <1>0, <1>3, <2>2, <2>3, <2>4, NothingFreed
<1>6. CASE ptr[p] = meant[p] /\ ptr[p] = Wild
  <2>1. ~DisposeLegal(p) /\ meant[p] # Nil /\ ptr[p] # Nil /\ ~IsAddress(ptr[p])
    BY <1>6, AddressIs DEF DisposeLegal
  <2>2. lawful' = FALSE /\ UNCHANGED objects
    BY <1>3, <2>1
  <2>3. state' = "corrupt" /\ blocks' = blocks
    BY <1>3, <2>1 DEF GC_free
  <2>4. ValueOK(ptr[p], Len(blocks))
    BY <1>6 DEF ValueOK
  <2>5. state' \in {"run", "corrupt"}
    BY <2>3
  <2>6. QED
    BY <1>0, <1>3, <2>2, <2>3, <2>4, <2>5, UnlawfulKeeps
<1>7. CASE \E b \in 1 .. Len(blocks), k \in Nat :
             PointsTo(blocks, objects, lawful, u, p, ptr[p], meant[p], b, k)
  <2>1. PICK b \in 1 .. Len(blocks), k \in Nat :
               PointsTo(blocks, objects, lawful, u, p, ptr[p], meant[p], b, k)
    BY <1>7, Zenon
  <2>2. /\ meant[p] = Address(b, k) /\ ptr[p] = Address(b, k * UnitOf(p))
        /\ lawful /\ objects[b].live => blocks[b].live
    BY <2>1 DEF PointsTo
  <2>3. /\ meant[p][2] = b /\ meant[p][3] = k /\ meant[p] # Nil /\ IsAddress(meant[p])
        /\ ptr[p][1] = "at" /\ ptr[p][2] = b /\ ptr[p][3] = k * UnitOf(p)
    BY <2>2, AddressIs
  <2>4. \/ /\ k * UnitOf(p) = 0 /\ blocks[b].live
           /\ blocks' = Killed(blocks, b) /\ UNCHANGED state
        \/ ~(k * UnitOf(p) = 0 /\ blocks[b].live) /\ state' = "corrupt" /\ UNCHANGED blocks
    BY <1>3, <2>2, FreeIs
  <2>5. state' \in {"run", "corrupt"}
        /\ (blocks' = blocks \/ \E c \in 1 .. Len(blocks) : blocks' = Killed(blocks, c))
    BY <1>1, <2>4 DEF Tables
  <2>0. ValueOK(ptr[p], Len(blocks))
    <3>1. k * UnitOf(p) \in Nat
      BY UnitOfIs
    <3>2. QED
      BY <2>3, <3>1 DEF ValueOK
  <2>6. CASE ~DisposeLegal(p)
    <3>1. lawful' = FALSE /\ UNCHANGED objects
      BY <1>3, <2>3, <2>6
    <3>2. QED
      BY <1>0, <1>3, <2>0, <2>5, <3>1, UnlawfulKeeps
  <2>7. CASE DisposeLegal(p)
    <3>1. k = 0 /\ objects[b].live
      BY <2>3, <2>7 DEF DisposeLegal
    <3>2. k * UnitOf(p) = 0
      BY <3>1, UnitOfIs
    <3>3. /\ objects' = Killed(objects, b) /\ lawful' = lawful /\ reused' = reused
      BY <1>1, <1>3, <2>3, <2>7 DEF Tables
    <3>4. /\ objects' \in Seq(Object) /\ Len(objects') = Len(objects)
          /\ \A c \in 1 .. Len(objects) :
               /\ objects'[c].scalars = objects[c].scalars
               /\ objects'[c].live = (c # b /\ objects[c].live)
      BY <1>1, <3>3, KilledObjects DEF Tables
    <3>5. /\ blocks' \in Seq(Block) /\ Len(blocks') = Len(blocks)
          /\ \A c \in 1 .. Len(blocks) :
               /\ blocks'[c].bytes = blocks[c].bytes
               /\ c # b /\ blocks[c].live => blocks'[c].live
               /\ blocks'[c].live => blocks[c].live
          /\ lawful => ~blocks'[b].live
      <4>1. CASE blocks' = Killed(blocks, b)
        BY <1>1, <4>1, KilledBlocks DEF Tables
      <4>2. CASE UNCHANGED blocks /\ ~(k * UnitOf(p) = 0 /\ blocks[b].live)
        BY <1>1, <2>2, <3>1, <3>2, <4>2 DEF Tables
      <4>3. QED
        BY <2>4, <4>1, <4>2
    <3>6. lawful' => UNCHANGED state
      BY <2>2, <2>4, <3>1, <3>2, <3>3
    <3>7. /\ meant' = [q \in Pointers |-> meant'[q]] /\ meant'[p] = Nil
          /\ \A q \in Pointers : q # p => meant'[q] = meant[q]
      BY <1>1, <1>3, MeantNil
    <3>8. Left(blocks', lawful', ptr[p])
      BY <2>0, <2>3, <3>3, <3>5 DEF Left
    <3>9. \A q \in Pointers :
            meant'[q] = meant[q] \/ (meant'[q] = Nil /\ Left(blocks', lawful', ptr[q]))
      BY <3>7, <3>8
    <3>10. FreesOnlyBlocks'
      BY <1>1, <3>3, <3>6 DEF FreesOnlyBlocks
    <3>11. DeathsOnly
      BY <1>0, <1>1, <1>3, <2>5, <3>4, <3>5, <3>7, <3>9, <3>10 DEF Tables, DeathsOnly
    <3>12. ASSUME NEW q \in Pointers
          PROVE  StaysThere(blocks, objects, lawful, blocks', objects', lawful', q, ptr[q])
      BY <1>1, <3>3, <3>4, <3>5 DEF StaysThere, Tables
    <3>13. QED
      BY <3>11, <3>12, DeathsKeep
  <2>8. QED
    BY <2>6, <2>7
<1>8. CASE meant[p] = Nil /\ ptr[p] # Nil /\ Left(blocks, lawful, ptr[p])
  <2>1. ~DisposeLegal(p)
    BY <1>8, AddressIs DEF DisposeLegal
  <2>2. UNCHANGED objects /\ lawful' = lawful /\ reused' = TRUE
    BY <1>1, <1>3, <1>8, <2>1 DEF Tables
  <2>3. FreesOnlyBlocks'
    BY <2>2 DEF FreesOnlyBlocks
  <2>4. ValueOK(ptr[p], Len(blocks))
    BY <1>8 DEF Left
  <2>5. IsAddress(ptr[p]) => ptr[p][2] \in 1 .. Len(blocks)
    BY <2>4 DEF ValueOK, IsAddress, Wild, Nil
  <2>6. \/ IsAddress(ptr[p]) /\ blocks[ptr[p][2]].live /\ UNCHANGED state
           /\ blocks' = Killed(blocks, ptr[p][2])
        \/ state' = "corrupt" /\ UNCHANGED blocks
    BY <1>3, <1>8 DEF GC_free, Killed
  <2>7. state' \in {"run", "corrupt"}
    BY <1>3, <2>6
  <2>8. CASE lawful
    <3>1. UNCHANGED blocks
      BY <1>8, <2>6, <2>8 DEF Left
    <3>2. Left(blocks, lawful', ptr[p])
      BY <1>8, <2>2
    <3>3. QED
      BY <1>0, <1>3, <2>2, <2>3, <2>7, <3>1, <3>2, NothingFreed
  <2>9. CASE ~lawful
    <3>1. lawful' = FALSE
      BY <1>0, <2>9
    <3>2. blocks' = blocks \/ \E b \in 1 .. Len(blocks) : blocks' = Killed(blocks, b)
      BY <2>5, <2>6
    <3>3. QED
      BY <1>0, <1>3, <2>2, <2>4, <2>7, <3>1, <3>2, UnlawfulKeeps
  <2>10. QED
    BY <2>8, <2>9
<1>9. QED
  BY <1>4, <1>5, <1>6, <1>7, <1>8 DEF PointerOK


-----------------------------------------------------------------------------
(* The theorems                                                            *)

LEMMA StepKeeps == StoInv /\ [Next]_vars => StoInv'
<1> SUFFICES ASSUME StoInv, [Next]_vars PROVE StoInv'
  OBVIOUS
<1>1. ASSUME NEW p \in Pointers, New(p) PROVE StoInv'
  BY <1>1, NewKeeps
<1>2. ASSUME NEW p \in Pointers, NEW n \in Counts, NewArray(p, n) PROVE StoInv'
  BY <1>2, NewArrayKeeps
<1>3. ASSUME NEW p \in Pointers, NEW q \in Pointers, Assign(p, q) PROVE StoInv'
  BY <1>3, AssignKeeps
<1>4. ASSUME NEW p \in Pointers, AssignNil(p) PROVE StoInv'
  BY <1>4, AssignNilKeeps
<1>5. ASSUME NEW p \in Pointers, NEW q \in Pointers, NEW i \in Indices, PointToElement(p, q, i)
      PROVE  StoInv'
  BY <1>5, PointToElementKeeps
<1>6. ASSUME NEW p \in Pointers, Dispose(p) PROVE StoInv'
  BY <1>6, DisposeKeeps
<1>7. ASSUME NEW b \in DOMAIN blocks, Collect(b) PROVE StoInv'
  BY <1>7, CollectKeeps
<1>8. CASE UNCHANGED vars
  BY <1>8 DEF vars, StoInv, Tables, FreesOnlyBlocks, PointersOK
<1>9. QED
  BY <1>1, <1>2, <1>3, <1>4, <1>5, <1>6, <1>7, <1>8 DEF Next

LEMMA StoInvHolds == Spec => []StoInv
BY InitHolds, StepKeeps, PTL DEF Spec

LEMMA TablesHold ==
  ASSUME Tables
  PROVE  \A b \in 1 .. Len(blocks) :
           blocks[b].bytes \in 0 .. Memory /\ objects[b].scalars \in Nat
<1> TAKE b \in 1 .. Len(blocks)
<1>1. blocks[b] \in Block /\ objects[b] \in Object
  BY DEF Tables
<1>2. QED
  BY <1>1 DEF Block, Object

LEMMA InvTyped == StoInv => TypeOK
<1> SUFFICES ASSUME StoInv PROVE TypeOK
  OBVIOUS
<1>1. Tables /\ Len(blocks) \in Nat
  BY DEF StoInv, Tables
<1>2. PICK u : PointersOK(u)
  BY DEF StoInv
<1>3. \A b \in DOMAIN blocks : blocks[b].bytes \in 0 .. Memory
  BY <1>1, TablesHold DEF Tables
<1>4. ASSUME NEW p \in Pointers
      PROVE  /\ ValueOK(ptr[p], Len(blocks)) /\ ValueOK(meant[p], Len(objects))
             /\ meant[p] = Nil \/ ptr[p][1] = meant[p][1]
  <2>1. PointerOK(blocks, objects, lawful, u, p, ptr[p], meant[p])
    BY <1>2 DEF PointersOK
  <2>2. CASE ptr[p] = meant[p] /\ ptr[p] \in {Wild, Nil}
    BY <2>2 DEF ValueOK
  <2>3. CASE \E b \in 1 .. Len(blocks), k \in Nat :
               PointsTo(blocks, objects, lawful, u, p, ptr[p], meant[p], b, k)
    <3>1. PICK b \in 1 .. Len(blocks), k \in Nat :
               PointsTo(blocks, objects, lawful, u, p, ptr[p], meant[p], b, k)
      BY <2>3, Zenon
    <3>2. meant[p] = Address(b, k) /\ ptr[p] = Address(b, k * UnitOf(p))
      BY <3>1 DEF PointsTo
    <3>3. k * UnitOf(p) \in Nat /\ b \in 1 .. Len(objects)
      BY <1>1, UnitOfIs DEF Tables
    <3>4. QED
      BY <3>2, <3>3, AddressIs DEF ValueOK
  <2>4. CASE meant[p] = Nil /\ Left(blocks, lawful, ptr[p])
    BY <2>4 DEF Left, ValueOK
  <2>5. QED
    BY <2>1, <2>2, <2>3, <2>4 DEF PointerOK
<1>5. QED
  BY <1>1, <1>3, <1>4 DEF TypeOK, Tables

(* Whatever the program does with its pointers, the sizes of blocks stay   *)
(* within the memory, and a variable that does not denote nil holds an     *)
(* address, into some block, exactly when it denotes a scalar of some      *)
(* object.                                                                 *)
THEOREM StorageTypeCorrect == Spec => []TypeOK
BY StoInvHolds, InvTyped, PTL

(* A program that disposes only of objects new has made, each once, and    *)
(* does not rely on the nil dispose should leave behind, never makes       *)
(* GC_free release anything but the beginning of an allocated block.       *)
THEOREM OnlyBlocksFreed == Spec => []FreesOnlyBlocks
<1>1. StoInv => FreesOnlyBlocks
  BY DEF StoInv
<1>2. QED
  BY <1>1, StoInvHolds, PTL

LEMMA InvOneAddress == StoInv => OneAddressPerElement
<1> SUFFICES ASSUME StoInv, NEW p \in Pointers, NEW q \in Pointers,
                    NEW i \in Indices, NEW j \in Indices, Legal(p, i), Legal(q, j)
             PROVE  ElementMeant(p, i) = ElementMeant(q, j)
                      <=> ElementAddress(p, i) = ElementAddress(q, j)
  BY DEF OneAddressPerElement
<1>1. PICK u : PointersOK(u)
  BY DEF StoInv
<1>2. PICK b \in 1 .. Len(blocks), k \in Nat :
        /\ ElementMeant(p, i) = Address(b, k)
        /\ ElementAddress(p, i) = Address(b, k * UnitOf(p))
        /\ u[b] = UnitOf(p)
  BY <1>1, ElementAddressIs, Zenon
<1>3. PICK c \in 1 .. Len(blocks), m \in Nat :
        /\ ElementMeant(q, j) = Address(c, m)
        /\ ElementAddress(q, j) = Address(c, m * UnitOf(q))
        /\ u[c] = UnitOf(q)
  BY <1>1, ElementAddressIs, Zenon
<1>4. \A x \in Nat : x >= 1 => (k * x = m * x <=> k = m)
  OBVIOUS
<1>5. CASE b = c
  <2>1. UnitOf(p) = UnitOf(q)
    BY <1>2, <1>3, <1>5
  <2>2. k * UnitOf(p) = m * UnitOf(q) <=> k = m
    BY <1>4, <2>1, UnitOfIs
  <2>3. QED
    BY <1>2, <1>3, <2>2, AddressIs
<1>6. CASE b # c
  BY <1>2, <1>3, <1>6, AddressIs
<1>7. QED
  BY <1>5, <1>6

(* Two ways to an element that exists yield the same address exactly when  *)
(* they are the same element, whatever casts between pointers to arrays    *)
(* and to elements lie on the way.                                         *)
THEOREM ElementsHaveOneAddress == Spec => []OneAddressPerElement
BY StoInvHolds, InvOneAddress, PTL

LEMMA InvFits == StoInv /\ CountsFit => AccessesFit
<1> SUFFICES ASSUME StoInv, CountsFit, lawful, Roomy,
                    NEW q \in Pointers, NEW i \in Indices, Legal(q, i)
             PROVE  Fits(q, i)
  BY DEF AccessesFit
<1>1. PICK u : PointersOK(u)
  BY DEF StoInv
<1> DEFINE n == Scalars(Element(q))
<1>2. PICK b \in 1 .. Len(blocks), k \in Nat :
           /\ ElementAddress(q, i) = Address(b, k * UnitOf(q))
           /\ k + n <= objects[b].scalars /\ objects[b].live
           /\ u[b] = UnitOf(q)
           /\ Roomy /\ CountsFit => objects[b].scalars * u[b] <= blocks[b].bytes
           /\ lawful /\ objects[b].live => blocks[b].live
  BY <1>1, ElementAddressIs, Zenon
<1>3. blocks[b].live /\ blocks[b].bytes \in Nat /\ objects[b].scalars \in Nat
  BY <1>2, BoundsAssumption, TablesHold DEF StoInv
<1>4. /\ n \in Nat /\ UnitOf(q) \in Nat
      /\ SizeOf(TypeConvert(Element(q))) = n * UnitOf(q)
  BY ElementIs, UnitOfIs
<1> HIDE DEF n
<1>5. k * UnitOf(q) + n * UnitOf(q) <= blocks[b].bytes
  <2>1. ASSUME NEW x \in Nat, NEW y \in Nat, NEW z \in Nat, NEW w \in Nat, x + y <= z
        PROVE  x * w + y * w <= z * w
    <3>1. \A r, s \in Nat : r * s \in Nat
      OBVIOUS
    <3>2. PICK d \in Nat : z = x + y + d
      <4>1. z - (x + y) \in Nat /\ z = x + y + (z - (x + y))
        BY <2>1
      <4>2. QED
        BY <4>1
    <3>3. z * w = (x * w + y * w) + d * w
      BY <3>2
    <3>4. x * w \in Nat /\ y * w \in Nat /\ d * w \in Nat
      BY <3>1
    <3>5. QED
      BY <3>3, <3>4
  <2>2. k * UnitOf(q) + n * UnitOf(q) <= objects[b].scalars * UnitOf(q)
    BY <1>2, <1>3, <1>4, <2>1
  <2>3. objects[b].scalars * UnitOf(q) <= blocks[b].bytes
    BY <1>2
  <2>4. \A x, w \in Nat : x * w \in Nat
    OBVIOUS
  <2>5. /\ k * UnitOf(q) \in Nat /\ n * UnitOf(q) \in Nat
        /\ objects[b].scalars * UnitOf(q) \in Nat
    BY <1>3, <1>4, <2>4
  <2>6. QED
    BY <1>3, <2>2, <2>3, <2>5
<1>6. ElementAddress(q, i)[2] = b /\ ElementAddress(q, i)[3] = k * UnitOf(q)
  BY <1>2, AddressIs
<1>7. QED
  BY <1>3, <1>4, <1>5, <1>6 DEF Fits

(* As long as disposals are lawful and new is not used for objects larger  *)
(* than a pointer, every element the language lets a program use lies in a *)
(* block that is still allocated, if no array is asked for whose size does *)
(* not fit in a size: the compiled program multiplies without a test.      *)
THEOREM ElementsFit ==
  ASSUME CountsFit
  PROVE  Spec => []AccessesFit
<1>1. StoInv => AccessesFit
  BY InvFits
<1>2. QED
  BY <1>1, StoInvHolds, PTL
=============================================================================

---------------------------- MODULE Types_proofs ----------------------------
(***************************************************************************)
(* Facts about types: what TypeConvert makes of the outermost constructor, *)
(* that equals is equality, and that the parts of types are types.         *)
(***************************************************************************)
EXTENDS Types, SequenceTheorems, WellFoundedInduction, TLAPS

-----------------------------------------------------------------------------
(* Induction, by a least counterexample                                    *)

LEMMA Least ==
  ASSUME NEW T \in SUBSET Nat, T # {}
  PROVE  \E x \in T : \A y \in T : x <= y
<1>1. \E x \in T : \A y \in T : ~ (<<y, x>> \in OpToRel(<, Nat))
  BY NatLessThanWellFounded, WFMin
<1>2. PICK x \in T : \A y \in T : ~ (<<y, x>> \in OpToRel(<, Nat))
  BY <1>1
<1>3. \A y \in T : ~ (y < x)
  BY <1>2 DEF OpToRel
<1>4. QED
  BY <1>3

LEMMA UpTo ==
  ASSUME NEW n \in Nat, NEW P \in SUBSET Nat, 0 \in P,
         \A m \in P : m < n => m + 1 \in P
  PROVE  n \in P
<1> SUFFICES ASSUME n \notin P PROVE FALSE
  OBVIOUS
<1> DEFINE T == { m \in 0 .. n : m \notin P }
<1>1. T \in SUBSET Nat /\ T # {}
  OBVIOUS
<1>2. PICK m \in T : \A k \in T : m <= k
  BY <1>1, Least
<1>3. m \in 0 .. n /\ m \notin P /\ \A k \in 0 .. n : k < m => k \in P
  BY <1>2
<1> HIDE DEF T
<1>4. m # 0 /\ m - 1 \in 0 .. n /\ m - 1 < m
  BY <1>3
<1>5. m - 1 \in P /\ m - 1 < n /\ (m - 1) + 1 = m
  BY <1>3, <1>4
<1>6. QED
  BY <1>3, <1>5

-----------------------------------------------------------------------------
(* TypeConvert, unfolded at the outermost constructor                      *)

ConvertAt(f, t, k) ==
  IF k > Len(t) THEN << >>
  ELSE IF t[k].kind = "iarray" THEN f[k + 1]
  ELSE << t[k] >> \o f[k + 1]

Converting(f, t, m, n) == f = [k \in m .. n |-> ConvertAt(f, t, k)]

LEMMA ConvertingExists ==
  ASSUME NEW t, Len(t) \in Nat
  PROVE  \E f : Converting(f, t, 1, Len(t) + 1)
<1> DEFINE n == Len(t) + 1
           P == { m \in Nat : \E f : Converting(f, t, n + 1 - m, n) }
<1>0. n \in Nat
  OBVIOUS
<1>1. 0 \in P
  <2> DEFINE f == [k \in n + 1 .. n |-> 0]
  <2>1. n + 1 .. n = {} /\ n + 1 - 0 = n + 1
    OBVIOUS
  <2>2. Converting(f, t, n + 1 - 0, n)
    BY <2>1 DEF Converting
  <2>3. QED
    BY <2>2
<1>2. ASSUME NEW m \in P, m < n PROVE m + 1 \in P
  <2>1. PICK f : Converting(f, t, n + 1 - m, n)
    OBVIOUS
  <2>2. m \in Nat
    OBVIOUS
  <2> HIDE DEF P
  <2> DEFINE first == ConvertAt(f, t, n - m)
             g == [k \in n - m .. n |-> IF k = n - m THEN first ELSE f[k]]
  <2>3. \A k \in n + 1 - m .. n : f[k] = ConvertAt(f, t, k)
    BY <2>1 DEF Converting
  <2> HIDE DEF first
  <2>4. /\ g[n - m] = first /\ n - m \in n - m .. n
        /\ \A k \in n - m .. n : k # n - m => k \in n + 1 - m .. n /\ g[k] = f[k]
    BY <1>0, <1>2, <2>2
  <2> HIDE DEF g
  <2>5. ASSUME NEW k \in n - m .. n
        PROVE  ConvertAt(g, t, k) = ConvertAt(f, t, k)
    <3>1. CASE k = n
      <4>1. k > Len(t)
        BY <3>1
      <4>2. QED
        BY <4>1 DEF ConvertAt
    <3>2. CASE k # n
      <4>1. k + 1 \in n - m .. n /\ k + 1 # n - m
        BY <1>0, <2>2, <3>2
      <4>2. g[k + 1] = f[k + 1]
        BY <2>4, <4>1
      <4>3. QED
        BY <4>2 DEF ConvertAt
    <3>3. QED
      BY <3>1, <3>2
  <2>6. \A k \in n - m .. n : g[k] = ConvertAt(g, t, k)
    BY <2>3, <2>4, <2>5 DEF first
  <2>7. g = [k \in n - m .. n |-> g[k]]
    BY DEF g
  <2>8. Converting(g, t, n - m, n)
    BY <2>6, <2>7 DEF Converting
  <2>9. n + 1 - (m + 1) = n - m /\ m + 1 \in Nat
    BY <1>0, <2>2
  <2>10. QED
    BY <2>8, <2>9 DEF P
<1>3. n \in P
  <2>1. P \in SUBSET Nat
    OBVIOUS
  <2> HIDE DEF P
  <2>2. QED
    BY <1>0, <1>1, <1>2, <2>1, UpTo
<1>4. n + 1 - n = 1
  OBVIOUS
<1>5. QED
  BY <1>3, <1>4

LEMMA ConvertingUnique ==
  ASSUME NEW t, Len(t) \in Nat,
         NEW f, Converting(f, t, 1, Len(t) + 1),
         NEW g, Converting(g, t, 1, Len(t) + 1),
         NEW k \in 1 .. Len(t) + 1
  PROVE  f[k] = g[k]
<1> DEFINE n == Len(t) + 1
           P == { m \in Nat : n - m \in 1 .. n => f[n - m] = g[n - m] }
<1>1. \A j \in 1 .. n : f[j] = ConvertAt(f, t, j) /\ g[j] = ConvertAt(g, t, j)
  BY DEF Converting
<1>2. 0 \in P
  <2>1. n > Len(t) /\ n \in 1 .. n
    OBVIOUS
  <2>2. f[n] = g[n]
    BY <1>1, <2>1 DEF ConvertAt
  <2>3. n - 0 = n
    OBVIOUS
  <2>4. QED
    BY <2>2, <2>3
<1>3. ASSUME NEW m \in P, m < n PROVE m + 1 \in P
  <2>1. m \in Nat /\ n - m \in 1 .. n /\ f[n - m] = g[n - m]
    BY <1>3
  <2>2. CASE n - (m + 1) \in 1 .. n
    <3>1. (n - (m + 1)) + 1 = n - m
      BY <2>1
    <3>2. f[n - (m + 1)] = g[n - (m + 1)]
      BY <1>1, <2>1, <2>2, <3>1 DEF ConvertAt
    <3>3. QED
      BY <2>1, <3>2
  <2>3. QED
    BY <2>1, <2>2
<1>4. n - k \in P
  <2>1. P \in SUBSET Nat /\ n - k \in Nat /\ n - k < n
    OBVIOUS
  <2> HIDE DEF P
  <2>2. \A m \in P : m < n - k => m + 1 \in P
    BY <1>3, <2>1
  <2>3. QED
    BY <1>2, <2>1, <2>2, UpTo
<1>5. n - (n - k) = k
  OBVIOUS
<1>6. QED
  BY <1>4, <1>5

LEMMA ConvertIs ==
  ASSUME NEW t, Len(t) \in Nat
  PROVE  \E f : Converting(f, t, 1, Len(t) + 1) /\ TypeConvert(t) = f[1]
<1> DEFINE f == CHOOSE f : Converting(f, t, 1, Len(t) + 1)
<1>1. Converting(f, t, 1, Len(t) + 1)
  BY ConvertingExists
<1>2. TypeConvert(t) = f[1]
  BY Zenon DEF TypeConvert, Converting, ConvertAt
<1>3. QED
  BY <1>1, <1>2

LEMMA ConvertUnfolds ==
  ASSUME NEW t \in Seq(Constructors)
  PROVE  TypeConvert(t) = IF t = << >> THEN << >>
                          ELSE IF t[1].kind = "iarray" THEN TypeConvert(Tail(t))
                          ELSE << t[1] >> \o TypeConvert(Tail(t))
<1> DEFINE n == Len(t)
<1>1. n \in Nat /\ 1 \in 1 .. n + 1
  OBVIOUS
<1>2. PICK f : Converting(f, t, 1, n + 1) /\ TypeConvert(t) = f[1]
  BY <1>1, ConvertIs
<1>3. \A k \in 1 .. n + 1 : f[k] = ConvertAt(f, t, k)
  BY <1>2 DEF Converting
<1>4. CASE t = << >>
  <2>1. 1 > Len(t)
    BY <1>4
  <2>2. QED
    BY <1>1, <1>2, <1>3, <1>4, <2>1 DEF ConvertAt
<1>5. CASE t # << >>
  <2>1. n - 1 \in Nat /\ n >= 1
    BY <1>1, <1>5
  <2> DEFINE u == Tail(t)
             g == [k \in 1 .. n |-> f[k + 1]]
  <2>2. Len(u) = n - 1 /\ \A k \in 1 .. n - 1 : u[k] = t[k + 1]
    BY <1>5
  <2>3. \A k \in 1 .. n : g[k] = f[k + 1]
    OBVIOUS
  <2>4. g = [k \in 1 .. n |-> g[k]]
    OBVIOUS
  <2> HIDE DEF g, u
  <2>5. ASSUME NEW k \in 1 .. n
        PROVE  g[k] = ConvertAt(g, u, k)
    <3>1. k + 1 \in 1 .. n + 1 /\ (k > Len(u) <=> k + 1 > Len(t))
      BY <1>1, <2>2
    <3>2. g[k] = ConvertAt(f, t, k + 1)
      BY <1>3, <2>3, <3>1
    <3>3. CASE k > Len(u)
      BY <3>1, <3>2, <3>3 DEF ConvertAt
    <3>4. CASE ~(k > Len(u))
      <4>1. k \in 1 .. n - 1 /\ k + 1 \in 1 .. n
        BY <2>1, <2>2, <3>4
      <4>2. g[k + 1] = f[(k + 1) + 1] /\ u[k] = t[k + 1]
        BY <2>2, <2>3, <4>1
      <4>3. QED
        BY <3>1, <3>2, <3>4, <4>2 DEF ConvertAt
    <3>5. QED
      BY <3>3, <3>4
  <2>6. Converting(g, u, 1, Len(u) + 1)
    <3>1. Len(u) + 1 = n
      BY <2>1, <2>2
    <3>2. QED
      BY <2>4, <2>5, <3>1 DEF Converting
  <2>7. PICK h : Converting(h, u, 1, Len(u) + 1) /\ TypeConvert(u) = h[1]
    BY <2>1, <2>2, ConvertIs
  <2>8. g[1] = h[1]
    <3>1. 1 \in 1 .. Len(u) + 1 /\ Len(u) \in Nat
      BY <2>1, <2>2
    <3>2. QED
      BY <2>6, <2>7, <3>1, ConvertingUnique
  <2>9. g[1] = f[1 + 1]
    BY <2>1, <2>3
  <2>10. f[1] = ConvertAt(f, t, 1) /\ ~(1 > Len(t))
    BY <1>1, <1>3, <2>1
  <2>11. QED
    BY <1>2, <1>5, <2>7, <2>8, <2>9, <2>10 DEF ConvertAt, u
<1>6. QED
  BY <1>4, <1>5


-----------------------------------------------------------------------------
(* Types and their parts                                                   *)

LEMMA LastIsScalar ==
  ASSUME NEW t, IsType(t)
  PROVE  ~(t[Len(t)].kind \in {"pointer", "array", "iarray"})
<1>1. Len(t) \in Nat /\ Len(t) \in 1 .. Len(t) /\ ~(Len(t) < Len(t))
  BY DEF IsType
<1>2. QED
  BY <1>1 DEF IsType

LEMMA TailIs ==
  ASSUME NEW t \in Seq(Constructors), Len(t) >= 1
  PROVE  /\ Tail(t) \in Seq(Constructors) /\ Len(Tail(t)) = Len(t) - 1 /\ Len(t) \in Nat
         /\ \A k \in 1 .. Len(t) - 1 : Tail(t)[k] = t[k + 1]
OBVIOUS

LEMMA TailIsType ==
  ASSUME NEW t, IsType(t), Len(t) > 1
  PROVE  /\ IsType(Tail(t)) /\ Len(Tail(t)) = Len(t) - 1
         /\ \A k \in 1 .. Len(t) - 1 : Tail(t)[k] = t[k + 1]
<1>0. t \in Seq(Constructors) /\ Len(t) >= 1
  BY DEF IsType
<1> DEFINE u == Tail(t)
           n == Len(t)
<1>1. /\ u \in Seq(Constructors) /\ Len(u) = n - 1 /\ n \in Nat
      /\ \A k \in 1 .. n - 1 : u[k] = t[k + 1]
  BY <1>0, TailIs
<1> HIDE DEF u
<1>2. \A k \in 1 .. n - 1 : k + 1 \in 1 .. n /\ (k < n - 1 <=> k + 1 < n)
  BY <1>1
<1>3. \A k \in 1 .. n - 1 :
        /\ u[k].kind # "void"
        /\ u[k].kind # "array" => u[k].size = 0
        /\ u[k].kind \in {"pointer", "array", "iarray"} <=> k < n - 1
  BY <1>1, <1>2 DEF IsType
<1>4. IsType(u)
  <2>1. Len(u) >= 1 /\ 1 .. Len(u) = 1 .. n - 1
    BY <1>1
  <2>2. \A k \in 1 .. Len(u) :
          /\ u[k].kind # "void"
          /\ u[k].kind # "array" => u[k].size = 0
          /\ u[k].kind \in {"pointer", "array", "iarray"} <=> k < Len(u)
    BY <1>1, <1>3
  <2>3. QED
    BY <1>1, <2>1, <2>2, Zenon DEF IsType
<1>5. QED
  BY <1>1, <1>4 DEF u

LEMMA ScalarOrLonger ==
  ASSUME NEW t, IsType(t)
  PROVE  /\ Kind(t) \in {"pointer", "array", "iarray"} <=> Len(t) > 1
         /\ Kind(t) \in {"integer", "real", "boolean", "char", "pointer", "array", "iarray"}
         /\ t[1] \in Constructors /\ t # << >>
<1>1. 1 \in 1 .. Len(t) /\ t[1] \in Constructors /\ t # << >>
  BY DEF IsType
<1>2. Kind(t) \in {"pointer", "array", "iarray"} <=> 1 < Len(t)
  BY <1>1 DEF IsType, Kind
<1>3. QED
  BY <1>1, <1>2 DEF IsType, Kind, Constructors

LEMMA Prefixed ==
  ASSUME NEW e \in Constructors, NEW w \in Seq(Constructors)
  PROVE  /\ << e >> \o w \in Seq(Constructors) /\ Len(<< e >> \o w) = Len(w) + 1
         /\ (<< e >> \o w)[1] = e /\ Tail(<< e >> \o w) = w
         /\ \A k \in 1 .. Len(w) : (<< e >> \o w)[k + 1] = w[k]
<1> DEFINE v == << e >> \o w
<1>1. /\ v \in Seq(Constructors) /\ Len(v) = Len(w) + 1 /\ v[1] = e
      /\ \A k \in 1 .. Len(w) : v[k + 1] = w[k]
  OBVIOUS
<1> HIDE DEF v
<1>2. /\ Tail(v) \in Seq(Constructors) /\ Len(Tail(v)) = Len(w)
      /\ \A k \in 1 .. Len(w) : Tail(v)[k] = v[k + 1]
  BY <1>1
<1>3. Tail(v) = w
  BY <1>1, <1>2, SeqEqual
<1>4. QED
  BY <1>1, <1>3 DEF v

(* What TypeConvert makes of a type keeps its first constructor and ends   *)
(* in a scalar.                                                            *)
LEMMA ConvertTyped ==
  ASSUME NEW t, IsType(t)
  PROVE  /\ TypeConvert(t) \in Seq(Constructors) /\ Len(TypeConvert(t)) >= 1
         /\ TypeConvert(t)[Len(TypeConvert(t))].kind # "array"
         /\ IsConcrete(t) => /\ TypeConvert(t)[1] = t[1]
                             /\ Tail(TypeConvert(t)) = TypeConvert(Tail(t))
<1> DEFINE Good(u) == /\ TypeConvert(u) \in Seq(Constructors) /\ Len(TypeConvert(u)) >= 1
                      /\ TypeConvert(u)[Len(TypeConvert(u))].kind # "array"
                      /\ IsConcrete(u) => /\ TypeConvert(u)[1] = u[1]
                                          /\ Tail(TypeConvert(u)) = TypeConvert(Tail(u))
           P == { n \in Nat : \A u : IsType(u) /\ Len(u) = n + 1 => Good(u) }
<1>1. ASSUME NEW u, IsType(u), IsConcrete(u), TypeConvert(Tail(u)) \in Seq(Constructors),
             \/ Len(u) = 1 /\ TypeConvert(Tail(u)) = << >>
             \/ Good(Tail(u))
      PROVE  Good(u)
  <2> DEFINE w == TypeConvert(Tail(u))
             v == << u[1] >> \o w
  <2>1. TypeConvert(u) = v /\ u[1] \in Constructors /\ w \in Seq(Constructors)
    BY <1>1, ConvertUnfolds, ScalarOrLonger DEF IsType, IsConcrete, Kind
  <2>2. /\ v \in Seq(Constructors) /\ Len(v) = Len(w) + 1 /\ v[1] = u[1] /\ Tail(v) = w
        /\ \A k \in 1 .. Len(w) : v[k + 1] = w[k]
    BY <2>1, Prefixed
  <2>3. v[Len(v)].kind # "array"
    <3>1. CASE Len(u) = 1 /\ w = << >>
      <4>1. Len(v) = 1 /\ u[1].kind # "array"
        BY <1>1, <2>2, <3>1, LastIsScalar
      <4>2. QED
        BY <2>2, <4>1
    <3>2. CASE Good(Tail(u))
      <4>1. Len(w) \in 1 .. Len(w) /\ w[Len(w)].kind # "array"
        BY <2>1, <3>2
      <4>2. QED
        BY <2>2, <4>1
    <3>3. QED
      BY <1>1, <3>1, <3>2
  <2> HIDE DEF v
  <2>4. Len(v) >= 1
    BY <2>1, <2>2
  <2>5. QED
    BY <2>1, <2>2, <2>3, <2>4
<1> HIDE DEF Good
<1>2. 0 \in P
  <2>1. ASSUME NEW u, IsType(u), Len(u) = 1 PROVE Good(u)
    <3>1. IsConcrete(u) /\ u \in Seq(Constructors)
      <4>1. ~(Len(u) > 1)
        BY <2>1
      <4>2. Kind(u) \notin {"pointer", "array", "iarray"}
        BY <2>1, <4>1, ScalarOrLonger
      <4>3. QED
        BY <2>1, <4>2 DEF IsConcrete, IsType
    <3>2. Tail(u) = << >> /\ << >> \in Seq(Constructors)
      <4>1. Len(u) = 1 /\ Len(u) >= 1
        BY <2>1
      <4>2. Tail(u) \in Seq(Constructors) /\ Len(Tail(u)) = Len(u) - 1
        BY <3>1, <4>1, TailIs, Zenon
      <4>3. Len(Tail(u)) = 0
        BY <4>1, <4>2
      <4>4. \A v \in Seq(Constructors) : v # << >> => Len(v) \in Nat \ {0}
        BY EmptySeq, Zenon
      <4>5. Tail(u) = << >>
        BY <4>2, <4>3, <4>4
      <4>6. << >> \in Seq(Constructors)
        OBVIOUS
      <4>7. QED
        BY <4>5, <4>6
    <3>3. TypeConvert(<< >>) = << >>
      BY <3>2, ConvertUnfolds
    <3>4. QED
      BY <1>1, <2>1, <3>1, <3>2, <3>3
  <2>2. QED
    BY <2>1
<1>3. ASSUME NEW n \in Nat, n \in P PROVE n + 1 \in P
  <2>1. ASSUME NEW u, IsType(u), Len(u) = (n + 1) + 1 PROVE Good(u)
    <3>1. IsType(Tail(u)) /\ Len(Tail(u)) = n + 1
      BY <2>1, TailIsType
    <3>2. Good(Tail(u))
      BY <1>3, <3>1
    <3>3. TypeConvert(Tail(u)) \in Seq(Constructors)
      BY <3>2 DEF Good
    <3>4. CASE IsConcrete(u)
      BY <1>1, <2>1, <3>2, <3>3, <3>4
    <3>5. CASE ~IsConcrete(u)
      <4>1. u \in Seq(Constructors) /\ u # << >>
        BY <2>1, ScalarOrLonger DEF IsType
      <4>2. TypeConvert(u) = TypeConvert(Tail(u))
        BY <3>5, <4>1, ConvertUnfolds DEF IsConcrete, Kind
      <4>3. QED
        BY <3>2, <3>5, <4>2 DEF Good
    <3>6. QED
      BY <3>4, <3>5
  <2>2. QED
    BY <2>1
<1>4. Len(t) - 1 \in P
  <2>1. P \in SUBSET Nat /\ Len(t) - 1 \in Nat
    BY DEF IsType
  <2> HIDE DEF P
  <2>2. QED
    BY <1>2, <1>3, <2>1, UpTo
<1>5. Len(t) = (Len(t) - 1) + 1
  BY DEF IsType
<1>6. Good(t)
  BY <1>4, <1>5
<1>7. QED
  BY <1>6 DEF Good


-----------------------------------------------------------------------------
(* Equal types, and pointers                                               *)

LEMMA EqualTypes ==
  ASSUME NEW t, IsType(t), NEW u, IsType(u), Equals(t, u)
  PROVE  t = u
<1>1. t \in Seq(Constructors) /\ u \in Seq(Constructors) /\ Len(t) = Len(u)
  BY DEF IsType, Equals
<1>2. ASSUME NEW k \in 1 .. Len(t) PROVE t[k] = u[k]
  <2>1. t[k] \in Constructors /\ u[k] \in Constructors
    BY <1>1
  <2>2. t[k].kind = u[k].kind /\ (t[k].kind = "array" => t[k].size = u[k].size)
    BY DEF Equals
  <2>3. t[k].size = u[k].size
    BY <1>1, <2>2 DEF IsType
  <2>4. QED
    BY <2>1, <2>2, <2>3 DEF Constructors
<1>3. QED
  BY <1>1, <1>2, SeqEqual

LEMMA PointerIsType ==
  ASSUME NEW t, IsType(t)
  PROVE  /\ IsType(typePointer(t)) /\ Kind(typePointer(t)) = "pointer"
         /\ RefType(typePointer(t)) = t
<1> DEFINE e == Constructor("pointer", 0)
           v == << e >> \o t
<1>1. e \in Constructors /\ e.kind = "pointer" /\ e.size = 0
  BY DEF Constructor, Constructors
<1>2. t \in Seq(Constructors) /\ Len(t) \in Nat /\ Len(t) >= 1
  BY DEF IsType
<1> HIDE DEF e
<1>3. /\ v \in Seq(Constructors) /\ Len(v) = Len(t) + 1 /\ v[1] = e /\ Tail(v) = t
      /\ \A k \in 1 .. Len(t) : v[k + 1] = t[k]
  BY <1>1, <1>2, Prefixed
<1> HIDE DEF v
<1>4. \A k \in 1 .. Len(v) :
        \/ k = 1 /\ v[k] = e /\ k < Len(v)
        \/ k - 1 \in 1 .. Len(t) /\ v[k] = t[k - 1] /\ (k < Len(v) <=> k - 1 < Len(t))
  <2>1. ASSUME NEW k \in 1 .. Len(v), k # 1
        PROVE  k - 1 \in 1 .. Len(t) /\ v[k] = t[k - 1] /\ (k < Len(v) <=> k - 1 < Len(t))
    <3>1. k - 1 \in 1 .. Len(t) /\ (k - 1) + 1 = k
      BY <1>2, <1>3, <2>1
    <3>2. v[k] = t[k - 1]
      BY <1>3, <3>1
    <3>3. QED
      BY <1>2, <1>3, <3>1, <3>2
  <2>2. QED
    BY <1>2, <1>3, <2>1
<1>5. \A k \in 1 .. Len(v) :
        /\ v[k].kind # "void"
        /\ v[k].kind # "array" => v[k].size = 0
        /\ v[k].kind \in {"pointer", "array", "iarray"} <=> k < Len(v)
  <2> SUFFICES ASSUME NEW k \in 1 .. Len(v)
               PROVE  /\ v[k].kind # "void"
                      /\ v[k].kind # "array" => v[k].size = 0
                      /\ v[k].kind \in {"pointer", "array", "iarray"} <=> k < Len(v)
    OBVIOUS
  <2>1. CASE k = 1 /\ v[k] = e /\ k < Len(v)
    BY <1>1, <2>1
  <2>2. CASE k - 1 \in 1 .. Len(t) /\ v[k] = t[k - 1] /\ (k < Len(v) <=> k - 1 < Len(t))
    BY <2>2 DEF IsType
  <2>3. QED
    BY <1>4, <2>1, <2>2
<1>6. IsType(v)
  BY <1>2, <1>3, <1>5 DEF IsType
<1>7. QED
  BY <1>1, <1>3, <1>6 DEF RefType, Kind, typePointer, v, e


-----------------------------------------------------------------------------
(* TypeConvert of every kind of type                                       *)

(* A type without parts is its kind.                                       *)
LEMMA ScalarIs ==
  ASSUME NEW t, IsType(t), ~(Kind(t) \in {"pointer", "array", "iarray"})
  PROVE  Len(t) = 1 /\ t[1] = Constructor(Kind(t), 0) /\ t = << Constructor(Kind(t), 0) >>
<1>1. t \in Seq(Constructors) /\ Len(t) = 1 /\ t[1] \in Constructors
  <2>1. t \in Seq(Constructors) /\ Len(t) >= 1 /\ Len(t) \in Nat
    BY DEF IsType
  <2>2. ~(Len(t) > 1) /\ t[1] \in Constructors
    BY ScalarOrLonger
  <2>3. \A n \in Nat : n >= 1 /\ ~(n > 1) => n = 1
    OBVIOUS
  <2>4. QED
    BY <2>1, <2>2, <2>3, Zenon
<1>2. t[1].size = 0
  BY <1>1 DEF IsType, Kind
<1>3. t[1] = Constructor(Kind(t), 0)
  BY <1>1, <1>2 DEF Constructors, Constructor, Kind
<1>4. QED
  BY <1>1, <1>3

LEMMA ConvertEmpty == TypeConvert(<< >>) = << >>
<1>1. << >> \in Seq(Constructors)
  OBVIOUS
<1>2. QED
  BY <1>1, ConvertUnfolds

LEMMA ConvertScalar ==
  ASSUME NEW t, IsType(t), ~(Kind(t) \in {"pointer", "array", "iarray"})
  PROVE  TypeConvert(t) = t
<1>1. /\ t \in Seq(Constructors) /\ t = << t[1] >> /\ t # << >> /\ t[1] \in Constructors
      /\ t[1].kind # "iarray"
  BY ScalarIs, ScalarOrLonger DEF IsType, Kind
<1>2. Tail(t) = << >>
  <2>1. << >> \in Seq(Constructors) /\ Len(<< >>) = 0 /\ << t[1] >> \o << >> = << t[1] >>
    BY <1>1
  <2>2. Tail(<< t[1] >> \o << >>) = << >>
    BY <1>1, <2>1, Prefixed
  <2>3. QED
    BY <1>1, <2>1, <2>2
<1>3. TypeConvert(t) = << t[1] >> \o << >>
  BY <1>1, <1>2, ConvertUnfolds, ConvertEmpty
<1>4. << t[1] >> \o << >> = << t[1] >>
  BY <1>1
<1>5. QED
  BY <1>1, <1>3, <1>4

LEMMA BasicTypes ==
  ASSUME NEW t \in { typeInteger, typeReal, typeBoolean, typeChar }
  PROVE  /\ IsType(t) /\ TypeConvert(t) = t
         /\ ~(Kind(t) \in {"pointer", "array", "iarray", "void"})
<1>1. PICK k \in {"integer", "real", "boolean", "char"} : t = << Constructor(k, 0) >>
  BY DEF typeInteger, typeReal, typeBoolean, typeChar
<1>2. /\ Constructor(k, 0) \in Constructors /\ Constructor(k, 0).kind = k
      /\ Constructor(k, 0).size = 0
  BY DEF Constructor, Constructors
<1>3. IsType(t) /\ Kind(t) = k
  BY <1>1, <1>2 DEF IsType, Kind
<1>4. QED
  BY <1>3, ConvertScalar

LEMMA PointerPrefix ==
  ASSUME NEW w \in Seq(Constructors)
  PROVE  /\ typePointer(w) \in Seq(Constructors) /\ Kind(typePointer(w)) = "pointer"
         /\ RefType(typePointer(w)) = w /\ typePointer(w) # << >>
<1>1. Constructor("pointer", 0) \in Constructors /\ Constructor("pointer", 0).kind = "pointer"
  BY DEF Constructor, Constructors
<1>2. QED
  BY <1>1, Prefixed DEF typePointer, Kind, RefType

LEMMA ConvertPointer ==
  ASSUME NEW t \in Seq(Constructors)
  PROVE  TypeConvert(typePointer(t)) = typePointer(TypeConvert(t))
<1> DEFINE v == typePointer(t)
<1>1. /\ v \in Seq(Constructors) /\ v[1].kind = "pointer" /\ Tail(v) = t /\ v # << >>
  BY PointerPrefix DEF Kind, RefType
<1>2. v[1] = Constructor("pointer", 0)
  BY DEF typePointer
<1> HIDE DEF v
<1>3. TypeConvert(v) = << v[1] >> \o TypeConvert(t)
  BY <1>1, ConvertUnfolds
<1>4. QED
  BY <1>2, <1>3 DEF typePointer, v

(* What is known of a type with parts.                                     *)
LEMMA LongerIs ==
  ASSUME NEW t, IsType(t), Kind(t) \in {"pointer", "array", "iarray"}
  PROVE  /\ IsType(RefType(t)) /\ TypeConvert(RefType(t)) \in Seq(Constructors)
         /\ Kind(t) = "iarray" => TypeConvert(t) = TypeConvert(RefType(t))
         /\ Kind(t) = "array" => TypeConvert(t) = typeArray(t[1].size, TypeConvert(RefType(t)))
         /\ Kind(t) = "pointer" => TypeConvert(t) = typePointer(TypeConvert(RefType(t)))
<1>1. /\ Len(t) > 1 /\ t \in Seq(Constructors) /\ t # << >> /\ t[1] \in Constructors
  BY ScalarOrLonger DEF IsType
<1>2. IsType(Tail(t))
  BY <1>1, TailIsType
<1>3. TypeConvert(Tail(t)) \in Seq(Constructors)
  BY <1>2, ConvertTyped
<1>4. TypeConvert(t) = IF t[1].kind = "iarray" THEN TypeConvert(Tail(t))
                       ELSE << t[1] >> \o TypeConvert(Tail(t))
  BY <1>1, ConvertUnfolds
<1>5. Kind(t) = "array" => t[1] = Constructor("array", t[1].size)
  BY <1>1 DEF Kind, Constructors, Constructor
<1>6. Kind(t) = "pointer" => t[1] = Constructor("pointer", 0)
  <2>1. Kind(t) = "pointer" => t[1].size = 0
    BY <1>1 DEF IsType, Kind
  <2>2. QED
    BY <1>1, <2>1 DEF Kind, Constructors, Constructor
<1>7. QED
  BY <1>2, <1>3, <1>4, <1>5, <1>6 DEF RefType, Kind, typeArray, typePointer

LEMMA ArrayPrefix ==
  ASSUME NEW n \in Nat, NEW w \in Seq(Constructors)
  PROVE  Kind(typeArray(n, w)) = "array" /\ RefType(typeArray(n, w)) = w
<1>1. Constructor("array", n) \in Constructors /\ Constructor("array", n).kind = "array"
  BY DEF Constructor, Constructors
<1>2. QED
  BY <1>1, Prefixed DEF typeArray, Kind, RefType

LEMMA ConvertBoolean ==
  ASSUME NEW t, IsType(t), ~IsArray(t)
  PROVE  TypeConvert(t) = typeBoolean <=> t = typeBoolean
<1>1. t = typeBoolean => TypeConvert(t) = typeBoolean
  BY BasicTypes
<1>2. ASSUME TypeConvert(t) = typeBoolean PROVE t = typeBoolean
  <2>1. TypeConvert(t)[1] = t[1]
    BY ConvertTyped DEF IsConcrete, IsArray
  <2>2. Kind(t) = "boolean"
    BY <1>2, <2>1 DEF typeBoolean, Kind, Constructor
  <2>3. QED
    BY <2>2, ScalarIs DEF typeBoolean
<1>3. QED
  BY <1>1, <1>2
=============================================================================

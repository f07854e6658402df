--------------------------- MODULE CodeGen_proofs ---------------------------
(***************************************************************************)
(* For any program: what semantic analysis leaves in the FunctionDefs of   *)
(* those it accepts, and that the second walk meets what the first walk    *)
(* left.                                                                   *)
(***************************************************************************)
EXTENDS CodeGen, WellFoundedInduction, TLAPS

-----------------------------------------------------------------------------
(* Sequences, whatever their elements, and the largest index of a set      *)

IsSeq(s) == Len(s) \in Nat /\ s = [i \in 1 .. Len(s) |-> s[i]]

LEMMA SeqIs ==
  ASSUME NEW s, IsSeq(s)
  PROVE  s \in Seq({ s[i] : i \in 1 .. Len(s) })
<1> DEFINE S == { s[i] : i \in 1 .. Len(s) }
<1>1. \A i \in 1 .. Len(s) : s[i] \in S
  OBVIOUS
<1>2. Len(s) \in Nat /\ s = [i \in 1 .. Len(s) |-> s[i]]
  BY DEF IsSeq
<1> HIDE DEF S
<1>3. [i \in 1 .. Len(s) |-> s[i]] \in Seq(S)
  BY <1>1, <1>2
<1>4. QED
  BY <1>2, <1>3 DEF S

LEMMA SeqDomain ==
  ASSUME NEW s, IsSeq(s)
  PROVE  DOMAIN s = 1 .. Len(s) /\ Len(s) \in Nat
<1>1. s = [i \in 1 .. Len(s) |-> s[i]] /\ Len(s) \in Nat
  BY DEF IsSeq
<1>2. DOMAIN [i \in 1 .. Len(s) |-> s[i]] = 1 .. Len(s)
  OBVIOUS
<1>3. QED
  BY <1>1, <1>2

LEMMA SeqFrom ==
  ASSUME NEW S, NEW s \in Seq(S)
  PROVE  IsSeq(s)
BY DEF IsSeq

LEMMA AppendSeq ==
  ASSUME NEW s, IsSeq(s), NEW e
  PROVE  /\ IsSeq(Append(s, e)) /\ Len(Append(s, e)) = Len(s) + 1
         /\ \A i \in 1 .. Len(s) : Append(s, e)[i] = s[i]
         /\ Append(s, e)[Len(s) + 1] = e
<1> DEFINE S == { s[i] : i \in 1 .. Len(s) } \cup {e}
<1>1. s \in Seq({ s[i] : i \in 1 .. Len(s) })
  BY SeqIs
<1>2. s \in Seq(S) /\ e \in S
  BY <1>1
<1> HIDE DEF S
<1>3. /\ Append(s, e) \in Seq(S) /\ Len(Append(s, e)) = Len(s) + 1
      /\ \A i \in 1 .. Len(s) : Append(s, e)[i] = s[i]
      /\ Append(s, e)[Len(s) + 1] = e
  BY <1>2
<1>4. QED
  BY <1>3, SeqFrom

LEMMA FrontSeq ==
  ASSUME NEW s, IsSeq(s), Len(s) > 0
  PROVE  /\ IsSeq(Front(s)) /\ Len(Front(s)) = Len(s) - 1
         /\ \A i \in 1 .. Len(s) - 1 : Front(s)[i] = s[i]
<1> DEFINE n == Len(s) - 1
           t == SubSeq(s, 1, n)
<1>1. n \in Nat /\ Len(s) = n + 1
  BY DEF IsSeq
<1>2. s \in Seq({ s[i] : i \in 1 .. Len(s) })
  BY SeqIs
<1> HIDE DEF n
<1>3. t = [i \in 1 .. n |-> s[i]]
  BY <1>1, <1>2
<1>4. Len(t) = n /\ \A i \in 1 .. n : t[i] = s[i]
  BY <1>1, <1>3
<1>5. QED
  BY <1>1, <1>3, <1>4 DEF Front, IsSeq, n

Updated(s, i, e) == [s EXCEPT ![i] = e]

LEMMA UpdateSeq ==
  ASSUME NEW s, IsSeq(s), NEW i \in 1 .. Len(s), NEW e
  PROVE  /\ IsSeq(Updated(s, i, e)) /\ Len(Updated(s, i, e)) = Len(s)
         /\ \A j \in 1 .. Len(s) : Updated(s, i, e)[j] = IF j = i THEN e ELSE s[j]
<1> DEFINE t == Updated(s, i, e)
<1>1. Len(s) \in Nat /\ s = [j \in 1 .. Len(s) |-> s[j]]
  BY DEF IsSeq
<1>2. DOMAIN s = 1 .. Len(s)
  BY <1>1
<1>3. t = [j \in 1 .. Len(s) |-> IF j = i THEN e ELSE s[j]]
  BY <1>2 DEF Updated
<1>4. Len(t) = Len(s)
  BY <1>1, <1>3
<1>5. QED
  BY <1>1, <1>3, <1>4 DEF IsSeq

LEMMA Least ==
  ASSUME NEW T \in SUBSET Nat, T # {}
  PROVE  \E x \in T : \A y \in T : x <= y
<1>1. \E x \in T : \A y \in T : ~ (<<y, x>> \in OpToRel(<, Nat))
  BY NatLessThanWellFounded, WFMin
<1>2. PICK x \in T : \A y \in T : ~ (<<y, x>> \in OpToRel(<, Nat))
  BY <1>1
<1>3. \A y \in T : ~ (y < x)
  BY <1>2 DEF OpToRel
<1>4. QED
  BY <1>3

(* Max, of indexes of a sequence. *)
LEMMA MaxIs ==
  ASSUME NEW n \in Nat, NEW S \in SUBSET (1 .. n), S # {}
  PROVE  Max(S) \in S /\ \A i \in S : i <= Max(S)
<1> DEFINE T == { j \in Nat : n - j \in S }
<1>1. PICK i \in S : TRUE
  OBVIOUS
<1>2. n - i \in T /\ T \subseteq Nat
  BY <1>1
<1>3. PICK m \in T : \A j \in T : m <= j
  BY <1>2, Least
<1>4. ASSUME NEW k \in S PROVE n - m >= k
  <2>1. n - k \in T
    BY <1>4
  <2>2. m <= n - k /\ m \in Nat /\ k \in Nat
    BY <1>3, <1>4, <2>1
  <2>3. QED
    BY <2>2
<1>5. n - m \in S
  BY <1>3
<1>6. \E x \in S : \A y \in S : x >= y
  BY <1>4, <1>5
<1>7. Max(S) \in S /\ \A y \in S : Max(S) >= y
  BY <1>6 DEF Max
<1>8. QED
  BY <1>7

-----------------------------------------------------------------------------
(* The inductive invariant, by its parts                                   *)

DefFields ==
  {"header", "isForward", "creator", "chain", "level", "locals", "refs",
   "provides", "requests", "calls", "gotos", "bound"}

Function(i) == scopeStack[i].function
Chain(d) == defs[d].chain
Inner == 2 .. Top      \* the scopes of functions

(* Sequences and records. *)
Shape ==
  /\ status \in {"run", "done", "error", "undefined"}
  /\ IsSeq(scopeStack) /\ IsSeq(defs)
  /\ \A i \in 1 .. Top :
       /\ DOMAIN scopeStack[i] = {"function", "levelEntries", "labelNames", "body"}
       /\ IsSeq(scopeStack[i].labelNames)
  /\ \A d \in Functions :
       /\ DOMAIN defs[d] = DefFields
       /\ IsSeq(Chain(d)) /\ IsSeq(defs[d].provides)

EntryShape(e) ==
  \/ e.entryType = "variable"
  \/ /\ e.entryType = "label" /\ DOMAIN e = {"entryType", "isBound", "isTargeted"}
     /\ e.isBound \in BOOLEAN /\ e.isTargeted \in BOOLEAN
  \/ /\ e.entryType = "function" /\ e.pardef \in {"pending", "complete"}
     /\ DOMAIN e = {"entryType", "function", "pardef", "header"}

(* The functions of the open scopes are the chain of the innermost. *)
Nested ==
  /\ status = "run" => Top >= 2
  /\ Top >= 1 => Function(1) = NoFunction
  /\ Top >= 2 => Function(2) = 1
  /\ \A i \in Inner :
       /\ Function(i) \in Bodies /\ Len(Chain(Function(i))) = i - 1
       /\ \A k \in 1 .. i - 1 : Chain(Function(i))[k] = Function(k + 1)

(* Chains run from main to their function, through functions with bodies;  *)
(* every prefix is a chain.                                                *)
ChainOK(d) ==
  /\ Chain(d)[1] = 1 /\ Chain(d)[Len(Chain(d))] = d
  /\ \A k \in 1 .. Len(Chain(d)) :
       LET e == Chain(d)[k]
       IN  /\ e \in Functions /\ (k < Len(Chain(d)) => e \in Bodies)
           /\ Len(Chain(e)) = k /\ \A l \in 1 .. k : Chain(e)[l] = Chain(d)[l]

Chains ==
  /\ 1 \in Bodies
  /\ \A d \in Functions : Len(Chain(d)) > 0 => ChainOK(d)
  /\ \A d \in Bodies : Len(Chain(d)) > 0

(* A forward declaration and its definition. *)
Siblings(d, c) ==
  /\ Len(Chain(c)) = Len(Chain(d))
  /\ \A k \in 1 .. Len(Chain(d)) - 1 : Chain(c)[k] = Chain(d)[k]

Creators ==
  /\ defs[1].creator = 1
  /\ \A d \in Functions :
       /\ defs[d].creator \in Functions /\ defs[defs[d].creator].creator = defs[d].creator
       /\ defs[d].creator = 1 => d = 1
  /\ \A d \in Bodies :
       /\ defs[defs[d].creator].level = Len(Chain(d)) /\ Siblings(d, defs[d].creator)
       /\ \A b \in Bodies : defs[b].creator = defs[d].creator => b = d

(* The function of an entry; it is Named(i, n), once there is an entry.    *)
Named(i, n) == n \in DOMAIN Entries(i) /\ Entries(i)[n].entryType = "function"
Waiting(i, n) == Named(i, n) /\ Entries(i)[n].pardef = "pending"

NamedOK(i, n) ==
  LET g == Entries(i)[n].function
  IN  /\ g \in Functions \ {1} /\ defs[g].creator = g /\ defs[g].level = i
      /\ Waiting(i, n) => Len(Chain(g)) = 0 /\ \A b \in Bodies : defs[b].creator # g
      /\ ~Waiting(i, n) =>
           Len(Chain(g)) = i /\ \A k \in 1 .. i - 1 : Chain(g)[k] = Function(k + 1)

Names ==
  /\ \A i \in 1 .. Top : \A x \in DOMAIN Entries(i) : EntryShape(Entries(i)[x])
  /\ Top >= 1 => \A x \in DOMAIN Entries(1) :
                   Named(1, x) /\ ~Waiting(1, x) /\ Entries(1)[x].function = NoFunction
  /\ \A i \in Inner : \A n : Named(i, n) => NamedOK(i, n)
  /\ \A i \in Inner, j \in Inner : \A m, n :
       (Named(i, m) /\ Named(j, n) /\ Entries(i)[m].function = Entries(j)[n].function)
         => i = j /\ m = n

(* d may call a function declared in scope i. *)
Inside(d, i) ==
  Len(Chain(d)) >= i - 1 /\ \A k \in 1 .. i - 1 : Chain(d)[k] = Function(k + 1)

Sees(d, g) ==
  Len(Chain(g)) - 1 <= Len(Chain(d))
    /\ \A k \in 1 .. Len(Chain(g)) - 1 : Chain(g)[k] = Chain(d)[k]

CallsOK ==
  /\ \A d \in Functions : \A g \in defs[d].calls :
       /\ g \in Functions \ {1} /\ defs[g].creator = g /\ d \in Bodies
       /\ Len(Chain(g)) > 0 => Sees(d, g)
  /\ \A i \in Inner : \A n : Waiting(i, n) =>
       \A d \in Functions : Entries(i)[n].function \in defs[d].calls => Inside(d, i)

(* Variables, and the slots of the hidden structs.                         *)
VariablesOK ==
  /\ \A i \in Inner : \A x \in DOMAIN Entries(i) :
       Entries(i)[x].entryType = "variable" => x \in defs[Function(i)].locals
  /\ \A d \in Functions :
       /\ defs[d].refs \subseteq defs[d].locals
       /\ \A k \in 1 .. Len(defs[d].provides) : defs[d].provides[k] \in defs[d].locals
  /\ defs[1].refs = {}

(* Labels, and gotos under way.                                            *)
IsLabelIn(i, l) == l \in DOMAIN Entries(i) /\ Entries(i)[l].entryType = "label"

LabelsOK ==
  /\ Top >= 1 => Len(scopeStack[1].labelNames) = 0
  /\ \A i \in Inner :
       /\ \A k \in 1 .. Len(scopeStack[i].labelNames) : IsLabelIn(i, scopeStack[i].labelNames[k])
       /\ \A l : IsLabelIn(i, l) =>
            /\ \E k \in 1 .. Len(scopeStack[i].labelNames) : scopeStack[i].labelNames[k] = l
            /\ Entries(i)[l].isBound => l \in defs[Function(i)].bound
       /\ \A l \in defs[Function(i)].gotos : IsLabelIn(i, l) /\ Entries(i)[l].isTargeted

ScopesInv ==
  /\ Shape /\ Nested /\ Chains /\ Creators /\ Names /\ CallsOK /\ VariablesOK
  /\ RequestsMatchProvides /\ LabelsOK /\ GotoReachesLabel

-----------------------------------------------------------------------------
(* Steps that keep most of it                                              *)

Refuses == status' \in {"error", "undefined"} /\ UNCHANGED <<scopeStack, defs>>

SameFrame ==
  /\ Top' = Top /\ \A i \in 1 .. Top : Function(i)' = Function(i)
  /\ Len(defs') = Len(defs)
  /\ \A d \in Functions :
       /\ Chain(d)' = Chain(d) /\ defs'[d].isForward = defs[d].isForward
       /\ defs'[d].creator = defs[d].creator /\ defs'[d].level = defs[d].level

SameNamed ==
  \A i \in 1 .. Top : \A n :
    /\ Named(i, n)' <=> Named(i, n)
    /\ Named(i, n) => /\ Entries(i)'[n].function = Entries(i)[n].function
                      /\ Entries(i)'[n].pardef = Entries(i)[n].pardef

SameLabels ==
  /\ Top >= 1 => scopeStack'[1].labelNames = scopeStack[1].labelNames
  /\ \A i \in Inner :
       /\ scopeStack'[i].labelNames = scopeStack[i].labelNames
       /\ \A l : /\ IsLabelIn(i, l)' <=> IsLabelIn(i, l)
                 /\ IsLabelIn(i, l) => Entries(i)'[l] = Entries(i)[l]
  /\ \A d \in Functions : defs'[d].gotos = defs[d].gotos /\ defs'[d].bound = defs[d].bound

(* Locals and slots are added, never taken away. *)
Grown ==
  \A d \in Functions :
    /\ defs[d].locals \subseteq defs'[d].locals
    /\ Len(defs[d].provides) <= Len(defs'[d].provides)
    /\ \A k \in 1 .. Len(defs[d].provides) : defs'[d].provides[k] = defs[d].provides[k]

LEMMA RefusesKeeps == ScopesInv /\ Refuses => ScopesInv'
<1> SUFFICES ASSUME ScopesInv, Refuses PROVE ScopesInv'
  OBVIOUS
<1>1. status' \in {"error", "undefined"} /\ scopeStack' = scopeStack /\ defs' = defs
  BY DEF Refuses
<1>2. Top' = Top /\ Functions' = Functions /\ Bodies' = Bodies /\ Inner' = Inner
  BY <1>1 DEF Top, Functions, Bodies, Inner
<1>3. Shape' /\ Nested'
  BY <1>1, <1>2 DEF ScopesInv, Shape, Nested, Function, Chain
<1>4. Chains' /\ Creators'
  BY <1>1, <1>2 DEF ScopesInv, Chains, ChainOK, Creators, Siblings, Chain
<1>5. Names'
  <2>1. /\ \A i : Entries(i)' = Entries(i) /\ Function(i)' = Function(i)
        /\ \A d : Chain(d)' = Chain(d)
    BY <1>1 DEF Entries, Function, Chain
  <2>2. \A i, n : /\ Named(i, n)' <=> Named(i, n)
                  /\ Waiting(i, n)' <=> Waiting(i, n)
                  /\ NamedOK(i, n)' <=> NamedOK(i, n)
    BY <1>1, <1>2, <2>1 DEF NamedOK, Waiting, Named
  <2>3. QED
    BY <1>1, <1>2, <2>1, <2>2 DEF ScopesInv, Names
<1>6. CallsOK' /\ VariablesOK'
  BY <1>1, <1>2 DEF ScopesInv, CallsOK, Sees, Inside, Waiting, Named, VariablesOK, Entries, Chain,
     Function
<1>7. RequestsMatchProvides'
  BY <1>1, <1>2, ZenonT(40) DEF ScopesInv, RequestsMatchProvides
<1>8. LabelsOK'
  BY <1>1, <1>2 DEF ScopesInv, LabelsOK, IsLabelIn, Entries, Function
<1>9. GotoReachesLabel'
  BY <1>1 DEF GotoReachesLabel
<1>10. QED
  BY <1>3, <1>4, <1>5, <1>6, <1>7, <1>8, <1>9 DEF ScopesInv

LEMMA FrameKept ==
  ASSUME ScopesInv, SameFrame, status' = "run" => status = "run"
  PROVE  /\ Inner' = Inner /\ Functions' = Functions /\ Bodies' = Bodies /\ Open' = Open
         /\ Nested' /\ Chains' /\ Creators'
<1>1. /\ Top' = Top /\ \A i \in 1 .. Top : Function(i)' = Function(i)
      /\ Functions' = Functions /\ Inner' = Inner
      /\ \A d \in Functions :
           /\ Chain(d)' = Chain(d) /\ defs'[d].isForward = defs[d].isForward
           /\ defs'[d].creator = defs[d].creator /\ defs'[d].level = defs[d].level
  BY DEF SameFrame, Functions, Inner
<1>2. Bodies' = Bodies /\ \A i \in Inner : i \in 1 .. Top
  BY <1>1 DEF Bodies, Inner
<1>3. Open = { Function(i) : i \in Inner } /\ Open' = { Function(i)' : i \in Inner' }
  BY DEF Open, Function, Inner
<1>4. Open' = Open
  BY <1>1, <1>2, <1>3
<1>5. Nested'
  <2>1. Top \in Nat
    BY DEF ScopesInv, Shape, IsSeq, Top
  <2>2. (status = "run" => Top >= 2)' /\ (Top >= 1 => Function(1) = NoFunction)'
           /\ (Top >= 2 => Function(2) = 1)'
    BY <1>1, <2>1 DEF ScopesInv, Nested
  <2>3. ASSUME NEW i \in Inner
        PROVE  (/\ Function(i) \in Bodies /\ Len(Chain(Function(i))) = i - 1
                /\ \A k \in 1 .. i - 1 : Chain(Function(i))[k] = Function(k + 1))'
    <3> PICK f : f = Function(i)
      OBVIOUS
    <3>1. /\ f \in Bodies /\ Len(Chain(f)) = i - 1
          /\ \A k \in 1 .. i - 1 : Chain(f)[k] = Function(k + 1)
      BY DEF ScopesInv, Nested
    <3>2. Function(i)' = f /\ Chain(f)' = Chain(f)
      BY <1>1, <1>2, <3>1 DEF Bodies
    <3>3. \A k \in 1 .. i - 1 : Function(k + 1)' = Function(k + 1)
      BY <1>1, <2>1 DEF Inner
    <3>4. (f \in Bodies /\ Len(Chain(f)) = i - 1)' /\ \A k \in 1 .. i - 1 : Chain(f)'[k] = Function(k + 1)'
      BY <1>2, <3>1, <3>2, <3>3
    <3>5. QED
      BY <3>2, <3>4 DEF Chain
  <2>4. QED
    BY <1>1, <2>2, <2>3 DEF Nested
<1>6. Chains'
  BY <1>1, <1>2 DEF ScopesInv, Chains, ChainOK, Bodies
<1>7. Creators'
  <2>1. 1 \in Functions
    BY DEF ScopesInv, Chains, Bodies
  <2>2. QED
    BY <1>1, <1>2, <2>1 DEF ScopesInv, Creators, Siblings, Bodies
<1>8. QED
  BY <1>1, <1>2, <1>4, <1>5, <1>6, <1>7

LEMMA NamesKept ==
  ASSUME ScopesInv, SameFrame, SameNamed, status' = "run" => status = "run",
         \A i \in 1 .. Top : \A x \in DOMAIN Entries(i)' : EntryShape(Entries(i)'[x]),
         Top >= 1 => DOMAIN Entries(1)' = DOMAIN Entries(1)
  PROVE  Names'
<1>1. /\ Top' = Top /\ Inner' = Inner /\ Functions' = Functions /\ Bodies' = Bodies
      /\ \A i \in Inner : i \in 1 .. Top
  BY FrameKept DEF SameFrame, Inner
<1>2. /\ \A i \in 1 .. Top : Function(i)' = Function(i)
      /\ \A d \in Functions :
           /\ Chain(d)' = Chain(d)
           /\ defs'[d].creator = defs[d].creator /\ defs'[d].level = defs[d].level
  BY DEF SameFrame
<1>3. \A i \in 1 .. Top : \A n :
        /\ Named(i, n)' <=> Named(i, n)
        /\ Waiting(i, n)' <=> Waiting(i, n)
        /\ Named(i, n) => Entries(i)'[n].function = Entries(i)[n].function
  BY DEF SameNamed, Waiting
<1>4. (\A i \in 1 .. Top : \A x \in DOMAIN Entries(i) : EntryShape(Entries(i)[x]))'
  BY <1>1 DEF EntryShape
<1>5. (Top >= 1 => \A x \in DOMAIN Entries(1) :
                     Named(1, x) /\ ~Waiting(1, x) /\ Entries(1)[x].function = NoFunction)'
  <2>1. Top \in Nat
    BY DEF ScopesInv, Shape, IsSeq, Top
  <2>2. QED
    BY <1>1, <1>3, <2>1 DEF ScopesInv, Names
<1>6. ASSUME NEW i \in Inner, NEW n, Named(i, n)'
      PROVE  NamedOK(i, n)'
  <2> PICK g : g = Entries(i)[n].function
    OBVIOUS
  <2>1. Named(i, n) /\ Entries(i)'[n].function = g /\ (Waiting(i, n)' <=> Waiting(i, n))
    BY <1>1, <1>3, <1>6
  <2>2. /\ g \in Functions \ {1} /\ defs[g].creator = g /\ defs[g].level = i
        /\ Waiting(i, n) => Len(Chain(g)) = 0 /\ \A b \in Bodies : defs[b].creator # g
        /\ ~Waiting(i, n) =>
             Len(Chain(g)) = i /\ \A k \in 1 .. i - 1 : Chain(g)[k] = Function(k + 1)
    BY <2>1 DEF ScopesInv, Names, NamedOK
  <2>3. Top \in Nat /\ \A k \in 1 .. i - 1 : Function(k + 1)' = Function(k + 1)
    BY <1>2 DEF ScopesInv, Shape, IsSeq, Top, Inner
  <2>4. /\ g \in Functions' \ {1} /\ defs'[g].creator = g /\ defs'[g].level = i
        /\ Waiting(i, n)' => Len(Chain(g)') = 0 /\ \A b \in Bodies' : defs'[b].creator # g
        /\ ~Waiting(i, n)' =>
             Len(Chain(g)') = i /\ \A k \in 1 .. i - 1 : Chain(g)'[k] = Function(k + 1)'
    BY <1>1, <1>2, <2>1, <2>2, <2>3 DEF Bodies
  <2>5. QED
    BY <2>1, <2>4 DEF NamedOK, Chain
<1>7. (\A i \in Inner, j \in Inner : \A m, n :
         (Named(i, m) /\ Named(j, n) /\ Entries(i)[m].function = Entries(j)[n].function)
           => i = j /\ m = n)'
  BY <1>1, <1>3 DEF ScopesInv, Names
<1>8. QED
  BY <1>1, <1>4, <1>5, <1>6, <1>7 DEF Names

LEMMA CallsKept ==
  ASSUME ScopesInv, SameFrame, SameNamed, status' = "run" => status = "run",
         \A d \in Functions : \A g \in defs'[d].calls \ defs[d].calls :
           /\ g \in Functions \ {1} /\ defs[g].creator = g /\ d \in Bodies
           /\ Len(Chain(g)) > 0 => Sees(d, g)
           /\ \A i \in Inner : \A n :
                Waiting(i, n) /\ Entries(i)[n].function = g => Inside(d, i)
  PROVE  CallsOK'
<1>1. /\ Top' = Top /\ Inner' = Inner /\ Functions' = Functions /\ Bodies' = Bodies
      /\ \A i \in Inner : i \in 1 .. Top
  BY FrameKept DEF SameFrame, Inner
<1>2. /\ \A i \in 1 .. Top : Function(i)' = Function(i)
      /\ \A d \in Functions : Chain(d)' = Chain(d) /\ defs'[d].creator = defs[d].creator
  BY DEF SameFrame
<1>3. \A i \in 1 .. Top : \A n :
        /\ Waiting(i, n)' <=> Waiting(i, n)
        /\ Waiting(i, n) => Entries(i)'[n].function = Entries(i)[n].function
  BY DEF SameNamed, Waiting
<1>4. ASSUME NEW d \in Functions, NEW g \in defs'[d].calls
      PROVE  /\ g \in Functions \ {1} /\ defs[g].creator = g /\ d \in Bodies
             /\ Len(Chain(g)) > 0 => Sees(d, g)
             /\ \A i \in Inner : \A n :
                  Waiting(i, n) /\ Entries(i)[n].function = g => Inside(d, i)
  <2>1. CASE g \in defs[d].calls
    BY <2>1 DEF ScopesInv, CallsOK
  <2>2. CASE g \notin defs[d].calls
    BY <2>2
  <2>3. QED
    BY <2>1, <2>2
<1>5. ASSUME NEW d \in Functions, NEW g \in defs'[d].calls
      PROVE  (/\ g \in Functions \ {1} /\ defs[g].creator = g /\ d \in Bodies
              /\ Len(Chain(g)) > 0 => Sees(d, g))'
  BY <1>1, <1>2, <1>4 DEF Sees
<1>6. ASSUME NEW i \in Inner, NEW d \in Functions, Inside(d, i)
      PROVE  Inside(d, i)'
  <2>1. Top \in Nat /\ \A k \in 1 .. i - 1 : Function(k + 1)' = Function(k + 1)
    BY <1>2 DEF ScopesInv, Shape, IsSeq, Top, Inner
  <2>2. QED
    BY <1>2, <1>6, <2>1 DEF Inside
<1>7. ASSUME NEW i \in Inner, NEW n, Waiting(i, n)', NEW d \in Functions,
             Entries(i)'[n].function \in defs'[d].calls
      PROVE  Inside(d, i)'
  BY <1>1, <1>3, <1>4, <1>6, <1>7
<1>8. QED
  BY <1>1, <1>5, <1>7 DEF CallsOK

LEMMA VariablesKept ==
  ASSUME ScopesInv, SameFrame, Grown, status' = "run" => status = "run",
         \A i \in Inner : \A x \in DOMAIN Entries(i)' :
           Entries(i)'[x].entryType = "variable" =>
             \/ x \in DOMAIN Entries(i) /\ Entries(i)[x].entryType = "variable"
             \/ x \in defs'[Function(i)].locals,
         \A d \in Functions :
           /\ defs'[d].refs = defs[d].refs
           /\ \A k \in 1 .. Len(defs'[d].provides) :
                defs'[d].provides[k] \in defs'[d].locals
  PROVE  VariablesOK'
<1>1. /\ Inner' = Inner /\ Functions' = Functions /\ 1 \in Functions
      /\ \A i \in Inner : Function(i) \in Functions /\ Function(i)' = Function(i)
  BY FrameKept DEF SameFrame, Inner, ScopesInv, Nested, Bodies, Chains
<1>2. ASSUME NEW i \in Inner, NEW x \in DOMAIN Entries(i)',
             Entries(i)'[x].entryType = "variable"
      PROVE  x \in defs'[Function(i)'].locals
  BY <1>1, <1>2 DEF ScopesInv, VariablesOK, Grown
<1>3. \A d \in Functions : defs'[d].refs \subseteq defs'[d].locals
  BY DEF ScopesInv, VariablesOK, Grown
<1>4. defs'[1].refs = {}
  BY <1>1 DEF ScopesInv, VariablesOK
<1>5. QED
  BY <1>1, <1>2, <1>3, <1>4 DEF VariablesOK

RequestOK(d, x) ==
  LET r == defs[d].requests[x]
      owner == defs[d].chain[Len(defs[d].chain) - r.diff]
  IN  /\ r.diff \in 1 .. Len(defs[d].chain) - 1
      /\ r.idx \in DOMAIN defs[owner].provides
      /\ defs[owner].provides[r.idx] = x
      /\ x \in defs[owner].locals

(* A place in a sequence counted from its end, or kept when it grows. *)
LEMMA FromTheEnd ==
  ASSUME NEW n \in Nat, NEW k \in 1 .. n - 1
  PROVE  n > 0 /\ n - k \in 1 .. n
OBVIOUS

LEMMA InLonger ==
  ASSUME NEW s, NEW t, IsSeq(s), IsSeq(t), Len(s) <= Len(t), NEW k, k \in DOMAIN s
  PROVE  k \in DOMAIN t
<1>1. /\ Len(s) \in Nat /\ Len(t) \in Nat
      /\ DOMAIN s = 1 .. Len(s) /\ DOMAIN t = 1 .. Len(t)
  BY DEF IsSeq
<1>2. \A m \in Nat, n \in Nat : m <= n => (k \in 1 .. m => k \in 1 .. n)
  OBVIOUS
<1>3. QED
  BY <1>1, <1>2, Zenon

LEMMA RequestsKept ==
  ASSUME ScopesInv, Grown, Functions \subseteq Functions',
         NEW d \in Functions, Len(Chain(d)) > 0 => Chain(d)' = Chain(d), IsSeq(Chain(d)'),
         NEW x \in DOMAIN defs[d].requests, x \in DOMAIN defs'[d].requests,
         defs'[d].requests[x] = defs[d].requests[x],
         \A e \in Functions : IsSeq(defs'[e].provides)
  PROVE  RequestOK(d, x)'
<1> PICK r, c : r = defs[d].requests[x] /\ c = Chain(d)
  OBVIOUS
<1> PICK owner : owner = c[Len(c) - r.diff]
  BY Zenon
<1>1. /\ r.diff \in 1 .. Len(c) - 1
      /\ r.idx \in DOMAIN defs[owner].provides
      /\ defs[owner].provides[r.idx] = x
      /\ x \in defs[owner].locals
  BY Zenon DEF ScopesInv, RequestsMatchProvides, Chain
<1>2. IsSeq(c) /\ Len(c) \in Nat
  BY DEF ScopesInv, Shape, IsSeq
<1>3. c = defs'[d].chain
  <2>1. Len(c) > 0
    BY <1>1, <1>2, FromTheEnd, Zenon
  <2>2. Chain(d)' = c
    BY <2>1
  <2>3. QED
    BY <2>2 DEF Chain
<1>4. owner \in Functions
  <2>1. Len(c) - r.diff \in 1 .. Len(c) /\ Len(c) > 0
    BY <1>1, <1>2, FromTheEnd, Zenon
  <2>2. QED
    BY <2>1 DEF ScopesInv, Chains, ChainOK
<1>5. IsSeq(defs[owner].provides) /\ IsSeq(defs'[owner].provides)
  BY <1>4, Zenon DEF ScopesInv, Shape
<1>6. /\ DOMAIN defs[owner].provides = 1 .. Len(defs[owner].provides)
      /\ DOMAIN defs'[owner].provides = 1 .. Len(defs'[owner].provides)
      /\ Len(defs[owner].provides) \in Nat /\ Len(defs'[owner].provides) \in Nat
  BY <1>5, SeqDomain, Zenon
<1>7. /\ r.idx \in DOMAIN defs'[owner].provides
      /\ defs'[owner].provides[r.idx] = x
      /\ x \in defs'[owner].locals
  <2> PICK k : k = r.idx
    BY Zenon
  <2>1. k \in 1 .. Len(defs[owner].provides) /\ defs[owner].provides[k] = x
    BY <1>1, <1>6, Zenon
  <2>2. /\ defs[owner].locals \subseteq defs'[owner].locals
        /\ Len(defs[owner].provides) <= Len(defs'[owner].provides)
        /\ defs'[owner].provides[k] = defs[owner].provides[k]
    BY <1>4, <2>1, Zenon DEF Grown
  <2>3. k \in DOMAIN defs'[owner].provides
    BY <1>1, <1>5, <2>2, InLonger, Zenon
  <2>4. QED
    BY <1>1, <1>6, <2>1, <2>2, <2>3, Zenon
<1>8. r = defs'[d].requests[x] /\ owner = defs'[d].chain[Len(defs'[d].chain) - r.diff]
  BY <1>3
<1>9. QED
  BY <1>1, <1>3, <1>7, <1>8, Zenon DEF RequestOK

LEMMA LabelsKept ==
  ASSUME ScopesInv, SameFrame, SameLabels, status' = status
  PROVE  LabelsOK' /\ GotoReachesLabel'
<1>1. /\ Inner' = Inner /\ Functions' = Functions /\ Open' = Open
      /\ \A i \in Inner : Function(i) \in Functions /\ Function(i)' = Function(i)
  BY FrameKept DEF SameFrame, Inner, ScopesInv, Nested, Bodies
<1>2. \A d \in Functions : defs'[d].gotos = defs[d].gotos /\ defs'[d].bound = defs[d].bound
  BY DEF SameLabels
<1>3. GotoReachesLabel'
  BY <1>1, <1>2 DEF ScopesInv, GotoReachesLabel
<1>4. ASSUME NEW i \in Inner
      PROVE  (/\ \A k \in 1 .. Len(scopeStack[i].labelNames) : IsLabelIn(i, scopeStack[i].labelNames[k])
              /\ \A l : IsLabelIn(i, l) =>
                   /\ \E k \in 1 .. Len(scopeStack[i].labelNames) : scopeStack[i].labelNames[k] = l
                   /\ Entries(i)[l].isBound => l \in defs[Function(i)].bound
              /\ \A l \in defs[Function(i)].gotos : IsLabelIn(i, l) /\ Entries(i)[l].isTargeted)'
  <2> PICK f, ns : f = Function(i) /\ ns = scopeStack[i].labelNames
    OBVIOUS
  <2>1. f \in Functions /\ Function(i)' = f /\ scopeStack'[i].labelNames = ns
    BY <1>1 DEF SameLabels
  <2>2. \A l : /\ IsLabelIn(i, l)' <=> IsLabelIn(i, l)
               /\ IsLabelIn(i, l) => Entries(i)'[l] = Entries(i)[l]
    BY DEF SameLabels
  <2>3. /\ \A k \in 1 .. Len(ns) : IsLabelIn(i, ns[k])
        /\ \A l : IsLabelIn(i, l) =>
             (\E k \in 1 .. Len(ns) : ns[k] = l) /\ (Entries(i)[l].isBound => l \in defs[f].bound)
        /\ \A l \in defs[f].gotos : IsLabelIn(i, l) /\ Entries(i)[l].isTargeted
    BY DEF ScopesInv, LabelsOK
  <2>4. /\ \A k \in 1 .. Len(ns) : IsLabelIn(i, ns[k])'
        /\ \A l : IsLabelIn(i, l)' =>
             (\E k \in 1 .. Len(ns) : ns[k] = l) /\ (Entries(i)'[l].isBound => l \in defs'[f].bound)
        /\ \A l \in defs'[f].gotos : IsLabelIn(i, l)' /\ Entries(i)'[l].isTargeted
    BY <1>2, <2>1, <2>2, <2>3
  <2>5. QED
    BY <2>1, <2>4 DEF IsLabelIn
<1>5. QED
  <2>1. (Top >= 1 => Len(scopeStack[1].labelNames) = 0)'
    BY DEF SameFrame, SameLabels, ScopesInv, LabelsOK
  <2>2. QED
    BY <1>1, <1>3, <1>4, <2>1 DEF LabelsOK

-----------------------------------------------------------------------------
(* What steps write                                                        *)

(* ss is the stack of scopes with x written into the table of the top one. *)
Writes(ss, x, e) ==
  /\ IsSeq(ss) /\ Len(ss) = Top
  /\ \A i \in 1 .. Top :
       /\ DOMAIN ss[i] = DOMAIN scopeStack[i]
       /\ ss[i].function = scopeStack[i].function
       /\ DOMAIN ss[i].levelEntries = DOMAIN Entries(i) \cup (IF i = Top THEN {x} ELSE {})
       /\ \A n \in DOMAIN ss[i].levelEntries :
            ss[i].levelEntries[n] = IF i = Top /\ n = x THEN e ELSE Entries(i)[n]

SameLabelNames(ss) == \A i \in 1 .. Top : ss[i].labelNames = scopeStack[i].labelNames

(* Of the FunctionDefs, only fields F of those in D are written. *)
OnlyIn(D, F) ==
  /\ IsSeq(defs') /\ Len(defs') = Len(defs)
  /\ \A c \in Functions :
       /\ DOMAIN defs'[c] = DefFields
       /\ \A f \in DefFields : c \notin D \/ f \notin F => defs'[c][f] = defs[c][f]

Retabled(es) == [scopeStack EXCEPT ![Top].levelEntries = es]

LEMMA TableWritten ==
  ASSUME Shape, Top >= 1, NEW x, NEW e, NEW es,
         DOMAIN es = DOMAIN Entries(Top) \cup {x},
         \A n \in DOMAIN es : es[n] = IF n = x THEN e ELSE Entries(Top)[n],
         NEW ss, ss = Retabled(es)
  PROVE  Writes(ss, x, e) /\ SameLabelNames(ss) /\ \A i \in 1 .. Top : ss[i].body = scopeStack[i].body
<1> DEFINE new == [scopeStack[Top] EXCEPT !.levelEntries = es]
<1>1. Top \in 1 .. Top /\ IsSeq(scopeStack) /\ Top = Len(scopeStack)
  BY DEF Shape, IsSeq, Top
<1>2. ss = Updated(scopeStack, Top, new)
  BY DEF Updated, Retabled
<1>3. DOMAIN scopeStack[Top] = {"function", "levelEntries", "labelNames", "body"}
  BY <1>1 DEF Shape
<1>4. /\ DOMAIN new = DOMAIN scopeStack[Top] /\ new.levelEntries = es
      /\ new.function = scopeStack[Top].function
      /\ new.labelNames = scopeStack[Top].labelNames /\ new.body = scopeStack[Top].body
  BY <1>3
<1> HIDE DEF new
<1>5. /\ IsSeq(ss) /\ Len(ss) = Top
      /\ \A i \in 1 .. Top : ss[i] = IF i = Top THEN new ELSE scopeStack[i]
  BY <1>1, <1>2, UpdateSeq
<1>6. QED
  BY <1>4, <1>5 DEF Writes, SameLabelNames, Entries

LEMMA SetEntryWrites ==
  ASSUME Shape, Top >= 1, NEW x, NEW e
  PROVE  /\ Writes(SetEntry(x, e), x, e) /\ SameLabelNames(SetEntry(x, e))
         /\ \A i \in 1 .. Top : SetEntry(x, e)[i].body = scopeStack[i].body
<1> DEFINE es == [n \in DOMAIN Entries(Top) \cup {x} |-> IF n = x THEN e ELSE Entries(Top)[n]]
           ss == SetEntry(x, e)
<1>1. DOMAIN es = DOMAIN Entries(Top) \cup {x}
  OBVIOUS
<1>2. \A n \in DOMAIN es : es[n] = IF n = x THEN e ELSE Entries(Top)[n]
  OBVIOUS
<1>3. ss = Retabled(es)
  BY DEF SetEntry, Entries, Retabled
<1> HIDE DEF es, ss
<1>4. Writes(ss, x, e) /\ SameLabelNames(ss) /\ \A i \in 1 .. Top : ss[i].body = scopeStack[i].body
  BY <1>1, <1>2, <1>3, TableWritten
<1>5. QED
  BY <1>4 DEF ss

LEMMA AddEntryWrites ==
  ASSUME Shape, Top >= 1, NEW x, x \notin DOMAIN Entries(Top), NEW e
  PROVE  /\ Writes(AddEntry(x, e), x, e) /\ SameLabelNames(AddEntry(x, e))
         /\ \A i \in 1 .. Top : AddEntry(x, e)[i].body = scopeStack[i].body
<1>1. Insert(Entries(Top), x, e)
        = [n \in DOMAIN Entries(Top) \cup {x} |-> IF n = x THEN e ELSE Entries(Top)[n]]
  BY DEF Insert
<1>2. AddEntry(x, e) = SetEntry(x, e)
  BY <1>1 DEF AddEntry, SetEntry, Entries
<1>3. QED
  BY <1>2, SetEntryWrites

Redefined(d, f, v) == [defs EXCEPT ![d] = [defs[d] EXCEPT ![f] = v]]

LEMMA DefWritten ==
  ASSUME Shape, NEW d \in Functions, NEW f \in DefFields, NEW v,
         defs' = Redefined(d, f, v)
  PROVE  OnlyIn({d}, {f}) /\ defs'[d][f] = v
<1> DEFINE new == [defs[d] EXCEPT ![f] = v]
<1>1. IsSeq(defs) /\ d \in 1 .. Len(defs) /\ DOMAIN defs[d] = DefFields
  BY DEF Shape, Functions
<1>2. defs' = Updated(defs, d, new)
  BY DEF Updated, Redefined
<1>3. DOMAIN new = DefFields /\ new[f] = v /\ \A g \in DefFields : g # f => new[g] = defs[d][g]
  BY <1>1
<1> HIDE DEF new
<1>4. /\ IsSeq(defs') /\ Len(defs') = Len(defs)
      /\ \A c \in 1 .. Len(defs) : defs'[c] = IF c = d THEN new ELSE defs[c]
  BY <1>1, <1>2, UpdateSeq
<1>5. \A c \in Functions : DOMAIN defs[c] = DefFields
  BY DEF Shape
<1>6. QED
  BY <1>1, <1>3, <1>4, <1>5 DEF OnlyIn, Functions

LEMMA OnlyInFrame ==
  ASSUME NEW D, NEW F, OnlyIn(D, F), {"chain", "isForward", "creator", "level"} \cap F = {},
         Top' = Top, \A i \in 1 .. Top : Function(i)' = Function(i)
  PROVE  SameFrame
<1>1. \A c \in Functions : \A f \in {"chain", "isForward", "creator", "level"} :
        defs'[c][f] = defs[c][f]
  BY DEF OnlyIn, DefFields
<1>2. QED
  BY <1>1 DEF SameFrame, OnlyIn, Chain

LEMMA WritesNamed ==
  ASSUME Shape, NEW x, NEW e, Writes(scopeStack', x, e), e.entryType # "function",
         ~Named(Top, x)
  PROVE  SameNamed
<1>1. ASSUME NEW i \in 1 .. Top, NEW n
      PROVE  /\ Named(i, n)' <=> Named(i, n)
             /\ Named(i, n) => /\ Entries(i)'[n].function = Entries(i)[n].function
                               /\ Entries(i)'[n].pardef = Entries(i)[n].pardef
  BY DEF Writes, Named, Entries
<1>2. QED
  BY <1>1 DEF SameNamed

LEMMA TopRuns ==
  ASSUME ScopesInv, status = "run"
  PROVE  /\ Shape /\ Top \in Nat /\ Top >= 2 /\ Top \in Inner /\ Top \in 1 .. Top
         /\ Current = Function(Top) /\ Current \in Bodies /\ Current \in Functions
         /\ Len(Chain(Current)) = Top - 1
         /\ \A k \in 1 .. Top - 1 : Chain(Current)[k] = Function(k + 1)
<1>1. Shape /\ Top \in Nat /\ Top >= 2 /\ Top \in Inner
  BY DEF ScopesInv, Shape, IsSeq, Nested, Top, Inner
<1>2. Current = Function(Top)
  BY DEF Current, Function
<1>3. QED
  BY <1>1, <1>2 DEF ScopesInv, Nested, Bodies

LEMMA ShapeKept ==
  ASSUME Shape, NEW x, NEW e, Writes(scopeStack', x, e), NEW D, NEW F, OnlyIn(D, F),
         status' \in {"run", "done", "error", "undefined"},
         \A i \in 1 .. Top : IsSeq(scopeStack'[i].labelNames),
         \A c \in Functions : IsSeq(Chain(c)') /\ IsSeq(defs'[c].provides)
  PROVE  Shape'
<1>1. IsSeq(scopeStack') /\ Top' = Top /\ IsSeq(defs') /\ Functions' = Functions
  BY DEF Writes, OnlyIn, Top, Functions
<1>2. \A i \in 1 .. Top : DOMAIN scopeStack'[i] = DOMAIN scopeStack[i]
  BY DEF Writes
<1>3. QED
  BY <1>1, <1>2 DEF Shape, OnlyIn, Chain

LEMMA EntryShapes ==
  ASSUME ScopesInv, NEW x, NEW e, Writes(scopeStack', x, e), EntryShape(e)
  PROVE  \A i \in 1 .. Top : \A n \in DOMAIN Entries(i)' : EntryShape(Entries(i)'[n])
BY DEF ScopesInv, Names, Writes, Entries, EntryShape

LEMMA DeclareVariableInv ==
  ASSUME ScopesInv, NEW x, NEW t, DeclareVariable(x, t)
  PROVE  ScopesInv'
<1>1. CASE x \in DOMAIN Entries(Top) \/ ~VariableTypeOK(t)
  BY <1>1, RefusesKeeps DEF DeclareVariable, Report, Refuses
<1>2. CASE x \notin DOMAIN Entries(Top) /\ VariableTypeOK(t)
  <2> DEFINE e == VariableEntry(t)
             v == defs[Current].locals \cup {x}
  <2>1. /\ scopeStack' = AddEntry(x, e) /\ defs' = [defs EXCEPT ![Current].locals = @ \cup {x}]
        /\ status' = status /\ status = "run"
    BY <1>2 DEF DeclareVariable, Declaring
  <2>2. /\ Shape /\ Top \in Nat /\ Top >= 2 /\ Top \in Inner /\ Top \in 1 .. Top
        /\ Current = Function(Top) /\ Current \in Functions
    BY <2>1, TopRuns
  <2>3. e.entryType = "variable" /\ EntryShape(e)
    BY DEF VariableEntry, EntryShape
  <2> HIDE DEF e
  <2>4. Writes(scopeStack', x, e) /\ SameLabelNames(scopeStack')
    BY <1>2, <2>1, <2>2, AddEntryWrites
  <2>5. OnlyIn({Current}, {"locals"}) /\ defs'[Current]["locals"] = v
    <3>1. "locals" \in DefFields /\ defs' = Redefined(Current, "locals", v)
      BY <2>1 DEF DefFields, Redefined
    <3>2. QED
      BY <2>2, <3>1, DefWritten
  <2>6. /\ Top' = Top /\ \A i \in 1 .. Top : Function(i)' = Function(i)
        /\ \A i \in 1 .. Top : scopeStack'[i].labelNames = scopeStack[i].labelNames
    BY <2>4 DEF Writes, Top, Function, SameLabelNames
  <2>7. SameFrame
    BY <2>5, <2>6, OnlyInFrame
  <2>8. /\ \A c \in Functions : \A f \in DefFields \ {"locals"} : defs'[c][f] = defs[c][f]
        /\ \A c \in Functions : defs'[c].locals = IF c = Current THEN v ELSE defs[c].locals
        /\ Functions' = Functions
    BY <2>5 DEF OnlyIn, DefFields, Functions
  <2>9. /\ \A c \in Functions :
             /\ Chain(c)' = Chain(c) /\ defs'[c].provides = defs[c].provides
             /\ defs'[c].calls = defs[c].calls /\ defs'[c].refs = defs[c].refs
             /\ defs'[c].requests = defs[c].requests
             /\ defs'[c].gotos = defs[c].gotos /\ defs'[c].bound = defs[c].bound
             /\ defs[c].locals \subseteq defs'[c].locals
        /\ x \in defs'[Current].locals
    BY <2>2, <2>8 DEF DefFields, Chain
  <2>10. SameNamed
    BY <1>2, <2>2, <2>3, <2>4, WritesNamed DEF Named
  <2>11. Shape'
    <3>1. /\ \A i \in 1 .. Top : IsSeq(scopeStack'[i].labelNames)
          /\ \A c \in Functions : IsSeq(Chain(c)') /\ IsSeq(defs'[c].provides)
      BY <2>2, <2>6, <2>9 DEF Shape
    <3>2. QED
      BY <2>1, <2>2, <2>4, <2>5, <3>1, ShapeKept
  <2>12. Nested' /\ Chains' /\ Creators'
    BY <2>1, <2>7, FrameKept
  <2>13. Names'
    <3>1. DOMAIN Entries(1)' = DOMAIN Entries(1)
      <4>1. 1 \in 1 .. Top /\ 1 # Top
        BY <2>2
      <4>2. QED
        BY <2>4, <4>1 DEF Writes, Entries
    <3>2. QED
      BY <2>1, <2>3, <2>4, <2>7, <2>10, <3>1, NamesKept, EntryShapes
  <2>14. CallsOK'
    BY <2>1, <2>7, <2>9, <2>10, CallsKept
  <2>15. Grown
    <3>1. \A c \in Functions : Len(defs[c].provides) \in Nat
      BY <2>2 DEF Shape, IsSeq
    <3>2. QED
      BY <2>9, <3>1 DEF Grown
  <2>16. VariablesOK'
    <3>1. ASSUME NEW i \in Inner, NEW n \in DOMAIN Entries(i)',
                 Entries(i)'[n].entryType = "variable"
          PROVE  \/ n \in DOMAIN Entries(i) /\ Entries(i)[n].entryType = "variable"
                 \/ n \in defs'[Function(i)].locals
      BY <2>2, <2>4, <2>9, <3>1 DEF Writes, Entries, Inner
    <3>2. \A c \in Functions :
            /\ defs'[c].refs = defs[c].refs
            /\ \A k \in 1 .. Len(defs'[c].provides) : defs'[c].provides[k] \in defs'[c].locals
      BY <2>9 DEF ScopesInv, VariablesOK
    <3>3. QED
      BY <2>1, <2>7, <2>15, <3>1, <3>2, VariablesKept
  <2>17. RequestsMatchProvides'
    <3>1. ASSUME NEW c \in Functions, NEW n \in DOMAIN defs[c].requests
          PROVE  RequestOK(c, n)'
      BY <2>2, <2>8, <2>9, <2>15, RequestsKept DEF Shape
    <3>2. QED
      BY <2>8, <2>9, <3>1, ZenonT(40) DEF RequestsMatchProvides, RequestOK
  <2>18. LabelsOK' /\ GotoReachesLabel'
    <3>1. ASSUME NEW i \in Inner, NEW l
          PROVE  /\ IsLabelIn(i, l)' <=> IsLabelIn(i, l)
                 /\ IsLabelIn(i, l) => Entries(i)'[l] = Entries(i)[l]
      BY <1>2, <2>3, <2>4 DEF Writes, IsLabelIn, Entries, Inner
    <3>2. SameLabels
      BY <2>6, <2>9, <3>1 DEF SameLabels, Inner
    <3>3. QED
      BY <2>1, <2>7, <3>2, LabelsKept
  <2>19. QED
    BY <2>11, <2>12, <2>13, <2>14, <2>16, <2>17, <2>18 DEF ScopesInv
<1>3. QED
  BY <1>1, <1>2

(* A label is entered, carried by a statement or named by a goto.          *)
LEMMA LabelStep ==
  ASSUME ScopesInv, status = "run", status' = status, NEW l, NEW e,
         Writes(scopeStack', l, e), EntryShape(e), e.entryType = "label",
         l \notin DOMAIN Entries(Top) \/ IsLabelIn(Top, l),
         OnlyIn({Current}, {"bound", "gotos"}),
         \A i \in 1 .. Top : IsSeq(scopeStack'[i].labelNames)
  PROVE  /\ SameFrame /\ Shape' /\ Nested' /\ Chains' /\ Creators' /\ Names' /\ CallsOK'
         /\ VariablesOK' /\ RequestsMatchProvides'
<1>1. /\ Shape /\ Top \in Nat /\ Top >= 2 /\ Top \in Inner /\ Top \in 1 .. Top
      /\ Current = Function(Top) /\ Current \in Functions
  BY TopRuns
<1>2. ~Named(Top, l)
  BY DEF Named, IsLabelIn
<1>3. Top' = Top /\ \A i \in 1 .. Top : Function(i)' = Function(i)
  BY DEF Writes, Top, Function
<1>4. SameFrame
  BY <1>3, OnlyInFrame
<1>5. /\ \A c \in Functions : \A f \in DefFields \ {"bound", "gotos"} : defs'[c][f] = defs[c][f]
      /\ Functions' = Functions
  BY DEF OnlyIn, Functions
<1>6. \A c \in Functions :
        /\ Chain(c)' = Chain(c) /\ defs'[c].provides = defs[c].provides
        /\ defs'[c].calls = defs[c].calls /\ defs'[c].refs = defs[c].refs
        /\ defs'[c].requests = defs[c].requests /\ defs'[c].locals = defs[c].locals
  BY <1>5 DEF DefFields, Chain
<1>7. SameNamed
  BY <1>1, <1>2, WritesNamed
<1>8. Shape'
  <2>1. \A c \in Functions : IsSeq(Chain(c)') /\ IsSeq(defs'[c].provides)
    BY <1>1, <1>6 DEF Shape
  <2>2. QED
    BY <1>1, <2>1, ShapeKept
<1>9. Nested' /\ Chains' /\ Creators'
  BY <1>4, FrameKept
<1>10. Names'
  <2>1. DOMAIN Entries(1)' = DOMAIN Entries(1)
    <3>1. 1 \in 1 .. Top /\ 1 # Top
      BY <1>1
    <3>2. QED
      BY <3>1 DEF Writes, Entries
  <2>2. QED
    BY <1>4, <1>7, <2>1, NamesKept, EntryShapes
<1>11. CallsOK'
  BY <1>4, <1>6, <1>7, CallsKept
<1>12. Grown
  <2>1. \A c \in Functions : Len(defs[c].provides) \in Nat
    BY <1>1 DEF Shape, IsSeq
  <2>2. QED
    BY <1>6, <2>1 DEF Grown
<1>13. VariablesOK'
  <2>1. ASSUME NEW i \in Inner, NEW n \in DOMAIN Entries(i)',
               Entries(i)'[n].entryType = "variable"
        PROVE  n \in DOMAIN Entries(i) /\ Entries(i)[n].entryType = "variable"
    BY <1>1, <2>1 DEF Writes, Entries, Inner
  <2>2. \A c \in Functions :
          /\ defs'[c].refs = defs[c].refs
          /\ \A k \in 1 .. Len(defs'[c].provides) : defs'[c].provides[k] \in defs'[c].locals
    BY <1>6, Zenon DEF ScopesInv, VariablesOK
  <2>3. QED
    BY <1>4, <1>12, <2>1, <2>2, VariablesKept
<1>14. RequestsMatchProvides'
  <2>1. ASSUME NEW c \in Functions, NEW n \in DOMAIN defs[c].requests
        PROVE  RequestOK(c, n)'
    BY <1>1, <1>5, <1>6, <1>12, RequestsKept DEF Shape
  <2>2. QED
    BY <1>5, <1>6, <2>1, Zenon DEF RequestsMatchProvides, RequestOK
<1>15. QED
  BY <1>4, <1>8, <1>9, <1>10, <1>11, <1>13, <1>14

(* The scopes keep their tables.                                           *)
SameTables ==
  /\ IsSeq(scopeStack') /\ Top' = Top
  /\ \A i \in 1 .. Top :
       /\ DOMAIN scopeStack'[i] = DOMAIN scopeStack[i]
       /\ scopeStack'[i].function = scopeStack[i].function
       /\ scopeStack'[i].levelEntries = scopeStack[i].levelEntries
       /\ scopeStack'[i].labelNames = scopeStack[i].labelNames

LEMMA TablesKept ==
  ASSUME ScopesInv, status = "run", status' = status, SameTables, NEW D, NEW F, OnlyIn(D, F),
         {"chain", "isForward", "creator", "level", "gotos", "bound"} \cap F = {},
         \A c \in Functions : IsSeq(defs'[c].provides)
  PROVE  /\ SameFrame /\ SameNamed
         /\ Shape' /\ Nested' /\ Chains' /\ Creators' /\ Names' /\ LabelsOK' /\ GotoReachesLabel'
<1>1. /\ Shape /\ Top \in Nat /\ Top >= 2 /\ Top \in Inner /\ Top \in 1 .. Top
      /\ Current = Function(Top) /\ Current \in Functions
  BY TopRuns
<1>2. Top' = Top /\ \A i \in 1 .. Top : Function(i)' = Function(i) /\ Entries(i)' = Entries(i)
  BY DEF SameTables, Function, Entries
<1>3. SameFrame
  BY <1>2, OnlyInFrame
<1>4. SameNamed
  BY <1>2 DEF SameNamed, Named
<1>5. Functions' = Functions /\ \A c \in Functions :
        /\ DOMAIN defs'[c] = DefFields
        /\ Chain(c)' = Chain(c) /\ defs'[c].gotos = defs[c].gotos /\ defs'[c].bound = defs[c].bound
  BY DEF OnlyIn, DefFields, Chain, Functions
<1>6. Shape'
  <2>1. \A i \in 1 .. Top :
          DOMAIN scopeStack'[i] = {"function", "levelEntries", "labelNames", "body"}
            /\ IsSeq(scopeStack'[i].labelNames)
    BY <1>1 DEF Shape, SameTables
  <2>2. /\ \A c \in Functions : IsSeq(Chain(c)')
        /\ status' \in {"run", "done", "error", "undefined"}
        /\ IsSeq(scopeStack') /\ IsSeq(defs')
    BY <1>1, <1>5 DEF Shape, SameTables, OnlyIn
  <2>3. QED
    BY <1>2, <1>5, <2>1, <2>2 DEF Shape, Chain
<1>7. Nested' /\ Chains' /\ Creators'
  BY <1>3, FrameKept
<1>8. Names'
  <2>1. \A i \in 1 .. Top : \A x \in DOMAIN Entries(i)' : EntryShape(Entries(i)'[x])
    BY <1>2 DEF ScopesInv, Names
  <2>2. DOMAIN Entries(1)' = DOMAIN Entries(1)
    BY <1>1, <1>2
  <2>3. QED
    BY <1>3, <1>4, <2>1, <2>2, NamesKept
<1>9. LabelsOK' /\ GotoReachesLabel'
  <2>1. SameLabels
    BY <1>2, <1>5 DEF SameLabels, SameTables, IsLabelIn, Inner
  <2>2. QED
    BY <1>3, <2>1, LabelsKept
<1>10. QED
  BY <1>3, <1>4, <1>6, <1>7, <1>8, <1>9

LEMMA SameDefs ==
  ASSUME Shape, defs' = defs, NEW D, NEW F
  PROVE  OnlyIn(D, F)
BY DEF Shape, OnlyIn

(* A step that writes no names, variables or requests. *)
LEMMA TablesStep ==
  ASSUME ScopesInv, status = "run", status' = status, SameTables,
         NEW D, NEW F, OnlyIn(D, F), F \subseteq {"calls"}, CallsOK'
  PROVE  ScopesInv'
<1>1. Shape /\ Functions' = Functions
  BY DEF ScopesInv, OnlyIn, Functions
<1>2. \A c \in Functions :
        /\ Chain(c)' = Chain(c) /\ defs'[c].provides = defs[c].provides
        /\ defs'[c].refs = defs[c].refs
        /\ defs'[c].requests = defs[c].requests /\ defs'[c].locals = defs[c].locals
  BY DEF OnlyIn, DefFields, Chain
<1>3. \A c \in Functions : IsSeq(defs'[c].provides)
  BY <1>1, <1>2 DEF Shape
<1>4. /\ SameFrame /\ SameNamed
      /\ Shape' /\ Nested' /\ Chains' /\ Creators' /\ Names' /\ LabelsOK' /\ GotoReachesLabel'
  BY <1>3, TablesKept
<1>5. Grown
  <2>1. \A c \in Functions : Len(defs[c].provides) \in Nat
    BY <1>1 DEF Shape, IsSeq
  <2>2. QED
    BY <1>2, <2>1 DEF Grown
<1>6. VariablesOK'
  <2>1. \A i \in Inner : Entries(i)' = Entries(i)
    BY DEF SameTables, Entries, Inner
  <2>2. \A c \in Functions :
          /\ defs'[c].refs = defs[c].refs
          /\ \A k \in 1 .. Len(defs'[c].provides) : defs'[c].provides[k] \in defs'[c].locals
    BY <1>2, Zenon DEF ScopesInv, VariablesOK
  <2>3. QED
    BY <1>4, <1>5, <2>1, <2>2, VariablesKept
<1>7. RequestsMatchProvides'
  <2>1. ASSUME NEW c \in Functions, NEW n \in DOMAIN defs[c].requests
        PROVE  RequestOK(c, n)'
    BY <1>1, <1>2, <1>3, <1>5, RequestsKept DEF Shape
  <2>2. QED
    BY <1>1, <1>2, <2>1, Zenon DEF RequestsMatchProvides, RequestOK
<1>8. QED
  BY <1>4, <1>6, <1>7 DEF ScopesInv

LEMMA BeginBodyInv ==
  ASSUME ScopesInv, BeginBody
  PROVE  ScopesInv'
<1>1. /\ scopeStack' = [scopeStack EXCEPT ![Top].body = TRUE] /\ defs' = defs
      /\ status = "run" /\ status' = status
  BY DEF BeginBody, Declaring
<1>2. Shape /\ Top \in 1 .. Top
  BY <1>1, TopRuns
<1>3. SameTables
  <2> DEFINE new == [scopeStack[Top] EXCEPT !.body = TRUE]
  <2>1. scopeStack' = Updated(scopeStack, Top, new)
    BY <1>1 DEF Updated
  <2>2. /\ DOMAIN new = DOMAIN scopeStack[Top] /\ new.function = scopeStack[Top].function
        /\ new.levelEntries = scopeStack[Top].levelEntries
        /\ new.labelNames = scopeStack[Top].labelNames
    BY <1>2 DEF Shape
  <2> HIDE DEF new
  <2>3. IsSeq(scopeStack) /\ Top \in 1 .. Len(scopeStack) /\ Top = Len(scopeStack)
    BY <1>2 DEF Shape, Top
  <2>4. /\ IsSeq(scopeStack') /\ Len(scopeStack') = Len(scopeStack)
        /\ \A i \in 1 .. Len(scopeStack) : scopeStack'[i] = IF i = Top THEN new ELSE scopeStack[i]
    BY <2>1, <2>3, UpdateSeq
  <2>5. QED
    BY <2>2, <2>3, <2>4 DEF SameTables, Top
<1>4. OnlyIn({}, {}) /\ {} \subseteq {"calls"}
  BY <1>1, <1>2, SameDefs
<1>5. CallsOK'
  <2>1. SameFrame /\ SameNamed
    <3>1. \A c \in Functions : IsSeq(defs'[c].provides)
      BY <1>1, <1>2 DEF Shape
    <3>2. QED
      BY <1>1, <1>3, <1>4, <3>1, TablesKept
  <2>2. QED
    BY <1>1, <2>1, CallsKept
<1>6. QED
  BY <1>1, <1>3, <1>4, <1>5, TablesStep

LEMMA UseResultInv ==
  ASSUME ScopesInv, UseResult
  PROVE  ScopesInv'
<1>1. CASE "result" \notin DOMAIN Entries(Top)
  BY <1>1, RefusesKeeps DEF UseResult, Report, Refuses
<1>2. CASE "result" \in DOMAIN Entries(Top)
  <2>1. /\ scopeStack' = scopeStack /\ defs' = defs /\ status' = status /\ status = "run"
    BY <1>2 DEF UseResult, vars, InBody
  <2>2. Shape
    BY DEF ScopesInv
  <2>3. SameTables
    BY <2>1, <2>2 DEF SameTables, Top, Shape
  <2>4. OnlyIn({}, {}) /\ {} \subseteq {"calls"}
    BY <2>1, <2>2, SameDefs
  <2>5. CallsOK'
    <3>1. SameFrame /\ SameNamed
      <4>1. \A c \in Functions : IsSeq(defs'[c].provides)
        BY <2>1, <2>2 DEF Shape
      <4>2. QED
        BY <2>1, <2>3, <2>4, <4>1, TablesKept
    <3>2. QED
      BY <2>1, <3>1, CallsKept
  <2>6. QED
    BY <2>1, <2>3, <2>4, <2>5, TablesStep
<1>3. QED
  BY <1>1, <1>2

(* The innermost entry of a name. *)
LEMMA DenotedIs ==
  ASSUME Top \in Nat, NEW f, ScopesNaming(f) # {}
  PROVE  \E i \in 1 .. Top :
           /\ i = Max(ScopesNaming(f)) /\ f \in DOMAIN Entries(i) /\ Denoted(f) = Entries(i)[f]
           /\ \A j \in 1 .. Top : f \in DOMAIN Entries(j) => j <= i
<1>1. ScopesNaming(f) \in SUBSET (1 .. Top)
  BY DEF ScopesNaming
<1>2. /\ Max(ScopesNaming(f)) \in ScopesNaming(f)
      /\ \A j \in ScopesNaming(f) : j <= Max(ScopesNaming(f))
  BY <1>1, MaxIs
<1>3. QED
  BY <1>2 DEF Denoted, ScopesNaming

(* Whatever function a name denotes is visible from the body it is used in. *)
LEMMA CalleeVisible ==
  ASSUME ScopesInv, status = "run", NEW i \in Inner, NEW f, Named(i, f),
         NEW g, g = Entries(i)[f].function
  PROVE  /\ g \in Functions \ {1} /\ defs[g].creator = g /\ Current \in Bodies
         /\ Len(Chain(g)) > 0 => Sees(Current, g)
         /\ \A j \in Inner : \A n :
              Waiting(j, n) /\ Entries(j)[n].function = g => Inside(Current, j)
<1>1. /\ Top \in Nat /\ Current \in Bodies /\ Len(Chain(Current)) = Top - 1
      /\ \A k \in 1 .. Top - 1 : Chain(Current)[k] = Function(k + 1)
      /\ i \in 2 .. Top
  BY TopRuns DEF Inner
<1>2. /\ g \in Functions \ {1} /\ defs[g].creator = g
      /\ Waiting(i, f) => Len(Chain(g)) = 0
      /\ ~Waiting(i, f) =>
           Len(Chain(g)) = i /\ \A k \in 1 .. i - 1 : Chain(g)[k] = Function(k + 1)
  BY DEF ScopesInv, Names, NamedOK
<1>3. ASSUME Len(Chain(g)) > 0 PROVE Sees(Current, g)
  <2>1. Len(Chain(g)) = i /\ \A k \in 1 .. i - 1 : Chain(g)[k] = Function(k + 1)
    BY <1>2, <1>3
  <2>2. \A k \in 1 .. i - 1 : Chain(g)[k] = Chain(Current)[k]
    BY <1>1, <2>1
  <2>3. Len(Chain(g)) - 1 = i - 1 /\ i - 1 <= Len(Chain(Current))
    BY <1>1, <2>1
  <2>4. QED
    BY <2>2, <2>3 DEF Sees
<1>4. ASSUME NEW j \in Inner, NEW n, Waiting(j, n), Entries(j)[n].function = g
      PROVE  Inside(Current, j)
  BY <1>1, <1>4 DEF Inside, Inner
<1>5. QED
  BY <1>1, <1>2, <1>3, <1>4

LEMMA CallInv ==
  ASSUME ScopesInv, NEW f, NEW args, Call(f, args)
  PROVE  ScopesInv'
<1> DEFINE refused == \/ ScopesNaming(f) = {} \/ Denoted(f).entryType # "function"
                      \/ Len(args) # Len(Parameters(Denoted(f).header))
<1>1. CASE refused
  BY <1>1, RefusesKeeps DEF Call, Report, Refuses
<1>2. CASE ~refused
  <2> DEFINE g == Denoted(f).function
  <2>1. /\ scopeStack' = scopeStack /\ status' = status /\ status = "run"
        /\ defs' = IF g = NoFunction THEN defs ELSE [defs EXCEPT ![Current].calls = @ \cup {g}]
    BY <1>2 DEF Call, InBody
  <2>2. ScopesNaming(f) # {} /\ Denoted(f).entryType = "function"
    BY <1>2
  <2> HIDE DEF refused
  <2>3. Shape /\ Current \in Functions /\ Top \in Nat
    BY <2>1, TopRuns
  <2>4. SameTables
    BY <2>1, <2>3 DEF SameTables, Top, Shape
  <2>5. OnlyIn({Current}, {"calls"})
          /\ \A d \in Functions : \A h \in defs'[d].calls \ defs[d].calls :
               d = Current /\ h = g /\ g # NoFunction
    <3>1. CASE g = NoFunction
      BY <2>1, <2>3, <3>1, SameDefs
    <3>2. CASE g # NoFunction
      <4> DEFINE v == defs[Current].calls \cup {g}
      <4>1. "calls" \in DefFields /\ defs' = Redefined(Current, "calls", v)
        BY <2>1, <3>2 DEF DefFields, Redefined
      <4>2. OnlyIn({Current}, {"calls"}) /\ defs'[Current]["calls"] = v
        BY <2>3, <4>1, DefWritten
      <4>3. \A d \in Functions \ {Current} : defs'[d]["calls"] = defs[d]["calls"]
        BY <4>1, <4>2 DEF OnlyIn
      <4>4. QED
        BY <3>2, <4>2, <4>3
    <3>3. QED
      BY <3>1, <3>2
  <2> HIDE DEF g
  <2>6. SameFrame /\ SameNamed
    <3>1. \A c \in Functions : IsSeq(defs'[c].provides)
      BY <2>3, <2>5 DEF Shape, OnlyIn, DefFields
    <3>2. QED
      BY <2>1, <2>4, <2>5, <3>1, TablesKept
  <2>7. ASSUME g # NoFunction
        PROVE  /\ g \in Functions \ {1} /\ defs[g].creator = g /\ Current \in Bodies
               /\ Len(Chain(g)) > 0 => Sees(Current, g)
               /\ \A j \in Inner : \A n :
                    Waiting(j, n) /\ Entries(j)[n].function = g => Inside(Current, j)
    <3>1. PICK i \in 1 .. Top : f \in DOMAIN Entries(i) /\ Denoted(f) = Entries(i)[f]
      BY <2>2, <2>3, DenotedIs
    <3>2. Named(i, f) /\ g = Entries(i)[f].function
      BY <2>2, <3>1 DEF Named, g
    <3>3. i # 1
      BY <2>7, <2>3, <3>1, <3>2 DEF ScopesInv, Names
    <3>4. i \in Inner
      BY <2>3, <3>3 DEF Inner
    <3>5. QED
      BY <2>1, <3>2, <3>4, CalleeVisible
  <2>8. CallsOK'
    <3>1. \A d \in Functions : \A h \in defs'[d].calls \ defs[d].calls :
            /\ h \in Functions \ {1} /\ defs[h].creator = h /\ d \in Bodies
            /\ Len(Chain(h)) > 0 => Sees(d, h)
            /\ \A j \in Inner : \A n :
                 Waiting(j, n) /\ Entries(j)[n].function = h => Inside(d, j)
      BY <2>5, <2>7
    <3>2. QED
      BY <2>1, <2>6, <3>1, CallsKept
  <2>9. QED
    BY <2>1, <2>4, <2>5, <2>8, TablesStep
<1>3. QED
  BY <1>1, <1>2

Among(m, s) == \E k \in 1 .. Len(s) : s[k] = m

LEMMA LabelWritten ==
  ASSUME ScopesInv, status = "run", status' = status, NEW l, NEW e,
         Writes(scopeStack', l, e), e.entryType = "label",
         l \notin DOMAIN Entries(Top) \/ IsLabelIn(Top, l),
         OnlyIn({Current}, {"bound", "gotos"}), SameFrame,
         \A i \in 1 .. Top - 1 : scopeStack'[i].labelNames = scopeStack[i].labelNames,
         \A m : m = l \/ (\E k \in 1 .. Len(scopeStack[Top].labelNames) :
                            scopeStack[Top].labelNames[k] = m)
                <=> \E k \in 1 .. Len(scopeStack'[Top].labelNames) :
                      scopeStack'[Top].labelNames[k] = m,
         defs[Current].bound \subseteq defs'[Current].bound,
         e.isBound => l \in defs'[Current].bound,
         defs'[Current].gotos \subseteq defs[Current].gotos \cup {l},
         l \in defs'[Current].gotos => e.isTargeted
  PROVE  LabelsOK' /\ GotoReachesLabel'
<1> PICK t, old, added : /\ t = Top /\ old = scopeStack[Top].labelNames
                         /\ added = scopeStack'[Top].labelNames
  OBVIOUS
<1>0. \A m : (m = l \/ Among(m, old)) <=> Among(m, added)
  BY DEF Among
<1>1. /\ t = Top /\ Top' = t /\ Inner' = Inner /\ Functions' = Functions /\ Open' = Open
      /\ t \in Nat /\ t >= 2 /\ t \in Inner
      /\ Current = Function(t) /\ Current \in Functions /\ \A i \in Inner : i \in 1 .. t
      /\ \A i \in Inner : Function(i) \in Functions /\ Function(i)' = Function(i)
  <2>1. Inner' = Inner /\ Functions' = Functions /\ Open' = Open
    BY FrameKept
  <2>2. /\ t \in Nat /\ t >= 2 /\ t \in Inner
        /\ Current = Function(t) /\ Current \in Functions
    BY TopRuns
  <2>3. Top' = t /\ \A i \in Inner : i \in 1 .. t
    BY <2>2 DEF SameFrame, Inner
  <2>4. \A i \in Inner : Function(i) \in Functions /\ Function(i)' = Function(i)
    BY <2>3 DEF SameFrame, ScopesInv, Nested, Bodies
  <2>5. QED
    BY <2>1, <2>2, <2>3, <2>4
<1>2. ASSUME NEW i \in Inner, i # t PROVE Function(i) # Current
  <2>1. Len(Chain(Function(i))) = i - 1 /\ Len(Chain(Function(t))) = t - 1
    BY <1>1 DEF ScopesInv, Nested
  <2>2. i \in Nat /\ t \in Nat /\ i - 1 # t - 1
    BY <1>1, <1>2
  <2>3. QED
    BY <1>1, <2>1, <2>2
<1>3. \A d \in Functions : d # Current => defs'[d].gotos = defs[d].gotos /\ defs'[d].bound = defs[d].bound
  BY DEF OnlyIn, DefFields
<1>4. /\ \A i \in Inner : \A m : (i # t \/ m # l) =>
           /\ IsLabelIn(i, m)' <=> IsLabelIn(i, m)
           /\ IsLabelIn(i, m) => Entries(i)'[m] = Entries(i)[m]
      /\ IsLabelIn(t, l)' /\ Entries(t)'[l] = e
  <2> DEFINE new(i) == scopeStack'[i].levelEntries
  <2>1. \A i \in Inner :
          /\ DOMAIN new(i) = DOMAIN Entries(i) \cup (IF i = t THEN {l} ELSE {})
          /\ \A m \in DOMAIN new(i) : new(i)[m] = IF i = t /\ m = l THEN e ELSE Entries(i)[m]
    BY <1>1 DEF Writes
  <2>2. \A i \in Inner : \A m : (i # t \/ m # l) =>
          /\ (m \in DOMAIN new(i) /\ new(i)[m].entryType = "label") <=> IsLabelIn(i, m)
          /\ IsLabelIn(i, m) => new(i)[m] = Entries(i)[m]
    BY <2>1 DEF IsLabelIn
  <2>3. l \in DOMAIN new(t) /\ new(t)[l] = e
    <3>1. /\ DOMAIN new(t) = DOMAIN Entries(t) \cup {l}
          /\ \A m \in DOMAIN new(t) : new(t)[m] = IF m = l THEN e ELSE Entries(t)[m]
      <4>1. t \in 1 .. Top /\ t = Top
        BY <1>1
      <4>2. QED
        BY <4>1 DEF Writes
    <3> HIDE DEF new
    <3>2. QED
      BY <3>1
  <2>4. QED
    BY <2>2, <2>3 DEF IsLabelIn, Entries
<1>5. GotoReachesLabel'
  <2>1. Current \in Open
    BY <1>1 DEF Open, Inner, Function
  <2>2. QED
    BY <1>1, <1>3, <2>1 DEF ScopesInv, GotoReachesLabel
<1>6. ASSUME NEW i \in Inner
      PROVE  (/\ \A k \in 1 .. Len(scopeStack[i].labelNames) : IsLabelIn(i, scopeStack[i].labelNames[k])
              /\ \A m : IsLabelIn(i, m) =>
                   /\ \E k \in 1 .. Len(scopeStack[i].labelNames) : scopeStack[i].labelNames[k] = m
                   /\ Entries(i)[m].isBound => m \in defs[Function(i)].bound
              /\ \A m \in defs[Function(i)].gotos : IsLabelIn(i, m) /\ Entries(i)[m].isTargeted)'
  <2> PICK f, ns, new : /\ f = Function(i) /\ ns = scopeStack[i].labelNames
                        /\ new = scopeStack'[i].labelNames
    OBVIOUS
  <2>1. /\ \A k \in 1 .. Len(ns) : IsLabelIn(i, ns[k])
        /\ \A m : IsLabelIn(i, m) =>
             (\E k \in 1 .. Len(ns) : ns[k] = m) /\ (Entries(i)[m].isBound => m \in defs[f].bound)
        /\ \A m \in defs[f].gotos : IsLabelIn(i, m) /\ Entries(i)[m].isTargeted
    BY DEF ScopesInv, LabelsOK
  <2>2. Function(i)' = f /\ f \in Functions
    BY <1>1
  <2>3. /\ \A k \in 1 .. Len(new) : IsLabelIn(i, new[k])'
        /\ \A m : IsLabelIn(i, m)' =>
             (\E k \in 1 .. Len(new) : new[k] = m) /\ (Entries(i)'[m].isBound => m \in defs'[f].bound)
        /\ \A m \in defs'[f].gotos : IsLabelIn(i, m)' /\ Entries(i)'[m].isTargeted
    <3>1. CASE i # t
      <4>1. new = ns
        BY <1>1, <3>1
      <4>2. f # Current
        BY <1>2, <3>1
      <4>3. defs'[f].gotos = defs[f].gotos /\ defs'[f].bound = defs[f].bound
        BY <1>3, <2>2, <4>2
      <4>4. QED
        BY <1>4, <2>1, <3>1, <4>1, <4>3
    <3>2. CASE i = t
      <4>1. f = Current
        BY <1>1, <3>2
      <4>2. \A m : (m = l \/ Among(m, ns)) <=> Among(m, new)
        <5>1. ns = old /\ new = added
          BY <3>2
        <5>2. QED
          BY <1>0, <5>1
      <4>3. ASSUME NEW k \in 1 .. Len(new) PROVE IsLabelIn(i, new[k])'
        <5> PICK m : m = new[k]
          OBVIOUS
        <5>1. m = l \/ Among(m, ns)
          BY <4>2 DEF Among
        <5>2. m = l \/ IsLabelIn(i, m)
          BY <2>1, <5>1, Zenon DEF Among
        <5>3. IsLabelIn(i, m)'
          BY <1>4, <3>2, <5>2
        <5>4. QED
          BY <5>3
      <4>4. ASSUME NEW m, IsLabelIn(i, m)'
            PROVE  /\ \E k \in 1 .. Len(new) : new[k] = m
                   /\ Entries(i)'[m].isBound => m \in defs'[f].bound
        <5>1. m = l \/ Among(m, ns)
          BY <1>4, <2>1, <3>2, <4>4 DEF Among
        <5>2. Entries(i)'[m].isBound => m \in defs'[f].bound
          BY <1>4, <2>1, <3>2, <4>1, <4>4
        <5>3. Among(m, new)
          BY <4>2, <5>1
        <5>4. QED
          BY <5>2, <5>3 DEF Among
      <4>5. ASSUME NEW m \in defs'[f].gotos
            PROVE  IsLabelIn(i, m)' /\ Entries(i)'[m].isTargeted
        BY <1>4, <2>1, <3>2, <4>1
      <4>6. QED
        BY <4>3, <4>4, <4>5
    <3>3. QED
      BY <3>1, <3>2
  <2>4. QED
    BY <2>2, <2>3 DEF IsLabelIn
<1>7. QED
  <2>1. (Top >= 1 => Len(scopeStack[1].labelNames) = 0)'
    <3>1. 1 \in 1 .. t - 1 /\ scopeStack'[1].labelNames = scopeStack[1].labelNames
      BY <1>1
    <3>2. QED
      BY <1>1, <3>1 DEF ScopesInv, LabelsOK
  <2>2. QED
    BY <1>1, <1>5, <1>6, <2>1 DEF LabelsOK

LEMMA DeclareLabelInv ==
  ASSUME ScopesInv, NEW l, DeclareLabel(l)
  PROVE  ScopesInv'
<1>1. CASE \E i \in 1 .. Top : l \in DOMAIN Entries(i)
  BY <1>1, RefusesKeeps DEF DeclareLabel, Report, Refuses
<1>2. CASE ~\E i \in 1 .. Top : l \in DOMAIN Entries(i)
  <2> DEFINE ss == AddEntry(l, LabelEntry)
             names == scopeStack[Top].labelNames
             new == [ss[Top] EXCEPT !.labelNames = Append(names, l)]
  <2>1. /\ scopeStack' = [AddEntry(l, LabelEntry) EXCEPT ![Top].labelNames = Append(@, l)]
        /\ defs' = defs /\ status' = status /\ status = "run"
    BY <1>2 DEF DeclareLabel, Declaring
  <2>2. /\ Shape /\ Top \in Nat /\ Top >= 2 /\ Top \in Inner /\ Top \in 1 .. Top
        /\ Current = Function(Top) /\ Current \in Functions
    BY <2>1, TopRuns
  <2>3. LabelEntry.entryType = "label" /\ ~LabelEntry.isBound /\ EntryShape(LabelEntry)
    BY DEF LabelEntry, EntryShape
  <2>4. l \notin DOMAIN Entries(Top)
    BY <1>2, <2>2
  <2>5. Writes(ss, l, LabelEntry) /\ SameLabelNames(ss)
    BY <2>2, <2>4, AddEntryWrites
  <2> HIDE DEF ss
  <2>6. IsSeq(ss) /\ Len(ss) = Top /\ ss[Top].labelNames = names
          /\ DOMAIN ss[Top] = {"function", "levelEntries", "labelNames", "body"}
    BY <2>2, <2>5 DEF Writes, SameLabelNames, Shape
  <2>7. scopeStack' = Updated(ss, Top, new)
    BY <2>1, <2>6 DEF Updated, ss
  <2>8. /\ DOMAIN new = DOMAIN ss[Top] /\ new.function = ss[Top].function
        /\ new.levelEntries = ss[Top].levelEntries /\ new.labelNames = Append(names, l)
    BY <2>6
  <2> HIDE DEF new
  <2>9. /\ IsSeq(scopeStack') /\ Len(scopeStack') = Top
        /\ \A i \in 1 .. Top : scopeStack'[i] = IF i = Top THEN new ELSE ss[i]
    BY <2>2, <2>6, <2>7, UpdateSeq
  <2>10. Writes(scopeStack', l, LabelEntry)
    BY <2>5, <2>8, <2>9 DEF Writes
  <2>11. OnlyIn({Current}, {"bound", "gotos"})
    BY <2>1, <2>2, SameDefs
  <2>12. /\ IsSeq(names) /\ IsSeq(Append(names, l)) /\ Len(Append(names, l)) = Len(names) + 1
         /\ \A k \in 1 .. Len(names) : Append(names, l)[k] = names[k]
         /\ Append(names, l)[Len(names) + 1] = l
         /\ Len(names) \in Nat
    BY <2>2, AppendSeq DEF Shape, IsSeq
  <2>13. \A i \in 1 .. Top : IsSeq(scopeStack'[i].labelNames)
    <3>1. \A i \in 1 .. Top : IsSeq(scopeStack[i].labelNames)
      BY <2>2 DEF Shape
    <3>2. QED
      BY <2>5, <2>8, <2>9, <2>12, <3>1 DEF SameLabelNames
  <2>14. /\ SameFrame /\ Shape' /\ Nested' /\ Chains' /\ Creators' /\ Names' /\ CallsOK'
         /\ VariablesOK' /\ RequestsMatchProvides'
    BY <2>1, <2>3, <2>4, <2>10, <2>11, <2>13, LabelStep
  <2>15. \A i \in 1 .. Top - 1 : scopeStack'[i].labelNames = scopeStack[i].labelNames
    BY <2>2, <2>5, <2>9 DEF SameLabelNames
  <2>16. \A m : m = l \/ (\E k \in 1 .. Len(names) : names[k] = m)
                <=> \E k \in 1 .. Len(scopeStack'[Top].labelNames) :
                      scopeStack'[Top].labelNames[k] = m
    <3> PICK added : added = Append(names, l)
      OBVIOUS
    <3>1. scopeStack'[Top].labelNames = added
      BY <2>2, <2>8, <2>9
    <3>2. /\ Len(added) = Len(names) + 1 /\ Len(names) \in Nat
          /\ \A k \in 1 .. Len(names) : added[k] = names[k]
          /\ added[Len(names) + 1] = l
      BY <2>12
    <3>3. \A m : m = l \/ (\E k \in 1 .. Len(names) : names[k] = m)
                 <=> \E k \in 1 .. Len(added) : added[k] = m
      BY <3>2
    <3>4. QED
      BY <3>1, <3>3
  <2>17. l \notin defs[Current].gotos
    BY <2>2, <2>4 DEF ScopesInv, LabelsOK, IsLabelIn
  <2>18. LabelsOK' /\ GotoReachesLabel'
    BY <2>1, <2>3, <2>4, <2>10, <2>11, <2>14, <2>15, <2>16, <2>17, LabelWritten
  <2>19. QED
    BY <2>14, <2>18 DEF ScopesInv
<1>3. QED
  BY <1>1, <1>2

LEMMA PlaceLabelInv ==
  ASSUME ScopesInv, NEW l, PlaceLabel(l)
  PROVE  ScopesInv'
<1>1. CASE ~IsLabel(l) \/ Entries(Top)[l].isBound
  BY <1>1, RefusesKeeps DEF PlaceLabel, Report, Refuses
<1>2. CASE IsLabel(l) /\ ~Entries(Top)[l].isBound
  <2> DEFINE e == [Entries(Top)[l] EXCEPT !.isBound = TRUE]
             v == defs[Current].bound \cup {l}
  <2>1. /\ scopeStack' = SetEntry(l, e) /\ defs' = [defs EXCEPT ![Current].bound = @ \cup {l}]
        /\ status' = status /\ status = "run"
    BY <1>2 DEF PlaceLabel, InBody
  <2>2. /\ Shape /\ Top \in Nat /\ Top >= 2 /\ Top \in Inner /\ Top \in 1 .. Top
        /\ Current = Function(Top) /\ Current \in Functions
    BY <2>1, TopRuns
  <2>3. l \in DOMAIN Entries(Top) /\ Entries(Top)[l].entryType = "label" /\ IsLabelIn(Top, l)
    BY <1>2 DEF IsLabel, IsLabelIn
  <2>4. EntryShape(Entries(Top)[l])
    BY <2>2, <2>3 DEF ScopesInv, Names
  <2>5. e.entryType = "label" /\ EntryShape(e) /\ e.isTargeted = Entries(Top)[l].isTargeted
    BY <2>3, <2>4 DEF EntryShape
  <2> HIDE DEF e
  <2>6. Writes(scopeStack', l, e) /\ SameLabelNames(scopeStack')
    BY <2>1, <2>2, SetEntryWrites
  <2>7. OnlyIn({Current}, {"bound"}) /\ defs'[Current]["bound"] = v
    <3>1. "bound" \in DefFields /\ defs' = Redefined(Current, "bound", v)
      BY <2>1 DEF DefFields, Redefined
    <3>2. QED
      BY <2>2, <3>1, DefWritten
  <2>8. OnlyIn({Current}, {"bound", "gotos"}) /\ defs'[Current].gotos = defs[Current].gotos
    BY <2>2, <2>7 DEF OnlyIn, DefFields
  <2>9. \A i \in 1 .. Top : scopeStack'[i].labelNames = scopeStack[i].labelNames
    BY <2>6 DEF SameLabelNames
  <2>10. /\ SameFrame /\ Shape' /\ Nested' /\ Chains' /\ Creators' /\ Names' /\ CallsOK'
         /\ VariablesOK' /\ RequestsMatchProvides'
    <3>1. \A i \in 1 .. Top : IsSeq(scopeStack'[i].labelNames)
      BY <2>2, <2>9 DEF Shape
    <3>2. QED
      BY <2>1, <2>3, <2>5, <2>6, <2>8, <3>1, LabelStep
  <2>11. LabelsOK' /\ GotoReachesLabel'
    <3> PICK names : names = scopeStack[Top].labelNames
      OBVIOUS
    <3>1. \A m : m = l \/ (\E k \in 1 .. Len(names) : names[k] = m)
                 <=> \E k \in 1 .. Len(names) : names[k] = m
      BY <2>2, <2>3 DEF ScopesInv, LabelsOK
    <3>2. scopeStack'[Top].labelNames = names /\ scopeStack[Top].labelNames = names
      BY <2>2, <2>9
    <3>3. l \in defs[Current].gotos => e.isTargeted
      BY <2>2, <2>5 DEF ScopesInv, LabelsOK
    <3>4. \A i \in 1 .. Top - 1 : scopeStack'[i].labelNames = scopeStack[i].labelNames
      BY <2>2, <2>9
    <3>5. /\ defs[Current].bound \subseteq defs'[Current].bound /\ l \in defs'[Current].bound
          /\ defs'[Current].gotos \subseteq defs[Current].gotos \cup {l}
          /\ l \in defs'[Current].gotos => e.isTargeted
      BY <2>7, <2>8, <3>3
    <3>6. \A m : m = l \/ (\E k \in 1 .. Len(scopeStack[Top].labelNames) :
                            scopeStack[Top].labelNames[k] = m)
                <=> \E k \in 1 .. Len(scopeStack'[Top].labelNames) :
                      scopeStack'[Top].labelNames[k] = m
      BY <3>1, <3>2
    <3>7. QED
      BY <2>1, <2>3, <2>5, <2>6, <2>8, <2>10, <3>4, <3>5, <3>6, LabelWritten
  <2>12. QED
    BY <2>10, <2>11 DEF ScopesInv
<1>3. QED
  BY <1>1, <1>2

LEMMA GotoInv ==
  ASSUME ScopesInv, NEW l, Goto(l)
  PROVE  ScopesInv'
<1>1. CASE ~IsLabel(l)
  BY <1>1, RefusesKeeps DEF Goto, Report, Refuses
<1>2. CASE IsLabel(l)
  <2> DEFINE e == [Entries(Top)[l] EXCEPT !.isTargeted = TRUE]
             v == defs[Current].gotos \cup {l}
  <2>1. /\ scopeStack' = SetEntry(l, e) /\ defs' = [defs EXCEPT ![Current].gotos = @ \cup {l}]
        /\ status' = status /\ status = "run"
    BY <1>2 DEF Goto, InBody
  <2>2. /\ Shape /\ Top \in Nat /\ Top >= 2 /\ Top \in Inner /\ Top \in 1 .. Top
        /\ Current = Function(Top) /\ Current \in Functions
    BY <2>1, TopRuns
  <2>3. l \in DOMAIN Entries(Top) /\ Entries(Top)[l].entryType = "label" /\ IsLabelIn(Top, l)
    BY <1>2 DEF IsLabel, IsLabelIn
  <2>4. EntryShape(Entries(Top)[l])
    BY <2>2, <2>3 DEF ScopesInv, Names
  <2>5. e.entryType = "label" /\ EntryShape(e) /\ e.isTargeted /\ e.isBound = Entries(Top)[l].isBound
    BY <2>3, <2>4 DEF EntryShape
  <2> HIDE DEF e
  <2>6. Writes(scopeStack', l, e) /\ SameLabelNames(scopeStack')
    BY <2>1, <2>2, SetEntryWrites
  <2>7. OnlyIn({Current}, {"gotos"}) /\ defs'[Current]["gotos"] = v
    <3>1. "gotos" \in DefFields /\ defs' = Redefined(Current, "gotos", v)
      BY <2>1 DEF DefFields, Redefined
    <3>2. QED
      BY <2>2, <3>1, DefWritten
  <2>8. OnlyIn({Current}, {"bound", "gotos"}) /\ defs'[Current].bound = defs[Current].bound
    BY <2>2, <2>7 DEF OnlyIn, DefFields
  <2>9. \A i \in 1 .. Top : scopeStack'[i].labelNames = scopeStack[i].labelNames
    BY <2>6 DEF SameLabelNames
  <2>10. /\ SameFrame /\ Shape' /\ Nested' /\ Chains' /\ Creators' /\ Names' /\ CallsOK'
         /\ VariablesOK' /\ RequestsMatchProvides'
    <3>1. \A i \in 1 .. Top : IsSeq(scopeStack'[i].labelNames)
      BY <2>2, <2>9 DEF Shape
    <3>2. QED
      BY <2>1, <2>3, <2>5, <2>6, <2>8, <3>1, LabelStep
  <2>11. LabelsOK' /\ GotoReachesLabel'
    <3> PICK names : names = scopeStack[Top].labelNames
      OBVIOUS
    <3>1. \A m : m = l \/ (\E k \in 1 .. Len(names) : names[k] = m)
                 <=> \E k \in 1 .. Len(names) : names[k] = m
      BY <2>2, <2>3 DEF ScopesInv, LabelsOK
    <3>2. scopeStack'[Top].labelNames = names /\ scopeStack[Top].labelNames = names
      BY <2>2, <2>9
    <3>3. e.isBound => l \in defs[Current].bound
      BY <2>2, <2>3, <2>5 DEF ScopesInv, LabelsOK
    <3>4. \A i \in 1 .. Top - 1 : scopeStack'[i].labelNames = scopeStack[i].labelNames
      BY <2>2, <2>9
    <3>5. /\ defs[Current].bound \subseteq defs'[Current].bound
          /\ e.isBound => l \in defs'[Current].bound
          /\ defs'[Current].gotos \subseteq defs[Current].gotos \cup {l}
      BY <2>7, <2>8, <3>3
    <3>6. \A m : m = l \/ (\E k \in 1 .. Len(scopeStack[Top].labelNames) :
                            scopeStack[Top].labelNames[k] = m)
                <=> \E k \in 1 .. Len(scopeStack'[Top].labelNames) :
                      scopeStack'[Top].labelNames[k] = m
      BY <3>1, <3>2
    <3>7. QED
      BY <2>1, <2>3, <2>5, <2>6, <2>8, <2>10, <3>4, <3>5, <3>6, LabelWritten
  <2>12. QED
    BY <2>10, <2>11 DEF ScopesInv
<1>3. QED
  BY <1>1, <1>2

-----------------------------------------------------------------------------
(* Uses of variables                                                       *)

LEMMA FoundIs ==
  ASSUME ScopesInv, status = "run", NEW x, VariableScopes(x) # {}
  PROVE  /\ FoundIn(x) \in Inner /\ FoundIn(x) \in VariableScopes(x)
         /\ x \in DOMAIN Entries(FoundIn(x)) /\ Entries(FoundIn(x))[x].entryType = "variable"
<1>1. Top \in Nat /\ VariableScopes(x) \in SUBSET (1 .. Top)
  BY TopRuns DEF VariableScopes
<1>2. FoundIn(x) \in VariableScopes(x)
  BY <1>1, MaxIs DEF FoundIn
<1>3. /\ FoundIn(x) \in 1 .. Top /\ x \in DOMAIN Entries(FoundIn(x))
      /\ Entries(FoundIn(x))[x].entryType = "variable"
  BY <1>2 DEF VariableScopes
<1>4. FoundIn(x) # 1
  BY <1>1, <1>3 DEF ScopesInv, Names, Named
<1>5. QED
  BY <1>1, <1>2, <1>3, <1>4 DEF Inner

(* add_provide keeps the slots there are and finds or adds that of x. *)
LEMMA ProvidedIs ==
  ASSUME NEW owner, NEW x, IsSeq(defs[owner].provides)
  PROVE  LET old == defs[owner].provides
             new == Provided(owner, x)
         IN  /\ IsSeq(new) /\ Len(old) <= Len(new) /\ Len(old) \in Nat /\ Len(new) \in Nat
             /\ DOMAIN new = 1 .. Len(new)
             /\ \A k \in 1 .. Len(old) : new[k] = old[k]
             /\ \A k \in 1 .. Len(new) : new[k] = x \/ (k \in 1 .. Len(old) /\ new[k] = old[k])
             /\ \E k \in 1 .. Len(new) : new[k] = x
<1> PICK old, new : old = defs[owner].provides /\ new = Provided(owner, x)
  OBVIOUS
<1>1. IsSeq(old) /\ Len(old) \in Nat /\ DOMAIN old = 1 .. Len(old)
  BY DEF IsSeq
<1>2. CASE x \in ToSet(old)
  <2>1. new = old
    BY <1>2 DEF Provided
  <2>2. \E k \in 1 .. Len(old) : old[k] = x
    BY <1>1, <1>2 DEF ToSet
  <2>3. QED
    BY <1>1, <2>1, <2>2
<1>3. CASE x \notin ToSet(old)
  <2>1. new = Append(old, x)
    BY <1>3 DEF Provided
  <2>2. /\ IsSeq(new) /\ Len(new) = Len(old) + 1
        /\ \A k \in 1 .. Len(old) : new[k] = old[k]
        /\ new[Len(old) + 1] = x
    BY <1>1, <2>1, AppendSeq
  <2>3. DOMAIN new = 1 .. Len(new)
    BY <2>2 DEF IsSeq
  <2>4. QED
    BY <1>1, <2>2, <2>3
<1>4. QED
  BY <1>2, <1>3

(* What a use in function here of x, found in scope i of function owner,   *)
(* writes into both.                                                       *)
Links(x, i, owner, here, provides, request, requests) ==
  /\ i \in 2 .. Top - 1 /\ owner \in Functions /\ Len(Chain(owner)) = i - 1 /\ owner # here
  /\ IsSeq(defs[owner].provides)
  /\ request.diff = Top - i
  /\ request.idx = CHOOSE k \in DOMAIN provides : provides[k] = x
  /\ DOMAIN requests = DOMAIN defs[here].requests \cup {x}
  /\ \A n \in DOMAIN requests :
       requests[n] = IF n \in DOMAIN defs[here].requests THEN defs[here].requests[n] ELSE request
  /\ OnlyIn({owner, here}, {"provides", "requests"})
  /\ \A c \in Functions :
       /\ defs'[c].provides = IF c = owner THEN provides ELSE defs[c].provides
       /\ defs'[c].requests = IF c = here THEN requests ELSE defs[c].requests
       /\ Chain(c)' = Chain(c) /\ defs'[c].locals = defs[c].locals
       /\ defs'[c].refs = defs[c].refs /\ defs'[c].calls = defs[c].calls
  /\ Functions' = Functions

LEMMA LinkedIs ==
  ASSUME ScopesInv, status = "run", NEW x, VariableScopes(x) # {}, defs' = Linked(x),
         NEW i, i = FoundIn(x), i # Top, NEW owner, owner = Function(i),
         NEW here, here = Current, NEW provides, provides = Provided(owner, x)
  PROVE  \E request, requests : Links(x, i, owner, here, provides, request, requests)
<1> DEFINE request == [diff |-> Top - i, idx |-> CHOOSE k \in DOMAIN provides : provides[k] = x]
           requests == Insert(defs[here].requests, x, request)
           owned == [defs[owner] EXCEPT !.provides = provides]
           asking == [defs[here] EXCEPT !.requests = requests]
<1>1. /\ Shape /\ Top \in Nat /\ Top >= 2 /\ Top \in Inner
      /\ here = Function(Top) /\ here \in Bodies /\ here \in Functions /\ Len(Chain(here)) = Top - 1
  BY TopRuns
<1>2. i \in Inner
  BY FoundIs
<1>3. /\ i \in 2 .. Top - 1 /\ owner \in Functions /\ Len(Chain(owner)) = i - 1
      /\ IsSeq(defs) /\ DOMAIN defs[owner] = DefFields /\ DOMAIN defs[here] = DefFields
      /\ IsSeq(defs[owner].provides) /\ here \in 1 .. Len(defs) /\ owner \in 1 .. Len(defs)
  <2>1. i \in 2 .. Top - 1
    BY <1>1, <1>2 DEF Inner
  <2>2. owner \in Functions /\ Len(Chain(owner)) = i - 1
    BY <1>2 DEF ScopesInv, Nested, Bodies
  <2>3. IsSeq(defs) /\ DOMAIN defs[owner] = DefFields /\ DOMAIN defs[here] = DefFields
          /\ IsSeq(defs[owner].provides)
    BY <1>1, <2>2 DEF Shape
  <2>4. QED
    BY <1>1, <2>1, <2>2, <2>3 DEF Functions
<1>4. owner # here
  BY <1>1, <1>3
<1>5. defs' = Updated(Updated(defs, owner, owned), here, asking)
  <2>1. defs' = [defs EXCEPT ![owner].provides = provides, ![here].requests = Insert(@, x, request)]
    BY DEF Linked, Function
  <2> HIDE DEF request
  <2>2. QED
    BY <1>4, <2>1, ZenonT(40) DEF Updated
<1>6. /\ DOMAIN owned = DefFields /\ owned.provides = provides
      /\ \A f \in DefFields \ {"provides"} : owned[f] = defs[owner][f]
      /\ DOMAIN asking = DefFields /\ asking.requests = requests
      /\ \A f \in DefFields \ {"requests"} : asking[f] = defs[here][f]
  <2> HIDE DEF requests
  <2>1. QED
    BY <1>3 DEF DefFields
<1>7. request.diff = Top - i /\ request.idx = CHOOSE k \in DOMAIN provides : provides[k] = x
  OBVIOUS
<1>8. /\ DOMAIN requests = DOMAIN defs[here].requests \cup {x}
      /\ \A n \in DOMAIN requests :
           requests[n] = IF n \in DOMAIN defs[here].requests THEN defs[here].requests[n]
                         ELSE request
  <2> HIDE DEF request
  <2>1. QED
    BY DEF Insert
<1> HIDE DEF owned, asking, requests, request
<1>9. /\ IsSeq(defs') /\ Len(defs') = Len(defs)
      /\ \A c \in 1 .. Len(defs) :
           defs'[c] = IF c = here THEN asking ELSE IF c = owner THEN owned ELSE defs[c]
  <2> DEFINE ds == Updated(defs, owner, owned)
  <2>1. /\ IsSeq(ds) /\ Len(ds) = Len(defs)
        /\ \A c \in 1 .. Len(defs) : ds[c] = IF c = owner THEN owned ELSE defs[c]
    BY <1>3, UpdateSeq
  <2>2. defs' = Updated(ds, here, asking)
    BY <1>5
  <2> HIDE DEF ds
  <2>3. /\ IsSeq(defs') /\ Len(defs') = Len(ds)
        /\ \A c \in 1 .. Len(ds) : defs'[c] = IF c = here THEN asking ELSE ds[c]
    BY <1>3, <2>1, <2>2, UpdateSeq
  <2>4. QED
    BY <2>1, <2>3
<1>10. OnlyIn({owner, here}, {"provides", "requests"})
  <2>1. \A c \in Functions : DOMAIN defs[c] = DefFields
    BY <1>1 DEF Shape
  <2>2. QED
    BY <1>6, <1>9, <2>1 DEF OnlyIn, Functions
<1>11. /\ \A c \in Functions :
           /\ defs'[c].provides = IF c = owner THEN provides ELSE defs[c].provides
           /\ defs'[c].requests = IF c = here THEN requests ELSE defs[c].requests
           /\ Chain(c)' = Chain(c) /\ defs'[c].locals = defs[c].locals
           /\ defs'[c].refs = defs[c].refs /\ defs'[c].calls = defs[c].calls
      /\ Functions' = Functions
  BY <1>4, <1>6, <1>9 DEF DefFields, Functions, Chain
<1>12. QED
  BY <1>3, <1>4, <1>7, <1>8, <1>10, <1>11 DEF Links

LEMMA LinkedInv ==
  ASSUME ScopesInv, status = "run", status' = status, scopeStack' = scopeStack,
         NEW x, VariableScopes(x) # {}, defs' = Linked(x)
  PROVE  ScopesInv'
<1> PICK i, owner, here : i = FoundIn(x) /\ owner = Function(i) /\ here = Current
  OBVIOUS
<1>1. /\ Shape /\ Top \in Nat /\ Top >= 2 /\ Top \in Inner
      /\ here = Function(Top) /\ here \in Bodies /\ here \in Functions /\ Len(Chain(here)) = Top - 1
      /\ \A k \in 1 .. Top - 1 : Chain(here)[k] = Function(k + 1)
  BY TopRuns
<1>2. i \in Inner /\ x \in DOMAIN Entries(i) /\ Entries(i)[x].entryType = "variable"
  BY FoundIs
<1>3. SameTables
  BY <1>1 DEF SameTables, Top, Shape
<1>4. CASE i = Top
  <2>1. defs' = defs
    BY <1>4 DEF Linked
  <2>2. OnlyIn({}, {}) /\ {} \subseteq {"calls"}
    BY <1>1, <2>1, SameDefs
  <2>3. CallsOK'
    <3>1. SameFrame /\ SameNamed
      <4>1. \A c \in Functions : IsSeq(defs'[c].provides)
        BY <1>1, <2>1 DEF Shape
      <4>2. QED
        BY <1>3, <2>2, <4>1, TablesKept
    <3>2. QED
      BY <2>1, <3>1, CallsKept
  <2>4. QED
    BY <1>3, <2>2, <2>3, TablesStep
<1>5. CASE i # Top
  <2> PICK provides : provides = Provided(owner, x)
    OBVIOUS
  <2> PICK request, requests : Links(x, i, owner, here, provides, request, requests)
    BY <1>5, LinkedIs
  <2>1. /\ i \in 2 .. Top - 1 /\ owner \in Functions /\ Len(Chain(owner)) = i - 1 /\ owner # here
        /\ IsSeq(defs[owner].provides)
        /\ request.diff = Top - i
        /\ request.idx = CHOOSE k \in DOMAIN provides : provides[k] = x
        /\ DOMAIN requests = DOMAIN defs[here].requests \cup {x}
        /\ \A n \in DOMAIN requests :
             requests[n] = IF n \in DOMAIN defs[here].requests THEN defs[here].requests[n]
                           ELSE request
        /\ OnlyIn({owner, here}, {"provides", "requests"})
        /\ \A c \in Functions :
             /\ defs'[c].provides = IF c = owner THEN provides ELSE defs[c].provides
             /\ defs'[c].requests = IF c = here THEN requests ELSE defs[c].requests
             /\ Chain(c)' = Chain(c) /\ defs'[c].locals = defs[c].locals
             /\ defs'[c].refs = defs[c].refs /\ defs'[c].calls = defs[c].calls
        /\ Functions' = Functions
    BY DEF Links
  <2>2. LET old == defs[owner].provides
         IN  /\ IsSeq(provides) /\ Len(old) <= Len(provides)
             /\ DOMAIN provides = 1 .. Len(provides)
             /\ \A k \in 1 .. Len(old) : provides[k] = old[k]
             /\ \A k \in 1 .. Len(provides) :
                  provides[k] = x \/ (k \in 1 .. Len(old) /\ provides[k] = old[k])
             /\ \E k \in 1 .. Len(provides) : provides[k] = x
    BY <2>1, ProvidedIs, SMTT(30)
  <2>3. \A c \in Functions : IsSeq(defs'[c].provides)
    BY <1>1, <2>1, <2>2 DEF Shape
  <2>4. /\ SameFrame /\ SameNamed
         /\ Shape' /\ Nested' /\ Chains' /\ Creators' /\ Names' /\ LabelsOK' /\ GotoReachesLabel'
    BY <1>3, <2>1, <2>3, TablesKept
  <2>5. CallsOK'
    BY <2>1, <2>4, CallsKept
  <2>6. Grown
    <3>1. \A c \in Functions : Len(defs[c].provides) \in Nat
      BY <1>1 DEF Shape, IsSeq
    <3>2. QED
      <4>1. ASSUME NEW c \in Functions
            PROVE  /\ defs'[c].locals = defs[c].locals
                   /\ defs'[c].provides = IF c = owner THEN provides ELSE defs[c].provides
        BY <2>1
      <4>2. ASSUME NEW c \in Functions
            PROVE  /\ Len(defs[c].provides) <= Len(defs'[c].provides)
                   /\ \A k \in 1 .. Len(defs[c].provides) : defs'[c].provides[k] = defs[c].provides[k]
        <5>1. CASE c = owner
          BY <2>2, <4>1, <5>1
        <5>2. CASE c # owner
          BY <3>1, <4>1, <5>2
        <5>3. QED
          BY <5>1, <5>2
      <4>3. QED
        BY <4>1, <4>2 DEF Grown
  <2>7. x \in defs[owner].locals
    BY <1>2 DEF ScopesInv, VariablesOK
  <2>8. VariablesOK'
    <3>1. \A j \in Inner : Entries(j)' = Entries(j)
      BY DEF Entries
    <3>2. ASSUME NEW c \in Functions, NEW k \in 1 .. Len(defs'[c].provides)
          PROVE  defs'[c].provides[k] \in defs'[c].locals
      <4>1. CASE c = owner
        <5>1. defs'[c].provides = provides /\ defs'[c].locals = defs[c].locals
          BY <2>1, <4>1
        <5>2. provides[k] = x \/ provides[k] \in defs[c].locals
          BY <2>2, <4>1, <5>1 DEF ScopesInv, VariablesOK
        <5>3. QED
          BY <2>7, <4>1, <5>1, <5>2
      <4>2. CASE c # owner
        BY <2>1, <4>2 DEF ScopesInv, VariablesOK
      <4>3. QED
        BY <4>1, <4>2
    <3>3. QED
      BY <2>1, <2>4, <2>6, <3>1, <3>2, VariablesKept
  <2>9. ASSUME NEW c \in Functions, NEW n \in DOMAIN defs[c].requests
         PROVE  RequestOK(c, n)'
    <3>1. n \in DOMAIN defs'[c].requests /\ defs'[c].requests[n] = defs[c].requests[n]
      BY <2>1
    <3>2. IsSeq(Chain(c)') /\ Chain(c)' = Chain(c)
      BY <1>1, <2>1 DEF Shape
    <3>3. QED
      BY <2>1, <2>3, <2>6, <3>1, <3>2, RequestsKept
  <2>10. ASSUME x \notin DOMAIN defs[here].requests
         PROVE  RequestOK(here, x)'
    <3>1. defs'[here].requests[x] = request
      BY <1>1, <2>1, <2>10
    <3>2. /\ Chain(here)' = Chain(here) /\ Len(Chain(here)) - request.diff = i - 1
          /\ request.diff \in 1 .. Len(Chain(here)) - 1
      <4>1. Chain(here)' = Chain(here)
        BY <1>1, <2>1
      <4>2. Len(Chain(here)) = Top - 1 /\ Top \in Nat /\ i \in 2 .. Top - 1
        BY <1>1, <2>1
      <4>3. request.diff = Top - i
        BY <2>1
      <4>4. Top - 1 - (Top - i) = i - 1 /\ Top - i \in 1 .. Top - 1 - 1
        BY <4>2
      <4>5. QED
        BY <4>1, <4>2, <4>3, <4>4
    <3>3. Chain(here)[i - 1] = owner
      BY <1>1, <2>1, SMTT(30)
    <3>4. request.idx \in DOMAIN provides /\ provides[request.idx] = x
      BY <2>1, <2>2
    <3>5. defs'[owner].provides = provides /\ x \in defs'[owner].locals
      BY <2>1, <2>7
    <3>6. QED
      BY <3>1, <3>2, <3>3, <3>4, <3>5 DEF RequestOK, Chain
  <2>11. RequestsMatchProvides'
    <3>1. \A c \in Functions : \A n \in DOMAIN defs'[c].requests : RequestOK(c, n)'
      BY <2>1, <2>9, <2>10
    <3>2. Functions' = Functions
      BY <2>1
    <3>3. QED
      BY <3>1, <3>2, Zenon DEF RequestsMatchProvides, RequestOK
  <2>12. QED
    BY <2>4, <2>5, <2>8, <2>11 DEF ScopesInv
<1>6. QED
  BY <1>4, <1>5

LEMMA UseVariableInv ==
  ASSUME ScopesInv, NEW x, UseVariable(x)
  PROVE  ScopesInv'
<1>1. CASE VariableScopes(x) = {}
  <2>1. status' \in {"error", "undefined"} /\ scopeStack' = scopeStack /\ defs' = defs
    BY <1>1 DEF UseVariable, NotFound
  <2>2. QED
    BY <2>1, RefusesKeeps DEF Refuses
<1>2. CASE VariableScopes(x) # {}
  <2>1. /\ status = "run" /\ status' = status /\ scopeStack' = scopeStack /\ defs' = Linked(x)
    BY <1>2 DEF UseVariable, InBody
  <2>2. QED
    BY <1>2, <2>1, LinkedInv
<1>3. QED
  BY <1>1, <1>2

(* A step that changes none of what the invariant is about. *)
LEMMA NothingDeclared ==
  ASSUME ScopesInv, status = "run", status' = status, scopeStack' = scopeStack, defs' = defs
  PROVE  ScopesInv'
<1>1. Shape
  BY DEF ScopesInv
<1>2. SameTables
  BY <1>1 DEF SameTables, Top, Shape
<1>3. OnlyIn({}, {}) /\ {} \subseteq {"calls"}
  BY <1>1, SameDefs
<1>4. CallsOK'
  <2>1. SameFrame /\ SameNamed
    <3>1. \A c \in Functions : IsSeq(defs'[c].provides)
      BY <1>1 DEF Shape
    <3>2. QED
      BY <1>2, <1>3, <3>1, TablesKept
  <2>2. QED
    BY <2>1, CallsKept
<1>5. QED
  BY <1>2, <1>3, <1>4, TablesStep

LEMMA CheckArgumentInv ==
  ASSUME ScopesInv, CheckArgument
  PROVE  ScopesInv'
<1> DEFINE arg == Head(todo).arg
           par == Head(todo).par
           t == IF arg.lvalue THEN Entries(FoundIn(arg.name))[arg.name].type ELSE arg.type
<1>1. /\ status = "run"
      /\ IF arg.lvalue /\ VariableScopes(arg.name) = {} THEN NotFound(arg.name)
         ELSE IF ~ArgumentAccepted(par, t, arg.lvalue) THEN Report
         ELSE /\ defs' = IF arg.lvalue THEN Linked(arg.name) ELSE defs
              /\ scopeStack' = scopeStack /\ status' = status
  BY DEF CheckArgument
<1> HIDE DEF arg, par, t
<1>2. CASE arg.lvalue /\ VariableScopes(arg.name) = {}
  <2>1. status' \in {"error", "undefined"} /\ scopeStack' = scopeStack /\ defs' = defs
    BY <1>1, <1>2 DEF NotFound
  <2>2. QED
    BY <2>1, RefusesKeeps DEF Refuses
<1>3. CASE ~(arg.lvalue /\ VariableScopes(arg.name) = {}) /\ ~ArgumentAccepted(par, t, arg.lvalue)
  <2>1. Report
    BY <1>1, <1>3
  <2>2. QED
    BY <2>1, RefusesKeeps DEF Refuses, Report
<1>4. CASE ~(arg.lvalue /\ VariableScopes(arg.name) = {}) /\ ArgumentAccepted(par, t, arg.lvalue)
  <2>1. /\ defs' = IF arg.lvalue THEN Linked(arg.name) ELSE defs
        /\ scopeStack' = scopeStack /\ status' = status
    BY <1>1, <1>4
  <2>2. CASE arg.lvalue
    <3>1. VariableScopes(arg.name) # {} /\ defs' = Linked(arg.name)
      BY <1>4, <2>1, <2>2
    <3>2. QED
      BY <1>1, <2>1, <3>1, LinkedInv
  <2>3. CASE ~arg.lvalue
    BY <1>1, <2>1, <2>3, NothingDeclared
  <2>4. QED
    BY <2>2, <2>3
<1>5. QED
  BY <1>2, <1>3, <1>4

-----------------------------------------------------------------------------
(* The end of a function, and of the program                               *)

LEMMA RequestsSame ==
  ASSUME RequestsMatchProvides, defs' = defs
  PROVE  RequestsMatchProvides'
<1>1. Functions' = Functions /\ RequestsMatchProvides
  BY DEF Functions
<1>2. ASSUME NEW d \in Functions, NEW x \in DOMAIN defs[d].requests
      PROVE  RequestOK(d, x)'
  <2>1. RequestOK(d, x)
    BY <1>1, Zenon DEF RequestsMatchProvides, RequestOK
  <2>2. RequestOK(d, x)' <=> RequestOK(d, x)
    BY DEF RequestOK
  <2>3. QED
    BY <2>1, <2>2
<1>3. QED
  BY <1>1, <1>2, Zenon DEF RequestsMatchProvides, RequestOK

LEMMA ScopesClosed ==
  ASSUME ScopesInv, defs' = defs, IsSeq(scopeStack'), Top' <= Top,
         \A i \in 1 .. Top' : scopeStack'[i] = scopeStack[i],
         status' \in {"run", "done", "error", "undefined"}, status' = "run" => Top' >= 2
  PROVE  /\ Shape' /\ Nested' /\ Chains' /\ Creators' /\ Names' /\ CallsOK' /\ VariablesOK'
         /\ RequestsMatchProvides' /\ LabelsOK'
<1>1. Top \in Nat /\ Top' \in Nat /\ Top' <= Top /\ Shape
  BY DEF ScopesInv, Shape, IsSeq, Top
<1>2. /\ Functions' = Functions /\ Bodies' = Bodies
      /\ \A i \in Inner' : i \in Inner /\ i \in 1 .. Top'
  BY <1>1 DEF Functions, Bodies, Inner
<1>3. \A i \in 1 .. Top' : i \in 1 .. Top /\ Function(i)' = Function(i) /\ Entries(i)' = Entries(i)
  BY <1>1 DEF Function, Entries
<1>4. \A i \in Inner' : \A k \in 1 .. i - 1 : Function(k + 1)' = Function(k + 1)
  <2>1. \A i \in Inner' : \A k \in 1 .. i - 1 : k + 1 \in 1 .. Top'
    BY <1>1 DEF Inner
  <2>2. QED
    BY <1>3, <2>1
<1>5. Shape'
  BY <1>1, <1>2, <1>3 DEF Shape, Chain
<1>6. Nested'
  <2>1. Top' >= 1 => Top >= 1 /\ Function(1)' = Function(1)
    BY <1>1, <1>3
  <2>2. Top' >= 2 => Top >= 2 /\ Function(2)' = Function(2)
    BY <1>1, <1>3
  <2>3. ASSUME NEW i \in Inner'
        PROVE  (/\ Function(i) \in Bodies /\ Len(Chain(Function(i))) = i - 1
                /\ \A k \in 1 .. i - 1 : Chain(Function(i))[k] = Function(k + 1))'
    <3> PICK f : f = Function(i)
      OBVIOUS
    <3>1. /\ f \in Bodies /\ Len(Chain(f)) = i - 1
          /\ \A k \in 1 .. i - 1 : Chain(f)[k] = Function(k + 1)
      BY <1>2 DEF ScopesInv, Nested
    <3>2. Function(i)' = f /\ Chain(f)' = Chain(f)
      BY <1>2, <1>3 DEF Chain
    <3>3. QED
      BY <1>2, <1>4, <3>1, <3>2 DEF Chain
  <2>4. QED
    BY <2>1, <2>2, <2>3 DEF ScopesInv, Nested
<1>7. Chains' /\ Creators'
  BY <1>2 DEF ScopesInv, Chains, ChainOK, Creators, Siblings, Chain
<1>8. \A i \in 1 .. Top' : \A n :
        (Named(i, n)' <=> Named(i, n)) /\ (Waiting(i, n)' <=> Waiting(i, n))
  BY <1>3 DEF Named, Waiting
<1>9. Names'
  <2>1. (\A i \in 1 .. Top : \A x \in DOMAIN Entries(i) : EntryShape(Entries(i)[x]))'
    BY <1>3 DEF ScopesInv, Names, EntryShape
  <2>2. (Top >= 1 => \A x \in DOMAIN Entries(1) :
                       Named(1, x) /\ ~Waiting(1, x) /\ Entries(1)[x].function = NoFunction)'
    <3>1. Top' >= 1 => Top >= 1 /\ 1 \in 1 .. Top'
      BY <1>1
    <3>2. QED
      BY <1>3, <1>8, <3>1 DEF ScopesInv, Names
  <2>3. ASSUME NEW i \in Inner', NEW n, Named(i, n)' PROVE NamedOK(i, n)'
    <3>1. NamedOK(i, n)
      BY <1>2, <1>8, <2>3 DEF ScopesInv, Names
    <3>2. Entries(i)' = Entries(i) /\ (Waiting(i, n)' <=> Waiting(i, n))
      BY <1>2, <1>3, <1>8
    <3> PICK g : g = Entries(i)[n].function
      OBVIOUS
    <3>3. /\ g \in Functions \ {1} /\ defs[g].creator = g /\ defs[g].level = i
          /\ Waiting(i, n) => Len(Chain(g)) = 0 /\ \A b \in Bodies : defs[b].creator # g
          /\ ~Waiting(i, n) =>
               Len(Chain(g)) = i /\ \A k \in 1 .. i - 1 : Chain(g)[k] = Function(k + 1)
      BY <3>1 DEF NamedOK
    <3>4. Chain(g)' = Chain(g) /\ Entries(i)'[n].function = g
      BY <3>2 DEF Chain
    <3>5. QED
      BY <1>2, <1>4, <3>2, <3>3, <3>4 DEF NamedOK, Chain
  <2>4. (\A i \in Inner, j \in Inner : \A m, n :
           (Named(i, m) /\ Named(j, n) /\ Entries(i)[m].function = Entries(j)[n].function)
             => i = j /\ m = n)'
    BY <1>2, <1>3, <1>8 DEF ScopesInv, Names
  <2>5. QED
    BY <2>1, <2>2, <2>3, <2>4 DEF Names
<1>10. CallsOK'
  <2>1. (\A d \in Functions : \A g \in defs[d].calls :
          /\ g \in Functions \ {1} /\ defs[g].creator = g /\ d \in Bodies
          /\ Len(Chain(g)) > 0 => Sees(d, g))'
    BY <1>2 DEF ScopesInv, CallsOK, Sees, Chain
  <2>2. ASSUME NEW i \in Inner', NEW n, Waiting(i, n)', NEW d \in Functions',
               Entries(i)'[n].function \in defs'[d].calls
        PROVE  Inside(d, i)'
    <3>1. Inside(d, i)
      BY <1>2, <1>3, <1>8, <2>2 DEF ScopesInv, CallsOK
    <3>2. QED
      BY <1>4, <3>1 DEF Inside, Chain
  <2>3. QED
    BY <2>1, <2>2 DEF CallsOK
<1>11. VariablesOK'
  BY <1>2, <1>3 DEF ScopesInv, VariablesOK
<1>12. RequestsMatchProvides'
  BY RequestsSame DEF ScopesInv
<1>13. LabelsOK'
  <2>1. \A i \in Inner' : /\ scopeStack'[i] = scopeStack[i] /\ i \in Inner
                          /\ Function(i)' = Function(i) /\ Entries(i)' = Entries(i)
    BY <1>2, <1>3
  <2>2. QED
    <3>1. (Top >= 1 => Len(scopeStack[1].labelNames) = 0)'
      <4>1. Top' >= 1 => Top >= 1 /\ scopeStack'[1] = scopeStack[1]
        BY <1>1
      <4>2. QED
        BY <4>1 DEF ScopesInv, LabelsOK
    <3>2. QED
      BY <2>1, <3>1 DEF ScopesInv, LabelsOK, IsLabelIn
<1>14. QED
  BY <1>5, <1>6, <1>7, <1>9, <1>10, <1>11, <1>12, <1>13

(* The function whose scope closes has every label its gotos name. *)
LEMMA TargetsBound ==
  ASSUME ScopesInv, status = "run", ~UnboundTarget
  PROVE  defs[Current].gotos \subseteq defs[Current].bound
<1> PICK t, names, c : t = Top /\ names = scopeStack[Top].labelNames /\ c = Current
  OBVIOUS
<1>1. Shape /\ t \in Inner /\ c = Function(t) /\ t \in 1 .. Top
  BY TopRuns
<1>2. IsSeq(names)
  BY <1>1 DEF Shape
<1>3. DOMAIN names = 1 .. Len(names)
  BY <1>2 DEF IsSeq
<1>4. ASSUME NEW l \in defs[c].gotos PROVE l \in defs[c].bound
  <2>1. IsLabelIn(t, l) /\ Entries(t)[l].isTargeted
    BY <1>1 DEF ScopesInv, LabelsOK
  <2>2. (\E k \in 1 .. Len(names) : names[k] = l) /\ (Entries(t)[l].isBound => l \in defs[c].bound)
    BY <1>1, <2>1 DEF ScopesInv, LabelsOK
  <2>3. Entries(t)[l].isBound
    BY <1>3, <2>1, <2>2 DEF UnboundTarget
  <2>4. QED
    BY <2>2, <2>3
<1>5. QED
  BY <1>4

LEMMA EndFunctionInv ==
  ASSUME ScopesInv, EndFunction
  PROVE  ScopesInv'
<1>1. CASE UnboundTarget
  BY <1>1, RefusesKeeps DEF EndFunction, Report, Refuses
<1>2. CASE ~UnboundTarget
  <2>1. /\ scopeStack' = Front(scopeStack) /\ defs' = defs /\ status = "run" /\ status' = status
        /\ Top > 2
    BY <1>2 DEF EndFunction, InBody
  <2>2. Shape /\ Top \in Nat /\ Top = Len(scopeStack) /\ Current = Function(Top)
    BY <2>1, TopRuns DEF Top
  <2>3. /\ IsSeq(scopeStack') /\ Top' = Top - 1
        /\ \A i \in 1 .. Top - 1 : scopeStack'[i] = scopeStack[i]
    <3>1. IsSeq(scopeStack) /\ Len(scopeStack) > 0
      BY <2>1, <2>2 DEF Shape
    <3>2. QED
      BY <2>1, <2>2, <3>1, FrontSeq DEF Top
  <2>4. /\ Shape' /\ Nested' /\ Chains' /\ Creators' /\ Names' /\ CallsOK' /\ VariablesOK'
        /\ RequestsMatchProvides' /\ LabelsOK'
    <3>1. Top' <= Top /\ Top' >= 2
      BY <2>1, <2>2, <2>3
    <3>2. QED
      BY <2>1, <2>2, <2>3, <3>1, ScopesClosed
  <2>5. GotoReachesLabel'
    <3>1. \A d \in Open : d \in Open' \/ d = Current
      <4>1. \A i \in 2 .. Top : i \in 2 .. Top' \/ i = Top
        BY <2>1, <2>2, <2>3
      <4>2. \A i \in 2 .. Top' : Function(i)' = Function(i)
        BY <2>1, <2>2, <2>3 DEF Function
      <4>3. QED
        BY <2>2, <4>1, <4>2 DEF Open, Function
    <3>2. defs[Current].gotos \subseteq defs[Current].bound
      BY <1>2, <2>1, TargetsBound
    <3>3. Functions' = Functions /\ defs' = defs /\ status = "run"
      BY <2>1 DEF Functions
    <3>4. QED
      BY <3>1, <3>2, <3>3 DEF ScopesInv, GotoReachesLabel
  <2>6. QED
    BY <2>4, <2>5 DEF ScopesInv
<1>3. QED
  BY <1>1, <1>2

LEMMA FinishInv ==
  ASSUME ScopesInv, Finish
  PROVE  ScopesInv'
<1>1. CASE UnboundTarget
  BY <1>1, RefusesKeeps DEF Finish, Report, Refuses
<1>2. CASE ~UnboundTarget
  <2>1. /\ scopeStack' = << >> /\ defs' = defs /\ status = "run" /\ status' = "done" /\ Top = 2
    BY <1>2 DEF Finish, InBody
  <2>2. IsSeq(scopeStack') /\ Top' = 0 /\ Open' = {}
    BY <2>1 DEF IsSeq, Top, Open
  <2>3. /\ Shape' /\ Nested' /\ Chains' /\ Creators' /\ Names' /\ CallsOK' /\ VariablesOK'
        /\ RequestsMatchProvides' /\ LabelsOK'
    <3>1. Top' <= Top /\ (\A i \in 1 .. Top' : scopeStack'[i] = scopeStack[i])
      BY <2>1, <2>2
    <3>2. status' \in {"run", "done", "error", "undefined"} /\ (status' = "run" => Top' >= 2)
      BY <2>1
    <3>3. QED
      BY <2>1, <2>2, <3>1, <3>2, ScopesClosed
  <2>4. GotoReachesLabel'
    <3>1. \A d \in Open : d = Current
      BY <2>1 DEF Open, Current
    <3>2. defs[Current].gotos \subseteq defs[Current].bound
      BY <1>2, <2>1, TargetsBound
    <3>3. Functions' = Functions /\ defs' = defs /\ status = "run"
      BY <2>1 DEF Functions
    <3>4. QED
      BY <3>1, <3>2, <3>3 DEF ScopesInv, GotoReachesLabel
  <2>5. QED
    BY <2>3, <2>4 DEF ScopesInv
<1>3. QED
  BY <1>1, <1>2

-----------------------------------------------------------------------------
(* Declarations of functions                                               *)

IsNew(nd, isForward, creator, chain) ==
  /\ DOMAIN nd = DefFields /\ nd.isForward = isForward /\ nd.creator = creator /\ nd.chain = chain
  /\ nd.level = Top /\ nd.refs \subseteq nd.locals
  /\ nd.provides = << >> /\ nd.requests = << >>
  /\ nd.calls = {} /\ nd.gotos = {} /\ nd.bound = {}

LEMMA NewDefIs ==
  ASSUME NEW h, NEW isForward, NEW creator, NEW chain
  PROVE  /\ IsNew(NewDef(h, isForward, creator, chain), isForward, creator, chain)
         /\ DOMAIN FunctionScope(Len(defs) + 1, h).levelEntries
              = NewDef(h, isForward, creator, chain).locals
<1> DEFINE locals == ParametersNamed(h, BOOLEAN)
                       \cup (IF Equals(h.type, typeVoid) THEN {} ELSE {"result"})
           refs == ParametersNamed(h, {FALSE})
           nd == NewDef(h, isForward, creator, chain)
<1>1. refs \subseteq locals
  BY DEF ParametersNamed
<1>2. DOMAIN FunctionScope(Len(defs) + 1, h).levelEntries = locals
  BY DEF FunctionScope
<1>3. nd = [header |-> h, isForward |-> isForward, creator |-> creator, chain |-> chain,
            level |-> Len(scopeStack), locals |-> locals, refs |-> refs,
            provides |-> << >>, requests |-> << >>, calls |-> {}, gotos |-> {}, bound |-> {}]
  BY DEF NewDef
<1> HIDE DEF locals, refs, nd
<1>4. IsNew(nd, isForward, creator, chain) /\ nd.locals = locals
  BY <1>1, <1>3 DEF IsNew, DefFields, Top
<1>5. QED
  BY <1>2, <1>4 DEF nd

(* A FunctionDef is added, and the chain of waiting one may be set. *)
NewFunction == Len(defs) + 1

Added(waiting, isForward, creator, chain) ==
  /\ IsSeq(defs') /\ Len(defs') = Len(defs) + 1
  /\ \A c \in Functions :
       /\ DOMAIN defs'[c] = DefFields
       /\ \A f \in DefFields : c # waiting \/ f # "chain" => defs'[c][f] = defs[c][f]
  /\ IsNew(defs'[NewFunction], isForward, creator, chain)

SameButChain(c) ==
  /\ defs'[c].isForward = defs[c].isForward /\ defs'[c].creator = defs[c].creator
  /\ defs'[c].level = defs[c].level /\ defs'[c].locals = defs[c].locals
  /\ defs'[c].refs = defs[c].refs /\ defs'[c].provides = defs[c].provides
  /\ defs'[c].requests = defs[c].requests /\ defs'[c].calls = defs[c].calls
  /\ defs'[c].gotos = defs[c].gotos /\ defs'[c].bound = defs[c].bound

LEMMA AddedIs ==
  ASSUME ScopesInv, status = "run",
         NEW waiting, NEW isForward, NEW creator, NEW chain,
         Added(waiting, isForward, creator, chain),
         waiting \in Functions => Len(Chain(waiting)) = 0 /\ IsSeq(defs'[waiting].chain),
         IsSeq(chain)
  PROVE  /\ NewFunction \notin Functions /\ NewFunction # 1 /\ NewFunction \in Functions'
         /\ Functions' = Functions \cup {NewFunction}
         /\ \A c \in Functions : SameButChain(c) /\ (c # waiting => Chain(c)' = Chain(c))
         /\ \A c \in Functions' : /\ DOMAIN defs'[c] = DefFields
                                  /\ IsSeq(Chain(c)') /\ IsSeq(defs'[c].provides)
         /\ IsNew(defs'[NewFunction], isForward, creator, chain)
         /\ Bodies' = IF isForward THEN Bodies ELSE Bodies \cup {NewFunction}
<1>1. Shape /\ Len(defs) \in Nat /\ 1 \in Functions
  BY DEF ScopesInv, Shape, IsSeq, Chains, Bodies
<1>2. NewFunction \notin Functions /\ NewFunction # 1 /\ Functions' = Functions \cup {NewFunction}
  <2> PICK n : n = Len(defs)
    OBVIOUS
  <2>1. n \in Nat /\ 1 \in 1 .. n /\ NewFunction = n + 1
    BY <1>1 DEF NewFunction, Functions
  <2>2. Functions = 1 .. n /\ Functions' = 1 .. n + 1
    BY DEF Added, Functions
  <2>3. n + 1 \notin 1 .. n /\ n + 1 # 1 /\ 1 .. n + 1 = 1 .. n \cup {n + 1}
    BY <2>1
  <2>4. QED
    BY <2>1, <2>2, <2>3
<1>3. \A c \in Functions : SameButChain(c) /\ (c # waiting => Chain(c)' = Chain(c))
  BY DEF Added, SameButChain, DefFields, Chain
<1>4. IsNew(defs'[NewFunction], isForward, creator, chain)
  BY DEF Added
<1>5. IsSeq(<< >>)
  BY DEF IsSeq
<1>6. \A c \in Functions' : /\ DOMAIN defs'[c] = DefFields
                            /\ IsSeq(Chain(c)') /\ IsSeq(defs'[c].provides)
  <2>1. ASSUME NEW c \in Functions
        PROVE  DOMAIN defs'[c] = DefFields /\ IsSeq(Chain(c)') /\ IsSeq(defs'[c].provides)
    <3>1. DOMAIN defs'[c] = DefFields /\ defs'[c].provides = defs[c].provides
      BY <1>3 DEF Added, SameButChain
    <3>2. IsSeq(Chain(c)')
      BY <1>1, <1>3 DEF Shape, Chain
    <3>3. QED
      BY <1>1, <3>1, <3>2 DEF Shape
  <2>2. /\ DOMAIN defs'[NewFunction] = DefFields
        /\ IsSeq(defs'[NewFunction].chain) /\ IsSeq(defs'[NewFunction].provides)
    BY <1>4, <1>5 DEF IsNew
  <2>3. QED
    BY <1>2, <2>1, <2>2 DEF Chain
<1>7. Bodies' = IF isForward THEN Bodies ELSE Bodies \cup {NewFunction}
  <2>1. defs'[NewFunction].isForward = isForward
    BY <1>4 DEF IsNew
  <2>2. \A c \in Functions : defs'[c].isForward = defs[c].isForward
    BY <1>3 DEF SameButChain
  <2>3. Bodies' = { c \in Functions \cup {NewFunction} : ~defs'[c].isForward }
    BY <1>2 DEF Bodies
  <2>4. QED
    BY <1>2, <2>1, <2>2, <2>3 DEF Bodies
<1>8. QED
  BY <1>2, <1>3, <1>4, <1>6, <1>7

(* What of the invariant is not about scopes and chains. *)
LEMMA AddedKeeps ==
  ASSUME ScopesInv, status = "run", status' = "run",
         NEW waiting, NEW isForward, NEW creator, NEW chain,
         Added(waiting, isForward, creator, chain),
         waiting \in Functions => Len(Chain(waiting)) = 0 /\ IsSeq(defs'[waiting].chain),
         IsSeq(chain), Open \subseteq Open'
  PROVE  RequestsMatchProvides' /\ GotoReachesLabel'
<1>1. /\ NewFunction \notin Functions /\ Functions' = Functions \cup {NewFunction}
      /\ \A c \in Functions : SameButChain(c) /\ (c # waiting => Chain(c)' = Chain(c))
      /\ \A c \in Functions' : IsSeq(Chain(c)') /\ IsSeq(defs'[c].provides)
      /\ IsNew(defs'[NewFunction], isForward, creator, chain)
  BY AddedIs
<1>2. Shape
  BY DEF ScopesInv
<1>3. Grown
  <2>1. \A c \in Functions : Len(defs[c].provides) \in Nat
    BY <1>2 DEF Shape, IsSeq
  <2>2. QED
    BY <1>1, <2>1 DEF Grown, SameButChain
<1>4. ASSUME NEW c \in Functions, NEW n \in DOMAIN defs[c].requests
      PROVE  RequestOK(c, n)'
  <2>1. IsSeq(Chain(c)) /\ (Len(Chain(c)) > 0 => Chain(c)' = Chain(c))
    BY <1>1, <1>2 DEF Shape
  <2>2. defs'[c].requests = defs[c].requests
    BY <1>1 DEF SameButChain
  <2>3. IsSeq(Chain(c)') /\ \A e \in Functions : IsSeq(defs'[e].provides)
    BY <1>1
  <2>4. QED
    BY <1>1, <1>3, <2>1, <2>2, <2>3, RequestsKept
<1>5. RequestsMatchProvides'
  <2>1. \A c \in Functions : defs'[c].requests = defs[c].requests
    BY <1>1 DEF SameButChain
  <2>2. DOMAIN defs'[NewFunction].requests = {}
    BY <1>1 DEF IsNew
  <2>3. \A c \in Functions' : \A n \in DOMAIN defs'[c].requests : RequestOK(c, n)'
    BY <1>1, <1>4, <2>1, <2>2
  <2>4. QED
    BY <2>3, Zenon DEF RequestsMatchProvides, RequestOK
<1>6. GotoReachesLabel'
  <2>1. defs'[NewFunction].gotos = {}
    BY <1>1 DEF IsNew
  <2>2. \A c \in Functions : defs'[c].gotos = defs[c].gotos /\ defs'[c].bound = defs[c].bound
    BY <1>1 DEF SameButChain
  <2>3. QED
    BY <1>1, <2>1, <2>2 DEF ScopesInv, GotoReachesLabel
<1>7. QED
  BY <1>5, <1>6

(* The entry a declaration of a function meets or makes. *)
LEMMA PendingIs ==
  ASSUME ScopesInv, status = "run", NEW n, Pending(n), NEW g, g = Entries(Top)[n].function
  PROVE  /\ Waiting(Top, n) /\ Named(Top, n) /\ EntryShape(Entries(Top)[n])
         /\ n \in DOMAIN Entries(Top) /\ g \in Functions \ {1}
         /\ defs[g].creator = g /\ defs[g].level = Top /\ Len(Chain(g)) = 0
         /\ \A b \in Bodies : defs[b].creator # g
         /\ g \notin Bodies
<1>1. Waiting(Top, n) /\ Named(Top, n) /\ n \in DOMAIN Entries(Top)
  BY DEF Pending, Waiting, Named
<1>2. Top \in Inner /\ Top \in 1 .. Top
  BY TopRuns
<1>3. NamedOK(Top, n) /\ EntryShape(Entries(Top)[n])
  BY <1>1, <1>2 DEF ScopesInv, Names
<1>4. QED
  BY <1>1, <1>3 DEF NamedOK

LEMMA DeclareForwardInv ==
  ASSUME ScopesInv, NEW n, NEW h, DeclareForward(n, h)
  PROVE  ScopesInv'
<1>1. CASE ~FunctionAccepted(n, h)
  BY <1>1, RefusesKeeps DEF DeclareForward, Report, Refuses
<1>2. CASE FunctionAccepted(n, h)
  <2> PICK d, t : d = NewFunction /\ t = Top
    OBVIOUS
  <2> DEFINE creator == IF Pending(n) THEN Entries(Top)[n].function ELSE d
             made == FunctionEntry(d, "pending", h)
             e == IF Pending(n) THEN Entries(Top)[n] ELSE made
             nd == NewDef(h, TRUE, creator, << >>)
  <2>1. /\ scopeStack' = AddEntry(n, made) /\ defs' = Append(defs, nd)
        /\ status' = status /\ status = "run"
    BY <1>2 DEF DeclareForward, Declaring, NewFunction
  <2>2. /\ Shape /\ Top \in Nat /\ Top >= 2 /\ Top \in Inner /\ Top \in 1 .. Top
        /\ Current = Function(Top) /\ Current \in Functions
    BY <2>1, TopRuns
  <2>3. Pending(n) \/ n \notin DOMAIN Entries(Top)
    BY <1>2 DEF FunctionAccepted
  <2>4. IsNew(nd, TRUE, creator, << >>)
    BY NewDefIs
  <2>5. /\ made.entryType = "function" /\ made.pardef = "pending" /\ made.function = d
        /\ EntryShape(made)
    BY DEF FunctionEntry, EntryShape
  <2> HIDE DEF made, nd
  <2>6. Pending(n) => /\ Named(Top, n) /\ EntryShape(Entries(Top)[n]) /\ n \in DOMAIN Entries(Top)
                      /\ Waiting(Top, n)
                      /\ Entries(Top)[n].entryType = "function" /\ Entries(Top)[n].pardef = "pending"
                      /\ creator \in Functions \ {1}
                      /\ defs[creator].creator = creator /\ defs[creator].level = Top
                      /\ Len(Chain(creator)) = 0 /\ \A b \in Bodies : defs[b].creator # creator
    BY <2>1, PendingIs DEF Pending
  <2>7. e.entryType = "function" /\ e.pardef = "pending" /\ e.function = creator /\ EntryShape(e)
    BY <2>5, <2>6
  <2>8. Writes(scopeStack', n, e) /\ SameLabelNames(scopeStack')
    <3>1. CASE Pending(n)
      <4> DEFINE es == Insert(Entries(Top), n, made)
      <4>1. DOMAIN es = DOMAIN Entries(Top) \cup {n}
        BY DEF Insert
      <4>2. \A m \in DOMAIN es : es[m] = IF m = n THEN e ELSE Entries(Top)[m]
        BY <2>6, <3>1 DEF Insert
      <4>3. scopeStack' = Retabled(es)
        BY <2>1 DEF AddEntry, Entries, Retabled
      <4> HIDE DEF es, e
      <4>4. QED
        BY <2>2, <4>1, <4>2, <4>3, TableWritten
    <3>2. CASE ~Pending(n)
      <4>1. e = made
        BY <3>2
      <4>2. n \notin DOMAIN Entries(Top)
        BY <2>3, <3>2
      <4> HIDE DEF e
      <4>3. QED
        BY <2>1, <2>2, <4>1, <4>2, AddEntryWrites
    <3>3. QED
      BY <3>1, <3>2
  <2>9. Added(NoFunction, TRUE, creator, << >>)
    <3>1. IsSeq(defs)
      BY <2>2 DEF Shape
    <3>2. /\ IsSeq(defs') /\ Len(defs') = Len(defs) + 1
          /\ \A c \in 1 .. Len(defs) : defs'[c] = defs[c]
          /\ defs'[Len(defs) + 1] = nd
      BY <2>1, <3>1, AppendSeq
    <3>3. \A c \in Functions : DOMAIN defs[c] = DefFields
      BY <2>2 DEF Shape
    <3> HIDE DEF creator
    <3>4. QED
      BY <2>4, <3>2, <3>3 DEF Added, Functions, NewFunction
  <2>10. IsSeq(<< >>) /\ Len(<< >>) = 0 /\ NoFunction \notin Functions
    BY DEF IsSeq, NoFunction, Functions
  <2>11. /\ d \notin Functions /\ d # 1 /\ d \in Functions' /\ Functions' = Functions \cup {d}
         /\ \A c \in Functions : SameButChain(c) /\ Chain(c)' = Chain(c)
         /\ \A c \in Functions' : /\ DOMAIN defs'[c] = DefFields
                                  /\ IsSeq(Chain(c)') /\ IsSeq(defs'[c].provides)
         /\ IsNew(defs'[d], TRUE, creator, << >>)
         /\ Bodies' = Bodies
    <3> HIDE DEF creator
    <3>1. QED
      BY <2>1, <2>9, <2>10, AddedIs
  <2>12. ~Pending(n) => creator = d /\ n \notin DOMAIN Entries(Top)
    BY <2>3
  <2>13. /\ Top' = Top /\ Inner' = Inner /\ Open' = Open
         /\ \A i \in 1 .. Top : /\ Function(i)' = Function(i)
                                /\ scopeStack'[i].labelNames = scopeStack[i].labelNames
                                /\ DOMAIN scopeStack'[i] = DOMAIN scopeStack[i]
         /\ \A i \in Inner : i \in 1 .. Top
    <3> HIDE DEF e
    <3>1. Top' = Top /\ Inner' = Inner /\ \A i \in Inner : i \in 1 .. Top
      BY <2>2, <2>8 DEF Writes, Top, Inner
    <3>2. \A i \in 1 .. Top : /\ Function(i)' = Function(i)
                                /\ scopeStack'[i].labelNames = scopeStack[i].labelNames
                                /\ DOMAIN scopeStack'[i] = DOMAIN scopeStack[i]
      BY <2>8 DEF Writes, SameLabelNames, Function
    <3>3. Open = { Function(i) : i \in Inner } /\ Open' = { Function(i)' : i \in Inner' }
      BY DEF Open, Function, Inner
    <3>4. Open' = Open
      BY <3>1, <3>2, <3>3
    <3>5. QED
      BY <3>1, <3>2, <3>4
  <2>14. \A i \in 1 .. t : \A m :
           /\ m \in DOMAIN Entries(i)' <=> m \in DOMAIN Entries(i) \/ (i = t /\ m = n)
           /\ m \in DOMAIN Entries(i)' => Entries(i)'[m] = IF i = t /\ m = n THEN e ELSE Entries(i)[m]
    <3> HIDE DEF e
    <3>1. QED
      BY <2>8 DEF Writes, Entries
  <2> PICK g, new : g = creator /\ new = e
    OBVIOUS
  <2> HIDE DEF creator, e
  <2>15. TRUE
    OBVIOUS
  <2>16. Shape'
    <3>1. \A i \in 1 .. t :
            DOMAIN scopeStack'[i] = {"function", "levelEntries", "labelNames", "body"}
              /\ IsSeq(scopeStack'[i].labelNames)
      BY <2>2, <2>13 DEF Shape
    <3>2. IsSeq(scopeStack') /\ IsSeq(defs') /\ status' \in {"run", "done", "error", "undefined"}
      BY <2>1, <2>8, <2>9 DEF Writes, Added
    <3>3. QED
      BY <2>11, <2>13, <3>1, <3>2 DEF Shape, Chain
  <2>17. Nested'
    <3>1. ASSUME NEW i \in Inner
          PROVE  (/\ Function(i) \in Bodies /\ Len(Chain(Function(i))) = i - 1
                  /\ \A k \in 1 .. i - 1 : Chain(Function(i))[k] = Function(k + 1))'
      <4> PICK f : f = Function(i)
        OBVIOUS
      <4>1. /\ f \in Bodies /\ Len(Chain(f)) = i - 1
            /\ \A k \in 1 .. i - 1 : Chain(f)[k] = Function(k + 1)
        BY DEF ScopesInv, Nested
      <4>2. Function(i)' = f /\ Chain(f)' = Chain(f)
        BY <2>11, <2>13, <4>1 DEF Bodies
      <4>3. \A k \in 1 .. i - 1 : Function(k + 1)' = Function(k + 1)
        BY <2>2, <2>13 DEF Inner
      <4>4. QED
        BY <2>11, <4>1, <4>2, <4>3 DEF Chain
    <3>2. (status = "run" => Top >= 2)' /\ (Top >= 1 => Function(1) = NoFunction)'
            /\ (Top >= 2 => Function(2) = 1)'
      BY <2>2, <2>13 DEF ScopesInv, Nested
    <3>3. QED
      BY <2>13, <3>1, <3>2 DEF Nested
  <2>18. Chain(d)' = << >>
    BY <2>11 DEF IsNew, Chain
  <2>19. Chains'
    <3>1. ASSUME NEW c \in Functions, Len(Chain(c)) > 0
          PROVE  ChainOK(c)'
      <4>1. ChainOK(c)
        BY <3>1 DEF ScopesInv, Chains
      <4>2. \A k \in 1 .. Len(Chain(c)) : Chain(c)[k] \in Functions
        BY <4>1 DEF ChainOK
      <4>3. QED
        BY <2>11, <4>1, <4>2 DEF ChainOK
    <3>2. \A c \in Bodies : c \in Functions /\ Len(Chain(c)') > 0
      BY <2>11 DEF ScopesInv, Chains, Bodies
    <3>3. QED
      BY <2>10, <2>11, <2>18, <3>1, <3>2 DEF ScopesInv, Chains
  <2>20. /\ g \in Functions' \ {1} /\ defs'[g].creator = g /\ defs'[g].level = t
         /\ Len(Chain(g)') = 0 /\ \A b \in Bodies : defs'[b].creator # g
    <3>1. \A b \in Bodies : b \in Functions /\ defs'[b].creator = defs[b].creator
                              /\ defs[b].creator \in Functions
      BY <2>11 DEF Bodies, SameButChain, ScopesInv, Creators
    <3>2. CASE Pending(n)
      BY <2>6, <2>11, <3>1, <3>2 DEF SameButChain
    <3>3. CASE ~Pending(n)
      <4>1. g = d /\ defs'[d].creator = d /\ defs'[d].level = t
        BY <2>11, <2>12, <3>3 DEF IsNew
      <4>2. QED
        BY <2>10, <2>11, <2>18, <3>1, <4>1
    <3>4. QED
      BY <3>2, <3>3
  <2>21. Creators'
    <3>1. ASSUME NEW c \in Functions'
          PROVE  (/\ defs[c].creator \in Functions /\ defs[defs[c].creator].creator = defs[c].creator
                  /\ defs[c].creator = 1 => c = 1)'
      <4>1. CASE c \in Functions
        <5> PICK a : a = defs[c].creator
          OBVIOUS
        <5>1. a \in Functions /\ defs[a].creator = a /\ (a = 1 => c = 1)
          BY <4>1 DEF ScopesInv, Creators
        <5>2. defs'[c].creator = a /\ defs'[a].creator = a
          BY <2>11, <4>1, <5>1 DEF SameButChain
        <5>3. QED
          BY <2>11, <5>1, <5>2
      <4>2. CASE c = d
        <5>1. defs'[c].creator = g
          BY <2>11, <4>2 DEF IsNew
        <5>2. QED
          BY <2>20, <5>1
      <4>3. QED
        BY <2>11, <4>1, <4>2
    <3>2. ASSUME NEW b \in Bodies
          PROVE  (/\ defs[defs[b].creator].level = Len(Chain(b)) /\ Siblings(b, defs[b].creator)
                  /\ \A c \in Bodies : defs[c].creator = defs[b].creator => c = b)'
      <4> PICK a : a = defs[b].creator
        OBVIOUS
      <4>1. /\ a \in Functions /\ defs[a].level = Len(Chain(b)) /\ Siblings(b, a)
            /\ \A c \in Bodies : defs[c].creator = a => c = b
            /\ b \in Functions
        BY DEF ScopesInv, Creators, Bodies
      <4>2. /\ defs'[b].creator = a /\ defs'[a].level = defs[a].level
            /\ Chain(a)' = Chain(a) /\ Chain(b)' = Chain(b)
            /\ \A c \in Bodies : defs'[c].creator = defs[c].creator
        BY <2>11, <4>1 DEF SameButChain, Bodies
      <4>3. QED
        BY <2>11, <4>1, <4>2 DEF Siblings, Chain
    <3>3. QED
      <4>1. (defs[1].creator = 1)'
        <5>1. 1 \in Functions /\ defs[1].creator = 1
          BY DEF ScopesInv, Chains, Bodies, Creators
        <5>2. QED
          BY <2>11, <5>1 DEF SameButChain
      <4>2. QED
        BY <2>11, <3>1, <3>2, <4>1 DEF Creators
  <2>22. \A i \in 1 .. t : \A m : (i # t \/ m # n) =>
           /\ Named(i, m)' <=> Named(i, m)
           /\ Waiting(i, m)' <=> Waiting(i, m)
           /\ Named(i, m) => Entries(i)'[m].function = Entries(i)[m].function
    BY <2>14 DEF Named, Waiting
  <2>23. Named(t, n)' /\ Waiting(t, n)' /\ Entries(t)'[n].function = g
    BY <2>2, <2>7, <2>13, <2>14 DEF Named, Waiting, Entries
  <2>24. Names'
    <3>1. (\A i \in 1 .. Top : \A x \in DOMAIN Entries(i) : EntryShape(Entries(i)[x]))'
      BY <2>1, <2>7, <2>8, <2>13, EntryShapes
    <3>2. (Top >= 1 => \A x \in DOMAIN Entries(1) :
                         Named(1, x) /\ ~Waiting(1, x) /\ Entries(1)[x].function = NoFunction)'
      <4>1. 1 \in 1 .. t /\ 1 # t
        BY <2>2
      <4>2. QED
        BY <2>14, <2>22, <4>1 DEF ScopesInv, Names
    <3>3. ASSUME NEW i \in Inner, NEW m, Named(i, m)' PROVE NamedOK(i, m)'
      <4>1. CASE i = t /\ m = n
        <5>1. Entries(i)'[m].function = g /\ Waiting(i, m)'
          BY <2>23, <4>1
        <5>2. QED
          BY <2>11, <2>20, <4>1, <5>1 DEF NamedOK, Chain
      <4>2. CASE i # t \/ m # n
        <5> PICK f : f = Entries(i)[m].function
          OBVIOUS
        <5>1. Named(i, m) /\ (Waiting(i, m)' <=> Waiting(i, m)) /\ Entries(i)'[m].function = f
          BY <2>13, <2>22, <3>3, <4>2
        <5>2. /\ f \in Functions \ {1} /\ defs[f].creator = f /\ defs[f].level = i
              /\ Waiting(i, m) => Len(Chain(f)) = 0 /\ \A b \in Bodies : defs[b].creator # f
              /\ ~Waiting(i, m) =>
                   Len(Chain(f)) = i /\ \A k \in 1 .. i - 1 : Chain(f)[k] = Function(k + 1)
          BY <5>1 DEF ScopesInv, Names, NamedOK
        <5>3. \A k \in 1 .. i - 1 : Function(k + 1)' = Function(k + 1)
          BY <2>2, <2>13 DEF Inner
        <5>4. /\ Chain(f)' = Chain(f) /\ defs'[f].creator = f /\ defs'[f].level = i
              /\ \A b \in Bodies : defs'[b].creator = defs[b].creator
          BY <2>11, <5>2 DEF SameButChain, Bodies
        <5>5. QED
          BY <2>11, <5>1, <5>2, <5>3, <5>4 DEF NamedOK, Chain
      <4>3. QED
        BY <4>1, <4>2
    <3>4. ASSUME NEW i \in Inner, NEW m, Named(i, m), (i # t \/ m # n)
          PROVE  Entries(i)[m].function # g
      <4>1. Entries(i)[m].function \in Functions
        BY <3>4 DEF ScopesInv, Names, NamedOK
      <4>2. CASE Pending(n)
        <5>1. Named(t, n) /\ Entries(t)[n].function = g
          BY <2>6, <4>2 DEF creator
        <5>2. QED
          BY <2>2, <3>4, <5>1 DEF ScopesInv, Names
      <4>3. CASE ~Pending(n)
        BY <2>11, <2>12, <4>1, <4>3
      <4>4. QED
        BY <4>2, <4>3
    <3>5. (\A i \in Inner, j \in Inner : \A m, l :
             (Named(i, m) /\ Named(j, l) /\ Entries(i)[m].function = Entries(j)[l].function)
               => i = j /\ m = l)'
      BY <2>13, <2>22, <2>23, <3>4 DEF ScopesInv, Names
    <3>6. QED
      BY <2>13, <3>1, <3>2, <3>3, <3>5 DEF Names
  <2>25. CallsOK'
    <3>1. ASSUME NEW c \in Functions', NEW f \in defs'[c].calls
          PROVE  c \in Functions /\ f \in defs[c].calls
      BY <2>11, <3>1 DEF IsNew, SameButChain
    <3>2. ASSUME NEW c \in Functions', NEW f \in defs'[c].calls
          PROVE  (/\ f \in Functions \ {1} /\ defs[f].creator = f /\ c \in Bodies
                  /\ Len(Chain(f)) > 0 => Sees(c, f))'
      <4>1. /\ c \in Functions /\ f \in Functions \ {1} /\ defs[f].creator = f /\ c \in Bodies
            /\ Len(Chain(f)) > 0 => Sees(c, f)
        BY <3>1 DEF ScopesInv, CallsOK
      <4>2. Chain(c)' = Chain(c) /\ Chain(f)' = Chain(f) /\ defs'[f].creator = f
        BY <2>11, <4>1 DEF SameButChain
      <4>3. QED
        BY <2>11, <4>1, <4>2 DEF Sees, Chain
    <3>3. ASSUME NEW i \in Inner, NEW m, Waiting(i, m)', NEW c \in Functions',
                 Entries(i)'[m].function \in defs'[c].calls
          PROVE  Inside(c, i)'
      <4> PICK f : f = Entries(i)'[m].function
        OBVIOUS
      <4>1. c \in Functions /\ f \in defs[c].calls /\ f \in Functions
        BY <3>1, <3>3 DEF ScopesInv, CallsOK
      <4>2. Waiting(i, m) /\ Entries(i)[m].function = f
        <5>1. CASE i = t /\ m = n
          <6>1. f = g /\ Pending(n)
            BY <2>11, <2>12, <2>23, <4>1, <5>1
          <6>2. QED
            BY <2>6, <5>1, <6>1 DEF creator
        <5>2. CASE i # t \/ m # n
          BY <2>13, <2>22, <3>3, <5>2 DEF Waiting
        <5>3. QED
          BY <5>1, <5>2
      <4>3. Inside(c, i)
        BY <4>1, <4>2 DEF ScopesInv, CallsOK
      <4>4. Chain(c)' = Chain(c) /\ \A k \in 1 .. i - 1 : Function(k + 1)' = Function(k + 1)
        <5>1. Chain(c)' = Chain(c)
          BY <2>11, <4>1
        <5>2. \A k \in 1 .. i - 1 : k + 1 \in 1 .. t
          BY <2>2 DEF Inner
        <5>3. QED
          BY <2>13, <5>1, <5>2
      <4>5. QED
        BY <4>3, <4>4 DEF Inside, Chain
    <3>4. QED
      BY <2>13, <3>2, <3>3 DEF CallsOK
  <2>26. VariablesOK'
    <3>1. ASSUME NEW i \in Inner, NEW m \in DOMAIN Entries(i)', Entries(i)'[m].entryType = "variable"
          PROVE  m \in defs'[Function(i)'].locals
      <4>1. m \in DOMAIN Entries(i) /\ Entries(i)[m].entryType = "variable"
        BY <2>7, <2>13, <2>14, <3>1
      <4>2. Function(i) \in Functions /\ m \in defs[Function(i)].locals
        BY <4>1 DEF ScopesInv, VariablesOK, Nested, Bodies
      <4>3. QED
        BY <2>11, <2>13, <4>2 DEF SameButChain
    <3>2. ASSUME NEW c \in Functions
          PROVE  /\ defs'[c].refs \subseteq defs'[c].locals
                 /\ \A k \in 1 .. Len(defs'[c].provides) : defs'[c].provides[k] \in defs'[c].locals
      <4>1. /\ defs[c].refs \subseteq defs[c].locals
            /\ \A k \in 1 .. Len(defs[c].provides) : defs[c].provides[k] \in defs[c].locals
        BY DEF ScopesInv, VariablesOK
      <4>2. /\ defs'[c].refs = defs[c].refs /\ defs'[c].locals = defs[c].locals
            /\ defs'[c].provides = defs[c].provides
        BY <2>11 DEF SameButChain
      <4>3. QED
        BY <4>1, <4>2
    <3>3. /\ defs'[d].refs \subseteq defs'[d].locals /\ defs'[d].provides = << >>
      BY <2>11 DEF IsNew
    <3>4. defs'[1].refs = {}
      <4>1. 1 \in Functions /\ defs[1].refs = {}
        BY DEF ScopesInv, VariablesOK, Chains, Bodies
      <4>2. QED
        BY <2>11, <4>1 DEF SameButChain
    <3>5. QED
      BY <2>10, <2>11, <2>13, <3>1, <3>2, <3>3, <3>4 DEF VariablesOK
  <2>27. RequestsMatchProvides' /\ GotoReachesLabel'
    BY <2>1, <2>9, <2>10, <2>13, AddedKeeps
  <2>28. LabelsOK'
    <3>1. \A i \in Inner : \A l : /\ IsLabelIn(i, l)' <=> IsLabelIn(i, l)
                                  /\ IsLabelIn(i, l) => Entries(i)'[l] = Entries(i)[l]
      <4>1. ~IsLabelIn(t, n)
        BY <2>3, <2>6 DEF IsLabelIn
      <4>2. QED
        BY <2>7, <2>13, <2>14, <4>1 DEF IsLabelIn
    <3>2. ASSUME NEW i \in Inner
          PROVE  (/\ \A k \in 1 .. Len(scopeStack[i].labelNames) : IsLabelIn(i, scopeStack[i].labelNames[k])
                  /\ \A l : IsLabelIn(i, l) =>
                       /\ \E k \in 1 .. Len(scopeStack[i].labelNames) : scopeStack[i].labelNames[k] = l
                       /\ Entries(i)[l].isBound => l \in defs[Function(i)].bound
                  /\ \A l \in defs[Function(i)].gotos : IsLabelIn(i, l) /\ Entries(i)[l].isTargeted)'
      <4> PICK f, ns : f = Function(i) /\ ns = scopeStack[i].labelNames
        OBVIOUS
      <4>1. f \in Functions /\ Function(i)' = f /\ scopeStack'[i].labelNames = ns
        BY <2>13 DEF ScopesInv, Nested, Bodies
      <4>2. defs'[f].gotos = defs[f].gotos /\ defs'[f].bound = defs[f].bound
        BY <2>11, <4>1 DEF SameButChain
      <4>3. /\ \A k \in 1 .. Len(ns) : IsLabelIn(i, ns[k])
            /\ \A l : IsLabelIn(i, l) =>
                 (\E k \in 1 .. Len(ns) : ns[k] = l) /\ (Entries(i)[l].isBound => l \in defs[f].bound)
            /\ \A l \in defs[f].gotos : IsLabelIn(i, l) /\ Entries(i)[l].isTargeted
        BY DEF ScopesInv, LabelsOK
      <4>4. /\ \A k \in 1 .. Len(ns) : IsLabelIn(i, ns[k])'
            /\ \A l : IsLabelIn(i, l)' =>
                 (\E k \in 1 .. Len(ns) : ns[k] = l) /\ (Entries(i)'[l].isBound => l \in defs'[f].bound)
            /\ \A l \in defs'[f].gotos : IsLabelIn(i, l)' /\ Entries(i)'[l].isTargeted
        BY <3>1, <4>2, <4>3
      <4>5. QED
        BY <4>1, <4>4 DEF IsLabelIn
    <3>3. QED
      <4>1. (Top >= 1 => Len(scopeStack[1].labelNames) = 0)'
        <5>1. 1 \in 1 .. t /\ Top >= 1 /\ scopeStack'[1].labelNames = scopeStack[1].labelNames
          BY <2>2, <2>13
        <5>2. QED
          BY <5>1 DEF ScopesInv, LabelsOK
      <4>2. QED
        BY <2>13, <3>2, <4>1 DEF LabelsOK
  <2>29. QED
    BY <2>16, <2>17, <2>19, <2>21, <2>24, <2>25, <2>26, <2>27, <2>28 DEF ScopesInv
<1>3. QED
  BY <1>1, <1>2

LEMMA FunctionScopeIs ==
  ASSUME NEW d, NEW h
  PROVE  LET s == FunctionScope(d, h)
         IN  /\ DOMAIN s = {"function", "levelEntries", "labelNames", "body"}
             /\ s.function = d /\ s.labelNames = << >>
             /\ \A x \in DOMAIN s.levelEntries : s.levelEntries[x].entryType = "variable"
<1> DEFINE variable(x) == IF x = "result" THEN VariableEntry(h.type)
                          ELSE VariableEntry((CHOOSE p \in ToSet(Parameters(h)) : p.name = x).type)
           es == [x \in ParametersNamed(h, BOOLEAN)
                          \cup (IF Equals(h.type, typeVoid) THEN {} ELSE {"result"}) |-> variable(x)]
<1>1. \A x : variable(x).entryType = "variable"
  BY DEF VariableEntry
<1> HIDE DEF variable
<1>2. \A x \in DOMAIN es : es[x].entryType = "variable"
  BY <1>1
<1>3. FunctionScope(d, h) = [function |-> d, levelEntries |-> es, labelNames |-> << >>, body |-> FALSE]
  BY DEF FunctionScope, variable
<1> HIDE DEF es
<1>4. QED
  BY <1>2, <1>3

(* The FunctionDefs after a definition. *)
WithChain(forward, chain) == [defs EXCEPT ![forward].chain = chain]

WithDefinition(forward, parents, h, creator) ==
  Append(IF forward = NoFunction THEN defs ELSE WithChain(forward, Append(parents, forward)),
         NewDef(h, FALSE, creator, Append(parents, NewFunction)))

LEMMA DefinitionAdded ==
  ASSUME ScopesInv, status = "run", NEW parents, IsSeq(parents), NEW forward, NEW h, NEW creator,
         forward = NoFunction \/ forward \in Functions,
         defs' = WithDefinition(forward, parents, h, creator)
  PROVE  /\ Added(forward, FALSE, creator, Append(parents, NewFunction))
         /\ forward # NoFunction => defs'[forward].chain = Append(parents, forward)
         /\ defs'[NewFunction].locals = DOMAIN FunctionScope(NewFunction, h).levelEntries
<1> DEFINE nd == NewDef(h, FALSE, creator, Append(parents, NewFunction))
           chain == Append(parents, forward)
           fd == [defs[forward] EXCEPT !.chain = chain]
           ds == IF forward = NoFunction THEN defs ELSE Updated(defs, forward, fd)
<1>1. IsNew(nd, FALSE, creator, Append(parents, NewFunction))
        /\ nd.locals = DOMAIN FunctionScope(NewFunction, h).levelEntries
  BY NewDefIs DEF NewFunction
<1>2. defs' = Append(ds, nd)
  <2> HIDE DEF nd, chain
  <2>1. WithChain(forward, chain) = Updated(defs, forward, fd)
    BY DEF Updated, WithChain
  <2>2. QED
    BY <2>1 DEF chain, nd, WithDefinition
<1> HIDE DEF nd, chain
<1>3. Shape /\ IsSeq(defs) /\ \A c \in Functions : DOMAIN defs[c] = DefFields
  BY DEF ScopesInv, Shape
<1>4. forward # NoFunction =>
        /\ DOMAIN fd = DefFields /\ fd.chain = chain
        /\ \A f \in DefFields \ {"chain"} : fd[f] = defs[forward][f]
  BY <1>3 DEF DefFields
<1> HIDE DEF fd
<1>5. /\ IsSeq(ds) /\ Len(ds) = Len(defs)
      /\ \A c \in Functions : ds[c] = IF forward # NoFunction /\ c = forward THEN fd ELSE defs[c]
  <2>1. CASE forward = NoFunction
    BY <1>3, <2>1
  <2>2. CASE forward # NoFunction
    <3>1. forward \in 1 .. Len(defs)
      BY <2>2 DEF Functions
    <3>2. /\ IsSeq(Updated(defs, forward, fd)) /\ Len(Updated(defs, forward, fd)) = Len(defs)
          /\ \A c \in 1 .. Len(defs) :
               Updated(defs, forward, fd)[c] = IF c = forward THEN fd ELSE defs[c]
      BY <1>3, <3>1, UpdateSeq
    <3>3. ds = Updated(defs, forward, fd)
      BY <2>2
    <3>4. QED
      BY <2>2, <3>2, <3>3 DEF Functions
  <2>3. QED
    BY <2>1, <2>2
<1> HIDE DEF ds
<1>6. /\ IsSeq(defs') /\ Len(defs') = Len(defs) + 1
      /\ \A c \in Functions : defs'[c] = ds[c]
      /\ defs'[NewFunction] = nd
  <2>1. /\ IsSeq(Append(ds, nd)) /\ Len(Append(ds, nd)) = Len(ds) + 1
        /\ \A c \in 1 .. Len(ds) : Append(ds, nd)[c] = ds[c]
        /\ Append(ds, nd)[Len(ds) + 1] = nd
    BY <1>5, AppendSeq
  <2>2. Len(ds) = Len(defs) /\ Functions = 1 .. Len(defs) /\ NewFunction = Len(defs) + 1
    BY <1>5 DEF Functions, NewFunction
  <2>3. QED
    BY <1>2, <2>1, <2>2
<1>7. \A c \in Functions :
        /\ DOMAIN defs'[c] = DefFields
        /\ \A f \in DefFields : c # forward \/ f # "chain" => defs'[c][f] = defs[c][f]
  BY <1>3, <1>4, <1>5, <1>6
<1>8. forward # NoFunction => defs'[forward].chain = chain
  BY <1>4, <1>5, <1>6
<1>9. QED
  BY <1>1, <1>6, <1>7, <1>8 DEF Added, chain

LEMMA DefineFunctionInv ==
  ASSUME ScopesInv, NEW n, NEW h, DefineFunction(n, h)
  PROVE  ScopesInv'
<1> DEFINE accepted == ~(~FunctionAccepted(n, h) \/ ~IsInjective(ParameterNames(h)))
<1>1. CASE ~accepted
  BY <1>1, RefusesKeeps DEF DefineFunction, Report, Refuses
<1>2. CASE accepted
  <2> PICK d, t, parents : d = NewFunction /\ t = Top /\ parents = defs[Current].chain
    OBVIOUS
  <2> DEFINE forward == IF Pending(n) THEN Entries(Top)[n].function ELSE NoFunction
             creator == IF Pending(n) THEN forward ELSE d
             e == IF Pending(n) THEN [Entries(Top)[n] EXCEPT !.pardef = "complete"]
                  ELSE FunctionEntry(d, "complete", h)
             scope == FunctionScope(d, h)
             ss == SetEntry(n, e)
             nd == NewDef(h, FALSE, creator, Append(parents, d))
  <2>1. /\ scopeStack' = Append(ss, scope)
        /\ defs' = Append(IF forward = NoFunction THEN defs
                          ELSE [defs EXCEPT ![forward].chain = Append(parents, forward)], nd)
        /\ status' = status /\ status = "run"
        /\ FunctionAccepted(n, h)
    BY <1>2 DEF DefineFunction, Declaring, NewFunction
  <2> HIDE DEF accepted
  <2>2. /\ Shape /\ t \in Nat /\ t >= 2 /\ t \in Inner /\ t \in 1 .. t
        /\ Current = Function(t) /\ Current \in Functions
        /\ IsSeq(parents) /\ Len(parents) = t - 1
        /\ \A k \in 1 .. t - 1 : parents[k] = Function(k + 1)
    BY <2>1, TopRuns DEF Shape, Chain
  <2>3. Pending(n) \/ n \notin DOMAIN Entries(t)
    BY <2>1 DEF FunctionAccepted
  <2> PICK f0, g : f0 = forward /\ g = creator
    OBVIOUS
  <2>4. Pending(n) => /\ Named(t, n) /\ EntryShape(Entries(t)[n]) /\ n \in DOMAIN Entries(t)
                      /\ Waiting(t, n) /\ Entries(t)[n].function = g
                      /\ Entries(t)[n].entryType = "function" /\ Entries(t)[n].pardef = "pending"
                      /\ f0 = g /\ g \in Functions \ {1} /\ g \notin Bodies
                      /\ defs[g].creator = g /\ defs[g].level = t
                      /\ Len(Chain(g)) = 0 /\ \A b \in Bodies : defs[b].creator # g
    BY <2>1, PendingIs DEF Pending
  <2>5. ~Pending(n) => f0 = NoFunction /\ g = d
    OBVIOUS
  <2>6. e.entryType = "function" /\ e.pardef = "complete" /\ e.function = g /\ EntryShape(e)
    <3>1. CASE Pending(n)
      <4> PICK old : old = Entries(t)[n]
        OBVIOUS
      <4>1. DOMAIN old = {"entryType", "function", "pardef", "header"} /\ old.entryType = "function"
              /\ old.function = g
        BY <2>4, <3>1 DEF EntryShape
      <4>2. e = [old EXCEPT !.pardef = "complete"]
        BY <3>1
      <4>3. QED
        BY <4>1, <4>2 DEF EntryShape
    <3>2. CASE ~Pending(n)
      BY <2>5, <3>2 DEF EntryShape, FunctionEntry
    <3>3. QED
      BY <3>1, <3>2
  <2> HIDE DEF e
  <2>7. Writes(ss, n, e) /\ SameLabelNames(ss)
    BY <2>2, SetEntryWrites
  <2>8. /\ DOMAIN scope = {"function", "levelEntries", "labelNames", "body"}
        /\ scope.function = d /\ scope.labelNames = << >>
        /\ \A x \in DOMAIN scope.levelEntries : scope.levelEntries[x].entryType = "variable"
    BY FunctionScopeIs
  <2> HIDE DEF ss, scope
  <2>9. /\ IsSeq(scopeStack') /\ Top' = t + 1
        /\ \A i \in 1 .. t : scopeStack'[i] = ss[i]
        /\ scopeStack'[t + 1] = scope
    <3>1. IsSeq(ss) /\ Len(ss) = t
      BY <2>7 DEF Writes
    <3>2. QED
      BY <2>1, <3>1, AppendSeq DEF Top
  <2>10. f0 = NoFunction \/ f0 \in Functions
    BY <2>4, <2>5
  <2>11. /\ Added(f0, FALSE, g, Append(parents, d))
         /\ f0 # NoFunction => defs'[f0].chain = Append(parents, f0)
         /\ defs'[d].locals = DOMAIN scope.levelEntries
    <3> HIDE DEF forward, creator
    <3>1. defs' = WithDefinition(f0, parents, h, g)
      BY <2>1 DEF WithChain, WithDefinition
    <3>2. /\ Added(f0, FALSE, g, Append(parents, NewFunction))
          /\ f0 # NoFunction => defs'[f0].chain = Append(parents, f0)
          /\ defs'[NewFunction].locals = DOMAIN FunctionScope(NewFunction, h).levelEntries
      <4>1. status = "run" /\ IsSeq(parents)
        BY <2>1, <2>2
      <4>2. QED
        BY <2>10, <3>1, <4>1, DefinitionAdded, ZenonT(30)
    <3>3. QED
      BY <3>2 DEF scope
  <2>12. NoFunction \notin Functions /\ IsSeq(<< >>) /\ Len(<< >>) = 0
    BY DEF NoFunction, Functions, IsSeq
  <2>13. \A c : /\ IsSeq(Append(parents, c)) /\ Len(Append(parents, c)) = t
                /\ \A k \in 1 .. t - 1 : Append(parents, c)[k] = Function(k + 1)
                /\ Append(parents, c)[t] = c
    <3>1. ASSUME NEW c
          PROVE  /\ IsSeq(Append(parents, c)) /\ Len(Append(parents, c)) = t
                 /\ \A k \in 1 .. t - 1 : Append(parents, c)[k] = Function(k + 1)
                 /\ Append(parents, c)[t] = c
      <4>1. /\ IsSeq(Append(parents, c)) /\ Len(Append(parents, c)) = Len(parents) + 1
            /\ \A k \in 1 .. Len(parents) : Append(parents, c)[k] = parents[k]
            /\ Append(parents, c)[Len(parents) + 1] = c
        BY <2>2, AppendSeq
      <4>2. Len(parents) = t - 1 /\ Len(parents) + 1 = t
        BY <2>2
      <4>3. QED
        BY <2>2, <4>1, <4>2
    <3>2. QED
      BY <3>1
  <2> HIDE DEF forward, creator, nd
  <2>14. f0 \in Functions => Pending(n) /\ f0 = g
    BY <2>4, <2>5, <2>12
  <2>15. f0 \in Functions => Len(Chain(f0)) = 0 /\ IsSeq(defs'[f0].chain)
    <3>1. ASSUME f0 \in Functions PROVE Len(Chain(f0)) = 0 /\ IsSeq(defs'[f0].chain)
      <4>1. f0 # NoFunction /\ Pending(n) /\ f0 = g
        BY <2>12, <2>14, <3>1
      <4>2. Len(Chain(f0)) = 0 /\ defs'[f0].chain = Append(parents, f0)
        BY <2>4, <2>11, <4>1
      <4>3. QED
        BY <2>13, <4>2
    <3>2. QED
      BY <3>1
  <2>16. /\ d \notin Functions /\ d # 1 /\ Functions' = Functions \cup {d}
         /\ \A c \in Functions : SameButChain(c) /\ (c # f0 => Chain(c)' = Chain(c))
         /\ \A c \in Functions' : /\ DOMAIN defs'[c] = DefFields
                                  /\ IsSeq(Chain(c)') /\ IsSeq(defs'[c].provides)
         /\ IsNew(defs'[d], FALSE, g, Append(parents, d))
         /\ Bodies' = Bodies \cup {d}
    BY <2>1, <2>11, <2>13, <2>15, AddedIs
  <2>17. /\ Bodies \subseteq Functions /\ f0 \notin Bodies
         /\ \A c \in Bodies : Chain(c)' = Chain(c)
    <3>1. Bodies \subseteq Functions /\ f0 \notin Bodies
      BY <2>4, <2>14 DEF Bodies
    <3>2. QED
      BY <2>16, <3>1
  <2>18. /\ \A i \in 1 .. t : /\ Function(i)' = Function(i)
                              /\ scopeStack'[i].labelNames = scopeStack[i].labelNames
                              /\ DOMAIN scopeStack'[i] = DOMAIN scopeStack[i]
         /\ Inner' = Inner \cup {t + 1} /\ \A i \in Inner : i \in 1 .. t /\ i \in 2 .. t
         /\ \A i \in 1 .. t : \A m :
              /\ m \in DOMAIN Entries(i)' <=> m \in DOMAIN Entries(i) \/ (i = t /\ m = n)
              /\ m \in DOMAIN Entries(i)' => Entries(i)'[m] = IF i = t /\ m = n THEN e ELSE Entries(i)[m]
    <3>1. \A i \in 1 .. t : /\ Function(i)' = Function(i)
                            /\ scopeStack'[i].labelNames = scopeStack[i].labelNames
                            /\ DOMAIN scopeStack'[i] = DOMAIN scopeStack[i]
      BY <2>7, <2>9 DEF Writes, SameLabelNames, Function
    <3>2. \A i \in Inner : i \in 1 .. t /\ i \in 2 .. t
      BY <2>2 DEF Inner
    <3>3. Inner' = Inner \cup {t + 1}
      <4>1. Inner' = 2 .. t + 1 /\ Inner = 2 .. t
        BY <2>9 DEF Inner
      <4>2. 2 .. t + 1 = 2 .. t \cup {t + 1}
        BY <2>2
      <4>3. QED
        BY <4>1, <4>2
    <3>4. \A i \in 1 .. t : \A m :
              /\ m \in DOMAIN Entries(i)' <=> m \in DOMAIN Entries(i) \/ (i = t /\ m = n)
              /\ m \in DOMAIN Entries(i)' => Entries(i)'[m] = IF i = t /\ m = n THEN e ELSE Entries(i)[m]
      BY <2>7, <2>9 DEF Writes, Entries
    <3>5. QED
      BY <3>1, <3>2, <3>3, <3>4
  <2>19. Function(t + 1)' = d /\ Entries(t + 1)' = scope.levelEntries /\ scopeStack'[t + 1] = scope
    BY <2>8, <2>9 DEF Function, Entries
  <2>20. \A i \in Inner : \A k \in 1 .. i - 1 :
           /\ k + 1 \in 1 .. t /\ k + 1 \in Inner /\ Function(k + 1)' = Function(k + 1)
    <3>1. \A i \in Inner : \A k \in 1 .. i - 1 : k + 1 \in 1 .. t /\ k + 1 \in Inner
      BY <2>2 DEF Inner
    <3>2. QED
      BY <2>18, <3>1
  <2>21. \A c \in {d, g} : /\ c \in Functions' /\ Len(Chain(c)') = t
                           /\ \A k \in 1 .. t - 1 : Chain(c)'[k] = Function(k + 1)
                           /\ Chain(c)'[t] = c
    <3>1. Chain(d)' = Append(parents, d)
      BY <2>16 DEF IsNew, Chain
    <3>2. Chain(g)' = Append(parents, g)
      <4>1. CASE Pending(n)
        <5>1. f0 = g /\ f0 # NoFunction
          BY <2>4, <2>12, <4>1
        <5>2. QED
          BY <2>11, <5>1 DEF Chain
      <4>2. CASE ~Pending(n)
        BY <2>5, <3>1, <4>2
      <4>3. QED
        BY <4>1, <4>2
    <3>3. d \in Functions' /\ g \in Functions'
      BY <2>4, <2>5, <2>16
    <3>4. ASSUME NEW c \in {d, g}
          PROVE  /\ c \in Functions' /\ Len(Chain(c)') = t
                 /\ \A k \in 1 .. t - 1 : Chain(c)'[k] = Function(k + 1)
                 /\ Chain(c)'[t] = c
      <4>1. Chain(c)' = Append(parents, c) /\ c \in Functions'
        BY <3>1, <3>2, <3>3
      <4>2. QED
        BY <2>13, <4>1
    <3>5. QED
      BY <3>4
  <2>22. Open \subseteq Open'
    <3>1. Open = { Function(i) : i \in Inner } /\ Open' = { Function(i)' : i \in Inner' }
      BY DEF Open, Function, Inner
    <3>2. QED
      BY <2>18, <3>1
  <2>23. RequestsMatchProvides' /\ GotoReachesLabel'
    BY <2>1, <2>11, <2>13, <2>15, <2>22, AddedKeeps
  <2>24. Shape'
    <3>1. \A i \in 1 .. Top' : i \in 1 .. t \/ i = t + 1
      BY <2>2, <2>9
    <3>2. \A i \in 1 .. Top' :
            DOMAIN scopeStack'[i] = {"function", "levelEntries", "labelNames", "body"}
              /\ IsSeq(scopeStack'[i].labelNames)
      BY <2>2, <2>8, <2>12, <2>18, <2>19, <3>1 DEF Shape
    <3>3. IsSeq(scopeStack') /\ IsSeq(defs') /\ status' \in {"run", "done", "error", "undefined"}
      BY <2>1, <2>9, <2>11 DEF Added
    <3>4. QED
      BY <2>16, <3>2, <3>3 DEF Shape, Chain
  <2>25. Nested'
    <3>1. ASSUME NEW i \in Inner'
          PROVE  (/\ Function(i) \in Bodies /\ Len(Chain(Function(i))) = i - 1
                  /\ \A k \in 1 .. i - 1 : Chain(Function(i))[k] = Function(k + 1))'
      <4>1. CASE i \in Inner
        <5> PICK f : f = Function(i)
          OBVIOUS
        <5>1. /\ f \in Bodies /\ Len(Chain(f)) = i - 1
              /\ \A k \in 1 .. i - 1 : Chain(f)[k] = Function(k + 1)
          BY <4>1 DEF ScopesInv, Nested
        <5>2. Function(i)' = f /\ Chain(f)' = Chain(f)
          BY <2>17, <2>18, <4>1, <5>1
        <5>3. \A k \in 1 .. i - 1 : Function(k + 1)' = Function(k + 1)
          BY <2>20, <4>1
        <5>4. QED
          BY <2>16, <5>1, <5>2, <5>3 DEF Chain
      <4>2. CASE i = t + 1
        <5>1. Len(Chain(d)') = i - 1 /\ Function(i)' = d /\ d \in Bodies' /\ i - 1 = t
          BY <2>2, <2>16, <2>19, <2>21, <4>2
        <5>2. ASSUME NEW k \in 1 .. i - 1 PROVE Chain(d)'[k] = Function(k + 1)'
          <6>1. CASE k = t
            BY <2>19, <2>21, <6>1
          <6>2. CASE k # t
            <7>1. k \in 1 .. t - 1
              BY <2>2, <4>2, <6>2
            <7>2. QED
              BY <2>2, <2>20, <2>21, <7>1
          <6>3. QED
            BY <6>1, <6>2
        <5>3. QED
          BY <5>1, <5>2 DEF Chain
      <4>3. QED
        BY <2>18, <4>1, <4>2
    <3>2. (status = "run" => Top >= 2)' /\ (Top >= 1 => Function(1) = NoFunction)'
            /\ (Top >= 2 => Function(2) = 1)'
      <4>1. t + 1 >= 2 /\ 1 \in 1 .. t /\ 2 \in 1 .. t /\ Top >= 1 /\ Top >= 2
        BY <2>2
      <4>2. QED
        BY <2>9, <2>18, <4>1 DEF ScopesInv, Nested
    <3>3. QED
      BY <3>1, <3>2 DEF Nested
  <2>26. ASSUME NEW c \in Functions, Len(Chain(c)) > 0
         PROVE  c # f0 /\ Chain(c)' = Chain(c)
    <3>1. c # f0
      BY <2>15, <2>26
    <3>2. QED
      BY <2>16, <3>1
  <2>27. Chains'
    <3>1. ASSUME NEW c \in Functions, Len(Chain(c)) > 0
          PROVE  ChainOK(c)'
      <4>1. ChainOK(c) /\ Chain(c)' = Chain(c) /\ IsSeq(Chain(c))
        BY <2>2, <2>26, <3>1 DEF ScopesInv, Chains, Shape
      <4>2. ASSUME NEW k \in 1 .. Len(Chain(c))
            PROVE  Chain(c)[k] \in Functions /\ Chain(Chain(c)[k])' = Chain(Chain(c)[k])
        <5> PICK a : a = Chain(c)[k]
          OBVIOUS
        <5>1. a \in Functions /\ Len(Chain(a)) = k /\ k \in Nat /\ k > 0
          BY <4>1 DEF ChainOK, IsSeq
        <5>2. Chain(a)' = Chain(a)
          BY <2>26, <5>1
        <5>3. a = Chain(c)'[k]
          BY <4>1
        <5>4. QED
          BY <4>1, <5>1, <5>2
      <4>3. QED
        BY <2>16, <4>1, <4>2 DEF ChainOK
    <3>2. ASSUME NEW c \in {d, g}
          PROVE  ChainOK(c)'
      <4>1. Chain(c)'[1] = 1 /\ Chain(c)'[Len(Chain(c)')] = c
        <5>1. 1 \in 1 .. t - 1 /\ Function(2) = 1
          BY <2>2 DEF ScopesInv, Nested
        <5>2. QED
          BY <2>21, <5>1
      <4>2. ASSUME NEW k \in 1 .. t
            PROVE  \E a \in Functions' :
                     /\ a = Chain(c)'[k] /\ (k < t => a \in Bodies')
                     /\ Len(Chain(a)') = k /\ \A l \in 1 .. k : Chain(a)'[l] = Chain(c)'[l]
        <5>1. CASE k = t
          BY <2>21, <5>1
        <5>2. CASE k # t
          <6>1. k \in 1 .. t - 1 /\ k + 1 \in Inner
            BY <2>2, <2>20, <5>2
          <6> PICK a, i : a = Function(i) /\ i = k + 1
            OBVIOUS
          <6>2. /\ a \in Bodies /\ Len(Chain(a)) = i - 1
                /\ \A l \in 1 .. i - 1 : Chain(a)[l] = Function(l + 1)
            BY <6>1 DEF ScopesInv, Nested
          <6>3. i - 1 = k /\ \A l \in 1 .. k : l \in 1 .. t - 1
            BY <2>2, <6>1
          <6>4. /\ a = Chain(c)'[k] /\ Chain(a)' = Chain(a)
                /\ \A l \in 1 .. k : Chain(c)'[l] = Function(l + 1)
            BY <2>17, <2>21, <6>1, <6>2, <6>3
          <6>5. QED
            BY <2>16, <2>17, <6>2, <6>3, <6>4
        <5>3. QED
          BY <5>1, <5>2
      <4>3. QED
        BY <2>21, <4>1, <4>2 DEF ChainOK, Chain
    <3>3. \A c \in Bodies' : Len(Chain(c)') > 0
      <4>1. Len(Chain(d)') > 0
        BY <2>2, <2>21
      <4>2. QED
        BY <2>16, <2>17, <4>1 DEF ScopesInv, Chains
    <3>4. ASSUME NEW c \in Functions', Len(Chain(c)') > 0 PROVE ChainOK(c)'
      <4>1. CASE c \in {d, g}
        BY <3>2, <4>1
      <4>2. CASE c \notin {d, g}
        <5>1. c \in Functions /\ c # f0
          BY <2>14, <2>16, <4>2
        <5>2. QED
          BY <2>16, <3>1, <3>4, <5>1
      <4>3. QED
        BY <4>1, <4>2
    <3>5. QED
      BY <2>16, <3>3, <3>4 DEF ScopesInv, Chains
  <2>28. /\ defs'[g].creator = g /\ defs'[g].level = t /\ defs'[d].creator = g /\ g # 1
         /\ \A b \in Bodies : defs'[b].creator # g /\ defs'[b].creator = defs[b].creator
                                /\ defs[b].creator \in Functions /\ defs[b].creator # f0
    <3>1. \A b \in Bodies : b \in Functions /\ defs'[b].creator = defs[b].creator
                              /\ defs[b].creator \in Functions
      BY <2>16 DEF Bodies, SameButChain, ScopesInv, Creators
    <3>2. defs'[d].creator = g /\ defs'[d].level = t
      BY <2>16 DEF IsNew
    <3>3. CASE Pending(n)
      BY <2>4, <2>16, <3>1, <3>2, <3>3 DEF SameButChain
    <3>4. CASE ~Pending(n)
      BY <2>5, <2>12, <2>16, <3>1, <3>2, <3>4
    <3>5. QED
      BY <3>3, <3>4
  <2>29. Creators'
    <3>1. ASSUME NEW c \in Functions'
          PROVE  (/\ defs[c].creator \in Functions /\ defs[defs[c].creator].creator = defs[c].creator
                  /\ defs[c].creator = 1 => c = 1)'
      <4>1. CASE c \in Functions
        <5> PICK a : a = defs[c].creator
          OBVIOUS
        <5>1. a \in Functions /\ defs[a].creator = a /\ (a = 1 => c = 1)
          BY <4>1 DEF ScopesInv, Creators
        <5>2. defs'[c].creator = a /\ defs'[a].creator = a
          BY <2>16, <4>1, <5>1 DEF SameButChain
        <5>3. QED
          BY <2>16, <5>1, <5>2
      <4>2. CASE c = d
        BY <2>21, <2>28, <4>2
      <4>3. QED
        BY <2>16, <4>1, <4>2
    <3>2. ASSUME NEW b \in Bodies
          PROVE  (/\ defs[defs[b].creator].level = Len(Chain(b)) /\ Siblings(b, defs[b].creator)
                  /\ \A c \in Bodies : defs[c].creator = defs[b].creator => c = b)'
      <4> PICK a : a = defs[b].creator
        OBVIOUS
      <4>1. /\ a \in Functions /\ defs[a].level = Len(Chain(b)) /\ Siblings(b, a)
            /\ \A c \in Bodies : defs[c].creator = a => c = b
        BY DEF ScopesInv, Creators, Bodies
      <4>2. /\ defs'[b].creator = a /\ defs'[a].level = defs[a].level
            /\ Chain(a)' = Chain(a) /\ Chain(b)' = Chain(b)
        BY <2>16, <2>17, <2>28, <4>1 DEF SameButChain
      <4>3. \A c \in Bodies' : defs'[c].creator = a => c = b
        BY <2>16, <2>28, <4>1, <4>2
      <4>4. QED
        BY <4>1, <4>2, <4>3 DEF Siblings, Chain
    <3>3. (/\ defs[defs[d].creator].level = Len(Chain(d)) /\ Siblings(d, defs[d].creator)
           /\ \A c \in Bodies : defs[c].creator = defs[d].creator => c = d)'
      <4>1. \A c \in Bodies' : defs'[c].creator = g => c = d
        BY <2>16, <2>28
      <4>2. Len(Chain(d)') = t /\ Len(Chain(g)') = t
              /\ \A k \in 1 .. t - 1 : Chain(g)'[k] = Chain(d)'[k]
        BY <2>21
      <4>3. defs'[d].creator = g /\ defs'[g].level = t
        BY <2>28
      <4>4. QED
        BY <4>1, <4>2, <4>3 DEF Siblings, Chain
    <3>4. QED
      <4>1. (defs[1].creator = 1)'
        <5>1. 1 \in Functions /\ defs[1].creator = 1
          BY DEF ScopesInv, Chains, Bodies, Creators
        <5>2. QED
          BY <2>16, <5>1 DEF SameButChain
      <4>2. QED
        BY <2>16, <3>1, <3>2, <3>3, <4>1 DEF Creators
  <2>30. /\ \A i \in 1 .. t : \A m : (i # t \/ m # n) =>
              /\ Named(i, m)' <=> Named(i, m)
              /\ Waiting(i, m)' <=> Waiting(i, m)
              /\ Named(i, m) => Entries(i)'[m].function = Entries(i)[m].function
         /\ \A i : i = t => Named(i, n)' /\ ~Waiting(i, n)' /\ Entries(i)'[n].function = g
         /\ \A i : i = t + 1 => \A m : ~Named(i, m)' /\ ~IsLabelIn(i, m)'
    <3>1. \A i \in 1 .. t : \A m : (i # t \/ m # n) =>
              /\ Named(i, m)' <=> Named(i, m)
              /\ Waiting(i, m)' <=> Waiting(i, m)
              /\ Named(i, m) => Entries(i)'[m].function = Entries(i)[m].function
      BY <2>18 DEF Named, Waiting
    <3>2. \A i : i = t => Named(i, n)' /\ ~Waiting(i, n)' /\ Entries(i)'[n].function = g
      BY <2>2, <2>6, <2>18 DEF Named, Waiting
    <3>3. \A i : i = t + 1 => \A m : ~Named(i, m)' /\ ~IsLabelIn(i, m)'
      BY <2>8, <2>19 DEF Named, IsLabelIn
    <3>4. QED
      BY <3>1, <3>2, <3>3
  <2>31. ASSUME NEW i \in Inner, NEW m, Named(i, m), (i # t \/ m # n)
         PROVE  Entries(i)[m].function # g /\ Entries(i)[m].function \in Functions
    <3>1. Entries(i)[m].function \in Functions
      BY <2>31 DEF ScopesInv, Names, NamedOK
    <3>2. CASE Pending(n)
      BY <2>2, <2>4, <2>31, <3>1, <3>2 DEF ScopesInv, Names
    <3>3. CASE ~Pending(n)
      BY <2>5, <2>16, <3>1, <3>3
    <3>4. QED
      BY <3>1, <3>2, <3>3
  <2>32. Names'
    <3>1. (\A i \in 1 .. Top : \A x \in DOMAIN Entries(i) : EntryShape(Entries(i)[x]))'
      <4>1. ASSUME NEW i \in 1 .. t, NEW x \in DOMAIN Entries(i)' PROVE EntryShape(Entries(i)'[x])
        BY <2>2, <2>6, <2>18, <4>1 DEF ScopesInv, Names
      <4>2. \A i : i = t + 1 => \A x \in DOMAIN Entries(i)' : EntryShape(Entries(i)'[x])
        BY <2>8, <2>19 DEF EntryShape
      <4>3. \A i \in 1 .. Top' : i \in 1 .. t \/ i = t + 1
        BY <2>2, <2>9
      <4>4. \A i \in 1 .. Top' : \A x \in DOMAIN Entries(i)' : EntryShape(Entries(i)'[x])
        BY <4>1, <4>2, <4>3
      <4>5. QED
        BY <4>4 DEF EntryShape
    <3>2. (Top >= 1 => \A x \in DOMAIN Entries(1) :
                         Named(1, x) /\ ~Waiting(1, x) /\ Entries(1)[x].function = NoFunction)'
      <4>1. 1 \in 1 .. t /\ 1 # t
        BY <2>2
      <4>2. QED
        BY <2>2, <2>18, <2>30, <4>1 DEF ScopesInv, Names
    <3>3. ASSUME NEW i \in Inner', NEW m, Named(i, m)' PROVE NamedOK(i, m)'
      <4>1. CASE i = t /\ m = n
        <5>1. Entries(i)'[m].function = g /\ ~Waiting(i, m)'
          BY <2>30, <4>1
        <5>2. \A k \in 1 .. t - 1 : Chain(g)'[k] = Function(k + 1)'
          BY <2>2, <2>20, <2>21
        <5>3. g \in Functions' /\ Len(Chain(g)') = t
          BY <2>21
        <5>4. QED
          BY <2>28, <4>1, <5>1, <5>2, <5>3 DEF NamedOK, Chain
      <4>2. CASE i \in Inner /\ (i # t \/ m # n)
        <5> PICK f : f = Entries(i)[m].function
          OBVIOUS
        <5>1. Named(i, m) /\ (Waiting(i, m)' <=> Waiting(i, m)) /\ Entries(i)'[m].function = f
          BY <2>18, <2>30, <3>3, <4>2
        <5>2. /\ f \in Functions \ {1} /\ defs[f].creator = f /\ defs[f].level = i
              /\ Waiting(i, m) => Len(Chain(f)) = 0 /\ \A b \in Bodies : defs[b].creator # f
              /\ ~Waiting(i, m) =>
                   Len(Chain(f)) = i /\ \A k \in 1 .. i - 1 : Chain(f)[k] = Function(k + 1)
          BY <4>2, <5>1 DEF ScopesInv, Names, NamedOK
        <5>3. \A k \in 1 .. i - 1 : Function(k + 1)' = Function(k + 1)
          BY <2>20, <4>2
        <5>4. f # g /\ f # f0
          BY <2>14, <2>31, <4>2, <5>1, <5>2
        <5>5. /\ Chain(f)' = Chain(f) /\ defs'[f].creator = f /\ defs'[f].level = i
              /\ f \in Functions'
          BY <2>16, <5>2, <5>4 DEF SameButChain
        <5>6. Waiting(i, m) => \A b \in Bodies' : defs'[b].creator # f
          BY <2>16, <2>28, <5>2, <5>4
        <5>7. QED
          BY <5>1, <5>2, <5>3, <5>5, <5>6 DEF NamedOK, Chain
      <4>3. CASE i = t + 1
        BY <2>30, <3>3, <4>3
      <4>4. QED
        BY <2>18, <4>1, <4>2, <4>3
    <3>4. (\A i \in Inner, j \in Inner : \A m, l :
             (Named(i, m) /\ Named(j, l) /\ Entries(i)[m].function = Entries(j)[l].function)
               => i = j /\ m = l)'
      <4>1. \A i \in Inner' : \A m : Named(i, m)' =>
              /\ i \in Inner
              /\ \/ i = t /\ m = n /\ Entries(i)'[m].function = g
                 \/ /\ Named(i, m) /\ (i # t \/ m # n)
                    /\ Entries(i)'[m].function = Entries(i)[m].function
                    /\ Entries(i)[m].function # g
        BY <2>2, <2>18, <2>30, <2>31
      <4>2. \A i \in Inner, j \in Inner : \A m, l :
             (Named(i, m) /\ Named(j, l) /\ Entries(i)[m].function = Entries(j)[l].function)
               => i = j /\ m = l
        BY DEF ScopesInv, Names
      <4>3. \A i \in Inner', j \in Inner' : \A m, l :
             (Named(i, m)' /\ Named(j, l)' /\ Entries(i)'[m].function = Entries(j)'[l].function)
               => i = j /\ m = l
        BY <4>1, <4>2
      <4>4. QED
        BY <4>3
    <3>5. QED
      BY <3>1, <3>2, <3>3, <3>4 DEF Names
  <2>33. CallsOK'
    <3>1. ASSUME NEW c \in Functions', NEW f \in defs'[c].calls
          PROVE  /\ c \in Functions /\ f \in defs[c].calls
                 /\ f \in Functions \ {1} /\ defs[f].creator = f /\ c \in Bodies
                 /\ Len(Chain(f)) > 0 => Sees(c, f)
                 /\ Chain(c)' = Chain(c) /\ defs'[f].creator = f
      <4>1. c \in Functions /\ f \in defs[c].calls
        BY <2>16, <3>1 DEF IsNew, SameButChain
      <4>2. /\ f \in Functions \ {1} /\ defs[f].creator = f /\ c \in Bodies
            /\ Len(Chain(f)) > 0 => Sees(c, f)
        BY <4>1 DEF ScopesInv, CallsOK
      <4>3. QED
        BY <2>16, <2>17, <4>1, <4>2 DEF SameButChain
    <3>2. ASSUME NEW c \in Functions', NEW f \in defs'[c].calls
          PROVE  (/\ f \in Functions \ {1} /\ defs[f].creator = f /\ c \in Bodies
                  /\ Len(Chain(f)) > 0 => Sees(c, f))'
      <4>1. ASSUME Len(Chain(f)') > 0 PROVE Sees(c, f)'
        <5>1. CASE f = f0
          <6>1. Pending(n) /\ f = g
            BY <2>14, <3>1, <5>1
          <6>2. Inside(c, t)
            BY <2>2, <2>4, <3>1, <6>1 DEF ScopesInv, CallsOK
          <6>3. /\ Len(Chain(c)) >= t - 1 /\ Len(Chain(f)') = t
                /\ \A k \in 1 .. t - 1 : Chain(f)'[k] = Chain(c)[k]
            BY <2>21, <6>1, <6>2 DEF Inside
          <6>4. QED
            BY <3>1, <6>3 DEF Sees, Chain
        <5>2. CASE f # f0
          <6>1. Chain(f)' = Chain(f)
            BY <2>16, <3>1, <5>2
          <6>2. QED
            BY <3>1, <4>1, <6>1, SMTT(30) DEF Sees, Chain
        <5>3. QED
          BY <5>1, <5>2
      <4>2. QED
        BY <2>16, <3>1, <4>1 DEF Chain
    <3>3. ASSUME NEW i \in Inner', NEW m, Waiting(i, m)', NEW c \in Functions',
                 Entries(i)'[m].function \in defs'[c].calls
          PROVE  Inside(c, i)'
      <4>1. Named(i, m)'
        BY <3>3 DEF Waiting
      <4>2. i \in Inner /\ (i # t \/ m # n)
        BY <2>18, <2>30, <3>3, <4>1
      <4> PICK f : f = Entries(i)'[m].function
        OBVIOUS
      <4>3. c \in Functions /\ f \in defs[c].calls /\ Chain(c)' = Chain(c)
        BY <3>1, <3>3
      <4>4. Waiting(i, m) /\ Entries(i)[m].function = f
        BY <2>18, <2>30, <3>3, <4>2 DEF Waiting
      <4>5. Inside(c, i)
        BY <4>2, <4>3, <4>4 DEF ScopesInv, CallsOK
      <4>6. \A k \in 1 .. i - 1 : Function(k + 1)' = Function(k + 1)
        BY <2>20, <4>2
      <4>7. QED
        BY <4>3, <4>5, <4>6 DEF Inside, Chain
    <3>4. QED
      BY <3>2, <3>3 DEF CallsOK
  <2>34. VariablesOK'
    <3>1. ASSUME NEW i \in Inner', NEW m \in DOMAIN Entries(i)', Entries(i)'[m].entryType = "variable"
          PROVE  m \in defs'[Function(i)'].locals
      <4>1. CASE i \in Inner
        <5>1. m \in DOMAIN Entries(i) /\ Entries(i)[m].entryType = "variable"
          BY <2>6, <2>18, <3>1, <4>1
        <5>2. Function(i) \in Functions /\ m \in defs[Function(i)].locals
          BY <4>1, <5>1 DEF ScopesInv, VariablesOK, Nested, Bodies
        <5>3. QED
          BY <2>16, <2>18, <4>1, <5>2 DEF SameButChain
      <4>2. CASE i = t + 1
        BY <2>11, <2>19, <4>2
      <4>3. QED
        BY <2>18, <4>1, <4>2
    <3>2. ASSUME NEW c \in Functions
          PROVE  /\ defs'[c].refs \subseteq defs'[c].locals
                 /\ \A k \in 1 .. Len(defs'[c].provides) : defs'[c].provides[k] \in defs'[c].locals
      <4>1. /\ defs[c].refs \subseteq defs[c].locals
            /\ \A k \in 1 .. Len(defs[c].provides) : defs[c].provides[k] \in defs[c].locals
        BY DEF ScopesInv, VariablesOK
      <4>2. /\ defs'[c].refs = defs[c].refs /\ defs'[c].locals = defs[c].locals
            /\ defs'[c].provides = defs[c].provides
        BY <2>16 DEF SameButChain
      <4>3. QED
        BY <4>1, <4>2
    <3>3. /\ defs'[d].refs \subseteq defs'[d].locals /\ defs'[d].provides = << >>
      BY <2>16 DEF IsNew
    <3>4. defs'[1].refs = {}
      <4>1. 1 \in Functions /\ defs[1].refs = {}
        BY DEF ScopesInv, VariablesOK, Chains, Bodies
      <4>2. QED
        BY <2>16, <4>1 DEF SameButChain
    <3>5. QED
      BY <2>12, <2>16, <3>1, <3>2, <3>3, <3>4 DEF VariablesOK
  <2>35. LabelsOK'
    <3>1. \A i \in Inner : \A l : /\ IsLabelIn(i, l)' <=> IsLabelIn(i, l)
                                  /\ IsLabelIn(i, l) => Entries(i)'[l] = Entries(i)[l]
      <4>1. ~IsLabelIn(t, n)
        BY <2>3, <2>4 DEF IsLabelIn
      <4>2. QED
        BY <2>6, <2>18, <4>1 DEF IsLabelIn
    <3>2. ASSUME NEW i \in Inner'
          PROVE  (/\ \A k \in 1 .. Len(scopeStack[i].labelNames) : IsLabelIn(i, scopeStack[i].labelNames[k])
                  /\ \A l : IsLabelIn(i, l) =>
                       /\ \E k \in 1 .. Len(scopeStack[i].labelNames) : scopeStack[i].labelNames[k] = l
                       /\ Entries(i)[l].isBound => l \in defs[Function(i)].bound
                  /\ \A l \in defs[Function(i)].gotos : IsLabelIn(i, l) /\ Entries(i)[l].isTargeted)'
      <4>1. CASE i \in Inner
        <5> PICK f, ns : f = Function(i) /\ ns = scopeStack[i].labelNames
          OBVIOUS
        <5>1. f \in Functions /\ Function(i)' = f /\ scopeStack'[i].labelNames = ns
          BY <2>18, <4>1 DEF ScopesInv, Nested, Bodies
        <5>2. defs'[f].gotos = defs[f].gotos /\ defs'[f].bound = defs[f].bound
          BY <2>16, <5>1 DEF SameButChain
        <5>3. /\ \A k \in 1 .. Len(ns) : IsLabelIn(i, ns[k])
              /\ \A l : IsLabelIn(i, l) =>
                   (\E k \in 1 .. Len(ns) : ns[k] = l) /\ (Entries(i)[l].isBound => l \in defs[f].bound)
              /\ \A l \in defs[f].gotos : IsLabelIn(i, l) /\ Entries(i)[l].isTargeted
          BY <4>1 DEF ScopesInv, LabelsOK
        <5>4. /\ \A k \in 1 .. Len(ns) : IsLabelIn(i, ns[k])'
              /\ \A l : IsLabelIn(i, l)' =>
                   (\E k \in 1 .. Len(ns) : ns[k] = l) /\ (Entries(i)'[l].isBound => l \in defs'[f].bound)
              /\ \A l \in defs'[f].gotos : IsLabelIn(i, l)' /\ Entries(i)'[l].isTargeted
          BY <3>1, <4>1, <5>2, <5>3
        <5>5. QED
          BY <5>1, <5>4 DEF IsLabelIn
      <4>2. CASE i = t + 1
        <5>1. scopeStack'[i].labelNames = << >> /\ Function(i)' = d /\ defs'[d].gotos = {}
          BY <2>8, <2>16, <2>19, <4>2 DEF IsNew
        <5>2. \A m : ~IsLabelIn(i, m)'
          BY <2>30, <4>2
        <5>3. Len(scopeStack'[i].labelNames) = 0
          BY <5>1
        <5>4. QED
          BY <5>1, <5>2, <5>3
      <4>3. QED
        BY <2>18, <4>1, <4>2
    <3>3. QED
      <4>1. (Top >= 1 => Len(scopeStack[1].labelNames) = 0)'
        <5>1. 1 \in 1 .. t /\ Top >= 1 /\ scopeStack'[1].labelNames = scopeStack[1].labelNames
          BY <2>2, <2>18
        <5>2. QED
          BY <5>1 DEF ScopesInv, LabelsOK
      <4>2. QED
        BY <3>2, <4>1 DEF LabelsOK
  <2>36. QED
    BY <2>23, <2>24, <2>25, <2>27, <2>29, <2>32, <2>33, <2>34, <2>35 DEF ScopesInv
<1>3. QED
  BY <1>1, <1>2

-----------------------------------------------------------------------------
(* The invariant, and what it gives                                        *)

LEMMA ScopesInit == Init => ScopesInv
<1> SUFFICES ASSUME Init PROVE ScopesInv
  OBVIOUS
<1> DEFINE main == FunctionScope(1, MainHeader)
           lib == LibraryScope
           new == [header |-> MainHeader, isForward |-> FALSE, creator |-> 1,
                chain |-> << 1 >>, level |-> 1, locals |-> {}, refs |-> {},
                provides |-> << >>, requests |-> << >>, calls |-> {},
                gotos |-> {}, bound |-> {}]
<1>1. scopeStack = << lib, main >> /\ defs = << new >> /\ status = "run"
  BY DEF Init
<1>2. /\ DOMAIN new = DefFields /\ new.isForward = FALSE /\ new.creator = 1 /\ new.chain = << 1 >>
      /\ new.level = 1 /\ new.locals = {} /\ new.refs = {} /\ new.provides = << >>
      /\ new.requests = << >> /\ new.calls = {} /\ new.gotos = {} /\ new.bound = {}
  BY DEF DefFields
<1>3. /\ DOMAIN main = {"function", "levelEntries", "labelNames", "body"}
      /\ main.function = 1 /\ main.labelNames = << >>
      /\ DOMAIN main.levelEntries = {}
  <2>1. ParametersNamed(MainHeader, BOOLEAN) = {}
    BY DEF ParametersNamed, MainHeader
  <2>2. Equals(MainHeader.type, typeVoid)
    BY DEF Equals, MainHeader, typeVoid, Constructor
  <2>3. DOMAIN main.levelEntries = {}
    BY <2>1, <2>2 DEF FunctionScope
  <2> HIDE DEF main
  <2>4. DOMAIN main = {"function", "levelEntries", "labelNames", "body"}
          /\ main.function = 1 /\ main.labelNames = << >>
    BY FunctionScopeIs DEF main
  <2>5. QED
    BY <2>3, <2>4
<1>4. /\ DOMAIN lib = {"function", "levelEntries", "labelNames", "body"}
      /\ lib.function = NoFunction /\ lib.labelNames = << >>
      /\ \A x \in DOMAIN lib.levelEntries :
           /\ EntryShape(lib.levelEntries[x]) /\ lib.levelEntries[x].entryType = "function"
           /\ lib.levelEntries[x].pardef = "complete" /\ lib.levelEntries[x].function = NoFunction
  BY DEF LibraryScope, FunctionEntry, EntryShape
<1> HIDE DEF main, lib, new
<1>5. IsSeq(scopeStack) /\ Top = 2 /\ scopeStack[1] = lib /\ scopeStack[2] = main
  BY <1>1 DEF IsSeq, Top
<1>6. IsSeq(defs) /\ Len(defs) = 1 /\ defs[1] = new
  BY <1>1 DEF IsSeq
<1>7. IsSeq(<< 1 >>) /\ IsSeq(<< >>) /\ Len(<< >>) = 0 /\ Len(<< 1 >>) = 1 /\ << 1 >>[1] = 1
  BY DEF IsSeq
<1>8. Functions = {1} /\ Bodies = {1} /\ Inner = {2} /\ Open = {1} /\ Chain(1) = << 1 >>
  BY <1>2, <1>3, <1>5, <1>6 DEF Functions, Bodies, Inner, Open, Chain
<1>9. Function(1) = NoFunction /\ Function(2) = 1
  BY <1>3, <1>4, <1>5 DEF Function
<1>10. Entries(1) = lib.levelEntries /\ DOMAIN Entries(2) = {}
  BY <1>3, <1>5 DEF Entries
<1>11. \A n : ~Named(2, n) /\ ~Waiting(2, n) /\ ~IsLabelIn(2, n)
  BY <1>10 DEF Named, Waiting, IsLabelIn
<1>12. Shape
  BY <1>1, <1>2, <1>3, <1>4, <1>5, <1>6, <1>7, <1>8 DEF Shape, Chain
<1>13. Nested
  <2>1. ASSUME NEW i \in Inner
        PROVE  /\ Function(i) \in Bodies /\ Len(Chain(Function(i))) = i - 1
               /\ \A k \in 1 .. i - 1 : Chain(Function(i))[k] = Function(k + 1)
    <3> PICK f : f = Function(i)
      OBVIOUS
    <3>1. f = 1 /\ i - 1 = 1
      BY <1>8, <1>9
    <3>2. Chain(f)[1] = Function(2) /\ Len(Chain(f)) = 1 /\ f \in Bodies
      BY <1>7, <1>8, <1>9, <3>1
    <3>3. \A k \in 1 .. 1 : Chain(f)[k] = Function(k + 1)
      BY <3>2
    <3>4. QED
      BY <3>1, <3>2, <3>3
  <2>2. QED
    BY <1>5, <1>9, <2>1 DEF Nested
<1>14. Chains /\ Creators
  BY <1>2, <1>6, <1>7, <1>8 DEF Chains, ChainOK, Creators, Siblings
<1>15. Names
  <2>1. \A x \in DOMAIN Entries(1) :
          EntryShape(Entries(1)[x]) /\ Named(1, x) /\ ~Waiting(1, x) /\ Entries(1)[x].function = NoFunction
    BY <1>4, <1>10 DEF Named, Waiting
  <2>2. \A i \in 1 .. Top : i = 1 \/ i = 2
    BY <1>5
  <2>3. QED
    BY <1>8, <1>10, <1>11, <2>1, <2>2 DEF Names
<1>16. CallsOK /\ VariablesOK
  BY <1>2, <1>6, <1>7, <1>8, <1>10, <1>11 DEF CallsOK, VariablesOK
<1>17. RequestsMatchProvides
  <2>1. \A d \in Functions : DOMAIN defs[d].requests = {}
    BY <1>2, <1>6, <1>8
  <2>2. QED
    BY <2>1, Zenon DEF RequestsMatchProvides
<1>18. LabelsOK /\ GotoReachesLabel
  BY <1>2, <1>3, <1>4, <1>5, <1>6, <1>7, <1>8, <1>9, <1>11 DEF LabelsOK, GotoReachesLabel
<1>19. QED
  BY <1>12, <1>13, <1>14, <1>15, <1>16, <1>17, <1>18 DEF ScopesInv

LEMMA ScopesStep == ScopesInv /\ [Next]_vars => ScopesInv'
<1> SUFFICES ASSUME ScopesInv, [Next]_vars PROVE ScopesInv'
  OBVIOUS
<1>1. ASSUME NEW x, NEW t, DeclareVariable(x, t) PROVE ScopesInv'
  BY <1>1, DeclareVariableInv
<1>2. ASSUME NEW l, DeclareLabel(l) PROVE ScopesInv'
  BY <1>2, DeclareLabelInv
<1>3. ASSUME NEW n, NEW h, DeclareForward(n, h) PROVE ScopesInv'
  BY <1>3, DeclareForwardInv
<1>4. ASSUME NEW n, NEW h, DefineFunction(n, h) PROVE ScopesInv'
  BY <1>4, DefineFunctionInv
<1>5. CASE BeginBody
  BY <1>5, BeginBodyInv
<1>6. ASSUME NEW x, UseVariable(x) PROVE ScopesInv'
  BY <1>6, UseVariableInv
<1>7. CASE UseResult
  BY <1>7, UseResultInv
<1>8. ASSUME NEW f, NEW args, Call(f, args) PROVE ScopesInv'
  BY <1>8, CallInv
<1>9. CASE CheckArgument
  BY <1>9, CheckArgumentInv
<1>10. ASSUME NEW l, PlaceLabel(l) PROVE ScopesInv'
  BY <1>10, PlaceLabelInv
<1>11. ASSUME NEW l, Goto(l) PROVE ScopesInv'
  BY <1>11, GotoInv
<1>12. CASE EndFunction
  BY <1>12, EndFunctionInv
<1>13. CASE Finish
  BY <1>13, FinishInv
<1>14. CASE UNCHANGED vars
  <2>1. defs' = defs /\ IsSeq(scopeStack') /\ Top' = Top /\ Open' = Open /\ Functions' = Functions
          /\ status' = status /\ scopeStack' = scopeStack
    BY <1>14 DEF vars, Top, Open, Functions, ScopesInv, Shape
  <2>2. Top \in Nat /\ status \in {"run", "done", "error", "undefined"} /\ (status = "run" => Top >= 2)
    BY DEF ScopesInv, Shape, IsSeq, Top, Nested
  <2>3. /\ Shape' /\ Nested' /\ Chains' /\ Creators' /\ Names' /\ CallsOK' /\ VariablesOK'
        /\ RequestsMatchProvides' /\ LabelsOK'
    BY <2>1, <2>2, ScopesClosed
  <2>4. GotoReachesLabel'
    BY <2>1 DEF ScopesInv, GotoReachesLabel
  <2>5. QED
    BY <2>3, <2>4 DEF ScopesInv
<1>15. QED
  BY <1>1, <1>2, <1>3, <1>4, <1>5, <1>6, <1>7, <1>8, <1>9, <1>10, <1>11, <1>12, <1>13, <1>14 DEF Next

LEMMA ScopesAlways == Spec => []ScopesInv
BY ScopesInit, ScopesStep, PTL DEF Spec

(* Types. *)
LEMMA ScopesTyped == ScopesInv => TypeOK
<1> SUFFICES ASSUME ScopesInv PROVE TypeOK
  OBVIOUS
<1>1. status \in {"run", "done", "error", "undefined"} /\ Top \in Nat
        /\ \A i \in 1 .. Top : IsSeq(scopeStack[i].labelNames)
  BY DEF ScopesInv, Shape, IsSeq, Top
<1>2. \A i \in 1 .. Top : (i = 1 /\ Top >= 1) \/ i \in Inner
  BY <1>1 DEF Inner
<1>3. ASSUME NEW i \in 1 .. Top, NEW x \in DOMAIN Entries(i) PROVE EntryOK(Entries(i)[x])
  <2>1. EntryShape(Entries(i)[x])
    BY DEF ScopesInv, Names
  <2>2. Entries(i)[x].entryType = "function" => Entries(i)[x].function \in Functions \cup {NoFunction}
    BY <1>2 DEF ScopesInv, Names, NamedOK, Named
  <2>3. QED
    BY <2>1, <2>2 DEF EntryShape, EntryOK
<1>4. ASSUME NEW i \in 1 .. Top
      PROVE  /\ scopeStack[i].function \in Functions \cup {NoFunction}
             /\ \A k \in DOMAIN scopeStack[i].labelNames :
                  /\ scopeStack[i].labelNames[k] \in DOMAIN Entries(i)
                  /\ Entries(i)[scopeStack[i].labelNames[k]].entryType = "label"
  <2>1. Function(i) \in Functions \cup {NoFunction}
    BY <1>2 DEF ScopesInv, Nested, Bodies
  <2>2. DOMAIN scopeStack[i].labelNames = 1 .. Len(scopeStack[i].labelNames)
    BY <1>1 DEF IsSeq
  <2>3. CASE i = 1
    BY <1>1, <2>1, <2>2, <2>3 DEF ScopesInv, LabelsOK, Function
  <2>4. CASE i \in Inner
    BY <2>1, <2>2, <2>4 DEF ScopesInv, LabelsOK, IsLabelIn, Function
  <2>5. QED
    BY <1>2, <2>3, <2>4
<1>5. ASSUME NEW d \in Functions
      PROVE  /\ defs[d].creator \in Functions /\ defs[d].calls \subseteq Functions
             /\ ToSet(defs[d].chain) \subseteq Functions
  <2>1. IsSeq(Chain(d))
    BY DEF ScopesInv, Shape
  <2>2. DOMAIN Chain(d) = 1 .. Len(Chain(d)) /\ Len(Chain(d)) \in Nat
    BY <2>1 DEF IsSeq
  <2>3. \A k \in 1 .. Len(Chain(d)) : Chain(d)[k] \in Functions
    BY <2>2 DEF ScopesInv, Chains, ChainOK
  <2>4. ToSet(Chain(d)) \subseteq Functions
    BY <2>2, <2>3 DEF ToSet
  <2>5. QED
    BY <2>4 DEF ScopesInv, Creators, CallsOK, Chain
<1>6. QED
  BY <1>1, <1>3, <1>4, <1>5 DEF TypeOK

(* The tables of scopes and the FunctionDefs have their types, and every   *)
(* label that closeScope looks up again is there, as a label.              *)
THEOREM ScopesTypeCorrect == Spec => []TypeOK
BY ScopesAlways, ScopesTyped, PTL

(* lookupVariable: whatever the program, whenever a request is made and    *)
(* whatever is declared, requested and provided later, the slot idx of the *)
(* function diff steps up the static chain is and stays that of the        *)
(* variable, one that this function declares.                              *)
THEOREM SlotsFound == Spec => []RequestsMatchProvides
<1>1. ScopesInv => RequestsMatchProvides
  BY DEF ScopesInv
<1>2. QED
  BY <1>1, ScopesAlways, PTL

(* closeScope: a function that has ended has, for every goto of its body,  *)
(* the label in the same body.                                             *)
THEOREM GotosHaveLabels == Spec => []GotoReachesLabel
<1>1. ScopesInv => GotoReachesLabel
  BY DEF ScopesInv
<1>2. QED
  BY <1>1, ScopesAlways, PTL

(* The program handed to code generation. *)
LEMMA BodyIs ==
  ASSUME ScopesInv, Resolved, NEW d \in Functions, NEW c \in defs[d].calls
  PROVE  /\ d \in Bodies /\ Body(c) \in Bodies /\ Body(c) # 1
         /\ Len(Chain(Body(c))) - 1 <= Len(Chain(d))
         /\ \A k \in 1 .. Len(Chain(Body(c))) - 1 : Chain(Body(c))[k] = Chain(d)[k]
<1>1. /\ c \in Functions \ {1} /\ defs[c].creator = c /\ d \in Bodies
      /\ Len(Chain(c)) > 0 => Sees(d, c)
  BY DEF ScopesInv, CallsOK
<1>2. \E b \in Bodies : defs[b].creator = c
  BY <1>1 DEF Resolved
<1> PICK b : b = Body(c)
  OBVIOUS
<1>3. b \in Bodies /\ defs[b].creator = c
  BY <1>2 DEF Body
<1>4. b # 1
  BY <1>1, <1>3 DEF ScopesInv, Creators
<1>5. Len(Chain(c)) = Len(Chain(b)) /\ \A k \in 1 .. Len(Chain(b)) - 1 : Chain(c)[k] = Chain(b)[k]
  BY <1>3 DEF ScopesInv, Creators, Siblings
<1>6. Len(Chain(b)) > 0
  BY <1>3 DEF ScopesInv, Chains
<1>7. /\ Len(Chain(c)) - 1 <= Len(Chain(d))
      /\ \A k \in 1 .. Len(Chain(c)) - 1 : Chain(c)[k] = Chain(d)[k]
  BY <1>1, <1>5, <1>6, Zenon DEF Sees
<1>8. QED
  BY <1>1, <1>3, <1>4, <1>5, <1>7

(* The request r for x of a function whose chain is c meets its slot. *)
Met(r, c, m, x) ==
  /\ r.diff \in 1 .. Len(c) - 1 /\ m \in 1 .. Len(c)
  /\ r.idx \in DOMAIN defs[c[m]].provides
  /\ defs[c[m]].provides[r.idx] = x

LEMMA RequestIs ==
  ASSUME ScopesInv, NEW d \in Functions, NEW x \in DOMAIN defs[d].requests
  PROVE  Met(defs[d].requests[x], Chain(d), Len(Chain(d)) - defs[d].requests[x].diff, x)
<1> PICK r, c : r = defs[d].requests[x] /\ c = Chain(d)
  OBVIOUS
<1> PICK m : m = Len(c) - r.diff
  BY Zenon
<1>1. /\ r.diff \in 1 .. Len(c) - 1
      /\ r.idx \in DOMAIN defs[c[m]].provides
      /\ defs[c[m]].provides[r.idx] = x
  BY Zenon DEF ScopesInv, RequestsMatchProvides, Chain
<1>2. Len(c) \in Nat
  BY DEF ScopesInv, Shape, IsSeq
<1> PICK n, i : n = Len(c) /\ i = r.diff
  BY Zenon
<1>3. n \in Nat /\ i \in 1 .. n - 1 /\ m = n - i
  BY <1>1, <1>2
<1>4. m \in 1 .. n /\ m < n
  BY <1>3
<1>5. QED
  BY <1>1, <1>4 DEF Met

LEMMA EmittedWellFormed == ScopesInv => EmitsWellFormed
<1> SUFFICES ASSUME ScopesInv, status = "done", Resolved PROVE Program!WellFormed(Emitted)
  BY DEF EmitsWellFormed
<1> PICK p : p = Emitted
  OBVIOUS
<1>1. /\ p.path = [d \in Bodies |-> Chain(d)] /\ p.locals = [d \in Bodies |-> defs[d].locals]
      /\ p.refs = [d \in Bodies |-> defs[d].refs]
      /\ p.calls = [d \in Bodies |-> { Body(c) : c \in defs[d].calls }]
      /\ p.provides = [d \in Bodies |-> defs[d].provides]
      /\ p.requests = [d \in Bodies |-> defs[d].requests]
      /\ p.level = [d \in Bodies |-> defs[defs[d].creator].level]
  BY DEF Emitted, Chain
<1>2. /\ Program!Funs(p) = Bodies
      /\ \A d \in Bodies :
           /\ p.path[d] = Chain(d) /\ p.locals[d] = defs[d].locals /\ p.refs[d] = defs[d].refs
           /\ p.calls[d] = { Body(c) : c \in defs[d].calls }
           /\ p.provides[d] = defs[d].provides /\ p.requests[d] = defs[d].requests
           /\ p.level[d] = defs[defs[d].creator].level
  BY <1>1 DEF Program!Funs
<1>3. /\ Bodies \subseteq Functions /\ 1 \in Bodies
      /\ \A d \in Bodies : IsSeq(Chain(d)) /\ IsSeq(defs[d].provides) /\ ChainOK(d)
                             /\ Len(Chain(d)) > 0 /\ Len(Chain(d)) \in Nat
  <2>1. Bodies \subseteq Functions /\ 1 \in Bodies
    BY DEF ScopesInv, Chains, Bodies
  <2>2. \A d \in Bodies : IsSeq(Chain(d)) /\ IsSeq(defs[d].provides)
    BY <2>1 DEF ScopesInv, Shape
  <2>3. QED
    BY <2>1, <2>2 DEF ScopesInv, Chains, IsSeq
<1>4. ASSUME NEW d \in Bodies, NEW k \in 1 .. Len(Chain(d))
      PROVE  /\ Chain(d)[k] \in Bodies /\ Len(Chain(Chain(d)[k])) = k
             /\ \A l \in 1 .. k : Chain(Chain(d)[k])[l] = Chain(d)[l]
  <2>1. Len(Chain(d)) \in Nat /\ (k < Len(Chain(d)) \/ k = Len(Chain(d)))
    BY <1>3
  <2>2. QED
    BY <1>3, <2>1 DEF ChainOK
<1>5. Program!NestingOK(p)
  <2>1. p.path \in [Bodies -> Seq(Bodies)]
    <3>1. ASSUME NEW d \in Bodies PROVE Chain(d) \in Seq(Bodies)
      <4>1. Chain(d) \in Seq({ Chain(d)[k] : k \in 1 .. Len(Chain(d)) })
        BY <1>3, SeqIs
      <4>2. { Chain(d)[k] : k \in 1 .. Len(Chain(d)) } \subseteq Bodies
        BY <1>4
      <4>3. QED
        BY <4>1, <4>2
    <3>2. QED
      BY <1>1, <3>1
  <2>2. ASSUME NEW f \in Bodies
        PROVE  /\ Len(p.path[f]) >= 1
               /\ p.path[f][1] = 1 /\ p.path[f][Len(p.path[f])] = f
               /\ \A k \in 1 .. Len(p.path[f]) :
                    /\ Len(p.path[p.path[f][k]]) = k
                    /\ \A l \in 1 .. k : p.path[p.path[f][k]][l] = p.path[f][l]
    <3>1. p.path[f] = Chain(f) /\ \A k \in 1 .. Len(Chain(f)) : p.path[Chain(f)[k]] = Chain(Chain(f)[k])
      BY <1>2, <1>4
    <3>2. Len(Chain(f)) >= 1 /\ Chain(f)[1] = 1 /\ Chain(f)[Len(Chain(f))] = f
      BY <1>3 DEF ChainOK
    <3>3. QED
      BY <1>4, <3>1, <3>2
  <2>3. QED
    BY <1>2, <1>3, <2>1, <2>2 DEF Program!NestingOK
<1>6. Program!LinkingOK(p)
  <2>1. \A f \in Bodies : p.level[f] = Len(p.path[f])
    BY <1>2 DEF ScopesInv, Creators
  <2>2. p.level \in [Bodies -> Int]
    <3>1. \A f \in Bodies : defs[defs[f].creator].level \in Int
      BY <1>2, <1>3, <2>1
    <3>2. QED
      BY <1>1, <3>1
  <2>3. ASSUME NEW f \in Bodies, NEW g \in p.calls[f]
        PROVE  g \in Bodies /\ Program!Visible(p, f, g)
    <3>1. PICK c \in defs[f].calls : g = Body(c)
      BY <1>2
    <3>2. /\ g \in Bodies /\ g # 1 /\ Len(Chain(g)) - 1 <= Len(Chain(f))
          /\ \A k \in 1 .. Len(Chain(g)) - 1 : Chain(g)[k] = Chain(f)[k]
      BY <1>3, <3>1, BodyIs
    <3>3. QED
      BY <1>2, <3>2 DEF Program!Visible
  <2>4. \A f \in Bodies : \A i \in 1 .. Len(p.provides[f]) : p.provides[f][i] \in p.locals[f]
    BY <1>2, <1>3, Zenon DEF ScopesInv, VariablesOK
  <2>5. ASSUME NEW f \in Bodies, NEW x \in DOMAIN p.requests[f]
        PROVE  LET r == p.requests[f][x] IN
                 /\ r.diff \in 1 .. Len(p.path[f]) - 1
                 /\ r.idx \in 1 .. Len(p.provides[Program!Owner(p, f, x)])
                 /\ p.provides[Program!Owner(p, f, x)][r.idx] = x
    <3> PICK r, m : r = p.requests[f][x] /\ m = Len(Chain(f)) - r.diff
      OBVIOUS
    <3> PICK owner : owner = Chain(f)[m]
      OBVIOUS
    <3>1. x \in DOMAIN defs[f].requests /\ r = defs[f].requests[x]
      BY <1>2
    <3>2. /\ r.diff \in 1 .. Len(Chain(f)) - 1 /\ m \in 1 .. Len(Chain(f))
          /\ r.idx \in DOMAIN defs[owner].provides
          /\ defs[owner].provides[r.idx] = x
      <4>1. f \in Functions
        BY <1>3
      <4>2. /\ r = defs[f].requests[x]
            /\ m = Len(Chain(f)) - defs[f].requests[x].diff
        BY <3>1, Zenon
      <4>3. Met(r, Chain(f), m, x)
        BY <3>1, <4>1, <4>2, RequestIs, Zenon
      <4>4. QED
        BY <4>3 DEF Met
    <3>3. m \in 1 .. Len(Chain(f))
      BY <3>2
    <3>4. owner \in Bodies
      BY <1>4, <3>3, Zenon
    <3>5. r.idx \in 1 .. Len(defs[owner].provides)
      <4>1. IsSeq(defs[owner].provides)
        BY <1>3, <3>4, Zenon
      <4>2. DOMAIN defs[owner].provides = 1 .. Len(defs[owner].provides)
        BY <4>1, SeqDomain, Zenon
      <4>3. QED
        BY <3>2, <4>2
    <3>6. Program!Owner(p, f, x) = owner
      BY <1>2 DEF Program!Owner
    <3>7. p.path[f] = Chain(f) /\ p.provides[owner] = defs[owner].provides
      BY <1>2, <3>4
    <3>8. QED
      BY <3>2, <3>5, <3>6, <3>7, Zenon
  <2>6. QED
    BY <1>2, <2>1, <2>2, <2>3, <2>4, <2>5 DEF Program!LinkingOK
<1>7. Program!ShapeOK(p)
  <2>1. \A f \in Bodies : Len(defs[f].provides) \in Nat
    BY <1>3 DEF IsSeq
  <2>2. QED
    BY <1>2, <1>3, <2>1 DEF Program!ShapeOK, ScopesInv, VariablesOK
<1>8. QED
  BY <1>5, <1>6, <1>7 DEF Program!WellFormed

(* A program that semantic analysis accepts, and whose forward             *)
(* declarations all have their definitions, is what code generation and    *)
(* NestedCalls take for granted: calls go to visible functions, levels     *)
(* count the enclosing functions, and requests meet slots.                 *)
THEOREM AcceptedIsWellFormed == Spec => []EmitsWellFormed
BY ScopesAlways, EmittedWellFormed, PTL

-----------------------------------------------------------------------------
(* Code generation                                                         *)

-----------------------------------------------------------------------------
(* The names of a header's parameters                                      *)

(* A statement about the numbers up to n, by induction. *)
LEMMA UpTo ==
  ASSUME NEW n \in Nat, NEW P \in SUBSET Nat,
         \A i \in 0 .. n : (\A j \in 0 .. i - 1 : j \in P) => i \in P
  PROVE  n \in P
<1> SUFFICES ASSUME n \notin P PROVE FALSE
  OBVIOUS
<1> DEFINE T == { i \in 0 .. n : i \notin P }
<1>1. T \in SUBSET Nat /\ T # {}
  OBVIOUS
<1>2. PICK i \in T : \A j \in T : i <= j
  BY <1>1, Least
<1> HIDE DEF T
<1>3. i \in 0 .. n /\ i \notin P
  BY DEF T
<1>4. \A j \in 0 .. i - 1 : j \in 0 .. n /\ ~(i <= j)
  BY <1>3
<1>5. \A j \in 0 .. i - 1 : j \in P
  BY <1>2, <1>4 DEF T
<1>6. QED
  BY <1>3, <1>5

Flattening(f, ss, n) ==
  f = [i \in 1 .. n |-> IF i = 1 THEN ss[i] ELSE f[i - 1] \o ss[i]]

LEMMA FlatteningExists ==
  ASSUME NEW ss, NEW n \in Nat
  PROVE  \E f : Flattening(f, ss, n)
<1> DEFINE P == { m \in Nat : \E f : Flattening(f, ss, m) }
<1>1. ASSUME NEW i \in 0 .. n, \A j \in 0 .. i - 1 : j \in P
      PROVE  i \in P
  <2>1. CASE i = 0
    <3> DEFINE f == [k \in 1 .. 0 |-> 0]
    <3>1. Flattening(f, ss, 0)
      BY DEF Flattening
    <3>2. QED
      BY <2>1, <3>1
  <2>2. CASE i # 0
    <3>1. i - 1 \in 0 .. i - 1 /\ i - 1 \in Nat /\ i \in Nat
      BY <2>2
    <3>2. PICK f : Flattening(f, ss, i - 1)
      BY <1>1, <3>1
    <3> DEFINE last == IF i = 1 THEN ss[i] ELSE f[i - 1] \o ss[i]
               g == [k \in 1 .. i |-> IF k = i THEN last ELSE f[k]]
    <3>3. \A k \in 1 .. i - 1 : f[k] = IF k = 1 THEN ss[k] ELSE f[k - 1] \o ss[k]
      BY <3>2 DEF Flattening
    <3> HIDE DEF last
    <3>4. /\ \A k \in 1 .. i : k # i => k \in 1 .. i - 1 /\ g[k] = f[k]
          /\ \A k \in 1 .. i : k # 1 => k - 1 \in 1 .. i - 1 /\ g[k - 1] = f[k - 1]
          /\ g[i] = last
      BY <2>2
    <3> HIDE DEF g
    <3>5. \A k \in 1 .. i : g[k] = IF k = 1 THEN ss[k] ELSE g[k - 1] \o ss[k]
      <4>1. last = IF i = 1 THEN ss[i] ELSE f[i - 1] \o ss[i]
        BY DEF last
      <4>2. i \in 1 .. i
        BY <2>2
      <4>3. g[i] = IF i = 1 THEN ss[i] ELSE g[i - 1] \o ss[i]
        BY <3>4, <4>1, <4>2
      <4>4. ASSUME NEW k \in 1 .. i, k # i
            PROVE  g[k] = IF k = 1 THEN ss[k] ELSE g[k - 1] \o ss[k]
        BY <3>3, <3>4, <4>4
      <4>5. QED
        BY <4>3, <4>4
    <3>6. g = [k \in 1 .. i |-> g[k]]
      BY DEF g
    <3>7. Flattening(g, ss, i)
      BY <3>5, <3>6 DEF Flattening
    <3>8. QED
      BY <3>1, <3>7
  <2>3. QED
    BY <2>1, <2>2
<1>2. n \in P
  <2> HIDE DEF P
  <2>1. P \in SUBSET Nat
    BY DEF P
  <2>2. QED
    BY <1>1, <2>1, UpTo
<1>3. QED
  BY <1>2

LEMMA FlattenSeqIs ==
  ASSUME NEW ss, Len(ss) \in Nat, Len(ss) # 0
  PROVE  \E f : Flattening(f, ss, Len(ss)) /\ FlattenSeq(ss) = f[Len(ss)]
<1> DEFINE f == CHOOSE f : Flattening(f, ss, Len(ss))
<1>1. Flattening(f, ss, Len(ss))
  BY FlatteningExists
<1>2. FlattenSeq(ss) = f[Len(ss)]
  BY Zenon DEF FlattenSeq, Flattening
<1>3. QED
  BY <1>1, <1>2

LEMMA ElementsIs ==
  ASSUME NEW S, NEW s \in Seq(S), NEW e
  PROVE  e \in ToSet(s) <=> \E i \in 1 .. Len(s) : s[i] = e
<1>1. DOMAIN s = 1 .. Len(s)
  OBVIOUS
<1>2. e \in ToSet(s) <=> \E i \in DOMAIN s : s[i] = e
  BY Zenon DEF ToSet
<1>3. QED
  BY <1>1, <1>2, Zenon

LEMMA Concatenated ==
  ASSUME NEW S, NEW s \in Seq(S), NEW t \in Seq(S)
  PROVE  s \o t \in Seq(S) /\ ToSet(s \o t) = ToSet(s) \cup ToSet(t)
<1>1. /\ s \o t \in Seq(S) /\ Len(s \o t) = Len(s) + Len(t)
      /\ Len(s) \in Nat /\ Len(t) \in Nat
  OBVIOUS
<1>2. \A i \in 1 .. Len(s) + Len(t) :
        (s \o t)[i] = IF i <= Len(s) THEN s[i] ELSE t[i - Len(s)]
  OBVIOUS
<1> PICK m, n, u : m = Len(s) /\ n = Len(t) /\ u = s \o t
  OBVIOUS
<1>3. \A i \in 1 .. m : i \in 1 .. m + n /\ u[i] = s[i]
  BY <1>1, <1>2
<1>4. \A i \in 1 .. n : m + i \in 1 .. m + n /\ u[m + i] = t[i]
  BY <1>1, <1>2
<1>5. \A i \in 1 .. m + n :
        (i \in 1 .. m /\ u[i] = s[i]) \/ (i - m \in 1 .. n /\ u[i] = t[i - m])
  BY <1>1, <1>2
<1>6. ASSUME NEW e PROVE e \in ToSet(u) <=> e \in ToSet(s) \/ e \in ToSet(t)
  <2>1. /\ e \in ToSet(u) <=> \E i \in 1 .. m + n : u[i] = e
        /\ e \in ToSet(s) <=> \E i \in 1 .. m : s[i] = e
        /\ e \in ToSet(t) <=> \E i \in 1 .. n : t[i] = e
    BY <1>1, ElementsIs
  <2>2. ASSUME e \in ToSet(u) PROVE e \in ToSet(s) \/ e \in ToSet(t)
    <3>1. PICK i \in 1 .. m + n : u[i] = e
      BY <2>1, <2>2
    <3>2. CASE i \in 1 .. m /\ u[i] = s[i]
      BY <2>1, <3>1, <3>2
    <3>3. CASE i - m \in 1 .. n /\ u[i] = t[i - m]
      BY <2>1, <3>1, <3>3
    <3>4. QED
      BY <1>5, <3>1, <3>2, <3>3
  <2>3. e \in ToSet(s) => e \in ToSet(u)
    BY <1>3, <2>1
  <2>4. e \in ToSet(t) => e \in ToSet(u)
    BY <1>4, <2>1
  <2>5. QED
    BY <2>2, <2>3, <2>4
<1>7. ToSet(u) = ToSet(s) \cup ToSet(t)
  BY <1>6
<1>8. QED
  BY <1>1, <1>7

LEMMA FlattenSeqOf ==
  ASSUME NEW S, NEW ss \in Seq(Seq(S))
  PROVE  /\ FlattenSeq(ss) \in Seq(S)
         /\ \A e : e \in ToSet(FlattenSeq(ss)) <=> \E i \in DOMAIN ss : e \in ToSet(ss[i])
<1>1. /\ Len(ss) \in Nat /\ DOMAIN ss = 1 .. Len(ss)
      /\ \A i \in 1 .. Len(ss) : ss[i] \in Seq(S)
  OBVIOUS
<1>2. CASE Len(ss) = 0
  <2>1. FlattenSeq(ss) = ss /\ ss = << >>
    BY <1>2 DEF FlattenSeq
  <2>2. ToSet(<< >>) = {} /\ DOMAIN << >> = {} /\ << >> \in Seq(S)
    BY DEF ToSet
  <2>3. QED
    BY <2>1, <2>2
<1>3. CASE Len(ss) # 0
  <2>1. PICK f : Flattening(f, ss, Len(ss)) /\ FlattenSeq(ss) = f[Len(ss)]
    BY <1>1, <1>3, FlattenSeqIs
  <2>2. \A k \in 1 .. Len(ss) : f[k] = IF k = 1 THEN ss[k] ELSE f[k - 1] \o ss[k]
    BY <2>1 DEF Flattening
  <2> DEFINE Flat(k) == /\ f[k] \in Seq(S)
                     /\ \A e : e \in ToSet(f[k]) <=> \E i \in 1 .. k : e \in ToSet(ss[i])
             P == { k \in Nat : k \in 1 .. Len(ss) => Flat(k) }
  <2>3. ASSUME NEW k \in 0 .. Len(ss), \A j \in 0 .. k - 1 : j \in P
        PROVE  k \in P
    <3>1. CASE k = 0
      BY <3>1
    <3>2. CASE k = 1
      <4>1. f[k] = ss[k] /\ 1 .. k = {k} /\ k \in 1 .. Len(ss)
        BY <1>1, <1>3, <2>2, <3>2
      <4>2. Flat(k)
        BY <1>1, <4>1
      <4>3. QED
        BY <4>2
    <3>3. CASE k \notin {0, 1}
      <4>1. k - 1 \in 0 .. k - 1 /\ k - 1 \in 1 .. Len(ss) /\ k \in 1 .. Len(ss) /\ k # 1
        BY <1>1, <3>3
      <4>2. Flat(k - 1)
        BY <2>3, <4>1
      <4>3. f[k] = f[k - 1] \o ss[k] /\ ss[k] \in Seq(S)
        BY <1>1, <2>2, <4>1
      <4>4. 1 .. k = 1 .. k - 1 \cup {k}
        BY <4>1
      <4>5. \A s \in Seq(S), t \in Seq(S) : s \o t \in Seq(S) /\ ToSet(s \o t) = ToSet(s) \cup ToSet(t)
        BY Concatenated
      <4>6. f[k] \in Seq(S) /\ ToSet(f[k]) = ToSet(f[k - 1]) \cup ToSet(ss[k])
        BY <4>2, <4>3, <4>5
      <4>7. ASSUME NEW e
            PROVE  e \in ToSet(f[k]) <=> \E i \in 1 .. k : e \in ToSet(ss[i])
        <5>1. (\E i \in 1 .. k : e \in ToSet(ss[i]))
                <=> ((\E i \in 1 .. k - 1 : e \in ToSet(ss[i])) \/ e \in ToSet(ss[k]))
          BY <4>4
        <5>2. QED
          BY <4>2, <4>6, <5>1
      <4>8. Flat(k)
        BY <4>6, <4>7
      <4>9. QED
        BY <4>8
    <3>4. QED
      BY <3>1, <3>2, <3>3
  <2>4. Len(ss) \in P
    <3> HIDE DEF P
    <3>1. P \in SUBSET Nat
      BY DEF P
    <3>2. QED
      BY <1>1, <2>3, <3>1, UpTo
  <2>5. Len(ss) \in 1 .. Len(ss)
    BY <1>1, <1>3
  <2>6. Flat(Len(ss))
    BY <2>4, <2>5
  <2>7. QED
    BY <1>1, <2>1, <2>6
<1>4. QED
  BY <1>2, <1>3

LEMMA ParameterNamesAre ==
  ASSUME NEW h \in Headers
  PROVE  /\ ParameterNames(h) \in Seq(VariableNames)
         /\ ToSet(ParameterNames(h)) = ParametersNamed(h, BOOLEAN)
<1> DEFINE names == [i \in DOMAIN h.groups |-> h.groups[i].names]
<1>1. /\ h.groups \in Seq(ToSet(h.groups))
      /\ \A i \in DOMAIN h.groups :
           h.groups[i].names \in Seq(VariableNames) /\ h.groups[i].byValue \in BOOLEAN
  BY HeadersAssumption
<1>2. DOMAIN h.groups = 1 .. Len(h.groups) /\ Len(h.groups) \in Nat
  BY <1>1
<1>3. names \in Seq(Seq(VariableNames))
  BY <1>1, <1>2
<1>4. ParameterNames(h) = FlattenSeq(names)
  BY DEF ParameterNames
<1>5. DOMAIN names = DOMAIN h.groups /\ \A i \in DOMAIN h.groups : names[i] = h.groups[i].names
  OBVIOUS
<1> HIDE DEF names
<1>6. /\ FlattenSeq(names) \in Seq(VariableNames)
      /\ \A e : e \in ToSet(FlattenSeq(names)) <=> \E i \in DOMAIN names : e \in ToSet(names[i])
  BY <1>3, FlattenSeqOf
<1>7. ASSUME NEW e
      PROVE  e \in ParametersNamed(h, BOOLEAN)
               <=> \E i \in DOMAIN h.groups : e \in ToSet(h.groups[i].names)
  BY <1>1, Zenon DEF ParametersNamed
<1>8. ASSUME NEW e PROVE e \in ToSet(ParameterNames(h)) <=> e \in ParametersNamed(h, BOOLEAN)
  BY <1>4, <1>5, <1>6, <1>7, Zenon
<1>9. QED
  BY <1>4, <1>6, <1>8

(* The scope of a function and the prologue of its routine have the same   *)
(* names, and the prologue enters none of them twice.                      *)
LEMMA PrologueIs ==
  ASSUME NEW h \in Headers, IsInjective(ParameterNames(h)), NEW d
  PROVE  /\ IsInjective(Prologue(h))
         /\ ToSet(Prologue(h)) = DOMAIN FunctionScope(d, h).levelEntries
<1> PICK names, new : names = ParameterNames(h) /\ new = Prologue(h)
  OBVIOUS
<1> DEFINE local == ParametersNamed(h, BOOLEAN)
                      \cup (IF Equals(h.type, typeVoid) THEN {} ELSE {"result"})
<1>1. names \in Seq(VariableNames) /\ ToSet(names) = ParametersNamed(h, BOOLEAN)
  BY ParameterNamesAre
<1>2. DOMAIN FunctionScope(d, h).levelEntries = local
  BY DEF FunctionScope
<1>3. "result" \notin VariableNames
  BY NamesAssumption
<1>4. CASE Equals(h.type, typeVoid)
  <2>1. new = names
    BY <1>1, <1>4 DEF Prologue
  <2>2. QED
    BY <1>1, <1>2, <1>4, <2>1
<1>5. CASE ~Equals(h.type, typeVoid)
  <2>1. new = names \o << "result" >>
    BY <1>5, Zenon DEF Prologue
  <2> PICK S : S = VariableNames \cup {"result"}
    OBVIOUS
  <2>2. names \in Seq(S) /\ << "result" >> \in Seq(S)
    BY <1>1
  <2>3. /\ new \in Seq(S) /\ Len(names) \in Nat /\ Len(new) = Len(names) + 1
        /\ \A i \in 1 .. Len(names) : new[i] = names[i] /\ names[i] \in VariableNames
        /\ new[Len(names) + 1] = "result"
    BY <1>1, <2>1, <2>2
  <2>4. DOMAIN new = 1 .. Len(names) + 1 /\ DOMAIN names = 1 .. Len(names)
    BY <1>1, <2>3
  <2>5. \A i \in DOMAIN new : i = Len(names) + 1 \/ i \in DOMAIN names
    BY <2>3, <2>4
  <2>6. IsInjective(new)
    BY <1>3, <2>3, <2>4, <2>5 DEF IsInjective
  <2>7. ToSet(<< "result" >>) = {"result"}
    BY DEF ToSet
  <2>8. ToSet(new) = ToSet(names) \cup {"result"}
    <3> PICK tail : tail = << "result" >>
      OBVIOUS
    <3>1. ToSet(names \o tail) = ToSet(names) \cup ToSet(tail)
      <4>1. names \in Seq(S) /\ tail \in Seq(S)
        BY <2>2
      <4>2. QED
        <5>1. \A s \in Seq(S), u \in Seq(S) : ToSet(s \o u) = ToSet(s) \cup ToSet(u)
          BY Concatenated
        <5>2. QED
          BY <4>1, <5>1
    <3>2. QED
      BY <2>1, <2>7, <3>1
  <2>9. QED
    BY <1>1, <1>2, <1>5, <2>6, <2>8
<1>6. QED
  BY <1>4, <1>5

-----------------------------------------------------------------------------
(* The inductive invariant, by its parts                                   *)

Owner(i) == defs[Function(i)].creator   \* the function whose routine scope i belongs to

GenFields == {"function", "locals", "labelNames", "parentBB"}

(* What the second walk has for the entry e of scope i, of the routine o.  *)
MirrorOf(e, i, o) ==
  IF e.entryType = "variable" THEN VariableGenEntry(o)
  ELSE IF e.entryType = "function" THEN FunctionGenEntry(e.function, IF i = 1 THEN 0 ELSE i)
  ELSE [kind |-> "label", label |-> IF e.isBound THEN o ELSE NoFunction,
        gotos |-> IF e.isTargeted THEN {o} ELSE {}]

ScopeMirrored(i) ==
  /\ DOMAIN genScopes[i] = GenFields
  /\ genScopes[i].function = Function(i)
  /\ genScopes[i].labelNames = scopeStack[i].labelNames
  /\ i > 2 => genScopes[i].parentBB = Owner(i - 1)
  /\ DOMAIN genScopes[i].locals = DOMAIN Entries(i)
  /\ \A x \in DOMAIN Entries(i) :
       genScopes[i].locals[x] = MirrorOf(Entries(i)[x], i, Owner(i))

Mirror ==
  /\ IsSeq(genScopes) /\ GenTop = Top
  /\ \A i \in 1 .. Top : ScopeMirrored(i)

(* Names in the scopes of functions: what was requested is not declared    *)
(* there, what is provided is.                                             *)
VariableIn(i, x) == x \in DOMAIN Entries(i) /\ Entries(i)[x].entryType = "variable"

ScopeUses(i) ==
  /\ \A x \in DOMAIN defs[Function(i)].requests : scopeStack[i].body /\ ~VariableIn(i, x)
  /\ \A k \in 1 .. Len(defs[Function(i)].provides) : VariableIn(i, defs[Function(i)].provides[k])
  /\ "result" \in DOMAIN Entries(i) => VariableIn(i, "result")
  /\ \A k \in 1 .. Len(scopeStack[i].labelNames) : scopeStack[i].labelNames[k] \in LabelNames

Uses ==
  /\ \A i \in Inner : ScopeUses(i)
  /\ todo # << >> => scopeStack[Top].body

(* Levels, counted twice. *)
Levels ==
  /\ IsSeq(levels) /\ Len(levels) = Len(defs) /\ levels[1] = 0
  /\ \A d \in Functions :
       /\ d # 1 => levels[d] = defs[d].level
       /\ defs[d].level \in 1 .. MaxScopes
       /\ Len(Chain(d)) > 0 => Len(Chain(d)) = defs[d].level

Entered ==
  \A e \in entered :
    /\ e[1] \in Functions /\ e[2] \in defs[e[1]].calls
    /\ e[3] = Len(Chain(e[1])) - defs[e[2]].level + 1

Patched ==
  \A p \in patched : p[1] \in Functions /\ p[2] \in LabelNames /\ p[3] = p[1]

Running ==
  /\ Mirror /\ Uses /\ Top <= MaxScopes
  /\ builder = Owner(Top)

GenInv ==
  /\ status = "run" => Running
  /\ builder \in Functions /\ Levels /\ Entered /\ Patched
  /\ GotosPatched /\ fault = Sound

-----------------------------------------------------------------------------
(* What the invariant says of both tables                                  *)

LEMMA GenNamingIs ==
  ASSUME ScopesInv, status = "run", Running, NEW x
  PROVE  GenNaming(x) = ScopesNaming(x)
<1>1. GenTop = Top /\ \A i \in 1 .. Top : DOMAIN genScopes[i].locals = DOMAIN Entries(i)
  BY DEF Running, Mirror, ScopeMirrored
<1>2. QED
  BY <1>1 DEF GenNaming, ScopesNaming

(* A lookup of the second walk finds what mirrors the entry the first      *)
(* found.                                                                  *)
LEMMA GenFoundIs ==
  ASSUME ScopesInv, status = "run", Running, NEW x, ScopesNaming(x) # {}
  PROVE  \E i \in 1 .. Top :
           /\ x \in DOMAIN Entries(i) /\ Denoted(x) = Entries(i)[x]
           /\ Max(GenNaming(x)) = i
           /\ GenNaming(x) # {} /\ GenFound(x) = MirrorOf(Entries(i)[x], i, Owner(i))
           /\ \A j \in 1 .. Top : x \in DOMAIN Entries(j) => j <= i
<1>1. PICK i \in 1 .. Top :
        /\ i = Max(ScopesNaming(x)) /\ x \in DOMAIN Entries(i) /\ Denoted(x) = Entries(i)[x]
        /\ \A j \in 1 .. Top : x \in DOMAIN Entries(j) => j <= i
  BY TopRuns, DenotedIs
<1>2. GenNaming(x) = ScopesNaming(x)
  BY GenNamingIs
<1>3. genScopes[i].locals[x] = MirrorOf(Entries(i)[x], i, Owner(i))
  BY <1>1 DEF Running, Mirror, ScopeMirrored
<1>4. GenFound(x) = genScopes[i].locals[x]
  BY <1>1, <1>2 DEF GenFound
<1>5. QED
  BY <1>1, <1>2, <1>3, <1>4

(* ... in the innermost scope, when it is there. *)
LEMMA GenFoundOnTop ==
  ASSUME ScopesInv, status = "run", Running, NEW x, x \in DOMAIN Entries(Top)
  PROVE  /\ GenNaming(x) # {} /\ Max(GenNaming(x)) = Top /\ Denoted(x) = Entries(Top)[x]
         /\ GenFound(x) = MirrorOf(Entries(Top)[x], Top, Owner(Top))
<1>1. Top \in Nat /\ Top \in 1 .. Top
  BY TopRuns
<1>2. ScopesNaming(x) # {}
  BY <1>1 DEF ScopesNaming
<1>3. PICK i \in 1 .. Top :
        /\ x \in DOMAIN Entries(i) /\ Denoted(x) = Entries(i)[x]
        /\ Max(GenNaming(x)) = i
        /\ GenNaming(x) # {} /\ GenFound(x) = MirrorOf(Entries(i)[x], i, Owner(i))
        /\ \A j \in 1 .. Top : x \in DOMAIN Entries(j) => j <= i
  BY <1>2, GenFoundIs
<1>4. i = Top
  <2>1. Top <= i /\ i <= Top /\ i \in Nat
    BY <1>1, <1>3
  <2>2. QED
    BY <1>1, <2>1
<1>5. QED
  BY <1>3, <1>4

LEMMA MirrorKinds ==
  ASSUME NEW e, NEW i, NEW o
  PROVE  /\ e.entryType = "variable" => MirrorOf(e, i, o) = VariableGenEntry(o)
                                          /\ MirrorOf(e, i, o).kind = "variable"
         /\ e.entryType = "function" => /\ MirrorOf(e, i, o).kind = "function"
                                        /\ MirrorOf(e, i, o).of = e.function
                                        /\ i # 1 => MirrorOf(e, i, o).level = i
         /\ e.entryType = "label" =>
              /\ DOMAIN MirrorOf(e, i, o) = {"kind", "label", "gotos"}
              /\ MirrorOf(e, i, o).kind = "label"
              /\ MirrorOf(e, i, o).label = IF e.isBound THEN o ELSE NoFunction
              /\ MirrorOf(e, i, o).gotos = IF e.isTargeted THEN {o} ELSE {}
BY DEF MirrorOf, VariableGenEntry, FunctionGenEntry

LEMMA FaultlessLookup ==
  ASSUME ScopesInv, status = "run", Running, NEW x, ScopesNaming(x) # {},
         Denoted(x).entryType \in {"variable", "function", "label"}
  PROVE  LookupFault(x, Denoted(x).entryType) = Sound
<1>1. PICK i \in 1 .. Top :
        /\ Denoted(x) = Entries(i)[x] /\ GenNaming(x) # {}
        /\ GenFound(x) = MirrorOf(Entries(i)[x], i, Owner(i))
  BY GenFoundIs
<1> PICK e, o : e = Denoted(x) /\ o = Owner(i)
  OBVIOUS
<1>2. GenFound(x).kind = e.entryType
  <2>1. GenFound(x) = MirrorOf(e, i, o)
    BY <1>1
  <2>2. MirrorOf(e, i, o).kind = e.entryType
    BY MirrorKinds
  <2>3. QED
    BY <2>1, <2>2
<1>3. QED
  BY <1>1, <1>2 DEF LookupFault

LEMMA VariableFound ==
  ASSUME ScopesInv, status = "run", Running, NEW x, VariableIn(Top, x)
  PROVE  LookupFault(x, "variable") = Sound
<1>1. x \in DOMAIN Entries(Top) /\ Entries(Top)[x].entryType = "variable"
  BY DEF VariableIn
<1>2. GenNaming(x) # {} /\ Denoted(x) = Entries(Top)[x]
  BY <1>1, GenFoundOnTop
<1>3. ScopesNaming(x) # {}
  BY <1>2, GenNamingIs
<1>4. LookupFault(x, Denoted(x).entryType) = Sound
  BY <1>1, <1>2, <1>3, FaultlessLookup
<1>5. QED
  BY <1>1, <1>2, <1>4

LEMMA GenTyped == ScopesInv /\ GenInv => GenTypeOK
<1> SUFFICES ASSUME ScopesInv, GenInv PROVE GenTypeOK
  OBVIOUS
<1>1. TypeOK
  BY ScopesTyped
<1>2. levels \in [Functions -> 0 .. MaxScopes]
  <2>1. /\ IsSeq(levels) /\ Len(levels) = Len(defs) /\ levels[1] = 0 /\ MaxScopes \in Nat
        /\ \A d \in Functions : d # 1 => levels[d] \in 1 .. MaxScopes
    BY BoundsAssumption DEF GenInv, Levels
  <2>2. levels = [d \in Functions |-> levels[d]]
    BY <2>1 DEF IsSeq, Functions
  <2>3. \A d \in Functions : levels[d] \in 0 .. MaxScopes
    BY <2>1
  <2>4. QED
    BY <2>2, <2>3
<1>3. status = "run" => /\ GenTop = Top
                        /\ \A i \in 1 .. Top : genScopes[i].function = scopeStack[i].function
  BY DEF GenInv, Running, Mirror, ScopeMirrored, Function
<1>4. QED
  BY <1>1, <1>2, <1>3 DEF GenTypeOK, GenInv, Patched

LEMMA DenotesSame == ScopesInv /\ GenInv => SameDenotation
<1> SUFFICES ASSUME ScopesInv, GenInv, status = "run" PROVE SameDenotation
  BY DEF SameDenotation
<1>1. /\ Running /\ Top \in Nat /\ Top \in Inner /\ Top \in 1 .. Top /\ Current = Function(Top)
  BY TopRuns DEF GenInv
<1>2. ASSUME NEW x \in VariableNames, VariableScopes(x) # {}, FoundIn(x) = Top
      PROVE  /\ GenNaming(x) # {}
             /\ GenFound(x) = VariableGenEntry(defs[Current].creator)
             /\ x \notin DOMAIN defs[Current].requests
  <2>1. VariableIn(Top, x)
    BY <1>2, FoundIs DEF VariableIn
  <2>2. GenNaming(x) # {} /\ GenFound(x) = MirrorOf(Entries(Top)[x], Top, Owner(Top))
    BY <1>1, <2>1, GenFoundOnTop DEF VariableIn
  <2>3. GenFound(x) = VariableGenEntry(Owner(Top))
    BY <2>1, <2>2, MirrorKinds DEF VariableIn
  <2>4. x \notin DOMAIN defs[Current].requests
    BY <1>1, <2>1 DEF Running, Uses, ScopeUses
  <2>5. QED
    BY <1>1, <2>2, <2>3, <2>4 DEF Owner
<1>3. ASSUME NEW f \in FunctionNames, ScopesNaming(f) # {}, Denoted(f).entryType = "function"
      PROVE  LET d == Denoted(f).function
             IN  /\ GenNaming(f) # {} /\ GenFound(f).kind = "function"
                 /\ GenFound(f).of = IF d = NoFunction THEN NoFunction ELSE defs[d].creator
  <2>1. PICK i \in 1 .. Top :
          /\ f \in DOMAIN Entries(i) /\ Denoted(f) = Entries(i)[f]
          /\ GenNaming(f) # {} /\ GenFound(f) = MirrorOf(Entries(i)[f], i, Owner(i))
    BY <1>1, <1>3, GenFoundIs
  <2> PICK e, o : e = Denoted(f) /\ o = Owner(i)
    OBVIOUS
  <2>2. GenFound(f) = MirrorOf(e, i, o) /\ e.entryType = "function"
    BY <1>3, <2>1
  <2>3. GenFound(f).kind = "function" /\ GenFound(f).of = e.function
    <3>1. e.entryType = "function" =>
            MirrorOf(e, i, o).kind = "function" /\ MirrorOf(e, i, o).of = e.function
      BY MirrorKinds
    <3>2. QED
      BY <2>2, <3>1
  <2>4. e.function # NoFunction => defs[e.function].creator = e.function
    <3>1. Named(i, f) /\ Entries(i)[f] = e
      BY <1>3, <2>1 DEF Named
    <3>2. CASE i = 1
      <4>1. Top >= 1 /\ f \in DOMAIN Entries(1) /\ Entries(1)[f] = e
        BY <1>1, <3>1, <3>2 DEF Named
      <4>2. Entries(1)[f].function = NoFunction
        BY <4>1 DEF ScopesInv, Names
      <4>3. QED
        BY <4>1, <4>2
    <3>3. CASE i # 1
      <4>1. i \in Inner
        BY <1>1, <3>3 DEF Inner
      <4>2. NamedOK(i, f)
        BY <3>1, <4>1 DEF ScopesInv, Names
      <4>3. QED
        BY <3>1, <4>2 DEF NamedOK
    <3>4. QED
      BY <3>2, <3>3
  <2>5. QED
    BY <2>1, <2>3, <2>4
<1>4. QED
  BY <1>2, <1>3 DEF SameDenotation

LEMMA BuilderIsOwn == ScopesInv /\ GenInv => BuilderInOwnRoutine
BY TopRuns DEF BuilderInOwnRoutine, GenInv, Running, Owner

(* The number of loads, from the lengths of the chains. *)
LEMMA LoadsLead ==
  ASSUME NEW m \in Nat, NEW n \in Nat, n > 0, n - 1 <= m, NEW loads, loads = m - n + 1
  PROVE  m - (IF loads > 0 THEN loads ELSE 0) = n - 1
<1>1. loads \in Int /\ loads >= 0 /\ m - loads = n - 1
  OBVIOUS
<1>2. CASE loads > 0
  BY <1>1, <1>2
<1>3. CASE ~(loads > 0)
  BY <1>1, <1>3
<1>4. QED
  BY <1>2, <1>3

LEMMA EnteredReachParent == ScopesInv /\ GenInv => CallsReachParent
<1> SUFFICES ASSUME ScopesInv, GenInv, NEW e \in entered, Chain(e[2]) # << >>
             PROVE  LET caller == Chain(e[1])
                        callee == Chain(e[2])
                        loads == IF e[3] > 0 THEN e[3] ELSE 0
                    IN  /\ Len(caller) - loads = Len(callee) - 1
                        /\ Front(callee) = SubSeq(caller, 1, Len(callee) - 1)
  BY DEF CallsReachParent, Chain
<1> PICK caller, callee : caller = Chain(e[1]) /\ callee = Chain(e[2])
  OBVIOUS
<1>1. /\ e[1] \in Functions /\ e[2] \in defs[e[1]].calls
      /\ e[3] = Len(caller) - defs[e[2]].level + 1
  BY DEF GenInv, Entered
<1>2. e[2] \in Functions /\ (Len(callee) > 0 => Sees(e[1], e[2]))
  BY <1>1 DEF ScopesInv, CallsOK
<1>3. IsSeq(caller) /\ IsSeq(callee)
  BY <1>1, <1>2 DEF ScopesInv, Shape
<1>4. Len(callee) > 0
  <2>1. Len(callee) \in Nat /\ callee = [i \in 1 .. Len(callee) |-> callee[i]] /\ callee # << >>
    BY <1>3 DEF IsSeq
  <2>2. QED
    BY <2>1
<1>5. Len(callee) = defs[e[2]].level
  BY <1>2, <1>4 DEF GenInv, Levels
<1>6. /\ Len(callee) - 1 <= Len(caller)
      /\ \A k \in 1 .. Len(callee) - 1 : callee[k] = caller[k]
  BY <1>2, <1>4 DEF Sees
<1> PICK m, n : m = Len(caller) /\ n = Len(callee)
  OBVIOUS
<1>7. m \in Nat /\ n \in Nat /\ n > 0 /\ n - 1 <= m /\ e[3] = m - n + 1
  BY <1>1, <1>3, <1>4, <1>5, <1>6 DEF IsSeq
<1>8. m - (IF e[3] > 0 THEN e[3] ELSE 0) = n - 1
  BY <1>7, LoadsLead, Zenon
<1>9. Front(callee) = SubSeq(caller, 1, n - 1)
  <2>1. /\ callee \in Seq({ callee[i] : i \in 1 .. n })
        /\ caller \in Seq({ caller[i] : i \in 1 .. m })
    BY <1>3, SeqIs
  <2>2. SubSeq(callee, 1, n - 1) = [i \in 1 .. n - 1 |-> callee[i]]
    BY <1>7, <2>1
  <2>3. SubSeq(caller, 1, n - 1) = [i \in 1 .. n - 1 |-> caller[i]]
    BY <1>7, <2>1
  <2>4. QED
    BY <1>6, <2>2, <2>3 DEF Front
<1>10. QED
  BY <1>8, <1>9

-----------------------------------------------------------------------------
(* Steps that keep most of it                                              *)

LEMMA GenRefused ==
  ASSUME ScopesInv, GenInv, Refuses, UNCHANGED genVars
  PROVE  GenInv'
<1>1. /\ status' \in {"error", "undefined"} /\ defs' = defs
      /\ builder' = builder /\ levels' = levels /\ entered' = entered /\ patched' = patched
      /\ fault' = fault
  BY DEF Refuses, genVars
<1>2. Functions' = Functions /\ \A d : Chain(d)' = Chain(d)
  BY <1>1 DEF Functions, Chain
<1>3. Levels' /\ Entered' /\ Patched'
  BY <1>1, <1>2 DEF GenInv, Levels, Entered, Patched
<1>4. GotosPatched'
  BY <1>1 DEF GenInv, GotosPatched
<1>5. QED
  BY <1>1, <1>2, <1>3, <1>4 DEF GenInv

LEMMA LevelsKept ==
  ASSUME Levels, SameFrame, levels' = levels
  PROVE  Levels'
BY DEF Levels, SameFrame, Functions

LEMMA EnteredKept ==
  ASSUME ScopesInv, Entered, SameFrame, entered' = entered,
         \A d \in Functions : defs[d].calls \subseteq defs'[d].calls
  PROVE  Entered'
<1>1. Functions' = Functions
  BY DEF SameFrame, Functions
<1>2. ASSUME NEW e \in entered
      PROVE  /\ e[1] \in Functions /\ e[2] \in defs'[e[1]].calls
             /\ e[3] = Len(Chain(e[1])') - defs'[e[2]].level + 1
  <2>1. /\ e[1] \in Functions /\ e[2] \in defs[e[1]].calls
        /\ e[3] = Len(Chain(e[1])) - defs[e[2]].level + 1
    BY DEF Entered
  <2>2. e[2] \in Functions
    BY <2>1 DEF ScopesInv, CallsOK
  <2>3. Chain(e[1])' = Chain(e[1]) /\ defs'[e[2]].level = defs[e[2]].level
    BY <2>1, <2>2 DEF SameFrame
  <2>4. QED
    BY <2>1, <2>3
<1>3. QED
  BY <1>1, <1>2 DEF Entered

LEMMA GotosPatchedKept ==
  ASSUME GotosPatched, status = "run", SameFrame, patched' = patched,
         \A d \in Functions : d \notin Open => defs'[d].gotos = defs[d].gotos
  PROVE  GotosPatched'
<1>1. Functions' = Functions /\ Open' = Open
  BY DEF SameFrame, Functions, Open, Function
<1>2. \A d \in Functions : defs'[d].creator = defs[d].creator
  BY DEF SameFrame
<1>3. QED
  BY <1>1, <1>2 DEF GotosPatched

(* A step within the scopes there are. *)
LEMMA FrameStep ==
  ASSUME ScopesInv, GenInv, status = "run", SameFrame, Mirror', Uses', Entered',
         levels' = levels, builder' = builder, patched' = patched, fault' = Sound,
         \A d \in Functions : d \notin Open => defs'[d].gotos = defs[d].gotos
  PROVE  GenInv'
<1>1. Levels' /\ GotosPatched'
  BY LevelsKept, GotosPatchedKept DEF GenInv
<1>2. Functions' = Functions /\ Top' = Top /\ Top \in 1 .. Top /\ Function(Top) \in Functions
  BY TopRuns DEF SameFrame, Functions
<1>3. Patched'
  BY <1>2 DEF GenInv, Patched
<1>4. builder' \in Functions'
  BY <1>2 DEF GenInv
<1>5. builder' = Owner(Top)'
  <2>1. Function(Top)' = Function(Top)
    BY <1>2 DEF SameFrame
  <2>2. defs'[Function(Top)].creator = defs[Function(Top)].creator
    BY <1>2 DEF SameFrame
  <2>3. builder = Owner(Top)
    BY DEF GenInv, Running
  <2>4. QED
    BY <1>2, <2>1, <2>2, <2>3 DEF Owner
<1>6. Running'
  BY <1>2, <1>5 DEF GenInv, Running
<1>7. QED
  BY <1>1, <1>3, <1>4, <1>6 DEF GenInv

LEMMA OwnersKept ==
  ASSUME ScopesInv, status = "run", SameFrame
  PROVE  \A i \in Inner : Owner(i)' = Owner(i)
<1>1. \A i \in Inner : i \in 1 .. Top /\ Function(i) \in Functions
  BY TopRuns DEF ScopesInv, Nested, Inner, Bodies
<1>2. \A i \in Inner : Function(i)' = Function(i) /\ defs'[Function(i)].creator = Owner(i)
  BY <1>1 DEF SameFrame, Owner
<1>3. QED
  BY <1>2 DEF Owner

(* The mirror of an entry of the library's scope has no routine in it. *)
LEMMA LibraryMirror ==
  ASSUME ScopesInv, status = "run", NEW x \in DOMAIN Entries(1), NEW o, NEW p
  PROVE  MirrorOf(Entries(1)[x], 1, o) = MirrorOf(Entries(1)[x], 1, p)
<1>1. Entries(1)[x].entryType = "function"
  BY TopRuns DEF ScopesInv, Names, Named
<1>2. QED
  BY <1>1 DEF MirrorOf

LEMMA MirrorSame ==
  ASSUME ScopesInv, status = "run", Mirror, SameFrame, SameTables, genScopes' = genScopes
  PROVE  Mirror'
<1>1. /\ IsSeq(genScopes') /\ Top' = Top /\ GenTop' = Top
      /\ \A i \in 1 .. Top : /\ Function(i)' = Function(i) /\ Entries(i)' = Entries(i)
                             /\ scopeStack'[i].labelNames = scopeStack[i].labelNames
  BY DEF Mirror, GenTop, SameTables, Entries, Function
<1>2. ASSUME NEW i \in 1 .. Top PROVE ScopeMirrored(i)'
  <2>1. ScopeMirrored(i)
    BY DEF Mirror
  <2>2. i > 2 => Owner(i - 1)' = Owner(i - 1)
    <3>1. Top \in Nat
      BY TopRuns
    <3>2. i > 2 => i - 1 \in Inner
      BY <3>1 DEF Inner
    <3>3. QED
      BY <3>2, OwnersKept
  <2>3. \A x \in DOMAIN Entries(i) :
          MirrorOf(Entries(i)[x], i, Owner(i)') = MirrorOf(Entries(i)[x], i, Owner(i))
    <3>1. CASE i = 1
      BY <3>1, LibraryMirror
    <3>2. CASE i # 1
      <4>1. i \in Inner
        BY <3>2, TopRuns DEF Inner
      <4>2. QED
        BY <4>1, OwnersKept
    <3>3. QED
      BY <3>1, <3>2
  <2>4. /\ i > 2 => genScopes'[i].parentBB = Owner(i - 1)'
        /\ \A x \in DOMAIN Entries(i)' :
             genScopes'[i].locals[x] = MirrorOf(Entries(i)'[x], i, Owner(i)')
    BY <1>1, <2>1, <2>2, <2>3 DEF ScopeMirrored
  <2>5. QED
    BY <1>1, <2>1, <2>4 DEF ScopeMirrored
<1>3. QED
  BY <1>1, <1>2 DEF Mirror

(* gs is the table of the second walk with x entered or changed in its     *)
(* last scope.                                                             *)
GenWrites(gs, x, g) ==
  /\ IsSeq(gs) /\ Len(gs) = Top
  /\ \A i \in 1 .. Top :
       /\ DOMAIN gs[i] = GenFields
       /\ gs[i].function = genScopes[i].function /\ gs[i].parentBB = genScopes[i].parentBB
       /\ DOMAIN gs[i].locals = DOMAIN genScopes[i].locals \cup (IF i = Top THEN {x} ELSE {})
       /\ \A n \in DOMAIN gs[i].locals :
            gs[i].locals[n] = IF i = Top /\ n = x THEN g ELSE genScopes[i].locals[n]

(* The scope new is scope with x in it.                                    *)
ScopeWith(scope, new, x, g) ==
  /\ DOMAIN new = GenFields
  /\ new.function = scope.function /\ new.parentBB = scope.parentBB
  /\ DOMAIN new.locals = DOMAIN scope.locals \cup {x}
  /\ \A n \in DOMAIN new.locals : new.locals[n] = IF n = x THEN g ELSE scope.locals[n]

LEMMA GenWritten ==
  ASSUME Mirror, Top \in Nat, Top >= 1, NEW x, NEW g, NEW new,
         ScopeWith(genScopes[Top], new, x, g),
         NEW gs, gs = Updated(genScopes, Top, new)
  PROVE  /\ GenWrites(gs, x, g) /\ gs[Top] = new
         /\ \A i \in 1 .. Top : i # Top => gs[i] = genScopes[i]
<1>1. /\ IsSeq(genScopes) /\ Len(genScopes) = Top /\ Top \in 1 .. Len(genScopes)
      /\ \A i \in 1 .. Top : DOMAIN genScopes[i] = GenFields
  BY DEF Mirror, GenTop, ScopeMirrored
<1>2. /\ IsSeq(gs) /\ Len(gs) = Top
      /\ \A i \in 1 .. Top : gs[i] = IF i = Top THEN new ELSE genScopes[i]
  BY <1>1, UpdateSeq
<1>3. ASSUME NEW i \in 1 .. Top
      PROVE  /\ DOMAIN gs[i] = GenFields
             /\ gs[i].function = genScopes[i].function /\ gs[i].parentBB = genScopes[i].parentBB
             /\ DOMAIN gs[i].locals
                  = DOMAIN genScopes[i].locals \cup (IF i = Top THEN {x} ELSE {})
             /\ \A n \in DOMAIN gs[i].locals :
                  gs[i].locals[n] = IF i = Top /\ n = x THEN g ELSE genScopes[i].locals[n]
  <2>1. CASE i = Top
    <3>1. gs[i] = new /\ genScopes[i] = genScopes[Top]
      BY <1>2, <2>1
    <3>2. QED
      BY <2>1, <3>1 DEF ScopeWith
  <2>2. CASE i # Top
    <3>1. gs[i] = genScopes[i]
      BY <1>2, <2>2
    <3>2. QED
      BY <1>1, <2>2, <3>1
  <2>3. QED
    BY <2>1, <2>2
<1>4. GenWrites(gs, x, g)
  BY <1>2, <1>3 DEF GenWrites
<1>5. QED
  BY <1>1, <1>2, <1>4

LEMMA WithEntryIs ==
  ASSUME NEW scope, DOMAIN scope = GenFields, NEW x, NEW g
  PROVE  /\ ScopeWith(scope, WithEntry(scope, x, g), x, g)
         /\ WithEntry(scope, x, g).labelNames = scope.labelNames
<1> DEFINE locals == [n \in DOMAIN scope.locals \cup {x} |-> IF n = x THEN g ELSE scope.locals[n]]
           new == [scope EXCEPT !.locals = locals]
<1>1. WithEntry(scope, x, g) = new
  BY DEF WithEntry
<1>2. /\ DOMAIN locals = DOMAIN scope.locals \cup {x}
      /\ \A n \in DOMAIN locals : locals[n] = IF n = x THEN g ELSE scope.locals[n]
  OBVIOUS
<1> HIDE DEF locals
<1>3. /\ DOMAIN new = GenFields /\ new.locals = locals
      /\ new.function = scope.function /\ new.parentBB = scope.parentBB
      /\ new.labelNames = scope.labelNames
  BY DEF GenFields
<1> HIDE DEF new
<1>4. QED
  BY <1>1, <1>2, <1>3 DEF ScopeWith

LEMMA MirrorWritten ==
  ASSUME ScopesInv, status = "run", Mirror, SameFrame,
         NEW x, NEW e, Writes(scopeStack', x, e),
         NEW g, g = MirrorOf(e, Top, Owner(Top)), GenWrites(genScopes', x, g),
         \A i \in 1 .. Top : genScopes'[i].labelNames = scopeStack'[i].labelNames
  PROVE  Mirror'
<1>1. /\ Top \in Nat /\ Top >= 2
      /\ IsSeq(genScopes') /\ Top' = Top /\ GenTop' = Top
      /\ \A i \in 1 .. Top : Function(i)' = Function(i)
  BY TopRuns DEF Mirror, GenTop, GenWrites, Writes, Function, SameFrame
<1>2. ASSUME NEW i \in 1 .. Top PROVE ScopeMirrored(i)'
  <2>1. ScopeMirrored(i)
    BY DEF Mirror
  <2>2. i > 2 => Owner(i - 1)' = Owner(i - 1)
    <3>1. i > 2 => i - 1 \in Inner
      BY <1>1 DEF Inner
    <3>2. QED
      BY <3>1, OwnersKept
  <2>3. i # 1 => Owner(i)' = Owner(i)
    <3>1. i # 1 => i \in Inner
      BY <1>1 DEF Inner
    <3>2. QED
      BY <3>1, OwnersKept
  <2>4. /\ DOMAIN genScopes'[i] = GenFields
        /\ genScopes'[i].function = Function(i)'
        /\ i > 2 => genScopes'[i].parentBB = Owner(i - 1)'
        /\ DOMAIN genScopes'[i].locals = DOMAIN Entries(i)'
    BY <1>1, <2>1, <2>2 DEF ScopeMirrored, GenWrites, Writes, Entries
  <2>5. ASSUME NEW n \in DOMAIN Entries(i)'
        PROVE  genScopes'[i].locals[n] = MirrorOf(Entries(i)'[n], i, Owner(i)')
    <3>1. CASE i = Top /\ n = x
      <4>1. Entries(i)'[n] = e /\ genScopes'[i].locals[n] = g
        BY <2>4, <3>1 DEF Writes, Entries, GenWrites
      <4>2. Owner(i)' = Owner(Top) /\ i = Top
        BY <1>1, <2>3, <3>1
      <4>3. QED
        BY <4>1, <4>2
    <3>2. CASE ~(i = Top /\ n = x)
      <4>1. /\ n \in DOMAIN Entries(i) /\ Entries(i)'[n] = Entries(i)[n]
            /\ genScopes'[i].locals[n] = genScopes[i].locals[n]
        BY <2>4, <3>2 DEF Writes, Entries, GenWrites
      <4>2. genScopes[i].locals[n] = MirrorOf(Entries(i)[n], i, Owner(i))
        BY <2>1, <4>1 DEF ScopeMirrored
      <4>3. MirrorOf(Entries(i)[n], i, Owner(i)') = MirrorOf(Entries(i)[n], i, Owner(i))
        <5>1. CASE i = 1
          BY <4>1, <5>1, LibraryMirror
        <5>2. CASE i # 1
          BY <2>3, <5>2
        <5>3. QED
          BY <5>1, <5>2
      <4>4. QED
        BY <4>1, <4>2, <4>3
    <3>3. QED
      BY <3>1, <3>2
  <2>6. QED
    BY <2>4, <2>5 DEF ScopeMirrored
<1>3. QED
  BY <1>1, <1>2 DEF Mirror

LEMMA UsesKept ==
  ASSUME ScopesInv, status = "run", Uses, SameFrame,
         \A d \in Functions :
           defs'[d].requests = defs[d].requests /\ defs'[d].provides = defs[d].provides,
         \A i \in Inner : \A x : VariableIn(i, x) => VariableIn(i, x)',
         \A i \in Inner : scopeStack[i].body =>
           scopeStack'[i].body /\ \A x : VariableIn(i, x)' => VariableIn(i, x),
         \A i \in Inner : "result" \in DOMAIN Entries(i)' => VariableIn(i, "result")',
         \A i \in Inner : \A k \in 1 .. Len(scopeStack'[i].labelNames) :
           scopeStack'[i].labelNames[k] \in LabelNames,
         todo' # << >> => scopeStack'[Top].body
  PROVE  Uses'
<1>1. Top' = Top /\ Inner' = Inner /\ Top \in 1 .. Top
  BY TopRuns DEF SameFrame, Inner
<1>2. ASSUME NEW i \in Inner PROVE ScopeUses(i)'
  <2>1. i \in 1 .. Top /\ Function(i) \in Functions
    BY TopRuns DEF ScopesInv, Nested, Inner, Bodies
  <2>2. Function(i)' = Function(i)
    BY <2>1 DEF SameFrame
  <2> PICK f : f = Function(i)
    OBVIOUS
  <2>3. /\ f \in Functions /\ Function(i)' = f
        /\ defs'[f].requests = defs[f].requests /\ defs'[f].provides = defs[f].provides
    BY <2>1, <2>2
  <2>4. /\ \A x \in DOMAIN defs[f].requests : scopeStack[i].body /\ ~VariableIn(i, x)
        /\ \A k \in 1 .. Len(defs[f].provides) : VariableIn(i, defs[f].provides[k])
    BY DEF Uses, ScopeUses
  <2>5. \A x \in DOMAIN defs'[f].requests : scopeStack'[i].body /\ ~VariableIn(i, x)'
    BY <2>3, <2>4
  <2>6. ASSUME NEW k \in 1 .. Len(defs'[f].provides) PROVE VariableIn(i, defs[f].provides[k])'
    <3> PICK x : x = defs[f].provides[k]
      OBVIOUS
    <3>1. VariableIn(i, x) /\ defs'[f].provides[k] = x
      BY <2>3, <2>4
    <3>2. VariableIn(i, x)'
      BY <3>1
    <3>3. QED
      BY <3>1, <3>2 DEF VariableIn
  <2>7. QED
    BY <2>3, <2>5, <2>6 DEF ScopeUses
<1>3. QED
  BY <1>1, <1>2 DEF Uses

-----------------------------------------------------------------------------
(* Declarations, in both walks                                             *)

LEMMA GenVariableInv ==
  ASSUME ScopesInv, GenInv, NEW x \in VariableNames, NEW t, GenVariable(x, t)
  PROVE  GenInv'
<1>1. CASE x \in DOMAIN Entries(Top) \/ ~VariableTypeOK(t)
  <2>1. Refuses
    BY <1>1 DEF GenVariable, DeclareVariable, Report, Refuses
  <2>2. UNCHANGED genVars
    BY <2>1 DEF GenVariable, Refuses, Refused, Walked
  <2>3. QED
    BY <2>1, <2>2, GenRefused
<1>2. CASE x \notin DOMAIN Entries(Top) /\ VariableTypeOK(t)
  <2> PICK e : e = VariableEntry(t)
    OBVIOUS
  <2>1. /\ scopeStack' = AddEntry(x, e) /\ defs' = [defs EXCEPT ![Current].locals = @ \cup {x}]
        /\ status' = status /\ status = "run" /\ todo' = << >> /\ ~scopeStack[Top].body
    BY <1>2 DEF GenVariable, DeclareVariable, Declaring
  <2>2. /\ Shape /\ Top \in Nat /\ Top >= 2 /\ Top \in Inner /\ Top \in 1 .. Top
        /\ Current = Function(Top) /\ Current \in Functions
    BY <2>1, TopRuns
  <2>3. Running /\ Mirror /\ Uses
    BY <2>1 DEF GenInv, Running
  <2>4. e.entryType = "variable"
    BY DEF VariableEntry
  <2>5. /\ Writes(scopeStack', x, e) /\ SameLabelNames(scopeStack')
        /\ \A i \in 1 .. Top : scopeStack'[i].body = scopeStack[i].body
    BY <1>2, <2>1, <2>2, AddEntryWrites
  <2>6. OnlyIn({Current}, {"locals"})
    <3> PICK v : v = defs[Current].locals \cup {x}
      OBVIOUS
    <3>1. "locals" \in DefFields /\ defs' = Redefined(Current, "locals", v)
      BY <2>1 DEF DefFields, Redefined
    <3>2. QED
      BY <2>2, <3>1, DefWritten
  <2>7. SameFrame
    <3>1. Top' = Top /\ \A i \in 1 .. Top : Function(i)' = Function(i)
      BY <2>5 DEF Writes, Top, Function
    <3>2. QED
      BY <2>6, <3>1, OnlyInFrame
  <2>8. \A c \in Functions :
          /\ defs'[c].requests = defs[c].requests /\ defs'[c].provides = defs[c].provides
          /\ defs'[c].calls = defs[c].calls /\ defs'[c].gotos = defs[c].gotos
    BY <2>6 DEF OnlyIn, DefFields
  <2> PICK g : g = VariableGenEntry(defs[Current].creator)
    OBVIOUS
  <2>9. /\ Faulty(InsertFault(genScopes[GenTop], x))
        /\ genScopes' = [genScopes EXCEPT ![GenTop] = WithEntry(@, x, g)]
        /\ levels' = levels /\ builder' = builder /\ entered' = entered /\ patched' = patched
    <3>1. builder = defs[Current].creator
      BY <2>2, <2>3 DEF Running, Owner
    <3>2. g = VariableGenEntry(builder)
      BY <3>1
    <3>3. QED
      BY <2>1, <3>2 DEF GenVariable, Refused, InsertInTop
  <2>10. GenTop = Top /\ ScopeMirrored(Top)
    BY <2>2, <2>3 DEF Mirror
  <2>11. fault' = Sound
    BY <1>2, <2>9, <2>10 DEF Faulty, InsertFault, ScopeMirrored, GenInv
  <2>12. /\ GenWrites(genScopes', x, g)
         /\ \A i \in 1 .. Top : genScopes'[i].labelNames = genScopes[i].labelNames
    <3> PICK scope, new : scope = genScopes[Top] /\ new = WithEntry(scope, x, g)
      OBVIOUS
    <3>1. DOMAIN scope = GenFields
      BY <2>10 DEF ScopeMirrored
    <3>2. ScopeWith(scope, new, x, g) /\ new.labelNames = scope.labelNames
      BY <3>1, WithEntryIs
    <3>3. genScopes' = Updated(genScopes, Top, new)
      BY <2>9, <2>10 DEF Updated
    <3>4. /\ GenWrites(genScopes', x, g) /\ genScopes'[Top] = new
          /\ \A i \in 1 .. Top : i # Top => genScopes'[i] = genScopes[i]
      BY <2>2, <2>3, <3>2, <3>3, GenWritten
    <3>5. QED
      BY <3>2, <3>4
  <2>13. Mirror'
    <3>1. g = MirrorOf(e, Top, Owner(Top))
      BY <2>2, <2>4, MirrorKinds DEF Owner
    <3>2. \A i \in 1 .. Top : genScopes'[i].labelNames = scopeStack'[i].labelNames
      BY <2>3, <2>5, <2>12 DEF SameLabelNames, Mirror, ScopeMirrored
    <3>3. QED
      BY <2>1, <2>3, <2>5, <2>7, <2>12, <3>1, <3>2, MirrorWritten
  <2>14. Uses'
    <3>1. \A i \in Inner : i \in 1 .. Top
      BY <2>2 DEF Inner
    <3>2. \A i \in Inner : \A n : VariableIn(i, n)' <=> VariableIn(i, n) \/ (i = Top /\ n = x)
      BY <2>4, <2>5, <3>1 DEF Writes, VariableIn, Entries
    <3>3. \A i \in Inner : "result" \in DOMAIN Entries(i)' => VariableIn(i, "result")'
      <4>1. "result" # x
        BY NamesAssumption
      <4>2. ASSUME NEW i \in Inner, "result" \in DOMAIN Entries(i)'
            PROVE  "result" \in DOMAIN Entries(i)
        BY <2>5, <3>1, <4>1, <4>2 DEF Writes, Entries
      <4>3. QED
        BY <2>3, <3>2, <4>2 DEF Uses, ScopeUses
    <3>4. \A i \in Inner : \A k \in 1 .. Len(scopeStack'[i].labelNames) :
            scopeStack'[i].labelNames[k] \in LabelNames
      BY <2>3, <2>5, <3>1 DEF Uses, ScopeUses, SameLabelNames
    <3>5. \A i \in Inner : scopeStack[i].body =>
            scopeStack'[i].body /\ \A n : VariableIn(i, n)' => VariableIn(i, n)
      BY <2>1, <2>5, <3>1, <3>2
    <3>6. QED
      BY <2>1, <2>3, <2>7, <2>8, <3>2, <3>3, <3>4, <3>5, UsesKept
  <2>15. Entered'
    BY <2>7, <2>8, <2>9, EnteredKept DEF GenInv
  <2>16. QED
    BY <2>1, <2>7, <2>8, <2>9, <2>11, <2>13, <2>14, <2>15, FrameStep
<1>3. QED
  BY <1>1, <1>2

(* A label is entered, carried by a statement or named by a goto, in both  *)
(* tables.                                                                 *)
LEMMA GenLabelStep ==
  ASSUME ScopesInv, GenInv, status = "run", todo' = todo,
         NEW l \in LabelNames, NEW e, e.entryType = "label", ~VariableIn(Top, l),
         Writes(scopeStack', l, e), \A i \in 1 .. Top : scopeStack'[i].body = scopeStack[i].body,
         OnlyIn({Current}, {"bound", "gotos"}),
         NEW g, g = MirrorOf(e, Top, Owner(Top)), GenWrites(genScopes', l, g),
         \A i \in 1 .. Top : genScopes'[i].labelNames = scopeStack'[i].labelNames,
         \A i \in 1 .. Top : \A k \in 1 .. Len(scopeStack'[i].labelNames) :
           scopeStack'[i].labelNames[k] = l \/ i = 1
             \/ scopeStack'[i].labelNames[k] \in LabelNames,
         levels' = levels, builder' = builder, entered' = entered, patched' = patched,
         fault' = Sound
  PROVE  GenInv'
<1>1. /\ Shape /\ Top \in Nat /\ Top >= 2 /\ Top \in Inner /\ Top \in 1 .. Top
      /\ Current = Function(Top) /\ Current \in Functions
      /\ \A i \in Inner : i \in 1 .. Top /\ i # 1
  BY TopRuns DEF Inner
<1>2. Running /\ Mirror /\ Uses
  BY DEF GenInv, Running
<1>3. SameFrame
  <2>1. Top' = Top /\ \A i \in 1 .. Top : Function(i)' = Function(i)
    BY DEF Writes, Top, Function
  <2>2. QED
    BY <2>1, OnlyInFrame
<1>4. \A c \in Functions :
        /\ defs'[c].requests = defs[c].requests /\ defs'[c].provides = defs[c].provides
        /\ defs'[c].calls = defs[c].calls
        /\ c # Current => defs'[c].gotos = defs[c].gotos
  BY DEF OnlyIn, DefFields
<1>5. \A d \in Functions : d \notin Open => defs'[d].gotos = defs[d].gotos
  <2>1. Current \in Open
    BY <1>1 DEF Open, Function, Inner
  <2>2. QED
    BY <1>4, <2>1
<1>6. Mirror'
  BY <1>2, <1>3, MirrorWritten
<1>7. Uses'
  <2>1. \A i \in Inner : \A n : VariableIn(i, n)' <=> VariableIn(i, n)
    <3>1. ASSUME NEW i \in Inner, NEW n PROVE VariableIn(i, n)' <=> VariableIn(i, n)
      <4>1. CASE i = Top /\ n = l
        <5>1. ~VariableIn(i, n)
          BY <4>1
        <5>2. Entries(i)'[n] = e \/ n \notin DOMAIN Entries(i)'
          BY <1>1, <4>1 DEF Writes, Entries
        <5>3. QED
          BY <5>1, <5>2 DEF VariableIn
      <4>2. CASE ~(i = Top /\ n = l)
        BY <1>1, <4>2 DEF Writes, VariableIn, Entries
      <4>3. QED
        BY <4>1, <4>2
    <3>2. QED
      BY <3>1
  <2>2. \A i \in Inner : "result" \in DOMAIN Entries(i)' => VariableIn(i, "result")'
    <3>1. "result" # l
      BY NamesAssumption
    <3>2. ASSUME NEW i \in Inner, "result" \in DOMAIN Entries(i)'
          PROVE  "result" \in DOMAIN Entries(i)
      BY <1>1, <3>1, <3>2 DEF Writes, Entries
    <3>3. QED
      BY <1>2, <2>1, <3>2 DEF Uses, ScopeUses
  <2>3. \A i \in Inner : \A k \in 1 .. Len(scopeStack'[i].labelNames) :
          scopeStack'[i].labelNames[k] \in LabelNames
    BY <1>1
  <2>4. \A i \in Inner : scopeStack[i].body =>
          scopeStack'[i].body /\ \A n : VariableIn(i, n)' => VariableIn(i, n)
    BY <1>1, <2>1
  <2>5. todo' # << >> => scopeStack'[Top].body
    BY <1>1, <1>2 DEF Uses
  <2>6. QED
    BY <1>2, <1>3, <1>4, <2>1, <2>2, <2>3, <2>4, <2>5, UsesKept
<1>8. Entered'
  BY <1>3, <1>4, EnteredKept DEF GenInv
<1>9. QED
  BY <1>3, <1>5, <1>6, <1>7, <1>8, FrameStep

(* The scope new is scope with x in it and x last among its labels. *)
LEMMA LabelledIs ==
  ASSUME NEW scope, DOMAIN scope = GenFields, NEW l
  PROVE  /\ ScopeWith(scope, WithLabel(scope, l), l, LabelGenEntry)
         /\ WithLabel(scope, l).labelNames = Append(scope.labelNames, l)
<1> PICK g, s, new : g = LabelGenEntry /\ s = WithEntry(scope, l, g) /\ new = WithLabel(scope, l)
  OBVIOUS
<1>1. ScopeWith(scope, s, l, g) /\ s.labelNames = scope.labelNames
  BY WithEntryIs
<1>2. new = [s EXCEPT !.labelNames = Append(s.labelNames, l)]
  BY DEF WithLabel
<1>3. DOMAIN s = GenFields
  BY <1>1 DEF ScopeWith
<1>4. /\ DOMAIN new = GenFields /\ new.labelNames = Append(s.labelNames, l)
      /\ new.function = s.function /\ new.parentBB = s.parentBB /\ new.locals = s.locals
  BY <1>2, <1>3 DEF GenFields
<1>5. QED
  BY <1>1, <1>4 DEF ScopeWith

LEMMA GenLabelDefInv ==
  ASSUME ScopesInv, GenInv, NEW l \in LabelNames, GenLabelDef(l)
  PROVE  GenInv'
<1>1. CASE \E i \in 1 .. Top : l \in DOMAIN Entries(i)
  <2>1. Refuses
    BY <1>1 DEF GenLabelDef, DeclareLabel, Report, Refuses
  <2>2. UNCHANGED genVars
    BY <2>1 DEF GenLabelDef, Refuses, Refused, Walked
  <2>3. QED
    BY <2>1, <2>2, GenRefused
<1>2. CASE ~\E i \in 1 .. Top : l \in DOMAIN Entries(i)
  <2> PICK e, g, names : e = LabelEntry /\ g = LabelGenEntry /\ names = scopeStack[Top].labelNames
    OBVIOUS
  <2> DEFINE ss == AddEntry(l, e)
             new == [ss[Top] EXCEPT !.labelNames = Append(names, l)]
  <2>1. /\ scopeStack' = [AddEntry(l, e) EXCEPT ![Top].labelNames = Append(@, l)]
        /\ defs' = defs /\ status' = status /\ status = "run" /\ todo' = todo
    BY <1>2 DEF GenLabelDef, DeclareLabel, Declaring
  <2>2. /\ Shape /\ Top \in Nat /\ Top >= 2 /\ Top \in Inner /\ Top \in 1 .. Top
        /\ Current = Function(Top) /\ Current \in Functions
    BY <2>1, TopRuns
  <2>3. Running /\ Mirror /\ Uses
    BY <2>1 DEF GenInv, Running
  <2>4. l \notin DOMAIN Entries(Top)
    BY <1>2, <2>2
  <2>5. /\ Writes(ss, l, e) /\ SameLabelNames(ss)
        /\ \A i \in 1 .. Top : ss[i].body = scopeStack[i].body
    BY <2>2, <2>4, AddEntryWrites
  <2> HIDE DEF ss
  <2>6. /\ IsSeq(ss) /\ Len(ss) = Top /\ ss[Top].labelNames = names
        /\ DOMAIN ss[Top] = {"function", "levelEntries", "labelNames", "body"}
    BY <2>2, <2>5 DEF Writes, SameLabelNames, Shape
  <2>7. scopeStack' = Updated(ss, Top, new)
    BY <2>1, <2>6 DEF Updated, ss
  <2>8. /\ DOMAIN new = DOMAIN ss[Top] /\ new.function = ss[Top].function
        /\ new.levelEntries = ss[Top].levelEntries /\ new.labelNames = Append(names, l)
        /\ new.body = ss[Top].body
    BY <2>6
  <2> HIDE DEF new
  <2>9. /\ IsSeq(scopeStack') /\ Len(scopeStack') = Top
        /\ \A i \in 1 .. Top : scopeStack'[i] = IF i = Top THEN new ELSE ss[i]
    <3>1. Top \in 1 .. Len(ss)
      BY <2>2, <2>6
    <3> PICK s, t, n : s = ss /\ t = Top /\ n = new
      OBVIOUS
    <3>2. IsSeq(s) /\ t \in 1 .. Len(s)
      BY <2>6, <3>1
    <3>3. /\ IsSeq(Updated(s, t, n)) /\ Len(Updated(s, t, n)) = Len(s)
          /\ \A i \in 1 .. Len(s) : Updated(s, t, n)[i] = IF i = t THEN n ELSE s[i]
      BY <3>2, UpdateSeq
    <3>4. scopeStack' = Updated(s, t, n)
      BY <2>7
    <3>5. QED
      BY <2>6, <3>3, <3>4
  <2>10. /\ Writes(scopeStack', l, e)
         /\ \A i \in 1 .. Top : scopeStack'[i].body = scopeStack[i].body
    BY <2>5, <2>8, <2>9 DEF Writes
  <2>11. OnlyIn({Current}, {"bound", "gotos"})
    BY <2>1, <2>2, SameDefs
  <2>12. /\ Len(names) \in Nat /\ Len(Append(names, l)) = Len(names) + 1
         /\ \A k \in 1 .. Len(names) : Append(names, l)[k] = names[k]
         /\ Append(names, l)[Len(names) + 1] = l
    BY <2>2, AppendSeq DEF Shape, IsSeq
  <2>13. \A k \in 1 .. Len(Append(names, l)) : Append(names, l)[k] = l \/ Append(names, l)[k] \in LabelNames
    <3>1. \A k \in 1 .. Len(names) : names[k] \in LabelNames
      BY <2>2, <2>3 DEF Uses, ScopeUses
    <3> PICK n, added : n = Len(names) /\ added = Append(names, l)
      OBVIOUS
    <3>2. /\ n \in Nat /\ Len(added) = n + 1 /\ \A k \in 1 .. n : added[k] \in LabelNames
          /\ added[n + 1] = l
      BY <2>12, <3>1
    <3>3. \A k \in 1 .. Len(added) : added[k] = l \/ added[k] \in LabelNames
      BY <3>2
    <3>4. QED
      BY <3>3
  <2>14. \A i \in 1 .. Top : \A k \in 1 .. Len(scopeStack'[i].labelNames) :
           scopeStack'[i].labelNames[k] = l \/ i = 1 \/ scopeStack'[i].labelNames[k] \in LabelNames
    <3>1. ASSUME NEW i \in 1 .. Top, i # 1, NEW k \in 1 .. Len(scopeStack'[i].labelNames)
          PROVE  scopeStack'[i].labelNames[k] = l \/ scopeStack'[i].labelNames[k] \in LabelNames
      <4>1. CASE i = Top
        BY <2>8, <2>9, <2>13, <4>1
      <4>2. CASE i # Top
        <5>1. scopeStack'[i].labelNames = scopeStack[i].labelNames
          BY <2>5, <2>9, <4>2 DEF SameLabelNames
        <5>2. i \in Inner
          BY <2>2, <3>1 DEF Inner
        <5>3. QED
          BY <2>3, <5>1, <5>2 DEF Uses, ScopeUses
      <4>3. QED
        BY <4>1, <4>2
    <3>2. QED
      BY <3>1
  <2>15. /\ Faulty(InsertFault(genScopes[GenTop], l))
         /\ genScopes' = [genScopes EXCEPT ![GenTop] = WithLabel(@, l)]
         /\ levels' = levels /\ builder' = builder /\ entered' = entered /\ patched' = patched
    BY <2>1 DEF GenLabelDef, Refused
  <2>16. GenTop = Top /\ ScopeMirrored(Top)
    BY <2>2, <2>3 DEF Mirror
  <2>17. fault' = Sound
    BY <2>4, <2>15, <2>16 DEF Faulty, InsertFault, ScopeMirrored, GenInv
  <2>18. /\ GenWrites(genScopes', l, g)
         /\ \A i \in 1 .. Top : genScopes'[i].labelNames = scopeStack'[i].labelNames
    <3> PICK scope, now : scope = genScopes[Top] /\ now = WithLabel(scope, l)
      OBVIOUS
    <3>1. DOMAIN scope = GenFields /\ scope.labelNames = names
      BY <2>16 DEF ScopeMirrored
    <3>2. ScopeWith(scope, now, l, g) /\ now.labelNames = Append(names, l)
      BY <3>1, LabelledIs
    <3>3. genScopes' = Updated(genScopes, Top, now)
      BY <2>15, <2>16 DEF Updated
    <3>4. /\ GenWrites(genScopes', l, g) /\ genScopes'[Top] = now
          /\ \A i \in 1 .. Top : i # Top => genScopes'[i] = genScopes[i]
      BY <2>2, <2>3, <3>2, <3>3, GenWritten
    <3>5. scopeStack'[Top].labelNames = Append(names, l)
      BY <2>2, <2>8, <2>9
    <3>6. \A i \in 1 .. Top : i # Top => scopeStack'[i].labelNames = genScopes[i].labelNames
      BY <2>3, <2>5, <2>9 DEF SameLabelNames, Mirror, ScopeMirrored
    <3>7. QED
      BY <3>2, <3>4, <3>5, <3>6
  <2>19. g = MirrorOf(e, Top, Owner(Top)) /\ e.entryType = "label"
    BY DEF MirrorOf, LabelEntry, LabelGenEntry
  <2>20. ~VariableIn(Top, l)
    BY <2>4 DEF VariableIn
  <2>21. QED
    BY <2>1, <2>10, <2>11, <2>14, <2>15, <2>17, <2>18, <2>19, <2>20, GenLabelStep
<1>3. QED
  BY <1>1, <1>2

(* A label that the first walk found is in the last scope of the second. *)
LEMMA LabelFound ==
  ASSUME ScopesInv, status = "run", Running, NEW l, IsLabel(l)
  PROVE  /\ LookupFault(l, "label") = Sound /\ Max(GenNaming(l)) = Top
         /\ GenFound(l) = MirrorOf(Entries(Top)[l], Top, Owner(Top))
         /\ l \in DOMAIN genScopes[Top].locals
<1>1. l \in DOMAIN Entries(Top) /\ Entries(Top)[l].entryType = "label" /\ Top \in 1 .. Top
  BY TopRuns DEF IsLabel
<1>2. /\ GenNaming(l) # {} /\ Max(GenNaming(l)) = Top /\ Denoted(l) = Entries(Top)[l]
      /\ GenFound(l) = MirrorOf(Entries(Top)[l], Top, Owner(Top))
  BY <1>1, GenFoundOnTop
<1>3. ScopesNaming(l) # {}
  BY <1>2, GenNamingIs
<1>4. LookupFault(l, Denoted(l).entryType) = Sound
  BY <1>1, <1>2, <1>3, FaultlessLookup
<1>5. l \in DOMAIN genScopes[Top].locals
  BY <1>1 DEF Running, Mirror, ScopeMirrored
<1>6. QED
  BY <1>1, <1>2, <1>4, <1>5

Relocal(ls) == [genScopes EXCEPT ![Top].locals = ls]

LEMMA FoundWritten ==
  ASSUME ScopesInv, status = "run", Running, NEW l, IsLabel(l), NEW g
  PROVE  /\ GenWrites(InFound(l, g), l, g)
         /\ \A i \in 1 .. Top : InFound(l, g)[i].labelNames = genScopes[i].labelNames
<1> PICK scope, old, gs : scope = genScopes[Top] /\ old = scope.locals /\ gs = InFound(l, g)
  OBVIOUS
<1> DEFINE ls == [old EXCEPT ![l] = g]
           new == [scope EXCEPT !.locals = ls]
<1>1. /\ Max(GenNaming(l)) = Top /\ l \in DOMAIN old
  BY LabelFound
<1>2. /\ Mirror /\ Top \in Nat /\ Top >= 2 /\ Top \in 1 .. Top
      /\ DOMAIN scope = GenFields
  <2>1. Mirror /\ Top \in Nat /\ Top >= 2 /\ Top \in 1 .. Top
    BY TopRuns DEF Running
  <2>2. ScopeMirrored(Top)
    BY <2>1 DEF Mirror
  <2>3. QED
    BY <2>1, <2>2 DEF ScopeMirrored
<1>3. gs = Relocal(ls)
  BY <1>1 DEF InFound, Relocal
<1>4. DOMAIN ls = DOMAIN old \cup {l} /\ \A n \in DOMAIN ls : ls[n] = IF n = l THEN g ELSE old[n]
  BY <1>1
<1> HIDE DEF ls
<1>5. gs = Updated(genScopes, Top, new)
  BY <1>3 DEF Relocal, Updated
<1>6. /\ DOMAIN new = GenFields /\ new.locals = ls /\ new.function = scope.function
      /\ new.parentBB = scope.parentBB /\ new.labelNames = scope.labelNames
  BY <1>2 DEF GenFields
<1> HIDE DEF new
<1>7. ScopeWith(scope, new, l, g)
  BY <1>4, <1>6 DEF ScopeWith
<1>8. /\ GenWrites(gs, l, g) /\ gs[Top] = new
      /\ \A i \in 1 .. Top : i # Top => gs[i] = genScopes[i]
  BY <1>2, <1>5, <1>7, GenWritten
<1>9. QED
  BY <1>6, <1>8

LEMMA GenLabelInv ==
  ASSUME ScopesInv, GenInv, NEW l \in LabelNames, GenLabel(l)
  PROVE  GenInv'
<1>1. CASE ~IsLabel(l) \/ Entries(Top)[l].isBound
  <2>1. Refuses
    BY <1>1 DEF GenLabel, PlaceLabel, Report, Refuses
  <2>2. UNCHANGED genVars
    BY <2>1 DEF GenLabel, Refuses, Refused, Walked
  <2>3. QED
    BY <2>1, <2>2, GenRefused
<1>2. CASE IsLabel(l) /\ ~Entries(Top)[l].isBound
  <2> PICK old, o : old = Entries(Top)[l] /\ o = Owner(Top)
    OBVIOUS
  <2> DEFINE e == [old EXCEPT !.isBound = TRUE]
             g == [GenFound(l) EXCEPT !.label = builder]
             v == defs[Current].bound \cup {l}
  <2>1. /\ scopeStack' = SetEntry(l, e) /\ defs' = [defs EXCEPT ![Current].bound = @ \cup {l}]
        /\ status' = status /\ status = "run" /\ todo' = todo
    BY <1>2 DEF GenLabel, PlaceLabel, InBody
  <2>2. /\ Shape /\ Top \in Nat /\ Top >= 2 /\ Top \in Inner /\ Top \in 1 .. Top
        /\ Current = Function(Top) /\ Current \in Functions
    BY <2>1, TopRuns
  <2>3. Running /\ Mirror /\ Uses /\ builder = o
    BY <2>1 DEF GenInv, Running
  <2>4. l \in DOMAIN Entries(Top) /\ old.entryType = "label"
    BY <1>2 DEF IsLabel
  <2>5. EntryShape(old)
    BY <2>2, <2>4 DEF ScopesInv, Names
  <2>6. e.entryType = "label" /\ e.isBound /\ e.isTargeted = old.isTargeted
    BY <2>4, <2>5 DEF EntryShape
  <2>7. /\ LookupFault(l, "label") = Sound
        /\ GenFound(l) = MirrorOf(old, Top, o)
    BY <1>2, <2>1, <2>3, LabelFound
  <2>8. g = MirrorOf(e, Top, o)
    <3>1. GenFound(l) = [kind |-> "label", label |-> IF old.isBound THEN o ELSE NoFunction,
                         gotos |-> IF old.isTargeted THEN {o} ELSE {}]
      BY <2>4, <2>7 DEF MirrorOf
    <3>2. MirrorOf(e, Top, o) = [kind |-> "label", label |-> o,
                                 gotos |-> IF old.isTargeted THEN {o} ELSE {}]
      <4> HIDE DEF e
      <4>1. QED
        BY <2>6 DEF MirrorOf
    <3>3. g = [kind |-> "label", label |-> o, gotos |-> IF old.isTargeted THEN {o} ELSE {}]
      BY <2>3, <3>1
    <3>4. QED
      BY <3>2, <3>3
  <2>9. /\ Faulty(Sound) /\ genScopes' = InFound(l, g)
        /\ levels' = levels /\ builder' = builder /\ entered' = entered /\ patched' = patched
    BY <2>1, <2>7 DEF GenLabel, Refused
  <2> HIDE DEF e, g
  <2>10. /\ Writes(scopeStack', l, e) /\ SameLabelNames(scopeStack')
         /\ \A i \in 1 .. Top : scopeStack'[i].body = scopeStack[i].body
    BY <2>1, <2>2, SetEntryWrites
  <2>11. OnlyIn({Current}, {"bound"}) /\ defs'[Current]["bound"] = v
    <3>1. "bound" \in DefFields /\ defs' = Redefined(Current, "bound", v)
      BY <2>1 DEF DefFields, Redefined
    <3>2. QED
      BY <2>2, <3>1, DefWritten
  <2>12. OnlyIn({Current}, {"bound", "gotos"})
    BY <2>2, <2>11 DEF OnlyIn, DefFields
  <2>13. /\ GenWrites(genScopes', l, g)
         /\ \A i \in 1 .. Top : genScopes'[i].labelNames = genScopes[i].labelNames
    BY <1>2, <2>1, <2>3, <2>9, FoundWritten
  <2>14. \A i \in 1 .. Top : genScopes'[i].labelNames = scopeStack'[i].labelNames
    BY <2>3, <2>10, <2>13 DEF SameLabelNames, Mirror, ScopeMirrored
  <2>15. \A i \in 1 .. Top : \A k \in 1 .. Len(scopeStack'[i].labelNames) :
           scopeStack'[i].labelNames[k] = l \/ i = 1 \/ scopeStack'[i].labelNames[k] \in LabelNames
    <3>1. \A i \in 1 .. Top : i # 1 => i \in Inner
      BY <2>2 DEF Inner
    <3>2. QED
      BY <2>3, <2>10, <3>1 DEF Uses, ScopeUses, SameLabelNames
  <2>16. fault' = Sound
    BY <2>9 DEF Faulty, GenInv
  <2>17. ~VariableIn(Top, l)
    BY <2>4 DEF VariableIn
  <2>18. QED
    BY <2>1, <2>6, <2>8, <2>9, <2>10, <2>12, <2>13, <2>14, <2>15, <2>16, <2>17, GenLabelStep
<1>3. QED
  BY <1>1, <1>2

LEMMA GenGotoInv ==
  ASSUME ScopesInv, GenInv, NEW l \in LabelNames, GenGoto(l)
  PROVE  GenInv'
<1>1. CASE ~IsLabel(l)
  <2>1. Refuses
    BY <1>1 DEF GenGoto, Goto, Report, Refuses
  <2>2. UNCHANGED genVars
    BY <2>1 DEF GenGoto, Refuses, Refused, Walked
  <2>3. QED
    BY <2>1, <2>2, GenRefused
<1>2. CASE IsLabel(l)
  <2> PICK old, o : old = Entries(Top)[l] /\ o = Owner(Top)
    OBVIOUS
  <2> DEFINE e == [old EXCEPT !.isTargeted = TRUE]
             g == [GenFound(l) EXCEPT !.gotos = @ \cup {builder}]
             v == defs[Current].gotos \cup {l}
  <2>1. /\ scopeStack' = SetEntry(l, e) /\ defs' = [defs EXCEPT ![Current].gotos = @ \cup {l}]
        /\ status' = status /\ status = "run" /\ todo' = todo
    BY <1>2 DEF GenGoto, Goto, InBody
  <2>2. /\ Shape /\ Top \in Nat /\ Top >= 2 /\ Top \in Inner /\ Top \in 1 .. Top
        /\ Current = Function(Top) /\ Current \in Functions
    BY <2>1, TopRuns
  <2>3. Running /\ Mirror /\ Uses /\ builder = o
    BY <2>1 DEF GenInv, Running
  <2>4. l \in DOMAIN Entries(Top) /\ old.entryType = "label"
    BY <1>2 DEF IsLabel
  <2>5. EntryShape(old)
    BY <2>2, <2>4 DEF ScopesInv, Names
  <2>6. e.entryType = "label" /\ e.isTargeted /\ e.isBound = old.isBound
    BY <2>4, <2>5 DEF EntryShape
  <2>7. /\ LookupFault(l, "label") = Sound
        /\ GenFound(l) = MirrorOf(old, Top, o)
    BY <1>2, <2>1, <2>3, LabelFound
  <2>8. g = MirrorOf(e, Top, o)
    <3>1. GenFound(l) = [kind |-> "label", label |-> IF old.isBound THEN o ELSE NoFunction,
                         gotos |-> IF old.isTargeted THEN {o} ELSE {}]
      BY <2>4, <2>7 DEF MirrorOf
    <3>2. MirrorOf(e, Top, o) = [kind |-> "label", label |-> IF old.isBound THEN o ELSE NoFunction,
                                 gotos |-> {o}]
      <4> HIDE DEF e
      <4>1. QED
        BY <2>6 DEF MirrorOf
    <3>3. g = [kind |-> "label", label |-> IF old.isBound THEN o ELSE NoFunction, gotos |-> {o}]
      BY <2>3, <3>1
    <3>4. QED
      BY <3>2, <3>3
  <2>9. /\ Faulty(Sound) /\ genScopes' = InFound(l, g)
        /\ levels' = levels /\ builder' = builder /\ entered' = entered /\ patched' = patched
    BY <2>1, <2>7 DEF GenGoto, Refused
  <2> HIDE DEF e, g
  <2>10. /\ Writes(scopeStack', l, e) /\ SameLabelNames(scopeStack')
         /\ \A i \in 1 .. Top : scopeStack'[i].body = scopeStack[i].body
    BY <2>1, <2>2, SetEntryWrites
  <2>11. OnlyIn({Current}, {"gotos"}) /\ defs'[Current]["gotos"] = v
    <3>1. "gotos" \in DefFields /\ defs' = Redefined(Current, "gotos", v)
      BY <2>1 DEF DefFields, Redefined
    <3>2. QED
      BY <2>2, <3>1, DefWritten
  <2>12. OnlyIn({Current}, {"bound", "gotos"})
    BY <2>2, <2>11 DEF OnlyIn, DefFields
  <2>13. /\ GenWrites(genScopes', l, g)
         /\ \A i \in 1 .. Top : genScopes'[i].labelNames = genScopes[i].labelNames
    BY <1>2, <2>1, <2>3, <2>9, FoundWritten
  <2>14. \A i \in 1 .. Top : genScopes'[i].labelNames = scopeStack'[i].labelNames
    BY <2>3, <2>10, <2>13 DEF SameLabelNames, Mirror, ScopeMirrored
  <2>15. \A i \in 1 .. Top : \A k \in 1 .. Len(scopeStack'[i].labelNames) :
           scopeStack'[i].labelNames[k] = l \/ i = 1 \/ scopeStack'[i].labelNames[k] \in LabelNames
    <3>1. \A i \in 1 .. Top : i # 1 => i \in Inner
      BY <2>2 DEF Inner
    <3>2. QED
      BY <2>3, <2>10, <3>1 DEF Uses, ScopeUses, SameLabelNames
  <2>16. fault' = Sound
    BY <2>9 DEF Faulty, GenInv
  <2>17. ~VariableIn(Top, l)
    BY <2>4 DEF VariableIn
  <2>18. QED
    BY <2>1, <2>6, <2>8, <2>9, <2>10, <2>12, <2>13, <2>14, <2>15, <2>16, <2>17, GenLabelStep
<1>3. QED
  BY <1>1, <1>2

-----------------------------------------------------------------------------
(* begin, results and calls, in both walks                                 *)

(* The variables of the scopes are what they were. *)
LEMMA UsesSame ==
  ASSUME ScopesInv, status = "run", Uses, SameFrame, SameTables,
         \A d \in Functions :
           defs'[d].requests = defs[d].requests /\ defs'[d].provides = defs[d].provides,
         \A i \in 1 .. Top : scopeStack[i].body => scopeStack'[i].body,
         todo' # << >> => scopeStack'[Top].body
  PROVE  Uses'
<1>1. \A i \in Inner : i \in 1 .. Top
  BY TopRuns DEF Inner
<1>2. \A i \in Inner : /\ Entries(i)' = Entries(i)
                       /\ scopeStack'[i].labelNames = scopeStack[i].labelNames
  BY <1>1 DEF SameTables, Entries
<1>3. \A i \in Inner : \A x : VariableIn(i, x)' <=> VariableIn(i, x)
  BY <1>2 DEF VariableIn
<1>4. \A i \in Inner : scopeStack[i].body =>
        scopeStack'[i].body /\ \A x : VariableIn(i, x)' => VariableIn(i, x)
  BY <1>1, <1>3
<1>5. \A i \in Inner : "result" \in DOMAIN Entries(i)' => VariableIn(i, "result")'
  BY <1>2, <1>3 DEF Uses, ScopeUses
<1>6. \A i \in Inner : \A k \in 1 .. Len(scopeStack'[i].labelNames) :
        scopeStack'[i].labelNames[k] \in LabelNames
  BY <1>2 DEF Uses, ScopeUses
<1>7. QED
  BY <1>3, <1>4, <1>5, <1>6, UsesKept

LEMMA GenBeginInv ==
  ASSUME ScopesInv, GenInv, GenBegin
  PROVE  GenInv'
<1>1. /\ scopeStack' = [scopeStack EXCEPT ![Top].body = TRUE] /\ defs' = defs
      /\ status = "run" /\ status' = status /\ todo' = << >>
      /\ levels' = levels /\ builder' = builder /\ entered' = entered /\ patched' = patched
      /\ fault' = fault /\ genScopes' = genScopes
  BY DEF GenBegin, BeginBody, Declaring, genVars
<1>2. Shape /\ Top \in 1 .. Top /\ Running /\ Mirror /\ Uses
  BY <1>1, TopRuns DEF GenInv, Running
<1>3. SameTables /\ \A i \in 1 .. Top : scopeStack[i].body => scopeStack'[i].body
  <2> DEFINE new == [scopeStack[Top] EXCEPT !.body = TRUE]
  <2>1. scopeStack' = Updated(scopeStack, Top, new)
    BY <1>1 DEF Updated
  <2>2. /\ DOMAIN new = DOMAIN scopeStack[Top] /\ new.function = scopeStack[Top].function
        /\ new.levelEntries = scopeStack[Top].levelEntries
        /\ new.labelNames = scopeStack[Top].labelNames /\ new.body
    BY <1>2 DEF Shape
  <2> HIDE DEF new
  <2>3. IsSeq(scopeStack) /\ Top \in 1 .. Len(scopeStack) /\ Top = Len(scopeStack)
    BY <1>2 DEF Shape, Top
  <2>4. /\ IsSeq(scopeStack') /\ Len(scopeStack') = Len(scopeStack)
        /\ \A i \in 1 .. Len(scopeStack) : scopeStack'[i] = IF i = Top THEN new ELSE scopeStack[i]
    BY <2>1, <2>3, UpdateSeq
  <2>5. QED
    BY <2>2, <2>3, <2>4 DEF SameTables, Top
<1>4. OnlyIn({}, {})
  BY <1>1, <1>2, SameDefs
<1>5. SameFrame
  <2>1. Top' = Top /\ \A i \in 1 .. Top : Function(i)' = Function(i)
    BY <1>3 DEF SameTables, Function
  <2>2. QED
    BY <1>4, <2>1, OnlyInFrame
<1>6. Mirror'
  BY <1>1, <1>2, <1>3, <1>5, MirrorSame
<1>7. Uses'
  BY <1>1, <1>2, <1>3, <1>5, UsesSame
<1>8. Entered'
  BY <1>1, <1>5, EnteredKept DEF GenInv
<1>9. fault' = Sound /\ \A d \in Functions : d \notin Open => defs'[d].gotos = defs[d].gotos
  BY <1>1 DEF GenInv
<1>10. QED
  BY <1>1, <1>5, <1>6, <1>7, <1>8, <1>9, FrameStep

(* Nothing but faults and calls change. *)
LEMMA GenUsesStep ==
  ASSUME ScopesInv, GenInv, status = "run", scopeStack' = scopeStack,
         NEW D, NEW F, OnlyIn(D, F), F \subseteq {"calls"},
         genScopes' = genScopes, levels' = levels, builder' = builder, patched' = patched,
         fault' = Sound, todo' # << >> => scopeStack[Top].body,
         SameFrame => Entered'
  PROVE  GenInv'
<1>1. Shape /\ Top \in 1 .. Top /\ Running /\ Mirror /\ Uses
  BY TopRuns DEF GenInv, Running
<1>2. SameTables /\ \A i \in 1 .. Top : scopeStack[i].body => scopeStack'[i].body
  BY <1>1 DEF SameTables, Top, Shape
<1>3. SameFrame
  <2>1. Top' = Top /\ \A i \in 1 .. Top : Function(i)' = Function(i)
    BY <1>2 DEF SameTables, Function
  <2>2. {"chain", "isForward", "creator", "level"} \cap F = {}
    OBVIOUS
  <2>3. QED
    BY <2>1, <2>2, OnlyInFrame
<1>4. \A d \in Functions : /\ defs'[d].requests = defs[d].requests
                           /\ defs'[d].provides = defs[d].provides
                           /\ defs'[d].gotos = defs[d].gotos
  BY DEF OnlyIn, DefFields
<1>5. Mirror'
  BY <1>1, <1>2, <1>3, MirrorSame
<1>6. Uses'
  <2>1. todo' # << >> => scopeStack'[Top].body
    OBVIOUS
  <2>2. QED
    BY <1>1, <1>2, <1>3, <1>4, <2>1, UsesSame
<1>7. Entered'
  BY <1>3
<1>8. QED
  BY <1>3, <1>4, <1>5, <1>6, <1>7, FrameStep

LEMMA GenResultInv ==
  ASSUME ScopesInv, GenInv, GenResult
  PROVE  GenInv'
<1>1. CASE "result" \notin DOMAIN Entries(Top)
  <2>1. Refuses
    BY <1>1 DEF GenResult, UseResult, Report, Refuses
  <2>2. UNCHANGED genVars
    BY <2>1 DEF GenResult, Refuses, Refused, Walked
  <2>3. QED
    BY <2>1, <2>2, GenRefused
<1>2. CASE "result" \in DOMAIN Entries(Top)
  <2>1. /\ scopeStack' = scopeStack /\ defs' = defs /\ status' = status /\ status = "run"
        /\ todo' = todo /\ scopeStack[Top].body
    BY <1>2 DEF GenResult, UseResult, vars, InBody
  <2>2. /\ Faulty(LookupFault("result", "variable"))
        /\ genScopes' = genScopes /\ levels' = levels /\ builder' = builder
        /\ entered' = entered /\ patched' = patched
    BY <2>1 DEF GenResult, Refused
  <2>3. Shape /\ Top \in Inner /\ Running /\ Uses
    BY <2>1, TopRuns DEF GenInv, Running
  <2>4. LookupFault("result", "variable") = Sound
    <3>1. VariableIn(Top, "result")
      BY <1>2, <2>3 DEF Uses, ScopeUses
    <3>2. QED
      BY <2>1, <2>3, <3>1, VariableFound
  <2>5. fault' = Sound
    BY <2>2, <2>4 DEF Faulty, GenInv
  <2>6. OnlyIn({}, {}) /\ {} \subseteq {"calls"}
    BY <2>1, <2>3, SameDefs
  <2>7. SameFrame => Entered'
    BY <2>1, <2>2, EnteredKept DEF GenInv
  <2>8. QED
    BY <2>1, <2>2, <2>5, <2>6, <2>7, GenUsesStep
<1>3. QED
  BY <1>1, <1>2

LEMMA EnteredMore ==
  ASSUME ScopesInv, Entered, SameFrame,
         \A d \in Functions : defs[d].calls \subseteq defs'[d].calls,
         \A e \in entered' \ entered :
           /\ e[1] \in Functions /\ e[2] \in Functions /\ e[2] \in defs'[e[1]].calls
           /\ e[3] = Len(Chain(e[1])) - defs[e[2]].level + 1
  PROVE  Entered'
<1>1. Functions' = Functions
  BY DEF SameFrame, Functions
<1>2. ASSUME NEW e \in entered'
      PROVE  /\ e[1] \in Functions /\ e[2] \in defs'[e[1]].calls
             /\ e[3] = Len(Chain(e[1])') - defs'[e[2]].level + 1
  <2>1. /\ e[1] \in Functions /\ e[2] \in Functions /\ e[2] \in defs'[e[1]].calls
        /\ e[3] = Len(Chain(e[1])) - defs[e[2]].level + 1
    <3>1. CASE e \in entered
      BY <3>1 DEF Entered, ScopesInv, CallsOK
    <3>2. CASE e \notin entered
      BY <3>2
    <3>3. QED
      BY <3>1, <3>2
  <2>2. Chain(e[1])' = Chain(e[1]) /\ defs'[e[2]].level = defs[e[2]].level
    BY <2>1 DEF SameFrame
  <2>3. QED
    BY <2>1, <2>2
<1>3. QED
  BY <1>1, <1>2 DEF Entered

(* A function the first walk found is, in the second, its routine with the *)
(* level of the function.                                                  *)
LEMMA RoutineFound ==
  ASSUME ScopesInv, status = "run", Running, NEW f, ScopesNaming(f) # {},
         Denoted(f).entryType = "function", NEW g, g = Denoted(f).function
  PROVE  /\ LookupFault(f, "function") = Sound /\ GenFound(f).of = g
         /\ g # NoFunction => g \in Functions /\ GenFound(f).level = defs[g].level
<1>1. PICK i \in 1 .. Top :
        /\ f \in DOMAIN Entries(i) /\ Denoted(f) = Entries(i)[f]
        /\ GenNaming(f) # {} /\ GenFound(f) = MirrorOf(Entries(i)[f], i, Owner(i))
  BY GenFoundIs
<1> PICK e, o : e = Denoted(f) /\ o = Owner(i)
  OBVIOUS
<1>2. LookupFault(f, "function") = Sound
  <2>1. LookupFault(f, Denoted(f).entryType) = Sound
    BY FaultlessLookup
  <2>2. QED
    BY <2>1
<1>3. GenFound(f) = MirrorOf(e, i, o) /\ e.entryType = "function" /\ e.function = g
  BY <1>1
<1>4. GenFound(f).of = g /\ (i # 1 => GenFound(f).level = i)
  <2>1. e.entryType = "function" =>
          MirrorOf(e, i, o).of = e.function /\ (i # 1 => MirrorOf(e, i, o).level = i)
    BY MirrorKinds
  <2>2. QED
    BY <1>3, <2>1
<1>5. ASSUME g # NoFunction PROVE g \in Functions /\ GenFound(f).level = defs[g].level
  <2>1. Named(i, f) /\ Entries(i)[f].function = g /\ Top \in Nat /\ Top >= 2
    BY <1>1, <1>3, TopRuns DEF Named
  <2>2. i # 1
    <3>1. Top >= 1 /\ (i = 1 => f \in DOMAIN Entries(1))
      BY <1>1, <2>1
    <3>2. i = 1 => Entries(1)[f].function = NoFunction
      BY <3>1 DEF ScopesInv, Names
    <3>3. QED
      BY <1>5, <2>1, <3>2
  <2>3. i \in Inner
    BY <2>1, <2>2 DEF Inner
  <2>4. NamedOK(i, f)
    BY <2>1, <2>3 DEF ScopesInv, Names
  <2>5. g \in Functions /\ defs[g].level = i
    BY <2>1, <2>4 DEF NamedOK
  <2>6. QED
    BY <1>4, <2>2, <2>5
<1>6. QED
  BY <1>2, <1>4, <1>5

(* What a caller provides is in its own scope. *)
LEMMA ProvidesFound ==
  ASSUME ScopesInv, status = "run", Running
  PROVE  ProvideFaults = {}
<1>1. Top \in Inner /\ Current = Function(Top) /\ Current \in Functions /\ Shape
  BY TopRuns
<1>2. ASSUME NEW x \in ToSet(defs[Current].provides)
      PROVE  LookupFault(x, "variable") = Sound
  <2> PICK ps : ps = defs[Current].provides
    OBVIOUS
  <2>1. IsSeq(ps) /\ \A k \in 1 .. Len(ps) : VariableIn(Top, ps[k])
    BY <1>1 DEF Running, Uses, ScopeUses, Shape
  <2>2. DOMAIN ps = 1 .. Len(ps)
    BY <2>1 DEF IsSeq
  <2>3. PICK k \in DOMAIN ps : ps[k] = x
    BY <1>2 DEF ToSet
  <2>4. VariableIn(Top, x)
    BY <2>1, <2>2, <2>3
  <2>5. QED
    BY <2>4, VariableFound
<1>3. QED
  BY <1>2 DEF ProvideFaults

LEMMA GenCallInv ==
  ASSUME ScopesInv, GenInv, NEW f, NEW args, GenCall(f, args)
  PROVE  GenInv'
<1> DEFINE refused == \/ ScopesNaming(f) = {} \/ Denoted(f).entryType # "function"
                      \/ Len(args) # Len(Parameters(Denoted(f).header))
<1>1. CASE refused
  <2>1. Refuses
    BY <1>1 DEF GenCall, Call, Report, Refuses
  <2>2. UNCHANGED genVars
    BY <2>1 DEF GenCall, Refuses, Refused, Walked
  <2>3. QED
    BY <2>1, <2>2, GenRefused
<1>2. CASE ~refused
  <2> PICK g : g = Denoted(f).function
    OBVIOUS
  <2>1. /\ scopeStack' = scopeStack /\ status' = status /\ status = "run" /\ scopeStack[Top].body
        /\ defs' = IF g = NoFunction THEN defs ELSE [defs EXCEPT ![Current].calls = @ \cup {g}]
    BY <1>2 DEF GenCall, Call, InBody
  <2>2. ScopesNaming(f) # {} /\ Denoted(f).entryType = "function"
    BY <1>2
  <2> HIDE DEF refused
  <2>3. /\ Shape /\ Current \in Functions /\ Top \in Nat /\ Top >= 2 /\ Top \in 1 .. Top
        /\ Current = Function(Top) /\ Len(Chain(Current)) = Top - 1
        /\ Running /\ Mirror /\ Levels /\ Entered /\ fault = Sound
    BY <2>1, TopRuns DEF GenInv, Running
  <2>4. /\ LookupFault(f, "function") = Sound /\ GenFound(f).of = g
        /\ g # NoFunction => g \in Functions /\ GenFound(f).level = defs[g].level
    BY <2>1, <2>2, <2>3, RoutineFound
  <2>5. ProvideFaults = {}
    BY <2>1, <2>3, ProvidesFound
  <2>6. /\ genScopes' = genScopes /\ levels' = levels /\ builder' = builder /\ patched' = patched
        /\ fault' = Sound
        /\ entered' = entered
             \/ /\ g # NoFunction /\ Current # 1
                /\ entered' = entered \cup {<<Current, g, NumberLoad(GenFound(f).level)>>}
    <3>1. /\ UNCHANGED <<genScopes, levels, builder, patched>>
          /\ IF g = NoFunction THEN UNCHANGED <<fault, entered>>
             ELSE /\ entered' = IF Current = 1 THEN entered
                                ELSE entered \cup {<<Current, g, NumberLoad(GenFound(f).level)>>}
                  /\ Faulty(IF NumberLoad(GenFound(f).level) > 0 \/ ProvideFaults = {} THEN Sound
                            ELSE CHOOSE bad2 \in ProvideFaults : TRUE)
      BY <2>1, <2>4 DEF GenCall, Refused
    <3>2. g # NoFunction => Faulty(Sound)
      BY <2>5, <3>1
    <3>3. fault' = Sound
      BY <2>3, <3>1, <3>2 DEF Faulty
    <3>4. QED
      BY <3>1, <3>3
  <2>7. /\ OnlyIn({Current}, {"calls"})
        /\ \A d \in Functions : defs[d].calls \subseteq defs'[d].calls
        /\ g # NoFunction => g \in defs'[Current].calls
    <3>1. CASE g = NoFunction
      BY <2>1, <2>3, <3>1, SameDefs
    <3>2. CASE g # NoFunction
      <4> DEFINE v == defs[Current].calls \cup {g}
      <4>1. "calls" \in DefFields /\ defs' = Redefined(Current, "calls", v)
        BY <2>1, <3>2 DEF DefFields, Redefined
      <4>2. OnlyIn({Current}, {"calls"}) /\ defs'[Current]["calls"] = v
        BY <2>3, <4>1, DefWritten
      <4>3. \A d \in Functions \ {Current} : defs'[d]["calls"] = defs[d]["calls"]
        BY <4>1, <4>2 DEF OnlyIn
      <4>4. QED
        BY <3>2, <4>2, <4>3
    <3>3. QED
      BY <3>1, <3>2
  <2>8. ASSUME SameFrame PROVE Entered'
    <3>1. ASSUME g # NoFunction, Current # 1
          PROVE  NumberLoad(GenFound(f).level) = Len(Chain(Current)) - defs[g].level + 1
      <4>1. genScopes[GenTop].function = Current
        BY <2>3 DEF Mirror, ScopeMirrored
      <4>2. levels[Current] = defs[Current].level /\ defs[Current].level = Len(Chain(Current))
        <5>1. Len(Chain(Current)) > 0
          BY <2>3
        <5>2. QED
          BY <2>3, <3>1, <5>1 DEF Levels
      <4>3. GenFound(f).level = defs[g].level
        BY <2>4, <3>1
      <4>4. QED
        BY <4>1, <4>2, <4>3 DEF NumberLoad
    <3>2. ASSUME NEW e \in entered' \ entered
          PROVE  /\ e[1] \in Functions /\ e[2] \in Functions /\ e[2] \in defs'[e[1]].calls
                 /\ e[3] = Len(Chain(e[1])) - defs[e[2]].level + 1
      <4>1. /\ g # NoFunction /\ Current # 1
            /\ e = <<Current, g, NumberLoad(GenFound(f).level)>>
        BY <2>6, <3>2
      <4> PICK here, loads : here = Current /\ loads = NumberLoad(GenFound(f).level)
        OBVIOUS
      <4>2. e[1] = here /\ e[2] = g /\ e[3] = loads
        BY <4>1
      <4>3. loads = Len(Chain(here)) - defs[g].level + 1
        BY <3>1, <4>1
      <4>4. here \in Functions /\ g \in Functions /\ g \in defs'[here].calls
        BY <2>3, <2>4, <2>7, <4>1
      <4>5. QED
        BY <4>2, <4>3, <4>4
    <3>3. QED
      BY <2>3, <2>7, <2>8, <3>2, EnteredMore
  <2>9. todo' # << >> => scopeStack[Top].body
    BY <2>1
  <2>10. QED
    BY <2>1, <2>6, <2>7, <2>8, <2>9, GenUsesStep
<1>3. QED
  BY <1>1, <1>2

-----------------------------------------------------------------------------
(* Uses of variables, in both walks                                        *)

LEMMA InnermostVariable ==
  ASSUME ScopesInv, status = "run", NEW x, VariableScopes(x) # {}, VariableIn(Top, x)
  PROVE  FoundIn(x) = Top
<1>1. Top \in Nat /\ Top \in 1 .. Top /\ VariableScopes(x) \in SUBSET (1 .. Top)
  BY TopRuns DEF VariableScopes
<1>2. FoundIn(x) \in VariableScopes(x) /\ \A j \in VariableScopes(x) : j <= FoundIn(x)
  BY <1>1, MaxIs DEF FoundIn
<1>3. Top \in VariableScopes(x)
  BY <1>1 DEF VariableIn, VariableScopes
<1>4. Top <= FoundIn(x) /\ FoundIn(x) \in 1 .. Top
  BY <1>1, <1>2, <1>3
<1>5. QED
  BY <1>1, <1>4

LEMMA ScopeOfFunction ==
  ASSUME ScopesInv, NEW i \in Inner, NEW j \in Inner, Function(i) = Function(j)
  PROVE  i = j
<1>1. Len(Chain(Function(i))) = i - 1 /\ Len(Chain(Function(j))) = j - 1
  BY DEF ScopesInv, Nested
<1>2. i - 1 = j - 1 /\ i \in Int /\ j \in Int
  BY <1>1 DEF Inner
<1>3. QED
  BY <1>2

LEMMA LinkedUses ==
  ASSUME ScopesInv, status = "run", Running, scopeStack' = scopeStack, scopeStack[Top].body,
         NEW x, VariableScopes(x) # {}, FoundIn(x) # Top, defs' = Linked(x)
  PROVE  /\ Uses' /\ x \in DOMAIN defs'[Current].requests
         /\ OnlyIn({Function(FoundIn(x)), Current}, {"provides", "requests"})
<1> PICK i, owner, here, provides :
      i = FoundIn(x) /\ owner = Function(i) /\ here = Current /\ provides = Provided(owner, x)
  OBVIOUS
<1> PICK request, requests : Links(x, i, owner, here, provides, request, requests)
  BY LinkedIs
<1>1. /\ i \in 2 .. Top - 1 /\ owner \in Functions /\ IsSeq(defs[owner].provides)
      /\ DOMAIN requests = DOMAIN defs[here].requests \cup {x}
      /\ OnlyIn({owner, here}, {"provides", "requests"})
  BY DEF Links
<1>2. \A c \in Functions :
        /\ defs'[c].provides = IF c = owner THEN provides ELSE defs[c].provides
        /\ defs'[c].requests = IF c = here THEN requests ELSE defs[c].requests
  BY DEF Links
<1>3. /\ Uses /\ Top \in Nat /\ Top \in Inner /\ here = Function(Top) /\ here \in Functions
      /\ Top' = Top /\ Inner' = Inner
  BY TopRuns DEF Running, Top, Inner
<1>4. i \in Inner /\ VariableIn(i, x)
  BY FoundIs DEF VariableIn
<1>5. ~VariableIn(Top, x)
  BY InnermostVariable
<1>6. \A k \in 1 .. Len(provides) :
        provides[k] = x \/ (k \in 1 .. Len(defs[owner].provides)
                              /\ provides[k] = defs[owner].provides[k])
  BY <1>1, ProvidedIs, SMTT(30)
<1>7. ASSUME NEW j \in Inner PROVE ScopeUses(j)'
  <2> PICK f : f = Function(j)
    OBVIOUS
  <2>1. /\ f \in Functions /\ Function(j)' = f /\ Entries(j)' = Entries(j)
        /\ scopeStack'[j] = scopeStack[j]
        /\ \A n : VariableIn(j, n)' <=> VariableIn(j, n)
    BY DEF ScopesInv, Nested, Bodies, Function, Entries, VariableIn
  <2>2. /\ \A n \in DOMAIN defs[f].requests : scopeStack[j].body /\ ~VariableIn(j, n)
        /\ \A k \in 1 .. Len(defs[f].provides) : VariableIn(j, defs[f].provides[k])
        /\ "result" \in DOMAIN Entries(j) => VariableIn(j, "result")
        /\ \A k \in 1 .. Len(scopeStack[j].labelNames) : scopeStack[j].labelNames[k] \in LabelNames
    BY <1>3 DEF Uses, ScopeUses
  <2>3. ASSUME NEW n \in DOMAIN defs'[f].requests
        PROVE  scopeStack[j].body /\ ~VariableIn(j, n)
    <3>1. CASE f # here
      BY <1>2, <2>1, <2>2, <3>1
    <3>2. CASE f = here
      <4>1. j = Top
        BY <1>3, <3>2, ScopeOfFunction
      <4>2. n \in DOMAIN defs[f].requests \/ n = x
        BY <1>1, <1>2, <2>1, <3>2
      <4>3. QED
        BY <1>5, <2>2, <4>1, <4>2
    <3>3. QED
      BY <3>1, <3>2
  <2>4. ASSUME NEW k \in 1 .. Len(defs'[f].provides)
        PROVE  \A n : n = defs'[f].provides[k] => VariableIn(j, n)
    <3>1. CASE f # owner
      BY <1>2, <2>1, <2>2, <3>1
    <3>2. CASE f = owner
      <4>1. j = i
        BY <1>4, <3>2, ScopeOfFunction
      <4>2. defs'[f].provides = provides
        BY <1>2, <2>1, <3>2
      <4>3. QED
        BY <1>4, <1>6, <2>2, <3>2, <4>1, <4>2
    <3>3. QED
      BY <3>1, <3>2
  <2>5. /\ \A n \in DOMAIN defs'[f].requests : scopeStack'[j].body /\ ~VariableIn(j, n)'
        /\ "result" \in DOMAIN Entries(j)' => VariableIn(j, "result")'
        /\ \A k \in 1 .. Len(scopeStack'[j].labelNames) : scopeStack'[j].labelNames[k] \in LabelNames
    BY <2>1, <2>2, <2>3
  <2>6. ASSUME NEW k \in 1 .. Len(defs'[f].provides)
        PROVE  defs'[f].provides[k] \in DOMAIN Entries(j)'
                 /\ Entries(j)'[defs'[f].provides[k]].entryType = "variable"
    <3> PICK n : n = defs'[f].provides[k]
      OBVIOUS
    <3>1. VariableIn(j, n)
      BY <2>4
    <3>2. n \in DOMAIN Entries(j)' /\ Entries(j)'[n].entryType = "variable"
      BY <2>1, <3>1 DEF VariableIn
    <3>3. QED
      BY <3>2
  <2>7. QED
    BY <2>1, <2>5, <2>6 DEF ScopeUses, VariableIn
<1>8. Uses'
  <2>1. todo' # << >> => scopeStack'[Top].body
    OBVIOUS
  <2>2. QED
    BY <1>3, <1>7, <2>1 DEF Uses
<1>9. x \in DOMAIN defs'[here].requests
  BY <1>1, <1>2, <1>3
<1>10. QED
  BY <1>1, <1>8, <1>9

LEMMA GenLinkedStep ==
  ASSUME ScopesInv, GenInv, status = "run", status' = status, scopeStack' = scopeStack,
         scopeStack[Top].body, NEW x, VariableScopes(x) # {}, defs' = Linked(x),
         genScopes' = genScopes, levels' = levels, builder' = builder, entered' = entered,
         patched' = patched, Faulty(IdFault(x))
  PROVE  GenInv'
<1>1. Shape /\ Top \in 1 .. Top /\ Running /\ Mirror /\ fault = Sound
  BY TopRuns DEF GenInv, Running
<1>2. CASE FoundIn(x) = Top
  <2>1. defs' = defs
    BY <1>2 DEF Linked
  <2>2. VariableIn(Top, x)
    BY <1>2, FoundIs DEF VariableIn
  <2>3. LookupFault(x, "variable") = Sound
    BY <1>1, <2>2, VariableFound
  <2>4. fault' = Sound
    BY <1>1, <2>3 DEF Faulty, IdFault
  <2>5. OnlyIn({}, {}) /\ {} \subseteq {"calls"}
    BY <1>1, <2>1, SameDefs
  <2>6. SameFrame => Entered'
    BY <2>1, EnteredKept DEF GenInv
  <2>7. QED
    BY <2>4, <2>5, <2>6, GenUsesStep
<1>3. CASE FoundIn(x) # Top
  <2>1. /\ Uses' /\ x \in DOMAIN defs'[Current].requests
        /\ OnlyIn({Function(FoundIn(x)), Current}, {"provides", "requests"})
    BY <1>1, <1>3, LinkedUses
  <2>2. fault' = Sound
    BY <1>1, <2>1 DEF Faulty, IdFault
  <2>3. SameTables
    BY <1>1 DEF SameTables, Top, Shape
  <2>4. SameFrame
    <3>1. Top' = Top /\ \A i \in 1 .. Top : Function(i)' = Function(i)
      BY DEF Top, Function
    <3>2. QED
      BY <2>1, <3>1, OnlyInFrame
  <2>5. \A c \in Functions : defs'[c].calls = defs[c].calls /\ defs'[c].gotos = defs[c].gotos
    BY <2>1 DEF OnlyIn, DefFields
  <2>6. Mirror'
    BY <1>1, <2>3, <2>4, MirrorSame
  <2>7. Entered'
    BY <2>4, <2>5, EnteredKept DEF GenInv
  <2>8. QED
    BY <2>1, <2>2, <2>4, <2>5, <2>6, <2>7, FrameStep
<1>4. QED
  BY <1>2, <1>3

LEMMA GenUseInv ==
  ASSUME ScopesInv, GenInv, NEW x, GenUse(x)
  PROVE  GenInv'
<1>1. CASE VariableScopes(x) = {}
  <2>1. Refuses
    BY <1>1 DEF GenUse, UseVariable, NotFound, Refuses
  <2>2. UNCHANGED genVars
    BY <2>1 DEF GenUse, Refuses, Refused, Walked
  <2>3. QED
    BY <2>1, <2>2, GenRefused
<1>2. CASE VariableScopes(x) # {}
  <2>1. /\ status = "run" /\ status' = status /\ scopeStack' = scopeStack /\ defs' = Linked(x)
        /\ scopeStack[Top].body
    BY <1>2 DEF GenUse, UseVariable, InBody
  <2>2. /\ Faulty(IdFault(x))
        /\ genScopes' = genScopes /\ levels' = levels /\ builder' = builder
        /\ entered' = entered /\ patched' = patched
    BY <2>1 DEF GenUse, Refused
  <2>3. QED
    BY <1>2, <2>1, <2>2, GenLinkedStep
<1>3. QED
  BY <1>1, <1>2

LEMMA GenArgumentInv ==
  ASSUME ScopesInv, GenInv, GenArgument
  PROVE  GenInv'
<1> DEFINE arg == Head(todo).arg
           par == Head(todo).par
           t == IF arg.lvalue THEN Entries(FoundIn(arg.name))[arg.name].type ELSE arg.type
<1>1. /\ status = "run" /\ todo # << >>
      /\ IF arg.lvalue /\ VariableScopes(arg.name) = {} THEN NotFound(arg.name)
         ELSE IF ~ArgumentAccepted(par, t, arg.lvalue) THEN Report
         ELSE /\ defs' = IF arg.lvalue THEN Linked(arg.name) ELSE defs
              /\ scopeStack' = scopeStack /\ status' = status
      /\ \/ Refused
         \/ /\ Walked
            /\ Faulty(IF arg.lvalue THEN IdFault(arg.name) ELSE Sound)
            /\ genScopes' = genScopes /\ levels' = levels /\ builder' = builder
            /\ entered' = entered /\ patched' = patched
  BY DEF GenArgument, CheckArgument
<1> HIDE DEF arg, par, t
<1>2. CASE (arg.lvalue /\ VariableScopes(arg.name) = {}) \/ ~ArgumentAccepted(par, t, arg.lvalue)
  <2>1. Refuses
    BY <1>1, <1>2 DEF NotFound, Report, Refuses
  <2>2. UNCHANGED genVars
    BY <1>1, <2>1 DEF Refuses, Refused, Walked
  <2>3. QED
    BY <2>1, <2>2, GenRefused
<1>3. CASE ~(arg.lvalue /\ VariableScopes(arg.name) = {}) /\ ArgumentAccepted(par, t, arg.lvalue)
  <2>1. /\ defs' = IF arg.lvalue THEN Linked(arg.name) ELSE defs
        /\ scopeStack' = scopeStack /\ status' = status
    BY <1>1, <1>3
  <2>2. /\ Faulty(IF arg.lvalue THEN IdFault(arg.name) ELSE Sound)
        /\ genScopes' = genScopes /\ levels' = levels /\ builder' = builder
        /\ entered' = entered /\ patched' = patched
    BY <1>1, <2>1 DEF Refused
  <2>3. /\ Running /\ Uses /\ Shape /\ scopeStack[Top].body /\ fault = Sound
    BY <1>1, TopRuns DEF GenInv, Running, Uses
  <2>4. CASE arg.lvalue
    <3> PICK x : x = arg.name
      OBVIOUS
    <3>1. VariableScopes(x) # {} /\ defs' = Linked(x) /\ Faulty(IdFault(x))
      BY <1>3, <2>1, <2>2, <2>4
    <3>2. QED
      BY <1>1, <2>1, <2>2, <2>3, <3>1, GenLinkedStep
  <2>5. CASE ~arg.lvalue
    <3>1. defs' = defs /\ fault' = Sound
      BY <2>1, <2>2, <2>3, <2>5 DEF Faulty
    <3>2. OnlyIn({}, {}) /\ {} \subseteq {"calls"}
      BY <2>3, <3>1, SameDefs
    <3>3. SameFrame => Entered'
      BY <2>2, <3>1, EnteredKept DEF GenInv
    <3>4. QED
      BY <1>1, <2>1, <2>2, <2>3, <3>1, <3>2, <3>3, GenUsesStep
  <2>6. QED
    BY <2>4, <2>5
<1>4. QED
  BY <1>2, <1>3

-----------------------------------------------------------------------------
(* The end of a function and of the program, in both walks                 *)

(* A label some goto names has been met by a statement, and both were in   *)
(* the routine that ends.                                                  *)
LEMMA LabelsEnd ==
  ASSUME ScopesInv, status = "run", Running, ~UnboundTarget, NEW o, o = Owner(Top)
  PROVE  /\ \A l \in ScopeLabels :
              /\ l \in LabelNames /\ GenFound(l).gotos \subseteq {o}
              /\ GenFound(l).gotos # {} => GenFound(l).label = o
         /\ \A l \in defs[Current].gotos :
              l \in ScopeLabels /\ GenFound(l).gotos = {o} /\ GenFound(l).label = o
<1> PICK names : names = scopeStack[Top].labelNames
  OBVIOUS
<1>1. /\ Shape /\ Top \in Inner /\ Top \in 1 .. Top /\ Current = Function(Top)
      /\ GenTop = Top /\ genScopes[Top].labelNames = names
  BY TopRuns DEF Running, Mirror, ScopeMirrored
<1>2. IsSeq(names)
  BY <1>1 DEF Shape
<1>3. DOMAIN names = 1 .. Len(names)
  BY <1>2 DEF IsSeq
<1>4. \A l : l \in ScopeLabels <=> \E k \in 1 .. Len(names) : names[k] = l
  <2>1. ScopeLabels = ToSet(names)
    BY <1>1 DEF ScopeLabels
  <2>2. \A l : l \in ToSet(names) <=> \E k \in DOMAIN names : names[k] = l
    BY Zenon DEF ToSet
  <2>3. QED
    BY <1>3, <2>1, <2>2
<1>5. ASSUME NEW l \in ScopeLabels
      PROVE  /\ l \in LabelNames
             /\ GenFound(l).gotos = IF Entries(Top)[l].isTargeted THEN {o} ELSE {}
             /\ Entries(Top)[l].isTargeted => GenFound(l).label = o
  <2> PICK e : e = Entries(Top)[l]
    OBVIOUS
  <2>1. PICK k \in 1 .. Len(names) : names[k] = l
    BY <1>4
  <2>2. l \in LabelNames
    BY <1>1, <2>1 DEF Running, Uses, ScopeUses
  <2>3. IsLabelIn(Top, l) /\ e.entryType = "label"
    BY <1>1, <2>1 DEF ScopesInv, LabelsOK, IsLabelIn
  <2>4. GenFound(l) = MirrorOf(e, Top, o)
    <3>1. IsLabel(l)
      BY <2>3 DEF IsLabel, IsLabelIn
    <3>2. QED
      BY <3>1, LabelFound
  <2>5. /\ GenFound(l).label = IF e.isBound THEN o ELSE NoFunction
        /\ GenFound(l).gotos = IF e.isTargeted THEN {o} ELSE {}
    <3> PICK t : t = Top
      OBVIOUS
    <3>1. e.entryType = "label" =>
            /\ MirrorOf(e, t, o).label = IF e.isBound THEN o ELSE NoFunction
            /\ MirrorOf(e, t, o).gotos = IF e.isTargeted THEN {o} ELSE {}
      BY DEF MirrorOf
    <3>2. QED
      BY <2>3, <2>4, <3>1
  <2>6. e.isTargeted => e.isBound
    BY <1>3, <2>1 DEF UnboundTarget
  <2>7. QED
    BY <2>2, <2>5, <2>6
<1>6. ASSUME NEW l \in defs[Current].gotos
      PROVE  l \in ScopeLabels /\ Entries(Top)[l].isTargeted
  <2>1. IsLabelIn(Top, l) /\ Entries(Top)[l].isTargeted
    BY <1>1 DEF ScopesInv, LabelsOK
  <2>2. \E k \in 1 .. Len(names) : names[k] = l
    BY <1>1, <2>1 DEF ScopesInv, LabelsOK
  <2>3. QED
    BY <1>4, <2>1, <2>2
<1>7. QED
  BY <1>5, <1>6

LEMMA ScopePatched ==
  ASSUME ScopesInv, GenInv, status = "run", ~UnboundTarget, CloseGenScope,
         NEW o, o = defs[Current].creator
  PROVE  /\ fault' = Sound /\ genScopes' = Front(genScopes)
         /\ patched \subseteq patched'
         /\ \A p \in patched' : p \in patched \/ \E l \in LabelNames : p = <<o, l, o>>
         /\ \A l \in defs[Current].gotos : <<o, l, o>> \in patched'
<1>1. Running /\ o = Owner(Top) /\ fault = Sound
  BY TopRuns DEF GenInv, Owner
<1>2. /\ \A l \in ScopeLabels :
           /\ l \in LabelNames /\ GenFound(l).gotos \subseteq {o}
           /\ GenFound(l).gotos # {} => GenFound(l).label = o
      /\ \A l \in defs[Current].gotos :
           l \in ScopeLabels /\ GenFound(l).gotos = {o} /\ GenFound(l).label = o
  BY <1>1, LabelsEnd
<1>3. o # NoFunction
  <2>1. o \in Functions
    BY TopRuns DEF ScopesInv, Creators
  <2>2. QED
    BY <2>1 DEF Functions, NoFunction
<1>4. fault' = Sound /\ genScopes' = Front(genScopes)
  <2>1. ~(\E l \in ScopeLabels : GenFound(l).gotos # {} /\ GenFound(l).label = NoFunction)
    BY <1>2, <1>3
  <2>2. Faulty(Sound) /\ genScopes' = Front(genScopes)
    BY <2>1, Zenon DEF CloseGenScope
  <2>3. QED
    BY <1>1, <2>2 DEF Faulty
<1>5. \A p : p \in patched' <=>
        \/ p \in patched
        \/ \E l \in ScopeLabels : \E g \in GenFound(l).gotos : p = <<g, l, GenFound(l).label>>
  <2>1. patched' = patched \cup
          UNION { { <<g, l, GenFound(l).label>> : g \in GenFound(l).gotos } : l \in ScopeLabels }
    BY Zenon DEF CloseGenScope
  <2> DEFINE From(l) == { <<g, l, GenFound(l).label>> : g \in GenFound(l).gotos }
             all == { From(l) : l \in ScopeLabels }
  <2>2. patched' = patched \cup UNION all
    BY <2>1
  <2>3. \A p, l : p \in From(l) <=> \E g \in GenFound(l).gotos : p = <<g, l, GenFound(l).label>>
    OBVIOUS
  <2> HIDE DEF From
  <2>4. \A q : q \in all <=> \E l \in ScopeLabels : q = From(l)
    OBVIOUS
  <2> HIDE DEF all
  <2>5. \A p : p \in UNION all <=> \E l \in ScopeLabels : p \in From(l)
    BY <2>4
  <2>6. QED
    BY <2>2, <2>3, <2>5
<1>6. ASSUME NEW p \in patched', p \notin patched PROVE \E l \in LabelNames : p = <<o, l, o>>
  <2>1. PICK l \in ScopeLabels : \E g \in GenFound(l).gotos : p = <<g, l, GenFound(l).label>>
    BY <1>5, <1>6
  <2>2. PICK g \in GenFound(l).gotos : p = <<g, l, GenFound(l).label>>
    BY <2>1
  <2>3. l \in LabelNames /\ g = o /\ GenFound(l).label = o
    BY <1>2, <2>2
  <2>4. QED
    BY <2>2, <2>3
<1>7. ASSUME NEW l \in defs[Current].gotos PROVE <<o, l, o>> \in patched'
  <2>1. l \in ScopeLabels /\ o \in GenFound(l).gotos /\ GenFound(l).label = o
    BY <1>2
  <2>2. <<o, l, o>> = <<o, l, GenFound(l).label>>
    BY <2>1
  <2>3. QED
    BY <1>5, <2>1, <2>2
<1>8. QED
  BY <1>4, <1>5, <1>6, <1>7

(* What closing a scope keeps, but for what is said of a running compiler. *)
LEMMA GenClosed ==
  ASSUME ScopesInv, GenInv, status = "run", ~UnboundTarget, CloseGenScope,
         defs' = defs, levels' = levels, entered' = entered, builder' \in Functions,
         \A d \in Open : d \in Open' \/ d = Current,
         status' = "run" => Running'
  PROVE  GenInv'
<1> PICK c, o : c = Current /\ o = defs[c].creator
  OBVIOUS
<1>1. /\ fault' = Sound
      /\ patched \subseteq patched'
      /\ \A p \in patched' : p \in patched \/ \E l \in LabelNames : p = <<o, l, o>>
      /\ \A l \in defs[c].gotos : <<o, l, o>> \in patched'
  BY ScopePatched
<1>2. Functions' = Functions /\ \A d : Chain(d)' = Chain(d)
  BY DEF Functions, Chain
<1>3. Levels' /\ Entered'
  BY <1>2 DEF GenInv, Levels, Entered
<1>4. \A p \in patched' : p[1] \in Functions /\ p[2] \in LabelNames /\ p[3] = p[1]
  <2>1. o \in Functions
    BY TopRuns DEF ScopesInv, Creators
  <2>2. \A p \in patched : p[1] \in Functions /\ p[2] \in LabelNames /\ p[3] = p[1]
    BY DEF GenInv, Patched
  <2>3. \A l \in LabelNames : /\ <<o, l, o>>[1] = o /\ <<o, l, o>>[2] = l
                              /\ <<o, l, o>>[3] = o
    OBVIOUS
  <2>4. QED
    BY <1>1, <2>1, <2>2, <2>3
<1>5. Patched'
  BY <1>2, <1>4 DEF Patched
<1>6. ASSUME NEW d \in Functions, d \notin Open', NEW l \in defs[d].gotos
      PROVE  <<defs[d].creator, l, defs[d].creator>> \in patched'
  <2>1. CASE d = c
    BY <1>1, <1>6, <2>1
  <2>2. CASE d # c
    <3>1. d \notin Open
      BY <1>6, <2>2
    <3>2. <<defs[d].creator, l, defs[d].creator>> \in patched
      BY <3>1 DEF GenInv, GotosPatched
    <3>3. QED
      BY <1>1, <3>2
  <2>3. QED
    BY <2>1, <2>2
<1>7. GotosPatched'
  BY <1>2, <1>4, <1>6 DEF GotosPatched
<1>8. QED
  BY <1>1, <1>2, <1>3, <1>5, <1>7 DEF GenInv

LEMMA GenEndInv ==
  ASSUME ScopesInv, GenInv, GenEnd
  PROVE  GenInv'
<1>1. CASE UnboundTarget
  <2>1. Refuses
    BY <1>1 DEF GenEnd, EndFunction, Report, Refuses
  <2>2. UNCHANGED genVars
    BY <2>1 DEF GenEnd, Refuses, Refused, Walked
  <2>3. QED
    BY <2>1, <2>2, GenRefused
<1>2. CASE ~UnboundTarget
  <2>1. /\ scopeStack' = Front(scopeStack) /\ defs' = defs /\ status = "run" /\ status' = status
        /\ Top > 2 /\ todo' = << >>
    BY <1>2 DEF GenEnd, EndFunction, InBody
  <2>2. /\ CloseGenScope /\ builder' = genScopes[GenTop].parentBB
        /\ levels' = levels /\ entered' = entered
    BY <2>1 DEF GenEnd, Refused
  <2>3. /\ Shape /\ Top \in Nat /\ Top = Len(scopeStack) /\ Current = Function(Top)
        /\ Running /\ Mirror /\ Uses /\ GenTop = Top /\ GenTop = Len(genScopes)
        /\ IsSeq(genScopes)
    BY <2>1, TopRuns DEF Top, GenTop, GenInv, Running, Mirror
  <2>4. /\ Top' = Top - 1
        /\ \A i \in 1 .. Top - 1 : scopeStack'[i] = scopeStack[i]
    <3>1. IsSeq(scopeStack) /\ Len(scopeStack) > 0
      BY <2>1, <2>3 DEF Shape
    <3>2. /\ Len(Front(scopeStack)) = Len(scopeStack) - 1
          /\ \A i \in 1 .. Len(scopeStack) - 1 : Front(scopeStack)[i] = scopeStack[i]
      BY <3>1, FrontSeq
    <3>3. QED
      BY <2>1, <2>3, <3>2 DEF Top
  <2>5. /\ IsSeq(genScopes') /\ GenTop' = Top - 1
        /\ \A i \in 1 .. Top - 1 : genScopes'[i] = genScopes[i]
    <3>1. genScopes' = Front(genScopes)
      BY <2>2, Zenon DEF CloseGenScope
    <3>2. IsSeq(genScopes) /\ Len(genScopes) > 0 /\ Len(genScopes) = Top
      BY <2>1, <2>3
    <3>3. /\ IsSeq(Front(genScopes)) /\ Len(Front(genScopes)) = Len(genScopes) - 1
          /\ \A i \in 1 .. Len(genScopes) - 1 : Front(genScopes)[i] = genScopes[i]
      BY <3>2, FrontSeq
    <3>4. QED
      BY <3>1, <3>2, <3>3 DEF GenTop
  <2> PICK t, u : t = Top /\ u = Top'
    OBVIOUS
  <2>15. t \in Nat /\ t > 2 /\ u = t - 1
    BY <2>1, <2>3, <2>4
  <2>16. /\ u \in 1 .. t - 1 /\ \A i \in 2 .. u : i \in 2 .. t /\ i \in 1 .. t - 1
         /\ \A i \in 2 .. t : i \in 2 .. u \/ i = t
    BY <2>15
  <2>6. \A i \in 1 .. Top - 1 :
          /\ i \in 1 .. Top /\ Function(i)' = Function(i) /\ Entries(i)' = Entries(i)
          /\ Owner(i)' = Owner(i)
    BY <2>1, <2>3, <2>4 DEF Function, Entries, Owner
  <2>7. Mirror'
    <3>1. ASSUME NEW i \in 1 .. Top - 1 PROVE ScopeMirrored(i)'
      <4>1. ScopeMirrored(i) /\ genScopes'[i] = genScopes[i] /\ scopeStack'[i] = scopeStack[i]
        BY <2>3, <2>4, <2>5, <2>6 DEF Mirror
      <4>2. i > 2 => Owner(i - 1)' = Owner(i - 1)
        <5>1. i > 2 => i - 1 \in 1 .. Top - 1
          BY <2>3
        <5>2. QED
          BY <2>6, <5>1
      <4>3. QED
        BY <2>6, <4>1, <4>2 DEF ScopeMirrored
    <3>2. QED
      BY <2>4, <2>5, <3>1 DEF Mirror
  <2>8. Uses'
    <3>1. ASSUME NEW i \in Inner' PROVE ScopeUses(i)'
      <4>1. i \in Inner /\ i \in 1 .. Top - 1
        BY <2>16 DEF Inner
      <4>2. ScopeUses(i) /\ scopeStack'[i] = scopeStack[i]
        BY <2>3, <2>4, <4>1 DEF Uses
      <4>3. QED
        BY <2>1, <2>6, <4>1, <4>2 DEF ScopeUses, VariableIn
    <3>2. QED
      BY <2>1, <3>1 DEF Uses
  <2>9. Top' \in 1 .. Top - 1 /\ Top' <= MaxScopes
    <3>1. Top <= MaxScopes /\ MaxScopes \in Nat
      BY <2>3, BoundsAssumption DEF Running
    <3>2. t <= MaxScopes => u <= MaxScopes
      BY <2>15, <3>1
    <3>3. QED
      BY <2>16, <3>1, <3>2
  <2>10. builder' = Owner(Top - 1)
    <3>1. ScopeMirrored(Top) /\ Top > 2
      BY <2>1, <2>3 DEF Mirror
    <3>2. QED
      BY <2>2, <2>3, <3>1 DEF ScopeMirrored
  <2>11. Running'
    <3>1. builder' = Owner(Top)'
      BY <2>4, <2>6, <2>9, <2>10
    <3>2. QED
      BY <2>7, <2>8, <2>9, <3>1 DEF Running
  <2>12. builder' \in Functions
    <3>1. Top - 1 \in Inner
      BY <2>1, <2>3 DEF Inner
    <3>2. QED
      BY <2>10, <3>1 DEF Owner, ScopesInv, Nested, Bodies, Creators
  <2>13. \A d \in Open : d \in Open' \/ d = Current
    <3>1. \A i \in 2 .. Top : i \in 2 .. Top' \/ i = Top
      BY <2>16
    <3>2. \A i \in 2 .. Top' : Function(i)' = Function(i)
      BY <2>16, <2>6
    <3>3. QED
      BY <2>3, <3>1, <3>2 DEF Open, Function
  <2>14. QED
    BY <1>2, <2>1, <2>2, <2>11, <2>12, <2>13, GenClosed
<1>3. QED
  BY <1>1, <1>2

LEMMA GenFinishInv ==
  ASSUME ScopesInv, GenInv, GenFinish
  PROVE  GenInv'
<1>1. CASE UnboundTarget
  <2>1. Refuses
    BY <1>1 DEF GenFinish, Finish, Report, Refuses
  <2>2. UNCHANGED genVars
    BY <2>1 DEF GenFinish, Refuses, Refused, Walked
  <2>3. QED
    BY <2>1, <2>2, GenRefused
<1>2. CASE ~UnboundTarget
  <2>1. defs' = defs /\ status = "run" /\ status' = "done" /\ Top = 2
    BY <1>2 DEF GenFinish, Finish, InBody
  <2>2. CloseGenScope /\ builder' = builder /\ levels' = levels /\ entered' = entered
    BY <2>1 DEF GenFinish, Refused
  <2>3. \A d \in Open : d \in Open' \/ d = Current
    BY <2>1 DEF Open, Current
  <2>4. builder' \in Functions
    BY <2>2 DEF GenInv
  <2>5. QED
    BY <1>2, <2>1, <2>2, <2>3, <2>4, GenClosed
<1>3. QED
  BY <1>1, <1>2

-----------------------------------------------------------------------------
(* Declarations of functions, in both walks                                *)

(* A FunctionDef that is added, and at most the chain of one that waited.  *)
FunctionAdded(waiting, isForward, creator, chain) ==
  /\ Added(waiting, isForward, creator, chain)
  /\ IsSeq(chain) /\ creator \in Functions'
  /\ waiting \in Functions =>
       /\ Len(Chain(waiting)) = 0 /\ defs[waiting].level = Top /\ waiting \notin Bodies
       /\ IsSeq(defs'[waiting].chain) /\ Len(defs'[waiting].chain) = Top

LEMMA FunctionAddedIs ==
  ASSUME ScopesInv, status = "run", NEW waiting, NEW isForward, NEW creator, NEW chain,
         FunctionAdded(waiting, isForward, creator, chain)
  PROVE  /\ NewFunction \notin Functions /\ NewFunction # 1
         /\ Functions' = Functions \cup {NewFunction}
         /\ \A c \in Functions : SameButChain(c) /\ (c # waiting => Chain(c)' = Chain(c))
         /\ IsNew(defs'[NewFunction], isForward, creator, chain)
<1>1. /\ Added(waiting, isForward, creator, chain) /\ IsSeq(chain)
      /\ waiting \in Functions => Len(Chain(waiting)) = 0 /\ IsSeq(defs'[waiting].chain)
  BY DEF FunctionAdded
<1>2. QED
  BY <1>1, AddedIs

LEMMA LevelsAdded ==
  ASSUME ScopesInv, GenInv, status = "run", NEW waiting, NEW isForward, NEW creator, NEW chain,
         FunctionAdded(waiting, isForward, creator, chain), Len(chain) \in {0, Top},
         levels' = Append(levels, Top)
  PROVE  Levels'
<1> PICK d, t : d = NewFunction /\ t = Top
  OBVIOUS
<1>1. /\ d \notin Functions /\ d # 1 /\ Functions' = Functions \cup {d}
      /\ \A c \in Functions : SameButChain(c) /\ (c # waiting => Chain(c)' = Chain(c))
      /\ IsNew(defs'[d], isForward, creator, chain)
  BY FunctionAddedIs
<1>2. /\ Levels /\ t \in 1 .. MaxScopes /\ 1 \in Functions
  <2>1. Top \in Nat /\ Top >= 2 /\ Top <= MaxScopes
    BY TopRuns DEF GenInv, Running
  <2>2. 1 \in Functions
    BY DEF ScopesInv, Chains, Bodies
  <2>3. QED
    BY <2>1, <2>2, BoundsAssumption DEF GenInv
<1>3. /\ IsSeq(levels') /\ Len(levels') = Len(levels) + 1
      /\ \A c \in 1 .. Len(levels) : levels'[c] = levels[c]
      /\ levels'[Len(levels) + 1] = t
  BY <1>2, AppendSeq DEF Levels
<1>4. /\ \A c \in Functions : levels'[c] = levels[c]
      /\ levels'[d] = t /\ Len(levels') = Len(defs')
  BY <1>2, <1>3 DEF Levels, Functions, NewFunction, FunctionAdded, Added
<1>5. /\ defs'[d].level = t /\ Chain(d)' = chain /\ (Len(chain) > 0 => Len(chain) = t)
  <2>1. Len(chain) > 0 => Len(chain) = t
    OBVIOUS
  <2>2. QED
    BY <1>1, <2>1 DEF IsNew, Chain
<1>6. ASSUME NEW c \in Functions
      PROVE  /\ c # 1 => levels'[c] = defs'[c].level
             /\ defs'[c].level \in 1 .. MaxScopes
             /\ Len(Chain(c)') > 0 => Len(Chain(c)') = defs'[c].level
  <2>1. /\ c # 1 => levels[c] = defs[c].level
        /\ defs[c].level \in 1 .. MaxScopes
        /\ Len(Chain(c)) > 0 => Len(Chain(c)) = defs[c].level
    BY <1>2 DEF Levels
  <2>2. defs'[c].level = defs[c].level /\ levels'[c] = levels[c]
    BY <1>1, <1>4 DEF SameButChain
  <2>3. Chain(c)' = Chain(c) \/ (Len(Chain(c)') = Top /\ defs[c].level = Top)
    BY <1>1 DEF FunctionAdded, Chain
  <2>4. QED
    BY <2>1, <2>2, <2>3
<1>7. \A c \in Functions' :
        /\ c # 1 => levels'[c] = defs'[c].level
        /\ defs'[c].level \in 1 .. MaxScopes
        /\ Len(Chain(c)') > 0 => Len(Chain(c)') = defs'[c].level
  BY <1>1, <1>2, <1>4, <1>5, <1>6
<1>8. levels'[1] = 0
  BY <1>2, <1>4 DEF Levels
<1>9. QED
  BY <1>3, <1>4, <1>7, <1>8 DEF Levels

LEMMA EnteredAdded ==
  ASSUME ScopesInv, GenInv, status = "run", NEW waiting, NEW isForward, NEW creator, NEW chain,
         FunctionAdded(waiting, isForward, creator, chain), entered' = entered
  PROVE  Entered'
<1>1. /\ Functions' = Functions \cup {NewFunction}
      /\ \A c \in Functions : SameButChain(c) /\ (c # waiting => Chain(c)' = Chain(c))
  BY FunctionAddedIs
<1>2. ASSUME NEW e \in entered
      PROVE  /\ e[1] \in Functions /\ e[2] \in defs'[e[1]].calls
             /\ e[3] = Len(Chain(e[1])') - defs'[e[2]].level + 1
  <2>1. /\ e[1] \in Functions /\ e[2] \in defs[e[1]].calls
        /\ e[3] = Len(Chain(e[1])) - defs[e[2]].level + 1
    BY DEF GenInv, Entered
  <2>2. e[2] \in Functions /\ e[1] \in Bodies
    BY <2>1 DEF ScopesInv, CallsOK
  <2>3. e[1] # waiting
    BY <2>1, <2>2 DEF FunctionAdded
  <2>4. /\ Chain(e[1])' = Chain(e[1]) /\ defs'[e[1]].calls = defs[e[1]].calls
        /\ defs'[e[2]].level = defs[e[2]].level
    BY <1>1, <2>1, <2>2, <2>3 DEF SameButChain
  <2>5. QED
    BY <2>1, <2>4
<1>3. QED
  BY <1>1, <1>2 DEF Entered

LEMMA PatchedAdded ==
  ASSUME ScopesInv, GenInv, status = "run", NEW waiting, NEW isForward, NEW creator, NEW chain,
         FunctionAdded(waiting, isForward, creator, chain), patched' = patched,
         Open \subseteq Open'
  PROVE  Patched' /\ GotosPatched'
<1>1. /\ Functions' = Functions \cup {NewFunction}
      /\ \A c \in Functions : SameButChain(c)
      /\ IsNew(defs'[NewFunction], isForward, creator, chain)
  BY FunctionAddedIs
<1>2. Patched'
  BY <1>1 DEF GenInv, Patched
<1>3. ASSUME NEW c \in Functions', c \notin Open', NEW l \in defs'[c].gotos
      PROVE  <<defs'[c].creator, l, defs'[c].creator>> \in patched
  <2>1. c \in Functions
    BY <1>1, <1>3 DEF IsNew
  <2>2. c \notin Open /\ defs'[c].gotos = defs[c].gotos /\ defs'[c].creator = defs[c].creator
    BY <1>1, <1>3, <2>1 DEF SameButChain
  <2>3. QED
    BY <1>3, <2>1, <2>2 DEF GenInv, GotosPatched
<1>4. GotosPatched'
  BY <1>3 DEF GenInv, GotosPatched
<1>5. QED
  BY <1>2, <1>4

(* The first declaration of a name in a scope signs the routine; another   *)
(* finds it.                                                               *)
SignedBy(n, d, creator) ==
  \/ n \in DOMAIN Entries(Top) /\ Entries(Top)[n].entryType = "function"
       /\ Entries(Top)[n].function = creator
  \/ n \notin DOMAIN Entries(Top) /\ creator = d

LEMMA SignedIs ==
  ASSUME ScopesInv, status = "run", Running, NEW n, NEW d, NEW creator, SignedBy(n, d, creator)
  PROVE  /\ SignFault(n) = Sound
         /\ ScopeWith(genScopes[Top], Signed(genScopes, n, d), n, FunctionGenEntry(creator, Top))
         /\ Signed(genScopes, n, d).labelNames = genScopes[Top].labelNames
<1> PICK t, scope, g : t = Top /\ scope = genScopes[Top] /\ g = FunctionGenEntry(creator, t)
  OBVIOUS
<1>1. /\ GenTop = t /\ t # 1 /\ DOMAIN scope = GenFields
      /\ DOMAIN scope.locals = DOMAIN Entries(t)
      /\ \A x \in DOMAIN Entries(t) : scope.locals[x] = MirrorOf(Entries(t)[x], t, Owner(t))
  BY TopRuns DEF Running, Mirror, ScopeMirrored
<1>2. CASE n \in DOMAIN Entries(t)
  <2> PICK e, o : e = Entries(t)[n] /\ o = Owner(t)
    OBVIOUS
  <2>1. e.entryType = "function" /\ e.function = creator
    BY <1>2 DEF SignedBy
  <2>2. scope.locals[n] = MirrorOf(e, t, o)
    BY <1>1, <1>2
  <2>3. MirrorOf(e, t, o) = g
    BY <1>1, <2>1 DEF MirrorOf
  <2>4. g.kind = "function"
    BY DEF FunctionGenEntry
  <2>5. SignFault(n) = Sound
    BY <1>1, <2>2, <2>3, <2>4 DEF SignFault
  <2>6. Signed(genScopes, n, d) = scope
    BY <1>1, <1>2 DEF Signed
  <2>7. ScopeWith(scope, scope, n, g)
    BY <1>1, <1>2, <2>2, <2>3 DEF ScopeWith
  <2>8. QED
    BY <2>5, <2>6, <2>7
<1>3. CASE n \notin DOMAIN Entries(t)
  <2>1. creator = d
    BY <1>3 DEF SignedBy
  <2>2. SignFault(n) = Sound
    BY <1>1, <1>3 DEF SignFault
  <2>3. Signed(genScopes, n, d) = WithEntry(scope, n, g)
    BY <1>1, <1>3, <2>1 DEF Signed
  <2>4. /\ ScopeWith(scope, WithEntry(scope, n, g), n, g)
        /\ WithEntry(scope, n, g).labelNames = scope.labelNames
    BY <1>1, WithEntryIs
  <2>5. QED
    BY <2>2, <2>3, <2>4
<1>4. QED
  BY <1>2, <1>3

(* The scopes there were are those of ss and gs now, with the labels of    *)
(* before.                                                                 *)
KeptIn(ss, gs) ==
  /\ \A i \in 1 .. Top : gs[i].labelNames = genScopes[i].labelNames
  /\ \A i \in 1 .. Top : scopeStack'[i] = ss[i] /\ genScopes'[i] = gs[i]

(* The scopes there were mirror each other when a routine has been signed. *)
LEMMA ScopesSigned ==
  ASSUME ScopesInv, status = "run", Running,
         NEW waiting, NEW isForward, NEW creator, NEW chain,
         FunctionAdded(waiting, isForward, creator, chain),
         NEW n, NEW e, e.entryType = "function", e.function = creator,
         NEW ss, Writes(ss, n, e), SameLabelNames(ss),
         NEW gs, GenWrites(gs, n, FunctionGenEntry(creator, Top)), KeptIn(ss, gs)
  PROVE  \A i \in 1 .. Top : /\ ScopeMirrored(i)'
                             /\ Function(i)' = Function(i)
                             /\ i # 1 => Owner(i)' = Owner(i)
<1> PICK t, g : t = Top /\ g = FunctionGenEntry(creator, t)
  OBVIOUS
<1> USE DEF KeptIn
<1>1. /\ t \in Nat /\ t >= 2 /\ t \in 2 .. t
      /\ \A i \in 1 .. t : i # 1 => i \in 2 .. t
      /\ \A i \in 1 .. t : i > 2 => i - 1 \in 1 .. t /\ i - 1 # 1
  BY TopRuns
<1>2. \A i \in 1 .. t : Function(i)' = Function(i)
  BY DEF Writes, Function
<1>3. ASSUME NEW i \in 2 .. t PROVE Owner(i)' = Owner(i)
  <2>1. Function(i) \in Functions /\ i \in 1 .. t
    BY <1>1 DEF ScopesInv, Nested, Inner, Bodies
  <2>2. \A c \in Functions : defs'[c].creator = defs[c].creator
    BY FunctionAddedIs DEF SameButChain
  <2>3. defs'[Function(i)].creator = Owner(i) /\ Function(i)' = Function(i)
    BY <1>2, <2>1, <2>2 DEF Owner
  <2>4. QED
    BY <2>3 DEF Owner
<1>4. \A i \in 1 .. t : i # 1 => Owner(i)' = Owner(i)
  BY <1>1, <1>3
<1>5. ASSUME NEW o PROVE MirrorOf(e, t, o) = g
  BY <1>1 DEF MirrorOf
<1>6. ASSUME NEW i \in 1 .. t PROVE ScopeMirrored(i)'
  <2>1. ScopeMirrored(i)
    BY DEF Running, Mirror
  <2>2. i > 2 => Owner(i - 1)' = Owner(i - 1)
    BY <1>1, <1>4
  <2>3. /\ DOMAIN gs[i] = GenFields
        /\ gs[i].function = genScopes[i].function /\ gs[i].parentBB = genScopes[i].parentBB
        /\ DOMAIN gs[i].locals = DOMAIN genScopes[i].locals \cup (IF i = t THEN {n} ELSE {})
        /\ \A m \in DOMAIN gs[i].locals :
             gs[i].locals[m] = IF i = t /\ m = n THEN g ELSE genScopes[i].locals[m]
    BY DEF GenWrites
  <2>4. /\ DOMAIN ss[i].levelEntries = DOMAIN Entries(i) \cup (IF i = t THEN {n} ELSE {})
        /\ \A m \in DOMAIN ss[i].levelEntries :
             ss[i].levelEntries[m] = IF i = t /\ m = n THEN e ELSE Entries(i)[m]
    BY DEF Writes
  <2>5. /\ genScopes'[i] = gs[i] /\ Entries(i)' = ss[i].levelEntries
        /\ scopeStack'[i].labelNames = gs[i].labelNames
    BY <2>1 DEF SameLabelNames, ScopeMirrored, Entries
  <2>6. DOMAIN gs[i].locals = DOMAIN ss[i].levelEntries
    BY <2>1, <2>3, <2>4 DEF ScopeMirrored
  <2>7. ASSUME NEW m \in DOMAIN ss[i].levelEntries
        PROVE  gs[i].locals[m] = MirrorOf(ss[i].levelEntries[m], i, Owner(i)')
    <3>1. CASE i = t /\ m = n
      <4>1. ss[i].levelEntries[m] = e /\ gs[i].locals[m] = g
        BY <2>3, <2>4, <2>6, <3>1
      <4>2. MirrorOf(e, t, Owner(i)') = g
        BY <1>5
      <4>3. QED
        BY <3>1, <4>1, <4>2
    <3>2. CASE ~(i = t /\ m = n)
      <4>1. /\ m \in DOMAIN Entries(i) /\ ss[i].levelEntries[m] = Entries(i)[m]
            /\ gs[i].locals[m] = genScopes[i].locals[m]
        BY <2>3, <2>4, <2>6, <3>2
      <4>2. genScopes[i].locals[m] = MirrorOf(Entries(i)[m], i, Owner(i))
        BY <2>1, <4>1 DEF ScopeMirrored
      <4>3. MirrorOf(Entries(i)[m], i, Owner(i)') = MirrorOf(Entries(i)[m], i, Owner(i))
        <5>1. CASE i = 1
          BY <4>1, <5>1, LibraryMirror
        <5>2. CASE i # 1
          BY <1>4, <5>2
        <5>3. QED
          BY <5>1, <5>2
      <4>4. QED
        BY <4>1, <4>2, <4>3
    <3>3. QED
      BY <3>1, <3>2
  <2>8. gs[i].function = Function(i)' /\ (i > 2 => gs[i].parentBB = Owner(i - 1)')
    BY <1>2, <2>1, <2>2, <2>3 DEF ScopeMirrored
  <2>9. QED
    BY <2>3, <2>5, <2>6, <2>7, <2>8 DEF ScopeMirrored
<1>7. QED
  BY <1>2, <1>4, <1>6

(* Their variables stay.  e is written where no variable was.              *)
LEMMA UsesAdded ==
  ASSUME ScopesInv, status = "run", Running,
         NEW waiting, NEW isForward, NEW creator, NEW chain,
         FunctionAdded(waiting, isForward, creator, chain),
         NEW n, NEW e, e.entryType = "function", ~VariableIn(Top, n), n # "result",
         NEW ss, Writes(ss, n, e), SameLabelNames(ss),
         \A i \in 1 .. Top : ss[i].body = scopeStack[i].body,
         \A i \in 1 .. Top : scopeStack'[i] = ss[i]
  PROVE  \A i \in Inner : ScopeUses(i)'
<1> PICK t : t = Top
  OBVIOUS
<1>1. ASSUME NEW i \in Inner PROVE ScopeUses(i)'
  <2>1. i \in 1 .. t /\ Function(i) \in Functions
    BY TopRuns DEF ScopesInv, Nested, Inner, Bodies
  <2>2. ScopeUses(i)
    BY DEF Running, Uses
  <2> PICK f : f = Function(i)
    OBVIOUS
  <2>3. Function(i)' = f
    BY <2>1 DEF Writes, Function
  <2>4. defs'[f].requests = defs[f].requests /\ defs'[f].provides = defs[f].provides
    BY <2>1, FunctionAddedIs DEF SameButChain
  <2>5. Entries(i)' = ss[i].levelEntries
    BY <2>1 DEF Entries
  <2>6. /\ DOMAIN ss[i].levelEntries = DOMAIN Entries(i) \cup (IF i = t THEN {n} ELSE {})
        /\ \A m \in DOMAIN ss[i].levelEntries :
             ss[i].levelEntries[m] = IF i = t /\ m = n THEN e ELSE Entries(i)[m]
    BY <2>1 DEF Writes
  <2>7. ASSUME NEW x PROVE VariableIn(i, x)' <=> VariableIn(i, x)
    <3>1. CASE i = t /\ x = n
      BY <2>5, <2>6, <3>1 DEF VariableIn
    <3>2. CASE ~(i = t /\ x = n)
      BY <2>5, <2>6, <3>2 DEF VariableIn
    <3>3. QED
      BY <3>1, <3>2
  <2>8. "result" \in DOMAIN Entries(i)' => VariableIn(i, "result")'
    <3>1. "result" \in DOMAIN Entries(i)' => "result" \in DOMAIN Entries(i)
      BY <2>5, <2>6
    <3>2. QED
      BY <2>2, <2>7, <3>1 DEF ScopeUses
  <2>9. /\ scopeStack'[i].body = scopeStack[i].body
        /\ scopeStack'[i].labelNames = scopeStack[i].labelNames
    BY <2>1 DEF SameLabelNames
  <2>10. \A x \in DOMAIN defs'[f].requests : scopeStack'[i].body /\ ~VariableIn(i, x)'
    BY <2>2, <2>4, <2>7, <2>9 DEF ScopeUses
  <2>11. ASSUME NEW k \in 1 .. Len(defs'[f].provides) PROVE VariableIn(i, defs[f].provides[k])'
    <3> PICK x : x = defs[f].provides[k]
      OBVIOUS
    <3>1. VariableIn(i, x)
      BY <2>2, <2>4 DEF ScopeUses
    <3>2. VariableIn(i, x)'
      BY <2>7, <3>1
    <3>3. QED
      BY <2>4, <3>2 DEF VariableIn
  <2>12. \A k \in 1 .. Len(scopeStack'[i].labelNames) : scopeStack'[i].labelNames[k] \in LabelNames
    BY <2>2, <2>9 DEF ScopeUses
  <2>13. QED
    BY <2>3, <2>4, <2>8, <2>10, <2>11, <2>12 DEF ScopeUses
<1>2. QED
  BY <1>1

(* The creator of a FunctionDef named n. *)
CreatorOf(n) == IF Pending(n) THEN Entries(Top)[n].function ELSE NewFunction

LEMMA CreatorIs ==
  ASSUME ScopesInv, status = "run", NEW n, Pending(n) \/ n \notin DOMAIN Entries(Top)
  PROVE  /\ SignedBy(n, NewFunction, CreatorOf(n)) /\ ~VariableIn(Top, n)
         /\ Pending(n) => /\ CreatorOf(n) \in Functions \ {1} /\ CreatorOf(n) \notin Bodies
                          /\ defs[CreatorOf(n)].level = Top /\ Len(Chain(CreatorOf(n))) = 0
                          /\ EntryShape(Entries(Top)[n]) /\ n \in DOMAIN Entries(Top)
                          /\ Entries(Top)[n].entryType = "function"
         /\ ~Pending(n) => CreatorOf(n) = NewFunction
<1>1. CASE Pending(n)
  <2>1. CreatorOf(n) = Entries(Top)[n].function
    BY <1>1 DEF CreatorOf
  <2>2. /\ EntryShape(Entries(Top)[n]) /\ n \in DOMAIN Entries(Top)
        /\ CreatorOf(n) \in Functions \ {1} /\ CreatorOf(n) \notin Bodies
        /\ defs[CreatorOf(n)].level = Top /\ Len(Chain(CreatorOf(n))) = 0
    BY <1>1, <2>1, PendingIs
  <2>3. Entries(Top)[n].entryType = "function"
    BY <1>1 DEF Pending
  <2>4. QED
    BY <1>1, <2>1, <2>2, <2>3 DEF SignedBy, VariableIn
<1>2. CASE ~Pending(n)
  BY <1>2 DEF CreatorOf, SignedBy, VariableIn
<1>3. QED
  BY <1>1, <1>2

(* What DeclareForward does, when it accepts the declaration. *)
LEMMA ForwardAdds ==
  ASSUME ScopesInv, NEW n, NEW h, DeclareForward(n, h), FunctionAccepted(n, h)
  PROVE  \E e : /\ e.entryType = "function" /\ e.function = CreatorOf(n)
                /\ Writes(scopeStack', n, e) /\ SameLabelNames(scopeStack')
                /\ \A i \in 1 .. Top : scopeStack'[i].body = scopeStack[i].body
                /\ FunctionAdded(NoFunction, TRUE, CreatorOf(n), << >>)
<1> PICK d, g : d = NewFunction /\ g = CreatorOf(n)
  OBVIOUS
<1>0. PICK made, nd, e : /\ made = FunctionEntry(d, "pending", h)
                         /\ nd = NewDef(h, TRUE, g, << >>)
                         /\ e = IF Pending(n) THEN Entries(Top)[n] ELSE made
  OBVIOUS
<1>1. /\ scopeStack' = AddEntry(n, made) /\ defs' = Append(defs, nd) /\ status = "run"
  BY <1>0 DEF DeclareForward, Declaring, NewFunction, CreatorOf
<1>2. /\ Shape /\ Top \in Nat /\ Top >= 2
      /\ Pending(n) \/ n \notin DOMAIN Entries(Top)
  BY <1>1, TopRuns DEF FunctionAccepted
<1>3. /\ Pending(n) => g \in Functions /\ n \in DOMAIN Entries(Top) /\ e = Entries(Top)[n]
                       /\ Entries(Top)[n].entryType = "function"
      /\ ~Pending(n) => g = d /\ n \notin DOMAIN Entries(Top) /\ e = made
  BY <1>0, <1>1, <1>2, CreatorIs
<1>4. made.entryType = "function" /\ made.function = d
  BY <1>0 DEF FunctionEntry
<1>5. e.entryType = "function" /\ e.function = g
  BY <1>3, <1>4 DEF CreatorOf
<1>6. /\ Writes(scopeStack', n, e) /\ SameLabelNames(scopeStack')
      /\ \A i \in 1 .. Top : scopeStack'[i].body = scopeStack[i].body
  <2>1. CASE Pending(n)
    <3> DEFINE es == Insert(Entries(Top), n, made)
    <3>1. DOMAIN es = DOMAIN Entries(Top) \cup {n}
      BY DEF Insert
    <3>2. \A m \in DOMAIN es : es[m] = IF m = n THEN e ELSE Entries(Top)[m]
      BY <1>3, <2>1 DEF Insert
    <3>3. scopeStack' = Retabled(es)
      BY <1>1 DEF AddEntry, Entries, Retabled
    <3> PICK table : table = es
      OBVIOUS
    <3> HIDE DEF es
    <3>4. /\ Shape /\ Top >= 1 /\ DOMAIN table = DOMAIN Entries(Top) \cup {n}
          /\ \A m \in DOMAIN table : table[m] = IF m = n THEN e ELSE Entries(Top)[m]
          /\ scopeStack' = Retabled(table)
      BY <1>2, <3>1, <3>2, <3>3
    <3>5. QED
      BY <3>4, TableWritten
  <2>2. CASE ~Pending(n)
    BY <1>1, <1>2, <1>3, <2>2, AddEntryWrites
  <2>3. QED
    BY <2>1, <2>2
<1>7. Added(NoFunction, TRUE, g, << >>)
  <2>1. IsSeq(defs) /\ \A c \in Functions : DOMAIN defs[c] = DefFields
    BY <1>2 DEF Shape
  <2>2. /\ IsSeq(Append(defs, nd)) /\ Len(Append(defs, nd)) = Len(defs) + 1
        /\ \A c \in 1 .. Len(defs) : Append(defs, nd)[c] = defs[c]
        /\ Append(defs, nd)[Len(defs) + 1] = nd
    BY <2>1, AppendSeq
  <2>3. IsNew(nd, TRUE, g, << >>)
    BY <1>0, NewDefIs
  <2>4. QED
    BY <1>1, <2>1, <2>2, <2>3 DEF Added, Functions, NewFunction
<1>8. IsSeq(<< >>) /\ NoFunction \notin Functions
  BY DEF IsSeq, NoFunction, Functions
<1>9. Functions' = Functions \cup {d}
  BY <1>1, <1>7, <1>8, AddedIs
<1>10. FunctionAdded(NoFunction, TRUE, g, << >>)
  BY <1>3, <1>7, <1>8, <1>9 DEF FunctionAdded
<1>11. QED
  BY <1>5, <1>6, <1>10

LEMMA GenForwardInv ==
  ASSUME ScopesInv, GenInv, NEW n \in FunctionNames, NEW h, GenForward(n, h)
  PROVE  GenInv'
<1>1. CASE ~FunctionAccepted(n, h)
  <2>1. Refuses
    BY <1>1 DEF GenForward, DeclareForward, Report, Refuses
  <2>2. UNCHANGED genVars
    BY <2>1 DEF GenForward, Refuses, Refused, Walked
  <2>3. QED
    BY <2>1, <2>2, GenRefused
<1>2. CASE FunctionAccepted(n, h)
  <2> PICK d, t, c : d = NewFunction /\ t = Top /\ c = CreatorOf(n)
    OBVIOUS
  <2>1. /\ DeclareForward(n, h) /\ status' = status /\ status = "run"
        /\ todo' = << >>
    BY <1>2 DEF GenForward, DeclareForward, Declaring
  <2>2. /\ Faulty(SignFault(n))
        /\ genScopes' = Updated(genScopes, GenTop, Signed(genScopes, n, d))
        /\ levels' = Append(levels, GenTop)
        /\ builder' = builder /\ entered' = entered /\ patched' = patched
    BY <2>1 DEF GenForward, Refused, NewFunction, Updated
  <2>3. /\ Running /\ GenTop = t /\ t \in Nat /\ t >= 2 /\ fault = Sound
    BY <2>1, TopRuns DEF GenInv, Running, Mirror
  <2>4. PICK e : /\ e.entryType = "function" /\ e.function = c
                 /\ Writes(scopeStack', n, e) /\ SameLabelNames(scopeStack')
                 /\ \A i \in 1 .. Top : scopeStack'[i].body = scopeStack[i].body
                 /\ FunctionAdded(NoFunction, TRUE, c, << >>)
    BY <1>2, <2>1, ForwardAdds
  <2>5. SignedBy(n, d, c) /\ ~VariableIn(t, n)
    <3>1. Pending(n) \/ n \notin DOMAIN Entries(Top)
      BY <1>2 DEF FunctionAccepted
    <3>2. QED
      BY <2>1, <3>1, CreatorIs
  <2> PICK new, g : new = Signed(genScopes, n, d) /\ g = FunctionGenEntry(c, t)
    OBVIOUS
  <2>6. /\ SignFault(n) = Sound /\ ScopeWith(genScopes[t], new, n, g)
        /\ new.labelNames = genScopes[t].labelNames
    BY <2>1, <2>3, <2>5, SignedIs
  <2>7. /\ GenWrites(genScopes', n, g)
        /\ \A i \in 1 .. Top : genScopes'[i].labelNames = genScopes[i].labelNames
    <3>1. /\ GenWrites(genScopes', n, g) /\ genScopes'[Top] = new
          /\ \A i \in 1 .. Top : i # Top => genScopes'[i] = genScopes[i]
      BY <2>2, <2>3, <2>6, GenWritten DEF Running
    <3>2. QED
      BY <2>6, <3>1
  <2>8. \A i \in 1 .. Top : /\ ScopeMirrored(i)' /\ Function(i)' = Function(i)
                            /\ i # 1 => Owner(i)' = Owner(i)
    <3> PICK ss, gs : ss = scopeStack' /\ gs = genScopes'
      OBVIOUS
    <3>1. /\ Writes(ss, n, e) /\ SameLabelNames(ss) /\ GenWrites(gs, n, g)
          /\ KeptIn(ss, gs)
      BY <2>4, <2>7 DEF KeptIn
    <3>2. QED
      BY <2>1, <2>3, <2>4, <3>1, ScopesSigned
  <2>9. \A i \in Inner : ScopeUses(i)'
    <3> PICK ss : ss = scopeStack'
      OBVIOUS
    <3>1. /\ Writes(ss, n, e) /\ SameLabelNames(ss)
          /\ \A i \in 1 .. Top : ss[i].body = scopeStack[i].body
          /\ \A i \in 1 .. Top : scopeStack'[i] = ss[i]
      BY <2>4
    <3>2. n # "result"
      BY NamesAssumption
    <3>3. QED
      BY <2>1, <2>3, <2>4, <2>5, <3>1, <3>2, UsesAdded
  <2>10. Top' = t /\ GenTop' = t /\ Inner' = Inner /\ IsSeq(genScopes')
    BY <2>4, <2>7 DEF Writes, GenWrites, Top, GenTop, Inner
  <2>11. builder' = Owner(Top)'
    <3>1. t \in 1 .. t /\ t # 1
      BY <2>3
    <3>2. builder = Owner(t)
      BY <2>3 DEF Running
    <3>3. QED
      BY <2>2, <2>8, <2>10, <3>1, <3>2
  <2>12. Running'
    <3>1. Mirror'
      BY <2>8, <2>10 DEF Mirror
    <3>2. Uses'
      BY <2>1, <2>9, <2>10 DEF Uses
    <3>3. QED
      BY <2>3, <2>10, <2>11, <3>1, <3>2 DEF Running
  <2>13. Levels' /\ Entered'
    <3>1. Len(<< >>) \in {0, Top} /\ levels' = Append(levels, Top)
      BY <2>2, <2>3
    <3>2. QED
      BY <2>1, <2>2, <2>4, <3>1, LevelsAdded, EnteredAdded
  <2>14. Patched' /\ GotosPatched'
    <3>1. Open' = Open
      <4>1. Open = { Function(i) : i \in Inner } /\ Open' = { Function(i)' : i \in Inner' }
        BY DEF Open, Function, Inner
      <4>2. \A i \in Inner : i \in 1 .. Top
        BY <2>3 DEF Inner
      <4>3. QED
        BY <2>8, <2>10, <4>1, <4>2
    <3>2. QED
      BY <2>1, <2>2, <2>4, <3>1, PatchedAdded
  <2>15. builder' \in Functions' /\ fault' = Sound
    <3>1. Functions' = Functions \cup {NewFunction}
      BY <2>1, <2>4, FunctionAddedIs
    <3>2. QED
      BY <2>2, <2>3, <2>6, <3>1 DEF GenInv, Faulty
  <2>16. QED
    BY <2>12, <2>13, <2>14, <2>15 DEF GenInv
<1>3. QED
  BY <1>1, <1>2

(* What DefineFunction does, when it accepts the definition: e is written  *)
(* into the innermost scope, and a scope is opened.                        *)
Defines(n, h, e, ss, waiting, chain) ==
  /\ e.entryType = "function" /\ e.function = CreatorOf(n)
  /\ Writes(ss, n, e) /\ SameLabelNames(ss)
  /\ \A i \in 1 .. Top : ss[i].body = scopeStack[i].body
  /\ IsSeq(scopeStack') /\ Top' = Top + 1
  /\ \A i \in 1 .. Top : scopeStack'[i] = ss[i]
  /\ scopeStack'[Top + 1] = FunctionScope(NewFunction, h)
  /\ FunctionAdded(waiting, FALSE, CreatorOf(n), chain) /\ Len(chain) = Top

LEMMA DefineAdds ==
  ASSUME ScopesInv, NEW n, NEW h, DefineFunction(n, h), FunctionAccepted(n, h),
         IsInjective(ParameterNames(h))
  PROVE  \E e, ss, waiting, chain : Defines(n, h, e, ss, waiting, chain)
<1> PICK d, g, t, parents : d = NewFunction /\ g = CreatorOf(n) /\ t = Top /\ parents = defs[Current].chain
  OBVIOUS
<1>0. PICK forward, chain, e :
        /\ forward = IF Pending(n) THEN Entries(Top)[n].function ELSE NoFunction
        /\ chain = Append(parents, d)
        /\ e = IF Pending(n) THEN [Entries(Top)[n] EXCEPT !.pardef = "complete"]
               ELSE FunctionEntry(d, "complete", h)
  OBVIOUS
<1>1. PICK ss, scope : /\ ss = SetEntry(n, e) /\ scope = FunctionScope(d, h)
  OBVIOUS
<1>2. /\ scopeStack' = Append(ss, scope)
      /\ defs' = WithDefinition(forward, parents, h, g)
      /\ status = "run"
  BY <1>0, <1>1
     DEF DefineFunction, Declaring, NewFunction, CreatorOf, WithDefinition, WithChain
<1>3. /\ Shape /\ t \in Nat /\ t >= 2 /\ IsSeq(parents) /\ Len(parents) = t - 1
      /\ Pending(n) \/ n \notin DOMAIN Entries(Top)
  BY <1>2, TopRuns DEF FunctionAccepted, Shape, Chain
<1>4. Pending(n) => /\ g \in Functions \ {1} /\ g \notin Bodies /\ defs[g].level = t
                    /\ Len(Chain(g)) = 0 /\ EntryShape(Entries(Top)[n])
                    /\ Entries(Top)[n].entryType = "function" /\ Entries(Top)[n].function = g
  BY <1>2, <1>3, CreatorIs DEF CreatorOf
<1>5. e.entryType = "function" /\ e.function = g
  <2>1. CASE Pending(n)
    <3> PICK old : old = Entries(Top)[n]
      OBVIOUS
    <3>1. /\ DOMAIN old = {"entryType", "function", "pardef", "header"}
          /\ old.entryType = "function" /\ old.function = g
      BY <1>4, <2>1 DEF EntryShape
    <3>2. e = [old EXCEPT !.pardef = "complete"]
      BY <1>0, <2>1
    <3>3. QED
      BY <3>1, <3>2
  <2>2. CASE ~Pending(n)
    BY <1>0, <2>2 DEF FunctionEntry, CreatorOf
  <2>3. QED
    BY <2>1, <2>2
<1>6. /\ Writes(ss, n, e) /\ SameLabelNames(ss)
      /\ \A i \in 1 .. Top : ss[i].body = scopeStack[i].body
  <2>1. Shape /\ Top >= 1
    BY <1>3
  <2>2. QED
    BY <1>1, <2>1, SetEntryWrites
<1>7. /\ IsSeq(scopeStack') /\ Top' = t + 1
      /\ \A i \in 1 .. t : scopeStack'[i] = ss[i]
      /\ scopeStack'[t + 1] = scope
  <2>1. IsSeq(ss) /\ Len(ss) = t
    BY <1>6 DEF Writes
  <2>2. /\ IsSeq(Append(ss, scope)) /\ Len(Append(ss, scope)) = t + 1
        /\ \A i \in 1 .. t : Append(ss, scope)[i] = ss[i]
        /\ Append(ss, scope)[t + 1] = scope
    BY <2>1, AppendSeq
  <2>3. QED
    BY <1>2, <2>2 DEF Top
<1>8. forward = NoFunction \/ (forward \in Functions /\ forward = g /\ Pending(n))
  BY <1>0, <1>4
<1>9. /\ Added(forward, FALSE, g, chain)
      /\ forward # NoFunction => defs'[forward].chain = Append(parents, forward)
  <2>1. status = "run" /\ IsSeq(parents) /\ (forward = NoFunction \/ forward \in Functions)
    BY <1>2, <1>3, <1>8
  <2>2. /\ Added(forward, FALSE, g, Append(parents, NewFunction))
        /\ forward # NoFunction => defs'[forward].chain = Append(parents, forward)
    BY <1>2, <2>1, DefinitionAdded, ZenonT(30)
  <2>3. QED
    BY <1>0, <2>2
<1>10. \A c : IsSeq(Append(parents, c)) /\ Len(Append(parents, c)) = t
  <2>1. ASSUME NEW c PROVE IsSeq(Append(parents, c)) /\ Len(Append(parents, c)) = Len(parents) + 1
    BY <1>3, AppendSeq
  <2>2. Len(parents) + 1 = t
    BY <1>3
  <2>3. QED
    BY <2>1, <2>2
<1>11. NoFunction \notin Functions
  BY DEF NoFunction, Functions
<1>12. forward \in Functions =>
         /\ Len(Chain(forward)) = 0 /\ defs[forward].level = t /\ forward \notin Bodies
         /\ IsSeq(defs'[forward].chain) /\ Len(defs'[forward].chain) = t
  BY <1>4, <1>8, <1>9, <1>10, <1>11
<1>13. IsSeq(chain) /\ Len(chain) = t
  BY <1>0, <1>10
<1>14. g \in Functions'
  <2>1. Functions' = Functions \cup {NewFunction}
    <3>1. forward \in Functions => Len(Chain(forward)) = 0 /\ IsSeq(defs'[forward].chain)
      BY <1>12
    <3>2. QED
      BY <1>2, <1>9, <1>13, <3>1, AddedIs
  <2>2. ~Pending(n) => g = NewFunction
    BY DEF CreatorOf
  <2>3. QED
    BY <1>4, <2>1, <2>2
<1>15. FunctionAdded(forward, FALSE, g, chain)
  BY <1>9, <1>12, <1>13, <1>14 DEF FunctionAdded
<1>16. Defines(n, h, e, ss, forward, chain)
  BY <1>1, <1>5, <1>6, <1>7, <1>13, <1>15 DEF Defines
<1>17. QED
  BY <1>16

(* The scope GenDefine opens. *)
OpenedScope(d, parentBB, h, routine) ==
  [OpenGenScope(d, parentBB) EXCEPT !.locals =
     [x \in ToSet(Prologue(h)) |-> VariableGenEntry(routine)]]

(* The scope a routine opens mirrors the one the first walk opened.        *)
LEMMA ScopeOpened ==
  ASSUME ScopesInv, status = "run", NEW h \in Headers, IsInjective(ParameterNames(h)),
         NEW waiting, NEW creator, NEW chain, FunctionAdded(waiting, FALSE, creator, chain),
         NEW t \in Nat, t >= 2, Function(t) \in Functions, builder = Owner(t),
         scopeStack'[t + 1] = FunctionScope(NewFunction, h), Function(t)' = Function(t),
         genScopes'[t + 1] = OpenedScope(NewFunction, builder, h, creator)
  PROVE  /\ ScopeMirrored(t + 1)' /\ ScopeUses(t + 1)' /\ Owner(t + 1)' = creator
<1> PICK d, scope, i : d = NewFunction /\ scope = FunctionScope(NewFunction, h) /\ i = t + 1
  OBVIOUS
<1>1. PICK locals : locals = [x \in ToSet(Prologue(h)) |-> VariableGenEntry(creator)]
  OBVIOUS
<1>2. /\ DOMAIN scope = {"function", "levelEntries", "labelNames", "body"}
      /\ scope.function = d /\ scope.labelNames = << >>
      /\ \A x \in DOMAIN scope.levelEntries : scope.levelEntries[x].entryType = "variable"
  BY FunctionScopeIs
<1>3. /\ DOMAIN locals = DOMAIN scope.levelEntries
      /\ \A x \in DOMAIN locals : locals[x] = VariableGenEntry(creator)
  <2>1. ToSet(Prologue(h)) = DOMAIN scope.levelEntries
    BY PrologueIs
  <2>2. QED
    BY <1>1, <2>1
<1>4. genScopes'[i] = [function |-> d, locals |-> locals, labelNames |-> << >>, parentBB |-> builder]
  BY <1>1 DEF OpenGenScope, OpenedScope
<1>5. /\ DOMAIN genScopes'[i] = GenFields /\ genScopes'[i].function = d
      /\ genScopes'[i].locals = locals /\ genScopes'[i].labelNames = << >>
      /\ genScopes'[i].parentBB = builder
  BY <1>4 DEF GenFields
<1>6. scopeStack'[i] = scope /\ Function(i)' = d /\ Entries(i)' = scope.levelEntries
  BY <1>2 DEF Function, Entries
<1>7. /\ IsNew(defs'[d], FALSE, creator, chain)
      /\ \A c \in Functions : defs'[c].creator = defs[c].creator
  BY FunctionAddedIs DEF SameButChain
<1>8. Owner(i)' = creator
  BY <1>6, <1>7 DEF Owner, IsNew
<1>9. builder = Owner(t)'
  BY <1>7 DEF Owner
<1>10. ScopeMirrored(i)'
  <2>1. i - 1 = t
    OBVIOUS
  <2>2. ASSUME NEW x \in DOMAIN scope.levelEntries
        PROVE  locals[x] = MirrorOf(scope.levelEntries[x], i, Owner(i)')
    <3>1. locals[x] = VariableGenEntry(creator) /\ scope.levelEntries[x].entryType = "variable"
      BY <1>2, <1>3
    <3>2. MirrorOf(scope.levelEntries[x], i, Owner(i)') = VariableGenEntry(Owner(i)')
      BY <3>1 DEF MirrorOf
    <3>3. QED
      BY <1>8, <3>1, <3>2
  <2>3. genScopes'[i].labelNames = scopeStack'[i].labelNames
    BY <1>2, <1>5, <1>6
  <2>4. genScopes'[i].parentBB = Owner(i - 1)'
    BY <1>5, <1>9, <2>1
  <2>5. QED
    BY <1>3, <1>5, <1>6, <2>2, <2>3, <2>4 DEF ScopeMirrored
<1>11. ScopeUses(i)'
  <2>1. defs'[d].requests = << >> /\ defs'[d].provides = << >> /\ scopeStack'[i].labelNames = << >>
    BY <1>2, <1>6, <1>7 DEF IsNew
  <2>2. DOMAIN << >> = {} /\ 1 .. Len(<< >>) = {}
    OBVIOUS
  <2>3. "result" \in DOMAIN Entries(i)' => VariableIn(i, "result")'
    BY <1>2, <1>6 DEF VariableIn
  <2>4. QED
    BY <1>6, <2>1, <2>2, <2>3 DEF ScopeUses
<1>12. QED
  BY <1>8, <1>10, <1>11

LEMMA GenDefineIs ==
  ASSUME NEW n, NEW h, GenDefine(n, h)
  PROVE  /\ DefineFunction(n, h)
         /\ \/ Refused
            \/ /\ Walked
               /\ Faulty(IF IsInjective(Prologue(h)) THEN SignFault(n) ELSE "double entry")
               /\ genScopes' =
                    Append(Updated(genScopes, GenTop, Signed(genScopes, n, NewFunction)),
                           OpenedScope(NewFunction, builder, h,
                                       Signed(genScopes, n, NewFunction).locals[n].of))
               /\ builder' = Signed(genScopes, n, NewFunction).locals[n].of
               /\ levels' = Append(levels, GenTop)
               /\ UNCHANGED <<entered, patched>>
BY Zenon DEF GenDefine, NewFunction, Updated, OpenedScope

LEMMA GenDefineInv ==
  ASSUME ScopesInv, GenInv, NEW n \in FunctionNames, NEW h \in Headers, GenDefine(n, h)
  PROVE  GenInv'
<1>0. DefineFunction(n, h) /\ (Refused \/ Walked)
  BY GenDefineIs, Zenon
<1>1. CASE ~(FunctionAccepted(n, h) /\ IsInjective(ParameterNames(h)))
  <2>1. Refuses
    BY <1>0, <1>1 DEF DefineFunction, Report, Refuses
  <2>2. UNCHANGED genVars
    BY <1>0, <2>1 DEF Refuses, Refused, Walked
  <2>3. QED
    BY <2>1, <2>2, GenRefused
<1>2. CASE FunctionAccepted(n, h) /\ IsInjective(ParameterNames(h))
  <2> PICK d, t, c : d = NewFunction /\ t = Top /\ c = CreatorOf(n)
    OBVIOUS
  <2>1. /\ DefineFunction(n, h) /\ status' = status /\ status = "run" /\ t < MaxScopes
        /\ todo' = << >>
    <3>1. /\ UNCHANGED <<todo, status>> /\ Declaring /\ Top < MaxScopes
      BY <1>0, <1>2, Zenon DEF DefineFunction
    <3>2. QED
      BY <1>0, <3>1 DEF Declaring
  <2>2. /\ Running /\ GenTop = t /\ t \in Nat /\ t >= 2 /\ fault = Sound
        /\ builder = Owner(t) /\ IsSeq(genScopes)
    BY <2>1, TopRuns DEF GenInv, Running, Mirror
  <2>3. PICK e, ss, waiting, chain : Defines(n, h, e, ss, waiting, chain)
    BY <1>2, <2>1, DefineAdds
  <2>4. /\ e.entryType = "function" /\ e.function = c
        /\ Writes(ss, n, e) /\ SameLabelNames(ss)
        /\ \A i \in 1 .. Top : ss[i].body = scopeStack[i].body
        /\ IsSeq(scopeStack') /\ Top' = t + 1
        /\ \A i \in 1 .. Top : scopeStack'[i] = ss[i]
        /\ scopeStack'[t + 1] = FunctionScope(NewFunction, h)
        /\ FunctionAdded(waiting, FALSE, c, chain) /\ Len(chain) = Top
    BY <2>3 DEF Defines
  <2>5. SignedBy(n, d, c) /\ ~VariableIn(t, n)
    <3>1. Pending(n) \/ n \notin DOMAIN Entries(Top)
      BY <1>2 DEF FunctionAccepted
    <3>2. QED
      BY <2>1, <3>1, CreatorIs
  <2> PICK new, g : new = Signed(genScopes, n, d) /\ g = FunctionGenEntry(c, t)
    OBVIOUS
  <2>6. /\ SignFault(n) = Sound /\ ScopeWith(genScopes[t], new, n, g)
        /\ new.labelNames = genScopes[t].labelNames
    BY <2>1, <2>2, <2>5, SignedIs
  <2>7. new.locals[n].of = c
    BY <2>6 DEF ScopeWith, FunctionGenEntry
  <2>26. PICK gs, opened :
           /\ gs = Updated(genScopes, t, new)
           /\ opened = OpenedScope(NewFunction, builder, h, c)
    OBVIOUS
  <2>27. /\ Faulty(IF IsInjective(Prologue(h)) THEN SignFault(n) ELSE "double entry")
         /\ genScopes' =
              Append(Updated(genScopes, GenTop, Signed(genScopes, n, NewFunction)),
                     OpenedScope(NewFunction, builder, h,
                                 Signed(genScopes, n, NewFunction).locals[n].of))
         /\ builder' = Signed(genScopes, n, NewFunction).locals[n].of
         /\ levels' = Append(levels, GenTop)
         /\ UNCHANGED <<entered, patched>>
    <3>1. ~Refused
      BY <2>1 DEF Refused
    <3>2. QED
      BY <3>1, GenDefineIs, Zenon
  <2>8. /\ genScopes' = Append(gs, opened) /\ builder' = c
        /\ levels' = Append(levels, Top) /\ entered' = entered /\ patched' = patched
    BY <2>2, <2>7, <2>26, <2>27, Zenon
  <2>9. /\ GenWrites(gs, n, g)
        /\ \A i \in 1 .. Top : gs[i].labelNames = genScopes[i].labelNames
    <3>1. /\ GenWrites(gs, n, g) /\ gs[Top] = new
          /\ \A i \in 1 .. Top : i # Top => gs[i] = genScopes[i]
      BY <2>2, <2>6, <2>26, GenWritten DEF Running
    <3>2. QED
      BY <2>6, <3>1
  <2>10. /\ IsSeq(genScopes') /\ GenTop' = t + 1
         /\ \A i \in 1 .. Top : genScopes'[i] = gs[i]
         /\ genScopes'[t + 1] = opened
    <3>1. IsSeq(gs) /\ Len(gs) = t
      BY <2>9 DEF GenWrites
    <3>2. /\ IsSeq(Append(gs, opened)) /\ Len(Append(gs, opened)) = t + 1
          /\ \A i \in 1 .. t : Append(gs, opened)[i] = gs[i]
          /\ Append(gs, opened)[t + 1] = opened
      BY <3>1, AppendSeq
    <3>3. genScopes' = Append(gs, opened)
      BY <2>8
    <3>4. QED
      BY <3>2, <3>3 DEF GenTop
  <2>11. \A i \in 1 .. Top : /\ ScopeMirrored(i)' /\ Function(i)' = Function(i)
                             /\ i # 1 => Owner(i)' = Owner(i)
    <3>1. /\ status = "run" /\ Running /\ FunctionAdded(waiting, FALSE, c, chain)
          /\ e.entryType = "function" /\ e.function = c
          /\ Writes(ss, n, e) /\ SameLabelNames(ss)
          /\ GenWrites(gs, n, FunctionGenEntry(c, Top))
      BY <2>1, <2>2, <2>4, <2>9
    <3>2. KeptIn(ss, gs)
      BY <2>4, <2>9, <2>10 DEF KeptIn
    <3>3. QED
      BY <3>1, <3>2, ScopesSigned
  <2>12. \A i \in Inner : ScopeUses(i)'
    <3>1. n # "result"
      BY NamesAssumption
    <3>2. QED
      BY <2>1, <2>2, <2>4, <2>5, <3>1, UsesAdded
  <2>13. t \in 1 .. t /\ Function(t) \in Functions /\ Function(t)' = Function(t)
    <3>1. t \in 1 .. t
      BY <2>2
    <3>2. QED
      BY <2>1, <2>11, <3>1, TopRuns
  <2>14. ScopeMirrored(t + 1)' /\ ScopeUses(t + 1)' /\ Owner(t + 1)' = c
    <3>1. /\ status = "run" /\ IsInjective(ParameterNames(h))
          /\ FunctionAdded(waiting, FALSE, c, chain)
          /\ t \in Nat /\ t >= 2 /\ Function(t) \in Functions /\ builder = Owner(t)
          /\ scopeStack'[t + 1] = FunctionScope(NewFunction, h) /\ Function(t)' = Function(t)
          /\ genScopes'[t + 1] = OpenedScope(NewFunction, builder, h, c)
      BY <1>2, <2>1, <2>2, <2>4, <2>10, <2>13, <2>26
    <3>2. QED
      BY <3>1, ScopeOpened
  <2>15. /\ \A i \in 1 .. t + 1 : i \in 1 .. t \/ i = t + 1
         /\ \A i \in 2 .. t + 1 : i \in 2 .. t \/ i = t + 1
         /\ \A i \in 2 .. t : i \in 2 .. t + 1 /\ i \in 1 .. t
    BY <2>2
  <2>16. Mirror'
    <3>1. \A i \in 1 .. t + 1 : ScopeMirrored(i)'
      BY <2>11, <2>14, <2>15
    <3>2. QED
      BY <2>4, <2>10, <3>1 DEF Mirror
  <2>17. Uses'
    <3>1. \A i \in 2 .. t + 1 : ScopeUses(i)'
      BY <2>12, <2>14, <2>15 DEF Inner
    <3>2. QED
      BY <2>1, <2>4, <3>1 DEF Uses, Inner
  <2>18. Top' <= MaxScopes
    BY <2>1, <2>2, <2>4, BoundsAssumption
  <2>19. builder' = Owner(Top)'
    BY <2>4, <2>8, <2>14
  <2>20. Running'
    BY <2>16, <2>17, <2>18, <2>19 DEF Running
  <2>21. Levels' /\ Entered'
    BY <2>1, <2>4, <2>8, LevelsAdded, EnteredAdded
  <2>22. Patched' /\ GotosPatched'
    <3>1. Open \subseteq Open'
      <4>1. Open = { Function(i) : i \in 2 .. t } /\ Open' = { Function(i)' : i \in 2 .. t + 1 }
        BY <2>4 DEF Open, Function
      <4>2. QED
        BY <2>11, <2>15, <4>1
    <3>2. QED
      BY <2>1, <2>4, <2>8, <3>1, PatchedAdded
  <2>23. builder' \in Functions'
    BY <2>4, <2>8 DEF FunctionAdded
  <2>24. fault' = Sound
    <3>1. IsInjective(Prologue(h))
      BY <1>2, PrologueIs
    <3>2. Faulty(Sound)
      BY <2>6, <2>27, <3>1, Zenon
    <3>3. QED
      BY <2>2, <3>2 DEF Faulty
  <2>25. QED
    BY <2>20, <2>21, <2>22, <2>23, <2>24 DEF GenInv
<1>3. QED
  BY <1>1, <1>2

-----------------------------------------------------------------------------
(* The specification                                                       *)

LEMMA GenInitially == GenInit => ScopesInv /\ GenInv
<1> SUFFICES ASSUME GenInit PROVE ScopesInv /\ GenInv
  OBVIOUS
<1>1. ScopesInv
  BY ScopesInit DEF GenInit
<1>2. /\ status = "run" /\ todo = << >> /\ Len(defs) = 1 /\ Top = 2
      /\ scopeStack = << LibraryScope, FunctionScope(1, MainHeader) >>
      /\ defs[1].creator = 1 /\ Chain(1) = << 1 >> /\ defs[1].level = 1
      /\ defs[1].provides = << >> /\ defs[1].requests = << >>
      /\ defs[1].gotos = {}
  BY DEF GenInit, Init, Top, Chain
<1>3. Functions = {1}
  BY <1>2 DEF Functions
<1> PICK library, main : library = LibraryScope /\ main = FunctionScope(1, MainHeader)
  OBVIOUS
<1>4. /\ library.function = NoFunction /\ library.labelNames = << >>
      /\ DOMAIN library.levelEntries = DOMAIN Library
      /\ \A n \in DOMAIN Library :
           /\ library.levelEntries[n].entryType = "function"
           /\ library.levelEntries[n].function = NoFunction
  BY DEF LibraryScope, FunctionEntry
<1>5. /\ main.function = 1 /\ main.labelNames = << >> /\ DOMAIN main.levelEntries = {}
  <2>1. main.function = 1 /\ main.labelNames = << >>
    BY FunctionScopeIs
  <2>2. MainHeader.groups = << >> /\ MainHeader.type = typeVoid
    BY DEF MainHeader
  <2>3. ParametersNamed(MainHeader, BOOLEAN) = {}
    BY <2>2 DEF ParametersNamed
  <2>4. Equals(MainHeader.type, typeVoid)
    BY <2>2 DEF Equals, typeVoid
  <2>5. QED
    BY <2>1, <2>3, <2>4 DEF FunctionScope
<1> PICK outer, inner :
      /\ outer = [OpenGenScope(NoFunction, NoFunction) EXCEPT
                    !.locals = [n \in DOMAIN Library |-> FunctionGenEntry(NoFunction, 0)]]
      /\ inner = OpenGenScope(1, NoFunction)
  OBVIOUS
<1>6. genScopes = << outer, inner >> /\ levels = << 0 >> /\ builder = 1
        /\ entered = {} /\ patched = {} /\ fault = Sound
  BY DEF GenInit
<1>7. /\ DOMAIN outer = GenFields /\ outer.function = NoFunction /\ outer.labelNames = << >>
      /\ DOMAIN outer.locals = DOMAIN Library
      /\ \A n \in DOMAIN Library : outer.locals[n] = FunctionGenEntry(NoFunction, 0)
  BY DEF OpenGenScope, GenFields
<1>8. /\ DOMAIN inner = GenFields /\ inner.function = 1 /\ inner.labelNames = << >>
      /\ DOMAIN inner.locals = {}
  BY DEF OpenGenScope, GenFields
<1> HIDE DEF GenFields
<1>9. /\ scopeStack[1] = library /\ scopeStack[2] = main
      /\ genScopes[1] = outer /\ genScopes[2] = inner /\ GenTop = 2
  BY <1>2, <1>6 DEF GenTop
<1>10. ScopeMirrored(1)
  <2>1. ASSUME NEW n \in DOMAIN Library
        PROVE  MirrorOf(library.levelEntries[n], 1, Owner(1)) = FunctionGenEntry(NoFunction, 0)
    BY <1>4 DEF MirrorOf
  <2>2. QED
    BY <1>4, <1>7, <1>9, <2>1 DEF ScopeMirrored, Function, Entries
<1>11. ScopeMirrored(2)
  <2>1. /\ Function(2) = 1 /\ DOMAIN Entries(2) = {} /\ scopeStack[2].labelNames = << >>
        /\ ~(2 > 2)
    BY <1>5, <1>9 DEF Function, Entries
  <2>2. QED
    BY <1>8, <1>9, <2>1 DEF ScopeMirrored
<1>12. IsSeq(genScopes) /\ IsSeq(levels)
  BY <1>6 DEF IsSeq
<1>13. Mirror
  <2>1. \A i \in 1 .. 2 : i = 1 \/ i = 2
    OBVIOUS
  <2>2. QED
    BY <1>2, <1>9, <1>10, <1>11, <1>12, <2>1 DEF Mirror
<1>14. Uses
  <2>1. 2 .. 2 = {2} /\ DOMAIN << >> = {} /\ 1 .. Len(<< >>) = {}
    OBVIOUS
  <2>2. ScopeUses(2)
    BY <1>2, <1>5, <1>9, <2>1 DEF ScopeUses, Function, Entries
  <2>3. QED
    BY <1>2, <2>1, <2>2 DEF Uses, Inner
<1>15. Running
  <2>1. Owner(2) = 1
    BY <1>2, <1>5, <1>9 DEF Owner, Function
  <2>2. QED
    BY <1>2, <1>6, <1>13, <1>14, <2>1, BoundsAssumption DEF Running
<1>16. Levels
  <2>1. 1 \in 1 .. MaxScopes /\ Len(<< 1 >>) = 1 /\ Len(<< 0 >>) = 1 /\ << 0 >>[1] = 0
    BY BoundsAssumption
  <2>2. QED
    BY <1>2, <1>3, <1>6, <1>12, <2>1 DEF Levels
<1>17. Entered /\ Patched
  BY <1>6 DEF Entered, Patched
<1>18. GotosPatched
  BY <1>2, <1>3, <1>6 DEF GotosPatched
<1>19. QED
  BY <1>1, <1>3, <1>6, <1>15, <1>16, <1>17, <1>18 DEF GenInv

(* Every step of the second walk comes with one of the first.              *)
LEMMA GenNextIs == GenNext => Next
<1>1. ASSUME NEW x, NEW t, GenVariable(x, t) PROVE DeclareVariable(x, t)
  BY <1>1, Zenon DEF GenVariable
<1>2. ASSUME NEW l, GenLabelDef(l) PROVE DeclareLabel(l)
  BY <1>2, Zenon DEF GenLabelDef
<1>3. ASSUME NEW n, NEW h, GenForward(n, h) PROVE DeclareForward(n, h)
  BY <1>3, Zenon DEF GenForward
<1>4. ASSUME NEW n, NEW h, GenDefine(n, h) PROVE DefineFunction(n, h)
  BY <1>4, Zenon DEF GenDefine
<1>5. GenBegin => BeginBody
  BY Zenon DEF GenBegin
<1>6. ASSUME NEW x, GenUse(x) PROVE UseVariable(x)
  BY <1>6, Zenon DEF GenUse
<1>7. GenResult => UseResult
  BY Zenon DEF GenResult
<1>8. ASSUME NEW f, NEW args, GenCall(f, args) PROVE Call(f, args)
  BY <1>8, Zenon DEF GenCall
<1>9. GenArgument => CheckArgument
  BY Zenon DEF GenArgument
<1>10. ASSUME NEW l, GenLabel(l) PROVE PlaceLabel(l)
  BY <1>10, Zenon DEF GenLabel
<1>11. ASSUME NEW l, GenGoto(l) PROVE Goto(l)
  BY <1>11, Zenon DEF GenGoto
<1>12. GenEnd => EndFunction
  BY Zenon DEF GenEnd
<1>13. GenFinish => Finish
  BY Zenon DEF GenFinish
<1>14. QED
  BY <1>1, <1>2, <1>3, <1>4, <1>5, <1>6, <1>7, <1>8, <1>9, <1>10, <1>11, <1>12, <1>13
     DEF GenNext, Next

LEMMA GenStep == ScopesInv /\ GenInv /\ [GenNext]_<<vars, genVars>> => ScopesInv' /\ GenInv'
<1> SUFFICES ASSUME ScopesInv, GenInv, [GenNext]_<<vars, genVars>> PROVE ScopesInv' /\ GenInv'
  OBVIOUS
<1>1. ScopesInv'
  <2>1. [Next]_vars
    BY GenNextIs
  <2>2. QED
    BY <2>1, ScopesStep
<1>2. CASE GenNext
  <2>1. ASSUME NEW x \in VariableNames, NEW t \in VariableTypes, GenVariable(x, t) PROVE GenInv'
    BY <2>1, GenVariableInv
  <2>2. ASSUME NEW l \in LabelNames, GenLabelDef(l) PROVE GenInv'
    BY <2>2, GenLabelDefInv
  <2>3. ASSUME NEW n \in FunctionNames, NEW h \in Headers, GenForward(n, h) PROVE GenInv'
    BY <2>3, GenForwardInv
  <2>4. ASSUME NEW n \in FunctionNames, NEW h \in Headers, GenDefine(n, h) PROVE GenInv'
    BY <2>4, GenDefineInv
  <2>5. CASE GenBegin
    BY <1>1, <2>5, GenBeginInv
  <2>6. ASSUME NEW x \in VariableNames, GenUse(x) PROVE GenInv'
    BY <2>6, GenUseInv
  <2>7. CASE GenResult
    BY <1>1, <2>7, GenResultInv
  <2>8. ASSUME NEW f \in FunctionNames, NEW args \in Arguments, GenCall(f, args) PROVE GenInv'
    BY <2>8, GenCallInv
  <2>9. CASE GenArgument
    BY <1>1, <2>9, GenArgumentInv
  <2>10. ASSUME NEW l \in LabelNames, GenLabel(l) PROVE GenInv'
    BY <2>10, GenLabelInv
  <2>11. ASSUME NEW l \in LabelNames, GenGoto(l) PROVE GenInv'
    BY <2>11, GenGotoInv
  <2>12. CASE GenEnd
    BY <1>1, <2>12, GenEndInv
  <2>13. CASE GenFinish
    BY <1>1, <2>13, GenFinishInv
  <2>14. QED
    BY <1>1, <1>2, <2>1, <2>2, <2>3, <2>4, <2>5, <2>6, <2>7, <2>8, <2>9, <2>10, <2>11, <2>12, <2>13
       DEF GenNext
<1>3. CASE UNCHANGED <<vars, genVars>>
  <2>1. /\ scopeStack' = scopeStack /\ defs' = defs /\ todo' = todo /\ status' = status
        /\ genScopes' = genScopes /\ levels' = levels /\ builder' = builder
        /\ entered' = entered /\ patched' = patched /\ fault' = fault
    BY <1>3 DEF vars, genVars
  <2>2. Mirror' <=> Mirror
    BY <2>1, Zenon DEF Mirror, ScopeMirrored, GenTop, Top, Function, Entries, Owner
  <2>3. Uses' <=> Uses
    BY <2>1, Zenon DEF Uses, ScopeUses, VariableIn, Inner, Top, Function, Entries
  <2>4. Running' <=> Running
    BY <2>1, <2>2, <2>3 DEF Running, Top, Owner, Function
  <2>5. Levels' /\ Entered' /\ Patched' /\ builder' \in Functions'
    BY <2>1 DEF GenInv, Levels, Entered, Patched, Functions, Chain
  <2>6. GotosPatched'
    BY <2>1 DEF GenInv, GotosPatched, Functions, Open, Top
  <2>7. QED
    BY <1>1, <2>1, <2>4, <2>5, <2>6 DEF GenInv
<1>4. QED
  BY <1>1, <1>2, <1>3

LEMMA GenAlways == GenSpec => [](ScopesInv /\ GenInv)
BY GenInitially, GenStep, PTL DEF GenSpec

(* What the two walks do together is a behaviour of the first: all that is *)
(* proved of semantic analysis holds while code is generated.              *)
THEOREM FirstWalkInside == GenSpec => Spec
<1>1. GenInit => Init
  BY DEF GenInit
<1>2. [GenNext]_<<vars, genVars>> => [Next]_vars
  BY GenNextIs
<1>3. QED
  BY <1>1, <1>2, PTL DEF GenSpec, Spec

(* The variables of both walks have their types; their tables are equally  *)
(* high, and the scopes belong to the same functions.                      *)
THEOREM GenTypeCorrect == GenSpec => []GenTypeOK
BY GenAlways, GenTyped, PTL

(* The compile functions: whatever the program, no lookup of the second    *)
(* walk comes back empty or with another kind of entry than it is cast to, *)
(* no label it patches is missing, and insert never finds a double entry.  *)
THEOREM SecondWalkSucceeds == GenSpec => []NoInternalError
<1>1. GenInv => NoInternalError
  BY DEF GenInv, NoInternalError
<1>2. QED
  BY <1>1, GenAlways, PTL

(* lookup: a name of the innermost function's own is its own in both       *)
(* walks, and a name of a routine leads to the one created for the first   *)
(* declaration of the function that semantic analysis found.               *)
THEOREM WalksAgree == GenSpec => []SameDenotation
BY GenAlways, DenotesSame, PTL

(* parentBB: after the end of a function, and of all those inside it, the  *)
(* Builder is back in the routine of the function around it.               *)
THEOREM BuilderReturns == GenSpec => []BuilderInOwnRoutine
BY GenAlways, BuilderIsOwn, PTL

(* create_call: number_load, from two levels counted at different moments, *)
(* leads every call from the caller's struct to that of the function       *)
(* around the callee.                                                      *)
THEOREM CallsEnterRight == GenSpec => []CallsReachParent
BY GenAlways, EnteredReachParent, PTL

(* closeScope: the gotos of a function that has ended all have their       *)
(* branch, to a label of their own routine.                                *)
THEOREM BranchesWritten == GenSpec => []GotosPatched
<1>1. GenInv => GotosPatched
  BY DEF GenInv
<1>2. QED
  BY <1>1, GenAlways, PTL
=============================================================================

------------------------- MODULE NestedCalls_proofs -------------------------
(***************************************************************************)
(* The hidden structs implement static scoping, for every set of well      *)
(* formed programs, every bound on the depth and every word that may be    *)
(* found in main_obj->nesting_level.                                       *)
(***************************************************************************)
EXTENDS NestedCalls, TLAPS

(* Programs: paths are prefixes of each other.                             *)
LEMMA PathProperties ==
  ASSUME NEW c, NestingOK(c), NEW f \in Funs(c)
  PROVE  /\ c.path[f] \in Seq(Funs(c))
         /\ Len(c.path[f]) \in Nat /\ Len(c.path[f]) >= 1
         /\ c.path[f][1] = Main
         /\ c.path[f][Len(c.path[f])] = f
<1>1. c.path[f] \in Seq(Funs(c)) /\ Len(c.path[f]) >= 1
  BY DEF NestingOK
<1>2. Len(c.path[f]) \in Nat /\ Len(c.path[f]) >= 1
  BY <1>1
<1>3. QED
  BY <1>1, <1>2 DEF NestingOK

LEMMA PrefixProperties ==
  ASSUME NEW c, NestingOK(c), NEW f \in Funs(c), NEW k \in 1 .. Len(c.path[f])
  PROVE  /\ c.path[f][k] \in Funs(c)
         /\ Len(c.path[c.path[f][k]]) = k
         /\ \A l \in 1 .. k : c.path[c.path[f][k]][l] = c.path[f][l]
<1>1. c.path[f][k] \in Funs(c)
  BY PathProperties
<1>2. QED
  BY <1>1 DEF NestingOK

(* Only the main program is at depth 1. *)
LEMMA DepthOfMain ==
  ASSUME NEW c, NestingOK(c), NEW f \in Funs(c)
  PROVE  Len(c.path[f]) = 1 <=> f = Main
<1>1. Main \in Funs(c)
  BY DEF NestingOK
<1>2. 1 \in 1 .. Len(c.path[Main]) /\ c.path[Main][1] = Main
  BY <1>1, PathProperties
<1>3. \A k \in 1 .. Len(c.path[Main]) : Len(c.path[c.path[Main][k]]) = k
  BY <1>1, PrefixProperties
<1>4. Len(c.path[Main]) = 1
  BY <1>2, <1>3
<1>5. QED
  BY <1>4, PathProperties

(* A visible function is nested in a function on the path of the caller. *)
LEMMA VisibleProperties ==
  ASSUME NEW c, NestingOK(c), NEW f \in Funs(c), NEW g \in Funs(c), Visible(c, f, g)
  PROVE  /\ Len(c.path[g]) - 1 \in 1 .. Len(c.path[f])
         /\ \A k \in 1 .. Len(c.path[g]) - 1 :
              c.path[g][k] = c.path[f][k] /\ c.path[g][k] # g
<1>1. Len(c.path[g]) \in Nat /\ Len(c.path[g]) >= 2 /\ Len(c.path[f]) \in Nat
  BY PathProperties, DepthOfMain DEF Visible
<1>2. ASSUME NEW k \in 1 .. Len(c.path[g]) - 1
      PROVE  c.path[g][k] = c.path[f][k] /\ c.path[g][k] # g
  <2>1. k \in 1 .. Len(c.path[g]) /\ k # Len(c.path[g])
    BY <1>1
  <2>2. QED
    BY <2>1, PrefixProperties DEF Visible
<1>3. Len(c.path[g]) - 1 <= Len(c.path[f])
  BY DEF Visible
<1>4. Len(c.path[g]) - 1 \in 1 .. Len(c.path[f])
  BY <1>1, <1>3
<1>5. QED
  BY <1>2, <1>4

(* Every variable a program requests is in the slot its owner provides. *)
LEMMA RequestProperties ==
  ASSUME NEW c, WellFormed(c), NEW f \in Funs(c), NEW x \in DOMAIN c.requests[f]
  PROVE  /\ c.requests[f][x].diff \in 1 .. Len(c.path[f]) - 1
         /\ Owner(c, f, x) \in Funs(c)
         /\ c.requests[f][x].idx \in 1 .. Len(c.provides[Owner(c, f, x)])
         /\ c.provides[Owner(c, f, x)][c.requests[f][x].idx] = x
         /\ x \in c.locals[Owner(c, f, x)]
<1>1. c.requests[f][x].diff \in 1 .. Len(c.path[f]) - 1
  BY DEF WellFormed, LinkingOK
<1>2. Owner(c, f, x) \in Funs(c)
  BY <1>1, PathProperties DEF WellFormed, Owner
<1>3. QED
  BY <1>1, <1>2 DEF WellFormed, LinkingOK

-----------------------------------------------------------------------------
(* Facts about a state *)

LEMMA ProgramOK ==
  ASSUME code \in Programs
  PROVE  WellFormed(code) /\ NestingOK(code) /\ LinkingOK(code) /\ ShapeOK(code)
  BY ProgramsAssumption DEF WellFormed

LEMMA StackTyped ==
  ASSUME TypeOK
  PROVE  /\ Top \in Nat /\ 1 <= Top /\ Top <= MaxDepth
         /\ \A i \in 1 .. Top :
              /\ stack[i].fun \in Funs(code)
              /\ stack[i] \in Activation(stack[i].fun)
         /\ Cur \in Funs(code)
<1>1. Top \in Nat /\ 1 <= Top /\ Top <= MaxDepth
  BY DepthAssumption DEF TypeOK
<1>2. ASSUME NEW i \in 1 .. Top
      PROVE  stack[i].fun \in Funs(code) /\ stack[i] \in Activation(stack[i].fun)
  <2>1. stack[i] \in Activations
    BY DEF Activations
  <2>2. QED
    BY <2>1 DEF TypeOK
<1>3. Top \in 1 .. Top
  BY <1>1
<1>4. QED
  BY <1>1, <1>2, <1>3 DEF Cur

LEMMA FrameTyped ==
  ASSUME NEW f \in Funs(code), NEW depth \in 1 .. MaxDepth, NEW dad \in 0 .. MaxDepth,
         NEW arg \in Addr \cup {Undef}
  PROVE  Frame(f, depth, dad, arg) \in Activation(f) /\ Frame(f, depth, dad, arg).fun = f
<1>1. ASSUME NEW x \in code.locals[f]
      PROVE  <<depth, x>> \in Addr
  BY DEF Addr
<1>2. QED
  BY <1>1 DEF Frame, Activation

(* The running function encloses itself. *)
LEMMA SelfEncloses ==
  ASSUME TypeOK
  PROVE  Encloses(Top, Len(code.path[Cur]), Top)
<1>1. code \in Programs
  BY DEF TypeOK
<1>2. code.path[Cur][Len(code.path[Cur])] = Cur
  BY <1>1, ProgramOK, StackTyped, PathProperties
<1>3. QED
  BY <1>2, StackTyped DEF Encloses, Cur

(* The induction step of every walk: one more load of field 0 reaches the  *)
(* activation of the next enclosing function.                              *)
LEMMA DadOfEncloser ==
  ASSUME TypeOK, DadEncloses,
         NEW k, k + 1 \in 2 .. Len(code.path[Cur]), k \in Nat,
         NEW j, Encloses(Top, k + 1, j)
  PROVE  /\ stack[j].dad # NoFrame
         /\ Encloses(Top, k, stack[j].dad)
         /\ Filled(stack[j].dad)
<1> DEFINE f == stack[j].fun
           d == stack[j].dad
<1>1. /\ code \in Programs /\ NestingOK(code)
      /\ Top \in Nat /\ Cur \in Funs(code) /\ Cur = stack[Top].fun
  BY ProgramOK, StackTyped DEF TypeOK, Cur
<1>2. /\ j \in 1 .. Top
      /\ f = code.path[Cur][k + 1]
      /\ \A m \in j + 1 .. Top : \A l \in 1 .. k + 1 : stack[m].fun # code.path[Cur][l]
  BY <1>1 DEF Encloses
<1>3. k + 1 \in 1 .. Len(code.path[Cur]) /\ Len(code.path[Cur]) \in Nat
  BY <1>1, PathProperties
<1>4. /\ f \in Funs(code)
      /\ Len(code.path[f]) = k + 1
      /\ \A l \in 1 .. k + 1 : code.path[f][l] = code.path[Cur][l]
  <2> DEFINE n == k + 1
  <2> HIDE DEF n
  <2>1. NestingOK(code) /\ Cur \in Funs(code) /\ n \in 1 .. Len(code.path[Cur])
    BY <1>1, <1>3 DEF n
  <2>2. /\ code.path[Cur][n] \in Funs(code)
        /\ Len(code.path[code.path[Cur][n]]) = n
        /\ \A l \in 1 .. n : code.path[code.path[Cur][n]][l] = code.path[Cur][l]
    BY <2>1, PrefixProperties
  <2>3. QED
    BY <1>2, <2>2 DEF n
<1>5. j \in 2 .. Top
  <2>1. CASE j = 1
    <3>1. stack[1].fun = Main
      BY <1>1 DEF TypeOK
    <3>2. QED
      BY <2>1, <3>1, <1>1, <1>4, DepthOfMain
  <2>2. QED
    BY <1>1, <1>2, <2>1
<1>6. d # NoFrame /\ Encloses(j, k, d) /\ Filled(d)
  BY <1>4, <1>5, SMTT(30) DEF DadEncloses
<1>7. /\ d \in 1 .. j
      /\ stack[d].fun = code.path[f][k]
      /\ \A m \in d + 1 .. j : \A l \in 1 .. k : stack[m].fun # code.path[f][l]
  BY <1>6 DEF Encloses
<1>8. d \in 1 .. Top /\ stack[d].fun = code.path[Cur][k]
  <2>1. k \in 1 .. k + 1
    OBVIOUS
  <2>2. d \in 1 .. Top
    <3>1. Top \in Nat /\ j \in 1 .. Top
      BY <1>1, <1>2
    <3>2. d \in 1 .. j
      BY <1>7
    <3> HIDE DEF d
    <3>3. QED
      BY <3>1, <3>2
  <2>3. QED
    BY <2>1, <2>2, <1>4, <1>7
<1>9. ASSUME NEW m \in d + 1 .. Top, NEW l \in 1 .. k
      PROVE  stack[m].fun # code.path[Cur][l]
  <2>1. l \in 1 .. k + 1 /\ code.path[f][l] = code.path[Cur][l]
    BY <1>4
  <2>2. CASE m \in j + 1 .. Top
    BY <2>1, <2>2, <1>2
  <2>3. CASE m \in d + 1 .. j
    BY <2>1, <2>3, <1>7
  <2>4. m \in j + 1 .. Top \/ m \in d + 1 .. j
    <3>1. Top \in Nat /\ j \in 1 .. Top
      BY <1>1, <1>2
    <3>2. d \in 1 .. j
      BY <1>7
    <3> HIDE DEF d
    <3>3. QED
      BY <3>1, <3>2
  <2>5. QED
    BY <2>2, <2>3, <2>4
<1>10. QED
  BY <1>1, <1>6, <1>8, <1>9 DEF Encloses

-----------------------------------------------------------------------------
(* The initial states *)

THEOREM InitInv == Init => IInv
<1> SUFFICES ASSUME Init PROVE IInv
  OBVIOUS
<1> USE DEF Init
<1>1. code \in Programs /\ WellFormed(code) /\ NestingOK(code) /\ ShapeOK(code)
  BY ProgramOK
<1>2. Main \in Funs(code)
  BY <1>1 DEF NestingOK
<1>3. Top = 1 /\ stack[1] = Frame(Main, 1, NoFrame, Undef)
  BY DEF Top
<1>4. stack[1] \in Activation(Main) /\ stack[1].fun = Main
  BY <1>2, <1>3, FrameTyped, DepthAssumption DEF NoFrame
<1>5. TypeOK
  <2>1. Activations = { stack[1] }
    BY <1>3 DEF Activations
  <2>2. stack \in Seq(Activations)
    BY <2>1, <1>3
  <2>3. QED
    BY <1>1, <1>2, <1>3, <1>4, <2>1, <2>2, DepthAssumption DEF TypeOK, NoFrame
<1>6. DadEncloses
  BY <1>3 DEF DadEncloses
<1>7. WalkOK
  BY DEF WalkOK, Walking
<1>10. Verified /\ RefusedForMain
  BY <1>3 DEF Verified, RefusedForMain
<1>8. NoDanglingAddress
  <2>1. ASSUME NEW x \in code.locals[Main]
        PROVE  stack[1].addr[x] = <<1, x>>
    BY <1>1, <1>3 DEF Frame, ShapeOK
  <2>2. ASSUME NEW x \in code.locals[Main]
        PROVE  Live(stack[1].addr[x], 1)
    BY <2>1, <1>4 DEF Live
  <2>3. ASSUME NEW n \in Slots(Main)
        PROVE  stack[1].slots[n] = Undef
    BY <1>3 DEF Frame
  <2>4. QED
    BY <1>3, <1>4, <2>2, <2>3 DEF NoDanglingAddress
<1>9. QED
  BY <1>5, <1>6, <1>7, <1>8, <1>10 DEF IInv

-----------------------------------------------------------------------------
(* Steps that leave the stack alone *)

LEMMA SameStack ==
  ASSUME UNCHANGED <<code, stack>>
  PROVE  /\ Top' = Top /\ Cur' = Cur /\ Activations' = Activations /\ Addr' = Addr
         /\ \A i, k, j : Encloses(i, k, j)' <=> Encloses(i, k, j)
         /\ \A j : Filled(j)' <=> Filled(j)
         /\ DadEncloses' <=> DadEncloses
<1>1. Top' = Top /\ Cur' = Cur /\ Activations' = Activations /\ Addr' = Addr
  BY DEF Top, Cur, Activations, Addr, Funs
<1>2. \A i, k, j : Encloses(i, k, j)' <=> Encloses(i, k, j)
  BY DEF Encloses
<1>3. \A j : Filled(j)' <=> Filled(j)
  BY DEF Filled, Slots
<1>4. DadEncloses' <=> DadEncloses
  BY <1>1, <1>2, <1>3 DEF DadEncloses
<1>5. QED
  BY <1>1, <1>2, <1>3, <1>4

(* What is left to show of a step that leaves the stack alone. *)
LEMMA SameStackInv ==
  ASSUME IInv, UNCHANGED <<code, mainLevel, stack>>,
         reg' \in Addr \cup {Undef},
         reg' # Undef => reg'[1] \in 1 .. Top /\ reg'[2] \in code.locals[stack[reg'[1]].fun],
         pc' \in {"compiled", "refused", "body", "access", "call"},
         pos' \in 0 .. MaxDepth, left' \in Nat,
         WalkOK', Verified', RefusedForMain'
  PROVE  IInv'
<1>1. TypeOK'
  BY SameStack DEF IInv, TypeOK, Activation, Slots, Funs, Top
<1>2. DadEncloses'
  BY SameStack DEF IInv
<1>3. NoDanglingAddress'
  BY SameStack DEF IInv, NoDanglingAddress, Live, Slots
<1>4. QED
  BY <1>1, <1>2, <1>3 DEF IInv

(* A module that runs has been verified for good. *)
LEMMA StaysVerified ==
  ASSUME IInv, UNCHANGED <<code, mainLevel>>,
         pc \in {"body", "access", "call"}, pc' \in {"body", "access", "call"}
  PROVE  Verified' /\ RefusedForMain'
  BY DEF IInv, Verified, RefusedForMain

LEMMA SameRegister ==
  ASSUME IInv, reg' = reg
  PROVE  /\ reg' \in Addr \cup {Undef}
         /\ reg' # Undef =>
              reg'[1] \in 1 .. Top /\ reg'[2] \in code.locals[stack[reg'[1]].fun]
  BY DEF IInv, TypeOK, NoDanglingAddress, Live

LEMMA UseLocalInv ==
  ASSUME IInv, NEW x \in code.locals[Cur], UseLocal(x)
  PROVE  IInv'
<1>1. /\ TypeOK /\ Top \in 1 .. Top
      /\ stack[Top] \in Activation(Cur) /\ Cur = stack[Top].fun
  BY StackTyped DEF IInv, Cur
<1>2. reg' \in Addr \cup {Undef}
  BY <1>1 DEF UseLocal, Activation
<1>3. reg'[1] \in 1 .. Top /\ reg'[2] \in code.locals[stack[reg'[1]].fun]
  BY <1>1 DEF UseLocal, IInv, NoDanglingAddress, Live
<1>4. WalkOK' /\ Verified' /\ RefusedForMain'
  BY StaysVerified DEF UseLocal, WalkOK, Walking
<1>5. QED
  BY <1>1, <1>2, <1>3, <1>4, SameStackInv DEF UseLocal, TypeOK

LEMMA UseOuterInv ==
  ASSUME IInv, NEW x \in DOMAIN code.requests[Cur], UseOuter(x)
  PROVE  IInv'
<1> DEFINE diff == code.requests[Cur][x].diff
<1>1. /\ TypeOK /\ WellFormed(code) /\ NestingOK(code)
      /\ Top \in Nat /\ 1 <= Top /\ Top <= MaxDepth /\ Cur \in Funs(code)
  BY StackTyped, ProgramOK DEF IInv, TypeOK
<1>2. /\ Len(code.path[Cur]) \in Nat
      /\ diff \in 1 .. Len(code.path[Cur]) - 1
  BY <1>1, PathProperties, RequestProperties
<1>3. Encloses(Top, Len(code.path[Cur]), Top)
  BY <1>1, SelfEncloses
<1>4. Goal' + left' = Len(code.path[Cur])
  BY <1>2, SameStack DEF UseOuter, Goal
<1>5. WalkOK' /\ Verified' /\ RefusedForMain'
  <2>1. WalkOK'
    BY <1>1, <1>2, <1>3, <1>4, SameStack DEF UseOuter, WalkOK, Walking, NoFrame
  <2>2. QED
    BY <2>1, StaysVerified DEF UseOuter
<1>6. pc' \in {"body", "access", "call"} /\ pos' \in 0 .. MaxDepth /\ left' \in Nat
  BY <1>1, <1>2, DepthAssumption DEF UseOuter
<1>7. UNCHANGED <<code, mainLevel, stack, reg>>
  BY DEF UseOuter
<1>8. QED
  BY <1>5, <1>6, <1>7, SameRegister, SameStackInv

(* A walk ends at a function, not above the main program. *)
LEMMA GoalPositive ==
  ASSUME TypeOK, WalkOK, Walking
  PROVE  Goal \in Nat /\ Goal >= 1
<1>1. /\ code \in Programs /\ WellFormed(code) /\ NestingOK(code) /\ LinkingOK(code)
      /\ Cur \in Funs(code)
  BY StackTyped, ProgramOK DEF TypeOK
<1>2. CASE pc = "access"
  <2>1. want \in DOMAIN code.requests[Cur]
    BY <1>2 DEF WalkOK, Walking
  <2>2. /\ Len(code.path[Cur]) \in Nat
        /\ code.requests[Cur][want].diff \in 1 .. Len(code.path[Cur]) - 1
    BY <1>1, <2>1, PathProperties, RequestProperties
  <2>3. QED
    BY <1>2, <2>2 DEF Goal
<1>3. CASE pc # "access"
  <2>1. want \in code.calls[Cur]
    BY <1>3 DEF WalkOK, Walking
  <2>2. want \in Funs(code) /\ Visible(code, Cur, want)
    BY <1>1, <2>1 DEF LinkingOK
  <2>3. Len(code.path[want]) - 1 \in 1 .. Len(code.path[Cur])
    BY <1>1, <2>2, VisibleProperties
  <2>4. QED
    BY <1>3, <2>3 DEF Goal
<1>4. QED
  BY <1>2, <1>3

LEMMA LoadDadInv ==
  ASSUME IInv, LoadDad
  PROVE  IInv'
<1> DEFINE k == Goal + left - 1
<1>1. /\ TypeOK /\ DadEncloses /\ WalkOK /\ Walking /\ left \in Nat /\ left > 0
      /\ Goal \in Nat /\ Goal >= 1 /\ Top \in Nat /\ Cur \in Funs(code)
      /\ NestingOK(code) /\ Top <= MaxDepth
  BY GoalPositive, StackTyped, ProgramOK DEF IInv, LoadDad, TypeOK, Walking
<1>2. Len(code.path[Cur]) \in Nat
  BY <1>1, PathProperties
<1>3. k \in Nat /\ k + 1 = Goal + left /\ k + 1 \in 2 .. Len(code.path[Cur])
  BY <1>1, <1>2 DEF WalkOK
<1>4. Encloses(Top, k + 1, pos)
  BY <1>1, <1>3 DEF WalkOK
<1>5. /\ stack[pos].dad # NoFrame
      /\ Encloses(Top, k, stack[pos].dad)
      /\ Filled(stack[pos].dad)
  BY <1>1, <1>3, <1>4, DadOfEncloser
<1>6. pos' \in 0 .. MaxDepth /\ left' \in Nat
  BY <1>1, <1>5, DepthAssumption DEF LoadDad, Encloses
<1>7. Goal' = Goal /\ Goal' + left' = k /\ k <= Len(code.path[Cur])
  BY <1>1, <1>2, <1>3, SameStack DEF LoadDad, Goal
<1>8. WalkOK' /\ Verified' /\ RefusedForMain'
  <2>1. WalkOK'
    BY <1>1, <1>5, <1>7, SameStack DEF LoadDad, WalkOK, Walking
  <2>2. QED
    BY <2>1, StaysVerified DEF LoadDad
<1>9. UNCHANGED <<code, mainLevel, stack, reg>> /\ pc' \in {"body", "access", "call"}
  BY DEF LoadDad
<1>10. QED
  BY <1>6, <1>8, <1>9, SameRegister, SameStackInv
(* The struct a walk ends in has the requested variable in the slot read. *)
LEMMA SlotRead ==
  ASSUME IInv, pc = "access", left = 0
  PROVE  /\ pos \in 1 .. Top
         /\ code.requests[Cur][want].idx \in Slots(stack[pos].fun)
         /\ want \in code.locals[stack[pos].fun]
         /\ stack[pos].slots[code.requests[Cur][want].idx] = stack[pos].addr[want]
<1>1. /\ TypeOK /\ WalkOK /\ WellFormed(code) /\ Cur \in Funs(code)
      /\ want \in DOMAIN code.requests[Cur]
  BY StackTyped, ProgramOK DEF IInv, TypeOK, WalkOK, Walking
<1>2. Goal \in Nat /\ Goal = Len(code.path[Cur]) - code.requests[Cur][want].diff
  BY <1>1, GoalPositive DEF Goal, Walking
<1>3. Encloses(Top, Goal, pos) /\ Filled(pos)
  BY <1>1, <1>2 DEF WalkOK, Walking
<1>4. pos \in 1 .. Top /\ stack[pos].fun = Owner(code, Cur, want)
  BY <1>2, <1>3 DEF Encloses, Cur, Owner
<1>5. /\ code.requests[Cur][want].idx \in Slots(stack[pos].fun)
      /\ code.provides[stack[pos].fun][code.requests[Cur][want].idx] = want
      /\ want \in code.locals[stack[pos].fun]
  BY <1>1, <1>4, RequestProperties DEF Slots
<1>6. QED
  BY <1>3, <1>4, <1>5 DEF Filled

LEMMA LoadSlotInv ==
  ASSUME IInv, LoadSlot
  PROVE  IInv'
<1> DEFINE f == stack[pos].fun
<1>1. TypeOK /\ Top \in Nat /\ pos \in 1 .. Top /\ stack[pos] \in Activation(f)
  BY SlotRead, StackTyped DEF LoadSlot, IInv
<1>2. reg' = stack[pos].addr[want] /\ want \in code.locals[f]
  BY SlotRead DEF LoadSlot
<1>3. reg' \in Addr \cup {Undef}
  BY <1>1, <1>2 DEF Activation
<1>4. Live(reg', pos)
  BY <1>1, <1>2 DEF IInv, NoDanglingAddress
<1>5. reg'[1] \in 1 .. Top /\ reg'[2] \in code.locals[stack[reg'[1]].fun]
  BY <1>1, <1>4 DEF Live
<1>6. WalkOK' /\ pc' \in {"body", "access", "call"} /\ Verified' /\ RefusedForMain'
  BY StaysVerified DEF LoadSlot, WalkOK, Walking
<1>7. UNCHANGED <<code, mainLevel, stack, pos, left>>
  BY DEF LoadSlot
<1>8. pos' \in 0 .. MaxDepth /\ left' \in Nat
  BY <1>1, <1>7 DEF TypeOK
<1>9. QED
  BY <1>3, <1>5, <1>6, <1>7, <1>8, SameStackInv

-----------------------------------------------------------------------------
(* Calls *)

(* The number of loads create_call computes takes a caller to its callee's *)
(* parent; none are needed exactly when the caller is that parent.         *)
LEMMA NumberLoadCorrect ==
  ASSUME TypeOK, NEW f \in Funs(code), NEW g \in code.calls[f], f = Main => mainLevel <= 1
  PROVE  /\ g \in Funs(code) /\ Visible(code, f, g)
         /\ Len(code.path[g]) - 1 \in 1 .. Len(code.path[f])
         /\ Len(code.path[f]) \in Nat
         /\ NumberLoad(f, g) \in Int
         /\ NumberLoad(f, g) > 0 => Len(code.path[g]) - 1 + NumberLoad(f, g) = Len(code.path[f])
         /\ NumberLoad(f, g) <= 0 => Len(code.path[g]) - 1 = Len(code.path[f])
<1>1. /\ code \in Programs /\ WellFormed(code) /\ NestingOK(code) /\ LinkingOK(code)
      /\ mainLevel \in Int
  BY ProgramOK, LevelsAssumption DEF TypeOK
<1>2. g \in Funs(code) /\ Visible(code, f, g)
  BY <1>1 DEF LinkingOK
<1>3. /\ Len(code.path[g]) - 1 \in 1 .. Len(code.path[f])
      /\ Len(code.path[f]) \in Nat /\ Len(code.path[g]) \in Nat
  BY <1>1, <1>2, VisibleProperties, PathProperties
<1>4. Level(g) = Len(code.path[g])
  BY <1>1, <1>2 DEF Level, Visible, LinkingOK
<1>5. CASE f = Main
  <2>1. Len(code.path[f]) = 1
    BY <1>1, <1>5, DepthOfMain
  <2>2. Len(code.path[g]) = 2
    BY <2>1, <1>3
  <2>3. NumberLoad(f, g) = mainLevel - 2 + 1
    BY <2>2, <1>4, <1>5 DEF NumberLoad, Level
  <2>4. NumberLoad(f, g) \in Int /\ NumberLoad(f, g) <= 0
    BY <2>3, <1>1, <1>5
  <2>5. ~(NumberLoad(f, g) > 0)
    BY <2>4
  <2>6. QED
    BY <2>1, <2>2, <2>4, <2>5, <1>2, <1>3
<1>6. CASE f # Main
  <2>1. NumberLoad(f, g) = Len(code.path[f]) - Len(code.path[g]) + 1
    BY <1>1, <1>4, <1>6 DEF NumberLoad, Level, LinkingOK
  <2>2. NumberLoad(f, g) \in Int
    BY <2>1, <1>3
  <2>3. Len(code.path[g]) - 1 + NumberLoad(f, g) = Len(code.path[f])
    <3>1. \A a, b \in Int : b - 1 + (a - b + 1) = a
      OBVIOUS
    <3>2. Len(code.path[f]) \in Int /\ Len(code.path[g]) \in Int
      BY <1>3
    <3>3. QED
      BY <3>1, <3>2, <2>1, Zenon
  <2>4. NumberLoad(f, g) <= 0 => Len(code.path[g]) - 1 = Len(code.path[f])
    BY <2>2, <2>3, <1>3
  <2>5. QED
    BY <2>2, <2>3, <2>4, <1>2, <1>3
<1>7. QED
  BY <1>5, <1>6

(* A main whose level is a word greater than 1 cannot call, by the types:  *)
(* it would pass what field 0 of its struct points to.                     *)
LEMMA MainCannotPass ==
  ASSUME TypeOK, NEW g \in code.calls[Main], mainLevel > 1
  PROVE  ~StructsTyped
<1>1. /\ NestingOK(code) /\ LinkingOK(code) /\ Main \in Funs(code) /\ mainLevel \in Int
  BY ProgramOK, LevelsAssumption DEF TypeOK, NestingOK
<1>2. g \in Funs(code) /\ Visible(code, Main, g) /\ g # Main
  BY <1>1 DEF LinkingOK, Visible
<1>3. Len(code.path[Main]) = 1
  BY <1>1, DepthOfMain
<1>4. Len(code.path[g]) - 1 \in 1 .. 1 /\ Len(code.path[g]) \in Nat
  BY <1>1, <1>2, <1>3, VisibleProperties, PathProperties
<1>5. code.level[g] = Len(code.path[g])
  BY <1>1, <1>2 DEF LinkingOK
<1>6. NumberLoad(Main, g) = mainLevel - 2 + 1
  <2>1. code.level[g] = 2
    BY <1>4, <1>5
  <2>2. QED
    BY <1>2, <2>1 DEF NumberLoad, Level
<1>7. NumberLoad(Main, g) > 0 /\ ~(NumberLoad(Main, g) < 1)
  BY <1>1, <1>6
<1>8. ~PassesStructOf(Main, g, code.path[g][Len(code.path[g]) - 1])
  BY <1>3, <1>7 DEF PassesStructOf
<1>9. QED
  BY <1>1, <1>8 DEF StructsTyped

(* Everybody else passes what the callee's type asks for.                  *)
LEMMA OthersPass ==
  ASSUME TypeOK, code.calls[Main] # {} => mainLevel <= 1
  PROVE  StructsTyped
<1> SUFFICES ASSUME NEW f \in Funs(code), NEW g \in code.calls[f]
             PROVE  PassesStructOf(f, g, code.path[g][Len(code.path[g]) - 1])
  BY DEF StructsTyped
<1> DEFINE n == NumberLoad(f, g)
           m == Len(code.path[g]) - 1
<1>1. f = Main => mainLevel <= 1
  OBVIOUS
<1>2. /\ g \in Funs(code) /\ Visible(code, f, g)
      /\ m \in 1 .. Len(code.path[f]) /\ Len(code.path[f]) \in Nat
      /\ n \in Int
      /\ n > 0 => m + n = Len(code.path[f])
      /\ n <= 0 => m = Len(code.path[f])
  BY <1>1, NumberLoadCorrect
<1>3. code.path[g][m] = code.path[f][m]
  <2>1. \A k \in 1 .. m : code.path[g][k] = code.path[f][k]
    BY <1>2, Zenon DEF Visible
  <2> HIDE DEF m
  <2>2. m \in 1 .. m
    BY <1>2
  <2>3. QED
    BY <2>1, <2>2
<1> DEFINE loads == IF n > 0 THEN n ELSE 0
<1>4. loads < Len(code.path[f]) /\ Len(code.path[f]) - loads = m
  <2> HIDE DEF n, m
  <2>1. QED
    BY <1>2
<1>5. QED
  BY <1>3, <1>4 DEF PassesStructOf

LEMMA VerifyModuleInv ==
  ASSUME IInv, VerifyModule
  PROVE  IInv'
<1>1. TypeOK /\ pc = "compiled" /\ Top = 1
  BY DEF IInv, Verified, VerifyModule
<1>2. UNCHANGED <<code, mainLevel, stack, reg, want, pos, left>>
  BY DEF VerifyModule
<1>3. pc' = (IF StructsTyped THEN "body" ELSE "refused") /\ pc' \in {"body", "refused"}
  BY DEF VerifyModule
<1>4. mainLevel \in Int
  BY <1>1, LevelsAssumption DEF TypeOK
<1>5. WalkOK'
  BY <1>3 DEF WalkOK, Walking
<1>6. Verified'
  <2>1. CASE StructsTyped
    <3>1. code.calls[Main] # {} => ~(mainLevel > 1)
      BY <1>1, <2>1, MainCannotPass
    <3>2. QED
      BY <1>2, <1>3, <1>4, <2>1, <3>1 DEF Verified
  <2>2. CASE ~StructsTyped
    BY <1>1, <1>2, <1>3, <2>2, SameStack DEF Verified
  <2>3. QED
    BY <2>1, <2>2
<1>7. RefusedForMain'
  <2>1. SUFFICES ASSUME ~StructsTyped PROVE mainLevel > 1 /\ code.calls[Main] # {}
    BY <1>2, <1>3 DEF RefusedForMain
  <2>2. code.calls[Main] # {} /\ ~(mainLevel <= 1)
    BY <1>1, <2>1, OthersPass
  <2>3. QED
    BY <1>4, <2>2
<1>8. pos' \in 0 .. MaxDepth /\ left' \in Nat
  BY <1>1, <1>2 DEF TypeOK
<1>9. QED
  BY <1>2, <1>3, <1>5, <1>6, <1>7, <1>8, SameRegister, SameStackInv

(* Where main calls, its level has been verified.                          *)
LEMMA CallerLevel ==
  ASSUME IInv, NEW g \in code.calls[Cur], pc \in {"body", "access", "call"}
  PROVE  Cur \in Funs(code) /\ (Cur = Main => mainLevel <= 1)
  BY StackTyped DEF IInv, Verified

LEMMA CallThroughChainInv ==
  ASSUME IInv, NEW g \in code.calls[Cur], CallThroughChain(g)
  PROVE  IInv'
<1>1. TypeOK /\ Top \in Nat /\ 1 <= Top /\ Top <= MaxDepth
  BY StackTyped DEF IInv
<1>2. /\ Len(code.path[Cur]) \in Nat /\ Len(code.path[g]) - 1 \in 1 .. Len(code.path[Cur])
      /\ NumberLoad(Cur, g) \in Int /\ NumberLoad(Cur, g) > 0
      /\ Len(code.path[g]) - 1 + NumberLoad(Cur, g) = Len(code.path[Cur])
  <2>1. Cur \in Funs(code) /\ (Cur = Main => mainLevel <= 1)
    BY CallerLevel DEF CallThroughChain, CallReady
  <2>2. QED
    BY <1>1, <2>1, NumberLoadCorrect DEF CallThroughChain
<1>3. Encloses(Top, Len(code.path[Cur]), Top)
  BY <1>1, SelfEncloses
<1>4. UNCHANGED <<code, mainLevel, stack, reg>> /\ pc' = "call" /\ want' = g
  BY DEF CallThroughChain
<1>5. pos' = Top /\ left' = NumberLoad(Cur, g)
  BY DEF CallThroughChain
<1>6. Goal' + left' = Len(code.path[Cur])
  BY <1>2, <1>4, <1>5 DEF Goal
<1>7. code.refs[g] # {} => reg # Undef
  BY DEF CallThroughChain, CallReady
<1>8. WalkOK' /\ Verified' /\ RefusedForMain'
  <2>1. WalkOK'
    BY <1>1, <1>2, <1>3, <1>4, <1>5, <1>6, <1>7, SameStack
       DEF WalkOK, Walking, NoFrame, CallThroughChain, CallReady
  <2>2. QED
    BY <2>1, <1>4, StaysVerified DEF CallThroughChain, CallReady
<1>9. pc' \in {"body", "access", "call"} /\ pos' \in 0 .. MaxDepth /\ left' \in Nat
  BY <1>1, <1>2, <1>4, <1>5, DepthAssumption
<1>10. QED
  BY <1>4, <1>8, <1>9, SameRegister, SameStackInv
LEMMA SeqOfElements ==
  ASSUME NEW S, NEW T, NEW s \in Seq(S), \A i \in 1 .. Len(s) : s[i] \in T
  PROVE  s \in Seq(T)
<1>1. DOMAIN s = 1 .. Len(s) /\ Len(s) \in Nat
  OBVIOUS
<1>2. s = [i \in 1 .. Len(s) |-> s[i]]
  BY <1>1
<1>3. s \in [1 .. Len(s) -> T]
  BY <1>2
<1>4. QED
  BY <1>1, <1>3

(* Replacing one activation. *)
LEMMA StoreElement ==
  ASSUME NEW S, NEW s \in Seq(S), NEW t \in 1 .. Len(s), NEW r
  PROVE  /\ Len([s EXCEPT ![t] = r]) = Len(s)
         /\ [s EXCEPT ![t] = r] \in Seq(S \cup {r})
         /\ \A i \in 1 .. Len(s) : i # t => [s EXCEPT ![t] = r][i] = s[i]
         /\ [s EXCEPT ![t] = r][t] = r
<1> DEFINE u == [s EXCEPT ![t] = r]
<1>1. DOMAIN s = 1 .. Len(s) /\ Len(s) \in Nat
  OBVIOUS
<1>2. u = [i \in 1 .. Len(s) |-> IF i = t THEN r ELSE s[i]]
  BY <1>1
<1> HIDE DEF u
<1>3. \A i \in 1 .. Len(s) : u[i] \in S \cup {r}
  BY <1>1, <1>2
<1>4. u \in Seq(S \cup {r}) /\ DOMAIN u = 1 .. Len(s)
  BY <1>1, <1>2, <1>3
<1>5. Len(u) = Len(s)
  BY <1>1, <1>4
<1>6. /\ \A i \in 1 .. Len(s) : i # t => u[i] = s[i]
      /\ u[t] = r
  BY <1>2
<1>7. QED
  BY <1>4, <1>5, <1>6 DEF u

(* Enclosing is a matter of the activations up to the enclosed one. *)
LEMMA EnclosesSame ==
  ASSUME NEW n \in Nat, code' = code,
         \A i \in 1 .. n : stack'[i].fun = stack[i].fun,
         NEW i \in 1 .. n, NEW k, NEW j
  PROVE  Encloses(i, k, j)' <=> Encloses(i, k, j)
<1>1. stack'[i].fun = stack[i].fun
  OBVIOUS
<1>2. ASSUME j \in 1 .. i
      PROVE  /\ stack'[j].fun = stack[j].fun
             /\ \A m \in j + 1 .. i : stack'[m].fun = stack[m].fun
  BY <1>2
<1>3. QED
  BY <1>1, <1>2 DEF Encloses

LEMMA CallWithOwnStructInv ==
  ASSUME IInv, NEW g \in code.calls[Cur], CallWithOwnStruct(g)
  PROVE  IInv'
<1> DEFINE stored == [n \in Slots(Cur) |-> stack[Top].addr[code.provides[Cur][n]]]
<1>1. /\ TypeOK /\ Top \in Nat /\ 1 <= Top /\ Top <= MaxDepth
      /\ Cur \in Funs(code) /\ Cur = stack[Top].fun /\ LinkingOK(code)
      /\ stack \in Seq(Activations) /\ Top = Len(stack)
      /\ \A i \in 1 .. Top : /\ stack[i].fun \in Funs(code)
                            /\ stack[i] \in Activation(stack[i].fun)
  BY StackTyped, ProgramOK DEF IInv, TypeOK, Cur, Top
<1>2. UNCHANGED <<code, mainLevel, reg>> /\ pc' = "call" /\ want' = g /\ pos' = Top /\ left' = 0
  BY DEF CallWithOwnStruct
<1>3. stack' = [stack EXCEPT ![Top].slots = stored]
  BY DEF CallWithOwnStruct
<1>4. /\ Len(stack') = Top
      /\ stack' \in Seq(Activations \cup {[stack[Top] EXCEPT !.slots = stored]})
      /\ \A i \in 1 .. Top : i # Top => stack'[i] = stack[i]
      /\ stack'[Top] = [stack[Top] EXCEPT !.slots = stored]
  <2> DEFINE r == [stack[Top] EXCEPT !.slots = stored]
  <2> HIDE DEF stored
  <2>1. stack' = [stack EXCEPT ![Top] = r]
    BY <1>3
  <2>2. Top \in 1 .. Len(stack)
    BY <1>1
  <2> HIDE DEF r
  <2>3. /\ Len(stack') = Len(stack) /\ stack' \in Seq(Activations \cup {r})
        /\ \A i \in 1 .. Len(stack) : i # Top => stack'[i] = stack[i]
        /\ stack'[Top] = r
    BY <1>1, <2>1, <2>2, StoreElement
  <2>4. QED
    BY <1>1, <2>3 DEF r
<1>5. /\ stack'[Top].fun = Cur /\ stack'[Top].dad = stack[Top].dad
      /\ stack'[Top].addr = stack[Top].addr /\ stack'[Top].slots = stored
  <2> HIDE DEF stored
  <2>1. stack[Top] \in Activation(Cur)
    BY <1>1
  <2>2. QED
    BY <1>1, <1>4, <2>1 DEF Activation
<1>6. /\ Top' = Top /\ Cur' = Cur /\ Addr' = Addr
      /\ \A f : Activation(f)' = Activation(f)
  <2>1. Top' = Top
    BY <1>4 DEF Top
  <2>2. Cur' = Cur
    BY <2>1, <1>5 DEF Cur
  <2>3. Addr' = Addr
    BY <1>2 DEF Addr, Funs
  <2>4. QED
    BY <2>1, <2>2, <2>3, <1>2 DEF Activation, Slots
<1>7. ASSUME NEW i \in 1 .. Top
      PROVE  /\ stack'[i].fun = stack[i].fun /\ stack'[i].dad = stack[i].dad
             /\ stack'[i].addr = stack[i].addr
  BY <1>1, <1>4, <1>5
<1>8. ASSUME NEW n \in Slots(Cur)
      PROVE  /\ code.provides[Cur][n] \in code.locals[Cur]
             /\ stored[n] = stack[Top].addr[code.provides[Cur][n]]
             /\ stored[n] \in Addr \cup {Undef}
  <2>1. code.provides[Cur][n] \in code.locals[Cur]
    BY <1>1 DEF LinkingOK, Slots
  <2>2. stack[Top].addr \in [code.locals[Cur] -> Addr \cup {Undef}]
    BY <1>1 DEF Activation
  <2>3. QED
    BY <2>1, <2>2
<1>9. TypeOK'
  <2>1. stack'[Top] \in Activation(Cur)
    <3>1. stored \in [Slots(Cur) -> Addr \cup {Undef}]
      BY <1>8
    <3>2. stack[Top] \in Activation(Cur)
      BY <1>1
    <3>3. QED
      BY <3>1, <3>2, <1>4 DEF Activation
  <2>2. ASSUME NEW i \in 1 .. Top
        PROVE  stack'[i].fun \in Funs(code) /\ stack'[i] \in Activation(stack'[i].fun)
    <3>1. CASE i = Top
      BY <3>1, <2>1, <1>1, <1>5
    <3>2. CASE i # Top
      BY <3>2, <1>1, <1>4
    <3>3. QED
      BY <3>1, <3>2
  <2>3. stack' \in Seq(Activations')
    <3>1. \A i \in 1 .. Len(stack') : stack'[i] \in Activations'
      BY <1>4, <1>6 DEF Activations
    <3>2. QED
      BY <1>4, <3>1, SeqOfElements
  <2>4. \A a \in Activations' : a.fun \in Funs(code) /\ a \in Activation(a.fun)
    BY <2>2, <1>6 DEF Activations
  <2>5. stack'[1].fun = Main
    BY <1>1, <1>7 DEF TypeOK
  <2>6. QED
    BY <2>3, <2>4, <2>5, <1>1, <1>2, <1>6, DepthAssumption DEF TypeOK, Funs
<1>10. \A i \in 1 .. Top : \A k, j : Encloses(i, k, j)' <=> Encloses(i, k, j)
  BY <1>1, <1>2, <1>7, EnclosesSame
<1>11. Filled(Top)'
  <2>1. \A n \in Slots(Cur) :
          stack'[Top].slots[n] = stack'[Top].addr[code.provides[stack'[Top].fun][n]]
    BY <1>5, <1>8
  <2>2. QED
    BY <2>1, <1>2, <1>5, <1>6 DEF Filled, Slots
<1>12. ASSUME NEW i \in 1 .. Top, Filled(i)
       PROVE  Filled(i)'
  <2>1. CASE i = Top
    BY <2>1, <1>6, <1>11
  <2>2. CASE i # Top
    BY <2>2, <1>2, <1>4, <1>12 DEF Filled, Slots
  <2>3. QED
    BY <2>1, <2>2
<1>13. DadEncloses'
  <2>1. ASSUME NEW i \in 2 .. Top
        PROVE  /\ stack[i].dad # NoFrame
               /\ Encloses(i, Len(code.path[stack[i].fun]) - 1, stack[i].dad)
               /\ Filled(stack[i].dad)
    BY DEF IInv, DadEncloses
  <2>2. ASSUME NEW i \in 2 .. Top
        PROVE  i \in 1 .. Top /\ stack[i].dad \in 1 .. Top
    BY <2>1, <1>1 DEF Encloses
  <2>3. QED
    BY <2>1, <2>2, <1>2, <1>6, <1>7, <1>10, <1>12 DEF DadEncloses
<1>14. WalkOK'
  <2>1. /\ Len(code.path[g]) - 1 = Len(code.path[Cur]) /\ Len(code.path[Cur]) \in Nat
    <3>1. Cur = Main => mainLevel <= 1
      BY CallerLevel DEF CallWithOwnStruct, CallReady
    <3>2. QED
      BY <1>1, <3>1, NumberLoadCorrect DEF CallWithOwnStruct
  <2>2. Goal' + left' = Len(code.path[Cur])
    BY <2>1, <1>2 DEF Goal
  <2>3. Encloses(Top, Len(code.path[Cur]), Top)'
    BY <1>1, <1>2, <1>6, <1>10, SelfEncloses
  <2>4. code.refs[g] # {} => reg # Undef
    BY DEF CallWithOwnStruct, CallReady
  <2>5. QED
    BY <2>1, <2>2, <2>3, <2>4, <1>1, <1>2, <1>6, <1>11
       DEF WalkOK, Walking, NoFrame, CallWithOwnStruct, CallReady
<1>15. NoDanglingAddress'
  <2>1. ASSUME NEW a, NEW i \in 1 .. Top, Live(a, i)
        PROVE  Live(a, i)'
    BY <2>1, <1>1, <1>2, <1>7 DEF Live
  <2>2. ASSUME NEW i \in 1 .. Top, NEW x \in code.locals[stack[i].fun]
        PROVE  Live(stack[i].addr[x], i)
    BY DEF IInv, NoDanglingAddress
  <2>3. ASSUME NEW i \in 1 .. Top, NEW n \in Slots(stack[i].fun), stack'[i].slots[n] # Undef
        PROVE  Live(stack'[i].slots[n], i)
    <3>1. CASE i = Top
      BY <3>1, <2>2, <2>3, <1>1, <1>5, <1>8
    <3>2. CASE i # Top
      BY <3>2, <2>3, <1>4 DEF IInv, NoDanglingAddress
    <3>3. QED
      BY <3>1, <3>2
  <2>4. reg # Undef => Live(reg, Top)
    BY DEF IInv, NoDanglingAddress
  <2>5. QED
    BY <2>1, <2>2, <2>3, <2>4, <1>1, <1>2, <1>6, <1>7 DEF NoDanglingAddress, Slots
<1>16. Verified' /\ RefusedForMain'
  BY <1>2, StaysVerified DEF CallWithOwnStruct, CallReady
<1>17. QED
  BY <1>9, <1>13, <1>14, <1>15, <1>16 DEF IInv

LEMMA EnterInv ==
  ASSUME IInv, Enter
  PROVE  IInv'
<1> PICK g, t, p, new : g = want /\ t = Top + 1 /\ p = pos /\ new = Frame(want, Top + 1, pos, reg)
  OBVIOUS
<1>1. /\ TypeOK /\ t = Top + 1 /\ t \in Nat /\ g = want /\ p = pos
      /\ new = Frame(g, t, pos, reg)
      /\ Top \in Nat /\ 1 <= Top /\ Top <= MaxDepth
      /\ code \in Programs /\ LinkingOK(code) /\ NestingOK(code)
      /\ Cur \in Funs(code) /\ Cur = stack[Top].fun
      /\ stack \in Seq(Activations) /\ Top = Len(stack)
      /\ reg \in Addr \cup {Undef} /\ pos \in 0 .. MaxDepth
      /\ \A i \in 1 .. Top : /\ stack[i].fun \in Funs(code)
                            /\ stack[i] \in Activation(stack[i].fun)
  BY StackTyped, ProgramOK DEF IInv, TypeOK, Cur, Top
<1>2. UNCHANGED <<code, mainLevel, pos, left>> /\ pc' = "body" /\ reg' = Undef
  BY DEF Enter
<1>3. /\ g \in code.calls[Cur] /\ Top < MaxDepth /\ (code.refs[g] # {} => reg # Undef)
      /\ pos # NoFrame /\ Goal = Len(code.path[g]) - 1 /\ Goal + left = Goal
      /\ Encloses(Top, Len(code.path[g]) - 1, pos) /\ Filled(pos)
  <2>1. pc = "call" /\ left = 0 /\ Goal = Len(code.path[g]) - 1 /\ Goal \in Nat
    BY <1>1, GoalPositive DEF Enter, IInv, Goal, Walking
  <2>2. Goal + left = Goal
    BY <2>1
  <2>3. QED
    BY <1>1, <2>1, <2>2 DEF IInv, WalkOK, Walking
<1>4. /\ g \in Funs(code) /\ Visible(code, Cur, g)
      /\ Len(code.path[g]) - 1 \in 1 .. Len(code.path[Cur])
      /\ \A k \in 1 .. Len(code.path[g]) - 1 :
           code.path[g][k] = code.path[Cur][k] /\ code.path[g][k] # g
  <2>1. g \in Funs(code) /\ Visible(code, Cur, g)
    BY <1>1, <1>3 DEF LinkingOK
  <2>2. /\ Len(code.path[g]) - 1 \in 1 .. Len(code.path[Cur])
        /\ \A k \in 1 .. Len(code.path[g]) - 1 :
             code.path[g][k] = code.path[Cur][k] /\ code.path[g][k] # g
    <3>1. NestingOK(code) /\ Cur \in Funs(code)
      BY <1>1
    <3>2. QED
      BY <2>1, <3>1, VisibleProperties
  <2>3. QED
    BY <2>1, <2>2
<1>5. new \in Activation(g) /\ new.fun = g /\ new.dad = pos
  <2>1. t \in 1 .. MaxDepth
    BY <1>1, <1>3, DepthAssumption
  <2>2. new = Frame(g, t, pos, reg)
    BY <1>1
  <2>3. new \in Activation(g) /\ new.fun = g
    BY <2>1, <2>2, <1>1, <1>4, FrameTyped
  <2>4. QED
    BY <2>2, <2>3 DEF Frame
<1>6. /\ Len(stack') = t /\ stack' \in Seq(Activations \cup {new})
      /\ \A i \in 1 .. Top : stack'[i] = stack[i]
      /\ stack'[t] = new
  <2>1. stack' = Append(stack, new)
    BY DEF Enter
  <2>2. QED
    BY <2>1, <1>1
<1>7. /\ Top' = t /\ Addr' = Addr
      /\ \A f : Activation(f)' = Activation(f)
  <2>1. Top' = t
    BY <1>6 DEF Top
  <2>2. Addr' = Addr
    BY <1>2 DEF Addr, Funs
  <2>3. QED
    BY <2>1, <2>2, <1>2 DEF Activation, Slots
<1>8. TypeOK'
  <2>1. ASSUME NEW i \in 1 .. t
        PROVE  stack'[i].fun \in Funs(code) /\ stack'[i] \in Activation(stack'[i].fun)
    <3>1. CASE i = t
      BY <3>1, <1>4, <1>5, <1>6
    <3>2. CASE i # t
      <4>1. i \in 1 .. Top
        BY <3>2, <1>1
      <4>2. QED
        BY <4>1, <1>1, <1>6
    <3>3. QED
      BY <3>1, <3>2
  <2>2. stack' \in Seq(Activations')
    <3>1. \A i \in 1 .. Len(stack') : stack'[i] \in Activations'
      BY <1>6, <1>7 DEF Activations
    <3>2. QED
      BY <1>6, <3>1, SeqOfElements
  <2>3. \A a \in Activations' : a.fun \in Funs(code) /\ a \in Activation(a.fun)
    BY <2>1, <1>7 DEF Activations
  <2>4. stack'[1].fun = Main
    BY <1>1, <1>6 DEF TypeOK
  <2>5. Top' \in 1 .. MaxDepth /\ Undef \in Addr \cup {Undef} /\ left \in Nat /\ mainLevel \in MainLevels
    BY <1>1, <1>3, <1>7, DepthAssumption DEF TypeOK
  <2>6. QED
    BY <2>2, <2>3, <2>4, <2>5, <1>1, <1>2, <1>7 DEF TypeOK, Funs
<1>9. \A i \in 1 .. Top : \A k, j : Encloses(i, k, j)' <=> Encloses(i, k, j)
  BY <1>1, <1>2, <1>6, EnclosesSame
<1>10. ASSUME NEW i \in 1 .. Top, Filled(i)
       PROVE  Filled(i)'
  BY <1>10, <1>2, <1>6 DEF Filled, Slots
<1>11. pos \in 1 .. Top
  BY <1>3 DEF Encloses
<1>12. Encloses(t, Len(code.path[g]) - 1, p)'
  <2> DEFINE k == Len(code.path[g]) - 1
  <2>1. /\ stack[pos].fun = code.path[Cur][k]
        /\ \A m \in pos + 1 .. Top : \A l \in 1 .. k : stack[m].fun # code.path[Cur][l]
    BY <1>1, <1>3 DEF Encloses
  <2>2. k \in 1 .. k /\ k \in Nat
    BY <1>4, <1>1, PathProperties
  <2>3. stack'[pos].fun = code.path[g][k]
    BY <2>1, <2>2, <1>4, <1>6, <1>11
  <2>4. ASSUME NEW m \in pos + 1 .. t, NEW l \in 1 .. k
        PROVE  stack'[m].fun # code.path[g][l]
    <3>1. CASE m = t
      BY <3>1, <1>4, <1>5, <1>6
    <3>2. CASE m # t
      <4>1. m \in pos + 1 .. Top /\ m \in 1 .. Top
        BY <3>2, <1>1, <1>11
      <4>2. stack'[m] = stack[m] /\ code.path[g][l] = code.path[Cur][l]
        BY <1>4, <1>6, <4>1
      <4>3. QED
        BY <2>1, <4>1, <4>2
    <3>3. QED
      BY <3>1, <3>2
  <2>5. pos \in 1 .. t /\ stack'[t].fun = g
    BY <1>1, <1>5, <1>6, <1>11
  <2>6. Top' = t /\ code' = code /\ pos' = pos
    BY <1>2, <1>7
  <2>7. QED
    BY <2>3, <2>4, <2>5, <2>6 DEF Encloses
<1>13. DadEncloses'
  <2>1. ASSUME NEW i \in 2 .. Top
        PROVE  /\ stack[i].dad # NoFrame
               /\ Encloses(i, Len(code.path[stack[i].fun]) - 1, stack[i].dad)
               /\ Filled(stack[i].dad)
    BY DEF IInv, DadEncloses
  <2>2. ASSUME NEW i \in 2 .. Top
        PROVE  i \in 1 .. Top /\ stack[i].dad \in 1 .. Top
    BY <2>1, <1>1 DEF Encloses
  <2>3. ASSUME NEW i \in 2 .. Top
        PROVE  /\ stack'[i].dad # NoFrame
               /\ Encloses(i, Len(code.path[stack[i].fun]) - 1, stack[i].dad)'
               /\ Filled(stack[i].dad)'
    BY <2>1, <2>2, <1>2, <1>6, <1>9, <1>10
  <2>4. /\ pos # NoFrame /\ Encloses(t, Len(code.path[g]) - 1, p)' /\ Filled(p)'
    BY <1>2, <1>3, <1>10, <1>11, <1>12
  <2>5. ASSUME NEW i \in 2 .. t
        PROVE  /\ stack'[i].dad # NoFrame
               /\ Encloses(i, Len(code.path[stack[i].fun]) - 1, stack[i].dad)'
               /\ Filled(stack[i].dad)'
    <3>1. CASE i = t
      BY <3>1, <2>4, <1>1, <1>2, <1>5, <1>6, <1>7
    <3>2. CASE i # t
      BY <3>2, <2>3, <1>1
    <3>3. QED
      BY <3>1, <3>2
  <2>6. QED
    BY <2>5, <1>7 DEF DadEncloses
<1>14. WalkOK' /\ Verified' /\ RefusedForMain'
  BY <1>2, StaysVerified DEF WalkOK, Walking, Enter
<1>15. NoDanglingAddress'
  <2>1. ASSUME NEW a, NEW i \in 1 .. Top, Live(a, i)
        PROVE  Live(a, i)' /\ Live(a, t)'
    BY <2>1, <1>1, <1>2, <1>6, <1>7 DEF Live
  <2>2. ASSUME NEW i \in 1 .. Top
        PROVE  /\ \A x \in code.locals[stack[i].fun] : Live(stack[i].addr[x], i)
               /\ \A n \in Slots(stack[i].fun) :
                    stack[i].slots[n] # Undef => Live(stack[i].slots[n], i)
    BY DEF IInv, NoDanglingAddress
  <2>3. ASSUME NEW x \in code.locals[g]
        PROVE  Live(new.addr[x], t)'
    <3>1. CASE x \in code.refs[g]
      <4>1. new.addr[x] = reg /\ reg # Undef
        BY <3>1, <1>3 DEF Frame
      <4>2. Live(reg, Top)
        BY <4>1 DEF IInv, NoDanglingAddress
      <4>3. reg[1] \in 1 .. t /\ reg[2] \in code.locals[stack'[reg[1]].fun]
        BY <4>2, <1>1, <1>6 DEF Live
      <4>4. QED
        BY <4>1, <4>3, <1>1, <1>2, <1>7 DEF Live
    <3>2. CASE x \notin code.refs[g]
      <4>1. new.addr[x] = <<t, x>>
        BY <3>2 DEF Frame
      <4>2. QED
        BY <4>1, <1>1, <1>2, <1>5, <1>6, <1>7 DEF Live
    <3>3. QED
      BY <3>1, <3>2
  <2>4. ASSUME NEW n \in Slots(g)
        PROVE  new.slots[n] = Undef
    BY DEF Frame
  <2>5. ASSUME NEW i \in 1 .. t
        PROVE  /\ \A x \in code.locals[stack'[i].fun] : Live(stack[i].addr[x], i)'
               /\ \A n \in Slots(stack'[i].fun) :
                    stack'[i].slots[n] # Undef => Live(stack[i].slots[n], i)'
    <3>1. CASE i = t
      BY <3>1, <2>3, <2>4, <1>5, <1>6
    <3>2. CASE i # t
      <4>1. i \in 1 .. Top /\ stack'[i] = stack[i]
        BY <3>2, <1>1, <1>6
      <4>2. QED
        BY <4>1, <2>1, <2>2
    <3>3. QED
      BY <3>1, <3>2
  <2>6. Top' = t /\ reg' = Undef /\ \A f : Slots(f)' = Slots(f)
    BY <1>2, <1>7 DEF Slots
  <2>7. QED
    BY <2>5, <2>6, <1>2 DEF NoDanglingAddress
<1>16. QED
  BY <1>8, <1>13, <1>14, <1>15 DEF IInv

LEMMA ReturnInv ==
  ASSUME IInv, Return
  PROVE  IInv'
<1> PICK t : t = Top - 1
  OBVIOUS
<1>1. /\ TypeOK /\ t = Top - 1 /\ t \in Nat /\ 1 <= t /\ t < Top /\ Top \in Nat /\ Top <= MaxDepth
      /\ stack \in Seq(Activations) /\ Top = Len(stack)
      /\ \A i \in 1 .. Top : /\ stack[i].fun \in Funs(code)
                            /\ stack[i] \in Activation(stack[i].fun)
  BY StackTyped DEF IInv, TypeOK, Top, Return
<1>2. UNCHANGED <<code, mainLevel, pc, pos, left>> /\ pc = "body" /\ reg' = Undef
  BY DEF Return
<1>3. /\ Len(stack') = t /\ stack' \in Seq(Activations)
      /\ \A i \in 1 .. t : stack'[i] = stack[i]
  <2>1. stack' = SubSeq(stack, 1, t)
    BY DEF Return
  <2>2. QED
    BY <2>1, <1>1
<1>4. /\ Top' = t /\ Addr' = Addr
      /\ \A f : Activation(f)' = Activation(f) /\ Slots(f)' = Slots(f)
  <2>1. Top' = t /\ Addr' = Addr /\ \A f : Slots(f)' = Slots(f)
    BY <1>2, <1>3 DEF Top, Addr, Funs, Slots
  <2>2. QED
    BY <2>1, <1>2 DEF Activation
<1>5. TypeOK'
  <2>1. stack' \in Seq(Activations')
    <3>1. \A i \in 1 .. Len(stack') : stack'[i] \in Activations'
      BY <1>3, <1>4 DEF Activations
    <3>2. QED
      BY <1>3, <3>1, SeqOfElements
  <2>2. ASSUME NEW i \in 1 .. t
        PROVE  stack'[i].fun \in Funs(code) /\ stack'[i] \in Activation(stack'[i].fun)
    BY <1>1, <1>3
  <2>3. \A a \in Activations' : a.fun \in Funs(code) /\ a \in Activation(a.fun)
    BY <2>2, <1>4 DEF Activations
  <2>4. stack'[1].fun = Main
    BY <1>1, <1>3 DEF TypeOK
  <2>5. Top' \in 1 .. MaxDepth
    BY <1>1, <1>4, DepthAssumption
  <2>6. QED
    BY <2>1, <2>3, <2>4, <2>5, <1>1, <1>2, <1>4 DEF TypeOK, Funs
<1>6. \A i \in 1 .. t : \A k, j : Encloses(i, k, j)' <=> Encloses(i, k, j)
  BY <1>1, <1>2, <1>3, EnclosesSame
<1>7. ASSUME NEW i \in 1 .. t, Filled(i)
      PROVE  Filled(i)'
  BY <1>7, <1>2, <1>3 DEF Filled, Slots
<1>8. DadEncloses'
  <2>1. ASSUME NEW i \in 2 .. t
        PROVE  /\ stack[i].dad # NoFrame
               /\ Encloses(i, Len(code.path[stack[i].fun]) - 1, stack[i].dad)
               /\ Filled(stack[i].dad)
    BY <1>1 DEF IInv, DadEncloses
  <2>2. ASSUME NEW i \in 2 .. t
        PROVE  i \in 1 .. t /\ stack[i].dad \in 1 .. t
    BY <2>1, <1>1 DEF Encloses
  <2>3. QED
    BY <2>1, <2>2, <1>2, <1>3, <1>4, <1>6, <1>7 DEF DadEncloses
<1>9. WalkOK' /\ Verified' /\ RefusedForMain'
  BY <1>2, StaysVerified DEF WalkOK, Walking
<1>10. NoDanglingAddress'
  <2>1. ASSUME NEW i \in 1 .. t, NEW a, Live(a, i)
        PROVE  Live(a, i)'
    BY <2>1, <1>1, <1>2, <1>3, SMTT(30) DEF Live
  <2>2. ASSUME NEW i \in 1 .. t
        PROVE  /\ \A x \in code.locals[stack[i].fun] : Live(stack[i].addr[x], i)
               /\ \A n \in Slots(stack[i].fun) :
                    stack[i].slots[n] # Undef => Live(stack[i].slots[n], i)
    BY <1>1 DEF IInv, NoDanglingAddress
  <2>3. QED
    BY <2>1, <2>2, <1>2, <1>3, <1>4 DEF NoDanglingAddress
<1>11. QED
  BY <1>5, <1>8, <1>9, <1>10 DEF IInv

-----------------------------------------------------------------------------
(* The theorems *)

LEMMA StepInv ==
  ASSUME IInv, [Next]_vars
  PROVE  IInv'
<1>1. ASSUME NEW x \in code.locals[Cur], UseLocal(x) PROVE IInv'
  BY <1>1, UseLocalInv
<1>2. ASSUME NEW x \in DOMAIN code.requests[Cur], UseOuter(x) PROVE IInv'
  BY <1>2, UseOuterInv
<1>3. CASE LoadDad
  BY <1>3, LoadDadInv
<1>4. CASE LoadSlot
  BY <1>4, LoadSlotInv
<1>5. ASSUME NEW g \in code.calls[Cur], CallThroughChain(g) PROVE IInv'
  BY <1>5, CallThroughChainInv
<1>6. ASSUME NEW g \in code.calls[Cur], CallWithOwnStruct(g) PROVE IInv'
  BY <1>6, CallWithOwnStructInv
<1>7. CASE Enter
  BY <1>7, EnterInv
<1>8. CASE Return
  BY <1>8, ReturnInv
<1>9. CASE VerifyModule
  BY <1>9, VerifyModuleInv
<1>10. CASE UNCHANGED vars
  <2>1. UNCHANGED <<code, mainLevel, stack, reg, pc, want, pos, left>>
    BY <1>10 DEF vars
  <2>2. WalkOK' /\ Verified' /\ RefusedForMain'
    BY <2>1, SameStack DEF IInv, WalkOK, Walking, Goal, Verified, RefusedForMain
  <2>3. /\ pc' \in {"compiled", "refused", "body", "access", "call"}
        /\ pos' \in 0 .. MaxDepth /\ left' \in Nat
    BY <2>1 DEF IInv, TypeOK
  <2>4. QED
    BY <2>1, <2>2, <2>3, SameRegister, SameStackInv
<1>11. QED
  BY <1>1, <1>2, <1>3, <1>4, <1>5, <1>6, <1>7, <1>8, <1>9, <1>10 DEF Next, Refused

(* The strengthened invariant holds of every execution of the emitted      *)
(* code, and of the modules the verifier refuses.                          *)
THEOREM Inductive ==
  Spec => []IInv
<1>1. IInv /\ [Next]_vars => IInv'
  BY StepInv
<1>2. QED
  BY <1>1, InitInv, PTL DEF Spec

(* The machine never leaves its types: no struct or alloca is used with a  *)
(* shape other than its function's.                                        *)
THEOREM TypeCorrect ==
  Spec => []TypeOK
<1>1. IInv => TypeOK
  BY DEF IInv
<1>2. QED
  BY <1>1, Inductive, PTL

(* Every function runs with the filled struct of its innermost enclosing   *)
(* activation in field 0 (compile.cpp:805-816).                            *)
THEOREM HiddenArgumentCorrect ==
  Spec => []DadEncloses
<1>1. IInv => DadEncloses
  BY DEF IInv
<1>2. QED
  BY <1>1, Inductive, PTL

(* create_call passes the struct of the callee's own parent, whatever the  *)
(* depths of caller and callee (compile.cpp:511-541).                      *)
THEOREM CallCorrect ==
  Spec => []CalleeGetsParent
<1>1. ASSUME IInv PROVE CalleeGetsParent
  <2>1. SUFFICES ASSUME pc = "call", left = 0
                 PROVE  /\ pos # NoFrame
                        /\ Encloses(Top, Len(code.path[want]) - 1, pos)
                        /\ Filled(pos)
    BY DEF CalleeGetsParent
  <2>2. Goal = Len(code.path[want]) - 1 /\ Goal + left = Goal
    BY <1>1, <2>1, GoalPositive DEF IInv, Goal, Walking
  <2>3. QED
    BY <1>1, <2>1, <2>2 DEF IInv, WalkOK, Walking
<1>2. QED
  BY <1>1, Inductive, PTL

(* verifyModule refuses no call but one main makes, and that only for the  *)
(* word nothing has set (compile.cpp:517): the levels code generation      *)
(* counts agree with the types of the structs everywhere else.             *)
THEOREM OthersVerify ==
  Spec => []RefusedForMain
<1>1. IInv => RefusedForMain
  BY DEF IInv
<1>2. QED
  BY <1>1, Inductive, PTL

(* The slot Id::compile reads for an outer variable holds the address of   *)
(* that variable in the activation static scoping denotes                  *)
(* (compile.cpp:460-470).                                                  *)
THEOREM AccessCorrect ==
  Spec => []SlotDenotesVariable
<1>1. ASSUME IInv PROVE SlotDenotesVariable
  <2>1. SUFFICES ASSUME pc = "access", left = 0
                 PROVE  /\ pos # NoFrame
                        /\ Encloses(Top, Len(code.path[Cur]) - code.requests[Cur][want].diff, pos)
                        /\ stack[pos].slots[code.requests[Cur][want].idx] = stack[pos].addr[want]
    BY DEF SlotDenotesVariable
  <2>2. /\ Goal = Len(code.path[Cur]) - code.requests[Cur][want].diff
        /\ Goal + left = Goal
    BY <1>1, <2>1, GoalPositive DEF IInv, Goal, Walking
  <2>3. QED
    BY <1>1, <2>1, <2>2, SlotRead DEF IInv, WalkOK, Walking
<1>2. QED
  BY <1>1, Inductive, PTL

(* No address kept in a struct, passed as a VAR argument or held in a      *)
(* register outlives the activation of its variable.                       *)
THEOREM AddressesLive ==
  Spec => []NoDanglingAddress
<1>1. IInv => NoDanglingAddress
  BY DEF IInv
<1>2. QED
  BY <1>1, Inductive, PTL

-----------------------------------------------------------------------------
(* The refinement: displays                                                *)

(* Every enclosing function of an activation has an activation there.      *)
Displayed ==
  \A i \in 1 .. Top : \A k \in 1 .. Len(code.path[stack[i].fun]) :
    \E j \in 1 .. i : Encloses(i, k, j)

(* ... and only one: the display holds it. *)
DisplayRight ==
  \A i \in 1 .. Top : \A k \in 1 .. Len(code.path[stack[i].fun]) : \A j :
    Encloses(i, k, j) => Display(i)[k] = j

LEMMA DisplayEntry == TypeOK => DisplayRight
<1> SUFFICES ASSUME TypeOK, NEW i \in 1 .. Top, NEW k \in 1 .. Len(code.path[stack[i].fun]),
                    NEW j, Encloses(i, k, j)
             PROVE  Display(i)[k] = j
  BY DEF DisplayRight
<1> DEFINE chosen == CHOOSE h \in 1 .. i : Encloses(i, k, h)
<1>1. i \in Nat /\ k \in 1 .. k
  BY StackTyped
<1>2. j \in 1 .. i
  BY DEF Encloses
<1>3. chosen \in 1 .. i /\ Encloses(i, k, chosen)
  BY <1>2
<1> HIDE DEF chosen
<1>4. ASSUME NEW a, NEW b, Encloses(i, k, a), Encloses(i, k, b), a < b
      PROVE  FALSE
  <2>1. a \in 1 .. i /\ b \in 1 .. i
    BY <1>4 DEF Encloses
  <2>2. b \in a + 1 .. i
    BY <1>1, <1>4, <2>1
  <2>3. QED
    BY <1>1, <1>4, <2>2 DEF Encloses
<1>5. chosen = j
  <2>1. ~(chosen < j) /\ ~(j < chosen)
    BY <1>3, <1>4
  <2>2. QED
    BY <1>1, <1>2, <1>3, <2>1
<1>6. QED
  BY <1>5 DEF Display, chosen

LEMMA DisplayEntryNext == TypeOK' => DisplayRight'
BY DisplayEntry, PTL

(* Activations that run the same functions have the same displays.         *)
LEMMA DisplaySame ==
  ASSUME TypeOK, TypeOK', Displayed, code' = code,
         NEW n \in Nat, n <= Top, n <= Top',
         \A i \in 1 .. n : stack'[i].fun = stack[i].fun,
         NEW i \in 1 .. n
  PROVE  Display(i)' = Display(i)
<1> DEFINE m == Len(code.path[stack[i].fun])
<1>1. i \in 1 .. Top /\ i \in 1 .. Top' /\ stack'[i].fun = stack[i].fun
  <2>1. Top \in Nat /\ Top' \in Nat
    BY StackTyped DEF TypeOK
  <2>2. QED
    BY <2>1
<1>2. ASSUME NEW k \in 1 .. m PROVE Display(i)'[k] = Display(i)[k]
  <2>1. PICK j \in 1 .. i : Encloses(i, k, j)
    BY <1>1 DEF Displayed
  <2>2. Display(i)[k] = j
    BY <1>1, <2>1, DisplayEntry DEF DisplayRight
  <2>3. Encloses(i, k, j)'
    BY <2>1, EnclosesSame
  <2>4. Display(i)'[k] = j
    BY <1>1, <2>3, DisplayEntryNext DEF DisplayRight
  <2>5. QED
    BY <2>2, <2>4
<1>3. /\ Display(i) = [k \in 1 .. m |-> Display(i)[k]]
      /\ Display(i)' = [k \in 1 .. m |-> Display(i)'[k]]
  BY <1>1 DEF Display
<1>4. QED
  BY <1>2, <1>3
(* The activations static scoping sees.                                    *)
Frames ==
  [i \in 1 .. Top |-> [fun |-> stack[i].fun, display |-> Display(i), bind |-> stack[i].addr]]

LEMMA SeqOfFunction ==
  ASSUME NEW n \in Nat, NEW f, f = [i \in 1 .. n |-> f[i]]
  PROVE  f \in Seq({ f[i] : i \in 1 .. n }) /\ Len(f) = n
<1> DEFINE T == { f[i] : i \in 1 .. n }
<1>1. f \in [1 .. n -> T]
  <2>1. \A i \in 1 .. n : f[i] \in T
    OBVIOUS
  <2> HIDE DEF T
  <2>2. QED
    BY <2>1
<1> HIDE DEF T
<1>2. f \in Seq(T) /\ DOMAIN f = 1 .. n
  BY <1>1
<1>3. Len(f) = n
  BY <1>2
<1>4. QED
  BY <1>2, <1>3 DEF T

LEMMA FramesProperties ==
  ASSUME TypeOK
  PROVE  /\ \E S : Frames \in Seq(S)
         /\ Len(Frames) = Top
         /\ \A i \in 1 .. Top :
              Frames[i] = [fun |-> stack[i].fun, display |-> Display(i), bind |-> stack[i].addr]
<1>1. Top \in Nat /\ Frames = [i \in 1 .. Top |-> Frames[i]]
  BY StackTyped DEF Frames
<1>2. Frames \in Seq({ Frames[i] : i \in 1 .. Top }) /\ Len(Frames) = Top
  BY <1>1, SeqOfFunction
<1>3. QED
  BY <1>2 DEF Frames

LEMMA DisplayProperties ==
  ASSUME TypeOK, Displayed, NEW i \in 1 .. Top
  PROVE  /\ Display(i) \in Seq(1 .. i)
         /\ Len(Display(i)) = Len(code.path[stack[i].fun])
<1> DEFINE m == Len(code.path[stack[i].fun])
<1>1. m \in Nat
  BY StackTyped, ProgramOK, PathProperties DEF TypeOK
<1>2. ASSUME NEW k \in 1 .. m PROVE Display(i)[k] \in 1 .. i
  <2>1. PICK j \in 1 .. i : Encloses(i, k, j)
    BY DEF Displayed
  <2>2. QED
    BY <2>1, DisplayEntry DEF DisplayRight
<1>3. Display(i) = [k \in 1 .. m |-> Display(i)[k]]
  BY DEF Display
<1>4. Display(i) \in [1 .. m -> 1 .. i]
  BY <1>2, <1>3
<1>5. QED
  BY <1>1, <1>4

RInv == IInv /\ Displayed

(* Steps that keep what activations run and what their variables denote.   *)
LEMMA FramesSame ==
  ASSUME RInv, TypeOK', code' = code, Top' = Top,
         \A i \in 1 .. Top : stack'[i].fun = stack[i].fun /\ stack'[i].addr = stack[i].addr
  PROVE  Displayed' /\ Frames' = Frames
<1>1. TypeOK /\ Displayed /\ Top \in Nat
  BY StackTyped DEF RInv, IInv
<1>2. \A i \in 1 .. Top : Display(i)' = Display(i)
  BY <1>1, DisplaySame
<1>3. \A i \in 1 .. Top : \A k, j : Encloses(i, k, j)' <=> Encloses(i, k, j)
  BY <1>1, EnclosesSame
<1>4. Displayed'
  BY <1>1, <1>3 DEF Displayed
<1>5. Frames' = [i \in 1 .. Top |-> [fun |-> stack[i].fun, display |-> Display(i),
                                    bind |-> stack[i].addr]]
  <2>1. Frames' = [i \in 1 .. Top' |-> [fun |-> stack'[i].fun, display |-> Display(i)',
                                       bind |-> stack'[i].addr]]
    BY DEF Frames
  <2>2. QED
    BY <1>2, <2>1
<1>6. QED
  BY <1>4, <1>5 DEF Frames

-----------------------------------------------------------------------------
(* The refinement: steps                                                   *)

(* Scoping!Current is the running activation. *)
LEMMA CurrentFrame ==
  ASSUME RInv
  PROVE  /\ Len(Frames) = Top /\ Top \in Nat /\ Top >= 1 /\ Top \in 1 .. Top
         /\ Frames[Len(Frames)] = [fun |-> Cur, display |-> Display(Top), bind |-> stack[Top].addr]
         /\ Display(Top) \in Seq(1 .. Top) /\ Len(Display(Top)) = Len(code.path[Cur])
<1>1. TypeOK /\ Displayed /\ Top \in Nat /\ Top >= 1 /\ Top \in 1 .. Top
  BY StackTyped DEF RInv, IInv
<1>2. QED
  BY <1>1, FramesProperties, DisplayProperties DEF Cur

LEMMA UseLocalMaps ==
  ASSUME RInv, TypeOK', NEW x \in code.locals[Cur], UseLocal(x)
  PROVE  Displayed' /\ Scoping!Next
<1>1. UNCHANGED <<code, stack>> /\ Top' = Top /\ reg' = stack[Top].addr[x]
  BY DEF UseLocal, Top
<1>2. Displayed' /\ Frames' = Frames
  BY <1>1, FramesSame
<1>3. Scoping!Local(x)
  BY <1>1, <1>2, CurrentFrame DEF Scoping!Local, Scoping!Current, Frames
<1>4. x \in code.locals[Scoping!Current.fun]
  BY CurrentFrame DEF Scoping!Current, Frames
<1>5. QED
  BY <1>2, <1>3, <1>4 DEF Scoping!Next
(* Id::compile reads through the structs what the display gives.           *)
LEMMA LoadSlotMaps ==
  ASSUME RInv, TypeOK', LoadSlot
  PROVE  Displayed' /\ Scoping!Next
<1> DEFINE depth == Len(code.path[Cur]) - code.requests[Cur][want].diff
<1>1. UNCHANGED <<code, stack>> /\ Top' = Top /\ pc = "access" /\ left = 0
  BY DEF LoadSlot, Top
<1>2. Displayed' /\ Frames' = Frames
  BY <1>1, FramesSame
<1>3. pos \in 1 .. Top /\ reg' = stack[pos].addr[want]
  BY <1>1, SlotRead DEF LoadSlot, RInv
<1>4. want \in DOMAIN code.requests[Cur] /\ Goal = depth /\ Goal \in Nat /\ Goal >= 1
  BY <1>1, GoalPositive DEF RInv, IInv, WalkOK, Walking, Goal
<1>5. Encloses(Top, depth, pos) /\ depth \in 1 .. Len(code.path[Cur])
  <2>1. Goal + left = depth /\ Goal + left <= Len(code.path[Cur])
    BY <1>1, <1>4 DEF RInv, IInv, WalkOK, Walking
  <2>2. Len(code.path[Cur]) \in Nat
    BY CurrentFrame
  <2>3. QED
    BY <1>1, <1>4, <2>1, <2>2 DEF RInv, IInv, WalkOK, Walking
<1>6. Display(Top)[depth] = pos
  BY <1>5, CurrentFrame, DisplayEntry DEF DisplayRight, RInv, IInv, Cur
<1>7. Frames[pos].bind[want] = reg'
  BY <1>3, FramesProperties DEF RInv, IInv
<1>8. Scoping!Outer(want)
  BY <1>1, <1>2, <1>4, <1>6, <1>7, CurrentFrame DEF Scoping!Outer, Scoping!Current, Frames
<1>9. want \in DOMAIN code.requests[Scoping!Current.fun]
  BY <1>4, CurrentFrame DEF Scoping!Current, Frames
<1>10. QED
  BY <1>2, <1>8, <1>9 DEF Scoping!Next

(* The walks themselves are not seen. *)
LEMMA WalkMaps ==
  ASSUME RInv, TypeOK', UNCHANGED <<code, stack, reg>>
  PROVE  Displayed' /\ UNCHANGED Scoping!absVars
<1>1. Displayed' /\ Frames' = Frames
  BY FramesSame DEF Top
<1>2. QED
  BY <1>1 DEF Scoping!absVars, Frames

LEMMA CallWithOwnStructMaps ==
  ASSUME RInv, TypeOK', NEW g \in code.calls[Cur], CallWithOwnStruct(g)
  PROVE  Displayed' /\ UNCHANGED Scoping!absVars
<1> DEFINE stored == [n \in Slots(Cur) |-> stack[Top].addr[code.provides[Cur][n]]]
           r == [stack[Top] EXCEPT !.slots = stored]
<1>1. /\ TypeOK /\ Top \in 1 .. Len(stack) /\ Top = Len(stack) /\ stack \in Seq(Activations)
      /\ stack[Top] \in Activation(Cur)
  BY StackTyped DEF RInv, IInv, TypeOK, Top, Cur
<1>2. stack' = [stack EXCEPT ![Top] = r] /\ UNCHANGED <<code, reg>>
  BY DEF CallWithOwnStruct
<1> HIDE DEF stored
<1>3. r.fun = stack[Top].fun /\ r.addr = stack[Top].addr
  BY <1>1 DEF Activation
<1> HIDE DEF r
<1>4. /\ Len(stack') = Len(stack)
      /\ \A i \in 1 .. Len(stack) : i # Top => stack'[i] = stack[i]
      /\ stack'[Top] = r
  BY <1>1, <1>2, StoreElement
<1>5. /\ Top' = Top
      /\ \A i \in 1 .. Top : stack'[i].fun = stack[i].fun /\ stack'[i].addr = stack[i].addr
  BY <1>1, <1>3, <1>4 DEF Top
<1>6. Displayed' /\ Frames' = Frames
  BY <1>2, <1>5, FramesSame
<1>7. QED
  BY <1>2, <1>6 DEF Scoping!absVars, Frames

(* What a call and a return leave of the activations below.                *)
LEMMA FramesBelow ==
  ASSUME RInv, TypeOK', code' = code, NEW n \in Nat, n <= Top, n <= Top',
         \A i \in 1 .. n : stack'[i] = stack[i]
  PROVE  /\ \A i \in 1 .. n : Frames'[i] = Frames[i]
         /\ \A i \in 1 .. n : \A k \in 1 .. Len(code.path[stack[i].fun]) :
              \E j \in 1 .. i : Encloses(i, k, j)'
<1>1. TypeOK /\ Displayed /\ Top \in Nat /\ Top' \in Nat
  BY StackTyped DEF RInv, IInv, TypeOK
<1>2. \A i \in 1 .. n : Display(i)' = Display(i)
  BY <1>1, DisplaySame
<1>3. \A i \in 1 .. n : \A k, j : Encloses(i, k, j)' <=> Encloses(i, k, j)
  BY EnclosesSame
<1>4. \A i \in 1 .. n : i \in 1 .. Top /\ i \in 1 .. Top'
  BY <1>1
<1>5. \A i \in 1 .. n : Frames'[i] = Frames[i]
  <2> SUFFICES ASSUME NEW i \in 1 .. n PROVE Frames'[i] = Frames[i]
    OBVIOUS
  <2>1. Frames'[i] = [fun |-> stack'[i].fun, display |-> Display(i)', bind |-> stack'[i].addr]
    BY <1>4 DEF Frames
  <2>2. Frames[i] = [fun |-> stack[i].fun, display |-> Display(i), bind |-> stack[i].addr]
    BY <1>4 DEF Frames
  <2>3. QED
    BY <1>2, <2>1, <2>2
<1>6. QED
  BY <1>1, <1>3, <1>4, <1>5 DEF Displayed

FramesSequence == Len(Frames) = Top /\ Top \in Nat /\ \E S : Frames \in Seq(S)

LEMMA FramesAre == TypeOK => FramesSequence
BY FramesProperties, StackTyped DEF FramesSequence

LEMMA FramesAreNext == TypeOK' => FramesSequence'
BY FramesAre, PTL

LEMMA ReturnMaps ==
  ASSUME RInv, TypeOK', Return
  PROVE  Displayed' /\ Scoping!Return
<1> PICK t : t = Top - 1
  OBVIOUS
<1>1. /\ TypeOK /\ t = Top - 1 /\ t \in Nat /\ t <= Top /\ Top > 1 /\ Top \in Nat
      /\ stack \in Seq(Activations) /\ Top = Len(stack)
  BY StackTyped DEF RInv, IInv, TypeOK, Top, Return
<1>2. code' = code /\ reg' = Undef
  BY DEF Return
<1>3. /\ Len(stack') = t /\ \A i \in 1 .. t : stack'[i] = stack[i]
  <2>1. stack' = SubSeq(stack, 1, t)
    BY DEF Return
  <2>2. QED
    BY <2>1, <1>1
<1>4. Top' = t
  BY <1>3 DEF Top
<1>5. /\ \A i \in 1 .. t : Frames'[i] = Frames[i]
      /\ \A i \in 1 .. t : \A k \in 1 .. Len(code.path[stack[i].fun]) :
           \E j \in 1 .. i : Encloses(i, k, j)'
  <2>1. t \in Nat /\ t <= Top /\ t <= Top'
    BY <1>1, <1>4
  <2>2. QED
    BY <1>2, <1>3, <2>1, FramesBelow
<1>6. Displayed'
  BY <1>2, <1>3, <1>4, <1>5 DEF Displayed
<1>7. Frames' = SubSeq(Frames, 1, t)
  <2>1. PICK S : Frames \in Seq(S)
    BY <1>1, FramesProperties
  <2>2. Len(Frames) = Top
    BY <1>1, FramesProperties
  <2>3. SubSeq(Frames, 1, t) = [i \in 1 .. t |-> Frames[i]]
    BY <1>1, <2>1, <2>2
  <2>4. Frames' = [i \in 1 .. t |-> Frames'[i]]
    BY <1>4 DEF Frames
  <2>5. QED
    BY <1>5, <2>3, <2>4
<1>8. Len(Frames) = Top /\ t = Len(Frames) - 1
  BY <1>1, FramesProperties
<1>9. QED
  BY <1>1, <1>2, <1>6, <1>7, <1>8 DEF Scoping!Return, Frames
LEMMA AppendIs ==
  ASSUME NEW S, NEW s \in Seq(S), NEW e
  PROVE  Append(s, e) = [i \in 1 .. Len(s) + 1 |-> IF i = Len(s) + 1 THEN e ELSE s[i]]
<1> DEFINE T == S \cup {e}
<1>1. \A i \in 1 .. Len(s) : s[i] \in T
  OBVIOUS
<1> HIDE DEF T
<1>2. s \in Seq(T)
  BY <1>1, SeqOfElements
<1>3. e \in T
  BY DEF T
<1>4. Append(s, e) \in Seq(T) /\ Len(Append(s, e)) = Len(s) + 1 /\ Len(s) \in Nat
  BY <1>2, <1>3
<1>5. /\ \A i \in 1 .. Len(s) : Append(s, e)[i] = s[i]
      /\ Append(s, e)[Len(s) + 1] = e
  BY <1>2, <1>3
<1>6. Append(s, e) = [i \in 1 .. Len(s) + 1 |-> Append(s, e)[i]]
  <2> DEFINE u == Append(s, e)
  <2> HIDE DEF u
  <2>1. u \in Seq(T) /\ Len(u) = Len(s) + 1
    BY <1>4 DEF u
  <2>2. DOMAIN u = 1 .. Len(u) /\ u = [i \in DOMAIN u |-> u[i]]
    BY <2>1
  <2>3. u = [i \in 1 .. Len(s) + 1 |-> u[i]]
    BY <2>1, <2>2
  <2>4. QED
    BY <2>3 DEF u
<1>7. QED
  BY <1>4, <1>5, <1>6

LEMMA PrefixIs ==
  ASSUME NEW S, NEW s \in Seq(S), NEW m \in Nat, m <= Len(s)
  PROVE  /\ SubSeq(s, 1, m) \in Seq(S)
         /\ Len(SubSeq(s, 1, m)) = m
         /\ \A i \in 1 .. m : SubSeq(s, 1, m)[i] = s[i]
<1>1. \A i \in 1 .. m : s[i] \in S
  OBVIOUS
<1>2. SubSeq(s, 1, m) = [i \in 1 .. m |-> s[i]]
  OBVIOUS
<1>3. SubSeq(s, 1, m) \in [1 .. m -> S]
  BY <1>1, <1>2
<1>4. SubSeq(s, 1, m) \in Seq(S) /\ Len(SubSeq(s, 1, m)) = m
  BY <1>3
<1>5. QED
  BY <1>2, <1>4

(* CreateCall: the callee's display is the caller's as far as both are     *)
(* nested in the same functions, and the callee itself.                    *)
LEMMA EnterMaps ==
  ASSUME RInv, IInv', Enter
  PROVE  Displayed' /\ Scoping!Next
<1> PICK g, t, new, n : /\ g = want /\ t = Top + 1 /\ new = Frame(want, Top + 1, pos, reg)
                        /\ n = Len(code.path[want])
  OBVIOUS
<1>1. /\ g = want /\ t = Top + 1 /\ new = Frame(g, t, pos, reg) /\ n = Len(code.path[g])
      /\ TypeOK /\ TypeOK' /\ Top \in Nat /\ Top >= 1 /\ t \in Nat /\ Cur \in Funs(code)
      /\ NestingOK(code) /\ LinkingOK(code) /\ Cur = stack[Top].fun
      /\ stack \in Seq(Activations) /\ Top = Len(stack)
  BY StackTyped, ProgramOK DEF RInv, IInv, TypeOK, Top, Cur
<1>2. code' = code /\ reg' = Undef /\ pc = "call" /\ left = 0 /\ stack' = Append(stack, new)
  BY DEF Enter
<1>3. g \in code.calls[Cur] /\ Top < MaxDepth /\ (code.refs[g] # {} => reg # Undef)
  BY <1>2 DEF RInv, IInv, WalkOK, Walking
<1>4. /\ g \in Funs(code) /\ n \in Nat /\ n - 1 \in 1 .. Len(code.path[Cur])
      /\ code.path[g][n] = g
      /\ \A k \in 1 .. n - 1 : code.path[g][k] = code.path[Cur][k] /\ code.path[g][k] # g
      /\ Len(code.path[Cur]) \in Nat
  <2>1. g \in Funs(code) /\ Visible(code, Cur, g)
    BY <1>1, <1>3 DEF LinkingOK
  <2>2. NestingOK(code) /\ Cur \in Funs(code)
    BY <1>1
  <2>3. /\ Len(code.path[g]) - 1 \in 1 .. Len(code.path[Cur])
        /\ \A k \in 1 .. Len(code.path[g]) - 1 : code.path[g][k] = code.path[Cur][k] /\ code.path[g][k] # g
    BY <2>1, <2>2, VisibleProperties
  <2>4. Len(code.path[g]) \in Nat /\ code.path[g][Len(code.path[g])] = g /\ Len(code.path[Cur]) \in Nat
    BY <2>1, <2>2, PathProperties
  <2>5. QED
    BY <1>1, <2>1, <2>3, <2>4
<1>5. new.fun = g /\ new.addr = Scoping!Binding(g, t, reg)
  BY DEF Frame, Scoping!Binding
<1>6. /\ Len(stack') = t /\ \A i \in 1 .. Top : stack'[i] = stack[i]
      /\ stack'[t] = new
  BY <1>1, <1>2
<1>7. Top' = t /\ Top' \in 1 .. t
  BY <1>1, <1>6 DEF Top
<1>8. /\ \A i \in 1 .. Top : Frames'[i] = Frames[i]
      /\ \A i \in 1 .. Top : \A k \in 1 .. Len(code.path[stack[i].fun]) :
           \E j \in 1 .. i : Encloses(i, k, j)'
  <2>1. Top \in Nat /\ Top <= Top /\ Top <= Top'
    BY <1>1, <1>7
  <2>2. QED
    BY <1>1, <1>2, <1>6, <2>1, FramesBelow
<1>9. ASSUME NEW k \in 1 .. n - 1, NEW j \in 1 .. Top, Encloses(Top, k, j)
      PROVE  Encloses(t, k, j)'
  <2>1. /\ stack[j].fun = code.path[Cur][k]
        /\ \A m \in j + 1 .. Top : \A l \in 1 .. k : stack[m].fun # code.path[Cur][l]
    BY <1>1, <1>9 DEF Encloses
  <2>2. ASSUME NEW m \in j + 1 .. t, NEW l \in 1 .. k
        PROVE  stack'[m].fun # code.path[g][l]
    <3>1. l \in 1 .. n - 1
      BY <1>4
    <3>2. CASE m = t
      BY <1>4, <1>5, <1>6, <3>1, <3>2
    <3>3. CASE m # t
      <4>1. m \in j + 1 .. Top /\ m \in 1 .. Top
        BY <1>1, <3>3
      <4>2. stack'[m] = stack[m] /\ code.path[g][l] = code.path[Cur][l]
        BY <1>4, <1>6, <3>1, <4>1
      <4>3. QED
        BY <2>1, <4>1, <4>2
    <3>4. QED
      BY <3>2, <3>3
  <2>3. /\ j \in 1 .. t /\ stack'[j].fun = code.path[g][k] /\ stack'[t].fun = g
    <3>1. j \in 1 .. t
      BY <1>1
    <3>2. stack'[j].fun = code.path[g][k]
      BY <1>4, <1>6, <2>1
    <3>3. stack'[t].fun = g
      BY <1>5, <1>6
    <3>4. QED
      BY <3>1, <3>2, <3>3
  <2>4. code' = code
    BY <1>2
  <2>5. QED
    BY <2>2, <2>3, <2>4 DEF Encloses
<1>10. Encloses(t, n, t)'
  <2>1. t \in 1 .. t /\ t + 1 .. t = {}
    BY <1>1
  <2>2. stack'[t].fun = g /\ code.path[g][n] = g
    BY <1>4, <1>5, <1>6
  <2>3. QED
    BY <1>2, <2>1, <2>2 DEF Encloses
<1>11. ASSUME NEW k \in 1 .. n - 1
       PROVE  \E j \in 1 .. Top : Display(Top)[k] = j /\ Encloses(t, k, j)'
  <2>1. Top \in 1 .. Top /\ k \in 1 .. Len(code.path[stack[Top].fun])
    BY <1>1, <1>4
  <2>2. PICK j \in 1 .. Top : Encloses(Top, k, j)
    BY <2>1 DEF RInv, Displayed
  <2>3. Display(Top)[k] = j
    BY <1>1, <2>1, <2>2, DisplayEntry DEF DisplayRight
  <2>4. QED
    BY <1>9, <2>2, <2>3
<1>12. Displayed'
  <2>1. ASSUME NEW i \in 1 .. t, NEW k \in 1 .. Len(code.path[stack'[i].fun])
        PROVE  \E j \in 1 .. i : Encloses(i, k, j)'
    <3>1. CASE i # t
      <4>1. i \in 1 .. Top /\ stack'[i] = stack[i]
        BY <1>1, <1>6, <3>1
      <4>2. QED
        BY <1>8, <4>1
    <3>2. CASE i = t
      <4>1. k \in 1 .. n - 1 \/ k = n
        BY <1>4, <1>5, <1>6, <3>2
      <4>2. t \in 1 .. t /\ \A j \in 1 .. Top : j \in 1 .. t
        BY <1>1
      <4>3. CASE k = n
        BY <1>10, <3>2, <4>2, <4>3
      <4>4. CASE k \in 1 .. n - 1
        <5>1. PICK j \in 1 .. Top : Encloses(t, k, j)'
          BY <1>11, <4>4
        <5>2. QED
          BY <3>2, <4>2, <5>1
      <4>5. QED
        BY <4>1, <4>3, <4>4
    <3>3. QED
      BY <3>1, <3>2
  <2>2. QED
    BY <1>2, <1>7, <2>1 DEF Displayed
<1>13. Display(t)' = Append(SubSeq(Display(Top), 1, n - 1), t)
  <2>1. Display(Top) \in Seq(1 .. Top) /\ Len(Display(Top)) = Len(code.path[Cur])
    BY CurrentFrame
  <2>2. \A k \in 1 .. n - 1 : Display(t)'[k] = Display(Top)[k]
    <3> SUFFICES ASSUME NEW k \in 1 .. n - 1 PROVE Display(t)'[k] = Display(Top)[k]
      OBVIOUS
    <3>1. PICK j \in 1 .. Top : Display(Top)[k] = j /\ Encloses(t, k, j)'
      BY <1>11
    <3>2. k \in 1 .. Len(code'.path[stack'[t].fun]) /\ t \in 1 .. Top'
      BY <1>2, <1>4, <1>5, <1>6, <1>7
    <3>3. QED
      BY <1>1, <3>1, <3>2, DisplayEntryNext DEF DisplayRight
  <2>3. Display(t)'[n] = t
    <3>1. n \in 1 .. Len(code'.path[stack'[t].fun]) /\ t \in 1 .. Top'
      BY <1>2, <1>4, <1>5, <1>6, <1>7, SMTT(30)
    <3>2. QED
      BY <1>1, <1>10, <3>1, DisplayEntryNext DEF DisplayRight
  <2>4. Display(t)' = [k \in 1 .. n |-> Display(t)'[k]]
    BY <1>2, <1>5, <1>6 DEF Display
  <2> DEFINE m == n - 1
             caller == Display(Top)
             callee == Display(t)'
  <2>5. m \in Nat /\ m + 1 = n /\ m <= Len(caller) /\ caller \in Seq(1 .. Top)
    BY <1>4, <2>1
  <2>6. /\ callee = [k \in 1 .. m + 1 |-> callee[k]] /\ callee[m + 1] = t
        /\ \A k \in 1 .. m : callee[k] = caller[k]
    BY <2>2, <2>3, <2>4, <2>5
  <2>7. callee = Append(SubSeq(caller, 1, m), t)
    <3> HIDE DEF m, caller, callee
    <3> DEFINE prefix == SubSeq(caller, 1, m)
    <3>1. /\ prefix \in Seq(1 .. Top) /\ Len(prefix) = m
          /\ \A k \in 1 .. m : prefix[k] = caller[k]
      BY <2>5, PrefixIs
    <3> HIDE DEF prefix
    <3>2. Append(prefix, t) = [k \in 1 .. m + 1 |-> IF k = m + 1 THEN t ELSE prefix[k]]
      BY <3>1, AppendIs
    <3>3. \A k \in 1 .. m + 1 : callee[k] = IF k = m + 1 THEN t ELSE prefix[k]
      <4> SUFFICES ASSUME NEW k \in 1 .. m + 1
                   PROVE  callee[k] = IF k = m + 1 THEN t ELSE prefix[k]
        OBVIOUS
      <4>1. CASE k = m + 1
        BY <2>6, <4>1
      <4>2. CASE k \in 1 .. m
        <5>1. k # m + 1
          BY <2>5, <4>2
        <5>2. callee[k] = caller[k]
          BY <2>6, <4>2
        <5>3. prefix[k] = caller[k]
          BY <3>1, <4>2
        <5>4. QED
          BY <5>1, <5>2, <5>3
      <4>3. QED
        BY <2>5, <4>1, <4>2
    <3>4. QED
      BY <2>6, <3>2, <3>3 DEF prefix
  <2>8. QED
    BY <2>7
<1>14. Frames' = Append(Frames, [fun |-> g,
                                display |-> Append(SubSeq(Display(Top), 1, n - 1), t),
                                bind |-> Scoping!Binding(g, t, reg)])
  <2> DEFINE new_ == [fun |-> g, display |-> Display(t)', bind |-> Scoping!Binding(g, t, reg)]
  <2>1. PICK S : Frames \in Seq(S)
    BY <1>1, FramesProperties
  <2>2. Len(Frames) = Top
    BY <1>1, FramesProperties
  <2>3. Frames'[t] = new_
    BY <1>5, <1>6, <1>7 DEF Frames
  <2>4. Frames' = [i \in 1 .. t |-> Frames'[i]]
    BY <1>7 DEF Frames
  <2> HIDE DEF new_
  <2>5. Append(Frames, new_) = [i \in 1 .. Top + 1 |-> IF i = Top + 1 THEN new_ ELSE Frames[i]]
    <3>1. Len(Frames) \in Nat /\ Frames = [i \in 1 .. Top |-> Frames[i]]
      BY <1>1, <2>2 DEF Frames
    <3> HIDE DEF Frames
    <3>2. Append(Frames, new_) =
            [i \in 1 .. Len(Frames) + 1 |-> IF i = Len(Frames) + 1 THEN new_ ELSE Frames[i]]
      BY <2>1, AppendIs
    <3>3. QED
      BY <2>2, <3>2
  <2>6. Frames' = Append(Frames, new_)
    BY <1>1, <1>8, <2>3, <2>4, <2>5
  <2>7. QED
    BY <1>13, <2>6 DEF new_
<1>15. Scoping!Call(g)
  BY <1>2, <1>3, <1>14, CurrentFrame DEF Scoping!Call, Scoping!Current, Frames
<1>16. g \in code.calls[Scoping!Current.fun]
  BY <1>3, CurrentFrame DEF Scoping!Current, Frames
<1>17. QED
  BY <1>12, <1>15, <1>16 DEF Scoping!Next
-----------------------------------------------------------------------------

LEMMA InitMaps == Init => RInv /\ Scoping!Init
<1> SUFFICES ASSUME Init PROVE RInv /\ Scoping!Init
  OBVIOUS
<1>1. IInv /\ TypeOK /\ code \in Programs /\ NestingOK(code)
  BY InitInv, ProgramOK DEF IInv, TypeOK
<1>2. Top = 1 /\ stack[1] = Frame(Main, 1, NoFrame, Undef)
  BY DEF Init, Top
<1>3. stack[1].fun = Main /\ stack[1].addr = Scoping!Binding(Main, 1, Undef)
  BY <1>2 DEF Frame, Scoping!Binding
<1>4. Len(code.path[Main]) = 1 /\ code.path[Main][1] = Main
  BY <1>1, DepthOfMain, PathProperties DEF NestingOK
<1>5. Encloses(1, 1, 1)
  BY <1>3, <1>4 DEF Encloses
<1>6. Displayed
  <2>1. \A i \in 1 .. Top : i = 1
    BY <1>2
  <2>2. \A k \in 1 .. Len(code.path[stack[1].fun]) : k = 1
    BY <1>3, <1>4
  <2>3. 1 \in 1 .. 1
    OBVIOUS
  <2>4. QED
    BY <1>5, <2>1, <2>2, <2>3 DEF Displayed
<1>7. Display(1)[1] = 1
  BY <1>1, <1>2, <1>3, <1>4, <1>5, DisplayEntry DEF DisplayRight
<1>8. Display(1) = <<1>>
  <2>1. Display(1) = [k \in 1 .. 1 |-> Display(1)[k]]
    BY <1>3, <1>4 DEF Display
  <2>2. QED
    BY <1>7, <2>1
<1>9. Frames = << [fun |-> Main, display |-> <<1>>, bind |-> Scoping!Binding(Main, 1, Undef)] >>
  <2>1. Frames = [i \in 1 .. 1 |-> Frames[i]]
    BY <1>2 DEF Frames
  <2>2. Frames[1] = [fun |-> Main, display |-> <<1>>, bind |-> Scoping!Binding(Main, 1, Undef)]
    BY <1>2, <1>3, <1>8 DEF Frames
  <2>3. QED
    BY <2>1, <2>2
<1>10. Scoping!Init
  BY <1>1, <1>9 DEF Scoping!Init, Frames, Init
<1>11. QED
  BY <1>1, <1>6, <1>10 DEF RInv

LEMMA StepMaps ==
  ASSUME RInv, [Next]_vars
  PROVE  RInv' /\ [Scoping!Next]_(Scoping!absVars)
<1>1. IInv' /\ TypeOK'
  BY StepInv DEF RInv, IInv
<1> SUFFICES Displayed' /\ [Scoping!Next]_(Scoping!absVars)
  BY <1>1 DEF RInv
<1>2. ASSUME NEW x \in code.locals[Cur], UseLocal(x)
      PROVE  Displayed' /\ [Scoping!Next]_(Scoping!absVars)
  BY <1>1, <1>2, UseLocalMaps
<1>3. CASE LoadSlot
  BY <1>1, <1>3, LoadSlotMaps
<1>4. CASE UNCHANGED <<code, stack, reg>>
  BY <1>1, <1>4, WalkMaps
<1>5. ASSUME NEW g \in code.calls[Cur], CallWithOwnStruct(g)
      PROVE  Displayed' /\ [Scoping!Next]_(Scoping!absVars)
  BY <1>1, <1>5, CallWithOwnStructMaps
<1>6. CASE Enter
  BY <1>1, <1>6, EnterMaps
<1>7. CASE Return
  BY <1>1, <1>7, ReturnMaps DEF Scoping!Next
<1>8. ASSUME NEW x \in DOMAIN code.requests[Cur], UseOuter(x) PROVE UNCHANGED <<code, stack, reg>>
  BY <1>8 DEF UseOuter
<1>9. ASSUME NEW g \in code.calls[Cur], CallThroughChain(g) PROVE UNCHANGED <<code, stack, reg>>
  BY <1>9 DEF CallThroughChain
<1>10. LoadDad => UNCHANGED <<code, stack, reg>>
  BY DEF LoadDad
<1>11. UNCHANGED vars => UNCHANGED <<code, stack, reg>>
  BY DEF vars
<1>13. VerifyModule => UNCHANGED <<code, stack, reg>>
  BY DEF VerifyModule
<1>12. QED
  BY <1>13, <1>2, <1>3, <1>4, <1>5, <1>6, <1>7, <1>8, <1>9, <1>10, <1>11 DEF Next, Refused

(* The code emitted for nested functions, its structs, slots and walks,    *)
(* implements static scoping: every call, return and use of a variable is  *)
(* what StaticScoping says, and the walks in between are not seen.  A      *)
(* module verifyModule refuses does nothing.                               *)
THEOREM Refinement ==
  Spec => ImplementsScoping
<1>1. Init => RInv /\ Scoping!Init
  BY InitMaps
<1>2. RInv /\ [Next]_vars => RInv' /\ [Scoping!Next]_(Scoping!absVars)
  BY StepMaps
<1>3. QED
  BY <1>1, <1>2, PTL DEF Spec, ImplementsScoping, Scoping!AbsSpec
=============================================================================

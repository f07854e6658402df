----------------------------- MODULE ControlFlow -----------------------------
(***************************************************************************)
(* Code generation for the statements of one routine: the basic blocks     *)
(* IfThenElse, While, Label, GoTo and ReturnStmt create, the branches they *)
(* end them with, the flag BBended that says a branch is not wanted, the   *)
(* patching of gotos when the scope of the routine closes, the check of    *)
(* the module, and then a run of the blocks.                               *)
(*                                                                         *)
(* The routine is whatever the actions spell out; its tokens are those of  *)
(* StructuredFlow.  An instruction carries the token it was emitted for.   *)
(***************************************************************************)
EXTENDS Integers, Sequences

CONSTANTS
  Labels,      \* the labels the routine declares
  Routines,    \* the kinds of routines considered
  MaxTokens    \* bound on the length of a routine

(* kind is what is compiled, found is whose variable lookup("result")      *)
(* finds: the routine's own, that of an enclosing function, or none.       *)
ASSUME RoutinesAssumption ==
  Routines \subseteq
    { [kind |-> "main", found |-> "none"], [kind |-> "function", found |-> "own"],
      [kind |-> "procedure", found |-> "none"], [kind |-> "procedure", found |-> "outer"] }

VARIABLES
  routine,     \* the routine compiled
  source,      \* its tokens so far
  blocks,      \* its basic blocks, each a sequence of instructions; 1 is entry
  insertBlock, \* the block the Builder appends to
  BBended,     \* the flag of that name
  open,        \* the if and while statements whose compile() has not returned
  labels,      \* Label::basic_block, for every label placed
  gotos,       \* the gotos to patch: [label, block, at]
  phase,       \* "compile", "refused" by verifyModule, "run" or "done"
  pc,          \* the instruction to run: [block, index]
  cond,        \* the outcome of the condition evaluated last
  beat         \* flips with every instruction that is not a plain branch

compiling == <<routine, source, blocks, insertBlock, BBended, open, labels, gotos>>
running == <<pc, cond, beat>>
vars == <<compiling, phase, running>>

Entry == [block |-> 1, index |-> 1]

Init ==
  /\ routine \in Routines
  /\ source = << >>
  /\ blocks = << << >> >> /\ insertBlock = 1
  /\ BBended = FALSE
  /\ open = << >> /\ labels = << >> /\ gotos = {}
  /\ phase = "compile" /\ pc = Entry /\ cond = FALSE /\ beat = FALSE

(* The token being compiled, and room for it and for the ends still owed.  *)
Here == Len(source) + 1
Room(n) == phase = "compile" /\ Here + Len(open) + n <= MaxTokens
Compiled(t) == source' = Append(source, t)

Op(i) == [kind |-> "op", at |-> i]
Br(b, i) == [kind |-> "br", at |-> i, to |-> b]
CondBr(b, c, i) == [kind |-> "condbr", at |-> i, to |-> b, else |-> c]
Ret(v, i) == [kind |-> "ret", at |-> i, value |-> v]

Terminators == {"br", "condbr", "ret"}

(* The blocks after instr is appended to block b, and after n new blocks.  *)
Emit(bs, b, instr) == [bs EXCEPT ![b] = Append(@, instr)]
Grow(bs, n) == bs \o [i \in 1 .. n |-> << >>]
NewBlock(n) == Len(blocks) + n

(* CreateBr unless the flag says the block already ended. *)
BrUnlessEnded(bs, b, instr) == IF BBended THEN bs ELSE Emit(bs, b, instr)

Top == open[Len(open)]
Outside == SubSeq(open, 1, Len(open) - 1)

-----------------------------------------------------------------------------
(* compile()                                                               *)

(* A statement compiled in line. *)
SimpleStatement ==
  /\ Room(0) /\ Compiled(<<"op">>)
  /\ blocks' = Emit(blocks, insertBlock, Op(Here))
  /\ UNCHANGED <<routine, insertBlock, BBended, open, labels, gotos, phase, running>>

(* IfThenElse up to st_then->compile(). *)
If ==
  /\ Room(1) /\ Compiled(<<"if">>)
  /\ LET ThenBB == NewBlock(1)  AfterBB == NewBlock(2)  ElseBB == NewBlock(3)
     IN  /\ blocks' = Emit(Grow(blocks, 3), insertBlock, CondBr(ThenBB, ElseBB, Here))
         /\ insertBlock' = ThenBB
         /\ open' = Append(open, [part |-> "then", token |-> Here,
                                  else |-> ElseBB, after |-> AfterBB])
  /\ UNCHANGED <<routine, BBended, labels, gotos, phase, running>>

(* A mutation of EndThen: the flag is left as the then part set it. *)
EndThenKeepsFlag(hasElse) ==
  /\ phase = "compile" /\ open # << >> /\ Top.part = "then"
  /\ hasElse => Room(0)
  /\ LET ended == BrUnlessEnded(blocks, insertBlock, Br(Top.after, Here))
     IN  IF hasElse
         THEN /\ Compiled(<<"else", Top.token>>)
              /\ blocks' = ended /\ insertBlock' = Top.else
              /\ open' = Append(Outside, [part |-> "else", token |-> Top.token,
                                          after |-> Top.after])
         ELSE /\ Compiled(<<"endif", Top.token>>)
              /\ blocks' = Emit(ended, Top.else, Br(Top.after, Here))
              /\ insertBlock' = Top.after
              /\ open' = Outside
  /\ UNCHANGED <<routine, BBended, labels, gotos, phase, running>>

(* IfThenElse after st_then->compile(): the then part is joined to AfterBB *)
(* and, when there is no else part, the empty ElseBB is too.               *)
EndThen(hasElse) ==
  /\ phase = "compile" /\ open # << >> /\ Top.part = "then"
  /\ hasElse => Room(0)
  /\ LET ended == BrUnlessEnded(blocks, insertBlock, Br(Top.after, Here))
     IN  IF hasElse
         THEN /\ Compiled(<<"else", Top.token>>)
              /\ blocks' = ended /\ insertBlock' = Top.else
              /\ open' = Append(Outside, [part |-> "else", token |-> Top.token,
                                          after |-> Top.after])
         ELSE /\ Compiled(<<"endif", Top.token>>)
              /\ blocks' = Emit(ended, Top.else, Br(Top.after, Here))
              /\ insertBlock' = Top.after
              /\ open' = Outside
  /\ BBended' = FALSE
  /\ UNCHANGED <<routine, labels, gotos, phase, running>>

(* IfThenElse after st_else->compile(). *)
EndElse ==
  /\ phase = "compile" /\ open # << >> /\ Top.part = "else"
  /\ Compiled(<<"endif", Top.token>>)
  /\ blocks' = BrUnlessEnded(blocks, insertBlock, Br(Top.after, Here))
  /\ insertBlock' = Top.after /\ open' = Outside
  /\ BBended' = FALSE
  /\ UNCHANGED <<routine, labels, gotos, phase, running>>

(* While up to body->compile(): LoopBB evaluates the condition. *)
While ==
  /\ Room(1) /\ Compiled(<<"while">>)
  /\ LET LoopBB == NewBlock(1)  AfterBB == NewBlock(2)  BodyBB == NewBlock(3)
     IN  /\ blocks' = Emit(Emit(Grow(blocks, 3), insertBlock, Br(LoopBB, Here)),
                           LoopBB, CondBr(BodyBB, AfterBB, Here))
         /\ insertBlock' = BodyBB
         /\ open' = Append(open, [part |-> "body", token |-> Here,
                                  loop |-> LoopBB, after |-> AfterBB])
  /\ UNCHANGED <<routine, BBended, labels, gotos, phase, running>>

(* A mutation of EndWhile: the body is joined to AfterBB.                  *)
EndWhileOnce ==
  /\ phase = "compile" /\ open # << >> /\ Top.part = "body"
  /\ Compiled(<<"endwhile", Top.token>>)
  /\ blocks' = BrUnlessEnded(blocks, insertBlock, Br(Top.after, Here))
  /\ insertBlock' = Top.after /\ open' = Outside
  /\ BBended' = FALSE
  /\ UNCHANGED <<routine, labels, gotos, phase, running>>

(* While after body->compile(). *)
EndWhile ==
  /\ phase = "compile" /\ open # << >> /\ Top.part = "body"
  /\ Compiled(<<"endwhile", Top.token>>)
  /\ blocks' = BrUnlessEnded(blocks, insertBlock, Br(Top.loop, Here))
  /\ insertBlock' = Top.after /\ open' = Outside
  /\ BBended' = FALSE
  /\ UNCHANGED <<routine, labels, gotos, phase, running>>

(* A mutation of PlaceLabel: the block before it is not joined to it. *)
PlaceLabelUnjoined(l) ==
  /\ Room(0) /\ Compiled(<<"label", l>>)
  /\ l \notin DOMAIN labels
  /\ blocks' = Grow(blocks, 1)
  /\ insertBlock' = NewBlock(1)
  /\ labels' = [m \in DOMAIN labels \cup {l} |-> IF m = l THEN NewBlock(1) ELSE labels[m]]
  /\ UNCHANGED <<routine, BBended, open, gotos, phase, running>>

(* Label; semantic analysis has refused a second one of the same name. *)
PlaceLabel(l) ==
  /\ Room(0) /\ Compiled(<<"label", l>>)
  /\ l \notin DOMAIN labels
  /\ blocks' = BrUnlessEnded(Grow(blocks, 1), insertBlock, Br(NewBlock(1), Here))
  /\ insertBlock' = NewBlock(1)
  /\ labels' = [m \in DOMAIN labels \cup {l} |-> IF m = l THEN NewBlock(1) ELSE labels[m]]
  /\ UNCHANGED <<routine, BBended, open, gotos, phase, running>>

(* GoTo: where the branch will go is noted, and the code after it goes to  *)
(* a stray block.  GetInsertPoint() is the end of the block.               *)
GoTo(l) ==
  /\ Room(0) /\ Compiled(<<"goto", l>>)
  /\ gotos' = gotos \cup {[label |-> l, block |-> insertBlock, at |-> Here]}
  /\ blocks' = Grow(blocks, 1)
  /\ insertBlock' = NewBlock(1)
  /\ UNCHANGED <<routine, BBended, open, labels, phase, running>>

(* ReturnStmt looks result up in all scopes. *)
ReturnStmt ==
  /\ Room(0) /\ Compiled(<<"return">>)
  /\ blocks' = Emit(blocks, insertBlock, Ret(routine.found, Here))
  /\ BBended' = TRUE
  /\ UNCHANGED <<routine, insertBlock, open, labels, gotos, phase, running>>

(* The end of FunctionDef::compile; compile_finalize does not look at the  *)
(* flag.                                                                   *)
WithEpilogue ==
  IF BBended /\ routine.kind # "main" THEN blocks
  ELSE Emit(blocks, insertBlock,
            Ret(IF routine.kind = "function" THEN "own" ELSE "none", Here))

(* closeScope: compile_final appends a branch to the label's block where   *)
(* the Builder stood at the goto.                                          *)
Patched(bs) ==
  [b \in DOMAIN bs |->
     LET g == { h \in gotos : h.block = b }
     IN  IF g = {} THEN bs[b]
         ELSE Append(bs[b], LET h == CHOOSE h \in g : TRUE IN Br(labels[h.label], h.at))]

(* verifyModule: every block ends with its only terminator, and what is    *)
(* returned is what the routine has: its own result or nothing.            *)
WellFormedBlock(b) ==
  /\ b # << >>
  /\ \A i \in DOMAIN b : b[i].kind \in Terminators <=> i = Len(b)

Verified(bs) ==
  /\ \A b \in DOMAIN bs : WellFormedBlock(bs[b])
  /\ \A b \in DOMAIN bs : \A i \in DOMAIN bs[b] :
       bs[b][i].kind = "ret" =>
         bs[b][i].value = IF routine.kind = "function" THEN "own" ELSE "none"

(* A mutation of EndRoutine: what verifyModule says is ignored. *)
EndRoutineUnverified ==
  /\ phase = "compile" /\ open = << >>
  /\ \A g \in gotos : g.label \in DOMAIN labels
  /\ blocks' = Patched(WithEpilogue)
  /\ BBended' = FALSE
  /\ phase' = "run"
  /\ UNCHANGED <<routine, source, insertBlock, open, labels, gotos, running>>

(* Semantic analysis has refused a goto whose label is not placed. *)
EndRoutine ==
  /\ phase = "compile" /\ open = << >>
  /\ \A g \in gotos : g.label \in DOMAIN labels
  /\ blocks' = Patched(WithEpilogue)
  /\ BBended' = FALSE
  /\ phase' = IF Verified(blocks') THEN "run" ELSE "refused"
  /\ UNCHANGED <<routine, source, insertBlock, open, labels, gotos, running>>

-----------------------------------------------------------------------------
(* The blocks, run                                                         *)

Instr == blocks[pc.block][pc.index]

GoesTo(b) == pc' = [block |-> b, index |-> 1]

RunOp ==
  /\ phase = "run" /\ Instr.kind = "op"
  /\ pc' = [pc EXCEPT !.index = @ + 1] /\ cond' = FALSE /\ beat' = ~beat
  /\ UNCHANGED compiling /\ UNCHANGED phase

RunBr ==
  /\ phase = "run" /\ Instr.kind = "br"
  /\ GoesTo(Instr.to)
  /\ UNCHANGED compiling /\ UNCHANGED <<phase, cond, beat>>

RunCondBr ==
  /\ phase = "run" /\ Instr.kind = "condbr"
  /\ cond' \in BOOLEAN /\ beat' = ~beat
  /\ GoesTo(IF cond' THEN Instr.to ELSE Instr.else)
  /\ UNCHANGED compiling /\ UNCHANGED phase

RunRet ==
  /\ phase = "run" /\ Instr.kind = "ret"
  /\ phase' = "done" /\ cond' = FALSE /\ beat' = ~beat /\ pc' = Entry
  /\ UNCHANGED compiling

Run == RunOp \/ RunBr \/ RunCondBr \/ RunRet

Next ==
  \/ SimpleStatement
  \/ If
  \/ \E hasElse \in BOOLEAN : EndThen(hasElse)
  \/ EndElse
  \/ While
  \/ EndWhile
  \/ \E l \in Labels : PlaceLabel(l)
  \/ \E l \in Labels : GoTo(l)
  \/ ReturnStmt
  \/ EndRoutine
  \/ Run

Spec == Init /\ [][Next]_vars

(* The processor goes on running the program. *)
FairSpec == Spec /\ WF_vars(Run)

-----------------------------------------------------------------------------
(* Properties                                                              *)

(* Blocks, branches and labels have their types: every branch goes to a    *)
(* block there is, every token compiled is one of the source.              *)
TypeOK ==
  /\ routine \in Routines
  /\ phase \in {"compile", "refused", "run", "done"}
  /\ BBended \in BOOLEAN /\ cond \in BOOLEAN /\ beat \in BOOLEAN
  /\ insertBlock \in DOMAIN blocks
  /\ \A b \in DOMAIN blocks : \A i \in DOMAIN blocks[b] :
       LET instr == blocks[b][i]
       IN  /\ instr.kind \in {"op"} \cup Terminators
           /\ instr.at \in 1 .. Here
           /\ instr.kind \in {"br", "condbr"} => instr.to \in DOMAIN blocks
           /\ instr.kind = "condbr" => instr.else \in DOMAIN blocks
  /\ DOMAIN labels \subseteq Labels
  /\ \A l \in DOMAIN labels : labels[l] \in DOMAIN blocks
  /\ \A g \in gotos :
       g.label \in Labels /\ g.block \in DOMAIN blocks /\ g.at \in 1 .. Len(source)
  /\ phase = "run" => pc.block \in DOMAIN blocks /\ pc.index \in DOMAIN blocks[pc.block]

(* Nothing is written after a return but the end of the branch or of the   *)
(* loop it is in.                                                          *)
ReturnsEndBranches ==
  \A i \in 1 .. Len(source) - 1 :
    source[i] = <<"return">> => source[i + 1][1] \in {"else", "endif", "endwhile"}

(* BBended, a global that six handlers read and write, says of the block   *)
(* the Builder is in whether it has its terminator, after any nesting of   *)
(* statements, as long as no code follows a return.                        *)
FlagTellsTruth ==
  (phase = "compile" /\ ReturnsEndBranches) =>
    (BBended <=> \E i \in DOMAIN blocks[insertBlock] :
                   blocks[insertBlock][i].kind \in Terminators)

(* verifyModule never refuses a routine (the compiler then exits with      *)
(* "Problem in the IR") whose returns end branches, are not the last       *)
(* statement of the main program and belong to no procedure nested in a    *)
(* function: whatever the ifs, loops, labels and gotos, every block gets   *)
(* its one terminator.                                                     *)
TidyAccepted ==
  (/\ ReturnsEndBranches
   /\ routine.kind = "main" => source = << >> \/ source[Len(source)] # <<"return">>
   /\ routine.found = "outer" => \A i \in DOMAIN source : source[i] # <<"return">>)
  => phase # "refused"

(* The blocks execute the statements of the routine in the order the       *)
(* source means, whatever nesting, gotos into and out of statements, and   *)
(* code after a return that is accepted: each instruction stands for the   *)
(* token it was emitted for.                                               *)
Source == INSTANCE SourceOrder

Flow == INSTANCE StructuredFlow WITH
  at <- CASE phase = "run" -> Source!Arrive(Instr.at)
          [] phase = "done" -> Source!Left
          [] OTHER -> Source!NotStarted

ImplementsSource == Flow!FlowSpec
=============================================================================

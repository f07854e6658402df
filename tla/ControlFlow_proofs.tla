-------------------------- MODULE ControlFlow_proofs --------------------------
(***************************************************************************)
(* For every set of labels and routines of any length: what the flag       *)
(* BBended says of the block the Builder is in, that every block gets its  *)
(* one terminator, and that the blocks execute the statements in the order *)
(* the source means.                                                       *)
(***************************************************************************)
EXTENDS ControlFlow, SequenceTheorems, FiniteSetTheorems, WellFoundedInduction, TLAPS

Token ==
  { <<"op">>, <<"if">>, <<"while">>, <<"return">> }
    \cup ({"else", "endif", "endwhile"} \X Nat) \cup ({"label", "goto"} \X Labels)

Values == {"own", "none", "outer"}

Instruction ==
  [kind : {"op"}, at : Nat] \cup [kind : {"br"}, at : Nat, to : Nat]
    \cup [kind : {"condbr"}, at : Nat, to : Nat, else : Nat]
    \cup [kind : {"ret"}, at : Nat, value : Values]

Block == Seq(Instruction)

Statement ==
  [part : {"then"}, token : Nat, else : Nat, after : Nat]
    \cup [part : {"else"}, token : Nat, after : Nat]
    \cup [part : {"body"}, token : Nat, loop : Nat, after : Nat]

(* An instruction of a routine of n blocks whose tokens are numbered up to *)
(* h.                                                                      *)
InstructionOK(instr, n, h) ==
  /\ instr \in Instruction
  /\ instr.at \in 1 .. h
  /\ instr.kind \in {"br", "condbr"} => instr.to \in 1 .. n
  /\ instr.kind = "condbr" => instr.else \in 1 .. n

BlocksOK(bs, h) ==
  /\ bs \in Seq(Block)
  /\ \A b \in 1 .. Len(bs) : \A i \in 1 .. Len(bs[b]) : InstructionOK(bs[b][i], Len(bs), h)

StatementOK(s, n) ==
  /\ s \in Statement
  /\ s.after \in 1 .. n
  /\ s.part = "then" => s.else \in 1 .. n
  /\ s.part = "body" => s.loop \in 1 .. n

GotosOK(gs, n, h) ==
  \A g \in gs : g.label \in Labels /\ g.block \in 1 .. n /\ g.at \in 1 .. h - 1

LabelsOK(ls, n) ==
  DOMAIN ls \subseteq Labels /\ \A l \in DOMAIN ls : ls[l] \in 1 .. n

(* The types, and what every run of the blocks relies on.                  *)
TypeInv ==
  /\ routine \in Routines
  /\ phase \in {"compile", "refused", "run", "done"}
  /\ BBended \in BOOLEAN /\ cond \in BOOLEAN /\ beat \in BOOLEAN
  /\ source \in Seq(Token)
  /\ BlocksOK(blocks, Here)
  /\ insertBlock \in 1 .. Len(blocks)
  /\ open \in Seq(Statement)
  /\ \A k \in 1 .. Len(open) : StatementOK(open[k], Len(blocks))
  /\ LabelsOK(labels, Len(blocks))
  /\ GotosOK(gotos, Len(blocks), Here)
  /\ phase = "compile" => pc = Entry
  /\ phase = "run" =>
       /\ Verified(blocks)
       /\ pc \in [block : 1 .. Len(blocks), index : Nat]
       /\ pc.index \in 1 .. Len(blocks[pc.block])

-----------------------------------------------------------------------------
(* Blocks                                                                  *)

LEMMA EmitProperties ==
  ASSUME NEW bs \in Seq(Block), NEW b \in 1 .. Len(bs), NEW instr \in Instruction
  PROVE  /\ Emit(bs, b, instr) \in Seq(Block)
         /\ Len(Emit(bs, b, instr)) = Len(bs)
         /\ Emit(bs, b, instr)[b] = Append(bs[b], instr)
         /\ \A c \in 1 .. Len(bs) : c # b => Emit(bs, b, instr)[c] = bs[c]
BY DEF Emit, Block

LEMMA GrowProperties ==
  ASSUME NEW bs \in Seq(Block), NEW n \in Nat
  PROVE  /\ Grow(bs, n) \in Seq(Block)
         /\ Len(Grow(bs, n)) = Len(bs) + n
         /\ \A b \in 1 .. Len(bs) : Grow(bs, n)[b] = bs[b]
         /\ \A b \in Len(bs) + 1 .. Len(bs) + n : Grow(bs, n)[b] = << >>
<1>1. << >> \in Block
  BY DEF Block
<1>2. [i \in 1 .. n |-> << >>] \in Seq(Block) /\ Len([i \in 1 .. n |-> << >>]) = n
  BY <1>1
<1>3. QED
  BY <1>1, <1>2 DEF Grow

(* Appending to a block. *)
LEMMA AppendedBlock ==
  ASSUME NEW block \in Block, NEW instr \in Instruction
  PROVE  /\ Append(block, instr) \in Block
         /\ Len(Append(block, instr)) = Len(block) + 1
         /\ Append(block, instr)[Len(block) + 1] = instr
         /\ \A i \in 1 .. Len(block) : Append(block, instr)[i] = block[i]
         /\ Len(block) \in Nat
BY DEF Block

LEMMA EmitOK ==
  ASSUME NEW bs, NEW h \in Nat, BlocksOK(bs, h), NEW b \in 1 .. Len(bs),
         NEW instr, InstructionOK(instr, Len(bs), h)
  PROVE  BlocksOK(Emit(bs, b, instr), h) /\ Len(Emit(bs, b, instr)) = Len(bs)
<1>1. bs \in Seq(Block) /\ instr \in Instruction /\ bs[b] \in Block
  BY DEF BlocksOK, InstructionOK
<1>2. ASSUME NEW c \in 1 .. Len(bs), NEW i \in 1 .. Len(Emit(bs, b, instr)[c])
      PROVE  InstructionOK(Emit(bs, b, instr)[c][i], Len(bs), h)
  <2>1. CASE c = b
    <3>1. Emit(bs, b, instr)[c] = Append(bs[b], instr)
      BY <1>1, <2>1, EmitProperties
    <3>2. CASE i = Len(bs[b]) + 1
      BY <1>1, <3>1, <3>2, AppendedBlock
    <3>3. CASE i \in 1 .. Len(bs[b])
      <4>1. Append(bs[b], instr)[i] = bs[b][i]
        BY <1>1, <3>3, AppendedBlock
      <4>2. QED
        BY <3>1, <3>3, <4>1 DEF BlocksOK
    <3>4. Len(Append(bs[b], instr)) = Len(bs[b]) + 1 /\ Len(bs[b]) \in Nat
      BY <1>1, AppendedBlock
    <3>5. QED
      BY <3>1, <3>2, <3>3, <3>4
  <2>2. CASE c # b
    <3>1. Emit(bs, b, instr)[c] = bs[c]
      BY <1>1, <2>2, EmitProperties
    <3>2. QED
      BY <3>1 DEF BlocksOK
  <2>3. QED
    BY <2>1, <2>2
<1>3. Emit(bs, b, instr) \in Seq(Block) /\ Len(Emit(bs, b, instr)) = Len(bs)
  BY <1>1, EmitProperties
<1>4. QED
  BY <1>2, <1>3 DEF BlocksOK

LEMMA GrowOK ==
  ASSUME NEW bs, NEW h \in Nat, BlocksOK(bs, h), NEW n \in Nat
  PROVE  BlocksOK(Grow(bs, n), h) /\ Len(Grow(bs, n)) = Len(bs) + n
<1>1. bs \in Seq(Block) /\ Len(bs) \in Nat
  BY DEF BlocksOK
<1>2. ASSUME NEW c \in 1 .. Len(bs) + n, NEW i \in 1 .. Len(Grow(bs, n)[c])
      PROVE  InstructionOK(Grow(bs, n)[c][i], Len(bs) + n, h)
  <2>1. CASE c \in 1 .. Len(bs)
    <3>1. Grow(bs, n)[c] = bs[c]
      BY <1>1, <2>1, GrowProperties
    <3>2. InstructionOK(bs[c][i], Len(bs), h)
      BY <2>1, <3>1 DEF BlocksOK
    <3>3. QED
      BY <1>1, <3>1, <3>2 DEF InstructionOK
  <2>2. CASE c \in Len(bs) + 1 .. Len(bs) + n
    <3>1. Grow(bs, n)[c] = << >>
      BY <1>1, <2>2, GrowProperties
    <3>2. QED
      BY <3>1
  <2>3. QED
    BY <1>1, <2>1, <2>2
<1>3. Grow(bs, n) \in Seq(Block) /\ Len(Grow(bs, n)) = Len(bs) + n
  BY <1>1, GrowProperties
<1>4. QED
  BY <1>2, <1>3 DEF BlocksOK

(* A longer routine keeps what it has. *)
LEMMA LaterOK ==
  ASSUME NEW bs, NEW h \in Nat, BlocksOK(bs, h)
  PROVE  BlocksOK(bs, h + 1)
BY DEF BlocksOK, InstructionOK

-----------------------------------------------------------------------------
(* Types                                                                   *)

(* What a token with m new blocks changes of the rest. *)
LEMMA GrownOK ==
  ASSUME TypeInv, NEW t \in Token, Compiled(t), NEW n \in Nat, n >= Len(blocks)
  PROVE  /\ source' \in Seq(Token) /\ Here' = Here + 1 /\ Here \in Nat /\ Here >= 1
         /\ \A k \in 1 .. Len(open) : StatementOK(open[k], n)
         /\ LabelsOK(labels, n)
         /\ GotosOK(gotos, n, Here + 1)
<1>1. source' \in Seq(Token) /\ Here' = Here + 1 /\ Here \in Nat /\ Here >= 1
  BY DEF TypeInv, Compiled, Here
<1>2. Len(blocks) \in Nat
  BY DEF TypeInv, BlocksOK
<1>3. \A k \in 1 .. Len(open) : StatementOK(open[k], n)
  BY <1>2 DEF TypeInv, StatementOK
<1>4. LabelsOK(labels, n)
  BY <1>2 DEF TypeInv, LabelsOK
<1>5. GotosOK(gotos, n, Here + 1)
  BY <1>1, <1>2 DEF TypeInv, GotosOK
<1>6. QED
  BY <1>1, <1>3, <1>4, <1>5

LEMMA InstructionsOK ==
  ASSUME NEW n \in Nat, NEW h \in Nat, NEW i \in 1 .. h
  PROVE  /\ InstructionOK(Op(i), n, h)
         /\ \A b \in 1 .. n : InstructionOK(Br(b, i), n, h)
         /\ \A b \in 1 .. n, c \in 1 .. n : InstructionOK(CondBr(b, c, i), n, h)
         /\ \A v \in Values : InstructionOK(Ret(v, i), n, h)
BY DEF InstructionOK, Instruction, Op, Br, CondBr, Ret

LEMMA FoundIsValue ==
  ASSUME TypeInv
  PROVE  routine.found \in Values
BY RoutinesAssumption DEF TypeInv, Values

(* The branch that ends a block, or none. *)
LEMMA BrUnlessEndedOK ==
  ASSUME NEW bs, NEW h \in Nat, BlocksOK(bs, h), NEW b \in 1 .. Len(bs),
         NEW instr, InstructionOK(instr, Len(bs), h)
  PROVE  /\ BlocksOK(BrUnlessEnded(bs, b, instr), h)
         /\ Len(BrUnlessEnded(bs, b, instr)) = Len(bs)
BY EmitOK DEF BrUnlessEnded

(* What is left to show of a token compiled.                               *)
LEMMA CompiledTyped ==
  ASSUME TypeInv, NEW t \in Token, Compiled(t), phase = "compile",
         UNCHANGED <<routine, phase, running>>, BBended' \in BOOLEAN,
         BlocksOK(blocks', Here + 1), insertBlock' \in 1 .. Len(blocks'),
         open' \in Seq(Statement),
         \A k \in 1 .. Len(open') : StatementOK(open'[k], Len(blocks')),
         LabelsOK(labels', Len(blocks')), GotosOK(gotos', Len(blocks'), Here + 1)
  PROVE  TypeInv'
<1>1. source' \in Seq(Token) /\ Here' = Here + 1
  BY DEF TypeInv, Compiled, Here
<1>2. BlocksOK(blocks', Here') /\ GotosOK(gotos', Len(blocks'), Here')
  BY <1>1
<1>3. QED
  BY <1>1, <1>2 DEF TypeInv, running

LEMMA SimpleStatementTyped == TypeInv /\ SimpleStatement => TypeInv'
<1> SUFFICES ASSUME TypeInv, SimpleStatement PROVE TypeInv'
  OBVIOUS
<1>1. Compiled(<<"op">>) /\ <<"op">> \in Token
  BY DEF SimpleStatement, Token
<1>2. Len(blocks) \in Nat
  BY DEF TypeInv, BlocksOK
<1>3. BlocksOK(blocks, Here + 1) /\ Here + 1 \in Nat /\ Here \in 1 .. Here + 1
  BY <1>1, <1>2, GrownOK, LaterOK DEF TypeInv
<1>4. BlocksOK(blocks', Here + 1) /\ Len(blocks') = Len(blocks)
  BY <1>2, <1>3, InstructionsOK, EmitOK DEF SimpleStatement, TypeInv
<1>5. /\ \A k \in 1 .. Len(open) : StatementOK(open[k], Len(blocks))
      /\ LabelsOK(labels, Len(blocks)) /\ GotosOK(gotos, Len(blocks), Here + 1)
  BY <1>1, <1>2, GrownOK
<1>6. QED
  BY <1>1, <1>4, <1>5, CompiledTyped DEF SimpleStatement, Room, TypeInv

LEMMA IfTyped == TypeInv /\ If => TypeInv'
<1> SUFFICES ASSUME TypeInv, If PROVE TypeInv'
  OBVIOUS
<1> DEFINE n == Len(blocks)
           bs == Grow(blocks, 3)
           branch == CondBr(n + 1, n + 3, Here)
           statement == [part |-> "then", token |-> Here, else |-> n + 3, after |-> n + 2]
<1>1. Compiled(<<"if">>) /\ <<"if">> \in Token
  BY DEF If, Token
<1>2. n \in Nat
  BY DEF TypeInv, BlocksOK
<1>3. BlocksOK(blocks, Here + 1) /\ Here + 1 \in Nat /\ Here \in 1 .. Here + 1
  BY <1>1, <1>2, GrownOK, LaterOK DEF TypeInv
<1>4. /\ blocks' = Emit(bs, insertBlock, branch)
      /\ insertBlock' = n + 1
      /\ open' = Append(open, statement)
  BY DEF If, NewBlock
<1>5. BlocksOK(bs, Here + 1) /\ Len(bs) = n + 3
  BY <1>3, GrowOK
<1>6. InstructionOK(branch, n + 3, Here + 1) /\ insertBlock \in 1 .. n + 3
  BY <1>2, <1>3, InstructionsOK DEF TypeInv
<1>7. BlocksOK(blocks', Here + 1) /\ Len(blocks') = n + 3
  BY <1>3, <1>4, <1>5, <1>6, EmitOK
<1>8. /\ \A k \in 1 .. Len(open) : StatementOK(open[k], n + 3)
      /\ LabelsOK(labels, n + 3) /\ GotosOK(gotos, n + 3, Here + 1)
  BY <1>1, <1>2, GrownOK
<1>9. statement \in Statement /\ StatementOK(statement, n + 3)
  BY <1>2, <1>3 DEF Statement, StatementOK
<1>10. /\ open' \in Seq(Statement)
       /\ \A k \in 1 .. Len(open') : StatementOK(open'[k], n + 3)
  BY <1>4, <1>8, <1>9 DEF TypeInv
<1>11. insertBlock' \in 1 .. n + 3
  BY <1>2, <1>4
<1>12. QED
  BY <1>1, <1>7, <1>8, <1>10, <1>11, CompiledTyped DEF If, Room, TypeInv

(* The innermost open statement and the rest. *)
LEMMA OpenProperties ==
  ASSUME TypeInv, open # << >>
  PROVE  /\ Top \in Statement /\ Top.token \in Nat
         /\ StatementOK(Top, Len(blocks))
         /\ Outside \in Seq(Statement)
         /\ Len(open) \in Nat /\ Len(open) >= 1
         /\ Len(Outside) = Len(open) - 1
         /\ \A k \in 1 .. Len(Outside) : Outside[k] = open[k]
<1>1. open \in Seq(Statement) /\ Len(open) \in Nat /\ Len(open) >= 1
  BY DEF TypeInv
<1>2. Len(open) \in 1 .. Len(open)
  BY <1>1
<1>3. Top \in Statement /\ StatementOK(Top, Len(blocks))
  BY <1>1, <1>2 DEF Top, TypeInv
<1>4. Top.token \in Nat
  BY <1>3 DEF Statement
<1>5. /\ Outside \in Seq(Statement) /\ Len(Outside) = Len(open) - 1
      /\ \A k \in 1 .. Len(Outside) : Outside[k] = open[k]
  <2> DEFINE m == Len(open) - 1
  <2>1. m \in Int /\ m >= 0 /\ \A i \in 1 .. m : open[i] \in Statement
    BY <1>1
  <2>2. /\ SubSeq(open, 1, m) \in Seq(Statement)
        /\ Len(SubSeq(open, 1, m)) = IF 1 <= m THEN m - 1 + 1 ELSE 0
        /\ \A i \in 1 .. m - 1 + 1 : SubSeq(open, 1, m)[i] = open[1 + i - 1]
    <3> HIDE DEF m
    <3>1. QED
      BY <2>1, SubSeqProperties
  <2>3. Outside = SubSeq(open, 1, m)
    BY DEF Outside
  <2>4. \A i \in 1 .. m : SubSeq(open, 1, m)[i] = open[i]
    <3> HIDE DEF m
    <3>1. QED
      BY <2>1, <2>2
  <2>5. Len(Outside) = m
    <3> HIDE DEF m
    <3>1. QED
      BY <2>1, <2>2, <2>3
  <2>6. QED
    BY <2>2, <2>3, <2>4, <2>5
<1>6. QED
  BY <1>1, <1>3, <1>4, <1>5

(* The end of a statement: a branch, perhaps one more from the empty else  *)
(* block, and the Builder goes to another block of the statement.          *)
LEMMA EndTyped ==
  ASSUME TypeInv, phase = "compile", open # << >>, NEW t \in Token, Compiled(t),
         NEW to \in 1 .. Len(blocks), NEW b \in 1 .. Len(blocks), NEW both \in BOOLEAN,
         both => Top.part = "then",
         blocks' = IF both THEN Emit(BrUnlessEnded(blocks, insertBlock, Br(to, Here)),
                                     Top.else, Br(to, Here))
                   ELSE BrUnlessEnded(blocks, insertBlock, Br(to, Here)),
         insertBlock' = b,
         \/ open' = Outside
         \/ open' = Append(Outside, [part |-> "else", token |-> Top.token, after |-> Top.after]),
         BBended' = FALSE, UNCHANGED <<routine, labels, gotos, phase, running>>
  PROVE  TypeInv'
<1> DEFINE ended == BrUnlessEnded(blocks, insertBlock, Br(to, Here))
           statement == [part |-> "else", token |-> Top.token, after |-> Top.after]
<1>1. Len(blocks) \in Nat
  BY DEF TypeInv, BlocksOK
<1>2. BlocksOK(blocks, Here + 1) /\ Here + 1 \in Nat /\ Here \in 1 .. Here + 1
  BY <1>1, GrownOK, LaterOK DEF TypeInv
<1>3. InstructionOK(Br(to, Here), Len(blocks), Here + 1) /\ insertBlock \in 1 .. Len(blocks)
  BY <1>1, <1>2, InstructionsOK DEF TypeInv
<1>4. BlocksOK(ended, Here + 1) /\ Len(ended) = Len(blocks)
  BY <1>2, <1>3, BrUnlessEndedOK
<1>5. both => Top.else \in 1 .. Len(blocks)
  BY OpenProperties DEF StatementOK
<1>6. BlocksOK(blocks', Here + 1) /\ Len(blocks') = Len(blocks)
  <2>1. CASE both
    BY <1>2, <1>3, <1>4, <1>5, <2>1, EmitOK
  <2>2. CASE ~both
    BY <1>4, <2>2
  <2>3. QED
    BY <2>1, <2>2
<1>7. /\ \A k \in 1 .. Len(open) : StatementOK(open[k], Len(blocks))
      /\ LabelsOK(labels, Len(blocks)) /\ GotosOK(gotos, Len(blocks), Here + 1)
  BY <1>1, GrownOK
<1>8. statement \in Statement /\ StatementOK(statement, Len(blocks))
  BY OpenProperties DEF Statement, StatementOK
<1>9. /\ Outside \in Seq(Statement)
      /\ \A k \in 1 .. Len(Outside) : StatementOK(Outside[k], Len(blocks))
  BY <1>7, OpenProperties
<1>10. /\ open' \in Seq(Statement)
       /\ \A k \in 1 .. Len(open') : StatementOK(open'[k], Len(blocks))
  BY <1>8, <1>9, SMTT(30)
<1>11. QED
  BY <1>6, <1>7, <1>10, CompiledTyped DEF TypeInv

LEMMA EndThenTyped ==
  ASSUME TypeInv, NEW hasElse \in BOOLEAN, EndThen(hasElse)
  PROVE  TypeInv'
<1>1. phase = "compile" /\ open # << >> /\ Top.part = "then"
  BY DEF EndThen
<1>2. Top.token \in Nat /\ Top.after \in 1 .. Len(blocks) /\ Top.else \in 1 .. Len(blocks)
  BY <1>1, OpenProperties DEF StatementOK
<1>3. <<"else", Top.token>> \in Token /\ <<"endif", Top.token>> \in Token
  BY <1>2 DEF Token
<1>4. CASE hasElse
  BY <1>1, <1>2, <1>3, <1>4, EndTyped DEF EndThen
<1>5. CASE ~hasElse
  BY <1>1, <1>2, <1>3, <1>5, EndTyped DEF EndThen
<1>6. QED
  BY <1>4, <1>5

LEMMA EndElseTyped == TypeInv /\ EndElse => TypeInv'
<1> SUFFICES ASSUME TypeInv, EndElse PROVE TypeInv'
  OBVIOUS
<1>1. phase = "compile" /\ open # << >>
  BY DEF EndElse
<1>2. Top.token \in Nat /\ Top.after \in 1 .. Len(blocks)
  BY <1>1, OpenProperties DEF StatementOK
<1>3. <<"endif", Top.token>> \in Token
  BY <1>2 DEF Token
<1>4. QED
  BY <1>1, <1>2, <1>3, EndTyped DEF EndElse

LEMMA EndWhileTyped == TypeInv /\ EndWhile => TypeInv'
<1> SUFFICES ASSUME TypeInv, EndWhile PROVE TypeInv'
  OBVIOUS
<1>1. phase = "compile" /\ open # << >> /\ Top.part = "body"
  BY DEF EndWhile
<1>2. Top.token \in Nat /\ Top.after \in 1 .. Len(blocks) /\ Top.loop \in 1 .. Len(blocks)
  BY <1>1, OpenProperties DEF StatementOK
<1>3. <<"endwhile", Top.token>> \in Token
  BY <1>2 DEF Token
<1>4. QED
  BY <1>1, <1>2, <1>3, EndTyped DEF EndWhile

LEMMA WhileTyped == TypeInv /\ While => TypeInv'
<1> SUFFICES ASSUME TypeInv, While PROVE TypeInv'
  OBVIOUS
<1> DEFINE n == Len(blocks)
           bs == Grow(blocks, 3)
           entered == Emit(bs, insertBlock, Br(n + 1, Here))
           branch == CondBr(n + 3, n + 2, Here)
           statement == [part |-> "body", token |-> Here, loop |-> n + 1, after |-> n + 2]
<1>1. Compiled(<<"while">>) /\ <<"while">> \in Token
  BY DEF While, Token
<1>2. n \in Nat
  BY DEF TypeInv, BlocksOK
<1>3. BlocksOK(blocks, Here + 1) /\ Here + 1 \in Nat /\ Here \in 1 .. Here + 1
  BY <1>1, <1>2, GrownOK, LaterOK DEF TypeInv
<1>4. /\ blocks' = Emit(entered, n + 1, branch)
      /\ insertBlock' = n + 3
      /\ open' = Append(open, statement)
  BY DEF While, NewBlock
<1>5. BlocksOK(bs, Here + 1) /\ Len(bs) = n + 3
  BY <1>3, GrowOK
<1>6. /\ InstructionOK(Br(n + 1, Here), n + 3, Here + 1) /\ insertBlock \in 1 .. n + 3
      /\ InstructionOK(branch, n + 3, Here + 1) /\ n + 1 \in 1 .. n + 3
  BY <1>2, <1>3, InstructionsOK DEF TypeInv
<1>7. BlocksOK(entered, Here + 1) /\ Len(entered) = n + 3
  BY <1>3, <1>5, <1>6, EmitOK
<1>8. BlocksOK(blocks', Here + 1) /\ Len(blocks') = n + 3
  BY <1>3, <1>4, <1>6, <1>7, EmitOK
<1>9. /\ \A k \in 1 .. Len(open) : StatementOK(open[k], n + 3)
      /\ LabelsOK(labels, n + 3) /\ GotosOK(gotos, n + 3, Here + 1)
  BY <1>1, <1>2, GrownOK
<1>10. statement \in Statement /\ StatementOK(statement, n + 3)
  BY <1>2, <1>3 DEF Statement, StatementOK
<1>11. /\ open' \in Seq(Statement)
       /\ \A k \in 1 .. Len(open') : StatementOK(open'[k], n + 3)
  BY <1>4, <1>9, <1>10 DEF TypeInv
<1>12. insertBlock' \in 1 .. n + 3
  BY <1>2, <1>4
<1>13. QED
  BY <1>1, <1>8, <1>9, <1>11, <1>12, CompiledTyped DEF While, Room, TypeInv

LEMMA PlaceLabelTyped ==
  ASSUME TypeInv, NEW l \in Labels, PlaceLabel(l)
  PROVE  TypeInv'
<1> DEFINE n == Len(blocks)
           bs == Grow(blocks, 1)
<1>1. Compiled(<<"label", l>>) /\ <<"label", l>> \in Token
  BY DEF PlaceLabel, Token
<1>2. n \in Nat
  BY DEF TypeInv, BlocksOK
<1>3. BlocksOK(blocks, Here + 1) /\ Here + 1 \in Nat /\ Here \in 1 .. Here + 1
  BY <1>1, <1>2, GrownOK, LaterOK DEF TypeInv
<1>4. blocks' = BrUnlessEnded(bs, insertBlock, Br(n + 1, Here)) /\ insertBlock' = n + 1
  BY DEF PlaceLabel, NewBlock
<1>5. BlocksOK(bs, Here + 1) /\ Len(bs) = n + 1
  BY <1>3, GrowOK
<1>6. InstructionOK(Br(n + 1, Here), n + 1, Here + 1) /\ insertBlock \in 1 .. n + 1
  BY <1>2, <1>3, InstructionsOK DEF TypeInv
<1>7. BlocksOK(blocks', Here + 1) /\ Len(blocks') = n + 1
  BY <1>3, <1>4, <1>5, <1>6, BrUnlessEndedOK
<1>8. /\ \A k \in 1 .. Len(open) : StatementOK(open[k], n + 1)
      /\ LabelsOK(labels, n + 1) /\ GotosOK(gotos, n + 1, Here + 1)
  BY <1>1, <1>2, GrownOK
<1>9. LabelsOK(labels', n + 1)
  BY <1>2, <1>8 DEF PlaceLabel, NewBlock, LabelsOK
<1>10. insertBlock' \in 1 .. n + 1
  BY <1>2, <1>4
<1>11. QED
  BY <1>1, <1>7, <1>8, <1>9, <1>10, CompiledTyped DEF PlaceLabel, Room, TypeInv

LEMMA GoToTyped ==
  ASSUME TypeInv, NEW l \in Labels, GoTo(l)
  PROVE  TypeInv'
<1> DEFINE n == Len(blocks)
           bs == Grow(blocks, 1)
<1>1. Compiled(<<"goto", l>>) /\ <<"goto", l>> \in Token
  BY DEF GoTo, Token
<1>2. n \in Nat
  BY DEF TypeInv, BlocksOK
<1>3. BlocksOK(blocks, Here + 1) /\ Here + 1 \in Nat /\ Here \in 1 .. Here
  BY <1>1, <1>2, GrownOK, LaterOK DEF TypeInv
<1>4. BlocksOK(blocks', Here + 1) /\ Len(blocks') = n + 1 /\ insertBlock' = n + 1
  BY <1>3, GrowOK DEF GoTo, NewBlock
<1>5. /\ \A k \in 1 .. Len(open) : StatementOK(open[k], n + 1)
      /\ LabelsOK(labels, n + 1) /\ GotosOK(gotos, n + 1, Here + 1)
  BY <1>1, <1>2, GrownOK
<1>6. GotosOK(gotos', n + 1, Here + 1)
  BY <1>2, <1>3, <1>5 DEF GoTo, GotosOK, TypeInv
<1>7. insertBlock' \in 1 .. n + 1
  BY <1>2, <1>4
<1>8. QED
  BY <1>1, <1>4, <1>5, <1>6, <1>7, CompiledTyped DEF GoTo, Room, TypeInv

LEMMA ReturnStmtTyped == TypeInv /\ ReturnStmt => TypeInv'
<1> SUFFICES ASSUME TypeInv, ReturnStmt PROVE TypeInv'
  OBVIOUS
<1>1. Compiled(<<"return">>) /\ <<"return">> \in Token
  BY DEF ReturnStmt, Token
<1>2. Len(blocks) \in Nat
  BY DEF TypeInv, BlocksOK
<1>3. BlocksOK(blocks, Here + 1) /\ Here + 1 \in Nat /\ Here \in 1 .. Here + 1
  BY <1>1, <1>2, GrownOK, LaterOK DEF TypeInv
<1>4. BlocksOK(blocks', Here + 1) /\ Len(blocks') = Len(blocks)
  <2> DEFINE ret == Ret(routine.found, Here)
  <2>1. InstructionOK(ret, Len(blocks), Here + 1)
    BY <1>2, <1>3, FoundIsValue, InstructionsOK
  <2>2. blocks' = Emit(blocks, insertBlock, ret) /\ insertBlock \in 1 .. Len(blocks)
    BY DEF ReturnStmt, TypeInv
  <2> HIDE DEF ret
  <2>3. QED
    BY <1>3, <2>1, <2>2, EmitOK
<1>5. /\ \A k \in 1 .. Len(open) : StatementOK(open[k], Len(blocks))
      /\ LabelsOK(labels, Len(blocks)) /\ GotosOK(gotos, Len(blocks), Here + 1)
  BY <1>1, <1>2, GrownOK
<1>6. QED
  BY <1>1, <1>4, <1>5, CompiledTyped DEF ReturnStmt, Room, TypeInv

-----------------------------------------------------------------------------
(* The end of the routine, and its run *)

(* The branch block b gets when the scope closes, if a goto stood there.   *)
LEMMA PatchedProperties ==
  ASSUME NEW bs, NEW h \in Nat, BlocksOK(bs, h), GotosOK(gotos, Len(bs), h),
         LabelsOK(labels, Len(bs)), \A g \in gotos : g.label \in DOMAIN labels,
         NEW b \in 1 .. Len(bs)
  PROVE  \/ (\A g \in gotos : g.block # b) /\ Patched(bs)[b] = bs[b]
         \/ \E instr \in Instruction :
              /\ \E g \in gotos : g.block = b
              /\ instr.kind = "br"
              /\ InstructionOK(instr, Len(bs), h)
              /\ Patched(bs)[b] = Append(bs[b], instr)
<1> DEFINE at == { g \in gotos : g.block = b }
           g == CHOOSE g \in at : TRUE
           instr == Br(labels[g.label], g.at)
<1>1. bs \in Seq(Block) /\ Len(bs) \in Nat /\ b \in DOMAIN bs
  BY DEF BlocksOK
<1>2. Patched(bs)[b] = IF at = {} THEN bs[b] ELSE Append(bs[b], instr)
  BY <1>1 DEF Patched
<1>3. CASE at = {}
  BY <1>2, <1>3
<1>4. CASE at # {}
  <2>1. g \in gotos /\ g.block = b
    BY <1>4
  <2>2. labels[g.label] \in 1 .. Len(bs) /\ g.at \in 1 .. h
    BY <2>1 DEF LabelsOK, GotosOK
  <2>3. instr \in Instruction /\ instr.kind = "br" /\ InstructionOK(instr, Len(bs), h)
    BY <1>1, <2>2, InstructionsOK DEF InstructionOK, Br
  <2>4. QED
    BY <1>2, <1>4, <2>1, <2>3
<1>5. QED
  BY <1>3, <1>4

LEMMA PatchedOK ==
  ASSUME NEW bs, NEW h \in Nat, BlocksOK(bs, h), GotosOK(gotos, Len(bs), h),
         LabelsOK(labels, Len(bs)), \A g \in gotos : g.label \in DOMAIN labels
  PROVE  BlocksOK(Patched(bs), h) /\ Len(Patched(bs)) = Len(bs)
<1>1. bs \in Seq(Block) /\ Len(bs) \in Nat /\ DOMAIN bs = 1 .. Len(bs)
  BY DEF BlocksOK
<1>2. ASSUME NEW b \in 1 .. Len(bs)
      PROVE  /\ Patched(bs)[b] \in Block
             /\ \A i \in 1 .. Len(Patched(bs)[b]) : InstructionOK(Patched(bs)[b][i], Len(bs), h)
  <2>1. bs[b] \in Block /\ \A i \in 1 .. Len(bs[b]) : InstructionOK(bs[b][i], Len(bs), h)
    BY <1>1 DEF BlocksOK
  <2>2. CASE Patched(bs)[b] = bs[b]
    BY <2>1, <2>2
  <2>3. ASSUME NEW instr \in Instruction, InstructionOK(instr, Len(bs), h),
               Patched(bs)[b] = Append(bs[b], instr)
        PROVE  /\ Patched(bs)[b] \in Block
               /\ \A i \in 1 .. Len(Patched(bs)[b]) : InstructionOK(Patched(bs)[b][i], Len(bs), h)
    BY <2>1, <2>3, AppendedBlock
  <2>4. QED
    BY <2>2, <2>3, PatchedProperties
<1>3. Patched(bs) = [b \in 1 .. Len(bs) |-> Patched(bs)[b]]
  BY <1>1 DEF Patched
<1>4. Patched(bs) \in Seq(Block) /\ Len(Patched(bs)) = Len(bs)
  <2>1. Patched(bs) \in [1 .. Len(bs) -> Block]
    BY <1>2, <1>3
  <2>2. QED
    BY <1>1, <2>1
<1>5. QED
  BY <1>2, <1>4 DEF BlocksOK

(* The value the end of a routine returns. *)
Epilogue == Ret(IF routine.kind = "function" THEN "own" ELSE "none", Here)

LEMMA EpilogueOK ==
  ASSUME TypeInv
  PROVE  /\ Epilogue \in Instruction /\ InstructionOK(Epilogue, Len(blocks), Here)
         /\ BlocksOK(WithEpilogue, Here) /\ Len(WithEpilogue) = Len(blocks)
<1>1. Len(blocks) \in Nat /\ Here \in Nat /\ Here \in 1 .. Here
  BY DEF TypeInv, BlocksOK, Here
<1>2. InstructionOK(Epilogue, Len(blocks), Here)
  BY <1>1, InstructionsOK DEF Epilogue, Values
<1>3. QED
  BY <1>1, <1>2, EmitOK DEF WithEpilogue, Epilogue, TypeInv, InstructionOK

(* Blocks that are well formed can be entered. *)
LEMMA VerifiedEntered ==
  ASSUME NEW bs, NEW h \in Nat, BlocksOK(bs, h), Verified(bs), NEW b \in 1 .. Len(bs)
  PROVE  /\ [block |-> b, index |-> 1] \in [block : 1 .. Len(bs), index : Nat]
         /\ 1 \in 1 .. Len(bs[b])
<1>1. bs[b] \in Seq(Instruction) /\ bs[b] # << >>
  BY DEF BlocksOK, Block, Verified, WellFormedBlock
<1>2. QED
  BY <1>1

LEMMA EndRoutineTyped == TypeInv /\ EndRoutine => TypeInv'
<1> SUFFICES ASSUME TypeInv, EndRoutine PROVE TypeInv'
  OBVIOUS
<1>1. Len(blocks) \in Nat /\ Here \in Nat /\ Here' = Here /\ 1 \in 1 .. Len(blocks)
  BY DEF TypeInv, BlocksOK, Here, EndRoutine
<1>2. blocks' = Patched(WithEpilogue) /\ \A g \in gotos : g.label \in DOMAIN labels
  BY DEF EndRoutine
<1>3. BlocksOK(blocks', Here) /\ Len(blocks') = Len(blocks)
  <2>1. BlocksOK(WithEpilogue, Here) /\ Len(WithEpilogue) = Len(blocks)
    BY EpilogueOK
  <2>2. GotosOK(gotos, Len(blocks), Here) /\ LabelsOK(labels, Len(blocks))
    BY DEF TypeInv
  <2>3. QED
    BY <1>1, <1>2, <2>1, <2>2, PatchedOK
<1>4. phase' \in {"run", "refused"} /\ (phase' = "run" => Verified(blocks'))
  BY DEF EndRoutine
<1>5. pc' = Entry
  BY DEF EndRoutine, TypeInv, running
<1>6. phase' = "run" =>
        /\ Verified(blocks)'
        /\ pc' \in [block : 1 .. Len(blocks'), index : Nat]
        /\ pc'.index \in 1 .. Len(blocks'[pc'.block])
  <2>1. Verified(blocks') => Verified(blocks)'
    BY DEF Verified, EndRoutine
  <2>2. QED
    BY <1>1, <1>3, <1>4, <1>5, <2>1, VerifiedEntered DEF Entry
<1>7. QED
  BY <1>1, <1>3, <1>4, <1>6 DEF EndRoutine, TypeInv, running

LEMMA RunTyped == TypeInv /\ Run => TypeInv'
<1> SUFFICES ASSUME TypeInv, Run PROVE TypeInv'
  OBVIOUS
<1>1. phase = "run" /\ UNCHANGED compiling
  BY DEF Run, RunOp, RunBr, RunCondBr, RunRet
<1>2. /\ BlocksOK(blocks, Here) /\ Verified(blocks) /\ Here \in Nat
      /\ pc.block \in 1 .. Len(blocks) /\ pc.index \in 1 .. Len(blocks[pc.block])
      /\ pc \in [block : 1 .. Len(blocks), index : Nat]
  BY <1>1 DEF TypeInv, Here
<1>3. Here' = Here /\ Verified(blocks)'
  BY <1>1, <1>2 DEF compiling, Here, Verified
<1>4. InstructionOK(Instr, Len(blocks), Here)
  BY <1>2 DEF Instr, BlocksOK
<1>5. CASE RunOp
  <2>1. blocks[pc.block] \in Block /\ Len(blocks[pc.block]) \in Nat
    BY <1>2 DEF BlocksOK, Block
  <2>2. pc.index # Len(blocks[pc.block])
    <3>1. Instr.kind \notin Terminators
      BY <1>5 DEF RunOp, Terminators
    <3>2. pc.block \in DOMAIN blocks /\ pc.index \in DOMAIN blocks[pc.block]
      BY <1>2, <2>1 DEF BlocksOK, Block
    <3>3. QED
      BY <1>2, <3>1, <3>2 DEF Verified, WellFormedBlock, Instr
  <2>3. /\ pc' \in [block : 1 .. Len(blocks), index : Nat]
        /\ pc'.block = pc.block /\ pc'.index = pc.index + 1
    BY <1>2, <1>5 DEF RunOp
  <2>4. pc'.index \in 1 .. Len(blocks[pc'.block])
    BY <1>2, <2>1, <2>2, <2>3
  <2>5. QED
    BY <1>1, <1>3, <1>5, <2>3, <2>4 DEF RunOp, compiling, TypeInv
<1>6. ASSUME phase' = "run", cond' \in BOOLEAN, beat' \in BOOLEAN,
             NEW b \in 1 .. Len(blocks), GoesTo(b)
      PROVE  TypeInv'
  BY <1>1, <1>2, <1>3, <1>6, VerifiedEntered DEF GoesTo, compiling, TypeInv
<1>7. CASE RunBr
  BY <1>1, <1>4, <1>6, <1>7 DEF RunBr, InstructionOK, TypeInv
<1>8. CASE RunCondBr
  BY <1>1, <1>4, <1>6, <1>8 DEF RunCondBr, InstructionOK, TypeInv
<1>9. CASE RunRet
  BY <1>1, <1>3, <1>9 DEF RunRet, compiling, TypeInv
<1>10. QED
  BY <1>5, <1>7, <1>8, <1>9 DEF Run

LEMMA TypeStep == TypeInv /\ [Next]_vars => TypeInv'
<1> SUFFICES ASSUME TypeInv, [Next]_vars PROVE TypeInv'
  OBVIOUS
<1>1. CASE UNCHANGED vars
  <2>1. Here' = Here /\ (Verified(blocks) => Verified(blocks)')
    BY <1>1 DEF vars, compiling, Here, Verified
  <2>2. QED
    BY <1>1, <2>1 DEF vars, compiling, running, TypeInv
<1>2. QED
  BY <1>1, SimpleStatementTyped, IfTyped, EndThenTyped, EndElseTyped, WhileTyped, EndWhileTyped,
     PlaceLabelTyped, GoToTyped, ReturnStmtTyped, EndRoutineTyped, RunTyped DEF Next

LEMMA InitTyped == Init => TypeInv
<1> SUFFICES ASSUME Init PROVE TypeInv
  OBVIOUS
<1>1. << >> \in Block /\ Len(<< >>) = 0
  BY DEF Block
<1>2. blocks \in Seq(Block) /\ Len(blocks) = 1 /\ blocks[1] = << >>
  BY <1>1 DEF Init
<1>3. BlocksOK(blocks, Here)
  BY <1>1, <1>2 DEF BlocksOK
<1>4. source \in Seq(Token) /\ open \in Seq(Statement) /\ Len(open) = 0
  BY DEF Init
<1>5. LabelsOK(labels, Len(blocks)) /\ GotosOK(gotos, Len(blocks), Here)
  BY DEF Init, LabelsOK, GotosOK
<1>6. /\ routine \in Routines /\ insertBlock \in 1 .. Len(blocks) /\ phase = "compile"
      /\ pc = Entry
  BY <1>2 DEF Init
<1>7. BBended \in BOOLEAN /\ cond \in BOOLEAN /\ beat \in BOOLEAN
  BY DEF Init
<1>8. QED
  BY <1>3, <1>4, <1>5, <1>6, <1>7 DEF TypeInv

LEMMA TypeInvTypes == TypeInv => TypeOK
<1> SUFFICES ASSUME TypeInv PROVE TypeOK
  OBVIOUS
<1>1. blocks \in Seq(Block) /\ DOMAIN blocks = 1 .. Len(blocks)
  BY DEF TypeInv, BlocksOK
<1>2. Here = Len(source) + 1 /\ Len(source) \in Nat
  BY DEF Here, TypeInv
<1>3. ASSUME NEW b \in DOMAIN blocks, NEW i \in DOMAIN blocks[b]
      PROVE  /\ blocks[b][i].kind \in {"op"} \cup Terminators
             /\ blocks[b][i].at \in 1 .. Here
             /\ blocks[b][i].kind \in {"br", "condbr"} => blocks[b][i].to \in DOMAIN blocks
             /\ blocks[b][i].kind = "condbr" => blocks[b][i].else \in DOMAIN blocks
  <2>1. i \in 1 .. Len(blocks[b])
    BY <1>1 DEF Block
  <2>2. InstructionOK(blocks[b][i], Len(blocks), Here)
    BY <1>1, <2>1 DEF TypeInv, BlocksOK
  <2>3. blocks[b][i].kind \in {"op"} \cup Terminators
    BY <2>2 DEF InstructionOK, Instruction, Terminators
  <2>4. QED
    BY <1>1, <2>2, <2>3 DEF InstructionOK
<1>4. \A l \in DOMAIN labels : labels[l] \in DOMAIN blocks
  BY <1>1 DEF TypeInv, LabelsOK
<1>5. \A g \in gotos :
        g.label \in Labels /\ g.block \in DOMAIN blocks /\ g.at \in 1 .. Len(source)
  BY <1>1, <1>2 DEF TypeInv, GotosOK
<1>6. phase = "run" => pc.block \in DOMAIN blocks /\ pc.index \in DOMAIN blocks[pc.block]
  BY <1>1 DEF TypeInv, Block
<1>7. QED
  BY <1>1, <1>3, <1>4, <1>5, <1>6 DEF TypeOK, TypeInv, LabelsOK

(* Every branch goes to a block there is, and a run never leaves the       *)
(* instructions of a block but by its terminator.                          *)
THEOREM TypeCorrect == Spec => []TypeOK
BY InitTyped, TypeStep, TypeInvTypes, PTL DEF Spec

-----------------------------------------------------------------------------
(* The blocks of a routine whose returns end branches                      *)

Plain(block) == \A i \in 1 .. Len(block) : block[i].kind \notin Terminators

(* Statement s has made block b and not yet gone to it. *)
Awaits(s, b) == b = s.after \/ (s.part = "then" /\ b = s.else)

(* The block the Builder is in, the blocks open statements wait for and    *)
(* the blocks gotos left are all different.                                *)
Apart ==
  /\ \A k \in 1 .. Len(open) : ~Awaits(open[k], insertBlock)
  /\ \A g \in gotos : g.block # insertBlock
  /\ \A k \in 1 .. Len(open) : \A g \in gotos : ~Awaits(open[k], g.block)
  /\ \A k \in 1 .. Len(open) : \A j \in 1 .. k - 1 : \A b \in 1 .. Len(blocks) :
       ~(Awaits(open[j], b) /\ Awaits(open[k], b))
  /\ \A k \in 1 .. Len(open) : open[k].part = "then" => open[k].else # open[k].after

Finished(b) ==
  /\ b # insertBlock
  /\ \A k \in 1 .. Len(open) : ~Awaits(open[k], b)
  /\ \A g \in gotos : g.block # b

(* What each block holds: the flag says it of the Builder's own; those     *)
(* awaited are empty, those gotos left lack their branch, all others are   *)
(* complete.                                                               *)
Held ==
  /\ IF BBended THEN WellFormedBlock(blocks[insertBlock]) ELSE Plain(blocks[insertBlock])
  /\ \A k \in 1 .. Len(open) : \A b \in 1 .. Len(blocks) :
       Awaits(open[k], b) => blocks[b] = << >>
  /\ \A g \in gotos : Plain(blocks[g.block])
  /\ \A b \in 1 .. Len(blocks) : Finished(b) => WellFormedBlock(blocks[b])

LastReturns == source # << >> /\ source[Len(source)] = <<"return">>

(* What is returned is what lookup("result") found, for a return there is. *)
ReturnsFound(bs) ==
  \A b \in 1 .. Len(bs) : \A i \in 1 .. Len(bs[b]) : bs[b][i].kind = "ret" =>
    /\ bs[b][i].value = routine.found
    /\ \E j \in 1 .. Len(source) : source[j] = <<"return">>

FlagInv ==
  phase = "compile" =>
    /\ ReturnsFound(blocks)
    /\ ReturnsEndBranches => Apart /\ Held /\ (BBended => LastReturns)

IInv == TypeInv /\ FlagInv /\ TidyAccepted

-----------------------------------------------------------------------------

LEMMA TerminatedBlock ==
  ASSUME NEW block \in Block, Plain(block), NEW instr \in Instruction,
         instr.kind \in Terminators
  PROVE  WellFormedBlock(Append(block, instr))
<1> DEFINE new == Append(block, instr)
<1>1. /\ new \in Block /\ Len(new) = Len(block) + 1 /\ Len(block) \in Nat
      /\ new[Len(block) + 1] = instr
      /\ \A i \in 1 .. Len(block) : new[i] = block[i]
  BY AppendedBlock
<1>2. new # << >> /\ DOMAIN new = 1 .. Len(block) + 1
  BY <1>1 DEF Block
<1>3. ASSUME NEW i \in 1 .. Len(block) + 1
      PROVE  new[i].kind \in Terminators <=> i = Len(new)
  <2>1. CASE i = Len(block) + 1
    BY <1>1, <2>1
  <2>2. CASE i \in 1 .. Len(block)
    BY <1>1, <2>2 DEF Plain
  <2>3. QED
    BY <1>1, <2>1, <2>2
<1>4. QED
  BY <1>2, <1>3 DEF WellFormedBlock

LEMMA PlainBlock ==
  ASSUME NEW block \in Block, Plain(block), NEW instr \in Instruction, instr.kind = "op"
  PROVE  Plain(Append(block, instr))
<1>1. \A i \in 1 .. Len(block) + 1 : Append(block, instr)[i].kind \notin Terminators
  BY AppendedBlock DEF Plain, Terminators
<1>2. QED
  BY <1>1, AppendedBlock DEF Plain

LEMMA EmptyPlain == << >> \in Block /\ Plain(<< >>)
BY DEF Block, Plain

(* Tokens that may follow a return. *)
Closing == {"else", "endif", "endwhile"}

LEMMA ReturnsBefore ==
  ASSUME TypeInv, NEW t \in Token, Compiled(t), ReturnsEndBranches'
  PROVE  ReturnsEndBranches /\ (LastReturns => t[1] \in Closing)
<1>1. /\ source \in Seq(Token) /\ source' = Append(source, t) /\ Len(source) \in Nat
      /\ Len(source') = Len(source) + 1
  BY DEF TypeInv, Compiled
<1>2. /\ \A i \in 1 .. Len(source) : source'[i] = source[i]
      /\ source'[Len(source) + 1] = t
  BY <1>1
<1>3. \A i \in 1 .. Len(source) : source'[i] = <<"return">> => source'[i + 1][1] \in Closing
  BY <1>1 DEF ReturnsEndBranches, Closing
<1>4. ReturnsEndBranches
  <2> SUFFICES ASSUME NEW i \in 1 .. Len(source) - 1, source[i] = <<"return">>
               PROVE  source[i + 1][1] \in Closing
    BY DEF ReturnsEndBranches, Closing
  <2>1. i \in 1 .. Len(source) /\ i + 1 \in 1 .. Len(source)
    BY <1>1
  <2>2. QED
    BY <1>2, <1>3, <2>1
<1>5. ASSUME LastReturns PROVE t[1] \in Closing
  <2>1. Len(source) \in 1 .. Len(source) /\ source[Len(source)] = <<"return">>
    BY <1>1, <1>5 DEF LastReturns
  <2>2. QED
    BY <1>2, <1>3, <2>1
<1>6. QED
  BY <1>4, <1>5

(* What is returned, block by block. *)
LEMMA FoundEmit ==
  ASSUME NEW bs \in Seq(Block), ReturnsFound(bs), NEW b \in 1 .. Len(bs),
         NEW instr \in Instruction, instr.kind # "ret"
  PROVE  ReturnsFound(Emit(bs, b, instr))
<1> DEFINE new == Emit(bs, b, instr)
<1>1. /\ Len(new) = Len(bs) /\ new[b] = Append(bs[b], instr) /\ bs[b] \in Block
      /\ \A c \in 1 .. Len(bs) : c # b => new[c] = bs[c]
  BY EmitProperties
<1>2. ASSUME NEW c \in 1 .. Len(bs), NEW i \in 1 .. Len(new[c]), new[c][i].kind = "ret"
      PROVE  i \in 1 .. Len(bs[c]) /\ new[c][i] = bs[c][i]
  <2>1. CASE c = b
    <3> DEFINE block == bs[b]
    <3>0. block \in Block /\ new[c] = Append(block, instr)
      BY <1>1, <2>1
    <3>1. i # Len(bs[b]) + 1
      <4>1. Append(block, instr)[Len(block) + 1] = instr
        BY <3>0, AppendedBlock
      <4>2. QED
        BY <1>2, <3>0, <4>1
    <3>2. i \in 1 .. Len(bs[b]) + 1 /\ Len(bs[b]) \in Nat
      <4>1. Len(Append(block, instr)) = Len(block) + 1 /\ Len(block) \in Nat
        BY <3>0, AppendedBlock
      <4>2. QED
        BY <3>0, <4>1
    <3>3. i \in 1 .. Len(bs[b])
      BY <3>1, <3>2
    <3>4. Append(bs[b], instr)[i] = bs[b][i]
      BY <1>1, <3>3, AppendedBlock
    <3>5. QED
      BY <1>1, <2>1, <3>3, <3>4
  <2>2. CASE c # b
    BY <1>1, <2>2
  <2>3. QED
    BY <2>1, <2>2
<1>3. QED
  <2> HIDE DEF new
  <2>1. ASSUME NEW c \in 1 .. Len(new), NEW i \in 1 .. Len(new[c]), new[c][i].kind = "ret"
        PROVE  /\ new[c][i].value = routine.found
               /\ \E j \in 1 .. Len(source) : source[j] = <<"return">>
    <3>1. c \in 1 .. Len(bs)
      BY <1>1
    <3>2. i \in 1 .. Len(bs[c]) /\ new[c][i] = bs[c][i]
      BY <1>2, <2>1, <3>1
    <3>3. QED
      BY <2>1, <3>1, <3>2 DEF ReturnsFound
  <2>2. ReturnsFound(new)
    BY <2>1 DEF ReturnsFound
  <2>3. QED
    BY <2>2 DEF new

LEMMA FoundGrow ==
  ASSUME NEW bs \in Seq(Block), ReturnsFound(bs), NEW n \in Nat
  PROVE  ReturnsFound(Grow(bs, n))
<1> DEFINE new == Grow(bs, n)
<1>1. /\ Len(new) = Len(bs) + n /\ Len(bs) \in Nat
      /\ \A c \in 1 .. Len(bs) : new[c] = bs[c]
      /\ \A c \in Len(bs) + 1 .. Len(bs) + n : new[c] = << >>
  <2>1. Len(bs) \in Nat
    OBVIOUS
  <2>2. QED
    BY <2>1, GrowProperties
<1> HIDE DEF new
<1>2. ASSUME NEW c \in 1 .. Len(new), NEW i \in 1 .. Len(new[c])
      PROVE  c \in 1 .. Len(bs) /\ new[c] = bs[c]
  <2>1. CASE c \in 1 .. Len(bs)
    BY <1>1, <2>1
  <2>2. CASE c \in Len(bs) + 1 .. Len(bs) + n
    <3>1. Len(new[c]) = 0
      BY <1>1, <2>2
    <3>2. QED
      BY <3>1
  <2>3. QED
    BY <1>1, <2>1, <2>2
<1>3. ReturnsFound(new)
  BY <1>2 DEF ReturnsFound
<1>4. QED
  BY <1>3 DEF new

(* Another token takes no return away. *)
LEMMA FoundCompiled ==
  ASSUME TypeInv, NEW t \in Token, Compiled(t), routine' = routine, ReturnsFound(blocks')
  PROVE  ReturnsFound(blocks)'
<1>1. /\ Len(source') = Len(source) + 1 /\ Len(source) \in Nat
      /\ \A i \in 1 .. Len(source) : source'[i] = source[i]
  BY DEF TypeInv, Compiled
<1>2. (\E j \in 1 .. Len(source) : source[j] = <<"return">>)
        => \E j \in 1 .. Len(source') : source'[j] = <<"return">>
  BY <1>1
<1>3. QED
  BY <1>2 DEF ReturnsFound

(* What is left to show of a token that is not the end of a statement.     *)
LEMMA FlagCompiled ==
  ASSUME TypeInv, FlagInv, phase = "compile", phase' = phase, routine' = routine,
         NEW t \in Token, Compiled(t), t[1] \notin Closing, ReturnsFound(blocks)',
         (Apart /\ Held /\ ~BBended) => Apart' /\ Held' /\ (BBended' => LastReturns')
  PROVE  FlagInv' /\ TidyAccepted'
<1>1. ASSUME ReturnsEndBranches'
      PROVE  Apart /\ Held /\ ~BBended
  <2>1. ReturnsEndBranches /\ ~LastReturns
    BY <1>1, ReturnsBefore
  <2>2. QED
    BY <2>1 DEF FlagInv
<1>2. QED
  BY <1>1 DEF FlagInv, TidyAccepted

LEMMA BlockTypes ==
  ASSUME TypeInv
  PROVE  /\ blocks \in Seq(Block) /\ Len(blocks) \in Nat
         /\ insertBlock \in 1 .. Len(blocks) /\ blocks[insertBlock] \in Block
         /\ Here \in Nat /\ Here >= 1
         /\ open \in Seq(Statement) /\ Len(open) \in Nat
         /\ \A k \in 1 .. Len(open) : \A b : Awaits(open[k], b) => b \in 1 .. Len(blocks)
         /\ \A g \in gotos : g.block \in 1 .. Len(blocks)
BY DEF TypeInv, BlocksOK, Here, GotosOK, StatementOK, Awaits

LEMMA InstructionTypes ==
  ASSUME NEW i \in Nat
  PROVE  /\ Op(i) \in Instruction /\ Op(i).kind = "op"
         /\ \A b \in Nat : Br(b, i) \in Instruction /\ Br(b, i).kind = "br"
         /\ \A b \in Nat, c \in Nat :
              CondBr(b, c, i) \in Instruction /\ CondBr(b, c, i).kind = "condbr"
         /\ \A v \in Values :
              Ret(v, i) \in Instruction /\ Ret(v, i).kind = "ret" /\ Ret(v, i).value = v
         /\ {"br", "condbr", "ret"} = Terminators
BY DEF Instruction, Op, Br, CondBr, Ret, Terminators

LEMMA SimpleStatementFlag == IInv /\ SimpleStatement => FlagInv' /\ TidyAccepted'
<1> SUFFICES ASSUME IInv, SimpleStatement PROVE FlagInv' /\ TidyAccepted'
  OBVIOUS
<1>1. /\ Compiled(<<"op">>) /\ <<"op">> \in Token /\ <<"op">>[1] \notin Closing
      /\ phase = "compile" /\ phase' = phase /\ routine' = routine
  BY DEF SimpleStatement, Room, Token, Closing
<1>2. /\ blocks \in Seq(Block) /\ insertBlock \in 1 .. Len(blocks)
      /\ blocks[insertBlock] \in Block
      /\ Op(Here) \in Instruction /\ Op(Here).kind = "op"
  BY BlockTypes, InstructionTypes DEF IInv
<1>3. blocks' = Emit(blocks, insertBlock, Op(Here))
  BY DEF SimpleStatement
<1>4. /\ blocks' \in Seq(Block) /\ Len(blocks') = Len(blocks)
      /\ blocks'[insertBlock] = Append(blocks[insertBlock], Op(Here))
      /\ \A c \in 1 .. Len(blocks) : c # insertBlock => blocks'[c] = blocks[c]
  BY <1>2, <1>3, EmitProperties
<1>5. ReturnsFound(blocks')
  BY <1>1, <1>2, <1>3, FoundEmit DEF IInv, FlagInv
<1>6. ASSUME Apart, Held, ~BBended PROVE Apart' /\ Held' /\ ~BBended'
  <2>1. ~BBended' /\ insertBlock' = insertBlock /\ open' = open /\ gotos' = gotos
    BY <1>6 DEF SimpleStatement
  <2>2. Apart'
    BY <1>4, <1>6, <2>1 DEF Apart
  <2>3. Plain(blocks'[insertBlock])
    BY <1>2, <1>4, <1>6, PlainBlock DEF Held
  <2>4. \A b \in 1 .. Len(blocks) : Finished(b)' => Finished(b) /\ b # insertBlock
    BY <2>1 DEF Finished
  <2>5. /\ \A k \in 1 .. Len(open) : \A b \in 1 .. Len(blocks) :
             Awaits(open[k], b) => b # insertBlock
        /\ \A g \in gotos : g.block # insertBlock /\ g.block \in 1 .. Len(blocks)
    BY <1>6, BlockTypes DEF Apart, IInv
  <2>6. Held'
    BY <1>4, <1>6, <2>1, <2>3, <2>4, <2>5 DEF Held
  <2>7. QED
    BY <2>1, <2>2, <2>6
<1>7. QED
  BY <1>1, <1>4, <1>5, <1>6, FoundCompiled, FlagCompiled DEF IInv

(* A statement is opened whose blocks are new.                             *)
LEMMA OpenedFlag ==
  ASSUME TypeInv, Apart, Held, ~BBended,
         NEW s \in Statement, NEW n \in Nat, n = Len(blocks),
         NEW ins \in n + 1 .. n + 3,
         \A b : Awaits(s, b) => b \in n + 1 .. n + 3 /\ b # ins,
         s.part = "then" => s.else # s.after,
         blocks' \in Seq(Block), Len(blocks') = n + 3,
         \A c \in 1 .. n : c # insertBlock => blocks'[c] = blocks[c],
         WellFormedBlock(blocks'[insertBlock]),
         \A c \in n + 1 .. n + 3 : c = ins \/ Awaits(s, c) => blocks'[c] = << >>,
         \A c \in n + 1 .. n + 3 : c # ins /\ ~Awaits(s, c) => WellFormedBlock(blocks'[c]),
         insertBlock' = ins, open' = Append(open, s), UNCHANGED <<BBended, gotos>>
  PROVE  Apart' /\ Held' /\ ~BBended'
<1>1. /\ blocks \in Seq(Block) /\ insertBlock \in 1 .. n
      /\ open \in Seq(Statement) /\ Len(open) \in Nat
      /\ \A k \in 1 .. Len(open) : \A b : Awaits(open[k], b) => b \in 1 .. n
      /\ \A g \in gotos : g.block \in 1 .. n
  BY BlockTypes
<1>2. /\ Len(open') = Len(open) + 1 /\ open'[Len(open) + 1] = s
      /\ \A k \in 1 .. Len(open) : open'[k] = open[k]
  BY <1>1
<1>3. ASSUME NEW k \in 1 .. Len(open')
      PROVE  \/ open'[k] = s
             \/ k \in 1 .. Len(open) /\ open'[k] = open[k]
  <2>1. k \in 1 .. Len(open) + 1
    BY <1>2
  <2>2. CASE k = Len(open) + 1
    BY <1>2, <2>2
  <2>3. CASE k \in 1 .. Len(open)
    BY <1>2, <2>3
  <2>4. QED
    BY <1>1, <2>1, <2>2, <2>3
<1>4. Apart'
  <2>1. ASSUME NEW k \in 1 .. Len(open') PROVE ~Awaits(open'[k], ins)
    <3>1. CASE open'[k] = s
      BY <3>1
    <3>2. CASE k \in 1 .. Len(open) /\ open'[k] = open[k]
      <4>1. ins \notin 1 .. n
        OBVIOUS
      <4>2. QED
        BY <1>1, <3>2, <4>1
    <3>3. QED
      BY <1>3, <3>1, <3>2
  <2>2. \A g \in gotos : g.block # ins
    BY <1>1
  <2>3. \A k \in 1 .. Len(open') : \A g \in gotos : ~Awaits(open'[k], g.block)
    <3> SUFFICES ASSUME NEW k \in 1 .. Len(open'), NEW g \in gotos
                 PROVE  ~Awaits(open'[k], g.block)
      OBVIOUS
    <3>1. CASE open'[k] = s
      BY <1>1, <3>1
    <3>2. CASE k \in 1 .. Len(open) /\ open'[k] = open[k]
      BY <3>2 DEF Apart
    <3>3. QED
      BY <1>3, <3>1, <3>2
  <2>4. \A k \in 1 .. Len(open') : \A j \in 1 .. k - 1 : \A b \in 1 .. Len(blocks') :
          ~(Awaits(open'[j], b) /\ Awaits(open'[k], b))
    <3> SUFFICES ASSUME NEW k \in 1 .. Len(open'), NEW j \in 1 .. k - 1,
                        NEW b \in 1 .. Len(blocks'),
                        Awaits(open'[j], b), Awaits(open'[k], b)
                 PROVE  FALSE
      OBVIOUS
    <3>1. j \in 1 .. Len(open) /\ open'[j] = open[j] /\ b \in 1 .. n
      BY <1>1, <1>2
    <3>2. CASE open'[k] = s
      BY <3>1, <3>2
    <3>3. CASE k \in 1 .. Len(open) /\ open'[k] = open[k]
      BY <3>1, <3>3 DEF Apart
    <3>4. QED
      BY <1>3, <3>2, <3>3
  <2>5. \A k \in 1 .. Len(open') : open'[k].part = "then" => open'[k].else # open'[k].after
    BY <1>3 DEF Apart
  <2>6. QED
    BY <2>1, <2>2, <2>3, <2>4, <2>5 DEF Apart
<1>5. Held'
  <2>1. Plain(blocks'[ins])
    BY EmptyPlain
  <2>2. \A k \in 1 .. Len(open') : \A b \in 1 .. Len(blocks') :
          Awaits(open'[k], b) => blocks'[b] = << >>
    <3> SUFFICES ASSUME NEW k \in 1 .. Len(open'), NEW b \in 1 .. Len(blocks'),
                        Awaits(open'[k], b)
                 PROVE  blocks'[b] = << >>
      OBVIOUS
    <3>1. CASE open'[k] = s
      BY <3>1
    <3>2. CASE k \in 1 .. Len(open) /\ open'[k] = open[k]
      <4>1. b \in 1 .. n /\ b # insertBlock
        BY <1>1, <3>2 DEF Apart
      <4>2. QED
        BY <3>2, <4>1 DEF Held
    <3>3. QED
      BY <1>3, <3>1, <3>2
  <2>3. \A g \in gotos : Plain(blocks'[g.block])
    BY <1>1 DEF Apart, Held
  <2>4. ASSUME NEW b \in 1 .. Len(blocks'), Finished(b)'
        PROVE  WellFormedBlock(blocks'[b])
    <3>1. b # ins /\ ~Awaits(s, b) /\ \A k \in 1 .. Len(open) : ~Awaits(open[k], b)
      <4>1. b # ins /\ \A k \in 1 .. Len(open') : ~Awaits(open'[k], b)
        BY <2>4 DEF Finished
      <4>2. Len(open) + 1 \in 1 .. Len(open') /\ \A k \in 1 .. Len(open) : k \in 1 .. Len(open')
        BY <1>1, <1>2
      <4>3. QED
        BY <1>2, <4>1, <4>2
    <3>2. CASE b \in n + 1 .. n + 3
      BY <3>1, <3>2
    <3>3. CASE b = insertBlock
      BY <3>3
    <3>4. CASE b \in 1 .. n /\ b # insertBlock
      <4>1. Finished(b)
        BY <2>4, <3>1, <3>4 DEF Finished
      <4>2. QED
        BY <3>4, <4>1 DEF Held
    <3>5. QED
      BY <1>1, <3>2, <3>3, <3>4
  <2>5. QED
    BY <2>1, <2>2, <2>3, <2>4 DEF Held, Finished, WellFormedBlock
<1>6. QED
  BY <1>4, <1>5

LEMMA IfFlag == IInv /\ If => FlagInv' /\ TidyAccepted'
<1> SUFFICES ASSUME IInv, If PROVE FlagInv' /\ TidyAccepted'
  OBVIOUS
<1> DEFINE n == Len(blocks)
           bs == Grow(blocks, 3)
           branch == CondBr(n + 1, n + 3, Here)
           statement == [part |-> "then", token |-> Here, else |-> n + 3, after |-> n + 2]
<1>1. /\ Compiled(<<"if">>) /\ <<"if">> \in Token /\ <<"if">>[1] \notin Closing
      /\ phase = "compile" /\ phase' = phase /\ routine' = routine
  BY DEF If, Room, Token, Closing
<1>2. /\ blocks \in Seq(Block) /\ n \in Nat /\ insertBlock \in 1 .. n
      /\ blocks[insertBlock] \in Block /\ Here \in Nat
  BY BlockTypes DEF IInv
<1>3. branch \in Instruction /\ branch.kind = "condbr" /\ branch.kind \in Terminators
  BY <1>2 DEF Instruction, CondBr, Terminators
<1>4. blocks' = Emit(bs, insertBlock, branch) /\ insertBlock' = n + 1
      /\ open' = Append(open, statement) /\ UNCHANGED <<BBended, gotos>>
  BY DEF If, NewBlock
<1>5. /\ bs \in Seq(Block) /\ Len(bs) = n + 3
      /\ \A c \in 1 .. n : bs[c] = blocks[c]
      /\ \A c \in n + 1 .. n + 3 : bs[c] = << >>
  BY <1>2, GrowProperties
<1> HIDE DEF branch, bs
<1>6. /\ blocks' \in Seq(Block) /\ Len(blocks') = n + 3
      /\ blocks'[insertBlock] = Append(blocks[insertBlock], branch)
      /\ \A c \in 1 .. n + 3 : c # insertBlock => blocks'[c] = bs[c]
  <2>1. insertBlock \in 1 .. Len(bs) /\ bs[insertBlock] = blocks[insertBlock]
    BY <1>2, <1>5
  <2>2. QED
    BY <1>3, <1>4, <1>5, <2>1, EmitProperties
<1>7. ReturnsFound(blocks')
  <2>1. ReturnsFound(bs)
    BY <1>1, <1>2, FoundGrow DEF IInv, FlagInv, bs
  <2>2. insertBlock \in 1 .. Len(bs) /\ branch.kind # "ret"
    BY <1>2, <1>3, <1>5
  <2>3. QED
    BY <1>3, <1>4, <1>5, <2>1, <2>2, FoundEmit
<1>8. ASSUME Apart, Held, ~BBended PROVE Apart' /\ Held' /\ ~BBended'
  <2>1. WellFormedBlock(blocks'[insertBlock])
    BY <1>2, <1>3, <1>6, <1>8, TerminatedBlock DEF Held
  <2>2. statement \in Statement
    BY <1>2 DEF Statement
  <2>3. \A b : Awaits(statement, b) <=> b = n + 2 \/ b = n + 3
    BY DEF Awaits
  <2>4. statement.else # statement.after
    BY <1>2
  <2> HIDE DEF statement
  <2>5. /\ \A c \in 1 .. n : c # insertBlock => blocks'[c] = blocks[c]
        /\ \A c \in n + 1 .. n + 3 : blocks'[c] = << >>
    BY <1>2, <1>5, <1>6
  <2>6. \A c \in n + 1 .. n + 3 : c = n + 1 \/ Awaits(statement, c)
    BY <1>2, <2>3
  <2>7. \A b : Awaits(statement, b) => b \in n + 1 .. n + 3 /\ b # n + 1
    BY <1>2, <2>3
  <2>8. n + 1 \in n + 1 .. n + 3 /\ TypeInv
    BY <1>2 DEF IInv
  <2>9. QED
    BY <1>2, <1>4, <1>6, <1>8, <2>1, <2>2, <2>4, <2>5, <2>6, <2>7, <2>8, OpenedFlag
<1>9. QED
  BY <1>1, <1>6, <1>7, <1>8, FoundCompiled, FlagCompiled DEF IInv

LEMMA WhileFlag == IInv /\ While => FlagInv' /\ TidyAccepted'
<1> SUFFICES ASSUME IInv, While PROVE FlagInv' /\ TidyAccepted'
  OBVIOUS
<1> DEFINE n == Len(blocks)
           bs == Grow(blocks, 3)
           enter == Br(n + 1, Here)
           entered == Emit(bs, insertBlock, enter)
           branch == CondBr(n + 3, n + 2, Here)
           statement == [part |-> "body", token |-> Here, loop |-> n + 1, after |-> n + 2]
<1>1. /\ Compiled(<<"while">>) /\ <<"while">> \in Token /\ <<"while">>[1] \notin Closing
      /\ phase = "compile" /\ phase' = phase /\ routine' = routine
  BY DEF While, Room, Token, Closing
<1>2. /\ blocks \in Seq(Block) /\ n \in Nat /\ insertBlock \in 1 .. n
      /\ blocks[insertBlock] \in Block /\ Here \in Nat
  BY BlockTypes DEF IInv
<1>3. /\ enter \in Instruction /\ enter.kind = "br" /\ enter.kind \in Terminators
      /\ branch \in Instruction /\ branch.kind = "condbr" /\ branch.kind \in Terminators
  <2>1. n + 1 \in Nat /\ n + 2 \in Nat /\ n + 3 \in Nat
    BY <1>2
  <2>2. enter \in Instruction /\ enter.kind = "br"
    BY <1>2, <2>1 DEF Instruction, Br
  <2>3. branch \in Instruction /\ branch.kind = "condbr"
    BY <1>2, <2>1 DEF Instruction, CondBr
  <2>4. QED
    BY <2>2, <2>3 DEF Terminators
<1>4. /\ blocks' = Emit(entered, n + 1, branch) /\ insertBlock' = n + 3
      /\ open' = Append(open, statement) /\ UNCHANGED <<BBended, gotos>>
  BY DEF While, NewBlock
<1>5. /\ bs \in Seq(Block) /\ Len(bs) = n + 3
      /\ \A c \in 1 .. n : bs[c] = blocks[c]
      /\ \A c \in n + 1 .. n + 3 : bs[c] = << >>
  BY <1>2, GrowProperties
<1> HIDE DEF branch, bs, enter, entered
<1>6. /\ entered \in Seq(Block) /\ Len(entered) = n + 3
      /\ entered[insertBlock] = Append(blocks[insertBlock], enter)
      /\ \A c \in 1 .. n + 3 : c # insertBlock => entered[c] = bs[c]
  <2>1. insertBlock \in 1 .. Len(bs) /\ bs[insertBlock] = blocks[insertBlock]
    BY <1>2, <1>5
  <2>2. bs \in Seq(Block) /\ enter \in Instruction
    BY <1>3, <1>5
  <2>3. /\ entered \in Seq(Block) /\ Len(entered) = Len(bs)
        /\ entered[insertBlock] = Append(bs[insertBlock], enter)
        /\ \A c \in 1 .. Len(bs) : c # insertBlock => entered[c] = bs[c]
    BY <2>1, <2>2, EmitProperties DEF entered
  <2>4. QED
    BY <1>5, <2>1, <2>3
<1>7. n + 1 \in 1 .. Len(entered) /\ n + 1 # insertBlock /\ entered[n + 1] = << >>
  BY <1>2, <1>5, <1>6
<1>8. /\ blocks' \in Seq(Block) /\ Len(blocks') = n + 3
      /\ blocks'[n + 1] = Append(<< >>, branch)
      /\ \A c \in 1 .. n + 3 : c # n + 1 => blocks'[c] = entered[c]
  <2> DEFINE loop == n + 1
  <2>1. loop \in 1 .. Len(entered) /\ blocks' = Emit(entered, loop, branch)
    BY <1>4, <1>7
  <2> HIDE DEF loop
  <2>2. /\ blocks' \in Seq(Block) /\ Len(blocks') = Len(entered)
        /\ blocks'[loop] = Append(entered[loop], branch)
        /\ \A c \in 1 .. Len(entered) : c # loop => blocks'[c] = entered[c]
    BY <1>3, <1>6, <2>1, EmitProperties
  <2>3. QED
    BY <1>6, <1>7, <2>2 DEF loop
<1>9. ReturnsFound(blocks')
  <2>1. ReturnsFound(bs)
    BY <1>1, <1>2, FoundGrow DEF IInv, FlagInv, bs
  <2>2. insertBlock \in 1 .. Len(bs) /\ branch.kind # "ret" /\ enter.kind # "ret"
    BY <1>2, <1>3, <1>5
  <2>3. ReturnsFound(entered)
    BY <1>3, <1>5, <2>1, <2>2, FoundEmit DEF entered
  <2>4. QED
    BY <1>3, <1>4, <1>6, <1>7, <2>2, <2>3, FoundEmit
<1>10. ASSUME Apart, Held, ~BBended PROVE Apart' /\ Held' /\ ~BBended'
  <2>1. WellFormedBlock(Append(blocks[insertBlock], enter))
    BY <1>2, <1>3, <1>10, TerminatedBlock DEF Held
  <2>2. WellFormedBlock(Append(<< >>, branch))
    BY <1>3, TerminatedBlock, EmptyPlain
  <2>3. statement \in Statement
    BY <1>2 DEF Statement
  <2>4. /\ \A b : Awaits(statement, b) <=> b = n + 2
        /\ statement.part # "then"
    BY DEF Awaits
  <2> HIDE DEF statement
  <2>5. /\ \A c \in 1 .. n : c # insertBlock => blocks'[c] = blocks[c]
        /\ blocks'[insertBlock] = Append(blocks[insertBlock], enter)
        /\ \A c \in n + 1 .. n + 3 : c # n + 1 => blocks'[c] = << >>
    <3>1. \A c \in 1 .. n : c \in 1 .. n + 3 /\ c # n + 1
      BY <1>2
    <3>2. \A c \in n + 1 .. n + 3 : c \in 1 .. n + 3 /\ c # insertBlock
      BY <1>2
    <3>3. \A c \in 1 .. n : c # insertBlock => blocks'[c] = blocks[c]
      BY <1>5, <1>6, <1>8, <3>1
    <3>4. blocks'[insertBlock] = Append(blocks[insertBlock], enter)
      BY <1>2, <1>6, <1>8, <3>1
    <3>5. \A c \in n + 1 .. n + 3 : c # n + 1 => blocks'[c] = << >>
      BY <1>5, <1>6, <1>8, <3>2
    <3>6. QED
      BY <3>3, <3>4, <3>5
  <2>6. \A c \in n + 1 .. n + 3 : c # n + 3 /\ ~Awaits(statement, c) => c = n + 1
    BY <1>2, <2>4
  <2>7. \A c \in n + 1 .. n + 3 : c = n + 3 \/ Awaits(statement, c) => c # n + 1
    BY <1>2, <2>4
  <2>8. \A b : Awaits(statement, b) => b \in n + 1 .. n + 3 /\ b # n + 3
    BY <1>2, <2>4
  <2>9. n + 3 \in n + 1 .. n + 3 /\ TypeInv
    BY <1>2 DEF IInv
  <2>10. /\ WellFormedBlock(blocks'[insertBlock])
         /\ \A c \in n + 1 .. n + 3 : c = n + 3 \/ Awaits(statement, c) => blocks'[c] = << >>
         /\ \A c \in n + 1 .. n + 3 :
              c # n + 3 /\ ~Awaits(statement, c) => WellFormedBlock(blocks'[c])
    BY <1>8, <2>1, <2>2, <2>5, <2>6, <2>7
  <2>11. QED
    BY <1>2, <1>4, <1>8, <1>10, <2>3, <2>4, <2>5, <2>8, <2>9, <2>10, OpenedFlag
<1>11. QED
  BY <1>1, <1>8, <1>9, <1>10, FoundCompiled, FlagCompiled DEF IInv

(* The Builder goes on in a new block. *)
LEMMA MovedFlag ==
  ASSUME TypeInv, Apart, Held, NEW n \in Nat, n = Len(blocks),
         blocks' \in Seq(Block), Len(blocks') = n + 1,
         \A c \in 1 .. n : c # insertBlock => blocks'[c] = blocks[c],
         blocks'[n + 1] = << >>,
         insertBlock' = n + 1, open' = open, ~BBended',
         \/ WellFormedBlock(blocks'[insertBlock]) /\ gotos' = gotos
         \/ /\ Plain(blocks'[insertBlock])
            /\ \A g \in gotos' : g \in gotos \/ g.block = insertBlock
            /\ \A g \in gotos : g \in gotos'
            /\ \E g \in gotos' : g.block = insertBlock
  PROVE  Apart' /\ Held' /\ ~BBended'
<1>1. /\ blocks \in Seq(Block) /\ insertBlock \in 1 .. n
      /\ open \in Seq(Statement) /\ Len(open) \in Nat
      /\ \A k \in 1 .. Len(open) : \A b : Awaits(open[k], b) => b \in 1 .. n
      /\ \A g \in gotos : g.block \in 1 .. n
  BY BlockTypes
<1>2. n + 1 \notin 1 .. n /\ \A b \in 1 .. n + 1 : b \in 1 .. n \/ b = n + 1
  OBVIOUS
<1>3. \A g \in gotos' : g \in gotos \/ g.block = insertBlock
  OBVIOUS
<1>4. Apart'
  <2>1. \A k \in 1 .. Len(open) : ~Awaits(open[k], n + 1)
    BY <1>1, <1>2
  <2>2. \A g \in gotos' : g.block # n + 1
    BY <1>1, <1>2, <1>3
  <2>3. \A k \in 1 .. Len(open) : \A g \in gotos' : ~Awaits(open[k], g.block)
    BY <1>3 DEF Apart
  <2>4. \A k \in 1 .. Len(open) : \A j \in 1 .. k - 1 : \A b \in 1 .. n + 1 :
          ~(Awaits(open[j], b) /\ Awaits(open[k], b))
    <3> SUFFICES ASSUME NEW k \in 1 .. Len(open), NEW j \in 1 .. k - 1, NEW b \in 1 .. n + 1,
                        Awaits(open[j], b), Awaits(open[k], b)
                 PROVE  FALSE
      OBVIOUS
    <3>1. b \in 1 .. n
      BY <1>1
    <3>2. QED
      BY <3>1 DEF Apart
  <2>5. \A k \in 1 .. Len(open) : open[k].part = "then" => open[k].else # open[k].after
    BY DEF Apart
  <2>6. QED
    BY <2>1, <2>2, <2>3, <2>4, <2>5 DEF Apart
<1>5. Held'
  <2>1. Plain(blocks'[n + 1])
    BY EmptyPlain
  <2>2. \A k \in 1 .. Len(open) : \A b \in 1 .. n + 1 :
          Awaits(open[k], b) => blocks'[b] = << >>
    <3> SUFFICES ASSUME NEW k \in 1 .. Len(open), NEW b \in 1 .. n + 1, Awaits(open[k], b)
                 PROVE  blocks'[b] = << >>
      OBVIOUS
    <3>1. b \in 1 .. n /\ b # insertBlock
      BY <1>1 DEF Apart
    <3>2. QED
      BY <3>1 DEF Held
  <2>3. ASSUME NEW g \in gotos' PROVE Plain(blocks'[g.block])
    <3>1. CASE g.block = insertBlock
      <4>1. Plain(blocks'[insertBlock])
        BY <3>1 DEF Apart
      <4>2. QED
        BY <3>1, <4>1
    <3>2. CASE g \in gotos /\ g.block # insertBlock
      BY <1>1, <3>2 DEF Held
    <3>3. QED
      BY <1>3, <3>1, <3>2
  <2>4. ASSUME NEW b \in 1 .. Len(blocks'), Finished(b)'
        PROVE  WellFormedBlock(blocks'[b])
    <3>1. /\ b # n + 1 /\ \A k \in 1 .. Len(open) : ~Awaits(open[k], b)
          /\ \A g \in gotos' : g.block # b
      BY <2>4 DEF Finished
    <3>2. b \in 1 .. n
      BY <1>2, <3>1
    <3>3. CASE b = insertBlock
      BY <3>1, <3>3
    <3>4. CASE b # insertBlock
      <4>1. Finished(b)
        BY <3>1, <3>4 DEF Finished
      <4>2. QED
        BY <3>2, <3>4, <4>1 DEF Held
    <3>5. QED
      BY <3>3, <3>4
  <2>5. QED
    BY <2>1, <2>2, <2>3, <2>4 DEF Held, Finished, WellFormedBlock
<1>6. QED
  BY <1>4, <1>5

LEMMA PlaceLabelFlag ==
  ASSUME IInv, NEW l \in Labels, PlaceLabel(l)
  PROVE  FlagInv' /\ TidyAccepted'
<1> DEFINE n == Len(blocks)
           bs == Grow(blocks, 1)
           branch == Br(n + 1, Here)
           t == <<"label", l>>
<1>1. /\ Compiled(t) /\ t \in Token /\ t[1] \notin Closing
      /\ phase = "compile" /\ phase' = phase /\ routine' = routine
  BY DEF PlaceLabel, Room, Token, Closing
<1>2. /\ blocks \in Seq(Block) /\ n \in Nat /\ insertBlock \in 1 .. n
      /\ blocks[insertBlock] \in Block /\ Here \in Nat
  BY BlockTypes DEF IInv
<1>3. branch \in Instruction /\ branch.kind # "ret" /\ branch.kind \in Terminators
  BY <1>2, InstructionTypes, SMTT(30)
<1>4. /\ blocks' = BrUnlessEnded(bs, insertBlock, branch) /\ insertBlock' = n + 1
      /\ open' = open /\ UNCHANGED <<BBended, gotos>>
  BY DEF PlaceLabel, NewBlock
<1>5. /\ bs \in Seq(Block) /\ Len(bs) = n + 1
      /\ \A c \in 1 .. n : bs[c] = blocks[c]
      /\ bs[n + 1] = << >>
  <2>1. n + 1 \in Len(blocks) + 1 .. Len(blocks) + 1 /\ 1 \in Nat
    BY <1>2
  <2>2. QED
    BY <1>2, <2>1, GrowProperties
<1>6. insertBlock \in 1 .. Len(bs) /\ bs[insertBlock] = blocks[insertBlock]
  BY <1>2, <1>5
<1>7. ReturnsFound(bs)
  BY <1>1, <1>2, FoundGrow DEF IInv, FlagInv
<1> HIDE DEF branch, bs, t
<1>8. blocks' \in Seq(Block) /\ ReturnsFound(blocks')
  BY <1>3, <1>4, <1>5, <1>6, <1>7, FoundEmit, EmitProperties DEF BrUnlessEnded
<1>9. ASSUME Apart, Held, ~BBended PROVE Apart' /\ Held' /\ ~BBended'
  <2>1. /\ blocks' \in Seq(Block) /\ Len(blocks') = n + 1
        /\ blocks'[insertBlock] = Append(blocks[insertBlock], branch)
        /\ \A c \in 1 .. n + 1 : c # insertBlock => blocks'[c] = bs[c]
    <3>1. bs \in Seq(Block) /\ branch \in Instruction
      BY <1>3, <1>5
    <3>2. blocks' = Emit(bs, insertBlock, branch)
      BY <1>4, <1>9 DEF BrUnlessEnded
    <3>3. /\ blocks' \in Seq(Block) /\ Len(blocks') = Len(bs)
          /\ blocks'[insertBlock] = Append(bs[insertBlock], branch)
          /\ \A c \in 1 .. Len(bs) : c # insertBlock => blocks'[c] = bs[c]
      BY <1>6, <3>1, <3>2, EmitProperties
    <3>4. QED
      BY <1>5, <1>6, <3>3
  <2>2. WellFormedBlock(blocks'[insertBlock])
    BY <1>2, <1>3, <1>9, <2>1, TerminatedBlock DEF Held
  <2>3. blocks'[n + 1] = << >> /\ \A c \in 1 .. n : c # insertBlock => blocks'[c] = blocks[c]
    BY <1>2, <1>5, <2>1
  <2>4. ~BBended' /\ gotos' = gotos /\ open' = open
    BY <1>4, <1>9
  <2>5. QED
    BY <1>2, <1>4, <1>9, <2>1, <2>2, <2>3, <2>4, MovedFlag DEF IInv
<1>10. QED
  BY <1>1, <1>8, <1>9, FoundCompiled, FlagCompiled DEF IInv

LEMMA GoToFlag ==
  ASSUME IInv, NEW l \in Labels, GoTo(l)
  PROVE  FlagInv' /\ TidyAccepted'
<1> DEFINE n == Len(blocks)
           t == <<"goto", l>>
           goto == [label |-> l, block |-> insertBlock, at |-> Here]
<1>1. /\ Compiled(t) /\ t \in Token /\ t[1] \notin Closing
      /\ phase = "compile" /\ phase' = phase /\ routine' = routine
  BY DEF GoTo, Room, Token, Closing
<1>2. /\ blocks \in Seq(Block) /\ n \in Nat /\ insertBlock \in 1 .. n
  BY BlockTypes DEF IInv
<1>3. /\ blocks' = Grow(blocks, 1) /\ insertBlock' = n + 1
      /\ open' = open /\ BBended' = BBended /\ gotos' = gotos \cup {goto}
  BY DEF GoTo, NewBlock
<1>4. /\ blocks' \in Seq(Block) /\ Len(blocks') = n + 1
      /\ \A c \in 1 .. n : blocks'[c] = blocks[c]
      /\ blocks'[n + 1] = << >>
  <2>1. n + 1 \in Len(blocks) + 1 .. Len(blocks) + 1 /\ 1 \in Nat
    BY <1>2
  <2>2. QED
    BY <1>2, <1>3, <2>1, GrowProperties
<1>5. ReturnsFound(blocks')
  BY <1>1, <1>2, <1>3, FoundGrow DEF IInv, FlagInv
<1>6. goto \in gotos' /\ goto.block = insertBlock /\ \A g \in gotos' : g \in gotos \/ g = goto
  BY <1>3
<1> HIDE DEF t, goto
<1>7. ASSUME Apart, Held, ~BBended PROVE Apart' /\ Held' /\ ~BBended'
  <2>1. Plain(blocks'[insertBlock])
    BY <1>2, <1>4, <1>7 DEF Held
  <2>2. /\ \A g \in gotos' : g \in gotos \/ g.block = insertBlock
        /\ \A g \in gotos : g \in gotos'
        /\ \E g \in gotos' : g.block = insertBlock
    BY <1>3, <1>6
  <2>3. ~BBended'
    BY <1>3, <1>7
  <2>4. QED
    BY <1>2, <1>3, <1>4, <1>7, <2>1, <2>2, <2>3, MovedFlag DEF IInv
<1>8. QED
  BY <1>1, <1>4, <1>5, <1>7, FoundCompiled, FlagCompiled DEF IInv

LEMMA ReturnStmtFlag == IInv /\ ReturnStmt => FlagInv' /\ TidyAccepted'
<1> SUFFICES ASSUME IInv, ReturnStmt PROVE FlagInv' /\ TidyAccepted'
  OBVIOUS
<1> DEFINE ret == Ret(routine.found, Here)
           t == <<"return">>
<1>1. /\ Compiled(t) /\ t \in Token /\ t[1] \notin Closing
      /\ phase = "compile" /\ phase' = phase /\ routine' = routine
  BY DEF ReturnStmt, Room, Token, Closing
<1>2. /\ blocks \in Seq(Block) /\ insertBlock \in 1 .. Len(blocks)
      /\ blocks[insertBlock] \in Block /\ Here \in Nat
  BY BlockTypes DEF IInv
<1>3. /\ ret \in Instruction /\ ret.value = routine.found /\ ret.kind \in Terminators
  BY <1>2, InstructionTypes, FoundIsValue DEF IInv
<1>4. /\ blocks' = Emit(blocks, insertBlock, ret) /\ BBended' = TRUE
      /\ UNCHANGED <<insertBlock, open, gotos>>
  BY DEF ReturnStmt
<1>5. /\ Len(source') = Len(source) + 1 /\ Len(source) \in Nat
      /\ source' # << >> /\ source'[Len(source')] = t
      /\ \A i \in 1 .. Len(source) : source'[i] = source[i]
  BY <1>1 DEF IInv, TypeInv, Compiled
<1> HIDE DEF ret
<1>6. /\ blocks' \in Seq(Block) /\ Len(blocks') = Len(blocks)
      /\ blocks'[insertBlock] = Append(blocks[insertBlock], ret)
      /\ \A c \in 1 .. Len(blocks) : c # insertBlock => blocks'[c] = blocks[c]
  BY <1>2, <1>3, <1>4, EmitProperties
<1>7. LastReturns' /\ \E j \in 1 .. Len(source') : source'[j] = <<"return">>
  <2>1. Len(source') \in 1 .. Len(source')
    BY <1>5
  <2>2. QED
    BY <1>5, <2>1 DEF LastReturns
<1>8. ReturnsFound(blocks)'
  <2>1. ASSUME NEW b \in 1 .. Len(blocks), NEW i \in 1 .. Len(blocks'[b]),
               blocks'[b][i].kind = "ret"
        PROVE  blocks'[b][i].value = routine.found
    <3>1. ReturnsFound(blocks)
      BY <1>1 DEF IInv, FlagInv
    <3>2. CASE b # insertBlock
      BY <1>6, <2>1, <3>1, <3>2 DEF ReturnsFound
    <3>3. CASE b = insertBlock
      <4> DEFINE block == blocks[insertBlock]
      <4>1. /\ Len(blocks'[b]) = Len(block) + 1 /\ Len(block) \in Nat
            /\ blocks'[b][Len(block) + 1] = ret
            /\ \A j \in 1 .. Len(block) : blocks'[b][j] = block[j]
        <5>1. block \in Block /\ blocks'[b] = Append(block, ret)
          BY <1>2, <1>6, <3>3
        <5> HIDE DEF block
        <5>2. QED
          BY <1>3, <5>1, AppendedBlock
      <4>2. i = Len(block) + 1 \/ i \in 1 .. Len(block)
        BY <4>1
      <4>3. CASE i = Len(block) + 1
        BY <1>3, <4>1, <4>3
      <4>4. CASE i \in 1 .. Len(block)
        BY <1>2, <2>1, <3>1, <4>1, <4>4 DEF ReturnsFound
      <4>5. QED
        BY <4>2, <4>3, <4>4
    <3>4. QED
      BY <3>2, <3>3
  <2>2. QED
    BY <1>1, <1>6, <1>7, <2>1 DEF ReturnsFound
<1>9. ASSUME Apart, Held, ~BBended PROVE Apart' /\ Held' /\ (BBended' => LastReturns')
  <2>1. Apart'
    BY <1>4, <1>6, <1>9 DEF Apart
  <2>2. WellFormedBlock(blocks'[insertBlock])
    BY <1>2, <1>3, <1>6, <1>9, TerminatedBlock DEF Held
  <2>3. \A b \in 1 .. Len(blocks) : Finished(b)' => Finished(b) /\ b # insertBlock
    BY <1>4 DEF Finished
  <2>4. /\ \A k \in 1 .. Len(open) : \A b \in 1 .. Len(blocks) :
             Awaits(open[k], b) => b # insertBlock
        /\ \A g \in gotos : g.block # insertBlock /\ g.block \in 1 .. Len(blocks)
    BY <1>9, BlockTypes DEF Apart, IInv
  <2>5. WellFormedBlock(blocks[insertBlock])'
    BY <1>4, <2>2 DEF WellFormedBlock
  <2>6. \A b \in 1 .. Len(blocks) : Finished(b)' => WellFormedBlock(blocks[b])'
    BY <1>6, <1>9, <2>3 DEF Held, WellFormedBlock
  <2>7. Held'
    BY <1>4, <1>6, <1>9, <2>4, <2>5, <2>6 DEF Held
  <2>8. QED
    BY <1>7, <2>1, <2>7
<1>10. QED
  BY <1>1, <1>8, <1>9, FlagCompiled DEF IInv

(* The end of a statement, as in EndTyped.                                 *)
LEMMA EndFlag ==
  ASSUME IInv, phase = "compile", phase' = phase, routine' = routine, open # << >>,
         NEW t \in Token, Compiled(t),
         NEW to \in 1 .. Len(blocks), NEW b \in 1 .. Len(blocks), NEW both \in BOOLEAN,
         blocks' = IF both THEN Emit(BrUnlessEnded(blocks, insertBlock, Br(to, Here)),
                                     Top.else, Br(to, Here))
                   ELSE BrUnlessEnded(blocks, insertBlock, Br(to, Here)),
         insertBlock' = b,
         both => Top.part = "then",
         \/ open' = Outside /\ b = Top.after /\ (Top.part = "then" => both)
         \/ /\ open' = Append(Outside, [part |-> "else", token |-> Top.token,
                                         after |-> Top.after])
            /\ Top.part = "then" /\ b = Top.else /\ ~both,
         BBended' = FALSE, gotos' = gotos
  PROVE  FlagInv' /\ TidyAccepted'
<1> DEFINE ended == BrUnlessEnded(blocks, insertBlock, Br(to, Here))
           branch == Br(to, Here)
           statement == [part |-> "else", token |-> Top.token, after |-> Top.after]
           last == Len(open)
<1>1. /\ blocks \in Seq(Block) /\ Len(blocks) \in Nat /\ insertBlock \in 1 .. Len(blocks)
      /\ blocks[insertBlock] \in Block /\ Here \in Nat
      /\ \A k \in 1 .. Len(open) : \A c : Awaits(open[k], c) => c \in 1 .. Len(blocks)
      /\ \A g \in gotos : g.block \in 1 .. Len(blocks)
  BY BlockTypes DEF IInv
<1>2. /\ Top = open[last] /\ last \in Nat /\ last \in 1 .. last
      /\ Outside \in Seq(Statement) /\ Len(Outside) = last - 1
      /\ \A k \in 1 .. last - 1 : Outside[k] = open[k]
  BY OpenProperties DEF IInv, Top
<1>3. both => Top.else \in 1 .. Len(blocks)
  BY OpenProperties DEF IInv, StatementOK
<1>4. branch \in Instruction /\ branch.kind \in Terminators /\ branch.kind # "ret"
  BY <1>1 DEF Br, Instruction, Terminators
<1>5. \A c : Awaits(Top, c) <=> c = Top.after \/ (Top.part = "then" /\ c = Top.else)
  BY DEF Awaits
<1>6. \A c : Awaits(statement, c) <=> c = Top.after
  BY DEF Awaits
<1>7. statement.part # "then"
  OBVIOUS
<1> HIDE DEF branch
<1>8. /\ ended \in Seq(Block) /\ Len(ended) = Len(blocks)
      /\ BBended => ended = blocks
      /\ ~BBended => ended[insertBlock] = Append(blocks[insertBlock], branch)
      /\ \A c \in 1 .. Len(blocks) : c # insertBlock => ended[c] = blocks[c]
  BY <1>1, <1>4, EmitProperties DEF BrUnlessEnded, branch
<1>9. /\ blocks' \in Seq(Block) /\ Len(blocks') = Len(blocks)
      /\ ~both => blocks' = ended
      /\ both => blocks'[Top.else] = Append(ended[Top.else], branch)
      /\ \A c \in 1 .. Len(blocks) : ~(both /\ c = Top.else) => blocks'[c] = ended[c]
  <2>1. CASE ~both
    BY <1>8, <2>1
  <2>2. CASE both
    <3>1. blocks' = Emit(ended, Top.else, branch)
      BY <2>2 DEF branch
    <3> DEFINE other == Top.else
    <3>2. other \in 1 .. Len(ended) /\ blocks' = Emit(ended, other, branch)
      BY <1>3, <1>8, <2>2, <3>1
    <3> HIDE DEF ended, other
    <3>3. /\ blocks' \in Seq(Block) /\ Len(blocks') = Len(ended)
          /\ blocks'[other] = Append(ended[other], branch)
          /\ \A c \in 1 .. Len(ended) : c # other => blocks'[c] = ended[c]
      <4>1. ended \in Seq(Block) /\ branch \in Instruction
        BY <1>4, <1>8
      <4>2. QED
        BY <3>2, <4>1, EmitProperties, SMTT(30)
    <3>4. QED
      BY <1>8, <2>2, <3>3 DEF other
  <2>3. QED
    BY <2>1, <2>2
<1>10. ReturnsFound(blocks')
  <2>1. ReturnsFound(blocks)
    BY DEF IInv, FlagInv
  <2>2. ReturnsFound(ended)
    BY <1>1, <1>4, <2>1, FoundEmit DEF BrUnlessEnded, branch
  <2>3. both => blocks' = Emit(ended, Top.else, branch)
    BY DEF branch
  <2> HIDE DEF ended
  <2>4. QED
    BY <1>3, <1>4, <1>8, <1>9, <2>2, <2>3, FoundEmit
<1>11. ASSUME Apart, Held PROVE Apart' /\ Held'
  <2> HIDE DEF ended, statement, last
  <2>1. ~Awaits(Top, insertBlock) /\ \A g \in gotos : ~Awaits(Top, g.block)
    BY <1>2, <1>11 DEF Apart, last
  <2>2. Awaits(Top, b) /\ (Top.part = "then" => Top.else # Top.after)
    BY <1>2, <1>5, <1>11 DEF Apart, last
  <2>3. ASSUME NEW k \in 1 .. last - 1
        PROVE  k \in 1 .. last /\ \A c : ~(Awaits(open[k], c) /\ Awaits(Top, c))
    <3>1. k \in 1 .. Len(open) /\ last \in 1 .. Len(open) /\ last = Len(open)
      BY <1>2 DEF last
    <3>2. QED
      BY <1>1, <1>2, <1>11, <3>1 DEF Apart
  <2>4. ASSUME NEW k \in 1 .. Len(open')
        PROVE  \/ k \in 1 .. last - 1 /\ open'[k] = open[k]
               \/ k = last /\ open'[k] = statement /\ open' # Outside /\ ~both
    BY <1>2 DEF statement
  <2>5. \A k \in 1 .. last - 1 : k \in 1 .. Len(open') /\ open'[k] = open[k]
    BY <1>2 DEF statement
  <2>6. open' # Outside => last \in 1 .. Len(open') /\ open'[last] = statement
    BY <1>2 DEF statement
  <2>7. Apart'
    <3>1. ASSUME NEW k \in 1 .. Len(open') PROVE ~Awaits(open'[k], b)
      <4>1. CASE k \in 1 .. last - 1 /\ open'[k] = open[k]
        BY <2>2, <2>3, <4>1
      <4>2. CASE open'[k] = statement /\ open' # Outside
        BY <1>6, <2>2, <4>2
      <4>3. QED
        BY <2>4, <4>1, <4>2
    <3>2. \A g \in gotos : g.block # b
      BY <2>1, <2>2
    <3>3. ASSUME NEW k \in 1 .. Len(open'), NEW g \in gotos PROVE ~Awaits(open'[k], g.block)
      <4>1. CASE k \in 1 .. last - 1 /\ open'[k] = open[k]
        BY <1>11, <2>3, <4>1 DEF Apart, last
      <4>2. CASE open'[k] = statement /\ open' # Outside
        BY <1>5, <1>6, <2>1, <4>2
      <4>3. QED
        BY <2>4, <4>1, <4>2
    <3>4. ASSUME NEW k \in 1 .. Len(open'), NEW j \in 1 .. k - 1, NEW c \in 1 .. Len(blocks),
                 Awaits(open'[j], c), Awaits(open'[k], c)
          PROVE  FALSE
      <4>1. j \in 1 .. Len(open') /\ (k \in 1 .. last - 1 \/ k = last)
        BY <2>4
      <4>2. j \in 1 .. last - 1 /\ open'[j] = open[j]
        BY <1>2, <2>5, <4>1
      <4>3. CASE k \in 1 .. last - 1 /\ open'[k] = open[k]
        BY <1>11, <2>3, <3>4, <4>2, <4>3 DEF Apart, last
      <4>4. CASE open'[k] = statement /\ open' # Outside
        BY <1>5, <1>6, <2>3, <3>4, <4>2, <4>4
      <4>5. QED
        BY <2>4, <4>3, <4>4
    <3>5. ASSUME NEW k \in 1 .. Len(open'), open'[k].part = "then"
          PROVE  open'[k].else # open'[k].after
      BY <1>7, <1>11, <2>3, <2>4, <3>5 DEF Apart, last, statement
    <3>6. QED
      BY <1>9, <3>1, <3>2, <3>3, <3>4, <3>5 DEF Apart
  <2>8. WellFormedBlock(blocks'[insertBlock])
    <3>1. WellFormedBlock(ended[insertBlock])
      BY <1>1, <1>4, <1>8, <1>11, TerminatedBlock DEF Held
    <3>2. ~(both /\ insertBlock = Top.else)
      BY <1>5, <2>1
    <3>3. QED
      BY <1>1, <1>9, <3>1, <3>2
  <2>9. both => WellFormedBlock(blocks'[Top.else])
    <3> SUFFICES ASSUME both PROVE WellFormedBlock(blocks'[Top.else])
      OBVIOUS
    <3>1. Awaits(Top, Top.else) /\ Top.else \in 1 .. Len(blocks) /\ Top.else # insertBlock
      BY <1>3, <1>5, <2>1
    <3>2. ended[Top.else] = << >>
      BY <1>2, <1>8, <1>11, <3>1 DEF Held, last
    <3>3. QED
      BY <1>4, <1>9, <3>2, TerminatedBlock, EmptyPlain
  <2>10. \A c \in 1 .. Len(blocks) :
           c # insertBlock /\ ~(both /\ c = Top.else) => blocks'[c] = blocks[c]
    BY <1>8, <1>9
  <2>11. Held'
    <3>1. Plain(blocks'[b])
      <4>1. blocks[b] = << >> /\ b # insertBlock
        BY <1>2, <1>11, <2>1, <2>2 DEF Held, last
      <4>2. ~(both /\ b = Top.else)
        BY <2>2
      <4>3. QED
        BY <2>10, <4>1, <4>2, EmptyPlain
    <3>2. ASSUME NEW k \in 1 .. Len(open'), NEW c \in 1 .. Len(blocks), Awaits(open'[k], c)
          PROVE  blocks'[c] = << >>
      <4>1. CASE k \in 1 .. last - 1 /\ open'[k] = open[k]
        <5>1. blocks[c] = << >> /\ c # insertBlock
          BY <1>11, <2>3, <3>2, <4>1 DEF Held, Apart, last
        <5>2. ~(both /\ c = Top.else)
          BY <1>5, <2>3, <3>2, <4>1
        <5>3. QED
          BY <2>10, <5>1, <5>2
      <4>2. CASE open'[k] = statement /\ ~both
        <5>1. Awaits(Top, c)
          BY <1>5, <1>6, <3>2, <4>2
        <5>2. blocks[c] = << >> /\ c # insertBlock
          BY <1>2, <1>11, <2>1, <5>1 DEF Held, last
        <5>3. QED
          BY <2>10, <4>2, <5>2
      <4>3. QED
        BY <2>4, <4>1, <4>2
    <3>3. ASSUME NEW g \in gotos PROVE Plain(blocks'[g.block])
      <4>1. g.block # insertBlock /\ ~(both /\ g.block = Top.else)
        BY <1>5, <1>11, <2>1 DEF Apart
      <4>2. QED
        BY <1>1, <1>11, <2>10, <4>1 DEF Held
    <3>4. ASSUME NEW c \in 1 .. Len(blocks), Finished(c)'
          PROVE  WellFormedBlock(blocks'[c])
      <4>1. c # b /\ \A k \in 1 .. Len(open') : ~Awaits(open'[k], c)
        BY <3>4 DEF Finished
      <4>2. \A g \in gotos : g.block # c
        BY <3>4 DEF Finished
      <4>3. CASE c = insertBlock
        BY <2>8, <4>3
      <4>4. CASE both /\ c = Top.else
        BY <2>9, <4>4
      <4>5. CASE c # insertBlock /\ ~(both /\ c = Top.else)
        <5>1. ~Awaits(Top, c)
          BY <1>5, <1>6, <2>6, <4>1, <4>5
        <5>2. \A k \in 1 .. last - 1 : ~Awaits(open[k], c)
          BY <2>5, <4>1
        <5>3. \A k \in 1 .. Len(open) : k \in 1 .. last - 1 \/ k = last
          BY <1>2 DEF last
        <5>4. Finished(c)
          BY <1>2, <4>2, <4>5, <5>1, <5>2, <5>3 DEF Finished
        <5>5. QED
          BY <1>11, <2>10, <4>5, <5>4 DEF Held
      <4>6. QED
        BY <4>3, <4>4, <4>5
    <3>5. Plain(blocks[insertBlock])'
      BY <3>1 DEF Plain
    <3>6. \A c \in 1 .. Len(blocks) : Finished(c)' => WellFormedBlock(blocks[c])'
      BY <3>4 DEF WellFormedBlock, Finished
    <3>7. QED
      BY <1>9, <3>2, <3>3, <3>5, <3>6 DEF Held, Plain
  <2>12. QED
    BY <2>7, <2>11
<1>12. ReturnsEndBranches' => Apart /\ Held
  BY ReturnsBefore DEF IInv, FlagInv
<1>13. ReturnsFound(blocks)'
  BY <1>10, FoundCompiled DEF IInv
<1>14. QED
  BY <1>11, <1>12, <1>13 DEF FlagInv, TidyAccepted

LEMMA EndThenFlag ==
  ASSUME IInv, NEW hasElse \in BOOLEAN, EndThen(hasElse)
  PROVE  FlagInv' /\ TidyAccepted'
<1>1. /\ phase = "compile" /\ phase' = phase /\ routine' = routine
      /\ open # << >> /\ Top.part = "then" /\ BBended' = FALSE /\ gotos' = gotos
  BY DEF EndThen
<1>2. Top.token \in Nat /\ Top.after \in 1 .. Len(blocks) /\ Top.else \in 1 .. Len(blocks)
  BY <1>1, OpenProperties DEF IInv, StatementOK
<1>3. <<"else", Top.token>> \in Token /\ <<"endif", Top.token>> \in Token
  BY <1>2 DEF Token
<1>4. CASE hasElse
  BY <1>1, <1>2, <1>3, <1>4, EndFlag DEF EndThen
<1>5. CASE ~hasElse
  BY <1>1, <1>2, <1>3, <1>5, EndFlag DEF EndThen
<1>6. QED
  BY <1>4, <1>5

LEMMA EndElseFlag == IInv /\ EndElse => FlagInv' /\ TidyAccepted'
<1> SUFFICES ASSUME IInv, EndElse PROVE FlagInv' /\ TidyAccepted'
  OBVIOUS
<1>1. /\ phase = "compile" /\ phase' = phase /\ routine' = routine
      /\ open # << >> /\ Top.part = "else" /\ BBended' = FALSE /\ gotos' = gotos
  BY DEF EndElse
<1>2. Top.token \in Nat /\ Top.after \in 1 .. Len(blocks)
  BY <1>1, OpenProperties DEF IInv, StatementOK
<1>3. <<"endif", Top.token>> \in Token
  BY <1>2 DEF Token
<1>4. QED
  BY <1>1, <1>2, <1>3, EndFlag DEF EndElse

LEMMA EndWhileFlag == IInv /\ EndWhile => FlagInv' /\ TidyAccepted'
<1> SUFFICES ASSUME IInv, EndWhile PROVE FlagInv' /\ TidyAccepted'
  OBVIOUS
<1>1. /\ phase = "compile" /\ phase' = phase /\ routine' = routine
      /\ open # << >> /\ Top.part = "body" /\ BBended' = FALSE /\ gotos' = gotos
  BY DEF EndWhile
<1>2. Top.token \in Nat /\ Top.after \in 1 .. Len(blocks) /\ Top.loop \in 1 .. Len(blocks)
  BY <1>1, OpenProperties DEF IInv, StatementOK
<1>3. <<"endwhile", Top.token>> \in Token
  BY <1>2 DEF Token
<1>4. QED
  BY <1>1, <1>2, <1>3, EndFlag DEF EndWhile

Tidy ==
  /\ ReturnsEndBranches
  /\ routine.kind = "main" => source = << >> \/ source[Len(source)] # <<"return">>
  /\ routine.found = "outer" => \A i \in DOMAIN source : source[i] # <<"return">>

(* The end of a tidy routine completes every block.                        *)
LEMMA EndedVerified ==
  ASSUME IInv, EndRoutine, Tidy
  PROVE  Verified(blocks')
<1> DEFINE ended == WithEpilogue
<1>1. /\ blocks \in Seq(Block) /\ Len(blocks) \in Nat /\ insertBlock \in 1 .. Len(blocks)
      /\ blocks[insertBlock] \in Block
  BY BlockTypes DEF IInv
<1>2. /\ phase = "compile" /\ Len(open) = 0 /\ \A g \in gotos : g.label \in DOMAIN labels
      /\ blocks' = Patched(ended)
  BY DEF EndRoutine
<1>3. Apart /\ Held /\ (BBended => LastReturns) /\ ReturnsFound(blocks)
  BY <1>2 DEF IInv, FlagInv, Tidy
<1>4. Epilogue \in Instruction /\ Epilogue.kind = "ret" /\ Epilogue.kind \in Terminators
  BY EpilogueOK DEF IInv, Epilogue, Ret, Terminators
<1>5. /\ BBended => ended = blocks
      /\ ~BBended => ended = Emit(blocks, insertBlock, Epilogue)
  <2>1. CASE BBended
    <3>1. routine.kind # "main"
      BY <1>3, <2>1 DEF Tidy, LastReturns
    <3>2. QED
      BY <2>1, <3>1 DEF WithEpilogue
  <2>2. CASE ~BBended
    BY <2>2 DEF WithEpilogue, Epilogue
  <2>3. QED
    BY <2>1, <2>2
<1>6. /\ ended \in Seq(Block) /\ Len(ended) = Len(blocks) /\ BlocksOK(ended, Here)
      /\ BBended => ended = blocks
      /\ ~BBended => ended[insertBlock] = Append(blocks[insertBlock], Epilogue)
      /\ \A c \in 1 .. Len(blocks) : c # insertBlock => ended[c] = blocks[c]
  <2>1. BlocksOK(ended, Here) /\ Len(ended) = Len(blocks) /\ ended \in Seq(Block)
    BY EpilogueOK DEF IInv, BlocksOK
  <2>2. /\ Emit(blocks, insertBlock, Epilogue)[insertBlock] = Append(blocks[insertBlock], Epilogue)
        /\ \A c \in 1 .. Len(blocks) :
             c # insertBlock => Emit(blocks, insertBlock, Epilogue)[c] = blocks[c]
    BY <1>1, <1>4, EmitProperties
  <2> HIDE DEF ended
  <2>3. CASE BBended
    BY <1>5, <2>1, <2>3
  <2>4. CASE ~BBended
    BY <1>5, <2>1, <2>2, <2>4
  <2>5. QED
    BY <2>3, <2>4
<1>7. WellFormedBlock(ended[insertBlock])
  BY <1>1, <1>3, <1>4, <1>6, TerminatedBlock DEF Held
<1>8. /\ Here \in Nat /\ GotosOK(gotos, Len(ended), Here) /\ LabelsOK(labels, Len(ended))
  BY <1>6, BlockTypes DEF IInv, TypeInv
<1>9. BlocksOK(blocks', Here) /\ Len(blocks') = Len(blocks)
  <2> HIDE DEF ended
  <2>1. QED
    BY <1>2, <1>6, <1>8, PatchedOK
<1>10. ASSUME NEW b \in 1 .. Len(blocks)
       PROVE  \/ (\A g \in gotos : g.block # b) /\ blocks'[b] = ended[b]
              \/ \E instr \in Instruction :
                   /\ \E g \in gotos : g.block = b
                   /\ instr.kind = "br" /\ blocks'[b] = Append(ended[b], instr)
  <2> HIDE DEF ended
  <2>1. b \in 1 .. Len(ended)
    BY <1>6
  <2>2. QED
    BY <1>2, <1>6, <1>8, <2>1, PatchedProperties
<1>11. ASSUME NEW b \in 1 .. Len(blocks) PROVE WellFormedBlock(blocks'[b])
  <2> HIDE DEF ended
  <2>1. CASE (\A g \in gotos : g.block # b) /\ blocks'[b] = ended[b]
    <3>1. CASE b = insertBlock
      BY <1>7, <2>1, <3>1
    <3>2. CASE b # insertBlock
      <4>1. Finished(b)
        BY <1>2, <2>1, <3>2 DEF Finished
      <4>2. QED
        BY <1>3, <1>6, <2>1, <3>2, <4>1 DEF Held
    <3>3. QED
      BY <3>1, <3>2
  <2>2. ASSUME NEW instr \in Instruction, \E g \in gotos : g.block = b,
               instr.kind = "br", blocks'[b] = Append(ended[b], instr)
        PROVE  WellFormedBlock(blocks'[b])
    <3>1. b # insertBlock /\ Plain(blocks[b])
      BY <1>3, <2>2 DEF Apart, Held
    <3>2. ended[b] = blocks[b] /\ blocks[b] \in Block /\ instr.kind \in Terminators
      BY <1>1, <1>6, <2>2, <3>1 DEF Terminators
    <3>3. QED
      BY <2>2, <3>1, <3>2, TerminatedBlock
  <2>3. QED
    BY <1>10, <2>1, <2>2
<1>12. ASSUME NEW b \in 1 .. Len(blocks), NEW i \in 1 .. Len(ended[b]), ended[b][i].kind = "ret"
       PROVE  ended[b][i].value = IF routine.kind = "function" THEN "own" ELSE "none"
  <2>1. ASSUME NEW j \in 1 .. Len(blocks[b]), blocks[b][j].kind = "ret"
        PROVE  blocks[b][j].value = IF routine.kind = "function" THEN "own" ELSE "none"
    <3>1. blocks[b][j].value = routine.found /\ \E k \in 1 .. Len(source) : source[k] = <<"return">>
      BY <1>3, <2>1 DEF ReturnsFound
    <3>2. routine.found # "outer"
      <4>1. DOMAIN source = 1 .. Len(source)
        BY DEF IInv, TypeInv
      <4>2. QED
        BY <3>1, <4>1 DEF Tidy
    <3>3. QED
      BY <3>1, <3>2, RoutinesAssumption DEF IInv, TypeInv
  <2> HIDE DEF ended
  <2>2. CASE ended[b] = blocks[b]
    BY <1>12, <2>1, <2>2
  <2>3. CASE b = insertBlock /\ ended[b] = Append(blocks[insertBlock], Epilogue)
    <3>1. i = Len(blocks[b]) + 1 \/ i \in 1 .. Len(blocks[b])
      BY <1>1, <1>4, <2>3, AppendedBlock, SMTT(30)
    <3>2. CASE i = Len(blocks[b]) + 1
      <4>1. ended[b][i] = Epilogue
        BY <1>1, <1>4, <2>3, <3>2, AppendedBlock
      <4>2. QED
        BY <4>1 DEF Epilogue, Ret
    <3>3. CASE i \in 1 .. Len(blocks[b])
      <4>1. ended[b][i] = blocks[b][i]
        BY <1>1, <1>4, <2>3, <3>3, AppendedBlock
      <4>2. QED
        BY <1>12, <2>1, <3>3, <4>1
    <3>4. QED
      BY <3>1, <3>2, <3>3
  <2>4. QED
    BY <1>6, <2>2, <2>3
<1>13. ASSUME NEW b \in 1 .. Len(blocks), NEW i \in 1 .. Len(blocks'[b]),
              blocks'[b][i].kind = "ret"
       PROVE  blocks'[b][i].value = IF routine.kind = "function" THEN "own" ELSE "none"
  <2> HIDE DEF ended
  <2>1. CASE blocks'[b] = ended[b]
    BY <1>12, <1>13, <2>1
  <2>2. ASSUME NEW instr \in Instruction, instr.kind = "br",
               blocks'[b] = Append(ended[b], instr)
        PROVE  blocks'[b][i].value = IF routine.kind = "function" THEN "own" ELSE "none"
    <3>1. ended[b] \in Block
      BY <1>6
    <3>2. i = Len(ended[b]) + 1 \/ i \in 1 .. Len(ended[b])
      BY <2>2, <3>1, AppendedBlock
    <3>3. i # Len(ended[b]) + 1
      BY <1>13, <2>2, <3>1, AppendedBlock
    <3>4. i \in 1 .. Len(ended[b]) /\ blocks'[b][i] = ended[b][i]
      BY <2>2, <3>1, <3>2, <3>3, AppendedBlock
    <3>5. QED
      BY <1>12, <1>13, <3>4
  <2>3. QED
    BY <1>10, <2>1, <2>2
<1>14. DOMAIN blocks' = 1 .. Len(blocks) /\ \A b \in 1 .. Len(blocks) : DOMAIN blocks'[b] = 1 .. Len(blocks'[b])
  BY <1>9 DEF BlocksOK, Block
<1>15. QED
  BY <1>11, <1>13, <1>14 DEF Verified

LEMMA EndRoutineFlag == IInv /\ EndRoutine => FlagInv' /\ TidyAccepted'
<1> SUFFICES ASSUME IInv, EndRoutine PROVE FlagInv' /\ TidyAccepted'
  OBVIOUS
<1>1. phase' # "compile" /\ source' = source /\ routine' = routine
      /\ phase' = IF Verified(blocks') THEN "run" ELSE "refused"
  BY DEF EndRoutine
<1>2. Tidy => phase' # "refused"
  BY <1>1, EndedVerified
<1>3. TidyAccepted'
  BY <1>1, <1>2 DEF TidyAccepted, Tidy, ReturnsEndBranches
<1>4. QED
  BY <1>1, <1>3 DEF FlagInv

LEMMA FlagStep == IInv /\ [Next]_vars => IInv'
<1> SUFFICES ASSUME IInv, [Next]_vars PROVE FlagInv' /\ TidyAccepted'
  BY TypeStep DEF IInv
<1>1. CASE UNCHANGED vars
  BY <1>1 DEF vars, compiling, running, IInv, FlagInv, TidyAccepted, ReturnsEndBranches, Apart,
     Held, Finished, LastReturns, ReturnsFound, WellFormedBlock
<1>2. CASE Run
  <2>1. /\ phase' \notin {"compile", "refused"}
    BY <1>2 DEF Run, RunOp, RunBr, RunCondBr, RunRet
  <2>2. QED
    BY <2>1 DEF FlagInv, TidyAccepted
<1>3. QED
  BY <1>1, <1>2, SimpleStatementFlag, IfFlag, EndThenFlag, EndElseFlag, WhileFlag, EndWhileFlag,
     PlaceLabelFlag, GoToFlag, ReturnStmtFlag, EndRoutineFlag DEF Next

LEMMA InitFlag == Init => IInv
<1> SUFFICES ASSUME Init PROVE IInv
  OBVIOUS
<1>1. blocks = << << >> >> /\ Len(blocks) = 1 /\ blocks[1] = << >> /\ Len(open) = 0
  BY DEF Init
<1>2. /\ insertBlock = 1 /\ ~BBended /\ gotos = {} /\ phase = "compile"
  BY DEF Init
<1>3. ReturnsFound(blocks)
  BY <1>1 DEF ReturnsFound
<1>4. Apart
  BY <1>1, <1>2 DEF Apart
<1>5. Held
  <2>1. \A b \in 1 .. Len(blocks) : ~Finished(b)
    BY <1>1, <1>2 DEF Finished
  <2>2. QED
    BY <1>1, <1>2, <2>1, EmptyPlain DEF Held
<1>6. QED
  BY <1>2, <1>3, <1>4, <1>5, InitTyped DEF IInv, FlagInv, TidyAccepted

LEMMA InvariantFlag == IInv => FlagTellsTruth /\ TidyAccepted
<1> SUFFICES ASSUME IInv, phase = "compile", ReturnsEndBranches
             PROVE  BBended <=> \E i \in DOMAIN blocks[insertBlock] :
                                  blocks[insertBlock][i].kind \in Terminators
  BY DEF FlagTellsTruth, IInv
<1> DEFINE block == blocks[insertBlock]
<1>1. block \in Block /\ DOMAIN block = 1 .. Len(block) /\ Len(block) \in Nat
  BY BlockTypes DEF IInv, Block
<1>2. Held
  BY DEF IInv, FlagInv
<1>3. ASSUME BBended PROVE \E i \in DOMAIN block : block[i].kind \in Terminators
  <2>1. block # << >> /\ \A i \in DOMAIN block : block[i].kind \in Terminators <=> i = Len(block)
    BY <1>2, <1>3 DEF Held, WellFormedBlock
  <2>2. Len(block) \in DOMAIN block
    BY <1>1, <2>1 DEF Block
  <2>3. QED
    BY <2>1, <2>2
<1>4. ASSUME ~BBended PROVE \A i \in DOMAIN block : block[i].kind \notin Terminators
  BY <1>1, <1>2, <1>4 DEF Held, Plain
<1>5. QED
  BY <1>3, <1>4

(* Whatever the nesting of ifs and loops, the labels and the gotos, BBended *)
(* is set exactly when the Builder's block has its terminator, as long as   *)
(* nothing is written after a return.                                       *)
THEOREM FlagIsRight == Spec => []FlagTellsTruth
BY InitFlag, FlagStep, InvariantFlag, PTL DEF Spec

(* verifyModule accepts every such routine of any length: no block is left  *)
(* without its terminator and none gets a second one.                       *)
THEOREM TidyRoutinesAccepted == Spec => []TidyAccepted
BY InitFlag, FlagStep, InvariantFlag, PTL DEF Spec

-----------------------------------------------------------------------------
(* Walks over positions, by themselves: what is settled after as many hops *)
(* as there are positions stays so.                                        *)

LEMMA Least ==
  ASSUME NEW T \in SUBSET Nat, T # {}
  PROVE  \E x \in T : \A y \in T : x <= y
<1>1. \E x \in T : \A y \in T : ~ (<<y, x>> \in OpToRel(<, Nat))
  BY NatLessThanWellFounded, WFMin
<1>2. PICK x \in T : \A y \in T : ~ (<<y, x>> \in OpToRel(<, Nat))
  BY <1>1
<1>3. \A y \in T : ~ (y < x)
  BY <1>2 DEF OpToRel
<1>4. QED
  BY <1>3

LEMMA UpTo ==
  ASSUME NEW n \in Nat, NEW P \in SUBSET Nat, 0 \in P,
         \A m \in P : m < n => m + 1 \in P
  PROVE  n \in P
<1> SUFFICES ASSUME n \notin P PROVE FALSE
  OBVIOUS
<1> DEFINE T == { m \in 0 .. n : m \notin P }
<1>1. T \in SUBSET Nat /\ T # {}
  OBVIOUS
<1>2. PICK m \in T : \A k \in T : m <= k
  BY <1>1, Least
<1>3. m \in 0 .. n /\ m \notin P /\ \A k \in 0 .. n : k < m => k \in P
  BY <1>2
<1> HIDE DEF T
<1>4. m # 0 /\ m - 1 \in 0 .. n /\ m - 1 < m
  BY <1>3
<1>5. m - 1 \in P /\ m - 1 < n /\ (m - 1) + 1 = m
  BY <1>3, <1>4
<1>6. QED
  BY <1>3, <1>5

-----------------------------------------------------------------------------
(* Walks over positions 1 .. p: from a position not in V the next one is  *)
(* next[j].                                                                *)
HopAt(w, V, next, n, j) == IF n = 0 \/ j \in V THEN j ELSE w[n - 1][next[j]]

Hops(w, m, p, V, next) ==
  /\ m \in Nat /\ p \in Nat /\ next \in [1 .. p -> 1 .. p]
  /\ w = [n \in 0 .. m |-> [j \in 1 .. p |-> HopAt(w, V, next, n, j)]]

LEMMA HopsAt ==
  ASSUME NEW m, NEW p, NEW V, NEW next, NEW w, Hops(w, m, p, V, next),
         NEW n \in 0 .. m, NEW j \in 1 .. p
  PROVE  w[n][j] = HopAt(w, V, next, n, j)
<1> DEFINE v(k) == [i \in 1 .. p |-> HopAt(w, V, next, k, i)]
<1>1. w = [k \in 0 .. m |-> v(k)]
  BY DEF Hops
<1>2. v(n)[j] = HopAt(w, V, next, n, j)
  OBVIOUS
<1> HIDE DEF v
<1>3. w[n] = v(n)
  BY <1>1
<1>4. QED
  BY <1>2, <1>3

LEMMA HopsExist ==
  ASSUME NEW m \in Nat, NEW p \in Nat, NEW V, NEW next \in [1 .. p -> 1 .. p]
  PROVE  \E w : Hops(w, m, p, V, next)
<1> DEFINE P == { k \in Nat : \E w : Hops(w, k, p, V, next) }
<1>1. 0 \in P
  <2> DEFINE w == [n \in 0 .. 0 |-> [j \in 1 .. p |-> j]]
  <2>1. w = [n \in 0 .. 0 |-> [j \in 1 .. p |-> HopAt(w, V, next, n, j)]]
    BY DEF HopAt
  <2>2. QED
    BY <2>1 DEF Hops
<1>2. ASSUME NEW k \in P, k < m PROVE k + 1 \in P
  <2>1. PICK w : Hops(w, k, p, V, next)
    BY <1>2
  <2> DEFINE v == [n \in 0 .. k + 1 |-> [j \in 1 .. p |-> HopAt(w, V, next, n, j)]]
  <2>2. ASSUME NEW n \in 0 .. k, NEW j \in 1 .. p PROVE v[n][j] = w[n][j]
    <3>1. n \in 0 .. k + 1
      BY <1>2
    <3>2. v[n][j] = HopAt(w, V, next, n, j)
      BY <3>1
    <3>3. w[n][j] = HopAt(w, V, next, n, j)
      BY <2>1, HopsAt
    <3>4. QED
      BY <3>2, <3>3
  <2>3. ASSUME NEW n \in 0 .. k + 1, NEW j \in 1 .. p
        PROVE  HopAt(w, V, next, n, j) = HopAt(v, V, next, n, j)
    <3>1. CASE n = 0 \/ j \in V
      BY <3>1 DEF HopAt
    <3>2. CASE ~(n = 0 \/ j \in V)
      <4>1. n - 1 \in 0 .. k /\ next[j] \in 1 .. p
        BY <1>2, <3>2
      <4>2. v[n - 1][next[j]] = w[n - 1][next[j]]
        BY <2>2, <4>1
      <4> HIDE DEF v
      <4>3. QED
        BY <3>2, <4>2 DEF HopAt
    <3>3. QED
      BY <3>1, <3>2
  <2>4. v = [n \in 0 .. k + 1 |-> [j \in 1 .. p |-> HopAt(v, V, next, n, j)]]
    BY <2>3
  <2> HIDE DEF v
  <2>5. k + 1 \in Nat
    BY <1>2
  <2>6. Hops(v, k + 1, p, V, next)
    BY <2>4, <2>5 DEF Hops
  <2>7. QED
    BY <2>5, <2>6
<1> HIDE DEF P
<1>3. P \in SUBSET Nat
  BY DEF P
<1>4. m \in P
  BY <1>1, <1>2, <1>3, UpTo
<1>5. QED
  BY <1>4 DEF P

(* A walk is the same walk, continued, from where it has come to.          *)
LEMMA HopsAre ==
  ASSUME NEW m, NEW p, NEW V, NEW next,
         NEW w, Hops(w, m, p, V, next), NEW j \in 1 .. p
  PROVE  /\ w[0][j] = j
         /\ \A n \in 0 .. m : j \in V => w[n][j] = j
         /\ \A n \in 0 .. m, k \in 0 .. m : k = n + 1 /\ j \notin V => w[k][j] = w[n][next[j]]
         /\ next[j] \in 1 .. p
<1>1. w[0][j] = j
  <2>1. 0 \in 0 .. m
    BY DEF Hops
  <2>2. w[0][j] = HopAt(w, V, next, 0, j)
    BY <2>1, HopsAt
  <2>3. QED
    BY <2>2 DEF HopAt
<1>2. ASSUME NEW n \in 0 .. m, j \in V PROVE w[n][j] = j
  BY <1>2, HopsAt DEF HopAt
<1>3. ASSUME NEW n \in 0 .. m, NEW k \in 0 .. m, k = n + 1, j \notin V
      PROVE  w[k][j] = w[n][next[j]]
  <2>1. k # 0 /\ k - 1 = n
    BY <1>3 DEF Hops
  <2>2. w[k][j] = HopAt(w, V, next, k, j)
    BY <2>1, HopsAt
  <2>3. QED
    BY <1>3, <2>1, <2>2 DEF HopAt
<1>4. next[j] \in 1 .. p
  BY DEF Hops
<1>5. QED
  BY <1>1, <1>2, <1>3, <1>4

LEMMA HopsNext ==
  ASSUME NEW m, NEW p, NEW V, NEW next, NEW w, Hops(w, m, p, V, next), NEW j \in 1 .. p, j \notin V,
         NEW n \in 0 .. m, NEW k \in 0 .. m, k = n + 1
  PROVE  w[k][j] = w[n][next[j]]
BY HopsAre

LEMMA HopsTyped ==
  ASSUME NEW m, NEW p, NEW V, NEW next,
         NEW w, Hops(w, m, p, V, next), NEW n \in 0 .. m
  PROVE  \A j \in 1 .. p : w[n][j] \in 1 .. p
<1>1. m \in Nat /\ p \in Nat /\ next \in [1 .. p -> 1 .. p]
  BY DEF Hops
<1> DEFINE P == { k \in Nat : \A j \in 1 .. p : w[k][j] \in 1 .. p }
<1>2. 0 \in P
  <2>1. \A j \in 1 .. p : w[0][j] = j
    BY HopsAre
  <2>2. QED
    BY <2>1
<1>3. ASSUME NEW k \in P, k < n PROVE k + 1 \in P
  <2>1. k \in 0 .. m /\ k + 1 \in 0 .. m
    BY <1>1, <1>3
  <2>2. ASSUME NEW j \in 1 .. p PROVE w[k + 1][j] \in 1 .. p
    <3>1. CASE j \in V
      BY <2>1, <3>1, HopsAre
    <3>2. CASE j \notin V
      <4>1. next[j] \in 1 .. p
        BY HopsAre
      <4>2. w[k + 1][j] = w[k][next[j]]
        <5> HIDE DEF P
        <5>1. QED
          BY <2>1, <3>2, HopsNext
      <4>3. QED
        BY <4>1, <4>2
    <3>3. QED
      BY <3>1, <3>2
  <2>3. QED
    BY <2>2
<1> HIDE DEF P
<1>4. P \in SUBSET Nat
  BY DEF P
<1>5. n \in P
  BY <1>2, <1>3, <1>4, UpTo
<1>6. QED
  BY <1>5 DEF P

LEMMA HopsTwice ==
  ASSUME NEW m, NEW p, NEW V, NEW next,
         NEW w, Hops(w, m, p, V, next), NEW n \in 0 .. m
  PROVE  \A j \in 1 .. p : \A k \in 0 .. m - n : w[k][w[n][j]] = w[k + n][j]
<1>1. m \in Nat /\ p \in Nat /\ next \in [1 .. p -> 1 .. p]
  BY DEF Hops
<1> DEFINE P == { l \in Nat : l <= m =>
                   \A j \in 1 .. p : \A k \in 0 .. m - l : w[k][w[l][j]] = w[k + l][j] }
<1>2. 0 \in P
  <2>1. ASSUME NEW j \in 1 .. p, NEW k \in 0 .. m - 0 PROVE w[k][w[0][j]] = w[k + 0][j]
    <3>1. w[0][j] = j /\ k + 0 = k
      BY HopsAre
    <3>2. QED
      BY <3>1
  <2>2. QED
    BY <2>1
<1>3. ASSUME NEW l \in P, l < n PROVE l + 1 \in P
  <2>1. ASSUME NEW j \in 1 .. p, NEW k \in 0 .. m - (l + 1)
        PROVE  w[k][w[l + 1][j]] = w[k + (l + 1)][j]
    <3>1. /\ l + 1 \in 0 .. m /\ k \in 0 .. m /\ k \in 0 .. m - l
          /\ l \in 0 .. m /\ k + l \in 0 .. m /\ (k + l) + 1 = k + (l + 1)
          /\ k + (l + 1) \in 0 .. m /\ l <= m
      BY <1>1, <1>3
    <3>2. CASE j \in V
      <4>1. w[l + 1][j] = j /\ w[k][j] = j /\ w[k + (l + 1)][j] = j
        BY <3>1, <3>2, HopsAre
      <4>2. QED
        BY <4>1
    <3>3. CASE j \notin V
      <4>1. next[j] \in 1 .. p
        BY HopsAre
      <4>2. w[l + 1][j] = w[l][next[j]] /\ w[k + (l + 1)][j] = w[k + l][next[j]]
        <5> HIDE DEF P
        <5>1. k + (l + 1) = (k + l) + 1
          BY <3>1
        <5>2. QED
          BY <3>1, <3>3, <5>1, HopsNext
      <4>3. w[k][w[l][next[j]]] = w[k + l][next[j]]
        BY <1>3, <3>1, <4>1
      <4>4. QED
        BY <3>1, <4>2, <4>3
    <3>4. QED
      BY <3>2, <3>3
  <2>2. QED
    BY <2>1
<1> HIDE DEF P
<1>4. P \in SUBSET Nat
  BY DEF P
<1>5. n \in P
  BY <1>2, <1>3, <1>4, UpTo
<1>6. QED
  BY <1>5 DEF P

(* With as many steps as there are positions outside V, one step more or   *)
(* less makes no difference: a walk that has not come to V by then goes    *)
(* round in a circle.                                                      *)
LEMMA HopsSettle ==
  ASSUME NEW m, NEW V, m + 1 \in V, NEW next,
         NEW w, Hops(w, m, m + 1, V, next), NEW j \in 1 .. m + 1, j \notin V
  PROVE  \/ w[m][j] = w[m][next[j]]
         \/ w[m][j] \notin V /\ w[m][next[j]] \notin V
<1> DEFINE p == m + 1
           f == [n \in 0 .. m |-> w[n][j]]
<1>1. m \in Nat /\ p \in Nat /\ m \in 0 .. m /\ j \in 1 .. p /\ m \in 1 .. m
        /\ m - 1 \in 0 .. m /\ (m - 1) + 1 = m /\ 1 + (m - 1) = m
        /\ 1 \in 0 .. m - (m - 1)
  BY DEF Hops
<1>2. Hops(w, m, p, V, next) /\ p \in V
  OBVIOUS
<1> HIDE DEF p
<1>3. \A n \in 0 .. m : f[n] \in 1 .. p /\ f[n] = w[n][j]
  BY <1>1, <1>2, HopsTyped
<1>4. w[m][j] = w[m - 1][next[j]] /\ next[j] \in 1 .. p
  <2>1. w[m][j] = w[m - 1][next[j]] /\ next[j] \in 1 .. p
    BY <1>1, <1>2, HopsAre
  <2>2. QED
    BY <1>1, <2>1
<1>5. CASE w[m][j] \in V
  <2>1. w[1][w[m - 1][next[j]]] = w[1 + (m - 1)][next[j]]
    BY <1>1, <1>2, <1>4, HopsTwice
  <2>2. 1 + (m - 1) = m
    BY <1>1
  <2>3. w[1][w[m][j]] = w[m][next[j]]
    BY <1>4, <2>1, <2>2
  <2>4. w[1][w[m][j]] = w[m][j]
    <3>1. m \in 0 .. m /\ 1 \in 0 .. m
      BY <1>1
    <3>2. w[m][j] \in 1 .. p
      BY <1>3, <3>1
    <3>3. QED
      BY <1>1, <1>2, <1>5, <3>1, <3>2, HopsAre
  <2>5. QED
    BY <2>3, <2>4
<1>6. CASE w[m][j] \notin V
  <2>1. ASSUME NEW n \in 0 .. m PROVE f[n] \notin V
    <3>1. SUFFICES ASSUME f[n] \in V PROVE FALSE
      OBVIOUS
    <3>2. m - n \in 0 .. m - n /\ m - n \in 0 .. m /\ (m - n) + n = m
      BY <1>1
    <3>3. w[m - n][w[n][j]] = w[(m - n) + n][j]
      BY <1>1, <1>2, <3>2, HopsTwice
    <3>4. w[m - n][f[n]] = f[n] /\ f[n] = w[n][j]
      <4>1. f[n] \in 1 .. p /\ f[n] = w[n][j]
        BY <1>3
      <4> HIDE DEF f
      <4>2. QED
        BY <1>2, <3>1, <3>2, <4>1, HopsAre
    <3>5. QED
      BY <1>6, <3>1, <3>2, <3>3, <3>4
  <2>2. f \in [0 .. m -> 1 .. m]
    <3>1. ASSUME NEW n \in 0 .. m PROVE f[n] \in 1 .. m
      <4>1. f[n] \in 1 .. p /\ f[n] # p
        BY <1>2, <1>3, <2>1
      <4>2. \A x \in 1 .. p : x # p => x \in 1 .. m
        BY <1>1 DEF p
      <4>3. QED
        BY <4>1, <4>2
    <3>2. QED
      BY <3>1
  <2> HIDE DEF f
  <2>3. \E a, b \in 0 .. m : a # b /\ f[a] = f[b]
    <3>1. IsFiniteSet(0 .. m) /\ Cardinality(0 .. m) = m + 1
      BY <1>1, FS_Interval
    <3>2. IsFiniteSet(1 .. m) /\ Cardinality(1 .. m) = m
      BY <1>1, FS_Interval
    <3>3. Cardinality(1 .. m) < Cardinality(0 .. m)
      BY <1>1, <3>1, <3>2
    <3>4. QED
      BY <2>2, <3>1, <3>2, <3>3, FS_PigeonHole
  <2>4. PICK a \in 0 .. m, b \in 0 .. m : a < b /\ f[a] = f[b]
    BY <2>3
  <2> DEFINE k == m - b
  <2> HIDE DEF k
  <2>5. /\ k \in 0 .. m - b /\ k \in 0 .. m - a /\ k + b = m /\ k + a \in 0 .. m /\ (k + a) + 1 \in 0 .. m
        /\ 1 \in 0 .. m - (k + a) /\ 1 + (k + a) \in 0 .. m
    BY <1>1, <2>4 DEF k
  <2>6. w[k][w[a][j]] = w[k + a][j] /\ w[k][w[b][j]] = w[k + b][j]
    <3>1. w[k][w[a][j]] = w[k + a][j]
      BY <1>1, <1>2, <2>5, HopsTwice
    <3>2. w[k][w[b][j]] = w[k + b][j]
      BY <1>1, <1>2, <2>5, HopsTwice
    <3>3. QED
      BY <3>1, <3>2
  <2>7. w[m][j] = w[k + a][j]
    BY <1>3, <2>4, <2>5, <2>6
  <2>8. w[1][w[k + a][j]] = w[1 + (k + a)][j]
    <3> DEFINE c == k + a
    <3>1. c \in 0 .. m /\ 1 \in 0 .. m - c
      BY <2>5
    <3> HIDE DEF c
    <3>2. \A i \in 1 .. p : \A l \in 0 .. m - c : w[l][w[c][i]] = w[l + c][i]
      BY <1>2, <3>1, HopsTwice
    <3>3. w[1][w[c][j]] = w[1 + c][j]
      BY <1>1, <3>1, <3>2
    <3>4. QED
      BY <3>3 DEF c
  <2>9. w[1][w[m][j]] \notin V
    BY <1>3, <2>1, <2>5, <2>7, <2>8
  <2>10. w[1][w[m - 1][next[j]]] = w[1 + (m - 1)][next[j]]
    BY <1>1, <1>2, <1>4, HopsTwice
  <2>11. 1 + (m - 1) = m
    BY <1>1
  <2>12. QED
    BY <1>4, <1>6, <2>9, <2>10, <2>11
<1>7. QED
  BY <1>5, <1>6

(* Every token that executes nothing has one after it. *)
Closed ==
  \A i \in 1 .. Len(source) : ~Source!Visible(i) => Source!After(i) \in 1 .. Source!End

Seen == { i \in 1 .. Source!End : Source!Visible(i) }
NextOf == [i \in 1 .. Source!End |-> IF i \in Seen THEN i ELSE Source!After(i)]

IsWalk(w) ==
  w = [n \in 0 .. Len(source) |->
         [j \in 1 .. Source!End |->
            IF n = 0 \/ Source!Visible(j) THEN j ELSE w[n - 1][Source!After(j)]]]

Outcome(r) == IF Source!Visible(r) THEN r ELSE Source!Diverged

LEMMA ArriveUnfolds ==
  ASSUME NEW i
  PROVE  Source!Arrive(i) = Outcome((CHOOSE w : IsWalk(w))[Len(source)][i])
BY DEF Source!Arrive, IsWalk, Outcome

LEMMA SourceEnd ==
  ASSUME source \in Seq(Token)
  PROVE  /\ Source!End = Len(source) + 1 /\ Len(source) \in Nat /\ Source!End \in Nat
         /\ Source!End \in Seen
<1>1. Source!End = Len(source) + 1 /\ Len(source) \in Nat
  BY DEF Source!End
<1>2. QED
  BY <1>1 DEF Seen, Source!Visible

LEMMA WalkHops ==
  ASSUME source \in Seq(Token), Closed, NEW w
  PROVE  IsWalk(w) <=> Hops(w, Len(source), Source!End, Seen, NextOf)
<1>1. /\ Source!End = Len(source) + 1 /\ Len(source) \in Nat /\ Source!End \in Nat
      /\ Source!End \in Seen
  BY SourceEnd
<1>2. NextOf \in [1 .. Source!End -> 1 .. Source!End]
  <2>1. ASSUME NEW i \in 1 .. Source!End, i \notin Seen PROVE Source!After(i) \in 1 .. Source!End
    <3>1. ~Source!Visible(i) /\ i \in 1 .. Len(source)
      BY <1>1, <2>1 DEF Seen
    <3>2. QED
      BY <3>1 DEF Closed
  <2>2. QED
    BY <2>1 DEF NextOf
<1> DEFINE G(n, j) == IF n = 0 \/ Source!Visible(j) THEN j ELSE w[n - 1][Source!After(j)]
<1>3. ASSUME NEW n \in 0 .. Len(source), NEW j \in 1 .. Source!End
      PROVE  HopAt(w, Seen, NextOf, n, j) = G(n, j)
  <2>1. CASE Source!Visible(j)
    BY <2>1 DEF HopAt, Seen
  <2>2. CASE ~Source!Visible(j)
    <3>1. j \notin Seen /\ NextOf[j] = Source!After(j)
      BY <2>2 DEF Seen, NextOf
    <3>2. QED
      BY <2>2, <3>1 DEF HopAt
  <2>3. QED
    BY <2>1, <2>2
<1>4. IsWalk(w) <=> w = [n \in 0 .. Len(source) |-> [j \in 1 .. Source!End |-> G(n, j)]]
  BY DEF IsWalk
<1> HIDE DEF G
<1>5. [n \in 0 .. Len(source) |-> [j \in 1 .. Source!End |-> G(n, j)]]
        = [n \in 0 .. Len(source) |-> [j \in 1 .. Source!End |-> HopAt(w, Seen, NextOf, n, j)]]
  BY <1>3
<1>6. QED
  BY <1>1, <1>2, <1>4, <1>5 DEF Hops

(* Where control arrives does not depend on how many tokens that execute   *)
(* nothing it has passed.                                                  *)
LEMMA ArriveOn ==
  ASSUME source \in Seq(Token), Closed, NEW i \in 1 .. Source!End
  PROVE  /\ Source!Visible(i) => Source!Arrive(i) = i
         /\ ~Source!Visible(i) => Source!Arrive(i) = Source!Arrive(Source!After(i))
<1>1. /\ Source!End = Len(source) + 1 /\ Len(source) \in Nat /\ Source!End \in Nat
      /\ Source!End \in Seen /\ Len(source) \in 0 .. Len(source)
  BY SourceEnd
<1>2. NextOf \in [1 .. Source!End -> 1 .. Source!End]
  <2>1. ASSUME NEW j \in 1 .. Source!End, j \notin Seen PROVE Source!After(j) \in 1 .. Source!End
    <3>1. ~Source!Visible(j) /\ j \in 1 .. Len(source)
      BY <1>1, <2>1 DEF Seen
    <3>2. QED
      BY <3>1 DEF Closed
  <2>2. QED
    BY <2>1 DEF NextOf
<1>3. PICK v : Hops(v, Len(source), Source!End, Seen, NextOf)
  BY <1>1, <1>2, HopsExist
<1> DEFINE w == CHOOSE x : IsWalk(x)
<1>4. IsWalk(w)
  BY <1>3, WalkHops
<1>5. Hops(w, Len(source), Source!End, Seen, NextOf)
  BY <1>4, WalkHops
<1>6. \A j : Source!Arrive(j) = Outcome(w[Len(source)][j])
  BY ArriveUnfolds
<1> HIDE DEF w
<1>7. ASSUME Source!Visible(i) PROVE Source!Arrive(i) = i
  <2>1. i \in Seen
    BY <1>7 DEF Seen
  <2>2. w[Len(source)][i] = i
    BY <1>1, <1>5, <2>1, HopsAre
  <2>3. QED
    BY <1>6, <1>7, <2>2 DEF Outcome
<1>8. ASSUME ~Source!Visible(i) PROVE Source!Arrive(i) = Source!Arrive(Source!After(i))
  <2>1. i \notin Seen /\ NextOf[i] = Source!After(i)
    BY <1>8 DEF Seen, NextOf
  <2> DEFINE m == Len(source)
  <2>2. m + 1 \in Seen /\ Hops(w, m, m + 1, Seen, NextOf) /\ i \in 1 .. m + 1
    BY <1>1, <1>5
  <2>3. \/ w[m][i] = w[m][NextOf[i]]
        \/ w[m][i] \notin Seen /\ w[m][NextOf[i]] \notin Seen
    <3> HIDE DEF m
    <3>1. QED
      BY <2>1, <2>2, HopsSettle
  <2>4. w[m][i] \in 1 .. Source!End /\ w[m][NextOf[i]] \in 1 .. Source!End
    <3>1. NextOf[i] \in 1 .. Source!End
      BY <1>2
    <3>2. QED
      BY <1>1, <1>5, <3>1, HopsTyped
  <2>5. Outcome(w[m][i]) = Outcome(w[m][NextOf[i]])
    BY <2>3, <2>4 DEF Outcome, Seen
  <2>6. QED
    BY <1>6, <2>1, <2>5
<1>9. QED
  BY <1>7, <1>8
-----------------------------------------------------------------------------
(* Where blocks begin.  The invariant has a witness f: block b begins with *)
(* the code of the token at f[b], and f[b] is 0 as long as the Builder has *)
(* not come to b.                                                          *)

HasToken(src, t) == \E j \in 1 .. Len(src) : src[j] = t

BeginsBehind(src, f, t, b) == \E j \in 1 .. Len(src) : src[j] = t /\ f[b] = j + 1

(* The block that the code after the current part of a statement will be   *)
(* in, when the part is not entered or has been left.                      *)
Target(s) == IF s.part = "then" THEN s.else ELSE s.after

StillOpen(opn, part, t, b) ==
  \E k \in 1 .. Len(opn) : opn[k].part = part /\ opn[k].token = t /\ Target(opn[k]) = b

BrLeads(src, opn, f, i, b) ==
  \/ src[i][1] \in {"label", "endif"} /\ f[b] = i + 1
  \/ src[i] = <<"while">> /\ f[b] = i
  \/ src[i][1] = "endwhile" /\ f[b] = src[i][2]
  \/ /\ src[i][1] = "else"
     /\ StillOpen(opn, "else", src[i][2], b) \/ BeginsBehind(src, f, <<"endif", src[i][2]>>, b)
  \/ src[i][1] = "goto" /\ BeginsBehind(src, f, <<"label", src[i][2]>>, b)

(* An if without else has an empty else part at its end.                   *)
ElseLeads(src, opn, f, i, c) ==
  \/ /\ src[i] = <<"while">>
     /\ StillOpen(opn, "body", i, c) \/ BeginsBehind(src, f, <<"endwhile", i>>, c)
  \/ /\ src[i] = <<"if">>
     /\ \/ StillOpen(opn, "then", i, c) \/ BeginsBehind(src, f, <<"else", i>>, c)
        \/ /\ ~HasToken(src, <<"else", i>>)
           /\ \E j \in 1 .. Len(src) : src[j] = <<"endif", i>> /\ f[c] = j

Leads(src, opn, f, instr) ==
  /\ instr.kind = "ret" => instr.at = Len(src) + 1 \/ src[instr.at] = <<"return">>
  /\ instr.kind # "ret" => instr.at \in 1 .. Len(src)
  /\ instr.kind = "op" => src[instr.at] = <<"op">>
  /\ instr.kind = "br" => BrLeads(src, opn, f, instr.at, instr.to)
  /\ instr.kind = "condbr" =>
       f[instr.to] = instr.at + 1 /\ ElseLeads(src, opn, f, instr.at, instr.else)

(* Every block holds the code of consecutive tokens.                       *)
Laid(f) ==
  /\ f \in [1 .. Len(blocks) -> Nat] /\ f[1] = 1
  /\ \A b \in 1 .. Len(blocks) : f[b] = 0 => Len(blocks[b]) = 0
  /\ \A b \in 1 .. Len(blocks) : \A k \in 1 .. Len(blocks[b]) :
       blocks[b][k].at = f[b] + k - 1 /\ Leads(source, open, f, blocks[b][k])
  /\ \A l \in DOMAIN labels : BeginsBehind(source, f, <<"label", l>>, labels[l])

(* The blocks kept for the code after an open statement's parts are apart  *)
(* and not begun; a loop was begun with its condition.                     *)
OpenApart(f, opn) ==
  \A k \in 1 .. Len(opn) :
    /\ \A b : Awaits(opn[k], b) => f[b] = 0
    /\ opn[k].part = "then" => opn[k].else # opn[k].after
    /\ opn[k].part = "body" => f[opn[k].loop] = opn[k].token
    /\ \A m \in 1 .. Len(opn) : \A b : Awaits(opn[k], b) /\ Awaits(opn[m], b) => m = k

(* While the routine is compiled: the Builder is at the next token, and a  *)
(* goto was the last token of its block.                                   *)
Building(f) ==
  /\ f[insertBlock] # 0 /\ Here = f[insertBlock] + Len(blocks[insertBlock])
  /\ \A b \in 1 .. Len(blocks) : \A k \in 1 .. Len(blocks[b]) : blocks[b][k].at < Here
  /\ \A g \in gotos :
       /\ f[g.block] # 0 /\ g.at = f[g.block] + Len(blocks[g.block])
       /\ g.block # insertBlock /\ source[g.at] = <<"goto", g.label>>
  /\ \A g, h \in gotos : g.block = h.block => g = h
  /\ OpenApart(f, open)

(* The ifs and whiles of the source have their ends or are open, and what  *)
(* a token names is there.                                                 *)
TokenOK(src, opn, ls, gs, i) ==
  /\ src[i] = <<"if">> =>
       HasToken(src, <<"endif", i>>) \/ \E k \in 1 .. Len(opn) : opn[k].token = i
  /\ src[i] = <<"while">> =>
       HasToken(src, <<"endwhile", i>>) \/ \E k \in 1 .. Len(opn) : opn[k].token = i
  /\ src[i][1] = "else" => src[i][2] \in 1 .. Len(src) /\ src[src[i][2]] = <<"if">>
  /\ src[i][1] \in {"endif", "endwhile"} => src[i][2] \in 1 .. Len(src)
  /\ src[i][1] = "label" => src[i][2] \in DOMAIN ls
  /\ src[i][1] = "goto" => \E g \in gs : g.label = src[i][2]

Unique == {"else", "endif", "endwhile", "label"}

UniqueOK(src) ==
  \A i, j \in 1 .. Len(src) : src[i] = src[j] /\ src[i][1] \in Unique => i = j

(* An open statement is an if or a while whose end is still to come.       *)
OpenOK(src, s) ==
  /\ s.token \in 1 .. Len(src)
  /\ src[s.token] = IF s.part = "body" THEN <<"while">> ELSE <<"if">>
  /\ s.part = "then" => ~HasToken(src, <<"else", s.token>>)
  /\ ~HasToken(src, <<"endif", s.token>>) /\ ~HasToken(src, <<"endwhile", s.token>>)

SourceOK ==
  /\ \A i \in 1 .. Len(source) : TokenOK(source, open, labels, gotos, i)
  /\ UniqueOK(source)
  /\ \A k \in 1 .. Len(open) : OpenOK(source, open[k])
  /\ \A k, m \in 1 .. Len(open) : open[k].token = open[m].token => m = k

FlowInv ==
  /\ SourceOK
  /\ \E f : Laid(f) /\ (phase = "compile" => Building(f))
  /\ phase # "compile" => open = << >> /\ \A g \in gotos : g.label \in DOMAIN labels

-----------------------------------------------------------------------------
(* One token more: what leads where it did, when the witness only gives a  *)
(* place to blocks that had none.                                          *)

LEMMA TokenAppended ==
  ASSUME NEW src \in Seq(Token), NEW t \in Token
  PROVE  /\ Append(src, t) \in Seq(Token) /\ Len(Append(src, t)) = Len(src) + 1
         /\ Len(src) \in Nat /\ Append(src, t)[Len(src) + 1] = t
         /\ \A i \in 1 .. Len(src) : Append(src, t)[i] = src[i]
         /\ \A x : HasToken(Append(src, t), x) <=> HasToken(src, x) \/ x = t
<1> DEFINE src2 == Append(src, t)
<1>1. /\ src2 \in Seq(Token) /\ Len(src2) = Len(src) + 1 /\ Len(src) \in Nat
      /\ src2[Len(src) + 1] = t /\ \A i \in 1 .. Len(src) : src2[i] = src[i]
  OBVIOUS
<1> HIDE DEF src2
<1>2. ASSUME NEW x PROVE HasToken(src2, x) <=> HasToken(src, x) \/ x = t
  <2>1. Len(src) + 1 \in 1 .. Len(src2) /\ \A i \in 1 .. Len(src) : i \in 1 .. Len(src2)
    BY <1>1
  <2>2. \A i \in 1 .. Len(src2) : i = Len(src) + 1 \/ i \in 1 .. Len(src)
    BY <1>1
  <2>3. HasToken(src, x) \/ x = t => HasToken(src2, x)
    BY <1>1, <2>1 DEF HasToken
  <2>4. HasToken(src2, x) => HasToken(src, x) \/ x = t
    BY <1>1, <2>2 DEF HasToken
  <2>5. QED
    BY <2>3, <2>4
<1>3. QED
  BY <1>1, <1>2 DEF src2

(* The blocks begun stay where they are. *)
Keeps(f, g) == \A b \in DOMAIN f : f[b] # 0 => g[b] = f[b]

(* What follows an open statement's part is found when token t ends it.    *)
EndedBy(g, s, t, h) ==
  \/ s.part = "body" /\ t = <<"endwhile", s.token>> /\ g[s.after] = h + 1
  \/ s.part = "else" /\ t = <<"endif", s.token>> /\ g[s.after] = h + 1
  \/ s.part = "then" /\ t = <<"else", s.token>> /\ g[s.else] = h + 1
  \/ s.part = "then" /\ t = <<"endif", s.token>> /\ g[s.else] = h

OpenKept(opn, opn2, g, t, h) ==
  \A k \in 1 .. Len(opn) :
    (\E m \in 1 .. Len(opn2) : opn2[m] = opn[k]) \/ EndedBy(g, opn[k], t, h)

LEMMA BeginsKept ==
  ASSUME NEW src \in Seq(Token), NEW t \in Token, NEW f, NEW g, Keeps(f, g),
         NEW x, NEW b \in DOMAIN f, BeginsBehind(src, f, x, b)
  PROVE  BeginsBehind(Append(src, t), g, x, b)
<1>1. PICK j \in 1 .. Len(src) : src[j] = x /\ f[b] = j + 1
  BY DEF BeginsBehind
<1>2. g[b] = j + 1
  BY <1>1 DEF Keeps
<1>3. j \in 1 .. Len(Append(src, t)) /\ Append(src, t)[j] = x
  BY <1>1, TokenAppended
<1>4. QED
  BY <1>2, <1>3 DEF BeginsBehind

LEMMA BeginsNow ==
  ASSUME NEW src \in Seq(Token), NEW t \in Token, NEW g, NEW b, g[b] = Len(src) + 1 + 1
  PROVE  BeginsBehind(Append(src, t), g, t, b)
<1>1. Len(src) + 1 \in 1 .. Len(Append(src, t)) /\ Append(src, t)[Len(src) + 1] = t
  BY TokenAppended
<1>2. QED
  BY <1>1 DEF BeginsBehind

(* An open statement goes on to hold its block, or its end has come.       *)
LEMMA StillOpenKept ==
  ASSUME NEW src \in Seq(Token), NEW t \in Token, NEW opn, NEW opn2, NEW g,
         OpenKept(opn, opn2, g, t, Len(src) + 1), NEW part, NEW i, NEW b, StillOpen(opn, part, i, b)
  PROVE  \/ StillOpen(opn2, part, i, b)
         \/ part = "body" /\ t = <<"endwhile", i>> /\ g[b] = Len(src) + 1 + 1
         \/ part = "else" /\ t = <<"endif", i>> /\ g[b] = Len(src) + 1 + 1
         \/ part = "then" /\ t = <<"else", i>> /\ g[b] = Len(src) + 1 + 1
         \/ part = "then" /\ t = <<"endif", i>> /\ g[b] = Len(src) + 1
<1>1. PICK k \in 1 .. Len(opn) : opn[k].part = part /\ opn[k].token = i /\ Target(opn[k]) = b
  BY DEF StillOpen
<1>2. CASE \E m \in 1 .. Len(opn2) : opn2[m] = opn[k]
  BY <1>1, <1>2 DEF StillOpen
<1>3. CASE EndedBy(g, opn[k], t, Len(src) + 1)
  BY <1>1, <1>3 DEF EndedBy, Target
<1>4. QED
  BY <1>2, <1>3 DEF OpenKept

(* Where an instruction leads does not change as the routine grows.        *)
LEMMA BrKept ==
  ASSUME NEW src \in Seq(Token), NEW t \in Token, NEW opn, NEW opn2, NEW f, NEW g, Keeps(f, g),
         OpenKept(opn, opn2, g, t, Len(src) + 1),
         NEW i \in 1 .. Len(src), NEW b \in DOMAIN f, BrLeads(src, opn, f, i, b),
         src[i][1] = "endwhile" => src[i][2] # 0
  PROVE  BrLeads(Append(src, t), opn2, g, i, b)
<1> DEFINE src2 == Append(src, t)
<1>1. src2[i] = src[i]
  BY TokenAppended
<1>2. i # 0 /\ i + 1 # 0
  BY TokenAppended
<1>3. \A x : BeginsBehind(src, f, x, b) => BeginsBehind(src2, g, x, b)
  BY BeginsKept
<1>4. CASE src[i][1] \in {"label", "endif"} /\ f[b] = i + 1
  BY <1>1, <1>2, <1>4 DEF BrLeads, Keeps
<1>5. CASE src[i] = <<"while">> /\ f[b] = i
  BY <1>1, <1>2, <1>5 DEF BrLeads, Keeps
<1>6. CASE src[i][1] = "endwhile" /\ f[b] = src[i][2] /\ src[i][2] # 0
  BY <1>1, <1>6 DEF BrLeads, Keeps
<1>7. CASE src[i][1] = "else" /\ BeginsBehind(src, f, <<"endif", src[i][2]>>, b)
  BY <1>1, <1>3, <1>7 DEF BrLeads
<1>8. CASE src[i][1] = "else" /\ StillOpen(opn, "else", src[i][2], b)
  <2>1. \/ StillOpen(opn2, "else", src[i][2], b)
        \/ t = <<"endif", src[i][2]>> /\ g[b] = Len(src) + 1 + 1
    BY <1>8, StillOpenKept
  <2>2. t = <<"endif", src[i][2]>> /\ g[b] = Len(src) + 1 + 1 =>
          BeginsBehind(src2, g, <<"endif", src[i][2]>>, b)
    BY BeginsNow
  <2>3. BrLeads(src2, opn2, g, i, b)
    <3> HIDE DEF src2
    <3>1. QED
      BY <1>1, <1>8, <2>1, <2>2 DEF BrLeads
  <2>4. QED
    BY <2>3
<1>9. CASE src[i][1] = "goto" /\ BeginsBehind(src, f, <<"label", src[i][2]>>, b)
  BY <1>1, <1>3, <1>9 DEF BrLeads
<1>10. QED
  BY <1>4, <1>5, <1>6, <1>7, <1>8, <1>9 DEF BrLeads

LEMMA ElseKept ==
  ASSUME NEW src \in Seq(Token), NEW t \in Token, NEW opn, NEW opn2, NEW f, NEW g, Keeps(f, g),
         OpenKept(opn, opn2, g, t, Len(src) + 1),
         NEW i \in 1 .. Len(src), NEW c \in DOMAIN f, ElseLeads(src, opn, f, i, c),
         t = <<"else", i>> => ~HasToken(src, <<"endif", i>>),
         t = <<"endif", i>> => \A k \in 1 .. Len(opn) :
           opn[k].part = "then" /\ opn[k].token = i => ~HasToken(src, <<"else", i>>)
  PROVE  ElseLeads(Append(src, t), opn2, g, i, c)
<1> DEFINE src2 == Append(src, t)
<1>1. src2[i] = src[i] /\ Len(src) + 1 \in 1 .. Len(src2) /\ src2[Len(src) + 1] = t
  BY TokenAppended
<1>2. \A x : BeginsBehind(src, f, x, c) => BeginsBehind(src2, g, x, c)
  BY BeginsKept
<1>3. \A x : HasToken(src2, x) <=> HasToken(src, x) \/ x = t
  BY TokenAppended
<1>4. g[c] = Len(src) + 1 + 1 => BeginsBehind(src2, g, t, c)
  BY BeginsNow
<1>5. CASE src[i] = <<"while">> /\ BeginsBehind(src, f, <<"endwhile", i>>, c)
  BY <1>1, <1>2, <1>5 DEF ElseLeads
<1>6. CASE src[i] = <<"if">> /\ BeginsBehind(src, f, <<"else", i>>, c)
  BY <1>1, <1>2, <1>6 DEF ElseLeads
<1>7. CASE src[i] = <<"while">> /\ StillOpen(opn, "body", i, c)
  <2>1. StillOpen(opn2, "body", i, c) \/ (t = <<"endwhile", i>> /\ g[c] = Len(src) + 1 + 1)
    BY <1>7, StillOpenKept
  <2>2. ElseLeads(src2, opn2, g, i, c)
    <3> HIDE DEF src2
    <3>1. QED
      BY <1>1, <1>4, <1>7, <2>1 DEF ElseLeads
  <2>3. QED
    BY <2>2
<1>8. CASE src[i] = <<"if">> /\ StillOpen(opn, "then", i, c)
  <2>1. \/ StillOpen(opn2, "then", i, c)
        \/ t = <<"else", i>> /\ g[c] = Len(src) + 1 + 1
        \/ t = <<"endif", i>> /\ g[c] = Len(src) + 1
    BY <1>8, StillOpenKept
  <2>2. t = <<"endif", i>> => ~HasToken(src2, <<"else", i>>)
    <3>1. t = <<"endif", i>> => t # <<"else", i>>
      OBVIOUS
    <3>2. QED
      BY <1>3, <1>8, <3>1 DEF StillOpen
  <2>3. ElseLeads(src2, opn2, g, i, c)
    <3> HIDE DEF src2
    <3>1. QED
      BY <1>1, <1>4, <1>8, <2>1, <2>2 DEF ElseLeads
  <2>4. QED
    BY <2>3
<1>9. ASSUME src[i] = <<"if">>, ~HasToken(src, <<"else", i>>),
             NEW j \in 1 .. Len(src), src[j] = <<"endif", i>>, f[c] = j
      PROVE  ElseLeads(src2, opn2, g, i, c)
  <2>1. g[c] = j /\ j \in 1 .. Len(src2) /\ src2[j] = <<"endif", i>>
    BY <1>9, TokenAppended DEF Keeps
  <2>2. ~HasToken(src2, <<"else", i>>)
    <3>1. HasToken(src, <<"endif", i>>)
      BY <1>9 DEF HasToken
    <3>2. QED
      BY <1>3, <1>9, <3>1
  <2> HIDE DEF src2
  <2>3. QED
    BY <1>1, <1>9, <2>1, <2>2 DEF ElseLeads
<1>10. QED
  BY <1>5, <1>6, <1>7, <1>8, <1>9 DEF ElseLeads

LEMMA LeadsKept ==
  ASSUME NEW src \in Seq(Token), NEW t \in Token, NEW opn, NEW opn2, NEW f, NEW g, Keeps(f, g),
         OpenKept(opn, opn2, g, t, Len(src) + 1), NEW instr, instr.at \in 1 .. Len(src),
         instr.kind \in {"br", "condbr"} => instr.to \in DOMAIN f,
         instr.kind = "condbr" => instr.else \in DOMAIN f,
         Leads(src, opn, f, instr),
         \A i \in 1 .. Len(src) : src[i][1] = "endwhile" => src[i][2] # 0,
         \A i \in 1 .. Len(src) : t = <<"else", i>> => ~HasToken(src, <<"endif", i>>),
         \A k \in 1 .. Len(opn) :
           opn[k].part = "then" => ~HasToken(src, <<"else", opn[k].token>>)
  PROVE  Leads(Append(src, t), opn2, g, instr)
<1> DEFINE i == instr.at
<1>1. Append(src, t)[i] = src[i] /\ i \in 1 .. Len(Append(src, t)) /\ i + 1 # 0
  BY TokenAppended
<1>2. instr.kind = "br" => BrLeads(Append(src, t), opn2, g, i, instr.to)
  <2> SUFFICES ASSUME instr.kind = "br" PROVE BrLeads(Append(src, t), opn2, g, i, instr.to)
    OBVIOUS
  <2>1. BrLeads(src, opn, f, i, instr.to) /\ instr.to \in DOMAIN f
    BY DEF Leads
  <2>2. QED
    BY <2>1, BrKept
<1>3. instr.kind = "condbr" =>
        g[instr.to] = i + 1 /\ ElseLeads(Append(src, t), opn2, g, i, instr.else)
  <2> SUFFICES ASSUME instr.kind = "condbr"
               PROVE  g[instr.to] = i + 1 /\ ElseLeads(Append(src, t), opn2, g, i, instr.else)
    OBVIOUS
  <2>1. /\ ElseLeads(src, opn, f, i, instr.else) /\ instr.else \in DOMAIN f
        /\ f[instr.to] = i + 1 /\ instr.to \in DOMAIN f
    BY DEF Leads
  <2>2. ElseLeads(Append(src, t), opn2, g, i, instr.else)
    BY <2>1, ElseKept
  <2>3. QED
    BY <1>1, <2>1, <2>2 DEF Keeps
<1>4. /\ instr.kind = "ret" => Append(src, t)[i] = <<"return">>
      /\ instr.kind = "op" => Append(src, t)[i] = <<"op">>
  <2>1. i # Len(src) + 1
    BY TokenAppended
  <2>2. QED
    BY <1>1, <2>1 DEF Leads
<1>5. QED
  BY <1>1, <1>2, <1>3, <1>4 DEF Leads

-----------------------------------------------------------------------------
(* The blocks, when each is as it was or got the instruction of the token  *)
(* compiled.                                                               *)

OldBlock(b) == IF b \in 1 .. Len(blocks) THEN blocks[b] ELSE << >>

(* The token compiled adds at most its own instruction to a block. *)
Written(g, b) ==
  \/ blocks'[b] = OldBlock(b)
  \/ \E instr \in Instruction :
       /\ blocks'[b] = Append(OldBlock(b), instr)
       /\ g[b] # 0 /\ instr.at = Here /\ Here = g[b] + Len(OldBlock(b))
       /\ Leads(source', open', g, instr)

LEMMA OldBlockTypes ==
  ASSUME TypeInv, NEW b
  PROVE  OldBlock(b) \in Block /\ Len(OldBlock(b)) \in Nat
<1>1. << >> \in Block /\ blocks \in Seq(Block)
  BY BlockTypes DEF Block
<1>2. OldBlock(b) \in Block
  BY <1>1 DEF OldBlock
<1>3. QED
  BY <1>2 DEF Block

LEMMA OldInstructionKept ==
  ASSUME TypeInv, SourceOK, NEW f, Laid(f), Building(f), NEW t \in Token, Compiled(t), NEW g,
         Keeps(f, g), OpenKept(open, open', g, t, Here),
         \A i \in 1 .. Len(source) : t = <<"else", i>> => ~HasToken(source, <<"endif", i>>),
         NEW b \in 1 .. Len(blocks), NEW k \in 1 .. Len(blocks[b])
  PROVE  /\ blocks[b][k].at = g[b] + k - 1 /\ g[b] # 0
         /\ Leads(source', open', g, blocks[b][k])
<1>1. /\ source \in Seq(Token) /\ source' = Append(source, t) /\ Here = Len(source) + 1
      /\ Len(source) \in Nat
  BY DEF TypeInv, Compiled, Here
<1>2. /\ blocks[b][k].at = f[b] + k - 1 /\ Leads(source, open, f, blocks[b][k])
      /\ DOMAIN f = 1 .. Len(blocks)
  BY DEF Laid
<1>3. f[b] # 0
  <2>1. Len(blocks[b]) # 0
    BY BlockTypes DEF Block
  <2>2. QED
    BY <2>1 DEF Laid
<1>4. g[b] = f[b]
  BY <1>2, <1>3 DEF Keeps
<1>5. InstructionOK(blocks[b][k], Len(blocks), Here) /\ blocks[b][k].at < Here
  BY DEF TypeInv, BlocksOK, Building
<1>6. /\ blocks[b][k].at \in 1 .. Len(source)
      /\ blocks[b][k].kind \in {"br", "condbr"} => blocks[b][k].to \in DOMAIN f
      /\ blocks[b][k].kind = "condbr" => blocks[b][k].else \in DOMAIN f
  BY <1>1, <1>2, <1>5 DEF InstructionOK
<1>7. /\ \A i \in 1 .. Len(source) : source[i][1] = "endwhile" => source[i][2] # 0
      /\ \A j \in 1 .. Len(open) :
           open[j].part = "then" => ~HasToken(source, <<"else", open[j].token>>)
  <2>1. \A i \in 1 .. Len(source) : source[i][1] = "endwhile" => source[i][2] # 0
    <3>1. \A i \in 1 .. Len(source) : source[i][1] = "endwhile" => source[i][2] \in 1 .. Len(source)
      BY DEF SourceOK, TokenOK
    <3>2. QED
      BY <3>1
  <2>2. \A j \in 1 .. Len(open) :
           open[j].part = "then" => ~HasToken(source, <<"else", open[j].token>>)
    BY DEF SourceOK, OpenOK
  <2>3. QED
    BY <2>1, <2>2
<1>8. OpenKept(open, open', g, t, Len(source) + 1)
  BY <1>1
<1>9. Leads(source', open', g, blocks[b][k])
  BY <1>1, <1>2, <1>6, <1>7, <1>8, LeadsKept
<1>10. QED
  BY <1>2, <1>3, <1>4, <1>9

LEMMA LaidStep ==
  ASSUME TypeInv, SourceOK, NEW f, Laid(f), Building(f), NEW t \in Token, Compiled(t),
         Len(blocks') \in Nat, Len(blocks') >= Len(blocks),
         NEW g, g \in [1 .. Len(blocks') -> Nat],
         Keeps(f, g), OpenKept(open, open', g, t, Here),
         \A i \in 1 .. Len(source) : t = <<"else", i>> => ~HasToken(source, <<"endif", i>>),
         \A b \in 1 .. Len(blocks') : Written(g, b),
         \A l \in DOMAIN labels' : BeginsBehind(source', g, <<"label", l>>, labels'[l])
  PROVE  Laid(g)'
<1>1. /\ f \in [1 .. Len(blocks) -> Nat] /\ f[1] = 1
      /\ \A b \in 1 .. Len(blocks) : f[b] = 0 => Len(blocks[b]) = 0
  BY DEF Laid
<1>2. g[1] = 1
  <2>1. 1 \in DOMAIN f
    BY <1>1, BlockTypes
  <2>2. QED
    BY <1>1, <2>1 DEF Keeps
<1>3. ASSUME NEW b \in 1 .. Len(blocks'), g[b] = 0
      PROVE  Len(blocks'[b]) = 0
  <2>1. blocks'[b] = OldBlock(b)
    BY <1>3 DEF Written
  <2>2. CASE b \in 1 .. Len(blocks)
    <3>1. f[b] = 0
      BY <1>1, <1>3, <2>2 DEF Keeps
    <3>2. QED
      BY <1>1, <2>1, <2>2, <3>1 DEF OldBlock
  <2>3. CASE b \notin 1 .. Len(blocks)
    BY <2>1, <2>3 DEF OldBlock
  <2>4. QED
    BY <2>2, <2>3
<1>4. ASSUME NEW b \in 1 .. Len(blocks'), NEW k \in 1 .. Len(OldBlock(b))
      PROVE  OldBlock(b)[k].at = g[b] + k - 1 /\ Leads(source', open', g, OldBlock(b)[k])
  <2>1. b \in 1 .. Len(blocks)
    <3>1. Len(<< >>) = 0
      OBVIOUS
    <3>2. QED
      BY <3>1 DEF OldBlock
  <2>2. OldBlock(b) = blocks[b]
    BY <2>1 DEF OldBlock
  <2>3. k \in 1 .. Len(blocks[b])
    BY <2>2
  <2>4. blocks[b][k].at = g[b] + k - 1 /\ Leads(source', open', g, blocks[b][k])
    BY <2>1, <2>3, OldInstructionKept, SMTT(30)
  <2>5. QED
    BY <2>2, <2>4, Zenon
<1>5. ASSUME NEW b \in 1 .. Len(blocks'), NEW k \in 1 .. Len(blocks'[b])
      PROVE  blocks'[b][k].at = g[b] + k - 1 /\ Leads(source', open', g, blocks'[b][k])
  <2>1. CASE blocks'[b] = OldBlock(b)
    BY <1>4, <2>1
  <2>2. ASSUME NEW instr \in Instruction, blocks'[b] = Append(OldBlock(b), instr),
               instr.at = Here, Here = g[b] + Len(OldBlock(b)), Leads(source', open', g, instr)
        PROVE  blocks'[b][k].at = g[b] + k - 1 /\ Leads(source', open', g, blocks'[b][k])
    <3>1. /\ Len(blocks'[b]) = Len(OldBlock(b)) + 1
          /\ blocks'[b][Len(OldBlock(b)) + 1] = instr
          /\ \A i \in 1 .. Len(OldBlock(b)) : blocks'[b][i] = OldBlock(b)[i]
          /\ Len(OldBlock(b)) \in Nat
      BY <2>2, OldBlockTypes, AppendedBlock
    <3>2. CASE k = Len(OldBlock(b)) + 1
      <4>1. k - 1 = Len(OldBlock(b)) /\ g[b] \in Nat
        BY <3>1, <3>2
      <4>2. blocks'[b][k] = instr
        BY <3>1, <3>2
      <4>3. g[b] + k - 1 = g[b] + Len(OldBlock(b))
        BY <4>1, <3>1, <3>2
      <4>4. QED
        BY <2>2, <4>2, <4>3
    <3>3. CASE k \in 1 .. Len(OldBlock(b))
      <4>1. blocks'[b][k] = OldBlock(b)[k]
        BY <3>1, <3>3
      <4>2. QED
        BY <1>4, <3>3, <4>1
    <3>4. k = Len(OldBlock(b)) + 1 \/ k \in 1 .. Len(OldBlock(b))
      BY <3>1
    <3>5. QED
      BY <3>2, <3>3, <3>4
  <2>3. QED
    BY <2>1, <2>2 DEF Written
<1>6. QED
  BY <1>2, <1>3, <1>5 DEF Laid

-----------------------------------------------------------------------------
(* The source and the open statements, one token later.                    *)

(* Statements that are open stay open, or token t is their end. *)
EndsFound(src, opn, opn2, t) ==
  \A k \in 1 .. Len(opn) :
    \/ \E m \in 1 .. Len(opn2) : opn2[m].token = opn[k].token
    \/ src[opn[k].token] = <<"if">> /\ t = <<"endif", opn[k].token>>
    \/ src[opn[k].token] = <<"while">> /\ t = <<"endwhile", opn[k].token>>

LEMMA TokenKept ==
  ASSUME NEW src \in Seq(Token), NEW t \in Token, NEW opn, NEW opn2, NEW ls, NEW ls2,
         NEW gs, NEW gs2, NEW i \in 1 .. Len(src), TokenOK(src, opn, ls, gs, i),
         DOMAIN ls \subseteq DOMAIN ls2, gs \subseteq gs2, EndsFound(src, opn, opn2, t)
  PROVE  TokenOK(Append(src, t), opn2, ls2, gs2, i)
<1> DEFINE src2 == Append(src, t)
<1>1. /\ \A j \in 1 .. Len(src) : src2[j] = src[j] /\ j \in 1 .. Len(src2)
      /\ \A x : HasToken(src2, x) <=> HasToken(src, x) \/ x = t
  BY TokenAppended
<1>2. src2[i] = src[i] /\ i \in 1 .. Len(src2)
  BY <1>1
<1>3. ASSUME src[i] = <<"if">>
      PROVE  HasToken(src2, <<"endif", i>>) \/ \E k \in 1 .. Len(opn2) : opn2[k].token = i
  <2>1. CASE HasToken(src, <<"endif", i>>)
    BY <1>1, <2>1
  <2>2. ASSUME NEW k \in 1 .. Len(opn), opn[k].token = i
        PROVE  HasToken(src2, <<"endif", i>>) \/ \E m \in 1 .. Len(opn2) : opn2[m].token = i
    <3>1. src[i] # <<"while">>
      BY <1>3
    <3>2. QED
      BY <1>1, <2>2, <3>1 DEF EndsFound
  <2>3. QED
    BY <1>3, <2>1, <2>2 DEF TokenOK
<1>4. ASSUME src[i] = <<"while">>
      PROVE  HasToken(src2, <<"endwhile", i>>) \/ \E k \in 1 .. Len(opn2) : opn2[k].token = i
  <2>1. CASE HasToken(src, <<"endwhile", i>>)
    BY <1>1, <2>1
  <2>2. ASSUME NEW k \in 1 .. Len(opn), opn[k].token = i
        PROVE  HasToken(src2, <<"endwhile", i>>) \/ \E m \in 1 .. Len(opn2) : opn2[m].token = i
    <3>1. src[i] # <<"if">>
      BY <1>4
    <3>2. QED
      BY <1>1, <2>2, <3>1 DEF EndsFound
  <2>3. QED
    BY <1>4, <2>1, <2>2 DEF TokenOK
<1>5. /\ src[i][1] = "else" => src[i][2] \in 1 .. Len(src2) /\ src2[src[i][2]] = <<"if">>
      /\ src[i][1] \in {"endif", "endwhile"} => src[i][2] \in 1 .. Len(src2)
  BY <1>1 DEF TokenOK
<1>6. /\ src[i][1] = "label" => src[i][2] \in DOMAIN ls2
      /\ src[i][1] = "goto" => \E g \in gs2 : g.label = src[i][2]
  BY DEF TokenOK
<1> HIDE DEF src2
<1>7. TokenOK(src2, opn2, ls2, gs2, i)
  BY <1>2, <1>3, <1>4, <1>5, <1>6 DEF TokenOK
<1>8. QED
  BY <1>7 DEF src2

LEMMA UniqueKept ==
  ASSUME NEW src \in Seq(Token), NEW t \in Token, UniqueOK(src),
         t[1] \in Unique => ~HasToken(src, t)
  PROVE  UniqueOK(Append(src, t))
<1> DEFINE src2 == Append(src, t)
<1>1. /\ \A j \in 1 .. Len(src) : src2[j] = src[j]
      /\ src2[Len(src) + 1] = t
      /\ \A j \in 1 .. Len(src2) : j = Len(src) + 1 \/ j \in 1 .. Len(src)
  BY TokenAppended
<1> HIDE DEF src2
<1>2. \A j \in 1 .. Len(src) : t[1] \in Unique => src[j] # t
  BY DEF HasToken
<1>3. UniqueOK(src2)
  BY <1>1, <1>2 DEF UniqueOK
<1>4. QED
  BY <1>3 DEF src2

(* Token t is no part of open statement s. *)
Foreign(t, s) ==
  t # <<"else", s.token>> /\ t # <<"endif", s.token>> /\ t # <<"endwhile", s.token>>

LEMMA OpenOKKept ==
  ASSUME NEW src \in Seq(Token), NEW t \in Token, NEW s, OpenOK(src, s), Foreign(t, s)
  PROVE  OpenOK(Append(src, t), s)
<1>1. /\ \A j \in 1 .. Len(src) : Append(src, t)[j] = src[j] /\ j \in 1 .. Len(Append(src, t))
      /\ \A x : HasToken(Append(src, t), x) <=> HasToken(src, x) \/ x = t
  BY TokenAppended
<1>2. QED
  BY <1>1 DEF OpenOK, Foreign

(* The first p open statements stay open, and there is at most one more. *)
OpenFrom(p) ==
  /\ p \in 0 .. Len(open) /\ Len(open') \in {p, p + 1}
  /\ \A k \in 1 .. p : open'[k] = open[k]

LEMMA OpenFromSplit ==
  ASSUME NEW p, OpenFrom(p), NEW k \in 1 .. Len(open')
  PROVE  \/ k \in 1 .. p /\ k \in 1 .. Len(open) /\ open'[k] = open[k]
         \/ k = p + 1 /\ Len(open') = p + 1
BY DEF OpenFrom

LEMMA SourceStep ==
  ASSUME TypeInv, SourceOK, NEW t \in Token, Compiled(t),
         DOMAIN labels \subseteq DOMAIN labels', gotos \subseteq gotos',
         EndsFound(source, open, open', t), TokenOK(source', open', labels', gotos', Here),
         t[1] \in Unique => ~HasToken(source, t),
         NEW p, OpenFrom(p), \A k \in 1 .. p : Foreign(t, open[k]),
         Len(open') = p + 1 =>
           OpenOK(source', open'[p + 1]) /\ \A k \in 1 .. p : open[k].token # open'[p + 1].token
  PROVE  SourceOK'
<1>1. /\ source \in Seq(Token) /\ source' = Append(source, t) /\ Len(source) \in Nat
      /\ Here = Len(source) + 1 /\ Len(source') = Len(source) + 1
  BY DEF TypeInv, Compiled, Here
<1>2. \A i \in 1 .. Len(source') : TokenOK(source', open', labels', gotos', i)
  <2>1. \A i \in 1 .. Len(source) : TokenOK(source', open', labels', gotos', i)
    <3>1. \A i \in 1 .. Len(source) : TokenOK(source, open, labels, gotos, i)
      BY DEF SourceOK
    <3>2. QED
      BY <1>1, <3>1, TokenKept
  <2>2. \A i \in 1 .. Len(source') : i = Here \/ i \in 1 .. Len(source)
    BY <1>1
  <2>3. QED
    BY <2>1, <2>2
<1>3. UniqueOK(source')
  BY <1>1, UniqueKept DEF SourceOK
<1>4. \A k \in 1 .. p : OpenOK(source', open[k])
  <2>1. \A k \in 1 .. p : k \in 1 .. Len(open)
    BY DEF OpenFrom
  <2>2. \A k \in 1 .. p : OpenOK(source, open[k])
    BY <2>1 DEF SourceOK
  <2>3. QED
    BY <1>1, <2>2, OpenOKKept
<1>5. \A k \in 1 .. Len(open') : OpenOK(source', open'[k])
  BY <1>4, OpenFromSplit
<1>6. \A k, m \in 1 .. Len(open') : open'[k].token = open'[m].token => m = k
  <2>1. \A k, m \in 1 .. Len(open) : open[k].token = open[m].token => m = k
    BY DEF SourceOK
  <2> SUFFICES ASSUME NEW k \in 1 .. Len(open'), NEW m \in 1 .. Len(open'),
                      open'[k].token = open'[m].token
               PROVE  m = k
    OBVIOUS
  <2>2. /\ \/ k \in 1 .. p /\ k \in 1 .. Len(open) /\ open'[k] = open[k]
           \/ k = p + 1 /\ Len(open') = p + 1
        /\ \/ m \in 1 .. p /\ m \in 1 .. Len(open) /\ open'[m] = open[m]
           \/ m = p + 1 /\ Len(open') = p + 1
    BY OpenFromSplit
  <2>3. QED
    BY <2>1, <2>2
<1>7. QED
  BY <1>2, <1>3, <1>5, <1>6 DEF SourceOK

-----------------------------------------------------------------------------
(* The witness after one more token at h: the block to is begun behind it, *)
(* the block also with it.                                                 *)
Fresh(f, b) == b \in DOMAIN f => f[b] = 0

Extends(f, g, n, to, also, h) ==
  /\ g \in [1 .. n -> Nat] /\ Keeps(f, g)
  /\ \A b \in 1 .. n : Fresh(f, b) =>
       /\ b = to => g[b] = h + 1
       /\ b # to /\ b = also => g[b] = h
       /\ b # to /\ b # also => g[b] = 0

LEMMA Extension ==
  ASSUME NEW m \in Nat, NEW n \in Nat, n >= m, NEW f \in [1 .. m -> Nat], NEW h \in Nat,
         NEW to, NEW also
  PROVE  \E g : Extends(f, g, n, to, also, h)
<1> DEFINE Place(b) == IF b \in 1 .. m /\ f[b] # 0 THEN f[b]
                       ELSE IF b = to THEN h + 1 ELSE IF b = also THEN h ELSE 0
           g == [b \in 1 .. n |-> Place(b)]
<1>1. \A b \in 1 .. n : Place(b) \in Nat
  OBVIOUS
<1>2. g \in [1 .. n -> Nat]
  BY <1>1
<1>3. Keeps(f, g)
  BY DEF Keeps
<1>4. \A b \in 1 .. n : Fresh(f, b) =>
        /\ b = to => g[b] = h + 1
        /\ b # to /\ b = also => g[b] = h
        /\ b # to /\ b # also => g[b] = 0
  BY DEF Fresh
<1>5. QED
  BY <1>2, <1>3, <1>4 DEF Extends

(* The statement opened on p others, if any, has blocks of its own. *)
NewApart(g, p) ==
  Len(open') = p + 1 =>
    /\ \A b : Awaits(open'[p + 1], b) =>
         g[b] = 0 /\ \A k \in 1 .. p : ~Awaits(open[k], b)
    /\ open'[p + 1].part = "then" => open'[p + 1].else # open'[p + 1].after
    /\ open'[p + 1].part = "body" => g[open'[p + 1].loop] = open'[p + 1].token

LEMMA ApartStep ==
  ASSUME TypeInv, NEW f, Laid(f), OpenApart(f, open), SourceOK, NEW g, Keeps(f, g),
         NEW p, OpenFrom(p),
         \A k \in 1 .. p : \A b : Awaits(open[k], b) => g[b] = 0,
         NewApart(g, p)
  PROVE  OpenApart(g, open')
<1>1. ASSUME NEW k \in 1 .. p
      PROVE  /\ open[k].part = "then" => open[k].else # open[k].after
             /\ open[k].part = "body" => g[open[k].loop] = open[k].token
             /\ \A m \in 1 .. p : \A b : Awaits(open[k], b) /\ Awaits(open[m], b) => m = k
  <2>1. k \in 1 .. Len(open) /\ \A m \in 1 .. p : m \in 1 .. Len(open)
    BY DEF OpenFrom
  <2>2. open[k].part = "body" => g[open[k].loop] = open[k].token
    <3> SUFFICES ASSUME open[k].part = "body" PROVE g[open[k].loop] = open[k].token
      OBVIOUS
    <3>1. f[open[k].loop] = open[k].token
      BY <2>1 DEF OpenApart
    <3>2. open[k].loop \in DOMAIN f
      BY <2>1 DEF TypeInv, StatementOK, Laid
    <3>3. open[k].token # 0
      <4>1. OpenOK(source, open[k])
        BY <2>1 DEF SourceOK
      <4>2. QED
        BY <4>1 DEF OpenOK
    <3>4. QED
      BY <3>1, <3>2, <3>3 DEF Keeps
  <2>3. QED
    BY <2>1, <2>2 DEF OpenApart
<1>2. ASSUME NEW k \in 1 .. Len(open')
      PROVE  /\ \A b : Awaits(open'[k], b) => g[b] = 0
             /\ open'[k].part = "then" => open'[k].else # open'[k].after
             /\ open'[k].part = "body" => g[open'[k].loop] = open'[k].token
  <2>1. CASE k \in 1 .. p /\ open'[k] = open[k]
    BY <1>1, <2>1
  <2>2. CASE k = p + 1 /\ Len(open') = p + 1
    BY <2>2 DEF NewApart
  <2>3. QED
    BY <2>1, <2>2, OpenFromSplit
<1>3. ASSUME NEW k \in 1 .. Len(open'), NEW m \in 1 .. Len(open'), NEW b,
             Awaits(open'[k], b), Awaits(open'[m], b)
      PROVE  m = k
  <2>1. /\ \/ k \in 1 .. p /\ open'[k] = open[k]
           \/ k = p + 1 /\ Len(open') = p + 1
        /\ \/ m \in 1 .. p /\ open'[m] = open[m]
           \/ m = p + 1 /\ Len(open') = p + 1
    BY OpenFromSplit
  <2>2. QED
    BY <1>1, <1>3, <2>1 DEF NewApart
<1>4. QED
  BY <1>2, <1>3 DEF OpenApart

-----------------------------------------------------------------------------
(* The invariant, one token later, from what the token's action does.      *)

LEMMA BuildingStep ==
  ASSUME TypeInv, NEW f, Laid(f), Building(f), NEW t \in Token, Compiled(t),
         Len(blocks') \in Nat, Len(blocks') >= Len(blocks),
         NEW g, g \in [1 .. Len(blocks') -> Nat], Keeps(f, g),
         \A b \in 1 .. Len(blocks') : Written(g, b),
         g[insertBlock'] # 0, Here + 1 = g[insertBlock'] + Len(blocks'[insertBlock']),
         OpenApart(g, open'),
         \A h \in gotos : h.block # insertBlock' /\ blocks'[h.block] = blocks[h.block],
         \/ gotos' = gotos
         \/ \E l \in Labels :
              /\ gotos' = gotos \cup {[label |-> l, block |-> insertBlock, at |-> Here]}
              /\ t = <<"goto", l>>
              /\ insertBlock' # insertBlock /\ blocks'[insertBlock] = blocks[insertBlock]
  PROVE  Building(g)'
<1>1. /\ source \in Seq(Token) /\ source' = Append(source, t) /\ Len(source) \in Nat
      /\ Here = Len(source) + 1 /\ Here' = Here + 1
      /\ source'[Here] = t /\ \A i \in 1 .. Len(source) : source'[i] = source[i]
  <2>1. source \in Seq(Token) /\ source' = Append(source, t) /\ Here' = Here + 1
    BY GrownOK, BlockTypes DEF TypeInv, Compiled
  <2>2. QED
    BY <2>1, TokenAppended DEF Here
<1>2. DOMAIN f = 1 .. Len(blocks) /\ insertBlock \in 1 .. Len(blocks) /\ Len(blocks) \in Nat
  BY BlockTypes DEF Laid
<1>3. ASSUME NEW b \in 1 .. Len(blocks'), NEW k \in 1 .. Len(blocks'[b])
      PROVE  blocks'[b][k].at < Here + 1
  <2>1. ASSUME NEW i \in 1 .. Len(OldBlock(b)) PROVE OldBlock(b)[i].at < Here + 1
    <3>1. b \in 1 .. Len(blocks)
      <4>1. Len(<< >>) = 0
        OBVIOUS
      <4>2. QED
        BY <4>1 DEF OldBlock
    <3>2. OldBlock(b) = blocks[b] /\ i \in 1 .. Len(blocks[b])
      BY <3>1 DEF OldBlock
    <3>3. blocks[b][i].at < Here /\ InstructionOK(blocks[b][i], Len(blocks), Here)
      BY <3>1, <3>2 DEF Building, TypeInv, BlocksOK
    <3>4. blocks[b][i].at \in 1 .. Here
      BY <3>3 DEF InstructionOK
    <3>5. Here \in Nat
      BY <1>1
    <3> DEFINE v == blocks[b][i].at
    <3>6. v < Here + 1
      <4>1. v \in 1 .. Here /\ v < Here
        BY <3>3, <3>4
      <4> HIDE DEF v
      <4>2. QED
        BY <3>5, <4>1
    <3>7. QED
      BY <3>2, <3>6
  <2>2. CASE blocks'[b] = OldBlock(b)
    BY <2>1, <2>2
  <2>3. ASSUME NEW instr \in Instruction, blocks'[b] = Append(OldBlock(b), instr), instr.at = Here
        PROVE  blocks'[b][k].at < Here + 1
    <3>1. /\ Len(blocks'[b]) = Len(OldBlock(b)) + 1
          /\ blocks'[b][Len(OldBlock(b)) + 1] = instr
          /\ \A i \in 1 .. Len(OldBlock(b)) : blocks'[b][i] = OldBlock(b)[i]
          /\ Len(OldBlock(b)) \in Nat
      BY <2>3, OldBlockTypes, AppendedBlock
    <3>2. CASE k = Len(OldBlock(b)) + 1
      BY <1>1, <2>3, <3>1, <3>2
    <3>3. CASE k \in 1 .. Len(OldBlock(b))
      BY <2>1, <3>1, <3>3
    <3>4. QED
      BY <3>1, <3>2, <3>3
  <2>4. QED
    BY <2>2, <2>3 DEF Written
<1>4. ASSUME NEW h \in gotos
      PROVE  /\ g[h.block] # 0 /\ h.at = g[h.block] + Len(blocks'[h.block])
             /\ h.block # insertBlock' /\ source'[h.at] = <<"goto", h.label>>
  <2>1. /\ f[h.block] # 0 /\ h.at = f[h.block] + Len(blocks[h.block])
        /\ source[h.at] = <<"goto", h.label>>
    BY DEF Building
  <2>2. h.block \in 1 .. Len(blocks) /\ h.at \in 1 .. Len(source)
    BY <1>1 DEF TypeInv, GotosOK
  <2>3. g[h.block] = f[h.block]
    BY <1>2, <2>1, <2>2 DEF Keeps
  <2>4. QED
    BY <1>1, <2>1, <2>2, <2>3
<1>5. ASSUME NEW l \in Labels,
             gotos' = gotos \cup {[label |-> l, block |-> insertBlock, at |-> Here]},
             t = <<"goto", l>>,
             insertBlock' # insertBlock, blocks'[insertBlock] = blocks[insertBlock],
             NEW h \in gotos', h \notin gotos
      PROVE  /\ g[h.block] # 0 /\ h.at = g[h.block] + Len(blocks'[h.block])
             /\ h.block # insertBlock' /\ source'[h.at] = <<"goto", h.label>>
  <2>1. h.label = l /\ h.block = insertBlock /\ h.at = Here
    BY <1>5
  <2>2. f[insertBlock] # 0 /\ Here = f[insertBlock] + Len(blocks[insertBlock])
    BY DEF Building
  <2>3. g[insertBlock] = f[insertBlock]
    BY <1>2, <2>2 DEF Keeps
  <2>4. QED
    BY <1>1, <1>5, <2>1, <2>2, <2>3
<1>6. \A h \in gotos' :
        /\ g[h.block] # 0 /\ h.at = g[h.block] + Len(blocks'[h.block])
        /\ h.block # insertBlock' /\ source'[h.at] = <<"goto", h.label>>
  BY <1>4, <1>5
<1>7. \A h, i \in gotos' : h.block = i.block => h = i
  <2>1. \A h, i \in gotos : h.block = i.block => h = i
    BY DEF Building
  <2>2. \A h \in gotos : h.block # insertBlock
    BY DEF Building
  <2>3. \A h \in gotos' : h \in gotos \/
          (h \notin gotos /\ h.block = insertBlock /\ \A i \in gotos' : i \notin gotos => i = h)
    BY SMTT(30)
  <2>4. QED
    BY <2>1, <2>2, <2>3
<1>8. QED
  BY <1>1, <1>3, <1>6, <1>7 DEF Building

-----------------------------------------------------------------------------
(* One more token: the Builder goes to block to, and to no block but its   *)
(* own and the block also is anything appended.                            *)
LEMMA BlocksStep ==
  ASSUME TypeInv, SourceOK, NEW f, Laid(f), Building(f), NEW t \in Token, Compiled(t),
         Len(blocks') \in Nat, Len(blocks') >= Len(blocks),
         NEW to \in 1 .. Len(blocks'), NEW also, Fresh(f, also), NEW g,
         Extends(f, g, Len(blocks'), to, also, Here),
         insertBlock' = to,
         \/ to = insertBlock /\ Len(blocks'[to]) = Len(blocks[to]) + 1
         \/ Fresh(f, to) /\ to # also,
         \A b \in 1 .. Len(blocks') :
           b # insertBlock /\ b # also => blocks'[b] = OldBlock(b),
         Written(g, insertBlock), also \in 1 .. Len(blocks') => Written(g, also),
         NEW p, OpenFrom(p),
         \A k \in 1 .. p : ~Awaits(open[k], to) /\ ~Awaits(open[k], also),
         NewApart(g, p),
         OpenKept(open, open', g, t, Here),
         \A i \in 1 .. Len(source) : t = <<"else", i>> => ~HasToken(source, <<"endif", i>>),
         \/ labels' = labels
         \/ \E l \in Labels : t = <<"label", l>> /\ DOMAIN labels' = DOMAIN labels \cup {l}
              /\ labels'[l] = to /\ Fresh(f, to) /\ \A m \in DOMAIN labels : labels'[m] = labels[m],
         \/ gotos' = gotos
         \/ \E l \in Labels :
              /\ gotos' = gotos \cup {[label |-> l, block |-> insertBlock, at |-> Here]}
              /\ t = <<"goto", l>> /\ Fresh(f, to) /\ blocks'[insertBlock] = blocks[insertBlock]
  PROVE  Laid(g)' /\ Building(g)'
<1>1. /\ g \in [1 .. Len(blocks') -> Nat] /\ Keeps(f, g)
      /\ \A b \in 1 .. Len(blocks') : Fresh(f, b) =>
           /\ b = to => g[b] = Here + 1
           /\ b # to /\ b # also => g[b] = 0
  BY DEF Extends
<1>2. /\ DOMAIN f = 1 .. Len(blocks) /\ Len(blocks) \in Nat /\ insertBlock \in 1 .. Len(blocks)
      /\ f[insertBlock] # 0 /\ Here = f[insertBlock] + Len(blocks[insertBlock])
      /\ g[insertBlock] = f[insertBlock] /\ ~Fresh(f, insertBlock)
      /\ Here \in Nat /\ Len(blocks[insertBlock]) \in Nat
  BY <1>1, BlockTypes DEF Laid, Building, Keeps, Fresh, Block
<1>3. source \in Seq(Token) /\ source' = Append(source, t) /\ Here = Len(source) + 1
  BY DEF TypeInv, Compiled, Here
<1>4. \A b \in 1 .. Len(blocks') : Written(g, b)
  BY DEF Written
<1>5. Fresh(f, to) => g[to] = Here + 1 /\ Len(blocks'[to]) = 0
  <2> SUFFICES ASSUME Fresh(f, to) PROVE g[to] = Here + 1 /\ Len(blocks'[to]) = 0
    OBVIOUS
  <2>1. g[to] = Here + 1 /\ to # insertBlock /\ to # also
    BY <1>1, <1>2
  <2>2. blocks'[to] = OldBlock(to)
    BY <2>1
  <2>3. Len(OldBlock(to)) = 0
    BY <1>2 DEF OldBlock, Laid, Fresh
  <2>4. QED
    BY <2>1, <2>2, <2>3
<1>6. g[to] # 0 /\ Here + 1 = g[to] + Len(blocks'[to])
  <2>1. CASE Fresh(f, to)
    BY <1>2, <1>5, <2>1
  <2>2. CASE to = insertBlock /\ Len(blocks'[to]) = Len(blocks[to]) + 1
    <3>1. g[to] = f[to] /\ f[to] \in Nat
      BY <1>2, <2>2 DEF Laid
    <3>2. QED
      BY <1>2, <2>2, <3>1
  <2>3. QED
    BY <2>1, <2>2
<1>7. \A l \in DOMAIN labels' : BeginsBehind(source', g, <<"label", l>>, labels'[l])
  <2>1. ASSUME NEW l \in DOMAIN labels
        PROVE  BeginsBehind(source', g, <<"label", l>>, labels[l])
    <3>1. BeginsBehind(source, f, <<"label", l>>, labels[l]) /\ labels[l] \in DOMAIN f
      BY <1>2 DEF Laid, TypeInv, LabelsOK
    <3>2. QED
      BY <1>1, <1>3, <3>1, BeginsKept
  <2>2. ASSUME NEW l \in Labels, t = <<"label", l>>, Fresh(f, to)
        PROVE  BeginsBehind(source', g, <<"label", l>>, to)
    <3>1. g[to] = Len(source) + 1 + 1
      BY <1>3, <1>5, <2>2
    <3>2. QED
      BY <1>3, <2>2, <3>1, BeginsNow
  <2>3. QED
    BY <2>1, <2>2
<1>8. ASSUME NEW k \in 1 .. p, NEW b, Awaits(open[k], b)
      PROVE  g[b] = 0
  <2>1. k \in 1 .. Len(open)
    BY DEF OpenFrom
  <2>2. b \in 1 .. Len(blocks) /\ f[b] = 0
    BY <1>8, <2>1, BlockTypes DEF Building, OpenApart
  <2>3. b \in 1 .. Len(blocks') /\ Fresh(f, b)
    BY <1>2, <2>2 DEF Fresh
  <2>4. QED
    BY <1>1, <1>8, <2>3
<1>9. OpenApart(g, open')
  <2>1. OpenApart(f, open)
    BY DEF Building
  <2>2. QED
    BY <1>1, <1>8, <2>1, ApartStep
<1>10. ASSUME NEW h \in gotos
       PROVE  h.block # insertBlock' /\ blocks'[h.block] = blocks[h.block]
  <2>1. h.block \in 1 .. Len(blocks) /\ h.block # insertBlock /\ f[h.block] # 0
    BY BlockTypes DEF Building
  <2>2. ~Fresh(f, h.block) /\ h.block # also /\ h.block \in 1 .. Len(blocks')
    BY <1>2, <2>1 DEF Fresh
  <2>3. blocks'[h.block] = OldBlock(h.block)
    BY <2>1, <2>2
  <2>4. QED
    BY <2>1, <2>2, <2>3 DEF OldBlock
<1>11. Laid(g)'
  BY <1>1, <1>4, <1>7, LaidStep
<1>12. \/ gotos' = gotos
       \/ \E l \in Labels :
            /\ gotos' = gotos \cup {[label |-> l, block |-> insertBlock, at |-> Here]}
            /\ t = <<"goto", l>>
            /\ insertBlock' # insertBlock /\ blocks'[insertBlock] = blocks[insertBlock]
  BY <1>2
<1>13. g[insertBlock'] # 0 /\ Here + 1 = g[insertBlock'] + Len(blocks'[insertBlock'])
  BY <1>6
<1>14. Building(g)'
  BY <1>1, <1>4, <1>9, <1>10, <1>12, <1>13, BuildingStep
<1>15. QED
  BY <1>11, <1>14

-----------------------------------------------------------------------------
(* Statements that stay in their block.                                    *)

LEMMA TokenNow ==
  ASSUME TypeInv, NEW t \in Token, Compiled(t)
  PROVE  /\ source \in Seq(Token) /\ source' = Append(source, t) /\ Len(source) \in Nat
         /\ Here = Len(source) + 1 /\ Here \in Nat /\ Here \in 1 .. Len(source')
         /\ Len(source') = Here /\ source'[Here] = t
         /\ \A i \in 1 .. Len(source) : source'[i] = source[i]
         /\ \A x : HasToken(source', x) <=> HasToken(source, x) \/ x = t
<1>1. /\ source \in Seq(Token) /\ source' = Append(source, t) /\ Here = Len(source) + 1
  BY DEF TypeInv, Compiled, Here
<1>2. QED
  BY <1>1, TokenAppended

(* No statement is opened or ended. *)
LEMMA OpenSame ==
  ASSUME TypeInv, open' = open, NEW t, t[1] \notin Closing, NEW g, NEW h
  PROVE  /\ OpenFrom(Len(open)) /\ Len(open') # Len(open) + 1
         /\ EndsFound(source, open, open', t) /\ OpenKept(open, open', g, t, h)
         /\ \A k \in 1 .. Len(open) : Foreign(t, open[k])
<1>1. Len(open) \in Nat
  BY BlockTypes
<1>2. OpenFrom(Len(open)) /\ Len(open') # Len(open) + 1
  BY <1>1 DEF OpenFrom
<1>3. EndsFound(source, open, open', t) /\ OpenKept(open, open', g, t, h)
  BY DEF EndsFound, OpenKept
<1>4. \A k \in 1 .. Len(open) : Foreign(t, open[k])
  BY DEF Foreign, Closing
<1>5. QED
  BY <1>2, <1>3, <1>4

(* A statement is opened. *)
LEMMA OpenPushed ==
  ASSUME TypeInv, NEW s \in Statement, open' = Append(open, s), NEW t, t[1] \notin Closing,
         NEW g, NEW h
  PROVE  /\ OpenFrom(Len(open)) /\ Len(open') = Len(open) + 1 /\ open'[Len(open) + 1] = s
         /\ EndsFound(source, open, open', t) /\ OpenKept(open, open', g, t, h)
         /\ \A k \in 1 .. Len(open) : Foreign(t, open[k])
<1>1. Len(open) \in Nat /\ open \in Seq(Statement)
  BY BlockTypes
<1>2. /\ Len(open') = Len(open) + 1 /\ open'[Len(open) + 1] = s
      /\ \A k \in 1 .. Len(open) : open'[k] = open[k] /\ k \in 1 .. Len(open')
  BY <1>1
<1>3. OpenFrom(Len(open))
  BY <1>1, <1>2 DEF OpenFrom
<1>4. EndsFound(source, open, open', t) /\ OpenKept(open, open', g, t, h)
  BY <1>2 DEF EndsFound, OpenKept
<1>5. \A k \in 1 .. Len(open) : Foreign(t, open[k])
  BY DEF Foreign, Closing
<1>6. QED
  BY <1>2, <1>3, <1>4, <1>5

LEMMA EmitWritten ==
  ASSUME TypeInv, NEW f, Laid(f), Building(f), NEW g, Keeps(f, g),
         NEW instr \in Instruction, instr.at = Here, Leads(source', open', g, instr),
         blocks'[insertBlock] = Append(blocks[insertBlock], instr)
  PROVE  Written(g, insertBlock)
<1>1. /\ insertBlock \in DOMAIN f /\ insertBlock \in 1 .. Len(blocks) /\ f[insertBlock] # 0
      /\ Here = f[insertBlock] + Len(blocks[insertBlock])
  BY BlockTypes DEF Laid, Building
<1>2. g[insertBlock] = f[insertBlock] /\ OldBlock(insertBlock) = blocks[insertBlock]
  BY <1>1 DEF Keeps, OldBlock
<1>3. QED
  BY <1>1, <1>2 DEF Written

LEMMA SameWritten ==
  ASSUME NEW g, NEW b \in 1 .. Len(blocks), blocks'[b] = blocks[b]
  PROVE  blocks'[b] = OldBlock(b) /\ Written(g, b)
BY DEF Written, OldBlock

(* What every token compiled starts from. *)
LEMMA Building0 ==
  ASSUME TypeInv, FlowInv, phase = "compile"
  PROVE  /\ SourceOK
         /\ \E f : Laid(f) /\ Building(f)
BY DEF FlowInv

LEMMA Extended ==
  ASSUME TypeInv, NEW f, Laid(f), NEW n \in Nat, n >= Len(blocks), NEW to, NEW also
  PROVE  \E g : Extends(f, g, n, to, also, Here)
<1>1. Len(blocks) \in Nat /\ Here \in Nat /\ f \in [1 .. Len(blocks) -> Nat]
  BY BlockTypes DEF Laid
<1>2. QED
  BY <1>1, Extension

(* A token that is compiled in line, or ends the block. *)
LEMMA InlineFlow ==
  ASSUME TypeInv, FlowInv, phase = "compile", phase' = phase,
         NEW t \in {<<"op">>, <<"return">>}, Compiled(t),
         NEW instr \in Instruction, instr.at = Here,
         instr.kind = IF t = <<"op">> THEN "op" ELSE "ret",
         blocks' = Emit(blocks, insertBlock, instr),
         UNCHANGED <<insertBlock, open, labels, gotos>>
  PROVE  FlowInv'
<1>1. t \in Token /\ t[1] \notin Closing /\ t[1] \notin Unique
  BY DEF Token, Closing, Unique
<1>2. SourceOK
  BY Building0
<1>3. PICK f : Laid(f) /\ Building(f)
  BY Building0
<1>4. /\ Len(blocks') = Len(blocks) /\ Len(blocks) \in Nat /\ insertBlock \in 1 .. Len(blocks)
      /\ blocks'[insertBlock] = Append(blocks[insertBlock], instr)
      /\ Len(blocks'[insertBlock]) = Len(blocks[insertBlock]) + 1
      /\ \A b \in 1 .. Len(blocks) : b # insertBlock => blocks'[b] = blocks[b]
  <2>1. /\ blocks \in Seq(Block) /\ Len(blocks) \in Nat /\ insertBlock \in 1 .. Len(blocks)
        /\ blocks[insertBlock] \in Block
    BY BlockTypes
  <2>2. /\ Len(blocks') = Len(blocks)
        /\ blocks'[insertBlock] = Append(blocks[insertBlock], instr)
        /\ \A b \in 1 .. Len(blocks) : b # insertBlock => blocks'[b] = blocks[b]
    BY <2>1, EmitProperties
  <2>3. Len(blocks'[insertBlock]) = Len(blocks[insertBlock]) + 1
    BY <2>1, <2>2, AppendedBlock
  <2>4. QED
    BY <2>1, <2>2, <2>3
<1>5. PICK g : Extends(f, g, Len(blocks'), insertBlock, 0, Here)
  <2>1. Len(blocks') \in Nat /\ Len(blocks') >= Len(blocks)
    BY <1>4
  <2>2. QED
    BY <1>3, <2>1, Extended
<1>6. Leads(source', open', g, instr)
  <2>1. source'[Here] = t /\ Here \in 1 .. Len(source')
    BY <1>1, TokenNow
  <2>2. QED
    BY <2>1 DEF Leads
<1>7. Written(g, insertBlock)
  BY <1>3, <1>4, <1>5, <1>6, EmitWritten DEF Extends
<1>8. \A b \in 1 .. Len(blocks') : b # insertBlock /\ b # 0 => blocks'[b] = OldBlock(b)
  BY <1>4, SameWritten
<1>9. /\ OpenFrom(Len(open)) /\ Len(open') # Len(open) + 1
      /\ EndsFound(source, open, open', t) /\ OpenKept(open, open', g, t, Here)
      /\ \A k \in 1 .. Len(open) : Foreign(t, open[k])
  BY <1>1, OpenSame
<1>10. 0 \notin 1 .. Len(blocks') /\ Fresh(f, 0)
  BY <1>3, <1>4 DEF Laid, Fresh
<1>11. NewApart(g, Len(open))
  BY <1>9 DEF NewApart
<1>12. \A k \in 1 .. Len(open) : ~Awaits(open[k], insertBlock) /\ ~Awaits(open[k], 0)
  BY <1>3, <1>4, <1>10, BlockTypes DEF Building, OpenApart
<1>13. \A i \in 1 .. Len(source) : t # <<"else", i>>
  OBVIOUS
<1>14. Laid(g)' /\ Building(g)'
  <2>1. /\ Len(blocks') \in Nat /\ Len(blocks') >= Len(blocks) /\ insertBlock \in 1 .. Len(blocks')
        /\ insertBlock' = insertBlock /\ labels' = labels /\ gotos' = gotos
    BY <1>4
  <2>2. QED
    BY <1>1, <1>2, <1>3, <1>4, <1>5, <1>7, <1>8, <1>9, <1>10, <1>12, <1>13, <1>11, <2>1, BlocksStep
<1>15. TokenOK(source', open', labels', gotos', Here)
  <2>1. source'[Here] = t
    BY <1>1, TokenNow
  <2>2. QED
    BY <2>1 DEF TokenOK
<1>16. SourceOK'
  BY <1>1, <1>2, <1>9, <1>15, SourceStep
<1>17. QED
  BY <1>14, <1>16 DEF FlowInv

LEMMA SimpleStatementFlow == TypeInv /\ FlowInv /\ SimpleStatement => FlowInv'
<1> SUFFICES ASSUME TypeInv, FlowInv, SimpleStatement PROVE FlowInv'
  OBVIOUS
<1>1. Op(Here) \in Instruction /\ Op(Here).kind = "op" /\ Op(Here).at = Here
  BY BlockTypes, InstructionTypes DEF Op
<1>2. QED
  BY <1>1, InlineFlow DEF SimpleStatement, Room

LEMMA ReturnStmtFlow == TypeInv /\ FlowInv /\ ReturnStmt => FlowInv'
<1> SUFFICES ASSUME TypeInv, FlowInv, ReturnStmt PROVE FlowInv'
  OBVIOUS
<1> DEFINE instr == Ret(routine.found, Here)
<1>1. instr \in Instruction /\ instr.kind = "ret" /\ instr.at = Here
  BY BlockTypes, InstructionTypes, FoundIsValue DEF Ret
<1>2. <<"return">> # <<"op">>
  OBVIOUS
<1>3. QED
  BY <1>1, <1>2, InlineFlow DEF ReturnStmt, Room

-----------------------------------------------------------------------------
(* Labels and gotos.                                                       *)

LEMMA EndedBlocks ==
  ASSUME NEW bs \in Seq(Block), NEW b \in 1 .. Len(bs), NEW instr \in Instruction
  PROVE  /\ BrUnlessEnded(bs, b, instr) \in Seq(Block)
         /\ Len(BrUnlessEnded(bs, b, instr)) = Len(bs)
         /\ \/ BrUnlessEnded(bs, b, instr)[b] = bs[b]
            \/ BrUnlessEnded(bs, b, instr)[b] = Append(bs[b], instr)
         /\ \A c \in 1 .. Len(bs) : c # b => BrUnlessEnded(bs, b, instr)[c] = bs[c]
BY EmitProperties DEF BrUnlessEnded

LEMMA GrownBlocks ==
  ASSUME TypeInv, NEW n \in Nat
  PROVE  /\ Grow(blocks, n) \in Seq(Block) /\ Len(Grow(blocks, n)) = Len(blocks) + n
         /\ \A b \in 1 .. Len(blocks) + n : Grow(blocks, n)[b] = OldBlock(b)
<1>1. blocks \in Seq(Block) /\ Len(blocks) \in Nat
  BY BlockTypes
<1>2. /\ Grow(blocks, n) \in Seq(Block) /\ Len(Grow(blocks, n)) = Len(blocks) + n
      /\ \A b \in 1 .. Len(blocks) : Grow(blocks, n)[b] = blocks[b]
      /\ \A b \in Len(blocks) + 1 .. Len(blocks) + n : Grow(blocks, n)[b] = << >>
  BY <1>1, GrowProperties
<1>3. ASSUME NEW b \in 1 .. Len(blocks) + n PROVE Grow(blocks, n)[b] = OldBlock(b)
  <2>1. CASE b \in 1 .. Len(blocks)
    BY <1>2, <2>1 DEF OldBlock
  <2>2. CASE b \notin 1 .. Len(blocks)
    <3>1. b \in Len(blocks) + 1 .. Len(blocks) + n
      BY <1>1, <2>2
    <3>2. QED
      BY <1>2, <2>2, <3>1 DEF OldBlock
  <2>3. QED
    BY <2>1, <2>2
<1>4. QED
  BY <1>2, <1>3

(* A label and a goto: the Builder goes to a new block. *)
LEMMA JumpFlow ==
  ASSUME TypeInv, FlowInv, phase = "compile", phase' = phase,
         NEW l \in Labels, NEW t \in {<<"label", l>>, <<"goto", l>>}, Compiled(t),
         NEW to, to = Len(blocks) + 1, Len(blocks') = to, insertBlock' = to, open' = open,
         \A b \in 1 .. Len(blocks') : b # insertBlock => blocks'[b] = OldBlock(b),
         \/ blocks'[insertBlock] = blocks[insertBlock]
         \/ /\ t = <<"label", l>>
            /\ blocks'[insertBlock] = Append(blocks[insertBlock], Br(to, Here)),
         \/ /\ t = <<"label", l>> /\ l \notin DOMAIN labels
            /\ labels' = [m \in DOMAIN labels \cup {l} |-> IF m = l THEN to ELSE labels[m]]
            /\ gotos' = gotos
         \/ /\ t = <<"goto", l>> /\ labels' = labels
            /\ gotos' = gotos \cup {[label |-> l, block |-> insertBlock, at |-> Here]}
  PROVE  FlowInv'
<1>1. t \in Token /\ t[1] \notin Closing /\ t[1] \in {"label", "goto"} /\ t[2] = l
  BY DEF Token, Closing
<1>2. SourceOK
  BY Building0
<1>3. PICK f : Laid(f) /\ Building(f)
  BY Building0
<1>4. /\ Len(blocks) \in Nat /\ insertBlock \in 1 .. Len(blocks) /\ Here \in Nat
      /\ Len(blocks') \in Nat /\ Len(blocks') >= Len(blocks) /\ to \in 1 .. Len(blocks')
      /\ to # 0 /\ to \in Nat /\ to \notin 1 .. Len(blocks) /\ 0 \notin 1 .. Len(blocks')
      /\ 0 \notin 1 .. Len(blocks) /\ to # insertBlock
  BY BlockTypes
<1>5. DOMAIN f = 1 .. Len(blocks)
  BY <1>3 DEF Laid
<1>6. PICK g : Extends(f, g, Len(blocks'), to, 0, Here)
  BY <1>3, <1>4, Extended
<1>7. Fresh(f, to) /\ Fresh(f, 0)
  BY <1>4, <1>5 DEF Fresh
<1>8. Keeps(f, g) /\ g[to] = Here + 1
  BY <1>4, <1>6, <1>7 DEF Extends
<1>9. source'[Here] = t /\ Here \in 1 .. Len(source')
  BY <1>1, TokenNow
<1>10. Written(g, insertBlock)
  <2>1. CASE blocks'[insertBlock] = blocks[insertBlock]
    BY <1>4, <2>1, SameWritten
  <2>2. CASE /\ t = <<"label", l>>
             /\ blocks'[insertBlock] = Append(blocks[insertBlock], Br(to, Here))
    <3>1. /\ Br(to, Here) \in Instruction /\ Br(to, Here).kind = "br" /\ Br(to, Here).at = Here
          /\ Br(to, Here).to = to
      BY <1>4, InstructionTypes DEF Br
    <3>2. BrLeads(source', open', g, Here, to)
      BY <1>8, <1>9, <2>2 DEF BrLeads
    <3>3. Leads(source', open', g, Br(to, Here))
      BY <1>9, <3>1, <3>2 DEF Leads
    <3>4. QED
      BY <1>3, <1>8, <2>2, <3>1, <3>3, EmitWritten
  <2>3. QED
    BY <2>1, <2>2
<1>11. /\ OpenFrom(Len(open)) /\ Len(open') # Len(open) + 1
       /\ EndsFound(source, open, open', t) /\ OpenKept(open, open', g, t, Here)
       /\ \A k \in 1 .. Len(open) : Foreign(t, open[k])
  BY <1>1, OpenSame
<1>12. NewApart(g, Len(open))
  BY <1>11 DEF NewApart
<1>13. \A k \in 1 .. Len(open) : ~Awaits(open[k], to) /\ ~Awaits(open[k], 0)
  BY <1>4, BlockTypes
<1>14. \A i \in 1 .. Len(source) : t # <<"else", i>>
  OBVIOUS
<1>15. \/ labels' = labels
       \/ \E m \in Labels : t = <<"label", m>> /\ DOMAIN labels' = DOMAIN labels \cup {m}
            /\ labels'[m] = to /\ Fresh(f, to) /\ \A n \in DOMAIN labels : labels'[n] = labels[n]
  BY <1>7
<1>16. \/ gotos' = gotos
       \/ \E m \in Labels :
            /\ gotos' = gotos \cup {[label |-> m, block |-> insertBlock, at |-> Here]}
            /\ t = <<"goto", m>> /\ Fresh(f, to) /\ blocks'[insertBlock] = blocks[insertBlock]
  <2>1. t = <<"goto", l>> => t # <<"label", l>>
    OBVIOUS
  <2>2. QED
    BY <1>7, <2>1
<1>17. Laid(g)' /\ Building(g)'
  <2>1. Fresh(f, to) /\ to # 0
    BY <1>4, <1>7
  <2>2. QED
    BY <1>1, <1>2, <1>3, <1>4, <1>6, <1>7, <1>10, <1>11, <1>13, <1>14, <1>15, <1>16, <1>12, <2>1, BlocksStep
<1>18. DOMAIN labels \subseteq DOMAIN labels' /\ gotos \subseteq gotos'
  OBVIOUS
<1>19. TokenOK(source', open', labels', gotos', Here)
  <2>1. t[1] = "label" => l \in DOMAIN labels'
    <3>1. t = <<"goto", l>> => t[1] # "label"
      OBVIOUS
    <3>2. QED
      BY <3>1
  <2>2. t[1] = "goto" => \E h \in gotos' : h.label = l
    <3> DEFINE h == [label |-> l, block |-> insertBlock, at |-> Here]
    <3>1. t = <<"label", l>> => t[1] # "goto"
      OBVIOUS
    <3>2. h.label = l /\ (t = <<"goto", l>> => h \in gotos')
      OBVIOUS
    <3> HIDE DEF h
    <3>3. QED
      BY <3>1, <3>2
  <2>3. QED
    BY <1>1, <1>9, <2>1, <2>2 DEF TokenOK
<1>20. t[1] \in Unique => ~HasToken(source, t)
  <2> SUFFICES ASSUME t[1] \in Unique, HasToken(source, t) PROVE FALSE
    OBVIOUS
  <2>1. t = <<"label", l>> /\ l \notin DOMAIN labels
    BY <1>1 DEF Unique
  <2>2. PICK j \in 1 .. Len(source) : source[j] = t
    BY DEF HasToken
  <2>3. TokenOK(source, open, labels, gotos, j)
    BY <1>2 DEF SourceOK
  <2>4. QED
    BY <2>1, <2>2, <2>3 DEF TokenOK
<1>21. SourceOK'
  BY <1>1, <1>2, <1>11, <1>18, <1>19, <1>20, SourceStep
<1>22. QED
  BY <1>17, <1>21 DEF FlowInv

LEMMA PlaceLabelFlow ==
  ASSUME TypeInv, FlowInv, NEW l \in Labels, PlaceLabel(l)
  PROVE  FlowInv'
<1> DEFINE to == Len(blocks) + 1
           grown == Grow(blocks, 1)
<1>1. /\ Len(blocks) \in Nat /\ insertBlock \in 1 .. Len(blocks) /\ Here \in Nat
      /\ blocks[insertBlock] \in Block
  BY BlockTypes
<1>2. /\ grown \in Seq(Block) /\ Len(grown) = to
      /\ \A b \in 1 .. to : grown[b] = OldBlock(b)
  BY <1>1, GrownBlocks
<1>3. Br(to, Here) \in Instruction
  BY <1>1, InstructionTypes
<1>4. insertBlock \in 1 .. Len(grown) /\ grown[insertBlock] = blocks[insertBlock]
  BY <1>1, <1>2 DEF OldBlock
<1>5. blocks' = BrUnlessEnded(grown, insertBlock, Br(to, Here))
  BY DEF PlaceLabel, NewBlock
<1>6. /\ Len(blocks') = to
      /\ \/ blocks'[insertBlock] = blocks[insertBlock]
         \/ blocks'[insertBlock] = Append(blocks[insertBlock], Br(to, Here))
      /\ \A b \in 1 .. to : b # insertBlock => blocks'[b] = OldBlock(b)
  <2> HIDE DEF grown, to
  <2>1. /\ Len(blocks') = Len(grown)
        /\ blocks'[insertBlock] = grown[insertBlock]
             \/ blocks'[insertBlock] = Append(grown[insertBlock], Br(to, Here))
        /\ \A b \in 1 .. Len(grown) : b # insertBlock => blocks'[b] = grown[b]
    BY <1>2, <1>3, <1>4, <1>5, EndedBlocks
  <2>2. QED
    BY <1>2, <1>4, <2>1
<1>7. /\ phase = "compile" /\ phase' = phase /\ Compiled(<<"label", l>>) /\ insertBlock' = to
      /\ open' = open /\ l \notin DOMAIN labels /\ gotos' = gotos
      /\ labels' = [m \in DOMAIN labels \cup {l} |-> IF m = l THEN to ELSE labels[m]]
  BY DEF PlaceLabel, Room, NewBlock
<1> HIDE DEF to
<1>8. to = Len(blocks) + 1
  BY DEF to
<1>9. QED
  BY <1>6, <1>7, <1>8, JumpFlow

LEMMA GoToFlow ==
  ASSUME TypeInv, FlowInv, NEW l \in Labels, GoTo(l)
  PROVE  FlowInv'
<1> DEFINE to == Len(blocks) + 1
<1>1. Len(blocks) \in Nat /\ insertBlock \in 1 .. Len(blocks)
  BY BlockTypes
<1>2. blocks' = Grow(blocks, 1)
  BY DEF GoTo
<1>3. /\ Len(blocks') = to /\ \A b \in 1 .. to : blocks'[b] = OldBlock(b)
  BY <1>1, <1>2, GrownBlocks
<1>4. blocks'[insertBlock] = blocks[insertBlock]
  BY <1>1, <1>3 DEF OldBlock
<1>5. /\ phase = "compile" /\ phase' = phase /\ Compiled(<<"goto", l>>) /\ insertBlock' = to
      /\ open' = open /\ labels' = labels
      /\ gotos' = gotos \cup {[label |-> l, block |-> insertBlock, at |-> Here]}
  BY DEF GoTo, Room, NewBlock
<1> HIDE DEF to
<1>6. to = Len(blocks) + 1
  BY DEF to
<1>7. QED
  BY <1>3, <1>4, <1>5, <1>6, JumpFlow

-----------------------------------------------------------------------------
(* If and while: three blocks more.                                        *)

(* A statement is opened: three blocks more. *)
LEMMA OpenedFlow ==
  ASSUME TypeInv, FlowInv, phase = "compile", phase' = phase,
         NEW t \in {<<"if">>, <<"while">>}, Compiled(t), NEW f, Laid(f), Building(f),
         NEW n, n = Len(blocks), Len(blocks') = n + 3,
         NEW to \in {n + 1, n + 3}, NEW also \in {0, n + 1}, to # also, NEW g,
         Extends(f, g, n + 3, to, also, Here), insertBlock' = to,
         \A b \in 1 .. n + 3 : b # insertBlock /\ b # also => blocks'[b] = OldBlock(b),
         Written(g, insertBlock), also = n + 1 => Written(g, also),
         NEW s \in Statement, open' = Append(open, s), s.token = Here,
         s.part = IF t = <<"if">> THEN "then" ELSE "body",
         \A b : Awaits(s, b) => b \in {n + 2, n + 3} /\ b # to,
         s.part = "then" => s.else # s.after,
         s.part = "body" => s.loop = also /\ also = n + 1,
         labels' = labels, gotos' = gotos
  PROVE  FlowInv'
<1>1. t \in Token /\ t[1] \notin Closing /\ t[1] \in {"if", "while"} /\ t[1] \notin Unique
  BY DEF Token, Closing, Unique
<1>2. SourceOK
  BY Building0
<1>3. /\ n \in Nat /\ insertBlock \in 1 .. n /\ Here \in Nat /\ Here # 0
      /\ Len(blocks') \in Nat /\ Len(blocks') >= Len(blocks) /\ to \in 1 .. n + 3
      /\ to \notin 1 .. n /\ also \notin 1 .. n /\ n + 2 \notin 1 .. n /\ n + 3 \notin 1 .. n
      /\ n + 2 # also /\ n + 3 # also /\ n + 2 \in 1 .. n + 3 /\ n + 3 \in 1 .. n + 3
      /\ 0 \notin 1 .. n + 3
  BY BlockTypes
<1>4. DOMAIN f = 1 .. n
  BY DEF Laid
<1>5. Fresh(f, to) /\ Fresh(f, also) /\ Fresh(f, n + 2) /\ Fresh(f, n + 3)
  BY <1>3, <1>4 DEF Fresh
<1>6. ASSUME NEW b, Awaits(s, b)
      PROVE  g[b] = 0 /\ \A k \in 1 .. Len(open) : ~Awaits(open[k], b)
  <2>1. b \in {n + 2, n + 3} /\ b # to
    BY <1>6
  <2>2. Fresh(f, b) /\ b # also /\ b \in 1 .. n + 3
    BY <1>3, <1>5, <2>1
  <2>3. g[b] = 0
    BY <2>1, <2>2 DEF Extends
  <2>4. b \notin 1 .. n
    BY <1>3, <2>1
  <2>5. QED
    BY <2>3, <2>4, BlockTypes
<1>7. /\ OpenFrom(Len(open)) /\ Len(open') = Len(open) + 1 /\ open'[Len(open) + 1] = s
      /\ EndsFound(source, open, open', t) /\ OpenKept(open, open', g, t, Here)
      /\ \A k \in 1 .. Len(open) : Foreign(t, open[k])
  BY <1>1, OpenPushed
<1>8. s.part = "body" => g[s.loop] = s.token
  <2> SUFFICES ASSUME s.part = "body" PROVE g[s.loop] = s.token
    OBVIOUS
  <2>1. s.loop = also /\ also \in 1 .. n + 3 /\ also # to
    BY <1>3
  <2>2. g[also] = Here
    BY <1>5, <2>1 DEF Extends
  <2>3. QED
    BY <2>1, <2>2
<1>9. \A k \in 1 .. Len(open) : ~Awaits(open[k], to) /\ ~Awaits(open[k], also)
  BY <1>3, BlockTypes
<1>10. \A i \in 1 .. Len(source) : t # <<"else", i>>
  OBVIOUS
<1>11. Laid(g)' /\ Building(g)'
  <2>1. Fresh(f, to) /\ to # also /\ to \in 1 .. Len(blocks') /\ Extends(f, g, Len(blocks'), to, also, Here)
    BY <1>3, <1>5
  <2>2. also \in 1 .. Len(blocks') => Written(g, also)
    BY <1>3
  <2>3. \A b \in 1 .. Len(blocks') : b # insertBlock /\ b # also => blocks'[b] = OldBlock(b)
    OBVIOUS
  <2>4. NewApart(g, Len(open))
    BY <1>6, <1>7, <1>8 DEF NewApart
  <2>5. QED
    BY <1>1, <1>2, <1>3, <1>5, <1>7, <1>9, <1>10, <2>1, <2>2, <2>3, <2>4, BlocksStep
<1>12. /\ source'[Here] = t /\ Here \in 1 .. Len(source') /\ Here \notin 1 .. Len(source)
       /\ \A x : HasToken(source', x) <=> HasToken(source, x) \/ x = t
       /\ source \in Seq(Token)
  BY <1>1, TokenNow
<1>13. TokenOK(source', open', labels', gotos', Here)
  <2>1. Len(open) + 1 \in 1 .. Len(open') /\ open'[Len(open) + 1].token = Here
    BY <1>7, BlockTypes
  <2>2. QED
    BY <1>1, <1>12, <2>1 DEF TokenOK
<1>14. ASSUME NEW x \in {"else", "endif", "endwhile"} PROVE ~HasToken(source, <<x, Here>>)
  <2> SUFFICES ASSUME NEW j \in 1 .. Len(source), source[j] = <<x, Here>> PROVE FALSE
    BY DEF HasToken
  <2>1. TokenOK(source, open, labels, gotos, j)
    BY <1>2 DEF SourceOK
  <2>2. source[j][1] = x /\ source[j][2] = Here
    OBVIOUS
  <2>3. QED
    BY <1>12, <2>1, <2>2 DEF TokenOK
<1>15. OpenOK(source', s)
  <2>1. \A x \in {"else", "endif", "endwhile"} : t # <<x, Here>>
    OBVIOUS
  <2>2. \A x \in {"else", "endif", "endwhile"} : ~HasToken(source', <<x, Here>>)
    BY <1>12, <1>14, <2>1
  <2>3. source'[s.token] = IF s.part = "body" THEN <<"while">> ELSE <<"if">>
    BY <1>12
  <2>4. QED
    BY <1>12, <2>2, <2>3 DEF OpenOK
<1>16. \A k \in 1 .. Len(open) : open[k].token # Here
  <2>1. \A k \in 1 .. Len(open) : OpenOK(source, open[k])
    BY <1>2 DEF SourceOK
  <2>2. QED
    BY <1>12, <2>1 DEF OpenOK
<1>17. SourceOK'
  BY <1>1, <1>2, <1>7, <1>13, <1>15, <1>16, SourceStep
<1>18. QED
  BY <1>11, <1>17 DEF FlowInv

LEMMA IfFlow == TypeInv /\ FlowInv /\ If => FlowInv'
<1> SUFFICES ASSUME TypeInv, FlowInv, If PROVE FlowInv'
  OBVIOUS
<1> DEFINE n == Len(blocks)
           grown == Grow(blocks, 3)
           branch == CondBr(n + 1, n + 3, Here)
           s == [part |-> "then", token |-> Here, else |-> n + 3, after |-> n + 2]
<1>1. /\ n \in Nat /\ insertBlock \in 1 .. n /\ Here \in Nat /\ blocks[insertBlock] \in Block
      /\ 0 \notin 1 .. n + 3 /\ n + 1 \in Nat /\ n + 3 \in Nat /\ n + 1 \in 1 .. n + 3
      /\ n + 3 >= Len(blocks) /\ n + 1 \notin 1 .. n /\ n + 1 # 0
  BY BlockTypes
<1>2. PICK f : Laid(f) /\ Building(f)
  BY Building0 DEF If, Room
<1>3. PICK g : Extends(f, g, n + 3, n + 1, 0, Here)
  BY <1>1, <1>2, Extended
<1>4. /\ blocks' = Emit(grown, insertBlock, branch) /\ insertBlock' = n + 1
      /\ open' = Append(open, s) /\ Compiled(<<"if">>) /\ phase = "compile" /\ phase' = phase
      /\ labels' = labels /\ gotos' = gotos
  BY DEF If, Room, NewBlock
<1>5. /\ branch \in Instruction /\ branch.kind = "condbr" /\ branch.at = Here
      /\ branch.to = n + 1 /\ branch.else = n + 3
  BY <1>1, InstructionTypes DEF CondBr
<1>6. /\ grown \in Seq(Block) /\ Len(grown) = n + 3
      /\ \A b \in 1 .. n + 3 : grown[b] = OldBlock(b)
  BY <1>1, GrownBlocks
<1>7. insertBlock \in 1 .. n + 3 /\ grown[insertBlock] = blocks[insertBlock]
  BY <1>1, <1>6 DEF OldBlock
<1>8. /\ Len(blocks') = n + 3
      /\ blocks'[insertBlock] = Append(blocks[insertBlock], branch)
      /\ \A b \in 1 .. n + 3 : b # insertBlock => blocks'[b] = OldBlock(b)
  <2> HIDE DEF grown, branch, n
  <2>1. /\ Len(blocks') = Len(grown)
        /\ blocks'[insertBlock] = Append(grown[insertBlock], branch)
        /\ \A b \in 1 .. Len(grown) : b # insertBlock => blocks'[b] = grown[b]
    BY <1>4, <1>5, <1>6, <1>7, EmitProperties
  <2>2. QED
    BY <1>6, <1>7, <2>1
<1>9. s \in Statement /\ s.token = Here /\ s.part = "then" /\ s.else = n + 3 /\ s.after = n + 2
  BY <1>1 DEF Statement
<1>10. /\ <<"if">> \in Token /\ source'[Here] = <<"if">> /\ Here \in 1 .. Len(source')
  <2>1. <<"if">> \in Token
    BY DEF Token
  <2>2. QED
    BY <1>4, <2>1, TokenNow
<1>11. Written(g, insertBlock)
  <2>1. g[n + 1] = Here + 1 /\ Keeps(f, g)
    <3>1. Fresh(f, n + 1)
      BY <1>1, <1>2 DEF Fresh, Laid
    <3>2. QED
      BY <1>1, <1>3, <3>1 DEF Extends
  <2>2. StillOpen(open', "then", Here, n + 3)
    <3>1. Len(open) + 1 \in 1 .. Len(open') /\ open'[Len(open) + 1] = s
      BY <1>4, <1>9, BlockTypes
    <3>2. Target(s) = n + 3
      BY <1>9 DEF Target
    <3> HIDE DEF s
    <3>3. QED
      BY <1>9, <3>1, <3>2 DEF StillOpen
  <2>3. Leads(source', open', g, branch)
    <3>1. ElseLeads(source', open', g, Here, n + 3)
      BY <1>10, <2>2 DEF ElseLeads
    <3> HIDE DEF branch
    <3>2. QED
      BY <1>5, <1>10, <2>1, <3>1 DEF Leads
  <2>4. QED
    BY <1>2, <1>5, <1>8, <2>1, <2>3, EmitWritten
<1>12. /\ \A b : Awaits(s, b) => b \in {n + 2, n + 3} /\ b # n + 1
       /\ s.else # s.after /\ s.part # "body"
  BY <1>1, <1>9 DEF Awaits
<1>13. /\ n + 1 \in {n + 1, n + 3} /\ 0 \in {0, n + 1} /\ n + 1 # 0 /\ 0 # n + 1
       /\ n = Len(blocks)
  BY <1>1
<1> HIDE DEF n, s, branch, grown
<1>14. QED
  BY <1>2, <1>3, <1>4, <1>8, <1>9, <1>11, <1>12, <1>13, OpenedFlow

LEMMA WhileFlow == TypeInv /\ FlowInv /\ While => FlowInv'
<1> SUFFICES ASSUME TypeInv, FlowInv, While PROVE FlowInv'
  OBVIOUS
<1> DEFINE n == Len(blocks)
           grown == Grow(blocks, 3)
           enter == Br(n + 1, Here)
           entered == Emit(grown, insertBlock, enter)
           branch == CondBr(n + 3, n + 2, Here)
           s == [part |-> "body", token |-> Here, loop |-> n + 1, after |-> n + 2]
<1>1. /\ n \in Nat /\ insertBlock \in 1 .. n /\ Here \in Nat /\ blocks[insertBlock] \in Block
      /\ n + 1 \in Nat /\ n + 2 \in Nat /\ n + 3 \in Nat /\ n + 1 \in 1 .. n + 3
      /\ n + 3 >= Len(blocks) /\ n + 1 \notin 1 .. n /\ n + 3 \notin 1 .. n /\ n + 3 # 0
      /\ n + 3 \in 1 .. n + 3 /\ n + 1 # insertBlock /\ n + 1 # n + 3 /\ n + 2 # n + 3
      /\ Here # 0
  BY BlockTypes
<1>2. PICK f : Laid(f) /\ Building(f)
  BY Building0 DEF While, Room
<1>3. PICK g : Extends(f, g, n + 3, n + 3, n + 1, Here)
  BY <1>1, <1>2, Extended
<1>4. /\ blocks' = Emit(entered, n + 1, branch) /\ insertBlock' = n + 3
      /\ open' = Append(open, s) /\ Compiled(<<"while">>) /\ phase = "compile" /\ phase' = phase
      /\ labels' = labels /\ gotos' = gotos
  BY DEF While, Room, NewBlock
<1>5. /\ branch \in Instruction /\ branch.kind = "condbr" /\ branch.at = Here
      /\ branch.to = n + 3 /\ branch.else = n + 2
      /\ enter \in Instruction /\ enter.kind = "br" /\ enter.at = Here /\ enter.to = n + 1
  BY <1>1, InstructionTypes DEF CondBr, Br
<1>6. /\ grown \in Seq(Block) /\ Len(grown) = n + 3
      /\ \A b \in 1 .. n + 3 : grown[b] = OldBlock(b)
  BY <1>1, GrownBlocks
<1>7. /\ insertBlock \in 1 .. n + 3 /\ grown[insertBlock] = blocks[insertBlock]
      /\ OldBlock(n + 1) = << >>
  BY <1>1, <1>6 DEF OldBlock
<1>8. /\ Len(blocks') = n + 3
      /\ blocks'[insertBlock] = Append(blocks[insertBlock], enter)
      /\ blocks'[n + 1] = Append(OldBlock(n + 1), branch)
      /\ \A b \in 1 .. n + 3 : b # insertBlock /\ b # n + 1 => blocks'[b] = OldBlock(b)
  <2>1. /\ entered \in Seq(Block) /\ Len(entered) = n + 3
        /\ entered[insertBlock] = Append(blocks[insertBlock], enter)
        /\ \A b \in 1 .. n + 3 : b # insertBlock => entered[b] = OldBlock(b)
    <3>1. entered = Emit(grown, insertBlock, enter) /\ insertBlock \in 1 .. Len(grown)
      BY <1>6, <1>7
    <3> HIDE DEF grown, enter, n, entered
    <3>2. /\ entered \in Seq(Block) /\ Len(entered) = Len(grown)
          /\ entered[insertBlock] = Append(grown[insertBlock], enter)
          /\ \A b \in 1 .. Len(grown) : b # insertBlock => entered[b] = grown[b]
      BY <1>5, <1>6, <3>1, EmitProperties
    <3>3. QED
      BY <1>6, <1>7, <3>2
  <2> HIDE DEF entered, enter, branch
  <2>2. n + 1 \in 1 .. Len(entered)
    BY <1>1, <2>1
  <2>3. /\ Len(blocks') = Len(entered)
        /\ blocks'[n + 1] = Append(entered[n + 1], branch)
        /\ \A b \in 1 .. Len(entered) : b # n + 1 => blocks'[b] = entered[b]
    <3> DEFINE m == n + 1
    <3> HIDE DEF m
    <3>1. m \in 1 .. Len(entered) /\ blocks' = Emit(entered, m, branch)
      BY <1>4, <2>2 DEF m
    <3>2. /\ Len(blocks') = Len(entered)
          /\ blocks'[m] = Append(entered[m], branch)
          /\ \A b \in 1 .. Len(entered) : b # m => blocks'[b] = entered[b]
      BY <1>5, <2>1, <3>1, EmitProperties
    <3>3. QED
      BY <3>2 DEF m
  <2>4. QED
    BY <1>1, <1>7, <2>1, <2>3
<1>9. s \in Statement /\ s.token = Here /\ s.part = "body" /\ s.loop = n + 1 /\ s.after = n + 2
  BY <1>1 DEF Statement
<1>10. /\ <<"while">> \in Token /\ source'[Here] = <<"while">> /\ Here \in 1 .. Len(source')
  <2>1. <<"while">> \in Token
    BY DEF Token
  <2>2. QED
    BY <1>4, <2>1, TokenNow
<1>11. g[n + 3] = Here + 1 /\ g[n + 1] = Here /\ Keeps(f, g)
  <2>1. Fresh(f, n + 1) /\ Fresh(f, n + 3)
    BY <1>1, <1>2 DEF Fresh, Laid
  <2>2. QED
    BY <1>1, <1>3, <2>1 DEF Extends
<1>12. Written(g, insertBlock)
  <2>1. BrLeads(source', open', g, Here, n + 1)
    BY <1>10, <1>11 DEF BrLeads
  <2>2. Leads(source', open', g, enter)
    <3> HIDE DEF enter
    <3>1. QED
      BY <1>5, <1>10, <2>1 DEF Leads
  <2>3. QED
    BY <1>2, <1>5, <1>8, <1>11, <2>2, EmitWritten
<1>13. Written(g, n + 1)
  <2>1. StillOpen(open', "body", Here, n + 2)
    <3>1. Len(open) + 1 \in 1 .. Len(open') /\ open'[Len(open) + 1] = s
      BY <1>4, <1>9, BlockTypes
    <3>2. Target(s) = n + 2
      BY <1>9 DEF Target
    <3> HIDE DEF s
    <3>3. QED
      BY <1>9, <3>1, <3>2 DEF StillOpen
  <2>2. ElseLeads(source', open', g, Here, n + 2)
    BY <1>10, <2>1 DEF ElseLeads
  <2>3. Leads(source', open', g, branch)
    <3> HIDE DEF branch
    <3>1. QED
      BY <1>5, <1>10, <1>11, <2>2 DEF Leads
  <2>4. Here = g[n + 1] + Len(OldBlock(n + 1))
    <3>1. Len(OldBlock(n + 1)) = 0
      BY <1>7
    <3>2. QED
      BY <1>1, <1>11, <3>1
  <2> HIDE DEF branch
  <2>5. QED
    BY <1>1, <1>5, <1>8, <1>11, <2>3, <2>4 DEF Written
<1>14. /\ \A b : Awaits(s, b) => b \in {n + 2, n + 3} /\ b # n + 3
       /\ s.part # "then"
  BY <1>1, <1>9 DEF Awaits
<1>15. /\ n + 3 \in {n + 1, n + 3} /\ n + 1 \in {0, n + 1} /\ n + 3 # n + 1
       /\ n = Len(blocks) /\ <<"while">> # <<"if">>
  BY <1>1
<1> HIDE DEF n, s, branch, grown, entered, enter
<1>16. s.part = IF <<"while">> = <<"if">> THEN "then" ELSE "body"
  BY <1>9, <1>15
<1>17. QED
  BY <1>2, <1>3, <1>4, <1>8, <1>9, <1>12, <1>13, <1>14, <1>15, <1>16, OpenedFlow

-----------------------------------------------------------------------------
(* The end of a part: else, end of an if, end of a while.                  *)

(* The part of the innermost statement ends. *)
LEMMA EndFlow ==
  ASSUME TypeInv, FlowInv, phase = "compile", phase' = phase, open # << >>,
         NEW x \in {"else", "endif", "endwhile"}, NEW t, t = <<x, Top.token>>, Compiled(t),
         NEW f, Laid(f), Building(f), NEW to, NEW also, NEW g,
         Extends(f, g, Len(blocks), to, also, Here),
         Len(blocks') = Len(blocks), insertBlock' = to, Awaits(Top, to), to # also,
         also = 0 \/ Awaits(Top, also),
         \A b \in 1 .. Len(blocks) : b # insertBlock /\ b # also => blocks'[b] = blocks[b],
         Written(g, insertBlock), also # 0 => Written(g, also), EndedBy(g, Top, t, Here),
         NEW e, e = [part |-> "else", token |-> Top.token, after |-> Top.after],
         IF x = "else"
         THEN /\ open' = Append(Outside, e)
              /\ Top.part = "then" /\ to = Top.else /\ also = 0
         ELSE open' = Outside /\ (x = "endwhile" <=> Top.part = "body"),
         labels' = labels, gotos' = gotos
  PROVE  FlowInv'
<1> DEFINE p == Len(open) - 1
<1>1. SourceOK
  BY Building0
<1>2. /\ Top \in Statement /\ Top.token \in Nat /\ StatementOK(Top, Len(blocks))
      /\ Outside \in Seq(Statement) /\ Len(open) \in Nat /\ Len(open) >= 1 /\ p \in Nat
      /\ Len(Outside) = p /\ \A k \in 1 .. p : Outside[k] = open[k]
      /\ Len(open) \in 1 .. Len(open) /\ p + 1 = Len(open) /\ p \in 0 .. Len(open)
      /\ \A k \in 1 .. p : k \in 1 .. Len(open) /\ k # Len(open)
      /\ \A k \in 1 .. Len(open) : k \in 1 .. p \/ k = Len(open)
      /\ Top = open[Len(open)]
  <2>1. /\ Top \in Statement /\ Top.token \in Nat /\ StatementOK(Top, Len(blocks))
        /\ Outside \in Seq(Statement) /\ Len(open) \in Nat /\ Len(open) >= 1
        /\ Len(Outside) = p /\ \A k \in 1 .. p : Outside[k] = open[k]
    BY OpenProperties
  <2>2. QED
    BY <2>1 DEF Top
<1>3. t \in Token /\ t[1] = x /\ t[2] = Top.token
  BY <1>2 DEF Token
<1>4. OpenOK(source, Top) /\ \A k \in 1 .. p : open[k].token # Top.token
  BY <1>1, <1>2 DEF SourceOK
<1>5. e \in Statement /\ e.part = "else" /\ e.token = Top.token /\ e.after = Top.after
  BY <1>2 DEF Statement, StatementOK
<1>6. /\ Len(open') \in {p, p + 1} /\ \A k \in 1 .. p : open'[k] = open[k] /\ k \in 1 .. Len(open')
      /\ x # "else" => Len(open') = p
      /\ x = "else" => Len(open') = p + 1 /\ open'[p + 1] = e
  <2>1. CASE x = "else"
    <3>1. open' = Append(Outside, e)
      BY <2>1
    <3> HIDE DEF p
    <3>2. QED
      BY <1>2, <1>5, <2>1, <3>1
  <2>2. CASE x # "else"
    <3>1. open' = Outside
      BY <2>2
    <3> HIDE DEF p
    <3>2. QED
      BY <1>2, <2>2, <3>1
  <2>3. QED
    BY <2>1, <2>2
<1> HIDE DEF p
<1>7. OpenFrom(p)
  BY <1>2, <1>6 DEF OpenFrom
<1>8. OpenKept(open, open', g, t, Here)
  BY <1>2, <1>6 DEF OpenKept
<1>9. EndsFound(source, open, open', t)
  <2>1. x = "else" => p + 1 \in 1 .. Len(open') /\ open'[p + 1].token = Top.token
    BY <1>2, <1>5, <1>6
  <2>2. x = "endif" => source[Top.token] = <<"if">>
    <3>1. x = "endif" => Top.part # "body"
      OBVIOUS
    <3>2. QED
      BY <1>4, <3>1 DEF OpenOK
  <2>3. x = "endwhile" => source[Top.token] = <<"while">>
    BY <1>4 DEF OpenOK
  <2>4. \/ \E m \in 1 .. Len(open') : open'[m].token = Top.token
        \/ source[Top.token] = <<"if">> /\ t = <<"endif", Top.token>>
        \/ source[Top.token] = <<"while">> /\ t = <<"endwhile", Top.token>>
    BY <2>1, <2>2, <2>3
  <2>5. QED
    BY <1>2, <1>6, <2>4 DEF EndsFound
<1>10. \A k \in 1 .. p : Foreign(t, open[k])
  BY <1>3, <1>4 DEF Foreign
<1>11. /\ OpenApart(f, open) /\ Len(blocks) \in Nat /\ insertBlock \in 1 .. Len(blocks)
       /\ DOMAIN f = 1 .. Len(blocks)
  BY BlockTypes DEF Building, Laid
<1>12. /\ to \in 1 .. Len(blocks) /\ Fresh(f, to)
       /\ also # 0 => also \in 1 .. Len(blocks) /\ Fresh(f, also)
       /\ \A k \in 1 .. p : ~Awaits(open[k], to)
       /\ also # 0 => \A k \in 1 .. p : ~Awaits(open[k], also)
  <2>1. ASSUME NEW b, Awaits(Top, b)
        PROVE  b \in 1 .. Len(blocks) /\ Fresh(f, b) /\ \A k \in 1 .. p : ~Awaits(open[k], b)
    <3>1. b \in 1 .. Len(blocks) /\ f[b] = 0
      BY <1>2, <1>11, <2>1, BlockTypes DEF OpenApart
    <3>2. \A k \in 1 .. p : ~Awaits(open[k], b)
      BY <1>2, <1>11, <2>1 DEF OpenApart
    <3>3. QED
      BY <3>1, <3>2 DEF Fresh
  <2>2. QED
    BY <2>1
<1>13. /\ 0 \notin 1 .. Len(blocks) /\ Fresh(f, 0) /\ \A k \in 1 .. p : ~Awaits(open[k], 0)
  <2>1. 0 \notin 1 .. Len(blocks)
    BY <1>11
  <2>2. \A k \in 1 .. p : ~Awaits(open[k], 0)
    BY <1>2, <2>1, BlockTypes
  <2>3. QED
    BY <1>11, <2>1, <2>2 DEF Fresh
<1>14. /\ Fresh(f, also) /\ \A k \in 1 .. p : ~Awaits(open[k], to) /\ ~Awaits(open[k], also)
       /\ also \in 1 .. Len(blocks') => Written(g, also)
  BY <1>12, <1>13
<1>15. NewApart(g, p)
  <2> SUFFICES ASSUME x = "else" PROVE NewApart(g, p)
    BY <1>2, <1>6 DEF NewApart
  <2>1. open'[p + 1] = e /\ to = Top.else /\ also = 0 /\ Top.part = "then"
    BY <1>6
  <2>2. /\ Awaits(Top, Top.after) /\ Top.after # to
    BY <1>2, <1>11, <2>1 DEF OpenApart, Awaits
  <2>3. Top.after \in 1 .. Len(blocks) /\ f[Top.after] = 0 /\ Top.after # 0
        /\ \A k \in 1 .. p : ~Awaits(open[k], Top.after)
    <3>1. Top.after \in 1 .. Len(blocks) /\ f[Top.after] = 0
      BY <1>2, <1>11, <2>2, BlockTypes DEF OpenApart
    <3>2. \A k \in 1 .. p : ~Awaits(open[k], Top.after)
      BY <1>2, <1>11, <2>2 DEF OpenApart
    <3>3. QED
      BY <1>13, <3>1, <3>2
  <2>4. g[Top.after] = 0
    BY <2>1, <2>2, <2>3 DEF Extends, Fresh
  <2>5. \A b : Awaits(e, b) => b = Top.after
    BY <1>5 DEF Awaits
  <2>6. QED
    BY <1>5, <2>1, <2>3, <2>4, <2>5 DEF NewApart
<1>16. \A i \in 1 .. Len(source) : t = <<"else", i>> => ~HasToken(source, <<"endif", i>>)
  <2>1. \A i : t = <<"else", i>> => i = Top.token
    OBVIOUS
  <2>2. ~HasToken(source, <<"endif", Top.token>>)
    BY <1>4 DEF OpenOK
  <2>3. QED
    BY <2>1, <2>2
<1>17. Laid(g)' /\ Building(g)'
  <2>1. /\ Len(blocks') \in Nat /\ Len(blocks') >= Len(blocks) /\ to \in 1 .. Len(blocks')
        /\ Extends(f, g, Len(blocks'), to, also, Here)
    BY <1>11, <1>12
  <2>2. \A b \in 1 .. Len(blocks') : b # insertBlock /\ b # also => blocks'[b] = OldBlock(b)
    BY SameWritten
  <2>3. Fresh(f, to) /\ to # also
    BY <1>12
  <2>4. QED
    BY <1>1, <1>3, <1>7, <1>8, <1>14, <1>15, <1>16, <2>1, <2>2, <2>3, BlocksStep
<1>18. /\ source'[Here] = t /\ Here \in 1 .. Len(source') /\ Len(source') = Here
       /\ \A y : HasToken(source', y) <=> HasToken(source, y) \/ y = t
       /\ \A i \in 1 .. Len(source) : source'[i] = source[i] /\ i \in 1 .. Len(source')
  <2>1. /\ source'[Here] = t /\ Here \in 1 .. Len(source') /\ Len(source') = Here
        /\ \A y : HasToken(source', y) <=> HasToken(source, y) \/ y = t
        /\ \A i \in 1 .. Len(source) : source'[i] = source[i]
        /\ Here = Len(source) + 1 /\ Len(source) \in Nat
    BY <1>3, TokenNow
  <2>2. QED
    BY <2>1
<1>19. Top.token \in 1 .. Len(source') /\ source'[Top.token] = source[Top.token]
  BY <1>4, <1>18 DEF OpenOK
<1>20. TokenOK(source', open', labels', gotos', Here)
  <2>1. x = "else" => source'[Top.token] = <<"if">>
    BY <1>4, <1>19 DEF OpenOK
  <2>2. QED
    BY <1>3, <1>18, <1>19, <2>1 DEF TokenOK
<1>21. ~HasToken(source, t)
  <2>1. x = "else" => Top.part = "then"
    OBVIOUS
  <2>2. QED
    BY <1>4, <2>1 DEF OpenOK
<1>22. x = "else" => OpenOK(source', e)
  <2> SUFFICES ASSUME x = "else" PROVE OpenOK(source', e)
    OBVIOUS
  <2>1. t # <<"endif", Top.token>> /\ t # <<"endwhile", Top.token>> /\ Top.part = "then"
    OBVIOUS
  <2>2. ~HasToken(source', <<"endif", Top.token>>) /\ ~HasToken(source', <<"endwhile", Top.token>>)
    BY <1>4, <1>18, <2>1 DEF OpenOK
  <2>3. source'[Top.token] = <<"if">>
    BY <1>4, <1>19, <2>1 DEF OpenOK
  <2>4. QED
    BY <1>5, <1>19, <2>2, <2>3 DEF OpenOK
<1>23. Len(open') = p + 1 =>
         OpenOK(source', open'[p + 1]) /\ \A k \in 1 .. p : open[k].token # open'[p + 1].token
  <2>1. Len(open') = p + 1 => x = "else" /\ open'[p + 1] = e
    BY <1>2, <1>6
  <2>2. QED
    BY <1>4, <1>5, <1>22, <2>1
<1>24. SourceOK'
  BY <1>1, <1>3, <1>7, <1>9, <1>10, <1>20, <1>21, <1>23, SourceStep
<1>25. QED
  BY <1>17, <1>24 DEF FlowInv

LEMMA BranchWritten ==
  ASSUME TypeInv, NEW f, Laid(f), Building(f), NEW g, Keeps(f, g), NEW b \in Nat,
         Here \in 1 .. Len(source'), BrLeads(source', open', g, Here, b),
         \/ blocks'[insertBlock] = blocks[insertBlock]
         \/ blocks'[insertBlock] = Append(blocks[insertBlock], Br(b, Here))
  PROVE  Written(g, insertBlock)
<1>1. CASE blocks'[insertBlock] = blocks[insertBlock]
  BY <1>1, BlockTypes, SameWritten
<1>2. CASE blocks'[insertBlock] = Append(blocks[insertBlock], Br(b, Here))
  <2>1. /\ Br(b, Here) \in Instruction /\ Br(b, Here).kind = "br" /\ Br(b, Here).at = Here
        /\ Br(b, Here).to = b
    BY BlockTypes, InstructionTypes DEF Br
  <2>2. Leads(source', open', g, Br(b, Here))
    BY <2>1 DEF Leads
  <2>3. QED
    BY <1>2, <2>1, <2>2, EmitWritten
<1>3. QED
  BY <1>1, <1>2

(* What ends the innermost statement's part starts from. *)
LEMMA EndStart ==
  ASSUME TypeInv, FlowInv, phase = "compile", open # << >>, NEW x \in {"else", "endif", "endwhile"},
         Compiled(<<x, Top.token>>), NEW to, Awaits(Top, to), NEW also,
         also = 0 \/ Awaits(Top, also), also # to
  PROVE  /\ source'[Here] = <<x, Top.token>> /\ Here \in 1 .. Len(source') /\ Here \in Nat
         /\ to \in 1 .. Len(blocks) /\ also # 0 => also \in 1 .. Len(blocks)
         /\ \E f, g : /\ Laid(f) /\ Building(f) /\ Extends(f, g, Len(blocks), to, also, Here)
                      /\ Keeps(f, g) /\ g[to] = Here + 1
                      /\ also # 0 => g[also] = Here /\ also # insertBlock /\ Len(blocks[also]) = 0
                      /\ Top.part = "body" => g[Top.loop] = Top.token
<1>1. /\ Top \in Statement /\ Top.token \in Nat /\ Len(open) \in 1 .. Len(open)
      /\ Top = open[Len(open)] /\ StatementOK(Top, Len(blocks))
  BY OpenProperties DEF Top
<1>2. <<x, Top.token>> \in Token
  BY <1>1 DEF Token
<1>3. source'[Here] = <<x, Top.token>> /\ Here \in 1 .. Len(source') /\ Here \in Nat
  BY <1>2, TokenNow
<1>4. PICK f : Laid(f) /\ Building(f)
  BY Building0
<1>5. Len(blocks) \in Nat /\ Len(blocks) >= Len(blocks)
  BY BlockTypes
<1>6. PICK g : Extends(f, g, Len(blocks), to, also, Here)
  BY <1>4, <1>5, Extended
<1>7. OpenApart(f, open) /\ DOMAIN f = 1 .. Len(blocks) /\ f[insertBlock] # 0
  BY <1>4 DEF Building, Laid
<1>8. ASSUME NEW b, Awaits(Top, b)
      PROVE  b \in 1 .. Len(blocks) /\ f[b] = 0 /\ Fresh(f, b)
  BY <1>1, <1>7, <1>8, BlockTypes DEF OpenApart, Fresh
<1>9. Keeps(f, g) /\ g[to] = Here + 1
  BY <1>6, <1>8 DEF Extends
<1>10. also # 0 => g[also] = Here /\ also # insertBlock /\ Len(blocks[also]) = 0
  BY <1>4, <1>6, <1>7, <1>8 DEF Extends, Laid
<1>11. Top.part = "body" => g[Top.loop] = Top.token
  <2> SUFFICES ASSUME Top.part = "body" PROVE g[Top.loop] = Top.token
    OBVIOUS
  <2>1. f[Top.loop] = Top.token
    BY <1>1, <1>7 DEF OpenApart
  <2>2. OpenOK(source, Top)
    BY <1>1, Building0 DEF SourceOK
  <2>3. Top.token # 0 /\ Top.loop \in DOMAIN f
    BY <1>1, <1>7, <2>2 DEF StatementOK, OpenOK
  <2>4. QED
    BY <1>9, <2>1, <2>3 DEF Keeps
<1>12. QED
  BY <1>3, <1>4, <1>6, <1>8, <1>9, <1>10, <1>11

LEMMA JoinedBlocks ==
  ASSUME TypeInv, NEW b \in Nat, NEW bs, bs = BrUnlessEnded(blocks, insertBlock, Br(b, Here))
  PROVE  /\ bs \in Seq(Block) /\ Len(bs) = Len(blocks)
         /\ \/ bs[insertBlock] = blocks[insertBlock]
            \/ bs[insertBlock] = Append(blocks[insertBlock], Br(b, Here))
         /\ \A c \in 1 .. Len(blocks) : c # insertBlock => bs[c] = blocks[c]
<1>1. /\ blocks \in Seq(Block) /\ insertBlock \in 1 .. Len(blocks)
      /\ Br(b, Here) \in Instruction
  BY BlockTypes, InstructionTypes
<1>2. QED
  BY <1>1, EndedBlocks

LEMMA EndElseFlow == TypeInv /\ FlowInv /\ EndElse => FlowInv'
<1> SUFFICES ASSUME TypeInv, FlowInv, EndElse PROVE FlowInv'
  OBVIOUS
<1> DEFINE to == Top.after
           e == [part |-> "else", token |-> Top.token, after |-> Top.after]
<1>1. /\ phase = "compile" /\ phase' = phase /\ open # << >> /\ Top.part = "else"
      /\ Compiled(<<"endif", Top.token>>) /\ open' = Outside /\ insertBlock' = to
      /\ blocks' = BrUnlessEnded(blocks, insertBlock, Br(to, Here))
      /\ labels' = labels /\ gotos' = gotos
  BY DEF EndElse
<1>2. Awaits(Top, to) /\ to \in 1 .. Len(blocks) /\ Len(blocks) \in Nat /\ to # 0 /\ to \in Nat
  BY <1>1, OpenProperties, BlockTypes DEF Awaits, StatementOK
<1> HIDE DEF to
<1>3. /\ source'[Here] = <<"endif", Top.token>> /\ Here \in 1 .. Len(source') /\ Here \in Nat
      /\ \E f, g : /\ Laid(f) /\ Building(f) /\ Extends(f, g, Len(blocks), to, 0, Here)
                   /\ Keeps(f, g) /\ g[to] = Here + 1
  BY <1>1, <1>2, EndStart
<1>4. PICK f, g : /\ Laid(f) /\ Building(f) /\ Extends(f, g, Len(blocks), to, 0, Here)
                  /\ Keeps(f, g) /\ g[to] = Here + 1
  BY <1>3
<1>5. /\ Len(blocks') = Len(blocks)
      /\ \/ blocks'[insertBlock] = blocks[insertBlock]
         \/ blocks'[insertBlock] = Append(blocks[insertBlock], Br(to, Here))
      /\ \A c \in 1 .. Len(blocks) : c # insertBlock => blocks'[c] = blocks[c]
  BY <1>1, <1>2, JoinedBlocks
<1>6. BrLeads(source', open', g, Here, to)
  BY <1>3, <1>4 DEF BrLeads
<1>7. Written(g, insertBlock)
  BY <1>2, <1>3, <1>4, <1>5, <1>6, BranchWritten
<1>8. EndedBy(g, Top, <<"endif", Top.token>>, Here)
  BY <1>1, <1>4 DEF EndedBy, to
<1>9. e = [part |-> "else", token |-> Top.token, after |-> Top.after]
  OBVIOUS
<1> HIDE DEF e
<1>10. QED
  BY <1>1, <1>2, <1>4, <1>5, <1>7, <1>8, <1>9, EndFlow

LEMMA EndWhileFlow == TypeInv /\ FlowInv /\ EndWhile => FlowInv'
<1> SUFFICES ASSUME TypeInv, FlowInv, EndWhile PROVE FlowInv'
  OBVIOUS
<1> DEFINE to == Top.after
           e == [part |-> "else", token |-> Top.token, after |-> Top.after]
<1>1. /\ phase = "compile" /\ phase' = phase /\ open # << >> /\ Top.part = "body"
      /\ Compiled(<<"endwhile", Top.token>>) /\ open' = Outside /\ insertBlock' = to
      /\ blocks' = BrUnlessEnded(blocks, insertBlock, Br(Top.loop, Here))
      /\ labels' = labels /\ gotos' = gotos
  BY DEF EndWhile
<1>2. /\ Awaits(Top, to) /\ to \in 1 .. Len(blocks) /\ Len(blocks) \in Nat /\ to # 0
      /\ Top.loop \in Nat
  BY <1>1, OpenProperties, BlockTypes DEF Awaits, StatementOK
<1> HIDE DEF to
<1>3. /\ source'[Here] = <<"endwhile", Top.token>> /\ Here \in 1 .. Len(source') /\ Here \in Nat
      /\ \E f, g : /\ Laid(f) /\ Building(f) /\ Extends(f, g, Len(blocks), to, 0, Here)
                   /\ Keeps(f, g) /\ g[to] = Here + 1
                   /\ Top.part = "body" => g[Top.loop] = Top.token
  BY <1>1, <1>2, EndStart
<1>4. PICK f, g : /\ Laid(f) /\ Building(f) /\ Extends(f, g, Len(blocks), to, 0, Here)
                  /\ Keeps(f, g) /\ g[to] = Here + 1 /\ g[Top.loop] = Top.token
  BY <1>1, <1>3
<1>5. /\ Len(blocks') = Len(blocks)
      /\ \/ blocks'[insertBlock] = blocks[insertBlock]
         \/ blocks'[insertBlock] = Append(blocks[insertBlock], Br(Top.loop, Here))
      /\ \A c \in 1 .. Len(blocks) : c # insertBlock => blocks'[c] = blocks[c]
  BY <1>1, <1>2, JoinedBlocks
<1>6. BrLeads(source', open', g, Here, Top.loop)
  BY <1>3, <1>4 DEF BrLeads
<1>7. Written(g, insertBlock)
  BY <1>2, <1>3, <1>4, <1>5, <1>6, BranchWritten
<1>8. EndedBy(g, Top, <<"endwhile", Top.token>>, Here)
  BY <1>1, <1>4 DEF EndedBy, to
<1>9. e = [part |-> "else", token |-> Top.token, after |-> Top.after]
  OBVIOUS
<1> HIDE DEF e
<1>10. QED
  BY <1>1, <1>2, <1>4, <1>5, <1>7, <1>8, <1>9, EndFlow

LEMMA EndThenElseFlow == TypeInv /\ FlowInv /\ EndThen(TRUE) => FlowInv'
<1> SUFFICES ASSUME TypeInv, FlowInv, EndThen(TRUE) PROVE FlowInv'
  OBVIOUS
<1> DEFINE to == Top.else
           after == Top.after
           e == [part |-> "else", token |-> Top.token, after |-> Top.after]
<1>1. /\ phase = "compile" /\ phase' = phase /\ open # << >> /\ Top.part = "then"
      /\ Compiled(<<"else", Top.token>>) /\ open' = Append(Outside, e) /\ insertBlock' = to
      /\ blocks' = BrUnlessEnded(blocks, insertBlock, Br(after, Here))
      /\ labels' = labels /\ gotos' = gotos
  BY DEF EndThen
<1>2. /\ Awaits(Top, to) /\ to \in 1 .. Len(blocks) /\ Len(blocks) \in Nat /\ to # 0
      /\ after \in Nat /\ Top.token \in Nat
  BY <1>1, OpenProperties, BlockTypes DEF Awaits, StatementOK
<1>3. e \in Statement /\ e.part = "else" /\ e.token = Top.token /\ Target(e) = after
  BY <1>2 DEF Statement, Target
<1>4. /\ Outside \in Seq(Statement) /\ Len(Outside) \in Nat
  BY <1>1, OpenProperties
<1>5. e = [part |-> "else", token |-> Top.token, after |-> Top.after]
  OBVIOUS
<1> HIDE DEF e
<1>6. StillOpen(open', "else", Top.token, after)
  <2>1. Len(Outside) + 1 \in 1 .. Len(open') /\ open'[Len(Outside) + 1] = e
    BY <1>1, <1>3, <1>4
  <2>2. QED
    BY <1>3, <2>1 DEF StillOpen
<1> HIDE DEF to, after
<1>7. /\ source'[Here] = <<"else", Top.token>> /\ Here \in 1 .. Len(source') /\ Here \in Nat
      /\ \E f, g : /\ Laid(f) /\ Building(f) /\ Extends(f, g, Len(blocks), to, 0, Here)
                   /\ Keeps(f, g) /\ g[to] = Here + 1
  BY <1>1, <1>2, EndStart
<1>8. PICK f, g : /\ Laid(f) /\ Building(f) /\ Extends(f, g, Len(blocks), to, 0, Here)
                  /\ Keeps(f, g) /\ g[to] = Here + 1
  BY <1>7
<1>9. /\ Len(blocks') = Len(blocks)
      /\ \/ blocks'[insertBlock] = blocks[insertBlock]
         \/ blocks'[insertBlock] = Append(blocks[insertBlock], Br(after, Here))
      /\ \A c \in 1 .. Len(blocks) : c # insertBlock => blocks'[c] = blocks[c]
  BY <1>1, <1>2, JoinedBlocks
<1>10. BrLeads(source', open', g, Here, after)
  BY <1>6, <1>7 DEF BrLeads
<1>11. Written(g, insertBlock)
  BY <1>2, <1>7, <1>8, <1>9, <1>10, BranchWritten
<1>12. EndedBy(g, Top, <<"else", Top.token>>, Here)
  BY <1>1, <1>8 DEF EndedBy, to
<1>13. to = Top.else
  BY DEF to
<1>14. QED
  BY <1>1, <1>2, <1>5, <1>8, <1>9, <1>11, <1>12, <1>13, EndFlow

LEMMA EndIfFlow == TypeInv /\ FlowInv /\ EndThen(FALSE) => FlowInv'
<1> SUFFICES ASSUME TypeInv, FlowInv, EndThen(FALSE) PROVE FlowInv'
  OBVIOUS
<1> DEFINE to == Top.after
           also == Top.else
           instr == Br(to, Here)
           ended == BrUnlessEnded(blocks, insertBlock, instr)
           e == [part |-> "else", token |-> Top.token, after |-> Top.after]
<1>1. /\ phase = "compile" /\ phase' = phase /\ open # << >> /\ Top.part = "then"
      /\ Compiled(<<"endif", Top.token>>) /\ open' = Outside /\ insertBlock' = to
      /\ blocks' = Emit(ended, also, instr)
      /\ labels' = labels /\ gotos' = gotos
  BY DEF EndThen
<1>2. /\ Awaits(Top, to) /\ to \in 1 .. Len(blocks) /\ Len(blocks) \in Nat /\ to # 0
      /\ to \in Nat /\ also \in 1 .. Len(blocks) /\ Awaits(Top, also) /\ also # 0
  BY <1>1, OpenProperties, BlockTypes DEF Awaits, StatementOK
<1>3. also # to
  <2>1. PICK f : Building(f)
    BY <1>1, Building0
  <2>2. Len(open) \in 1 .. Len(open) /\ Top = open[Len(open)]
    BY <1>1, OpenProperties DEF Top
  <2>3. QED
    BY <1>1, <2>1, <2>2 DEF Building, OpenApart
<1>4. e = [part |-> "else", token |-> Top.token, after |-> Top.after]
  OBVIOUS
<1>5. ended = BrUnlessEnded(blocks, insertBlock, Br(to, Here)) /\ instr = Br(to, Here)
  OBVIOUS
<1> HIDE DEF to, also, e, ended, instr
<1>6. /\ source'[Here] = <<"endif", Top.token>> /\ Here \in 1 .. Len(source') /\ Here \in Nat
      /\ \E f, g : /\ Laid(f) /\ Building(f) /\ Extends(f, g, Len(blocks), to, also, Here)
                   /\ Keeps(f, g) /\ g[to] = Here + 1
                   /\ also # 0 => g[also] = Here /\ also # insertBlock /\ Len(blocks[also]) = 0
  BY <1>1, <1>2, <1>3, EndStart
<1>7. PICK f, g : /\ Laid(f) /\ Building(f) /\ Extends(f, g, Len(blocks), to, also, Here)
                  /\ Keeps(f, g) /\ g[to] = Here + 1
                  /\ g[also] = Here /\ also # insertBlock /\ Len(blocks[also]) = 0
  BY <1>2, <1>6
<1>8. /\ instr \in Instruction /\ instr.kind = "br" /\ instr.at = Here /\ instr.to = to
  BY <1>2, <1>5, <1>6, InstructionTypes DEF Br
<1>9. /\ ended \in Seq(Block) /\ Len(ended) = Len(blocks)
      /\ \/ ended[insertBlock] = blocks[insertBlock]
         \/ ended[insertBlock] = Append(blocks[insertBlock], Br(to, Here))
      /\ \A c \in 1 .. Len(blocks) : c # insertBlock => ended[c] = blocks[c]
  BY <1>2, <1>5, JoinedBlocks
<1>10. /\ Len(blocks') = Len(blocks) /\ blocks'[also] = Append(blocks[also], instr)
       /\ \/ blocks'[insertBlock] = blocks[insertBlock]
          \/ blocks'[insertBlock] = Append(blocks[insertBlock], Br(to, Here))
       /\ \A c \in 1 .. Len(blocks) : c # insertBlock /\ c # also => blocks'[c] = blocks[c]
  <2>1. also \in 1 .. Len(ended)
    BY <1>2, <1>9
  <2>2. /\ Len(blocks') = Len(ended) /\ blocks'[also] = Append(ended[also], instr)
        /\ \A c \in 1 .. Len(ended) : c # also => blocks'[c] = ended[c]
    BY <1>1, <1>8, <1>9, <2>1, EmitProperties
  <2>3. insertBlock \in 1 .. Len(ended)
    BY <1>9, BlockTypes
  <2>4. QED
    BY <1>2, <1>7, <1>9, <2>2, <2>3
<1>11. BrLeads(source', open', g, Here, to)
  BY <1>6, <1>7 DEF BrLeads
<1>12. Written(g, insertBlock)
  BY <1>2, <1>6, <1>7, <1>10, <1>11, BranchWritten
<1>13. Written(g, also)
  <2>1. Leads(source', open', g, instr)
    BY <1>6, <1>8, <1>11 DEF Leads
  <2>2. OldBlock(also) = blocks[also] /\ g[also] # 0 /\ Here = g[also] + Len(OldBlock(also))
    BY <1>2, <1>6, <1>7 DEF OldBlock
  <2>3. QED
    BY <1>8, <1>10, <2>1, <2>2 DEF Written
<1>14. EndedBy(g, Top, <<"endif", Top.token>>, Here)
  BY <1>1, <1>7 DEF EndedBy, also
<1>15. QED
  BY <1>1, <1>2, <1>3, <1>4, <1>7, <1>10, <1>12, <1>13, <1>14, EndFlow

-----------------------------------------------------------------------------
(* The end of the routine, and every step.                                 *)

(* The branch of a goto is the last instruction of the block it left.      *)
LEMMA PatchedAt ==
  ASSUME NEW bs \in Seq(Block), NEW b \in 1 .. Len(bs)
  PROVE  \/ Patched(bs)[b] = bs[b]
         \/ \E h \in gotos : h.block = b /\ Patched(bs)[b] = Append(bs[b], Br(labels[h.label], h.at))
<1> DEFINE at == { h \in gotos : h.block = b }
           h == CHOOSE i \in at : TRUE
<1>1. DOMAIN bs = 1 .. Len(bs)
  OBVIOUS
<1>2. Patched(bs)[b] = IF at = {} THEN bs[b] ELSE Append(bs[b], Br(labels[h.label], h.at))
  BY <1>1 DEF Patched
<1>3. CASE at = {}
  BY <1>2, <1>3
<1>4. CASE at # {}
  <2>1. h \in at
    BY <1>4
  <2>2. h \in gotos /\ h.block = b
    BY <2>1
  <2> HIDE DEF at, h
  <2>3. QED
    BY <1>2, <1>4, <2>2
<1>5. QED
  BY <1>3, <1>4

(* The end of the routine: what was missing leads where it should. *)
LEMMA EndRoutineFlow == TypeInv /\ FlowInv /\ EndRoutine => FlowInv'
<1> SUFFICES ASSUME TypeInv, FlowInv, EndRoutine PROVE FlowInv'
  OBVIOUS
<1> DEFINE ended == WithEpilogue
<1>1. /\ phase = "compile" /\ phase' # "compile" /\ open = << >>
      /\ blocks' = Patched(ended)
      /\ \A h \in gotos : h.label \in DOMAIN labels
      /\ source' = source /\ open' = open /\ labels' = labels /\ gotos' = gotos
  BY DEF EndRoutine
<1>2. PICK f : Laid(f) /\ Building(f)
  BY <1>1, Building0
<1>3. /\ blocks \in Seq(Block) /\ Len(blocks) \in Nat /\ insertBlock \in 1 .. Len(blocks)
      /\ blocks[insertBlock] \in Block /\ Here \in Nat /\ Here = Len(source) + 1
      /\ Len(source) \in Nat /\ f \in [1 .. Len(blocks) -> Nat]
      /\ \A b \in 1 .. Len(blocks) : blocks[b] \in Block
  BY <1>2, BlockTypes DEF TypeInv, Here, Laid
<1>4. Epilogue \in Instruction /\ Epilogue.kind = "ret" /\ Epilogue.at = Here
  BY EpilogueOK DEF Epilogue, Ret
<1>5. /\ ended \in Seq(Block) /\ Len(ended) = Len(blocks)
      /\ ended[insertBlock] = blocks[insertBlock] \/ ended[insertBlock] = Append(blocks[insertBlock], Epilogue)
      /\ \A b \in 1 .. Len(blocks) : b # insertBlock => ended[b] = blocks[b]
  <2>1. ended = blocks \/ ended = Emit(blocks, insertBlock, Epilogue)
    BY DEF WithEpilogue, Epilogue
  <2> HIDE DEF ended
  <2>2. QED
    BY <1>3, <1>4, <2>1, EmitProperties, SMTT(30)
<1> HIDE DEF ended
<1>6. Len(blocks') = Len(blocks)
  <2>1. ended \in Seq(Block) /\ DOMAIN ended = 1 .. Len(blocks)
    BY <1>5
  <2>2. DOMAIN blocks' = 1 .. Len(blocks) /\ TypeInv'
    BY <1>1, <2>1, EndRoutineTyped DEF Patched
  <2>3. blocks' \in Seq(Block)
    BY <2>2 DEF TypeInv, BlocksOK
  <2>4. QED
    BY <1>3, <2>2, <2>3
<1>7. ASSUME NEW b \in 1 .. Len(blocks)
      PROVE  \/ blocks'[b] = blocks[b]
             \/ \E instr \in Instruction :
                  /\ blocks'[b] = Append(blocks[b], instr) /\ f[b] # 0
                  /\ instr.at = f[b] + Len(blocks[b]) /\ Leads(source, open, f, instr)
  <2>1. \/ blocks'[b] = ended[b]
        \/ \E h \in gotos : h.block = b /\ blocks'[b] = Append(ended[b], Br(labels[h.label], h.at))
    BY <1>1, <1>5, PatchedAt
  <2>2. CASE b = insertBlock
    <3>1. f[b] # 0 /\ Here = f[b] + Len(blocks[b]) /\ \A h \in gotos : h.block # b
      BY <1>2, <2>2 DEF Building
    <3>2. Leads(source, open, f, Epilogue)
      BY <1>3, <1>4 DEF Leads
    <3>3. QED
      BY <1>4, <1>5, <2>1, <2>2, <3>1, <3>2
  <2>3. ASSUME b # insertBlock, NEW h \in gotos, h.block = b,
               blocks'[b] = Append(ended[b], Br(labels[h.label], h.at))
        PROVE  \E instr \in Instruction :
                 /\ blocks'[b] = Append(blocks[b], instr) /\ f[b] # 0
                 /\ instr.at = f[b] + Len(blocks[b]) /\ Leads(source, open, f, instr)
    <3> DEFINE instr == Br(labels[h.label], h.at)
    <3>1. /\ f[b] # 0 /\ h.at = f[b] + Len(blocks[b]) /\ source[h.at] = <<"goto", h.label>>
      BY <1>2, <2>3 DEF Building
    <3>2. h.label \in DOMAIN labels /\ h.at \in 1 .. Len(source) /\ h.at \in Nat
      BY <1>1, <1>3 DEF TypeInv, GotosOK
    <3>3. labels[h.label] \in Nat
      BY <1>3, <3>2 DEF TypeInv, LabelsOK
    <3>4. /\ instr \in Instruction /\ instr.kind = "br" /\ instr.at = h.at
          /\ instr.to = labels[h.label]
      BY <3>2, <3>3, InstructionTypes DEF Br
    <3>5. BeginsBehind(source, f, <<"label", h.label>>, labels[h.label])
      BY <1>2, <3>2 DEF Laid
    <3>6. BrLeads(source, open, f, h.at, labels[h.label])
      BY <3>1, <3>5 DEF BrLeads
    <3>7. blocks'[b] = Append(blocks[b], instr)
      BY <1>5, <2>3
    <3> HIDE DEF instr
    <3>8. Leads(source, open, f, instr)
      BY <3>2, <3>4, <3>6 DEF Leads
    <3>9. QED
      BY <3>1, <3>4, <3>7, <3>8
  <2>4. QED
    BY <1>5, <2>1, <2>2, <2>3
<1>8. ASSUME NEW b \in 1 .. Len(blocks), f[b] = 0
      PROVE  Len(blocks'[b]) = 0
  BY <1>2, <1>7, <1>8 DEF Laid
<1>9. ASSUME NEW b \in 1 .. Len(blocks), NEW k \in 1 .. Len(blocks'[b])
      PROVE  blocks'[b][k].at = f[b] + k - 1 /\ Leads(source, open, f, blocks'[b][k])
  <2>1. \A i \in 1 .. Len(blocks[b]) :
          blocks[b][i].at = f[b] + i - 1 /\ Leads(source, open, f, blocks[b][i])
    BY <1>2 DEF Laid
  <2>2. CASE blocks'[b] = blocks[b]
    BY <2>1, <2>2
  <2>3. ASSUME NEW instr \in Instruction, blocks'[b] = Append(blocks[b], instr),
               instr.at = f[b] + Len(blocks[b]), Leads(source, open, f, instr)
        PROVE  blocks'[b][k].at = f[b] + k - 1 /\ Leads(source, open, f, blocks'[b][k])
    <3>1. /\ Len(blocks'[b]) = Len(blocks[b]) + 1 /\ blocks'[b][Len(blocks[b]) + 1] = instr
          /\ \A i \in 1 .. Len(blocks[b]) : blocks'[b][i] = blocks[b][i]
          /\ Len(blocks[b]) \in Nat
      <4>1. blocks[b] \in Block
        BY <1>3
      <4>2. QED
        BY <2>3, <4>1, AppendedBlock
    <3>2. CASE k = Len(blocks[b]) + 1
      <4>1. f[b] \in Nat
        BY <1>3
      <4>2. f[b] + k - 1 = f[b] + Len(blocks[b])
        BY <3>1, <3>2, <4>1
      <4>3. QED
        BY <2>3, <3>1, <3>2, <4>2
    <3>3. CASE k \in 1 .. Len(blocks[b])
      BY <2>1, <3>1, <3>3
    <3>4. QED
      BY <3>1, <3>2, <3>3
  <2>4. QED
    BY <1>7, <2>2, <2>3
<1>10. Laid(f)'
  BY <1>1, <1>2, <1>6, <1>8, <1>9 DEF Laid
<1>11. SourceOK'
  <2>1. SourceOK /\ source' = source /\ open' = open /\ labels' = labels /\ gotos' = gotos
    BY <1>1 DEF FlowInv
  <2>2. QED
    BY <2>1 DEF SourceOK, TokenOK
<1>12. QED
  BY <1>1, <1>10, <1>11 DEF FlowInv

(* Nothing the invariant is about changes. *)
LEMMA FlowUnchanged ==
  ASSUME FlowInv, UNCHANGED <<source, blocks, insertBlock, open, labels, gotos>>,
         phase' = "compile" <=> phase = "compile"
  PROVE  FlowInv'
<1>1. SourceOK'
  BY DEF FlowInv, SourceOK, TokenOK
<1>2. PICK f : Laid(f) /\ (phase = "compile" => Building(f))
  BY DEF FlowInv
<1>3. Laid(f)'
  BY <1>2 DEF Laid
<1>4. phase' = "compile" => Building(f)'
  BY <1>2 DEF Building, Here
<1>5. phase' # "compile" => open' = << >> /\ \A h \in gotos' : h.label \in DOMAIN labels'
  BY DEF FlowInv
<1>6. QED
  BY <1>1, <1>3, <1>4, <1>5 DEF FlowInv

LEMMA FlowStep == TypeInv /\ FlowInv /\ [Next]_vars => FlowInv'
<1> SUFFICES ASSUME TypeInv, FlowInv, [Next]_vars PROVE FlowInv'
  OBVIOUS
<1>1. CASE UNCHANGED vars
  BY <1>1, FlowUnchanged DEF vars, compiling
<1>2. CASE Run
  <2>1. /\ phase # "compile" /\ phase' # "compile" /\ UNCHANGED compiling
    BY <1>2 DEF Run, RunOp, RunBr, RunCondBr, RunRet
  <2>2. QED
    BY <2>1, FlowUnchanged DEF compiling
<1>3. ASSUME NEW hasElse \in BOOLEAN, EndThen(hasElse) PROVE FlowInv'
  <2>1. hasElse = TRUE \/ hasElse = FALSE
    OBVIOUS
  <2>2. QED
    BY <1>3, <2>1, EndThenElseFlow, EndIfFlow
<1>4. QED
  BY <1>1, <1>2, <1>3, SimpleStatementFlow, IfFlow, EndElseFlow, WhileFlow, EndWhileFlow,
     PlaceLabelFlow, GoToFlow, ReturnStmtFlow, EndRoutineFlow DEF Next

LEMMA InitFlow == Init => FlowInv
<1> SUFFICES ASSUME Init PROVE FlowInv
  OBVIOUS
<1> DEFINE f == [b \in 1 .. 1 |-> 1]
<1>1. /\ source = << >> /\ Len(source) = 0 /\ blocks = << << >> >> /\ Len(blocks) = 1
      /\ Len(blocks[1]) = 0 /\ insertBlock = 1 /\ open = << >> /\ Len(open) = 0
      /\ labels = << >> /\ DOMAIN labels = {} /\ gotos = {} /\ phase = "compile" /\ Here = 1
  BY DEF Init, Here
<1>2. SourceOK
  BY <1>1 DEF SourceOK, UniqueOK
<1>3. f \in [1 .. 1 -> Nat] /\ f[1] = 1
  OBVIOUS
<1> HIDE DEF f
<1>4. Laid(f)
  BY <1>1, <1>3 DEF Laid
<1>5. Building(f)
  <2>1. OpenApart(f, open)
    BY <1>1 DEF OpenApart
  <2>2. QED
    BY <1>1, <1>3, <2>1 DEF Building
<1>6. QED
  BY <1>1, <1>2, <1>4, <1>5 DEF FlowInv

-----------------------------------------------------------------------------
(* The blocks, run: every branch leads where the source goes on.           *)

(* What names one token finds it. *)
LEMMA PositionIs ==
  ASSUME source \in Seq(Token), UniqueOK(source), NEW j \in 1 .. Len(source),
         NEW t, source[j] = t, t[1] \in Unique
  PROVE  Source!Position(t) = j /\ Source!Has(t)
<1>1. DOMAIN source = 1 .. Len(source)
  OBVIOUS
<1>2. \A i \in 1 .. Len(source) : source[i] = t => i = j
  BY DEF UniqueOK
<1> DEFINE i == CHOOSE i \in 1 .. Len(source) : source[i] = t
<1>3. i \in 1 .. Len(source) /\ source[i] = t
  OBVIOUS
<1>4. Source!Position(t) = i
  BY <1>1 DEF Source!Position
<1> HIDE DEF i
<1>5. QED
  BY <1>1, <1>2, <1>3, <1>4 DEF Source!Has

(* The routine is compiled: what runs it relies on.                        *)
Complete(f) ==
  /\ TypeInv /\ SourceOK /\ Laid(f)
  /\ open = << >> /\ \A h \in gotos : h.label \in DOMAIN labels

LEMMA HasFound ==
  ASSUME source \in Seq(Token), UniqueOK(source), NEW t, t[1] \in Unique, HasToken(source, t)
  PROVE  Source!Position(t) \in 1 .. Len(source) /\ source[Source!Position(t)] = t
BY PositionIs DEF HasToken

LEMMA SourceClosed ==
  ASSUME NEW f, Complete(f)
  PROVE  Closed
<1>1. /\ source \in Seq(Token) /\ Len(source) \in Nat /\ Source!End = Len(source) + 1
      /\ UniqueOK(source) /\ Len(open) = 0
      /\ \A i \in 1 .. Len(source) : TokenOK(source, open, labels, gotos, i)
  BY DEF Complete, TypeInv, SourceOK, Source!End
<1> SUFFICES ASSUME NEW i \in 1 .. Len(source), ~Source!Visible(i)
             PROVE  Source!After(i) \in 1 .. Source!End
  BY DEF Closed
<1>2. /\ source[i] \in Token /\ TokenOK(source, open, labels, gotos, i)
      /\ source[i][1] \notin {"op", "if", "while", "return"}
  BY <1>1 DEF Source!Visible, Source!KindAt
<1>3. source[i][1] \in {"label", "endif", "else", "endwhile", "goto"}
  BY <1>2 DEF Token
<1>4. CASE source[i][1] \in {"label", "endif"}
  <2>1. Source!After(i) = i + 1
    BY <1>4 DEF Source!After, Source!KindAt
  <2>2. QED
    BY <1>1, <2>1
<1>5. CASE source[i][1] = "else"
  <2>1. Source!After(i) = Source!Position(<<"endif", source[i][2]>>)
    BY <1>5 DEF Source!After, Source!KindAt
  <2>2. source[i][2] \in 1 .. Len(source) /\ source[source[i][2]] = <<"if">>
    BY <1>2, <1>5 DEF TokenOK
  <2>3. TokenOK(source, open, labels, gotos, source[i][2])
    BY <1>1, <2>2
  <2>4. HasToken(source, <<"endif", source[i][2]>>)
    BY <1>1, <2>2, <2>3 DEF TokenOK
  <2>5. <<"endif", source[i][2]>>[1] \in Unique
    BY DEF Unique
  <2>6. Source!Position(<<"endif", source[i][2]>>) \in 1 .. Len(source)
    BY <1>1, <2>4, <2>5, HasFound
  <2>7. QED
    BY <1>1, <2>1, <2>6
<1>6. CASE source[i][1] = "endwhile"
  <2>1. Source!After(i) = source[i][2]
    BY <1>6 DEF Source!After, Source!KindAt
  <2>2. source[i][2] \in 1 .. Len(source)
    BY <1>2, <1>6 DEF TokenOK
  <2>3. QED
    BY <1>1, <2>1, <2>2
<1>7. CASE source[i][1] = "goto"
  <2>1. Source!After(i) = Source!Position(<<"label", source[i][2]>>)
    BY <1>7 DEF Source!After, Source!KindAt
  <2>2. source[i][2] \in DOMAIN labels
    BY <1>2, <1>7 DEF TokenOK, Complete
  <2>3. HasToken(source, <<"label", source[i][2]>>)
    BY <2>2 DEF Complete, Laid, BeginsBehind, HasToken
  <2>4. <<"label", source[i][2]>>[1] \in Unique
    BY DEF Unique
  <2>5. Source!Position(<<"label", source[i][2]>>) \in 1 .. Len(source)
    BY <1>1, <2>3, <2>4, HasFound
  <2>6. QED
    BY <1>1, <2>1, <2>5
<1>8. QED
  BY <1>3, <1>4, <1>5, <1>6, <1>7

(* The code behind the only token t begins where control arrives from t.   *)
LEMMA ArriveBehind ==
  ASSUME NEW f, Complete(f), NEW x \in {"endif", "label"}, NEW y, NEW b,
         BeginsBehind(source, f, <<x, y>>, b)
  PROVE  /\ Source!Position(<<x, y>>) \in 1 .. Source!End
         /\ f[b] \in 1 .. Source!End
         /\ Source!Arrive(Source!Position(<<x, y>>)) = Source!Arrive(f[b])
<1>1. /\ source \in Seq(Token) /\ Len(source) \in Nat /\ Source!End = Len(source) + 1
      /\ UniqueOK(source)
  BY DEF Complete, TypeInv, SourceOK, Source!End
<1>2. PICK j \in 1 .. Len(source) : source[j] = <<x, y>> /\ f[b] = j + 1
  BY DEF BeginsBehind
<1>3. Source!Position(<<x, y>>) = j
  BY <1>1, <1>2, PositionIs DEF Unique
<1>4. /\ j \in 1 .. Source!End /\ j + 1 \in 1 .. Source!End /\ j # Source!End
  BY <1>1
<1>5. source[j][1] \in {"endif", "label"}
  BY <1>2
<1>6. ~Source!Visible(j) /\ Source!After(j) = j + 1
  BY <1>4, <1>5 DEF Source!Visible, Source!After, Source!KindAt
<1>7. Source!Arrive(j) = Source!Arrive(j + 1)
  BY <1>1, <1>4, <1>6, SourceClosed, ArriveOn
<1>8. QED
  BY <1>2, <1>3, <1>4, <1>7

LEMMA BrArrives ==
  ASSUME NEW f, Complete(f), NEW i \in 1 .. Len(source), NEW b, BrLeads(source, open, f, i, b)
  PROVE  f[b] \in 1 .. Source!End /\ Source!Arrive(i) = Source!Arrive(f[b])
<1>1. /\ source \in Seq(Token) /\ Len(source) \in Nat /\ Source!End = Len(source) + 1
      /\ Len(open) = 0 /\ TokenOK(source, open, labels, gotos, i)
  BY DEF Complete, TypeInv, SourceOK, Source!End
<1>2. i \in 1 .. Source!End /\ i # Source!End
  BY <1>1
<1>3. ~Source!Visible(i) => Source!Arrive(i) = Source!Arrive(Source!After(i))
  BY <1>1, <1>2, SourceClosed, ArriveOn
<1>4. CASE source[i][1] \in {"label", "endif"} /\ f[b] = i + 1
  <2>1. ~Source!Visible(i) /\ Source!After(i) = i + 1
    BY <1>2, <1>4 DEF Source!Visible, Source!After, Source!KindAt
  <2>2. QED
    BY <1>1, <1>3, <1>4, <2>1
<1>5. CASE source[i] = <<"while">> /\ f[b] = i
  BY <1>2, <1>5
<1>6. CASE source[i][1] = "endwhile" /\ f[b] = source[i][2]
  <2>1. ~Source!Visible(i) /\ Source!After(i) = f[b]
    BY <1>2, <1>6 DEF Source!Visible, Source!After, Source!KindAt
  <2>2. f[b] \in 1 .. Len(source)
    BY <1>1, <1>6 DEF TokenOK
  <2>3. QED
    BY <1>1, <1>3, <2>1, <2>2
<1>7. CASE source[i][1] = "else" /\ BeginsBehind(source, f, <<"endif", source[i][2]>>, b)
  <2>1. ~Source!Visible(i) /\ Source!After(i) = Source!Position(<<"endif", source[i][2]>>)
    BY <1>2, <1>7 DEF Source!Visible, Source!After, Source!KindAt
  <2>2. QED
    BY <1>3, <1>7, <2>1, ArriveBehind
<1>8. CASE source[i][1] = "goto" /\ BeginsBehind(source, f, <<"label", source[i][2]>>, b)
  <2>1. ~Source!Visible(i) /\ Source!After(i) = Source!Position(<<"label", source[i][2]>>)
    BY <1>2, <1>8 DEF Source!Visible, Source!After, Source!KindAt
  <2>2. QED
    BY <1>3, <1>8, <2>1, ArriveBehind
<1>9. ~StillOpen(open, "else", source[i][2], b)
  BY <1>1 DEF StillOpen
<1>10. QED
  BY <1>4, <1>5, <1>6, <1>7, <1>8, <1>9 DEF BrLeads

LEMMA ElseArrives ==
  ASSUME NEW f, Complete(f), NEW i \in 1 .. Len(source), NEW c, ElseLeads(source, open, f, i, c)
  PROVE  /\ f[c] \in 1 .. Source!End
         /\ Source!Arrive(Source!Otherwise(i)) = Source!Arrive(f[c])
         /\ Source!KindAt(i) \in {"if", "while"}
<1>1. /\ source \in Seq(Token) /\ Len(source) \in Nat /\ Source!End = Len(source) + 1
      /\ Len(open) = 0 /\ UniqueOK(source) /\ DOMAIN source = 1 .. Len(source)
  BY DEF Complete, TypeInv, SourceOK, Source!End
<1>2. \A part, b : ~StillOpen(open, part, i, b)
  BY <1>1 DEF StillOpen
<1>3. CASE source[i] = <<"while">> /\ BeginsBehind(source, f, <<"endwhile", i>>, c)
  <2>1. PICK j \in 1 .. Len(source) : source[j] = <<"endwhile", i>> /\ f[c] = j + 1
    BY <1>3 DEF BeginsBehind
  <2>2. Source!Position(<<"endwhile", i>>) = j
    BY <1>1, <2>1, PositionIs DEF Unique
  <2>3. Source!KindAt(i) = "while"
    BY <1>3 DEF Source!KindAt
  <2>4. ~Source!Has(<<"else", i>>)
    <3> SUFFICES ASSUME NEW k \in 1 .. Len(source), source[k] = <<"else", i>> PROVE FALSE
      BY <1>1 DEF Source!Has
    <3>1. TokenOK(source, open, labels, gotos, k)
      BY DEF Complete, SourceOK
    <3>2. source[k][1] = "else" /\ source[k][2] = i /\ source[i] # <<"if">>
      BY <1>3
    <3>3. QED
      BY <3>1, <3>2 DEF TokenOK
  <2>5. Source!Otherwise(i) = f[c]
    BY <2>1, <2>2, <2>3, <2>4 DEF Source!Otherwise
  <2>6. QED
    BY <1>1, <2>1, <2>3, <2>5
<1>4. CASE source[i] = <<"if">> /\ BeginsBehind(source, f, <<"else", i>>, c)
  <2>1. PICK j \in 1 .. Len(source) : source[j] = <<"else", i>> /\ f[c] = j + 1
    BY <1>4 DEF BeginsBehind
  <2>2. Source!Position(<<"else", i>>) = j /\ Source!Has(<<"else", i>>)
    BY <1>1, <2>1, PositionIs DEF Unique
  <2>3. Source!KindAt(i) = "if"
    BY <1>4 DEF Source!KindAt
  <2>4. Source!KindAt(i) # "while"
    BY <2>3
  <2>5. Source!Otherwise(i) = Source!Position(<<"else", i>>) + 1
    BY <2>2, <2>4 DEF Source!Otherwise
  <2>6. QED
    BY <1>1, <2>1, <2>2, <2>3, <2>5
<1>5. ASSUME source[i] = <<"if">>, ~HasToken(source, <<"else", i>>),
             NEW j \in 1 .. Len(source), source[j] = <<"endif", i>>, f[c] = j
      PROVE  /\ f[c] \in 1 .. Source!End
             /\ Source!Arrive(Source!Otherwise(i)) = Source!Arrive(f[c])
             /\ Source!KindAt(i) \in {"if", "while"}
  <2>1. Source!Position(<<"endif", i>>) = j
    BY <1>1, <1>5, PositionIs DEF Unique
  <2>2. Source!KindAt(i) = "if" /\ ~Source!Has(<<"else", i>>)
    BY <1>1, <1>5 DEF Source!KindAt, Source!Has, HasToken
  <2>3. Source!Otherwise(i) = j + 1
    BY <2>1, <2>2 DEF Source!Otherwise
  <2>4. j \in 1 .. Source!End /\ j # Source!End
    BY <1>1
  <2>5. ~Source!Visible(j) /\ Source!After(j) = j + 1
    BY <1>5, <2>4 DEF Source!Visible, Source!After, Source!KindAt
  <2>6. Source!Arrive(j) = Source!Arrive(j + 1)
    BY <1>1, <2>4, <2>5, SourceClosed, ArriveOn
  <2>7. QED
    BY <1>5, <2>2, <2>3, <2>4, <2>6
<1>6. QED
  BY <1>2, <1>3, <1>4, <1>5 DEF ElseLeads

-----------------------------------------------------------------------------
(* The source alone: what a run needs of it is not changed by running.     *)

(* What the source means, as a matter of its tokens only. *)
Of(src) == INSTANCE SourceOrder WITH source <- src

LEMMA ArriveOf ==
  ASSUME NEW i
  PROVE  /\ Source!Arrive(i) = Of(source)!Arrive(i)
         /\ Flow!Arrive(i) = Of(source)!Arrive(i)
BY Zenon DEF Source!Arrive, Source!End, Source!Visible, Source!After, Source!KindAt, Source!Position, Source!Diverged,
  Flow!Arrive, Flow!End, Flow!Visible, Flow!After, Flow!KindAt, Flow!Position, Flow!Diverged,
  Of!Arrive, Of!End, Of!Visible, Of!After, Of!KindAt, Of!Position, Of!Diverged

LEMMA ArriveOfNext ==
  (Source!Arrive(Instr.at))' = Of(source')!Arrive(Instr'.at)
BY Zenon DEF Source!Arrive, Source!End, Source!Visible, Source!After, Source!KindAt, Source!Position, Source!Diverged,
  Of!Arrive, Of!End, Of!Visible, Of!After, Of!KindAt, Of!Position, Of!Diverged

LEMMA OtherwiseOf ==
  ASSUME NEW i
  PROVE  Flow!Otherwise(i) = Source!Otherwise(i)
BY Zenon DEF Source!Otherwise, Source!KindAt, Source!Position, Source!Has,
  Flow!Otherwise, Flow!KindAt, Flow!Position, Flow!Has

(* Where the run is in the source. *)
At ==
  CASE phase = "run" -> Source!Arrive(Instr.at)
    [] phase = "done" -> Source!Left
    [] OTHER -> Source!NotStarted

LEMMA AtIs ==
  /\ phase = "run" => At = Source!Arrive(Instr.at)
  /\ phase = "done" => At = -1
  /\ phase \in {"compile", "refused"} => At = 0
  /\ phase' = "run" => At' = Of(source')!Arrive(Instr'.at)
  /\ phase' = "done" => At' = -1
  /\ phase' \in {"compile", "refused"} => At' = 0
<1>1. /\ phase = "run" => At = Source!Arrive(Instr.at)
      /\ phase = "done" => At = -1
      /\ phase \in {"compile", "refused"} => At = 0
  BY DEF At, Source!Left, Source!NotStarted
<1>2. /\ phase' = "run" => At' = (Source!Arrive(Instr.at))'
      /\ phase' = "done" => At' = -1
      /\ phase' \in {"compile", "refused"} => At' = 0
  BY DEF At, Source!Left, Source!NotStarted
<1>3. QED
  BY <1>1, <1>2, ArriveOfNext

(* The steps of StructuredFlow. *)
LEMMA WriteMaps ==
  ASSUME At = 0, At' = 0, source' # << >>, SubSeq(source', 1, Len(source') - 1) = source,
         UNCHANGED <<cond, beat>>
  PROVE  Flow!Write
BY DEF Flow!Write, Flow!NotStarted, At

LEMMA StartMaps ==
  ASSUME At = 0, At' = Source!Arrive(1), UNCHANGED <<source, cond, beat>>
  PROVE  Flow!Start
BY ArriveOf DEF Flow!Start, Flow!NotStarted, At

LEMMA DoMaps ==
  ASSUME At \in 1 .. Len(source) + 1, At # Len(source) + 1, source[At][1] = "op",
         At' = Source!Arrive(At + 1), cond' = FALSE, beat' = ~beat, source' = source
  PROVE  Flow!Do
<1>1. Flow!Arrive(At + 1) = Source!Arrive(At + 1)
  BY ArriveOf
<1>2. QED
  BY <1>1 DEF Flow!Do, Flow!Running, Flow!End, Flow!KindAt, At

LEMMA BranchMaps ==
  ASSUME At \in 1 .. Len(source) + 1, At # Len(source) + 1, source[At][1] \in {"if", "while"},
         cond' \in BOOLEAN, beat' = ~beat, source' = source,
         At' = Source!Arrive(IF cond' THEN At + 1 ELSE Source!Otherwise(At))
  PROVE  Flow!Branch
<1>1. Flow!Arrive(IF cond' THEN At + 1 ELSE Flow!Otherwise(At))
        = Source!Arrive(IF cond' THEN At + 1 ELSE Source!Otherwise(At))
  BY ArriveOf, OtherwiseOf
<1>2. QED
  BY <1>1 DEF Flow!Branch, Flow!Running, Flow!End, Flow!KindAt, At

LEMMA LeaveMaps ==
  ASSUME At \in 1 .. Len(source) + 1, At = Len(source) + 1 \/ source[At][1] = "return",
         At' = -1, cond' = FALSE, beat' = ~beat, source' = source
  PROVE  Flow!Leave
BY DEF Flow!Leave, Flow!Running, Flow!End, Flow!KindAt, Flow!Left, At

LEMMA StutterMaps ==
  ASSUME At' = At, UNCHANGED <<source, cond, beat>>
  PROVE  UNCHANGED Flow!absVars
BY DEF Flow!absVars, At

-----------------------------------------------------------------------------
(* Each step is one of the abstract specification, or none.                *)

LEMMA FrontIs ==
  ASSUME NEW src \in Seq(Token), NEW t \in Token
  PROVE  SubSeq(Append(src, t), 1, Len(Append(src, t)) - 1) = src /\ Append(src, t) # << >>
<1> DEFINE src2 == Append(src, t)
           m == Len(src2) - 1
<1>1. /\ src2 \in Seq(Token) /\ Len(src2) = Len(src) + 1 /\ Len(src) \in Nat
      /\ \A i \in 1 .. Len(src) : src2[i] = src[i]
  OBVIOUS
<1>2. m = Len(src) /\ m \in Int /\ \A i \in 1 .. m : src2[i] \in Token
  BY <1>1
<1>3. src2 # << >>
  BY <1>1
<1> HIDE DEF m, src2
<1>4. /\ SubSeq(src2, 1, m) \in Seq(Token)
      /\ Len(SubSeq(src2, 1, m)) = IF 1 <= m THEN m - 1 + 1 ELSE 0
      /\ \A i \in 1 .. m - 1 + 1 : SubSeq(src2, 1, m)[i] = src2[1 + i - 1]
  BY <1>2, SubSeqProperties
<1>5. Len(SubSeq(src2, 1, m)) = Len(src)
  BY <1>1, <1>2, <1>4
<1>6. \A i \in 1 .. Len(src) : SubSeq(src2, 1, m)[i] = src[i]
  BY <1>1, <1>2, <1>4
<1>7. SubSeq(src2, 1, m) = src
  BY <1>4, <1>5, <1>6
<1>8. QED
  BY <1>3, <1>7 DEF m, src2

LEMMA TokenMaps ==
  ASSUME TypeInv, phase = "compile", phase' = phase, NEW t \in Token, Compiled(t),
         UNCHANGED running
  PROVE  Flow!Write
<1>1. source \in Seq(Token) /\ source' = Append(source, t)
  BY DEF TypeInv, Compiled
<1>2. SubSeq(source', 1, Len(source') - 1) = source /\ source' # << >>
  BY <1>1, FrontIs
<1>3. At = 0 /\ At' = 0
  BY AtIs
<1>4. QED
  BY <1>2, <1>3, WriteMaps DEF running

LEMMA CompileMaps ==
  ASSUME TypeInv,
         \/ SimpleStatement \/ If \/ (\E hasElse \in BOOLEAN : EndThen(hasElse)) \/ EndElse
         \/ While \/ EndWhile \/ (\E l \in Labels : PlaceLabel(l)) \/ (\E l \in Labels : GoTo(l))
         \/ ReturnStmt
  PROVE  Flow!Write
<1>1. \A x \in {"else", "endif", "endwhile"} : open # << >> => <<x, Top.token>> \in Token
  BY OpenProperties DEF Token
<1>2. /\ \A x \in {"op", "if", "while", "return"} : <<x>> \in Token
      /\ \A x \in {"label", "goto"} : \A l \in Labels : <<x, l>> \in Token
  BY DEF Token
<1>3. CASE SimpleStatement
  BY <1>2, <1>3, TokenMaps DEF SimpleStatement, Room
<1>4. CASE If
  BY <1>2, <1>4, TokenMaps DEF If, Room
<1>5. ASSUME NEW hasElse \in BOOLEAN, EndThen(hasElse) PROVE Flow!Write
  <2>1. /\ phase = "compile" /\ phase' = phase /\ open # << >> /\ UNCHANGED running
        /\ Compiled(<<"else", Top.token>>) \/ Compiled(<<"endif", Top.token>>)
    BY <1>5 DEF EndThen
  <2>2. QED
    BY <1>1, <2>1, TokenMaps
<1>6. CASE EndElse
  BY <1>1, <1>6, TokenMaps DEF EndElse
<1>7. CASE While
  BY <1>2, <1>7, TokenMaps DEF While, Room
<1>8. CASE EndWhile
  BY <1>1, <1>8, TokenMaps DEF EndWhile
<1>9. ASSUME NEW l \in Labels, PlaceLabel(l) PROVE Flow!Write
  BY <1>2, <1>9, TokenMaps DEF PlaceLabel, Room
<1>10. ASSUME NEW l \in Labels, GoTo(l) PROVE Flow!Write
  BY <1>2, <1>10, TokenMaps DEF GoTo, Room
<1>11. CASE ReturnStmt
  BY <1>2, <1>11, TokenMaps DEF ReturnStmt, Room
<1>12. QED
  BY <1>3, <1>4, <1>5, <1>6, <1>7, <1>8, <1>9, <1>10, <1>11

(* A block that is entered begins where the witness says. *)
LEMMA EnteredAt ==
  ASSUME NEW f, Complete(f), Verified(blocks), NEW b \in 1 .. Len(blocks)
  PROVE  blocks[b][1].at = f[b]
<1>1. BlocksOK(blocks, Here) /\ Here \in Nat
  BY BlockTypes DEF Complete, TypeInv
<1>2. 1 \in 1 .. Len(blocks[b])
  BY <1>1, VerifiedEntered
<1>3. blocks[b][1].at = f[b] + 1 - 1 /\ f[b] \in Nat
  BY <1>2 DEF Complete, Laid
<1>4. QED
  BY <1>3

LEMMA EndRoutineMaps ==
  ASSUME TypeInv, FlowInv, EndRoutine
  PROVE  Flow!Start \/ UNCHANGED Flow!absVars
<1>1. /\ phase = "compile" /\ phase' \in {"run", "refused"} /\ source' = source
      /\ UNCHANGED running /\ pc = Entry
  BY DEF EndRoutine, TypeInv
<1>2. At = 0 /\ cond' = cond /\ beat' = beat /\ pc' = Entry
  BY <1>1, AtIs DEF running
<1>3. CASE phase' = "refused"
  BY <1>1, <1>2, <1>3, AtIs, StutterMaps
<1>4. CASE phase' = "run"
  <2>1. TypeInv' /\ FlowInv'
    BY EndRoutineTyped, EndRoutineFlow
  <2>2. PICK f : Laid(f)'
    BY <1>4, <2>1 DEF FlowInv
  <2>3. 1 \in 1 .. Len(blocks') /\ 1 \in 1 .. Len(blocks'[1])
    BY <1>2, <1>4, <2>1 DEF TypeInv, Entry
  <2>4. blocks'[1][1].at = f[1] + 1 - 1 /\ f[1] = 1
    BY <2>2, <2>3 DEF Laid
  <2>5. Instr'.at = 1
    BY <1>2, <2>4 DEF Instr, Entry
  <2>6. At' = Source!Arrive(1)
    BY <1>1, <1>4, <2>5, AtIs, ArriveOf
  <2>7. QED
    BY <1>1, <1>2, <2>6, StartMaps
<1>5. QED
  BY <1>1, <1>3, <1>4

(* The instruction to run, and the token it was emitted for. *)
LEMMA RunAt ==
  ASSUME TypeInv, FlowInv, phase = "run"
  PROVE  /\ source \in Seq(Token) /\ Len(source) \in Nat
         /\ InstructionOK(Instr, Len(blocks), Here) /\ Verified(blocks)
         /\ pc.block \in 1 .. Len(blocks) /\ pc.index \in Nat
         /\ \E f : /\ Complete(f) /\ Leads(source, open, f, Instr)
                   /\ Instr.at = f[pc.block] + pc.index - 1 /\ f[pc.block] \in Nat
<1>1. /\ pc.block \in 1 .. Len(blocks) /\ pc.index \in 1 .. Len(blocks[pc.block])
      /\ pc.index \in Nat /\ Verified(blocks)
      /\ source \in Seq(Token) /\ Len(source) \in Nat /\ BlocksOK(blocks, Here)
  BY DEF TypeInv
<1>2. InstructionOK(Instr, Len(blocks), Here)
  BY <1>1 DEF BlocksOK, Instr
<1>3. PICK f : Laid(f)
  BY DEF FlowInv
<1>4. Complete(f)
  BY <1>3 DEF FlowInv, Complete
<1>5. /\ Instr.at = f[pc.block] + pc.index - 1 /\ f[pc.block] \in Nat
      /\ Leads(source, open, f, Instr)
  BY <1>1, <1>3 DEF Laid, Instr
<1>6. QED
  BY <1>1, <1>2, <1>4, <1>5

(* A token that executes is where control is when it is reached. *)
LEMMA SeenAt ==
  ASSUME NEW f, Complete(f), NEW i \in 1 .. Len(source) + 1,
         i = Len(source) + 1 \/ source[i][1] \in {"op", "if", "while", "return"}
  PROVE  Source!Arrive(i) = i
<1>1. source \in Seq(Token) /\ i \in 1 .. Source!End /\ Source!Visible(i)
  BY DEF Complete, TypeInv, Source!End, Source!Visible, Source!KindAt
<1>2. QED
  BY <1>1, SourceClosed, ArriveOn

LEMMA RunOpMaps ==
  ASSUME TypeInv, FlowInv, RunOp
  PROVE  Flow!Do
<1>1. /\ phase = "run" /\ Instr.kind = "op" /\ cond' = FALSE /\ beat' = ~beat
      /\ pc' = [pc EXCEPT !.index = @ + 1] /\ phase' = phase
      /\ source' = source /\ blocks' = blocks
  BY DEF RunOp, compiling
<1>2. /\ source \in Seq(Token) /\ Len(source) \in Nat /\ pc.block \in 1 .. Len(blocks)
      /\ pc.index \in Nat
  BY <1>1, RunAt
<1>3. PICK f : /\ Complete(f) /\ Leads(source, open, f, Instr)
               /\ Instr.at = f[pc.block] + pc.index - 1 /\ f[pc.block] \in Nat
  BY <1>1, RunAt
<1> DEFINE i == Instr.at
<1>4. i \in 1 .. Len(source) /\ source[i] = <<"op">>
  BY <1>1, <1>3 DEF Leads
<1>5. i \in 1 .. Len(source) + 1 /\ i # Len(source) + 1 /\ source[i][1] = "op"
  BY <1>2, <1>4
<1>6. At = i
  BY <1>1, <1>3, <1>5, AtIs, SeenAt
<1>7. pc'.block = pc.block /\ pc'.index = pc.index + 1
  <2>1. pc \in [block : 1 .. Len(blocks), index : Nat]
    BY <1>1 DEF TypeInv
  <2>2. QED
    BY <1>1, <2>1
<1>8. Instr'.at = i + 1
  <2>1. TypeInv' /\ phase' = "run"
    BY <1>1, RunTyped DEF Run
  <2>2. pc'.index \in 1 .. Len(blocks[pc.block])
    BY <1>1, <1>7, <2>1 DEF TypeInv
  <2>3. blocks[pc.block][pc'.index].at = f[pc.block] + pc'.index - 1
    BY <1>2, <1>3, <2>2 DEF Complete, Laid
  <2>4. Instr' = blocks[pc.block][pc'.index]
    BY <1>1, <1>7 DEF Instr
  <2>5. f[pc.block] + pc'.index - 1 = f[pc.block] + pc.index - 1 + 1
    BY <1>2, <1>3, <1>7
  <2>6. QED
    BY <1>3, <2>3, <2>4, <2>5
<1>9. At' = Source!Arrive(i + 1)
  BY <1>1, <1>8, AtIs, ArriveOf
<1> HIDE DEF i
<1>10. QED
  BY <1>1, <1>5, <1>6, <1>9, DoMaps

LEMMA RunBrMaps ==
  ASSUME TypeInv, FlowInv, RunBr
  PROVE  UNCHANGED Flow!absVars
<1>1. /\ phase = "run" /\ Instr.kind = "br" /\ cond' = cond /\ beat' = beat
      /\ pc' = [block |-> Instr.to, index |-> 1] /\ phase' = phase
      /\ source' = source /\ blocks' = blocks
  BY DEF RunBr, compiling, GoesTo
<1>2. InstructionOK(Instr, Len(blocks), Here) /\ Verified(blocks)
  BY <1>1, RunAt
<1>3. PICK f : Complete(f) /\ Leads(source, open, f, Instr)
  BY <1>1, RunAt
<1>4. Instr.to \in 1 .. Len(blocks)
  BY <1>1, <1>2 DEF InstructionOK
<1>5. Instr.at \in 1 .. Len(source) /\ BrLeads(source, open, f, Instr.at, Instr.to)
  BY <1>1, <1>3 DEF Leads
<1>6. Source!Arrive(Instr.at) = Source!Arrive(f[Instr.to])
  BY <1>3, <1>5, BrArrives
<1>7. Instr'.at = f[Instr.to]
  <2>1. Instr' = blocks[Instr.to][1]
    BY <1>1 DEF Instr
  <2>2. QED
    BY <1>2, <1>3, <1>4, <2>1, EnteredAt
<1>8. At' = At
  BY <1>1, <1>6, <1>7, AtIs, ArriveOf
<1>9. QED
  BY <1>1, <1>8, StutterMaps

LEMMA RunCondBrMaps ==
  ASSUME TypeInv, FlowInv, RunCondBr
  PROVE  Flow!Branch
<1>1. /\ phase = "run" /\ Instr.kind = "condbr" /\ cond' \in BOOLEAN /\ beat' = ~beat
      /\ pc' = [block |-> IF cond' THEN Instr.to ELSE Instr.else, index |-> 1] /\ phase' = phase
      /\ source' = source /\ blocks' = blocks
  BY DEF RunCondBr, compiling, GoesTo
<1>2. /\ InstructionOK(Instr, Len(blocks), Here) /\ Verified(blocks) /\ Len(source) \in Nat
  BY <1>1, RunAt
<1>3. PICK f : Complete(f) /\ Leads(source, open, f, Instr)
  BY <1>1, RunAt
<1> DEFINE i == Instr.at
<1>4. Instr.to \in 1 .. Len(blocks) /\ Instr.else \in 1 .. Len(blocks)
  BY <1>1, <1>2 DEF InstructionOK
<1>5. /\ i \in 1 .. Len(source) /\ f[Instr.to] = i + 1
      /\ ElseLeads(source, open, f, i, Instr.else)
  BY <1>1, <1>3 DEF Leads
<1>6. /\ Source!Arrive(Source!Otherwise(i)) = Source!Arrive(f[Instr.else])
      /\ source[i][1] \in {"if", "while"}
  BY <1>3, <1>5, ElseArrives DEF Source!KindAt
<1>7. i \in 1 .. Len(source) + 1 /\ i # Len(source) + 1
  BY <1>2, <1>5
<1>8. At = i
  BY <1>1, <1>3, <1>6, <1>7, AtIs, SeenAt
<1>9. At' = Source!Arrive(IF cond' THEN i + 1 ELSE Source!Otherwise(i))
  <2>1. ASSUME NEW b \in 1 .. Len(blocks), pc' = [block |-> b, index |-> 1]
        PROVE  At' = Source!Arrive(f[b])
    <3>1. Instr' = blocks[b][1]
      BY <1>1, <2>1 DEF Instr
    <3>2. Instr'.at = f[b]
      BY <1>2, <1>3, <3>1, EnteredAt
    <3>3. QED
      BY <1>1, <3>2, AtIs, ArriveOf
  <2>2. CASE cond'
    <3>1. At' = Source!Arrive(f[Instr.to])
      BY <1>1, <1>4, <2>1, <2>2
    <3>2. QED
      BY <1>5, <2>2, <3>1
  <2>3. CASE ~cond'
    <3>1. At' = Source!Arrive(f[Instr.else])
      BY <1>1, <1>4, <2>1, <2>3
    <3>2. QED
      BY <1>6, <2>3, <3>1
  <2>4. QED
    BY <2>2, <2>3
<1> HIDE DEF i
<1>10. QED
  BY <1>1, <1>6, <1>7, <1>8, <1>9, BranchMaps

LEMMA RunRetMaps ==
  ASSUME TypeInv, FlowInv, RunRet
  PROVE  Flow!Leave
<1>1. /\ phase = "run" /\ Instr.kind = "ret" /\ cond' = FALSE /\ beat' = ~beat
      /\ phase' = "done" /\ source' = source
  BY DEF RunRet, compiling
<1>2. /\ InstructionOK(Instr, Len(blocks), Here) /\ Len(source) \in Nat
  BY <1>1, RunAt
<1>3. PICK f : Complete(f) /\ Leads(source, open, f, Instr)
  BY <1>1, RunAt
<1> DEFINE i == Instr.at
<1>4. i = Len(source) + 1 \/ source[i] = <<"return">>
  BY <1>1, <1>3 DEF Leads
<1>5. i \in 1 .. Len(source) + 1
  BY <1>2 DEF InstructionOK, Here
<1>6. i = Len(source) + 1 \/ source[i][1] = "return"
  BY <1>4
<1>7. At = i
  BY <1>1, <1>3, <1>5, <1>6, AtIs, SeenAt
<1>8. At' = -1
  BY <1>1, AtIs
<1> HIDE DEF i
<1>9. QED
  BY <1>1, <1>5, <1>6, <1>7, <1>8, LeaveMaps

LEMMA InitMaps == Init => Flow!Init
<1> SUFFICES ASSUME Init PROVE Flow!Init
  OBVIOUS
<1>1. At = 0
  BY AtIs DEF Init
<1>2. QED
  BY <1>1 DEF Init, Flow!Init, Flow!NotStarted, At

LEMMA StepMaps ==
  TypeInv /\ FlowInv /\ [Next]_vars => [Flow!Next]_(Flow!absVars)
<1> SUFFICES ASSUME TypeInv, FlowInv, [Next]_vars PROVE [Flow!Next]_(Flow!absVars)
  OBVIOUS
<1>1. CASE UNCHANGED vars
  <2>1. /\ UNCHANGED <<source, phase, cond, beat>> /\ Instr' = Instr
    BY <1>1 DEF vars, compiling, running, Instr
  <2>2. At' = At
    <3>1. phase = "run" => At' = At
      BY <2>1, AtIs, ArriveOf
    <3>2. phase # "run" => At' = At
      BY <2>1 DEF At, Source!Left, Source!NotStarted
    <3>3. QED
      BY <3>1, <3>2
  <2>3. QED
    BY <2>1, <2>2, StutterMaps
<1>2. CASE Run
  BY <1>2, RunOpMaps, RunBrMaps, RunCondBrMaps, RunRetMaps DEF Run, Flow!Next
<1>3. CASE EndRoutine
  BY <1>3, EndRoutineMaps DEF Flow!Next
<1>4. CASE Next /\ ~Run /\ ~EndRoutine
  BY <1>4, CompileMaps DEF Next, Flow!Next
<1>5. QED
  BY <1>1, <1>2, <1>3, <1>4

(* Whatever the nesting, the labels and gotos, and code after a return, as  *)
(* long as verifyModule accepts the routine: its blocks execute the         *)
(* statements of the source one after the other, as the source means.       *)
THEOREM StatementsInOrder == Spec => Flow!FlowSteps
<1>1. Init => TypeInv /\ FlowInv /\ Flow!Init
  BY InitTyped, InitFlow, InitMaps
<1>2. TypeInv /\ FlowInv /\ [Next]_vars => TypeInv' /\ FlowInv' /\ [Flow!Next]_(Flow!absVars)
  BY TypeStep, FlowStep, StepMaps
<1>3. QED
  BY <1>1, <1>2, PTL DEF Spec, Flow!FlowSteps

=============================================================================

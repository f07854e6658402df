--------------------------- MODULE StructuredFlow ---------------------------
(***************************************************************************)
(* What the statements of one routine mean, with no mention of blocks or   *)
(* branches: the order in which its simple statements and conditions are   *)
(* reached.                                                                *)
(***************************************************************************)
EXTENDS Integers, Sequences

VARIABLES
  source,      \* the tokens written so far
  at,          \* the token about to be executed
  cond,        \* the outcome of the condition evaluated last
  beat         \* flips with every token executed, so that a loop with an
               \* empty body is seen to go on

absVars == <<source, at, cond, beat>>

INSTANCE SourceOrder

Init == source = << >> /\ at = NotStarted /\ cond = FALSE /\ beat = FALSE

(* One more token. *)
Write ==
  /\ at = NotStarted
  /\ source' # << >> /\ SubSeq(source', 1, Len(source') - 1) = source
  /\ UNCHANGED <<at, cond, beat>>

Start == at = NotStarted /\ at' = Arrive(1) /\ UNCHANGED <<source, cond, beat>>

Running == at \in 1 .. End

Do ==
  /\ Running /\ at # End /\ KindAt(at) = "op"
  /\ at' = Arrive(at + 1) /\ cond' = FALSE /\ beat' = ~beat
  /\ UNCHANGED source

Branch ==
  /\ Running /\ at # End /\ KindAt(at) \in {"if", "while"}
  /\ cond' \in BOOLEAN /\ beat' = ~beat
  /\ at' = Arrive(IF cond' THEN at + 1 ELSE Otherwise(at))
  /\ UNCHANGED source

Leave ==
  /\ Running /\ (at = End \/ KindAt(at) = "return")
  /\ at' = Left /\ cond' = FALSE /\ beat' = ~beat
  /\ UNCHANGED source

Next == Write \/ Start \/ Do \/ Branch \/ Leave

FlowSteps == Init /\ [][Next]_absVars

FlowSpec == FlowSteps /\ WF_absVars(Do \/ Branch \/ Leave)
=============================================================================

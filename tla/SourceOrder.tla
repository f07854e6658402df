---------------------------- MODULE SourceOrder ----------------------------
(***************************************************************************)
(* What a routine's tokens mean, one by one: which of them execute         *)
(* something, and where control goes on behind each.                       *)
(*                                                                         *)
(* A routine is the sequence of its tokens.  <<"op">> stands for every     *)
(* statement that is compiled in line; <<"if">> and <<"while">> stand for  *)
(* the condition and what introduces it; <<"else", i>>, <<"endif", i>> and *)
(* <<"endwhile", i>> end the parts of the if or while at i; <<"label", l>> *)
(* carries l to the statement after it; <<"goto", l>> and <<"return">> are *)
(* themselves.                                                             *)
(***************************************************************************)
EXTENDS Integers, Sequences

CONSTANT source     \* the tokens, or those written so far

(* Values of at that are no token: before the run, after it, and in a loop *)
(* of gotos that executes nothing.                                         *)
NotStarted == 0
Left == -1
Diverged == -2

End == Len(source) + 1

KindAt(i) == source[i][1]

Position(t) == CHOOSE i \in DOMAIN source : source[i] = t

Has(t) == \E i \in DOMAIN source : source[i] = t

Visible(i) == i = End \/ KindAt(i) \in {"op", "if", "while", "return"}

(* What follows a token that executes nothing. *)
After(i) ==
  CASE KindAt(i) \in {"label", "endif"} -> i + 1
    [] KindAt(i) = "else" -> Position(<<"endif", source[i][2]>>)
    [] KindAt(i) = "endwhile" -> source[i][2]
    [] KindAt(i) = "goto" -> Position(<<"label", source[i][2]>>)

(* The token control reaches from i, past those that execute nothing.      *)
Arrive(i) ==
  LET walk[n \in 0 .. Len(source)] ==
        [j \in 1 .. End |-> IF n = 0 \/ Visible(j) THEN j ELSE walk[n - 1][After(j)]]
      reached == walk[Len(source)][i]
  IN  IF Visible(reached) THEN reached ELSE Diverged

(* Where the if or while at i goes when its condition is false. *)
Otherwise(i) ==
  CASE KindAt(i) = "while"       -> Position(<<"endwhile", i>>) + 1
    [] Has(<<"else", i>>)        -> Position(<<"else", i>>) + 1
    [] OTHER                     -> Position(<<"endif", i>>) + 1
=============================================================================

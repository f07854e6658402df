---------------------------- MODULE MCControlFlow ----------------------------
(* Routines of every kind for ControlFlow. *)
EXTENDS ControlFlow

MCRoutines ==
  { [kind |-> "main", found |-> "none"], [kind |-> "function", found |-> "own"],
    [kind |-> "procedure", found |-> "outer"] }
=============================================================================

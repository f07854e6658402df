----------------------------- MODULE MCLibrary -----------------------------
(* Library with one ordinary character and short lines. *)
EXTENDS Library

MCLetters == {"letter"}
MCSizes == {-1, 1, 2, 3}
=============================================================================

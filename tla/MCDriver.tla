------------------------------ MODULE MCDriver ------------------------------
(* Driver with three sources: one beside the compiler, one in a directory  *)
(* of its own, and one whose name reads as an option; with a program for   *)
(* every verdict and a second good one.                                    *)
EXTENDS Driver

Source(dir, stem, says) == [dir |-> dir, stem |-> stem, says |-> says]
MCPaths == { Source("", "a", {}), Source("work", "a", {}), Source("work", "my-input", {"-i"}) }

Text(id, test) == [id |-> id, name |-> "heading", refusedBy |-> test]
MCPrograms == { Text(1, "none"), Text(2, "none"), Text(3, "parser"), Text(4, "semantic"), Text(5, "verifier") }
=============================================================================

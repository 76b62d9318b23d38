------------------------------- MODULE MCServer -------------------------------
(* Server for TLC: connections as model values; those of the workers are    *)
(* interchangeable, and so are the control connections.                     *)
EXTENDS ServerProperties, TLC

Symmetry == Permutations(Conns \ Controls) \cup Permutations(Controls)
=============================================================================

------------------------------- MODULE MCClient -------------------------------
(* Client for TLC; the configurations say how many requests, workers and    *)
(* slots there are and which faults may happen.                             *)
EXTENDS ClientProperties
=============================================================================

------------------------------- MODULE Survey -------------------------------
(***************************************************************************)
(* What the client as a whole promises its user: it collects N responses   *)
(* for every patient, each counted once, and reports only when all of them *)
(* have been counted.  It may give up instead, but never reports less.     *)
(* Threads, buffers, connections and shutdown messages do not show.        *)
(***************************************************************************)
EXTENDS Naturals

CONSTANTS
  Patients,  \* the names on the report
  N          \* the number of responses wanted for each

VARIABLES
  counted,   \* counted[p]: the responses counted for p so far
  outcome    \* "running", then "reported" or "aborted"

vars == <<counted, outcome>>

Init ==
  /\ counted = [p \in Patients |-> 0]
  /\ outcome = "running"

Count(p) ==
  /\ outcome = "running"
  /\ counted[p] < N
  /\ counted' = [counted EXCEPT ![p] = @ + 1]
  /\ UNCHANGED outcome

Report ==
  /\ outcome = "running"
  /\ \A p \in Patients : counted[p] = N
  /\ outcome' = "reported"
  /\ UNCHANGED counted

Abort ==
  /\ outcome = "running"
  /\ outcome' = "aborted"
  /\ UNCHANGED counted

Next == (\E p \in Patients : Count(p)) \/ Report \/ Abort

Spec == Init /\ [][Next]_vars
=============================================================================

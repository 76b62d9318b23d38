------------------------------ MODULE Connection ------------------------------
(***************************************************************************)
(* What the connections to a data server promise their two sides: a client *)
(* that asks waits for one answer; the server answers each request once,   *)
(* closes a connection only after "!", and stops only after "!!".  No      *)
(* promise survives a client that vanishes, and the server may fail.       *)
(*                                                                         *)
(* Server and Client both implement it: what Client takes for granted of   *)
(* the server, and Server of the clients, is what is shown of the other.   *)
(***************************************************************************)
EXTENDS Naturals

CONSTANTS
  Conns,    \* the connections clients may make
  Controls  \* those of them that are control connections

VARIABLES
  phase,     \* phase[c]: what the client is doing with connection c
  open,      \* the connections the server has not closed
  requests,  \* requests[c]: sent and not yet answered
  answers,   \* answers[c]: sent and not yet received
  server     \* "up", "stopped" as it was told to, or "failed"

vars == <<phase, open, requests, answers, server>>

Init ==
  /\ phase = [c \in Conns |-> "new"]
  /\ open = {}
  /\ requests = [c \in Conns |-> 0]
  /\ answers = [c \in Conns |-> 0]
  /\ server = "up"

Becomes(c, p) == phase' = [phase EXCEPT ![c] = p]

-----------------------------------------------------------------------------
(* Steps of a client.                                                      *)

Connect(c) ==
  /\ server = "up"
  /\ phase[c] = "new" /\ Becomes(c, "idle")
  /\ open' = open \cup {c}
  /\ UNCHANGED <<requests, answers, server>>

Ask(c) ==
  /\ c \notin Controls
  /\ phase[c] = "idle" /\ Becomes(c, "waiting")
  /\ requests' = [requests EXCEPT ![c] = @ + 1]
  /\ UNCHANGED <<open, answers, server>>

Receive(c) ==
  /\ phase[c] = "waiting" /\ Becomes(c, "idle")
  /\ answers[c] > 0
  /\ answers' = [answers EXCEPT ![c] = @ - 1]
  /\ UNCHANGED <<open, requests, server>>

Leave(c) ==
  /\ phase[c] = "idle" /\ Becomes(c, "left")
  /\ UNCHANGED <<open, requests, answers, server>>

\* A process that ends takes all its connections with it.
Vanish(S) ==
  LET without(counts) == [c \in Conns |-> IF c \in S THEN 0 ELSE counts[c]] IN
  /\ \A c \in S : phase[c] \in {"idle", "waiting"}
  /\ phase' = [c \in Conns |-> IF c \in S THEN "gone" ELSE phase[c]]
  /\ requests' = without(requests)
  /\ answers' = without(answers)
  /\ UNCHANGED <<open, server>>

-----------------------------------------------------------------------------
(* Steps of the server.                                                    *)

Answer(c) ==
  /\ server = "up"
  /\ c \in open
  /\ requests[c] > 0
  /\ requests' = [requests EXCEPT ![c] = @ - 1]
  /\ answers' = [answers EXCEPT ![c] = @ + 1]
  /\ UNCHANGED <<phase, open, server>>

Close(c) ==
  /\ server = "up"
  /\ phase[c] \in {"left", "gone"}
  /\ open' = open \ {c}
  /\ UNCHANGED <<phase, requests, answers, server>>

Stop ==
  /\ server = "up"
  /\ \E c \in Conns : phase[c] = "gone" \/ (c \in Controls /\ phase[c] = "left")
  /\ server' = "stopped"
  /\ UNCHANGED <<phase, open, requests, answers>>

Fail ==
  /\ server = "up"
  /\ server' = "failed"
  /\ UNCHANGED <<phase, open, requests, answers>>

-----------------------------------------------------------------------------
Next ==
  \/ \E c \in Conns : \/ Connect(c) \/ Ask(c) \/ Receive(c) \/ Leave(c)
                      \/ Answer(c) \/ Close(c)
  \/ \E S \in SUBSET Conns : Vanish(S)
  \/ Stop \/ Fail

Spec == Init /\ [][Next]_vars
=============================================================================

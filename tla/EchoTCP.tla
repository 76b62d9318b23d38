------------------------------- MODULE EchoTCP -------------------------------
(***************************************************************************)
(* The prototypes of the data server and of a client: pa7/ServerTCP.cpp    *)
(* and pa7/ClientTCP.cpp.  server() and server_thread_function are those   *)
(* of Server line for line, but for the answer: "Hello to you" to anything *)
(* that does not begin with "!".  ClientTCP is interactive and, unlike the *)
(* workers of client.cpp, ignores what send and recv return.               *)
(*                                                                         *)
(* `program' says which of the two servers runs: dataserver with the       *)
(* clients of Server, or ServerTCP with ClientTCP on every connection.     *)
(***************************************************************************)
EXTENDS ServerProperties

VARIABLES
  program,  \* "dataserver" or "ServerTCP"
  buf       \* buf[c]: the buffer of ClientTCP: what it sent or received last

echoVars == <<program, buf>>
allVars == <<vars, echoVars>>

EchoInit ==
  /\ Init
  /\ program \in {"dataserver", "ServerTCP"}
  /\ buf = [c \in Conns |-> ""]

Echoes == program = "ServerTCP"

\* The one difference between the two servers.
Hello(t) == Sends(t, "other", "Hello to you")

echo_thread_function(t) ==
  \/ ReadArgument(t) \/ Recv(t) \/ RecvNothing(t)
  \/ ExitServer(t) \/ CloseConnection(t) \/ Hello(t) \/ ReplyKills(t)

-----------------------------------------------------------------------------
(* client() of ClientTCP on connection c.                                  *)

Connected(c) == Running /\ Held(c)

ConnectRefused(c) ==
  /\ ~Running
  /\ client[c] = "new"
  /\ client' = [client EXCEPT ![c] = "ended"]
  /\ UNCHANGED <<proc, mainVars, threads, owner, backlog, asked, netVars,
                 failures, astray, buf>>

\* "!" and "!!" are sent as they are typed, "test data" for anything else.
Typed == {"other", "!", "!!"}
Say(c, m) ==
  /\ client[c] = "idle"
  /\ m = "other" => asked[c] < MaxRequests
  /\ asked' = [asked EXCEPT ![c] = IF m = "other" THEN @ + 1 ELSE @]
  /\ buf' = [buf EXCEPT ![c] = m]
  /\ client' = [client EXCEPT ![c] = "waiting"]
  /\ up' = IF Connected(c) THEN [up EXCEPT ![c] = Append(@, m)] ELSE up
  /\ UNCHANGED <<proc, mainVars, threads, owner, backlog, down, reset, failures,
                 astray>>

\* send() to a server that is gone may raise SIGPIPE.
SayKills(c) ==
  /\ client[c] = "idle"
  /\ ~Connected(c)
  /\ client' = [client EXCEPT ![c] = "gone"]
  /\ UNCHANGED <<proc, mainVars, threads, owner, backlog, asked, netVars,
                 failures, astray, buf>>

\* No answer begins with "!": the loop goes on.
Hear(c) ==
  /\ client[c] = "waiting"
  /\ down[c] # <<>>
  /\ buf' = [buf EXCEPT ![c] = Head(down[c])]
  /\ down' = [down EXCEPT ![c] = Tail(@)]
  /\ client' = [client EXCEPT ![c] = "idle"]
  /\ UNCHANGED <<proc, mainVars, threads, owner, backlog, asked, up, reset,
                 failures, astray>>

HearsNothing(c, left) ==
  /\ client[c] = "waiting"
  /\ down[c] = <<>>
  /\ ~Connected(c)
  /\ buf' = [buf EXCEPT ![c] = left]
  /\ client' = [client EXCEPT ![c] = IF left \in {"!", "!!"} THEN "ended"
                                     ELSE "idle"]
  /\ UNCHANGED <<proc, mainVars, threads, owner, backlog, asked, netVars,
                 failures, astray>>

\* Mutant of HearNothing: the buffer is cleared before recv().
HearNothingCleared(c) == HearsNothing(c, "")

\* recv() returns 0 or -1, which nobody looks at: what was sent is still in
\* the buffer, is printed as received, and ends the loop if it begins with "!".
HearNothing(c) == HearsNothing(c, buf[c])

ClientTCP(c) ==
  \/ (Connect(c) \/ Vanish(c)) /\ UNCHANGED buf
  \/ ConnectRefused(c)
  \/ \E m \in Typed : Say(c, m)
  \/ SayKills(c) \/ Hear(c) \/ HearNothing(c)

-----------------------------------------------------------------------------
EchoNext ==
  /\ UNCHANGED program
  /\ \/ /\ ~Echoes /\ Next /\ UNCHANGED buf
     \/ /\ Echoes
        /\ \/ handle_process_loop /\ UNCHANGED buf
           \/ \E t \in DOMAIN threads : echo_thread_function(t) /\ UNCHANGED buf
           \/ \E c \in Conns : ClientTCP(c)

EchoSpec == EchoInit /\ [][EchoNext]_allVars

(***************************************************************************)
(* For dataserver the fairness of Server.  For ServerTCP its threads are   *)
(* scheduled likewise, recv() returns when it can, and a user who is there *)
(* types on: after MaxRequests messages "!" or "!!".                       *)
(***************************************************************************)
EchoFairness ==
  /\ WF_allVars(handle_process_loop /\ UNCHANGED echoVars)
  /\ \A t \in 1..Cardinality(Conns) :
       WF_allVars(/\ t \in DOMAIN threads /\ UNCHANGED echoVars
                  /\ IF Echoes THEN echo_thread_function(t)
                     ELSE server_thread_function(t))
  /\ \A c \in Conns :
       /\ WF_allVars(~Echoes /\ Receive(c) /\ UNCHANGED echoVars)
       /\ WF_allVars(~Echoes /\ Leave(c) /\ UNCHANGED echoVars)
       /\ WF_allVars(/\ Echoes /\ UNCHANGED program
                     /\ \/ \E m \in Typed : Say(c, m)
                        \/ SayKills(c) \/ Hear(c) \/ HearNothing(c))

EchoFairSpec == EchoSpec /\ EchoFairness

-----------------------------------------------------------------------------
(***************************************************************************)
(* "Received ... from the server" (ClientTCP.cpp:60) is printed of buf,    *)
(* whether recv() received anything or not.  While ServerTCP runs, a       *)
(* ClientTCP that types on has printed only what the server said; its own  *)
(* text is printed as the server's in one case, the "!" it said goodbye    *)
(* with, and that ends it (61).                                            *)
(***************************************************************************)
OwnTextIsTheGoodbye ==
  Echoes /\ Running /\ ~astray =>
    \A c \in Conns :
      /\ client[c] = "idle" => buf[c] \in {"", "Hello to you"}
      /\ client[c] = "ended" => buf[c] = "!"

(***************************************************************************)
(* A client whose user typed "!" or "!!" ends.  No reply says so: it is    *)
(* the server's closing the connection, or its exit, that leaves the "!"   *)
(* in the buffer for the test of ClientTCP.cpp:61.                         *)
(***************************************************************************)
GoodbyeEnds ==
  []~astray => \A c \in Conns :
    (client[c] = "waiting" /\ buf[c] \in {"!", "!!"})
      ~> client[c] \in {"ended", "gone"}
=============================================================================

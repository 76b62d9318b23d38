--------------------------- MODULE ServerProperties ---------------------------
(***************************************************************************)
(* What is checked of Server.  A thread gets its descriptor through a      *)
(* pointer that may dangle (ServesItsConnection); the other properties     *)
(* say what holds as long as that has not happened.                        *)
(***************************************************************************)
EXTENDS Server, Functions

Serving(t) == threads[t].at \in {"recv", "handle"}
Handling(c) ==
  {t \in DOMAIN threads : /\ threads[t].at = "handle"
                          /\ Socket(threads[t].my_fd) = c}

(***************************************************************************)
(* Each thread serves the connection it was created for: its descriptor    *)
(* was copied "to ensure deep copy" (pa7/reqchannel.cpp:169).  The thread  *)
(* gets a pointer to the copy (171), and the next connection may move the  *)
(* copies before the thread has read its own (46).                         *)
(***************************************************************************)
ServesItsConnection ==
  \A t \in DOMAIN threads :
    Serving(t) => Socket(threads[t].my_fd) = threads[t].conn

(***************************************************************************)
(* As long as no thread has read a wrong descriptor, open descriptors,     *)
(* connections and threads match one to one, although descriptors are      *)
(* closed and given out again (reqchannel.cpp:58, 164).                    *)
(***************************************************************************)
OneThreadEach ==
  ~astray =>
    /\ ServesItsConnection
    /\ \A fd \in Fds : owner[fd] # NoConn =>
         Cardinality({t \in DOMAIN threads :
                        threads[t].at # "done" /\ new_fds[t] = fd})
           + (IF new_fd = fd THEN 1 ELSE 0) = 1
    /\ \A fd, x \in Fds : owner[fd] = owner[x] /\ owner[fd] # NoConn => fd = x

(***************************************************************************)
(* A client that waits has its request in exactly one place: on the way,   *)
(* with one thread, or answered; and the answer is a number.  The result   *)
(* of recv is ignored (reqchannel.cpp:49), so this depends on its never    *)
(* failing while the client is there.                                      *)
(***************************************************************************)
AnsweredOnce ==
  ~astray => \A c \in Conns :
    /\ client[c] = "waiting" =>
         Len(up[c]) + Cardinality(Handling(c)) + Len(down[c]) = 1
    /\ client[c] = "idle" => up[c] = <<>> /\ Handling(c) = {} /\ down[c] = <<>>
    /\ \A x \in DOMAIN down[c] : down[c][x] = "number"

(***************************************************************************)
(* The server ends because a control connection said "!!", or because a    *)
(* client vanished without its "!": then recv fails, the thread goes on    *)
(* with what its buffer holds, and its answers end in SIGPIPE or in an     *)
(* exit (reqchannel.cpp:49-75).                                            *)
(***************************************************************************)
EndsForAReason ==
  ~astray /\ proc \in {"exit 0", "killed"} =>
    \/ \E c \in Conns : client[c] = "gone"
    \/ proc = "exit 0" /\ \E c \in Controls : client[c] \in {"left", "ended"}

-----------------------------------------------------------------------------
(* The server implements Connection.                                       *)

Held(c) == c \in Range(backlog) \/ \E fd \in Fds : owner[fd] = c
DataUnderWay(c) ==
  Cardinality({x \in DOMAIN up[c] : up[c][x] = "data"})
    + Cardinality({t \in Handling(c) : threads[t].buf = "data"})

Promise == INSTANCE Connection WITH
  phase    <- [c \in Conns |-> IF client[c] = "ended" THEN "left" ELSE client[c]],
  open     <- {c \in Conns : Held(c)},
  requests <- [c \in Conns |-> IF client[c] = "gone" THEN 0 ELSE DataUnderWay(c)],
  answers  <- [c \in Conns |-> IF client[c] = "gone" THEN 0 ELSE Len(down[c])],
  server   <- IF Running THEN "up"
              ELSE IF proc = "exit 1" THEN "failed" ELSE "stopped"

(***************************************************************************)
(* As long as no thread has read a wrong descriptor, each connection goes  *)
(* its own way through the protocol: each request is answered once, on the *)
(* connection it came from, only a connection that said "!" is closed, and *)
(* the server stops only after "!!" or when a client vanished              *)
(* (server_thread_function, reqchannel.cpp:44-81).                         *)
(***************************************************************************)
ImplementsConnection ==
  Promise!Init /\ [][~astray' => Promise!Next]_(Promise!vars)

(***************************************************************************)
(* Accept failures are survived: after one, the loop skips a pass and      *)
(* accepts again (reqchannel.cpp:163-167, 184), so a client that asks is   *)
(* answered in the end, unless the server ends or a thread went astray.    *)
(***************************************************************************)
EveryoneIsServed ==
  []~astray =>
    \A c \in Conns : client[c] = "waiting" ~> (client[c] # "waiting" \/ ~Running)
=============================================================================

-------------------------------- MODULE Server --------------------------------
(***************************************************************************)
(* The data server (pa7/reqchannel.cpp, NetworkRequestChannel on the       *)
(* SERVER_SIDE, started by pa7/dataserver.cpp): the accept loop of         *)
(* handle_process_loop and one server_thread_function per connection.      *)
(*                                                                         *)
(* The other side of a connection does what pa7/client.cpp does with it.   *)
(* A worker's connection carries requests, one at a time (see Connection), *)
(* then "!"; a control connection carries "!!" only.  A client may also    *)
(* vanish, as a process does that exits or is killed.                      *)
(*                                                                         *)
(* External semantics (POSIX sockets): accept returns the lowest free      *)
(* descriptor; recv blocks while the peer is there and has sent nothing,   *)
(* and fails or returns 0 once it is gone; the first send to a peer that   *)
(* is gone succeeds and draws a reset, a later one raises SIGPIPE or       *)
(* fails.                                                                  *)
(***************************************************************************)
EXTENDS Integers, Sequences, FiniteSets

CONSTANTS
  Conns,        \* the connections clients may make
  Controls,     \* those of them that are control connections
  MaxFds,       \* how many descriptors the process may hold for them
  MaxRequests,  \* bound: requests per connection
  MaxFailures,  \* bound: calls of accept and pthread_create that just fail
  MayVanish,    \* whether a client may vanish before it said "!" or "!!"
  NoConn        \* what a descriptor that is not open stands for

ASSUME ConnsAssumption ==
  IsFiniteSet(Conns) /\ Controls \subseteq Conns /\ NoConn \notin Conns
ASSUME BoundsAssumption ==
  MaxFds \in Nat /\ MaxRequests \in Nat /\ MaxFailures \in Nat
ASSUME MayVanishAssumption == MayVanish \in BOOLEAN

VARIABLES
  proc,      \* what became of the server process
  new_fd,    \* the local of handle_process_loop: 0, -1 or a descriptor
  new_fds,   \* its vector<int>
  capacity,  \* how many elements fit in the memory of the vector
  block,     \* the number of the memory block the vector occupies
  threads,   \* the server threads, one for each element of new_fds
  owner,     \* owner[fd]: the connection the descriptor stands for
  backlog,   \* the connections that wait for accept
  client,    \* client[c]: what the client is doing with connection c
  asked,     \* asked[c]: how many requests it has sent
  up,        \* up[c]: what was sent to the server and not yet received
  down,      \* down[c]: what was sent to the client and not yet received
  reset,     \* the connections whose server end has been reset
  failures,  \* the calls that failed so far
  astray     \* history: a thread has read a wrong descriptor

mainVars == <<new_fd, new_fds, capacity, block>>
clientVars == <<client, asked>>
netVars == <<up, down, reset>>
vars == <<proc, mainVars, threads, owner, backlog, clientVars, netVars,
          failures, astray>>

Fds == 1..MaxFds
BadFd == MaxFds + 1
Messages == {"data", "other", "!", "!!"}

\* What dataserver may answer, and ServerTCP (see EchoTCP).
Replies == {"number", "unknown stuff", "Hello to you"}

\* The content of buf before anything was received into it.
Garbage == "garbage"

Thread == [at : {"start", "recv", "handle", "done"},
           arg : Nat,                    \* the block its argument points into
           my_fd : Fds \cup {0, BadFd},
           buf : Messages \cup {Garbage},
           conn : Conns \cup {NoConn}]   \* history: the connection it is for

TypeOK ==
  /\ proc \in {"running", "exit 0", "exit 1", "killed"}
  /\ new_fd \in Fds \cup {0, -1}
  /\ new_fds \in Seq(Fds)
  /\ capacity \in Nat /\ Len(new_fds) <= capacity
  /\ block \in Nat
  /\ threads \in Seq(Thread) /\ Len(threads) = Len(new_fds)
  /\ owner \in [Fds -> Conns \cup {NoConn}]
  /\ backlog \in Seq(Conns)
  /\ client \in [Conns -> {"new", "idle", "waiting", "left", "gone", "ended"}]
  /\ asked \in [Conns -> 0..MaxRequests]
  /\ up \in [Conns -> Seq(Messages)]
  /\ down \in [Conns -> Seq(Replies)]
  /\ reset \subseteq Conns
  /\ failures \in 0..MaxFailures
  /\ astray \in BOOLEAN

\* The constructor on the SERVER_SIDE has bound the port and listens.
Init ==
  /\ proc = "running"
  /\ new_fd = 0
  /\ new_fds = <<>>
  /\ capacity = 0
  /\ block = 0
  /\ threads = <<>>
  /\ owner = [fd \in Fds |-> NoConn]
  /\ backlog = <<>>
  /\ client = [c \in Conns |-> "new"]
  /\ asked = [c \in Conns |-> 0]
  /\ up = [c \in Conns |-> <<>>]
  /\ down = [c \in Conns |-> <<>>]
  /\ reset = {}
  /\ failures = 0
  /\ astray = FALSE

Running == proc = "running"
Ends(fate) ==
  /\ proc' = fate
  /\ UNCHANGED <<mainVars, threads, owner, backlog, clientVars, netVars,
                 failures, astray>>

-----------------------------------------------------------------------------
(* handle_process_loop                                                     *)

FreeFds == {fd \in Fds : owner[fd] = NoConn}
Lowest(S) == CHOOSE x \in S : \A y \in S : x <= y

Accept ==
  /\ Running
  /\ new_fd = 0
  /\ backlog # <<>>
  /\ FreeFds # {}
  /\ new_fd' = Lowest(FreeFds)
  /\ owner' = [owner EXCEPT ![Lowest(FreeFds)] = Head(backlog)]
  /\ backlog' = Tail(backlog)
  /\ UNCHANGED <<proc, new_fds, capacity, block, threads, clientVars, netVars,
                 failures, astray>>

\* accept returns -1: out of descriptors, or for a reason of its own.
AcceptFails ==
  /\ Running
  /\ new_fd = 0
  /\ \/ FreeFds = {} /\ UNCHANGED failures
     \/ failures < MaxFailures /\ failures' = failures + 1
  /\ new_fd' = -1
  /\ UNCHANGED <<proc, new_fds, capacity, block, threads, owner, backlog,
                 clientVars, netVars, astray>>

\* Mutant of SkipAfterFailure: "new_fd = 0" is inside the if.
SkipForEver ==
  /\ Running
  /\ new_fd = -1
  /\ UNCHANGED vars

\* After "continue" the next pass skips accept and ends with new_fd = 0.
SkipAfterFailure ==
  /\ Running
  /\ new_fd = -1
  /\ new_fd' = 0
  /\ UNCHANGED <<proc, new_fds, capacity, block, threads, owner, backlog,
                 clientVars, netVars, failures, astray>>

\* push_back of new_fd, pthread_create with the address of the new element,
\* and pthread_detach.
Starts ==
  /\ Running
  /\ new_fd \in Fds
  /\ new_fds' = Append(new_fds, new_fd)
  /\ threads' = Append(threads, [at |-> "start", arg |-> block', my_fd |-> 0,
                                 buf |-> Garbage, conn |-> owner[new_fd]])
  /\ new_fd' = 0
  /\ UNCHANGED <<proc, owner, backlog, clientVars, netVars, failures, astray>>

\* Mutant of StartThread: the vector does not grow.
StartThreadInPlace == UNCHANGED <<capacity, block>> /\ Starts

\* push_back moves a vector that is full to a larger block.
StartThread ==
  /\ IF Len(new_fds) = capacity
     THEN /\ capacity' = (IF capacity = 0 THEN 1 ELSE 2 * capacity)
          /\ block' = block + 1
     ELSE UNCHANGED <<capacity, block>>
  /\ Starts

StartThreadFails ==
  /\ Running
  /\ new_fd \in Fds
  /\ failures < MaxFailures
  /\ Ends("exit 1")

handle_process_loop ==
  Accept \/ AcceptFails \/ SkipAfterFailure \/ StartThread \/ StartThreadFails

-----------------------------------------------------------------------------
(* server_thread_function, thread t                                        *)

ThreadAt(t, point) == Running /\ threads[t].at = point

\* The connection a descriptor stands for, if it is open.
Socket(fd) == IF fd \in Fds THEN owner[fd] ELSE NoConn
PeerGone(c) == client[c] \in {"gone", "ended"}

\* "int my_fd = *((int*) arg)".  If the vector has moved since, the memory is
\* freed and may hold anything.
ReadArgument(t) ==
  /\ ThreadAt(t, "start")
  /\ \E fd \in IF threads[t].arg = block THEN {new_fds[t]}
               ELSE Fds \cup {BadFd} :
       /\ threads' = [threads EXCEPT ![t].my_fd = fd, ![t].at = "recv"]
       /\ astray' = (astray \/ fd # new_fds[t])
  /\ UNCHANGED <<proc, mainVars, owner, backlog, clientVars, netVars, failures>>

Recv(t) ==
  LET c == Socket(threads[t].my_fd) IN
  /\ ThreadAt(t, "recv")
  /\ c # NoConn
  /\ up[c] # <<>>
  /\ threads' = [threads EXCEPT ![t].buf = Head(up[c]), ![t].at = "handle"]
  /\ up' = [up EXCEPT ![c] = Tail(@)]
  /\ UNCHANGED <<proc, mainVars, owner, backlog, clientVars, down, reset,
                 failures, astray>>

HandlesAnyway(t) ==
  /\ ThreadAt(t, "recv")
  /\ threads' = [threads EXCEPT ![t].at = "handle"]
  /\ UNCHANGED <<proc, mainVars, owner, backlog, clientVars, netVars, failures,
                 astray>>

\* Mutant of RecvNothing: recv does not block.
RecvAtOnce(t) == HandlesAnyway(t)

\* recv returns 0 or -1, which nobody looks at: buf is what it was.
RecvNothing(t) ==
  LET c == Socket(threads[t].my_fd) IN
  /\ c # NoConn => up[c] = <<>> /\ PeerGone(c)
  /\ HandlesAnyway(t)

\* What buf says; a buffer nothing was received into may say anything.
Says(t, m) == threads[t].buf \in {m, Garbage}

\* Mutant of ExitServer: the second "!" is not looked at.
ExitOnOne(t) ==
  /\ ThreadAt(t, "handle")
  /\ Says(t, "!!") \/ Says(t, "!")
  /\ Ends("exit 0")

\* "!!": exit(0)
ExitServer(t) ==
  /\ ThreadAt(t, "handle")
  /\ Says(t, "!!")
  /\ Ends("exit 0")

\* close(my_fd), which fails on a descriptor that is not open.
Closes(t, point) ==
  LET fd == threads[t].my_fd IN
  /\ ThreadAt(t, "handle")
  /\ owner' = [x \in Fds |-> IF x = fd THEN NoConn ELSE owner[x]]
  /\ threads' = [threads EXCEPT ![t].at = point]
  /\ UNCHANGED <<proc, mainVars, backlog, clientVars, netVars, failures, astray>>

\* Mutants of CloseConnection: no "break"; one request per connection.
CloseAndGoOn(t) == Says(t, "!") /\ Closes(t, "recv")
CloseAfterAny(t) == Closes(t, "done")

\* "!"
CloseConnection(t) == Says(t, "!") /\ Closes(t, "done")

\* send() of the answer to m.
Sends(t, m, answer) ==
  LET c == Socket(threads[t].my_fd) IN
  /\ ThreadAt(t, "handle")
  /\ Says(t, m)
  /\ threads' = [threads EXCEPT ![t].buf = m, ![t].at = "recv"]
  /\ IF c = NoConn THEN UNCHANGED netVars
     ELSE IF PeerGone(c)
     THEN reset' = reset \cup {c} /\ UNCHANGED <<up, down>>
     ELSE down' = [down EXCEPT ![c] = Append(@, answer)] /\ UNCHANGED <<up, reset>>
  /\ UNCHANGED <<proc, mainVars, owner, backlog, clientVars, failures, astray>>

\* A number for "data", "unknown stuff" for anything else.
Reply(t) == Sends(t, "data", "number") \/ Sends(t, "other", "unknown stuff")

\* SIGPIPE on a connection that has been reset.
ReplyKills(t) ==
  /\ ThreadAt(t, "handle")
  /\ Says(t, "data") \/ Says(t, "other")
  /\ Socket(threads[t].my_fd) \in reset
  /\ Ends("killed")

server_thread_function(t) ==
  \/ ReadArgument(t) \/ Recv(t) \/ RecvNothing(t)
  \/ ExitServer(t) \/ CloseConnection(t) \/ Reply(t) \/ ReplyKills(t)

-----------------------------------------------------------------------------
(* The clients.                                                            *)

Connect(c) ==
  /\ Running
  /\ client[c] = "new"
  /\ client' = [client EXCEPT ![c] = "idle"]
  /\ backlog' = Append(backlog, c)
  /\ UNCHANGED <<proc, mainVars, threads, owner, asked, netVars, failures,
                 astray>>

\* cwrite of a request by a worker.
Ask(c) ==
  /\ Running
  /\ c \notin Controls
  /\ client[c] = "idle"
  /\ asked[c] < MaxRequests
  /\ client' = [client EXCEPT ![c] = "waiting"]
  /\ asked' = [asked EXCEPT ![c] = @ + 1]
  /\ up' = [up EXCEPT ![c] = Append(@, "data")]
  /\ UNCHANGED <<proc, mainVars, threads, owner, backlog, down, reset, failures,
                 astray>>

\* cread of the response.
Receive(c) ==
  /\ Running
  /\ client[c] = "waiting"
  /\ down[c] # <<>>
  /\ client' = [client EXCEPT ![c] = "idle"]
  /\ down' = [down EXCEPT ![c] = Tail(@)]
  /\ UNCHANGED <<proc, mainVars, threads, owner, backlog, asked, up, reset,
                 failures, astray>>

\* cwrite("!") by a worker, cwrite("!!") by main().
Leave(c) ==
  /\ Running
  /\ client[c] = "idle"
  /\ client' = [client EXCEPT ![c] = "left"]
  /\ up' = [up EXCEPT ![c] = Append(@, IF c \in Controls THEN "!!" ELSE "!")]
  /\ UNCHANGED <<proc, mainVars, threads, owner, backlog, asked, down, reset,
                 failures, astray>>

\* The client process is gone: after its last message, or too early.
Vanish(c) ==
  /\ Running
  /\ \/ client[c] = "left" /\ client' = [client EXCEPT ![c] = "ended"]
     \/ /\ MayVanish
        /\ client[c] \in {"idle", "waiting"}
        /\ client' = [client EXCEPT ![c] = "gone"]
  /\ reset' = IF down[c] = <<>> THEN reset ELSE reset \cup {c}
  /\ UNCHANGED <<proc, mainVars, threads, owner, backlog, asked, up, down,
                 failures, astray>>

Client(c) == Connect(c) \/ Ask(c) \/ Receive(c) \/ Leave(c) \/ Vanish(c)

-----------------------------------------------------------------------------
\* The process is gone: nothing more happens.
Gone == ~Running /\ UNCHANGED vars

Next ==
  \/ handle_process_loop
  \/ \E t \in DOMAIN threads : server_thread_function(t)
  \/ \E c \in Conns : Client(c)
  \/ Gone

Spec == Init /\ [][Next]_vars

(***************************************************************************)
(* main() and every server thread are run by the scheduler, and a client   *)
(* that is there reads its answer and comes to its last message.  Nothing  *)
(* makes a client connect, ask or vanish, or a call fail; there are at     *)
(* most as many threads as connections.                                    *)
(***************************************************************************)
Fairness ==
  /\ WF_vars(handle_process_loop)
  /\ \A t \in 1..Cardinality(Conns) :
       WF_vars(t \in DOMAIN threads /\ server_thread_function(t))
  /\ \A c \in Conns : WF_vars(Receive(c)) /\ WF_vars(Leave(c))

FairSpec == Spec /\ Fairness
=============================================================================

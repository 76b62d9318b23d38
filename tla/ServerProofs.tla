----------------------------- MODULE ServerProofs -----------------------------
(***************************************************************************)
(* Theorems about Server, for any connections, descriptors, requests and   *)
(* failures: the types, who serves which connection, what is under way on  *)
(* it, and why the server ends.                                            *)
(***************************************************************************)
EXTENDS ServerProperties, TLAPS, FiniteSetTheorems

-----------------------------------------------------------------------------
\* A message is sent on one of several connections.
LEMMA Appended ==
  ASSUME NEW D, NEW S, NEW t \in [D -> Seq(S)], NEW d \in D, NEW s \in S
  PROVE  [t EXCEPT ![d] = Append(@, s)] \in [D -> Seq(S)]
OBVIOUS

\* A message is received on one of them.
LEMMA Removed ==
  ASSUME NEW D, NEW S, NEW t \in [D -> Seq(S)], NEW d \in D, t[d] # <<>>
  PROVE  [t EXCEPT ![d] = Tail(@)] \in [D -> Seq(S)]
OBVIOUS

\* One message, sent on a connection where nothing is under way.
LEMMA Singles ==
  /\ \A e : /\ Append(<<>>, e) = <<e>> /\ <<e>> # <<>>
            /\ Head(<<e>>) = e /\ Tail(<<e>>) = <<>>
            /\ \A x \in DOMAIN <<e>> : <<e>>[x] = e
  /\ DOMAIN <<>> = {}
<1>1. \A e : Append(<<>>, e) = <<e>> /\ <<e>> # <<>>
  OBVIOUS
<1>2. \A e : Head(<<e>>) = e /\ Tail(<<e>>) = <<>>
  OBVIOUS
<1>3. \A e : DOMAIN <<e>> = {1} /\ <<e>>[1] = e
  OBVIOUS
<1>4. DOMAIN <<>> = {}
  OBVIOUS
<1> QED
  BY <1>1, <1>2, <1>3, <1>4

\* accept has a descriptor to return: there is a lowest among the free ones.
LEMMA LowestFree ==
  ASSUME FreeFds # {}
  PROVE  Lowest(FreeFds) \in FreeFds
<1>1. FreeFds \subseteq Nat
  BY BoundsAssumption DEF FreeFds, Fds
<1>2. PICK x \in FreeFds :
        \A y \in FreeFds : ~(<<y, x>> \in OpToRel(<, Nat))
  BY <1>1, NatLessThanWellFounded, WFMin
<1>3. \A y \in FreeFds : <<y, x>> \in OpToRel(<, Nat) <=> y < x
  BY <1>1 DEF OpToRel
<1>4. \A y \in FreeFds : ~(y < x)
  BY <1>2, <1>3, Zenon
<1>5. \A y \in FreeFds : x <= y
  BY <1>1, <1>4
<1> QED
  BY <1>5 DEF Lowest

\* Whatever happens is one of these.
LEMMA Steps ==
  ASSUME [Next]_vars
  PROVE  \/ UNCHANGED vars
         \/ Accept \/ AcceptFails \/ SkipAfterFailure
         \/ StartThread \/ StartThreadFails
         \/ \E t \in DOMAIN threads :
              \/ ReadArgument(t) \/ Recv(t) \/ RecvNothing(t) \/ ExitServer(t)
              \/ CloseConnection(t) \/ Reply(t) \/ ReplyKills(t)
         \/ \E c \in Conns :
              \/ Connect(c) \/ Ask(c) \/ Receive(c) \/ Leave(c) \/ Vanish(c)
BY DEF Next, handle_process_loop, server_thread_function, Client, Gone

-----------------------------------------------------------------------------
(***************************************************************************)
(* A step of thread t moves it on and leaves the others alone.             *)
(***************************************************************************)
Becomes(t, point, fd, said) ==
  /\ threads' \in Seq(Thread) /\ Len(threads') = Len(threads)
  /\ threads'[t].at = point
  /\ threads'[t].my_fd = fd
  /\ threads'[t].buf = said
  /\ threads'[t].conn = threads[t].conn
  /\ \A u \in DOMAIN threads \ {t} : threads'[u] = threads[u]

\* The fields of a thread.
LEMMA ThreadFields ==
  ASSUME NEW e \in Thread
  PROVE  /\ e.at \in {"start", "recv", "handle", "done"}
         /\ e.arg \in Nat
         /\ e.my_fd \in Fds \cup {0, BadFd}
         /\ e.buf \in Messages \cup {Garbage}
         /\ e.conn \in Conns \cup {NoConn}
BY DEF Thread

\* Writing the fields of thread t is what Becomes says.
LEMMA ThreadMoves ==
  ASSUME threads \in Seq(Thread), NEW t \in DOMAIN threads,
         NEW point \in {"start", "recv", "handle", "done"},
         NEW fd \in Fds \cup {0, BadFd},
         NEW said \in Messages \cup {Garbage},
         threads' = [threads EXCEPT ![t] =
                       [@ EXCEPT !.at = point, !.my_fd = fd, !.buf = said]]
  PROVE  Becomes(t, point, fd, said)
<1> DEFINE e == [threads[t] EXCEPT !.at = point, !.my_fd = fd, !.buf = said]
<1>1. threads[t] \in Thread
  OBVIOUS
<1>2. /\ e \in Thread
      /\ e.at = point /\ e.my_fd = fd /\ e.buf = said /\ e.conn = threads[t].conn
  BY <1>1 DEF Thread
<1>3. threads' = [threads EXCEPT ![t] = e]
  OBVIOUS
<1> HIDE DEF e
<1>4. threads' \in Seq(Thread) /\ Len(threads') = Len(threads)
  BY <1>2, <1>3
<1>5. threads'[t] = e /\ \A u \in DOMAIN threads \ {t} : threads'[u] = threads[u]
  BY <1>3
<1> QED
  BY <1>2, <1>4, <1>5 DEF Becomes

\* The three ways to write to a thread, and what is in the other fields.
LEMMA ThreadWrites ==
  ASSUME threads \in Seq(Thread), NEW t \in DOMAIN threads,
         NEW point, NEW fd, NEW said
  PROVE  /\ [threads EXCEPT ![t].my_fd = fd, ![t].at = point]
              = [threads EXCEPT ![t] = [@ EXCEPT !.at = point, !.my_fd = fd,
                                                !.buf = threads[t].buf]]
         /\ [threads EXCEPT ![t].buf = said, ![t].at = point]
              = [threads EXCEPT ![t] = [@ EXCEPT !.at = point,
                                                !.my_fd = threads[t].my_fd,
                                                !.buf = said]]
         /\ [threads EXCEPT ![t].at = point]
              = [threads EXCEPT ![t] = [@ EXCEPT !.at = point,
                                                !.my_fd = threads[t].my_fd,
                                                !.buf = threads[t].buf]]
<1>1. threads[t] \in Thread
  OBVIOUS
<1> QED
  BY <1>1 DEF Thread

\* What the types say of thread t.
LEMMA OneThread ==
  ASSUME TypeOK, NEW t \in DOMAIN threads
  PROVE  /\ threads \in Seq(Thread) /\ threads[t] \in Thread
         /\ new_fds[t] \in Fds
         /\ threads[t].my_fd \in Fds \cup {0, BadFd}
         /\ threads[t].buf \in Messages \cup {Garbage}
         /\ threads[t].conn \in Conns \cup {NoConn}
         /\ Socket(threads[t].my_fd) \in Conns \cup {NoConn}
<1>1. threads \in Seq(Thread) /\ threads[t] \in Thread /\ new_fds[t] \in Fds
  <2>1. /\ threads \in Seq(Thread) /\ new_fds \in Seq(Fds)
        /\ Len(threads) = Len(new_fds)
    BY DEF TypeOK
  <2> QED
    BY <2>1
<1>2. \A fd \in Fds : owner[fd] \in Conns \cup {NoConn}
  BY DEF TypeOK
<1> QED
  BY <1>1, <1>2, ThreadFields DEF Socket

(***************************************************************************)
(* The steps of thread t: where it goes and what it leaves behind          *)
(* (server_thread_function, reqchannel.cpp:44-81).                         *)
(***************************************************************************)
LEMMA ReadArgumentDoes ==
  ASSUME TypeOK, NEW t \in DOMAIN threads, ReadArgument(t)
  PROVE  \E fd \in Fds \cup {BadFd} :
           /\ Becomes(t, "recv", fd, threads[t].buf)
           /\ astray' = (astray \/ fd # new_fds[t])
<1>1. PICK fd \in Fds \cup {BadFd} :
        /\ threads' = [threads EXCEPT ![t].my_fd = fd, ![t].at = "recv"]
        /\ astray' = (astray \/ fd # new_fds[t])
  BY OneThread DEF ReadArgument
<1>2. threads' = [threads EXCEPT ![t] =
        [@ EXCEPT !.at = "recv", !.my_fd = fd, !.buf = threads[t].buf]]
  BY <1>1, OneThread, ThreadWrites, ZenonT(40)
<1> QED
  BY <1>1, <1>2, OneThread, ThreadMoves

\* Recv: a message is on the connection, and now in the buffer.
LEMMA RecvDoes ==
  ASSUME TypeOK, NEW t \in DOMAIN threads, Recv(t),
         NEW c, c = Socket(threads[t].my_fd)
  PROVE  /\ c \in Conns /\ up[c] # <<>>
         /\ Head(up[c]) \in Messages
         /\ Becomes(t, "handle", threads[t].my_fd, Head(up[c]))
         /\ up' = [up EXCEPT ![c] = Tail(@)]
         /\ up' \in [Conns -> Seq(Messages)]
<1>1. /\ c \in Conns /\ up[c] # <<>>
      /\ threads' = [threads EXCEPT ![t].buf = Head(up[c]), ![t].at = "handle"]
      /\ up' = [up EXCEPT ![c] = Tail(@)]
  BY OneThread DEF Recv
<1>2. up \in [Conns -> Seq(Messages)]
  BY DEF TypeOK
<1>3. Head(up[c]) \in Messages /\ up' \in [Conns -> Seq(Messages)]
  BY <1>1, <1>2 DEF Messages
<1>4. threads' = [threads EXCEPT ![t] =
        [@ EXCEPT !.at = "handle", !.my_fd = threads[t].my_fd,
                  !.buf = Head(up[c])]]
  BY <1>1, OneThread, ThreadWrites, ZenonT(40)
<1> QED
  BY <1>1, <1>3, <1>4, OneThread, ThreadMoves

\* No thread is created or forgotten by it.
LEMMA SameThreads ==
  ASSUME TypeOK, NEW t \in DOMAIN threads, NEW point, NEW fd, NEW said,
         Becomes(t, point, fd, said)
  PROVE  DOMAIN threads' = DOMAIN threads
<1>1. threads \in Seq(Thread) /\ threads' \in Seq(Thread)
  BY DEF Becomes, TypeOK
<1>2. Len(threads') = Len(threads)
  BY DEF Becomes
<1> QED
  BY <1>1, <1>2

\* RecvNothing and CloseConnection: the thread goes on with what it has.
LEMMA MovesOn ==
  ASSUME TypeOK, NEW t \in DOMAIN threads,
         NEW point \in {"start", "recv", "handle", "done"},
         threads' = [threads EXCEPT ![t].at = point]
  PROVE  Becomes(t, point, threads[t].my_fd, threads[t].buf)
<1>1. threads' = [threads EXCEPT ![t] =
        [@ EXCEPT !.at = point, !.my_fd = threads[t].my_fd,
                  !.buf = threads[t].buf]]
  BY OneThread, ThreadWrites, ZenonT(40)
<1> QED
  BY <1>1, OneThread, ThreadMoves

\* Reply: the answer goes to a client that is there, and nowhere else.
LEMMA SendsDoes ==
  ASSUME TypeOK, NEW t \in DOMAIN threads, NEW m \in Messages, NEW answer,
         Sends(t, m, answer)
  PROVE  Becomes(t, "recv", threads[t].my_fd, m)
<1>1. threads' = [threads EXCEPT ![t].buf = m, ![t].at = "recv"]
  BY DEF Sends
<1>2. threads' = [threads EXCEPT ![t] =
        [@ EXCEPT !.at = "recv", !.my_fd = threads[t].my_fd, !.buf = m]]
  BY <1>1, OneThread, ThreadWrites, ZenonT(40)
<1> QED
  BY <1>2, OneThread, ThreadMoves

\* StartThread: a new thread, about to read its argument.
LEMMA StartsDoes ==
  ASSUME TypeOK, StartThread
  PROVE  LET n == Len(threads) + 1 IN
         /\ new_fd \in Fds /\ new_fd' = 0
         /\ new_fds' = Append(new_fds, new_fd) /\ new_fds' \in Seq(Fds)
         /\ threads' \in Seq(Thread) /\ Len(threads') = n
         /\ threads'[n].at = "start" /\ threads'[n].conn = owner[new_fd]
         /\ \A t \in DOMAIN threads : threads'[t] = threads[t]
         /\ \A t \in DOMAIN threads : new_fds'[t] = new_fds[t]
         /\ new_fds'[n] = new_fd /\ Len(new_fds') = n
         /\ capacity' \in Nat /\ block' \in Nat /\ n <= capacity'
<1> DEFINE n == Len(threads) + 1
           e == [at |-> "start", arg |-> block', my_fd |-> 0,
                 buf |-> Garbage, conn |-> owner[new_fd]]
<1>0. /\ threads \in Seq(Thread) /\ new_fds \in Seq(Fds) /\ block \in Nat
      /\ capacity \in Nat /\ Len(new_fds) <= capacity
      /\ Len(threads) = Len(new_fds)
      /\ owner \in [Fds -> Conns \cup {NoConn}]
  BY DEF TypeOK
<1>1. /\ new_fd \in Fds /\ new_fd' = 0
      /\ new_fds' = Append(new_fds, new_fd)
      /\ threads' = Append(threads, e)
  BY DEF StartThread, Starts
<1>2. /\ capacity' \in Nat /\ block' \in Nat
      /\ Len(new_fds) + 1 <= capacity'
  BY <1>0 DEF StartThread
<1>3. e \in Thread /\ e.at = "start" /\ e.conn = owner[new_fd]
  BY <1>0, <1>1, <1>2 DEF Thread
<1> HIDE DEF e
<1>4. /\ threads' \in Seq(Thread) /\ Len(threads') = n /\ threads'[n] = e
      /\ \A t \in DOMAIN threads : threads'[t] = threads[t]
  BY <1>0, <1>1, <1>3
<1>5. /\ \A t \in DOMAIN threads : new_fds'[t] = new_fds[t]
      /\ new_fds'[n] = new_fd /\ Len(new_fds') = n
      /\ new_fds' \in Seq(Fds)
  BY <1>0, <1>1
<1> QED
  BY <1>0, <1>1, <1>2, <1>3, <1>4, <1>5

-----------------------------------------------------------------------------
(***************************************************************************)
(* The types.                                                              *)
(***************************************************************************)
LEMMA TypeInit == Init => TypeOK
<1> SUFFICES ASSUME Init PROVE TypeOK
  OBVIOUS
<1>1. /\ <<>> \in Seq(Fds) /\ <<>> \in Seq(Thread) /\ <<>> \in Seq(Conns)
      /\ <<>> \in Seq(Messages)
      /\ <<>> \in Seq(Replies)
      /\ Len(<<>>) = 0
  OBVIOUS
<1>2. 0 \in 0..MaxRequests /\ 0 \in 0..MaxFailures
  BY BoundsAssumption
<1>3. /\ up \in [Conns -> Seq(Messages)]
      /\ down \in [Conns -> Seq(Replies)]
  BY <1>1 DEF Init
<1>4. /\ owner \in [Fds -> Conns \cup {NoConn}]
      /\ client \in [Conns -> {"new", "idle", "waiting", "left", "gone", "ended"}]
      /\ asked \in [Conns -> 0..MaxRequests]
  BY <1>2 DEF Init
<1>5. /\ new_fds \in Seq(Fds) /\ capacity \in Nat /\ Len(new_fds) <= capacity
      /\ threads \in Seq(Thread) /\ Len(threads) = Len(new_fds)
      /\ backlog \in Seq(Conns)
  BY <1>1 DEF Init
<1> QED
  BY <1>2, <1>3, <1>4, <1>5 DEF Init, TypeOK

\* An answer keeps them, whatever it says.
LEMMA SendsType ==
  ASSUME TypeOK, NEW t \in DOMAIN threads, NEW m \in Messages,
         NEW answer \in Replies, Sends(t, m, answer)
  PROVE  TypeOK'
<1>0. reset \subseteq Conns /\ down \in [Conns -> Seq(Replies)]
  BY DEF TypeOK
<1>1. /\ threads' \in Seq(Thread) /\ Len(threads') = Len(threads)
  BY SendsDoes DEF Becomes
<1>2. \/ UNCHANGED netVars
      \/ \E c \in Conns : /\ reset' = reset \cup {c}
                          /\ UNCHANGED <<up, down>>
      \/ \E c \in Conns : /\ down' = [down EXCEPT ![c] = Append(@, answer)]
                          /\ UNCHANGED <<up, reset>>
  BY OneThread DEF Sends
<1>3. ASSUME NEW c \in Conns, down' = [down EXCEPT ![c] = Append(@, answer)]
      PROVE  down' \in [Conns -> Seq(Replies)]
  BY <1>0, <1>3, Appended, Zenon
<1>4. /\ up' = up /\ reset' \subseteq Conns
      /\ down' \in [Conns -> Seq(Replies)]
  BY <1>0, <1>2, <1>3 DEF netVars
<1> QED
  BY <1>1, <1>4 DEF TypeOK, Sends, mainVars, clientVars

\* Every step keeps them.
LEMMA TypeStep == TypeOK /\ [Next]_vars => TypeOK'
<1> SUFFICES ASSUME TypeOK, [Next]_vars PROVE TypeOK'
  OBVIOUS
<1>a. /\ owner \in [Fds -> Conns \cup {NoConn}]
      /\ backlog \in Seq(Conns)
      /\ failures \in 0..MaxFailures /\ new_fd \in Fds \cup {0, -1}
  BY DEF TypeOK
<1>b. client \in [Conns -> {"new", "idle", "waiting", "left", "gone", "ended"}]
  BY DEF TypeOK
<1>c. asked \in [Conns -> 0..MaxRequests] /\ reset \subseteq Conns
  BY DEF TypeOK
<1>d. up \in [Conns -> Seq(Messages)]
  BY DEF TypeOK
<1>e. down \in [Conns -> Seq(Replies)]
  BY DEF TypeOK
<1>1. CASE UNCHANGED vars
  BY <1>1 DEF TypeOK, vars, mainVars, clientVars, netVars
<1>2. CASE Accept
  <2>1. Lowest(FreeFds) \in Fds
    BY <1>2, LowestFree DEF Accept, FreeFds
  <2>2. Head(backlog) \in Conns /\ Tail(backlog) \in Seq(Conns)
    BY <1>2, <1>a DEF Accept
  <2>3. owner' \in [Fds -> Conns \cup {NoConn}]
    BY <1>2, <1>a, <2>1, <2>2 DEF Accept
  <2> QED
    BY <1>2, <2>1, <2>2, <2>3 DEF TypeOK, Accept, clientVars, netVars
<1>3. CASE AcceptFails \/ SkipAfterFailure
  <2>1. failures' \in 0..MaxFailures /\ new_fd' \in Fds \cup {0, -1}
    BY <1>3, <1>a, BoundsAssumption DEF AcceptFails, SkipAfterFailure
  <2> QED
    BY <1>3, <2>1 DEF TypeOK, AcceptFails, SkipAfterFailure, clientVars, netVars
<1>4. CASE StartThread
  <2>1. /\ new_fd' \in Fds \cup {0, -1} /\ new_fds' \in Seq(Fds)
        /\ threads' \in Seq(Thread) /\ Len(threads') = Len(new_fds')
        /\ capacity' \in Nat /\ Len(new_fds') <= capacity' /\ block' \in Nat
    BY <1>4, StartsDoes
  <2> QED
    BY <1>4, <2>1 DEF TypeOK, StartThread, Starts, clientVars, netVars
<1>5. ASSUME NEW fate \in {"exit 0", "exit 1", "killed"}, Ends(fate)
      PROVE  TypeOK'
  BY <1>5 DEF TypeOK, Ends, mainVars, clientVars, netVars
<1>6. ASSUME NEW t \in DOMAIN threads, ReadArgument(t) PROVE TypeOK'
  <2>1. /\ threads' \in Seq(Thread) /\ Len(threads') = Len(threads)
        /\ astray' \in BOOLEAN
    BY <1>6, ReadArgumentDoes DEF Becomes, TypeOK
  <2> QED
    BY <1>6, <2>1 DEF TypeOK, ReadArgument, mainVars, clientVars, netVars
<1>7. ASSUME NEW t \in DOMAIN threads, Recv(t) PROVE TypeOK'
  <2>1. /\ threads' \in Seq(Thread) /\ Len(threads') = Len(threads)
        /\ up' \in [Conns -> Seq(Messages)]
    BY <1>7, RecvDoes DEF Becomes
  <2> QED
    BY <1>7, <2>1 DEF TypeOK, Recv, mainVars, clientVars
<1>8. ASSUME NEW t \in DOMAIN threads, RecvNothing(t) PROVE TypeOK'
  <2>1. /\ threads' \in Seq(Thread) /\ Len(threads') = Len(threads)
    BY <1>8, MovesOn DEF Becomes, RecvNothing, HandlesAnyway
  <2> QED
    BY <1>8, <2>1 DEF TypeOK, RecvNothing, HandlesAnyway, mainVars, clientVars, netVars
<1>9. ASSUME NEW t \in DOMAIN threads, CloseConnection(t) PROVE TypeOK'
  <2>1. /\ threads' \in Seq(Thread) /\ Len(threads') = Len(threads)
    BY <1>9, MovesOn DEF Becomes, CloseConnection, Closes
  <2>2. owner' \in [Fds -> Conns \cup {NoConn}]
    BY <1>9, <1>a DEF CloseConnection, Closes
  <2> QED
    BY <1>9, <2>1, <2>2 DEF TypeOK, CloseConnection, Closes, mainVars, clientVars, netVars
<1>10. ASSUME NEW t \in DOMAIN threads, Reply(t) PROVE TypeOK'
  <2>1. PICK m \in Messages, answer \in Replies : Sends(t, m, answer)
    BY <1>10 DEF Reply, Messages, Replies
  <2> QED
    BY <2>1, SendsType
<1>11. ASSUME NEW c \in Conns, Connect(c) \/ Vanish(c) PROVE TypeOK'
  <2>1. \E point \in {"idle", "gone", "ended"} :
          client' = [client EXCEPT ![c] = point]
    BY <1>11 DEF Connect, Vanish
  <2>2. client' \in [Conns -> {"new", "idle", "waiting", "left", "gone", "ended"}]
    BY <1>b, <2>1
  <2>3. \/ backlog' = Append(backlog, c) /\ reset' = reset
        \/ backlog' = backlog /\ reset' \in {reset, reset \cup {c}}
    BY <1>11 DEF Connect, Vanish, netVars
  <2>4. backlog' \in Seq(Conns) /\ reset' \subseteq Conns
    <3>1. Append(backlog, c) \in Seq(Conns)
      BY <1>a
    <3> QED
      BY <1>a, <1>c, <2>3, <3>1
  <2> QED
    BY <1>11, <2>2, <2>4 DEF TypeOK, Connect, Vanish, mainVars, netVars
<1>12. ASSUME NEW c \in Conns, Ask(c) \/ Receive(c) \/ Leave(c) PROVE TypeOK'
  <2>1. client' \in [Conns -> {"new", "idle", "waiting", "left", "gone", "ended"}]
    BY <1>12, <1>b DEF Ask, Receive, Leave
  <2>2. asked' \in [Conns -> 0..MaxRequests]
    BY <1>12, <1>c, BoundsAssumption DEF Ask, Receive, Leave
  <2>3. /\ \/ up' = up
           \/ \E m \in {"data", "!", "!!"} : up' = [up EXCEPT ![c] = Append(@, m)]
        /\ \/ down' = down
           \/ down[c] # <<>> /\ down' = [down EXCEPT ![c] = Tail(@)]
    BY <1>12 DEF Ask, Receive, Leave
  <2>4. up' \in [Conns -> Seq(Messages)]
    <3>1. ASSUME NEW m \in {"data", "!", "!!"}, up' = [up EXCEPT ![c] = Append(@, m)]
          PROVE  up' \in [Conns -> Seq(Messages)]
      <4>1. m \in Messages
        BY <3>1 DEF Messages
      <4> QED
        BY <1>d, <3>1, <4>1, Appended, Zenon
    <3> QED
      BY <1>d, <2>3, <3>1
  <2>5. down' \in [Conns -> Seq(Replies)]
    <3>1. ASSUME down[c] # <<>>, down' = [down EXCEPT ![c] = Tail(@)]
          PROVE  down' \in [Conns -> Seq(Replies)]
      BY <1>e, <3>1, Removed, Zenon
    <3> QED
      BY <1>e, <2>3, <3>1
  <2> QED
    BY <1>12, <2>1, <2>2, <2>4, <2>5 DEF TypeOK, Ask, Receive, Leave, mainVars
<1> QED
  BY <1>1, <1>2, <1>3, <1>4, <1>5, <1>6, <1>7, <1>8, <1>9, <1>10, <1>11, <1>12,
     Steps
  DEF StartThreadFails, ExitServer, ReplyKills

(***************************************************************************)
(* The types, for any connections, descriptors and failures.               *)
(***************************************************************************)
THEOREM TypeCorrect == Spec => []TypeOK
<1> QED
  BY TypeInit, TypeStep, PTL DEF Spec

-----------------------------------------------------------------------------
(***************************************************************************)
(* Who serves which connection.  A thread that has read its argument has   *)
(* its own descriptor (OwnCopy).  An open descriptor belongs to one thread *)
(* that is not done, or is about to be given to one (Matched).  Descriptors*)
(* and the backlog hold different connections, which were made (Separate). *)
(***************************************************************************)
Alive(t) == threads[t].at # "done"

OwnCopy ==
  \A t \in DOMAIN threads :
    threads[t].at # "start" => threads[t].my_fd = new_fds[t]

Matched ==
  /\ \A t \in DOMAIN threads : Alive(t) =>
       /\ threads[t].conn # NoConn
       /\ owner[new_fds[t]] = threads[t].conn
       /\ new_fds[t] # new_fd
  /\ \A t, u \in DOMAIN threads :
       Alive(t) /\ Alive(u) /\ new_fds[t] = new_fds[u] => t = u
  /\ \A fd \in Fds : owner[fd] # NoConn =>
       \/ fd = new_fd
       \/ \E t \in DOMAIN threads : Alive(t) /\ new_fds[t] = fd
  /\ new_fd \in Fds => owner[new_fd] # NoConn

Separate ==
  /\ \A fd, x \in Fds : owner[fd] = owner[x] /\ owner[fd] # NoConn => fd = x
  /\ \A x, y \in DOMAIN backlog : backlog[x] = backlog[y] => x = y
  /\ \A x \in DOMAIN backlog, fd \in Fds : owner[fd] # backlog[x]
  /\ \A x \in DOMAIN backlog : client[backlog[x]] # "new"
  /\ \A fd \in Fds : owner[fd] # NoConn => client[owner[fd]] # "new"

Arranged == OwnCopy /\ Matched /\ Separate

\* Nothing brings a thread back on course.
LEMMA StaysAstray == TypeOK /\ [Next]_vars /\ ~astray' => ~astray
<1> SUFFICES ASSUME TypeOK, [Next]_vars, ~astray' PROVE ~astray
  OBVIOUS
<1>1. astray \in BOOLEAN
  BY DEF TypeOK
<1>2. ASSUME NEW t \in DOMAIN threads, ReadArgument(t) PROVE ~astray
  BY <1>1, <1>2 DEF ReadArgument
<1> QED
  BY <1>1, <1>2, Steps
  DEF vars, Accept, AcceptFails, SkipAfterFailure, StartThread, Starts,
      StartThreadFails, Recv, RecvNothing, HandlesAnyway, ExitServer,
      CloseConnection, Closes, Reply, Sends, ReplyKills, Ends, Connect, Ask,
      Receive, Leave, Vanish

\* A connection that was made is never new again.
LEMMA NeverNewAgain ==
  ASSUME TypeOK, [Next]_vars
  PROVE  \A c \in Conns : client[c] # "new" => client'[c] # "new"
<1>1. client \in [Conns -> {"new", "idle", "waiting", "left", "gone", "ended"}]
  BY DEF TypeOK
<1>2. CASE client' = client
  BY <1>2
<1>3. ASSUME NEW c \in Conns,
             Connect(c) \/ Ask(c) \/ Receive(c) \/ Leave(c) \/ Vanish(c)
      PROVE  \E point \in {"idle", "waiting", "left", "gone", "ended"} :
               client' = [client EXCEPT ![c] = point]
  BY <1>3 DEF Connect, Ask, Receive, Leave, Vanish
<1>4. ASSUME NEW t \in DOMAIN threads,
             \/ ReadArgument(t) \/ Recv(t) \/ RecvNothing(t) \/ ExitServer(t)
             \/ CloseConnection(t) \/ Reply(t) \/ ReplyKills(t)
      PROVE  client' = client
  BY <1>4
  DEF ReadArgument, Recv, RecvNothing, HandlesAnyway, ExitServer,
      CloseConnection, Closes, Reply, Sends, ReplyKills, Ends, clientVars
<1> QED
  BY <1>1, <1>2, <1>3, <1>4, Steps
  DEF vars, Accept, AcceptFails, SkipAfterFailure, StartThread, Starts,
      StartThreadFails, Ends, clientVars

\* What the types say of the tables of the accept loop.
LEMMA Tables ==
  ASSUME TypeOK
  PROVE  /\ owner \in [Fds -> Conns \cup {NoConn}]
         /\ backlog \in Seq(Conns)
         /\ new_fd \in Fds \cup {0, -1} /\ 0 \notin Fds /\ -1 \notin Fds
         /\ \A t \in DOMAIN threads : new_fds[t] \in Fds
<1>1. 0 \notin Fds /\ -1 \notin Fds
  BY BoundsAssumption DEF Fds
<1>2. \A t \in DOMAIN threads : new_fds[t] \in Fds
  BY OneThread
<1> QED
  BY <1>1, <1>2 DEF TypeOK

\* It is kept where no descriptor is dealt with.
LEMMA StaysArranged ==
  ASSUME TypeOK, Arranged,
         \A c \in Conns : client[c] # "new" => client'[c] # "new",
         UNCHANGED <<new_fds, threads, owner, backlog>>,
         new_fd' = new_fd \/ (new_fd' \notin Fds /\ new_fd \notin Fds)
  PROVE  Arranged'
BY Tables, ConnsAssumption DEF Arranged, OwnCopy, Matched, Separate, Alive

\* And where a thread goes on with the descriptor that is its own.
LEMMA ThreadArranged ==
  ASSUME TypeOK, Arranged,
         \A c \in Conns : client[c] # "new" => client'[c] # "new",
         NEW t \in DOMAIN threads, NEW point \in {"recv", "handle"},
         NEW said, threads[t].at # "done",
         Becomes(t, point, new_fds[t], said),
         UNCHANGED <<new_fd, new_fds, owner, backlog>>
  PROVE  Arranged'
<1>1. /\ DOMAIN threads' = DOMAIN threads
      /\ threads'[t].at \notin {"start", "done"}
      /\ threads'[t].my_fd = new_fds[t] /\ threads'[t].conn = threads[t].conn
      /\ \A u \in DOMAIN threads \ {t} : threads'[u] = threads[u]
  BY OneThread DEF Becomes
<1> QED
  BY <1>1, Tables, ConnsAssumption
  DEF Arranged, OwnCopy, Matched, Separate, Alive

\* The accept loop and the threads keep it, until one reads a wrong descriptor.
LEMMA ArrangedStep ==
  TypeOK /\ Arranged /\ [Next]_vars /\ ~astray' => Arranged'
<1> SUFFICES ASSUME TypeOK, Arranged, [Next]_vars, ~astray' PROVE Arranged'
  OBVIOUS
<1>0. /\ owner \in [Fds -> Conns \cup {NoConn}]
      /\ backlog \in Seq(Conns)
      /\ new_fd \in Fds \cup {0, -1} /\ 0 \notin Fds /\ -1 \notin Fds
      /\ \A t \in DOMAIN threads : new_fds[t] \in Fds
      /\ NoConn \notin Conns
      /\ \A c \in Conns : client[c] # "new" => client'[c] # "new"
  BY Tables, NeverNewAgain, ConnsAssumption
\* The steps of the accept loop that have no descriptor to deal with.
<1>1. CASE /\ UNCHANGED <<new_fds, threads, owner, backlog>>
           /\ \/ new_fd' = new_fd
              \/ new_fd' \notin Fds /\ new_fd \notin Fds
  BY <1>0, <1>1, StaysArranged
\* The steps of a thread that has its descriptor, or is about to get it.
<1>a. ASSUME NEW t \in DOMAIN threads, NEW point \in {"recv", "handle"},
             NEW said, threads[t].at # "done",
             Becomes(t, point, new_fds[t], said),
             UNCHANGED <<new_fd, new_fds, owner, backlog>>
      PROVE  Arranged'
  BY <1>0, <1>a, ThreadArranged
<1> USE DEF Arranged, OwnCopy, Matched, Separate, Alive
<1>2. CASE Accept
  <2> DEFINE fd == Lowest(FreeFds)
  <2>1. /\ fd \in Fds /\ owner[fd] = NoConn
        /\ new_fd \notin Fds /\ new_fd' = fd /\ backlog # <<>>
        /\ owner' = [owner EXCEPT ![fd] = Head(backlog)]
        /\ backlog' = Tail(backlog)
        /\ UNCHANGED <<new_fds, threads>>
    BY <1>0, <1>2, LowestFree DEF Accept, FreeFds
  <2> HIDE DEF fd
  <2>2. /\ 1 \in DOMAIN backlog /\ Head(backlog) = backlog[1]
        /\ Head(backlog) \in Conns /\ backlog' \in Seq(Conns)
        /\ \A x \in DOMAIN backlog' :
             x \in Nat /\ x >= 1 /\ x + 1 \in DOMAIN backlog
               /\ backlog'[x] = backlog[x + 1]
    BY <1>0, <2>1
  <2>3. OwnCopy' /\ Matched'
    BY <1>0, <2>1, <2>2
  <2>4. \A x \in DOMAIN backlog' : backlog'[x] # Head(backlog)
    BY <2>2
  <2>5. Separate'
    BY <1>0, <2>1, <2>2, <2>4
  <2> QED
    BY <2>3, <2>5
<1>3. CASE StartThread
  <2> DEFINE n == Len(threads) + 1
  <2>1. /\ new_fd \in Fds /\ new_fd' = 0
        /\ DOMAIN threads' = DOMAIN threads \cup {n} /\ n \notin DOMAIN threads
        /\ threads'[n].at = "start" /\ threads'[n].conn = owner[new_fd]
        /\ new_fds'[n] = new_fd
        /\ \A t \in DOMAIN threads : /\ threads'[t] = threads[t]
                                     /\ new_fds'[t] = new_fds[t]
        /\ UNCHANGED <<owner, backlog>>
    <3>1. threads \in Seq(Thread) /\ threads' \in Seq(Thread) /\ Len(threads') = n
      BY <1>3, StartsDoes DEF TypeOK
    <3>2. DOMAIN threads' = DOMAIN threads \cup {n} /\ n \notin DOMAIN threads
      BY <3>1
    <3> QED
      BY <1>3, <3>2, StartsDoes DEF StartThread, Starts
  <2> HIDE DEF n
  <2> QED
    BY <1>0, <2>1
<1>5. ASSUME NEW t \in DOMAIN threads, CloseConnection(t) PROVE Arranged'
  <2>1. /\ threads[t].at = "handle" /\ threads[t].my_fd = new_fds[t]
        /\ owner' = [x \in Fds |-> IF x = new_fds[t] THEN NoConn ELSE owner[x]]
        /\ UNCHANGED <<new_fd, new_fds, backlog>>
        /\ threads' = [threads EXCEPT ![t].at = "done"]
    BY <1>5 DEF CloseConnection, Closes, ThreadAt, mainVars
  <2>2. Becomes(t, "done", threads[t].my_fd, threads[t].buf)
    BY <2>1, MovesOn
  <2>3. /\ DOMAIN threads' = DOMAIN threads
        /\ threads'[t].at = "done" /\ threads'[t].my_fd = new_fds[t]
        /\ \A u \in DOMAIN threads \ {t} : threads'[u] = threads[u]
    BY <2>1, <2>2, OneThread DEF Becomes
  <2> QED
    BY <1>0, <2>1, <2>3
<1>6. ASSUME NEW c \in Conns, Connect(c) PROVE Arranged'
  <2>1. /\ client[c] = "new" /\ client'[c] = "idle"
        /\ backlog' = Append(backlog, c)
        /\ UNCHANGED <<new_fd, new_fds, threads, owner>>
    BY <1>6 DEF Connect, mainVars, TypeOK
  <2> DEFINE n == Len(backlog) + 1
  <2>2. /\ DOMAIN backlog' = DOMAIN backlog \cup {n} /\ backlog'[n] = c
        /\ \A x \in DOMAIN backlog : backlog'[x] = backlog[x] /\ backlog[x] \in Conns
    BY <1>0, <2>1
  <2> HIDE DEF n
  <2> QED
    BY <1>0, <2>1, <2>2
<1>7. ASSUME NEW t \in DOMAIN threads, ReadArgument(t) PROVE Arranged'
  <2>1. PICK fd \in Fds \cup {BadFd} : /\ Becomes(t, "recv", fd, threads[t].buf)
                                       /\ astray' = (astray \/ fd # new_fds[t])
    BY <1>7, ReadArgumentDoes
  <2>2. /\ fd = new_fds[t] /\ threads[t].at = "start"
        /\ UNCHANGED <<new_fd, new_fds, owner, backlog>>
    BY <1>7, <2>1 DEF ReadArgument, ThreadAt, mainVars
  <2> QED
    BY <1>a, <2>1, <2>2, SMTT(30)
<1>8. ASSUME NEW t \in DOMAIN threads, Recv(t) \/ RecvNothing(t) PROVE Arranged'
  <2>1. /\ threads[t].at = "recv" /\ threads[t].my_fd = new_fds[t]
        /\ UNCHANGED <<new_fd, new_fds, owner, backlog>>
    BY <1>8 DEF Recv, RecvNothing, HandlesAnyway, ThreadAt, mainVars
  <2>2. \E said : Becomes(t, "handle", new_fds[t], said)
    BY <1>8, <2>1, RecvDoes, MovesOn DEF RecvNothing, HandlesAnyway
  <2> QED
    BY <1>a, <2>1, <2>2
<1>9. ASSUME NEW t \in DOMAIN threads, Reply(t) PROVE Arranged'
  <2>1. PICK m \in Messages, answer \in Replies : Sends(t, m, answer)
    BY <1>9 DEF Reply, Messages, Replies
  <2>2. /\ threads[t].at = "handle" /\ threads[t].my_fd = new_fds[t]
        /\ UNCHANGED <<new_fd, new_fds, owner, backlog>>
    BY <2>1 DEF Sends, ThreadAt, mainVars
  <2>3. Becomes(t, "recv", new_fds[t], m)
    BY <2>1, <2>2, SendsDoes
  <2> QED
    BY <1>a, <2>2, <2>3
<1> HIDE DEF Arranged
<1>10. CASE UNCHANGED vars \/ AcceptFails \/ SkipAfterFailure
  BY <1>0, <1>1, <1>10 DEF vars, mainVars, AcceptFails, SkipAfterFailure
<1>11. ASSUME NEW fate, Ends(fate) PROVE Arranged'
  BY <1>1, <1>11 DEF Ends, mainVars
<1>12. ASSUME NEW c \in Conns, Ask(c) \/ Receive(c) \/ Leave(c) \/ Vanish(c)
       PROVE  Arranged'
  BY <1>1, <1>12 DEF Ask, Receive, Leave, Vanish, mainVars
<1> QED
  BY <1>2, <1>3, <1>5, <1>6, <1>7, <1>8, <1>9, <1>10, <1>11, <1>12, Steps
  DEF StartThreadFails, ExitServer, ReplyKills

-----------------------------------------------------------------------------
(***************************************************************************)
(* What is under way on a connection, as long as its client has not        *)
(* vanished: nothing unless the client waits or has left; otherwise its    *)
(* request is on the way, with one thread, or answered, and its last       *)
(* message is on the way, with one thread, or has closed the connection.   *)
(* Only a client that vanished has its connection reset.                   *)
(***************************************************************************)
Bye(c) == IF c \in Controls THEN "!!" ELSE "!"
Holds(t, c) == threads[t].at = "handle" /\ threads[t].conn = c
Nobody(c) == \A t \in DOMAIN threads : ~Holds(t, c)
Somebody(c, m) == \E t \in DOMAIN threads : Holds(t, c) /\ threads[t].buf = m

Talk(c) ==
  /\ client[c] \in {"new", "idle"} =>
       up[c] = <<>> /\ down[c] = <<>> /\ Nobody(c)
  /\ client[c] = "waiting" =>
       \/ up[c] = <<"data">> /\ down[c] = <<>> /\ Nobody(c)
       \/ up[c] = <<>> /\ down[c] = <<>> /\ Somebody(c, "data")
       \/ up[c] = <<>> /\ down[c] = <<"number">> /\ Nobody(c)
  /\ client[c] \in {"left", "ended"} =>
       /\ down[c] = <<>>
       /\ \/ up[c] = <<Bye(c)>> /\ Nobody(c)
          \/ up[c] = <<>> /\ Somebody(c, Bye(c))
          \/ up[c] = <<>> /\ ~Held(c)
  /\ \A x \in DOMAIN down[c] : down[c][x] = "number"

Exchange ==
  /\ \A c \in Conns : Talk(c)
  /\ \A c \in reset : client[c] = "gone"

(***************************************************************************)
(* The connection of a thread that is at its socket: it is open, and no    *)
(* other thread is.                                                        *)
(***************************************************************************)
LEMMA Serves ==
  ASSUME TypeOK, Arranged, NEW t \in DOMAIN threads,
         threads[t].at \in {"recv", "handle"}
  PROVE  LET c == threads[t].conn IN
         /\ c \in Conns /\ Socket(threads[t].my_fd) = c
         /\ threads[t].my_fd = new_fds[t] /\ new_fds[t] \in Fds
         /\ owner[new_fds[t]] = c /\ Held(c)
         /\ \A fd \in Fds : owner[fd] = c => fd = new_fds[t]
         /\ \A u \in DOMAIN threads : Alive(u) /\ threads[u].conn = c => u = t
<1>1. /\ threads[t].my_fd = new_fds[t] /\ new_fds[t] \in Fds
      /\ owner[new_fds[t]] = threads[t].conn /\ threads[t].conn # NoConn
  BY Tables DEF Arranged, OwnCopy, Matched, Alive
<1>2. threads[t].conn \in Conns
  BY <1>1, OneThread
<1>3. \A fd \in Fds : owner[fd] = threads[t].conn => fd = new_fds[t]
  BY <1>1 DEF Arranged, Separate
<1>4. ASSUME NEW u \in DOMAIN threads, Alive(u), threads[u].conn = threads[t].conn
      PROVE  u = t
  <2>1. owner[new_fds[u]] = threads[t].conn /\ new_fds[u] \in Fds
    BY <1>4, Tables DEF Arranged, Matched
  <2>2. new_fds[u] = new_fds[t]
    BY <1>3, <2>1
  <2> QED
    BY <1>4, <2>2 DEF Arranged, Matched, Alive
<1> QED
  BY <1>1, <1>2, <1>3, <1>4 DEF Socket, Held

\* What a thread that handles a message can have in its buffer.
LEMMA Handles ==
  ASSUME TypeOK, Arranged, Exchange, NEW t \in DOMAIN threads,
         threads[t].at = "handle"
  PROVE  LET c == threads[t].conn IN
         \/ client[c] = "gone"
         \/ /\ client[c] = "waiting" /\ threads[t].buf = "data"
            /\ up[c] = <<>> /\ down[c] = <<>>
         \/ /\ client[c] \in {"left", "ended"} /\ threads[t].buf = Bye(c)
            /\ up[c] = <<>> /\ down[c] = <<>>
<1> DEFINE c == threads[t].conn
<1>1. /\ c \in Conns /\ Held(c) /\ Holds(t, c)
      /\ \A u \in DOMAIN threads : Holds(u, c) => u = t
  BY Serves DEF Holds, Alive
<1>2. /\ Talk(c)
      /\ client[c] \in {"new", "idle", "waiting", "left", "gone", "ended"}
  BY <1>1 DEF Exchange, TypeOK
<1> HIDE DEF c
<1>3. ~Nobody(c) /\ \A m : Somebody(c, m) => threads[t].buf = m
  BY <1>1 DEF Nobody, Somebody
<1>4. \/ client[c] = "gone"
      \/ /\ client[c] = "waiting" /\ threads[t].buf = "data"
         /\ up[c] = <<>> /\ down[c] = <<>>
      \/ /\ client[c] \in {"left", "ended"} /\ threads[t].buf = Bye(c)
         /\ up[c] = <<>> /\ down[c] = <<>>
  BY <1>1, <1>2, <1>3 DEF Talk
<1> QED
  BY <1>4 DEF c

(***************************************************************************)
(* A step that is not about connection c leaves what is under way on it.   *)
(***************************************************************************)
Aside(c) ==
  /\ up'[c] = up[c] /\ down'[c] = down[c] /\ client'[c] = client[c]
  /\ Held(c)' => Held(c)
  /\ DOMAIN threads \subseteq DOMAIN threads'
  /\ \A t \in DOMAIN threads' \ DOMAIN threads : ~Holds(t, c)'
  /\ \A t \in DOMAIN threads :
       \/ threads'[t] = threads[t]
       \/ ~Holds(t, c) /\ ~Holds(t, c)'

\* And so it leaves the exchange on c as it was.
LEMMA AsideKeeps ==
  ASSUME NEW c \in Conns, Aside(c), Talk(c)
  PROVE  Talk(c)'
<1>1. /\ up'[c] = up[c] /\ down'[c] = down[c] /\ client'[c] = client[c]
      /\ ~Held(c) => ~Held(c)'
      /\ Nobody(c) => Nobody(c)'
      /\ \A m : Somebody(c, m) => Somebody(c, m)'
  BY DEF Aside, Nobody, Somebody, Holds
<1> QED
  BY <1>1 DEF Talk, Bye

\* The backlog and the descriptor table as the set of connections they hold.
LEMMA HeldBy ==
  ASSUME NEW c
  PROVE  Held(c) <=> \/ \E x \in DOMAIN backlog : backlog[x] = c
                     \/ \E fd \in Fds : owner[fd] = c
BY DEF Held, Range

\* accept moves a connection from the backlog to a descriptor.
LEMMA AcceptHolds ==
  ASSUME TypeOK, Accept
  PROVE  \A c \in Conns : Held(c)' <=> Held(c)
<1> DEFINE fd == Lowest(FreeFds)
<1>1. /\ fd \in Fds /\ owner[fd] = NoConn /\ backlog # <<>>
      /\ owner' = [owner EXCEPT ![fd] = Head(backlog)]
      /\ backlog' = Tail(backlog)
      /\ owner \in [Fds -> Conns \cup {NoConn}] /\ backlog \in Seq(Conns)
      /\ NoConn \notin Conns
  BY LowestFree, Tables, ConnsAssumption DEF Accept, FreeFds
<1> HIDE DEF fd
<1>2. ASSUME NEW c
      PROVE  /\ (\E x \in DOMAIN backlog : backlog[x] = c)
                  <=> c = Head(backlog) \/ \E x \in DOMAIN backlog' : backlog'[x] = c
  <2>1. \A x \in DOMAIN backlog' :
          x + 1 \in DOMAIN backlog /\ backlog'[x] = backlog[x + 1]
    BY <1>1
  <2>2. \A x \in DOMAIN backlog :
          x = 1 \/ (x - 1 \in DOMAIN backlog' /\ backlog'[x - 1] = backlog[x])
    BY <1>1
  <2>3. 1 \in DOMAIN backlog /\ Head(backlog) = backlog[1]
    BY <1>1
  <2> QED
    BY <2>1, <2>2, <2>3
<1>3. ASSUME NEW c \in Conns
      PROVE  (\E x \in Fds : owner'[x] = c)
               <=> c = Head(backlog) \/ \E x \in Fds : owner[x] = c
  BY <1>1
<1>4. ASSUME NEW c
      PROVE  Held(c)' <=> \/ \E x \in DOMAIN backlog' : backlog'[x] = c
                          \/ \E x \in Fds : owner'[x] = c
  BY DEF Held, Range
<1> QED
  BY <1>2, <1>3, <1>4, HeldBy

\* The steps of a client change what is under way on its connection alone.
LEMMA ClientStep ==
  ASSUME TypeOK, Arranged, Exchange, NEW c \in Conns,
         Connect(c) \/ Ask(c) \/ Receive(c) \/ Leave(c) \/ Vanish(c)
  PROVE  Exchange'
<1>0. /\ client \in [Conns -> {"new", "idle", "waiting", "left", "gone", "ended"}]
      /\ up \in [Conns -> Seq(Messages)]
      /\ down \in [Conns -> Seq(Replies)]
      /\ backlog \in Seq(Conns)
  BY DEF TypeOK
<1>1. /\ threads' = threads /\ owner' = owner
      /\ \E point : client' = [client EXCEPT ![c] = point]
      /\ \/ up' = up
         \/ \E s : up' = [up EXCEPT ![c] = s]
      /\ \/ down' = down
         \/ \E s : down' = [down EXCEPT ![c] = s]
      /\ backlog' = backlog \/ backlog' = Append(backlog, c)
  BY DEF Connect, Ask, Receive, Leave, Vanish, netVars
<1>2. ASSUME NEW d \in Conns, d # c PROVE Talk(d)'
  <2>1. up'[d] = up[d] /\ down'[d] = down[d] /\ client'[d] = client[d]
    BY <1>0, <1>1, <1>2
  <2>2. Held(d)' => Held(d)
    <3>1. \A x \in DOMAIN Append(backlog, c) :
            \/ x \in DOMAIN backlog /\ Append(backlog, c)[x] = backlog[x]
            \/ Append(backlog, c)[x] = c
      <4>1. backlog \in Seq(Conns)
        BY <1>0
      <4> QED
        BY <4>1
    <3>2. \A x \in DOMAIN backlog' :
            \/ x \in DOMAIN backlog /\ backlog'[x] = backlog[x]
            \/ backlog'[x] = c
      BY <1>1, <3>1
    <3> QED
      BY <1>1, <1>2, <3>2 DEF Held, Range
  <2> QED
    BY <1>1, <2>1, <2>2, AsideKeeps DEF Aside, Exchange
<1>3. Talk(c)' /\ \A d \in reset' : client'[d] = "gone"
  <2>0. /\ Talk(c)
        /\ \A d \in reset : client[d] = "gone"
        /\ client[c] \in {"new", "idle", "waiting", "left", "gone", "ended"}
        /\ reset \subseteq Conns
    BY <1>0 DEF Exchange, TypeOK
  <2>1. /\ Nobody(c) => Nobody(c)'
        /\ \A m : Somebody(c, m) => Somebody(c, m)'
    BY <1>1 DEF Nobody, Somebody, Holds
  <2>2. CASE Connect(c)
    <3>1. /\ client[c] = "new" /\ client'[c] = "idle"
          /\ \A d \in reset' : client'[d] = "gone"
          /\ up'[c] = up[c] /\ down'[c] = down[c]
      BY <1>0, <2>0, <2>2 DEF Connect, netVars
    <3> QED
      BY <2>0, <2>1, <3>1 DEF Talk
  <2>3. CASE Ask(c)
    <3>1. /\ client[c] = "idle" /\ client'[c] = "waiting"
          /\ \A d \in reset' : client'[d] = "gone"
          /\ up'[c] = Append(up[c], "data") /\ down'[c] = down[c]
      BY <1>0, <2>0, <2>3 DEF Ask
    <3> QED
      BY <2>0, <2>1, <3>1, Singles, ZenonT(40) DEF Talk
  <2>4. CASE Receive(c)
    <3>1. /\ client[c] = "waiting" /\ client'[c] = "idle"
          /\ \A d \in reset' : client'[d] = "gone"
          /\ up'[c] = up[c] /\ down[c] # <<>> /\ down'[c] = Tail(down[c])
      BY <1>0, <2>0, <2>4 DEF Receive
    <3> QED
      <4>1. down[c] = <<"number">> /\ up[c] = <<>> /\ Nobody(c)
        BY <2>0, <3>1 DEF Talk
      <4>2. up'[c] = <<>> /\ down'[c] = <<>>
        BY <3>1, <4>1, Singles
      <4> QED
        BY <2>0, <2>1, <3>1, <4>1, <4>2 DEF Talk
  <2>5. CASE Leave(c)
    <3>1. /\ client[c] = "idle" /\ client'[c] = "left"
          /\ \A d \in reset' : client'[d] = "gone"
          /\ up'[c] = Append(up[c], Bye(c)) /\ down'[c] = down[c]
      BY <1>0, <2>0, <2>5 DEF Leave, Bye
    <3> QED
      BY <2>0, <2>1, <3>1, Singles DEF Talk, Bye
  <2>6. CASE Vanish(c)
    <3>1. /\ up'[c] = up[c] /\ down'[c] = down[c] /\ backlog' = backlog
          /\ \/ client[c] = "left" /\ client'[c] = "ended"
             \/ client'[c] = "gone"
          /\ reset' = IF down[c] = <<>> THEN reset ELSE reset \cup {c}
      BY <1>0, <2>6 DEF Vanish
    <3>2. Held(c)' <=> Held(c)
      BY <1>1, <3>1 DEF Held, Range
    <3>3. client[c] = "left" => down[c] = <<>>
      BY <2>0 DEF Talk
    <3>4. \A d \in reset' : client'[d] = "gone"
      <4>1. \A d \in Conns : d # c => client'[d] = client[d]
        BY <1>0, <1>1
      <4>2. client[c] \notin {"idle", "waiting", "left"} => FALSE
        BY <2>6 DEF Vanish
      <4> QED
        BY <2>0, <3>1, <3>3, <4>1, <4>2
    <3> QED
      BY <2>0, <2>1, <3>1, <3>2, <3>4 DEF Talk, Bye
  <2> QED
    BY <2>2, <2>3, <2>4, <2>5, <2>6
<1> QED
  BY <1>2, <1>3 DEF Exchange

(***************************************************************************)
(* The steps of the server: only a thread at its socket changes what is    *)
(* under way, and only on the connection it serves.                        *)
(***************************************************************************)
LEMMA ExchangeStep ==
  TypeOK /\ Arranged /\ Exchange /\ [Next]_vars /\ ~astray' => Exchange'
<1> SUFFICES ASSUME TypeOK, Arranged, Exchange, [Next]_vars, ~astray'
             PROVE  Exchange'
  OBVIOUS
<1>0. /\ client \in [Conns -> {"new", "idle", "waiting", "left", "gone", "ended"}]
      /\ up \in [Conns -> Seq(Messages)]
      /\ down \in [Conns -> Seq(Replies)]
      /\ owner \in [Fds -> Conns \cup {NoConn}]
      /\ reset \subseteq Conns /\ NoConn \notin Conns
  BY ConnsAssumption DEF TypeOK
\* Nobody writes to a connection, and no thread starts or ends to handle.
<1>1. ASSUME UNCHANGED <<up, down, client, reset>>,
             \A c \in Conns : Held(c)' => Held(c),
             DOMAIN threads \subseteq DOMAIN threads',
             \A t \in DOMAIN threads' \ DOMAIN threads : threads'[t].at = "start",
             \A t \in DOMAIN threads :
               \/ threads'[t] = threads[t]
               \/ threads[t].at # "handle" /\ threads'[t].at # "handle"
      PROVE  Exchange'
  <2>1. ASSUME NEW c \in Conns PROVE Aside(c)
    BY <1>1 DEF Aside, Holds
  <2> QED
    BY <1>1, <2>1, AsideKeeps DEF Exchange
<1>2. CASE UNCHANGED vars \/ AcceptFails \/ SkipAfterFailure
           \/ \E fate : Ends(fate)
  <2>1. UNCHANGED <<up, down, client, reset, owner, backlog, threads>>
    BY <1>2
    DEF vars, AcceptFails, SkipAfterFailure, Ends, clientVars, netVars
  <2>2. \A c \in Conns : Held(c)' => Held(c)
    BY <2>1 DEF Held, Range
  <2> QED
    BY <1>1, <2>1, <2>2
<1>3. CASE Accept
  <2>1. UNCHANGED <<up, down, client, reset, threads>>
    BY <1>3 DEF Accept, clientVars, netVars
  <2> QED
    BY <1>1, <1>3, <2>1, AcceptHolds
<1>4. CASE StartThread
  <2>1. UNCHANGED <<up, down, client, reset, owner, backlog>>
    BY <1>4 DEF StartThread, Starts, clientVars, netVars
  <2>2. \A c \in Conns : Held(c)' => Held(c)
    BY <2>1 DEF Held, Range
  <2>3. /\ threads \in Seq(Thread) /\ threads' \in Seq(Thread)
        /\ Len(threads') = Len(threads) + 1
        /\ threads'[Len(threads) + 1].at = "start"
        /\ \A t \in DOMAIN threads : threads'[t] = threads[t]
    BY <1>4, StartsDoes DEF TypeOK
  <2>4. DOMAIN threads' = DOMAIN threads \cup {Len(threads) + 1}
    BY <2>3
  <2> QED
    BY <1>1, <2>1, <2>2, <2>3, <2>4
<1>5. ASSUME NEW t \in DOMAIN threads, ReadArgument(t) PROVE Exchange'
  <2>1. /\ UNCHANGED <<up, down, client, reset, owner, backlog>>
        /\ threads[t].at = "start"
    BY <1>5 DEF ReadArgument, ThreadAt, clientVars, netVars
  <2>2. \A c \in Conns : Held(c)' => Held(c)
    BY <2>1 DEF Held, Range
  <2>3. /\ threads \in Seq(Thread) /\ threads' \in Seq(Thread)
        /\ Len(threads') = Len(threads)
        /\ threads'[t].at = "recv"
        /\ \A u \in DOMAIN threads \ {t} : threads'[u] = threads[u]
    BY <1>5, ReadArgumentDoes DEF Becomes, TypeOK
  <2>4. DOMAIN threads' = DOMAIN threads
    BY <2>3
  <2> QED
    BY <1>1, <2>1, <2>2, <2>3, <2>4
\* A thread t at its socket: the other connections, then its own.
<1>6. ASSUME NEW t \in DOMAIN threads, threads[t].at \in {"recv", "handle"},
             NEW point \in {"recv", "handle", "done"}, NEW fd, NEW said,
             Becomes(t, point, fd, said),
             client' = client, backlog' = backlog,
             up' = up \/ \E s : up' = [up EXCEPT ![threads[t].conn] = s],
             down' = down \/ \E s : down' = [down EXCEPT ![threads[t].conn] = s],
             \A x \in Fds : owner'[x] \in {owner[x], NoConn},
             NEW d \in Conns, d # threads[t].conn
      PROVE  Talk(d)'
  <2>1. up'[d] = up[d] /\ down'[d] = down[d] /\ client'[d] = client[d]
    BY <1>0, <1>6
  <2>2. Held(d)' => Held(d)
    BY <1>0, <1>6 DEF Held, Range
  <2>3. /\ DOMAIN threads' = DOMAIN threads
        /\ threads'[t].conn = threads[t].conn
        /\ \A u \in DOMAIN threads \ {t} : threads'[u] = threads[u]
    BY <1>6, OneThread DEF Becomes
  <2> QED
    BY <1>6, <2>1, <2>2, <2>3, AsideKeeps DEF Aside, Holds, Exchange
<1>7. ASSUME NEW t \in DOMAIN threads, Recv(t) PROVE Exchange'
  <2>0. PICK c : c = threads[t].conn
    OBVIOUS
  <2>1. /\ threads[t].at = "recv" /\ c \in Conns
        /\ c = Socket(threads[t].my_fd) /\ Held(c)
        /\ \A u \in DOMAIN threads : Alive(u) /\ threads[u].conn = c => u = t
    BY <1>7, <2>0, Serves DEF Recv, ThreadAt
  <2>2. /\ UNCHANGED <<client, backlog, owner, down, reset>>
        /\ up[c] # <<>> /\ up' = [up EXCEPT ![c] = Tail(@)]
        /\ Becomes(t, "handle", threads[t].my_fd, Head(up[c]))
    BY <1>7, <2>1, RecvDoes DEF Recv, clientVars
  <2>3. \A d \in Conns : d # c => Talk(d)'
    BY <1>6, <2>0, <2>1, <2>2
  <2>4. Talk(c)'
    <3>1. /\ Talk(c) /\ up'[c] = Tail(up[c])
          /\ client[c] \in {"new", "idle", "waiting", "left", "gone", "ended"}
      BY <1>0, <2>1, <2>2 DEF Exchange
    <3>2. Nobody(c)
      BY <2>1 DEF Nobody, Holds, Alive
    <3>3. \A m : m = Head(up[c]) => Somebody(c, m)'
      <4>1. t \in DOMAIN threads'
        BY <2>2, SameThreads
      <4> QED
        BY <2>0, <2>2, <4>1 DEF Becomes, Somebody, Holds
    <3> QED
      BY <2>2, <3>1, <3>2, <3>3, Singles DEF Talk, Bye
  <2> QED
    BY <2>2, <2>3, <2>4 DEF Exchange
<1>8. ASSUME NEW t \in DOMAIN threads, RecvNothing(t) PROVE Exchange'
  <2>0. PICK c : c = threads[t].conn
    OBVIOUS
  <2>1. /\ threads[t].at = "recv" /\ c \in Conns
        /\ c = Socket(threads[t].my_fd) /\ Held(c)
        /\ \A u \in DOMAIN threads : Alive(u) /\ threads[u].conn = c => u = t
    BY <1>8, <2>0, Serves DEF RecvNothing, HandlesAnyway, ThreadAt
  <2>2. /\ UNCHANGED <<client, backlog, owner, up, down, reset>>
        /\ up[c] = <<>> /\ PeerGone(c)
        /\ Becomes(t, "handle", threads[t].my_fd, threads[t].buf)
    BY <1>0, <1>8, <2>1, MovesOn DEF RecvNothing, HandlesAnyway, clientVars, netVars
  <2>3. \A d \in Conns : d # c => Talk(d)'
    BY <1>6, <2>0, <2>1, <2>2
  <2>4. Talk(c)'
    <3>1. Talk(c)
      BY <2>1 DEF Exchange
    <3>2. \A m : ~Somebody(c, m)
      BY <2>1 DEF Somebody, Holds, Alive
    <3>3. client[c] = "gone"
      BY <2>1, <2>2, <3>1, <3>2, Singles DEF Talk, PeerGone
    <3> QED
      BY <2>2, <3>1, <3>3 DEF Talk
  <2> QED
    BY <2>2, <2>3, <2>4 DEF Exchange
<1>9. ASSUME NEW t \in DOMAIN threads, CloseConnection(t) PROVE Exchange'
  <2>0. PICK c : c = threads[t].conn
    OBVIOUS
  <2>1. /\ threads[t].at = "handle" /\ c \in Conns
        /\ threads[t].my_fd = new_fds[t]
        /\ \A fd \in Fds : owner[fd] = c => fd = new_fds[t]
        /\ owner[new_fds[t]] = c /\ new_fds[t] \in Fds
    BY <1>9, <2>0, Serves DEF CloseConnection, Closes, ThreadAt
  <2>2. /\ UNCHANGED <<client, backlog, up, down, reset>>
        /\ threads' = [threads EXCEPT ![t].at = "done"]
        /\ threads[t].buf \in {"!", Garbage}
        /\ owner' = [x \in Fds |-> IF x = new_fds[t] THEN NoConn ELSE owner[x]]
    BY <1>9, <2>1 DEF CloseConnection, Closes, Says, clientVars, netVars
  <2>3. Becomes(t, "done", threads[t].my_fd, threads[t].buf)
    BY <2>2, MovesOn
  <2>4. \A d \in Conns : d # c => Talk(d)'
    BY <1>6, <2>0, <2>1, <2>2, <2>3
  <2>5. Talk(c)'
    <3>1. Talk(c)
      BY <2>1 DEF Exchange
    <3>2. \/ client[c] = "gone"
          \/ client[c] \in {"left", "ended"} /\ up[c] = <<>> /\ down[c] = <<>>
      BY <2>1, <2>2, <2>0, Handles DEF Garbage
    <3>3. ~Held(c)'
      <4>1. \A fd \in Fds : owner'[fd] # c
        BY <1>0, <2>1, <2>2
      <4>2. \A x \in DOMAIN backlog : backlog[x] # c
        BY <2>1 DEF Arranged, Separate
      <4> QED
        BY <2>2, <4>1, <4>2 DEF Held, Range
    <3> QED
      BY <2>2, <3>1, <3>2, <3>3 DEF Talk
  <2> QED
    BY <2>2, <2>4, <2>5 DEF Exchange
<1>10. ASSUME NEW t \in DOMAIN threads, Reply(t) PROVE Exchange'
  <2>0. PICK c : c = threads[t].conn
    OBVIOUS
  <2>a. \/ Sends(t, "data", "number")
        \/ \E answer : Sends(t, "other", answer)
    <3>1. Sends(t, "data", "number") \/ Sends(t, "other", "unknown stuff")
      BY <1>10 DEF Reply
    <3> QED
      BY ONLY <3>1, Zenon
  <2>b. PICK m \in {"data", "other"} :
          \E answer : Sends(t, m, answer) /\ (m = "data" => answer = "number")
    BY <2>a, Zenon
  <2>1. PICK answer : Sends(t, m, answer) /\ (m = "data" => answer = "number")
    BY <2>b
  <2>2. /\ threads[t].at = "handle" /\ c \in Conns
        /\ c = Socket(threads[t].my_fd)
        /\ \A u \in DOMAIN threads : Alive(u) /\ threads[u].conn = c => u = t
    BY <2>0, <2>1, Serves DEF Sends, ThreadAt
  <2>3. /\ UNCHANGED <<client, backlog, owner, up>>
        /\ threads[t].buf \in {m, Garbage}
        /\ IF PeerGone(c) THEN reset' = reset \cup {c} /\ down' = down
           ELSE down' = [down EXCEPT ![c] = Append(@, answer)] /\ reset' = reset
    BY <1>0, <2>1, <2>2 DEF Sends, Says, clientVars
  <2>c. Becomes(t, "recv", threads[t].my_fd, m)
    <3>1. m \in Messages
      BY DEF Messages
    <3> QED
      BY <1>0, <2>1, <3>1, SendsDoes, ZenonT(40)
  <2>4. \A d \in Conns : d # c => Talk(d)'
    BY <1>6, <2>0, <2>2, <2>3, <2>c
  <2>5. /\ Talk(c)
        /\ \/ client[c] = "gone"
           \/ /\ client[c] = "waiting" /\ m = "data"
              /\ up[c] = <<>> /\ down[c] = <<>>
    BY <2>2, <2>3, <2>0, Handles DEF Bye, Garbage, Exchange
  <2>6. Talk(c)'
    <3>1. CASE client[c] = "gone"
      BY <2>3, <2>5, <3>1 DEF Talk, PeerGone
    <3>2. CASE client[c] = "waiting"
      <4>1. down' = [down EXCEPT ![c] = Append(down[c], "number")]
        BY <2>1, <2>3, <2>5, <3>2 DEF PeerGone
      <4>2. /\ up'[c] = <<>> /\ down'[c] = Append(<<>>, "number")
            /\ client'[c] = "waiting"
        BY <1>0, <2>2, <2>3, <2>5, <3>2, <4>1
      <4>3. Nobody(c)'
        <5>1. DOMAIN threads' = DOMAIN threads
          BY <2>c, SameThreads
        <5> QED
          BY <2>0, <2>2, <2>c, <5>1 DEF Becomes, Nobody, Holds, Alive
      <4> QED
        BY <4>2, <4>3, Singles DEF Talk
    <3> QED
      BY <2>5, <3>1, <3>2
  <2>7. \A d \in reset' : client'[d] = "gone"
    BY <2>3, <2>5 DEF Exchange, PeerGone
  <2> QED
    BY <2>4, <2>6, <2>7 DEF Exchange
<1> QED
  BY <1>2, <1>3, <1>4, <1>5, <1>7, <1>8, <1>9, <1>10, ClientStep, Steps
  DEF StartThreadFails, ExitServer, ReplyKills

\* Why the server ends.
LEMMA EndsStep ==
  ASSUME TypeOK, Arranged, Exchange, EndsForAReason, ~astray,
         [Next]_vars, ~astray'
  PROVE  EndsForAReason'
<1>1. CASE UNCHANGED vars
  BY <1>1 DEF EndsForAReason, vars, clientVars
<1>2. ASSUME proc = "running", proc' = proc PROVE EndsForAReason'
  BY <1>2 DEF EndsForAReason
<1>3. CASE StartThreadFails
  BY <1>3 DEF EndsForAReason, StartThreadFails, Ends
<1>4. ASSUME NEW t \in DOMAIN threads, ExitServer(t) PROVE EndsForAReason'
  <2>0. PICK c : c = threads[t].conn
    OBVIOUS
  <2>1. /\ threads[t].at = "handle" /\ threads[t].buf \in {"!!", Garbage}
        /\ client' = client /\ proc' = "exit 0"
    BY <1>4 DEF ExitServer, ThreadAt, Says, Ends, clientVars
  <2>2. c \in Conns
    BY <2>0, <2>1, Serves
  <2>3. \/ client[c] = "gone"
        \/ client[c] \in {"left", "ended"} /\ c \in Controls
    BY <2>0, <2>1, Handles DEF Bye, Garbage
  <2> QED
    BY <2>1, <2>2, <2>3 DEF EndsForAReason
<1>5. ASSUME NEW t \in DOMAIN threads, ReplyKills(t) PROVE EndsForAReason'
  <2>1. /\ Socket(threads[t].my_fd) \in reset
        /\ client' = client
    BY <1>5 DEF ReplyKills, Ends, clientVars
  <2>2. \E c \in Conns : client[c] = "gone"
    BY <2>1 DEF Exchange, TypeOK
  <2> QED
    BY <2>1, <2>2 DEF EndsForAReason
<1>6. ASSUME NEW t \in DOMAIN threads,
             \/ ReadArgument(t) \/ Recv(t) \/ RecvNothing(t)
             \/ CloseConnection(t) \/ Reply(t)
      PROVE  proc = "running" /\ proc' = proc
  BY <1>6
  DEF ReadArgument, Recv, RecvNothing, HandlesAnyway, CloseConnection, Closes,
      Reply, Sends, ThreadAt, Running
<1>7. ASSUME NEW c \in Conns,
             Connect(c) \/ Ask(c) \/ Receive(c) \/ Leave(c) \/ Vanish(c)
      PROVE  proc = "running" /\ proc' = proc
  BY <1>7 DEF Connect, Ask, Receive, Leave, Vanish, Running
<1> QED
  BY <1>1, <1>2, <1>3, <1>4, <1>5, <1>6, <1>7, Steps
  DEF Accept, AcceptFails, SkipAfterFailure, StartThread, Starts, Running

-----------------------------------------------------------------------------
(***************************************************************************)
(* Together they hold as long as no thread has read a wrong descriptor.    *)
(***************************************************************************)
OnCourse == ~astray => Arranged /\ Exchange /\ EndsForAReason

\* It holds before the first connection,
LEMMA OnCourseInit == Init => OnCourse
<1> SUFFICES ASSUME Init PROVE Arranged /\ Exchange /\ EndsForAReason
  BY DEF OnCourse
<1>1. DOMAIN threads = {} /\ DOMAIN backlog = {} /\ new_fd = 0
  BY Singles DEF Init
<1>2. /\ \A fd \in Fds : owner[fd] = NoConn
      /\ \A c \in Conns : client[c] = "new" /\ up[c] = <<>> /\ down[c] = <<>>
      /\ reset = {} /\ proc = "running"
  BY DEF Init
<1>3. Arranged
  BY <1>1, <1>2, Tables, BoundsAssumption
  DEF Arranged, OwnCopy, Matched, Separate, Fds
<1>4. \A c \in Conns : Talk(c)
  BY <1>1, <1>2, Singles DEF Talk, Nobody
<1> QED
  BY <1>2, <1>3, <1>4 DEF Exchange, EndsForAReason

\* and at every step.
LEMMA OnCourseAlways == Spec => [](TypeOK /\ OnCourse)
<1>1. Init => TypeOK /\ OnCourse
  BY TypeInit, OnCourseInit
<1>2. TypeOK /\ OnCourse /\ [Next]_vars => (TypeOK /\ OnCourse)'
  BY TypeStep, StaysAstray, ArrangedStep, ExchangeStep, EndsStep DEF OnCourse
<1> QED
  BY <1>1, <1>2, PTL DEF Spec

\* A server arranged so has one thread for each open descriptor.
LEMMA OneEach ==
  ASSUME TypeOK, ~astray, Arranged
  PROVE  OneThreadEach
<1>1. ServesItsConnection
  BY Serves DEF ServesItsConnection, Serving
<1>2. ASSUME NEW fd \in Fds, owner[fd] # NoConn
      PROVE  Cardinality({t \in DOMAIN threads :
                            threads[t].at # "done" /\ new_fds[t] = fd})
               + (IF new_fd = fd THEN 1 ELSE 0) = 1
  <2> DEFINE S == {t \in DOMAIN threads :
                     threads[t].at # "done" /\ new_fds[t] = fd}
  <2> SUFFICES Cardinality(S) + (IF new_fd = fd THEN 1 ELSE 0) = 1
    OBVIOUS
  <2>1. CASE new_fd = fd
    <3>1. S = {}
      BY <2>1 DEF Arranged, Matched, Alive
    <3> HIDE DEF S
    <3> QED
      BY <2>1, <3>1, FS_EmptySet
  <2>2. CASE new_fd # fd
    <3>1. PICK t \in DOMAIN threads : Alive(t) /\ new_fds[t] = fd
      BY <1>2, <2>2 DEF Arranged, Matched
    <3>2. S = {t}
      BY <3>1 DEF Arranged, Matched, Alive
    <3> HIDE DEF S
    <3>3. Cardinality(S) = 1
      BY <3>2, FS_Singleton
    <3> QED
      BY <2>2, <3>3
  <2> QED
    BY <2>1, <2>2
<1> QED
  BY <1>1, <1>2 DEF OneThreadEach, Arranged, Separate

(***************************************************************************)
(* Descriptors, connections and threads match one to one.                  *)
(***************************************************************************)
THEOREM OneThreadPerConnection == Spec => []OneThreadEach
<1>1. TypeOK /\ OnCourse => OneThreadEach
  BY OneEach DEF OnCourse, OneThreadEach
<1> QED
  BY <1>1, OnCourseAlways, PTL

(***************************************************************************)
(* A waiting client has its request in exactly one place.                  *)
(***************************************************************************)
THEOREM Answered == Spec => []AnsweredOnce
<1>1. TypeOK /\ OnCourse => AnsweredOnce
  <2> SUFFICES ASSUME TypeOK, ~astray, Arranged, Exchange PROVE AnsweredOnce
    BY DEF OnCourse, AnsweredOnce
  <2>1. ASSUME NEW c \in Conns
        PROVE  Handling(c) = {t \in DOMAIN threads : Holds(t, c)}
    BY Serves DEF Handling, Holds
  <2>2. ASSUME NEW c \in Conns, Nobody(c)
        PROVE  Handling(c) = {} /\ Cardinality(Handling(c)) = 0
    BY <2>1, <2>2, FS_EmptySet DEF Nobody
  <2>3. ASSUME NEW c \in Conns, NEW m, Somebody(c, m)
        PROVE  Cardinality(Handling(c)) = 1
    <3>1. PICK t \in DOMAIN threads : Holds(t, c)
      BY <2>3 DEF Somebody
    <3>2. Handling(c) = {t}
      BY <2>1, <3>1, Serves DEF Holds, Alive
    <3> QED
      BY <3>2, FS_Singleton
  <2>4. \A e : Len(<<e>>) = 1
    OBVIOUS
  <2>5. Len(<<>>) = 0
    OBVIOUS
  <2>6. ASSUME NEW c \in Conns, client[c] = "waiting"
        PROVE  Len(up[c]) + Cardinality(Handling(c)) + Len(down[c]) = 1
    <3>1. Talk(c)
      BY DEF Exchange
    <3>2. \/ Len(up[c]) = 1 /\ Len(down[c]) = 0 /\ Nobody(c)
          \/ Len(up[c]) = 0 /\ Len(down[c]) = 0 /\ Somebody(c, "data")
          \/ Len(up[c]) = 0 /\ Len(down[c]) = 1 /\ Nobody(c)
      BY <2>4, <2>5, <2>6, <3>1 DEF Talk
    <3>3. /\ Nobody(c) => Cardinality(Handling(c)) = 0
          /\ Somebody(c, "data") => Cardinality(Handling(c)) = 1
      BY <2>2, <2>3
    <3>4. PICK a, h, b :
            /\ a = Len(up[c]) /\ h = Cardinality(Handling(c))
            /\ b = Len(down[c])
      OBVIOUS
    <3>5. \/ a = 1 /\ h = 0 /\ b = 0
          \/ a = 0 /\ h = 1 /\ b = 0
          \/ a = 0 /\ h = 0 /\ b = 1
      BY <3>2, <3>3, <3>4
    <3>6. a + h + b = 1
      BY <3>5
    <3> QED
      BY <3>4, <3>6
  <2>7. ASSUME NEW c \in Conns, client[c] = "idle"
        PROVE  up[c] = <<>> /\ Handling(c) = {} /\ down[c] = <<>>
    BY <2>2, <2>7 DEF Exchange, Talk
  <2> QED
    BY <2>6, <2>7 DEF AnsweredOnce, Exchange, Talk
<1> QED
  BY <1>1, OnCourseAlways, PTL

(***************************************************************************)
(* The server ends because it was told to, or because a client vanished.   *)
(***************************************************************************)
THEOREM EndsWithReason == Spec => []EndsForAReason
<1>1. OnCourse => EndsForAReason
  BY DEF OnCourse, EndsForAReason
<1> QED
  BY <1>1, OnCourseAlways, PTL

-----------------------------------------------------------------------------
(***************************************************************************)
(* The server implements Connection.  What the abstract state shows of a   *)
(* connection can be read off the client alone: a client that waits has    *)
(* one request or one answer under way, and nobody else has any.           *)
(***************************************************************************)
Phases == [c \in Conns |-> IF client[c] = "ended" THEN "left" ELSE client[c]]
Open == {c \in Conns : Held(c)}
Requests == [c \in Conns |-> IF client[c] = "gone" THEN 0 ELSE DataUnderWay(c)]
Answers == [c \in Conns |-> IF client[c] = "gone" THEN 0 ELSE Len(down[c])]
ServerIs == IF Running THEN "up"
            ELSE IF proc = "exit 1" THEN "failed" ELSE "stopped"

\* The requests and answers under way, read off the client.
LEMMA CountsNow ==
  TypeOK /\ Arranged /\ Exchange =>
    /\ Requests = [c \in Conns |->
                     IF client[c] = "waiting" /\ down[c] = <<>> THEN 1 ELSE 0]
    /\ Answers = [c \in Conns |->
                    IF client[c] = "waiting" /\ down[c] # <<>> THEN 1 ELSE 0]
<1> SUFFICES ASSUME TypeOK, Arranged, Exchange, NEW c \in Conns, client[c] # "gone"
             PROVE  /\ DataUnderWay(c) =
                         IF client[c] = "waiting" /\ down[c] = <<>> THEN 1 ELSE 0
                    /\ Len(down[c]) =
                         IF client[c] = "waiting" /\ down[c] # <<>> THEN 1 ELSE 0
  BY DEF Requests, Answers
<1> DEFINE Sent == {x \in DOMAIN up[c] : up[c][x] = "data"}
           Taken == {t \in Handling(c) : threads[t].buf = "data"}
<1>0. /\ Talk(c)
      /\ client[c] \in {"new", "idle", "waiting", "left", "gone", "ended"}
  BY DEF Exchange, TypeOK
<1>1. Handling(c) = {t \in DOMAIN threads : Holds(t, c)}
  BY Serves DEF Handling, Holds
<1>2. Nobody(c) => Taken = {}
  BY <1>1 DEF Nobody
<1>3. ASSUME Somebody(c, Bye(c)) PROVE Taken = {}
  <2>1. PICK t \in DOMAIN threads : Holds(t, c) /\ threads[t].buf = Bye(c)
    BY <1>3 DEF Somebody
  <2>2. \A u \in DOMAIN threads : Holds(u, c) => u = t
    BY <2>1, Serves DEF Holds, Alive
  <2> QED
    BY <1>1, <2>1, <2>2 DEF Bye
<1>4. ASSUME Somebody(c, "data") PROVE \E t : Taken = {t}
  <2>1. PICK t \in DOMAIN threads : Holds(t, c) /\ threads[t].buf = "data"
    BY <1>4 DEF Somebody
  <2>2. \A u \in DOMAIN threads : Holds(u, c) => u = t
    BY <2>1, Serves DEF Holds, Alive
  <2>3. Taken = {t}
    BY <1>1, <2>1, <2>2
  <2> QED
    BY <2>3
<1>5. ASSUME ~Held(c) PROVE Taken = {}
  BY <1>1, <1>5, Serves DEF Holds
<1>6. up[c] = <<>> => Sent = {}
  BY Singles
<1>7. up[c] = <<"data">> => Sent = {1}
  <2>1. DOMAIN <<"data">> = {1} /\ <<"data">>[1] = "data"
    OBVIOUS
  <2> QED
    BY <2>1
<1>8. up[c] = <<Bye(c)>> => Sent = {}
  BY Singles DEF Bye
<1>9. Len(<<>>) = 0 /\ Len(<<"number">>) = 1
  OBVIOUS
<1>10. DataUnderWay(c) = Cardinality(Sent) + Cardinality(Taken)
  BY DEF DataUnderWay
<1> HIDE DEF Sent, Taken
<1>11. Cardinality({}) = 0 /\ \A t : Cardinality({t}) = 1
  BY FS_EmptySet, FS_Singleton
<1>12. PICK s, h : s = Cardinality(Sent) /\ h = Cardinality(Taken)
  OBVIOUS
<1>13. /\ up[c] = <<>> \/ up[c] = <<Bye(c)>> => s = 0
       /\ up[c] = <<"data">> => s = 1
       /\ Nobody(c) \/ ~Held(c) \/ Somebody(c, Bye(c)) => h = 0
       /\ Somebody(c, "data") => h = 1
  BY <1>2, <1>3, <1>4, <1>5, <1>6, <1>7, <1>8, <1>11, <1>12
<1>14. CASE client[c] \in {"new", "idle", "left", "ended"}
  <2>1. s = 0 /\ h = 0 /\ down[c] = <<>>
    BY <1>0, <1>13, <1>14 DEF Talk
  <2>2. DataUnderWay(c) = 0
    BY <1>10, <1>12, <2>1
  <2> QED
    BY <1>9, <1>14, <2>1, <2>2
<1>15. CASE client[c] = "waiting"
  <2>1. \/ s = 1 /\ h = 0 /\ down[c] = <<>>
        \/ s = 0 /\ h = 1 /\ down[c] = <<>>
        \/ s = 0 /\ h = 0 /\ down[c] = <<"number">>
    BY <1>0, <1>13, <1>15 DEF Talk
  <2>2. s + h = IF down[c] = <<>> THEN 1 ELSE 0
    BY <2>1, Singles
  <2>3. DataUnderWay(c) = IF down[c] = <<>> THEN 1 ELSE 0
    BY <1>10, <1>12, <2>2
  <2>4. down[c] = <<>> \/ down[c] = <<"number">>
    BY <2>1
  <2>5. <<"number">> # <<>>
    BY Singles
  <2>6. Len(down[c]) = IF down[c] # <<>> THEN 1 ELSE 0
    BY <1>9, <2>4, <2>5
  <2> QED
    BY <1>15, <2>3, <2>6
<1> QED
  BY <1>0, <1>14, <1>15

\* The same after a step.
LEMMA CountsNext ==
  (TypeOK /\ Arranged /\ Exchange)' =>
    (/\ Requests = [c \in Conns |->
                      IF client[c] = "waiting" /\ down[c] = <<>> THEN 1 ELSE 0]
     /\ Answers = [c \in Conns |->
                     IF client[c] = "waiting" /\ down[c] # <<>> THEN 1 ELSE 0])'
BY CountsNow, PTL

(***************************************************************************)
(* Every step of the server and of its clients is one of Connection, or    *)
(* does not show in it.                                                    *)
(***************************************************************************)
LEMMA PromiseStep ==
  ASSUME TypeOK, Arranged, Exchange, (TypeOK /\ Arranged /\ Exchange)',
         EndsForAReason', ~astray', [Next]_vars
  PROVE  [Promise!Next]_(Promise!vars)
<1>0. /\ client \in [Conns -> {"new", "idle", "waiting", "left", "gone", "ended"}]
      /\ down \in [Conns -> Seq(Replies)]
      /\ owner \in [Fds -> Conns \cup {NoConn}] /\ backlog \in Seq(Conns)
      /\ NoConn \notin Conns /\ Controls \subseteq Conns
  BY ConnsAssumption DEF TypeOK
<1>a. /\ Requests = [c \in Conns |->
                       IF client[c] = "waiting" /\ down[c] = <<>> THEN 1 ELSE 0]
      /\ Answers = [c \in Conns |->
                      IF client[c] = "waiting" /\ down[c] # <<>> THEN 1 ELSE 0]
  BY CountsNow
<1>b. /\ Requests' = [c \in Conns |->
                        IF client'[c] = "waiting" /\ down'[c] = <<>> THEN 1 ELSE 0]
      /\ Answers' = [c \in Conns |->
                       IF client'[c] = "waiting" /\ down'[c] # <<>> THEN 1 ELSE 0]
  BY CountsNext
<1>c. UNCHANGED <<owner, backlog>> => Open' = Open
  BY DEF Open, Held, Range
<1>1. ASSUME UNCHANGED <<client, down, proc>>, Open' = Open
      PROVE  UNCHANGED Promise!vars
  <2>1. /\ Phases' = Phases /\ ServerIs' = ServerIs
        /\ Requests' = Requests /\ Answers' = Answers
    BY <1>a, <1>b, <1>1 DEF Phases, ServerIs, Running
  <2> QED
    BY <1>1, <2>1 DEF Promise!vars, Phases, Open, Requests, Answers, ServerIs
\* The server ends.
<1>2. ASSUME NEW fate \in {"exit 0", "exit 1", "killed"}, Running, Ends(fate)
      PROVE  Promise!Next
  <2>1. /\ proc = "running" /\ proc' = fate
        /\ UNCHANGED <<client, down, owner, backlog>>
    BY <1>2 DEF Ends, Running, clientVars, netVars
  <2>2. /\ Phases' = Phases /\ Open' = Open
        /\ Requests' = Requests /\ Answers' = Answers
        /\ ServerIs = "up"
        /\ ServerIs' = IF fate = "exit 1" THEN "failed" ELSE "stopped"
    BY <1>a, <1>b, <1>c, <2>1 DEF Phases, ServerIs, Running
  <2>3. CASE fate = "exit 1"
    <3>1. Promise!Fail
      BY <2>2, <2>3
      DEF Promise!Fail, Phases, Open, Requests, Answers, ServerIs
    <3> QED
      BY <3>1 DEF Promise!Next
  <2>4. CASE fate # "exit 1"
    <3>1. \E c \in Conns : \/ client[c] = "gone"
                           \/ c \in Controls /\ client[c] \in {"left", "ended"}
      BY <1>0, <2>1, <2>4 DEF EndsForAReason
    <3>2. \E c \in Conns : Phases[c] = "gone" \/ (c \in Controls /\ Phases[c] = "left")
      BY <3>1 DEF Phases
    <3>3. Promise!Stop
      BY <2>2, <2>4, <3>2
      DEF Promise!Stop, Phases, Open, Requests, Answers, ServerIs
    <3> QED
      BY <3>3 DEF Promise!Next
  <2> QED
    BY <2>3, <2>4
\* Nothing shows of the accept loop, nor of a thread that reads.
<1>3. CASE UNCHANGED vars \/ AcceptFails \/ SkipAfterFailure \/ StartThread
  BY <1>1, <1>c, <1>3
  DEF vars, AcceptFails, SkipAfterFailure, StartThread, Starts, clientVars, netVars
<1>4. CASE Accept
  <2>1. Open' = Open
    BY <1>4, AcceptHolds DEF Open
  <2> QED
    BY <1>1, <1>4, <2>1 DEF Accept, clientVars, netVars
<1>5. ASSUME NEW t \in DOMAIN threads,
             ReadArgument(t) \/ Recv(t) \/ RecvNothing(t)
      PROVE  UNCHANGED Promise!vars
  BY <1>1, <1>c, <1>5
  DEF ReadArgument, Recv, RecvNothing, HandlesAnyway, clientVars, netVars
<1>6. ASSUME NEW t \in DOMAIN threads, CloseConnection(t)
      PROVE  Promise!Next
  <2>0. PICK c : c = threads[t].conn
    OBVIOUS
  <2>1. /\ threads[t].at = "handle" /\ c \in Conns
        /\ threads[t].my_fd = new_fds[t]
        /\ \A fd \in Fds : owner[fd] = c => fd = new_fds[t]
        /\ owner[new_fds[t]] = c /\ new_fds[t] \in Fds
    BY <1>6, <2>0, Serves DEF CloseConnection, Closes, ThreadAt
  <2>2. /\ Running /\ UNCHANGED <<client, backlog, down, proc>>
        /\ threads[t].buf \in {"!", Garbage}
        /\ owner' = [x \in Fds |-> IF x = new_fds[t] THEN NoConn ELSE owner[x]]
    BY <1>6, <2>1
    DEF CloseConnection, Closes, Says, ThreadAt, clientVars, netVars
  <2>3. client[c] \in {"gone", "left", "ended"}
    BY <2>0, <2>1, <2>2, Handles DEF Garbage
  <2>4. \A x \in DOMAIN backlog : backlog[x] # c
    BY <2>1 DEF Arranged, Separate
  <2>5. /\ \A fd \in Fds : owner'[fd] # c
        /\ \A d \in Conns \ {c} :
             (\E fd \in Fds : owner'[fd] = d) <=> (\E fd \in Fds : owner[fd] = d)
    BY <1>0, <2>1, <2>2
  <2>6. Open' = Open \ {c}
    BY <2>2, <2>4, <2>5 DEF Open, Held, Range
  <2>7. /\ Phases' = Phases /\ ServerIs = "up" /\ ServerIs' = ServerIs
        /\ Requests' = Requests /\ Answers' = Answers
        /\ Phases[c] \in {"left", "gone"}
    BY <1>a, <1>b, <2>1, <2>2, <2>3 DEF Phases, ServerIs, Running
  <2>8. Promise!Close(c)
    BY <2>6, <2>7
    DEF Promise!Close, Phases, Open, Requests, Answers, ServerIs
  <2> QED
    BY <2>1, <2>8 DEF Promise!Next
<1>7. ASSUME NEW t \in DOMAIN threads, Reply(t)
      PROVE  [Promise!Next]_(Promise!vars)
  <2>0. PICK c : c = threads[t].conn
    OBVIOUS
  <2>a. \/ \E answer : Sends(t, "data", answer)
        \/ \E answer : Sends(t, "other", answer)
    <3>1. Sends(t, "data", "number") \/ Sends(t, "other", "unknown stuff")
      BY <1>7 DEF Reply
    <3> QED
      BY ONLY <3>1, Zenon
  <2>b. PICK m \in {"data", "other"} : \E answer : Sends(t, m, answer)
    BY <2>a, Zenon
  <2>1. PICK answer : Sends(t, m, answer)
    BY <2>b
  <2>2. /\ threads[t].at = "handle" /\ c \in Conns /\ Held(c)
        /\ c = Socket(threads[t].my_fd)
    BY <2>0, <2>1, Serves DEF Sends, ThreadAt
  <2>3. /\ Running /\ UNCHANGED <<client, backlog, owner, proc>>
        /\ threads[t].buf \in {m, Garbage}
        /\ \/ PeerGone(c) /\ down' = down
           \/ ~PeerGone(c) /\ down' = [down EXCEPT ![c] = Append(@, answer)]
    BY <1>0, <2>1, <2>2 DEF Sends, Says, ThreadAt, clientVars
  <2>4. Open' = Open
    BY <1>c, <2>3
  <2>5. CASE PeerGone(c)
    BY <1>1, <2>3, <2>4, <2>5
  <2>6. CASE ~PeerGone(c)
    <3>1. client[c] = "waiting" /\ down[c] = <<>>
      BY <2>0, <2>2, <2>3, <2>6, Handles DEF PeerGone, Bye, Garbage
    <3>2. down'[c] # <<>> /\ \A d \in Conns \ {c} : down'[d] = down[d]
      <4>1. down' = [down EXCEPT ![c] = Append(down[c], answer)]
        BY <2>3, <2>6
      <4>2. Append(down[c], answer) # <<>>
        BY <3>1, Singles
      <4> QED
        BY <1>0, <2>2, <4>1, <4>2
    <3>3. /\ Phases' = Phases /\ ServerIs = "up" /\ ServerIs' = ServerIs
          /\ c \in Open /\ Requests[c] = 1 /\ Answers[c] = 0
      BY <1>a, <2>2, <2>3, <3>1 DEF Phases, ServerIs, Running, Open
    <3>4. /\ Requests' = [Requests EXCEPT ![c] = 0]
          /\ Answers' = [Answers EXCEPT ![c] = 1]
      BY <1>a, <1>b, <2>3, <3>1, <3>2
    <3>5. /\ Requests' = [Requests EXCEPT ![c] = @ - 1]
          /\ Answers' = [Answers EXCEPT ![c] = @ + 1]
          /\ Requests[c] > 0
      <4>1. 1 - 1 = 0 /\ 0 + 1 = 1 /\ 1 > 0
        OBVIOUS
      <4> QED
        BY <3>3, <3>4, <4>1, Zenon
    <3>6. Promise!Answer(c)
      BY <2>4, <3>3, <3>5
      DEF Promise!Answer, Phases, Open, Requests, Answers, ServerIs
    <3> QED
      BY <2>2, <3>6 DEF Promise!Next
  <2> QED
    BY <2>5, <2>6
\* The steps of a client show in its phase and its counts.
<1>8. ASSUME NEW c \in Conns, NEW point \in {"idle", "waiting", "left"},
             client[c] # "ended", client' = [client EXCEPT ![c] = point],
             proc' = proc
      PROVE  /\ Phases' = [Phases EXCEPT ![c] = point]
             /\ Phases[c] = client[c] /\ ServerIs' = ServerIs
  BY <1>0, <1>8 DEF Phases, ServerIs, Running
<1>9. ASSUME NEW c \in Conns, Connect(c) PROVE Promise!Next
  <2>1. /\ client[c] = "new" /\ client' = [client EXCEPT ![c] = "idle"]
        /\ backlog' = Append(backlog, c) /\ Running
        /\ UNCHANGED <<proc, owner, down>>
    BY <1>9 DEF Connect, netVars
  <2>2. /\ Phases' = [Phases EXCEPT ![c] = "idle"] /\ Phases[c] = "new"
        /\ ServerIs' = ServerIs /\ ServerIs = "up"
    BY <1>8, <2>1 DEF ServerIs
  <2>3. Requests' = Requests /\ Answers' = Answers
    BY <1>0, <1>a, <1>b, <2>1
  <2>4. Open' = Open \cup {c}
    <3>1. /\ DOMAIN backlog' = DOMAIN backlog \cup {Len(backlog) + 1}
          /\ backlog'[Len(backlog) + 1] = c
          /\ \A x \in DOMAIN backlog : backlog'[x] = backlog[x]
      <4>1. backlog \in Seq(Conns)
        BY <1>0
      <4> QED
        BY <2>1, <4>1
    <3> QED
      BY <2>1, <3>1 DEF Open, Held, Range
  <2>5. Promise!Connect(c)
    BY <2>2, <2>3, <2>4
    DEF Promise!Connect, Promise!Becomes, Phases, Open, Requests, Answers, ServerIs
  <2> QED
    BY <2>5 DEF Promise!Next
<1>10. ASSUME NEW c \in Conns, Ask(c) PROVE Promise!Next
  <2>1. /\ c \notin Controls
        /\ client[c] = "idle" /\ client' = [client EXCEPT ![c] = "waiting"]
        /\ UNCHANGED <<proc, owner, backlog, down>>
    BY <1>10 DEF Ask
  <2>2. /\ Phases' = [Phases EXCEPT ![c] = "waiting"] /\ Phases[c] = "idle"
        /\ ServerIs' = ServerIs /\ Open' = Open
    BY <1>c, <1>8, <2>1
  <2>3. down[c] = <<>>
    BY <2>1 DEF Exchange, Talk
  <2>4. /\ Requests' = [Requests EXCEPT ![c] = 1] /\ Requests[c] = 0
        /\ Answers' = Answers
    BY <1>0, <1>a, <1>b, <2>1, <2>3
  <2>5. Requests' = [Requests EXCEPT ![c] = @ + 1]
    BY <2>4
  <2>6. Promise!Ask(c)
    BY <2>1, <2>2, <2>4, <2>5
    DEF Promise!Ask, Promise!Becomes, Phases, Open, Requests, Answers, ServerIs
  <2> QED
    BY <2>6 DEF Promise!Next
<1>11. ASSUME NEW c \in Conns, Receive(c) PROVE Promise!Next
  <2>1. /\ client[c] = "waiting" /\ client' = [client EXCEPT ![c] = "idle"]
        /\ down[c] # <<>> /\ down' = [down EXCEPT ![c] = Tail(down[c])]
        /\ UNCHANGED <<proc, owner, backlog>>
    BY <1>11 DEF Receive
  <2>2. /\ Phases' = [Phases EXCEPT ![c] = "idle"] /\ Phases[c] = "waiting"
        /\ ServerIs' = ServerIs /\ Open' = Open
    BY <1>c, <1>8, <2>1
  <2>3. \A d \in Conns \ {c} : client'[d] = client[d] /\ down'[d] = down[d]
    BY <1>0, <2>1
  <2>4. /\ Answers' = [Answers EXCEPT ![c] = 0] /\ Answers[c] = 1
        /\ Requests' = Requests
    BY <1>0, <1>a, <1>b, <2>1, <2>3
  <2>5. Answers' = [Answers EXCEPT ![c] = @ - 1] /\ Answers[c] > 0
    BY <2>4
  <2>6. Promise!Receive(c)
    BY <2>2, <2>4, <2>5
    DEF Promise!Receive, Promise!Becomes, Phases, Open, Requests, Answers, ServerIs
  <2> QED
    BY <2>6 DEF Promise!Next
<1>12. ASSUME NEW c \in Conns, Leave(c) PROVE Promise!Next
  <2>1. /\ client[c] = "idle" /\ client' = [client EXCEPT ![c] = "left"]
        /\ UNCHANGED <<proc, owner, backlog, down>>
    BY <1>12 DEF Leave
  <2>2. /\ Phases' = [Phases EXCEPT ![c] = "left"] /\ Phases[c] = "idle"
        /\ ServerIs' = ServerIs /\ Open' = Open
    BY <1>c, <1>8, <2>1
  <2>3. Requests' = Requests /\ Answers' = Answers
    BY <1>0, <1>a, <1>b, <2>1
  <2>4. Promise!Leave(c)
    BY <2>2, <2>3
    DEF Promise!Leave, Promise!Becomes, Phases, Open, Requests, Answers, ServerIs
  <2> QED
    BY <2>4 DEF Promise!Next
<1>13. ASSUME NEW c \in Conns, Vanish(c) PROVE [Promise!Next]_(Promise!vars)
  <2>1. /\ \/ client[c] = "left" /\ client' = [client EXCEPT ![c] = "ended"]
           \/ /\ client[c] \in {"idle", "waiting"}
              /\ client' = [client EXCEPT ![c] = "gone"]
        /\ UNCHANGED <<proc, owner, backlog, down>>
    BY <1>13 DEF Vanish
  <2>2. ServerIs' = ServerIs /\ Open' = Open
    BY <1>c, <2>1 DEF ServerIs, Running
  <2>3. CASE client[c] = "left"
    <3>1. Phases' = Phases /\ Requests' = Requests /\ Answers' = Answers
      BY <1>0, <1>a, <1>b, <2>1, <2>3 DEF Phases
    <3> QED
      BY <2>2, <3>1
      DEF Promise!vars, Phases, Open, Requests, Answers, ServerIs
  <2>4. CASE client[c] # "left"
    <3>1. /\ client[c] \in {"idle", "waiting"}
          /\ \A d \in Conns : client'[d] = IF d = c THEN "gone" ELSE client[d]
      BY <1>0, <2>1, <2>4
    <3>2. /\ \A d \in {c} : Phases[d] \in {"idle", "waiting"}
          /\ Phases' = [d \in Conns |-> IF d \in {c} THEN "gone" ELSE Phases[d]]
      BY <3>1 DEF Phases
    <3>3. /\ Requests' = [d \in Conns |-> IF d \in {c} THEN 0 ELSE Requests[d]]
          /\ Answers' = [d \in Conns |-> IF d \in {c} THEN 0 ELSE Answers[d]]
      BY <1>a, <1>b, <2>1, <3>1
    <3>4. Promise!Vanish({c})
      BY <2>2, <3>2, <3>3
      DEF Promise!Vanish, Phases, Open, Requests, Answers, ServerIs
    <3>5. {c} \in SUBSET Conns
      OBVIOUS
    <3> QED
      BY <3>4, <3>5 DEF Promise!Next
  <2> QED
    BY <2>3, <2>4
<1> QED
  BY <1>2, <1>3, <1>4, <1>5, <1>6, <1>7, <1>9, <1>10, <1>11, <1>12, <1>13, Steps
  DEF StartThreadFails, ExitServer, ReplyKills, ThreadAt

(***************************************************************************)
(* As long as no thread has read a wrong descriptor, the server keeps what *)
(* Connection promises.                                                    *)
(***************************************************************************)
THEOREM IsConnection == Spec => ImplementsConnection
<1>1. Init => Promise!Init
  <2> SUFFICES ASSUME Init PROVE Promise!Init
    OBVIOUS
  <2>1. /\ TypeOK /\ Arranged /\ Exchange
    BY TypeInit, OnCourseInit DEF OnCourse, Init
  <2>2. \A c \in Conns : client[c] = "new"
    BY DEF Init
  <2>3. /\ Requests = [c \in Conns |-> 0] /\ Answers = [c \in Conns |-> 0]
        /\ Phases = [c \in Conns |-> "new"]
    BY <2>1, <2>2, CountsNow DEF Phases
  <2>4. Open = {} /\ ServerIs = "up"
    <3>1. \A c \in Conns : ~Held(c)
      BY ConnsAssumption, Singles DEF Init, Held, Range
    <3> QED
      BY <3>1 DEF Open, ServerIs, Running, Init
  <2> QED
    BY <2>3, <2>4 DEF Promise!Init, Phases, Open, Requests, Answers, ServerIs
<1>2. /\ TypeOK /\ OnCourse /\ (TypeOK /\ OnCourse)' /\ [Next]_vars
      => [~astray' => Promise!Next]_(Promise!vars)
  <2> SUFFICES ASSUME TypeOK, OnCourse, (TypeOK /\ OnCourse)', [Next]_vars,
                      ~astray'
               PROVE  [Promise!Next]_(Promise!vars)
    OBVIOUS
  <2>1. Arranged /\ Exchange
    BY StaysAstray DEF OnCourse
  <2>2. (TypeOK /\ Arranged /\ Exchange)' /\ EndsForAReason'
    BY DEF OnCourse
  <2> QED
    BY <2>1, <2>2, PromiseStep
<1> QED
  BY <1>1, <1>2, OnCourseAlways, PTL DEF Spec, ImplementsConnection
=============================================================================

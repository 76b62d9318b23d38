---------------------------- MODULE EchoTCPProofs ----------------------------
(***************************************************************************)
(* Theorems about EchoTCP, for any connections, descriptors, messages and  *)
(* failures: whichever of the two programs runs, descriptors, connections  *)
(* and threads match; and while ServerTCP runs, the only text of its own   *)
(* that a ClientTCP prints as received is the "!" it ends with.  The       *)
(* accept loop and the threads are those of Server, so what ServerProofs   *)
(* says of their steps holds here.                                         *)
(***************************************************************************)
EXTENDS EchoTCP, ServerProofs

(***************************************************************************)
(* What is under way between a ClientTCP and its thread while the server   *)
(* runs.  A client that is not waiting has nothing under way and is still  *)
(* connected, with what the server said last in its buffer.  What a client *)
(* that waits has said, which is in its buffer, is on the way, with its    *)
(* thread, or answered; or it was "!", and the connection is closed.  One  *)
(* that has ended has that "!" in its buffer.                              *)
(***************************************************************************)
Quiet(c) == up[c] = <<>> /\ down[c] = <<>>

EchoTalk(c) ==
  /\ client[c] # "left"
  /\ client[c] \in {"new", "idle"} =>
       Quiet(c) /\ Nobody(c) /\ buf[c] \in {"", "Hello to you"}
  /\ client[c] = "ended" => buf[c] = "!"
  /\ client[c] = "idle" => Held(c)
  /\ client[c] = "waiting" =>
       /\ buf[c] \in Typed
       /\ \/ up[c] = <<buf[c]>> /\ down[c] = <<>> /\ Nobody(c) /\ Held(c)
          \/ Quiet(c) /\ Somebody(c, buf[c]) /\ Held(c)
          \/ up[c] = <<>> /\ down[c] = <<"Hello to you">> /\ Nobody(c) /\ Held(c)
          \/ Quiet(c) /\ Nobody(c) /\ ~Held(c) /\ buf[c] = "!"

Kinds ==
  /\ TypeOK
  /\ program \in {"dataserver", "ServerTCP"}
  /\ buf \in [Conns -> Typed \cup Replies \cup {""}]

EchoInv ==
  /\ Kinds
  /\ ~astray => Arranged
  /\ ~Echoes => \A c \in Conns : buf[c] = ""
  /\ Echoes /\ Running /\ ~astray => \A c \in Conns : EchoTalk(c)

-----------------------------------------------------------------------------
(* The steps.                                                              *)

\* What the two programs have in common, as a step of Server.
Shared ==
  \/ handle_process_loop
  \/ \E t \in DOMAIN threads :
       \/ ReadArgument(t) \/ Recv(t) \/ RecvNothing(t)
       \/ ExitServer(t) \/ CloseConnection(t) \/ ReplyKills(t)
  \/ \E c \in Conns : Connect(c) \/ Vanish(c)

(***************************************************************************)
(* They are steps of Server, whose lemmas apply to them.                   *)
(***************************************************************************)
LEMMA SharedIsNext ==
  ASSUME Shared
  PROVE  [Next]_vars
BY DEF Shared, Next, server_thread_function, Client

\* What only ClientTCP does: nothing happens to the server.
Typing(c) ==
  \/ ConnectRefused(c) \/ SayKills(c) \/ Hear(c) \/ HearNothing(c)
  \/ \E m \in Typed : Say(c, m)

\* Whatever happens is one of these.
LEMMA EchoSteps ==
  ASSUME [EchoNext]_allVars
  PROVE  \/ UNCHANGED allVars
         \/ ~Echoes /\ [Next]_vars /\ UNCHANGED echoVars
         \/ Echoes /\ Shared /\ UNCHANGED echoVars
         \/ /\ Echoes /\ UNCHANGED echoVars
            /\ \E t \in DOMAIN threads : Hello(t)
         \/ /\ Echoes /\ UNCHANGED program
            /\ \E c \in Conns : Typing(c)
BY DEF EchoNext, Shared, Typing, echo_thread_function, ClientTCP, echoVars

\* The fields of one client.
LEMMA OneClient ==
  ASSUME TypeOK, NEW c \in Conns
  PROVE  /\ client[c] \in {"new", "idle", "waiting", "left", "gone", "ended"}
         /\ up[c] \in Seq(Messages) /\ down[c] \in Seq(Replies)
BY DEF TypeOK

\* What a ClientTCP that types changes, and what it leaves alone.
LEMMA TypingDoes ==
  ASSUME Kinds, NEW c \in Conns, Typing(c)
  PROVE  /\ UNCHANGED <<proc, new_fd, new_fds, capacity, block, threads, owner,
                        backlog, reset, failures, astray>>
         /\ client[c] = "new" => ~Running
         /\ \E point \in {"idle", "waiting", "gone", "ended"} :
              client' = [client EXCEPT ![c] = point]
         /\ \E m \in Typed \cup Replies \cup {""} : buf' = [buf EXCEPT ![c] = m]
         /\ \/ up' = up
            \/ \E m \in Messages : up' = [up EXCEPT ![c] = Append(@, m)]
         /\ \/ down' = down
            \/ down[c] # <<>> /\ down' = [down EXCEPT ![c] = Tail(@)]
         /\ asked' \in [Conns -> 0..MaxRequests]
<1>0. /\ buf \in [Conns -> Typed \cup Replies \cup {""}]
      /\ asked \in [Conns -> 0..MaxRequests] /\ MaxRequests \in Nat
      /\ down[c] \in Seq(Replies)
  BY OneClient, BoundsAssumption DEF Kinds, TypeOK
<1>1. buf' = buf => buf' = [buf EXCEPT ![c] = buf[c]]
  BY <1>0
<1>2. CASE ConnectRefused(c) \/ SayKills(c)
  <2>1. /\ UNCHANGED <<buf, up, down, asked>>
        /\ client[c] = "new" => ~Running
        /\ \E point \in {"gone", "ended"} : client' = [client EXCEPT ![c] = point]
    BY <1>2 DEF ConnectRefused, SayKills, netVars
  <2> QED
    BY <1>0, <1>1, <1>2, <2>1 DEF ConnectRefused, SayKills, mainVars, netVars
<1>3. CASE Hear(c)
  <2>1. down[c] # <<>> /\ Head(down[c]) \in Replies
    <3>1. down[c] \in Seq(Replies) /\ down[c] # <<>>
      BY <1>0, <1>3 DEF Hear
    <3> QED
      BY ONLY <3>1
  <2>2. /\ buf' = [buf EXCEPT ![c] = Head(down[c])]
        /\ down' = [down EXCEPT ![c] = Tail(@)]
        /\ client[c] # "new" /\ client' = [client EXCEPT ![c] = "idle"]
    BY <1>3 DEF Hear
  <2> QED
    BY <1>0, <1>3, <2>1, <2>2 DEF Hear, mainVars
<1>4. CASE HearNothing(c)
  <2>1. /\ buf' = [buf EXCEPT ![c] = buf[c]]
        /\ client[c] # "new"
        /\ \E point \in {"idle", "ended"} : client' = [client EXCEPT ![c] = point]
        /\ UNCHANGED <<up, down, asked>>
    BY <1>4 DEF HearNothing, HearsNothing, netVars
  <2> QED
    BY <1>0, <1>4, <2>1 DEF HearNothing, HearsNothing, mainVars, netVars
<1>5. ASSUME NEW m \in Typed, Say(c, m)
      PROVE  /\ client[c] # "new" /\ m \in Messages
             /\ client' = [client EXCEPT ![c] = "waiting"]
             /\ buf' = [buf EXCEPT ![c] = m]
             /\ up' = up \/ up' = [up EXCEPT ![c] = Append(@, m)]
             /\ down' = down
             /\ asked' \in [Conns -> 0..MaxRequests]
             /\ UNCHANGED <<proc, new_fd, new_fds, capacity, block, threads, owner,
                           backlog, reset, failures, astray>>
  <2>1. asked' \in [Conns -> 0..MaxRequests]
    <3>1. PICK n : n = IF m = "other" THEN asked[c] + 1 ELSE asked[c]
      OBVIOUS
    <3>2. asked[c] \in 0..MaxRequests /\ (m = "other" => asked[c] < MaxRequests)
      BY <1>0, <1>5 DEF Say
    <3>3. n \in 0..MaxRequests
      <4>1. PICK a \in 0..MaxRequests : a = asked[c]
        BY <3>2
      <4>2. n = a \/ (n = a + 1 /\ a < MaxRequests)
        BY <3>1, <3>2, <4>1
      <4>3. MaxRequests \in Nat
        BY <1>0
      <4> QED
        BY ONLY <4>1, <4>2, <4>3
    <3>4. asked' = [asked EXCEPT ![c] = n]
      BY <1>5, <3>1 DEF Say
    <3> QED
      BY <1>0, <3>3, <3>4
  <2> QED
    BY <1>5, <2>1 DEF Say, Typed, Messages, mainVars
<1> QED
  BY <1>2, <1>3, <1>4, <1>5 DEF Typing

-----------------------------------------------------------------------------
(* The types, and who serves which connection.                             *)

\* A ClientTCP that types keeps the types.
LEMMA TypingType ==
  ASSUME Kinds, NEW c \in Conns, Typing(c)
  PROVE  TypeOK' /\ buf' \in [Conns -> Typed \cup Replies \cup {""}]
<1>0. /\ TypeOK /\ buf \in [Conns -> Typed \cup Replies \cup {""}]
      /\ client \in [Conns -> {"new", "idle", "waiting", "left", "gone", "ended"}]
      /\ up \in [Conns -> Seq(Messages)] /\ down \in [Conns -> Seq(Replies)]
  BY DEF Kinds, TypeOK
<1>1. client' \in [Conns -> {"new", "idle", "waiting", "left", "gone", "ended"}]
  BY <1>0, TypingDoes
<1>2. buf' \in [Conns -> Typed \cup Replies \cup {""}]
  BY <1>0, TypingDoes
<1>3. up' \in [Conns -> Seq(Messages)]
  <2>1. ASSUME NEW m \in Messages, up' = [up EXCEPT ![c] = Append(@, m)]
        PROVE  up' \in [Conns -> Seq(Messages)]
    BY <1>0, <2>1, Appended, Zenon
  <2> QED
    BY <1>0, <2>1, TypingDoes
<1>4. down' \in [Conns -> Seq(Replies)]
  <2>1. ASSUME down[c] # <<>>, down' = [down EXCEPT ![c] = Tail(@)]
        PROVE  down' \in [Conns -> Seq(Replies)]
    BY <1>0, <2>1, Removed, Zenon
  <2> QED
    BY <1>0, <2>1, TypingDoes
<1>5. /\ UNCHANGED <<proc, new_fd, new_fds, capacity, block, threads, owner,
                     backlog, reset, failures, astray>>
      /\ asked' \in [Conns -> 0..MaxRequests]
  BY TypingDoes
<1> QED
  BY <1>0, <1>1, <1>2, <1>3, <1>4, <1>5 DEF TypeOK

\* So does an answer of ServerTCP.
LEMMA HelloType ==
  ASSUME TypeOK, NEW t \in DOMAIN threads, Hello(t)
  PROVE  TypeOK'
BY SendsType DEF Hello, Messages, Replies

\* The types are kept.
LEMMA KindsStep ==
  ASSUME Kinds, [EchoNext]_allVars
  PROVE  Kinds'
<1>0. TypeOK
  BY DEF Kinds
<1>1. CASE UNCHANGED echoVars /\ [Next]_vars
  BY <1>0, <1>1, TypeStep DEF Kinds, echoVars
<1>2. CASE UNCHANGED allVars
  BY <1>1, <1>2 DEF allVars
<1>3. CASE Shared /\ UNCHANGED echoVars
  BY <1>1, <1>3, SharedIsNext
<1>4. ASSUME NEW t \in DOMAIN threads, Hello(t), UNCHANGED echoVars
      PROVE  Kinds'
  BY <1>0, <1>4, HelloType DEF Kinds, echoVars
<1>5. ASSUME NEW c \in Conns, Typing(c), UNCHANGED program
      PROVE  Kinds'
  BY <1>5, TypingType DEF Kinds
<1> QED
  BY <1>1, <1>2, <1>3, <1>4, <1>5, EchoSteps

\* A thread that answers goes back to its recv.
LEMMA HelloDoes ==
  ASSUME TypeOK, NEW t \in DOMAIN threads, Hello(t)
  PROVE  /\ threads[t].at = "handle" /\ threads[t].buf \in {"other", Garbage}
         /\ Running
         /\ Becomes(t, "recv", threads[t].my_fd, "other")
         /\ UNCHANGED <<proc, new_fd, new_fds, capacity, block, owner, backlog,
                        client, up, astray>>
<1>1. Sends(t, "other", "Hello to you") /\ "other" \in Messages
  BY DEF Hello, Messages
<1>2. Becomes(t, "recv", threads[t].my_fd, "other")
  BY <1>1, SendsDoes
<1> QED
  BY <1>1, <1>2 DEF Sends, ThreadAt, Says, mainVars, clientVars, netVars

\* Who serves which connection is kept until a thread reads a wrong descriptor.
LEMMA EchoArrangedStep ==
  ASSUME Kinds, ~astray => Arranged, [EchoNext]_allVars, ~astray'
  PROVE  Arranged'
<1>0. TypeOK /\ client \in [Conns -> {"new", "idle", "waiting", "left", "gone",
                                     "ended"}]
  BY DEF Kinds, TypeOK
<1>1. CASE UNCHANGED echoVars /\ [Next]_vars
  BY <1>0, <1>1, StaysAstray, ArrangedStep
<1>2. CASE UNCHANGED allVars
  BY <1>1, <1>2 DEF allVars
<1>3. CASE Shared /\ UNCHANGED echoVars
  BY <1>1, <1>3, SharedIsNext
<1>4. ASSUME NEW t \in DOMAIN threads, Hello(t)
      PROVE  Arranged'
  <2>1. /\ threads[t].at = "handle"
        /\ Becomes(t, "recv", threads[t].my_fd, "other")
        /\ UNCHANGED <<new_fd, new_fds, owner, backlog, client, astray>>
    BY <1>0, <1>4, HelloDoes
  <2>2. Arranged
    BY <2>1
  <2>3. threads[t].my_fd = new_fds[t]
    BY <2>1, <2>2 DEF Arranged, OwnCopy
  <2> QED
    BY <1>0, <2>1, <2>2, <2>3, ThreadArranged
<1>5. ASSUME NEW c \in Conns, Typing(c)
      PROVE  Arranged'
  <2>1. /\ UNCHANGED <<new_fd, new_fds, threads, owner, backlog, astray>>
        /\ \E point \in {"idle", "waiting", "gone", "ended"} :
             client' = [client EXCEPT ![c] = point]
    BY <1>5, TypingDoes
  <2>2. \A d \in Conns : client[d] # "new" => client'[d] # "new"
    BY <1>0, <2>1
  <2> QED
    BY <1>0, <2>1, <2>2, StaysArranged
<1> QED
  BY <1>1, <1>2, <1>3, <1>4, <1>5, EchoSteps
-----------------------------------------------------------------------------
(***************************************************************************)
(* What is under way, in ServerTCP.                                        *)
(***************************************************************************)

\* A step that is not about connection c.
LEMMA AsideKeepsTalk ==
  ASSUME NEW c \in Conns, Aside(c), Held(c) => Held(c)', buf'[c] = buf[c],
         EchoTalk(c)
  PROVE  EchoTalk(c)'
<1>1. /\ up'[c] = up[c] /\ down'[c] = down[c] /\ client'[c] = client[c]
      /\ Held(c) <=> Held(c)'
      /\ Nobody(c) => Nobody(c)'
      /\ \A m : Somebody(c, m) => Somebody(c, m)'
  BY DEF Aside, Nobody, Somebody, Holds
<1> QED
  BY <1>1 DEF EchoTalk, Quiet

\* Nobody writes to a connection, and no thread starts or ends to handle.
LEMMA AllAside ==
  ASSUME \A c \in Conns : EchoTalk(c),
         UNCHANGED <<up, down, client, buf>>,
         \A c \in Conns : Held(c) <=> Held(c)',
         DOMAIN threads \subseteq DOMAIN threads',
         \A t \in DOMAIN threads' \ DOMAIN threads : threads'[t].at = "start",
         \A t \in DOMAIN threads :
           \/ threads'[t] = threads[t]
           \/ threads[t].at # "handle" /\ threads'[t].at # "handle"
  PROVE  \A c \in Conns : EchoTalk(c)'
<1>1. ASSUME NEW c \in Conns PROVE Aside(c)
  BY DEF Aside, Holds
<1> QED
  BY <1>1, AsideKeepsTalk

\* What does not touch the tables leaves every connection where it is held.
LEMMA SameHeld ==
  ASSUME UNCHANGED <<owner, backlog>>
  PROVE  \A c : Held(c) <=> Held(c)'
BY DEF Held, Range

\* The connections that a thread at its socket does not serve.
LEMMA OthersKeepTalk ==
  ASSUME Kinds, \A c \in Conns : EchoTalk(c),
         NEW t \in DOMAIN threads, NEW point, NEW fd, NEW said,
         Becomes(t, point, fd, said),
         UNCHANGED <<client, buf, backlog>>,
         up' = up \/ \E s : up' = [up EXCEPT ![threads[t].conn] = s],
         down' = down \/ \E s : down' = [down EXCEPT ![threads[t].conn] = s],
         \A x \in Fds : \/ owner'[x] = owner[x]
                        \/ owner[x] = threads[t].conn /\ owner'[x] = NoConn,
         NEW d \in Conns, d # threads[t].conn
  PROVE  EchoTalk(d)'
<1>0. /\ TypeOK /\ NoConn \notin Conns
      /\ up \in [Conns -> Seq(Messages)] /\ down \in [Conns -> Seq(Replies)]
  BY ConnsAssumption DEF Kinds, TypeOK
<1>1. up'[d] = up[d] /\ down'[d] = down[d] /\ client'[d] = client[d]
  BY <1>0
<1>2. Held(d) <=> Held(d)'
  BY <1>0 DEF Held, Range
<1>3. /\ DOMAIN threads' = DOMAIN threads
      /\ threads'[t].conn = threads[t].conn
      /\ \A u \in DOMAIN threads \ {t} : threads'[u] = threads[u]
  BY <1>0, SameThreads DEF Becomes
<1>4. Aside(d)
  BY <1>1, <1>2, <1>3 DEF Aside, Holds
<1> QED
  BY <1>2, <1>4, AsideKeepsTalk

\* What a thread of ServerTCP that handles a message can have in its buffer.
LEMMA EchoHandles ==
  ASSUME Kinds, Arranged, \A c \in Conns : EchoTalk(c),
         NEW t \in DOMAIN threads, threads[t].at = "handle"
  PROVE  LET c == threads[t].conn IN
         \/ PeerGone(c)
         \/ /\ client[c] = "waiting" /\ Quiet(c) /\ Held(c)
            /\ threads[t].buf = buf[c] /\ buf[c] \in Typed
<1> DEFINE c == threads[t].conn
<1>1. /\ c \in Conns /\ Held(c) /\ Holds(t, c)
      /\ \A u \in DOMAIN threads : Holds(u, c) => u = t
  BY Serves DEF Holds, Alive, Kinds
<1>2. /\ EchoTalk(c)
      /\ client[c] \in {"new", "idle", "waiting", "left", "gone", "ended"}
  BY <1>1 DEF Kinds, TypeOK
<1> HIDE DEF c
<1>3. ~Nobody(c) /\ \A m : Somebody(c, m) => threads[t].buf = m
  BY <1>1 DEF Nobody, Somebody
<1>4. \/ PeerGone(c)
      \/ /\ client[c] = "waiting" /\ Quiet(c) /\ Held(c)
         /\ threads[t].buf = buf[c] /\ buf[c] \in Typed
  BY <1>1, <1>2, <1>3 DEF EchoTalk, PeerGone
<1> QED
  BY <1>4 DEF c

\* The steps of a thread that ServerTCP shares with dataserver, and Hello.
LEMMA ThreadKeepsTalk ==
  ASSUME Kinds, Arranged, \A c \in Conns : EchoTalk(c), buf' = buf,
         NEW t \in DOMAIN threads,
         \/ Recv(t) \/ RecvNothing(t) \/ CloseConnection(t) \/ Hello(t)
  PROVE  \A c \in Conns : EchoTalk(c)'
<1>0. /\ TypeOK
      /\ client \in [Conns -> {"new", "idle", "waiting", "left", "gone", "ended"}]
      /\ up \in [Conns -> Seq(Messages)] /\ down \in [Conns -> Seq(Replies)]
      /\ owner \in [Fds -> Conns \cup {NoConn}] /\ NoConn \notin Conns
  BY ConnsAssumption DEF Kinds, TypeOK
<1>1. PICK c : c = threads[t].conn
  OBVIOUS
<1>2. /\ threads[t].at \in {"recv", "handle"} /\ UNCHANGED <<client, backlog>>
  BY DEF Recv, RecvNothing, HandlesAnyway, CloseConnection, Closes, Hello, Sends,
         ThreadAt, clientVars
<1>3. /\ c \in Conns /\ Socket(threads[t].my_fd) = c
      /\ threads[t].my_fd = new_fds[t] /\ new_fds[t] \in Fds
      /\ owner[new_fds[t]] = c /\ Held(c)
      /\ \A fd \in Fds : owner[fd] = c => fd = new_fds[t]
      /\ \A u \in DOMAIN threads : Alive(u) /\ threads[u].conn = c => u = t
  BY <1>0, <1>1, <1>2, Serves
<1>4. EchoTalk(c)
  BY <1>3
\* Nothing is known of a connection whose client is gone.
<1>5. PeerGone(c) => EchoTalk(c)'
  BY <1>2, <1>4 DEF PeerGone, EchoTalk
<1>6. CASE Recv(t)
  <2>1. /\ UNCHANGED <<owner, down>> /\ threads[t].at = "recv"
    BY <1>6 DEF Recv, ThreadAt
  <2>2. /\ up[c] # <<>> /\ up' = [up EXCEPT ![c] = Tail(@)]
        /\ Becomes(t, "handle", threads[t].my_fd, Head(up[c]))
    BY <1>0, <1>3, <1>6, RecvDoes
  <2>3. \A d \in Conns : d # c => EchoTalk(d)'
    BY <1>1, <1>2, <2>1, <2>2, OthersKeepTalk
  <2>4. EchoTalk(c)'
    <3>1. Nobody(c)
      BY <1>3, <2>1 DEF Nobody, Holds, Alive
    <3>2. /\ \A m : m = Head(up[c]) => Somebody(c, m)'
          /\ Held(c)'
      <4>1. t \in DOMAIN threads'
        BY <1>0, <2>2, SameThreads
      <4>2. Held(c)'
        BY <1>2, <1>3, <2>1, SameHeld
      <4> QED
        BY <1>1, <2>2, <4>1, <4>2 DEF Becomes, Somebody, Holds
    <3>3. \/ PeerGone(c)
          \/ client[c] = "waiting" /\ buf[c] \in Typed /\ up[c] = <<buf[c]>>
             /\ down[c] = <<>>
      <4>1. client[c] \in {"new", "idle", "waiting", "left", "gone", "ended"}
        BY <1>0, <1>3
      <4> QED
        BY <1>4, <2>2, <3>1, <4>1 DEF EchoTalk, Quiet, PeerGone
    <3>4. ASSUME client[c] = "waiting", buf[c] \in Typed, up[c] = <<buf[c]>>,
                 down[c] = <<>>
          PROVE  EchoTalk(c)'
      <4>1. up'[c] = <<>> /\ down'[c] = <<>> /\ Head(up[c]) = buf[c]
        BY <1>0, <1>3, <2>1, <2>2, <3>4, Singles
      <4>2. Somebody(c, buf[c])' /\ client'[c] = "waiting" /\ buf' = buf
        BY <1>2, <3>2, <3>4, <4>1
      <4> QED
        BY <3>2, <3>4, <4>1, <4>2 DEF EchoTalk, Quiet
    <3> QED
      BY <1>5, <3>3, <3>4
  <2> QED
    BY <2>3, <2>4
<1>7. CASE RecvNothing(t)
  <2>1. /\ UNCHANGED <<owner, up, down>> /\ PeerGone(c)
        /\ threads' = [threads EXCEPT ![t].at = "handle"]
    BY <1>0, <1>3, <1>7 DEF RecvNothing, HandlesAnyway, netVars
  <2>2. Becomes(t, "handle", threads[t].my_fd, threads[t].buf)
    BY <1>0, <2>1, MovesOn
  <2>3. \A d \in Conns : d # c => EchoTalk(d)'
    BY <1>1, <1>2, <2>1, <2>2, OthersKeepTalk
  <2> QED
    BY <1>5, <2>1, <2>3
<1>8. CASE CloseConnection(t)
  <2>1. /\ UNCHANGED <<up, down>> /\ threads[t].at = "handle"
        /\ threads' = [threads EXCEPT ![t].at = "done"]
        /\ threads[t].buf \in {"!", Garbage}
        /\ owner' = [x \in Fds |-> IF x = new_fds[t] THEN NoConn ELSE owner[x]]
    BY <1>3, <1>8 DEF CloseConnection, Closes, Says, ThreadAt, netVars
  <2>2. Becomes(t, "done", threads[t].my_fd, threads[t].buf)
    BY <1>0, <2>1, MovesOn
  <2>3. \A d \in Conns : d # c => EchoTalk(d)'
    BY <1>0, <1>1, <1>2, <1>3, <2>1, <2>2, OthersKeepTalk
  <2>4. ~Held(c)'
    <3>1. \A fd \in Fds : owner'[fd] # c
      BY <1>0, <1>3, <2>1
    <3>2. \A x \in DOMAIN backlog : backlog[x] # c
      BY <1>3 DEF Arranged, Separate
    <3> QED
      BY <1>2, <3>1, <3>2 DEF Held, Range
  <2>5. Nobody(c)'
    <3>1. DOMAIN threads' = DOMAIN threads
      BY <1>0, <2>2, SameThreads
    <3> QED
      BY <1>1, <1>3, <2>2, <3>1 DEF Becomes, Nobody, Holds, Alive
  <2>6. ASSUME client[c] = "waiting", Quiet(c), buf[c] = "!"
        PROVE  EchoTalk(c)'
    BY <1>2, <2>1, <2>4, <2>5, <2>6 DEF EchoTalk, Quiet, Typed
  <2>7. PeerGone(c) \/ (client[c] = "waiting" /\ Quiet(c) /\ buf[c] = "!")
    BY <1>1, <2>1, EchoHandles DEF Typed, Garbage
  <2> QED
    BY <1>5, <2>3, <2>6, <2>7
<1>9. CASE Hello(t)
  <2>1. /\ UNCHANGED <<owner, up>> /\ threads[t].at = "handle"
        /\ threads[t].buf \in {"other", Garbage}
        /\ Becomes(t, "recv", threads[t].my_fd, "other")
    BY <1>0, <1>9, HelloDoes
  <2>2. IF PeerGone(c) THEN down' = down
        ELSE down' = [down EXCEPT ![c] = Append(@, "Hello to you")]
    BY <1>0, <1>3, <1>9 DEF Hello, Sends
  <2>3. \A d \in Conns : d # c => EchoTalk(d)'
    BY <1>1, <1>2, <2>1, <2>2, OthersKeepTalk
  <2>4. Nobody(c)'
    <3>1. DOMAIN threads' = DOMAIN threads
      BY <1>0, <2>1, SameThreads
    <3> QED
      BY <1>1, <1>3, <2>1, <3>1 DEF Becomes, Nobody, Holds, Alive
  <2>5. ASSUME client[c] = "waiting", Quiet(c), Held(c), buf[c] = "other"
        PROVE  EchoTalk(c)'
    <3>1. down' = [down EXCEPT ![c] = Append(down[c], "Hello to you")]
      BY <2>2, <2>5 DEF PeerGone
    <3>2. down'[c] = <<"Hello to you">>
      BY <1>0, <1>3, <2>5, <3>1, Singles DEF Quiet
    <3>3. Held(c)'
      BY <1>2, <1>3, <2>1, SameHeld
    <3>4. client'[c] = "waiting" /\ buf'[c] \in Typed /\ up'[c] = <<>>
      BY <1>2, <2>1, <2>5 DEF Quiet, Typed
    <3> QED
      BY <2>4, <3>2, <3>3, <3>4 DEF EchoTalk
  <2>6. \/ PeerGone(c)
        \/ client[c] = "waiting" /\ Quiet(c) /\ Held(c) /\ buf[c] = "other"
    BY <1>1, <2>1, EchoHandles DEF Typed, Garbage
  <2> QED
    BY <1>5, <2>3, <2>5, <2>6
<1> QED
  BY <1>6, <1>7, <1>8, <1>9
\* The steps of the accept loop, and of a thread that reads its argument.
LEMMA QuietSteps ==
  ASSUME Kinds, \A c \in Conns : EchoTalk(c), buf' = buf,
         \/ Accept \/ AcceptFails \/ SkipAfterFailure \/ StartThread
         \/ \E t \in DOMAIN threads : ReadArgument(t)
  PROVE  \A c \in Conns : EchoTalk(c)'
<1>0. TypeOK /\ threads \in Seq(Thread)
  BY DEF Kinds, TypeOK
<1>1. CASE Accept
  <2>1. UNCHANGED <<up, down, client, threads>>
    BY <1>1 DEF Accept, clientVars, netVars
  <2> QED
    BY <1>0, <1>1, <2>1, AcceptHolds, AllAside
<1>2. CASE AcceptFails \/ SkipAfterFailure
  <2>1. UNCHANGED <<up, down, client, threads, owner, backlog>>
    BY <1>2 DEF AcceptFails, SkipAfterFailure, clientVars, netVars
  <2> QED
    BY <2>1, SameHeld, AllAside
<1>3. CASE StartThread
  <2>1. UNCHANGED <<up, down, client, owner, backlog>>
    BY <1>3 DEF StartThread, Starts, clientVars, netVars
  <2>2. /\ threads' \in Seq(Thread)
        /\ Len(threads') = Len(threads) + 1
        /\ threads'[Len(threads) + 1].at = "start"
        /\ \A t \in DOMAIN threads : threads'[t] = threads[t]
    BY <1>0, <1>3, StartsDoes
  <2>3. DOMAIN threads' = DOMAIN threads \cup {Len(threads) + 1}
    BY <1>0, <2>2
  <2> QED
    BY <2>1, <2>2, <2>3, SameHeld, AllAside
<1>4. ASSUME NEW t \in DOMAIN threads, ReadArgument(t)
      PROVE  \A c \in Conns : EchoTalk(c)'
  <2>1. /\ UNCHANGED <<up, down, client, owner, backlog>>
        /\ threads[t].at = "start"
    BY <1>4 DEF ReadArgument, ThreadAt, clientVars, netVars
  <2>2. /\ DOMAIN threads' = DOMAIN threads /\ threads'[t].at = "recv"
        /\ \A u \in DOMAIN threads \ {t} : threads'[u] = threads[u]
    BY <1>0, <1>4, ReadArgumentDoes, SameThreads DEF Becomes
  <2> QED
    BY <2>1, <2>2, SameHeld, AllAside
<1> QED
  BY <1>1, <1>2, <1>3, <1>4

\* The steps of a client: its own connection, and the others.
LEMMA ClientKeepsTalk ==
  ASSUME Kinds, Running, \A c \in Conns : EchoTalk(c), NEW c \in Conns,
         \/ (Connect(c) \/ Vanish(c)) /\ buf' = buf
         \/ Typing(c)
  PROVE  \A d \in Conns : EchoTalk(d)'
<1>0. /\ client \in [Conns -> {"new", "idle", "waiting", "left", "gone", "ended"}]
      /\ up \in [Conns -> Seq(Messages)] /\ down \in [Conns -> Seq(Replies)]
      /\ buf \in [Conns -> Typed \cup Replies \cup {""}]
      /\ backlog \in Seq(Conns)
      /\ EchoTalk(c)
  BY DEF Kinds, TypeOK
<1>1. /\ UNCHANGED <<threads, owner>>
      /\ \E point : client' = [client EXCEPT ![c] = point]
      /\ up' = up \/ \E s : up' = [up EXCEPT ![c] = s]
      /\ down' = down \/ \E s : down' = [down EXCEPT ![c] = s]
      /\ buf' = buf \/ \E m : buf' = [buf EXCEPT ![c] = m]
      /\ backlog' = backlog \/ backlog' = Append(backlog, c)
  <2>1. CASE (Connect(c) \/ Vanish(c)) /\ buf' = buf
    BY <2>1 DEF Connect, Vanish, netVars
  <2>2. CASE Typing(c)
    BY <2>2, TypingDoes
  <2> QED
    BY <2>1, <2>2
<1>2. /\ \A d \in Conns : Held(d) => Held(d)'
      /\ \A d \in Conns \ {c} : Held(d)' => Held(d)
      /\ backlog' = backlog => \A d : Held(d) <=> Held(d)'
      /\ backlog' = Append(backlog, c) => Held(c)'
  <2> DEFINE n == Len(backlog) + 1
  <2>1. /\ DOMAIN Append(backlog, c) = DOMAIN backlog \cup {n}
        /\ Append(backlog, c)[n] = c
        /\ \A x \in DOMAIN backlog : Append(backlog, c)[x] = backlog[x]
    <3>1. backlog \in Seq(Conns)
      BY <1>0
    <3> QED
      BY <3>1
  <2> HIDE DEF n
  <2>2. \A d : Held(d)' <=> \/ \E x \in DOMAIN backlog' : backlog'[x] = d
                           \/ \E fd \in Fds : owner[fd] = d
    BY <1>1 DEF Held, Range
  <2> QED
    BY <1>1, <2>1, <2>2, HeldBy
<1>3. ASSUME NEW d \in Conns, d # c PROVE EchoTalk(d)'
  <2>1. /\ up'[d] = up[d] /\ down'[d] = down[d] /\ client'[d] = client[d]
        /\ buf'[d] = buf[d]
    BY <1>0, <1>1, <1>3
  <2>2. Aside(d)
    BY <1>1, <1>2, <1>3, <2>1 DEF Aside
  <2> QED
    BY <1>2, <1>3, <2>1, <2>2, AsideKeepsTalk
<1>4. Nobody(c) => Nobody(c)'
  BY <1>1 DEF Nobody, Holds
<1>5. ASSUME Connect(c), buf' = buf PROVE EchoTalk(c)'
  <2>1. /\ client[c] = "new" /\ client'[c] = "idle"
        /\ up' = up /\ down' = down /\ backlog' = Append(backlog, c)
    BY <1>0, <1>5 DEF Connect, netVars
  <2> QED
    BY <1>0, <1>2, <1>4, <1>5, <2>1 DEF EchoTalk, Quiet
<1>6. ASSUME Vanish(c) PROVE EchoTalk(c)'
  <2>1. client'[c] = "gone"
    BY <1>0, <1>6 DEF Vanish, EchoTalk
  <2> QED
    BY <2>1 DEF EchoTalk
<1>7. CASE ConnectRefused(c) \/ SayKills(c)
  BY <1>0, <1>7 DEF ConnectRefused, SayKills, EchoTalk, Connected
<1>8. ASSUME NEW m \in Typed, Say(c, m) PROVE EchoTalk(c)'
  <2>1. /\ client[c] = "idle" /\ client'[c] = "waiting" /\ buf'[c] = m
        /\ up' = IF Connected(c) THEN [up EXCEPT ![c] = Append(@, m)] ELSE up
        /\ down' = down /\ backlog' = backlog
    BY <1>0, <1>8 DEF Say, mainVars
  <2>2. Quiet(c) /\ Nobody(c) /\ Held(c)
    BY <1>0, <2>1 DEF EchoTalk
  <2>3. up' = [up EXCEPT ![c] = Append(up[c], m)]
    BY <2>1, <2>2 DEF Connected
  <2>4. up'[c] = <<m>> /\ down'[c] = <<>>
    <3>1. up'[c] = Append(up[c], m)
      BY <1>0, <2>3
    <3>2. up[c] = <<>> /\ down[c] = <<>> /\ down' = down
      BY <2>1, <2>2 DEF Quiet
    <3> QED
      BY ONLY <3>1, <3>2, Singles, Zenon
  <2> QED
    BY <1>2, <1>4, <1>8, <2>1, <2>2, <2>4 DEF EchoTalk
<1>9. ASSUME Hear(c) PROVE EchoTalk(c)'
  <2>1. /\ client[c] = "waiting" /\ client'[c] = "idle"
        /\ down[c] # <<>> /\ buf'[c] = Head(down[c])
        /\ down'[c] = Tail(down[c])
        /\ up' = up /\ backlog' = backlog
    BY <1>0, <1>9 DEF Hear
  <2>2. up[c] = <<>> /\ down[c] = <<"Hello to you">> /\ Nobody(c) /\ Held(c)
    BY <1>0, <2>1 DEF EchoTalk, Quiet
  <2>3. down'[c] = <<>> /\ buf'[c] = "Hello to you"
    BY <2>1, <2>2, Singles
  <2> QED
    BY <1>2, <1>4, <2>1, <2>2, <2>3 DEF EchoTalk, Quiet
<1>10. ASSUME HearNothing(c) PROVE EchoTalk(c)'
  <2>1. /\ client[c] = "waiting" /\ down[c] = <<>> /\ ~Held(c)
        /\ client' = [client EXCEPT ![c] = IF buf[c] \in {"!", "!!"} THEN "ended"
                                           ELSE "idle"]
    BY <1>10 DEF HearNothing, HearsNothing, Connected
  <2>2. buf[c] = "!"
    BY <1>0, <2>1 DEF EchoTalk
  <2>3. client'[c] = "ended"
    BY <1>0, <2>1, <2>2
  <2>4. buf'[c] = "!"
    BY <1>0, <1>10, <2>2 DEF HearNothing, HearsNothing
  <2> QED
    BY <2>3, <2>4 DEF EchoTalk
<1> QED
  BY <1>3, <1>5, <1>6, <1>7, <1>8, <1>9, <1>10 DEF Typing

-----------------------------------------------------------------------------
(***************************************************************************)
(* Together: at first, and at every step.                                  *)
(***************************************************************************)
LEMMA EchoInitially == EchoInit => EchoInv
<1> SUFFICES ASSUME EchoInit PROVE EchoInv
  OBVIOUS
<1>1. Init /\ TypeOK /\ Arranged
  BY TypeInit, OnCourseInit DEF EchoInit, OnCourse, Init
<1>2. Kinds /\ \A c \in Conns : buf[c] = ""
  BY <1>1 DEF EchoInit, Kinds
<1>3. ASSUME NEW c \in Conns PROVE EchoTalk(c)
  <2>1. client[c] = "new" /\ Quiet(c)
    BY <1>1 DEF Init, Quiet
  <2>2. Nobody(c)
    BY <1>1, Singles DEF Init, Nobody
  <2> QED
    BY <1>2, <2>1, <2>2 DEF EchoTalk
<1> QED
  BY <1>1, <1>2, <1>3 DEF EchoInv

\* A server that ended does not run again, and which one it is does not change.
LEMMA RunsOn ==
  ASSUME Kinds, [EchoNext]_allVars
  PROVE  /\ Echoes' <=> Echoes
         /\ Echoes /\ Running' => Running
         /\ Echoes /\ ~astray' => ~astray
<1>1. Echoes' <=> Echoes
  BY DEF EchoNext, allVars, echoVars, Echoes
<1>2. CASE UNCHANGED allVars
  BY <1>1, <1>2 DEF allVars, vars, Running
<1>3. CASE Shared
  <2>1. ~astray' => ~astray
    BY <1>3, SharedIsNext, StaysAstray DEF Kinds
  <2>2. Running' => Running
    BY <1>3
    DEF Shared, handle_process_loop, Accept, AcceptFails, SkipAfterFailure,
        StartThread, Starts, StartThreadFails, ReadArgument, Recv, RecvNothing,
        HandlesAnyway, ExitServer, CloseConnection, Closes, ReplyKills, ThreadAt,
        Connect, Vanish
  <2> QED
    BY <1>1, <2>1, <2>2
<1>4. ASSUME NEW t \in DOMAIN threads, Hello(t)
      PROVE  Running /\ astray' = astray
  BY <1>4, HelloDoes DEF Kinds
<1>5. ASSUME NEW c \in Conns, Typing(c)
      PROVE  proc' = proc /\ astray' = astray
  BY <1>5, TypingDoes
<1> QED
  BY <1>1, <1>2, <1>3, <1>4, <1>5, EchoSteps DEF Running

\* What is under way is kept as long as the server runs.
LEMMA TalkStep ==
  ASSUME Kinds, Arranged, Echoes, Running, Running',
         \A c \in Conns : EchoTalk(c), [EchoNext]_allVars
  PROVE  \A c \in Conns : EchoTalk(c)'
<1>1. ASSUME NEW fate, Ends(fate), fate # "running" PROVE FALSE
  BY <1>1 DEF Ends, Running
<1>2. CASE UNCHANGED allVars
  BY <1>2, SameHeld, AllAside
  DEF allVars, vars, echoVars, clientVars, netVars
<1>3. CASE Shared /\ UNCHANGED echoVars
  <2>1. buf' = buf
    BY <1>3 DEF echoVars
  <2>2. ~StartThreadFails /\ \A t : ~ExitServer(t) /\ ~ReplyKills(t)
    BY <1>1 DEF StartThreadFails, ExitServer, ReplyKills
  <2>3. CASE Accept \/ AcceptFails \/ SkipAfterFailure \/ StartThread
    BY <2>1, <2>3, QuietSteps
  <2>4. ASSUME NEW t \in DOMAIN threads, ReadArgument(t)
        PROVE  \A c \in Conns : EchoTalk(c)'
    BY <2>1, <2>4, QuietSteps
  <2>5. ASSUME NEW t \in DOMAIN threads,
               Recv(t) \/ RecvNothing(t) \/ CloseConnection(t)
        PROVE  \A c \in Conns : EchoTalk(c)'
    BY <2>1, <2>5, ThreadKeepsTalk
  <2>6. ASSUME NEW c \in Conns, Connect(c) \/ Vanish(c)
        PROVE  \A d \in Conns : EchoTalk(d)'
    BY <2>1, <2>6, ClientKeepsTalk
  <2> QED
    BY <1>3, <2>2, <2>3, <2>4, <2>5, <2>6 DEF Shared, handle_process_loop
<1>4. ASSUME NEW t \in DOMAIN threads, Hello(t), UNCHANGED echoVars
      PROVE  \A c \in Conns : EchoTalk(c)'
  BY <1>4, ThreadKeepsTalk DEF echoVars
<1>5. ASSUME NEW c \in Conns, Typing(c)
      PROVE  \A d \in Conns : EchoTalk(d)'
  BY <1>5, ClientKeepsTalk
<1> QED
  BY <1>2, <1>3, <1>4, <1>5, EchoSteps

\* All of it.
LEMMA EchoInvStep == EchoInv /\ [EchoNext]_allVars => EchoInv'
<1> SUFFICES ASSUME EchoInv, [EchoNext]_allVars PROVE EchoInv'
  OBVIOUS
<1>1. Kinds'
  BY KindsStep DEF EchoInv
<1>2. ~astray' => Arranged'
  BY EchoArrangedStep DEF EchoInv
<1>3. ~Echoes' => \A c \in Conns : buf'[c] = ""
  <2>1. ASSUME ~Echoes PROVE buf' = buf
    BY <2>1, EchoSteps DEF allVars, echoVars
  <2> QED
    BY <2>1, RunsOn DEF EchoInv
<1>4. (Echoes /\ Running /\ ~astray)' => \A c \in Conns : EchoTalk(c)'
  BY RunsOn, TalkStep DEF EchoInv
<1> QED
  BY <1>1, <1>2, <1>3, <1>4 DEF EchoInv

\* So it always holds.
LEMMA EchoAlways == EchoSpec => []EchoInv
<1> QED
  BY EchoInitially, EchoInvStep, PTL DEF EchoSpec

(***************************************************************************)
(* While ServerTCP runs, a ClientTCP that types on has printed only what   *)
(* the server said, and one that has ended printed its own "!" last.       *)
(***************************************************************************)
THEOREM OwnTextOnlyAtTheEnd == EchoSpec => []OwnTextIsTheGoodbye
<1>1. EchoInv => OwnTextIsTheGoodbye
  BY DEF EchoInv, EchoTalk, OwnTextIsTheGoodbye
<1> QED
  BY <1>1, EchoAlways, PTL

(***************************************************************************)
(* Both servers keep descriptors, connections and threads matched.         *)
(***************************************************************************)
THEOREM OneThreadInBoth == EchoSpec => []OneThreadEach
<1>1. EchoInv => OneThreadEach
  BY OneEach DEF EchoInv, Kinds, OneThreadEach
<1> QED
  BY <1>1, EchoAlways, PTL
(***************************************************************************)
(* Both servers and both kinds of client keep the types.                   *)
(***************************************************************************)
THEOREM TypesInBoth == EchoSpec => []TypeOK
<1>1. EchoInv => TypeOK
  BY DEF EchoInv, Kinds
<1> QED
  BY <1>1, EchoAlways, PTL
=============================================================================

-------------------------- MODULE FifoSessionProofs --------------------------
(***************************************************************************)
(* FifoSession keeps its safety invariants for any number of sessions,     *)
(* workers and requests.  Once a pipe has been stolen the types are all    *)
(* that is claimed: the rest is proved up to the first theft.              *)
(*                                                                         *)
(* The inductive invariant has one part for each thing that can go wrong:  *)
(* how far the two ends of a channel are (Meeting), which pipes are behind *)
(* the names (Naming), who may still be alive (Lives), which ends a main   *)
(* thread has made or deleted (Shapes), and what is in the pipes           *)
(* (Talking).                                                              *)
(***************************************************************************)
EXTENDS FifoSession, TLAPS

-----------------------------------------------------------------------------
(* The places of an end, as sets of values of at[e].                       *)

None == <<"none", 1>>
Ready == <<"ready", 2>>
Gone == <<"gone", 2>>
Fresh == {None, <<"make", 1>>, <<"open", 1>>}
Halfway == {<<"make", 2>>, <<"open", 2>>}
Closed == {<<"remove", 1>>, <<"remove", 2>>, Gone}
Through == {Ready} \cup Closed

\* The step x of the constructor is behind the end, or behind both ends.
Passed(x) == IF x = 1 THEN Halfway \cup {<<"wait", 2>>} \cup Through ELSE Through
Has(x) == {<<"wait", x>>} \cup Passed(x)

Peer(e) == <<e[1], e[2], IF e[3] = "client" THEN "server" ELSE "client">>
Proc(e) == <<e[1], e[3]>>

\* The end's side of its pipes is open.
Holding(e) == Running(Proc(e)) /\ at[e] \notin Closed

Stages == \A e \in Ends : at[e] \in Fresh \cup Has(1)

Held == \A e \in Ends, x \in {1, 2} : fd[e][x] # NoPipe <=> at[e] \in Has(x)

SidesKept ==
  \A i \in 1..Len(pipes) :
    /\ pipes[i].reader = {e \in Ends : Holding(e) /\ fd[e][ReadsFrom(e[3])] = i}
    /\ pipes[i].writer = {e \in Ends : Holding(e) /\ fd[e][WritesTo(e[3])] = i}

Sync == \A e \in Ends, x \in {1, 2} : at[e] \in Passed(x) => at[Peer(e)] \in Passed(x)

Meet ==
  \A e \in Ends, x \in {1, 2} :
    at[e] \in Has(x) /\ at[Peer(e)] \in Has(x) => fd[e][x] = fd[Peer(e)][x]

\* A pipe that one end has opened is still there for the other.
Found ==
  \A e \in Ends, x \in {1, 2} :
    at[e] \notin Has(x) /\ Running(Proc(e)) /\ at[Peer(e)] \in Has(x)
      => file[<<e[2], x>>] = fd[Peer(e)][x]

Fine(p) == fate[p] \in {"running", "exit"}

Sought ==
  \A e \in Ends, x \in {1, 2} :
    at[e] = <<"open", x>> /\ Fine(Proc(e)) /\ Fine(Proc(Peer(e)))
      => file[<<e[2], x>>] # NoPipe

Meeting == Stages /\ Held /\ SidesKept /\ Sync /\ Meet /\ Found /\ Sought

\* A pipe was made for one name only.
Named ==
  \E name \in [1..Len(pipes) -> Names] :
    /\ \A n \in Names : file[n] # NoPipe => name[file[n]] = n
    /\ \A e \in Ends, x \in {1, 2} :
         fd[e][x] # NoPipe => name[fd[e][x]] = <<e[2], x>>

OwnPipes ==
  \A e \in Ends, x \in {1, 2} : fd[e][x] # NoPipe => pipes[fd[e][x]].by = e[1]

Newest ==
  \A n \in Names : file[n] # NoPipe =>
    /\ \A s \in Session : Begun(C(s)) => pipes[file[n]].by >= s
    /\ pipes[file[n]].by = 1 \/ Begun(C(pipes[file[n]].by))

\* What the client has removed, no one but a later session makes again.
Removed ==
  \A s \in Session, k \in Channels :
    /\ at[End(s, k, "client")] \in {<<"remove", 2>>, Gone} =>
         file[<<k, 1>>] = NoPipe \/ pipes[file[<<k, 1>>]].by > s
    /\ at[End(s, k, "client")] = Gone =>
         file[<<k, 2>>] = NoPipe \/ pipes[file[<<k, 2>>]].by > s

Naming == Named /\ OwnPipes /\ Newest /\ Removed

Lives ==
  /\ \A s \in Session : Begun(C(s)) <=> Begun(S(s))
  /\ \A p \in Session \X Sides :
       /\ Begun(p) <=> main[p] # "none"
       /\ fate[p] = "exit" => main[p] = "leave" /\ at[ControlOf(p)] = Gone
       /\ fate[p] \in {"rmv", "killed"} =>
            p[1] = Sessions /\ fault \in {"killed", "no_worker"}
  /\ \A s, t \in Session :
       s < t /\ Begun(C(t)) => fate[C(s)] = "exit"

\* The ends of a process, by what its main thread is doing.
ClientShape(s) ==
  LET m == main[C(s)]
      k == chan[C(s)]
      A(j) == at[End(s, j, "client")]
  IN
  /\ m = "none" => k = Control /\ \A j \in Channels : A(j) = None
  /\ m = "open" => /\ \A j \in Channels : j < k => A(j) = Ready
                   /\ \A j \in Channels : j > k => A(j) = None
                   /\ A(k) # None /\ A(k) \notin Closed
  /\ m \in {"next", "reply"} =>
       /\ k < W
       /\ \A j \in Channels : j <= k => A(j) = Ready
       /\ \A j \in Channels : j > k => A(j) = None
  /\ m = "join" => k = W /\ \A j \in Channels : A(j) = Ready
  /\ m = "delete" =>
       /\ k # Control /\ A(Control) = Ready
       /\ \A j \in Workers : j < k => A(j) = Gone
       /\ \A j \in Workers : j > k => A(j) = Ready
       /\ A(k) \in Through
  /\ m \in {"quit", "leave"} => \A j \in Workers : A(j) = Gone
  /\ m = "quit" => A(Control) = Ready
  /\ m = "leave" => A(Control) \in Through

ServerShape(s) ==
  LET m == main[S(s)]
      k == chan[S(s)]
      A(j) == at[End(s, j, "server")]
  IN
  /\ m \notin {"join", "delete", "quit"}
  /\ m = "none" => k = Control /\ \A j \in Channels : A(j) = None
  /\ m = "open" => A(k) # None /\ A(k) \notin Closed
  /\ m = "next" => A(k) = Ready
  /\ m = "reply" => k # Control /\ A(k) = None
  /\ m \in {"open", "next", "reply"} => \A j \in Channels : j < k => A(j) = Ready
  /\ m = "leave" => /\ A(Control) \in Through
                    /\ \A j \in Workers : j <= k => A(j) = Ready
  /\ \A j \in Channels : j > k => A(j) = None

WorkerShape(s) ==
  /\ \A j \in Workers :
       worker[<<s, j>>] # "none" => /\ at[End(s, j, "client")] \in Through
                                    /\ ~(main[C(s)] = "open" /\ chan[C(s)] = j)
  /\ \A j \in Workers :
       thread[<<s, j>>] # "none" => /\ at[End(s, j, "server")] \in Through
                                    /\ ~(main[S(s)] = "open" /\ chan[S(s)] = j)
  /\ main[C(s)] \in {"delete", "quit", "leave"} =>
       \A j \in Workers : worker[<<s, j>>] = "done"

Shapes == \A s \in Session : ClientShape(s) /\ ServerShape(s) /\ WorkerShape(s)

\* What is in the two pipes of a channel.
Up(s, k) == pipes[fd[End(s, k, "client")][2]].data
Down(s, k) == pipes[fd[End(s, k, "client")][1]].data

Silent(s, k) == Up(s, k) = <<>> /\ Down(s, k) = <<>>
Listening(s) == main[S(s)] \in {"open", "next"}

\* The main threads talk about the next channel.
Dialogue(s) ==
  LET ck == chan[C(s)]
      sk == chan[S(s)]
  IN
  \/ /\ main[C(s)] \in {"open", "next"}
     /\ sk = ck /\ Listening(s) /\ Silent(s, Control)
  \/ /\ main[C(s)] \in {"join", "delete", "quit"}
     /\ sk = W /\ Listening(s) /\ Silent(s, Control)
  \/ /\ main[C(s)] = "reply" /\ sk = ck /\ Listening(s)
     /\ Up(s, Control) = <<Msg("newchannel")>> /\ Down(s, Control) = <<>>
  \/ /\ main[C(s)] = "reply" /\ sk = ck + 1 /\ main[S(s)] = "reply"
     /\ Silent(s, Control)
  \/ /\ main[C(s)] = "reply" /\ sk = ck + 1 /\ main[S(s)] = "open"
     /\ Up(s, Control) = <<>>
     /\ Down(s, Control) = <<[kind |-> "name", k |-> sk]>>
  \/ /\ main[C(s)] = "leave" /\ sk = W /\ Listening(s)
     /\ Up(s, Control) = <<Msg("quit")>> /\ Down(s, Control) = <<>>
  \/ main[C(s)] = "leave" /\ main[S(s)] = "leave" /\ Silent(s, Control)

\* A worker and its thread talk about one request.
Exchange(s, k) ==
  LET w == worker[<<s, k>>]
      t == thread[<<s, k>>]
  IN
  \/ w \in {"none", "write"} /\ t \in {"none", "read"} /\ Silent(s, k)
  \/ /\ w = "read" /\ t \in {"none", "read"}
     /\ Up(s, k) = <<Msg("data")>> /\ Down(s, k) = <<>>
  \/ w = "read" /\ t = "reply" /\ Silent(s, k)
  \/ /\ w = "read" /\ t = "read"
     /\ Up(s, k) = <<>> /\ Down(s, k) = <<Msg("number")>>
  \/ /\ w = "done" /\ t \in {"none", "read"}
     /\ Up(s, k) = <<Msg("quit")>> /\ Down(s, k) = <<>>
  \/ w = "done" /\ t = "done" /\ Silent(s, k)

\* Nothing is written before both ends are through.
Unwritten ==
  \A i \in 1..Len(pipes) :
    pipes[i].data # <<>> =>
      \E e \in Ends, x \in {1, 2} : at[e] \in Through /\ fd[e][x] = i

Talking ==
  /\ \A s \in Session :
       at[End(s, Control, "client")] \in Through => Dialogue(s)
  /\ \A s \in Session, k \in Workers :
       at[End(s, k, "client")] \in Through => Exchange(s, k)
  /\ Unwritten

Inv == TypeOK /\ Meeting /\ Naming /\ Lives /\ Shapes /\ Talking

\* The inductive invariant.
IInv == ~stolen => Inv

-----------------------------------------------------------------------------
(* Facts about ends, places and pipes that need no state.                  *)

(***************************************************************************)
(* An end is a session, a channel and a side; its peer is the end of the   *)
(* same channel on the other side, and reads what it writes.               *)
(***************************************************************************)
LEMMA EndParts ==
  ASSUME NEW e \in Ends
  PROVE  /\ e[1] \in Session /\ e[2] \in Channels /\ e[3] \in Sides
         /\ e = End(e[1], e[2], e[3]) /\ e = <<e[1], e[2], e[3]>>
         /\ Proc(e) \in Session \X Sides
         /\ Proc(e) = <<e[1], SideOf(e)>> /\ SideOf(e) = e[3]
         /\ Peer(e) \in Ends /\ Peer(Peer(e)) = e
         /\ Peer(e)[1] = e[1] /\ Peer(e)[2] = e[2] /\ Peer(e)[3] # e[3]
         /\ Peer(e) # e /\ Proc(Peer(e)) # Proc(e)
         /\ WritesTo(e[3]) \in {1, 2} /\ ReadsFrom(e[3]) \in {1, 2}
         /\ WritesTo(e[3]) # ReadsFrom(e[3])
         /\ ReadsFrom(Peer(e)[3]) = WritesTo(e[3])
         /\ WritesTo(Peer(e)[3]) = ReadsFrom(e[3])
BY SMT DEF Ends, End, Sides, SideOf, Proc, Peer, WritesTo, ReadsFrom, Session

(***************************************************************************)
(* There are only two ends of a channel of a session.                      *)
(***************************************************************************)
LEMMA TwoEnds ==
  ASSUME NEW e \in Ends, NEW f \in Ends, f[1] = e[1], f[2] = e[2]
  PROVE  /\ f = e \/ f = Peer(e)
         /\ f[3] = e[3] => f = e
BY SMT DEF Ends, Sides, Peer

(***************************************************************************)
(* The end of channel k on one side of a session.                          *)
(***************************************************************************)
LEMMA EndIs ==
  ASSUME NEW s \in Session, NEW k \in Channels
  PROVE  /\ End(s, k, "client") \in Ends /\ End(s, k, "server") \in Ends
         /\ Peer(End(s, k, "client")) = End(s, k, "server")
         /\ Peer(End(s, k, "server")) = End(s, k, "client")
         /\ Proc(End(s, k, "client")) = C(s) /\ Proc(End(s, k, "server")) = S(s)
         /\ C(s) \in Session \X Sides /\ S(s) \in Session \X Sides
         /\ C(s) # S(s)
         /\ C(s)[1] = s /\ S(s)[1] = s /\ C(s)[2] = "client" /\ S(s)[2] = "server"
         /\ End(s, k, "client")[1] = s /\ End(s, k, "client")[2] = k
         /\ End(s, k, "client")[3] = "client"
         /\ End(s, k, "server")[1] = s /\ End(s, k, "server")[2] = k
         /\ End(s, k, "server")[3] = "server"
         /\ End(s, k, "client") # End(s, k, "server")
BY SMT DEF Ends, End, Sides, Peer, Proc, C, S, Session

(***************************************************************************)
(* A pair is its two components, and changing the first one keeps the      *)
(* second.                                                                 *)
(***************************************************************************)
LEMMA Pairs ==
  ASSUME NEW A, NEW B, NEW p \in A \X B
  PROVE  /\ p = <<p[1], p[2]>> /\ p[1] \in A /\ p[2] \in B
         /\ \A a : [p EXCEPT ![1] = a] = <<a, p[2]>>
BY SMT

(***************************************************************************)
(* The fields of a pipe; new contents or new ends leave the others alone.  *)
(***************************************************************************)
LEMMA PipeParts ==
  ASSUME NEW p \in Pipe
  PROVE  /\ p.by \in Session /\ p.reader \in SUBSET Ends
         /\ p.writer \in SUBSET Ends /\ p.data \in Seq(Message)
BY DEF Pipe

(***************************************************************************)
(* New contents leave the ends and the session of a pipe alone.            *)
(***************************************************************************)
LEMMA PipeRefilled ==
  ASSUME NEW p \in Pipe, NEW d \in Seq(Message), NEW x, x = [p EXCEPT !.data = d]
  PROVE  /\ x \in Pipe /\ x.data = d
         /\ x.by = p.by /\ x.reader = p.reader /\ x.writer = p.writer
BY DEF Pipe

-----------------------------------------------------------------------------
(* Which sessions are over, and which pipes the current one has.           *)

(***************************************************************************)
(* A session that has not begun has no ends.                               *)
(***************************************************************************)
LEMMA Unborn ==
  ASSUME Lives, Shapes, NEW e \in Ends, ~Begun(C(e[1]))
  PROVE  at[e] = None /\ ~Running(Proc(e))
<1>1. /\ e[1] \in Session /\ e[2] \in Channels /\ e[3] \in {"client", "server"}
      /\ e = End(e[1], e[2], e[3]) /\ Proc(e) = <<e[1], e[3]>>
  BY EndParts DEF Sides
<1>2. C(e[1]) \in Session \X Sides /\ S(e[1]) \in Session \X Sides
  BY <1>1, EndIs
<1>3. ~Begun(C(e[1])) /\ ~Begun(S(e[1]))
  BY <1>1 DEF Lives
<1>4. main[C(e[1])] = "none" /\ main[S(e[1])] = "none"
  BY <1>2, <1>3 DEF Lives
<1>5. at[End(e[1], e[2], "client")] = None /\ at[End(e[1], e[2], "server")] = None
  BY <1>1, <1>4 DEF Shapes, ClientShape, ServerShape
<1>6. ~Running(C(e[1])) /\ ~Running(S(e[1]))
  BY <1>3 DEF Begun, Running
<1> QED
  BY <1>1, <1>5, <1>6 DEF C, S

(***************************************************************************)
(* When the client has exited all its ends are gone, and those of its      *)
(* server were through.                                                    *)
(***************************************************************************)
LEMMA Over ==
  ASSUME Lives, Shapes, Sync, NEW e \in Ends, fate[C(e[1])] = "exit"
  PROVE  /\ at[e] \in Through
         /\ e[3] = "client" => at[e] = Gone
<1>1. /\ e[1] \in Session /\ e[2] \in Channels /\ e[3] \in {"client", "server"}
      /\ e = End(e[1], e[2], e[3])
  BY EndParts DEF Sides
<1>2. main[C(e[1])] = "leave" /\ at[ControlOf(C(e[1]))] = Gone
  BY <1>1, EndIs DEF Lives
<1>3. at[End(e[1], e[2], "client")] = Gone
  <2>1. CASE e[2] = Control
    BY <1>2, <2>1 DEF ControlOf, C, End
  <2>2. CASE e[2] # Control
    <3>1. e[2] \in Workers
      BY <1>1, <2>2, FifoAssumption DEF Channels, Control, Workers
    <3> QED
      BY <1>1, <1>2, <3>1 DEF Shapes, ClientShape
  <2> QED
    BY <2>1, <2>2
<1>4. at[End(e[1], e[2], "server")] \in Through
  <2>1. at[End(e[1], e[2], "client")] \in Passed(2)
    BY <1>3 DEF Passed, Through, Closed
  <2>2. at[Peer(End(e[1], e[2], "client"))] \in Passed(2)
    BY <1>1, <2>1, EndIs DEF Sync
  <2> QED
    BY <1>1, <2>2, EndIs DEF Passed
<1> QED
  BY <1>1, <1>3, <1>4 DEF Through, Closed

(***************************************************************************)
(* While an end is not through, no later session has begun.                *)
(***************************************************************************)
LEMMA LastSession ==
  ASSUME Lives, Shapes, Sync, NEW e \in Ends, at[e] \notin Through,
         NEW t \in Session, t > e[1]
  PROVE  ~Begun(C(t))
<1>1. e[1] \in Session
  BY EndParts
<1>2. fate[C(e[1])] # "exit"
  BY Over
<1> QED
  BY <1>1, <1>2 DEF Lives, Session

(***************************************************************************)
(* While an end is not through, every file is a pipe of its session.       *)
(***************************************************************************)
LEMMA CurrentFiles ==
  ASSUME TypeOK, Lives, Shapes, Sync, Newest, NEW e \in Ends, at[e] \notin Through,
         Begun(C(e[1])), NEW n \in Names, file[n] # NoPipe
  PROVE  pipes[file[n]].by = e[1]
<1>1. e[1] \in Session
  BY EndParts
<1>2. file[n] \in 1..Len(pipes) /\ pipes \in Seq(Pipe)
  BY DEF TypeOK, NoPipe
<1>3. pipes[file[n]].by \in Session
  <2>1. pipes[file[n]] \in Pipe
    BY <1>2
  <2> QED
    BY <2>1, PipeParts
<1>4. pipes[file[n]].by >= e[1]
  BY <1>1 DEF Newest
<1>5. pipes[file[n]].by = 1 \/ Begun(C(pipes[file[n]].by))
  BY DEF Newest
<1>6. ~(pipes[file[n]].by > e[1] /\ Begun(C(pipes[file[n]].by)))
  BY <1>3, LastSession
<1> QED
  BY <1>1, <1>3, <1>4, <1>5, <1>6 DEF Session

-----------------------------------------------------------------------------
(* What cwrite, cread and the constructor of an end do.                    *)

\* The pipes keep their makers and the ends that are on them.
SamePipes ==
  /\ Len(pipes') = Len(pipes)
  /\ \A i \in 1..Len(pipes) :
       /\ pipes'[i].by = pipes[i].by
       /\ pipes'[i].reader = pipes[i].reader
       /\ pipes'[i].writer = pipes[i].writer

(***************************************************************************)
(* cwrite and cread change what is in one pipe, and nothing else.          *)
(***************************************************************************)
LEMMA PipeChanges ==
  ASSUME NEW q \in Seq(Pipe), NEW i \in 1..Len(q), NEW d \in Seq(Message)
  PROVE  LET r == [q EXCEPT ![i].data = d] IN
         /\ r \in Seq(Pipe) /\ Len(r) = Len(q)
         /\ r[i].data = d
         /\ \A j \in 1..Len(q) : j # i => r[j] = q[j]
         /\ \A j \in 1..Len(q) :
              /\ r[j].by = q[j].by
              /\ r[j].reader = q[j].reader /\ r[j].writer = q[j].writer
<1> DEFINE r == [q EXCEPT ![i].data = d]
<1>1. q[i] \in Pipe
  OBVIOUS
<1>2. PICK x : x = [q[i] EXCEPT !.data = d]
  OBVIOUS
<1>3. /\ x \in Pipe /\ x.data = d /\ x.by = q[i].by
      /\ x.reader = q[i].reader /\ x.writer = q[i].writer
  BY <1>1, <1>2, PipeRefilled
<1>4. r = [q EXCEPT ![i] = x]
  BY <1>2
<1>5. r \in Seq(Pipe) /\ Len(r) = Len(q)
  BY <1>3, <1>4
<1>6. r[i] = x /\ \A j \in 1..Len(q) : j # i => r[j] = q[j]
  BY <1>4
<1> QED
  BY <1>3, <1>5, <1>6

(***************************************************************************)
(* cwrite appends the message to the pipe that the end writes.             *)
(***************************************************************************)
LEMMA WritesDoes ==
  ASSUME TypeOK, Held, NEW e \in Ends, at[e] \in Through, NEW m \in Message,
         Writes(e, m)
  PROVE  /\ Out(e) \in 1..Len(pipes) /\ SamePipes /\ pipes' \in Seq(Pipe)
         /\ pipes'[Out(e)].data = Append(pipes[Out(e)].data, m)
         /\ \A j \in 1..Len(pipes) : j # Out(e) => pipes'[j] = pipes[j]
         /\ pipes[Out(e)].reader # {}
<1>1. pipes \in Seq(Pipe) /\ fd[e] \in [1..2 -> 0..Len(pipes)]
  BY DEF TypeOK
<1>2. WritesTo(SideOf(e)) \in {1, 2}
  BY EndParts
<1>3. at[e] \in Has(WritesTo(SideOf(e)))
  BY <1>2 DEF Has, Passed
<1>4. Out(e) \in 1..Len(pipes)
  BY <1>1, <1>2, <1>3 DEF Held, Out, NoPipe
<1>5. pipes[Out(e)].data \in Seq(Message)
  BY <1>1, <1>4, PipeParts
<1>6. Append(pipes[Out(e)].data, m) \in Seq(Message)
  BY <1>5
<1>7. pipes' = [pipes EXCEPT ![Out(e)].data = Append(pipes[Out(e)].data, m)]
  BY DEF Writes
<1>8. pipes[Out(e)].reader # {}
  BY DEF Writes
<1>9. PICK i, d : i = Out(e) /\ d = Append(pipes[Out(e)].data, m)
  OBVIOUS
<1>10. pipes' = [pipes EXCEPT ![i].data = d]
  BY <1>7, <1>9
<1>11. i \in 1..Len(pipes) /\ d \in Seq(Message)
  BY <1>4, <1>6, <1>9
<1>12. /\ pipes' \in Seq(Pipe) /\ SamePipes /\ pipes'[i].data = d
       /\ \A j \in 1..Len(pipes) : j # i => pipes'[j] = pipes[j]
  BY <1>1, <1>10, <1>11, PipeChanges DEF SamePipes
<1> QED
  BY <1>4, <1>8, <1>9, <1>12

(***************************************************************************)
(* cread takes the first message of the pipe that the end reads.           *)
(***************************************************************************)
LEMMA ReadsDoes ==
  ASSUME TypeOK, Held, NEW e \in Ends, at[e] \in Through, NEW m, Reads(e, m)
  PROVE  /\ In(e) \in 1..Len(pipes) /\ SamePipes /\ pipes' \in Seq(Pipe)
         /\ pipes[In(e)].data # <<>> /\ m = Head(pipes[In(e)].data)
         /\ pipes'[In(e)].data = Tail(pipes[In(e)].data)
         /\ \A j \in 1..Len(pipes) : j # In(e) => pipes'[j] = pipes[j]
<1>1. pipes \in Seq(Pipe) /\ fd[e] \in [1..2 -> 0..Len(pipes)]
  BY DEF TypeOK
<1>2. ReadsFrom(SideOf(e)) \in {1, 2}
  BY EndParts
<1>3. at[e] \in Has(ReadsFrom(SideOf(e)))
  BY <1>2 DEF Has, Passed
<1>4. In(e) \in 1..Len(pipes)
  BY <1>1, <1>2, <1>3 DEF Held, In, NoPipe
<1>5. pipes[In(e)].data \in Seq(Message)
  BY <1>1, <1>4, PipeParts
<1>6. /\ pipes' = [pipes EXCEPT ![In(e)].data = Tail(pipes[In(e)].data)]
      /\ pipes[In(e)].data # <<>> /\ m = Head(pipes[In(e)].data)
  BY DEF Reads
<1>7. Tail(pipes[In(e)].data) \in Seq(Message)
  BY <1>5, <1>6
<1>9. PICK i, d : i = In(e) /\ d = Tail(pipes[In(e)].data)
  OBVIOUS
<1>10. pipes' = [pipes EXCEPT ![i].data = d]
  BY <1>6, <1>9
<1>11. i \in 1..Len(pipes) /\ d \in Seq(Message)
  BY <1>4, <1>7, <1>9
<1>12. /\ pipes' \in Seq(Pipe) /\ SamePipes /\ pipes'[i].data = d
       /\ \A j \in 1..Len(pipes) : j # i => pipes'[j] = pipes[j]
  BY <1>1, <1>10, <1>11, PipeChanges DEF SamePipes
<1> QED
  BY <1>4, <1>6, <1>9, <1>12

After(x) == IF x = 1 THEN <<"make", 2>> ELSE Ready

(***************************************************************************)
(* An end in open() is in its step x, and is not behind it.                *)
(***************************************************************************)
LEMMA AtOpen ==
  ASSUME TypeOK, Meeting, NEW e \in Ends, At(e, "open")
  PROVE  \E x \in {1, 2} :
           /\ at[e] = <<"open", x>> /\ at[e] \notin Has(x) /\ at[e] \notin Through
           /\ Step(e) = x /\ PipeOf(e) = x /\ NameOf(e) = <<e[2], x>>
           /\ NameOf(e) \in Names
           /\ AfterOpen(e) = After(x)
           /\ x = WritesTo(e[3]) \/ x = ReadsFrom(e[3])
<1>1. at[e] \in Points \X (1..2)
  BY DEF TypeOK
<1>2. PICK x \in {1, 2} : at[e] = <<"open", x>>
  BY <1>1 DEF At
<1>3. Step(e) = x
  BY <1>2 DEF Step
<1>4. PipeOf(e) = x /\ NameOf(e) = <<e[2], x>>
  BY <1>3 DEF PipeOf, NameOf, Opens
<1>5. AfterOpen(e) = After(x)
  BY <1>3 DEF AfterOpen, After, Ready
<1>6. <<e[2], x>> \in Names
  BY EndParts DEF Names
<1>7. at[e] \notin Has(x) /\ at[e] \notin Through
  BY <1>2 DEF Has, Passed, Halfway, Through, Closed, Ready, Gone
<1>8. x = WritesTo(e[3]) \/ x = ReadsFrom(e[3])
  BY EndParts DEF WritesTo, ReadsFrom
<1> QED
  BY <1>2, <1>3, <1>4, <1>5, <1>6, <1>7, <1>8

\* Nobody but the peer can be on the other side of pipe i.
PeerOnly(e, x, i) ==
  /\ i \in 1..Len(pipes) /\ pipes[i].by = e[1]
  /\ \A o \in Ends :
       o \in (IF x = WritesTo(e[3]) THEN pipes[i].reader ELSE pipes[i].writer)
         <=> o = Peer(e) /\ Holding(o) /\ fd[o][x] = i
  /\ Holding(Peer(e)) /\ fd[Peer(e)][x] = i => at[Peer(e)] = <<"wait", x>>
  /\ at[Peer(e)] \in Has(x) /\ Running(Proc(Peer(e))) =>
       Holding(Peer(e)) /\ fd[Peer(e)][x] = i

(***************************************************************************)
(* The end that opens a pipe finds its peer waiting for it, and both go    *)
(* on, or it waits; nobody else is on the pipe.                            *)
(***************************************************************************)
LEMMA OnlyThePeer ==
  ASSUME TypeOK, Meeting, Naming, Lives, Shapes, NEW e \in Ends, NEW x \in {1, 2},
         at[e] = <<"open", x>>, Running(Proc(e)), NEW i, i = file[<<e[2], x>>],
         i # NoPipe, at[e] \notin Has(x), at[e] \notin Through
  PROVE  PeerOnly(e, x, i)
<1>1. /\ e[1] \in Session /\ e[2] \in Channels /\ e[3] \in Sides
      /\ Peer(e) \in Ends /\ Peer(e) # e /\ Peer(e)[1] = e[1] /\ Peer(e)[2] = e[2]
      /\ Peer(e)[3] # e[3] /\ Peer(Peer(e)) = e
      /\ ReadsFrom(Peer(e)[3]) = WritesTo(e[3])
      /\ WritesTo(Peer(e)[3]) = ReadsFrom(e[3])
      /\ WritesTo(e[3]) # ReadsFrom(e[3])
      /\ x = WritesTo(e[3]) \/ x = ReadsFrom(e[3])
  BY EndParts DEF WritesTo, ReadsFrom
<1>2. <<e[2], x>> \in Names
  BY <1>1 DEF Names
<1>3. i \in 1..Len(pipes)
  BY <1>2 DEF TypeOK, NoPipe
<1>4. Begun(C(e[1]))
  BY Unborn
<1>5. pipes[i].by = e[1]
  BY <1>2, <1>4, CurrentFiles DEF Meeting, Naming
<1>6. at[Peer(e)] \notin Passed(x)
  <2>1. at[Peer(e)] \in Passed(x) => at[Peer(Peer(e))] \in Passed(x)
    BY <1>1 DEF Meeting, Sync
  <2> QED
    BY <1>1, <2>1 DEF Has
<1>7. Holding(Peer(e)) /\ fd[Peer(e)][x] = i => at[Peer(e)] = <<"wait", x>>
  <2>1. fd[Peer(e)][x] = i => at[Peer(e)] \in Has(x)
    BY <1>1 DEF Meeting, Held
  <2> QED
    BY <1>6, <2>1 DEF Has
<1>8. at[Peer(e)] \in Has(x) /\ Running(Proc(Peer(e))) =>
        Holding(Peer(e)) /\ fd[Peer(e)][x] = i
  <2> SUFFICES ASSUME at[Peer(e)] \in Has(x), Running(Proc(Peer(e)))
               PROVE  Holding(Peer(e)) /\ fd[Peer(e)][x] = i
    OBVIOUS
  <2>1. at[Peer(e)] = <<"wait", x>>
    BY <1>6 DEF Has
  <2>2. at[Peer(e)] \notin Closed
    BY <2>1 DEF Closed, Gone
  <2>3. file[<<e[2], x>>] = fd[Peer(e)][x]
    BY DEF Meeting, Found
  <2> QED
    BY <2>2, <2>3 DEF Holding
<1>9. ASSUME NEW o \in Ends, NEW y \in {1, 2}, fd[o][y] = i
      PROVE  y = x /\ o[2] = e[2] /\ o[1] = e[1]
  <2>1. PICK name \in [1..Len(pipes) -> Names] :
          /\ \A n \in Names : file[n] # NoPipe => name[file[n]] = n
          /\ \A f \in Ends, z \in {1, 2} :
               fd[f][z] # NoPipe => name[fd[f][z]] = <<f[2], z>>
    BY DEF Naming, Named
  <2>2. name[i] = <<e[2], x>>
    BY <1>2, <2>1
  <2>3. name[i] = <<o[2], y>>
    BY <1>9, <2>1
  <2>4. pipes[i].by = o[1]
    BY <1>9 DEF Naming, OwnPipes
  <2> QED
    BY <1>5, <2>2, <2>3, <2>4
<1>10. \A o \in Ends :
         o \in (IF x = WritesTo(e[3]) THEN pipes[i].reader ELSE pipes[i].writer)
           <=> o = Peer(e) /\ Holding(o) /\ fd[o][x] = i
  <2> SUFFICES ASSUME NEW o \in Ends
               PROVE  o \in (IF x = WritesTo(e[3]) THEN pipes[i].reader
                             ELSE pipes[i].writer)
                        <=> o = Peer(e) /\ Holding(o) /\ fd[o][x] = i
    OBVIOUS
  <2>1. /\ o \in pipes[i].reader <=> Holding(o) /\ fd[o][ReadsFrom(o[3])] = i
        /\ o \in pipes[i].writer <=> Holding(o) /\ fd[o][WritesTo(o[3])] = i
    BY <1>3 DEF Meeting, SidesKept
  <2>2. /\ WritesTo(o[3]) \in {1, 2} /\ ReadsFrom(o[3]) \in {1, 2}
        /\ WritesTo(o[3]) # ReadsFrom(o[3])
    BY EndParts
  <2>3. o[1] = e[1] /\ o[2] = e[2] => o = e \/ o = Peer(e)
    BY TwoEnds
  <2>4. CASE x = WritesTo(e[3])
    <3>1. o \in pipes[i].reader => x = ReadsFrom(o[3]) /\ o[1] = e[1] /\ o[2] = e[2]
      BY <1>9, <2>1, <2>2
    <3>2. o \in pipes[i].reader => o # e
      BY <1>1, <2>4, <3>1
    <3> QED
      BY <1>1, <2>1, <2>3, <2>4, <3>1, <3>2
  <2>5. CASE x # WritesTo(e[3])
    <3>1. o \in pipes[i].writer => x = WritesTo(o[3]) /\ o[1] = e[1] /\ o[2] = e[2]
      BY <1>9, <2>1, <2>2
    <3>2. o \in pipes[i].writer => o # e
      BY <1>1, <2>5, <3>1
    <3> QED
      BY <1>1, <2>1, <2>3, <2>5, <3>1, <3>2
  <2> QED
    BY <2>4, <2>5
<1> QED
  BY <1>3, <1>5, <1>7, <1>8, <1>10 DEF PeerOnly

\* What Open(e) changes, pipe i being opened in step x.
Opened(e, x, i) ==
  /\ at[e] = <<"open", x>> /\ at[e] \notin Has(x) /\ at[e] \notin Through
  /\ Running(Proc(e))
  /\ i = file[<<e[2], x>>] /\ i \in 1..Len(pipes) /\ pipes[i].by = e[1]
  /\ fd' = [fd EXCEPT ![e][x] = i]
  /\ UNCHANGED <<file, fate, main, chan, worker, todo, thread, history>>
  /\ Len(pipes') = Len(pipes)
  /\ \A j \in 1..Len(pipes) :
       /\ pipes'[j].by = pipes[j].by /\ pipes'[j].data = pipes[j].data
       /\ \A o : o \in pipes'[j].reader <=>
            o \in pipes[j].reader \/ (o = e /\ j = i /\ x = ReadsFrom(e[3]))
       /\ \A o : o \in pipes'[j].writer <=>
            o \in pipes[j].writer \/ (o = e /\ j = i /\ x = WritesTo(e[3]))

\* The peer was waiting, or the end waits now.
BothGoOn(e, x, i) ==
  /\ at[Peer(e)] = <<"wait", x>> /\ Running(Proc(Peer(e))) /\ fd[Peer(e)][x] = i
  /\ at' = [at EXCEPT ![e] = After(x), ![Peer(e)] = After(x)]

Waits(e, x) ==
  /\ at[Peer(e)] \notin Has(x) \/ ~Running(Proc(Peer(e)))
  /\ at' = [at EXCEPT ![e] = <<"wait", x>>]

(***************************************************************************)
(* An end is added to the readers or to the writers of a pipe.             *)
(***************************************************************************)
LEMMA PipeJoined ==
  ASSUME NEW p \in Pipe, NEW e \in Ends, NEW x
  PROVE  /\ x = [p EXCEPT !.reader = @ \cup {e}] =>
              /\ x \in Pipe /\ x.data = p.data /\ x.by = p.by
              /\ x.reader = p.reader \cup {e} /\ x.writer = p.writer
         /\ x = [p EXCEPT !.writer = @ \cup {e}] =>
              /\ x \in Pipe /\ x.data = p.data /\ x.by = p.by
              /\ x.reader = p.reader /\ x.writer = p.writer \cup {e}
BY DEF Pipe

WithReader(q, i, e) == [q EXCEPT ![i].reader = @ \cup {e}]
WithWriter(q, i, e) == [q EXCEPT ![i].writer = @ \cup {e}]

(***************************************************************************)
(* One end more on a pipe leaves its other fields alone.                   *)
(***************************************************************************)
LEMMA ReaderJoins ==
  ASSUME NEW q \in Seq(Pipe), NEW i \in 1..Len(q), NEW e \in Ends
  PROVE  \E r \in Seq(Pipe) :
           /\ r = WithReader(q, i, e)
           /\ Len(r) = Len(q)
           /\ \A j \in 1..Len(q) :
                /\ r[j].by = q[j].by /\ r[j].data = q[j].data
                /\ r[j].writer = q[j].writer
                /\ r[j].reader = IF j = i THEN q[j].reader \cup {e} ELSE q[j].reader
<1>1. q[i] \in Pipe
  OBVIOUS
<1>2. PICK x : x = [q[i] EXCEPT !.reader = @ \cup {e}]
  OBVIOUS
<1>3. /\ x \in Pipe /\ x.data = q[i].data /\ x.by = q[i].by
      /\ x.reader = q[i].reader \cup {e} /\ x.writer = q[i].writer
  BY <1>1, <1>2, PipeJoined
<1>4. PICK r : r = [q EXCEPT ![i] = x]
  OBVIOUS
<1>5. /\ r \in Seq(Pipe) /\ Len(r) = Len(q)
      /\ \A j \in 1..Len(q) : r[j] = IF j = i THEN x ELSE q[j]
  BY <1>3, <1>4
<1>6. /\ Len(r) = Len(q)
      /\ \A j \in 1..Len(q) :
           /\ r[j].by = q[j].by /\ r[j].data = q[j].data
           /\ r[j].writer = q[j].writer
           /\ r[j].reader = IF j = i THEN q[j].reader \cup {e} ELSE q[j].reader
  BY <1>3, <1>5
<1>7. r = WithReader(q, i, e)
  BY <1>2, <1>4 DEF WithReader
<1> QED
  BY <1>5, <1>6, <1>7

(***************************************************************************)
(* The same for a writer.                                                  *)
(***************************************************************************)
LEMMA WriterJoins ==
  ASSUME NEW q \in Seq(Pipe), NEW i \in 1..Len(q), NEW e \in Ends
  PROVE  \E r \in Seq(Pipe) :
           /\ r = WithWriter(q, i, e)
           /\ Len(r) = Len(q)
           /\ \A j \in 1..Len(q) :
                /\ r[j].by = q[j].by /\ r[j].data = q[j].data
                /\ r[j].reader = q[j].reader
                /\ r[j].writer = IF j = i THEN q[j].writer \cup {e} ELSE q[j].writer
<1>1. q[i] \in Pipe
  OBVIOUS
<1>2. PICK x : x = [q[i] EXCEPT !.writer = @ \cup {e}]
  OBVIOUS
<1>3. /\ x \in Pipe /\ x.data = q[i].data /\ x.by = q[i].by
      /\ x.writer = q[i].writer \cup {e} /\ x.reader = q[i].reader
  BY <1>1, <1>2, PipeJoined
<1>4. PICK r : r = [q EXCEPT ![i] = x]
  OBVIOUS
<1>5. /\ r \in Seq(Pipe) /\ Len(r) = Len(q)
      /\ \A j \in 1..Len(q) : r[j] = IF j = i THEN x ELSE q[j]
  BY <1>3, <1>4
<1>6. /\ Len(r) = Len(q)
      /\ \A j \in 1..Len(q) :
           /\ r[j].by = q[j].by /\ r[j].data = q[j].data
           /\ r[j].reader = q[j].reader
           /\ r[j].writer = IF j = i THEN q[j].writer \cup {e} ELSE q[j].writer
  BY <1>3, <1>5
<1>7. r = WithWriter(q, i, e)
  BY <1>2, <1>4 DEF WithWriter
<1> QED
  BY <1>5, <1>6, <1>7

(***************************************************************************)
(* open() of the model is the two cases above.                             *)
(***************************************************************************)
LEMMA OpenDoes ==
  ASSUME TypeOK, Meeting, Naming, Lives, Shapes, NEW e \in Ends,
         Running(Proc(e)), Open(e)
  PROVE  /\ \E x \in {1, 2}, i \in 1..Len(pipes) :
              Opened(e, x, i) /\ (BothGoOn(e, x, i) \/ Waits(e, x))
         /\ pipes' \in Seq(Pipe)
<1>1. At(e, "open") /\ file[NameOf(e)] # NoPipe
  BY DEF Open
<1>2. PICK x \in {1, 2} :
        /\ at[e] = <<"open", x>> /\ at[e] \notin Has(x) /\ at[e] \notin Through
        /\ Step(e) = x /\ PipeOf(e) = x /\ NameOf(e) = <<e[2], x>>
        /\ NameOf(e) \in Names
        /\ AfterOpen(e) = After(x)
        /\ x = WritesTo(e[3]) \/ x = ReadsFrom(e[3])
  BY <1>1, AtOpen
<1>3. PICK i : i = file[<<e[2], x>>]
  OBVIOUS
<1>4. PICK others :
        others = IF x = WritesTo(e[3]) THEN pipes[i].reader ELSE pipes[i].writer
  OBVIOUS
<1>0. i # NoPipe
  BY <1>1, <1>2, <1>3
<1>5. /\ i \in 1..Len(pipes) /\ pipes[i].by = e[1]
      /\ \A o \in Ends :
           o \in others <=> o = Peer(e) /\ Holding(o) /\ fd[o][x] = i
      /\ Holding(Peer(e)) /\ fd[Peer(e)][x] = i => at[Peer(e)] = <<"wait", x>>
      /\ at[Peer(e)] \in Has(x) /\ Running(Proc(Peer(e))) =>
           Holding(Peer(e)) /\ fd[Peer(e)][x] = i
  <2>0. /\ at[e] = <<"open", x>> /\ at[e] \notin Has(x) /\ at[e] \notin Through
        /\ i = file[<<e[2], x>>] /\ i # NoPipe
    BY <1>0, <1>2, <1>3
  <2>1. PeerOnly(e, x, i)
    BY <2>0, OnlyThePeer
  <2> QED
    BY <1>4, <2>1 DEF PeerOnly
<1>6. pipes \in Seq(Pipe) /\ pipes[i] \in Pipe
  BY <1>5 DEF TypeOK
<1>7. others \subseteq Ends
  BY <1>4, <1>6, PipeParts
<1>8. /\ SideOf(e) = e[3] /\ WritesTo(e[3]) # ReadsFrom(e[3])
      /\ Peer(e) \in Ends /\ Peer(e) # e
  BY EndParts
<1>9. /\ fd' = [fd EXCEPT ![e][x] = i]
      /\ UNCHANGED <<file, fate, main, chan, worker, todo, thread, history>>
  BY <1>2, <1>3, <1>8 DEF Open
<1>10. at' = [o \in Ends |->
                IF o \in others /\ At(o, "wait") /\ fd[o][PipeOf(o)] = i
                THEN AfterOpen(o)
                ELSE IF o # e THEN at[o]
                ELSE IF others = {} THEN <<"wait", x>> ELSE After(x)]
  BY <1>2, <1>3, <1>4, <1>8 DEF Open
<1>11. /\ pipes' \in Seq(Pipe) /\ Len(pipes') = Len(pipes)
       /\ \A j \in 1..Len(pipes) :
            /\ pipes'[j].by = pipes[j].by /\ pipes'[j].data = pipes[j].data
            /\ pipes'[j].reader = IF j = i /\ x # WritesTo(e[3])
                                  THEN pipes[j].reader \cup {e} ELSE pipes[j].reader
            /\ pipes'[j].writer = IF j = i /\ x = WritesTo(e[3])
                                  THEN pipes[j].writer \cup {e} ELSE pipes[j].writer
  <2>1. CASE x = WritesTo(e[3])
    <3>1. pipes' = WithWriter(pipes, i, e)
      BY <1>2, <1>3, <1>8, <2>1 DEF Open, WithWriter
    <3> QED
      <4>1. PICK r \in Seq(Pipe) :
              /\ r = WithWriter(pipes, i, e)
              /\ Len(r) = Len(pipes)
              /\ \A j \in 1..Len(pipes) :
                   /\ r[j].by = pipes[j].by /\ r[j].data = pipes[j].data
                   /\ r[j].reader = pipes[j].reader
                   /\ r[j].writer = IF j = i THEN pipes[j].writer \cup {e}
                                   ELSE pipes[j].writer
        BY <1>5, <1>6, WriterJoins, ZenonT(40)
      <4>2. pipes' = r
        BY <3>1, <4>1
      <4>3. /\ Len(r) = Len(pipes)
            /\ \A j \in 1..Len(pipes) :
                 /\ r[j].by = pipes[j].by /\ r[j].data = pipes[j].data
                 /\ r[j].reader = pipes[j].reader
                 /\ r[j].writer = IF j = i THEN pipes[j].writer \cup {e}
                                 ELSE pipes[j].writer
        BY <4>1
      <4> QED
        BY <2>1, <4>2, <4>3
  <2>2. CASE x # WritesTo(e[3])
    <3>1. pipes' = WithReader(pipes, i, e)
      BY <1>2, <1>3, <1>8, <2>2 DEF Open, WithReader
    <3> QED
      <4>1. PICK r \in Seq(Pipe) :
              /\ r = WithReader(pipes, i, e)
              /\ Len(r) = Len(pipes)
              /\ \A j \in 1..Len(pipes) :
                   /\ r[j].by = pipes[j].by /\ r[j].data = pipes[j].data
                   /\ r[j].writer = pipes[j].writer
                   /\ r[j].reader = IF j = i THEN pipes[j].reader \cup {e}
                                   ELSE pipes[j].reader
        BY <1>5, <1>6, ReaderJoins, ZenonT(40)
      <4>2. pipes' = r
        BY <3>1, <4>1
      <4>3. /\ Len(r) = Len(pipes)
            /\ \A j \in 1..Len(pipes) :
                 /\ r[j].by = pipes[j].by /\ r[j].data = pipes[j].data
                 /\ r[j].writer = pipes[j].writer
                 /\ r[j].reader = IF j = i THEN pipes[j].reader \cup {e}
                                 ELSE pipes[j].reader
        BY <4>1
      <4> QED
        BY <2>2, <4>2, <4>3
  <2> QED
    BY <2>1, <2>2
<1>12. Opened(e, x, i)
  <2>1. /\ at[e] = <<"open", x>> /\ at[e] \notin Has(x) /\ at[e] \notin Through
        /\ i = file[<<e[2], x>>] /\ i \in 1..Len(pipes) /\ pipes[i].by = e[1]
    BY <1>2, <1>3, <1>5
  <2>2. x # WritesTo(e[3]) <=> x = ReadsFrom(e[3])
    BY <1>2, <1>8
  <2>3. \A j \in 1..Len(pipes) :
          /\ \A o : o \in pipes'[j].reader <=>
               o \in pipes[j].reader \/ (o = e /\ j = i /\ x = ReadsFrom(e[3]))
          /\ \A o : o \in pipes'[j].writer <=>
               o \in pipes[j].writer \/ (o = e /\ j = i /\ x = WritesTo(e[3]))
    <3> SUFFICES ASSUME NEW j \in 1..Len(pipes)
                 PROVE  /\ \A o : o \in pipes'[j].reader <=>
                             \/ o \in pipes[j].reader
                             \/ o = e /\ j = i /\ x = ReadsFrom(e[3])
                        /\ \A o : o \in pipes'[j].writer <=>
                             \/ o \in pipes[j].writer
                             \/ o = e /\ j = i /\ x = WritesTo(e[3])
      OBVIOUS
    <3>1. /\ pipes'[j].reader = IF j = i /\ x # WritesTo(e[3])
                               THEN pipes[j].reader \cup {e} ELSE pipes[j].reader
          /\ pipes'[j].writer = IF j = i /\ x = WritesTo(e[3])
                               THEN pipes[j].writer \cup {e} ELSE pipes[j].writer
      BY <1>11
    <3>2. ASSUME NEW o
          PROVE  o \in pipes'[j].reader <=>
                   o \in pipes[j].reader \/ (o = e /\ j = i /\ x = ReadsFrom(e[3]))
      BY ONLY <3>1, <2>2
    <3>3. ASSUME NEW o
          PROVE  o \in pipes'[j].writer <=>
                   o \in pipes[j].writer \/ (o = e /\ j = i /\ x = WritesTo(e[3]))
      BY ONLY <3>1
    <3> QED
      BY ONLY <3>2, <3>3
  <2> QED
    BY <1>9, <1>11, <2>1, <2>3 DEF Opened
<1>13. at \in [Ends -> Points \X (1..2)]
  BY DEF TypeOK
<1>14. CASE Peer(e) \in others
  <2>1. at[Peer(e)] = <<"wait", x>> /\ Holding(Peer(e)) /\ fd[Peer(e)][x] = i
    BY <1>5, <1>8, <1>14
  <2>2. /\ At(Peer(e), "wait") /\ PipeOf(Peer(e)) = x
        /\ AfterOpen(Peer(e)) = After(x)
    BY <1>2, <2>1 DEF At, PipeOf, Opens, Step, AfterOpen, After, Ready
  <2>3. \A o \in Ends : o \in others <=> o = Peer(e)
    BY <1>5, <1>8, <1>14
  <2>4. others # {}
    BY <1>14
  <2>5. \A o \in Ends : at'[o] = IF o = Peer(e) THEN After(x)
                                 ELSE IF o = e THEN After(x) ELSE at[o]
    BY <1>10, <2>1, <2>2, <2>3, <2>4
  <2>6. at' = [at EXCEPT ![e] = After(x), ![Peer(e)] = After(x)]
    BY <1>8, <1>10, <1>13, <2>5
  <2> QED
    BY <1>5, <1>11, <1>12, <2>1, <2>6 DEF BothGoOn, Holding
<1>15. CASE Peer(e) \notin others
  <2>1. others = {}
    BY <1>5, <1>7, <1>15
  <2>2. at' = [at EXCEPT ![e] = <<"wait", x>>]
    BY <1>10, <1>13, <2>1
  <2>3. at[Peer(e)] \notin Has(x) \/ ~Running(Proc(Peer(e)))
    BY <1>5, <1>8, <1>15
  <2> QED
    BY <1>5, <1>11, <1>12, <2>2, <2>3 DEF Waits
<1> QED
  BY <1>11, <1>14, <1>15

-----------------------------------------------------------------------------
(* open() keeps the ends together.                                         *)

(***************************************************************************)
(* How open() moves the ends: the end has one pipe more, and either it     *)
(* waits, or its peer and itself are past the step.                        *)
(***************************************************************************)
LEMMA OpenPlaces ==
  ASSUME TypeOK, Stages, NEW e \in Ends, NEW x \in {1, 2}, NEW i \in 1..Len(pipes),
         Opened(e, x, i), BothGoOn(e, x, i) \/ Waits(e, x), NEW o \in Ends
  PROVE  /\ \A y \in {1, 2} :
              /\ at'[o] \in Has(y) <=> at[o] \in Has(y) \/ (o = e /\ y = x)
              /\ at'[o] \in Passed(y) <=>
                   \/ at[o] \in Passed(y)
                   \/ BothGoOn(e, x, i) /\ y = x /\ o \in {e, Peer(e)}
              /\ fd'[o][y] = IF o = e /\ y = x THEN i ELSE fd[o][y]
         /\ at'[o] \in Closed <=> at[o] \in Closed
         /\ at'[o] \in Fresh \cup Has(1)
         /\ at'[o] # at[o] =>
              /\ at'[o] \in {<<"wait", x>>, After(x)}
              /\ at[o] \in {<<"open", x>>, <<"wait", x>>}
              /\ o \in {e, Peer(e)} /\ Running(Proc(o))
<1>1. /\ at[o] \in Fresh \cup Has(1) /\ Peer(e) \in Ends /\ Peer(e) # e
      /\ at \in [Ends -> Points \X (1..2)]
      /\ fd \in [Ends -> [1..2 -> 0..Len(pipes)]]
  BY EndParts DEF Stages, TypeOK
<1>2. \A y \in {1, 2} : fd'[o][y] = IF o = e /\ y = x THEN i ELSE fd[o][y]
  BY <1>1 DEF Opened
<1>3. /\ at[e] = <<"open", x>> /\ fd' = [fd EXCEPT ![e][x] = i]
      /\ Running(Proc(e))
  BY DEF Opened
<1>4. \/ BothGoOn(e, x, i) /\ o = e /\ at'[o] = After(x) /\ at[o] = <<"open", x>>
      \/ /\ BothGoOn(e, x, i) /\ o = Peer(e) /\ at'[o] = After(x)
         /\ at[o] = <<"wait", x>> /\ Running(Proc(o))
      \/ ~BothGoOn(e, x, i) /\ o = e /\ at'[o] = <<"wait", x>>
      \/ BothGoOn(e, x, i) /\ o \notin {e, Peer(e)} /\ at'[o] = at[o]
      \/ ~BothGoOn(e, x, i) /\ o # e /\ at'[o] = at[o]
  <2>1. CASE BothGoOn(e, x, i)
    BY <1>1, <1>3, <2>1 DEF BothGoOn
  <2>2. CASE ~BothGoOn(e, x, i)
    BY <1>1, <1>3, <2>2 DEF Waits
  <2> QED
    BY <2>1, <2>2
<1>5. /\ \A y \in {1, 2} :
           /\ at'[o] \in Has(y) <=> at[o] \in Has(y) \/ (o = e /\ y = x)
           /\ at'[o] \in Passed(y) <=>
                \/ at[o] \in Passed(y)
                \/ BothGoOn(e, x, i) /\ y = x /\ o \in {e, Peer(e)}
      /\ at'[o] \in Closed <=> at[o] \in Closed
      /\ at'[o] \in Fresh \cup Has(1)
  <2> USE DEF Has, Passed, Halfway, Through, Closed, Ready, Gone, After, Fresh, None
  <2>1. CASE x = 1
    <3>1. CASE at'[o] = at[o]
      BY <1>3, <1>4, <2>1, <3>1, <1>1
    <3>2. CASE at'[o] # at[o]
      <4>1. \/ BothGoOn(e, x, i) /\ o = e /\ at'[o] = After(x)
            \/ BothGoOn(e, x, i) /\ o = Peer(e) /\ at'[o] = After(x)
            \/ ~BothGoOn(e, x, i) /\ o = e /\ at'[o] = <<"wait", x>>
        BY <1>4, <3>2
      <4>2. o = e => at[o] = <<"open", x>>
        BY <1>3
      <4>3. o = Peer(e) /\ BothGoOn(e, x, i) => at[o] = <<"wait", x>>
        BY <1>1, <1>4
      <4>4. CASE BothGoOn(e, x, i) /\ o = e /\ at'[o] = After(x)
        BY <2>1, <4>2, <4>4
      <4>5. CASE BothGoOn(e, x, i) /\ o = Peer(e) /\ at'[o] = After(x)
        BY <1>1, <2>1, <4>3, <4>5
      <4>6. CASE ~BothGoOn(e, x, i) /\ o = e /\ at'[o] = <<"wait", x>>
        BY <2>1, <4>2, <4>6
      <4> QED
        BY <4>1, <4>4, <4>5, <4>6
    <3> QED
      BY <3>1, <3>2
  <2>2. CASE x = 2
    <3>1. CASE at'[o] = at[o]
      BY <1>3, <1>4, <2>2, <3>1, <1>1
    <3>2. CASE at'[o] # at[o]
      <4>1. \/ BothGoOn(e, x, i) /\ o = e /\ at'[o] = After(x)
            \/ BothGoOn(e, x, i) /\ o = Peer(e) /\ at'[o] = After(x)
            \/ ~BothGoOn(e, x, i) /\ o = e /\ at'[o] = <<"wait", x>>
        BY <1>4, <3>2
      <4>2. o = e => at[o] = <<"open", x>>
        BY <1>3
      <4>3. o = Peer(e) /\ BothGoOn(e, x, i) => at[o] = <<"wait", x>>
        BY <1>1, <1>4
      <4>4. CASE BothGoOn(e, x, i) /\ o = e /\ at'[o] = After(x)
        <5>1. o = e /\ at[o] = <<"open", 2>> /\ at'[o] = <<"ready", 2>>
          BY <2>2, <4>2, <4>4
        <5>2. at'[o] \in Has(1) /\ at'[o] \in Has(2)
          BY <5>1
        <5>3. at[o] \in Has(1) /\ at[o] \notin Has(2)
          BY <5>1
        <5>4. /\ at'[o] \in Passed(1) /\ at[o] \in Passed(1) /\ at[o] \notin Passed(2)
              /\ at'[o] \in Passed(2) <=> BothGoOn(e, x, i)
          BY <5>1, <4>4
        <5>5. at'[o] \notin Closed /\ at[o] \notin Closed
          BY <5>1
        <5> HIDE DEF Has, Passed, Closed
        <5> QED
          BY <2>2, <5>1, <5>2, <5>3, <5>4, <5>5
      <4>5. CASE BothGoOn(e, x, i) /\ o = Peer(e) /\ at'[o] = After(x)
        BY <1>1, <2>2, <4>3, <4>5
      <4>6. CASE ~BothGoOn(e, x, i) /\ o = e /\ at'[o] = <<"wait", x>>
        <5>1. o = e /\ at[o] = <<"open", 2>> /\ at'[o] = <<"wait", 2>>
          BY <2>2, <4>2, <4>6
        <5>2. at'[o] \in Has(1) /\ at'[o] \in Has(2)
          BY <5>1
        <5>3. at[o] \in Has(1) /\ at[o] \notin Has(2)
          BY <5>1
        <5>4. /\ at'[o] \in Passed(1) /\ at[o] \in Passed(1) /\ at[o] \notin Passed(2)
              /\ at'[o] \in Passed(2) <=> BothGoOn(e, x, i)
          BY <5>1, <4>6
        <5>5. at'[o] \notin Closed /\ at[o] \notin Closed
          BY <5>1
        <5> HIDE DEF Has, Passed, Closed
        <5> QED
          BY <2>2, <5>1, <5>2, <5>3, <5>4, <5>5
      <4> QED
        BY <4>1, <4>4, <4>5, <4>6
    <3> QED
      BY <3>1, <3>2
  <2> QED
    BY <2>1, <2>2
<1>6. at'[o] # at[o] =>
        /\ at'[o] \in {<<"wait", x>>, After(x)}
        /\ at[o] \in {<<"open", x>>, <<"wait", x>>}
        /\ o \in {e, Peer(e)} /\ Running(Proc(o))
  <2>1. CASE o = e
    <3>1. at'[o] = After(x) \/ at'[o] = <<"wait", x>>
      BY <1>1, <1>4, <2>1
    <3> QED
      BY <1>3, <2>1, <3>1
  <2>2. CASE o = Peer(e) /\ BothGoOn(e, x, i)
    <3>1. at[o] = <<"wait", x>> /\ Running(Proc(o)) /\ at'[o] = After(x)
      BY <1>1, <1>4, <2>2
    <3> QED
      BY <2>2, <3>1
  <2>3. CASE o # e /\ ~(o = Peer(e) /\ BothGoOn(e, x, i))
    BY <1>4, <2>3
  <2> QED
    BY <2>1, <2>2, <2>3
<1> QED
  BY <1>2, <1>5, <1>6

(***************************************************************************)
(* open() keeps Meeting.                                                   *)
(***************************************************************************)
LEMMA OpenMeeting ==
  ASSUME TypeOK, Meeting, NEW e \in Ends, NEW x \in {1, 2}, NEW i \in 1..Len(pipes),
         Opened(e, x, i), BothGoOn(e, x, i) \/ Waits(e, x)
  PROVE  Meeting'
<1>0. Stages /\ Held /\ SidesKept /\ Sync /\ Meet /\ Found /\ Sought
  BY DEF Meeting
<1>1. /\ at[e] = <<"open", x>> /\ at[e] \notin Has(x) /\ Running(Proc(e))
      /\ i = file[<<e[2], x>>] /\ i \in 1..Len(pipes)
      /\ file' = file /\ fate' = fate /\ Len(pipes') = Len(pipes)
  BY DEF Opened
<1>2. /\ Peer(e) \in Ends /\ Peer(e) # e /\ Peer(Peer(e)) = e /\ Peer(e)[2] = e[2]
  BY EndParts
<1>3. \A o \in Ends : Peer(o) \in Ends /\ Peer(Peer(o)) = o /\ Peer(o)[2] = o[2]
  BY EndParts
<1>4. \A o \in Ends, y \in {1, 2} :
        /\ at'[o] \in Has(y) <=> at[o] \in Has(y) \/ (o = e /\ y = x)
        /\ at'[o] \in Passed(y) <=>
             \/ at[o] \in Passed(y)
             \/ BothGoOn(e, x, i) /\ y = x /\ o \in {e, Peer(e)}
        /\ fd'[o][y] = IF o = e /\ y = x THEN i ELSE fd[o][y]
  BY <1>0, OpenPlaces
<1>5. \A o \in Ends : /\ at'[o] \in Closed <=> at[o] \in Closed
                      /\ at'[o] \in Fresh \cup Has(1)
                      /\ at'[o] # at[o] => at'[o] \in {<<"wait", x>>, After(x)}
  BY <1>0, OpenPlaces
<1>6. Stages'
  BY <1>5 DEF Stages
<1>7. Held'
  <2>1. i # NoPipe
    BY DEF NoPipe
  <2> QED
    BY <1>0, <1>4, <2>1 DEF Held
<1>8. SidesKept'
  <2>1. at[e] \notin Closed
    BY <1>1 DEF Closed, Gone
  <2>2. \A o \in Ends : Holding(o)' <=> Holding(o)
    BY <1>1, <1>5 DEF Holding, Running
  <2>3. /\ WritesTo(e[3]) # ReadsFrom(e[3])
        /\ \A o \in Ends : WritesTo(o[3]) \in {1, 2} /\ ReadsFrom(o[3]) \in {1, 2}
    BY EndParts
  <2>4. fd[e][x] = NoPipe
    BY <1>0, <1>1 DEF Held
  <2>5. SUFFICES ASSUME NEW j \in 1..Len(pipes)
                 PROVE  /\ pipes'[j].reader =
                             {o \in Ends : Holding(o)' /\ fd'[o][ReadsFrom(o[3])] = j}
                        /\ pipes'[j].writer =
                             {o \in Ends : Holding(o)' /\ fd'[o][WritesTo(o[3])] = j}
    BY <1>1 DEF SidesKept
  <2>6. /\ \A o : o \in pipes[j].reader <=>
             o \in Ends /\ Holding(o) /\ fd[o][ReadsFrom(o[3])] = j
        /\ \A o : o \in pipes[j].writer <=>
             o \in Ends /\ Holding(o) /\ fd[o][WritesTo(o[3])] = j
    BY <1>0 DEF SidesKept
  <2>7. /\ \A o : o \in pipes'[j].reader <=>
             o \in pipes[j].reader \/ (o = e /\ j = i /\ x = ReadsFrom(e[3]))
        /\ \A o : o \in pipes'[j].writer <=>
             o \in pipes[j].writer \/ (o = e /\ j = i /\ x = WritesTo(e[3]))
    BY DEF Opened
  <2>8. Holding(e) /\ j # NoPipe
    BY <1>1, <2>1 DEF Holding, NoPipe
  <2>9. \A o : o \in pipes'[j].reader <=>
          o \in Ends /\ Holding(o)' /\ fd'[o][ReadsFrom(o[3])] = j
    BY <1>4, <2>2, <2>3, <2>4, <2>6, <2>7, <2>8
  <2>10. \A o : o \in pipes'[j].writer <=>
           o \in Ends /\ Holding(o)' /\ fd'[o][WritesTo(o[3])] = j
    BY <1>4, <2>2, <2>3, <2>4, <2>6, <2>7, <2>8
  <2> QED
    BY <2>9, <2>10
<1>9. Sync'
  BY <1>0, <1>2, <1>3, <1>4 DEF Sync
<1>10. Meet'
  <2>1. at[Peer(e)] \in Has(x) => fd[Peer(e)][x] = i
    BY <1>0, <1>1, <1>2 DEF Found
  <2> QED
    BY <1>0, <1>1, <1>2, <1>3, <1>4, <2>1, SMTT(40) DEF Meet
<1>11. Found'
  <2>1. \A p : Running(p)' <=> Running(p)
    BY <1>1 DEF Running
  <2>2. SUFFICES ASSUME NEW o \in Ends, NEW y \in {1, 2}, at'[o] \notin Has(y),
                        Running(Proc(o)), at'[Peer(o)] \in Has(y)
                 PROVE  file[<<o[2], y>>] = fd'[Peer(o)][y]
    BY <1>1, <2>1 DEF Found
  <2>3. at[o] \notin Has(y)
    BY <1>4, <2>2
  <2>4. CASE Peer(o) = e /\ y = x
    <3>1. fd'[Peer(o)][y] = i
      BY <1>3, <1>4, <2>4
    <3> QED
      BY <1>1, <1>2, <1>3, <2>4, <3>1
  <2>5. CASE ~(Peer(o) = e /\ y = x)
    <3>1. at[Peer(o)] \in Has(y) /\ fd'[Peer(o)][y] = fd[Peer(o)][y]
      BY <1>3, <1>4, <2>2, <2>5
    <3> QED
      BY <1>0, <2>2, <2>3, <3>1 DEF Found
  <2> QED
    BY <2>4, <2>5
<1>12. Sought'
  <2>1. \A o \in Ends, y \in {1, 2} : at'[o] = <<"open", y>> => at[o] = <<"open", y>>
    BY <1>5 DEF After, Ready
  <2>2. \A p : Fine(p)' <=> Fine(p)
    BY <1>1 DEF Fine
  <2> QED
    BY <1>0, <1>1, <2>1, <2>2 DEF Sought
<1> QED
  BY <1>6, <1>7, <1>8, <1>9, <1>10, <1>11, <1>12 DEF Meeting

(***************************************************************************)
(* open() keeps Naming.                                                    *)
(***************************************************************************)
LEMMA OpenNaming ==
  ASSUME TypeOK, Stages, Naming, NEW e \in Ends, NEW x \in {1, 2},
         NEW i \in 1..Len(pipes),
         Opened(e, x, i), BothGoOn(e, x, i) \/ Waits(e, x)
  PROVE  Naming'
<1>0. Named /\ OwnPipes /\ Newest /\ Removed
  BY DEF Naming
<1>1. /\ at[e] = <<"open", x>>
      /\ i = file[<<e[2], x>>] /\ i \in 1..Len(pipes) /\ pipes[i].by = e[1]
      /\ file' = file /\ fate' = fate /\ Len(pipes') = Len(pipes)
      /\ \A j \in 1..Len(pipes) : pipes'[j].by = pipes[j].by
  BY DEF Opened
<1>2. \A o \in Ends : /\ \A y \in {1, 2} :
                           fd'[o][y] = IF o = e /\ y = x THEN i ELSE fd[o][y]
                      /\ at'[o] # at[o] => at'[o] \in {<<"wait", x>>, After(x)}
  BY OpenPlaces
<1>3. /\ file \in [Names -> 0..Len(pipes)]
      /\ fd \in [Ends -> [1..2 -> 0..Len(pipes)]]
  BY DEF TypeOK
<1>4. Named'
  <2>1. PICK name \in [1..Len(pipes) -> Names] :
          /\ \A n \in Names : file[n] # NoPipe => name[file[n]] = n
          /\ \A f \in Ends, z \in {1, 2} :
               fd[f][z] # NoPipe => name[fd[f][z]] = <<f[2], z>>
    BY <1>0 DEF Named
  <2>2. <<e[2], x>> \in Names /\ i # NoPipe
    BY EndParts DEF Names, NoPipe
  <2>3. name[i] = <<e[2], x>>
    BY <1>1, <2>1, <2>2
  <2>4. \A f \in Ends, z \in {1, 2} :
          fd'[f][z] # NoPipe => name[fd'[f][z]] = <<f[2], z>>
    <3> SUFFICES ASSUME NEW f \in Ends, NEW z \in {1, 2}, fd'[f][z] # NoPipe
                 PROVE  name[fd'[f][z]] = <<f[2], z>>
      OBVIOUS
    <3>1. fd'[f][z] = IF f = e /\ z = x THEN i ELSE fd[f][z]
      BY <1>2
    <3> QED
      BY <2>1, <2>3, <3>1
  <2> QED
    BY <1>1, <2>1, <2>4 DEF Named
<1>5. OwnPipes'
  <2> SUFFICES ASSUME NEW f \in Ends, NEW z \in {1, 2}, fd'[f][z] # NoPipe
               PROVE  pipes'[fd'[f][z]].by = f[1]
    BY DEF OwnPipes
  <2>1. fd'[f][z] = IF f = e /\ z = x THEN i ELSE fd[f][z]
    BY <1>2
  <2>2. fd[f][z] # NoPipe => fd[f][z] \in 1..Len(pipes) /\ pipes[fd[f][z]].by = f[1]
    BY <1>0, <1>3 DEF OwnPipes, NoPipe
  <2>3. fd'[f][z] \in 1..Len(pipes) /\ pipes[fd'[f][z]].by = f[1]
    BY <1>1, <2>1, <2>2
  <2> QED
    BY <1>1, <2>3
<1>6. Newest'
  <2>1. \A n \in Names : file[n] # NoPipe => file[n] \in 1..Len(pipes)
    BY <1>3 DEF NoPipe
  <2> QED
    BY <1>0, <1>1, <2>1 DEF Newest, Begun
<1>7. Removed'
  <2>1. \A n \in Names : file[n] # NoPipe => file[n] \in 1..Len(pipes)
    BY <1>3 DEF NoPipe
  <2>2. \A s \in Session, k \in Channels :
          /\ End(s, k, "client") \in Ends
          /\ <<k, 1>> \in Names /\ <<k, 2>> \in Names
    BY EndIs DEF Names
  <2>3. \A o \in Ends : at'[o] \in {<<"remove", 2>>, Gone} => at'[o] = at[o]
    BY <1>2 DEF Gone, After, Ready
  <2> QED
    BY <1>0, <1>1, <2>1, <2>2, <2>3 DEF Removed, Gone
<1> QED
  BY <1>4, <1>5, <1>6, <1>7 DEF Naming

-----------------------------------------------------------------------------
(* The other steps keep the ends together, too.                            *)

(***************************************************************************)
(* Steps that at most begin the constructor of ends that were not there:   *)
(* what the processes say to each other, and the launch of a session.      *)
(***************************************************************************)
LEMMA FreshMeeting ==
  ASSUME TypeOK, Meeting, fd' = fd, file' = file, SamePipes,
         \A o \in Ends : at'[o] = at[o] \/ (at[o] = None /\ at'[o] = <<"make", 1>>),
         \A o \in Ends : \/ fate'[Proc(o)] = fate[Proc(o)]
                         \/ at[o] = None /\ at[Peer(o)] = None
  PROVE  Meeting'
<1>0. Stages /\ Held /\ SidesKept /\ Sync /\ Meet /\ Found /\ Sought
  BY DEF Meeting
<1>1. \A o \in Ends : Peer(o) \in Ends /\ Peer(Peer(o)) = o
  BY EndParts
<1>2. \A o \in Ends :
        /\ \A y \in {1, 2} : /\ at'[o] \in Has(y) <=> at[o] \in Has(y)
                             /\ at'[o] \in Passed(y) <=> at[o] \in Passed(y)
        /\ at'[o] \in Closed <=> at[o] \in Closed
        /\ at'[o] \in Fresh \cup Has(1)
  BY <1>0 DEF Stages, Has, Passed, Halfway, Through, Closed, Ready, Gone, Fresh, None
<1>3. Stages'
  BY <1>2 DEF Stages
<1>4. Held'
  BY <1>0, <1>2 DEF Held
<1>5. SidesKept'
  <2>1. \A o \in Ends, y \in {1, 2} :
          fd[o][y] # NoPipe => (Holding(o)' <=> Holding(o))
    <3> SUFFICES ASSUME NEW o \in Ends, NEW y \in {1, 2}, fd[o][y] # NoPipe
                 PROVE  Holding(o)' <=> Holding(o)
      OBVIOUS
    <3>1. at[o] \in Has(y)
      BY <1>0 DEF Held
    <3>2. at[o] # None
      BY <3>1 DEF Has, Passed, Halfway, Through, Closed, Ready, Gone, None
    <3> QED
      BY <1>2, <3>2 DEF Holding, Running
  <2>2. \A o \in Ends : WritesTo(o[3]) \in {1, 2} /\ ReadsFrom(o[3]) \in {1, 2}
    BY EndParts
  <2>3. SUFFICES ASSUME NEW j \in 1..Len(pipes)
                 PROVE  /\ pipes'[j].reader =
                             {o \in Ends : Holding(o)' /\ fd[o][ReadsFrom(o[3])] = j}
                        /\ pipes'[j].writer =
                             {o \in Ends : Holding(o)' /\ fd[o][WritesTo(o[3])] = j}
    BY DEF SidesKept, SamePipes
  <2>4. /\ pipes'[j].reader =
             {o \in Ends : Holding(o) /\ fd[o][ReadsFrom(o[3])] = j}
        /\ pipes'[j].writer =
             {o \in Ends : Holding(o) /\ fd[o][WritesTo(o[3])] = j}
    BY <1>0 DEF SidesKept, SamePipes
  <2>5. j # NoPipe
    BY DEF NoPipe
  <2>6. \A o \in Ends :
          /\ fd[o][ReadsFrom(o[3])] = j => (Holding(o)' <=> Holding(o))
          /\ fd[o][WritesTo(o[3])] = j => (Holding(o)' <=> Holding(o))
    BY <2>1, <2>2, <2>5
  <2>7. {o \in Ends : Holding(o) /\ fd[o][ReadsFrom(o[3])] = j} =
          {o \in Ends : Holding(o)' /\ fd[o][ReadsFrom(o[3])] = j}
    BY <2>6
  <2>8. {o \in Ends : Holding(o) /\ fd[o][WritesTo(o[3])] = j} =
          {o \in Ends : Holding(o)' /\ fd[o][WritesTo(o[3])] = j}
    BY <2>6
  <2> QED
    BY <2>4, <2>7, <2>8
<1>6. Sync'
  BY <1>0, <1>1, <1>2 DEF Sync
<1>7. Meet'
  BY <1>0, <1>1, <1>2 DEF Meet
<1>8. Found'
  <2> SUFFICES ASSUME NEW o \in Ends, NEW y \in {1, 2}, at'[o] \notin Has(y),
                      Running(Proc(o))', at'[Peer(o)] \in Has(y)
               PROVE  file[<<o[2], y>>] = fd[Peer(o)][y]
    BY DEF Found
  <2>1. at[o] \notin Has(y) /\ at[Peer(o)] \in Has(y)
    BY <1>1, <1>2
  <2>2. at[Peer(o)] # None
    BY <2>1 DEF Has, Passed, Halfway, Through, Closed, Ready, Gone, None
  <2>3. Running(Proc(o))
    BY <2>2 DEF Running
  <2> QED
    BY <1>0, <2>1, <2>3 DEF Found
<1>9. Sought'
  <2> SUFFICES ASSUME NEW o \in Ends, NEW y \in {1, 2}, at'[o] = <<"open", y>>,
                      Fine(Proc(o))', Fine(Proc(Peer(o)))'
               PROVE  file[<<o[2], y>>] # NoPipe
    BY DEF Sought
  <2>1. at[o] = <<"open", y>> /\ at[o] # None
    BY DEF None
  <2>2. Fine(Proc(o)) /\ Fine(Proc(Peer(o)))
    BY <1>1, <2>1 DEF Fine
  <2> QED
    BY <1>0, <2>1, <2>2 DEF Sought
<1> QED
  BY <1>3, <1>4, <1>5, <1>6, <1>7, <1>8, <1>9 DEF Meeting

(***************************************************************************)
(* The same steps keep the names.                                          *)
(***************************************************************************)
LEMMA FreshNaming ==
  ASSUME TypeOK, Naming, fd' = fd, file' = file, SamePipes,
         \A o \in Ends : at'[o] = at[o] \/ at'[o] = <<"make", 1>>
  PROVE  /\ Named' /\ OwnPipes' /\ Removed'
         /\ (\A s \in Session : Begun(C(s))' <=> Begun(C(s))) => Newest'
<1>0. Named /\ OwnPipes /\ Newest /\ Removed
  BY DEF Naming
<1>1. /\ file \in [Names -> 0..Len(pipes)]
      /\ fd \in [Ends -> [1..2 -> 0..Len(pipes)]]
      /\ pipes \in Seq(Pipe)
  BY DEF TypeOK
<1>2. \A n \in Names :
        file[n] # NoPipe => /\ file[n] \in 1..Len(pipes)
                            /\ pipes'[file[n]].by = pipes[file[n]].by
  BY <1>1 DEF NoPipe, SamePipes
<1>3. Named'
  BY <1>0 DEF Named, SamePipes
<1>4. OwnPipes'
  BY <1>0, <1>1 DEF OwnPipes, SamePipes, NoPipe
<1>5. Removed'
  <2>1. \A s \in Session, k \in Channels :
          /\ End(s, k, "client") \in Ends
          /\ <<k, 1>> \in Names /\ <<k, 2>> \in Names
    BY EndIs DEF Names
  <2>2. \A o \in Ends : at'[o] \in {<<"remove", 2>>, Gone} => at'[o] = at[o]
    BY DEF Gone
  <2> QED
    BY <1>0, <1>2, <2>1, <2>2 DEF Removed
<1>6. ASSUME \A s \in Session : Begun(C(s))' <=> Begun(C(s))
      PROVE  Newest'
  <2>1. \A n \in Names : file[n] # NoPipe => pipes[file[n]].by \in Session
    <3>1. \A n \in Names : file[n] # NoPipe => pipes[file[n]] \in Pipe
      BY <1>1, <1>2
    <3> QED
      BY <3>1, PipeParts
  <2> QED
    BY <1>0, <1>2, <1>6, <2>1 DEF Newest
<1> QED
  BY <1>3, <1>4, <1>5, <1>6

(***************************************************************************)
(* Closing takes ends off the pipes, which stay as they are.               *)
(***************************************************************************)
LEMMA WithoutKeeps ==
  ASSUME pipes \in Seq(Pipe), NEW X, pipes' = [i \in DOMAIN pipes |-> Without(pipes[i], X)]
  PROVE  /\ pipes' \in Seq(Pipe) /\ Len(pipes') = Len(pipes)
         /\ \A i \in 1..Len(pipes) :
              /\ pipes'[i].by = pipes[i].by /\ pipes'[i].data = pipes[i].data
              /\ pipes'[i].reader = pipes[i].reader \ X
              /\ pipes'[i].writer = pipes[i].writer \ X
<1>1. ASSUME NEW p \in Pipe
      PROVE  /\ Without(p, X) \in Pipe
             /\ Without(p, X).by = p.by /\ Without(p, X).data = p.data
             /\ Without(p, X).reader = p.reader \ X
             /\ Without(p, X).writer = p.writer \ X
  <2>1. PICK r : r = Without(p, X)
    OBVIOUS
  <2>2. r = [by |-> p.by, reader |-> p.reader \ X, writer |-> p.writer \ X,
             data |-> p.data]
    BY <2>1 DEF Without, Pipe
  <2>3. /\ r.by = p.by /\ r.data = p.data
        /\ r.reader = p.reader \ X /\ r.writer = p.writer \ X
    BY <2>2
  <2>4. /\ p.by \in Session /\ p.reader \in SUBSET Ends
        /\ p.writer \in SUBSET Ends /\ p.data \in Seq(Message)
    BY PipeParts
  <2>5. r \in Pipe
    BY <2>2, <2>4 DEF Pipe
  <2> QED
    BY <2>1, <2>3, <2>5
<1>2. /\ DOMAIN pipes = 1..Len(pipes)
      /\ \A i \in 1..Len(pipes) : pipes[i] \in Pipe
  OBVIOUS
<1>3. pipes' = [i \in 1..Len(pipes) |-> Without(pipes[i], X)]
  BY <1>2
<1>4. \A i \in 1..Len(pipes) : Without(pipes[i], X) \in Pipe
  BY <1>1, <1>2
<1>5. pipes' \in Seq(Pipe) /\ Len(pipes') = Len(pipes)
  BY <1>3, <1>4
<1>6. \A i \in 1..Len(pipes) : pipes'[i] = Without(pipes[i], X)
  BY <1>3
<1> QED
  BY <1>1, <1>2, <1>5, <1>6

(***************************************************************************)
(* The end of a constructed channel closes its pipes.                      *)
(***************************************************************************)
LEMMA CloseMeeting ==
  ASSUME TypeOK, Meeting, NEW e \in Ends, Close(e)
  PROVE  /\ Meeting' /\ pipes' \in Seq(Pipe) /\ Len(pipes') = Len(pipes)
         /\ at[e] = Ready /\ at' = [at EXCEPT ![e] = <<"remove", 1>>]
         /\ \A i \in 1..Len(pipes) :
              pipes'[i].by = pipes[i].by /\ pipes'[i].data = pipes[i].data
<1>0. /\ Stages /\ Held /\ SidesKept /\ Sync /\ Meet /\ Found /\ Sought
      /\ at \in [Ends -> Points \X (1..2)] /\ pipes \in Seq(Pipe)
  BY DEF Meeting, TypeOK
<1>1. at[e] = Ready
  <2>1. at[e][1] = "ready" /\ at[e] \in Fresh \cup Has(1)
    BY <1>0 DEF Close, At, Stages
  <2> QED
    BY <2>1 DEF Fresh, Has, Passed, Halfway, Through, Closed, Ready, Gone, None
<1>2. /\ at' = [at EXCEPT ![e] = <<"remove", 1>>] /\ fd' = fd /\ file' = file
      /\ fate' = fate
      /\ pipes' = [i \in DOMAIN pipes |-> Without(pipes[i], {e})]
  BY DEF Close
<1>3. /\ pipes' \in Seq(Pipe) /\ Len(pipes') = Len(pipes)
      /\ \A i \in 1..Len(pipes) :
           /\ pipes'[i].by = pipes[i].by /\ pipes'[i].data = pipes[i].data
           /\ pipes'[i].reader = pipes[i].reader \ {e}
           /\ pipes'[i].writer = pipes[i].writer \ {e}
  BY <1>0, <1>2, WithoutKeeps
<1>4. \A o \in Ends :
        /\ \A y \in {1, 2} : /\ at'[o] \in Has(y) <=> at[o] \in Has(y)
                             /\ at'[o] \in Passed(y) <=> at[o] \in Passed(y)
        /\ at'[o] \in Closed <=> at[o] \in Closed \/ o = e
        /\ at'[o] \in Fresh \cup Has(1)
  <2> SUFFICES ASSUME NEW o \in Ends
               PROVE  /\ \A y \in {1, 2} :
                           /\ at'[o] \in Has(y) <=> at[o] \in Has(y)
                           /\ at'[o] \in Passed(y) <=> at[o] \in Passed(y)
                      /\ at'[o] \in Closed <=> at[o] \in Closed \/ o = e
                      /\ at'[o] \in Fresh \cup Has(1)
    OBVIOUS
  <2>1. CASE o = e
    BY <1>0, <1>1, <1>2, <2>1
       DEF Has, Passed, Halfway, Through, Closed, Ready, Gone, Fresh, None
  <2>2. CASE o # e
    BY <1>0, <1>2, <2>2 DEF Stages
  <2> QED
    BY <2>1, <2>2
<1>5. \A o \in Ends : Peer(o) \in Ends
  BY EndParts
<1>6. Stages' /\ Held' /\ Sync' /\ Meet'
  BY <1>0, <1>2, <1>4, <1>5 DEF Stages, Held, Sync, Meet
<1>7. SidesKept'
  <2>1. \A o \in Ends : Holding(o)' <=> Holding(o) /\ o # e
    BY <1>2, <1>4 DEF Holding, Running
  <2>2. SUFFICES ASSUME NEW j \in 1..Len(pipes)
                 PROVE  /\ pipes'[j].reader =
                             {o \in Ends : Holding(o)' /\ fd[o][ReadsFrom(o[3])] = j}
                        /\ pipes'[j].writer =
                             {o \in Ends : Holding(o)' /\ fd[o][WritesTo(o[3])] = j}
    <3>1. fd' = fd /\ Len(pipes') = Len(pipes)
      BY <1>2, <1>3
    <3> QED
      BY <3>1 DEF SidesKept
  <2> QED
    BY <1>0, <1>3, <2>1 DEF SidesKept
<1>8. Found'
  <2>1. \A p : Running(p)' <=> Running(p)
    BY <1>2 DEF Running
  <2> QED
    BY <1>0, <1>2, <1>4, <1>5, <2>1 DEF Found
<1>9. Sought'
  <2>1. \A o \in Ends, y \in {1, 2} : at'[o] = <<"open", y>> => at[o] = <<"open", y>>
    BY <1>0, <1>2
  <2>2. \A p : Fine(p)' <=> Fine(p)
    BY <1>2 DEF Fine
  <2> QED
    BY <1>0, <1>2, <2>1, <2>2 DEF Sought
<1> QED
  BY <1>1, <1>2, <1>3, <1>6, <1>7, <1>8, <1>9 DEF Meeting

(***************************************************************************)
(* A process that ends closes all its ends.  If it removes the files, no   *)
(* one may be left who still needs one.                                    *)
(***************************************************************************)
NobodyLeft(p) ==
  \A e \in Ends :
    /\ Running(Proc(e)) /\ Proc(e) # p =>
         \A x \in {1, 2} : at[e] \notin Has(x) => at[Peer(e)] \notin Has(x)
    /\ \A x \in {1, 2} : at[e] = <<"open", x>> => Proc(e) = p \/ Proc(Peer(e)) = p

(***************************************************************************)
(* What a process that ends leaves of Meeting: only its own ends are gone  *)
(* from the pipes, and "rmv" needs that nobody is left who still has a file*)
(* to find.                                                                *)
(***************************************************************************)
LEMMA DiesMeeting ==
  ASSUME TypeOK, Meeting, NEW p \in Session \X Sides, Running(p),
         NEW f \in {"exit", "rmv", "killed"}, Dies(p, f), f = "rmv" => NobodyLeft(p)
  PROVE  /\ Meeting' /\ pipes' \in Seq(Pipe) /\ Len(pipes') = Len(pipes)
         /\ \A i \in 1..Len(pipes) :
              pipes'[i].by = pipes[i].by /\ pipes'[i].data = pipes[i].data
<1>0. /\ Stages /\ Held /\ SidesKept /\ Sync /\ Meet /\ Found /\ Sought
      /\ pipes \in Seq(Pipe) /\ fate \in [Session \X Sides ->
           {"unborn", "running", "exit", "rmv", "killed"}]
  BY DEF Meeting, TypeOK
<1>1. /\ at' = at /\ fd' = fd /\ fate' = [fate EXCEPT ![p] = f]
      /\ file' = IF f = "rmv" THEN [n \in Names |-> NoPipe] ELSE file
  BY DEF Dies
<1>2. PICK X : X = {e \in Ends : <<e[1], SideOf(e)>> = p}
  OBVIOUS
<1>3. pipes' = [i \in DOMAIN pipes |-> Without(pipes[i], X)]
  BY <1>2 DEF Dies
<1>4. /\ pipes' \in Seq(Pipe) /\ Len(pipes') = Len(pipes)
      /\ \A i \in 1..Len(pipes) :
           /\ pipes'[i].by = pipes[i].by /\ pipes'[i].data = pipes[i].data
           /\ pipes'[i].reader = pipes[i].reader \ X
           /\ pipes'[i].writer = pipes[i].writer \ X
  BY <1>0, <1>3, WithoutKeeps
<1>5. \A o \in Ends : /\ Peer(o) \in Ends /\ Proc(o) \in Session \X Sides
                      /\ Proc(Peer(o)) \in Session \X Sides
                      /\ o \in X <=> Proc(o) = p
                      /\ Peer(o)[2] = o[2] /\ <<o[2], 1>> \in Names
                      /\ <<o[2], 2>> \in Names
  <2>1. \A o \in Ends : /\ Peer(o) \in Ends /\ Proc(o) = <<o[1], SideOf(o)>>
                        /\ Proc(o) \in Session \X Sides
                        /\ Peer(o)[2] = o[2] /\ o[2] \in Channels
    BY EndParts
  <2> QED
    BY <1>2, <2>1 DEF Names
<1>6. /\ \A q \in Session \X Sides : Running(q)' <=> Running(q) /\ q # p
      /\ \A q \in Session \X Sides : Fine(q)' => Fine(q)
      /\ f # "exit" => ~Fine(p)'
  BY <1>0, <1>1 DEF Running, Fine
<1>7. Stages' /\ Held' /\ Sync' /\ Meet'
  BY <1>0, <1>1 DEF Stages, Held, Sync, Meet
<1>8. SidesKept'
  <2>1. \A o \in Ends : Holding(o)' <=> Holding(o) /\ o \notin X
    BY <1>1, <1>5, <1>6 DEF Holding
  <2>2. SUFFICES ASSUME NEW j \in 1..Len(pipes)
                 PROVE  /\ pipes'[j].reader =
                             {o \in Ends : Holding(o)' /\ fd[o][ReadsFrom(o[3])] = j}
                        /\ pipes'[j].writer =
                             {o \in Ends : Holding(o)' /\ fd[o][WritesTo(o[3])] = j}
    BY <1>1, <1>4 DEF SidesKept
  <2> QED
    BY <1>0, <1>4, <2>1 DEF SidesKept
<1>9. Found'
  <2> SUFFICES ASSUME NEW o \in Ends, NEW x \in {1, 2}, at[o] \notin Has(x),
                      Running(Proc(o))', at[Peer(o)] \in Has(x)
               PROVE  file'[<<o[2], x>>] = fd[Peer(o)][x]
    BY <1>1 DEF Found
  <2>1. Running(Proc(o)) /\ Proc(o) # p
    BY <1>5, <1>6
  <2>2. f # "rmv"
    BY <2>1 DEF NobodyLeft
  <2> QED
    BY <1>0, <1>1, <2>1, <2>2 DEF Found
<1>10. Sought'
  <2> SUFFICES ASSUME NEW o \in Ends, NEW x \in {1, 2}, at[o] = <<"open", x>>,
                      Fine(Proc(o))', Fine(Proc(Peer(o)))'
               PROVE  file'[<<o[2], x>>] # NoPipe
    BY <1>1 DEF Sought
  <2>1. Fine(Proc(o)) /\ Fine(Proc(Peer(o)))
    BY <1>5, <1>6
  <2>2. f # "rmv"
    BY <1>6 DEF NobodyLeft
  <2> QED
    BY <1>0, <1>1, <2>1, <2>2 DEF Sought
<1> QED
  BY <1>4, <1>7, <1>8, <1>9, <1>10 DEF Meeting

(***************************************************************************)
(* Closing and dying keep the names: at most, names are removed.           *)
(***************************************************************************)
LEMMA FewerNames ==
  ASSUME TypeOK, Naming, fd' = fd, Len(pipes') = Len(pipes),
         \A i \in 1..Len(pipes) : pipes'[i].by = pipes[i].by,
         \A n \in Names : file'[n] = file[n] \/ file'[n] = NoPipe,
         \A s \in Session : Begun(C(s))' <=> Begun(C(s))
  PROVE  /\ Named' /\ OwnPipes' /\ Newest'
         /\ (\A e \in Ends : at'[e] \in {<<"remove", 2>>, Gone} => at'[e] = at[e])
              => Removed'
<1>0. Named /\ OwnPipes /\ Newest /\ Removed
  BY DEF Naming
<1>1. /\ file \in [Names -> 0..Len(pipes)]
      /\ fd \in [Ends -> [1..2 -> 0..Len(pipes)]]
      /\ pipes \in Seq(Pipe)
  BY DEF TypeOK
<1>2. \A n \in Names :
        file'[n] # NoPipe => /\ file'[n] = file[n] /\ file[n] \in 1..Len(pipes)
                             /\ pipes'[file[n]].by = pipes[file[n]].by
  BY <1>1 DEF NoPipe
<1>3. Named'
  <2>1. PICK name \in [1..Len(pipes) -> Names] :
          /\ \A n \in Names : file[n] # NoPipe => name[file[n]] = n
          /\ \A f \in Ends, z \in {1, 2} :
               fd[f][z] # NoPipe => name[fd[f][z]] = <<f[2], z>>
    BY <1>0 DEF Named
  <2>2. \A n \in Names : file'[n] # NoPipe => name[file'[n]] = n
    BY <1>2, <2>1
  <2> QED
    BY <2>1, <2>2 DEF Named
<1>4. OwnPipes'
  BY <1>0, <1>1 DEF OwnPipes, NoPipe
<1>5. Newest'
  <2>1. \A n \in Names : file[n] # NoPipe => pipes[file[n]].by \in Session
    <3>1. \A n \in Names : file[n] # NoPipe => pipes[file[n]] \in Pipe
      BY <1>1 DEF NoPipe
    <3> QED
      BY <3>1, PipeParts
  <2> QED
    BY <1>0, <1>2, <2>1 DEF Newest
<1>6. ASSUME \A e \in Ends : at'[e] \in {<<"remove", 2>>, Gone} => at'[e] = at[e]
      PROVE  Removed'
  <2>1. \A s \in Session, k \in Channels :
          /\ End(s, k, "client") \in Ends
          /\ <<k, 1>> \in Names /\ <<k, 2>> \in Names
    BY EndIs DEF Names
  <2> QED
    BY <1>0, <1>2, <1>6, <2>1, ZenonT(40) DEF Removed
<1> QED
  BY <1>3, <1>4, <1>5, <1>6

(***************************************************************************)
(* The destructor removes a file: an end that has one of its own session   *)
(* is through, and so is its peer.                                         *)
(***************************************************************************)
LEMMA RemoveDoes ==
  ASSUME TypeOK, Meeting, NEW e \in Ends, Remove(e)
  PROVE  \E x \in {1, 2}, y \in {1, 2} :
           /\ at[e] = <<"remove", x>> /\ at[e] \in Closed
           /\ at' = [at EXCEPT ![e] = IF x = 1 THEN <<"remove", 2>> ELSE Gone]
           /\ file' = [file EXCEPT ![<<e[2], y>>] = NoPipe]
           /\ <<e[2], y>> \in Names
           /\ y = IF x = 1 THEN ReadsFrom(e[3]) ELSE WritesTo(e[3])
           /\ stolen' = (\/ stolen
                         \/ /\ file[<<e[2], y>>] # NoPipe /\ e[3] = "server"
                            /\ pipes[file[<<e[2], y>>]].by > e[1])
           /\ UNCHANGED <<pipes, fd, fate, main, chan, worker, todo, thread, fault>>
<1>1. at[e] \in Fresh \cup Has(1) /\ at[e][1] = "remove"
  BY DEF Meeting, Stages, Remove, Removes, At
<1>2. PICK x \in {1, 2} : at[e] = <<"remove", x>>
  BY <1>1 DEF Fresh, Has, Passed, Halfway, Through, Closed, Ready, Gone, None
<1>3. Step(e) = x /\ SideOf(e) = e[3]
  BY <1>2 DEF Step, SideOf
<1>4. PICK y : y = IF x = 1 THEN ReadsFrom(e[3]) ELSE WritesTo(e[3])
  OBVIOUS
<1>5. y \in {1, 2} /\ <<e[2], y>> \in Names
  BY <1>4, EndParts DEF Names
<1>6. Removes(e, <<e[2], y>>)
  BY <1>3, <1>4 DEF Remove
<1>7. /\ at' = [at EXCEPT ![e] = IF x = 1 THEN <<"remove", 2>> ELSE Gone]
      /\ file' = [file EXCEPT ![<<e[2], y>>] = NoPipe]
      /\ stolen' = (\/ stolen
                    \/ /\ file[<<e[2], y>>] # NoPipe /\ e[3] = "server"
                       /\ pipes[file[<<e[2], y>>]].by > e[1])
      /\ UNCHANGED <<pipes, fd, fate, main, chan, worker, todo, thread, fault>>
  BY <1>3, <1>6 DEF Removes, Gone
<1> QED
  BY <1>2, <1>4, <1>5, <1>7 DEF Closed

(***************************************************************************)
(* A file that is removed without being stolen is of the end's own         *)
(* session or an older one, and no end that is not through needs it.       *)
(***************************************************************************)
LEMMA NotNeeded ==
  ASSUME TypeOK, Meeting, Naming, Lives, Shapes, NEW e \in Ends, at[e] \in Through,
         Running(Proc(e)), NEW y \in {1, 2}, file[<<e[2], y>>] # NoPipe,
         ~(e[3] = "server" /\ pipes[file[<<e[2], y>>]].by > e[1]),
         NEW o \in Ends, o[2] = e[2], at[o] \notin Through
  PROVE  ~Begun(C(o[1]))
<1>1. /\ e[1] \in Session /\ o[1] \in Session /\ e[3] \in {"client", "server"}
      /\ Peer(e) \in Ends /\ Proc(e) = <<e[1], e[3]>> /\ <<e[2], y>> \in Names
  BY EndParts DEF Sides, Names
<1>2. SUFFICES ASSUME Begun(C(o[1])) PROVE FALSE
  OBVIOUS
<1>3. pipes[file[<<e[2], y>>]].by = o[1]
  BY <1>1, <1>2, CurrentFiles DEF Meeting, Naming
<1>4. at[Peer(e)] \in Through
  <2>1. at[e] \in Passed(2)
    BY DEF Passed
  <2> QED
    BY <2>1 DEF Meeting, Sync, Passed
<1>5. o[1] # e[1]
  BY <1>4, TwoEnds
<1>6. Begun(C(e[1]))
  <2>1. at[e] # None
    BY DEF Through, Closed, Ready, Gone, None
  <2> QED
    BY <2>1, Unborn
<1>7. o[1] >= e[1]
  BY <1>1, <1>3, <1>6 DEF Naming, Newest
<1>8. o[1] > e[1]
  BY <1>1, <1>5, <1>7 DEF Session
<1>9. e[3] = "client"
  BY <1>1, <1>3, <1>8
<1>10. fate[C(e[1])] = "exit"
  BY <1>1, <1>2, <1>8 DEF Lives, Session
<1> QED
  BY <1>1, <1>9, <1>10 DEF C, Running

(***************************************************************************)
(* The destructor keeps Meeting and Naming unless it steals.               *)
(***************************************************************************)
LEMMA RemoveMeeting ==
  ASSUME TypeOK, Meeting, Naming, Lives, Shapes, NEW e \in Ends,
         Running(Proc(e)), Remove(e), ~stolen'
  PROVE  Meeting' /\ Naming'
<1>0. /\ Stages /\ Held /\ SidesKept /\ Sync /\ Meet /\ Found /\ Sought
      /\ at \in [Ends -> Points \X (1..2)] /\ file \in [Names -> 0..Len(pipes)]
      /\ pipes \in Seq(Pipe)
  BY DEF Meeting, TypeOK
<1>1. PICK x \in {1, 2}, y \in {1, 2} :
           /\ at[e] = <<"remove", x>> /\ at[e] \in Closed
           /\ at' = [at EXCEPT ![e] = IF x = 1 THEN <<"remove", 2>> ELSE Gone]
           /\ file' = [file EXCEPT ![<<e[2], y>>] = NoPipe]
           /\ <<e[2], y>> \in Names
           /\ y = IF x = 1 THEN ReadsFrom(e[3]) ELSE WritesTo(e[3])
           /\ stolen' = (\/ stolen
                         \/ /\ file[<<e[2], y>>] # NoPipe /\ e[3] = "server"
                            /\ pipes[file[<<e[2], y>>]].by > e[1])
           /\ UNCHANGED <<pipes, fd, fate, main, chan, worker, todo, thread, fault>>
  BY RemoveDoes
<1>2. at[e] \in Through /\ e[1] \in Session
  BY <1>1, EndParts DEF Through
<1>3. \A o \in Ends :
        /\ \A z \in {1, 2} : /\ at'[o] \in Has(z) <=> at[o] \in Has(z)
                             /\ at'[o] \in Passed(z) <=> at[o] \in Passed(z)
        /\ at'[o] \in Closed <=> at[o] \in Closed
        /\ at'[o] \in Fresh \cup Has(1)
        /\ at'[o] # at[o] => o = e /\ at'[o] \in Closed
  <2> SUFFICES ASSUME NEW o \in Ends
        PROVE  /\ \A z \in {1, 2} : /\ at'[o] \in Has(z) <=> at[o] \in Has(z)
                                    /\ at'[o] \in Passed(z) <=> at[o] \in Passed(z)
               /\ at'[o] \in Closed <=> at[o] \in Closed
               /\ at'[o] \in Fresh \cup Has(1)
               /\ at'[o] # at[o] => o = e /\ at'[o] \in Closed
    OBVIOUS
  <2>1. CASE o = e
    <3>1. at'[o] \in Closed /\ at[o] \in Closed
      BY <1>0, <1>1, <2>1 DEF Closed
    <3> QED
      BY <2>1, <3>1 DEF Has, Passed, Through
  <2>2. CASE o # e
    BY <1>0, <1>1, <2>2 DEF Stages
  <2> QED
    BY <2>1, <2>2
<1>4. \A o \in Ends : /\ Peer(o) \in Ends /\ Peer(Peer(o)) = o
                      /\ Peer(o)[1] = o[1] /\ Peer(o)[2] = o[2]
                      /\ o[2] \in Channels
  BY EndParts
<1>5. Stages' /\ Held' /\ Sync' /\ Meet'
  BY <1>0, <1>1, <1>3, <1>4 DEF Stages, Held, Sync, Meet
<1>6. SidesKept'
  <2>1. \A o \in Ends : Holding(o)' <=> Holding(o)
    BY <1>1, <1>3 DEF Holding, Running
  <2> QED
    BY <1>0, <1>1, <2>1 DEF SidesKept
<1>7. ASSUME NEW o \in Ends, NEW z \in {1, 2}, at[o] \notin Through, Begun(C(o[1])),
             file[<<o[2], z>>] # NoPipe
      PROVE  file'[<<o[2], z>>] = file[<<o[2], z>>]
  <2>1. <<o[2], z>> \in Names
    BY <1>4 DEF Names
  <2>2. CASE <<o[2], z>> = <<e[2], y>>
    <3>1. o[2] = e[2] /\ z = y
      BY <2>2
    <3>2. ~(e[3] = "server" /\ pipes[file[<<e[2], y>>]].by > e[1])
      BY <1>1, <1>7, <3>1
    <3> QED
      BY <1>2, <1>7, <3>1, <3>2, NotNeeded
  <2>3. CASE <<o[2], z>> # <<e[2], y>>
    BY <1>0, <1>1, <2>1, <2>3
  <2> QED
    BY <2>2, <2>3
<1>8. Found'
  <2> SUFFICES ASSUME NEW o \in Ends, NEW z \in {1, 2}, at'[o] \notin Has(z),
                      Running(Proc(o))', at'[Peer(o)] \in Has(z)
               PROVE  file'[<<o[2], z>>] = fd[Peer(o)][z]
    BY <1>1 DEF Found
  <2>1. at[o] \notin Has(z) /\ Running(Proc(o)) /\ at[Peer(o)] \in Has(z)
    BY <1>1, <1>3, <1>4 DEF Running
  <2>2. file[<<o[2], z>>] = fd[Peer(o)][z] /\ fd[Peer(o)][z] # NoPipe
    BY <1>0, <1>4, <2>1 DEF Found, Held
  <2>3. at[o] \notin Through
    BY <2>1 DEF Has, Passed
  <2>4. Begun(C(o[1]))
    BY <2>1, Unborn
  <2> QED
    BY <1>7, <2>2, <2>3, <2>4
<1>9. Sought'
  <2> SUFFICES ASSUME NEW o \in Ends, NEW z \in {1, 2}, at'[o] = <<"open", z>>,
                      Fine(Proc(o))', Fine(Proc(Peer(o)))'
               PROVE  file'[<<o[2], z>>] # NoPipe
    BY DEF Sought
  <2>1. at[o] = <<"open", z>>
    BY <1>3 DEF Closed, Gone
  <2>2. Fine(Proc(o)) /\ Fine(Proc(Peer(o)))
    BY <1>1 DEF Fine
  <2>3. file[<<o[2], z>>] # NoPipe
    BY <1>0, <2>1, <2>2 DEF Sought
  <2>4. at[o] \notin Through /\ at[o] # None
    BY <2>1 DEF Through, Closed, Ready, Gone, None
  <2>5. Begun(C(o[1]))
    BY <2>4, Unborn
  <2> QED
    BY <1>7, <2>3, <2>4, <2>5
<1>10. Named' /\ OwnPipes' /\ Newest'
  <2>1. \A n \in Names : file'[n] = file[n] \/ file'[n] = NoPipe
    BY <1>0, <1>1
  <2>2. /\ fd' = fd /\ pipes' = pipes
        /\ \A s \in Session : Begun(C(s))' <=> Begun(C(s))
    BY <1>1 DEF Begun
  <2> QED
    BY <2>1, <2>2, FewerNames
<1>11. Removed'
  <2> SUFFICES ASSUME NEW s \in Session, NEW k \in Channels
               PROVE  LET c == End(s, k, "client") IN
                      /\ at'[c] \in {<<"remove", 2>>, Gone} =>
                           file'[<<k, 1>>] = NoPipe \/ pipes[file'[<<k, 1>>]].by > s
                      /\ at'[c] = Gone =>
                           file'[<<k, 2>>] = NoPipe \/ pipes[file'[<<k, 2>>]].by > s
    BY <1>1 DEF Removed
  <2>1. PICK c : c = End(s, k, "client")
    OBVIOUS
  <2>2. /\ c \in Ends /\ c[2] = k /\ c[3] = "client"
        /\ <<k, 1>> \in Names /\ <<k, 2>> \in Names
    BY <2>1, EndIs DEF Names
  <2>3. /\ at[c] \in {<<"remove", 2>>, Gone} =>
             file[<<k, 1>>] = NoPipe \/ pipes[file[<<k, 1>>]].by > s
        /\ at[c] = Gone =>
             file[<<k, 2>>] = NoPipe \/ pipes[file[<<k, 2>>]].by > s
    BY <2>1 DEF Naming, Removed
  <2>4. \A n \in Names : file'[n] = file[n] \/ file'[n] = NoPipe
    BY <1>0, <1>1
  <2>5. CASE c = e
    <3>1. y = x
      BY <1>1, <2>2, <2>5 DEF ReadsFrom, WritesTo
    <3>2. file'[<<k, x>>] = NoPipe
      BY <1>0, <1>1, <2>2, <2>5, <3>1
    <3>3. at'[c] = IF x = 1 THEN <<"remove", 2>> ELSE Gone
      BY <1>0, <1>1, <2>5
    <3>4. CASE x = 1
      BY <2>1, <3>2, <3>3, <3>4 DEF Gone
    <3>5. CASE x = 2
      <4>1. at[c] = <<"remove", 2>>
        BY <1>1, <2>5, <3>5
      <4>2. file[<<k, 1>>] = NoPipe \/ pipes[file[<<k, 1>>]].by > s
        BY <2>3, <4>1
      <4>3. file'[<<k, 1>>] = file[<<k, 1>>] \/ file'[<<k, 1>>] = NoPipe
        BY <2>2, <2>4
      <4> QED
        BY <3>2, <3>5, <4>2, <4>3
    <3> QED
      BY <3>4, <3>5
  <2>6. CASE c # e
    <3>1. at'[c] = at[c]
      BY <1>0, <1>1, <2>6
    <3>2. /\ file'[<<k, 1>>] = file[<<k, 1>>] \/ file'[<<k, 1>>] = NoPipe
          /\ file'[<<k, 2>>] = file[<<k, 2>>] \/ file'[<<k, 2>>] = NoPipe
      BY <2>2, <2>4
    <3> QED
      BY <2>1, <2>3, <3>1, <3>2
  <2> QED
    BY <2>5, <2>6
<1> QED
  BY <1>5, <1>6, <1>8, <1>9, <1>10, <1>11 DEF Meeting, Naming

(***************************************************************************)
(* create_pipe: the end finds the file, or makes a new pipe.               *)
(***************************************************************************)
Made(e, x) ==
  /\ at[e] = <<"make", x>> /\ at[e] \notin Through
  /\ at' = [at EXCEPT ![e] = <<"open", x>>]
  /\ <<e[2], x>> \in Names
  /\ \/ /\ file[<<e[2], x>>] # NoPipe
        /\ UNCHANGED <<pipes, file>>
     \/ /\ file[<<e[2], x>>] = NoPipe
        /\ pipes' = Append(pipes, NewPipe(e[1]))
        /\ file' = [file EXCEPT ![<<e[2], x>>] = Len(pipes) + 1]
  /\ UNCHANGED <<fd, fate, main, chan, worker, todo, thread, history>>

(***************************************************************************)
(* Make, seen from one end: it goes on to its open(), and the name has a   *)
(* pipe, the old one or a new one.                                         *)
(***************************************************************************)
LEMMA MakeDoes ==
  ASSUME TypeOK, Meeting, NEW e \in Ends, Make(e)
  PROVE  \E x \in {1, 2} : Made(e, x)
<1>1. at[e] \in Fresh \cup Has(1) /\ at[e][1] = "make"
  BY DEF Meeting, Stages, Make, Makes, At
<1>2. PICK x \in {1, 2} : at[e] = <<"make", x>> /\ at[e] \notin Through
  BY <1>1 DEF Fresh, Has, Passed, Halfway, Through, Closed, Ready, Gone, None
<1>3. Step(e) = x /\ NameOf(e) = <<e[2], x>> /\ <<e[2], x>> \in Names
  BY <1>2, EndParts DEF Step, NameOf, PipeOf, Opens, Names
<1>4. [at EXCEPT ![e][1] = "open"] = [at EXCEPT ![e] = <<"open", x>>]
  <2>1. at \in [Ends -> Points \X (1..2)] /\ at[e] \in Points \X (1..2)
    BY DEF TypeOK
  <2>2. [at[e] EXCEPT ![1] = "open"] = <<"open", x>>
    BY <1>2, <2>1, Pairs
  <2> QED
    BY <2>2
<1>5. at' = [at EXCEPT ![e] = <<"open", x>>]
  BY <1>4 DEF Make, Makes
<1>6. \/ /\ file[<<e[2], x>>] # NoPipe
         /\ UNCHANGED <<pipes, file>>
      \/ /\ file[<<e[2], x>>] = NoPipe
         /\ pipes' = Append(pipes, NewPipe(e[1]))
         /\ file' = [file EXCEPT ![<<e[2], x>>] = Len(pipes) + 1]
  BY <1>3 DEF Make, Makes
<1>7. UNCHANGED <<fd, fate, main, chan, worker, todo, thread, history>>
  BY DEF Make, Makes
<1> QED
  BY <1>2, <1>3, <1>5, <1>6, <1>7 DEF Made

(***************************************************************************)
(* The pipes there were are still there, with a new one of the session     *)
(* behind a name that had none.                                            *)
(***************************************************************************)
PipesAfterMake(e, x) ==
  /\ pipes' \in Seq(Pipe)
  /\ Len(pipes') >= Len(pipes)
  /\ file' \in [Names -> 0..Len(pipes')]
  /\ \A i \in 1..Len(pipes) : pipes'[i] = pipes[i]
  /\ \A i \in 1..Len(pipes') :
       i \notin 1..Len(pipes) =>
         /\ pipes'[i].by = e[1] /\ pipes'[i].data = <<>>
         /\ pipes'[i].reader = {} /\ pipes'[i].writer = {}
  /\ file'[<<e[2], x>>] # NoPipe
  /\ \/ file'[<<e[2], x>>] = file[<<e[2], x>>]
     \/ /\ file[<<e[2], x>>] = NoPipe
        /\ Len(pipes') = Len(pipes) + 1
        /\ file'[<<e[2], x>>] = Len(pipes) + 1
  /\ \A n \in Names : n # <<e[2], x>> => file'[n] = file[n]

(***************************************************************************)
(* Made gives the pipes that PipesAfterMake describes.                     *)
(***************************************************************************)
LEMMA MakePipes ==
  ASSUME TypeOK, NEW e \in Ends, NEW x \in {1, 2}, Made(e, x)
  PROVE  PipesAfterMake(e, x)
<1>1. pipes \in Seq(Pipe) /\ file \in [Names -> 0..Len(pipes)] /\ Len(pipes) \in Nat
  BY DEF TypeOK
<1>2. /\ NewPipe(e[1]).by = e[1] /\ NewPipe(e[1]).data = <<>>
      /\ NewPipe(e[1]).reader = {} /\ NewPipe(e[1]).writer = {}
  BY DEF NewPipe
<1>3. NewPipe(e[1]) \in Pipe
  BY EndParts DEF NewPipe, Pipe
<1>4. PICK v \in Pipe : v = NewPipe(e[1])
  BY <1>3
<1>5. CASE file[<<e[2], x>>] # NoPipe
  BY <1>1, <1>2, <1>5 DEF Made, PipesAfterMake
<1>6. CASE file[<<e[2], x>>] = NoPipe
  <2>1. /\ pipes' = Append(pipes, v)
        /\ file' = [file EXCEPT ![<<e[2], x>>] = Len(pipes) + 1]
        /\ <<e[2], x>> \in Names
    BY <1>4, <1>6 DEF Made
  <2>2. /\ pipes' \in Seq(Pipe) /\ Len(pipes') = Len(pipes) + 1
        /\ \A i \in 1..Len(pipes) : pipes'[i] = pipes[i]
        /\ pipes'[Len(pipes) + 1] = v
    BY <1>1, <2>1
  <2>3. \A i \in 1..Len(pipes') : i \notin 1..Len(pipes) => pipes'[i] = v
    BY <1>1, <2>2
  <2>4. PICK l \in Nat : l = Len(pipes)
    BY <1>1
  <2>5. /\ file' \in [Names -> 0..l + 1]
        /\ file'[<<e[2], x>>] = l + 1
        /\ \A n \in Names : n # <<e[2], x>> => file'[n] = file[n]
    BY <1>1, <2>1, <2>4
  <2> QED
    BY <1>2, <1>4, <1>6, <2>2, <2>3, <2>4, <2>5 DEF NoPipe, PipesAfterMake
<1> QED
  BY <1>5, <1>6

(***************************************************************************)
(* create_pipe keeps Meeting.                                              *)
(***************************************************************************)
LEMMA MakeMeeting ==
  ASSUME TypeOK, Meeting, Naming, NEW e \in Ends, NEW x \in {1, 2}, Made(e, x)
  PROVE  Meeting'
<1>0. /\ Stages /\ Held /\ SidesKept /\ Sync /\ Meet /\ Found /\ Sought
      /\ at \in [Ends -> Points \X (1..2)]
      /\ fd \in [Ends -> [1..2 -> 0..Len(pipes)]] /\ Len(pipes) \in Nat
  BY DEF Meeting, TypeOK
<1>1. /\ at[e] = <<"make", x>> /\ at' = [at EXCEPT ![e] = <<"open", x>>]
      /\ fd' = fd /\ fate' = fate
  BY DEF Made
<1>2. /\ Len(pipes') >= Len(pipes) /\ Len(pipes') \in Nat
      /\ \A i \in 1..Len(pipes) : pipes'[i] = pipes[i]
      /\ \A i \in 1..Len(pipes') :
           i \notin 1..Len(pipes) => pipes'[i].reader = {} /\ pipes'[i].writer = {}
      /\ \A n \in Names : n # <<e[2], x>> => file'[n] = file[n]
      /\ \A n \in Names : file[n] # NoPipe => file'[n] = file[n]
      /\ file'[<<e[2], x>>] # NoPipe
  <2>1. PipesAfterMake(e, x)
    BY MakePipes
  <2> QED
    <3>1. /\ pipes' \in Seq(Pipe) /\ Len(pipes') >= Len(pipes)
          /\ \A k \in 1..Len(pipes) : pipes'[k] = pipes[k]
          /\ \A k \in 1..Len(pipes') :
               k \notin 1..Len(pipes) => pipes'[k].reader = {} /\ pipes'[k].writer = {}
      BY <2>1 DEF PipesAfterMake
    <3>2. /\ \A n \in Names : n # <<e[2], x>> => file'[n] = file[n]
          /\ file'[<<e[2], x>>] # NoPipe
          /\ \/ file'[<<e[2], x>>] = file[<<e[2], x>>]
             \/ file[<<e[2], x>>] = NoPipe
      BY <2>1 DEF PipesAfterMake
    <3>3. \A n \in Names : file[n] # NoPipe => file'[n] = file[n]
      BY <3>2
    <3>4. Len(pipes') \in Nat
      BY <3>1
    <3> QED
      BY <3>1, <3>2, <3>3, <3>4
<1>3. \A o \in Ends :
        /\ \A y \in {1, 2} : /\ at'[o] \in Has(y) <=> at[o] \in Has(y)
                             /\ at'[o] \in Passed(y) <=> at[o] \in Passed(y)
        /\ at'[o] \in Closed <=> at[o] \in Closed
        /\ at'[o] \in Fresh \cup Has(1)
  <2> SUFFICES ASSUME NEW o \in Ends
               PROVE  /\ \A y \in {1, 2} :
                           /\ at'[o] \in Has(y) <=> at[o] \in Has(y)
                           /\ at'[o] \in Passed(y) <=> at[o] \in Passed(y)
                      /\ at'[o] \in Closed <=> at[o] \in Closed
                      /\ at'[o] \in Fresh \cup Has(1)
    OBVIOUS
  <2>1. CASE o = e
    <3>1. at[o] = <<"make", x>> /\ at'[o] = <<"open", x>>
      BY <1>0, <1>1, <2>1
    <3>2. CASE x = 1
      BY <3>1, <3>2
         DEF Has, Passed, Halfway, Through, Closed, Ready, Gone, Fresh, None
    <3>3. CASE x = 2
      BY <3>1, <3>3
         DEF Has, Passed, Halfway, Through, Closed, Ready, Gone, Fresh, None
    <3> QED
      BY <3>2, <3>3
  <2>2. CASE o # e
    BY <1>0, <1>1, <2>2 DEF Stages
  <2> QED
    BY <2>1, <2>2
<1>4. \A o \in Ends : Peer(o) \in Ends /\ Peer(o)[2] = o[2] /\ o[2] \in Channels
  BY EndParts
<1>5. Stages' /\ Held' /\ Sync' /\ Meet'
  BY <1>0, <1>1, <1>3, <1>4 DEF Stages, Held, Sync, Meet
<1>6. SidesKept'
  <2>1. \A o \in Ends : Holding(o)' <=> Holding(o)
    BY <1>1, <1>3 DEF Holding, Running
  <2>2. SUFFICES ASSUME NEW j \in 1..Len(pipes')
                 PROVE  /\ pipes'[j].reader =
                             {o \in Ends : Holding(o) /\ fd[o][ReadsFrom(o[3])] = j}
                        /\ pipes'[j].writer =
                             {o \in Ends : Holding(o) /\ fd[o][WritesTo(o[3])] = j}
    BY <1>1, <2>1 DEF SidesKept
  <2>3. CASE j \in 1..Len(pipes)
    BY <1>0, <1>2, <2>3 DEF SidesKept
  <2>4. CASE j \notin 1..Len(pipes)
    <3>1. \A o \in Ends : WritesTo(o[3]) \in 1..2 /\ ReadsFrom(o[3]) \in 1..2
      BY EndParts
    <3>2. \A o \in Ends, y \in 1..2 : fd[o][y] # j
      BY <1>0, <2>4
    <3> QED
      BY <1>2, <2>4, <3>1, <3>2
  <2> QED
    BY <2>3, <2>4
<1>7. Found'
  <2> SUFFICES ASSUME NEW o \in Ends, NEW z \in {1, 2}, at'[o] \notin Has(z),
                      Running(Proc(o))', at'[Peer(o)] \in Has(z)
               PROVE  file'[<<o[2], z>>] = fd[Peer(o)][z]
    BY <1>1 DEF Found
  <2>1. at[o] \notin Has(z) /\ Running(Proc(o)) /\ at[Peer(o)] \in Has(z)
    BY <1>1, <1>3, <1>4 DEF Running
  <2>2. file[<<o[2], z>>] = fd[Peer(o)][z] /\ fd[Peer(o)][z] # NoPipe
    BY <1>0, <1>4, <2>1 DEF Found, Held
  <2>3. <<o[2], z>> \in Names
    BY <1>4 DEF Names
  <2> QED
    BY <1>2, <2>2, <2>3
<1>8. Sought'
  <2> SUFFICES ASSUME NEW o \in Ends, NEW z \in {1, 2}, at'[o] = <<"open", z>>,
                      Fine(Proc(o))', Fine(Proc(Peer(o)))'
               PROVE  file'[<<o[2], z>>] # NoPipe
    BY DEF Sought
  <2>1. Fine(Proc(o)) /\ Fine(Proc(Peer(o)))
    BY <1>1 DEF Fine
  <2>2. <<o[2], z>> \in Names
    BY <1>4 DEF Names
  <2>3. CASE o = e
    <3>1. z = x
      BY <1>0, <1>1, <2>3
    <3> QED
      BY <1>2, <2>3, <3>1
  <2>4. CASE o # e
    <3>1. at[o] = <<"open", z>>
      BY <1>0, <1>1, <2>4
    <3> QED
      BY <1>0, <1>2, <2>1, <2>2, <3>1 DEF Sought
  <2> QED
    BY <2>3, <2>4
<1> QED
  BY <1>5, <1>6, <1>7, <1>8 DEF Meeting

(***************************************************************************)
(* create_pipe keeps Naming.                                               *)
(***************************************************************************)
LEMMA MakeNaming ==
  ASSUME TypeOK, Meeting, Naming, Lives, Shapes, NEW e \in Ends, NEW x \in {1, 2},
         Made(e, x)
  PROVE  Naming'
<1>0. /\ Named /\ OwnPipes /\ Newest /\ Removed
      /\ at \in [Ends -> Points \X (1..2)] /\ file \in [Names -> 0..Len(pipes)]
      /\ fd \in [Ends -> [1..2 -> 0..Len(pipes)]] /\ Len(pipes) \in Nat
      /\ pipes \in Seq(Pipe)
  BY DEF Naming, TypeOK
<1>1. /\ at[e] = <<"make", x>> /\ at' = [at EXCEPT ![e] = <<"open", x>>]
      /\ fd' = fd /\ fate' = fate /\ at[e] \notin Through /\ <<e[2], x>> \in Names
  BY DEF Made
<1>2. /\ Len(pipes') >= Len(pipes) /\ Len(pipes') \in Nat
      /\ \A i \in 1..Len(pipes) : pipes'[i] = pipes[i]
      /\ \A i \in 1..Len(pipes') :
           i \notin 1..Len(pipes) => pipes'[i].by = e[1]
      /\ \A n \in Names : n # <<e[2], x>> => file'[n] = file[n]
      /\ \/ file'[<<e[2], x>>] = file[<<e[2], x>>]
         \/ /\ file[<<e[2], x>>] = NoPipe
            /\ Len(pipes') = Len(pipes) + 1
            /\ file'[<<e[2], x>>] = Len(pipes) + 1
      /\ file' \in [Names -> 0..Len(pipes')]
  <2>1. PipesAfterMake(e, x)
    BY MakePipes
  <2> QED
    BY <1>0, <2>1 DEF PipesAfterMake
<1>3. \A n \in Names : file'[n] # NoPipe =>
        \/ /\ file'[n] = file[n] /\ file[n] # NoPipe
           /\ pipes'[file'[n]].by = pipes[file[n]].by
        \/ /\ n = <<e[2], x>> /\ file'[n] = Len(pipes) + 1
           /\ file'[n] \in 1..Len(pipes')
           /\ pipes'[file'[n]].by = e[1]
  <2> SUFFICES ASSUME NEW n \in Names, file'[n] # NoPipe
               PROVE  \/ /\ file'[n] = file[n] /\ file[n] # NoPipe
                         /\ pipes'[file'[n]].by = pipes[file[n]].by
                      \/ /\ n = <<e[2], x>> /\ file'[n] = Len(pipes) + 1
                         /\ file'[n] \in 1..Len(pipes')
                         /\ pipes'[file'[n]].by = e[1]
    OBVIOUS
  <2>1. CASE file'[n] = file[n]
    <3>1. file[n] \in 1..Len(pipes)
      BY <1>0, <2>1 DEF NoPipe
    <3> QED
      BY <1>2, <2>1, <3>1
  <2>2. CASE file'[n] # file[n]
    <3>1. n = <<e[2], x>> /\ file'[n] = Len(pipes) + 1 /\ Len(pipes') = Len(pipes) + 1
      BY <1>2, <2>2
    <3>2. file'[n] \in 1..Len(pipes') /\ file'[n] \notin 1..Len(pipes)
      BY <1>0, <1>2, <3>1
    <3> QED
      BY <1>2, <3>1, <3>2
  <2> QED
    BY <2>1, <2>2
<1>4. Named'
  <2>1. PICK name \in [1..Len(pipes) -> Names] :
          /\ \A n \in Names : file[n] # NoPipe => name[file[n]] = n
          /\ \A f \in Ends, z \in {1, 2} :
               fd[f][z] # NoPipe => name[fd[f][z]] = <<f[2], z>>
    BY <1>0 DEF Named
  <2>2. PICK new : new = [i \in 1..Len(pipes') |->
                            IF i \in 1..Len(pipes) THEN name[i] ELSE <<e[2], x>>]
    OBVIOUS
  <2>3. new \in [1..Len(pipes') -> Names]
    BY <1>1, <2>1, <2>2
  <2>4. \A i \in 1..Len(pipes) : new[i] = name[i]
    BY <1>0, <1>2, <2>2
  <2>5. \A n \in Names : file'[n] # NoPipe => new[file'[n]] = n
    <3> SUFFICES ASSUME NEW n \in Names, file'[n] # NoPipe
                 PROVE  new[file'[n]] = n
      OBVIOUS
    <3>1. CASE file'[n] = file[n] /\ file[n] # NoPipe
      <4>1. file[n] \in 1..Len(pipes)
        BY <1>0, <3>1 DEF NoPipe
      <4> QED
        BY <2>1, <2>4, <3>1, <4>1
    <3>2. CASE n = <<e[2], x>> /\ file'[n] = Len(pipes) + 1 /\ file'[n] \in 1..Len(pipes')
      <4>1. file'[n] \notin 1..Len(pipes)
        BY <1>0, <3>2
      <4> QED
        BY <2>2, <3>2, <4>1
    <3> QED
      BY <1>3, <3>1, <3>2
  <2>6. \A f \in Ends, z \in {1, 2} :
          fd[f][z] # NoPipe => new[fd[f][z]] = <<f[2], z>>
    BY <1>0, <2>1, <2>4 DEF NoPipe
  <2> QED
    BY <1>1, <2>3, <2>5, <2>6 DEF Named
<1>5. OwnPipes'
  <2>1. \A o \in Ends, y \in {1, 2} :
          fd[o][y] # NoPipe => fd[o][y] \in 1..Len(pipes)
    BY <1>0 DEF NoPipe
  <2> QED
    BY <1>0, <1>1, <1>2, <2>1 DEF OwnPipes
<1>6. e[1] \in Session /\ Begun(C(e[1]))
  <2>1. at[e] # None
    BY <1>1 DEF None
  <2> QED
    BY <2>1, EndParts, Unborn
<1>7. \A t \in Session : t > e[1] => ~Begun(C(t))
  BY <1>1, LastSession DEF Meeting
<1>8. Newest'
  <2>1. \A s : Begun(C(s))' <=> Begun(C(s))
    BY <1>1 DEF Begun
  <2>2. \A s \in Session : Begun(C(s)) => e[1] >= s
    BY <1>6, <1>7 DEF Session
  <2> SUFFICES ASSUME NEW n \in Names, file'[n] # NoPipe
               PROVE  /\ \A s \in Session : Begun(C(s)) => pipes'[file'[n]].by >= s
                      /\ pipes'[file'[n]].by = 1 \/ Begun(C(pipes'[file'[n]].by))
    BY <2>1 DEF Newest
  <2> QED
    BY <1>0, <1>3, <1>6, <2>2 DEF Newest
<1>9. Removed'
  <2> SUFFICES ASSUME NEW s \in Session, NEW k \in Channels
               PROVE  LET c == End(s, k, "client") IN
                      /\ at'[c] \in {<<"remove", 2>>, Gone} =>
                           file'[<<k, 1>>] = NoPipe \/ pipes'[file'[<<k, 1>>]].by > s
                      /\ at'[c] = Gone =>
                           file'[<<k, 2>>] = NoPipe \/ pipes'[file'[<<k, 2>>]].by > s
    BY DEF Removed
  <2>1. PICK c : c = End(s, k, "client")
    OBVIOUS
  <2>2. /\ c \in Ends /\ c[1] = s /\ c[2] = k /\ c[3] = "client"
        /\ <<k, 1>> \in Names /\ <<k, 2>> \in Names
    BY <2>1, EndIs DEF Names
  <2>3. at'[c] \in {<<"remove", 2>>, Gone} => at'[c] = at[c]
    BY <1>0, <1>1, <2>2 DEF Gone
  <2>4. /\ at[c] \in {<<"remove", 2>>, Gone} =>
             file[<<k, 1>>] = NoPipe \/ pipes[file[<<k, 1>>]].by > s
        /\ at[c] = Gone =>
             file[<<k, 2>>] = NoPipe \/ pipes[file[<<k, 2>>]].by > s
    BY <1>0, <2>1 DEF Removed
  <2>5. at[c] \in {<<"remove", 2>>, Gone} /\ e[2] = k => e[1] > s
    <3> SUFFICES ASSUME at[c] \in {<<"remove", 2>>, Gone}, e[2] = k
                 PROVE  e[1] > s
      OBVIOUS
    <3>1. at[c] \in Through /\ at[c] # None
      BY DEF Through, Closed, Ready, Gone, None
    <3>2. at[Peer(c)] \in Through
      <4>1. at[c] \in Passed(2)
        BY <3>1 DEF Passed
      <4> QED
        BY <2>2, <4>1 DEF Meeting, Sync, Passed
    <3>3. e # c /\ e # Peer(c)
      BY <1>1, <3>1, <3>2
    <3>4. e[1] # s
      BY <2>2, <3>3, TwoEnds
    <3>5. Begun(C(s))
      BY <2>2, <3>1, Unborn
    <3> QED
      BY <1>6, <1>7, <3>4, <3>5 DEF Session
  <2>6. ASSUME NEW y \in {1, 2}, at[c] \in {<<"remove", 2>>, Gone},
               file[<<k, y>>] = NoPipe \/ pipes[file[<<k, y>>]].by > s
        PROVE  file'[<<k, y>>] = NoPipe \/ pipes'[file'[<<k, y>>]].by > s
    <3>1. <<k, y>> \in Names
      BY <2>2
    <3>2. <<k, y>> = <<e[2], x>> => e[2] = k
      OBVIOUS
    <3> QED
      BY <1>3, <2>5, <2>6, <3>1, <3>2
  <2> QED
    BY <2>1, <2>3, <2>4, <2>6
<1> QED
  BY <1>4, <1>5, <1>8, <1>9 DEF Naming

-----------------------------------------------------------------------------
(* Who lives, and the shape of the sessions.                               *)

(***************************************************************************)
(* No process ends or begins, and what runs moves on.                      *)
(***************************************************************************)
LEMMA LivesMoves ==
  ASSUME TypeOK, Lives, fate' = fate, fault' = fault \/ fault = "none",
         \A p \in Session \X Sides :
           main'[p] = main[p] \/ (Running(p) /\ main'[p] # "none"),
         \A o \in Ends : at'[o] = at[o] \/ at[o] # Gone
  PROVE  Lives'
<1>1. \A p : Begun(p)' <=> Begun(p)
  BY DEF Begun
<1>2. ASSUME NEW p \in Session \X Sides
      PROVE  /\ Begun(p) <=> main'[p] # "none"
             /\ fate[p] = "exit" => main'[p] = "leave" /\ at'[ControlOf(p)] = Gone
             /\ fate[p] \in {"rmv", "killed"} =>
                  p[1] = Sessions /\ fault' \in {"killed", "no_worker"}
  <2>1. ControlOf(p) \in Ends
    BY FifoAssumption DEF ControlOf, End, Ends, Channels, Control
  <2>2. Running(p) => Begun(p) /\ fate[p] = "running"
    BY DEF Running, Begun
  <2>3. /\ Begun(p) <=> main[p] # "none"
        /\ fate[p] = "exit" => main[p] = "leave" /\ at[ControlOf(p)] = Gone
        /\ fate[p] \in {"rmv", "killed"} =>
             p[1] = Sessions /\ fault \in {"killed", "no_worker"}
    BY DEF Lives
  <2> QED
    BY <2>1, <2>2, <2>3
<1>3. /\ \A s \in Session : Begun(C(s)) <=> Begun(S(s))
      /\ \A s, t \in Session : s < t /\ Begun(C(t)) => fate[C(s)] = "exit"
  BY DEF Lives
<1> QED
  BY <1>1, <1>2, <1>3 DEF Lives

(***************************************************************************)
(* A process ends: for good when its main thread is through, in the last   *)
(* session because of a fault.                                             *)
(***************************************************************************)
LEMMA LivesDies ==
  ASSUME TypeOK, Lives, NEW p \in Session \X Sides, Running(p),
         NEW f \in {"exit", "rmv", "killed"}, Dies(p, f),
         fault' = fault \/ fault = "none",
         f = "exit" => main[p] = "leave" /\ at[ControlOf(p)] = Gone,
         f # "exit" => p[1] = Sessions /\ fault' \in {"killed", "no_worker"}
  PROVE  Lives'
<1>1. /\ fate' = [fate EXCEPT ![p] = f] /\ main' = main /\ at' = at
      /\ fate \in [Session \X Sides ->
                     {"unborn", "running", "exit", "rmv", "killed"}]
  BY DEF Dies, TypeOK
<1>2. \A q \in Session \X Sides :
        /\ fate'[q] = IF q = p THEN f ELSE fate[q]
        /\ Begun(q)' <=> Begun(q)
  BY <1>1 DEF Begun, Running
<1>3. \A q \in Session \X Sides :
           /\ Begun(q) <=> main[q] # "none"
           /\ fate[q] = "exit" => main[q] = "leave" /\ at[ControlOf(q)] = Gone
           /\ fate[q] \in {"rmv", "killed"} =>
                q[1] = Sessions /\ fault \in {"killed", "no_worker"}
  BY DEF Lives
<1>4. \A s \in Session : C(s) \in Session \X Sides /\ S(s) \in Session \X Sides
  BY DEF C, S, Sides
<1>5. \A s \in Session : Begun(C(s))' <=> Begun(S(s))'
  BY <1>2, <1>4 DEF Lives
<1>6. ASSUME NEW s \in Session, NEW t \in Session, s < t, Begun(C(t))'
      PROVE  fate'[C(s)] = "exit"
  <2>1. fate[C(s)] = "exit"
    BY <1>2, <1>4, <1>6 DEF Lives
  <2> QED
    BY <1>2, <1>4, <2>1 DEF Running
<1>7. ASSUME NEW q \in Session \X Sides
      PROVE  /\ Begun(q)' <=> main'[q] # "none"
             /\ fate'[q] = "exit" => main'[q] = "leave" /\ at'[ControlOf(q)] = Gone
             /\ fate'[q] \in {"rmv", "killed"} =>
                  q[1] = Sessions /\ fault' \in {"killed", "no_worker"}
  <2>1. CASE q = p
    BY <1>1, <1>2, <1>3, <2>1
  <2>2. CASE q # p
    BY <1>1, <1>2, <1>3, <2>2
  <2> QED
    BY <2>1, <2>2
<1> QED
  BY <1>5, <1>6, <1>7 DEF Lives

(***************************************************************************)
(* The channel and the point of the main threads of a session.             *)
(***************************************************************************)
LEMMA SessionTypes ==
  ASSUME TypeOK, NEW s \in Session
  PROVE  /\ C(s) \in Session \X Sides /\ S(s) \in Session \X Sides
         /\ chan[C(s)] \in Channels /\ chan[S(s)] \in Channels
         /\ main[C(s)] \in {"none", "open", "next", "reply", "join", "delete",
                            "quit", "leave"}
         /\ main[S(s)] \in {"none", "open", "next", "reply", "join", "delete",
                            "quit", "leave"}
         /\ W \in Nat /\ Control \in Channels
         /\ \A j \in Workers : j \in Channels /\ j # Control
<1>1. C(s) \in Session \X Sides /\ S(s) \in Session \X Sides
  BY DEF C, S, Sides
<1>2. /\ chan \in [Session \X Sides -> Channels]
      /\ main \in [Session \X Sides -> {"none", "open", "next", "reply", "join",
                                        "delete", "quit", "leave"}]
  BY DEF TypeOK
<1>3. /\ W \in Nat /\ Control \in Channels
      /\ \A j \in Workers : j \in Channels /\ j # Control
  BY FifoAssumption DEF Control, Channels, Workers
<1> QED
  BY <1>1, <1>2, <1>3

(***************************************************************************)
(* What does not touch a side of a session keeps its shape.                *)
(***************************************************************************)
LEMMA ClientShapeKept ==
  ASSUME NEW t \in Session, ClientShape(t),
         main'[C(t)] = main[C(t)], chan'[C(t)] = chan[C(t)], chan[C(t)] \in Channels,
         \A j \in Channels : at'[End(t, j, "client")] = at[End(t, j, "client")]
  PROVE  ClientShape(t)'
<1>1. Control \in Channels /\ \A j \in Workers : j \in Channels
  BY FifoAssumption DEF Control, Channels, Workers
<1> QED
  BY <1>1 DEF ClientShape

(***************************************************************************)
(* The same for the server's ends of a session.                            *)
(***************************************************************************)
LEMMA ServerShapeKept ==
  ASSUME NEW t \in Session, ServerShape(t),
         main'[S(t)] = main[S(t)], chan'[S(t)] = chan[S(t)], chan[S(t)] \in Channels,
         \A j \in Channels : at'[End(t, j, "server")] = at[End(t, j, "server")]
  PROVE  ServerShape(t)'
<1>1. Control \in Channels /\ \A j \in Workers : j \in Channels
  BY FifoAssumption DEF Control, Channels, Workers
<1> QED
  BY <1>1 DEF ServerShape

(***************************************************************************)
(* The same for workers and threads; their ends may go from one place that *)
(* is through to another.                                                  *)
(***************************************************************************)
LEMMA WorkerShapeKept ==
  ASSUME NEW t \in Session, WorkerShape(t),
         main'[C(t)] = main[C(t)], chan'[C(t)] = chan[C(t)],
         main'[S(t)] = main[S(t)], chan'[S(t)] = chan[S(t)],
         \A j \in Workers : /\ worker'[<<t, j>>] = worker[<<t, j>>]
                            /\ thread'[<<t, j>>] = thread[<<t, j>>],
         \A j \in Workers :
           /\ at[End(t, j, "client")] \in Through => at'[End(t, j, "client")] \in Through
           /\ at[End(t, j, "server")] \in Through => at'[End(t, j, "server")] \in Through
  PROVE  WorkerShape(t)'
BY DEF WorkerShape

(***************************************************************************)
(* An end that is in its constructor is the one its main thread makes.     *)
(***************************************************************************)
LEMMA InConstructor ==
  ASSUME TypeOK, Shapes, NEW e \in Ends, at[e] # None, at[e] \notin Through
  PROVE  main[Proc(e)] = "open" /\ chan[Proc(e)] = e[2]
<1>1. /\ e[1] \in Session /\ e[2] \in Channels /\ e[3] \in {"client", "server"}
      /\ e = End(e[1], e[2], e[3]) /\ Proc(e) = <<e[1], e[3]>>
  BY EndParts DEF Sides
<1>2. PICK s \in Session, k \in Channels : s = e[1] /\ k = e[2]
  BY <1>1
<1>3. /\ chan[C(s)] \in 0..W /\ chan[S(s)] \in 0..W /\ k \in 0..W /\ W \in Nat
  BY <1>2, SessionTypes DEF Channels
<1>4. Ready \in Through /\ Gone \in Through
  BY DEF Through, Closed
<1>5. k # Control => k \in Workers
  BY <1>3 DEF Control, Workers
<1>6. CASE e[3] = "client"
  <2>1. at[End(s, k, "client")] # None /\ at[End(s, k, "client")] \notin Through
    BY <1>1, <1>2, <1>6
  <2>2. main[C(s)] \in {"none", "open", "next", "reply", "join", "delete", "quit", "leave"}
    BY SessionTypes
  <2>3. ClientShape(s)
    BY DEF Shapes
  <2>4. main[C(s)] = "open"
    <3>1. CASE main[C(s)] \in {"none", "join"}
      BY <1>4, <2>1, <2>3, <3>1 DEF ClientShape
    <3>2. CASE main[C(s)] \in {"next", "reply"}
      BY <1>3, <1>4, <2>1, <2>3, <3>2 DEF ClientShape
    <3>3. CASE main[C(s)] = "delete"
      BY <1>3, <1>4, <1>5, <2>1, <2>3, <3>3 DEF ClientShape, Workers
    <3>4. CASE main[C(s)] \in {"quit", "leave"}
      BY <1>4, <1>5, <2>1, <2>3, <3>4 DEF ClientShape
    <3> QED
      BY <2>2, <3>1, <3>2, <3>3, <3>4
  <2>5. chan[C(s)] = k
    BY <1>3, <1>4, <2>1, <2>3, <2>4 DEF ClientShape
  <2> QED
    BY <1>1, <1>2, <1>6, <2>4, <2>5 DEF C
<1>7. CASE e[3] = "server"
  <2>1. at[End(s, k, "server")] # None /\ at[End(s, k, "server")] \notin Through
    BY <1>1, <1>2, <1>7
  <2>2. main[S(s)] \in {"none", "open", "next", "reply", "join", "delete", "quit", "leave"}
    BY SessionTypes
  <2>3. ServerShape(s)
    BY DEF Shapes
  <2>4. main[S(s)] = "open"
    <3>1. CASE main[S(s)] = "none"
      BY <1>4, <2>1, <2>3, <3>1 DEF ServerShape
    <3>2. CASE main[S(s)] \in {"next", "reply"}
      BY <1>3, <1>4, <2>1, <2>3, <3>2 DEF ServerShape
    <3>3. CASE main[S(s)] = "leave"
      BY <1>3, <1>4, <1>5, <2>1, <2>3, <3>3 DEF ServerShape, Workers
    <3> QED
      BY <2>2, <2>3, <3>1, <3>2, <3>3 DEF ServerShape
  <2>5. chan[S(s)] = k
    BY <1>3, <1>4, <2>1, <2>3, <2>4 DEF ServerShape
  <2> QED
    BY <1>1, <1>2, <1>7, <2>4, <2>5 DEF S
<1> QED
  BY <1>1, <1>6, <1>7

(***************************************************************************)
(* The steps of a constructor keep the shapes.                             *)
(***************************************************************************)
LEMMA ConstructShapes ==
  ASSUME TypeOK, Shapes, UNCHANGED <<main, chan, worker, thread>>,
         \A o \in Ends : \/ at'[o] = at[o]
                         \/ /\ at[o] # None /\ at[o] \notin Through
                            /\ at'[o] # None /\ at'[o] \notin Closed
  PROVE  Shapes'
<1> SUFFICES ASSUME NEW s \in Session
             PROVE  ClientShape(s)' /\ ServerShape(s)' /\ WorkerShape(s)'
  BY DEF Shapes
<1>1. ClientShape(s) /\ ServerShape(s) /\ WorkerShape(s)
  BY DEF Shapes
<1>2. /\ chan[C(s)] \in Channels /\ chan[S(s)] \in Channels
      /\ \A j \in Channels : /\ End(s, j, "client") \in Ends
                             /\ End(s, j, "server") \in Ends
                             /\ Proc(End(s, j, "client")) = C(s)
                             /\ Proc(End(s, j, "server")) = S(s)
                             /\ End(s, j, "client")[2] = j
                             /\ End(s, j, "server")[2] = j
  BY EndIs, SessionTypes
<1>3. \A j \in Workers : j \in Channels
  BY DEF Workers, Channels
<1>4. \A j \in Channels :
        /\ \/ at'[End(s, j, "client")] = at[End(s, j, "client")]
           \/ main[C(s)] = "open" /\ chan[C(s)] = j
        /\ \/ at'[End(s, j, "server")] = at[End(s, j, "server")]
           \/ main[S(s)] = "open" /\ chan[S(s)] = j
  BY <1>2, InConstructor
<1>5. ClientShape(s)'
  <2>1. CASE main[C(s)] = "open"
    <3>1. PICK k \in Channels : k = chan[C(s)]
      BY <1>2
    <3>2. /\ \A j \in Channels : j < k => at[End(s, j, "client")] = Ready
          /\ \A j \in Channels : j > k => at[End(s, j, "client")] = None
          /\ at[End(s, k, "client")] # None /\ at[End(s, k, "client")] \notin Closed
      BY <1>1, <2>1, <3>1 DEF ClientShape
    <3>3. /\ \A j \in Channels : j < k => at'[End(s, j, "client")] = Ready
          /\ \A j \in Channels : j > k => at'[End(s, j, "client")] = None
      BY <1>4, <3>1, <3>2 DEF Channels
    <3>4. at'[End(s, k, "client")] # None /\ at'[End(s, k, "client")] \notin Closed
      BY <1>2, <3>2
    <3> QED
      BY <2>1, <3>1, <3>3, <3>4 DEF ClientShape
  <2>2. CASE main[C(s)] # "open"
    <3>1. \A j \in Channels : at'[End(s, j, "client")] = at[End(s, j, "client")]
      BY <1>4, <2>2
    <3> QED
      BY <1>1, <1>2, <3>1, ClientShapeKept
  <2> QED
    BY <2>1, <2>2
<1>6. ServerShape(s)'
  <2>1. CASE main[S(s)] = "open"
    <3>1. PICK k \in Channels : k = chan[S(s)]
      BY <1>2
    <3>2. /\ \A j \in Channels : j < k => at[End(s, j, "server")] = Ready
          /\ \A j \in Channels : j > k => at[End(s, j, "server")] = None
          /\ at[End(s, k, "server")] # None /\ at[End(s, k, "server")] \notin Closed
      BY <1>1, <2>1, <3>1 DEF ServerShape
    <3>3. /\ \A j \in Channels : j < k => at'[End(s, j, "server")] = Ready
          /\ \A j \in Channels : j > k => at'[End(s, j, "server")] = None
      BY <1>4, <3>1, <3>2 DEF Channels
    <3>4. at'[End(s, k, "server")] # None /\ at'[End(s, k, "server")] \notin Closed
      BY <1>2, <3>2
    <3> QED
      BY <2>1, <3>1, <3>3, <3>4 DEF ServerShape
  <2>2. CASE main[S(s)] # "open"
    <3>1. \A j \in Channels : at'[End(s, j, "server")] = at[End(s, j, "server")]
      BY <1>4, <2>2
    <3> QED
      BY <1>1, <1>2, <3>1, ServerShapeKept
  <2> QED
    BY <2>1, <2>2
<1>7. WorkerShape(s)'
  <2>1. \A j \in Workers :
          /\ at[End(s, j, "client")] \in Through => at'[End(s, j, "client")] \in Through
          /\ at[End(s, j, "server")] \in Through => at'[End(s, j, "server")] \in Through
    BY <1>2, <1>3
  <2> QED
    BY <1>1, <2>1, WorkerShapeKept
<1> QED
  BY <1>5, <1>6, <1>7

(***************************************************************************)
(* Which end a destructor may be at.                                       *)
(***************************************************************************)
Destroyed(e) ==
  \/ main[Proc(e)] = "leave" /\ e[2] = Control
  \/ main[Proc(e)] = "delete" /\ e[3] = "client" /\ e[2] = chan[Proc(e)]

(***************************************************************************)
(* The steps of a destructor keep the shapes.                              *)
(***************************************************************************)
LEMMA DestructShapes ==
  ASSUME TypeOK, Shapes, UNCHANGED <<main, chan, worker, thread>>,
         NEW e \in Ends, Destroyed(e), at[e] \in Through,
         NEW v \in Through, at' = [at EXCEPT ![e] = v]
  PROVE  Shapes'
<1> SUFFICES ASSUME NEW s \in Session
             PROVE  ClientShape(s)' /\ ServerShape(s)' /\ WorkerShape(s)'
  BY DEF Shapes
<1>1. ClientShape(s) /\ ServerShape(s) /\ WorkerShape(s)
  BY DEF Shapes
<1>2. /\ chan[C(s)] \in Channels /\ chan[S(s)] \in Channels
      /\ \A j \in Channels : /\ End(s, j, "client") \in Ends
                             /\ End(s, j, "server") \in Ends
                             /\ Proc(End(s, j, "client")) = C(s)
                             /\ Proc(End(s, j, "server")) = S(s)
                             /\ End(s, j, "client")[2] = j
                             /\ End(s, j, "server")[2] = j
                             /\ End(s, j, "client")[3] = "client"
                             /\ End(s, j, "server")[3] = "server"
  BY EndIs, SessionTypes
<1>3. /\ at \in [Ends -> Points \X (1..2)]
      /\ \A o \in Ends : at'[o] = IF o = e THEN v ELSE at[o]
  BY DEF TypeOK
<1>4. Control \in Channels /\ \A j \in Workers : j \in Channels /\ j # Control
  BY FifoAssumption DEF Control, Channels, Workers
<1>5. ClientShape(s)'
  <2>1. CASE \E k \in Channels : e = End(s, k, "client")
    <3>1. PICK k \in Channels : e = End(s, k, "client")
      BY <2>1
    <3>2. \A j \in Channels : j # k => at'[End(s, j, "client")] = at[End(s, j, "client")]
      BY <1>2, <1>3, <3>1
    <3>3. at'[End(s, k, "client")] \in Through
      BY <1>3, <3>1
    <3>4. CASE main[C(s)] = "leave" /\ k = Control
      BY <1>1, <1>4, <3>2, <3>3, <3>4 DEF ClientShape
    <3>5. CASE main[C(s)] = "delete" /\ k = chan[C(s)]
      <4>1. /\ k # Control /\ at[End(s, Control, "client")] = Ready
            /\ \A j \in Workers : j < k => at[End(s, j, "client")] = Gone
            /\ \A j \in Workers : j > k => at[End(s, j, "client")] = Ready
        BY <1>1, <3>5 DEF ClientShape
      <4>2. \A j \in Workers : j < k \/ j > k => j # k
        BY DEF Workers, Channels
      <4>3. /\ at'[End(s, Control, "client")] = Ready
            /\ \A j \in Workers : j < k => at'[End(s, j, "client")] = Gone
            /\ \A j \in Workers : j > k => at'[End(s, j, "client")] = Ready
        BY <1>4, <3>2, <4>1, <4>2
      <4> QED
        BY <3>3, <3>5, <4>1, <4>3 DEF ClientShape
    <3> QED
      BY <1>2, <3>1, <3>4, <3>5 DEF Destroyed
  <2>2. CASE ~\E k \in Channels : e = End(s, k, "client")
    <3>1. \A j \in Channels : at'[End(s, j, "client")] = at[End(s, j, "client")]
      BY <1>2, <1>3, <2>2
    <3> QED
      BY <1>1, <1>2, <3>1, ClientShapeKept
  <2> QED
    BY <2>1, <2>2
<1>6. ServerShape(s)'
  <2>1. CASE \E k \in Channels : e = End(s, k, "server")
    <3>1. PICK k \in Channels : e = End(s, k, "server")
      BY <2>1
    <3>2. \A j \in Channels : j # k => at'[End(s, j, "server")] = at[End(s, j, "server")]
      BY <1>2, <1>3, <3>1
    <3>3. at'[End(s, k, "server")] \in Through
      BY <1>3, <3>1
    <3>4. main[S(s)] = "leave" /\ k = Control
      BY <1>2, <3>1 DEF Destroyed
    <3>5. /\ \A j \in Workers : j <= chan[S(s)] => at[End(s, j, "server")] = Ready
          /\ \A j \in Channels : j > chan[S(s)] => at[End(s, j, "server")] = None
      BY <1>1, <3>4 DEF ServerShape
    <3>6. \A j \in Channels : j > chan[S(s)] => j # Control
      BY <1>2 DEF Channels, Control
    <3>7. /\ \A j \in Workers : j <= chan[S(s)] => at'[End(s, j, "server")] = Ready
          /\ \A j \in Channels : j > chan[S(s)] => at'[End(s, j, "server")] = None
      BY <1>4, <3>2, <3>4, <3>5, <3>6
    <3> QED
      BY <3>3, <3>4, <3>7 DEF ServerShape
  <2>2. CASE ~\E k \in Channels : e = End(s, k, "server")
    <3>1. \A j \in Channels : at'[End(s, j, "server")] = at[End(s, j, "server")]
      BY <1>2, <1>3, <2>2
    <3> QED
      BY <1>1, <1>2, <3>1, ServerShapeKept
  <2> QED
    BY <2>1, <2>2
<1>7. WorkerShape(s)'
  <2>1. \A o \in Ends : at[o] \in Through => at'[o] \in Through
    BY <1>3
  <2> QED
    BY <1>1, <1>2, <1>4, <2>1, WorkerShapeKept
<1> QED
  BY <1>5, <1>6, <1>7

-----------------------------------------------------------------------------
(* What is in the pipes.                                                   *)

(***************************************************************************)
(* No two ends share a pipe but those of a channel, and these only when    *)
(* they opened it in the same step.                                        *)
(***************************************************************************)
LEMMA OtherPipes ==
  ASSUME Named, OwnPipes, NEW e \in Ends, NEW o \in Ends,
         NEW y \in {1, 2}, NEW z \in {1, 2},
         fd[e][y] # NoPipe, fd[e][y] = fd[o][z]
  PROVE  e[1] = o[1] /\ e[2] = o[2] /\ y = z
<1>1. PICK name \in [1..Len(pipes) -> Names] :
        /\ \A n \in Names : file[n] # NoPipe => name[file[n]] = n
        /\ \A f \in Ends, x \in {1, 2} :
             fd[f][x] # NoPipe => name[fd[f][x]] = <<f[2], x>>
  BY DEF Named
<1>2. <<e[2], y>> = <<o[2], z>>
  BY <1>1
<1>3. e[1] = o[1]
  BY DEF OwnPipes
<1> QED
  BY <1>2, <1>3

(***************************************************************************)
(* The two pipes of an end that is through.                                *)
(***************************************************************************)
LEMMA ThroughPipes ==
  ASSUME TypeOK, Held, NEW e \in Ends, at[e] \in Through, NEW y \in {1, 2}
  PROVE  fd[e][y] \in 1..Len(pipes) /\ fd[e][y] # NoPipe
<1>1. at[e] \in Has(y)
  BY DEF Has, Passed
<1>2. fd[e][y] \in 0..Len(pipes)
  BY DEF TypeOK
<1> QED
  BY <1>1, <1>2 DEF Held, NoPipe

(***************************************************************************)
(* The ends of a channel that is through have the same pipes.              *)
(***************************************************************************)
LEMMA SharedPipes ==
  ASSUME Sync, Meet, NEW e \in Ends, at[e] \in Through
  PROVE  at[Peer(e)] \in Through /\ \A y \in {1, 2} : fd[Peer(e)][y] = fd[e][y]
<1>1. at[e] \in Passed(2)
  BY DEF Passed
<1>2. at[Peer(e)] \in Through
  BY <1>1 DEF Sync, Passed
<1>3. \A y \in {1, 2} : at[e] \in Has(y) /\ at[Peer(e)] \in Has(y)
  BY <1>2 DEF Has, Passed
<1> QED
  BY <1>2, <1>3 DEF Meet

(***************************************************************************)
(* While the pipes of a channel and what its processes do are the same, so *)
(* is what they say.                                                       *)
(***************************************************************************)
LEMMA SameTalk ==
  ASSUME TypeOK, Held, NEW s \in Session, NEW k \in Channels,
         at[End(s, k, "client")] \in Through,
         \A y \in {1, 2} : fd'[End(s, k, "client")][y] = fd[End(s, k, "client")][y],
         \A i \in 1..Len(pipes) :
           i \in {fd[End(s, k, "client")][1], fd[End(s, k, "client")][2]} =>
             pipes'[i].data = pipes[i].data
  PROVE  /\ Up(s, k)' = Up(s, k) /\ Down(s, k)' = Down(s, k)
         /\ Silent(s, k)' <=> Silent(s, k)
         /\ main'[C(s)] = main[C(s)] /\ main'[S(s)] = main[S(s)] /\ chan'[C(s)] = chan[C(s)]
            /\ chan'[S(s)] = chan[S(s)] /\ k = Control /\ Dialogue(s) => Dialogue(s)'
         /\ worker'[<<s, k>>] = worker[<<s, k>>] /\ thread'[<<s, k>>] = thread[<<s, k>>]
            /\ Exchange(s, k) => Exchange(s, k)'
<1>1. PICK c \in Ends : c = End(s, k, "client")
  BY EndIs
<1>2. /\ fd[c][1] \in 1..Len(pipes) /\ fd[c][2] \in 1..Len(pipes)
      /\ fd'[c][1] = fd[c][1] /\ fd'[c][2] = fd[c][2]
  BY <1>1, ThroughPipes
<1>3. Up(s, k)' = Up(s, k) /\ Down(s, k)' = Down(s, k)
  BY <1>1, <1>2 DEF Up, Down
<1>4. Silent(s, k)' <=> Silent(s, k)
  BY <1>3 DEF Silent
<1>5. main'[C(s)] = main[C(s)] /\ main'[S(s)] = main[S(s)] /\ chan'[C(s)] = chan[C(s)]
      /\ chan'[S(s)] = chan[S(s)] /\ k = Control /\ Dialogue(s) => Dialogue(s)'
  BY <1>3, <1>4 DEF Dialogue, Listening
<1>6. worker'[<<s, k>>] = worker[<<s, k>>] /\ thread'[<<s, k>>] = thread[<<s, k>>]
      /\ Exchange(s, k) => Exchange(s, k)'
  BY <1>3, <1>4 DEF Exchange
<1> QED
  BY <1>3, <1>4, <1>5, <1>6

(***************************************************************************)
(* Steps that say nothing: nobody gets through, and the pipes that are     *)
(* made are empty.                                                         *)
(***************************************************************************)
LEMMA TalkStill ==
  ASSUME TypeOK, Held, Talking, UNCHANGED <<main, chan, worker, thread>>,
         \A o \in Ends : at'[o] \in Through <=> at[o] \in Through,
         \A o \in Ends, y \in {1, 2} : at[o] \in Through => fd'[o][y] = fd[o][y],
         \A i \in 1..Len(pipes) : pipes'[i].data = pipes[i].data,
         \A i \in 1..Len(pipes') : i \notin 1..Len(pipes) => pipes'[i].data = <<>>
  PROVE  Talking'
<1>1. ASSUME NEW s \in Session, at'[End(s, Control, "client")] \in Through
      PROVE  Dialogue(s)'
  <2>1. Control \in Channels /\ End(s, Control, "client") \in Ends
    BY EndIs, SessionTypes
  <2>2. at[End(s, Control, "client")] \in Through
    BY <1>1, <2>1
  <2>3. Dialogue(s)
    BY <2>2 DEF Talking
  <2> QED
    BY <2>1, <2>2, <2>3, SameTalk
<1>2. ASSUME NEW s \in Session, NEW k \in Workers, at'[End(s, k, "client")] \in Through
      PROVE  Exchange(s, k)'
  <2>1. k \in Channels /\ End(s, k, "client") \in Ends
    BY EndIs, SessionTypes
  <2>2. at[End(s, k, "client")] \in Through
    BY <1>2, <2>1
  <2>3. Exchange(s, k)
    BY <2>2 DEF Talking
  <2> QED
    BY <2>1, <2>2, <2>3, SameTalk
<1>3. Unwritten'
  <2> SUFFICES ASSUME NEW i \in 1..Len(pipes'), pipes'[i].data # <<>>
               PROVE  \E e \in Ends, x \in {1, 2} : at'[e] \in Through /\ fd'[e][x] = i
    BY DEF Unwritten
  <2>1. i \in 1..Len(pipes) /\ pipes[i].data # <<>>
    OBVIOUS
  <2>2. PICK e \in Ends, x \in {1, 2} : at[e] \in Through /\ fd[e][x] = i
    BY <2>1 DEF Talking, Unwritten
  <2> QED
    BY <2>2
<1> QED
  BY <1>1, <1>2, <1>3 DEF Talking

(***************************************************************************)
(* open() says nothing: when the channel is through, its pipes are empty   *)
(* and its processes have just made it.                                    *)
(***************************************************************************)
LEMMA OpenTalking ==
  ASSUME TypeOK, Meeting, Meeting', Naming', Shapes, Talking, NEW e \in Ends,
         NEW x \in {1, 2}, NEW i \in 1..Len(pipes),
         Opened(e, x, i), BothGoOn(e, x, i) \/ Waits(e, x)
  PROVE  Talking'
<1>0. /\ Stages /\ Held /\ Named' /\ OwnPipes' /\ Sync'
      /\ fd \in [Ends -> [1..2 -> 0..Len(pipes)]]
  BY DEF Meeting, Naming, TypeOK
<1>1. /\ at[e] = <<"open", x>> /\ at[e] \notin Through
      /\ main' = main /\ chan' = chan /\ worker' = worker /\ thread' = thread
      /\ Len(pipes') = Len(pipes)
      /\ \A j \in 1..Len(pipes) : pipes'[j].data = pipes[j].data
  BY DEF Opened
<1>2. \A o \in Ends :
        /\ at'[o] \in Through <=>
             \/ at[o] \in Through
             \/ BothGoOn(e, x, i) /\ x = 2 /\ o \in {e, Peer(e)}
        /\ \A y \in {1, 2} : at[o] \in Through => fd'[o][y] = fd[o][y]
  <2> SUFFICES ASSUME NEW o \in Ends
               PROVE  /\ at'[o] \in Through <=>
                          \/ at[o] \in Through
                          \/ BothGoOn(e, x, i) /\ x = 2 /\ o \in {e, Peer(e)}
                      /\ \A y \in {1, 2} : at[o] \in Through => fd'[o][y] = fd[o][y]
    OBVIOUS
  <2>1. /\ at'[o] \in Passed(2) <=>
             \/ at[o] \in Passed(2)
             \/ BothGoOn(e, x, i) /\ 2 = x /\ o \in {e, Peer(e)}
        /\ \A y \in {1, 2} : fd'[o][y] = IF o = e /\ y = x THEN i ELSE fd[o][y]
    BY <1>0, OpenPlaces
  <2> QED
    BY <1>1, <2>1 DEF Passed
<1>3. CASE ~(BothGoOn(e, x, i) /\ x = 2)
  <2>1. \A o \in Ends : at'[o] \in Through <=> at[o] \in Through
    BY <1>2, <1>3
  <2> QED
    BY <1>0, <1>1, <1>2, <2>1, TalkStill
<1>4. CASE BothGoOn(e, x, i) /\ x = 2
  <2>1. PICK s \in Session, k \in Channels : e[1] = s /\ e[2] = k
    BY EndParts
  <2>2. PICK c, d : c = End(s, k, "client") /\ d = End(s, k, "server")
    OBVIOUS
  <2>3. /\ c \in Ends /\ d \in Ends /\ Peer(c) = d /\ Peer(d) = c /\ c # d
        /\ c[1] = s /\ c[2] = k /\ d[1] = s /\ d[2] = k
        /\ Proc(c) = C(s) /\ Proc(d) = S(s)
    BY <2>2, EndIs
  <2>4. {e, Peer(e)} = {c, d}
    <3>1. e = c \/ e = d
      BY <2>1, <2>3, TwoEnds
    <3> QED
      BY <2>3, <3>1
  <2>5. at[Peer(e)] = <<"wait", x>>
    BY <1>4 DEF BothGoOn
  <2>6. /\ at[c] \in {<<"open", x>>, <<"wait", x>>}
        /\ at[d] \in {<<"open", x>>, <<"wait", x>>}
    BY <1>1, <2>3, <2>4, <2>5
  <2>7. /\ at[c] # None /\ at[c] \notin Through
        /\ at[d] # None /\ at[d] \notin Through
    BY <2>6 DEF None, Through, Closed, Ready, Gone
  <2>8. /\ main[C(s)] = "open" /\ chan[C(s)] = k
        /\ main[S(s)] = "open" /\ chan[S(s)] = k
    BY <2>3, <2>7, InConstructor
  <2>9. at'[c] \in Through
    BY <1>2, <1>4, <2>3, <2>4
  <2>10. \A o \in Ends : at'[o] \in Through => at[o] \in Through \/ o = c \/ o = d
    BY <1>2, <2>4
  <2>11. ASSUME NEW y \in {1, 2}
         PROVE  pipes'[fd'[c][y]].data = <<>>
    <3>1. PICK j : j = fd'[c][y]
      OBVIOUS
    <3>2. at'[c] \in Has(y)'
      BY <2>9 DEF Has, Passed
    <3>3. j # NoPipe
      BY <2>3, <3>1, <3>2 DEF Meeting, Held
    <3>4. fd'[c][y] = IF c = e /\ y = x THEN i ELSE fd[c][y]
      BY <1>0, <2>3, OpenPlaces
    <3>5. j \in 1..Len(pipes)
      BY <1>0, <2>3, <3>1, <3>3, <3>4 DEF NoPipe
    <3>6. pipes[j].data # <<>> => FALSE
      <4> SUFFICES ASSUME pipes[j].data # <<>> PROVE FALSE
        OBVIOUS
      <4>1. PICK o \in Ends, z \in {1, 2} : at[o] \in Through /\ fd[o][z] = j
        BY <3>5 DEF Talking, Unwritten
      <4>2. fd'[o][z] = j
        BY <1>2, <4>1
      <4>3. o[1] = s /\ o[2] = k
        <5>1. PICK name \in [1..Len(pipes') -> Names] :
                \A f \in Ends, w \in {1, 2} :
                  fd'[f][w] # NoPipe => name[fd'[f][w]] = <<f[2], w>>
          BY <1>0 DEF Named
        <5>2. <<o[2], z>> = <<c[2], y>>
          BY <2>3, <3>1, <3>3, <4>2, <5>1
        <5>3. o[1] = c[1]
          <6>1. \A f \in Ends, w \in {1, 2} :
                  fd'[f][w] # NoPipe => pipes'[fd'[f][w]].by = f[1]
            BY <1>0 DEF OwnPipes
          <6>2. pipes'[j].by = o[1]
            BY <3>3, <4>2, <6>1
          <6>3. pipes'[j].by = c[1]
            BY <2>3, <3>1, <3>3, <6>1
          <6> QED
            BY <6>2, <6>3
        <5> QED
          BY <2>3, <5>2, <5>3
      <4>4. o = c \/ o = d
        BY <2>3, <4>3, TwoEnds
      <4> QED
        BY <2>7, <4>1, <4>4
    <3> QED
      BY <1>1, <3>1, <3>5, <3>6
  <2>12. Silent(s, k)'
    BY <2>2, <2>11 DEF Silent, Up, Down
  <2>13. ASSUME NEW t \in Session, NEW j \in Channels,
                at'[End(t, j, "client")] \in Through, ~(t = s /\ j = k)
         PROVE  at[End(t, j, "client")] \in Through
    <3>1. /\ End(t, j, "client") \in Ends
          /\ End(t, j, "client")[1] = t /\ End(t, j, "client")[2] = j
      BY ONLY EndIs, t \in Session, j \in Channels
    <3> QED
      BY <2>3, <2>10, <2>13, <3>1
  <2>14. ASSUME NEW t \in Session, at'[End(t, Control, "client")] \in Through
         PROVE  Dialogue(t)'
    <3>1. Control \in Channels /\ End(t, Control, "client") \in Ends
      BY EndIs, SessionTypes
    <3>2. CASE t = s /\ Control = k
      BY <1>1, <2>8, <2>12, <3>2 DEF Dialogue, Listening
    <3>3. CASE ~(t = s /\ Control = k)
      <4>1. at[End(t, Control, "client")] \in Through
        BY <2>13, <2>14, <3>1, <3>3
      <4>2. Dialogue(t)
        BY <4>1 DEF Talking
      <4> QED
        BY <1>0, <1>1, <1>2, <3>1, <4>1, <4>2, SameTalk
    <3> QED
      BY <3>2, <3>3
  <2>15. ASSUME NEW t \in Session, NEW j \in Workers,
                at'[End(t, j, "client")] \in Through
         PROVE  Exchange(t, j)'
    <3>1. j \in Channels /\ End(t, j, "client") \in Ends
      BY EndIs, SessionTypes
    <3>2. CASE t = s /\ j = k
      <4>1. worker[<<s, k>>] = "none" /\ thread[<<s, k>>] = "none"
        BY <2>2, <2>7, <3>2 DEF Shapes, WorkerShape
      <4> QED
        BY <1>1, <2>12, <3>2, <4>1 DEF Exchange
    <3>3. CASE ~(t = s /\ j = k)
      <4>1. at[End(t, j, "client")] \in Through
        BY <2>13, <2>15, <3>1, <3>3
      <4>2. Exchange(t, j)
        BY <4>1 DEF Talking
      <4> QED
        BY <1>0, <1>1, <1>2, <3>1, <4>1, <4>2, SameTalk
    <3> QED
      BY <3>2, <3>3
  <2>16. Unwritten'
    <3> SUFFICES ASSUME NEW j \in 1..Len(pipes'), pipes'[j].data # <<>>
                 PROVE  \E o \in Ends, y \in {1, 2} : at'[o] \in Through /\ fd'[o][y] = j
      BY DEF Unwritten
    <3>1. j \in 1..Len(pipes) /\ pipes[j].data # <<>>
      BY <1>1
    <3>2. PICK o \in Ends, y \in {1, 2} : at[o] \in Through /\ fd[o][y] = j
      BY <3>1 DEF Talking, Unwritten
    <3> QED
      BY <1>2, <3>2
  <2> QED
    BY <2>14, <2>15, <2>16 DEF Talking
<1> QED
  BY <1>3, <1>4

-----------------------------------------------------------------------------
(* The constructor, the destructor and the end of a process keep the whole *)
(* invariant.                                                              *)

(***************************************************************************)
(* create_pipe.                                                            *)
(***************************************************************************)
LEMMA MakeKeeps ==
  ASSUME Inv, NEW e \in Ends, Make(e)
  PROVE  Inv'
<1>0. TypeOK /\ Meeting /\ Naming /\ Lives /\ Shapes /\ Talking
  BY DEF Inv
<1>1. PICK x \in {1, 2} : Made(e, x)
  BY <1>0, MakeDoes
<1>2. /\ at[e] = <<"make", x>> /\ at[e] \notin Through
      /\ at' = [at EXCEPT ![e] = <<"open", x>>]
      /\ UNCHANGED <<fd, fate, main, chan, worker, todo, thread, history>>
  BY <1>1 DEF Made
<1>3. PipesAfterMake(e, x)
  BY <1>0, <1>1, MakePipes
<1>4. TypeOK'
  <2>1. /\ pipes' \in Seq(Pipe) /\ Len(pipes') >= Len(pipes)
        /\ file' \in [Names -> 0..Len(pipes')]
    BY <1>3 DEF PipesAfterMake
  <2>2. at' \in [Ends -> Points \X (1..2)]
    BY <1>0, <1>2 DEF TypeOK, Points
  <2>3. fd' \in [Ends -> [1..2 -> 0..Len(pipes')]]
    <3>1. fd \in [Ends -> [1..2 -> 0..Len(pipes)]] /\ Len(pipes) \in Nat
      BY <1>0 DEF TypeOK
    <3>2. Len(pipes') \in Nat
      BY <2>1
    <3> QED
      BY <1>2, <2>1, <3>1, <3>2
  <2> QED
    BY <1>0, <1>2, <2>1, <2>2, <2>3 DEF TypeOK, history
<1>5. Meeting' /\ Naming'
  BY <1>0, <1>1, MakeMeeting, MakeNaming
<1>6. \A o \in Ends : \/ at'[o] = at[o]
                      \/ o = e /\ at'[o] = <<"open", x>>
  BY <1>0, <1>2 DEF TypeOK
<1>7. /\ <<"make", x>> # None /\ <<"make", x>> # Gone /\ <<"open", x>> # None
      /\ <<"open", x>> \notin Closed /\ <<"open", x>> \notin Through
  BY DEF None, Gone, Closed, Through, Ready
<1>8. Lives'
  BY <1>0, <1>2, <1>6, <1>7, LivesMoves DEF history
<1>9. Shapes'
  BY <1>0, <1>2, <1>6, <1>7, ConstructShapes
<1>10. Talking'
  <2>1. \A o \in Ends : at'[o] \in Through <=> at[o] \in Through
    BY <1>2, <1>6, <1>7
  <2>2. /\ \A i \in 1..Len(pipes) : pipes'[i].data = pipes[i].data
        /\ \A i \in 1..Len(pipes') : i \notin 1..Len(pipes) => pipes'[i].data = <<>>
    BY <1>3 DEF PipesAfterMake
  <2> QED
    BY <1>0, <1>2, <2>1, <2>2, TalkStill DEF Meeting
<1> QED
  BY <1>4, <1>5, <1>8, <1>9, <1>10 DEF Inv

(***************************************************************************)
(* open_read_pipe and open_write_pipe.                                     *)
(***************************************************************************)
LEMMA OpenKeeps ==
  ASSUME Inv, NEW e \in Ends, Running(Proc(e)), Open(e)
  PROVE  Inv'
<1>0. TypeOK /\ Meeting /\ Naming /\ Lives /\ Shapes /\ Talking
  BY DEF Inv
<1>1. PICK x \in {1, 2}, i \in 1..Len(pipes) :
        Opened(e, x, i) /\ (BothGoOn(e, x, i) \/ Waits(e, x))
  BY <1>0, OpenDoes
<1>2. pipes' \in Seq(Pipe)
  BY <1>0, OpenDoes
<1>3. /\ at[e] = <<"open", x>> /\ Len(pipes') = Len(pipes)
      /\ fd' = [fd EXCEPT ![e][x] = i]
      /\ UNCHANGED <<file, fate, main, chan, worker, todo, thread, history>>
  BY <1>1 DEF Opened
<1>4. \A o \in Ends :
        \/ at'[o] = at[o]
        \/ /\ at'[o] \in {<<"wait", x>>, After(x)}
           /\ at[o] \in {<<"open", x>>, <<"wait", x>>}
  BY <1>0, <1>1, OpenPlaces DEF Meeting
<1>5. TypeOK'
  <2>1. at' \in [Ends -> Points \X (1..2)]
    <3>1. at \in [Ends -> Points \X (1..2)]
      BY <1>0 DEF TypeOK
    <3>2. <<"wait", x>> \in Points \X (1..2) /\ After(x) \in Points \X (1..2)
      BY DEF Points, After, Ready
    <3>3. CASE BothGoOn(e, x, i)
      BY <3>1, <3>2, <3>3 DEF BothGoOn
    <3>4. CASE Waits(e, x)
      BY <3>1, <3>2, <3>4 DEF Waits
    <3> QED
      BY <1>1, <3>3, <3>4
  <2>2. fd' \in [Ends -> [1..2 -> 0..Len(pipes')]]
    <3>1. fd \in [Ends -> [1..2 -> 0..Len(pipes)]] /\ Len(pipes) \in Nat
      BY <1>0 DEF TypeOK
    <3> QED
      BY <1>3, <3>1
  <2> QED
    BY <1>0, <1>2, <1>3, <2>1, <2>2 DEF TypeOK, history
<1>6. Meeting' /\ Naming'
  BY <1>0, <1>1, OpenMeeting, OpenNaming DEF Meeting
<1>7. /\ <<"open", x>> # None /\ <<"wait", x>> # None /\ After(x) # None
      /\ <<"open", x>> \notin Through /\ <<"wait", x>> \notin Through
      /\ <<"open", x>> # Gone /\ <<"wait", x>> # Gone
      /\ <<"wait", x>> \notin Closed /\ After(x) \notin Closed
  BY DEF None, Gone, Closed, Through, Ready, After
<1>8. Lives'
  BY <1>0, <1>3, <1>4, <1>7, LivesMoves DEF history
<1>9. Shapes'
  BY <1>0, <1>3, <1>4, <1>7, ConstructShapes
<1>10. Talking'
  BY <1>0, <1>1, <1>6, OpenTalking
<1> QED
  BY <1>5, <1>6, <1>8, <1>9, <1>10 DEF Inv

(***************************************************************************)
(* close(wfd), close(rfd).                                                 *)
(***************************************************************************)
LEMMA CloseKeeps ==
  ASSUME Inv, NEW e \in Ends, Destroyed(e), Close(e)
  PROVE  Inv'
<1>0. TypeOK /\ Meeting /\ Naming /\ Lives /\ Shapes /\ Talking
  BY DEF Inv
<1>1. /\ Meeting' /\ pipes' \in Seq(Pipe) /\ Len(pipes') = Len(pipes)
      /\ at[e] = Ready /\ at' = [at EXCEPT ![e] = <<"remove", 1>>]
      /\ \A i \in 1..Len(pipes) :
           pipes'[i].by = pipes[i].by /\ pipes'[i].data = pipes[i].data
  BY <1>0, CloseMeeting
<1>2. UNCHANGED <<file, fd, fate, main, chan, worker, todo, thread, history>>
  BY DEF Close
<1>3. TypeOK'
  <2>1. at' \in [Ends -> Points \X (1..2)]
    BY <1>0, <1>1 DEF TypeOK, Points
  <2> QED
    BY <1>0, <1>1, <1>2, <2>1 DEF TypeOK, history
<1>4. \A o \in Ends : \/ at'[o] = at[o]
                      \/ at[o] = Ready /\ at'[o] = <<"remove", 1>>
  BY <1>0, <1>1 DEF TypeOK
<1>5. /\ Ready # Gone /\ Ready \in Through /\ <<"remove", 1>> \in Through
      /\ <<"remove", 1>> # Gone /\ <<"remove", 1>> # <<"remove", 2>>
  BY DEF Ready, Gone, Through, Closed
<1>6. Naming'
  <2>1. /\ \A s : Begun(C(s))' <=> Begun(C(s))
        /\ \A n \in Names : file'[n] = file[n]
    BY <1>2 DEF Begun
  <2>2. \A o \in Ends : at'[o] \in {<<"remove", 2>>, Gone} => at'[o] = at[o]
    BY <1>4, <1>5
  <2> QED
    BY <1>0, <1>1, <1>2, <2>1, <2>2, FewerNames DEF Naming
<1>7. Lives'
  BY <1>0, <1>2, <1>4, <1>5, LivesMoves DEF history
<1>8. Shapes'
  BY <1>0, <1>1, <1>2, <1>5, DestructShapes
<1>9. Talking'
  <2>1. \A o \in Ends : at'[o] \in Through <=> at[o] \in Through
    BY <1>4, <1>5
  <2> QED
    BY <1>0, <1>1, <1>2, <2>1, TalkStill DEF Meeting
<1> QED
  BY <1>1, <1>3, <1>6, <1>7, <1>8, <1>9 DEF Inv

(***************************************************************************)
(* remove() of a file that is not stolen.                                  *)
(***************************************************************************)
LEMMA RemoveKeeps ==
  ASSUME Inv, NEW e \in Ends, Running(Proc(e)), Destroyed(e), Remove(e), ~stolen'
  PROVE  Inv'
<1>0. TypeOK /\ Meeting /\ Naming /\ Lives /\ Shapes /\ Talking
  BY DEF Inv
<1>1. PICK x \in {1, 2}, y \in {1, 2} :
           /\ at[e] = <<"remove", x>> /\ at[e] \in Closed
           /\ at' = [at EXCEPT ![e] = IF x = 1 THEN <<"remove", 2>> ELSE Gone]
           /\ file' = [file EXCEPT ![<<e[2], y>>] = NoPipe]
           /\ UNCHANGED <<pipes, fd, fate, main, chan, worker, todo, thread, fault>>
  BY <1>0, RemoveDoes
<1>2. Meeting' /\ Naming'
  BY <1>0, RemoveMeeting
<1>3. PICK v \in {<<"remove", 2>>, Gone} : at' = [at EXCEPT ![e] = v]
  BY <1>1
<1>4. v \in Through /\ at[e] \in Through /\ at[e] # Gone
  BY <1>1 DEF Through, Closed, Gone
<1>5. TypeOK'
  <2>1. at' \in [Ends -> Points \X (1..2)]
    BY <1>0, <1>3 DEF TypeOK, Points, Gone
  <2>2. file' \in [Names -> 0..Len(pipes)]
    <3>1. /\ file \in [Names -> 0..Len(pipes)] /\ 0 \in 0..Len(pipes)
          /\ file' = [file EXCEPT ![<<e[2], y>>] = 0]
      BY <1>0, <1>1 DEF TypeOK, NoPipe
    <3> QED
      BY <3>1
  <2>3. stolen' \in BOOLEAN
    BY DEF Remove, Removes
  <2> QED
    BY <1>0, <1>1, <2>1, <2>2, <2>3 DEF TypeOK
<1>6. \A o \in Ends : at'[o] = at[o] \/ (o = e /\ at'[o] = v)
  <2>1. at \in [Ends -> Points \X (1..2)]
    BY <1>0 DEF TypeOK
  <2> QED
    BY <1>3, <2>1
<1>7. Lives'
  BY <1>0, <1>1, <1>4, <1>6, LivesMoves
<1>8. Shapes'
  BY <1>0, <1>1, <1>3, <1>4, DestructShapes
<1>9. Talking'
  <2>1. \A o \in Ends : at'[o] \in Through <=> at[o] \in Through
    BY <1>4, <1>6
  <2> QED
    BY <1>0, <1>1, <2>1, TalkStill DEF Meeting
<1> QED
  BY <1>2, <1>5, <1>7, <1>8, <1>9 DEF Inv

(***************************************************************************)
(* A process ends.                                                         *)
(***************************************************************************)
LEMMA DiesKeeps ==
  ASSUME Inv, NEW p \in Session \X Sides, Running(p),
         NEW f \in {"exit", "rmv", "killed"}, Dies(p, f), f = "rmv" => NobodyLeft(p),
         fault' = fault \/ fault = "none",
         fault' \in {"none", "killed", "no_worker", "no_thread"},
         f = "exit" => main[p] = "leave" /\ at[ControlOf(p)] = Gone,
         f # "exit" => p[1] = Sessions /\ fault' \in {"killed", "no_worker"}
  PROVE  Inv'
<1>0. TypeOK /\ Meeting /\ Naming /\ Lives /\ Shapes /\ Talking
  BY DEF Inv
<1>1. /\ Meeting' /\ pipes' \in Seq(Pipe) /\ Len(pipes') = Len(pipes)
      /\ \A i \in 1..Len(pipes) :
           pipes'[i].by = pipes[i].by /\ pipes'[i].data = pipes[i].data
  BY <1>0, DiesMeeting
<1>2. /\ UNCHANGED <<at, fd, main, chan, worker, todo, thread, stolen>>
      /\ fate' = [fate EXCEPT ![p] = f]
      /\ file' = IF f = "rmv" THEN [n \in Names |-> NoPipe] ELSE file
  BY DEF Dies
<1>3. TypeOK'
  <2>1. file' \in [Names -> 0..Len(pipes')]
    BY <1>0, <1>1, <1>2 DEF TypeOK, NoPipe
  <2>2. fate' \in [Session \X Sides -> {"unborn", "running", "exit", "rmv", "killed"}]
    BY <1>0, <1>2 DEF TypeOK
  <2> QED
    BY <1>0, <1>1, <1>2, <2>1, <2>2 DEF TypeOK
<1>4. Naming'
  <2>1. \A s \in Session : Begun(C(s))' <=> Begun(C(s))
    BY <1>0, <1>2, SessionTypes DEF Begun, Running, TypeOK
  <2>2. \A n \in Names : file'[n] = file[n] \/ file'[n] = NoPipe
    BY <1>2
  <2> QED
    BY <1>0, <1>1, <1>2, <2>1, <2>2, FewerNames DEF Naming
<1>5. Lives'
  BY <1>0, LivesDies
<1>6. Shapes'
  BY <1>0, <1>2, ConstructShapes
<1>7. Talking'
  BY <1>0, <1>1, <1>2, TalkStill DEF Meeting
<1> QED
  BY <1>1, <1>3, <1>4, <1>5, <1>6, <1>7 DEF Inv

-----------------------------------------------------------------------------
(* A process meets a broken pipe, or a missing file, only when the other   *)
(* one has been killed.                                                    *)

Dead(p) == fate[p] \in {"rmv", "killed"}

(***************************************************************************)
(* A process that removes the files leaves nobody of an older session who  *)
(* needs one.                                                              *)
(***************************************************************************)
LEMMA OldOnesAreThrough ==
  ASSUME Inv, NEW p \in Session \X Sides, Running(p), p[1] = Sessions,
         \A e \in Ends :
           e[1] = Sessions /\ Proc(e) # p /\ Running(Proc(e)) =>
             \A x \in {1, 2} : at[e] \notin Has(x) => at[Peer(e)] \notin Has(x)
  PROVE  NobodyLeft(p)
<1>0. TypeOK /\ Meeting /\ Lives /\ Shapes /\ Sync
  BY DEF Inv, Meeting
<1>1. Sessions \in Session /\ Sessions \in Nat
  BY FifoAssumption DEF Session
<1>2. Begun(C(Sessions))
  <2>1. p = C(Sessions) \/ p = S(Sessions)
    BY DEF C, S, Sides
  <2>2. Begun(p)
    BY DEF Running, Begun
  <2> QED
    BY <1>0, <1>1, <2>1, <2>2 DEF Lives
<1>3. ASSUME NEW e \in Ends, e[1] # Sessions
      PROVE  at[e] \in Through
  <2>1. e[1] \in Session
    BY EndParts
  <2>2. e[1] < Sessions
    BY <1>1, <1>3, <2>1 DEF Session
  <2>3. fate[C(e[1])] = "exit"
    BY <1>0, <1>1, <1>2, <2>1, <2>2 DEF Lives
  <2> QED
    BY <1>0, <2>3, Over
<1>4. ASSUME NEW e \in Ends
      PROVE  /\ Running(Proc(e)) /\ Proc(e) # p =>
                  \A x \in {1, 2} : at[e] \notin Has(x) => at[Peer(e)] \notin Has(x)
             /\ \A x \in {1, 2} : at[e] = <<"open", x>> => Proc(e) = p \/ Proc(Peer(e)) = p
  <2>1. CASE e[1] # Sessions
    <3>1. at[e] \in Through
      BY <1>3, <2>1
    <3> QED
      BY <3>1 DEF Has, Passed, Through, Closed, Ready, Gone
  <2>2. CASE e[1] = Sessions
    <3>1. Proc(e) = p \/ Proc(Peer(e)) = p
      <4>1. /\ p = <<p[1], p[2]>> /\ p[2] \in {"client", "server"}
            /\ e[3] \in {"client", "server"}
            /\ Proc(e) = <<e[1], e[3]>>
        BY EndParts DEF Sides
      <4>2. /\ Peer(e) \in Ends /\ Peer(e)[1] = e[1] /\ Peer(e)[3] # e[3]
            /\ Peer(e)[3] \in {"client", "server"}
            /\ Proc(Peer(e)) = <<Peer(e)[1], Peer(e)[3]>>
        BY EndParts DEF Sides, Proc
      <4> QED
        BY <2>2, <4>1, <4>2
    <3> QED
      BY <2>2, <3>1
  <2> QED
    BY <2>1, <2>2
<1> QED
  BY <1>4 DEF NobodyLeft

(***************************************************************************)
(* When the other process of the session was killed, this one may end.     *)
(***************************************************************************)
LEMMA LastOneEnds ==
  ASSUME Inv, NEW e \in Ends, Running(Proc(e)), Dead(Proc(Peer(e))),
         NEW f \in {"rmv", "killed"}, EndsAs(Proc(e), f)
  PROVE  Inv'
<1>0. TypeOK /\ Lives
  BY DEF Inv
<1>1. /\ Proc(e) \in Session \X Sides /\ Proc(Peer(e)) \in Session \X Sides
      /\ Proc(e)[1] = e[1] /\ Proc(Peer(e))[1] = e[1] /\ Proc(Peer(e)) # Proc(e)
  BY EndParts DEF Proc
<1>2. e[1] = Sessions /\ fault \in {"killed", "no_worker"}
  BY <1>0, <1>1 DEF Lives, Dead
<1>3. Dies(Proc(e), f) /\ fault' = fault
  BY DEF EndsAs
<1>4. NobodyLeft(Proc(e))
  <2>1. ASSUME NEW o \in Ends, o[1] = Sessions, Proc(o) # Proc(e)
        PROVE  ~Running(Proc(o))
    <3>1. /\ Proc(o) = <<o[1], o[3]>> /\ Proc(e) = <<e[1], e[3]>>
          /\ Proc(Peer(e)) = <<Peer(e)[1], Peer(e)[3]>>
          /\ Peer(e)[1] = e[1] /\ Peer(e)[3] # e[3]
          /\ o[3] \in {"client", "server"} /\ e[3] \in {"client", "server"}
          /\ Peer(e)[3] \in {"client", "server"}
      BY EndParts DEF Proc, Sides
    <3>2. Proc(o) = Proc(Peer(e))
      BY <1>2, <2>1, <3>1
    <3> QED
      BY <3>2 DEF Dead, Running
  <2> QED
    BY <1>1, <1>2, <2>1, OldOnesAreThrough
<1> QED
  BY <1>0, <1>1, <1>2, <1>3, <1>4, DiesKeeps DEF TypeOK

(***************************************************************************)
(* open() finds no file.                                                   *)
(***************************************************************************)
LEMMA OpenFailsKeeps ==
  ASSUME Inv, NEW e \in Ends, Running(Proc(e)), OpenFails(e)
  PROVE  Inv'
<1>0. TypeOK /\ Meeting /\ Lives
  BY DEF Inv
<1>1. PICK x \in {1, 2} : at[e] = <<"open", x>> /\ NameOf(e) = <<e[2], x>>
  BY <1>0, AtOpen DEF OpenFails
<1>2. file[<<e[2], x>>] = NoPipe
  BY <1>1 DEF OpenFails
<1>3. ~Fine(Proc(Peer(e)))
  BY <1>0, <1>1, <1>2 DEF Meeting, Sought, Fine, Running
<1>4. Begun(Proc(Peer(e))) /\ Proc(Peer(e)) \in Session \X Sides
  <2>1. /\ e[1] \in Session /\ e[3] \in {"client", "server"}
        /\ Peer(e)[3] \in {"client", "server"} /\ Peer(e)[1] = e[1]
        /\ Proc(e) = <<e[1], e[3]>> /\ Proc(Peer(e)) = <<Peer(e)[1], Peer(e)[3]>>
    BY EndParts DEF Proc, Sides
  <2>2. Begun(Proc(e))
    BY DEF Begun, Running
  <2> QED
    BY <1>0, <2>1, <2>2 DEF Lives, C, S, Sides
<1>5. Dead(Proc(Peer(e)))
  BY <1>0, <1>3, <1>4 DEF TypeOK, Fine, Dead, Begun
<1>6. EndsAs(Proc(e), "rmv")
  <2>1. Proc(e) = <<e[1], SideOf(e)>>
    BY EndParts
  <2> QED
    BY <2>1 DEF OpenFails
<1> QED
  BY <1>5, <1>6, LastOneEnds

(***************************************************************************)
(* A pipe is broken when the peer has closed it, or its process is gone.   *)
(***************************************************************************)
LEMMA Broken ==
  ASSUME Inv, NEW e \in Ends, at[e] \in Through,
         pipes[Out(e)].reader = {} \/ pipes[In(e)].writer = {}
  PROVE  \/ Dead(Proc(Peer(e)))
         \/ main[Proc(Peer(e))] = "leave"
         \/ at[Peer(e)] \in Closed
<1>0. TypeOK /\ Meeting /\ Lives /\ Shapes
  BY DEF Inv
<1>1. /\ Peer(e) \in Ends /\ Proc(Peer(e)) \in Session \X Sides /\ SideOf(e) = e[3]
      /\ ReadsFrom(Peer(e)[3]) = WritesTo(e[3])
      /\ WritesTo(Peer(e)[3]) = ReadsFrom(e[3])
      /\ WritesTo(e[3]) \in {1, 2} /\ ReadsFrom(e[3]) \in {1, 2}
  BY EndParts
<1>2. \A y \in {1, 2} : fd[Peer(e)][y] = fd[e][y] /\ fd[e][y] \in 1..Len(pipes)
  BY <1>0, SharedPipes, ThroughPipes DEF Meeting
<1>3. ~Holding(Peer(e))
  <2> SUFFICES ASSUME Holding(Peer(e)) PROVE FALSE
    OBVIOUS
  <2>1. PICK i, j : i = fd[e][WritesTo(e[3])] /\ j = fd[e][ReadsFrom(e[3])]
    OBVIOUS
  <2>2. i \in 1..Len(pipes) /\ j \in 1..Len(pipes)
    BY <1>1, <1>2, <2>1
  <2>3. fd[Peer(e)][ReadsFrom(Peer(e)[3])] = i /\ fd[Peer(e)][WritesTo(Peer(e)[3])] = j
    BY <1>1, <1>2, <2>1
  <2>4. Peer(e) \in pipes[i].reader /\ Peer(e) \in pipes[j].writer
    BY <1>0, <1>1, <2>2, <2>3 DEF Meeting, SidesKept
  <2>5. Out(e) = i /\ In(e) = j
    BY <1>1, <2>1 DEF Out, In
  <2> QED
    BY <2>4, <2>5
<1>4. CASE at[Peer(e)] \in Closed
  BY <1>4
<1>5. CASE ~Running(Proc(Peer(e)))
  <2>1. at[Peer(e)] \in Through
    BY <1>0, SharedPipes DEF Meeting
  <2>2. at[Peer(e)] # None
    BY <2>1 DEF Through, Closed, Ready, Gone, None
  <2>3. Begun(Proc(Peer(e)))
    <3>1. Begun(C(Peer(e)[1]))
      BY <1>0, <1>1, <2>2, Unborn
    <3>2. /\ Peer(e)[1] \in Session /\ Peer(e)[3] \in {"client", "server"}
          /\ Proc(Peer(e)) = <<Peer(e)[1], Peer(e)[3]>>
      BY <1>1, EndParts DEF Proc, Sides
    <3> QED
      BY <1>0, <3>1, <3>2 DEF Lives, C, S
  <2>4. fate[Proc(Peer(e))] \in {"unborn", "running", "exit", "rmv", "killed"}
    BY <1>0, <1>1 DEF TypeOK
  <2>5. fate[Proc(Peer(e))] = "exit" => main[Proc(Peer(e))] = "leave"
    BY <1>0, <1>1 DEF Lives
  <2> QED
    BY <1>5, <2>3, <2>4, <2>5 DEF Begun, Running, Dead
<1> QED
  BY <1>3, <1>4, <1>5 DEF Holding

(***************************************************************************)
(* What has been closed: the server closes only the control channel, the   *)
(* client the data channels first.                                         *)
(***************************************************************************)
LEMMA ClosedWhen ==
  ASSUME TypeOK, Shapes, NEW s \in Session, NEW k \in Channels
  PROVE  /\ at[End(s, k, "server")] \in Closed => main[S(s)] = "leave" /\ k = Control
         /\ at[End(s, k, "client")] \in Closed =>
              /\ main[C(s)] \in {"delete", "quit", "leave"}
              /\ k = Control => main[C(s)] = "leave"
<1>1. /\ chan[C(s)] \in 0..W /\ chan[S(s)] \in 0..W /\ k \in 0..W /\ W \in Nat
      /\ k # Control => k \in Workers
  BY SessionTypes DEF Channels, Workers, Control
<1>2. None \notin Closed /\ Ready \notin Closed
  BY DEF None, Ready, Closed, Gone
<1>3. /\ main[C(s)] \in {"none", "open", "next", "reply", "join", "delete", "quit", "leave"}
      /\ main[S(s)] \in {"none", "open", "next", "reply", "join", "delete", "quit", "leave"}
  BY SessionTypes
<1>4. ASSUME at[End(s, k, "server")] \in Closed
      PROVE  main[S(s)] = "leave" /\ k = Control
  <2>1. ServerShape(s)
    BY DEF Shapes
  <2>2. k <= chan[S(s)] /\ main[S(s)] # "none"
    BY <1>1, <1>2, <1>4, <2>1 DEF ServerShape
  <2>3. main[S(s)] = "leave"
    BY <1>1, <1>2, <1>3, <1>4, <2>1, <2>2 DEF ServerShape
  <2> QED
    BY <1>1, <1>2, <1>4, <2>1, <2>2, <2>3 DEF ServerShape
<1>5. ASSUME at[End(s, k, "client")] \in Closed
      PROVE  /\ main[C(s)] \in {"delete", "quit", "leave"}
             /\ k = Control => main[C(s)] = "leave"
  <2>1. ClientShape(s)
    BY DEF Shapes
  <2>2. main[C(s)] \notin {"none", "open", "next", "reply", "join"}
    BY <1>1, <1>2, <1>5, <2>1 DEF ClientShape
  <2> QED
    BY <1>2, <1>3, <1>5, <2>1, <2>2 DEF ClientShape
<1> QED
  BY <1>4, <1>5

(***************************************************************************)
(* Once a main thread is past its control channel both of them are, and    *)
(* talk.                                                                   *)
(***************************************************************************)
LEMMA ControlTalks ==
  ASSUME Inv, NEW s \in Session,
         \/ main[C(s)] \notin {"none", "open"}
         \/ main[S(s)] \notin {"none", "open"}
         \/ at[End(s, Control, "client")] \in Through
         \/ at[End(s, Control, "server")] \in Through
  PROVE  /\ at[End(s, Control, "client")] \in Through
         /\ at[End(s, Control, "server")] \in Through
         /\ Dialogue(s)
         /\ \A y \in {1, 2} :
              /\ fd[End(s, Control, "server")][y] = fd[End(s, Control, "client")][y]
              /\ fd[End(s, Control, "client")][y] \in 1..Len(pipes)
<1>0. TypeOK /\ Sync /\ Meet /\ Held /\ Shapes /\ Talking
  BY DEF Inv, Meeting
<1>1. /\ chan[C(s)] \in 0..W /\ chan[S(s)] \in 0..W /\ W \in Nat
      /\ Control \in Channels /\ Control = 0 /\ Ready \in Through
      /\ main[C(s)] \in {"none", "open", "next", "reply", "join", "delete", "quit", "leave"}
      /\ main[S(s)] \in {"none", "open", "next", "reply", "join", "delete", "quit", "leave"}
  BY <1>0, SessionTypes DEF Channels, Control, Through
<1>2. PICK c \in Ends, d \in Ends :
        /\ c = End(s, Control, "client") /\ d = End(s, Control, "server")
        /\ Peer(c) = d /\ Peer(d) = c
  BY <1>1, EndIs
<1>3. at[c] \in Through \/ at[d] \in Through
  <2>1. CASE main[C(s)] \notin {"none", "open"}
    <3>1. ClientShape(s)
      BY <1>0 DEF Shapes
    <3> QED
      BY <1>1, <1>2, <2>1, <3>1 DEF ClientShape
  <2>2. CASE main[S(s)] \notin {"none", "open"}
    <3>1. ServerShape(s)
      BY <1>0 DEF Shapes
    <3> QED
      BY <1>1, <1>2, <2>2, <3>1 DEF ServerShape
  <2> QED
    BY <1>2, <2>1, <2>2
<1>4. at[c] \in Through /\ at[d] \in Through /\ \A y \in {1, 2} : fd[d][y] = fd[c][y]
  BY <1>0, <1>2, <1>3, SharedPipes
<1>5. \A y \in {1, 2} : fd[c][y] \in 1..Len(pipes)
  BY <1>0, <1>4, ThroughPipes
<1>6. Dialogue(s)
  BY <1>0, <1>2, <1>4 DEF Talking
<1> QED
  BY <1>2, <1>4, <1>5, <1>6

(***************************************************************************)
(* A worker and a thread have a channel whose two ends are through.        *)
(***************************************************************************)
LEMMA DataTalks ==
  ASSUME Inv, NEW s \in Session, NEW k \in Workers,
         worker[<<s, k>>] # "none" \/ thread[<<s, k>>] # "none"
  PROVE  /\ at[End(s, k, "client")] \in Through
         /\ at[End(s, k, "server")] \in Through
         /\ Exchange(s, k)
         /\ \A y \in {1, 2} :
              /\ fd[End(s, k, "server")][y] = fd[End(s, k, "client")][y]
              /\ fd[End(s, k, "client")][y] \in 1..Len(pipes)
<1>0. TypeOK /\ Sync /\ Meet /\ Held /\ Shapes /\ Talking
  BY DEF Inv, Meeting
<1>1. k \in Channels
  BY <1>0, SessionTypes
<1>2. PICK c \in Ends, d \in Ends :
        /\ c = End(s, k, "client") /\ d = End(s, k, "server")
        /\ Peer(c) = d /\ Peer(d) = c
  BY <1>1, EndIs
<1>3. at[c] \in Through \/ at[d] \in Through
  BY <1>0, <1>2 DEF Shapes, WorkerShape
<1>4. at[c] \in Through /\ at[d] \in Through /\ \A y \in {1, 2} : fd[d][y] = fd[c][y]
  BY <1>0, <1>2, <1>3, SharedPipes
<1>5. \A y \in {1, 2} : fd[c][y] \in 1..Len(pipes)
  BY <1>0, <1>4, ThroughPipes
<1>6. Exchange(s, k)
  BY <1>0, <1>2, <1>4 DEF Talking
<1> QED
  BY <1>2, <1>4, <1>5, <1>6

(***************************************************************************)
(* A read or a write of the client's main thread fails.                    *)
(***************************************************************************)
LEMMA ClientEndsKeeps ==
  ASSUME Inv, NEW s \in Session, ClientEnds(s)
  PROVE  Inv'
<1>0. TypeOK /\ Shapes
  BY DEF Inv
<1>1. PICK c \in Ends, d \in Ends :
        /\ c = End(s, Control, "client") /\ d = End(s, Control, "server")
        /\ c = ControlOf(C(s)) /\ Peer(c) = d /\ Proc(c) = C(s) /\ Proc(d) = S(s)
        /\ <<c[1], SideOf(c)>> = Proc(c)
  <2>1. Control \in Channels
    BY <1>0, SessionTypes
  <2> QED
    BY <2>1, EndIs, EndParts DEF ControlOf
<1>2. /\ Running(C(s)) /\ main[C(s)] \in {"next", "reply", "quit"}
      /\ pipes[Out(c)].reader = {} \/ pipes[In(c)].writer = {}
      /\ \E f \in {"rmv", "killed"} : EndsAs(Proc(c), f)
  BY <1>1 DEF ClientEnds, MainAt, WriteEnds, ReadEnds
<1>3. at[c] \in Through /\ Dialogue(s)
  BY <1>1, <1>2, ControlTalks
<1>4. main[S(s)] # "leave"
  BY <1>2, <1>3 DEF Dialogue, Listening
<1>5. Dead(S(s))
  BY <1>0, <1>1, <1>2, <1>3, <1>4, Broken, ClosedWhen, SessionTypes
<1> QED
  BY <1>1, <1>2, <1>5, LastOneEnds

(***************************************************************************)
(* A read or a write of the server's main thread fails.                    *)
(***************************************************************************)
LEMMA ServerEndsKeeps ==
  ASSUME Inv, NEW s \in Session, ServerEnds(s)
  PROVE  Inv'
<1>0. TypeOK /\ Shapes
  BY DEF Inv
<1>1. PICK c \in Ends, d \in Ends :
        /\ c = End(s, Control, "client") /\ d = End(s, Control, "server")
        /\ d = ControlOf(S(s)) /\ Peer(d) = c /\ Proc(c) = C(s) /\ Proc(d) = S(s)
        /\ <<d[1], SideOf(d)>> = Proc(d) /\ SideOf(d) = "server"
  <2>1. Control \in Channels
    BY <1>0, SessionTypes
  <2> QED
    BY <2>1, EndIs, EndParts DEF ControlOf
<1>2. /\ Running(S(s))
      /\ \/ main[S(s)] = "next" /\ pipes[In(d)].data = <<>>
         \/ main[S(s)] = "reply"
      /\ pipes[Out(d)].reader = {} \/ pipes[In(d)].writer = {}
      /\ \E f \in {"rmv", "killed"} : EndsAs(Proc(d), f)
  BY <1>1 DEF ServerEnds, MainAt, WriteEnds, ReadEnds
<1>3. at[d] \in Through /\ Dialogue(s) /\ fd[d][2] = fd[c][2]
  BY <1>1, <1>2, ControlTalks
<1>4. main[C(s)] # "leave"
  <2>1. pipes[In(d)].data = Up(s, Control)
    BY <1>1, <1>3 DEF In, Up, ReadsFrom, WritesTo
  <2>2. SUFFICES ASSUME main[C(s)] = "leave" PROVE FALSE
    OBVIOUS
  <2>3. \/ Listening(s) /\ Up(s, Control) = <<Msg("quit")>>
        \/ main[S(s)] = "leave"
    BY <1>3, <2>2 DEF Dialogue
  <2>4. Listening(s) /\ Up(s, Control) = <<Msg("quit")>>
    BY <1>2, <2>3
  <2>5. main[S(s)] = "next" /\ pipes[In(d)].data = <<>>
    BY <1>2, <2>4 DEF Listening
  <2>6. Up(s, Control) = <<>>
    BY <2>1, <2>5
  <2>7. Up(s, Control) # <<>>
    BY <2>4
  <2> QED
    BY <2>6, <2>7
<1>5. Dead(C(s))
  BY <1>0, <1>1, <1>2, <1>3, <1>4, Broken, ClosedWhen, SessionTypes
<1> QED
  BY <1>1, <1>2, <1>5, LastOneEnds

(***************************************************************************)
(* A read or a write of a worker fails.                                    *)
(***************************************************************************)
LEMMA WorkerEndsKeeps ==
  ASSUME Inv, NEW s \in Session, NEW k \in Workers, WorkerEnds(s, k)
  PROVE  Inv'
<1>0. TypeOK /\ Shapes
  BY DEF Inv
<1>1. PICK c \in Ends, d \in Ends :
        /\ c = End(s, k, "client") /\ d = End(s, k, "server")
        /\ Peer(c) = d /\ Proc(c) = C(s) /\ Proc(d) = S(s)
        /\ <<c[1], SideOf(c)>> = Proc(c) /\ k \in Channels /\ k # Control
  <2>1. k \in Channels /\ k # Control
    BY <1>0, SessionTypes
  <2> QED
    BY <2>1, EndIs, EndParts
<1>2. /\ Running(C(s)) /\ worker[<<s, k>>] \in {"write", "read"}
      /\ pipes[Out(c)].reader = {} \/ pipes[In(c)].writer = {}
      /\ \E f \in {"rmv", "killed"} : EndsAs(Proc(c), f)
  BY <1>1 DEF WorkerEnds, WriteEnds, ReadEnds
<1>3. at[c] \in Through
  BY <1>1, <1>2, DataTalks
<1>4. main[S(s)] # "leave"
  <2> SUFFICES ASSUME main[S(s)] = "leave" PROVE FALSE
    OBVIOUS
  <2>1. Dialogue(s)
    BY ControlTalks
  <2>2. main[C(s)] = "leave"
    BY <2>1 DEF Dialogue, Listening
  <2> QED
    BY <1>0, <1>2, <2>2 DEF Shapes, WorkerShape
<1>5. Dead(S(s))
  BY <1>0, <1>1, <1>2, <1>3, <1>4, Broken, ClosedWhen
<1> QED
  BY <1>1, <1>2, <1>5, LastOneEnds

(***************************************************************************)
(* A read or a write of a server thread fails.                             *)
(***************************************************************************)
LEMMA ThreadEndsKeeps ==
  ASSUME Inv, NEW s \in Session, NEW k \in Workers, ThreadEnds(s, k)
  PROVE  Inv'
<1>0. TypeOK /\ Shapes
  BY DEF Inv
<1>1. PICK c \in Ends, d \in Ends :
        /\ c = End(s, k, "client") /\ d = End(s, k, "server")
        /\ Peer(d) = c /\ Proc(c) = C(s) /\ Proc(d) = S(s)
        /\ <<d[1], SideOf(d)>> = Proc(d) /\ SideOf(d) = "server"
        /\ k \in Channels /\ k # Control
  <2>1. k \in Channels /\ k # Control
    BY <1>0, SessionTypes
  <2> QED
    BY <2>1, EndIs, EndParts
<1>2. /\ Running(S(s))
      /\ \/ thread[<<s, k>>] = "read" /\ pipes[In(d)].data = <<>>
         \/ thread[<<s, k>>] = "reply"
      /\ pipes[Out(d)].reader = {} \/ pipes[In(d)].writer = {}
      /\ \E f \in {"rmv", "killed"} : EndsAs(Proc(d), f)
  BY <1>1 DEF ThreadEnds, WriteEnds, ReadEnds
<1>3. at[d] \in Through /\ Exchange(s, k) /\ fd[d][2] = fd[c][2]
  BY <1>1, <1>2, DataTalks
<1>4. worker[<<s, k>>] # "done"
  <2>1. pipes[In(d)].data = Up(s, k)
    BY <1>1, <1>3 DEF In, Up, ReadsFrom, WritesTo
  <2> QED
    BY <1>2, <1>3, <2>1 DEF Exchange
<1>5. main[C(s)] \notin {"delete", "quit", "leave"}
  BY <1>0, <1>4 DEF Shapes, WorkerShape
<1>6. Dead(C(s))
  BY <1>0, <1>1, <1>2, <1>3, <1>5, Broken, ClosedWhen
<1> QED
  BY <1>1, <1>2, <1>6, LastOneEnds

(***************************************************************************)
(* Somebody kills a process of the last session.                           *)
(***************************************************************************)
LEMMA CrashKeeps ==
  ASSUME Inv, NEW p \in Session \X Sides, Crash(p)
  PROVE  Inv'
<1>1. /\ Running(p) /\ Dies(p, "killed")
      /\ fault = "none" /\ fault' = "killed" /\ p[1] = Sessions
  BY DEF Crash, Fault
<1> QED
  BY <1>1, DiesKeeps

(***************************************************************************)
(* The client cannot create a worker: its files, which it removes, are     *)
(* needed by nobody, for its channels are through.                         *)
(***************************************************************************)
LEMMA LacksWorkerKeeps ==
  ASSUME Inv, NEW s \in Session, ClientLacksWorker(s)
  PROVE  Inv'
<1>0. TypeOK /\ Shapes /\ Sync
  BY DEF Inv, Meeting
<1>1. /\ Running(C(s)) /\ main[C(s)] = "open" /\ At(Current(C(s)), "ready")
      /\ fault = "none" /\ fault' = "no_worker" /\ s = Sessions
      /\ Dies(C(s), "rmv")
  BY DEF ClientLacksWorker, MainAt, Fault
<1>2. C(s) \in Session \X Sides /\ C(s)[1] = s /\ chan[C(s)] \in Channels
  BY <1>0, SessionTypes DEF C
<1>3. \A j \in Channels : at[End(s, j, "client")] \in {Ready, None}
  <2>1. ClientShape(s)
    BY <1>0 DEF Shapes
  <2>2. PICK k \in Channels : k = chan[C(s)]
    BY <1>2
  <2>3. at[End(s, k, "client")] = Ready
    <3>1. End(s, k, "client") \in Ends /\ Current(C(s)) = End(s, k, "client")
      BY <2>2, EndIs DEF Current
    <3>2. at[End(s, k, "client")][1] = "ready"
      BY <1>1, <3>1 DEF At
    <3>3. at[End(s, k, "client")] \in Fresh \cup Has(1)
      BY <3>1 DEF Inv, Meeting, Stages
    <3> QED
      BY <3>2, <3>3 DEF Fresh, Has, Passed, Halfway, Through, Closed, Ready, Gone, None
  <2>4. /\ \A j \in Channels : j < k => at[End(s, j, "client")] = Ready
        /\ \A j \in Channels : j > k => at[End(s, j, "client")] = None
    BY <1>1, <2>1, <2>2 DEF ClientShape
  <2>5. \A j \in Channels : j < k \/ j = k \/ j > k
    BY FifoAssumption DEF Channels
  <2> QED
    BY <2>3, <2>4, <2>5
<1>4. NobodyLeft(C(s))
  <2>1. ASSUME NEW e \in Ends, e[1] = Sessions, Proc(e) # C(s), NEW x \in {1, 2},
               at[Peer(e)] \in Has(x)
        PROVE  at[e] \in Has(x)
    <3>1. /\ Peer(e) \in Ends /\ Peer(Peer(e)) = e
          /\ e[2] \in Channels /\ e[3] \in {"client", "server"}
          /\ e = End(e[1], e[2], e[3]) /\ Proc(e) = <<e[1], e[3]>>
      BY EndParts DEF Sides, Proc
    <3>2. Peer(e) = End(s, e[2], "client")
      <4>1. e[3] = "server"
        BY <1>1, <2>1, <3>1 DEF C
      <4> QED
        BY <1>1, <2>1, <3>1, <4>1, EndIs
    <3>3. at[Peer(e)] \in Passed(x)
      BY <1>3, <2>1, <3>1, <3>2 DEF Has, Passed, Halfway, Through, Ready, Closed, Gone, None
    <3> QED
      BY <1>0, <3>1, <3>3 DEF Sync, Has
  <2> QED
    BY <1>1, <1>2, <2>1, OldOnesAreThrough
<1> QED
  BY <1>1, <1>2, <1>4, DiesKeeps

(***************************************************************************)
(* A process whose control channel is deleted exits.                       *)
(***************************************************************************)
LEMMA ExitKeeps ==
  ASSUME Inv, NEW p \in Session \X Sides, MainAt(p, "leave"),
         At(ControlOf(p), "gone"), EndsAs(p, "exit")
  PROVE  Inv'
<1>0. TypeOK /\ Stages
  BY DEF Inv, Meeting
<1>1. /\ Running(p) /\ main[p] = "leave" /\ Dies(p, "exit") /\ fault' = fault
      /\ fault \in {"none", "killed", "no_worker", "no_thread"}
  BY <1>0 DEF MainAt, EndsAs, TypeOK
<1>2. at[ControlOf(p)] = Gone
  <2>1. ControlOf(p) \in Ends
    BY FifoAssumption DEF ControlOf, End, Ends, Channels, Control
  <2>2. at[ControlOf(p)] \in Fresh \cup Has(1) /\ at[ControlOf(p)][1] = "gone"
    BY <1>0, <2>1 DEF Stages, At
  <2> QED
    BY <2>2 DEF Fresh, Has, Passed, Halfway, Through, Closed, Ready, Gone, None
<1> QED
  BY <1>1, <1>2, DiesKeeps

-----------------------------------------------------------------------------
(* The steps of the main threads, the workers and the threads.             *)

(***************************************************************************)
(* What one end of a channel writes is appended to the pipe that the other *)
(* one reads from, and no other pipe changes.                              *)
(***************************************************************************)
PairOf(s, k) == {fd[End(s, k, "client")][1], fd[End(s, k, "client")][2]}

Said(s, k, up, down) ==
  /\ SamePipes /\ pipes' \in Seq(Pipe) /\ fd' = fd
  /\ \A i \in 1..Len(pipes) : i \notin PairOf(s, k) => pipes'[i].data = pipes[i].data
  /\ Up(s, k)' = up /\ Down(s, k)' = down

Written(s, k, side, m) ==
  IF side = "client" THEN Said(s, k, Append(Up(s, k), m), Down(s, k))
  ELSE Said(s, k, Up(s, k), Append(Down(s, k), m))

Heard(s, k, side, m) ==
  IF side = "client"
  THEN /\ Down(s, k) # <<>> /\ m = Head(Down(s, k))
       /\ Said(s, k, Up(s, k), Tail(Down(s, k)))
  ELSE /\ Up(s, k) # <<>> /\ m = Head(Up(s, k))
       /\ Said(s, k, Tail(Up(s, k)), Down(s, k))

(***************************************************************************)
(* The pipes of a channel that is through are two, and both ends have      *)
(* them.                                                                   *)
(***************************************************************************)
LEMMA TwoPipes ==
  ASSUME TypeOK, Meeting, Naming, NEW s \in Session, NEW k \in Channels,
         at[End(s, k, "client")] \in Through
  PROVE  /\ at[End(s, k, "server")] \in Through
         /\ fd[End(s, k, "client")][1] \in 1..Len(pipes)
         /\ fd[End(s, k, "client")][2] \in 1..Len(pipes)
         /\ fd[End(s, k, "client")][1] # fd[End(s, k, "client")][2]
         /\ Out(End(s, k, "client")) = fd[End(s, k, "client")][2]
         /\ In(End(s, k, "client")) = fd[End(s, k, "client")][1]
         /\ Out(End(s, k, "server")) = fd[End(s, k, "client")][1]
         /\ In(End(s, k, "server")) = fd[End(s, k, "client")][2]
<1>0. Sync /\ Meet /\ Held /\ Named /\ OwnPipes
  BY DEF Meeting, Naming
<1>1. PICK c \in Ends, d \in Ends :
        /\ c = End(s, k, "client") /\ d = End(s, k, "server")
        /\ Peer(c) = d /\ c[3] = "client" /\ d[3] = "server"
        /\ SideOf(c) = "client" /\ SideOf(d) = "server"
  BY EndIs, EndParts
<1>2. at[d] \in Through /\ \A y \in {1, 2} : fd[d][y] = fd[c][y]
  BY <1>0, <1>1, SharedPipes
<1>3. \A y \in {1, 2} : fd[c][y] \in 1..Len(pipes) /\ fd[c][y] # NoPipe
  BY <1>0, <1>1, ThroughPipes
<1>4. fd[c][1] # fd[c][2]
  <2> SUFFICES ASSUME fd[c][1] = fd[c][2] PROVE FALSE
    OBVIOUS
  <2>1. PICK y \in {1, 2}, z \in {1, 2} : y = 1 /\ z = 2
    OBVIOUS
  <2>2. fd[c][y] # NoPipe /\ fd[c][y] = fd[c][z]
    BY <1>3, <2>1
  <2>3. y = z
    BY <1>0, <2>2, OtherPipes
  <2> QED
    BY <2>1, <2>3
<1>5. Out(c) = fd[c][2] /\ In(c) = fd[c][1] /\ Out(d) = fd[d][1] /\ In(d) = fd[d][2]
  BY <1>1 DEF Out, In, ReadsFrom, WritesTo
<1> QED
  BY <1>1, <1>2, <1>3, <1>4, <1>5

(***************************************************************************)
(* cwrite and cread of the ends of a channel that is through.              *)
(***************************************************************************)
LEMMA CwriteDoes ==
  ASSUME TypeOK, Meeting, Naming, NEW s \in Session, NEW k \in Channels,
         at[End(s, k, "client")] \in Through, fd' = fd,
         NEW side \in Sides, NEW m \in Message, Writes(End(s, k, side), m)
  PROVE  Written(s, k, side, m)
<1>0. Held
  BY DEF Meeting
<1>1. PICK c, e, i, j :
        /\ c = End(s, k, "client") /\ e = End(s, k, side)
        /\ i = fd[c][2] /\ j = fd[c][1]
  OBVIOUS
<1>2. e \in Ends /\ (side = "client" \/ side = "server")
  BY <1>1, EndIs DEF Sides
<1>3. /\ i \in 1..Len(pipes) /\ j \in 1..Len(pipes) /\ i # j /\ at[e] \in Through
      /\ Out(e) = IF side = "client" THEN i ELSE j
  BY <1>1, <1>2, TwoPipes
<1>4. /\ SamePipes /\ pipes' \in Seq(Pipe)
      /\ pipes'[Out(e)].data = Append(pipes[Out(e)].data, m)
      /\ \A x \in 1..Len(pipes) : x # Out(e) => pipes'[x] = pipes[x]
  BY <1>0, <1>1, <1>2, <1>3, WritesDoes
<1>5. /\ Up(s, k) = pipes[i].data /\ Down(s, k) = pipes[j].data
      /\ Up(s, k)' = pipes'[i].data /\ Down(s, k)' = pipes'[j].data
      /\ PairOf(s, k) = {i, j}
  BY <1>1 DEF Up, Down, PairOf
<1>6. \A x \in 1..Len(pipes) : x \notin PairOf(s, k) => pipes'[x].data = pipes[x].data
  BY <1>3, <1>4, <1>5
<1>7. CASE side = "client"
  <2>1. Up(s, k)' = Append(Up(s, k), m) /\ Down(s, k)' = Down(s, k)
    BY <1>3, <1>4, <1>5, <1>7
  <2> QED
    BY <1>4, <1>6, <1>7, <2>1 DEF Written, Said
<1>8. CASE side = "server"
  <2>1. Down(s, k)' = Append(Down(s, k), m) /\ Up(s, k)' = Up(s, k)
    BY <1>3, <1>4, <1>5, <1>8
  <2> QED
    BY <1>4, <1>6, <1>8, <2>1 DEF Written, Said
<1> QED
  BY <1>2, <1>7, <1>8

(***************************************************************************)
(* cread takes the oldest message of the pipe the end reads, and touches no*)
(* other pipe.                                                             *)
(***************************************************************************)
LEMMA CreadDoes ==
  ASSUME TypeOK, Meeting, Naming, NEW s \in Session, NEW k \in Channels,
         at[End(s, k, "client")] \in Through, fd' = fd,
         NEW side \in Sides, NEW m, Reads(End(s, k, side), m)
  PROVE  Heard(s, k, side, m)
<1>0. Held
  BY DEF Meeting
<1>1. PICK c, e, i, j :
        /\ c = End(s, k, "client") /\ e = End(s, k, side)
        /\ i = fd[c][2] /\ j = fd[c][1]
  OBVIOUS
<1>2. e \in Ends /\ (side = "client" \/ side = "server")
  BY <1>1, EndIs DEF Sides
<1>3. /\ i \in 1..Len(pipes) /\ j \in 1..Len(pipes) /\ i # j /\ at[e] \in Through
      /\ In(e) = IF side = "client" THEN j ELSE i
  BY <1>1, <1>2, TwoPipes
<1>4. /\ SamePipes /\ pipes' \in Seq(Pipe)
      /\ pipes[In(e)].data # <<>> /\ m = Head(pipes[In(e)].data)
      /\ pipes'[In(e)].data = Tail(pipes[In(e)].data)
      /\ \A x \in 1..Len(pipes) : x # In(e) => pipes'[x] = pipes[x]
  BY <1>0, <1>1, <1>2, <1>3, ReadsDoes
<1>5. /\ Up(s, k) = pipes[i].data /\ Down(s, k) = pipes[j].data
      /\ Up(s, k)' = pipes'[i].data /\ Down(s, k)' = pipes'[j].data
      /\ PairOf(s, k) = {i, j}
  BY <1>1 DEF Up, Down, PairOf
<1>6. \A x \in 1..Len(pipes) : x \notin PairOf(s, k) => pipes'[x].data = pipes[x].data
  BY <1>3, <1>4, <1>5
<1>7. CASE side = "client"
  <2>1. /\ Down(s, k) # <<>> /\ m = Head(Down(s, k))
        /\ Down(s, k)' = Tail(Down(s, k)) /\ Up(s, k)' = Up(s, k)
    BY <1>3, <1>4, <1>5, <1>7
  <2> QED
    BY <1>4, <1>6, <1>7, <2>1 DEF Heard, Said
<1>8. CASE side = "server"
  <2>1. /\ Up(s, k) # <<>> /\ m = Head(Up(s, k))
        /\ Up(s, k)' = Tail(Up(s, k)) /\ Down(s, k)' = Down(s, k)
    BY <1>3, <1>4, <1>5, <1>8
  <2> QED
    BY <1>4, <1>6, <1>8, <2>1 DEF Heard, Said
<1> QED
  BY <1>2, <1>7, <1>8

(***************************************************************************)
(* A step of a main thread, a worker or a thread of session s: no file and *)
(* no end of a pipe is touched, a constructor may begin, and only channel  *)
(* k may be written to or read from.                                       *)
(***************************************************************************)
Moves(s, k) ==
  /\ fd' = fd /\ file' = file /\ fate' = fate /\ stolen' = stolen
  /\ SamePipes /\ pipes' \in Seq(Pipe)
  /\ \A i \in 1..Len(pipes) :
       \/ pipes'[i].data = pipes[i].data
       \/ at[End(s, k, "client")] \in Through /\ i \in PairOf(s, k)
  /\ \A o \in Ends :
       at'[o] = at[o] \/ (o[1] = s /\ at[o] = None /\ at'[o] = <<"make", 1>>)
  /\ \A p \in Session \X Sides :
       \/ main'[p] = main[p] /\ chan'[p] = chan[p]
       \/ p[1] = s /\ Running(p) /\ main'[p] # "none"
  /\ \A t \in Session, j \in Workers :
       t # s \/ j # k => /\ worker'[<<t, j>>] = worker[<<t, j>>]
                         /\ thread'[<<t, j>>] = thread[<<t, j>>]
  /\ fault' = fault \/ fault = "none"


(***************************************************************************)
(* Such a step keeps what the other sessions and channels say.             *)
(***************************************************************************)
LEMMA MovesTalking ==
  ASSUME TypeOK, Meeting, Naming, Talking,
         NEW s \in Session, NEW k \in Channels, Moves(s, k),
         at[End(s, Control, "client")] \in Through =>
           \/ Dialogue(s)'
           \/ /\ k # Control /\ main'[C(s)] = main[C(s)] /\ chan'[C(s)] = chan[C(s)]
              /\ main'[S(s)] = main[S(s)] /\ chan'[S(s)] = chan[S(s)],
         k \in Workers /\ at[End(s, k, "client")] \in Through => Exchange(s, k)'
  PROVE  Talking'
<1>0. Held /\ Named /\ OwnPipes
  BY DEF Meeting, Naming
<1>1. /\ fd' = fd /\ SamePipes
      /\ \A o \in Ends : at'[o] \in Through <=> at[o] \in Through
  BY DEF Moves, None, Through, Closed, Ready, Gone
<1>2. ASSUME NEW t \in Session, NEW j \in Channels, ~(t = s /\ j = k),
             at[End(t, j, "client")] \in Through, NEW i \in 1..Len(pipes),
             i \in {fd[End(t, j, "client")][1], fd[End(t, j, "client")][2]}
      PROVE  pipes'[i].data = pipes[i].data
  <2> SUFFICES ASSUME at[End(s, k, "client")] \in Through, i \in PairOf(s, k)
               PROVE  FALSE
    BY DEF Moves
  <2>1. PICK c \in Ends, o \in Ends :
          /\ c = End(s, k, "client") /\ o = End(t, j, "client")
          /\ c[1] = s /\ c[2] = k /\ o[1] = t /\ o[2] = j
    BY EndIs
  <2>2. PICK y \in {1, 2}, z \in {1, 2} : fd[c][y] = i /\ fd[o][z] = i
    BY <1>2, <2>1 DEF PairOf
  <2>3. fd[c][y] # NoPipe
    BY <2>2 DEF NoPipe
  <2> QED
    BY <1>0, <1>2, <2>1, <2>2, <2>3, OtherPipes
<1>3. ASSUME NEW t \in Session, at'[End(t, Control, "client")] \in Through
      PROVE  Dialogue(t)'
  <2>1. /\ Control \in Channels /\ End(t, Control, "client") \in Ends
        /\ C(t) \in Session \X Sides /\ S(t) \in Session \X Sides
        /\ C(t)[1] = t /\ S(t)[1] = t
    BY EndIs, SessionTypes
  <2>2. at[End(t, Control, "client")] \in Through
    BY <1>1, <1>3, <2>1
  <2>3. CASE Dialogue(s)' /\ t = s
    BY <2>3
  <2>4. CASE ~(Dialogue(s)' /\ t = s)
    <3>1. /\ ~(t = s /\ Control = k)
          /\ main'[C(t)] = main[C(t)] /\ chan'[C(t)] = chan[C(t)]
          /\ main'[S(t)] = main[S(t)] /\ chan'[S(t)] = chan[S(t)]
      BY <2>1, <2>2, <2>4 DEF Moves
    <3>2. Dialogue(t)
      BY <2>2 DEF Talking
    <3>3. \A i \in 1..Len(pipes) :
            i \in {fd[End(t, Control, "client")][1], fd[End(t, Control, "client")][2]} =>
              pipes'[i].data = pipes[i].data
      BY <1>2, <2>1, <2>2, <3>1
    <3> QED
      BY <1>0, <1>1, <2>1, <2>2, <3>1, <3>2, <3>3, SameTalk
  <2> QED
    BY <2>3, <2>4
<1>4. ASSUME NEW t \in Session, NEW j \in Workers, at'[End(t, j, "client")] \in Through
      PROVE  Exchange(t, j)'
  <2>1. j \in Channels /\ End(t, j, "client") \in Ends
    BY EndIs, SessionTypes
  <2>2. at[End(t, j, "client")] \in Through
    BY <1>1, <1>4, <2>1
  <2>3. CASE t = s /\ j = k
    BY <2>2, <2>3
  <2>4. CASE ~(t = s /\ j = k)
    <3>1. /\ worker'[<<t, j>>] = worker[<<t, j>>]
          /\ thread'[<<t, j>>] = thread[<<t, j>>]
      BY <2>4 DEF Moves
    <3>2. Exchange(t, j)
      BY <2>2 DEF Talking
    <3>3. \A i \in 1..Len(pipes) :
            i \in {fd[End(t, j, "client")][1], fd[End(t, j, "client")][2]} =>
              pipes'[i].data = pipes[i].data
      BY <1>2, <2>1, <2>2, <2>4
    <3> QED
      BY <1>0, <1>1, <2>1, <2>2, <3>1, <3>2, <3>3, SameTalk
  <2> QED
    BY <2>3, <2>4
<1>5. Unwritten'
  <2> SUFFICES ASSUME NEW i \in 1..Len(pipes'), pipes'[i].data # <<>>
               PROVE  \E o \in Ends, y \in {1, 2} : at'[o] \in Through /\ fd'[o][y] = i
    BY DEF Unwritten
  <2>1. i \in 1..Len(pipes)
    BY <1>1 DEF SamePipes
  <2>2. CASE pipes[i].data # <<>>
    <3>1. PICK o \in Ends, y \in {1, 2} : at[o] \in Through /\ fd[o][y] = i
      BY <2>1, <2>2 DEF Talking, Unwritten
    <3> QED
      BY <1>1, <3>1
  <2>3. CASE pipes[i].data = <<>>
    <3>1. at[End(s, k, "client")] \in Through /\ i \in PairOf(s, k)
      BY <2>1, <2>3 DEF Moves
    <3>2. PICK y \in {1, 2} : fd[End(s, k, "client")][y] = i
      BY <3>1 DEF PairOf
    <3> QED
      BY <1>1, <3>1, <3>2, EndIs
  <2> QED
    BY <2>2, <2>3
<1> QED
  BY <1>3, <1>4, <1>5 DEF Talking

(***************************************************************************)
(* Such a step keeps the whole invariant, when it keeps the shape of its   *)
(* session and what is said on the two channels.                           *)
(***************************************************************************)
LEMMA MovesKeeps ==
  ASSUME Inv, NEW s \in Session, NEW k \in Channels, Moves(s, k),
         at' \in [Ends -> Points \X (1..2)],
         main' \in [Session \X Sides ->
                      {"none", "open", "next", "reply", "join", "delete", "quit", "leave"}],
         chan' \in [Session \X Sides -> Channels],
         worker' \in [Session \X Workers -> {"none", "write", "read", "done"}],
         todo' \in [Session -> 0..N],
         thread' \in [Session \X Workers -> {"none", "read", "reply", "done"}],
         fault' \in {"none", "killed", "no_worker", "no_thread"},
         ClientShape(s)', ServerShape(s)', WorkerShape(s)',
         at[End(s, Control, "client")] \in Through =>
           \/ Dialogue(s)'
           \/ /\ k # Control /\ main'[C(s)] = main[C(s)] /\ chan'[C(s)] = chan[C(s)]
              /\ main'[S(s)] = main[S(s)] /\ chan'[S(s)] = chan[S(s)],
         k \in Workers /\ at[End(s, k, "client")] \in Through => Exchange(s, k)'
  PROVE  Inv'
<1>0. TypeOK /\ Meeting /\ Naming /\ Lives /\ Shapes /\ Talking
  BY DEF Inv
<1>1. /\ fd' = fd /\ file' = file /\ fate' = fate /\ stolen' = stolen
      /\ SamePipes /\ pipes' \in Seq(Pipe) /\ (fault' = fault \/ fault = "none")
      /\ \A o \in Ends :
           at'[o] = at[o] \/ (o[1] = s /\ at[o] = None /\ at'[o] = <<"make", 1>>)
      /\ \A p \in Session \X Sides :
           \/ main'[p] = main[p] /\ chan'[p] = chan[p]
           \/ p[1] = s /\ Running(p) /\ main'[p] # "none"
      /\ \A t \in Session, j \in Workers :
           t # s \/ j # k => /\ worker'[<<t, j>>] = worker[<<t, j>>]
                             /\ thread'[<<t, j>>] = thread[<<t, j>>]
  BY DEF Moves
<1>2. TypeOK'
  <2>1. Len(pipes') = Len(pipes)
    BY <1>1 DEF SamePipes
  <2>2. /\ file' \in [Names -> 0..Len(pipes')]
        /\ fd' \in [Ends -> [1..2 -> 0..Len(pipes')]]
        /\ fate' \in [Session \X Sides -> {"unborn", "running", "exit", "rmv", "killed"}]
        /\ stolen' \in BOOLEAN
    BY <1>0, <1>1, <2>1 DEF TypeOK
  <2> QED
    BY <1>1, <2>2 DEF TypeOK
<1>3. Meeting'
  BY <1>0, <1>1, FreshMeeting
<1>4. Naming'
  <2>1. \A t \in Session : Begun(C(t))' <=> Begun(C(t))
    BY <1>1 DEF Begun
  <2> QED
    BY <1>0, <1>1, <2>1, FreshNaming DEF Naming
<1>5. Lives'
  <2>1. None # Gone
    BY DEF None, Gone
  <2> QED
    BY <1>0, <1>1, <2>1, LivesMoves
<1>6. Shapes'
  <2> SUFFICES ASSUME NEW t \in Session, t # s
               PROVE  ClientShape(t)' /\ ServerShape(t)' /\ WorkerShape(t)'
    BY DEF Shapes
  <2>1. ClientShape(t) /\ ServerShape(t) /\ WorkerShape(t)
    BY <1>0 DEF Shapes
  <2>2. /\ C(t) \in Session \X Sides /\ S(t) \in Session \X Sides
        /\ C(t)[1] = t /\ S(t)[1] = t
        /\ chan[C(t)] \in Channels /\ chan[S(t)] \in Channels
        /\ \A j \in Workers : j \in Channels
    BY <1>0, SessionTypes DEF C, S
  <2>3. /\ main'[C(t)] = main[C(t)] /\ chan'[C(t)] = chan[C(t)]
        /\ main'[S(t)] = main[S(t)] /\ chan'[S(t)] = chan[S(t)]
    BY <1>1, <2>2
  <2>4. \A j \in Channels :
          /\ at'[End(t, j, "client")] = at[End(t, j, "client")]
          /\ at'[End(t, j, "server")] = at[End(t, j, "server")]
    <3>1. \A o \in Ends : o[1] # s => at'[o] = at[o]
      BY <1>1
    <3>2. ASSUME NEW j \in Channels
          PROVE  /\ End(t, j, "client") \in Ends /\ End(t, j, "client")[1] = t
                 /\ End(t, j, "server") \in Ends /\ End(t, j, "server")[1] = t
      BY ONLY EndIs, t \in Session, j \in Channels
    <3> QED
      BY <3>1, <3>2
  <2>5. \A j \in Workers :
          /\ worker'[<<t, j>>] = worker[<<t, j>>]
          /\ thread'[<<t, j>>] = thread[<<t, j>>]
    BY <1>1
  <2>6. ClientShape(t)'
    BY <2>1, <2>2, <2>3, <2>4, ClientShapeKept
  <2>7. ServerShape(t)'
    BY <2>1, <2>2, <2>3, <2>4, ServerShapeKept
  <2>8. WorkerShape(t)'
    BY <2>1, <2>2, <2>3, <2>4, <2>5, WorkerShapeKept
  <2> QED
    BY <2>6, <2>7, <2>8
<1>7. Talking'
  BY <1>0, MovesTalking
<1> QED
  BY <1>2, <1>3, <1>4, <1>5, <1>6, <1>7 DEF Inv

(***************************************************************************)
(* The next run of the client: the session before it is over, so that the  *)
(* pipes which that one has left are not behind the names any more.        *)
(***************************************************************************)
LEMMA LaunchDoes ==
  ASSUME TypeOK, NEW s \in Session, Launch(s)
  PROVE  /\ ~Begun(C(s)) /\ (s > 1 => Begun(C(s - 1)) /\ ~Running(C(s - 1)))
         /\ \A p \in Session \X Sides :
              /\ fate'[p] = IF p = C(s) \/ p = S(s) THEN "running" ELSE fate[p]
              /\ main'[p] = IF p = C(s) \/ p = S(s) THEN "open" ELSE main[p]
         /\ \A o \in Ends :
              at'[o] = IF o = End(s, Control, "client") \/ o = End(s, Control, "server")
                       THEN <<"make", 1>> ELSE at[o]
         /\ UNCHANGED <<file, pipes, fd, chan, worker, todo, thread, stolen, fault>>
         /\ TypeOK'
<1>1. /\ fate' = [fate EXCEPT ![C(s)] = "running", ![S(s)] = "running"]
      /\ main' = [main EXCEPT ![C(s)] = "open", ![S(s)] = "open"]
      /\ at' = [at EXCEPT ![ControlOf(C(s))] = <<"make", 1>>,
                          ![ControlOf(S(s))] = <<"make", 1>>]
      /\ UNCHANGED <<file, pipes, fd, chan, worker, todo, thread, stolen, fault>>
      /\ ~Begun(C(s)) /\ (s > 1 => Begun(C(s - 1)) /\ ~Running(C(s - 1)))
  BY DEF Launch, history
<1>2. /\ ControlOf(C(s)) = End(s, Control, "client")
      /\ ControlOf(S(s)) = End(s, Control, "server")
  BY DEF ControlOf, C, S
<1>3. /\ fate \in [Session \X Sides -> {"unborn", "running", "exit", "rmv", "killed"}]
      /\ main \in [Session \X Sides ->
                     {"none", "open", "next", "reply", "join", "delete", "quit", "leave"}]
      /\ at \in [Ends -> Points \X (1..2)]
  BY DEF TypeOK
<1>4. \A p \in Session \X Sides :
        /\ fate'[p] = IF p = C(s) \/ p = S(s) THEN "running" ELSE fate[p]
        /\ main'[p] = IF p = C(s) \/ p = S(s) THEN "open" ELSE main[p]
  BY <1>1, <1>3
<1>5. \A o \in Ends :
        at'[o] = IF o = End(s, Control, "client") \/ o = End(s, Control, "server")
                 THEN <<"make", 1>> ELSE at[o]
  BY <1>1, <1>2, <1>3
<1>6. TypeOK'
  <2>1. fate' \in [Session \X Sides -> {"unborn", "running", "exit", "rmv", "killed"}]
    BY <1>1, <1>3
  <2>2. main' \in [Session \X Sides ->
                     {"none", "open", "next", "reply", "join", "delete", "quit", "leave"}]
    BY <1>1, <1>3
  <2>3. at' \in [Ends -> Points \X (1..2)]
    <3>1. <<"make", 1>> \in Points \X (1..2)
      BY DEF Points
    <3> QED
      BY <1>1, <1>3, <3>1
  <2> QED
    BY <1>1, <2>1, <2>2, <2>3 DEF TypeOK
<1> QED
  BY <1>1, <1>4, <1>5, <1>6

(***************************************************************************)
(* The session before one that is launched has exited.                     *)
(***************************************************************************)
LEMMA LaunchAfterExit ==
  ASSUME TypeOK, Lives, NEW s \in Session, ~Begun(C(s)),
         s > 1 => Begun(C(s - 1)) /\ ~Running(C(s - 1)),
         NEW t \in Session, t < s
  PROVE  fate[C(t)] = "exit"
<1>1. s \in 1..Sessions /\ t \in 1..Sessions /\ Sessions \in Nat
  BY FifoAssumption DEF Session
<1>2. PICK r \in Session : r = s - 1
  BY <1>1 DEF Session
<1>3. Begun(C(r)) /\ ~Running(C(r)) /\ r # Sessions
  BY <1>1, <1>2
<1>4. fate[C(r)] = "exit"
  <2>1. C(r) \in Session \X Sides /\ C(r)[1] = r
    BY DEF C, Sides
  <2>2. fate[C(r)] \in {"unborn", "running", "exit", "rmv", "killed"}
    BY <2>1 DEF TypeOK
  <2> QED
    BY <1>3, <2>1, <2>2 DEF Lives, Begun, Running
<1>5. t = r \/ t < r
  BY <1>1, <1>2
<1> QED
  BY <1>3, <1>4, <1>5 DEF Lives

(***************************************************************************)
(* A session is begun only when the client before it has ended, so the     *)
(* invariant holds of the new one as of the old ones (pa6/test.sh).        *)
(***************************************************************************)
LEMMA LaunchKeeps ==
  ASSUME Inv, NEW s \in Session, Launch(s)
  PROVE  Inv'
<1>0. TypeOK /\ Meeting /\ Naming /\ Lives /\ Shapes /\ Talking /\ Sync
  BY DEF Inv, Meeting
<1>1. PICK c \in Ends, d \in Ends :
        /\ c = End(s, Control, "client") /\ d = End(s, Control, "server")
        /\ c[1] = s /\ d[1] = s /\ c # d /\ C(s) # S(s)
        /\ C(s) \in Session \X Sides /\ S(s) \in Session \X Sides
        /\ C(s)[1] = s /\ S(s)[1] = s
  <2>1. Control \in Channels
    BY <1>0, SessionTypes
  <2> QED
    BY <2>1, EndIs
<1>2. /\ ~Begun(C(s)) /\ (s > 1 => Begun(C(s - 1)) /\ ~Running(C(s - 1)))
      /\ \A p \in Session \X Sides :
           /\ fate'[p] = IF p = C(s) \/ p = S(s) THEN "running" ELSE fate[p]
           /\ main'[p] = IF p = C(s) \/ p = S(s) THEN "open" ELSE main[p]
      /\ \A o \in Ends : at'[o] = IF o = c \/ o = d THEN <<"make", 1>> ELSE at[o]
      /\ UNCHANGED <<file, pipes, fd, chan, worker, todo, thread, stolen, fault>>
      /\ TypeOK'
  BY <1>0, <1>1, LaunchDoes
<1>3. \A t \in Session : t < s => fate[C(t)] = "exit"
  BY <1>0, <1>2, LaunchAfterExit
<1>4. \A o \in Ends : o[1] = s => at[o] = None
  BY <1>0, <1>2, Unborn
<1>5. ~Begun(S(s))
  BY <1>0, <1>2 DEF Lives
<1>6. \A t \in Session :
        /\ C(t) \in Session \X Sides /\ S(t) \in Session \X Sides
        /\ (C(t) = C(s) \/ C(t) = S(s) <=> t = s)
        /\ (S(t) = C(s) \/ S(t) = S(s) <=> t = s)
  BY <1>1, EndIs DEF C, S, Sides
<1>7. SamePipes
  BY <1>2 DEF SamePipes
<1>8. Meeting'
  <2>1. \A o \in Ends : \/ fate'[Proc(o)] = fate[Proc(o)]
                        \/ at[o] = None /\ at[Peer(o)] = None
    <3> SUFFICES ASSUME NEW o \in Ends, fate'[Proc(o)] # fate[Proc(o)]
                 PROVE  at[o] = None /\ at[Peer(o)] = None
      OBVIOUS
    <3>1. /\ Peer(o) \in Ends /\ Peer(o)[1] = o[1] /\ Proc(o)[1] = o[1]
          /\ Proc(o) \in Session \X Sides
      BY EndParts DEF Proc
    <3>2. o[1] = s
      BY <1>1, <1>2, <3>1
    <3> QED
      BY <1>4, <3>1, <3>2
  <2>2. \A o \in Ends : at'[o] = at[o] \/ (at[o] = None /\ at'[o] = <<"make", 1>>)
    BY <1>1, <1>2, <1>4
  <2> QED
    BY <1>0, <1>2, <1>7, <2>1, <2>2, FreshMeeting
<1>9. Naming'
  <2>1. Named' /\ OwnPipes' /\ Removed'
    <3>1. \A o \in Ends : at'[o] = at[o] \/ at'[o] = <<"make", 1>>
      BY <1>2
    <3> QED
      BY <1>0, <1>2, <1>7, <3>1, FreshNaming
  <2>2. Newest'
    <3> SUFFICES ASSUME NEW n \in Names, file[n] # NoPipe
                 PROVE  /\ \A t \in Session : Begun(C(t))' => pipes[file[n]].by >= t
                        /\ pipes[file[n]].by = 1 \/ Begun(C(pipes[file[n]].by))'
      BY <1>2 DEF Newest
    <3>1. PICK b \in Session : b = pipes[file[n]].by
      <4>1. pipes[file[n]] \in Pipe
        <5>1. file[n] \in 1..Len(pipes) /\ pipes \in Seq(Pipe)
          BY <1>0 DEF TypeOK, NoPipe
        <5> QED
          BY <5>1
      <4> QED
        BY <4>1, PipeParts
    <3>2. /\ \A t \in Session : Begun(C(t)) => b >= t
          /\ b = 1 \/ Begun(C(b))
      BY <1>0, <3>1 DEF Naming, Newest
    <3>3. \A t \in Session : Begun(C(t))' <=> Begun(C(t)) \/ t = s
      BY <1>2, <1>6 DEF Begun
    <3>4. b >= s
      <4>1. CASE s = 1
        BY <4>1 DEF Session
      <4>2. CASE s # 1
        <5>1. PICK r \in Session : r = s - 1
          BY <4>2, FifoAssumption DEF Session
        <5>2. fate[C(r)] = "exit"
          BY <1>3, <5>1 DEF Session
        <5>3. PICK k \in Channels, x \in {1, 2} : n = <<k, x>>
          BY DEF Names
        <5>4. at[End(r, k, "client")] = Gone
          <6>1. /\ End(r, k, "client") \in Ends /\ End(r, k, "client")[1] = r
                /\ End(r, k, "client")[3] = "client"
            BY EndIs
          <6> QED
            BY <1>0, <5>2, <6>1, Over
        <5>5. b > r
          BY <1>0, <3>1, <5>3, <5>4 DEF Naming, Removed
        <5> QED
          BY <5>1, <5>5 DEF Session
      <4> QED
        BY <4>1, <4>2
    <3>5. \A t \in Session : Begun(C(t))' => b >= t
      BY <3>2, <3>3, <3>4
    <3>6. b = 1 \/ Begun(C(b))'
      BY <3>1, <3>2, <3>3
    <3>7. file' = file /\ pipes' = pipes
      BY <1>2
    <3> QED
      BY <3>1, <3>5, <3>6, <3>7
  <2> QED
    BY <2>1, <2>2 DEF Naming
<1>10. Lives'
  <2>1. /\ \A t \in Session : Begun(C(t)) <=> Begun(S(t))
        /\ \A p \in Session \X Sides :
             /\ Begun(p) <=> main[p] # "none"
             /\ fate[p] = "exit" => main[p] = "leave" /\ at[ControlOf(p)] = Gone
             /\ fate[p] \in {"rmv", "killed"} =>
                  p[1] = Sessions /\ fault \in {"killed", "no_worker"}
        /\ \A a, t \in Session : a < t /\ Begun(C(t)) => fate[C(a)] = "exit"
    BY <1>0 DEF Lives
  <2>2. \A t \in Session : /\ Begun(C(t))' <=> Begun(C(t)) \/ t = s
                           /\ Begun(S(t))' <=> Begun(S(t)) \/ t = s
    BY <1>2, <1>6 DEF Begun
  <2>3. ASSUME NEW p \in Session \X Sides
        PROVE  /\ Begun(p)' <=> main'[p] # "none"
               /\ fate'[p] = "exit" => main'[p] = "leave" /\ at'[ControlOf(p)] = Gone
               /\ fate'[p] \in {"rmv", "killed"} =>
                    p[1] = Sessions /\ fault' \in {"killed", "no_worker"}
    <3>1. CASE p = C(s) \/ p = S(s)
      BY <1>2, <3>1 DEF Begun
    <3>2. CASE ~(p = C(s) \/ p = S(s))
      <4>1. /\ p = <<p[1], p[2]>> /\ p[2] \in {"client", "server"}
            /\ ControlOf(p) \in Ends /\ ControlOf(p)[1] = p[1] /\ ControlOf(p)[3] = p[2]
        BY FifoAssumption DEF ControlOf, End, Ends, Channels, Control, Sides
      <4>2. ControlOf(p) # c /\ ControlOf(p) # d
        BY <1>1, <3>2, <4>1, EndIs, SessionTypes, <1>0 DEF C, S
      <4>3. /\ fate'[p] = fate[p] /\ main'[p] = main[p] /\ fault' = fault
            /\ at'[ControlOf(p)] = at[ControlOf(p)]
        BY <1>2, <3>2, <4>1, <4>2
      <4> QED
        BY <2>1, <4>3 DEF Begun
    <3> QED
      BY <3>1, <3>2
  <2>4. ASSUME NEW a \in Session, NEW t \in Session, a < t, Begun(C(t))'
        PROVE  fate'[C(a)] = "exit"
    <3>1. fate[C(a)] = "exit"
      BY <1>3, <2>1, <2>2, <2>4
    <3>2. a # s
      BY <1>2, <3>1 DEF Begun
    <3> QED
      BY <1>2, <1>6, <3>1, <3>2
  <2> QED
    BY <2>1, <2>2, <2>3, <2>4 DEF Lives
<1>11. Shapes'
  <2> SUFFICES ASSUME NEW t \in Session
               PROVE  ClientShape(t)' /\ ServerShape(t)' /\ WorkerShape(t)'
    BY DEF Shapes
  <2>1. /\ ClientShape(t) /\ ServerShape(t) /\ WorkerShape(t)
        /\ chan[C(t)] \in Channels /\ chan[S(t)] \in Channels
    BY <1>0, SessionTypes DEF Shapes
  <2>2. \A j \in Workers : j \in Channels /\ j # Control
    BY <1>0, SessionTypes
  <2>3. CASE t # s
    <3>1. /\ main'[C(t)] = main[C(t)] /\ main'[S(t)] = main[S(t)]
          /\ chan' = chan /\ worker' = worker /\ thread' = thread
      BY <1>2, <1>6, <2>3
    <3>2. \A o \in Ends : o[1] = t => at'[o] = at[o]
      BY <1>1, <1>2, <2>3
    <3>3. \A j \in Channels :
            /\ at'[End(t, j, "client")] = at[End(t, j, "client")]
            /\ at'[End(t, j, "server")] = at[End(t, j, "server")]
      BY <3>2, EndIs
    <3>4. ClientShape(t)'
      BY <2>1, <3>1, <3>3, ClientShapeKept
    <3>5. ServerShape(t)'
      BY <2>1, <3>1, <3>3, ServerShapeKept
    <3>6. WorkerShape(t)'
      BY <2>1, <2>2, <3>1, <3>3, WorkerShapeKept
    <3> QED
      BY <3>4, <3>5, <3>6
  <2>4. CASE t = s
    <3>1. /\ main'[C(s)] = "open" /\ main'[S(s)] = "open"
          /\ chan'[C(s)] = Control /\ chan'[S(s)] = Control
      <4>1. main[C(s)] = "none" /\ main[S(s)] = "none"
        BY <1>0, <1>1, <1>2, <1>5 DEF Lives
      <4>2. chan[C(s)] = Control /\ chan[S(s)] = Control
        BY <2>1, <2>4, <4>1 DEF ClientShape, ServerShape
      <4> QED
        BY <1>1, <1>2, <4>2
    <3>2. /\ at'[End(s, Control, "client")] = <<"make", 1>>
          /\ at'[End(s, Control, "server")] = <<"make", 1>>
          /\ <<"make", 1>> # None /\ <<"make", 1>> \notin Closed
      BY <1>1, <1>2 DEF None, Closed, Gone
    <3>3. \A j \in Channels : j # Control =>
            /\ at'[End(s, j, "client")] = None
            /\ at'[End(s, j, "server")] = None
            /\ at[End(s, j, "client")] = None
            /\ at[End(s, j, "server")] = None
      <4> SUFFICES ASSUME NEW j \in Channels, j # Control
                   PROVE  /\ at'[End(s, j, "client")] = None
                          /\ at'[End(s, j, "server")] = None
                          /\ at[End(s, j, "client")] = None
                          /\ at[End(s, j, "server")] = None
        OBVIOUS
      <4>1. /\ End(s, j, "client") \in Ends /\ End(s, j, "server") \in Ends
            /\ End(s, j, "client")[1] = s /\ End(s, j, "server")[1] = s
            /\ End(s, j, "client")[2] = j /\ End(s, j, "server")[2] = j
        BY EndIs
      <4>2. c[2] = Control /\ d[2] = Control
        BY <1>1 DEF End
      <4> QED
        BY <1>2, <1>4, <4>1, <4>2
    <3>4. \A j \in Channels : j < Control \/ j > Control => j # Control
      BY DEF Channels, Control
    <3>5. \A j \in Channels : ~(j < Control)
      BY FifoAssumption DEF Channels, Control
    <3>6. ClientShape(s)'
      BY <3>1, <3>2, <3>3, <3>4, <3>5 DEF ClientShape
    <3>7. ServerShape(s)'
      BY <3>1, <3>2, <3>3, <3>4, <3>5 DEF ServerShape
    <3>8. WorkerShape(s)'
      <4>1. \A j \in Workers : worker[<<s, j>>] = "none" /\ thread[<<s, j>>] = "none"
        <5>1. None \notin Through
          BY DEF None, Through, Closed, Ready, Gone
        <5> QED
          BY <2>1, <2>2, <2>4, <3>3, <5>1 DEF WorkerShape
      <4> QED
        BY <1>2, <3>1, <4>1 DEF WorkerShape
    <3> QED
      BY <2>4, <3>6, <3>7, <3>8
  <2> QED
    BY <2>3, <2>4
<1>12. Talking'
  <2>1. \A o \in Ends : /\ at'[o] \in Through <=> at[o] \in Through
                        /\ at[o] \in Through => o[1] # s
    BY <1>1, <1>2, <1>4 DEF None, Through, Closed, Ready, Gone
  <2>2. Held
    BY <1>0 DEF Meeting
  <2>3. ASSUME NEW t \in Session, at'[End(t, Control, "client")] \in Through
        PROVE  Dialogue(t)'
    <3>1. /\ Control \in Channels /\ End(t, Control, "client") \in Ends
          /\ End(t, Control, "client")[1] = t
      BY <1>0, EndIs, SessionTypes
    <3>2. at[End(t, Control, "client")] \in Through /\ t # s
      BY <2>1, <2>3, <3>1
    <3>3. Dialogue(t)
      BY <1>0, <3>2 DEF Talking
    <3>4. main'[C(t)] = main[C(t)] /\ main'[S(t)] = main[S(t)] /\ chan' = chan
      BY <1>2, <1>6, <3>2
    <3> QED
      BY <1>0, <1>2, <2>2, <3>1, <3>2, <3>3, <3>4, SameTalk
  <2>4. ASSUME NEW t \in Session, NEW j \in Workers, at'[End(t, j, "client")] \in Through
        PROVE  Exchange(t, j)'
    <3>1. j \in Channels /\ End(t, j, "client") \in Ends
      BY <1>0, EndIs, SessionTypes
    <3>2. at[End(t, j, "client")] \in Through
      BY <2>1, <2>4, <3>1
    <3>3. Exchange(t, j)
      BY <1>0, <3>2 DEF Talking
    <3> QED
      BY <1>0, <1>2, <2>2, <3>1, <3>2, <3>3, SameTalk
  <2>5. Unwritten'
    BY <1>0, <1>2, <2>1 DEF Talking, Unwritten
  <2> QED
    BY <2>3, <2>4, <2>5 DEF Talking
<1> QED
  BY <1>2, <1>8, <1>9, <1>10, <1>11, <1>12 DEF Inv

(***************************************************************************)
(* A main thread says something on the control channel, or nothing, and    *)
(* may begin a constructor.                                                *)
(***************************************************************************)
GoesOn(p) ==
  /\ Running(p) /\ main'[p] # "none"
  /\ UNCHANGED <<file, fd, fate, worker, todo, thread, stolen, fault>>
  /\ at' \in [Ends -> Points \X (1..2)]
  /\ main' \in [Session \X Sides ->
                  {"none", "open", "next", "reply", "join", "delete", "quit", "leave"}]
  /\ chan' \in [Session \X Sides -> Channels]
  /\ \A q \in Session \X Sides : q # p => main'[q] = main[q] /\ chan'[q] = chan[q]
  /\ \A o \in Ends :
       \/ at'[o] = at[o]
       \/ Proc(o) = p /\ at[o] = None /\ at'[o] = <<"make", 1>>
  /\ \/ pipes' = pipes
     \/ \E up, down : Said(p[1], Control, up, down)

(***************************************************************************)
(* A main thread that goes on has changed nothing but its own place and its*)
(* control channel.                                                        *)
(***************************************************************************)
LEMMA GoesOnMoves ==
  ASSUME Inv, NEW s \in Session, NEW p \in {C(s), S(s)}, GoesOn(p),
         at[End(s, Control, "client")] \in Through \/ pipes' = pipes
  PROVE  Moves(s, Control) /\ worker' = worker /\ thread' = thread
<1>1. p \in Session \X Sides /\ p[1] = s /\ \A o \in Ends : Proc(o) = p => o[1] = s
  BY DEF C, S, Sides, Proc
<1>2. /\ UNCHANGED <<file, fd, fate, worker, todo, thread, stolen, fault>>
      /\ Running(p) /\ main'[p] # "none"
      /\ \A q \in Session \X Sides : q # p => main'[q] = main[q] /\ chan'[q] = chan[q]
      /\ \A o \in Ends :
           \/ at'[o] = at[o]
           \/ Proc(o) = p /\ at[o] = None /\ at'[o] = <<"make", 1>>
  BY DEF GoesOn
<1>3. /\ SamePipes /\ pipes' \in Seq(Pipe)
      /\ \A i \in 1..Len(pipes) :
           \/ pipes'[i].data = pipes[i].data
           \/ at[End(s, Control, "client")] \in Through /\ i \in PairOf(s, Control)
  <2>1. CASE pipes' = pipes
    BY <2>1 DEF SamePipes, Inv, TypeOK
  <2>2. CASE pipes' # pipes
    <3>1. PICK up, down : Said(s, Control, up, down)
      BY <1>1, <2>2 DEF GoesOn
    <3> QED
      BY <2>2, <3>1 DEF Said
  <2> QED
    BY <2>1, <2>2
<1>4. \A o \in Ends :
        at'[o] = at[o] \/ (o[1] = s /\ at[o] = None /\ at'[o] = <<"make", 1>>)
  BY <1>1, <1>2
<1>5. \A q \in Session \X Sides :
        \/ main'[q] = main[q] /\ chan'[q] = chan[q]
        \/ q[1] = s /\ Running(q) /\ main'[q] # "none"
  BY <1>1, <1>2
<1> QED
  BY <1>2, <1>3, <1>4, <1>5 DEF Moves

(***************************************************************************)
(* A step of the client's main thread keeps the invariant if it keeps the  *)
(* shape of the client and what is said on the control channel.            *)
(***************************************************************************)
LEMMA ClientGoesOn ==
  ASSUME Inv, NEW s \in Session, GoesOn(C(s)), ClientShape(s)',
         at[End(s, Control, "client")] \in Through => Dialogue(s)',
         at[End(s, Control, "client")] \in Through \/ pipes' = pipes,
         main'[C(s)] = "open" => at[End(s, chan'[C(s)], "client")] = None,
         main'[C(s)] \in {"delete", "quit", "leave"} =>
           \A j \in Workers : worker[<<s, j>>] = "done"
  PROVE  Inv'
<1>0. TypeOK /\ Shapes
  BY DEF Inv
<1>1. /\ C(s) \in Session \X Sides /\ S(s) \in Session \X Sides /\ C(s) # S(s)
      /\ chan[S(s)] \in Channels /\ Control \in Channels
      /\ \A j \in Workers : j \in Channels /\ j # Control
  BY <1>0, SessionTypes DEF C, S
<1>2. Moves(s, Control) /\ worker' = worker /\ thread' = thread
  BY GoesOnMoves
<1>3. /\ UNCHANGED <<todo, fault>>
      /\ at' \in [Ends -> Points \X (1..2)]
      /\ main' \in [Session \X Sides ->
                      {"none", "open", "next", "reply", "join", "delete", "quit", "leave"}]
      /\ chan' \in [Session \X Sides -> Channels]
      /\ \A q \in Session \X Sides : q # C(s) => main'[q] = main[q] /\ chan'[q] = chan[q]
      /\ \A o \in Ends :
           \/ at'[o] = at[o]
           \/ Proc(o) = C(s) /\ at[o] = None /\ at'[o] = <<"make", 1>>
  BY DEF GoesOn
<1>4. ServerShape(s)'
  <2>1. ServerShape(s)
    BY <1>0 DEF Shapes
  <2>2. ASSUME NEW j \in Channels
        PROVE  at'[End(s, j, "server")] = at[End(s, j, "server")]
    <3>1. End(s, j, "server") \in Ends /\ Proc(End(s, j, "server")) = S(s)
      BY ONLY EndIs, s \in Session, j \in Channels
    <3> QED
      BY <1>1, <1>3, <3>1
  <2> QED
    BY <1>1, <1>3, <2>1, <2>2, ServerShapeKept
<1>5. WorkerShape(s)'
  <2>1. WorkerShape(s)
    BY <1>0 DEF Shapes
  <2>2. \A o \in Ends : at[o] \in Through => at'[o] \in Through /\ at[o] # None
    BY <1>3 DEF None, Through, Closed, Ready, Gone
  <2>3. ASSUME NEW j \in Workers
        PROVE  End(s, j, "client") \in Ends /\ End(s, j, "server") \in Ends
    BY <1>1, EndIs
  <2>4. ASSUME NEW j \in Workers, worker'[<<s, j>>] # "none"
        PROVE  /\ at'[End(s, j, "client")] \in Through
               /\ ~(main'[C(s)] = "open" /\ chan'[C(s)] = j)
    <3>1. at[End(s, j, "client")] \in Through
      BY <1>2, <2>1, <2>4 DEF WorkerShape
    <3> QED
      BY <2>2, <2>3, <3>1
  <2>5. ASSUME NEW j \in Workers, thread'[<<s, j>>] # "none"
        PROVE  /\ at'[End(s, j, "server")] \in Through
               /\ ~(main'[S(s)] = "open" /\ chan'[S(s)] = j)
    <3>1. /\ at[End(s, j, "server")] \in Through
          /\ ~(main[S(s)] = "open" /\ chan[S(s)] = j)
      BY <1>2, <2>1, <2>5 DEF WorkerShape
    <3> QED
      BY <1>1, <1>3, <2>2, <2>3, <3>1
  <2> QED
    BY <1>2, <2>4, <2>5 DEF WorkerShape
<1>6. /\ worker' \in [Session \X Workers -> {"none", "write", "read", "done"}]
      /\ todo' \in [Session -> 0..N]
      /\ thread' \in [Session \X Workers -> {"none", "read", "reply", "done"}]
      /\ fault' \in {"none", "killed", "no_worker", "no_thread"}
      /\ Control \notin Workers
  BY <1>0, <1>1, <1>2, <1>3 DEF TypeOK
<1> QED
  BY <1>1, <1>2, <1>3, <1>4, <1>5, <1>6, MovesKeeps

(***************************************************************************)
(* The same for the server's main thread.                                  *)
(***************************************************************************)
LEMMA ServerGoesOn ==
  ASSUME Inv, NEW s \in Session, GoesOn(S(s)), ServerShape(s)',
         at[End(s, Control, "client")] \in Through => Dialogue(s)',
         at[End(s, Control, "client")] \in Through \/ pipes' = pipes,
         main'[S(s)] = "open" => at[End(s, chan'[S(s)], "server")] = None
  PROVE  Inv'
<1>0. TypeOK /\ Shapes
  BY DEF Inv
<1>1. /\ C(s) \in Session \X Sides /\ S(s) \in Session \X Sides /\ C(s) # S(s)
      /\ chan[C(s)] \in Channels /\ Control \in Channels
      /\ \A j \in Workers : j \in Channels /\ j # Control
  BY <1>0, SessionTypes DEF C, S
<1>2. Moves(s, Control) /\ worker' = worker /\ thread' = thread
  BY GoesOnMoves
<1>3. /\ UNCHANGED <<todo, fault>>
      /\ at' \in [Ends -> Points \X (1..2)]
      /\ main' \in [Session \X Sides ->
                      {"none", "open", "next", "reply", "join", "delete", "quit", "leave"}]
      /\ chan' \in [Session \X Sides -> Channels]
      /\ \A q \in Session \X Sides : q # S(s) => main'[q] = main[q] /\ chan'[q] = chan[q]
      /\ \A o \in Ends :
           \/ at'[o] = at[o]
           \/ Proc(o) = S(s) /\ at[o] = None /\ at'[o] = <<"make", 1>>
  BY DEF GoesOn
<1>4. ClientShape(s)'
  <2>1. ClientShape(s)
    BY <1>0 DEF Shapes
  <2>2. ASSUME NEW j \in Channels
        PROVE  at'[End(s, j, "client")] = at[End(s, j, "client")]
    <3>1. End(s, j, "client") \in Ends /\ Proc(End(s, j, "client")) = C(s)
      BY ONLY EndIs, s \in Session, j \in Channels
    <3> QED
      BY <1>1, <1>3, <3>1
  <2> QED
    BY <1>1, <1>3, <2>1, <2>2, ClientShapeKept
<1>5. WorkerShape(s)'
  <2>1. WorkerShape(s)
    BY <1>0 DEF Shapes
  <2>2. \A o \in Ends : at[o] \in Through => at'[o] \in Through /\ at[o] # None
    BY <1>3 DEF None, Through, Closed, Ready, Gone
  <2>3. ASSUME NEW j \in Workers
        PROVE  End(s, j, "client") \in Ends /\ End(s, j, "server") \in Ends
    BY <1>1, EndIs
  <2>4. ASSUME NEW j \in Workers, worker'[<<s, j>>] # "none"
        PROVE  /\ at'[End(s, j, "client")] \in Through
               /\ ~(main'[C(s)] = "open" /\ chan'[C(s)] = j)
    <3>1. /\ at[End(s, j, "client")] \in Through
          /\ ~(main[C(s)] = "open" /\ chan[C(s)] = j)
      BY <1>2, <2>1, <2>4 DEF WorkerShape
    <3> QED
      BY <1>1, <1>3, <2>2, <2>3, <3>1
  <2>5. ASSUME NEW j \in Workers, thread'[<<s, j>>] # "none"
        PROVE  /\ at'[End(s, j, "server")] \in Through
               /\ ~(main'[S(s)] = "open" /\ chan'[S(s)] = j)
    <3>1. at[End(s, j, "server")] \in Through
      BY <1>2, <2>1, <2>5 DEF WorkerShape
    <3> QED
      BY <2>2, <2>3, <3>1
  <2>6. main'[C(s)] \in {"delete", "quit", "leave"} =>
          \A j \in Workers : worker'[<<s, j>>] = "done"
    BY <1>1, <1>2, <1>3, <2>1 DEF WorkerShape
  <2> QED
    BY <2>4, <2>5, <2>6 DEF WorkerShape
<1>6. /\ worker' \in [Session \X Workers -> {"none", "write", "read", "done"}]
      /\ todo' \in [Session -> 0..N]
      /\ thread' \in [Session \X Workers -> {"none", "read", "reply", "done"}]
      /\ fault' \in {"none", "killed", "no_worker", "no_thread"}
      /\ Control \notin Workers
  BY <1>0, <1>1, <1>2, <1>3 DEF TypeOK
<1> QED
  BY <1>1, <1>2, <1>3, <1>4, <1>5, <1>6, MovesKeeps

(***************************************************************************)
(* A step of a worker or of a thread keeps the invariant if it keeps what  *)
(* the two say.                                                            *)
(***************************************************************************)
LEMMA ExchangeGoesOn ==
  ASSUME Inv, NEW s \in Session, NEW k \in Workers,
         UNCHANGED <<file, at, fd, fate, main, chan, stolen, fault>>,
         at[End(s, k, "client")] \in Through,
         NEW up, NEW down, Said(s, k, up, down),
         worker' \in [Session \X Workers -> {"none", "write", "read", "done"}],
         todo' \in [Session -> 0..N],
         thread' \in [Session \X Workers -> {"none", "read", "reply", "done"}],
         \A t \in Session, j \in Workers :
           t # s \/ j # k => /\ worker'[<<t, j>>] = worker[<<t, j>>]
                             /\ thread'[<<t, j>>] = thread[<<t, j>>],
         worker[<<s, k>>] = "none" => worker'[<<s, k>>] = "none",
         worker[<<s, k>>] = "done" => worker'[<<s, k>>] = "done",
         thread[<<s, k>>] = "none" => thread'[<<s, k>>] = "none",
         Exchange(s, k)'
  PROVE  Inv'
<1>0. TypeOK /\ Shapes
  BY DEF Inv
<1>1. /\ k \in Channels /\ k # Control
      /\ chan[C(s)] \in Channels /\ chan[S(s)] \in Channels
  BY <1>0, SessionTypes
<1>2. Moves(s, k)
  BY DEF Moves, Said
<1>3. ClientShape(s) /\ ServerShape(s) /\ WorkerShape(s)
  BY <1>0 DEF Shapes
<1>4. ClientShape(s)'
  BY <1>1, <1>3, ClientShapeKept
<1>5. ServerShape(s)'
  BY <1>1, <1>3, ServerShapeKept
<1>6. WorkerShape(s)'
  <2>1. ASSUME NEW j \in Workers
        PROVE  /\ worker'[<<s, j>>] # "none" => worker[<<s, j>>] # "none"
               /\ thread'[<<s, j>>] # "none" => thread[<<s, j>>] # "none"
               /\ worker[<<s, j>>] = "done" => worker'[<<s, j>>] = "done"
    <3>1. CASE j = k
      BY <3>1
    <3>2. CASE j # k
      BY <3>2
    <3> QED
      BY <3>1, <3>2
  <2> QED
    BY <1>3, <2>1 DEF WorkerShape
<1>7. /\ at' \in [Ends -> Points \X (1..2)]
      /\ main' \in [Session \X Sides ->
                      {"none", "open", "next", "reply", "join", "delete", "quit", "leave"}]
      /\ chan' \in [Session \X Sides -> Channels]
      /\ fault' \in {"none", "killed", "no_worker", "no_thread"}
  BY <1>0 DEF TypeOK
<1> QED
  BY <1>1, <1>2, <1>4, <1>5, <1>6, <1>7, MovesKeeps

-----------------------------------------------------------------------------
(* The client's main thread.                                               *)

(***************************************************************************)
(* The places that a main thread finds "ready" or "gone".                  *)
(***************************************************************************)
LEMMA PlaceIs ==
  ASSUME Stages, NEW e \in Ends
  PROVE  /\ At(e, "ready") => at[e] = Ready
         /\ At(e, "gone") => at[e] = Gone
         /\ At(e, "remove") => at[e] \in Closed
<1>1. at[e] \in Fresh \cup Has(1)
  BY DEF Stages
<1> QED
  BY <1>1 DEF At, Fresh, Has, Passed, Halfway, Through, Closed, Ready, Gone, None

(***************************************************************************)
(* A channel of the client is open and its worker created                  *)
(* (pa6/client.cpp:314-316).                                               *)
(***************************************************************************)
LEMMA ClientOpenedKeeps ==
  ASSUME Inv, NEW s \in Session, ClientOpened(s)
  PROVE  Inv'
<1>0. TypeOK /\ Shapes /\ Stages /\ Talking
  BY DEF Inv, Meeting
<1>1. PICK k \in Channels : k = chan[C(s)]
  BY <1>0, SessionTypes
<1>2. /\ Running(C(s)) /\ main[C(s)] = "open" /\ At(Current(C(s)), "ready")
      /\ worker' = (IF k = Control THEN worker
                    ELSE [worker EXCEPT ![<<s, k>>] = "write"])
      /\ main' = [main EXCEPT ![C(s)] = IF k < W THEN "next" ELSE "join"]
      /\ UNCHANGED <<file, pipes, at, fd, fate, chan, todo, thread, stolen, fault>>
  BY <1>1 DEF ClientOpened, MainAt, history
<1>3. /\ C(s) \in Session \X Sides /\ S(s) \in Session \X Sides /\ C(s) # S(s)
      /\ C(s)[1] = s /\ chan[S(s)] \in Channels
      /\ W \in Nat /\ \A j \in Workers : j \in Channels /\ j # Control
  BY <1>0, SessionTypes DEF C, S
<1>4. /\ main \in [Session \X Sides ->
                     {"none", "open", "next", "reply", "join", "delete", "quit", "leave"}]
      /\ worker \in [Session \X Workers -> {"none", "write", "read", "done"}]
      /\ k # Control => k \in Workers
  BY <1>0, <1>1 DEF TypeOK, Channels, Workers, Control
<1>5. /\ main' \in [Session \X Sides ->
                      {"none", "open", "next", "reply", "join", "delete", "quit", "leave"}]
      /\ worker' \in [Session \X Workers -> {"none", "write", "read", "done"}]
      /\ main'[C(s)] = IF k < W THEN "next" ELSE "join"
      /\ \A q \in Session \X Sides : q # C(s) => main'[q] = main[q]
      /\ \A t \in Session, j \in Workers :
           worker'[<<t, j>>] = IF t = s /\ j = k THEN "write" ELSE worker[<<t, j>>]
  <2>1. main' \in [Session \X Sides ->
                      {"none", "open", "next", "reply", "join", "delete", "quit", "leave"}]
    BY <1>2, <1>4
  <2>2. worker' \in [Session \X Workers -> {"none", "write", "read", "done"}]
    BY <1>2, <1>4
  <2>3. /\ main'[C(s)] = IF k < W THEN "next" ELSE "join"
        /\ \A q \in Session \X Sides : q # C(s) => main'[q] = main[q]
    BY <1>2, <1>3, <1>4
  <2>4. ASSUME NEW t \in Session, NEW j \in Workers
        PROVE  worker'[<<t, j>>] = IF t = s /\ j = k THEN "write" ELSE worker[<<t, j>>]
    BY <1>2, <1>3, <1>4
  <2> QED
    BY <2>1, <2>2, <2>3, <2>4
<1>6. at[End(s, k, "client")] = Ready
  <2>1. Current(C(s)) = End(s, k, "client") /\ End(s, k, "client") \in Ends
    BY <1>1, EndIs DEF Current
  <2> QED
    BY <1>0, <1>2, <2>1, PlaceIs
<1>7. ClientShape(s)'
  <2>1. /\ \A j \in Channels : j < k => at[End(s, j, "client")] = Ready
        /\ \A j \in Channels : j > k => at[End(s, j, "client")] = None
    BY <1>0, <1>1, <1>2 DEF Shapes, ClientShape
  <2>2. \A j \in Channels : j <= k => j < k \/ j = k
    BY FifoAssumption DEF Channels
  <2>3. /\ chan'[C(s)] = k /\ at' = at
        /\ \A j \in Channels : j <= k => at[End(s, j, "client")] = Ready
    BY <1>1, <1>2, <1>6, <2>1, <2>2
  <2>4. CASE k < W
    BY <1>5, <2>1, <2>3, <2>4 DEF ClientShape
  <2>5. CASE ~(k < W)
    <3>1. k = W /\ \A j \in Channels : j <= k
      BY <1>1, <1>3, <2>5 DEF Channels
    <3> QED
      BY <1>5, <2>3, <2>5, <3>1 DEF ClientShape
  <2> QED
    BY <2>4, <2>5
<1>8. ServerShape(s)'
  <2>1. ServerShape(s) /\ main'[S(s)] = main[S(s)]
    BY <1>0, <1>3, <1>5 DEF Shapes
  <2> QED
    BY <1>2, <1>3, <2>1, ServerShapeKept
<1>9. WorkerShape(s)'
  <2>1. WorkerShape(s)
    BY <1>0 DEF Shapes
  <2>2. \A j \in Workers :
          worker'[<<s, j>>] # "none" => j = k \/ worker[<<s, j>>] # "none"
    BY <1>5
  <2>3. Ready \in Through /\ main'[S(s)] = main[S(s)]
        /\ main'[C(s)] \in {"next", "join"}
    BY <1>3, <1>5 DEF Through
  <2> QED
    BY <1>2, <1>6, <2>1, <2>2, <2>3 DEF WorkerShape
<1>10. ASSUME at[End(s, Control, "client")] \in Through
       PROVE  Dialogue(s)'
  <2>1. Dialogue(s)
    BY <1>0, <1>10 DEF Talking
  <2>2. /\ chan[S(s)] = k /\ Listening(s) /\ Silent(s, Control)
    BY <1>1, <1>2, <2>1 DEF Dialogue
  <2>3. Listening(s)' /\ Silent(s, Control)'
    BY <1>2, <1>3, <1>5, <2>2 DEF Listening, Silent, Up, Down
  <2>4. chan'[S(s)] = chan'[C(s)] /\ (~(k < W) => k = W)
    BY <1>1, <1>2, <1>3, <2>2 DEF Channels
  <2>5. main'[C(s)] = "next" \/ (main'[C(s)] = "join" /\ chan'[S(s)] = W)
    BY <1>1, <1>2, <1>5, <2>4
  <2> QED
    BY <2>3, <2>4, <2>5 DEF Dialogue
<1>11. ASSUME k \in Workers, at[End(s, k, "client")] \in Through
       PROVE  Exchange(s, k)'
  <2>1. Exchange(s, k)
    BY <1>0, <1>11 DEF Talking
  <2>2. worker[<<s, k>>] = "none"
    BY <1>0, <1>1, <1>2, <1>11 DEF Shapes, WorkerShape
  <2>3. thread[<<s, k>>] \in {"none", "read"} /\ Silent(s, k)
    BY <2>1, <2>2 DEF Exchange
  <2>4. worker'[<<s, k>>] = "write" /\ thread' = thread /\ Silent(s, k)'
    BY <1>2, <1>5, <1>11, <2>3 DEF Silent, Up, Down
  <2> QED
    BY <2>3, <2>4 DEF Exchange
<1>12. Moves(s, k)
  <2>1. SamePipes /\ pipes' \in Seq(Pipe)
    BY <1>0, <1>2 DEF SamePipes, TypeOK
  <2>2. \A q \in Session \X Sides :
          \/ main'[q] = main[q] /\ chan'[q] = chan[q]
          \/ q[1] = s /\ Running(q) /\ main'[q] # "none"
    BY <1>2, <1>3, <1>5
  <2> QED
    BY <1>2, <1>5, <2>1, <2>2 DEF Moves
<1>13. /\ at' \in [Ends -> Points \X (1..2)]
       /\ chan' \in [Session \X Sides -> Channels]
       /\ todo' \in [Session -> 0..N]
       /\ thread' \in [Session \X Workers -> {"none", "read", "reply", "done"}]
       /\ fault' \in {"none", "killed", "no_worker", "no_thread"}
  BY <1>0, <1>2 DEF TypeOK
<1> QED
  BY <1>5, <1>7, <1>8, <1>9, <1>10, <1>11, <1>12, <1>13, MovesKeeps

(***************************************************************************)
(* cwrite("newchannel"), and cwrite("quit") at the end.                    *)
(***************************************************************************)
LEMMA ClientSaysKeeps ==
  ASSUME Inv, NEW s \in Session, ClientAsks(s) \/ ClientQuits(s)
  PROVE  Inv'
<1>0. TypeOK /\ Shapes /\ Meeting /\ Naming
  BY DEF Inv
<1>1. PICK m \in {"newchannel", "quit"} :
        /\ Running(C(s)) /\ main[C(s)] = IF m = "quit" THEN "quit" ELSE "next"
        /\ Writes(ControlOf(C(s)), Msg(m))
        /\ main' = [main EXCEPT ![C(s)] = IF m = "quit" THEN "leave" ELSE "reply"]
        /\ UNCHANGED <<file, at, fd, fate, chan, worker, todo, thread, stolen, fault>>
  <2>1. CASE ClientAsks(s)
    BY <2>1 DEF ClientAsks, MainAt, history
  <2>2. CASE ClientQuits(s)
    BY <2>2 DEF ClientQuits, MainAt, history
  <2> QED
    BY <2>1, <2>2
<1>2. /\ C(s) \in Session \X Sides /\ S(s) \in Session \X Sides /\ C(s) # S(s)
      /\ C(s)[1] = s /\ Control \in Channels
      /\ \A j \in Workers : j \in Channels /\ j # Control
  BY <1>0, SessionTypes DEF C, S
<1>3. at[End(s, Control, "client")] \in Through /\ Dialogue(s)
  BY <1>1, ControlTalks
<1>4. Said(s, Control, Append(Up(s, Control), Msg(m)), Down(s, Control))
  <2>1. Msg(m) \in Message
    BY <1>2 DEF Msg, Message
  <2>2. ControlOf(C(s)) = End(s, Control, "client")
    BY DEF ControlOf, C
  <2>3. "client" \in Sides
    BY DEF Sides
  <2>4. Written(s, Control, "client", Msg(m))
    BY <1>0, <1>1, <1>2, <1>3, <2>1, <2>2, <2>3, CwriteDoes
  <2> QED
    BY <2>4 DEF Written
<1>5. /\ main' \in [Session \X Sides ->
                      {"none", "open", "next", "reply", "join", "delete", "quit", "leave"}]
      /\ main'[C(s)] = IF m = "quit" THEN "leave" ELSE "reply"
      /\ \A q \in Session \X Sides : q # C(s) => main'[q] = main[q]
  <2>1. main \in [Session \X Sides ->
                      {"none", "open", "next", "reply", "join", "delete", "quit", "leave"}]
    BY <1>0 DEF TypeOK
  <2> QED
    BY <1>1, <1>2, <2>1
<1>6. /\ chan[S(s)] = IF m = "quit" THEN W ELSE chan[C(s)]
      /\ Listening(s) /\ Silent(s, Control)
  BY <1>1, <1>3 DEF Dialogue
<1>7. Dialogue(s)'
  <2>1. Up(s, Control)' = <<Msg(m)>> /\ Down(s, Control)' = <<>>
    <3>1. Up(s, Control) = <<>> /\ Down(s, Control) = <<>>
      BY <1>6 DEF Silent
    <3>2. Up(s, Control)' = Append(Up(s, Control), Msg(m))
          /\ Down(s, Control)' = Down(s, Control)
      BY <1>4 DEF Said
    <3>3. Append(<<>>, Msg(m)) = <<Msg(m)>>
      OBVIOUS
    <3> QED
      BY <3>1, <3>2, <3>3
  <2>2. Listening(s)' /\ chan' = chan
    BY <1>1, <1>2, <1>5, <1>6 DEF Listening
  <2>3. CASE m = "quit"
    BY <1>5, <1>6, <2>1, <2>2, <2>3 DEF Dialogue
  <2>4. CASE m = "newchannel"
    BY <1>5, <1>6, <2>1, <2>2, <2>4 DEF Dialogue
  <2> QED
    BY <2>3, <2>4
<1>8. ClientShape(s)'
  <2>1. ClientShape(s) /\ at' = at /\ chan' = chan /\ Ready \in Through
    BY <1>0, <1>1 DEF Shapes, Through
  <2>2. CASE m = "quit"
    BY <1>1, <1>5, <2>1, <2>2 DEF ClientShape
  <2>3. CASE m = "newchannel"
    BY <1>1, <1>5, <2>1, <2>3 DEF ClientShape
  <2> QED
    BY <2>2, <2>3
<1>9. main'[C(s)] \in {"delete", "quit", "leave"} =>
        \A j \in Workers : worker[<<s, j>>] = "done"
  BY <1>0, <1>1, <1>5 DEF Shapes, WorkerShape
<1>10. GoesOn(C(s))
  <2>1. /\ at' \in [Ends -> Points \X (1..2)]
        /\ chan' \in [Session \X Sides -> Channels]
    BY <1>0, <1>1 DEF TypeOK
  <2>2. main'[C(s)] # "none" /\ main'[C(s)] # "open"
    BY <1>5
  <2> QED
    BY <1>1, <1>2, <1>4, <1>5, <2>1, <2>2 DEF GoesOn
<1>11. main'[C(s)] # "open"
  BY <1>5
<1> QED
  BY <1>3, <1>7, <1>8, <1>9, <1>10, <1>11, ClientGoesOn

(***************************************************************************)
(* The reply: the name of the channel that the server makes next.          *)
(***************************************************************************)
LEMMA ClientNamedKeeps ==
  ASSUME Inv, NEW s \in Session, ClientNamed(s)
  PROVE  Inv'
<1>0. TypeOK /\ Shapes /\ Meeting /\ Naming
  BY DEF Inv
<1>1. PICK k \in Workers :
        /\ Running(C(s)) /\ main[C(s)] = "reply"
        /\ Reads(ControlOf(C(s)), [kind |-> "name", k |-> k])
        /\ chan' = [chan EXCEPT ![C(s)] = k]
        /\ main' = [main EXCEPT ![C(s)] = "open"]
        /\ at' = [at EXCEPT ![End(s, k, "client")] = <<"make", 1>>]
        /\ UNCHANGED <<file, fd, fate, worker, todo, thread, stolen, fault>>
  BY DEF ClientNamed, MainAt, Begins, history, C
<1>2. /\ C(s) \in Session \X Sides /\ S(s) \in Session \X Sides /\ C(s) # S(s)
      /\ C(s)[1] = s /\ Control \in Channels /\ k \in Channels
      /\ chan[C(s)] \in Channels
  BY <1>0, SessionTypes DEF C, S
<1>3. at[End(s, Control, "client")] \in Through /\ Dialogue(s)
  BY <1>1, ControlTalks
<1>4. /\ Down(s, Control) # <<>> /\ [kind |-> "name", k |-> k] = Head(Down(s, Control))
      /\ Said(s, Control, Up(s, Control), Tail(Down(s, Control)))
  <2>1. ControlOf(C(s)) = End(s, Control, "client")
    BY DEF ControlOf, C
  <2>2. "client" \in Sides
    BY DEF Sides
  <2>3. PICK m : m = [kind |-> "name", k |-> k]
    OBVIOUS
  <2>4. Reads(End(s, Control, "client"), m) /\ fd' = fd
    BY <1>1, <2>1, <2>3
  <2>5. Heard(s, Control, "client", m)
    BY <1>0, <1>2, <1>3, <2>2, <2>4, CreadDoes
  <2> QED
    BY <2>3, <2>5 DEF Heard
<1>5. /\ chan[S(s)] = chan[C(s)] + 1 /\ main[S(s)] = "open"
      /\ Up(s, Control) = <<>>
      /\ Down(s, Control) = <<[kind |-> "name", k |-> chan[S(s)]]>>
  <2>1. \/ Down(s, Control) = <<>>
        \/ /\ chan[S(s)] = chan[C(s)] + 1 /\ main[S(s)] = "open"
           /\ Up(s, Control) = <<>>
           /\ Down(s, Control) = <<[kind |-> "name", k |-> chan[S(s)]]>>
    BY <1>1, <1>3 DEF Dialogue, Silent
  <2> QED
    BY <1>4, <2>1
<1>6. k = chan[S(s)] /\ Tail(Down(s, Control)) = <<>>
  <2>1. PICK q : q = [kind |-> "name", k |-> chan[S(s)]]
    OBVIOUS
  <2>2. Head(<<q>>) = q /\ Tail(<<q>>) = <<>>
    OBVIOUS
  <2>3. Down(s, Control) = <<q>>
    BY <1>5, <2>1
  <2>4. [kind |-> "name", k |-> k] = [kind |-> "name", k |-> chan[S(s)]]
    BY <1>4, <2>1, <2>2, <2>3
  <2> QED
    BY <2>2, <2>3, <2>4
<1>7. /\ main' \in [Session \X Sides ->
                      {"none", "open", "next", "reply", "join", "delete", "quit", "leave"}]
      /\ chan' \in [Session \X Sides -> Channels]
      /\ at' \in [Ends -> Points \X (1..2)]
      /\ main'[C(s)] = "open" /\ chan'[C(s)] = k
      /\ \A q \in Session \X Sides : q # C(s) => main'[q] = main[q] /\ chan'[q] = chan[q]
      /\ \A o \in Ends : at'[o] = IF o = End(s, k, "client") THEN <<"make", 1>> ELSE at[o]
  <2>1. /\ main \in [Session \X Sides ->
                      {"none", "open", "next", "reply", "join", "delete", "quit", "leave"}]
        /\ chan \in [Session \X Sides -> Channels]
        /\ at \in [Ends -> Points \X (1..2)]
        /\ <<"make", 1>> \in Points \X (1..2)
    BY <1>0 DEF TypeOK, Points
  <2> QED
    BY <1>1, <1>2, <2>1
<1>8. Dialogue(s)'
  <2>1. Up(s, Control)' = <<>> /\ Down(s, Control)' = <<>>
    BY <1>4, <1>5, <1>6 DEF Said
  <2>2. Listening(s)' /\ chan'[S(s)] = k
    BY <1>2, <1>5, <1>6, <1>7 DEF Listening
  <2> QED
    BY <1>7, <2>1, <2>2 DEF Dialogue, Silent
<1>9. /\ \A j \in Channels : j < k => at[End(s, j, "client")] = Ready
      /\ \A j \in Channels : j >= k => at[End(s, j, "client")] = None
  <2>1. /\ \A j \in Channels : j <= chan[C(s)] => at[End(s, j, "client")] = Ready
        /\ \A j \in Channels : j > chan[C(s)] => at[End(s, j, "client")] = None
    BY <1>0, <1>1 DEF Shapes, ClientShape
  <2>2. k = chan[C(s)] + 1
    BY <1>5, <1>6
  <2>3. \A j \in Channels : /\ j < k => j <= chan[C(s)]
                            /\ j >= k => j > chan[C(s)]
    BY <1>2, <2>2 DEF Channels
  <2> QED
    BY <2>1, <2>3
<1>10. ClientShape(s)'
  <2>1. \A j \in Channels : /\ j < k => j # k
                            /\ j > k => j # k /\ j >= k
    BY <1>2 DEF Channels
  <2>2. ASSUME NEW j \in Channels, j # k
        PROVE  at'[End(s, j, "client")] = at[End(s, j, "client")]
    <3>1. /\ End(s, j, "client") \in Ends
          /\ End(s, j, "client")[2] = j /\ End(s, k, "client")[2] = k
      BY <1>2, EndIs
    <3> QED
      BY <1>7, <2>2, <3>1
  <2>3. /\ \A j \in Channels : j < k => at'[End(s, j, "client")] = Ready
        /\ \A j \in Channels : j > k => at'[End(s, j, "client")] = None
    BY <1>9, <2>1, <2>2
  <2>4. at'[End(s, k, "client")] = <<"make", 1>>
    BY <1>2, <1>7, EndIs
  <2>5. <<"make", 1>> # None /\ <<"make", 1>> \notin Closed
    BY DEF None, Closed, Gone
  <2> QED
    BY <1>7, <2>3, <2>4, <2>5 DEF ClientShape
<1>11. at[End(s, k, "client")] = None
  BY <1>2, <1>9 DEF Channels
<1>12. GoesOn(C(s))
  <2>1. \A o \in Ends : \/ at'[o] = at[o]
                        \/ Proc(o) = C(s) /\ at[o] = None /\ at'[o] = <<"make", 1>>
    BY <1>2, <1>7, <1>11, EndIs
  <2> QED
    BY <1>1, <1>2, <1>4, <1>7, <2>1 DEF GoesOn
<1> QED
  BY <1>3, <1>7, <1>8, <1>10, <1>11, <1>12, ClientGoesOn

(***************************************************************************)
(* The joins, and the step from one channel to delete to the next.         *)
(***************************************************************************)
DeletesNext(s, m, k) ==
  /\ Running(C(s)) /\ main[C(s)] \in {"join", "delete"}
  /\ main'[C(s)] = m /\ chan'[C(s)] = k
  /\ UNCHANGED <<file, pipes, at, fd, fate, worker, todo, thread, stolen, fault>>
  /\ main' \in [Session \X Sides ->
                  {"none", "open", "next", "reply", "join", "delete", "quit", "leave"}]
  /\ chan' \in [Session \X Sides -> Channels]
  /\ \A q \in Session \X Sides : q # C(s) => main'[q] = main[q] /\ chan'[q] = chan[q]
  /\ \A j \in Workers : worker[<<s, j>>] = "done"

(***************************************************************************)
(* A step of that kind keeps the invariant if it leaves the client in      *)
(* shape.                                                                  *)
(***************************************************************************)
LEMMA DeletesNextKeeps ==
  ASSUME Inv, NEW s \in Session, NEW m \in {"delete", "quit"}, NEW k \in Channels,
         DeletesNext(s, m, k), ClientShape(s)'
  PROVE  Inv'
<1>0. TypeOK
  BY DEF Inv
<1>1. /\ Running(C(s)) /\ main[C(s)] \in {"join", "delete"}
      /\ main'[C(s)] = m /\ chan'[C(s)] = k
      /\ UNCHANGED <<file, pipes, at, fd, fate, worker, todo, thread, stolen, fault>>
      /\ \A q \in Session \X Sides : q # C(s) => main'[q] = main[q] /\ chan'[q] = chan[q]
      /\ \A j \in Workers : worker[<<s, j>>] = "done"
  BY DEF DeletesNext
<1>2. GoesOn(C(s))
  <2>1. at' \in [Ends -> Points \X (1..2)]
    BY <1>0, <1>1 DEF TypeOK
  <2> QED
    BY <2>1 DEF DeletesNext, GoesOn
<1>3. Dialogue(s)'
  <2>1. Dialogue(s)
    BY <1>1, ControlTalks
  <2>2. chan[S(s)] = W /\ Listening(s) /\ Silent(s, Control)
    BY <1>1, <2>1 DEF Dialogue
  <2>3. S(s) \in Session \X Sides /\ S(s) # C(s)
    BY DEF S, C, Sides
  <2>4. chan'[S(s)] = W /\ Listening(s)' /\ Silent(s, Control)'
    BY <1>1, <2>2, <2>3 DEF Listening, Silent, Up, Down
  <2> QED
    BY <1>1, <2>4 DEF Dialogue
<1> QED
  BY <1>1, <1>2, <1>3, ClientGoesOn

(***************************************************************************)
(* The client joins its workers: from then on all of them are done.        *)
(***************************************************************************)
LEMMA ClientJoinsKeeps ==
  ASSUME Inv, NEW s \in Session, ClientJoins(s)
  PROVE  Inv'
<1>0. TypeOK /\ Shapes
  BY DEF Inv
<1>1. PICK m, k :
        /\ m = IF W = 0 THEN "quit" ELSE "delete"
        /\ k = IF W = 0 THEN Control ELSE 1
  OBVIOUS
<1>2. /\ Running(C(s)) /\ main[C(s)] = "join"
      /\ \A j \in Workers : worker[<<s, j>>] = "done"
      /\ main' = [main EXCEPT ![C(s)] = m] /\ chan' = [chan EXCEPT ![C(s)] = k]
      /\ UNCHANGED <<file, pipes, at, fd, fate, worker, todo, thread, stolen, fault>>
  BY <1>1 DEF ClientJoins, FirstDelete, MainAt, history
<1>3. m \in {"delete", "quit"} /\ k \in Channels
  BY <1>1, FifoAssumption DEF Channels, Control
<1>4. DeletesNext(s, m, k)
  <2>1. C(s) \in Session \X Sides
    BY DEF C, Sides
  <2>2. /\ main \in [Session \X Sides ->
                      {"none", "open", "next", "reply", "join", "delete", "quit", "leave"}]
        /\ chan \in [Session \X Sides -> Channels]
    BY <1>0 DEF TypeOK
  <2> QED
    BY <1>2, <1>3, <2>1, <2>2 DEF DeletesNext
<1>5. ClientShape(s)'
  <2>1. \A j \in Channels : at[End(s, j, "client")] = Ready
    BY <1>0, <1>2 DEF Shapes, ClientShape
  <2>2. Control \in Channels /\ Ready \in Through /\ \A j \in Workers : j \in Channels
    BY <1>0, SessionTypes DEF Through
  <2>3. main'[C(s)] = m /\ chan'[C(s)] = k /\ at' = at
    BY <1>2, <1>4 DEF DeletesNext
  <2>4. CASE W = 0
    <3>1. m = "quit" /\ ~\E j \in Workers : TRUE
      BY <1>1, <2>4 DEF Workers
    <3> QED
      BY <2>1, <2>2, <2>3, <3>1 DEF ClientShape
  <2>5. CASE W # 0
    <3>1. /\ m = "delete" /\ k = 1 /\ k # Control
          /\ \A j \in Workers : ~(j < k)
      BY <1>1, <2>5, FifoAssumption DEF Workers, Control
    <3> QED
      BY <1>3, <2>1, <2>2, <2>3, <3>1 DEF ClientShape
  <2> QED
    BY <2>4, <2>5
<1> QED
  BY <1>3, <1>4, <1>5, DeletesNextKeeps

(***************************************************************************)
(* One channel is deleted, the next one is up; after the last one the      *)
(* client is about to quit.                                                *)
(***************************************************************************)
LEMMA ClientDeletesNextKeeps ==
  ASSUME Inv, NEW s \in Session, NEW k \in Channels, k = chan[C(s)],
         MainAt(C(s), "delete"), At(Current(C(s)), "gone"),
         IF k < W
         THEN chan' = [chan EXCEPT ![C(s)] = k + 1] /\ UNCHANGED main
         ELSE main' = [main EXCEPT ![C(s)] = "quit"] /\ UNCHANGED chan,
         UNCHANGED <<file, pipes, at, fd, fate, worker, todo, thread, stolen, fault>>
  PROVE  Inv'
<1>0. TypeOK /\ Shapes /\ Stages
  BY DEF Inv, Meeting
<1>1. Running(C(s)) /\ main[C(s)] = "delete"
  BY DEF MainAt
<1>2. /\ C(s) \in Session \X Sides /\ W \in Nat
      /\ main \in [Session \X Sides ->
                     {"none", "open", "next", "reply", "join", "delete", "quit", "leave"}]
      /\ chan \in [Session \X Sides -> Channels]
      /\ \A j \in Workers : j \in Channels /\ j # Control
  BY <1>0, SessionTypes DEF TypeOK
<1>3. \A j \in Workers : worker[<<s, j>>] = "done"
  BY <1>0, <1>1 DEF Shapes, WorkerShape
<1>4. /\ k # Control /\ at[End(s, Control, "client")] = Ready
      /\ \A j \in Workers : j < k => at[End(s, j, "client")] = Gone
      /\ \A j \in Workers : j > k => at[End(s, j, "client")] = Ready
  BY <1>0, <1>1 DEF Shapes, ClientShape
<1>5. at[End(s, k, "client")] = Gone
  <2>1. Current(C(s)) = End(s, k, "client") /\ End(s, k, "client") \in Ends
    BY EndIs DEF Current
  <2> QED
    BY <1>0, <2>1, PlaceIs
<1>6. CASE k < W
  <2>1. k + 1 \in Channels /\ k + 1 # Control
    BY <1>2, <1>6 DEF Channels, Control
  <2>2. DeletesNext(s, "delete", k + 1)
    BY <1>1, <1>2, <1>3, <1>6, <2>1 DEF DeletesNext
  <2>3. \A j \in Workers : /\ j < k + 1 => j < k \/ j = k
                           /\ j > k + 1 => j > k
    BY <1>2 DEF Workers, Channels
  <2>4. k + 1 \in Workers /\ k + 1 > k
    BY <1>2, <1>6 DEF Workers, Channels
  <2>5. /\ \A j \in Workers : j < k + 1 => at[End(s, j, "client")] = Gone
        /\ \A j \in Workers : j > k + 1 => at[End(s, j, "client")] = Ready
        /\ at[End(s, k + 1, "client")] \in Through
    BY <1>4, <1>5, <2>3, <2>4 DEF Through
  <2>6. main'[C(s)] = "delete" /\ chan'[C(s)] = k + 1 /\ at' = at
    BY <2>2 DEF DeletesNext
  <2>7. ClientShape(s)'
    BY <1>4, <2>1, <2>5, <2>6 DEF ClientShape
  <2> QED
    BY <2>1, <2>2, <2>7, DeletesNextKeeps
<1>7. CASE ~(k < W)
  <2>1. DeletesNext(s, "quit", k)
    BY <1>1, <1>2, <1>3, <1>7 DEF DeletesNext
  <2>2. \A j \in Workers : j < k \/ j = k
    <3>1. k \in 0..W /\ ~(k < W) /\ W \in Nat
      BY <1>2, <1>7 DEF Channels
    <3> QED
      BY ONLY <3>1 DEF Workers
  <2>3. \A j \in Workers : at[End(s, j, "client")] = Gone
    BY <1>4, <1>5, <2>2
  <2>4. main'[C(s)] = "quit" /\ chan'[C(s)] = k /\ at' = at
    BY <2>1 DEF DeletesNext
  <2>5. ClientShape(s)'
    BY <1>4, <2>3, <2>4 DEF ClientShape
  <2> QED
    BY <2>1, <2>5, DeletesNextKeeps
<1> QED
  BY <1>6, <1>7

-----------------------------------------------------------------------------
(* The server's main thread.                                               *)

(***************************************************************************)
(* The constructor returns.  The client still waits for the name or has    *)
(* opened its end; the thread may be missing.                              *)
(***************************************************************************)
LEMMA ServerOpenedKeeps ==
  ASSUME Inv, NEW s \in Session, ServerOpened(s)
  PROVE  Inv'
<1>0. TypeOK /\ Shapes /\ Stages /\ Talking /\ Sync
  BY DEF Inv, Meeting
<1>1. PICK k \in Channels : k = chan[S(s)]
  BY <1>0, SessionTypes
<1>2. PICK t \in {"none", "read"} :
        /\ Running(S(s)) /\ main[S(s)] = "open" /\ At(Current(S(s)), "ready")
        /\ t = "read" => thread' = IF k = Control THEN thread
                                   ELSE [thread EXCEPT ![<<s, k>>] = "read"]
        /\ t = "none" => thread' = thread
        /\ fault' = fault \/ (fault = "none" /\ fault' = "no_thread")
        /\ main' = [main EXCEPT ![S(s)] = "next"]
        /\ UNCHANGED <<file, pipes, at, fd, fate, chan, worker, todo, stolen>>
  <2>1. CASE UNCHANGED fault
    BY <1>1, <2>1 DEF ServerOpened, MainAt, Fault
  <2>2. CASE ~UNCHANGED fault
    BY <1>1, <2>2 DEF ServerOpened, MainAt, Fault
  <2> QED
    BY <2>1, <2>2
<1>3. /\ C(s) \in Session \X Sides /\ S(s) \in Session \X Sides /\ C(s) # S(s)
      /\ S(s)[1] = s /\ chan[C(s)] \in Channels
      /\ W \in Nat /\ \A j \in Workers : j \in Channels /\ j # Control
  BY <1>0, SessionTypes DEF C, S
<1>4. /\ main \in [Session \X Sides ->
                     {"none", "open", "next", "reply", "join", "delete", "quit", "leave"}]
      /\ thread \in [Session \X Workers -> {"none", "read", "reply", "done"}]
      /\ k # Control => k \in Workers
  BY <1>0, <1>1 DEF TypeOK, Channels, Workers, Control
<1>5. /\ main' \in [Session \X Sides ->
                      {"none", "open", "next", "reply", "join", "delete", "quit", "leave"}]
      /\ thread' \in [Session \X Workers -> {"none", "read", "reply", "done"}]
      /\ main'[S(s)] = "next"
      /\ \A q \in Session \X Sides : q # S(s) => main'[q] = main[q]
      /\ \A r \in Session, j \in Workers :
           \/ thread'[<<r, j>>] = thread[<<r, j>>]
           \/ r = s /\ j = k /\ thread'[<<r, j>>] = "read"
  <2>1. main' \in [Session \X Sides ->
                      {"none", "open", "next", "reply", "join", "delete", "quit", "leave"}]
    BY <1>2, <1>4
  <2>2. thread' \in [Session \X Workers -> {"none", "read", "reply", "done"}]
    BY <1>2, <1>4
  <2>3. /\ main'[S(s)] = "next"
        /\ \A q \in Session \X Sides : q # S(s) => main'[q] = main[q]
    BY <1>2, <1>3, <1>4
  <2>4. ASSUME NEW r \in Session, NEW j \in Workers
        PROVE  \/ thread'[<<r, j>>] = thread[<<r, j>>]
               \/ r = s /\ j = k /\ thread'[<<r, j>>] = "read"
    BY <1>2, <1>3, <1>4
  <2> QED
    BY <2>1, <2>2, <2>3, <2>4
<1>6. at[End(s, k, "server")] = Ready
  <2>1. Current(S(s)) = End(s, k, "server") /\ End(s, k, "server") \in Ends
    BY <1>1, EndIs DEF Current
  <2> QED
    BY <1>0, <1>2, <2>1, PlaceIs
<1>7. ServerShape(s)'
  <2>1. /\ \A j \in Channels : j < k => at[End(s, j, "server")] = Ready
        /\ \A j \in Channels : j > k => at[End(s, j, "server")] = None
    BY <1>0, <1>1, <1>2 DEF Shapes, ServerShape
  <2>2. chan'[S(s)] = k /\ at' = at
    BY <1>1, <1>2
  <2> QED
    BY <1>5, <1>6, <2>1, <2>2 DEF ServerShape
<1>8. ClientShape(s)'
  <2>1. ClientShape(s) /\ main'[C(s)] = main[C(s)]
    BY <1>0, <1>3, <1>5 DEF Shapes
  <2> QED
    BY <1>2, <1>3, <2>1, ClientShapeKept
<1>9. WorkerShape(s)'
  <2>1. WorkerShape(s)
    BY <1>0 DEF Shapes
  <2>2. \A j \in Workers :
          thread'[<<s, j>>] # "none" => j = k \/ thread[<<s, j>>] # "none"
    BY <1>5
  <2>3. Ready \in Through /\ main'[C(s)] = main[C(s)]
    BY <1>3, <1>5 DEF Through
  <2> QED
    BY <1>2, <1>5, <1>6, <2>1, <2>2, <2>3 DEF WorkerShape
<1>10. ASSUME at[End(s, Control, "client")] \in Through
       PROVE  Dialogue(s)'
  <2>1. Dialogue(s)
    BY <1>0, <1>10 DEF Talking
  <2>2. ~(main[C(s)] = "reply" /\ k = chan[C(s)] + 1)
    <3> SUFFICES ASSUME main[C(s)] = "reply", k = chan[C(s)] + 1 PROVE FALSE
      OBVIOUS
    <3>1. /\ End(s, k, "server") \in Ends
          /\ Peer(End(s, k, "server")) = End(s, k, "client")
      BY EndIs
    <3>2. at[End(s, k, "server")] \in Passed(2)
      BY <1>6 DEF Passed, Through
    <3>3. at[End(s, k, "client")] \in Passed(2)
      BY <1>0, <3>1, <3>2 DEF Sync
    <3>4. k > chan[C(s)]
      BY <1>3 DEF Channels
    <3>5. at[End(s, k, "client")] = None
      BY <1>0, <3>4 DEF Shapes, ClientShape
    <3> QED
      BY <3>3, <3>5 DEF Passed, Through, Closed, Ready, Gone, None
  <2>3. /\ main'[C(s)] = main[C(s)] /\ chan' = chan
        /\ Listening(s)' /\ (Silent(s, Control)' <=> Silent(s, Control))
        /\ Up(s, Control)' = Up(s, Control) /\ Down(s, Control)' = Down(s, Control)
    BY <1>2, <1>3, <1>5 DEF Listening, Silent, Up, Down
  <2> QED
    BY <1>1, <1>2, <2>1, <2>2, <2>3 DEF Dialogue
<1>11. ASSUME k \in Workers, at[End(s, k, "client")] \in Through
       PROVE  Exchange(s, k)'
  <2>1. Exchange(s, k)
    BY <1>0, <1>11 DEF Talking
  <2>2. thread[<<s, k>>] = "none"
    BY <1>0, <1>1, <1>2, <1>11 DEF Shapes, WorkerShape
  <2>3. thread'[<<s, k>>] \in {"none", "read"} /\ worker' = worker
    BY <1>2, <1>5, <1>11, <2>2
  <2>4. /\ Up(s, k)' = Up(s, k) /\ Down(s, k)' = Down(s, k)
        /\ Silent(s, k)' <=> Silent(s, k)
    BY <1>2 DEF Silent, Up, Down
  <2> QED
    BY <2>1, <2>2, <2>3, <2>4 DEF Exchange
<1>12. Moves(s, k)
  <2>1. SamePipes /\ pipes' \in Seq(Pipe)
    BY <1>0, <1>2 DEF SamePipes, TypeOK
  <2>2. \A q \in Session \X Sides :
          \/ main'[q] = main[q] /\ chan'[q] = chan[q]
          \/ q[1] = s /\ Running(q) /\ main'[q] # "none"
    BY <1>2, <1>3, <1>5
  <2>3. \A r \in Session, j \in Workers :
          r # s \/ j # k => thread'[<<r, j>>] = thread[<<r, j>>]
    BY <1>5
  <2> QED
    BY <1>2, <2>1, <2>2, <2>3 DEF Moves
<1>13. /\ at' \in [Ends -> Points \X (1..2)]
       /\ chan' \in [Session \X Sides -> Channels]
       /\ todo' \in [Session -> 0..N]
       /\ worker' \in [Session \X Workers -> {"none", "write", "read", "done"}]
       /\ fault' \in {"none", "killed", "no_worker", "no_thread"}
  BY <1>0, <1>2 DEF TypeOK
<1> QED
  BY <1>5, <1>7, <1>8, <1>9, <1>10, <1>11, <1>12, <1>13, MovesKeeps

(***************************************************************************)
(* A request on the control channel: "newchannel", or "quit" at the end.   *)
(***************************************************************************)
LEMMA ServerReadsKeeps ==
  ASSUME Inv, NEW s \in Session, ServerReads(s)
  PROVE  Inv'
<1>0. TypeOK /\ Shapes /\ Meeting /\ Naming
  BY DEF Inv
<1>1. PICK m \in {"newchannel", "quit"} :
        /\ Running(S(s)) /\ main[S(s)] = "next"
        /\ Reads(ControlOf(S(s)), Msg(m))
        /\ main' = [main EXCEPT ![S(s)] = IF m = "quit" THEN "leave" ELSE "reply"]
        /\ m = "quit" => chan' = chan
        /\ m = "newchannel" => chan' = [chan EXCEPT ![S(s)] = @ + 1]
        /\ UNCHANGED <<file, at, fd, fate, worker, todo, thread, stolen, fault>>
  BY DEF ServerReads, MainAt, history
<1>2. /\ C(s) \in Session \X Sides /\ S(s) \in Session \X Sides /\ C(s) # S(s)
      /\ S(s)[1] = s /\ Control \in Channels /\ chan[C(s)] \in Channels
      /\ chan[S(s)] \in Channels /\ W \in Nat
      /\ \A j \in Workers : j \in Channels /\ j # Control
  BY <1>0, SessionTypes DEF C, S
<1>3. at[End(s, Control, "client")] \in Through /\ Dialogue(s)
  BY <1>1, ControlTalks
<1>4. /\ Up(s, Control) # <<>> /\ Msg(m) = Head(Up(s, Control))
      /\ Said(s, Control, Tail(Up(s, Control)), Down(s, Control))
  <2>1. ControlOf(S(s)) = End(s, Control, "server")
    BY DEF ControlOf, S
  <2>2. "server" \in Sides /\ "server" # "client"
    BY DEF Sides
  <2>3. Heard(s, Control, "server", Msg(m))
    BY <1>0, <1>1, <1>2, <1>3, <2>1, <2>2, CreadDoes
  <2> QED
    BY <2>2, <2>3 DEF Heard
<1>5. PICK n \in {"newchannel", "quit"} :
        /\ Up(s, Control) = <<Msg(n)>> /\ Down(s, Control) = <<>>
        /\ n = "newchannel" => main[C(s)] = "reply" /\ chan[S(s)] = chan[C(s)]
        /\ n = "quit" => main[C(s)] = "leave" /\ chan[S(s)] = W
  <2>1. main[S(s)] # "leave" /\ main[S(s)] # "open" /\ main[S(s)] # "reply"
    BY <1>1
  <2>2. ~Silent(s, Control)
    BY <1>4 DEF Silent
  <2>3. \/ /\ Up(s, Control) = <<Msg("newchannel")>> /\ Down(s, Control) = <<>>
           /\ main[C(s)] = "reply" /\ chan[S(s)] = chan[C(s)]
        \/ /\ Up(s, Control) = <<Msg("quit")>> /\ Down(s, Control) = <<>>
           /\ main[C(s)] = "leave" /\ chan[S(s)] = W
    BY <1>3, <2>1, <2>2 DEF Dialogue
  <2> QED
    BY <2>3
<1>6. n = m /\ Tail(Up(s, Control)) = <<>>
  <2>1. PICK q : q = Msg(n)
    OBVIOUS
  <2>2. Head(<<q>>) = q /\ Tail(<<q>>) = <<>>
    OBVIOUS
  <2>3. Msg(m) = Msg(n) /\ Tail(Up(s, Control)) = <<>>
    BY <1>4, <1>5, <2>1, <2>2
  <2>4. Msg(m).kind = m /\ Msg(n).kind = n
    BY DEF Msg
  <2> QED
    BY <2>3, <2>4
<1>7. m = "newchannel" => chan[C(s)] < W /\ chan[S(s)] + 1 \in Channels
  <2>1. ClientShape(s)
    BY <1>0 DEF Shapes
  <2>2. m = "newchannel" => chan[C(s)] < W /\ chan[S(s)] = chan[C(s)]
    BY <1>5, <1>6, <2>1 DEF ClientShape
  <2> QED
    BY <1>2, <2>2 DEF Channels
<1>8. /\ main' \in [Session \X Sides ->
                      {"none", "open", "next", "reply", "join", "delete", "quit", "leave"}]
      /\ chan' \in [Session \X Sides -> Channels]
      /\ main'[S(s)] = IF m = "quit" THEN "leave" ELSE "reply"
      /\ chan'[S(s)] = IF m = "quit" THEN chan[S(s)] ELSE chan[S(s)] + 1
      /\ \A q \in Session \X Sides : q # S(s) => main'[q] = main[q] /\ chan'[q] = chan[q]
  <2>1. /\ main \in [Session \X Sides ->
                      {"none", "open", "next", "reply", "join", "delete", "quit", "leave"}]
        /\ chan \in [Session \X Sides -> Channels]
    BY <1>0 DEF TypeOK
  <2>2. CASE m = "quit"
    BY <1>1, <1>2, <2>1, <2>2
  <2>3. CASE m = "newchannel"
    BY <1>1, <1>2, <1>7, <2>1, <2>3
  <2> QED
    BY <2>2, <2>3
<1>9. Dialogue(s)'
  <2>1. Up(s, Control)' = <<>> /\ Down(s, Control)' = <<>>
    BY <1>4, <1>5, <1>6 DEF Said
  <2>2. main'[C(s)] = main[C(s)] /\ chan'[C(s)] = chan[C(s)]
    BY <1>2, <1>8
  <2>3. CASE m = "quit"
    BY <1>5, <1>6, <1>8, <2>1, <2>2, <2>3 DEF Dialogue, Silent
  <2>4. CASE m = "newchannel"
    BY <1>5, <1>6, <1>8, <2>1, <2>2, <2>4 DEF Dialogue, Silent
  <2> QED
    BY <2>3, <2>4
<1>10. ServerShape(s)'
  <2>1. PICK k \in Channels : k = chan[S(s)]
    BY <1>2
  <2>2. /\ at[End(s, k, "server")] = Ready
        /\ \A j \in Channels : j < k => at[End(s, j, "server")] = Ready
        /\ \A j \in Channels : j > k => at[End(s, j, "server")] = None
    BY <1>0, <1>1, <2>1 DEF Shapes, ServerShape
  <2>3. \A j \in Channels : /\ j < k + 1 => j < k \/ j = k
                            /\ j <= k => j < k \/ j = k
                            /\ j > k + 1 => j > k
                            /\ Control <= k
    BY <2>1, <1>2 DEF Channels, Control
  <2>4. at' = at /\ Ready \in Through
    BY <1>1 DEF Through
  <2>5. CASE m = "quit"
    <3>1. main'[S(s)] = "leave" /\ chan'[S(s)] = k
      BY <1>8, <2>1, <2>5
    <3>2. /\ at[End(s, Control, "server")] \in Through
          /\ \A j \in Workers : j <= k => at[End(s, j, "server")] = Ready
      BY <1>2, <2>2, <2>3, <2>4
    <3> QED
      BY <2>2, <2>4, <3>1, <3>2 DEF ServerShape
  <2>6. CASE m = "newchannel"
    <3>1. main'[S(s)] = "reply" /\ chan'[S(s)] = k + 1
      BY <1>8, <2>1, <2>6
    <3>2. /\ \A j \in Channels : j < k + 1 => at[End(s, j, "server")] = Ready
          /\ \A j \in Channels : j > k + 1 => at[End(s, j, "server")] = None
      BY <2>2, <2>3
    <3>3. k + 1 # Control /\ at[End(s, k + 1, "server")] = None
      <4>1. k + 1 \in Channels /\ k + 1 > k /\ k + 1 # Control
        BY <1>7, <2>1, <2>6 DEF Channels, Control
      <4> QED
        BY <2>2, <4>1
    <3> QED
      BY <2>4, <3>1, <3>2, <3>3 DEF ServerShape
  <2> QED
    BY <2>5, <2>6
<1>11. GoesOn(S(s)) /\ main'[S(s)] # "open"
  <2>1. at' \in [Ends -> Points \X (1..2)]
    BY <1>0, <1>1 DEF TypeOK
  <2> QED
    BY <1>1, <1>2, <1>4, <1>8, <2>1 DEF GoesOn
<1> QED
  BY <1>3, <1>9, <1>10, <1>11, ServerGoesOn

(***************************************************************************)
(* process_newchannel: the name is sent, then the channel is made.         *)
(***************************************************************************)
LEMMA ServerRepliesKeeps ==
  ASSUME Inv, NEW s \in Session, ServerReplies(s)
  PROVE  Inv'
<1>0. TypeOK /\ Shapes /\ Meeting /\ Naming
  BY DEF Inv
<1>1. PICK k \in Channels : k = chan[S(s)]
  BY <1>0, SessionTypes
<1>2. PICK m : m = [kind |-> "name", k |-> k]
  OBVIOUS
<1>3. /\ Running(S(s)) /\ main[S(s)] = "reply"
      /\ Writes(ControlOf(S(s)), m)
      /\ main' = [main EXCEPT ![S(s)] = "open"]
      /\ at' = [at EXCEPT ![End(s, k, "server")] = <<"make", 1>>]
      /\ UNCHANGED <<file, fd, fate, chan, worker, todo, thread, stolen, fault>>
  BY <1>1, <1>2 DEF ServerReplies, MainAt, Begins, history, S
<1>4. /\ C(s) \in Session \X Sides /\ S(s) \in Session \X Sides /\ C(s) # S(s)
      /\ S(s)[1] = s /\ Control \in Channels
  BY <1>0, SessionTypes DEF C, S
<1>5. at[End(s, Control, "client")] \in Through /\ Dialogue(s)
  BY <1>3, ControlTalks
<1>6. Said(s, Control, Up(s, Control), Append(Down(s, Control), m))
  <2>1. ControlOf(S(s)) = End(s, Control, "server")
    BY DEF ControlOf, S
  <2>2. "server" \in Sides /\ "server" # "client"
    BY DEF Sides
  <2>3. m \in Message
    BY <1>2 DEF Message
  <2>4. Written(s, Control, "server", m)
    BY <1>0, <1>3, <1>4, <1>5, <2>1, <2>2, <2>3, CwriteDoes
  <2> QED
    BY <2>2, <2>4 DEF Written
<1>7. /\ main' \in [Session \X Sides ->
                      {"none", "open", "next", "reply", "join", "delete", "quit", "leave"}]
      /\ at' \in [Ends -> Points \X (1..2)]
      /\ main'[S(s)] = "open" /\ chan'[S(s)] = k
      /\ \A q \in Session \X Sides : q # S(s) => main'[q] = main[q]
      /\ \A o \in Ends : at'[o] = IF o = End(s, k, "server") THEN <<"make", 1>> ELSE at[o]
  <2>1. /\ main \in [Session \X Sides ->
                      {"none", "open", "next", "reply", "join", "delete", "quit", "leave"}]
        /\ at \in [Ends -> Points \X (1..2)]
        /\ <<"make", 1>> \in Points \X (1..2)
    BY <1>0 DEF TypeOK, Points
  <2> QED
    BY <1>1, <1>3, <1>4, <2>1
<1>8. Dialogue(s)'
  <2>1. /\ main[C(s)] = "reply" /\ chan[S(s)] = chan[C(s)] + 1 /\ Silent(s, Control)
    BY <1>3, <1>5 DEF Dialogue, Listening
  <2>2. Up(s, Control)' = <<>> /\ Down(s, Control)' = <<m>>
    <3>1. Up(s, Control) = <<>> /\ Down(s, Control) = <<>>
      BY <2>1 DEF Silent
    <3>2. Up(s, Control)' = Up(s, Control)
          /\ Down(s, Control)' = Append(Down(s, Control), m)
      BY <1>6 DEF Said
    <3>3. Append(<<>>, m) = <<m>>
      OBVIOUS
    <3> QED
      BY <3>1, <3>2, <3>3
  <2>3. main'[C(s)] = main[C(s)] /\ chan' = chan
    BY <1>3, <1>4, <1>7
  <2> QED
    BY <1>1, <1>2, <1>7, <2>1, <2>2, <2>3 DEF Dialogue
<1>9. /\ k # Control /\ at[End(s, k, "server")] = None
      /\ \A j \in Channels : j < k => at[End(s, j, "server")] = Ready
      /\ \A j \in Channels : j > k => at[End(s, j, "server")] = None
  BY <1>0, <1>1, <1>3 DEF Shapes, ServerShape
<1>10. ServerShape(s)'
  <2>1. \A j \in Channels : j < k \/ j > k => j # k
    BY DEF Channels
  <2>2. ASSUME NEW j \in Channels, j # k
        PROVE  at'[End(s, j, "server")] = at[End(s, j, "server")]
    <3>1. /\ End(s, j, "server") \in Ends
          /\ End(s, j, "server")[2] = j /\ End(s, k, "server")[2] = k
      BY EndIs
    <3> QED
      BY <1>7, <2>2, <3>1
  <2>3. /\ \A j \in Channels : j < k => at'[End(s, j, "server")] = Ready
        /\ \A j \in Channels : j > k => at'[End(s, j, "server")] = None
    BY <1>9, <2>1, <2>2
  <2>4. at'[End(s, k, "server")] = <<"make", 1>>
    BY <1>7, EndIs
  <2>5. <<"make", 1>> # None /\ <<"make", 1>> \notin Closed
    BY DEF None, Closed, Gone
  <2> QED
    BY <1>7, <2>3, <2>4, <2>5 DEF ServerShape
<1>11. GoesOn(S(s))
  <2>1. \A o \in Ends : \/ at'[o] = at[o]
                        \/ Proc(o) = S(s) /\ at[o] = None /\ at'[o] = <<"make", 1>>
    BY <1>7, <1>9, EndIs
  <2>2. chan' \in [Session \X Sides -> Channels]
    BY <1>0, <1>3 DEF TypeOK
  <2> QED
    BY <1>3, <1>4, <1>6, <1>7, <2>1, <2>2 DEF GoesOn
<1> QED
  BY <1>5, <1>7, <1>8, <1>9, <1>10, <1>11, ServerGoesOn

-----------------------------------------------------------------------------
(* The workers and the server's threads.                                   *)

(***************************************************************************)
(* A worker writes a request, or "quit".                                   *)
(***************************************************************************)
LEMMA WorkerSaysKeeps ==
  ASSUME Inv, NEW s \in Session, NEW k \in Workers,
         WorkerRequests(s, k) \/ WorkerQuits(s, k)
  PROVE  Inv'
<1>0. TypeOK /\ Meeting /\ Naming
  BY DEF Inv
<1>1. PICK m \in {"data", "quit"} :
        /\ worker[<<s, k>>] = "write"
        /\ Writes(End(s, k, "client"), Msg(m))
        /\ worker' = [worker EXCEPT ![<<s, k>>] = IF m = "quit" THEN "done" ELSE "read"]
        /\ UNCHANGED <<file, at, fd, fate, main, chan, thread, stolen, fault>>
        /\ m = "quit" => todo' = todo
        /\ m = "data" => todo' = [todo EXCEPT ![s] = @ - 1] /\ todo[s] > 0
  <2>1. CASE WorkerRequests(s, k)
    BY <2>1 DEF WorkerRequests, Requests, Sends, history
  <2>2. CASE WorkerQuits(s, k)
    BY <2>2 DEF WorkerQuits, Sends, history
  <2> QED
    BY <2>1, <2>2
<1>2. /\ at[End(s, k, "client")] \in Through /\ Exchange(s, k)
      /\ k \in Channels /\ Msg(m) \in Message /\ "client" \in Sides
  BY <1>0, <1>1, DataTalks, SessionTypes DEF Msg, Message, Sides
<1>3. Said(s, k, Append(Up(s, k), Msg(m)), Down(s, k))
  <2>1. Written(s, k, "client", Msg(m))
    BY <1>0, <1>1, <1>2, CwriteDoes
  <2> QED
    BY <2>1 DEF Written
<1>4. thread[<<s, k>>] \in {"none", "read"} /\ Up(s, k) = <<>> /\ Down(s, k) = <<>>
  BY <1>1, <1>2 DEF Exchange, Silent
<1>5. Up(s, k)' = <<Msg(m)>> /\ Down(s, k)' = <<>>
  <2>1. Up(s, k)' = Append(Up(s, k), Msg(m)) /\ Down(s, k)' = Down(s, k)
    BY <1>3 DEF Said
  <2>2. Append(<<>>, Msg(m)) = <<Msg(m)>>
    OBVIOUS
  <2> QED
    BY <1>4, <2>1, <2>2
<1>6. /\ worker' \in [Session \X Workers -> {"none", "write", "read", "done"}]
      /\ worker'[<<s, k>>] = IF m = "quit" THEN "done" ELSE "read"
      /\ \A t \in Session, j \in Workers :
           t # s \/ j # k => worker'[<<t, j>>] = worker[<<t, j>>]
  <2>1. worker \in [Session \X Workers -> {"none", "write", "read", "done"}]
    BY <1>0 DEF TypeOK
  <2> QED
    BY <1>1, <2>1
<1>7. /\ thread' = thread
      /\ thread' \in [Session \X Workers -> {"none", "read", "reply", "done"}]
  BY <1>0, <1>1 DEF TypeOK
<1>8. todo' \in [Session -> 0..N]
  <2>1. todo \in [Session -> 0..N] /\ N \in Nat
    BY <1>0, FifoAssumption DEF TypeOK
  <2>2. CASE m = "quit"
    BY <1>1, <2>1, <2>2
  <2>3. CASE m = "data"
    <3>1. todo[s] - 1 \in 0..N
      BY <1>1, <2>1, <2>3
    <3> QED
      BY <1>1, <2>1, <2>3, <3>1
  <2> QED
    BY <2>2, <2>3
<1>9. Exchange(s, k)'
  <2>1. CASE m = "quit"
    BY <1>4, <1>5, <1>6, <1>7, <2>1 DEF Exchange
  <2>2. CASE m = "data"
    BY <1>4, <1>5, <1>6, <1>7, <2>2 DEF Exchange
  <2> QED
    BY <2>1, <2>2
<1>10. PICK up, down : Said(s, k, up, down)
  BY <1>3
<1>11. /\ worker[<<s, k>>] # "none" /\ worker[<<s, k>>] # "done"
       /\ UNCHANGED <<file, at, fd, fate, main, chan, stolen, fault>>
  BY <1>1
<1> QED
  BY <1>2, <1>6, <1>7, <1>8, <1>9, <1>10, <1>11, ExchangeGoesOn

(***************************************************************************)
(* A worker reads its answer.                                              *)
(***************************************************************************)
LEMMA WorkerReceivesKeeps ==
  ASSUME Inv, NEW s \in Session, NEW k \in Workers, WorkerReceives(s, k)
  PROVE  Inv'
<1>0. TypeOK /\ Meeting /\ Naming
  BY DEF Inv
<1>1. /\ worker[<<s, k>>] = "read"
      /\ Reads(End(s, k, "client"), Msg("number"))
      /\ worker' = [worker EXCEPT ![<<s, k>>] = "write"]
      /\ UNCHANGED <<file, at, fd, fate, main, chan, todo, thread, stolen, fault>>
  BY DEF WorkerReceives, history
<1>2. /\ at[End(s, k, "client")] \in Through /\ Exchange(s, k)
      /\ k \in Channels /\ "client" \in Sides
  BY <1>0, <1>1, DataTalks, SessionTypes DEF Sides
<1>3. Down(s, k) # <<>> /\ Said(s, k, Up(s, k), Tail(Down(s, k)))
  <2>1. PICK m : m = Msg("number")
    OBVIOUS
  <2>2. Heard(s, k, "client", m)
    BY <1>0, <1>1, <1>2, <2>1, CreadDoes
  <2> QED
    BY <2>2 DEF Heard
<1>4. /\ thread[<<s, k>>] = "read" /\ Up(s, k) = <<>>
      /\ Down(s, k) = <<Msg("number")>>
  BY <1>1, <1>2, <1>3 DEF Exchange, Silent
<1>5. Up(s, k)' = <<>> /\ Down(s, k)' = <<>>
  <2>1. Up(s, k)' = Up(s, k) /\ Down(s, k)' = Tail(Down(s, k))
    BY <1>3 DEF Said
  <2>2. Tail(<<Msg("number")>>) = <<>>
    OBVIOUS
  <2> QED
    BY <1>4, <2>1, <2>2
<1>6. /\ worker' \in [Session \X Workers -> {"none", "write", "read", "done"}]
      /\ worker'[<<s, k>>] = "write"
      /\ \A t \in Session, j \in Workers :
           t # s \/ j # k => worker'[<<t, j>>] = worker[<<t, j>>]
  <2>1. worker \in [Session \X Workers -> {"none", "write", "read", "done"}]
    BY <1>0 DEF TypeOK
  <2> QED
    BY <1>1, <2>1
<1>7. /\ thread' = thread
      /\ thread' \in [Session \X Workers -> {"none", "read", "reply", "done"}]
      /\ todo' \in [Session -> 0..N]
  BY <1>0, <1>1 DEF TypeOK
<1>8. Exchange(s, k)'
  BY <1>4, <1>5, <1>6, <1>7 DEF Exchange, Silent
<1>9. PICK up, down : Said(s, k, up, down)
  BY <1>3
<1>10. /\ worker[<<s, k>>] # "none" /\ worker[<<s, k>>] # "done"
       /\ UNCHANGED <<file, at, fd, fate, main, chan, stolen, fault>>
  BY <1>1
<1> QED
  BY <1>2, <1>6, <1>7, <1>8, <1>9, <1>10, ExchangeGoesOn

(***************************************************************************)
(* A thread of the server reads a request, or "quit".                      *)
(***************************************************************************)
LEMMA ThreadReadsKeeps ==
  ASSUME Inv, NEW s \in Session, NEW k \in Workers, ThreadReads(s, k)
  PROVE  Inv'
<1>0. TypeOK /\ Meeting /\ Naming
  BY DEF Inv
<1>1. PICK m \in {"data", "quit"} :
        /\ thread[<<s, k>>] = "read"
        /\ Reads(End(s, k, "server"), Msg(m))
        /\ thread' = [thread EXCEPT ![<<s, k>>] = IF m = "data" THEN "reply" ELSE "done"]
        /\ UNCHANGED <<file, at, fd, fate, main, chan, worker, todo, stolen, fault>>
  BY DEF ThreadReads, history
<1>2. /\ at[End(s, k, "client")] \in Through /\ Exchange(s, k)
      /\ k \in Channels /\ "server" \in Sides /\ "server" # "client"
  BY <1>0, <1>1, DataTalks, SessionTypes DEF Sides
<1>3. /\ Up(s, k) # <<>> /\ Msg(m) = Head(Up(s, k))
      /\ Said(s, k, Tail(Up(s, k)), Down(s, k))
  <2>1. Heard(s, k, "server", Msg(m))
    BY <1>0, <1>1, <1>2, CreadDoes
  <2> QED
    BY <1>2, <2>1 DEF Heard
<1>4. PICK n \in {"data", "quit"} :
        /\ worker[<<s, k>>] = IF n = "data" THEN "read" ELSE "done"
        /\ Up(s, k) = <<Msg(n)>> /\ Down(s, k) = <<>>
  BY <1>1, <1>2, <1>3 DEF Exchange, Silent
<1>5. n = m /\ Tail(Up(s, k)) = <<>>
  <2>1. PICK q : q = Msg(n)
    OBVIOUS
  <2>2. Head(<<q>>) = q /\ Tail(<<q>>) = <<>>
    OBVIOUS
  <2>3. Msg(m) = Msg(n) /\ Tail(Up(s, k)) = <<>>
    BY <1>3, <1>4, <2>1, <2>2
  <2>4. Msg(m).kind = m /\ Msg(n).kind = n
    BY DEF Msg
  <2> QED
    BY <2>3, <2>4
<1>6. Up(s, k)' = <<>> /\ Down(s, k)' = <<>>
  BY <1>3, <1>4, <1>5 DEF Said
<1>7. /\ thread' \in [Session \X Workers -> {"none", "read", "reply", "done"}]
      /\ thread'[<<s, k>>] = IF m = "data" THEN "reply" ELSE "done"
      /\ \A t \in Session, j \in Workers :
           t # s \/ j # k => thread'[<<t, j>>] = thread[<<t, j>>]
  <2>1. thread \in [Session \X Workers -> {"none", "read", "reply", "done"}]
    BY <1>0 DEF TypeOK
  <2> QED
    BY <1>1, <2>1
<1>8. /\ worker' = worker
      /\ worker' \in [Session \X Workers -> {"none", "write", "read", "done"}]
      /\ todo' \in [Session -> 0..N]
  BY <1>0, <1>1 DEF TypeOK
<1>9. Exchange(s, k)'
  <2>1. CASE m = "data"
    BY <1>4, <1>5, <1>6, <1>7, <1>8, <2>1 DEF Exchange, Silent
  <2>2. CASE m = "quit"
    BY <1>4, <1>5, <1>6, <1>7, <1>8, <2>2 DEF Exchange, Silent
  <2> QED
    BY <2>1, <2>2
<1>10. PICK up, down : Said(s, k, up, down)
  BY <1>3
<1>11. /\ thread[<<s, k>>] # "none"
       /\ UNCHANGED <<file, at, fd, fate, main, chan, stolen, fault>>
  BY <1>1
<1> QED
  BY <1>2, <1>7, <1>8, <1>9, <1>10, <1>11, ExchangeGoesOn

(***************************************************************************)
(* A thread of the server answers.                                         *)
(***************************************************************************)
LEMMA ThreadRepliesKeeps ==
  ASSUME Inv, NEW s \in Session, NEW k \in Workers, ThreadReplies(s, k)
  PROVE  Inv'
<1>0. TypeOK /\ Meeting /\ Naming
  BY DEF Inv
<1>1. /\ thread[<<s, k>>] = "reply"
      /\ Writes(End(s, k, "server"), Msg("number"))
      /\ thread' = [thread EXCEPT ![<<s, k>>] = "read"]
      /\ UNCHANGED <<file, at, fd, fate, main, chan, worker, todo, stolen, fault>>
  BY DEF ThreadReplies, history
<1>2. /\ at[End(s, k, "client")] \in Through /\ Exchange(s, k)
      /\ k \in Channels /\ "server" \in Sides /\ "server" # "client"
      /\ Msg("number") \in Message
  BY <1>0, <1>1, DataTalks, SessionTypes DEF Sides, Msg, Message
<1>3. Said(s, k, Up(s, k), Append(Down(s, k), Msg("number")))
  <2>1. Written(s, k, "server", Msg("number"))
    BY <1>0, <1>1, <1>2, CwriteDoes
  <2> QED
    BY <1>2, <2>1 DEF Written
<1>4. worker[<<s, k>>] = "read" /\ Up(s, k) = <<>> /\ Down(s, k) = <<>>
  BY <1>1, <1>2 DEF Exchange, Silent
<1>5. Up(s, k)' = <<>> /\ Down(s, k)' = <<Msg("number")>>
  <2>1. /\ Up(s, k)' = Up(s, k)
        /\ Down(s, k)' = Append(Down(s, k), Msg("number"))
    BY <1>3 DEF Said
  <2>2. Append(<<>>, Msg("number")) = <<Msg("number")>>
    OBVIOUS
  <2> QED
    BY <1>4, <2>1, <2>2
<1>6. /\ thread' \in [Session \X Workers -> {"none", "read", "reply", "done"}]
      /\ thread'[<<s, k>>] = "read"
      /\ \A t \in Session, j \in Workers :
           t # s \/ j # k => thread'[<<t, j>>] = thread[<<t, j>>]
  <2>1. thread \in [Session \X Workers -> {"none", "read", "reply", "done"}]
    BY <1>0 DEF TypeOK
  <2> QED
    BY <1>1, <2>1
<1>7. /\ worker' = worker
      /\ worker' \in [Session \X Workers -> {"none", "write", "read", "done"}]
      /\ todo' \in [Session -> 0..N]
  BY <1>0, <1>1 DEF TypeOK
<1>8. Exchange(s, k)'
  BY <1>4, <1>5, <1>6, <1>7 DEF Exchange
<1>9. PICK up, down : Said(s, k, up, down)
  BY <1>3
<1>10. /\ thread[<<s, k>>] # "none"
       /\ UNCHANGED <<file, at, fd, fate, main, chan, stolen, fault>>
  BY <1>1
<1> QED
  BY <1>2, <1>6, <1>7, <1>8, <1>9, <1>10, ExchangeGoesOn

-----------------------------------------------------------------------------
(* The initial states and all steps.                                       *)

(***************************************************************************)
(* At first there is nobody, and either no file or those that a session    *)
(* has left behind, one pipe for each.                                     *)
(***************************************************************************)
LEMMA InitPipes ==
  ASSUME Init
  PROVE  /\ pipes \in Seq(Pipe) /\ file \in [Names -> 0..Len(pipes)]
         /\ \A i \in 1..Len(pipes) :
              pipes[i].by = 1 /\ pipes[i].data = <<>>
              /\ pipes[i].reader = {} /\ pipes[i].writer = {}
         /\ \A n, o \in Names : file[n] # NoPipe /\ file[n] = file[o] => n = o
<1>1. PICK left \in BOOLEAN :
        /\ file = [n \in Names |-> IF left THEN 2 * n[1] + n[2] ELSE NoPipe]
        /\ pipes = [x \in 1..(IF left THEN 2 * W + 2 ELSE 0) |-> NewPipe(1)]
  BY DEF Init
<1>2. W \in Nat /\ 1 \in Session
  BY FifoAssumption DEF Session
<1>3. PICK p \in Pipe :
        p = NewPipe(1) /\ p.by = 1 /\ p.data = <<>> /\ p.reader = {} /\ p.writer = {}
  <2>1. /\ NewPipe(1).by = 1 /\ NewPipe(1).data = <<>>
        /\ NewPipe(1).reader = {} /\ NewPipe(1).writer = {}
    BY DEF NewPipe
  <2>2. NewPipe(1) \in Pipe
    BY <1>2 DEF NewPipe, Pipe
  <2> QED
    BY <2>1, <2>2
<1>4. PICK n \in Nat : n = (IF left THEN 2 * W + 2 ELSE 0)
  BY <1>2
<1>5. pipes = [x \in 1..n |-> p]
  BY <1>1, <1>3, <1>4
<1>6. pipes \in Seq(Pipe) /\ Len(pipes) = n /\ \A i \in 1..n : pipes[i] = p
  BY <1>5
<1>7. \A m \in Names : m[1] \in 0..W /\ m[2] \in 1..2 /\ m = <<m[1], m[2]>>
  BY DEF Names, Channels
<1>8. file \in [Names -> 0..n]
  <2>1. ASSUME NEW m \in Names
        PROVE  (IF left THEN 2 * m[1] + m[2] ELSE NoPipe) \in 0..n
    BY <1>2, <1>4, <1>7 DEF NoPipe
  <2> QED
    BY <1>1, <2>1
<1>9. ASSUME NEW m \in Names, NEW o \in Names, file[m] # NoPipe, file[m] = file[o]
      PROVE  m = o
  <2>1. left /\ file[m] = 2 * m[1] + m[2] /\ file[o] = 2 * o[1] + o[2]
    BY <1>1, <1>9
  <2>2. PICK a \in 0..W, b \in 1..2, c \in 0..W, d \in 1..2 :
          a = m[1] /\ b = m[2] /\ c = o[1] /\ d = o[2]
    BY <1>7
  <2>3. 2 * a + b = 2 * c + d
    BY <1>9, <2>1, <2>2
  <2>4. a = c /\ b = d
    BY <1>2, <2>3
  <2> QED
    BY <1>7, <2>2, <2>4
<1> QED
  BY <1>3, <1>6, <1>8, <1>9

(***************************************************************************)
(* The invariant holds at the start, with or without the files of a session*)
(* that ended badly.                                                       *)
(***************************************************************************)
LEMMA InitInv ==
  ASSUME Init
  PROVE  Inv
<1>1. /\ pipes \in Seq(Pipe) /\ file \in [Names -> 0..Len(pipes)]
      /\ \A i \in 1..Len(pipes) :
           pipes[i].by = 1 /\ pipes[i].data = <<>>
           /\ pipes[i].reader = {} /\ pipes[i].writer = {}
      /\ \A n, o \in Names : file[n] # NoPipe /\ file[n] = file[o] => n = o
  BY InitPipes
<1>2. /\ at = [e \in Ends |-> <<"none", 1>>]
      /\ fd = [e \in Ends |-> <<NoPipe, NoPipe>>]
      /\ fate = [p \in Session \X Sides |-> "unborn"]
      /\ main = [p \in Session \X Sides |-> "none"]
      /\ chan = [p \in Session \X Sides |-> Control]
      /\ worker = [p \in Session \X Workers |-> "none"]
      /\ todo = [s \in Session |-> N]
      /\ thread = [p \in Session \X Workers |-> "none"]
      /\ stolen = FALSE /\ fault = "none"
  BY DEF Init
<1>3. /\ N \in Nat /\ Control \in Channels /\ Len(pipes) \in Nat
      /\ \A j \in Workers : j \in Channels
  BY <1>1, FifoAssumption DEF Control, Channels, Workers
<1>4. /\ \A e \in Ends : at[e] = None
      /\ \A e \in Ends, x \in {1, 2} : fd[e][x] = NoPipe
      /\ None \notin Has(1) /\ None \notin Has(2) /\ None \notin Through /\ None # Gone
      /\ None \notin Passed(1) /\ None \notin Passed(2)
  BY <1>2 DEF None, Has, Passed, Halfway, Through, Closed, Ready, Gone
<1>5. /\ \A p \in Session \X Sides :
           fate[p] = "unborn" /\ main[p] = "none" /\ chan[p] = Control
      /\ \A s \in Session : C(s) \in Session \X Sides /\ S(s) \in Session \X Sides
      /\ \A e \in Ends : Proc(e) \in Session \X Sides /\ Peer(e) \in Ends
      /\ \A s \in Session, k \in Channels :
           End(s, k, "client") \in Ends /\ End(s, k, "server") \in Ends
  BY <1>2, EndParts, EndIs DEF C, S, Sides
<1>6. TypeOK
  <2>1. at \in [Ends -> Points \X (1..2)]
    BY <1>2 DEF Points
  <2>2. fd \in [Ends -> [1..2 -> 0..Len(pipes)]]
    <3>1. <<NoPipe, NoPipe>> \in [1..2 -> 0..Len(pipes)]
      BY <1>3 DEF NoPipe
    <3> QED
      BY <1>2, <3>1
  <2>3. /\ fate \in [Session \X Sides -> {"unborn", "running", "exit", "rmv", "killed"}]
        /\ main \in [Session \X Sides ->
                      {"none", "open", "next", "reply", "join", "delete", "quit", "leave"}]
        /\ chan \in [Session \X Sides -> Channels]
    BY <1>2, <1>3
  <2>4. /\ worker \in [Session \X Workers -> {"none", "write", "read", "done"}]
        /\ thread \in [Session \X Workers -> {"none", "read", "reply", "done"}]
        /\ todo \in [Session -> 0..N] /\ stolen \in BOOLEAN
        /\ fault \in {"none", "killed", "no_worker", "no_thread"}
    <3>1. worker \in [Session \X Workers -> {"none", "write", "read", "done"}]
      BY <1>2
    <3>2. thread \in [Session \X Workers -> {"none", "read", "reply", "done"}]
      BY <1>2
    <3>3. todo \in [Session -> 0..N]
      <4>1. N \in 0..N
        BY <1>3
      <4> QED
        BY <1>2, <4>1
    <3>4. stolen \in BOOLEAN
      BY <1>2
    <3>5. fault \in {"none", "killed", "no_worker", "no_thread"}
      BY <1>2
    <3> QED
      BY <3>1, <3>2, <3>3, <3>4, <3>5
  <2> QED
    BY <1>1, <2>1, <2>2, <2>3, <2>4 DEF TypeOK
<1>7. Meeting
  <2>1. Stages
    BY <1>4 DEF Stages, Fresh
  <2>2. Held
    BY <1>4 DEF Held
  <2>3. SidesKept
    <3>1. \A e \in Ends : ~Holding(e)
      BY <1>5 DEF Holding, Running
    <3> QED
      BY <1>1, <3>1 DEF SidesKept
  <2>4. Sync
    BY <1>4 DEF Sync
  <2>5. Meet
    BY <1>4 DEF Meet
  <2>6. Found
    BY <1>4, <1>5 DEF Found
  <2>7. Sought
    BY <1>5 DEF Sought, Fine
  <2> QED
    BY <2>1, <2>2, <2>3, <2>4, <2>5, <2>6, <2>7 DEF Meeting
<1>8. Naming
  <2>1. Named
    <3>1. PICK name :
            name = [i \in 1..Len(pipes) |->
                      IF \E n \in Names : file[n] = i
                      THEN CHOOSE n \in Names : file[n] = i ELSE <<Control, 1>>]
      OBVIOUS
    <3>2. name \in [1..Len(pipes) -> Names]
      <4>1. <<Control, 1>> \in Names
        BY <1>3 DEF Names
      <4> QED
        BY <3>1, <4>1
    <3>3. ASSUME NEW n \in Names, file[n] # NoPipe
          PROVE  name[file[n]] = n
      <4>1. file[n] \in 1..Len(pipes)
        BY <1>1, <1>3, <3>3 DEF NoPipe
      <4>2. PICK m : m = CHOOSE o \in Names : file[o] = file[n]
        OBVIOUS
      <4>3. m \in Names /\ file[m] = file[n]
        BY <4>2
      <4>4. m = n
        BY <1>1, <3>3, <4>3
      <4>5. name[file[n]] = m
        BY <3>1, <4>1, <4>2
      <4> QED
        BY <4>4, <4>5
    <3> QED
      BY <1>4, <3>2, <3>3 DEF Named
  <2>2. OwnPipes
    BY <1>4 DEF OwnPipes
  <2>3. Newest
    <3>1. \A n \in Names : file[n] # NoPipe => pipes[file[n]].by = 1
      BY <1>1, <1>3 DEF NoPipe
    <3>2. \A s \in Session : ~Begun(C(s))
      BY <1>5 DEF Begun
    <3> QED
      BY <3>1, <3>2 DEF Newest
  <2>4. Removed
    BY <1>4, <1>5 DEF Removed, None, Gone
  <2> QED
    BY <2>1, <2>2, <2>3, <2>4 DEF Naming
<1>9. Lives
  BY <1>5 DEF Lives, Begun
<1>10. Shapes
  <2> SUFFICES ASSUME NEW s \in Session
               PROVE  ClientShape(s) /\ ServerShape(s) /\ WorkerShape(s)
    BY DEF Shapes
  <2>1. /\ main[C(s)] = "none" /\ main[S(s)] = "none"
        /\ chan[C(s)] = Control /\ chan[S(s)] = Control
        /\ \A j \in Channels : /\ at[End(s, j, "client")] = None
                               /\ at[End(s, j, "server")] = None
    BY <1>4, <1>5
  <2>2. \A j \in Workers : worker[<<s, j>>] = "none" /\ thread[<<s, j>>] = "none"
    BY <1>2
  <2>3. ClientShape(s)
    BY <2>1 DEF ClientShape
  <2>4. ServerShape(s)
    BY <2>1 DEF ServerShape
  <2>5. WorkerShape(s)
    BY <2>1, <2>2 DEF WorkerShape
  <2> QED
    BY <2>3, <2>4, <2>5
<1>11. Talking
  BY <1>1, <1>3, <1>4, <1>5 DEF Talking, Unwritten
<1> QED
  BY <1>6, <1>7, <1>8, <1>9, <1>10, <1>11 DEF Inv

(***************************************************************************)
(* A constructor, and the destructors.                                     *)
(***************************************************************************)
LEMMA ConstructingKeeps ==
  ASSUME Inv, NEW s \in Session, NEW p \in {C(s), S(s)}, Constructing(p)
  PROVE  Inv'
<1>1. PICK e \in Ends : e = Current(p) /\ Proc(e) = p
  <2>1. chan[C(s)] \in Channels /\ chan[S(s)] \in Channels
    BY SessionTypes DEF Inv
  <2>2. /\ Current(C(s)) = End(s, chan[C(s)], "client")
        /\ Current(S(s)) = End(s, chan[S(s)], "server")
    BY EndIs, <2>1 DEF Current
  <2>3. /\ Current(C(s)) \in Ends /\ Proc(Current(C(s))) = C(s)
        /\ Current(S(s)) \in Ends /\ Proc(Current(S(s))) = S(s)
    BY <2>1, <2>2, EndIs
  <2> QED
    BY <2>3
<1>2. Running(Proc(e)) /\ (Make(e) \/ Open(e) \/ OpenFails(e))
  BY <1>1 DEF Constructing, MainAt, Constructs
<1> QED
  BY <1>2, MakeKeeps, OpenKeeps, OpenFailsKeeps

(***************************************************************************)
(* The control channel is deleted and the process exits, if that removes no*)
(* pipe of a later session.                                                *)
(***************************************************************************)
LEMMA LeavingKeeps ==
  ASSUME Inv, NEW s \in Session, NEW p \in {C(s), S(s)}, Leaving(p), ~stolen'
  PROVE  Inv'
<1>1. PICK e \in Ends : e = ControlOf(p) /\ Proc(e) = p /\ e[2] = Control
  <2>1. Control \in Channels
    BY SessionTypes DEF Inv
  <2>2. /\ ControlOf(C(s)) = End(s, Control, "client")
        /\ ControlOf(S(s)) = End(s, Control, "server")
    BY DEF ControlOf, C, S
  <2>3. /\ ControlOf(C(s)) \in Ends /\ Proc(ControlOf(C(s))) = C(s)
        /\ ControlOf(S(s)) \in Ends /\ Proc(ControlOf(S(s))) = S(s)
        /\ ControlOf(C(s))[2] = Control /\ ControlOf(S(s))[2] = Control
    BY <2>1, <2>2, EndIs
  <2> QED
    BY <2>3
<1>2. /\ Running(Proc(e)) /\ Destroyed(e) /\ p \in Session \X Sides
      /\ MainAt(p, "leave")
      /\ \/ Close(e) \/ Remove(e)
         \/ At(ControlOf(p), "gone") /\ EndsAs(p, "exit")
  BY <1>1 DEF Leaving, MainAt, Destroyed, Destructs, C, S, Sides
<1> QED
  BY <1>2, CloseKeeps, RemoveKeeps, ExitKeeps

(***************************************************************************)
(* The client deletes a channel of a worker; the files are its own         *)
(* session's (pa6/client.cpp:391).                                         *)
(***************************************************************************)
LEMMA ClientDeletesKeeps ==
  ASSUME Inv, NEW s \in Session, ClientDeletes(s), ~stolen'
  PROVE  Inv'
<1>1. PICK k \in Channels : k = chan[C(s)]
  BY SessionTypes DEF Inv
<1>2. PICK e \in Ends :
        /\ e = Current(C(s)) /\ Proc(e) = C(s) /\ e[2] = k /\ e[3] = "client"
  BY <1>1, EndIs DEF Current, C
<1>3. Running(Proc(e)) /\ Destroyed(e)
  BY <1>1, <1>2 DEF ClientDeletes, MainAt, Destroyed
<1>4. CASE Close(e) \/ Remove(e)
  BY <1>3, <1>4, CloseKeeps, RemoveKeeps
<1>5. CASE ~(Close(e) \/ Remove(e))
  <2>1. /\ MainAt(C(s), "delete") /\ At(Current(C(s)), "gone")
        /\ IF k < W
           THEN chan' = [chan EXCEPT ![C(s)] = k + 1] /\ UNCHANGED main
           ELSE main' = [main EXCEPT ![C(s)] = "quit"] /\ UNCHANGED chan
        /\ UNCHANGED <<file, pipes, at, fd, fate, worker, todo, thread, stolen, fault>>
    BY <1>1, <1>2, <1>5 DEF ClientDeletes, Destructs, history
  <2> QED
    BY <1>1, <2>1, ClientDeletesNextKeeps
<1> QED
  BY <1>4, <1>5

(***************************************************************************)
(* Every step that is not a theft keeps the invariant.                     *)
(***************************************************************************)
LEMMA NextInv ==
  ASSUME Inv, Next, ~stolen'
  PROVE  Inv'
<1>1. PICK s \in Session :
        \/ Launch(s) \/ ClientMain(s) \/ ServerMain(s)
        \/ \E k \in Workers : Worker(s, k) \/ Thread(s, k)
        \/ \E side \in Sides : Crash(<<s, side>>)
  BY DEF Next
<1>2. CASE Launch(s)
  BY <1>2, LaunchKeeps
<1>3. CASE ClientMain(s)
  <2>1. CASE Constructing(C(s))
    BY <2>1, ConstructingKeeps
  <2>2. CASE ClientOpened(s)
    BY <2>2, ClientOpenedKeeps
  <2>3. CASE ClientLacksWorker(s)
    BY <2>3, LacksWorkerKeeps
  <2>4. CASE ClientAsks(s) \/ ClientQuits(s)
    BY <2>4, ClientSaysKeeps
  <2>5. CASE ClientNamed(s)
    BY <2>5, ClientNamedKeeps
  <2>6. CASE ClientJoins(s)
    BY <2>6, ClientJoinsKeeps
  <2>7. CASE ClientDeletes(s)
    BY <2>7, ClientDeletesKeeps
  <2>8. CASE Leaving(C(s))
    BY <2>8, LeavingKeeps
  <2>9. CASE ClientEnds(s)
    BY <2>9, ClientEndsKeeps
  <2> QED
    BY <1>3, <2>1, <2>2, <2>3, <2>4, <2>5, <2>6, <2>7, <2>8, <2>9 DEF ClientMain
<1>4. CASE ServerMain(s)
  <2>1. CASE Constructing(S(s))
    BY <2>1, ConstructingKeeps
  <2>2. CASE ServerOpened(s)
    BY <2>2, ServerOpenedKeeps
  <2>3. CASE ServerReads(s)
    BY <2>3, ServerReadsKeeps
  <2>4. CASE ServerReplies(s)
    BY <2>4, ServerRepliesKeeps
  <2>5. CASE Leaving(S(s))
    BY <2>5, LeavingKeeps
  <2>6. CASE ServerEnds(s)
    BY <2>6, ServerEndsKeeps
  <2> QED
    BY <1>4, <2>1, <2>2, <2>3, <2>4, <2>5, <2>6 DEF ServerMain
<1>5. ASSUME NEW k \in Workers, Worker(s, k)
      PROVE  Inv'
  BY <1>5, WorkerSaysKeeps, WorkerReceivesKeeps, WorkerEndsKeeps DEF Worker
<1>6. ASSUME NEW k \in Workers, Thread(s, k)
      PROVE  Inv'
  BY <1>6, ThreadReadsKeeps, ThreadRepliesKeeps, ThreadEndsKeeps DEF Thread
<1>7. ASSUME NEW side \in Sides, Crash(<<s, side>>)
      PROVE  Inv'
  BY <1>7, CrashKeeps
<1> QED
  BY <1>1, <1>2, <1>3, <1>4, <1>5, <1>6, <1>7

(***************************************************************************)
(* When nothing changes the invariant stays.                               *)
(***************************************************************************)
LEMMA StutterInv ==
  ASSUME Inv, UNCHANGED vars
  PROVE  Inv'
<1>1. UNCHANGED <<file, pipes, at, fd, fate, main, chan, worker, todo, thread,
                  stolen, fault>>
  BY DEF vars, history
<1>2. TypeOK'
  BY <1>1 DEF Inv, TypeOK
<1>3. Meeting'
  <2>1. SamePipes
    BY <1>1 DEF SamePipes
  <2> QED
    BY <1>1, <2>1, FreshMeeting DEF Inv
<1>4. Naming'
  <2>1. SamePipes /\ \A s \in Session : Begun(C(s))' <=> Begun(C(s))
    BY <1>1 DEF SamePipes, Begun
  <2> QED
    BY <1>1, <2>1, FreshNaming DEF Inv, Naming
<1>5. Lives'
  BY <1>1, LivesMoves DEF Inv
<1>6. Shapes'
  BY <1>1, ConstructShapes DEF Inv
<1>7. Talking'
  BY <1>1, TalkStill DEF Inv, Meeting
<1> QED
  BY <1>2, <1>3, <1>4, <1>5, <1>6, <1>7 DEF Inv

(***************************************************************************)
(* What was stolen once stays stolen.                                      *)
(***************************************************************************)
LEMMA StolenStays ==
  ASSUME stolen, [Next]_vars
  PROVE  stolen'
<1>1. ASSUME NEW e, Constructs(e) \/ Destructs(e) PROVE stolen'
  BY <1>1 DEF Constructs, Make, Makes, Open, OpenFails, EndsAs, Dies, Destructs,
              Close, Remove, Removes, history
<1>2. ASSUME NEW p, NEW f, Dies(p, f) PROVE stolen'
  BY <1>2 DEF Dies
<1>3. ASSUME NEW e, WriteEnds(e) \/ ReadEnds(e) PROVE stolen'
  BY <1>3, <1>2 DEF WriteEnds, ReadEnds, EndsAs
<1>4. ASSUME NEW p, Constructing(p) \/ Leaving(p) PROVE stolen'
  BY <1>4, <1>1, <1>2 DEF Constructing, Leaving, EndsAs
<1>5. CASE UNCHANGED vars
  BY <1>5 DEF vars, history
<1>6. CASE Next
  <2>1. PICK s \in Session :
          \/ Launch(s) \/ ClientMain(s) \/ ServerMain(s)
          \/ \E k \in Workers : Worker(s, k) \/ Thread(s, k)
          \/ \E side \in Sides : Crash(<<s, side>>)
    BY <1>6 DEF Next
  <2>2. CASE Launch(s)
    BY <2>2 DEF Launch, history
  <2>3. CASE ClientMain(s)
    <3>1. CASE Constructing(C(s)) \/ Leaving(C(s))
      BY <3>1, <1>4
    <3>2. CASE ClientOpened(s) \/ ClientAsks(s) \/ ClientNamed(s) \/ ClientQuits(s)
      BY <3>2 DEF ClientOpened, ClientAsks, ClientNamed, ClientQuits, history
    <3>3. CASE ClientLacksWorker(s)
      BY <3>3, <1>2 DEF ClientLacksWorker
    <3>4. CASE ClientJoins(s)
      BY <3>4 DEF ClientJoins, FirstDelete, history
    <3>5. CASE ClientDeletes(s)
      BY <3>5, <1>1 DEF ClientDeletes, history
    <3>6. CASE ClientEnds(s)
      BY <3>6, <1>3 DEF ClientEnds
    <3> QED
      BY <2>3, <3>1, <3>2, <3>3, <3>4, <3>5, <3>6 DEF ClientMain
  <2>4. CASE ServerMain(s)
    <3>1. CASE Constructing(S(s)) \/ Leaving(S(s))
      BY <3>1, <1>4
    <3>2. CASE ServerOpened(s) \/ ServerReads(s) \/ ServerReplies(s)
      BY <3>2 DEF ServerOpened, ServerReads, ServerReplies, history
    <3>3. CASE ServerEnds(s)
      BY <3>3, <1>3 DEF ServerEnds
    <3> QED
      BY <2>4, <3>1, <3>2, <3>3 DEF ServerMain
  <2>5. ASSUME NEW k \in Workers, Worker(s, k) PROVE stolen'
    <3>1. CASE WorkerRequests(s, k) \/ WorkerQuits(s, k) \/ WorkerReceives(s, k)
      BY <3>1 DEF WorkerRequests, WorkerQuits, WorkerReceives, Requests, Sends, history
    <3>2. CASE WorkerEnds(s, k)
      BY <3>2, <1>3 DEF WorkerEnds
    <3> QED
      BY <2>5, <3>1, <3>2 DEF Worker
  <2>6. ASSUME NEW k \in Workers, Thread(s, k) PROVE stolen'
    <3>1. CASE ThreadReads(s, k) \/ ThreadReplies(s, k)
      BY <3>1 DEF ThreadReads, ThreadReplies, history
    <3>2. CASE ThreadEnds(s, k)
      BY <3>2, <1>3 DEF ThreadEnds
    <3> QED
      BY <2>6, <3>1, <3>2 DEF Thread
  <2>7. ASSUME NEW side \in Sides, Crash(<<s, side>>) PROVE stolen'
    BY <2>7, <1>2 DEF Crash
  <2> QED
    BY <2>1, <2>2, <2>3, <2>4, <2>5, <2>6, <2>7
<1> QED
  BY <1>5, <1>6

-----------------------------------------------------------------------------
(* The types, which a theft does not touch.                                *)

PipesKept == pipes' \in Seq(Pipe) /\ Len(pipes') = Len(pipes)

\* The types of the variables that do not mention the pipes.
LocalTypes ==
  /\ at \in [Ends -> Points \X (1..2)]
  /\ fate \in [Session \X Sides -> {"unborn", "running", "exit", "rmv", "killed"}]
  /\ main \in [Session \X Sides ->
                 {"none", "open", "next", "reply", "join", "delete", "quit", "leave"}]
  /\ chan \in [Session \X Sides -> Channels]
  /\ worker \in [Session \X Workers -> {"none", "write", "read", "done"}]
  /\ todo \in [Session -> 0..N]
  /\ thread \in [Session \X Workers -> {"none", "read", "reply", "done"}]
  /\ stolen \in BOOLEAN
  /\ fault \in {"none", "killed", "no_worker", "no_thread"}

(***************************************************************************)
(* A step that opens no pipe and touches no file keeps the types if it     *)
(* keeps those of the other variables.                                     *)
(***************************************************************************)
LEMMA SameFilesTypes ==
  ASSUME TypeOK, PipesKept, file' = file, fd' = fd, LocalTypes'
  PROVE  TypeOK'
<1>1. /\ file' \in [Names -> 0..Len(pipes')]
      /\ fd' \in [Ends -> [1..2 -> 0..Len(pipes')]]
  BY DEF TypeOK, PipesKept
<1> QED
  BY <1>1 DEF PipesKept, LocalTypes, TypeOK

(***************************************************************************)
(* The contents of one pipe change, or none if the end has no pipe.        *)
(***************************************************************************)
LEMMA RefillTypes ==
  ASSUME NEW q \in Seq(Pipe), NEW i \in 0..Len(q), NEW d,
         i # 0 => d \in Seq(Message)
  PROVE  LET r == [q EXCEPT ![i].data = d] IN r \in Seq(Pipe) /\ Len(r) = Len(q)
<1>1. CASE i = 0
  <2>1. PICK x : x = [q[i] EXCEPT !.data = d]
    OBVIOUS
  <2>2. [q EXCEPT ![i].data = d] = [q EXCEPT ![i] = x]
    BY <2>1
  <2>3. q = [j \in 1..Len(q) |-> q[j]] /\ 0 \notin 1..Len(q) /\ DOMAIN q = 1..Len(q)
    OBVIOUS
  <2>4. [q EXCEPT ![0] = x] = q
    BY <2>3
  <2> QED
    BY <1>1, <2>2, <2>4
<1>2. CASE i # 0
  <2>1. i \in 1..Len(q) /\ d \in Seq(Message)
    BY <1>2
  <2> QED
    BY <2>1, PipeChanges
<1> QED
  BY <1>1, <1>2

(***************************************************************************)
(* cwrite and cread keep the pipes, whoever may have removed their files.  *)
(***************************************************************************)
LEMMA WritesTypes ==
  ASSUME TypeOK, NEW e \in Ends, NEW m \in Message, Writes(e, m)
  PROVE  PipesKept
<1>1. pipes \in Seq(Pipe) /\ fd[e] \in [1..2 -> 0..Len(pipes)]
  BY DEF TypeOK
<1>2. WritesTo(SideOf(e)) \in 1..2
  BY EndParts
<1>3. PICK i, d : i = Out(e) /\ d = Append(pipes[i].data, m)
  OBVIOUS
<1>4. i \in 0..Len(pipes)
  BY <1>1, <1>2, <1>3 DEF Out
<1>5. i # 0 => d \in Seq(Message)
  <2>1. i # 0 => pipes[i] \in Pipe
    BY <1>1, <1>4
  <2> QED
    BY <1>3, <2>1, PipeParts
<1>6. pipes' = [pipes EXCEPT ![i].data = d]
  BY <1>3 DEF Writes
<1> QED
  BY <1>1, <1>4, <1>5, <1>6, RefillTypes DEF PipesKept

(***************************************************************************)
(* cread: what is left of a pipe are messages still.                       *)
(***************************************************************************)
LEMMA ReadsTypes ==
  ASSUME TypeOK, NEW e \in Ends, NEW m, Reads(e, m)
  PROVE  PipesKept
<1>1. pipes \in Seq(Pipe) /\ fd[e] \in [1..2 -> 0..Len(pipes)]
  BY DEF TypeOK
<1>2. ReadsFrom(SideOf(e)) \in 1..2
  BY EndParts
<1>3. PICK i, d : i = In(e) /\ d = Tail(pipes[i].data)
  OBVIOUS
<1>4. i \in 0..Len(pipes)
  BY <1>1, <1>2, <1>3 DEF In
<1>5. i # 0 => d \in Seq(Message)
  <2>1. i # 0 => pipes[i] \in Pipe
    BY <1>1, <1>4
  <2>2. i # 0 => pipes[i].data \in Seq(Message) /\ pipes[i].data # <<>>
    BY <1>3, <2>1, PipeParts DEF Reads
  <2> QED
    BY <1>3, <2>2
<1>6. pipes' = [pipes EXCEPT ![i].data = d]
  BY <1>3 DEF Reads
<1> QED
  BY <1>1, <1>4, <1>5, <1>6, RefillTypes DEF PipesKept

(***************************************************************************)
(* create_pipe: the new pipe has a number that the old ones do not have.   *)
(***************************************************************************)
LEMMA MakeTypes ==
  ASSUME TypeOK, NEW e \in Ends, Make(e)
  PROVE  TypeOK'
<1>1. PICK x : at[e] = <<"make", x>> /\ x \in {1, 2}
  <2>1. at[e] \in Points \X (1..2) /\ at[e][1] = "make"
    BY DEF TypeOK, Make, Makes, At
  <2> QED
    BY <2>1
<1>2. NameOf(e) = <<e[2], x>> /\ <<e[2], x>> \in Names
  BY <1>1, EndParts DEF NameOf, PipeOf, Opens, Step, Names
<1>3. [at EXCEPT ![e][1] = "open"] = [at EXCEPT ![e] = <<"open", x>>]
  <2>1. at \in [Ends -> Points \X (1..2)] /\ at[e] \in Points \X (1..2)
    BY DEF TypeOK
  <2>2. [at[e] EXCEPT ![1] = "open"] = <<"open", x>>
    BY <1>1, <2>1, Pairs
  <2> QED
    BY <2>2
<1>4. at' = [at EXCEPT ![e] = <<"open", x>>]
  BY <1>3 DEF Make, Makes
<1>5. at' \in [Ends -> Points \X (1..2)]
  BY <1>1, <1>4 DEF TypeOK, Points
<1>6. UNCHANGED <<fd, fate, main, chan, worker, todo, thread, stolen, fault>>
  BY DEF Make, Makes, history
<1>7. LocalTypes'
  BY <1>5, <1>6 DEF LocalTypes, TypeOK
<1>8. CASE UNCHANGED <<pipes, file>>
  <2>1. PipesKept
    BY <1>8 DEF TypeOK, PipesKept
  <2> QED
    BY <1>6, <1>7, <1>8, <2>1, SameFilesTypes
<1>9. CASE /\ pipes' = Append(pipes, NewPipe(e[1]))
           /\ file' = [file EXCEPT ![<<e[2], x>>] = Len(pipes) + 1]
  <2>0. NewPipe(e[1]) \in Pipe
    BY EndParts DEF NewPipe, Pipe
  <2>1. PICK v \in Pipe : v = NewPipe(e[1])
    BY <2>0
  <2>2. pipes \in Seq(Pipe) /\ Len(pipes) \in Nat
    BY DEF TypeOK
  <2>3. pipes' \in Seq(Pipe) /\ Len(pipes') = Len(pipes) + 1
    BY <1>9, <2>1, <2>2
  <2>4. file' \in [Names -> 0..Len(pipes')]
    BY <1>2, <1>9, <2>2, <2>3 DEF TypeOK
  <2>5. fd' \in [Ends -> [1..2 -> 0..Len(pipes')]]
    <3>1. fd \in [Ends -> [1..2 -> 0..Len(pipes)]]
      BY DEF TypeOK
    <3>2. ASSUME NEW o \in Ends
          PROVE  fd[o] \in [1..2 -> 0..Len(pipes')]
      BY <2>2, <2>3, <3>1
    <3> QED
      BY <1>6, <3>1, <3>2
  <2> QED
    BY <1>7, <2>3, <2>4, <2>5 DEF LocalTypes, TypeOK
<1> QED
  BY <1>2, <1>8, <1>9 DEF Make, Makes

(***************************************************************************)
(* open(): the ends on the other side go on by one step, if they wait.     *)
(***************************************************************************)
LEMMA OpenTypes ==
  ASSUME TypeOK, NEW e \in Ends, Open(e)
  PROVE  TypeOK'
<1>1. PICK x : at[e] = <<"open", x>> /\ x \in {1, 2}
  <2>1. at[e] \in Points \X (1..2) /\ at[e][1] = "open"
    BY DEF TypeOK, Open, At
  <2> QED
    BY <2>1
<1>2. /\ PipeOf(e) = x /\ Step(e) = x
      /\ NameOf(e) = <<e[2], x>> /\ <<e[2], x>> \in Names
  BY <1>1, EndParts DEF NameOf, PipeOf, Opens, Step, Names
<1>3. PICK i : i = file[<<e[2], x>>]
  OBVIOUS
<1>4. pipes \in Seq(Pipe) /\ i \in 1..Len(pipes)
  BY <1>2, <1>3 DEF TypeOK, Open, NoPipe
<1>5. PipesKept
  <2>1. pipes' = WithReader(pipes, i, e) \/ pipes' = WithWriter(pipes, i, e)
    BY <1>2, <1>3 DEF Open, WithReader, WithWriter
  <2>2. \E r \in Seq(Pipe) : r = WithReader(pipes, i, e) /\ Len(r) = Len(pipes)
    BY <1>4, ReaderJoins, ZenonT(40)
  <2>3. \E r \in Seq(Pipe) : r = WithWriter(pipes, i, e) /\ Len(r) = Len(pipes)
    BY <1>4, WriterJoins, ZenonT(40)
  <2> QED
    BY <2>1, <2>2, <2>3 DEF PipesKept
<1>6. /\ fd' = [fd EXCEPT ![e][x] = i]
      /\ UNCHANGED <<file, fate, main, chan, worker, todo, thread, stolen, fault>>
  BY <1>2, <1>3 DEF Open, history
<1>7. file' \in [Names -> 0..Len(pipes')]
  BY <1>5, <1>6 DEF PipesKept, TypeOK
<1>8. fd' \in [Ends -> [1..2 -> 0..Len(pipes')]]
  <2>1. fd \in [Ends -> [1..2 -> 0..Len(pipes)]] /\ i \in 0..Len(pipes)
    BY <1>4 DEF TypeOK
  <2>2. [fd[e] EXCEPT ![x] = i] \in [1..2 -> 0..Len(pipes)]
    BY <1>1, <2>1
  <2>3. fd' \in [Ends -> [1..2 -> 0..Len(pipes)]]
    BY <1>6, <2>1, <2>2
  <2> QED
    BY <1>5, <2>3 DEF PipesKept
<1>9. at' \in [Ends -> Points \X (1..2)]
  <2>1. at \in [Ends -> Points \X (1..2)]
    BY DEF TypeOK
  <2>2. \A o \in Ends : AfterOpen(o) \in Points \X (1..2)
    BY DEF AfterOpen, Points
  <2>3. <<"wait", Step(e)>> \in Points \X (1..2)
    BY <1>1, <1>2 DEF Points
  <2>4. PICK A : at' = [o \in Ends |-> A[o]] /\ \A o \in Ends :
                   A[o] \in {AfterOpen(o), at[o], <<"wait", Step(e)>>}
    <3>1. at' = [o \in Ends |-> at'[o]]
      BY DEF Open
    <3>2. ASSUME NEW o \in Ends
          PROVE  at'[o] \in {AfterOpen(o), at[o], <<"wait", Step(e)>>}
      BY DEF Open
    <3> QED
      BY <3>1, <3>2
  <2>5. \A o \in Ends : A[o] \in Points \X (1..2)
    BY <2>1, <2>2, <2>3, <2>4
  <2> QED
    BY <2>4, <2>5
<1> QED
  BY <1>5, <1>6, <1>7, <1>8, <1>9 DEF PipesKept, TypeOK

(***************************************************************************)
(* The end of a process leaves its pipes, with fewer ends.                 *)
(***************************************************************************)
LEMMA DiesTypes ==
  ASSUME TypeOK, NEW p, NEW f \in {"exit", "rmv", "killed"}, Dies(p, f),
         fault' \in {"none", "killed", "no_worker", "no_thread"}
  PROVE  TypeOK'
<1>1. PICK X : X = {e \in Ends : <<e[1], SideOf(e)>> = p}
  OBVIOUS
<1>2. pipes' = [i \in DOMAIN pipes |-> Without(pipes[i], X)] /\ pipes \in Seq(Pipe)
  BY <1>1 DEF Dies, TypeOK
<1>3. PipesKept
  BY <1>2, WithoutKeeps DEF PipesKept
<1>4. /\ UNCHANGED <<at, fd, main, chan, worker, todo, thread, stolen>>
      /\ fate' = [fate EXCEPT ![p] = f]
      /\ file' = IF f = "rmv" THEN [n \in Names |-> NoPipe] ELSE file
  BY DEF Dies
<1>5. file' \in [Names -> 0..Len(pipes')]
  BY <1>2, <1>3, <1>4 DEF TypeOK, PipesKept, NoPipe
<1>6. fate' \in [Session \X Sides -> {"unborn", "running", "exit", "rmv", "killed"}]
  BY <1>4 DEF TypeOK
<1> QED
  BY <1>3, <1>4, <1>5, <1>6 DEF TypeOK, PipesKept

(***************************************************************************)
(* A process that ends by itself is no fault.                              *)
(***************************************************************************)
LEMMA EndsAsTypes ==
  ASSUME TypeOK, NEW p, NEW f \in {"exit", "rmv", "killed"}, EndsAs(p, f)
  PROVE  TypeOK'
<1>1. Dies(p, f) /\ fault' = fault
  BY DEF EndsAs
<1>2. fault' \in {"none", "killed", "no_worker", "no_thread"}
  BY <1>1 DEF TypeOK
<1> QED
  BY <1>1, <1>2, DiesTypes

(***************************************************************************)
(* What an end does to itself: its constructor, its destructor, and a read *)
(* or a write that fails.                                                  *)
(***************************************************************************)
LEMMA ConstructsTypes ==
  ASSUME TypeOK, NEW e \in Ends, Constructs(e)
  PROVE  TypeOK'
BY MakeTypes, OpenTypes, EndsAsTypes DEF Constructs, OpenFails

(***************************************************************************)
(* The destructor closes the pipes and removes the two files.              *)
(***************************************************************************)
LEMMA DestructsTypes ==
  ASSUME TypeOK, NEW e \in Ends, Destructs(e)
  PROVE  TypeOK'
<1>1. CASE Close(e)
  <2>1. PICK X : X = {e}
    OBVIOUS
  <2>2. pipes' = [i \in DOMAIN pipes |-> Without(pipes[i], X)] /\ pipes \in Seq(Pipe)
    BY <1>1, <2>1 DEF Close, TypeOK
  <2>3. PipesKept
    BY <2>2, WithoutKeeps DEF PipesKept
  <2>4. /\ at' = [at EXCEPT ![e] = <<"remove", 1>>]
        /\ UNCHANGED <<file, fd, fate, main, chan, worker, todo, thread, stolen, fault>>
    BY <1>1 DEF Close, history
  <2>5. LocalTypes'
    BY <2>4 DEF TypeOK, LocalTypes, Points
  <2> QED
    BY <2>3, <2>4, <2>5, SameFilesTypes
<1>2. CASE Remove(e)
  <2>1. PICK n : Removes(e, n)
    BY <1>2 DEF Remove
  <2>2. /\ file' = [file EXCEPT ![n] = NoPipe]
        /\ at' = [at EXCEPT ![e] = IF Step(e) = 1 THEN <<"remove", 2>> ELSE <<"gone", 2>>]
        /\ UNCHANGED <<pipes, fd, fate, main, chan, worker, todo, thread, fault>>
        /\ stolen' \in BOOLEAN
    BY <2>1 DEF Removes, TypeOK
  <2>3. file' \in [Names -> 0..Len(pipes')]
    <3>1. file \in [Names -> 0..Len(pipes)] /\ NoPipe \in 0..Len(pipes)
      BY DEF TypeOK, NoPipe
    <3>2. file' \in [Names -> 0..Len(pipes)]
      BY <2>2, <3>1
    <3> QED
      BY <2>2, <3>2
  <2>4. at' \in [Ends -> Points \X (1..2)]
    BY <2>2 DEF TypeOK, Points
  <2> QED
    BY <2>2, <2>3, <2>4 DEF TypeOK
<1> QED
  BY <1>1, <1>2 DEF Destructs

(***************************************************************************)
(* A read or a write that fails ends the process, and nothing else.        *)
(***************************************************************************)
LEMMA BreaksTypes ==
  ASSUME TypeOK, NEW e, WriteEnds(e) \/ ReadEnds(e)
  PROVE  TypeOK'
BY EndsAsTypes DEF WriteEnds, ReadEnds

-----------------------------------------------------------------------------
(* The types, action by action.                                            *)

(***************************************************************************)
(* The ends that the processes, workers and threads of a session are at.   *)
(***************************************************************************)
LEMMA Actors ==
  ASSUME TypeOK, NEW s \in Session
  PROVE  /\ Current(C(s)) \in Ends /\ Current(S(s)) \in Ends
         /\ ControlOf(C(s)) \in Ends /\ ControlOf(S(s)) \in Ends
         /\ \A k \in Channels :
              /\ End(s, k, "client") \in Ends /\ End(s, k, "server") \in Ends
              /\ End(C(s)[1], k, C(s)[2]) \in Ends
              /\ End(S(s)[1], k, S(s)[2]) \in Ends
         /\ \A k \in Workers :
              End(s, k, "client") \in Ends /\ End(s, k, "server") \in Ends
<1>1. /\ chan[C(s)] \in Channels /\ chan[S(s)] \in Channels
      /\ Control \in Channels /\ \A j \in Workers : j \in Channels
  BY SessionTypes
<1>2. ASSUME NEW k \in Channels
      PROVE  /\ End(s, k, "client") \in Ends /\ End(s, k, "server") \in Ends
             /\ End(C(s)[1], k, C(s)[2]) \in Ends
             /\ End(S(s)[1], k, S(s)[2]) \in Ends
  BY EndIs
<1> QED
  BY <1>1, <1>2 DEF Current, ControlOf

(***************************************************************************)
(* A main thread in a constructor is at an end there is.                   *)
(***************************************************************************)
LEMMA ConstructingTypes ==
  ASSUME TypeOK, NEW s \in Session, NEW p \in {C(s), S(s)}, Constructing(p)
  PROVE  TypeOK'
BY Actors, ConstructsTypes DEF Constructing

(***************************************************************************)
(* So it is in the destructor of its control channel.                      *)
(***************************************************************************)
LEMMA LeavingTypes ==
  ASSUME TypeOK, NEW s \in Session, NEW p \in {C(s), S(s)}, Leaving(p)
  PROVE  TypeOK'
BY Actors, DestructsTypes, EndsAsTypes DEF Leaving

(***************************************************************************)
(* The client: a channel is given to a worker that there is, and the name  *)
(* it deletes next is not beyond the last one.                             *)
(***************************************************************************)
LEMMA ClientOpenedTypes ==
  ASSUME TypeOK, NEW s \in Session, ClientOpened(s)
  PROVE  TypeOK'
<1>1. /\ main' = [main EXCEPT ![C(s)] = IF chan[C(s)] < W THEN "next" ELSE "join"]
      /\ worker' = IF chan[C(s)] = Control THEN worker
                   ELSE [worker EXCEPT ![<<s, chan[C(s)]>>] = "write"]
      /\ UNCHANGED <<file, pipes, at, fd, fate, chan, todo, thread, stolen, fault>>
  BY DEF ClientOpened, history
<1>2. LocalTypes'
  BY <1>1 DEF TypeOK, LocalTypes
<1>3. PipesKept
  BY <1>1 DEF TypeOK, PipesKept
<1> QED
  BY <1>1, <1>2, <1>3, SameFilesTypes

(***************************************************************************)
(* The client asks for a channel, or says quit.                            *)
(***************************************************************************)
LEMMA ClientSaysTypes ==
  ASSUME TypeOK, NEW s \in Session, ClientAsks(s) \/ ClientQuits(s)
  PROVE  TypeOK'
<1>1. PICK kind \in {"newchannel", "quit"} : Writes(ControlOf(C(s)), Msg(kind))
  BY DEF ClientAsks, ClientQuits
<1>2. Msg(kind) \in Message
  BY SessionTypes DEF Msg, Message
<1>3. PipesKept
  BY <1>1, <1>2, Actors, WritesTypes
<1>4. /\ \E m \in {"reply", "leave"} : main' = [main EXCEPT ![C(s)] = m]
      /\ UNCHANGED <<file, at, fd, fate, chan, worker, todo, thread, stolen, fault>>
  BY DEF ClientAsks, ClientQuits, history
<1>5. LocalTypes'
  <2>1. main' \in [Session \X Sides ->
                 {"none", "open", "next", "reply", "join", "delete", "quit", "leave"}]
    BY <1>4 DEF TypeOK
  <2> QED
    BY <1>4, <2>1 DEF TypeOK, LocalTypes
<1> QED
  BY <1>3, <1>4, <1>5, SameFilesTypes

(***************************************************************************)
(* The name of a channel is that of a worker.                              *)
(***************************************************************************)
LEMMA ClientNamedTypes ==
  ASSUME TypeOK, NEW s \in Session, ClientNamed(s)
  PROVE  TypeOK'
<1>1. PICK k \in Workers :
        /\ Reads(ControlOf(C(s)), [kind |-> "name", k |-> k])
        /\ chan' = [chan EXCEPT ![C(s)] = k]
        /\ main' = [main EXCEPT ![C(s)] = "open"]
        /\ at' = [at EXCEPT ![End(C(s)[1], k, C(s)[2])] = <<"make", 1>>]
        /\ UNCHANGED <<file, fd, fate, worker, todo, thread, stolen, fault>>
  BY DEF ClientNamed, Begins, history
<1>2. k \in Channels
  BY SessionTypes
<1>3. PipesKept
  BY <1>1, Actors, ReadsTypes
<1>4. LocalTypes'
  <2>1. at' \in [Ends -> Points \X (1..2)]
    <3>1. <<"make", 1>> \in Points \X (1..2)
      BY DEF Points
    <3>2. at \in [Ends -> Points \X (1..2)]
      BY DEF TypeOK
    <3> QED
      BY ONLY <1>1, <3>1, <3>2
  <2>2. chan' \in [Session \X Sides -> Channels]
    BY <1>1, <1>2 DEF TypeOK
  <2> QED
    BY <1>1, <2>1, <2>2 DEF TypeOK, LocalTypes
<1> QED
  BY <1>1, <1>3, <1>4, SameFilesTypes

(***************************************************************************)
(* The client goes on from one channel to the next, up to the last.        *)
(***************************************************************************)
LEMMA ClientDeletesTypes ==
  ASSUME TypeOK, NEW s \in Session, ClientJoins(s) \/ ClientDeletes(s)
  PROVE  TypeOK'
<1>1. CASE Destructs(Current(C(s)))
  BY <1>1, Actors, DestructsTypes
<1>2. CASE ~Destructs(Current(C(s)))
  <2>1. /\ UNCHANGED <<file, pipes, at, fd, fate, worker, todo, thread, stolen, fault>>
        /\ main' = main \/ \E m \in {"delete", "quit"} : main' = [main EXCEPT ![C(s)] = m]
    BY <1>2 DEF ClientJoins, FirstDelete, ClientDeletes, history
  <2>2. chan' = chan \/ \E k \in Channels : chan' = [chan EXCEPT ![C(s)] = k]
    <3>1. chan[C(s)] \in Channels /\ W \in Nat /\ Control \in Channels
      BY SessionTypes
    <3>2. CASE ClientJoins(s)
      <4>1. (IF W = 0 THEN Control ELSE 1) \in Channels
        BY <3>1 DEF Channels
      <4> QED
        BY <3>2, <4>1 DEF ClientJoins, FirstDelete
    <3>3. CASE ClientDeletes(s)
      <4>1. chan[C(s)] < W => chan[C(s)] + 1 \in Channels
        BY <3>1 DEF Channels
      <4> QED
        BY <1>2, <3>3, <4>1 DEF ClientDeletes
    <3> QED
      BY <3>2, <3>3
  <2>3. LocalTypes'
    <3>1. main' \in [Session \X Sides ->
                   {"none", "open", "next", "reply", "join", "delete", "quit", "leave"}]
      BY <2>1 DEF TypeOK
    <3>2. chan' \in [Session \X Sides -> Channels]
      BY <2>2 DEF TypeOK
    <3> QED
      BY <2>1, <3>1, <3>2 DEF TypeOK, LocalTypes
  <2>4. PipesKept
    BY <2>1 DEF TypeOK, PipesKept
  <2> QED
    BY <2>1, <2>3, <2>4, SameFilesTypes
<1> QED
  BY <1>1, <1>2

(***************************************************************************)
(* The server names no channel for which there is no name.                 *)
(***************************************************************************)
LEMMA ServerOpenedTypes ==
  ASSUME TypeOK, NEW s \in Session, ServerOpened(s)
  PROVE  TypeOK'
<1>1. /\ main' = [main EXCEPT ![S(s)] = "next"]
      /\ thread' = thread \/ thread' = [thread EXCEPT ![<<s, chan[S(s)]>>] = "read"]
      /\ fault' = fault \/ fault' = "no_thread"
      /\ UNCHANGED <<file, pipes, at, fd, fate, chan, worker, todo, stolen>>
  BY DEF ServerOpened, Fault
<1>2. LocalTypes'
  BY <1>1 DEF TypeOK, LocalTypes
<1>3. PipesKept
  BY <1>1 DEF TypeOK, PipesKept
<1> QED
  BY <1>1, <1>2, <1>3, SameFilesTypes

(***************************************************************************)
(* The server counts its channels up to the last name.                     *)
(***************************************************************************)
LEMMA ServerReadsTypes ==
  ASSUME TypeOK, NEW s \in Session, ServerReads(s)
  PROVE  TypeOK'
<1>1. /\ \E m : Reads(ControlOf(S(s)), m)
      /\ \E m \in {"reply", "leave"} : main' = [main EXCEPT ![S(s)] = m]
      /\ UNCHANGED <<file, at, fd, fate, worker, todo, thread, stolen, fault>>
  BY DEF ServerReads, history
<1>2. PipesKept
  BY <1>1, Actors, ReadsTypes
<1>3. chan' = chan \/ \E k \in Channels : chan' = [chan EXCEPT ![S(s)] = k]
  <2>1. chan[S(s)] \in Channels /\ W \in Nat
    BY SessionTypes
  <2>2. chan[S(s)] < W => chan[S(s)] + 1 \in Channels
    BY <2>1 DEF Channels
  <2> QED
    BY <2>2 DEF ServerReads, NameLeft
<1>4. LocalTypes'
  <2>1. main' \in [Session \X Sides ->
                 {"none", "open", "next", "reply", "join", "delete", "quit", "leave"}]
    BY <1>1 DEF TypeOK
  <2>2. chan' \in [Session \X Sides -> Channels]
    BY <1>3 DEF TypeOK
  <2> QED
    BY <1>1, <2>1, <2>2 DEF TypeOK, LocalTypes
<1> QED
  BY <1>1, <1>2, <1>4, SameFilesTypes

(***************************************************************************)
(* The server names the channel it is about to make.                       *)
(***************************************************************************)
LEMMA ServerRepliesTypes ==
  ASSUME TypeOK, NEW s \in Session, ServerReplies(s)
  PROVE  TypeOK'
<1>1. PICK k \in Channels : k = chan[S(s)]
  BY SessionTypes
<1>2. PICK m \in Message : m = [kind |-> "name", k |-> k]
  BY DEF Message
<1>3. /\ Writes(ControlOf(S(s)), m)
      /\ main' = [main EXCEPT ![S(s)] = "open"]
      /\ at' = [at EXCEPT ![End(S(s)[1], k, S(s)[2])] = <<"make", 1>>]
      /\ UNCHANGED <<file, fd, fate, chan, worker, todo, thread, stolen, fault>>
  BY <1>1, <1>2 DEF ServerReplies, Begins, history
<1>4. PipesKept
  BY <1>3, Actors, WritesTypes
<1>5. LocalTypes'
  <2>1. at' \in [Ends -> Points \X (1..2)]
    <3>1. <<"make", 1>> \in Points \X (1..2)
      BY DEF Points
    <3>2. at \in [Ends -> Points \X (1..2)]
      BY DEF TypeOK
    <3> QED
      BY ONLY <1>3, <3>1, <3>2
  <2>2. main' \in [Session \X Sides ->
                 {"none", "open", "next", "reply", "join", "delete", "quit", "leave"}]
    BY <1>3 DEF TypeOK
  <2> QED
    BY <1>3, <2>1, <2>2 DEF TypeOK, LocalTypes
<1> QED
  BY <1>3, <1>4, <1>5, SameFilesTypes

(***************************************************************************)
(* The workers and the threads: no request is taken that is not there.     *)
(***************************************************************************)
LEMMA WorkerTypes ==
  ASSUME TypeOK, NEW s \in Session, NEW k \in Workers, Worker(s, k)
  PROVE  TypeOK'
<1>1. CASE WorkerRequests(s, k) \/ WorkerQuits(s, k)
  <2>1. PICK kind \in {"data", "quit"}, point \in {"read", "done"} :
          Sends(s, k, kind, point)
    BY <1>1 DEF WorkerRequests, Requests, WorkerQuits
  <2>2. Msg(kind) \in Message
    BY SessionTypes DEF Msg, Message
  <2>3. PipesKept
    BY <2>1, <2>2, Actors, WritesTypes DEF Sends
  <2>4. /\ worker' = [worker EXCEPT ![<<s, k>>] = point]
        /\ UNCHANGED <<file, at, fd, fate, main, chan, thread, stolen, fault>>
    BY <2>1 DEF Sends, history
  <2>5. todo' \in [Session -> 0..N]
    <3>1. todo \in [Session -> 0..N] /\ N \in Nat
      BY FifoAssumption DEF TypeOK
    <3>2. todo[s] > 0 => todo[s] - 1 \in 0..N
      BY <3>1
    <3>3. todo' = todo \/ (todo[s] > 0 /\ todo' = [todo EXCEPT ![s] = todo[s] - 1])
      BY <1>1 DEF WorkerRequests, Requests, WorkerQuits
    <3> QED
      BY <3>1, <3>2, <3>3
  <2>6. LocalTypes'
    BY <2>4, <2>5 DEF TypeOK, LocalTypes
  <2> QED
    BY <2>3, <2>4, <2>6, SameFilesTypes
<1>2. CASE WorkerReceives(s, k)
  <2>1. PipesKept
    BY <1>2, Actors, ReadsTypes DEF WorkerReceives
  <2>2. /\ worker' = [worker EXCEPT ![<<s, k>>] = "write"]
        /\ UNCHANGED <<file, at, fd, fate, main, chan, todo, thread, stolen, fault>>
    BY <1>2 DEF WorkerReceives, history
  <2>3. LocalTypes'
    BY <2>2 DEF TypeOK, LocalTypes
  <2> QED
    BY <2>1, <2>2, <2>3, SameFilesTypes
<1>3. CASE WorkerEnds(s, k)
  BY <1>3, BreaksTypes DEF WorkerEnds
<1> QED
  BY <1>1, <1>2, <1>3 DEF Worker

(***************************************************************************)
(* A thread reads requests and answers them.                               *)
(***************************************************************************)
LEMMA ThreadTypes ==
  ASSUME TypeOK, NEW s \in Session, NEW k \in Workers, Thread(s, k)
  PROVE  TypeOK'
<1>1. CASE ThreadReads(s, k)
  <2>1. PICK kind \in {"data", "quit"} :
          /\ Reads(End(s, k, "server"), Msg(kind))
          /\ thread' = [thread EXCEPT ![<<s, k>>] =
                          IF kind = "data" THEN "reply" ELSE "done"]
          /\ UNCHANGED <<file, at, fd, fate, main, chan, worker, todo, stolen, fault>>
    BY <1>1 DEF ThreadReads, history
  <2>2. PipesKept
    BY <2>1, Actors, ReadsTypes
  <2>3. LocalTypes'
    BY <2>1 DEF TypeOK, LocalTypes
  <2> QED
    BY <2>1, <2>2, <2>3, SameFilesTypes
<1>2. CASE ThreadReplies(s, k)
  <2>1. Msg("number") \in Message
    BY SessionTypes DEF Msg, Message
  <2>2. PipesKept
    BY <1>2, <2>1, Actors, WritesTypes DEF ThreadReplies
  <2>3. /\ thread' = [thread EXCEPT ![<<s, k>>] = "read"]
        /\ UNCHANGED <<file, at, fd, fate, main, chan, worker, todo, stolen, fault>>
    BY <1>2 DEF ThreadReplies, history
  <2>4. LocalTypes'
    BY <2>3 DEF TypeOK, LocalTypes
  <2> QED
    BY <2>2, <2>3, <2>4, SameFilesTypes
<1>3. CASE ThreadEnds(s, k)
  BY <1>3, BreaksTypes DEF ThreadEnds
<1> QED
  BY <1>1, <1>2, <1>3 DEF Thread

(***************************************************************************)
(* Every step keeps the types, a theft included.                           *)
(***************************************************************************)
LEMMA NextTypes ==
  ASSUME TypeOK, Next
  PROVE  TypeOK'
<1>1. PICK s \in Session :
        \/ Launch(s) \/ ClientMain(s) \/ ServerMain(s)
        \/ \E k \in Workers : Worker(s, k) \/ Thread(s, k)
        \/ \E side \in Sides : Crash(<<s, side>>)
  BY DEF Next
<1>2. CASE Launch(s)
  BY <1>2, LaunchDoes
<1>3. CASE ClientMain(s)
  <2>1. CASE ClientLacksWorker(s)
    <3>1. Dies(C(s), "rmv") /\ fault' = "no_worker"
      BY <2>1 DEF ClientLacksWorker, Fault
    <3> QED
      BY <3>1, DiesTypes
  <2>2. CASE ClientEnds(s)
    BY <2>2, BreaksTypes DEF ClientEnds
  <2> QED
    BY <1>3, <2>1, <2>2, ConstructingTypes, LeavingTypes, ClientOpenedTypes,
       ClientSaysTypes, ClientNamedTypes, ClientDeletesTypes DEF ClientMain
<1>4. CASE ServerMain(s)
  <2>1. CASE ServerEnds(s)
    BY <2>1, BreaksTypes DEF ServerEnds
  <2> QED
    BY <1>4, <2>1, ConstructingTypes, LeavingTypes, ServerOpenedTypes,
       ServerReadsTypes, ServerRepliesTypes DEF ServerMain
<1>5. ASSUME NEW side \in Sides, Crash(<<s, side>>)
      PROVE  TypeOK'
  <2>1. Dies(<<s, side>>, "killed") /\ fault' = "killed"
    BY <1>5 DEF Crash, Fault
  <2> QED
    BY <2>1, DiesTypes
<1> QED
  BY <1>1, <1>2, <1>3, <1>4, <1>5, WorkerTypes, ThreadTypes

-----------------------------------------------------------------------------
(* The theorems.                                                           *)

(***************************************************************************)
(* The inductive invariant holds in every state.                           *)
(***************************************************************************)
THEOREM Invariance == Spec => []IInv
<1>1. Init => IInv
  BY InitInv DEF IInv
<1>2. IInv /\ [Next]_vars => IInv'
  <2> SUFFICES ASSUME IInv, [Next]_vars, ~stolen'
               PROVE  Inv'
    BY DEF IInv
  <2>1. Inv
    BY StolenStays DEF IInv
  <2>2. CASE UNCHANGED vars
    BY <2>1, <2>2, StutterInv
  <2>3. CASE Next
    BY <2>1, <2>3, NextInv
  <2> QED
    BY <2>2, <2>3
<1> QED
  BY <1>1, <1>2, PTL DEF Spec

(***************************************************************************)
(* Every variable has its type, whatever has been stolen or who has been   *)
(* killed: no end opens a pipe that was not made, and no worker takes a    *)
(* request that is not there.                                              *)
(***************************************************************************)
THEOREM TypeCorrect == Spec => []TypeOK
<1>1. Init => TypeOK
  BY InitInv DEF Inv
<1>2. TypeOK /\ [Next]_vars => TypeOK'
  <2>1. ASSUME TypeOK, UNCHANGED vars
        PROVE  TypeOK'
    BY <2>1 DEF vars, history, TypeOK
  <2> QED
    BY <2>1, NextTypes
<1> QED
  BY <1>1, <1>2, PTL DEF Spec

\* What the server is asked next on its control channel.
Asked(s, m) ==
  /\ MainAt(S(s), "next")
  /\ pipes[In(ControlOf(S(s)))].data # <<>>
  /\ Head(pipes[In(ControlOf(S(s)))].data) = m

(***************************************************************************)
(* The bound of ServerReads is met after a theft only: before one a server *)
(* that is asked for a channel has a name left, since its client asks for  *)
(* one channel per worker (pa6/client.cpp:303-312).                        *)
(***************************************************************************)
THEOREM BoundUnmet ==
  Spec => [](~stolen => \A s \in Session : Asked(s, Msg("newchannel")) => NameLeft(s))
<1>1. ASSUME IInv, ~stolen, NEW s \in Session, Asked(s, Msg("newchannel"))
      PROVE  NameLeft(s)
  <2>1. Inv /\ TypeOK /\ Meeting /\ Naming /\ Shapes
    BY <1>1 DEF IInv, Inv
  <2>2. Control \in Channels /\ main[S(s)] = "next"
    BY <1>1, <2>1, SessionTypes DEF Asked, MainAt
  <2>3. at[End(s, Control, "client")] \in Through /\ Dialogue(s)
    BY <2>1, <2>2, ControlTalks
  <2>4. In(ControlOf(S(s))) = fd[End(s, Control, "client")][2]
    <3>1. ControlOf(S(s)) = End(s, Control, "server")
      BY DEF ControlOf, S
    <3> QED
      BY <2>1, <2>2, <2>3, <3>1, TwoPipes
  <2>5. Up(s, Control) # <<>> /\ Head(Up(s, Control)) = Msg("newchannel")
    BY <1>1, <2>4 DEF Asked, Up
  <2>6. Up(s, Control) # <<Msg("quit")>>
    <3>1. PICK q : q = Msg("quit")
      OBVIOUS
    <3>2. Head(<<q>>) = q
      OBVIOUS
    <3>3. Msg("quit").kind # Msg("newchannel").kind
      BY DEF Msg
    <3> QED
      BY <2>5, <3>1, <3>2, <3>3
  <2>7. main[C(s)] = "reply" /\ chan[S(s)] = chan[C(s)]
    BY <2>2, <2>3, <2>5, <2>6 DEF Dialogue, Silent
  <2>8. ClientShape(s)
    BY <2>1 DEF Shapes
  <2> QED
    BY <2>7, <2>8 DEF ClientShape, NameLeft
<1>2. IInv => (~stolen => \A s \in Session : Asked(s, Msg("newchannel")) => NameLeft(s))
  BY <1>1
<1> QED
  BY <1>2, Invariance, PTL

(***************************************************************************)
(* The two ends of a channel are associated with the same pipes            *)
(* (pa6/reqchannel.h:36), unless a server at its end has removed the pipes *)
(* of the next session.                                                    *)
(***************************************************************************)
THEOREM EndsMeetAlways == Spec => []EndsMeetUnlessStolen
<1>1. IInv => EndsMeetUnlessStolen
  <2> SUFFICES ASSUME IInv, ~stolen, NEW s \in Session, NEW k \in Channels,
                      NEW x \in {1, 2}
               PROVE  \/ fd[End(s, k, "client")][x] = NoPipe
                      \/ fd[End(s, k, "server")][x] = NoPipe
                      \/ fd[End(s, k, "client")][x] = fd[End(s, k, "server")][x]
    BY DEF EndsMeetUnlessStolen, EndsMeet
  <2>1. Held /\ Meet
    BY DEF IInv, Inv, Meeting
  <2>2. /\ End(s, k, "client") \in Ends /\ End(s, k, "server") \in Ends
        /\ Peer(End(s, k, "client")) = End(s, k, "server")
    BY EndIs
  <2> QED
    BY <2>1, <2>2 DEF Held, Meet
<1> QED
  BY <1>1, Invariance, PTL

(***************************************************************************)
(* As long as nobody is killed and every worker can be created, no process *)
(* dies of a broken pipe or of a missing file: the shutdown leaves nobody  *)
(* alone (pa6/client.cpp:363-395).                                         *)
(***************************************************************************)
THEOREM NobodyIsBroken == Spec => []NobodyBroken
<1>1. IInv => NobodyBroken
  <2> SUFFICES ASSUME IInv, Orderly, NEW p \in Session \X Sides
               PROVE  fate[p] \notin {"rmv", "killed"}
    BY DEF NobodyBroken
  <2>1. ~stolen /\ fault \in {"none", "no_thread"}
    BY DEF Orderly
  <2>2. Lives
    BY <2>1 DEF IInv, Inv
  <2> QED
    BY <2>1, <2>2 DEF Lives
<1> QED
  BY <1>1, Invariance, PTL

(***************************************************************************)
(* When all that was begun has ended, no file is left: the client deletes  *)
(* every channel it has opened, and it opens every channel there are files *)
(* for (pa6/client.cpp:391, reqchannel.cpp:125-128).                       *)
(***************************************************************************)
THEOREM NoFilesAreLeft == Spec => []LeavesNoFiles
<1>1. IInv => LeavesNoFiles
  <2> SUFFICES ASSUME IInv, Orderly, Begun(C(1)),
                      \A p \in Session \X Sides : ~Running(p),
                      NEW n \in Names, file[n] # NoPipe
               PROVE  FALSE
    BY DEF LeavesNoFiles
  <2>1. ~stolen /\ fault \in {"none", "no_thread"}
    BY DEF Orderly
  <2>2. TypeOK /\ Naming /\ Lives /\ Shapes /\ Sync
    BY <2>1 DEF IInv, Inv, Meeting
  <2>3. PICK b \in Session : b = pipes[file[n]].by
    <3>1. file[n] \in 1..Len(pipes) /\ pipes \in Seq(Pipe)
      BY <2>2 DEF TypeOK, NoPipe
    <3>2. pipes[file[n]] \in Pipe
      BY <3>1
    <3> QED
      BY <3>2, PipeParts
  <2>4. Begun(C(b))
    BY <2>2, <2>3 DEF Naming, Newest
  <2>5. fate[C(b)] = "exit"
    <3>1. C(b) \in Session \X Sides
      BY DEF C, Sides
    <3>2. fate[C(b)] \in {"unborn", "running", "exit", "rmv", "killed"}
      BY <2>2, <3>1 DEF TypeOK
    <3>3. fate[C(b)] \notin {"rmv", "killed"}
      BY <2>1, <2>2, <3>1 DEF Lives
    <3> QED
      BY <2>4, <3>1, <3>2, <3>3 DEF Begun, Running
  <2>6. PICK k \in Channels, x \in {1, 2} : n = <<k, x>>
    BY DEF Names
  <2>7. at[End(b, k, "client")] = Gone
    <3>1. /\ End(b, k, "client") \in Ends /\ End(b, k, "client")[1] = b
          /\ End(b, k, "client")[3] = "client"
      BY EndIs
    <3> QED
      BY <2>2, <2>5, <3>1, Over
  <2>8. b > b
    BY <2>2, <2>3, <2>6, <2>7 DEF Naming, Removed
  <2> QED
    BY <2>8 DEF Session
<1> QED
  BY <1>1, Invariance, PTL
=============================================================================

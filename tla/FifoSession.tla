----------------------------- MODULE FifoSession -----------------------------
(***************************************************************************)
(* The named-pipe predecessor of the client and the server (pa6): FIFOrc   *)
(* channels, the data server that makes one on "newchannel", and the       *)
(* client that opens one per worker.  pa6/test.sh runs the client again    *)
(* and again: each run is a session with a server of its own, but the      *)
(* names of the pipes are the same, and a server may still be at its end   *)
(* when the next session begins.                                           *)
(*                                                                         *)
(* pa6 writes "new RequestChannel" where only FIFOrc implements that       *)
(* class; it is read as FIFOrc.  The stat threads and the histogram are    *)
(* those of Client and are left out, and of the request buffer there is    *)
(* what matters to a worker: it gets one of the N requests while there are *)
(* any, and "quit" once main() has created all workers and they are gone.  *)
(*                                                                         *)
(* External semantics (POSIX FIFOs): mkfifo does nothing if the file is    *)
(* there; open blocks until the other side is opened too; a pipe outlives  *)
(* its file; read returns 0 when nothing is left and no writer either; a   *)
(* write without readers raises SIGPIPE.                                   *)
(***************************************************************************)
EXTENDS Naturals, Sequences, FiniteSets

CONSTANTS
  Sessions,  \* bound: how often the client is run
  W,         \* -w: the number of workers
  N,         \* the requests the workers share
  MayFail    \* whether one of the faults may happen, in the last session

ASSUME FifoAssumption == Sessions \in Nat \ {0} /\ W \in Nat /\ N \in Nat
ASSUME MayFailAssumption == MayFail \in BOOLEAN

VARIABLES
  file,     \* the directory: the pipe behind a file name, or NoPipe
  pipes,    \* the pipes that were made: who has opened each side, what is in
  at,       \* how far an end of a channel is in its constructor or destructor
  fd,       \* the pipes an end has opened
  fate,     \* what became of the client and the server of a session
  main,     \* what their main threads are doing
  chan,     \* the channel they are at; for the server this is nchannels
  worker,   \* the client's workers
  todo,     \* the requests that no worker has taken yet
  thread,   \* the server's threads for them
  stolen,   \* history: a server removed a pipe of a later session
  fault     \* history: the fault that has happened, if any

history == <<stolen, fault>>
vars == <<file, pipes, at, fd, fate, main, chan, worker, todo, thread, history>>

Session == 1..Sessions
Channels == 0..W             \* 0 is "control", k is "data<k>_"
Control == 0
Workers == 1..W
Sides == {"client", "server"}
Ends == Session \X Channels \X Sides
Names == Channels \X {1, 2}  \* the files fifo_<channel>1 and fifo_<channel>2
NoPipe == 0

End(s, k, side) == <<s, k, side>>
SideOf(e) == e[3]

\* pipe_name: the server writes pipe 1 and the client pipe 2.
WritesTo(side) == IF side = "server" THEN 1 ELSE 2
ReadsFrom(side) == 3 - WritesTo(side)

\* Mutant of Opens: the client opens its write pipe first, like the server.
OpensWriteFirst(side, step) ==
  IF step = 1 THEN WritesTo(side) ELSE ReadsFrom(side)

\* The pipe that step 1 and step 2 of the constructor open.
Opens(side, step) == step

Message == [kind : {"newchannel", "name", "data", "number", "quit"},
            k : Channels]
Msg(kind) == [kind |-> kind, k |-> Control]

Pipe == [by : Session,                    \* history: the session that made it
         reader : SUBSET Ends, writer : SUBSET Ends,
         data : Seq(Message)]

Points == {"none", "make", "open", "wait", "ready", "remove", "gone"}

TypeOK ==
  /\ file \in [Names -> 0..Len(pipes)]
  /\ pipes \in Seq(Pipe)
  /\ at \in [Ends -> Points \X (1..2)]
  /\ fd \in [Ends -> [1..2 -> 0..Len(pipes)]]
  /\ fate \in [Session \X Sides -> {"unborn", "running", "exit", "rmv", "killed"}]
  /\ main \in [Session \X Sides ->
                 {"none", "open", "next", "reply", "join", "delete", "quit", "leave"}]
  /\ chan \in [Session \X Sides -> Channels]
  /\ worker \in [Session \X Workers -> {"none", "write", "read", "done"}]
  /\ todo \in [Session -> 0..N]
  /\ thread \in [Session \X Workers -> {"none", "read", "reply", "done"}]
  /\ stolen \in BOOLEAN
  /\ fault \in {"none", "killed", "no_worker", "no_thread"}

NewPipe(s) == [by |-> s, reader |-> {}, writer |-> {}, data |-> <<>>]

\* Files left by a session that ended badly may be there.
Init ==
  /\ \E left \in BOOLEAN :
       /\ file = [n \in Names |-> IF left THEN 2 * n[1] + n[2] ELSE NoPipe]
       /\ pipes = [x \in 1..(IF left THEN 2 * W + 2 ELSE 0) |-> NewPipe(1)]
  /\ at = [e \in Ends |-> <<"none", 1>>]
  /\ fd = [e \in Ends |-> <<NoPipe, NoPipe>>]
  /\ fate = [p \in Session \X Sides |-> "unborn"]
  /\ main = [p \in Session \X Sides |-> "none"]
  /\ chan = [p \in Session \X Sides |-> Control]
  /\ worker = [p \in Session \X Workers |-> "none"]
  /\ todo = [s \in Session |-> N]
  /\ thread = [p \in Session \X Workers |-> "none"]
  /\ stolen = FALSE /\ fault = "none"

-----------------------------------------------------------------------------
(* A process ends: exit(), SIGPIPE, or execl("rmv"), which removes fifo*.  *)

Running(p) == fate[p] = "running"
Begun(p) == fate[p] # "unborn"

Without(pipe, S) == [pipe EXCEPT !.reader = @ \ S, !.writer = @ \ S]

Dies(p, f) ==
  /\ fate' = [fate EXCEPT ![p] = f]
  /\ pipes' = [x \in DOMAIN pipes |->
                 Without(pipes[x], {e \in Ends : <<e[1], SideOf(e)>> = p})]
  /\ file' = IF f = "rmv" THEN [n \in Names |-> NoPipe] ELSE file
  /\ UNCHANGED <<at, fd, main, chan, worker, todo, thread, stolen>>

EndsAs(p, f) == Dies(p, f) /\ UNCHANGED fault

Fault(s, kind) ==
  /\ MayFail /\ fault = "none" /\ s = Sessions
  /\ fault' = kind

\* Somebody kills it.
Crash(p) == Running(p) /\ Fault(p[1], "killed") /\ Dies(p, "killed")

-----------------------------------------------------------------------------
(* FIFOrc: the constructor, the destructor, cwrite and cread of end e.     *)

At(e, point) == at[e][1] = point
Step(e) == at[e][2]
PipeOf(e) == Opens(SideOf(e), Step(e))
NameOf(e) == <<e[2], PipeOf(e)>>
AfterOpen(e) == IF Step(e) = 1 THEN <<"make", 2>> ELSE <<"ready", 2>>

Makes(e, needed) ==
  /\ At(e, "make")
  /\ IF needed
     THEN /\ pipes' = Append(pipes, NewPipe(e[1]))
          /\ file' = [file EXCEPT ![NameOf(e)] = Len(pipes) + 1]
     ELSE UNCHANGED <<pipes, file>>
  /\ at' = [at EXCEPT ![e][1] = "open"]
  /\ UNCHANGED <<fd, fate, main, chan, worker, todo, thread, history>>

\* Mutant of Make: a pipe that is there is replaced.
MakeAfresh(e) == Makes(e, TRUE)

\* create_pipe
Make(e) == Makes(e, file[NameOf(e)] = NoPipe)

\* open(): it wakes those who wait for it, and waits if nobody is there.
Open(e) ==
  LET x == file[NameOf(e)]
      writes == PipeOf(e) = WritesTo(SideOf(e))
      others == IF writes THEN pipes[x].reader ELSE pipes[x].writer
      Woken(o) == o \in others /\ At(o, "wait") /\ fd[o][PipeOf(o)] = x
  IN
  /\ At(e, "open")
  /\ x # NoPipe
  /\ pipes' = IF writes THEN [pipes EXCEPT ![x].writer = @ \cup {e}]
              ELSE [pipes EXCEPT ![x].reader = @ \cup {e}]
  /\ fd' = [fd EXCEPT ![e][PipeOf(e)] = x]
  /\ at' = [o \in Ends |->
              IF Woken(o) THEN AfterOpen(o)
              ELSE IF o # e THEN at[o]
              ELSE IF others = {} THEN <<"wait", Step(e)>> ELSE AfterOpen(e)]
  /\ UNCHANGED <<file, fate, main, chan, worker, todo, thread, history>>

\* The file has been removed in the meantime: execl("rmv").
OpenFails(e) ==
  /\ At(e, "open")
  /\ file[NameOf(e)] = NoPipe
  /\ EndsAs(<<e[1], SideOf(e)>>, "rmv")

Constructs(e) == Make(e) \/ Open(e) \/ OpenFails(e)

\* close(wfd), close(rfd)
Close(e) ==
  /\ At(e, "ready")
  /\ pipes' = [x \in DOMAIN pipes |-> Without(pipes[x], {e})]
  /\ at' = [at EXCEPT ![e] = <<"remove", 1>>]
  /\ UNCHANGED <<file, fd, fate, main, chan, worker, todo, thread, history>>

Removes(e, n) ==
  LET x == file[n] IN
  /\ At(e, "remove")
  /\ stolen' = (\/ stolen
                \/ x # NoPipe /\ SideOf(e) = "server" /\ pipes[x].by > e[1])
  /\ file' = [file EXCEPT ![n] = NoPipe]
  /\ at' = [at EXCEPT ![e] = IF Step(e) = 1 THEN <<"remove", 2>>
                             ELSE <<"gone", 2>>]
  /\ UNCHANGED <<pipes, fd, fate, main, chan, worker, todo, thread, fault>>

\* Mutant of Remove: only the read pipe is removed, twice.
RemoveReadPipe(e) == Removes(e, <<e[2], ReadsFrom(SideOf(e))>>)

\* remove() of the read pipe's file, then of the write pipe's.
Remove(e) ==
  Removes(e, <<e[2], IF Step(e) = 1 THEN ReadsFrom(SideOf(e))
                     ELSE WritesTo(SideOf(e))>>)

Destructs(e) == Close(e) \/ Remove(e)

\* cwrite and cread, as parts of the actions below.
Out(e) == fd[e][WritesTo(SideOf(e))]
In(e) == fd[e][ReadsFrom(SideOf(e))]
Writes(e, m) ==
  /\ pipes[Out(e)].reader # {}
  /\ pipes' = [pipes EXCEPT ![Out(e)].data = Append(@, m)]
Reads(e, m) ==
  /\ pipes[In(e)].data # <<>>
  /\ m = Head(pipes[In(e)].data)
  /\ pipes' = [pipes EXCEPT ![In(e)].data = Tail(@)]
WriteEnds(e) ==
  pipes[Out(e)].reader = {} /\ EndsAs(<<e[1], SideOf(e)>>, "killed")
ReadEnds(e) ==
  /\ pipes[In(e)].data = <<>> /\ pipes[In(e)].writer = {}
  /\ EndsAs(<<e[1], SideOf(e)>>, "rmv")

-----------------------------------------------------------------------------
(* What the two main threads have in common.                               *)

MainAt(p, point) == Running(p) /\ main[p] = point
ControlOf(p) == End(p[1], Control, p[2])
Current(p) == End(p[1], chan[p], p[2])

Constructing(p) == MainAt(p, "open") /\ Constructs(Current(p))

\* delete of the control channel, then the process exits.
Leaving(p) ==
  /\ MainAt(p, "leave")
  /\ \/ Destructs(ControlOf(p))
     \/ At(ControlOf(p), "gone") /\ EndsAs(p, "exit")

Begins(p, k) == at' = [at EXCEPT ![End(p[1], k, p[2])] = <<"make", 1>>]

-----------------------------------------------------------------------------
(* The client of session s.                                                *)

C(s) == <<s, "client">>
S(s) == <<s, "server">>

\* The next run of the client, which forks its server.
Launch(s) ==
  /\ ~Begun(C(s))
  /\ s > 1 => Begun(C(s - 1)) /\ ~Running(C(s - 1))
  /\ fate' = [fate EXCEPT ![C(s)] = "running", ![S(s)] = "running"]
  /\ main' = [main EXCEPT ![C(s)] = "open", ![S(s)] = "open"]
  /\ at' = [at EXCEPT ![ControlOf(C(s))] = <<"make", 1>>,
                      ![ControlOf(S(s))] = <<"make", 1>>]
  /\ UNCHANGED <<file, pipes, fd, chan, worker, todo, thread, history>>

\* A channel is open; unless it is the control channel, a worker gets it.
ClientOpened(s) ==
  LET k == chan[C(s)] IN
  /\ MainAt(C(s), "open")
  /\ At(Current(C(s)), "ready")
  /\ worker' = IF k = Control THEN worker
               ELSE [worker EXCEPT ![<<s, k>>] = "write"]
  /\ main' = [main EXCEPT ![C(s)] = IF k < W THEN "next" ELSE "join"]
  /\ UNCHANGED <<file, pipes, at, fd, fate, chan, todo, thread, history>>

\* The worker's pthread_create fails: throw, catch, execl("rmv").
ClientLacksWorker(s) ==
  /\ MainAt(C(s), "open")
  /\ At(Current(C(s)), "ready")
  /\ chan[C(s)] # Control
  /\ Fault(s, "no_worker")
  /\ Dies(C(s), "rmv")

\* cwrite("newchannel")
ClientAsks(s) ==
  /\ MainAt(C(s), "next")
  /\ Writes(ControlOf(C(s)), Msg("newchannel"))
  /\ main' = [main EXCEPT ![C(s)] = "reply"]
  /\ UNCHANGED <<file, at, fd, fate, chan, worker, todo, thread, history>>

ClientNamed(s) ==
  \E k \in Workers :
    /\ MainAt(C(s), "reply")
    /\ Reads(ControlOf(C(s)), [kind |-> "name", k |-> k])
    /\ chan' = [chan EXCEPT ![C(s)] = k]
    /\ main' = [main EXCEPT ![C(s)] = "open"]
    /\ Begins(C(s), k)
    /\ UNCHANGED <<file, fd, fate, worker, todo, thread, history>>

FirstDelete(s) ==
  /\ main' = [main EXCEPT ![C(s)] = IF W = 0 THEN "quit" ELSE "delete"]
  /\ chan' = [chan EXCEPT ![C(s)] = IF W = 0 THEN Control ELSE 1]
  /\ UNCHANGED <<file, pipes, at, fd, fate, worker, todo, thread, history>>

\* Mutant of ClientJoins: the workers are not joined.
ClientJoinsNobody(s) == MainAt(C(s), "join") /\ FirstDelete(s)

ClientJoins(s) ==
  /\ MainAt(C(s), "join")
  /\ \A k \in Workers : worker[<<s, k>>] = "done"
  /\ FirstDelete(s)

\* delete workerChannels[i], for each of them.
ClientDeletes(s) ==
  LET k == chan[C(s)] IN
  /\ MainAt(C(s), "delete")
  /\ \/ Destructs(Current(C(s)))
     \/ /\ At(Current(C(s)), "gone")
        /\ IF k < W
           THEN chan' = [chan EXCEPT ![C(s)] = k + 1] /\ UNCHANGED main
           ELSE main' = [main EXCEPT ![C(s)] = "quit"] /\ UNCHANGED chan
        /\ UNCHANGED <<file, pipes, at, fd, fate, worker, todo, thread, history>>

\* chan->cwrite("quit")
ClientQuits(s) ==
  /\ MainAt(C(s), "quit")
  /\ Writes(ControlOf(C(s)), Msg("quit"))
  /\ main' = [main EXCEPT ![C(s)] = "leave"]
  /\ UNCHANGED <<file, at, fd, fate, chan, worker, todo, thread, history>>

\* A read or a write of its own fails.
ClientEnds(s) ==
  \/ MainAt(C(s), "next") /\ WriteEnds(ControlOf(C(s)))
  \/ MainAt(C(s), "reply") /\ ReadEnds(ControlOf(C(s)))
  \/ MainAt(C(s), "quit") /\ WriteEnds(ControlOf(C(s)))

ClientMain(s) ==
  \/ Constructing(C(s)) \/ ClientOpened(s) \/ ClientLacksWorker(s)
  \/ ClientAsks(s) \/ ClientNamed(s)
  \/ ClientJoins(s) \/ ClientDeletes(s) \/ ClientQuits(s) \/ Leaving(C(s))
  \/ ClientEnds(s)

Sends(s, k, kind, point) ==
  /\ Running(C(s)) /\ worker[<<s, k>>] = "write"
  /\ Writes(End(s, k, "client"), Msg(kind))
  /\ worker' = [worker EXCEPT ![<<s, k>>] = point]
  /\ UNCHANGED <<file, at, fd, fate, main, chan, thread, history>>

Requests(s, k) ==
  Sends(s, k, "data", "read") /\ todo' = [todo EXCEPT ![s] = @ - 1]

\* Mutant of WorkerRequests: one request too many.
WorkerRequestsOnceMore(s, k) == Requests(s, k)

\* Worker k pops a request and writes it.
WorkerRequests(s, k) == todo[s] > 0 /\ Requests(s, k)

\* The quits are pushed when all workers are there and all requests taken.
WorkerQuits(s, k) ==
  /\ main[C(s)] = "join"
  /\ todo[s] = 0
  /\ Sends(s, k, "quit", "done") /\ UNCHANGED todo

WorkerReceives(s, k) ==
  /\ Running(C(s)) /\ worker[<<s, k>>] = "read"
  /\ Reads(End(s, k, "client"), Msg("number"))
  /\ worker' = [worker EXCEPT ![<<s, k>>] = "write"]
  /\ UNCHANGED <<file, at, fd, fate, main, chan, todo, thread, history>>

WorkerEnds(s, k) ==
  /\ Running(C(s))
  /\ \/ worker[<<s, k>>] = "write" /\ WriteEnds(End(s, k, "client"))
     \/ worker[<<s, k>>] = "read" /\ ReadEnds(End(s, k, "client"))

Worker(s, k) ==
  \/ WorkerRequests(s, k) \/ WorkerQuits(s, k) \/ WorkerReceives(s, k)
  \/ WorkerEnds(s, k)

-----------------------------------------------------------------------------
(* The server of session s.                                                *)

\* "new RequestChannel" returns; unless it is the control channel, a thread
\* gets it.  That pthread_create fails goes unnoticed: it returns no number
\* below zero.
ServerOpened(s) ==
  LET k == chan[S(s)] IN
  /\ MainAt(S(s), "open")
  /\ At(Current(S(s)), "ready")
  /\ \/ /\ thread' = IF k = Control THEN thread
                      ELSE [thread EXCEPT ![<<s, k>>] = "read"]
        /\ UNCHANGED fault
     \/ k # Control /\ Fault(s, "no_thread") /\ UNCHANGED thread
  /\ main' = [main EXCEPT ![S(s)] = "next"]
  /\ UNCHANGED <<file, pipes, at, fd, fate, chan, worker, todo, stolen>>

\* Bound: the model has W names for the channels that the code counts.  As
\* long as no pipe was stolen nobody asks for more (see FifoSessionProofs).
NameLeft(s) == chan[S(s)] < W

\* The two requests that a client makes on the control channel.
ServerReads(s) ==
  /\ MainAt(S(s), "next")
  /\ \/ /\ NameLeft(s)
        /\ Reads(ControlOf(S(s)), Msg("newchannel"))
        /\ chan' = [chan EXCEPT ![S(s)] = @ + 1]
        /\ main' = [main EXCEPT ![S(s)] = "reply"]
     \/ /\ Reads(ControlOf(S(s)), Msg("quit"))
        /\ main' = [main EXCEPT ![S(s)] = "leave"]
        /\ UNCHANGED chan
  /\ UNCHANGED <<file, at, fd, fate, worker, todo, thread, history>>

\* process_newchannel: the name is sent before the channel is made.
ServerReplies(s) ==
  /\ MainAt(S(s), "reply")
  /\ Writes(ControlOf(S(s)), [kind |-> "name", k |-> chan[S(s)]])
  /\ main' = [main EXCEPT ![S(s)] = "open"]
  /\ Begins(S(s), chan[S(s)])
  /\ UNCHANGED <<file, fd, fate, chan, worker, todo, thread, history>>

ServerEnds(s) ==
  \/ MainAt(S(s), "next") /\ ReadEnds(ControlOf(S(s)))
  \/ MainAt(S(s), "reply") /\ WriteEnds(ControlOf(S(s)))

ServerMain(s) ==
  \/ Constructing(S(s)) \/ ServerOpened(s) \/ ServerReads(s)
  \/ ServerReplies(s) \/ Leaving(S(s)) \/ ServerEnds(s)

\* handle_process_loop of a data channel, which is never deleted.
ThreadReads(s, k) ==
  \E kind \in {"data", "quit"} :
    /\ Running(S(s)) /\ thread[<<s, k>>] = "read"
    /\ Reads(End(s, k, "server"), Msg(kind))
    /\ thread' = [thread EXCEPT ![<<s, k>>] =
                    IF kind = "data" THEN "reply" ELSE "done"]
    /\ UNCHANGED <<file, at, fd, fate, main, chan, worker, todo, history>>

ThreadReplies(s, k) ==
  /\ Running(S(s)) /\ thread[<<s, k>>] = "reply"
  /\ Writes(End(s, k, "server"), Msg("number"))
  /\ thread' = [thread EXCEPT ![<<s, k>>] = "read"]
  /\ UNCHANGED <<file, at, fd, fate, main, chan, worker, todo, history>>

ThreadEnds(s, k) ==
  /\ Running(S(s))
  /\ \/ thread[<<s, k>>] = "read" /\ ReadEnds(End(s, k, "server"))
     \/ thread[<<s, k>>] = "reply" /\ WriteEnds(End(s, k, "server"))

Thread(s, k) == ThreadReads(s, k) \/ ThreadReplies(s, k) \/ ThreadEnds(s, k)

-----------------------------------------------------------------------------
Next ==
  \E s \in Session :
    \/ Launch(s) \/ ClientMain(s) \/ ServerMain(s)
    \/ \E k \in Workers : Worker(s, k) \/ Thread(s, k)
    \/ \E side \in Sides : Crash(<<s, side>>)

Spec == Init /\ [][Next]_vars

\* Every process and thread is run; nothing makes the user run the client.
Fairness ==
  \A s \in Session :
    /\ WF_vars(ClientMain(s)) /\ WF_vars(ServerMain(s))
    /\ \A k \in Workers : WF_vars(Worker(s, k)) /\ WF_vars(Thread(s, k))

FairSpec == Spec /\ Fairness

-----------------------------------------------------------------------------
(***************************************************************************)
(* "If the channel exists already, this object is associated with the      *)
(* channel" (pa6/reqchannel.h:36): the two ends of a channel open the same *)
(* pipes.                                                                  *)
(***************************************************************************)
EndsMeet ==
  \A s \in Session, k \in Channels, x \in {1, 2} :
    LET a == fd[End(s, k, "client")][x]
        b == fd[End(s, k, "server")][x]
    IN a = NoPipe \/ b = NoPipe \/ a = b

\* So they do, unless a server at its end (reqchannel.cpp:126) has removed
\* the pipes of the next session.
EndsMeetUnlessStolen == ~stolen => EndsMeet

\* Nobody was killed, or replaced by rmv because a worker was missing.
Orderly == ~stolen /\ fault \in {"none", "no_thread"}

(***************************************************************************)
(* The shutdown leaves nobody alone: no read finds its writer gone and no  *)
(* write its reader (pa6/client.cpp:363-395, the destructors of both       *)
(* sides).                                                                 *)
(***************************************************************************)
NobodyBroken ==
  Orderly => \A p \in Session \X Sides : fate[p] \notin {"rmv", "killed"}

(***************************************************************************)
(* When a session is over its files are gone, those it found included:     *)
(* the server never deletes its ends of the data channels, the client does *)
(* (pa6/client.cpp:391, reqchannel.cpp:125-128).                           *)
(***************************************************************************)
LeavesNoFiles ==
  /\ Orderly
  /\ Begun(C(1))
  /\ \A p \in Session \X Sides : ~Running(p)
  => \A n \in Names : file[n] = NoPipe

(***************************************************************************)
(* Both sides open pipe 1 before pipe 2, and no channel is opened while    *)
(* another waits: every session comes to its end (pa6/reqchannel.cpp:109-  *)
(* 119).  If a process is killed the other one still ends, unless it waits *)
(* in open() for a partner that will not come (81, 93); if it is a thread  *)
(* of the server that is missing (pa6/dataserver.cpp:28), they end unless  *)
(* its worker has taken a request.                                         *)
(***************************************************************************)
WaitsInOpen(p) == \E k \in Channels : At(End(p[1], k, p[2]), "wait")
Unanswered(s) ==
  \E k \in Workers : worker[<<s, k>>] = "read" /\ thread[<<s, k>>] = "none"

SessionsEnd ==
  \A s \in Session :
    Begun(C(s)) ~> \/ stolen
                   \/ \A p \in {C(s), S(s)} : Running(p) =>
                        \/ fault = "killed" /\ WaitsInOpen(p)
                        \/ fault = "no_thread" /\ Unanswered(s)
=============================================================================

-------------------------------- MODULE Client --------------------------------
(***************************************************************************)
(* The client process (pa7/client.cpp): main(), three request threads, W   *)
(* worker threads, three stat threads and the quit thread, joined by one   *)
(* request buffer and three response buffers, with one connection to the   *)
(* data server per worker and a control connection.                        *)
(*                                                                         *)
(* The buffers are SafeBuffers.  A push or a pop is one action here, which *)
(* is what SafeBuffer implements (SafeBuffer!ImplementsFIFO).              *)
(*                                                                         *)
(* The data server is what a connection shows of it: each request read     *)
(* from a connection is answered on that connection by one number, "!"     *)
(* ends the connection and "!!" the server (server_thread_function in      *)
(* pa7/reqchannel.cpp).  It may also die at any time, if ServerMayDie.     *)
(***************************************************************************)
EXTENDS Integers, Sequences, FiniteSets

CONSTANTS
  N,             \* -n: the number of requests per patient
  W,             \* -w: the number of workers
  B,             \* -b: the capacity asked for the request buffer
  Readings,      \* the numbers the server may answer with
  MaxFailures,   \* bound: how many calls of pthread_create fail
  ServerMayDie,  \* whether the server may die, or refuse a connection
  RmvBuilt,      \* whether execl("rmv") finds the program rmv
  Quit           \* the string "quit", unlike any patient and any reading

ASSUME NAssumption == N \in Nat
ASSUME WAssumption == W \in Nat \ {0}
ASSUME BAssumption == B \in Int
ASSUME FaultAssumption ==
  MaxFailures \in Nat /\ ServerMayDie \in BOOLEAN /\ RmvBuilt \in BOOLEAN

-----------------------------------------------------------------------------
(* The tables of the program.                                              *)

NUM_PATIENTS == 3
Indices == 1..NUM_PATIENTS
Workers == 1..W
Patients == {"Joe", "John", "Jane"}

\* patients[]: the name each request thread asks for, as "data <name>".
patients == <<"Joe", "John", "Jane">>

\* pats_buffs[]: the response buffer each stat thread pops from.
pats_buffs == <<"John", "Jane", "Joe">>

\* Mutant of which_person: the order of patients[].
which_person_as_patients == <<"Joe", "John", "Jane">>

\* The name a stat thread passes to update(), by its which_person.
which_person == <<"John", "Jane", "Joe">>

\* The response buffer in which a worker stores the response to a request.
BufferOf(request) == request

\* Histogram::map, from a name to a row, and the bins of a row.
map == [John |-> 0, Jane |-> 1, Joe |-> 2]
Rows == 0..2
Bins == 0..9
BinOf(reading) == reading \div 10

ASSUME ReadingsAssumption == Readings \subseteq 0..99
ASSUME QuitAssumption == Quit \notin Patients /\ Quit \notin 0..99

\* "if(b < 3) b = 3", and a third of it for each response buffer.
RequestCapacity == IF B < 3 THEN 3 ELSE B
StatCapacity == RequestCapacity \div 3

-----------------------------------------------------------------------------
VARIABLES
  proc,       \* what became of the process
  main,       \* the part of main() that runs next
  i,          \* the counter of its loop
  no_error,   \* main()'s flag of the same name
  failures,   \* the calls of pthread_create that failed so far
  reqT,       \* reqT[j]: the state of request thread j
  sent,       \* sent[j]: its loop counter
  quitT,      \* the state of the quit thread
  quits,      \* its loop counter
  worker,     \* worker[k]: the point worker k has reached
  request,    \* request[k]: its local of that name
  response,   \* response[k]: its local of that name
  statT,      \* statT[j]: the point stat thread j has reached
  stat,       \* stat[j]: its local "response"
  rq,         \* request_buffer
  sq,         \* sq[p]: r_buffJoe, r_buffJohn, r_buffJane
  hist,       \* Histogram::hist
  server,     \* the data server as the client can tell: "up" or "down"
  up,         \* up[k]: the messages on worker k's connection to the server
  down,       \* down[k]: the messages on it from the server
  control,    \* the control connection
  answered    \* history: answered[p][b], the answers sent for p in bin b

mainVars == <<main, i, no_error>>
makerVars == <<reqT, sent, quitT, quits>>
workerVars == <<worker, request, response>>
statVars == <<statT, stat>>
bufferVars == <<rq, sq>>
netVars == <<server, up, down, control, answered>>
vars == <<proc, mainVars, failures, makerVars, workerVars, statVars,
          bufferVars, hist, netVars>>

ThreadStates == {"unborn", "failed", "running", "done"}
WorkerPoints == {"unborn", "failed", "pop", "write", "read", "store", "done"}
StatPoints == {"unborn", "failed", "pop", "update", "done"}
MainParts == {"connect", "requests", "stats", "workers", "joinRequests",
              "quit", "joinQuit", "joinWorkers", "kill", "quitStats",
              "joinStats", "report", "end"}
Fates == {"running", "reported", "exit", "rmv", "killed"}

\* No local value yet.
None == -1

TypeOK ==
  /\ proc \in Fates
  /\ main \in MainParts
  /\ i \in Nat
  /\ no_error \in BOOLEAN
  /\ failures \in 0..MaxFailures
  /\ reqT \in [Indices -> ThreadStates]
  /\ sent \in [Indices -> 0..N]
  /\ quitT \in ThreadStates
  /\ quits \in 0..W
  /\ worker \in [Workers -> WorkerPoints]
  /\ request \in [Workers -> Patients \cup {Quit}]
  /\ response \in [Workers -> Readings \cup {None}]
  /\ statT \in [Indices -> StatPoints]
  /\ stat \in [Indices -> Readings \cup {None}]
  /\ rq \in Seq(Patients \cup {Quit})
  /\ sq \in [Patients -> Seq(Readings \cup {Quit})]
  /\ hist \in [Rows -> [Bins -> Nat]]
  /\ server \in {"up", "down"}
  /\ up \in [Workers -> Seq(Patients \cup {"!"})]
  /\ down \in [Workers -> Seq(Readings)]
  /\ control \in {"none", "open", "!!"}
  /\ answered \in [Patients -> [Bins -> Nat]]

Init ==
  /\ proc = "running"
  /\ main = "connect"
  /\ i = 1
  /\ no_error = TRUE
  /\ failures = 0
  /\ reqT = [j \in Indices |-> "unborn"]
  /\ sent = [j \in Indices |-> 0]
  /\ quitT = "unborn"
  /\ quits = 0
  /\ worker = [k \in Workers |-> "unborn"]
  /\ request = [k \in Workers |-> Quit]
  /\ response = [k \in Workers |-> None]
  /\ statT = [j \in Indices |-> "unborn"]
  /\ stat = [j \in Indices |-> None]
  /\ rq = <<>>
  /\ sq = [p \in Patients |-> <<>>]
  /\ hist = [r \in Rows |-> [b \in Bins |-> 0]]
  /\ server = "up"
  /\ up = [k \in Workers |-> <<>>]
  /\ down = [k \in Workers |-> <<>>]
  /\ control = "none"
  /\ answered = [p \in Patients |-> [b \in Bins |-> 0]]

-----------------------------------------------------------------------------
(* The process as a whole.                                                 *)

Running == proc = "running"

\* The process ends here: exit(), a signal, or execl("rmv") replacing it.
Ends(fate) ==
  /\ proc' = fate
  /\ UNCHANGED <<mainVars, failures, makerVars, workerVars, statVars,
                 bufferVars, hist, netVars>>

\* cwrite() on a connection whose server is gone: SIGPIPE, or send() < 0 and
\* execl("rmv").  send() may also succeed; without rmv its failure returns -1,
\* which no caller looks at, so both of these are the ordinary step.
CwriteEnds ==
  /\ server = "down"
  /\ Ends("killed") \/ (RmvBuilt /\ Ends("rmv"))

\* Mutant of CreadEnds: try again.
CreadRetries ==
  /\ server = "down"
  /\ UNCHANGED vars

\* cread() on a connection whose server is gone: recv() <= 0, then
\* execl("rmv"), else EXITONERROR.
CreadEnds ==
  /\ server = "down"
  /\ Ends(IF RmvBuilt THEN "rmv" ELSE "exit")

\* The constructor of a client-side channel when connect() fails: exit(1).
ConnectEnds ==
  /\ ServerMayDie \/ server = "down"
  /\ Ends("exit")

-----------------------------------------------------------------------------
(* main(), one action per iteration of its loops.                          *)

MainAt(part) == Running /\ main = part

Goto(part) == main' = part /\ i' = 1

\* A step that changes nothing but the place main() has reached.
OnlyMain ==
  UNCHANGED <<proc, no_error, failures, makerVars, workerVars, statVars,
              bufferVars, hist, netVars>>

\* The end of one iteration of "for(int i = 0; i < bound; i++)".
Loop(bound, part) ==
  IF i < bound THEN i' = i + 1 /\ UNCHANGED main ELSE Goto(part)

\* pthread_create: it starts the thread, or fails.
Creates(started, failed) ==
  \/ started /\ UNCHANGED failures
  \/ failures < MaxFailures /\ failures' = failures + 1 /\ failed

\* Mutant of Joined: the join does not wait.
JoinedAtOnce(state) == TRUE

\* pthread_join returns once the thread is done.  A thread that was never
\* created left its pthread_t uninitialised: the join returns an error, or
\* the process crashes (JoinCrashes).
Joined(state) == state \in {"done", "failed"}
JoinCrashes(state) == state = "failed" /\ Ends("killed")

MainConnect ==
  /\ MainAt("connect")
  /\ server = "up"
  /\ control' = "open"
  /\ Goto("requests")
  /\ UNCHANGED <<proc, no_error, failures, makerVars, workerVars, statVars,
                 bufferVars, hist, server, up, down, answered>>

MainSpawnRequest ==
  /\ MainAt("requests")
  /\ Creates(reqT' = [reqT EXCEPT ![i] = "running"],
             reqT' = [reqT EXCEPT ![i] = "failed"])
  /\ Loop(NUM_PATIENTS, "stats")
  /\ UNCHANGED <<proc, no_error, sent, quitT, quits, workerVars, statVars,
                 bufferVars, hist, netVars>>

MainSpawnStat ==
  /\ MainAt("stats")
  /\ Creates(statT' = [statT EXCEPT ![i] = "pop"],
             statT' = [statT EXCEPT ![i] = "failed"])
  /\ Loop(NUM_PATIENTS, "workers")
  /\ UNCHANGED <<proc, no_error, makerVars, workerVars, stat, bufferVars,
                 hist, netVars>>

MainSpawnWorker ==
  /\ MainAt("workers")
  /\ server = "up"
  /\ worker' = [worker EXCEPT ![i] = "pop"]
  /\ Loop(W, "joinRequests")
  /\ UNCHANGED <<proc, no_error, failures, makerVars, request, response,
                 statVars, bufferVars, hist, netVars>>

\* The worker's pthread_create fails: throw, catch, execl("rmv"); if there is
\* no rmv, main() leaves the loop and remembers the error.
MainSpawnWorkerFails ==
  /\ MainAt("workers")
  /\ server = "up"
  /\ failures < MaxFailures
  /\ IF RmvBuilt
     THEN Ends("rmv")
     ELSE /\ failures' = failures + 1
          /\ worker' = [worker EXCEPT ![i] = "failed"]
          /\ no_error' = FALSE
          /\ Goto("joinRequests")
          /\ UNCHANGED <<proc, makerVars, request, response, statVars,
                         bufferVars, hist, netVars>>

MainJoinRequest ==
  /\ MainAt("joinRequests")
  /\ Joined(reqT[i])
  /\ Loop(NUM_PATIENTS, "quit")
  /\ OnlyMain

MainSpawnQuit ==
  /\ MainAt("quit")
  /\ Creates(quitT' = "running", quitT' = "failed")
  /\ Goto("joinQuit")
  /\ UNCHANGED <<proc, no_error, reqT, sent, quits, workerVars, statVars,
                 bufferVars, hist, netVars>>

\* Neither this join nor the next is attempted after an error.
MainJoinQuit ==
  /\ MainAt("joinQuit")
  /\ no_error => Joined(quitT)
  /\ Goto("joinWorkers")
  /\ OnlyMain

JoinsWorkers(joined) ==
  /\ MainAt("joinWorkers")
  /\ no_error /\ joined => Joined(worker[i])
  /\ Loop(W, "kill")
  /\ OnlyMain

\* Mutant of MainJoinWorker: the last worker is not joined.
MainJoinWorkerButLast == JoinsWorkers(i < W)

MainJoinWorker == JoinsWorkers(TRUE)

\* chan->cwrite("!!")
MainKillServer ==
  /\ MainAt("kill")
  /\ control' = "!!"
  /\ Goto("quitStats")
  /\ UNCHANGED <<proc, no_error, failures, makerVars, workerVars, statVars,
                 bufferVars, hist, server, up, down, answered>>

\* r_buffJohn, r_buffJane and r_buffJoe, in this order.
MainPushStatQuit ==
  /\ MainAt("quitStats")
  /\ Len(sq[pats_buffs[i]]) < StatCapacity
  /\ sq' = [sq EXCEPT ![pats_buffs[i]] = Append(@, Quit)]
  /\ Loop(NUM_PATIENTS, "joinStats")
  /\ UNCHANGED <<proc, no_error, failures, makerVars, workerVars, statVars,
                 rq, hist, netVars>>

MainJoinStat ==
  /\ MainAt("joinStats")
  /\ Joined(statT[i])
  /\ Loop(NUM_PATIENTS, "report")
  /\ OnlyMain

\* hist.print(), the end of the block (the buffers are destroyed), return 0.
MainReport ==
  /\ MainAt("report")
  /\ proc' = "reported"
  /\ Goto("end")
  /\ UNCHANGED <<no_error, failures, makerVars, workerVars, statVars,
                 bufferVars, hist, netVars>>

\* Where main() does not get past the call.
MainEnds ==
  \/ MainAt("connect") /\ ConnectEnds
  \/ MainAt("workers") /\ ConnectEnds
  \/ MainAt("joinRequests") /\ JoinCrashes(reqT[i])
  \/ MainAt("joinQuit") /\ no_error /\ JoinCrashes(quitT)
  \/ MainAt("joinStats") /\ JoinCrashes(statT[i])
  \/ MainAt("kill") /\ CwriteEnds

Main ==
  \/ MainConnect \/ MainSpawnRequest \/ MainSpawnStat
  \/ MainSpawnWorker \/ MainSpawnWorkerFails
  \/ MainJoinRequest \/ MainSpawnQuit \/ MainJoinQuit \/ MainJoinWorker
  \/ MainKillServer \/ MainPushStatQuit \/ MainJoinStat \/ MainReport
  \/ MainEnds

-----------------------------------------------------------------------------
(* The request threads and the quit thread.                                *)

RequestPushes(j, more) ==
  /\ Running
  /\ reqT[j] = "running"
  /\ more
  /\ Len(rq) < RequestCapacity
  /\ rq' = Append(rq, patients[j])
  /\ sent' = [sent EXCEPT ![j] = @ + 1]
  /\ UNCHANGED <<proc, mainVars, failures, reqT, quitT, quits, workerVars,
                 statVars, sq, hist, netVars>>

\* Mutant of RequestPush: "<=" for "<" in the loop.
RequestPushOnceMore(j) == RequestPushes(j, sent[j] <= N)

RequestPush(j) == RequestPushes(j, sent[j] < N)

RequestExit(j) ==
  /\ Running
  /\ reqT[j] = "running"
  /\ sent[j] = N
  /\ reqT' = [reqT EXCEPT ![j] = "done"]
  /\ UNCHANGED <<proc, mainVars, failures, sent, quitT, quits, workerVars,
                 statVars, bufferVars, hist, netVars>>

QuitPush ==
  /\ Running
  /\ quitT = "running"
  /\ quits < W
  /\ Len(rq) < RequestCapacity
  /\ rq' = Append(rq, Quit)
  /\ quits' = quits + 1
  /\ UNCHANGED <<proc, mainVars, failures, reqT, sent, quitT, workerVars,
                 statVars, sq, hist, netVars>>

QuitExit ==
  /\ Running
  /\ quitT = "running"
  /\ quits = W
  /\ quitT' = "done"
  /\ UNCHANGED <<proc, mainVars, failures, reqT, sent, quits, workerVars,
                 statVars, bufferVars, hist, netVars>>

-----------------------------------------------------------------------------
(* Worker k.                                                               *)

WorkerAt(k, point) == Running /\ worker[k] = point

WorkerPops(k, taken, rest) ==
  /\ WorkerAt(k, "pop")
  /\ rq # <<>>
  /\ request' = [request EXCEPT ![k] = taken]
  /\ rq' = rest
  /\ worker' = [worker EXCEPT ![k] = "write"]
  /\ UNCHANGED <<proc, mainVars, failures, makerVars, response, statVars, sq,
                 hist, netVars>>

\* Mutant of WorkerPop: the newest request first.
WorkerPopNewest(k) == WorkerPops(k, rq[Len(rq)], SubSeq(rq, 1, Len(rq) - 1))

WorkerPop(k) == WorkerPops(k, Head(rq), Tail(rq))

WorkerWrites(k, then) ==
  /\ WorkerAt(k, "write")
  /\ up' = [up EXCEPT ![k] = Append(@, IF request[k] = Quit THEN "!"
                                       ELSE request[k])]
  /\ worker' = [worker EXCEPT ![k] = IF request[k] = Quit THEN "done" ELSE then]
  /\ UNCHANGED <<proc, mainVars, failures, makerVars, request, response,
                 statVars, bufferVars, hist, server, down, control, answered>>

\* Mutant of WorkerWrite: the answer is not awaited.
WorkerWriteAndGo(k) == WorkerWrites(k, "pop")

\* "quit" becomes "!" and ends the thread; a request is written and awaited.
WorkerWrite(k) == WorkerWrites(k, "read")

WorkerRead(k) ==
  /\ WorkerAt(k, "read")
  /\ down[k] # <<>>
  /\ response' = [response EXCEPT ![k] = Head(down[k])]
  /\ down' = [down EXCEPT ![k] = Tail(@)]
  /\ worker' = [worker EXCEPT ![k] = "store"]
  /\ UNCHANGED <<proc, mainVars, failures, makerVars, request, statVars,
                 bufferVars, hist, server, up, control, answered>>

WorkerStore(k) ==
  LET p == BufferOf(request[k]) IN
  /\ WorkerAt(k, "store")
  /\ Len(sq[p]) < StatCapacity
  /\ sq' = [sq EXCEPT ![p] = Append(@, response[k])]
  /\ response' = [response EXCEPT ![k] = None]
  /\ worker' = [worker EXCEPT ![k] = "pop"]
  /\ UNCHANGED <<proc, mainVars, failures, makerVars, request, statVars, rq,
                 hist, netVars>>

WorkerEnds(k) ==
  \/ WorkerAt(k, "write") /\ CwriteEnds
  \/ WorkerAt(k, "read") /\ CreadEnds

Worker(k) ==
  WorkerPop(k) \/ WorkerWrite(k) \/ WorkerRead(k) \/ WorkerStore(k)
    \/ WorkerEnds(k)

-----------------------------------------------------------------------------
(* Stat thread j.                                                          *)

StatPop(j) ==
  LET p == pats_buffs[j] IN
  /\ Running
  /\ statT[j] = "pop"
  /\ sq[p] # <<>>
  /\ IF Head(sq[p]) = Quit
     THEN statT' = [statT EXCEPT ![j] = "done"] /\ UNCHANGED stat
     ELSE /\ statT' = [statT EXCEPT ![j] = "update"]
          /\ stat' = [stat EXCEPT ![j] = Head(sq[p])]
  /\ sq' = [sq EXCEPT ![p] = Tail(@)]
  /\ UNCHANGED <<proc, mainVars, failures, makerVars, workerVars, rq, hist,
                 netVars>>

StatUpdates(j, bin) ==
  /\ Running
  /\ statT[j] = "update"
  /\ hist' = [hist EXCEPT ![map[which_person[j]]][bin] = @ + 1]
  /\ stat' = [stat EXCEPT ![j] = None]
  /\ statT' = [statT EXCEPT ![j] = "pop"]
  /\ UNCHANGED <<proc, mainVars, failures, makerVars, workerVars, bufferVars,
                 netVars>>

\* Mutant of StatUpdate: "% 10" for "/ 10".
StatUpdateLastDigit(j) == StatUpdates(j, stat[j] % 10)

\* Histogram::update(name, response): hist[map[name]][stoi(response) / 10]++
StatUpdate(j) == StatUpdates(j, BinOf(stat[j]))

-----------------------------------------------------------------------------
(* The data server, as its connections show it.                            *)

ServerAnswer(k) ==
  /\ Running
  /\ server = "up"
  /\ up[k] # <<>>
  /\ Head(up[k]) \in Patients
  /\ \E v \in Readings :
       /\ down' = [down EXCEPT ![k] = Append(@, v)]
       /\ answered' = [answered EXCEPT ![Head(up[k])][BinOf(v)] = @ + 1]
  /\ up' = [up EXCEPT ![k] = Tail(@)]
  /\ UNCHANGED <<proc, mainVars, failures, makerVars, workerVars, statVars,
                 bufferVars, hist, server, control>>

ServerCloses(k) ==
  /\ Running
  /\ server = "up"
  /\ up[k] # <<>>
  /\ Head(up[k]) = "!"
  /\ up' = [up EXCEPT ![k] = Tail(@)]
  /\ UNCHANGED <<proc, mainVars, failures, makerVars, workerVars, statVars,
                 bufferVars, hist, server, down, control, answered>>

\* exit(0) on "!!", or the death of the server for a reason of its own.
ServerStops ==
  /\ Running
  /\ server = "up"
  /\ control = "!!" \/ ServerMayDie
  /\ server' = "down"
  /\ UNCHANGED <<proc, mainVars, failures, makerVars, workerVars, statVars,
                 bufferVars, hist, up, down, control, answered>>

-----------------------------------------------------------------------------
\* The process is gone: nothing more happens.
Gone == ~Running /\ UNCHANGED vars

Request(j) == RequestPush(j) \/ RequestExit(j)
Stat(j) == StatPop(j) \/ StatUpdate(j)
Server(k) == ServerAnswer(k) \/ ServerCloses(k)

Next ==
  \/ Main
  \/ \E j \in Indices : Request(j) \/ Stat(j)
  \/ QuitPush \/ QuitExit
  \/ \E k \in Workers : Worker(k) \/ Server(k)
  \/ ServerStops
  \/ Gone

Spec == Init /\ [][Next]_vars

(***************************************************************************)
(* Every thread that can run is eventually run by the scheduler, and the   *)
(* data server answers what it was sent.  Nothing makes a fault happen.    *)
(***************************************************************************)
Fairness ==
  /\ WF_vars(Main)
  /\ WF_vars(QuitPush \/ QuitExit)
  /\ \A j \in Indices : WF_vars(Request(j)) /\ WF_vars(Stat(j))
  /\ \A k \in Workers : WF_vars(Worker(k)) /\ WF_vars(Server(k))

FairSpec == Spec /\ Fairness
=============================================================================

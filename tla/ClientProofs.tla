----------------------------- MODULE ClientProofs -----------------------------
(***************************************************************************)
(* Theorems about Client, for any number of requests and workers, any      *)
(* capacity and any failures: the types and the order of the shutdown.     *)
(*                                                                         *)
(* The invariants are proved one on top of the other.  Each speaks of few  *)
(* variables, so each step lemma has a step for the actions that write to  *)
(* them and one for all the others.                                        *)
(***************************************************************************)
EXTENDS ClientProperties, TLAPS

-----------------------------------------------------------------------------
(***************************************************************************)
(* The four tables agree (client.cpp:131-140, 168-174, 298; Histogram.cpp):*)
(* a stat thread updates the row of the patient whose buffer it pops from, *)
(* and each patient has one request thread, one stat thread and one row.   *)
(***************************************************************************)
LEMMA Tables ==
  /\ \A j \in Indices : /\ patients[j] \in Patients
                        /\ pats_buffs[j] \in Patients
                        /\ which_person[j] = pats_buffs[j]
  /\ \A j, l \in Indices : /\ patients[j] = patients[l] => j = l
                           /\ pats_buffs[j] = pats_buffs[l] => j = l
  /\ \A p \in Patients : /\ \E j \in Indices : patients[j] = p
                         /\ \E j \in Indices : pats_buffs[j] = p
                         /\ map[p] \in Rows
  /\ \A p, q \in Patients : map[p] = map[q] => p = q
<1>1. Indices = {1, 2, 3}
  BY DEF Indices, NUM_PATIENTS
<1>2. /\ patients[1] = "Joe" /\ patients[2] = "John" /\ patients[3] = "Jane"
      /\ pats_buffs[1] = "John" /\ pats_buffs[2] = "Jane" /\ pats_buffs[3] = "Joe"
      /\ which_person = pats_buffs
  BY DEF patients, pats_buffs, which_person
<1>3. map["John"] = 0 /\ map["Jane"] = 1 /\ map["Joe"] = 2
  BY DEF map
<1> QED
  BY <1>1, <1>2, <1>3 DEF Patients, Rows

(***************************************************************************)
(* A reading falls in a bin, and is neither "quit" nor no reading at all.  *)
(***************************************************************************)
LEMMA ReadingFacts ==
  \A v \in Readings : v # Quit /\ v # None /\ v \in Nat /\ BinOf(v) \in Bins
BY ReadingsAssumption, QuitAssumption DEF BinOf, Bins, None

(***************************************************************************)
(* Every step of Next, by name.  A process that ends does so while it is   *)
(* running, and changes nothing else.                                      *)
(***************************************************************************)
Dies == \E fate \in {"exit", "killed", "rmv"} : Running /\ Ends(fate)

\* Whatever happens is one of these.
LEMMA Steps ==
  ASSUME [Next]_vars
  PROVE  \/ UNCHANGED vars \/ Dies
         \/ MainConnect \/ MainSpawnRequest \/ MainSpawnStat \/ MainSpawnWorker
         \/ MainSpawnWorkerFails /\ ~RmvBuilt
         \/ MainJoinRequest \/ MainSpawnQuit \/ MainJoinQuit \/ MainJoinWorker
         \/ MainKillServer \/ MainPushStatQuit \/ MainJoinStat \/ MainReport
         \/ \E j \in Indices : \/ RequestPush(j) \/ RequestExit(j)
                               \/ StatPop(j) \/ StatUpdate(j)
         \/ QuitPush \/ QuitExit
         \/ \E k \in Workers : \/ WorkerPop(k) \/ WorkerWrite(k)
                               \/ WorkerRead(k) \/ WorkerStore(k)
                               \/ ServerAnswer(k) \/ ServerCloses(k)
         \/ ServerStops
<1>1. MainEnds => Dies
  BY DEF MainEnds, MainAt, ConnectEnds, JoinCrashes, CwriteEnds, Dies
<1>2. ASSUME NEW k \in Workers, WorkerEnds(k) PROVE Dies
  BY <1>2 DEF WorkerEnds, WorkerAt, CwriteEnds, CreadEnds, Dies
<1>3. MainSpawnWorkerFails /\ RmvBuilt => Dies
  BY DEF MainSpawnWorkerFails, MainAt, Dies
<1> QED
  BY <1>1, <1>2, <1>3, FaultAssumption
  DEF Next, Main, Request, Stat, Worker, Server, Gone

-----------------------------------------------------------------------------
(***************************************************************************)
(* What the three ways to write into a table leave true of its type.       *)
(***************************************************************************)
LEMMA Incremented ==
  ASSUME NEW D, NEW E, NEW t \in [D -> [E -> Nat]], NEW d \in D, NEW e \in E
  PROVE  [t EXCEPT ![d][e] = @ + 1] \in [D -> [E -> Nat]]
OBVIOUS

\* A push of one buffer of a table of buffers.
LEMMA Appended ==
  ASSUME NEW D, NEW S, NEW t \in [D -> Seq(S)], NEW d \in D, NEW s \in S
  PROVE  [t EXCEPT ![d] = Append(@, s)] \in [D -> Seq(S)]
OBVIOUS

\* A pop of one of them, and what is taken.
LEMMA Removed ==
  ASSUME NEW D, NEW S, NEW t \in [D -> Seq(S)], NEW d \in D, t[d] # <<>>
  PROVE  /\ [t EXCEPT ![d] = Tail(@)] \in [D -> Seq(S)]
         /\ Head(t[d]) \in S
OBVIOUS

(***************************************************************************)
(* The types.  TypeOK needs to know which local holds a value when: main's *)
(* counter counts threads while it loops over them, a worker that stores   *)
(* has a response, and one that awaits or stores it has a request that is  *)
(* not "quit" (client.cpp:118-143, 161-178, 326-422).                      *)
(***************************************************************************)
Counter ==
  /\ i \in Nat
  /\ main \in MainParts
  /\ main \in {"requests", "stats", "joinRequests", "quitStats", "joinStats"}
       => i \in Indices
  /\ main \in {"workers", "joinWorkers"} => i \in Workers

Locals ==
  /\ \A k \in Workers :
       /\ worker[k] \in {"read", "store"} => request[k] \in Patients
       /\ worker[k] = "store" => response[k] \in Readings
       /\ worker[k] = "done" => request[k] = Quit
  /\ \A j \in Indices : statT[j] = "update" => stat[j] \in Readings

Typed == TypeOK /\ Counter /\ Locals

(***************************************************************************)
(* A loop of main() goes on to its next thread, or it has dealt with the   *)
(* last one and main() goes on to the next part.                           *)
(***************************************************************************)
LEMMA Loops ==
  ASSUME NEW n \in Nat, NEW part, i \in 1..n, Loop(n, part)
  PROVE  \/ i < n /\ i' = i + 1 /\ i' \in 1..n /\ main' = main
         \/ i = n /\ i' = 1 /\ main' = part
BY DEF Loop, Goto

\* main()'s counter stays in the range of its loop.
LEMMA CounterStep == Counter /\ [Next]_vars => Counter'
<1> SUFFICES ASSUME Counter, [Next]_vars
             PROVE  Counter'
  OBVIOUS
<1>0. /\ 1 \in Indices /\ Indices = 1..NUM_PATIENTS /\ NUM_PATIENTS \in Nat
      /\ 1 \in Workers /\ Workers = 1..W /\ W \in Nat
  BY WAssumption DEF Indices, NUM_PATIENTS, Workers
<1> DEFINE Quiet == UNCHANGED <<main, i>>
           Goes == \E part \in MainParts : Goto(part)
<1>1. CASE Quiet
  BY <1>1 DEF Counter
<1>2. CASE Goes
  BY <1>0, <1>2 DEF Counter, Goto
<1>3. ASSUME NEW part \in MainParts, Loop(NUM_PATIENTS, part),
             main \in {"requests", "stats", "joinRequests", "quitStats", "joinStats"}
      PROVE  Counter'
  <2>1. \/ i' \in 1..NUM_PATIENTS /\ main' = main
        \/ i' = 1 /\ main' = part
    BY <1>0, <1>3, Loops DEF Counter
  <2> QED
    BY <1>0, <1>3, <2>1 DEF Counter
<1>4. ASSUME NEW part \in MainParts, Loop(W, part),
             main \in {"workers", "joinWorkers"}
      PROVE  Counter'
  <2>1. \/ i' \in 1..W /\ main' = main
        \/ i' = 1 /\ main' = part
    BY <1>0, <1>4, Loops DEF Counter
  <2> QED
    BY <1>0, <1>4, <2>1 DEF Counter
<1>5. CASE MainConnect \/ MainJoinQuit \/ MainKillServer \/ MainReport
             \/ MainSpawnQuit \/ (MainSpawnWorkerFails /\ ~RmvBuilt)
  <2>1. Goes
    BY <1>5 DEF MainConnect, MainJoinQuit, MainKillServer, MainReport,
                MainSpawnQuit, MainSpawnWorkerFails, MainParts
  <2> QED
    BY <1>2, <2>1
<1>6. CASE MainSpawnRequest \/ MainSpawnStat \/ MainJoinRequest
             \/ MainPushStatQuit \/ MainJoinStat
  <2>1. /\ main \in {"requests", "stats", "joinRequests", "quitStats", "joinStats"}
        /\ \E part \in MainParts : Loop(NUM_PATIENTS, part)
    BY <1>6 DEF MainSpawnRequest, MainSpawnStat, MainJoinRequest,
                MainPushStatQuit, MainJoinStat, MainAt, MainParts
  <2> QED
    BY <1>3, <2>1
<1>7. CASE MainSpawnWorker \/ MainJoinWorker
  <2>1. /\ main \in {"workers", "joinWorkers"}
        /\ \E part \in MainParts : Loop(W, part)
    BY <1>7 DEF MainSpawnWorker, MainJoinWorker, JoinsWorkers, MainAt, MainParts
  <2> QED
    BY <1>4, <2>1
<1> HIDE DEF Goes
<1> QED
  BY <1>1, <1>5, <1>6, <1>7, Steps
  DEF vars, mainVars, Dies, Ends, RequestPush, RequestPushes, RequestExit,
      StatPop, StatUpdate, StatUpdates, QuitPush, QuitExit, WorkerPop,
      WorkerPops, WorkerWrite, WorkerWrites, WorkerRead, WorkerStore,
      ServerAnswer, ServerCloses, ServerStops

\* Every action keeps the types and the locals.
LEMMA TypedStep == Typed /\ [Next]_vars => Typed'
<1> SUFFICES ASSUME Typed, [Next]_vars
             PROVE  Typed'
  OBVIOUS
<1>0. Counter' /\ main' \in MainParts /\ i' \in Nat
  BY CounterStep DEF Typed, Counter
<1> USE <1>0 DEF Typed, TypeOK, Locals, ThreadStates, WorkerPoints, StatPoints,
                 Fates, OnlyMain, MainAt, vars, mainVars, makerVars, workerVars,
                 statVars, bufferVars, netVars
<1>1. CASE UNCHANGED vars
  BY <1>1
<1>2. CASE Dies
  BY <1>2 DEF Dies, Ends
<1>3. CASE MainConnect \/ MainJoinQuit \/ MainKillServer \/ MainReport
  BY <1>3 DEF MainConnect, MainJoinQuit, MainKillServer, MainReport
<1>4. CASE MainJoinRequest \/ MainJoinStat
  BY <1>4 DEF MainJoinRequest, MainJoinStat
<1>5. CASE MainJoinWorker
  BY <1>5 DEF MainJoinWorker, JoinsWorkers
<1>6. CASE MainSpawnRequest
  <2>1. failures' \in 0..MaxFailures
    BY <1>6, FaultAssumption DEF MainSpawnRequest, Creates
  <2>2. reqT' \in [Indices -> ThreadStates]
    BY <1>6 DEF MainSpawnRequest, Creates
  <2> QED
    BY <1>6, <2>1, <2>2 DEF MainSpawnRequest
<1>7. CASE MainSpawnQuit
  BY <1>7, FaultAssumption DEF MainSpawnQuit, Creates
<1>8. CASE MainSpawnStat
  <2>1. failures' \in 0..MaxFailures
    BY <1>8, FaultAssumption DEF MainSpawnStat, Creates
  <2>2. statT' \in [Indices -> StatPoints]
    BY <1>8 DEF MainSpawnStat, Creates
  <2>3. \A j \in Indices : statT'[j] = "update" => stat[j] \in Readings
    BY <1>8 DEF MainSpawnStat, Creates
  <2>4. \A j \in Indices : statT'[j] = "update" => stat'[j] \in Readings
    BY <1>8, <2>3 DEF MainSpawnStat
  <2>5. UNCHANGED <<proc, no_error, reqT, sent, quitT, quits, workerVars, stat,
                    bufferVars, hist, netVars>>
    BY <1>8 DEF MainSpawnStat
  <2> QED
    BY <2>1, <2>2, <2>4, <2>5
<1>9. CASE MainSpawnWorker
  BY <1>9 DEF MainSpawnWorker
<1>10. CASE MainSpawnWorkerFails /\ ~RmvBuilt
  <2>1. failures' \in 0..MaxFailures
    BY <1>10, FaultAssumption DEF MainSpawnWorkerFails
  <2> QED
    BY <1>10, <2>1 DEF MainSpawnWorkerFails
<1>11. CASE MainPushStatQuit
  <2>1. i \in Indices /\ pats_buffs[i] \in Patients
    <3>1. main = "quitStats"
      BY <1>11 DEF MainPushStatQuit
    <3>2. i \in Indices
      BY <3>1 DEF Counter
    <3> QED
      BY <3>2, Tables
  <2>2. sq' = [sq EXCEPT ![pats_buffs[i]] = Append(@, Quit)]
    BY <1>11 DEF MainPushStatQuit
  <2>3. sq' \in [Patients -> Seq(Readings \cup {Quit})]
    BY <2>1, <2>2, Appended
  <2> QED
    BY <1>11, <2>3 DEF MainPushStatQuit
<1>12. ASSUME NEW j \in Indices, RequestPush(j) PROVE Typed'
  <2>1. sent' \in [Indices -> 0..N]
    BY <1>12, NAssumption DEF RequestPush, RequestPushes
  <2>2. rq' \in Seq(Patients \cup {Quit})
    BY <1>12, Tables DEF RequestPush, RequestPushes
  <2> QED
    BY <1>12, <2>1, <2>2 DEF RequestPush, RequestPushes
<1>13. ASSUME NEW j \in Indices, RequestExit(j) PROVE Typed'
  BY <1>13 DEF RequestExit
<1>14. ASSUME NEW j \in Indices, StatPop(j) PROVE Typed'
  <2>1. /\ sq' \in [Patients -> Seq(Readings \cup {Quit})]
        /\ Head(sq[pats_buffs[j]]) \in Readings \cup {Quit}
    BY <1>14, Tables, Removed DEF StatPop
  <2>2. /\ statT' \in [Indices -> StatPoints]
        /\ stat' \in [Indices -> Readings \cup {None}]
        /\ \A l \in Indices : statT'[l] = "update" => stat'[l] \in Readings
    <3>1. \/ /\ statT' = [statT EXCEPT ![j] = "done"]
             /\ stat' = stat
          \/ /\ statT' = [statT EXCEPT ![j] = "update"]
             /\ stat' = [stat EXCEPT ![j] = Head(sq[pats_buffs[j]])]
             /\ Head(sq[pats_buffs[j]]) # Quit
      BY <1>14 DEF StatPop
    <3>2. /\ statT \in [Indices -> StatPoints]
          /\ stat \in [Indices -> Readings \cup {None}]
          /\ \A l \in Indices : statT[l] = "update" => stat[l] \in Readings
      OBVIOUS
    <3> HIDE DEF Typed, TypeOK, Locals
    <3> QED
      BY <2>1, <3>1, <3>2
  <2> QED
    BY <1>14, <2>1, <2>2 DEF StatPop
<1>15. ASSUME NEW j \in Indices, StatUpdate(j) PROVE Typed'
  <2>1. hist' \in [Rows -> [Bins -> Nat]]
    BY <1>15, Tables, ReadingFacts, Incremented DEF StatUpdate, StatUpdates
  <2>2. /\ statT' = [statT EXCEPT ![j] = "pop"]
        /\ stat' = [stat EXCEPT ![j] = None]
    BY <1>15 DEF StatUpdate, StatUpdates
  <2>3. /\ statT' \in [Indices -> StatPoints]
        /\ stat' \in [Indices -> Readings \cup {None}]
        /\ \A l \in Indices : statT'[l] = "update" => stat'[l] \in Readings
    BY <2>2
  <2> QED
    BY <1>15, <2>1, <2>3 DEF StatUpdate, StatUpdates
<1>16. CASE QuitPush
  BY <1>16, WAssumption DEF QuitPush
<1>17. CASE QuitExit
  BY <1>17 DEF QuitExit
<1>18. ASSUME NEW k \in Workers, WorkerPop(k) PROVE Typed'
  BY <1>18 DEF WorkerPop, WorkerPops, WorkerAt
<1>19. ASSUME NEW k \in Workers, WorkerWrite(k) PROVE Typed'
  BY <1>19 DEF WorkerWrite, WorkerWrites, WorkerAt
<1>20. ASSUME NEW k \in Workers, WorkerRead(k) PROVE Typed'
  BY <1>20 DEF WorkerRead, WorkerAt
<1>21. ASSUME NEW k \in Workers, WorkerStore(k) PROVE Typed'
  BY <1>21 DEF WorkerStore, WorkerAt, BufferOf
<1>22. ASSUME NEW k \in Workers, ServerAnswer(k) PROVE Typed'
  <2>1. PICK v \in Readings :
          /\ down' = [down EXCEPT ![k] = Append(@, v)]
          /\ answered' = [answered EXCEPT ![Head(up[k])][BinOf(v)] = @ + 1]
    BY <1>22 DEF ServerAnswer
  <2>2. down' \in [Workers -> Seq(Readings)]
    BY <2>1, Appended
  <2>3. answered' \in [Patients -> [Bins -> Nat]]
    BY <1>22, <2>1, ReadingFacts, Incremented DEF ServerAnswer
  <2>4. up' \in [Workers -> Seq(Patients \cup {"!"})]
    BY <1>22, Removed DEF ServerAnswer
  <2> QED
    BY <1>22, <2>2, <2>3, <2>4 DEF ServerAnswer
<1>23. ASSUME NEW k \in Workers, ServerCloses(k) PROVE Typed'
  <2>1. up' \in [Workers -> Seq(Patients \cup {"!"})]
    BY <1>23, Removed DEF ServerCloses
  <2> QED
    BY <1>23, <2>1 DEF ServerCloses
<1>24. CASE ServerStops
  BY <1>24 DEF ServerStops
<1> HIDE <1>0 DEF Typed, vars
<1> QED
  BY <1>1, <1>2, <1>3, <1>4, <1>5, <1>6, <1>7, <1>8, <1>9, <1>10, <1>11, <1>12,
     <1>13, <1>14, <1>15, <1>16, <1>17, <1>18, <1>19, <1>20, <1>21, <1>22,
     <1>23, <1>24, Steps

\* So they hold in every state.
LEMMA TypedAlways == Spec => []Typed
<1>1. Init => Typed
  BY FaultAssumption, NAssumption, WAssumption
  DEF Init, Typed, TypeOK, Locals, ThreadStates, WorkerPoints, StatPoints,
      MainParts, Fates, None, Counter
<1> QED
  BY <1>1, TypedStep, PTL DEF Spec

\* The type invariant of Client.
THEOREM TypeCorrect == Spec => []TypeOK
BY TypedAlways, PTL DEF Typed

-----------------------------------------------------------------------------
(***************************************************************************)
(* What the place main() has reached says of the other threads: which it   *)
(* has not created yet, and which it has joined (client.cpp:326-422).      *)
(***************************************************************************)
AfterStats == {"report", "end"}
AfterQuitStats == {"joinStats"} \cup AfterStats
AfterKill == {"quitStats"} \cup AfterQuitStats
AfterWorkers == {"kill"} \cup AfterKill
AfterQuit == {"joinWorkers"} \cup AfterWorkers
AfterRequests == {"quit", "joinQuit"} \cup AfterQuit

Unborn ==
  /\ \A j \in Indices :
       main \in {"connect", "requests"} \/ (main = "stats" /\ i <= j)
         => statT[j] = "unborn"
  /\ \A k \in Workers :
       main \in {"connect", "requests", "stats"} \/ (main = "workers" /\ i <= k)
         => worker[k] = "unborn"
  /\ main \notin {"joinQuit"} \cup AfterQuit => quitT = "unborn"

JoinedSoFar ==
  /\ \A j \in Indices :
       main \in AfterRequests \/ (main = "joinRequests" /\ j < i)
         => Joined(reqT[j])
  /\ main \in AfterQuit /\ no_error => Joined(quitT)
  /\ \A k \in Workers :
       no_error /\ (main \in AfterWorkers \/ (main = "joinWorkers" /\ k < i))
         => Joined(worker[k])
  /\ \A j \in Indices :
       main \in AfterStats \/ (main = "joinStats" /\ j < i)
         => Joined(statT[j])

(***************************************************************************)
(* The quits of the stat threads, and "!!", come from main() alone.        *)
(***************************************************************************)
QuitSent(j) ==
  \/ statT[j] = "done"
  \/ \E x \in DOMAIN sq[pats_buffs[j]] : sq[pats_buffs[j]][x] = Quit

SaidSoFar ==
  /\ \A j \in Indices :
       QuitSent(j) => main \in AfterQuitStats \/ (main = "quitStats" /\ j < i)
  /\ control = "!!" => main \in AfterKill

(***************************************************************************)
(* The loop counters of the threads that push, and what ended the process. *)
(***************************************************************************)
CountedSoFar ==
  /\ \A j \in Indices : reqT[j] = "done" => sent[j] = N
  /\ quitT \in {"unborn", "failed"} => quits = 0
  /\ quitT = "done" => quits = W
  /\ proc = "reported" <=> main = "end"

(***************************************************************************)
(* The quits of the workers are the last in the request buffer.            *)
(***************************************************************************)
QuitsInOrder ==
  /\ quits = 0 => \A x \in DOMAIN rq : rq[x] # Quit
  /\ \A x, y \in DOMAIN rq : x < y /\ rq[x] = Quit => rq[y] = Quit

(***************************************************************************)
(* What is on worker k's connection, by what worker k is doing.            *)
(***************************************************************************)
Lines ==
  \A k \in Workers :
    /\ worker[k] \notin {"read", "done"} => up[k] = <<>> /\ down[k] = <<>>
    /\ worker[k] = "read" =>
         \/ up[k] = <<request[k]>> /\ down[k] = <<>>
         \/ up[k] = <<>> /\ \E v \in Readings : down[k] = <<v>>
    /\ worker[k] = "done" => up[k] \in {<<>>, <<"!">>} /\ down[k] = <<>>

\* No call of pthread_create has failed.
NoneFailed ==
  failures = 0 =>
    /\ no_error
    /\ quitT # "failed"
    /\ \A j \in Indices : reqT[j] # "failed" /\ statT[j] # "failed"
    /\ \A k \in Workers : worker[k] # "failed"

-----------------------------------------------------------------------------
(***************************************************************************)
(* The moves of main(): one turn of a loop over n threads, or on to the    *)
(* next part.                                                              *)
(***************************************************************************)
Turn(n, part, next) ==
  /\ main = part /\ i \in 1..n /\ i \in Nat /\ n \in Nat
  /\ \/ i < n /\ i' = i + 1 /\ main' = part
     \/ i = n /\ i' = 1 /\ main' = next

Goes(part, next) == main = part /\ main' = next /\ i' = 1

\* Where each action of main() goes.
LEMMA Moves ==
  ASSUME Typed
  PROVE  /\ MainConnect => Goes("connect", "requests")
         /\ MainSpawnRequest => Turn(NUM_PATIENTS, "requests", "stats")
         /\ MainSpawnStat => Turn(NUM_PATIENTS, "stats", "workers")
         /\ MainSpawnWorker => Turn(W, "workers", "joinRequests")
         /\ MainSpawnWorkerFails /\ ~RmvBuilt => Goes("workers", "joinRequests")
         /\ MainJoinRequest => Turn(NUM_PATIENTS, "joinRequests", "quit")
         /\ MainSpawnQuit => Goes("quit", "joinQuit")
         /\ MainJoinQuit => Goes("joinQuit", "joinWorkers")
         /\ MainJoinWorker => Turn(W, "joinWorkers", "kill")
         /\ MainKillServer => Goes("kill", "quitStats")
         /\ MainPushStatQuit => Turn(NUM_PATIENTS, "quitStats", "joinStats")
         /\ MainJoinStat => Turn(NUM_PATIENTS, "joinStats", "report")
         /\ MainReport => Goes("report", "end")
<1>1. /\ NUM_PATIENTS \in Nat /\ Indices = 1..NUM_PATIENTS
      /\ W \in Nat /\ Workers = 1..W /\ i \in Nat
  BY WAssumption DEF Indices, NUM_PATIENTS, Workers, Typed, Counter
<1>2. ASSUME NEW next, NEW part, main = part,
             part \in {"requests", "stats", "joinRequests", "quitStats", "joinStats"},
             Loop(NUM_PATIENTS, next)
      PROVE  Turn(NUM_PATIENTS, part, next)
  <2>1. i \in 1..NUM_PATIENTS
    BY <1>1, <1>2 DEF Typed, Counter
  <2> QED
    BY <1>1, <1>2, <2>1, Loops DEF Turn
<1>3. ASSUME NEW next, NEW part, main = part,
             part \in {"workers", "joinWorkers"}, Loop(W, next)
      PROVE  Turn(W, part, next)
  <2>1. i \in 1..W
    BY <1>1, <1>3 DEF Typed, Counter
  <2> QED
    BY <1>1, <1>3, <2>1, Loops DEF Turn
<1>4. /\ MainSpawnRequest => Turn(NUM_PATIENTS, "requests", "stats")
      /\ MainSpawnStat => Turn(NUM_PATIENTS, "stats", "workers")
      /\ MainJoinRequest => Turn(NUM_PATIENTS, "joinRequests", "quit")
      /\ MainPushStatQuit => Turn(NUM_PATIENTS, "quitStats", "joinStats")
      /\ MainJoinStat => Turn(NUM_PATIENTS, "joinStats", "report")
  BY <1>2 DEF MainSpawnRequest, MainSpawnStat, MainJoinRequest,
              MainPushStatQuit, MainJoinStat, MainAt
<1>5. /\ MainSpawnWorker => Turn(W, "workers", "joinRequests")
      /\ MainJoinWorker => Turn(W, "joinWorkers", "kill")
  BY <1>3 DEF MainSpawnWorker, MainJoinWorker, JoinsWorkers, MainAt
<1> QED
  BY <1>4, <1>5
  DEF Goes, Goto, MainAt, MainConnect, MainSpawnWorkerFails, MainSpawnQuit,
      MainJoinQuit, MainKillServer, MainReport

\* The ranges of the two kinds of loops.
LEMMA Ranges ==
  /\ Indices = 1..NUM_PATIENTS /\ NUM_PATIENTS \in Nat
  /\ Workers = 1..W /\ W \in Nat /\ W > 0
BY WAssumption DEF Indices, NUM_PATIENTS, Workers

(***************************************************************************)
(* Threads are created in the order main() says, and no thread begins      *)
(* before it is.                                                           *)
(***************************************************************************)
LEMMA UnbornStep == Typed /\ Unborn /\ [Next]_vars => Unborn'
<1> SUFFICES ASSUME Typed, Unborn, [Next]_vars
             PROVE  Unborn'
  OBVIOUS
<1>0. /\ statT \in [Indices -> StatPoints]
      /\ worker \in [Workers -> WorkerPoints]
  BY DEF Typed, TypeOK
<1> USE DEF Unborn, AfterQuit, AfterWorkers, AfterKill, AfterQuitStats,
            AfterStats
<1>1. CASE UNCHANGED <<main, i, statT, worker, quitT>>
  BY <1>1
<1>2. CASE MainConnect \/ MainJoinQuit \/ MainKillServer \/ MainReport
             \/ MainSpawnQuit \/ (MainSpawnWorkerFails /\ ~RmvBuilt)
  <2>1. \/ Goes("connect", "requests") /\ UNCHANGED <<statT, worker, quitT>>
        \/ main' \in {"joinQuit"} \cup AfterQuit /\ UNCHANGED <<statT, worker>>
        \/ Goes("workers", "joinRequests") /\ UNCHANGED <<statT, quitT>>
    BY <1>2, Moves
    DEF Goes, MainConnect, MainJoinQuit, MainKillServer, MainReport,
        MainSpawnQuit, MainSpawnWorkerFails, OnlyMain, makerVars, workerVars,
        statVars
  <2> QED
    BY <2>1, Ranges DEF Goes
<1>3. CASE MainSpawnRequest
  BY <1>3, Moves, Ranges DEF Turn, MainSpawnRequest, workerVars, statVars
<1>4. CASE MainSpawnStat
  <2>1. /\ Turn(NUM_PATIENTS, "stats", "workers")
        /\ UNCHANGED <<worker, quitT>>
        /\ \E point : statT' = [statT EXCEPT ![i] = point]
    BY <1>4, Moves DEF MainSpawnStat, Creates, makerVars, workerVars
  <2>2. \A j \in Indices : main' = "stats" /\ i' <= j => statT'[j] = "unborn"
    BY <1>0, <2>1, Ranges DEF Turn
  <2> QED
    BY <2>1, <2>2, Ranges DEF Turn
<1>5. CASE MainSpawnWorker
  <2>1. /\ Turn(W, "workers", "joinRequests")
        /\ UNCHANGED <<statT, quitT>>
        /\ worker' = [worker EXCEPT ![i] = "pop"]
    BY <1>5, Moves DEF MainSpawnWorker, makerVars, statVars
  <2>2. \A k \in Workers : main' = "workers" /\ i' <= k => worker'[k] = "unborn"
    BY <1>0, <2>1, Ranges DEF Turn
  <2> QED
    BY <2>1, <2>2 DEF Turn
<1>6. CASE MainJoinRequest \/ MainJoinWorker \/ MainPushStatQuit \/ MainJoinStat
  <2>1. UNCHANGED <<statT, worker, quitT>>
    BY <1>6
    DEF MainJoinRequest, MainJoinWorker, JoinsWorkers, MainPushStatQuit,
        MainJoinStat, OnlyMain, makerVars, workerVars, statVars
  <2>2. \/ main = "joinRequests" /\ main' \in {"joinRequests", "quit"}
        \/ main' \in AfterQuit
    BY <1>6, Moves DEF Turn
  <2> QED
    BY <2>1, <2>2
<1>7. ASSUME NEW j \in Indices, StatPop(j) \/ StatUpdate(j)
      PROVE  Unborn'
  BY <1>0, <1>7
  DEF StatPop, StatUpdate, StatUpdates, mainVars, makerVars, workerVars
<1>8. ASSUME NEW k \in Workers,
             WorkerPop(k) \/ WorkerWrite(k) \/ WorkerRead(k) \/ WorkerStore(k)
      PROVE  Unborn'
  BY <1>0, <1>8
  DEF WorkerPop, WorkerPops, WorkerWrite, WorkerWrites, WorkerRead, WorkerStore,
      WorkerAt, mainVars, makerVars, statVars
<1>9. CASE QuitExit
  BY <1>9 DEF QuitExit, mainVars, workerVars, statVars
<1> HIDE DEF Unborn
<1> QED
  BY <1>1, <1>2, <1>3, <1>4, <1>5, <1>6, <1>7, <1>8, <1>9, Steps
  DEF vars, mainVars, makerVars, workerVars, statVars, Dies, Ends,
      RequestPush, RequestPushes, RequestExit, QuitPush, ServerAnswer,
      ServerCloses, ServerStops

(***************************************************************************)
(* A thread that main() has joined stays joined; a loop that ends has      *)
(* joined all (client.cpp:365-422).                                        *)
(***************************************************************************)
LEMMA JoinedStep == Typed /\ JoinedSoFar /\ [Next]_vars => JoinedSoFar'
<1> SUFFICES ASSUME Typed, JoinedSoFar, [Next]_vars
             PROVE  JoinedSoFar'
  OBVIOUS
<1>0. /\ reqT \in [Indices -> ThreadStates]
      /\ statT \in [Indices -> StatPoints]
      /\ worker \in [Workers -> WorkerPoints]
  BY DEF Typed, TypeOK
<1> USE DEF JoinedSoFar, Joined, AfterRequests, AfterQuit, AfterWorkers,
            AfterKill, AfterQuitStats, AfterStats
<1>1. CASE UNCHANGED <<main, i, no_error, reqT, quitT, worker, statT>>
  BY <1>1
<1>2. CASE MainConnect \/ MainSpawnRequest \/ MainSpawnStat \/ MainSpawnWorker
             \/ (MainSpawnWorkerFails /\ ~RmvBuilt)
  <2>1. \/ main' \in {"requests", "stats", "workers"}
        \/ main' = "joinRequests" /\ i' = 1
    BY <1>2, Moves DEF Turn, Goes
  <2> QED
    BY <2>1, Ranges
<1>3. CASE MainJoinRequest
  <2>1. /\ Turn(NUM_PATIENTS, "joinRequests", "quit")
        /\ UNCHANGED <<no_error, reqT, quitT, worker, statT>>
        /\ Joined(reqT[i])
    BY <1>3, Moves
    DEF MainJoinRequest, OnlyMain, makerVars, workerVars, statVars
  <2>2. \A j \in Indices : j < i' \/ main' = "quit" => Joined(reqT[j])
    BY <2>1, Ranges DEF Turn
  <2> QED
    BY <2>1, <2>2 DEF Turn
<1>4. CASE MainSpawnQuit \/ MainJoinQuit \/ MainKillServer \/ MainReport
  <2>1. \/ Goes("quit", "joinQuit")
        \/ Goes("joinQuit", "joinWorkers") /\ (no_error => Joined(quitT))
             /\ UNCHANGED quitT
        \/ Goes("kill", "quitStats") /\ UNCHANGED quitT
        \/ Goes("report", "end") /\ UNCHANGED quitT
    BY <1>4, Moves
    DEF MainSpawnQuit, MainJoinQuit, MainKillServer, MainReport, OnlyMain,
        makerVars
  <2>2. UNCHANGED <<no_error, reqT, worker, statT>>
    BY <1>4
    DEF MainSpawnQuit, MainJoinQuit, MainKillServer, MainReport, OnlyMain,
        makerVars, workerVars, statVars
  <2> QED
    BY <2>1, <2>2, Ranges DEF Goes
<1>5. CASE MainJoinWorker
  <2>1. /\ Turn(W, "joinWorkers", "kill")
        /\ UNCHANGED <<no_error, reqT, quitT, worker, statT>>
        /\ no_error => Joined(worker[i])
    BY <1>5, Moves
    DEF MainJoinWorker, JoinsWorkers, OnlyMain, makerVars, workerVars, statVars
  <2>2. \A k \in Workers :
          no_error /\ (k < i' \/ main' = "kill") => Joined(worker[k])
    BY <2>1, Ranges DEF Turn
  <2> QED
    BY <2>1, <2>2 DEF Turn
<1>6. CASE MainPushStatQuit
  <2>1. /\ Turn(NUM_PATIENTS, "quitStats", "joinStats")
        /\ UNCHANGED <<no_error, reqT, quitT, worker, statT>>
    BY <1>6, Moves DEF MainPushStatQuit, makerVars, workerVars, statVars
  <2> QED
    BY <2>1, Ranges DEF Turn
<1>7. CASE MainJoinStat
  <2>1. /\ Turn(NUM_PATIENTS, "joinStats", "report")
        /\ UNCHANGED <<no_error, reqT, quitT, worker, statT>>
        /\ Joined(statT[i])
    BY <1>7, Moves
    DEF MainJoinStat, OnlyMain, makerVars, workerVars, statVars
  <2>2. \A j \in Indices : j < i' \/ main' = "report" => Joined(statT[j])
    BY <2>1, Ranges DEF Turn
  <2> QED
    BY <2>1, <2>2 DEF Turn
<1>8. ASSUME NEW j \in Indices, RequestExit(j)
      PROVE  JoinedSoFar'
  BY <1>0, <1>8 DEF RequestExit, mainVars, workerVars, statVars
<1>9. ASSUME NEW j \in Indices, StatPop(j) \/ StatUpdate(j)
      PROVE  JoinedSoFar'
  BY <1>0, <1>9
  DEF StatPop, StatUpdate, StatUpdates, mainVars, makerVars, workerVars
<1>10. ASSUME NEW k \in Workers,
              WorkerPop(k) \/ WorkerWrite(k) \/ WorkerRead(k) \/ WorkerStore(k)
       PROVE  JoinedSoFar'
  BY <1>0, <1>10
  DEF WorkerPop, WorkerPops, WorkerWrite, WorkerWrites, WorkerRead, WorkerStore,
      WorkerAt, mainVars, makerVars, statVars
<1>11. CASE QuitExit
  BY <1>11 DEF QuitExit, mainVars, workerVars, statVars
<1> HIDE DEF JoinedSoFar
<1> QED
  BY <1>1, <1>2, <1>3, <1>4, <1>5, <1>6, <1>7, <1>8, <1>9, <1>10, <1>11, Steps
  DEF vars, mainVars, makerVars, workerVars, statVars, Dies, Ends,
      RequestPush, RequestPushes, QuitPush, ServerAnswer, ServerCloses,
      ServerStops

(***************************************************************************)
(* A stat thread finds a "quit" only where main() has pushed one: what a   *)
(* worker stores is a reading (client.cpp:408-414).                        *)
(***************************************************************************)
LEMMA SaidStep == Typed /\ SaidSoFar /\ [Next]_vars => SaidSoFar'
<1> SUFFICES ASSUME Typed, SaidSoFar, [Next]_vars
             PROVE  SaidSoFar'
  OBVIOUS
<1>0. /\ statT \in [Indices -> StatPoints]
      /\ sq \in [Patients -> Seq(Readings \cup {Quit})]
  BY DEF Typed, TypeOK
<1> USE DEF SaidSoFar, QuitSent, AfterKill, AfterQuitStats, AfterStats
<1>1. CASE UNCHANGED <<main, i, statT, sq, control>>
  BY <1>1
<1>2. CASE MainConnect \/ MainSpawnQuit \/ MainJoinQuit \/ MainKillServer
             \/ MainReport \/ (MainSpawnWorkerFails /\ ~RmvBuilt)
  <2>1. /\ UNCHANGED <<statT, sq>>
        /\ (main' = "end" /\ main = "report") \/ main \notin AfterKill
        /\ control' # "!!" \/ UNCHANGED control \/ main' = "quitStats"
    BY <1>2, Moves
    DEF Goes, MainConnect, MainSpawnQuit, MainJoinQuit, MainKillServer,
        MainReport, MainSpawnWorkerFails, OnlyMain, statVars, bufferVars, netVars
  <2> QED
    BY <2>1
<1>3. CASE MainSpawnRequest \/ MainSpawnWorker \/ MainJoinRequest \/ MainJoinWorker
  <2>1. UNCHANGED <<statT, sq, control>> /\ main \notin AfterKill
    BY <1>3, Moves
    DEF Turn, MainSpawnRequest, MainSpawnWorker, MainJoinRequest,
        MainJoinWorker, JoinsWorkers, OnlyMain, statVars, bufferVars, netVars
  <2> QED
    BY <2>1
<1>4. CASE MainSpawnStat
  <2>1. /\ UNCHANGED <<sq, control>> /\ main \notin AfterKill
        /\ \E point \in {"pop", "failed"} : statT' = [statT EXCEPT ![i] = point]
    BY <1>4, Moves DEF Turn, MainSpawnStat, Creates, bufferVars, netVars
  <2>2. \A j \in Indices : statT'[j] = "done" => statT[j] = "done"
    BY <1>0, <2>1
  <2> QED
    BY <2>1, <2>2
<1>5. CASE MainPushStatQuit
  <2>1. /\ Turn(NUM_PATIENTS, "quitStats", "joinStats")
        /\ UNCHANGED <<statT, control>>
        /\ sq' = [sq EXCEPT ![pats_buffs[i]] = Append(@, Quit)]
    BY <1>5, Moves DEF MainPushStatQuit, statVars, netVars
  <2>2. \A j \in Indices : j # i /\ QuitSent(j)' => QuitSent(j)
    <3> SUFFICES ASSUME NEW j \in Indices, j # i PROVE sq'[pats_buffs[j]] = sq[pats_buffs[j]]
      BY <2>1
    <3>1. i \in Indices /\ pats_buffs[j] # pats_buffs[i]
      BY <1>0, <2>1, Tables, Ranges DEF Turn
    <3> QED
      BY <1>0, <2>1, <3>1
  <2> HIDE DEF QuitSent
  <2> QED
    BY <2>1, <2>2, Ranges DEF Turn
<1>6. CASE MainJoinStat
  <2>1. /\ main \in {"joinStats", "report"} /\ main' \in {"joinStats", "report"}
        /\ UNCHANGED <<statT, sq, control>>
    BY <1>6, Moves DEF Turn, MainJoinStat, OnlyMain, statVars, bufferVars, netVars
  <2> QED
    BY <2>1
<1>7. ASSUME NEW j \in Indices, StatPop(j)
      PROVE  SaidSoFar'
  <2>1. /\ UNCHANGED <<main, i, control>>
        /\ \A l \in Indices : QuitSent(l)' => QuitSent(l)
    <3>1. /\ sq' = [sq EXCEPT ![pats_buffs[j]] = Tail(@)]
          /\ sq[pats_buffs[j]] # <<>>
          /\ UNCHANGED <<main, i, control>>
          /\ \E point \in {"update", "done"} : statT' = [statT EXCEPT ![j] = point]
          /\ statT'[j] = "done" => Head(sq[pats_buffs[j]]) = Quit
      BY <1>0, <1>7 DEF StatPop, mainVars, netVars
    <3>2. ASSUME NEW l \in Indices, QuitSent(l)' PROVE QuitSent(l)
      <4>1. CASE l = j
        BY <1>0, <3>1, <3>2, <4>1, Tables
      <4>2. CASE l # j
        BY <1>0, <3>1, <3>2, <4>2, Tables
      <4> QED
        BY <4>1, <4>2
    <3> QED
      BY <3>1, <3>2
  <2> HIDE DEF QuitSent
  <2> QED
    BY <2>1
<1>8. ASSUME NEW j \in Indices, StatUpdate(j)
      PROVE  SaidSoFar'
  BY <1>0, <1>8 DEF StatUpdate, StatUpdates, mainVars, bufferVars, netVars
<1>9. ASSUME NEW k \in Workers, WorkerStore(k)
      PROVE  SaidSoFar'
  <2>1. /\ UNCHANGED <<main, i, control, statT>>
        /\ request[k] \in Patients /\ response[k] # Quit
        /\ response[k] \in Readings
        /\ sq' = [sq EXCEPT ![request[k]] = Append(@, response[k])]
    BY <1>9, ReadingFacts DEF WorkerStore, WorkerAt, BufferOf, Typed, Locals,
       mainVars, statVars, netVars
  <2>2. \A l \in Indices : QuitSent(l)' => QuitSent(l)
    BY <1>0, <2>1, Tables
  <2> HIDE DEF QuitSent
  <2> QED
    BY <2>1, <2>2
<1> HIDE DEF SaidSoFar
<1> QED
  BY <1>1, <1>2, <1>3, <1>4, <1>5, <1>6, <1>7, <1>8, <1>9, Steps
  DEF vars, mainVars, statVars, bufferVars, netVars, Dies, Ends,
      RequestPush, RequestPushes, RequestExit, QuitPush, QuitExit, WorkerPop,
      WorkerPops, WorkerWrite, WorkerWrites, WorkerRead, ServerAnswer,
      ServerCloses, ServerStops

(***************************************************************************)
(* A thread that pushes ends when its counter is full, and the process has *)
(* reported when main() is at its end (client.cpp:73-101, 425-437).        *)
(***************************************************************************)
LEMMA CountedStep ==
  Typed /\ Unborn /\ CountedSoFar /\ [Next]_vars => CountedSoFar'
<1> SUFFICES ASSUME Typed, Unborn, CountedSoFar, [Next]_vars
             PROVE  CountedSoFar'
  OBVIOUS
<1>0. /\ reqT \in [Indices -> ThreadStates] /\ sent \in [Indices -> 0..N]
      /\ quits \in Nat
  BY WAssumption DEF Typed, TypeOK
<1> USE DEF CountedSoFar
<1>1. CASE UNCHANGED <<proc, main, reqT, sent, quitT, quits>>
  BY <1>1
<1>2. CASE Dies
  BY <1>2
  DEF Dies, Ends, Running, mainVars, makerVars
<1>3. CASE MainConnect \/ MainSpawnStat \/ MainSpawnWorker
             \/ (MainSpawnWorkerFails /\ ~RmvBuilt) \/ MainJoinRequest
             \/ MainJoinQuit \/ MainJoinWorker \/ MainKillServer
             \/ MainPushStatQuit \/ MainJoinStat
  <2>1. main # "end" /\ main' # "end"
    BY <1>3, Moves DEF Turn, Goes
  <2>2. UNCHANGED <<proc, reqT, sent, quitT, quits>>
    BY <1>3
    DEF MainConnect, MainSpawnStat, MainSpawnWorker, MainSpawnWorkerFails,
        MainJoinRequest, MainJoinQuit, MainJoinWorker, JoinsWorkers,
        MainKillServer, MainPushStatQuit, MainJoinStat, OnlyMain, makerVars
  <2> QED
    BY <2>1, <2>2
<1>4. CASE MainSpawnRequest
  <2>1. main # "end" /\ main' # "end"
    BY <1>4, Moves DEF Turn
  <2>2. /\ UNCHANGED <<proc, sent, quitT, quits>>
        /\ \E state \in {"running", "failed"} : reqT' = [reqT EXCEPT ![i] = state]
    BY <1>4 DEF MainSpawnRequest, Creates
  <2> QED
    BY <1>0, <2>1, <2>2
<1>5. CASE MainSpawnQuit
  <2>1. main # "end" /\ main' # "end" /\ quitT = "unborn"
    BY <1>5, Moves
    DEF Goes, Unborn, AfterQuit, AfterWorkers, AfterKill, AfterQuitStats,
        AfterStats
  <2>2. /\ UNCHANGED <<proc, reqT, sent, quits>>
        /\ quitT' \in {"running", "failed"}
    BY <1>5 DEF MainSpawnQuit, Creates
  <2> QED
    BY <2>1, <2>2
<1>6. CASE MainReport
  BY <1>6 DEF MainReport, Goto, makerVars
<1>7. ASSUME NEW j \in Indices, RequestPush(j) \/ RequestExit(j)
      PROVE  CountedSoFar'
  BY <1>0, <1>7 DEF RequestPush, RequestPushes, RequestExit, mainVars
<1>8. CASE QuitPush \/ QuitExit
  BY <1>0, <1>8 DEF QuitPush, QuitExit, mainVars
<1> HIDE DEF CountedSoFar
<1>9. CASE UNCHANGED vars \/ ServerStops
  BY <1>1, <1>9 DEF vars, mainVars, makerVars, ServerStops
<1>10. ASSUME NEW j \in Indices, StatPop(j) \/ StatUpdate(j)
       PROVE  CountedSoFar'
  BY <1>1, <1>10 DEF StatPop, StatUpdate, StatUpdates, mainVars, makerVars
<1>11. ASSUME NEW k \in Workers,
              \/ WorkerPop(k) \/ WorkerWrite(k) \/ WorkerRead(k)
              \/ WorkerStore(k) \/ ServerAnswer(k) \/ ServerCloses(k)
       PROVE  CountedSoFar'
  BY <1>1, <1>11
  DEF WorkerPop, WorkerPops, WorkerWrite, WorkerWrites, WorkerRead, WorkerStore,
      ServerAnswer, ServerCloses, mainVars, makerVars
<1> QED
  BY <1>2, <1>3, <1>4, <1>5, <1>6, <1>7, <1>8, <1>9, <1>10, <1>11, Steps

-----------------------------------------------------------------------------
(***************************************************************************)
(* Appending to a buffer and removing its first element.                   *)
(***************************************************************************)
LEMMA AppendedTo ==
  ASSUME NEW S, NEW s \in Seq(S), NEW e \in S
  PROVE  /\ DOMAIN Append(s, e) = DOMAIN s \cup {Len(s) + 1}
         /\ DOMAIN s \subseteq Int /\ \A x \in DOMAIN s : x <= Len(s)
         /\ Append(s, e)[Len(s) + 1] = e
         /\ \A x \in DOMAIN s : Append(s, e)[x] = s[x]
OBVIOUS

\* What is in a buffer after a pop.
LEMMA RemovedFrom ==
  ASSUME NEW S, NEW s \in Seq(S), s # <<>>
  PROVE  /\ 1 \in DOMAIN s /\ Head(s) = s[1] /\ DOMAIN Tail(s) \subseteq Int
         /\ \A x \in DOMAIN Tail(s) : /\ x + 1 \in DOMAIN s /\ 1 < x + 1
                                      /\ Tail(s)[x] = s[x + 1]
OBVIOUS

(***************************************************************************)
(* The quit thread is created when the request threads have been joined:   *)
(* while one of them pushes there is no quit in the buffer.                *)
(***************************************************************************)
LEMMA NoQuitYet ==
  ASSUME Typed, Unborn, JoinedSoFar, CountedSoFar,
         \E j \in Indices : reqT[j] = "running"
  PROVE  quits = 0 /\ quitT # "running"
BY DEF Typed, TypeOK, Unborn, JoinedSoFar, CountedSoFar, Joined, ThreadStates,
       AfterRequests

\* Nothing is pushed behind a quit but quits.
LEMMA InOrderStep ==
  /\ Typed /\ Unborn /\ JoinedSoFar /\ CountedSoFar /\ QuitsInOrder /\ [Next]_vars
  => QuitsInOrder'
<1> SUFFICES ASSUME Typed, Unborn, JoinedSoFar, CountedSoFar, QuitsInOrder,
                    [Next]_vars
             PROVE  QuitsInOrder'
  OBVIOUS
<1>0. rq \in Seq(Patients \cup {Quit}) /\ quits \in Nat
  BY WAssumption DEF Typed, TypeOK
<1>1. CASE UNCHANGED <<quits, rq>>
  BY <1>1 DEF QuitsInOrder
<1>2. ASSUME NEW j \in Indices, RequestPush(j)
      PROVE  QuitsInOrder'
  <2>1. /\ rq' = Append(rq, patients[j]) /\ UNCHANGED quits /\ quits = 0
        /\ patients[j] \in Patients \cup {Quit} /\ patients[j] # Quit
    BY <1>2, NoQuitYet, Tables, QuitAssumption DEF RequestPush, RequestPushes
  <2> QED
    BY <1>0, <2>1, AppendedTo DEF QuitsInOrder
<1>3. CASE QuitPush
  <2>1. rq' = Append(rq, Quit) /\ quits' = quits + 1
    BY <1>3 DEF QuitPush
  <2> QED
    BY <1>0, <2>1, AppendedTo DEF QuitsInOrder
<1>4. ASSUME NEW k \in Workers, WorkerPop(k)
      PROVE  QuitsInOrder'
  <2>1. rq # <<>> /\ rq' = Tail(rq) /\ UNCHANGED quits
    BY <1>4 DEF WorkerPop, WorkerPops, makerVars
  <2> QED
    BY <1>0, <2>1, RemovedFrom DEF QuitsInOrder
<1> QED
  BY <1>1, <1>2, <1>3, <1>4, Steps
  DEF vars, makerVars, bufferVars, OnlyMain, Dies, Ends,
      MainConnect, MainSpawnRequest, MainSpawnStat, MainSpawnWorker,
      MainSpawnWorkerFails, MainJoinRequest, MainSpawnQuit, MainJoinQuit,
      MainJoinWorker, JoinsWorkers, MainKillServer, MainPushStatQuit,
      MainJoinStat, MainReport, RequestExit, QuitExit, StatPop, StatUpdate,
      StatUpdates, WorkerWrite, WorkerWrites, WorkerRead, WorkerStore,
      ServerAnswer, ServerCloses, ServerStops

\* So the invariants give the property that the quits come last.
LEMMA InOrder ==
  Typed /\ JoinedSoFar /\ Unborn /\ CountedSoFar /\ QuitsInOrder => QuitsComeLast
<1> SUFFICES ASSUME Typed, JoinedSoFar, Unborn, CountedSoFar, QuitsInOrder,
                    quits > 0, NEW j \in Indices
             PROVE  reqT[j] \in {"done", "failed"}
  BY DEF QuitsComeLast, QuitsInOrder
<1>1. quitT \in {"running", "done"}
  BY WAssumption DEF Typed, TypeOK, CountedSoFar, ThreadStates
<1> QED
  BY <1>1 DEF Unborn, JoinedSoFar, Joined, AfterRequests

(***************************************************************************)
(* The first quit a worker takes was the head of the buffer, and what is   *)
(* behind a quit is quits (client.cpp:121-125).                            *)
(***************************************************************************)
LEMMA StopLastStep ==
  /\ Typed /\ Unborn /\ JoinedSoFar /\ CountedSoFar /\ QuitsInOrder
  /\ WorkersStopLast /\ [Next]_vars
  => WorkersStopLast'
<1> SUFFICES ASSUME Typed, Unborn, JoinedSoFar, CountedSoFar, QuitsInOrder,
                    WorkersStopLast, [Next]_vars
             PROVE  WorkersStopLast'
  OBVIOUS
<1>0. /\ rq \in Seq(Patients \cup {Quit})
      /\ reqT \in [Indices -> ThreadStates]
      /\ worker \in [Workers -> WorkerPoints]
      /\ request \in [Workers -> Patients \cup {Quit}]
  BY DEF Typed, TypeOK
<1>1. CASE UNCHANGED <<reqT, worker, request, rq>>
  BY <1>1 DEF WorkersStopLast
<1>2. CASE MainSpawnRequest
  <2>1. /\ UNCHANGED <<worker, request, rq>>
        /\ \A k \in Workers : worker[k] = "unborn"
    BY <1>2, Moves
    DEF Turn, Unborn, MainSpawnRequest, workerVars, bufferVars
  <2> QED
    BY <2>1 DEF WorkersStopLast
<1>3. CASE MainSpawnWorker
  BY <1>0, <1>3
  DEF MainSpawnWorker, makerVars, bufferVars, WorkersStopLast
<1>4. CASE MainSpawnWorkerFails /\ ~RmvBuilt
  BY <1>0, <1>4
  DEF MainSpawnWorkerFails, makerVars, bufferVars, WorkersStopLast
<1>5. ASSUME NEW j \in Indices, RequestPush(j)
      PROVE  WorkersStopLast'
  <2>1. ~ \E k \in Workers :
            worker[k] \in {"write", "done"} /\ request[k] = Quit
    BY <1>5 DEF WorkersStopLast, RequestPush, RequestPushes
  <2> QED
    BY <1>5, <2>1 DEF WorkersStopLast, RequestPush, RequestPushes, workerVars
<1>6. ASSUME NEW j \in Indices, RequestExit(j)
      PROVE  WorkersStopLast'
  BY <1>0, <1>6
  DEF RequestExit, WorkersStopLast, workerVars, bufferVars
<1>7. CASE QuitPush
  <2>1. rq' = Append(rq, Quit) /\ UNCHANGED <<reqT, worker, request>>
    BY <1>7 DEF QuitPush, workerVars
  <2> QED
    BY <1>0, <2>1, AppendedTo DEF WorkersStopLast
<1>8. ASSUME NEW k \in Workers, WorkerPop(k)
      PROVE  WorkersStopLast'
  <2>1. /\ rq # <<>> /\ rq' = Tail(rq) /\ UNCHANGED reqT
        /\ worker' = [worker EXCEPT ![k] = "write"]
        /\ request' = [request EXCEPT ![k] = rq[1]]
    BY <1>0, <1>8, RemovedFrom DEF WorkerPop, WorkerPops, makerVars
  <2>2. CASE rq[1] = Quit
    <3>1. /\ \A x \in DOMAIN Tail(rq) : Tail(rq)[x] = Quit
          /\ quits > 0
      BY <1>0, <2>1, <2>2, RemovedFrom, WAssumption
      DEF QuitsInOrder, Typed, TypeOK
    <3>2. \A j \in Indices : reqT[j] \in {"done", "failed"}
      BY <3>1, InOrder DEF QuitsComeLast
    <3> QED
      BY <2>1, <3>1, <3>2 DEF WorkersStopLast
  <2>3. CASE rq[1] # Quit
    <3>1. ~ \E l \in Workers :
              worker[l] \in {"write", "done"} /\ request[l] = Quit
      BY <1>0, <2>1, <2>3, RemovedFrom DEF WorkersStopLast
    <3> QED
      BY <1>0, <2>1, <2>3, <3>1 DEF WorkersStopLast
  <2> QED
    BY <2>2, <2>3
<1>9. ASSUME NEW k \in Workers, WorkerWrite(k) \/ WorkerRead(k) \/ WorkerStore(k)
      PROVE  WorkersStopLast'
  BY <1>0, <1>9
  DEF WorkersStopLast, WorkerWrite, WorkerWrites, WorkerRead, WorkerStore,
      WorkerAt, makerVars, bufferVars
<1> QED
  BY <1>1, <1>2, <1>3, <1>4, <1>5, <1>6, <1>7, <1>8, <1>9, Steps
  DEF vars, makerVars, workerVars, bufferVars, OnlyMain, Dies, Ends,
      MainConnect, MainSpawnStat, MainJoinRequest, MainSpawnQuit,
      MainJoinQuit, MainJoinWorker, JoinsWorkers, MainKillServer,
      MainPushStatQuit, MainJoinStat, MainReport, QuitExit, StatPop, StatUpdate,
      StatUpdates, ServerAnswer, ServerCloses, ServerStops

-----------------------------------------------------------------------------
(***************************************************************************)
(* A worker has one message on its connection while it waits for an        *)
(* answer, and none while it does something else (client.cpp:121-143).     *)
(***************************************************************************)
LEMMA LinesStep == Typed /\ Unborn /\ Lines /\ [Next]_vars => Lines'
<1> SUFFICES ASSUME Typed, Unborn, Lines, [Next]_vars
             PROVE  Lines'
  OBVIOUS
<1>0. /\ worker \in [Workers -> WorkerPoints]
      /\ request \in [Workers -> Patients \cup {Quit}]
      /\ up \in [Workers -> Seq(Patients \cup {"!"})]
      /\ down \in [Workers -> Seq(Readings)]
      /\ \A v : Append(<<>>, v) = <<v>> /\ Tail(<<v>>) = <<>> /\ Head(<<v>>) = v
  BY DEF Typed, TypeOK
<1>1. CASE UNCHANGED <<worker, request, up, down>>
  BY <1>1 DEF Lines
<1>2. CASE MainSpawnWorker \/ (MainSpawnWorkerFails /\ ~RmvBuilt)
  <2>1. main = "workers" /\ i \in Workers /\ i \in Nat
    BY <1>2 DEF MainSpawnWorker, MainSpawnWorkerFails, MainAt, Typed, Counter
  <2>2. worker[i] = "unborn"
    BY <2>1 DEF Unborn
  <2>3. /\ UNCHANGED <<request, up, down>>
        /\ \E point \in {"pop", "failed"} : worker' = [worker EXCEPT ![i] = point]
    BY <1>2 DEF MainSpawnWorker, MainSpawnWorkerFails, netVars
  <2> QED
    BY <1>0, <2>1, <2>2, <2>3 DEF Lines
<1>3. ASSUME NEW k \in Workers, WorkerPop(k)
      PROVE  Lines'
  BY <1>0, <1>3 DEF Lines, WorkerPop, WorkerPops, WorkerAt, netVars
<1>4. ASSUME NEW k \in Workers, WorkerWrite(k)
      PROVE  Lines'
  <2>1. /\ up[k] = <<>> /\ down[k] = <<>> /\ UNCHANGED <<request, down>>
        /\ up' = [up EXCEPT ![k] = IF request[k] = Quit THEN <<"!">>
                                   ELSE <<request[k]>>]
        /\ worker' = [worker EXCEPT ![k] = IF request[k] = Quit THEN "done"
                                           ELSE "read"]
    BY <1>0, <1>4 DEF Lines, WorkerWrite, WorkerWrites, WorkerAt
  <2> QED
    BY <1>0, <2>1 DEF Lines
<1>5. ASSUME NEW k \in Workers, WorkerRead(k)
      PROVE  Lines'
  <2>1. /\ up[k] = <<>> /\ down' = [down EXCEPT ![k] = <<>>]
        /\ worker' = [worker EXCEPT ![k] = "store"]
        /\ UNCHANGED <<request, up>>
    BY <1>0, <1>5 DEF Lines, WorkerRead, WorkerAt
  <2> QED
    BY <1>0, <2>1 DEF Lines
<1>6. ASSUME NEW k \in Workers, WorkerStore(k)
      PROVE  Lines'
  BY <1>0, <1>6 DEF Lines, WorkerStore, WorkerAt, netVars
<1>7. ASSUME NEW k \in Workers, ServerAnswer(k)
      PROVE  Lines'
  <2>1. PICK v \in Readings : down' = [down EXCEPT ![k] = Append(@, v)]
    BY <1>7 DEF ServerAnswer
  <2>2. /\ worker[k] = "read" /\ up[k] = <<request[k]>> /\ down[k] = <<>>
        /\ up' = [up EXCEPT ![k] = Tail(@)]
        /\ UNCHANGED <<worker, request>>
    BY <1>0, <1>7 DEF Lines, ServerAnswer, workerVars, Patients
  <2>3. up'[k] = <<>> /\ down'[k] = <<v>>
    BY <1>0, <2>1, <2>2
  <2> QED
    BY <1>0, <2>1, <2>2, <2>3 DEF Lines
<1>8. ASSUME NEW k \in Workers, ServerCloses(k)
      PROVE  Lines'
  <2>1. /\ up[k] = <<"!">> /\ worker[k] = "done"
        /\ up' = [up EXCEPT ![k] = <<>>]
        /\ UNCHANGED <<worker, request, down>>
    BY <1>0, <1>8
    DEF Lines, ServerCloses, workerVars, Patients, Typed, Locals
  <2> QED
    BY <1>0, <2>1 DEF Lines
<1> QED
  BY <1>1, <1>2, <1>3, <1>4, <1>5, <1>6, <1>7, <1>8, Steps
  DEF vars, workerVars, netVars, OnlyMain, Dies, Ends, MainConnect,
      MainSpawnRequest, MainSpawnStat, MainJoinRequest, MainSpawnQuit,
      MainJoinQuit, MainJoinWorker, JoinsWorkers, MainKillServer,
      MainPushStatQuit, MainJoinStat, MainReport, RequestPush, RequestPushes,
      RequestExit, QuitPush, QuitExit, StatPop, StatUpdate, StatUpdates,
      ServerStops

-----------------------------------------------------------------------------
(***************************************************************************)
(* A call of pthread_create that fails leaves its mark in failures.        *)
(***************************************************************************)
LEMMA NoneFailedStep == Typed /\ NoneFailed /\ [Next]_vars => NoneFailed'
<1> SUFFICES ASSUME Typed, NoneFailed, [Next]_vars
             PROVE  NoneFailed'
  OBVIOUS
<1>0. /\ reqT \in [Indices -> ThreadStates]
      /\ statT \in [Indices -> StatPoints]
      /\ worker \in [Workers -> WorkerPoints]
      /\ failures \in Nat
  BY FaultAssumption DEF Typed, TypeOK
<1> USE DEF NoneFailed
<1>1. CASE UNCHANGED <<failures, no_error, quitT, reqT, statT, worker>>
  BY <1>1
<1>2. CASE MainSpawnRequest
  BY <1>0, <1>2 DEF MainSpawnRequest, Creates, workerVars, statVars
<1>3. CASE MainSpawnStat
  BY <1>0, <1>3 DEF MainSpawnStat, Creates, makerVars, workerVars
<1>4. CASE MainSpawnQuit
  BY <1>0, <1>4 DEF MainSpawnQuit, Creates, workerVars, statVars
<1>5. CASE MainSpawnWorker \/ (MainSpawnWorkerFails /\ ~RmvBuilt)
  BY <1>0, <1>5
  DEF MainSpawnWorker, MainSpawnWorkerFails, makerVars, statVars
<1>6. ASSUME NEW j \in Indices,
             RequestExit(j) \/ StatPop(j) \/ StatUpdate(j)
      PROVE  NoneFailed'
  BY <1>0, <1>6
  DEF RequestExit, StatPop, StatUpdate, StatUpdates, mainVars, makerVars,
      workerVars, statVars
<1>7. ASSUME NEW k \in Workers,
             WorkerPop(k) \/ WorkerWrite(k) \/ WorkerRead(k) \/ WorkerStore(k)
      PROVE  NoneFailed'
  BY <1>0, <1>7
  DEF WorkerPop, WorkerPops, WorkerWrite, WorkerWrites, WorkerRead, WorkerStore,
      mainVars, makerVars, statVars
<1>8. CASE QuitExit
  BY <1>8 DEF QuitExit, mainVars, workerVars, statVars
<1> HIDE DEF NoneFailed
<1> QED
  BY <1>1, <1>2, <1>3, <1>4, <1>5, <1>6, <1>7, <1>8, Steps
  DEF vars, mainVars, makerVars, workerVars, statVars, OnlyMain, Dies, Ends,
      MainConnect, MainJoinRequest, MainJoinQuit, MainJoinWorker, JoinsWorkers,
      MainKillServer, MainPushStatQuit, MainJoinStat, MainReport, RequestPush,
      RequestPushes, QuitPush, ServerAnswer, ServerCloses, ServerStops

-----------------------------------------------------------------------------
(***************************************************************************)
(* The inductive invariant of the shutdown.                                *)
(***************************************************************************)
Orderly ==
  /\ Typed /\ Unborn /\ JoinedSoFar /\ SaidSoFar /\ CountedSoFar
  /\ QuitsInOrder /\ WorkersStopLast /\ Lines /\ NoneFailed

\* It is inductive.
LEMMA OrderlyAlways == Spec => []Orderly
<1>1. Init => Unborn /\ JoinedSoFar /\ SaidSoFar /\ CountedSoFar
  BY Tables
  DEF Init, Unborn, JoinedSoFar, SaidSoFar, QuitSent, CountedSoFar,
      AfterRequests, AfterQuit, AfterWorkers, AfterKill, AfterQuitStats,
      AfterStats
<1>2. Init => QuitsInOrder /\ WorkersStopLast /\ Lines /\ NoneFailed
  BY DEF Init, QuitsInOrder, WorkersStopLast, Lines, NoneFailed
<1>3. Orderly /\ [Next]_vars => Orderly'
  BY TypedStep, UnbornStep, JoinedStep, SaidStep, CountedStep, InOrderStep,
     StopLastStep, LinesStep, NoneFailedStep DEF Orderly
<1>4. Init /\ Typed => Orderly
  BY <1>1, <1>2 DEF Orderly
<1> QED
  BY <1>3, <1>4, TypedAlways, PTL DEF Spec

(***************************************************************************)
(* No data request is ever behind a quit in the request buffer, nor still  *)
(* to be pushed once a quit has been, whatever fails (client.cpp:125).     *)
(***************************************************************************)
THEOREM QuitsLast == Spec => []QuitsComeLast
<1>1. Orderly => QuitsComeLast
  BY InOrder DEF Orderly
<1> QED
  BY <1>1, OrderlyAlways, PTL

(***************************************************************************)
(* A worker terminates only when all the requests have been taken,         *)
(* whatever fails (client.cpp:107).                                        *)
(***************************************************************************)
THEOREM WorkersLast == Spec => []WorkersStopLast
BY OrderlyAlways, PTL DEF Orderly

(***************************************************************************)
(* The quits of the stat threads come when no worker stores any more, and  *)
(* "!!" when no answer is under way, unless main() has skipped its joins   *)
(* (client.cpp:165, 392-414; pa7/reqchannel.cpp:56).                       *)
(***************************************************************************)
LEMMA WorkersDone ==
  ASSUME Orderly, no_error, main \in AfterWorkers, NEW k \in Workers
  PROVE  /\ worker[k] \in {"failed", "done"}
         /\ down[k] = <<>>
         /\ up[k] \in {<<>>, <<"!">>}
BY DEF Orderly, JoinedSoFar, Joined, Lines

\* The quits of the stat threads are pushed after the joins of the workers.
LEMMA StatQuitsLast == Orderly /\ no_error => StatQuitsAfterWorkers
<1> SUFFICES ASSUME Orderly, no_error, NEW j \in Indices, QuitSent(j)
             PROVE  main \in AfterWorkers
  BY WorkersDone DEF StatQuitsAfterWorkers, QuitSent
<1> QED
  BY DEF Orderly, SaidSoFar, AfterWorkers, AfterKill

\* So is "!!" sent after them.
LEMMA KillLast == Orderly /\ no_error => KillAfterWorkers
<1> SUFFICES ASSUME Orderly, no_error, control = "!!"
             PROVE  KillAfterWorkers
  BY DEF KillAfterWorkers
<1>1. main \in AfterWorkers
  BY DEF Orderly, SaidSoFar, AfterWorkers
<1>2. \A x \in DOMAIN <<"!">> : <<"!">>[x] = "!"
  OBVIOUS
<1> QED
  BY <1>1, <1>2, WorkersDone DEF KillAfterWorkers

(***************************************************************************)
(* Whatever fails, the quits come last; the last two properties hold       *)
(* unless main() has left its joins out, which no_error remembers          *)
(* (client.cpp:359, 394, 401).                                             *)
(***************************************************************************)
THEOREM OrderlyShutdown == Spec => []OrderlyUnlessSkipped
<1>1. Orderly => OrderlyUnlessSkipped
  BY InOrder, StatQuitsLast, KillLast DEF OrderlyUnlessSkipped, Orderly
<1> QED
  BY <1>1, OrderlyAlways, PTL

(***************************************************************************)
(* So, when no call of pthread_create fails, the shutdown is in order.     *)
(***************************************************************************)
THEOREM StatQuitsAfter == Spec => [](failures = 0 => StatQuitsAfterWorkers)
<1>1. Orderly => (failures = 0 => StatQuitsAfterWorkers)
  BY StatQuitsLast DEF Orderly, NoneFailed
<1> QED
  BY <1>1, OrderlyAlways, PTL

\* "!!" is sent when no worker of this client waits for an answer.
THEOREM KillAfter == Spec => [](failures = 0 => KillAfterWorkers)
<1>1. Orderly => (failures = 0 => KillAfterWorkers)
  BY KillLast DEF Orderly, NoneFailed
<1> QED
  BY <1>1, OrderlyAlways, PTL
=============================================================================

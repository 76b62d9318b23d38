---------------------------- MODULE ClientCounting ----------------------------
(***************************************************************************)
(* Theorems about Client: every request and every answer is in one place   *)
(* until it is counted, so the report is exact; and Client implements      *)
(* Survey and Connection.                                                  *)
(***************************************************************************)
EXTENDS ClientProofs, FiniteSetTheorems

-----------------------------------------------------------------------------
(***************************************************************************)
(* Counting in a buffer and in a set.                                      *)
(***************************************************************************)
Positions(s, T) == {x \in DOMAIN s : s[x] \in T}

\* There are finitely many places in a buffer.
LEMMA PositionsFinite ==
  ASSUME NEW S, NEW s \in Seq(S), NEW T
  PROVE  /\ IsFiniteSet(Positions(s, T))
         /\ Cardinality(Positions(s, T)) \in Nat
<1>1. IsFiniteSet(1..Len(s)) /\ Positions(s, T) \subseteq 1..Len(s)
  BY FS_Interval DEF Positions
<1> QED
  BY <1>1, FS_Subset, FS_CardinalityType

\* A push adds one if it pushes an element that counts.
LEMMA CountAppended ==
  ASSUME NEW S, NEW s \in Seq(S), NEW e \in S, NEW T
  PROVE  Cardinality(Positions(Append(s, e), T))
           = Cardinality(Positions(s, T)) + (IF e \in T THEN 1 ELSE 0)
<1> DEFINE n == Len(s) + 1
<1>1. n \notin Positions(s, T)
  BY DEF Positions
<1>2. Positions(Append(s, e), T)
        = IF e \in T THEN Positions(s, T) \cup {n} ELSE Positions(s, T)
  BY AppendedTo DEF Positions
<1>3. IsFiniteSet(Positions(s, T)) /\ Cardinality(Positions(s, T)) \in Nat
  BY PositionsFinite
<1>4. Cardinality(Positions(s, T) \cup {n}) = Cardinality(Positions(s, T)) + 1
  BY <1>1, <1>3, FS_AddElement
<1> QED
  BY <1>2, <1>3, <1>4

\* A pop takes one away if it takes an element that counts.
LEMMA CountRemoved ==
  ASSUME NEW S, NEW s \in Seq(S), s # <<>>, NEW T
  PROVE  Cardinality(Positions(s, T))
           = Cardinality(Positions(Tail(s), T)) + (IF Head(s) \in T THEN 1 ELSE 0)
<1> DEFINE Rest == Positions(Tail(s), T)
           Behind == Positions(s, T) \ {1}
           next == [x \in Rest |-> x + 1]
<1>1. Tail(s) \in Seq(S) /\ Len(Tail(s)) = Len(s) - 1 /\ Len(s) \in Nat
  OBVIOUS
<1>2. next \in Bijection(Rest, Behind)
  <2>1. \A x \in Rest : x \in Int /\ x + 1 \in Behind
    BY <1>1, RemovedFrom DEF Positions
  <2>2. \A y \in Behind : y - 1 \in Rest /\ y \in Int
    BY <1>1 DEF Positions
  <2> QED
    BY <2>1, <2>2 DEF Bijection, Injection, Surjection, IsInjective
<1>3. IsFiniteSet(Rest) /\ IsFiniteSet(Positions(s, T))
  BY <1>1, PositionsFinite
<1>4. Cardinality(Behind) = Cardinality(Rest)
  BY <1>2, <1>3, FS_Bijection DEF ExistsBijection
<1>5. 1 \in Positions(s, T) <=> Head(s) \in T
  BY RemovedFrom DEF Positions
<1>6. Cardinality(Positions(s, T)) \in Nat
  BY PositionsFinite
<1>7. Cardinality(Behind) = IF Head(s) \in T
                            THEN Cardinality(Positions(s, T)) - 1
                            ELSE Cardinality(Positions(s, T))
  BY <1>3, <1>5, FS_RemoveElement
<1>8. Cardinality(Positions(s, T))
        = Cardinality(Rest) + (IF Head(s) \in T THEN 1 ELSE 0)
  <2> HIDE DEF Rest, Behind
  <2> QED
    BY <1>4, <1>6, <1>7
<1> QED
  BY <1>8

(***************************************************************************)
(* One more response in a bin is one more in the row.                      *)
(***************************************************************************)
LEMMA TotalUp ==
  ASSUME NEW row \in [Bins -> Nat], NEW b \in Bins
  PROVE  /\ Total(row) \in Nat
         /\ Total([row EXCEPT ![b] = @ + 1]) = Total(row) + 1
<1>1. Bins = {0, 1, 2, 3, 4, 5, 6, 7, 8, 9}
  BY DEF Bins
<1>2. \A c \in Bins : row[c] \in Nat
  OBVIOUS
<1> QED
  BY <1>1, <1>2 DEF Total

-----------------------------------------------------------------------------
(***************************************************************************)
(* What a push and a pop of a buffer do to the counts of the properties.   *)
(***************************************************************************)
InBin(b) == {v \in Readings : BinOf(v) = b}

\* The properties count in the buffers by position.
LEMMA Places ==
  /\ \A s \in Seq(Patients \cup {Quit}), p \in Patients :
       {x \in DOMAIN s : s[x] = p} = Positions(s, {p})
  /\ \A s \in Seq(Readings \cup {Quit}) :
       /\ {x \in DOMAIN s : s[x] # Quit} = Positions(s, Readings)
       /\ \A b \in Bins : {x \in DOMAIN s : s[x] # Quit /\ BinOf(s[x]) = b}
                            = Positions(s, InBin(b))
<1>1. ASSUME NEW s \in Seq(Readings \cup {Quit})
      PROVE  \A x \in DOMAIN s : s[x] # Quit <=> s[x] \in Readings
  BY ReadingFacts
<1> QED
  BY <1>1 DEF Positions, InBin

\* So each of their counts is the number of such positions.
LEMMA RequestsCounted ==
  ASSUME Typed, NEW p \in Patients
  PROVE  /\ Queued(p) = Cardinality(Positions(rq, {p}))
         /\ Stored(p) = Cardinality(Positions(sq[p], Readings))
         /\ \A b \in Bins :
              AnswersStored(p, b) = Cardinality(Positions(sq[p], InBin(b)))
<1>1. /\ rq \in Seq(Patients \cup {Quit})
      /\ sq[p] \in Seq(Readings \cup {Quit})
  BY DEF Typed, TypeOK
<1> QED
  BY <1>1, Places DEF Queued, Stored, AnswersStored, CountIn

\* A push to the request buffer.
LEMMA QueueUp ==
  ASSUME Typed, NEW e \in Patients \cup {Quit}, rq' = Append(rq, e),
         NEW p \in Patients
  PROVE  Queued(p)' = Queued(p) + (IF e = p THEN 1 ELSE 0)
<1>1. rq \in Seq(Patients \cup {Quit}) /\ rq' \in Seq(Patients \cup {Quit})
  BY DEF Typed, TypeOK
<1>2. Queued(p)' = Cardinality(Positions(rq', {p}))
  BY <1>1, Places DEF Queued, CountIn
<1> QED
  BY <1>1, <1>2, RequestsCounted, CountAppended

\* A pop from the request buffer.
LEMMA QueueDown ==
  ASSUME Typed, rq # <<>>, rq' = Tail(rq), NEW p \in Patients
  PROVE  Queued(p) = Queued(p)' + (IF Head(rq) = p THEN 1 ELSE 0)
<1>1. rq \in Seq(Patients \cup {Quit}) /\ rq' \in Seq(Patients \cup {Quit})
  BY DEF Typed, TypeOK
<1>2. Queued(p)' = Cardinality(Positions(rq', {p}))
  BY <1>1, Places DEF Queued, CountIn
<1> QED
  BY <1>1, <1>2, RequestsCounted, CountRemoved

\* A push to a response buffer, of a response or a quit.
LEMMA StoreUp ==
  ASSUME Typed, NEW q \in Patients, NEW e \in Readings \cup {Quit},
         sq' = [sq EXCEPT ![q] = Append(@, e)], NEW p \in Patients
  PROVE  /\ Stored(p)' = Stored(p) + (IF p = q /\ e # Quit THEN 1 ELSE 0)
         /\ \A b \in Bins :
              AnswersStored(p, b)' = AnswersStored(p, b)
                + (IF p = q /\ e # Quit /\ BinOf(e) = b THEN 1 ELSE 0)
<1>1. /\ sq[p] \in Seq(Readings \cup {Quit})
      /\ sq'[p] \in Seq(Readings \cup {Quit})
      /\ sq'[p] = IF p = q THEN Append(sq[p], e) ELSE sq[p]
  BY DEF Typed, TypeOK
<1>2. /\ Stored(p)' = Cardinality(Positions(sq'[p], Readings))
      /\ \A b \in Bins :
           AnswersStored(p, b)' = Cardinality(Positions(sq'[p], InBin(b)))
  BY <1>1, Places DEF Stored, AnswersStored, CountIn
<1>3. /\ Cardinality(Positions(sq[p], Readings)) \in Nat
      /\ \A b \in Bins : Cardinality(Positions(sq[p], InBin(b))) \in Nat
  BY <1>1, PositionsFinite
<1>4. /\ e \in Readings <=> e # Quit
      /\ \A b \in Bins : e \in InBin(b) <=> e # Quit /\ BinOf(e) = b
  BY ReadingFacts DEF InBin
<1>5. CASE p # q
  <2>1. sq'[p] = sq[p]
    BY <1>1, <1>5
  <2>2. /\ Stored(p)' = Stored(p) /\ Stored(p) \in Nat
        /\ \A b \in Bins : /\ AnswersStored(p, b)' = AnswersStored(p, b)
                          /\ AnswersStored(p, b) \in Nat
    BY <1>2, <1>3, <2>1, RequestsCounted
  <2> QED
    BY <1>5, <2>2
<1>6. CASE p = q
  <2>1. /\ Cardinality(Positions(sq'[p], Readings))
             = Cardinality(Positions(sq[p], Readings))
                 + (IF e \in Readings THEN 1 ELSE 0)
        /\ \A b \in Bins :
             Cardinality(Positions(sq'[p], InBin(b)))
               = Cardinality(Positions(sq[p], InBin(b)))
                   + (IF e \in InBin(b) THEN 1 ELSE 0)
    BY <1>1, <1>6, CountAppended
  <2> QED
    BY <1>2, <1>4, <1>6, <2>1, RequestsCounted
<1> QED
  BY <1>5, <1>6

\* A pop from a response buffer.
LEMMA StoreDown ==
  ASSUME Typed, NEW q \in Patients, sq[q] # <<>>,
         sq' = [sq EXCEPT ![q] = Tail(@)], NEW p \in Patients
  PROVE  LET e == Head(sq[q]) IN
         /\ Stored(p) = Stored(p)' + (IF p = q /\ e # Quit THEN 1 ELSE 0)
         /\ \A b \in Bins :
              AnswersStored(p, b) = AnswersStored(p, b)'
                + (IF p = q /\ e # Quit /\ BinOf(e) = b THEN 1 ELSE 0)
<1> DEFINE e == Head(sq[q])
<1>1. /\ sq[p] \in Seq(Readings \cup {Quit})
      /\ sq'[p] \in Seq(Readings \cup {Quit})
      /\ sq'[p] = IF p = q THEN Tail(sq[p]) ELSE sq[p]
      /\ e \in Readings \cup {Quit}
  BY DEF Typed, TypeOK
<1>2. /\ Stored(p)' = Cardinality(Positions(sq'[p], Readings))
      /\ \A b \in Bins :
           AnswersStored(p, b)' = Cardinality(Positions(sq'[p], InBin(b)))
  BY <1>1, Places DEF Stored, AnswersStored, CountIn
<1>3. /\ Cardinality(Positions(sq'[p], Readings)) \in Nat
      /\ \A b \in Bins : Cardinality(Positions(sq'[p], InBin(b))) \in Nat
  BY <1>1, PositionsFinite
<1>4. /\ e \in Readings <=> e # Quit
      /\ \A b \in Bins : e \in InBin(b) <=> e # Quit /\ BinOf(e) = b
  BY <1>1, ReadingFacts DEF InBin
<1>5. CASE p # q
  <2>1. sq'[p] = sq[p]
    BY <1>1, <1>5
  <2>2. /\ Stored(p)' = Stored(p) /\ Stored(p) \in Nat
        /\ \A b \in Bins : /\ AnswersStored(p, b)' = AnswersStored(p, b)
                          /\ AnswersStored(p, b) \in Nat
    BY <1>2, <1>3, <2>1, RequestsCounted
  <2> QED
    BY <1>5, <2>2
<1>6. CASE p = q
  <2>1. /\ Cardinality(Positions(sq[p], Readings))
             = Cardinality(Positions(sq'[p], Readings))
                 + (IF e \in Readings THEN 1 ELSE 0)
        /\ \A b \in Bins :
             Cardinality(Positions(sq[p], InBin(b)))
               = Cardinality(Positions(sq'[p], InBin(b)))
                   + (IF e \in InBin(b) THEN 1 ELSE 0)
    BY <1>1, <1>6, CountRemoved
  <2> QED
    BY <1>2, <1>4, <1>6, <2>1, RequestsCounted
<1> QED
  BY <1>5, <1>6

-----------------------------------------------------------------------------
(***************************************************************************)
(* The requests of patient p that were pushed.                             *)
(***************************************************************************)
Pushed(p) ==
  Queued(p) + AtWorkers(p) + Stored(p) + AtStat(p) + Total(hist[map[p]])

Holding(p) == {k \in Workers : /\ worker[k] \in {"write", "read", "store"}
                               /\ request[k] = p}
Updating(p) == {j \in Indices : pats_buffs[j] = p /\ statT[j] = "update"}

\* There are finitely many threads of each kind.
LEMMA FiniteThreads ==
  /\ \A S \in SUBSET Workers : IsFiniteSet(S) /\ Cardinality(S) \in Nat
  /\ \A S \in SUBSET Indices : IsFiniteSet(S) /\ Cardinality(S) \in Nat
<1>1. IsFiniteSet(Workers)
  <2>1. 1 \in Int /\ W \in Int
    BY Ranges
  <2> QED
    BY <2>1, FS_Interval DEF Workers
<1>2. IsFiniteSet(Indices)
  <2>1. 1 \in Int /\ NUM_PATIENTS \in Int
    BY Ranges
  <2> QED
    BY <2>1, FS_Interval DEF Indices
<1>3. ASSUME NEW D, IsFiniteSet(D), NEW S \in SUBSET D
      PROVE  IsFiniteSet(S) /\ Cardinality(S) \in Nat
  BY <1>3, FS_Subset, FS_CardinalityType
<1> QED
  BY <1>1, <1>2, <1>3

\* Each of the five counts is a number.
LEMMA PushedType ==
  ASSUME Typed, NEW p \in Patients
  PROVE  /\ Queued(p) \in Nat /\ AtWorkers(p) \in Nat
         /\ Stored(p) \in Nat /\ AtStat(p) \in Nat
         /\ Total(hist[map[p]]) \in Nat
<1>1. AtWorkers(p) \in Nat /\ AtStat(p) \in Nat
  BY FiniteThreads DEF AtWorkers, AtStat
<1>2. /\ rq \in Seq(Patients \cup {Quit})
      /\ sq[p] \in Seq(Readings \cup {Quit})
      /\ hist[map[p]] \in [Bins -> Nat]
  BY Tables DEF Typed, TypeOK
<1>3. Queued(p) \in Nat /\ Stored(p) \in Nat
  <2>1. /\ Cardinality(Positions(rq, {p})) \in Nat
        /\ Cardinality(Positions(sq[p], Readings)) \in Nat
    BY <1>2, PositionsFinite
  <2> QED
    BY <2>1, RequestsCounted
<1>4. 0 \in Bins
  BY DEF Bins
<1>5. Total(hist[map[p]]) \in Nat
  BY <1>2, <1>4, TotalUp
<1> QED
  BY <1>1, <1>3, <1>5

(***************************************************************************)
(* When only one thread moves, a count of threads changes by that thread.  *)
(***************************************************************************)
LEMMA OneMoves ==
  ASSUME NEW S, NEW T, IsFiniteSet(S), IsFiniteSet(T), NEW x,
         \A y : y # x => (y \in S <=> y \in T)
  PROVE  Cardinality(T) + (IF x \in S THEN 1 ELSE 0)
           = Cardinality(S) + (IF x \in T THEN 1 ELSE 0)
<1>0. Cardinality(S) \in Nat /\ Cardinality(T) \in Nat
  BY FS_CardinalityType
<1>1. CASE x \in S <=> x \in T
  <2>1. S = T
    BY <1>1
  <2> QED
    BY <1>0, <2>1
<1>2. CASE x \in S /\ x \notin T
  <2>1. S = T \cup {x}
    BY <1>2
  <2> QED
    BY <1>0, <1>2, <2>1, FS_AddElement
<1>3. CASE x \notin S /\ x \in T
  <2>1. T = S \cup {x}
    BY <1>3
  <2> QED
    BY <1>0, <1>3, <2>1, FS_AddElement
<1> QED
  BY <1>1, <1>2, <1>3

\* The requests at the workers, when worker k moves.
LEMMA WorkerMoves ==
  ASSUME NEW k \in Workers, NEW p \in Patients,
         \A l \in Workers \ {k} :
           worker'[l] = worker[l] /\ request'[l] = request[l]
  PROVE  AtWorkers(p)' + (IF k \in Holding(p) THEN 1 ELSE 0)
           = AtWorkers(p) + (IF k \in Holding(p)' THEN 1 ELSE 0)
<1> DEFINE Before == Holding(p)
           After == Holding(p)'
<1>1. /\ IsFiniteSet(Before) /\ IsFiniteSet(After)
      /\ AtWorkers(p) = Cardinality(Before)
      /\ AtWorkers(p)' = Cardinality(After)
  BY FiniteThreads DEF Holding, AtWorkers
<1>2. \A y : y # k => (y \in Before <=> y \in After)
  BY DEF Holding
<1> HIDE DEF Before, After
<1>3. Cardinality(After) + (IF k \in Before THEN 1 ELSE 0)
           = Cardinality(Before) + (IF k \in After THEN 1 ELSE 0)
  BY <1>1, <1>2, OneMoves
<1> QED
  BY <1>1, <1>3 DEF Before, After

\* The responses at the stat threads, when stat thread j moves.
LEMMA StatMoves ==
  ASSUME NEW j \in Indices, NEW p \in Patients,
         \A l \in Indices \ {j} : statT'[l] = statT[l]
  PROVE  AtStat(p)' + (IF j \in Updating(p) THEN 1 ELSE 0)
           = AtStat(p) + (IF j \in Updating(p)' THEN 1 ELSE 0)
<1> DEFINE Before == Updating(p)
           After == Updating(p)'
<1>1. /\ IsFiniteSet(Before) /\ IsFiniteSet(After)
      /\ AtStat(p) = Cardinality(Before)
      /\ AtStat(p)' = Cardinality(After)
  BY FiniteThreads DEF Updating, AtStat
<1>2. \A y : y # j => (y \in Before <=> y \in After)
  BY DEF Updating
<1> HIDE DEF Before, After
<1>3. Cardinality(After) + (IF j \in Before THEN 1 ELSE 0)
           = Cardinality(Before) + (IF j \in After THEN 1 ELSE 0)
  BY <1>1, <1>2, OneMoves
<1> QED
  BY <1>1, <1>3 DEF Before, After

-----------------------------------------------------------------------------
(***************************************************************************)
(* An update counts one response in the row of the patient whose buffer it *)
(* came from (client.cpp:168-178, Histogram::update).                      *)
(***************************************************************************)
LEMMA UpdateCounts ==
  ASSUME Orderly, NEW j \in Indices, StatUpdate(j), NEW p \in Patients
  PROVE  Total(hist'[map[p]])
           = Total(hist[map[p]]) + (IF p = pats_buffs[j] THEN 1 ELSE 0)
<1> DEFINE q == pats_buffs[j]
           b == BinOf(stat[j])
<1>1. Typed /\ hist \in [Rows -> [Bins -> Nat]]
  BY DEF Orderly, Typed, TypeOK
<1>2. /\ q \in Patients /\ b \in Bins
      /\ hist' = [hist EXCEPT ![map[q]][b] = @ + 1]
  BY <1>1, Tables, ReadingFacts DEF StatUpdate, StatUpdates, Typed, Locals
<1>3. /\ hist[map[p]] \in [Bins -> Nat] /\ map[p] \in Rows /\ map[q] \in Rows
      /\ map[p] = map[q] <=> p = q
  BY <1>1, <1>2, Tables
<1>4. Total(hist[map[p]]) \in Nat
  BY <1>1, PushedType
<1>5. CASE p = q
  <2>1. hist'[map[p]] = [hist[map[p]] EXCEPT ![b] = @ + 1]
    BY <1>1, <1>2, <1>3, <1>5
  <2> HIDE DEF b
  <2> QED
    BY <1>2, <1>3, <1>5, <2>1, TotalUp
<1>6. CASE p # q
  <2>1. hist'[map[p]] = hist[map[p]]
    BY <1>1, <1>2, <1>3, <1>6
  <2> QED
    BY <1>4, <1>6, <2>1
<1> QED
  BY <1>5, <1>6

(***************************************************************************)
(* Every step keeps the requests of a patient that were pushed in one      *)
(* place each, except the push of one (client.cpp:73-178).                 *)
(***************************************************************************)
LEMMA PushedStep ==
  ASSUME Orderly, [Next]_vars, NEW p \in Patients
  PROVE  \/ Pushed(p)' = Pushed(p) /\ UNCHANGED sent
         \/ \E j \in Indices :
              /\ sent[j] < N
              /\ sent' = [sent EXCEPT ![j] = @ + 1]
              /\ Pushed(p)' = Pushed(p) + (IF patients[j] = p THEN 1 ELSE 0)
<1> DEFINE Kept == Pushed(p)' = Pushed(p) /\ UNCHANGED sent
<1>0. /\ Typed /\ Unborn
      /\ statT \in [Indices -> StatPoints]
      /\ worker \in [Workers -> WorkerPoints]
      /\ request \in [Workers -> Patients \cup {Quit}]
      /\ hist \in [Rows -> [Bins -> Nat]]
      /\ Quit \notin Patients
  BY QuitAssumption DEF Orderly, Typed, TypeOK
<1>00. /\ Queued(p) \in Nat /\ AtWorkers(p) \in Nat
       /\ Stored(p) \in Nat /\ AtStat(p) \in Nat
       /\ Total(hist[map[p]]) \in Nat
  BY <1>0, PushedType
<1>1. CASE UNCHANGED <<rq, worker, request, sq, statT, hist, sent>>
  BY <1>1 DEF Pushed, Queued, AtWorkers, Stored, AtStat, CountIn
<1>2. CASE MainSpawnStat
  <2>1. /\ i \in Indices /\ statT[i] = "unborn"
        /\ \E point \in {"pop", "failed"} : statT' = [statT EXCEPT ![i] = point]
        /\ UNCHANGED <<rq, worker, request, sq, hist, sent>>
    BY <1>0, <1>2, Moves, Ranges
    DEF Turn, Unborn, MainSpawnStat, Creates, makerVars, workerVars, bufferVars
  <2>2. AtStat(p)' = AtStat(p)
    <3>1. Updating(p)' = Updating(p)
      BY <1>0, <2>1 DEF Updating
    <3> QED
      BY <3>1 DEF Updating, AtStat
  <2> QED
    BY <2>1, <2>2 DEF Pushed, Queued, AtWorkers, Stored, CountIn
<1>3. CASE MainSpawnWorker \/ (MainSpawnWorkerFails /\ ~RmvBuilt)
  <2>1. /\ i \in Workers /\ worker[i] = "unborn"
        /\ \E point \in {"pop", "failed"} : worker' = [worker EXCEPT ![i] = point]
        /\ UNCHANGED <<rq, request, sq, statT, hist, sent>>
    <3>1. main = "workers" /\ i \in Workers /\ i \in Nat
      BY <1>0, <1>3
      DEF MainSpawnWorker, MainSpawnWorkerFails, MainAt, Typed, Counter
    <3>2. worker[i] = "unborn"
      BY <1>0, <3>1 DEF Unborn
    <3> QED
      BY <1>3, <3>1, <3>2
      DEF MainSpawnWorker, MainSpawnWorkerFails, makerVars, statVars, bufferVars
  <2>2. AtWorkers(p)' = AtWorkers(p)
    <3>1. Holding(p)' = Holding(p)
      BY <1>0, <2>1 DEF Holding
    <3> QED
      BY <3>1 DEF Holding, AtWorkers
  <2> QED
    BY <2>1, <2>2 DEF Pushed, Queued, AtStat, Stored, CountIn
<1>4. CASE MainPushStatQuit
  <2>1. /\ i \in Indices /\ pats_buffs[i] \in Patients
        /\ sq' = [sq EXCEPT ![pats_buffs[i]] = Append(@, Quit)]
        /\ UNCHANGED <<rq, worker, request, statT, hist, sent>>
    BY <1>0, <1>4, Moves, Ranges, Tables
    DEF Turn, MainPushStatQuit, makerVars, workerVars, statVars
  <2>2. Stored(p)' = Stored(p)
    <3>1. Quit \in Readings \cup {Quit}
      OBVIOUS
    <3>2. Stored(p)' = Stored(p)
            + (IF p = pats_buffs[i] /\ Quit # Quit THEN 1 ELSE 0)
      BY <1>0, <2>1, <3>1, StoreUp
    <3> QED
      BY <1>00, <3>2
  <2> QED
    BY <2>1, <2>2 DEF Pushed, Queued, AtWorkers, AtStat, CountIn
<1>5. ASSUME NEW j \in Indices, RequestPush(j)
      PROVE  /\ sent[j] < N
             /\ sent' = [sent EXCEPT ![j] = @ + 1]
             /\ Pushed(p)' = Pushed(p) + (IF patients[j] = p THEN 1 ELSE 0)
  <2>1. /\ rq' = Append(rq, patients[j]) /\ patients[j] \in Patients
        /\ sent[j] < N
        /\ sent' = [sent EXCEPT ![j] = @ + 1]
        /\ UNCHANGED <<worker, request, sq, statT, hist>>
    BY <1>5, Tables DEF RequestPush, RequestPushes, workerVars, statVars
  <2>2. Queued(p)' = Queued(p) + (IF patients[j] = p THEN 1 ELSE 0)
    BY <1>0, <2>1, QueueUp
  <2>3. /\ AtWorkers(p)' = AtWorkers(p) /\ Stored(p)' = Stored(p)
        /\ AtStat(p)' = AtStat(p)
        /\ Total(hist[map[p]])' = Total(hist[map[p]])
    BY <2>1 DEF AtWorkers, AtStat, Stored, CountIn
  <2> QED
    BY <1>00, <2>1, <2>2, <2>3 DEF Pushed
<1>6. CASE QuitPush
  <2>1. rq' = Append(rq, Quit) /\ UNCHANGED <<worker, request, sq, statT, hist, sent>>
    BY <1>6 DEF QuitPush, workerVars, statVars
  <2>2. Queued(p)' = Queued(p)
    BY <1>0, <1>00, <2>1, QueueUp
  <2> QED
    BY <2>1, <2>2 DEF Pushed, AtWorkers, AtStat, Stored, CountIn
<1>7. ASSUME NEW k \in Workers, WorkerPop(k)
      PROVE  Kept
  <2>1. /\ rq # <<>> /\ rq' = Tail(rq) /\ worker[k] = "pop"
        /\ worker' = [worker EXCEPT ![k] = "write"]
        /\ request' = [request EXCEPT ![k] = Head(rq)]
        /\ UNCHANGED <<sq, statT, hist, sent>>
    BY <1>7 DEF WorkerPop, WorkerPops, WorkerAt, makerVars, statVars
  <2>2. Queued(p) = Queued(p)' + (IF Head(rq) = p THEN 1 ELSE 0)
    BY <1>0, <2>1, QueueDown
  <2>3. /\ k \notin Holding(p)
        /\ k \in Holding(p)' <=> Head(rq) = p
        /\ \A l \in Workers \ {k} :
             worker'[l] = worker[l] /\ request'[l] = request[l]
    BY <1>0, <2>1 DEF Holding
  <2>4. AtWorkers(p)' = AtWorkers(p) + (IF Head(rq) = p THEN 1 ELSE 0)
    <3>1. AtWorkers(p)' \in Nat
      BY FiniteThreads DEF AtWorkers
    <3> QED
      BY <1>00, <2>3, <3>1, WorkerMoves
  <2>5. /\ Stored(p)' = Stored(p) /\ AtStat(p)' = AtStat(p)
        /\ Total(hist[map[p]])' = Total(hist[map[p]])
    BY <2>1 DEF AtStat, Stored, CountIn
  <2>6. Queued(p)' \in Nat
    <3>1. rq' \in Seq(Patients \cup {Quit})
      BY <1>0, <2>1 DEF Typed, TypeOK
    <3>2. Cardinality(Positions(rq', {p})) \in Nat
      BY <3>1, PositionsFinite
    <3> QED
      BY <3>1, <3>2, Places DEF Queued, CountIn
  <2> QED
    BY <1>00, <2>1, <2>2, <2>4, <2>5, <2>6 DEF Pushed
<1>8. ASSUME NEW k \in Workers, WorkerWrite(k) \/ WorkerRead(k)
      PROVE  Kept
  <2>1. /\ worker[k] \in {"write", "read"}
        /\ \E point \in {"read", "store", "done"} :
             /\ worker' = [worker EXCEPT ![k] = point]
             /\ point = "done" => request[k] = Quit
        /\ UNCHANGED <<rq, request, sq, statT, hist, sent>>
    BY <1>0, <1>8
    DEF WorkerWrite, WorkerWrites, WorkerRead, WorkerAt, makerVars, statVars,
        bufferVars
  <2>2. Holding(p)' = Holding(p)
    BY <1>0, <2>1 DEF Holding
  <2>3. AtWorkers(p)' = AtWorkers(p)
    BY <2>2 DEF Holding, AtWorkers
  <2> QED
    BY <2>1, <2>3 DEF Pushed, Queued, Stored, AtStat, CountIn
<1>9. ASSUME NEW k \in Workers, WorkerStore(k)
      PROVE  Kept
  <2>1. /\ worker[k] = "store"
        /\ request[k] \in Patients /\ response[k] \in Readings
        /\ response[k] # Quit
        /\ sq' = [sq EXCEPT ![request[k]] = Append(@, response[k])]
        /\ worker' = [worker EXCEPT ![k] = "pop"]
        /\ UNCHANGED <<rq, request, statT, hist, sent>>
    BY <1>0, <1>9, ReadingFacts
    DEF WorkerStore, WorkerAt, BufferOf, Typed, Locals, makerVars, statVars
  <2>2. Stored(p)' = Stored(p) + (IF p = request[k] THEN 1 ELSE 0)
    <3>1. Stored(p)' = Stored(p)
            + (IF p = request[k] /\ response[k] # Quit THEN 1 ELSE 0)
      BY <1>0, <2>1, StoreUp, ZenonT(40)
    <3> QED
      BY <2>1, <3>1
  <2>3. AtWorkers(p)' + (IF p = request[k] THEN 1 ELSE 0) = AtWorkers(p)
    <3>1. /\ k \in Holding(p) <=> p = request[k]
          /\ k \notin Holding(p)'
          /\ \A l \in Workers \ {k} :
               worker'[l] = worker[l] /\ request'[l] = request[l]
      BY <1>0, <2>1 DEF Holding
    <3>2. AtWorkers(p)' + (IF k \in Holding(p) THEN 1 ELSE 0)
            = AtWorkers(p) + (IF k \in Holding(p)' THEN 1 ELSE 0)
      BY <3>1, WorkerMoves
    <3> QED
      BY <1>00, <3>1, <3>2
  <2>4. /\ Queued(p)' = Queued(p) /\ AtStat(p)' = AtStat(p)
        /\ Total(hist[map[p]])' = Total(hist[map[p]])
    BY <2>1 DEF AtStat, Queued, CountIn
  <2>5. AtWorkers(p)' \in Nat
    BY FiniteThreads DEF AtWorkers
  <2> QED
    BY <1>00, <2>1, <2>2, <2>3, <2>4, <2>5 DEF Pushed
<1>10. ASSUME NEW j \in Indices, StatPop(j)
       PROVE  Kept
  <2> DEFINE q == pats_buffs[j]
             e == Head(sq[q])
  <2>1. /\ q \in Patients /\ sq[q] # <<>> /\ statT[j] = "pop"
        /\ sq' = [sq EXCEPT ![q] = Tail(@)]
        /\ statT' = [statT EXCEPT ![j] = IF e = Quit THEN "done" ELSE "update"]
        /\ UNCHANGED <<rq, worker, request, hist, sent>>
    BY <1>10, Tables DEF StatPop, makerVars, workerVars
  <2>2. Stored(p) = Stored(p)' + (IF p = q /\ e # Quit THEN 1 ELSE 0)
    BY <1>0, <2>1, StoreDown
  <2>3. AtStat(p)' = AtStat(p) + (IF p = q /\ e # Quit THEN 1 ELSE 0)
    <3>1. /\ j \notin Updating(p)
          /\ j \in Updating(p)' <=> p = q /\ e # Quit
          /\ \A l \in Indices \ {j} : statT'[l] = statT[l]
      BY <1>0, <2>1 DEF Updating
    <3>2. AtStat(p)' + (IF j \in Updating(p) THEN 1 ELSE 0)
            = AtStat(p) + (IF j \in Updating(p)' THEN 1 ELSE 0)
      BY <3>1, StatMoves
    <3>3. AtStat(p)' \in Nat
      BY FiniteThreads DEF AtStat
    <3> HIDE DEF q, e
    <3> QED
      BY <1>00, <3>1, <3>2, <3>3
  <2>4. /\ Queued(p)' = Queued(p) /\ AtWorkers(p)' = AtWorkers(p)
        /\ Total(hist[map[p]])' = Total(hist[map[p]])
    BY <2>1 DEF AtWorkers, Queued, CountIn
  <2>5. Stored(p)' \in Nat
    <3>1. sq'[p] \in Seq(Readings \cup {Quit})
      BY <1>0, <2>1 DEF Typed, TypeOK
    <3>2. Cardinality(Positions(sq'[p], Readings)) \in Nat
      BY <3>1, PositionsFinite
    <3> QED
      BY <3>1, <3>2, Places DEF Stored, CountIn
  <2> HIDE DEF q, e
  <2> QED
    BY <1>00, <2>1, <2>2, <2>3, <2>4, <2>5 DEF Pushed
<1>11. ASSUME NEW j \in Indices, StatUpdate(j)
       PROVE  Kept
  <2> DEFINE q == pats_buffs[j]
             b == BinOf(stat[j])
  <2>1. /\ q \in Patients /\ b \in Bins /\ statT[j] = "update"
        /\ hist' = [hist EXCEPT ![map[q]][b] = @ + 1]
        /\ statT' = [statT EXCEPT ![j] = "pop"]
        /\ UNCHANGED <<rq, worker, request, sq, sent>>
    BY <1>0, <1>11, Tables, ReadingFacts
    DEF StatUpdate, StatUpdates, Typed, Locals, makerVars, workerVars, bufferVars
  <2>2. AtStat(p)' + (IF p = q THEN 1 ELSE 0) = AtStat(p)
    <3>1. /\ j \in Updating(p) <=> p = q
          /\ j \notin Updating(p)'
          /\ \A l \in Indices \ {j} : statT'[l] = statT[l]
      BY <1>0, <2>1 DEF Updating
    <3>2. AtStat(p)' + (IF j \in Updating(p) THEN 1 ELSE 0)
            = AtStat(p) + (IF j \in Updating(p)' THEN 1 ELSE 0)
      BY <3>1, StatMoves
    <3>3. AtStat(p)' \in Nat
      BY FiniteThreads DEF AtStat
    <3> HIDE DEF q
    <3> QED
      BY <1>00, <3>1, <3>2, <3>3
  <2>3. Total(hist'[map[p]])
          = Total(hist[map[p]]) + (IF p = q THEN 1 ELSE 0)
    BY <1>11, UpdateCounts
  <2>4. /\ Queued(p)' = Queued(p) /\ AtWorkers(p)' = AtWorkers(p)
        /\ Stored(p)' = Stored(p)
    BY <2>1 DEF AtWorkers, Queued, Stored, CountIn
  <2>5. AtStat(p)' \in Nat /\ map' = map
    BY FiniteThreads DEF AtStat, map
  <2> HIDE DEF q, b
  <2> QED
    BY <1>00, <2>1, <2>2, <2>3, <2>4, <2>5 DEF Pushed
<1> QED
  BY <1>1, <1>2, <1>3, <1>4, <1>5, <1>6, <1>7, <1>8, <1>9, <1>10, <1>11, Steps
  DEF vars, makerVars, workerVars, statVars, bufferVars, OnlyMain, Dies, Ends,
      MainConnect, MainSpawnRequest, MainJoinRequest, MainSpawnQuit,
      MainJoinQuit, MainJoinWorker, JoinsWorkers, MainKillServer, MainJoinStat,
      MainReport, RequestExit, QuitExit, ServerAnswer, ServerCloses, ServerStops

(***************************************************************************)
(* At first there is nothing anywhere.                                     *)
(***************************************************************************)
LEMMA Nowhere ==
  ASSUME Init, NEW p \in Patients
  PROVE  /\ Queued(p) = 0 /\ AtWorkers(p) = 0 /\ Stored(p) = 0 /\ AtStat(p) = 0
         /\ \A b \in Bins : /\ AnswersAtWorkers(p, b) = 0
                            /\ AnswersStored(p, b) = 0 /\ AnswersAtStat(p, b) = 0
                            /\ hist[map[p]][b] = 0
         /\ Total(hist[map[p]]) = 0
<1>1. Cardinality({}) = 0
  BY FS_EmptySet
<1>2. /\ DOMAIN rq = {} /\ DOMAIN sq[p] = {}
      /\ \A k \in Workers : worker[k] = "unborn" /\ DOMAIN down[k] = {}
      /\ \A j \in Indices : statT[j] = "unborn"
  BY DEF Init
<1>3. Queued(p) = 0 /\ Stored(p) = 0
  BY <1>1, <1>2 DEF Queued, Stored, CountIn
<1>4. AtWorkers(p) = 0 /\ AtStat(p) = 0
  <2>1. /\ {k \in Workers : /\ worker[k] \in {"write", "read", "store"}
                            /\ request[k] = p} = {}
        /\ {j \in Indices : pats_buffs[j] = p /\ statT[j] = "update"} = {}
    BY <1>2
  <2> QED
    BY <1>1, <2>1 DEF AtWorkers, AtStat
<1>5. ASSUME NEW b \in Bins
      PROVE  /\ AnswersAtWorkers(p, b) = 0
             /\ AnswersStored(p, b) = 0 /\ AnswersAtStat(p, b) = 0
  <2>1. /\ {k \in Workers :
              /\ request[k] = p
              /\ \/ worker[k] = "store" /\ BinOf(response[k]) = b
                 \/ \E x \in DOMAIN down[k] : BinOf(down[k][x]) = b} = {}
        /\ {j \in Indices : /\ pats_buffs[j] = p
                            /\ statT[j] = "update"
                            /\ BinOf(stat[j]) = b} = {}
    BY <1>2
  <2> QED
    BY <1>1, <1>2, <2>1 DEF AnswersAtWorkers, AnswersStored, AnswersAtStat, CountIn
<1>6. \A b \in Bins : hist[map[p]][b] = 0
  BY Tables DEF Init
<1>7. Total(hist[map[p]]) = 0
  <2>1. Bins = {0, 1, 2, 3, 4, 5, 6, 7, 8, 9}
    BY DEF Bins
  <2> QED
    BY <1>6, <2>1 DEF Total
<1> QED
  BY <1>3, <1>4, <1>5, <1>6, <1>7

(***************************************************************************)
(* A request that was pushed is in one place until it is counted for its   *)
(* own patient, whatever fails and whoever handles it (client.cpp:73-178). *)
(***************************************************************************)
THEOREM RequestsAccounted == Spec => []RequestsConserved
<1>1. RequestsConserved <=> \A j \in Indices : sent[j] = Pushed(patients[j])
  BY DEF RequestsConserved, Pushed
<1>2. RequestsConserved' <=> \A j \in Indices : sent'[j] = Pushed(patients[j])'
  BY DEF RequestsConserved, Pushed
<1>3. Init => RequestsConserved
  <2> SUFFICES ASSUME Init, NEW j \in Indices
               PROVE  sent[j] = Pushed(patients[j])
    BY <1>1
  <2>1. patients[j] \in Patients /\ sent[j] = 0
    BY Tables DEF Init
  <2> QED
    BY <2>1, Nowhere DEF Pushed
<1>4. ASSUME Orderly, RequestsConserved, [Next]_vars
      PROVE  RequestsConserved'
  <2> SUFFICES ASSUME NEW j \in Indices
               PROVE  sent'[j] = Pushed(patients[j])'
    BY <1>2
  <2>1. patients[j] \in Patients /\ sent[j] = Pushed(patients[j])
    BY <1>1, <1>4, Tables
  <2>2. sent \in [Indices -> 0..N]
    BY <1>4 DEF Orderly, Typed, TypeOK
  <2>3. CASE Pushed(patients[j])' = Pushed(patients[j]) /\ UNCHANGED sent
    BY <2>1, <2>3
  <2>4. ASSUME NEW l \in Indices,
               sent' = [sent EXCEPT ![l] = @ + 1],
               Pushed(patients[j])'
                 = Pushed(patients[j])
                     + (IF patients[l] = patients[j] THEN 1 ELSE 0)
        PROVE  sent'[j] = Pushed(patients[j])'
    <3>1. patients[l] = patients[j] <=> l = j
      BY Tables
    <3>2. sent[j] \in Int
      BY <2>2, NAssumption
    <3> QED
      BY <2>1, <2>2, <2>4, <3>1, <3>2
  <2> QED
    BY <1>4, <2>1, <2>3, <2>4, PushedStep
<1> QED
  BY <1>3, <1>4, OrderlyAlways, PTL DEF Spec

-----------------------------------------------------------------------------
(***************************************************************************)
(* The answers in bin b for patient p that were sent.                      *)
(***************************************************************************)
Sent(p, b) ==
  AnswersAtWorkers(p, b) + AnswersStored(p, b) + AnswersAtStat(p, b)
    + hist[map[p]][b]

Returned(p, b) ==
  {k \in Workers :
     /\ request[k] = p
     /\ \/ worker[k] = "store" /\ BinOf(response[k]) = b
        \/ \E x \in DOMAIN down[k] : BinOf(down[k][x]) = b}
Sorting(p, b) == {j \in Updating(p) : BinOf(stat[j]) = b}

\* Each of the four counts is a number.
LEMMA SentType ==
  ASSUME Typed, NEW p \in Patients, NEW b \in Bins
  PROVE  /\ AnswersAtWorkers(p, b) \in Nat /\ AnswersStored(p, b) \in Nat
         /\ AnswersAtStat(p, b) \in Nat /\ hist[map[p]][b] \in Nat
<1>1. AnswersAtWorkers(p, b) \in Nat /\ AnswersAtStat(p, b) \in Nat
  BY FiniteThreads DEF AnswersAtWorkers, AnswersAtStat
<1>2. /\ sq[p] \in Seq(Readings \cup {Quit})
      /\ hist[map[p]] \in [Bins -> Nat]
  BY Tables DEF Typed, TypeOK
<1>3. AnswersStored(p, b) \in Nat
  <2>1. Cardinality(Positions(sq[p], InBin(b))) \in Nat
    BY <1>2, PositionsFinite
  <2> QED
    BY <2>1, RequestsCounted
<1> QED
  BY <1>1, <1>2, <1>3

\* The answers on the wire or at the workers, when worker k moves.
LEMMA AnswerMoves ==
  ASSUME NEW k \in Workers, NEW p \in Patients, NEW b \in Bins,
         \A l \in Workers \ {k} :
           /\ worker'[l] = worker[l] /\ request'[l] = request[l]
           /\ response'[l] = response[l] /\ down'[l] = down[l]
  PROVE  AnswersAtWorkers(p, b)' + (IF k \in Returned(p, b) THEN 1 ELSE 0)
           = AnswersAtWorkers(p, b) + (IF k \in Returned(p, b)' THEN 1 ELSE 0)
<1> DEFINE Before == Returned(p, b)
           After == Returned(p, b)'
<1>1. /\ IsFiniteSet(Before) /\ IsFiniteSet(After)
      /\ AnswersAtWorkers(p, b) = Cardinality(Before)
      /\ AnswersAtWorkers(p, b)' = Cardinality(After)
  BY FiniteThreads DEF Returned, AnswersAtWorkers
<1>2. \A y : y # k => (y \in Before <=> y \in After)
  BY DEF Returned
<1> HIDE DEF Before, After
<1>3. Cardinality(After) + (IF k \in Before THEN 1 ELSE 0)
           = Cardinality(Before) + (IF k \in After THEN 1 ELSE 0)
  BY <1>1, <1>2, OneMoves
<1> QED
  BY <1>1, <1>3 DEF Before, After

\* The answers at the stat threads, when stat thread j moves.
LEMMA SortMoves ==
  ASSUME NEW j \in Indices, NEW p \in Patients, NEW b \in Bins,
         \A l \in Indices \ {j} : statT'[l] = statT[l] /\ stat'[l] = stat[l]
  PROVE  AnswersAtStat(p, b)' + (IF j \in Sorting(p, b) THEN 1 ELSE 0)
           = AnswersAtStat(p, b) + (IF j \in Sorting(p, b)' THEN 1 ELSE 0)
<1> DEFINE Before == Sorting(p, b)
           After == Sorting(p, b)'
<1>1. /\ Before = {l \in Indices : /\ pats_buffs[l] = p /\ statT[l] = "update"
                                   /\ BinOf(stat[l]) = b}
      /\ After = {l \in Indices : /\ pats_buffs[l] = p /\ statT'[l] = "update"
                                  /\ BinOf(stat'[l]) = b}
  BY DEF Sorting, Updating
<1>2. /\ IsFiniteSet(Before) /\ IsFiniteSet(After)
      /\ AnswersAtStat(p, b) = Cardinality(Before)
      /\ AnswersAtStat(p, b)' = Cardinality(After)
  BY <1>1, FiniteThreads DEF AnswersAtStat
<1>3. \A y : y # j => (y \in Before <=> y \in After)
  BY <1>1
<1> HIDE DEF Before, After
<1>4. Cardinality(After) + (IF j \in Before THEN 1 ELSE 0)
           = Cardinality(Before) + (IF j \in After THEN 1 ELSE 0)
  BY <1>2, <1>3, OneMoves
<1> QED
  BY <1>2, <1>4 DEF Before, After

(***************************************************************************)
(* Every step keeps the answers that were sent in one place each, except   *)
(* the answer of the server to the request that is under way               *)
(* (client.cpp:121-178).                                                   *)
(***************************************************************************)
LEMMA SentStep ==
  ASSUME Orderly, [Next]_vars, NEW p \in Patients, NEW b \in Bins
  PROVE  \/ Sent(p, b)' = Sent(p, b) /\ UNCHANGED answered
         \/ \E q \in Patients, c \in Bins :
              /\ answered' = [answered EXCEPT ![q][c] = @ + 1]
              /\ Sent(p, b)' = Sent(p, b) + (IF p = q /\ b = c THEN 1 ELSE 0)
<1> DEFINE Kept == Sent(p, b)' = Sent(p, b) /\ UNCHANGED answered
<1>0. /\ Typed /\ Unborn /\ Lines
      /\ statT \in [Indices -> StatPoints]
      /\ stat \in [Indices -> Readings \cup {None}]
      /\ worker \in [Workers -> WorkerPoints]
      /\ request \in [Workers -> Patients \cup {Quit}]
      /\ response \in [Workers -> Readings \cup {None}]
      /\ down \in [Workers -> Seq(Readings)]
      /\ hist \in [Rows -> [Bins -> Nat]]
      /\ Quit \notin Patients
      /\ DOMAIN <<>> = {} /\ \A v : DOMAIN <<v>> = {1} /\ <<v>>[1] = v
  <2>1. DOMAIN <<>> = {} /\ \A v : DOMAIN <<v>> = {1} /\ <<v>>[1] = v
    OBVIOUS
  <2> QED
    BY <2>1, QuitAssumption DEF Orderly, Typed, TypeOK
<1>00. /\ AnswersAtWorkers(p, b) \in Nat /\ AnswersStored(p, b) \in Nat
       /\ AnswersAtStat(p, b) \in Nat /\ hist[map[p]][b] \in Nat
       /\ AnswersAtWorkers(p, b)' \in Nat /\ AnswersAtStat(p, b)' \in Nat
       /\ map' = map
  BY <1>0, SentType, FiniteThreads DEF AnswersAtWorkers, AnswersAtStat, map
<1>1. CASE UNCHANGED <<worker, request, response, down, sq, statT, stat, hist,
                       answered>>
  BY <1>1 DEF Sent, AnswersAtWorkers, AnswersStored, AnswersAtStat, CountIn
<1>2. CASE MainSpawnStat
  <2>1. /\ i \in Indices /\ statT[i] = "unborn"
        /\ \E point \in {"pop", "failed"} : statT' = [statT EXCEPT ![i] = point]
        /\ UNCHANGED <<worker, request, response, down, sq, stat, hist, answered>>
    BY <1>0, <1>2, Moves, Ranges
    DEF Turn, Unborn, MainSpawnStat, Creates, workerVars, bufferVars, netVars
  <2>2. AnswersAtStat(p, b)' = AnswersAtStat(p, b)
    <3>1. {j \in Indices : /\ pats_buffs[j] = p /\ statT'[j] = "update"
                           /\ BinOf(stat'[j]) = b}
            = {j \in Indices : /\ pats_buffs[j] = p /\ statT[j] = "update"
                               /\ BinOf(stat[j]) = b}
      BY <1>0, <2>1
    <3> QED
      BY <3>1 DEF AnswersAtStat
  <2> QED
    BY <2>1, <2>2 DEF Sent, AnswersAtWorkers, AnswersStored, CountIn
<1>3. CASE MainSpawnWorker \/ (MainSpawnWorkerFails /\ ~RmvBuilt)
  <2>1. /\ i \in Workers /\ worker[i] = "unborn"
        /\ \E point \in {"pop", "failed"} : worker' = [worker EXCEPT ![i] = point]
        /\ UNCHANGED <<request, response, down, sq, statT, stat, hist, answered>>
    <3>1. main = "workers" /\ i \in Workers /\ i \in Nat
      BY <1>0, <1>3
      DEF MainSpawnWorker, MainSpawnWorkerFails, MainAt, Typed, Counter
    <3>2. worker[i] = "unborn"
      BY <1>0, <3>1 DEF Unborn
    <3> QED
      BY <1>3, <3>1, <3>2
      DEF MainSpawnWorker, MainSpawnWorkerFails, statVars, bufferVars, netVars
  <2>2. AnswersAtWorkers(p, b)' = AnswersAtWorkers(p, b)
    <3>1. Returned(p, b)' = Returned(p, b)
      BY <1>0, <2>1 DEF Returned
    <3> QED
      BY <3>1 DEF Returned, AnswersAtWorkers
  <2> QED
    BY <2>1, <2>2 DEF Sent, AnswersAtStat, AnswersStored, CountIn
<1>4. CASE MainPushStatQuit
  <2>1. /\ i \in Indices /\ pats_buffs[i] \in Patients
        /\ sq' = [sq EXCEPT ![pats_buffs[i]] = Append(@, Quit)]
        /\ UNCHANGED <<worker, request, response, down, statT, stat, hist, answered>>
    BY <1>0, <1>4, Moves, Ranges, Tables
    DEF Turn, MainPushStatQuit, workerVars, statVars, netVars
  <2>2. AnswersStored(p, b)' = AnswersStored(p, b)
    <3>1. Quit \in Readings \cup {Quit}
      OBVIOUS
    <3>2. AnswersStored(p, b)' = AnswersStored(p, b)
            + (IF p = pats_buffs[i] /\ Quit # Quit /\ BinOf(Quit) = b
               THEN 1 ELSE 0)
      BY <1>0, <2>1, <3>1, StoreUp, ZenonT(40)
    <3> QED
      BY <1>00, <3>2
  <2> QED
    BY <2>1, <2>2 DEF Sent, AnswersAtWorkers, AnswersAtStat, CountIn
<1>5. ASSUME NEW k \in Workers, WorkerPop(k) \/ WorkerWrite(k)
      PROVE  Kept
  <2>1. /\ worker[k] \in {"pop", "write"} /\ down[k] = <<>>
        /\ \E point \in {"write", "read", "done"} :
             worker' = [worker EXCEPT ![k] = point]
        /\ \E r : request' = [request EXCEPT ![k] = r]
        /\ UNCHANGED <<response, down, sq, statT, stat, hist, answered>>
    <3>1. request = [request EXCEPT ![k] = request[k]]
      BY <1>0
    <3>2. worker[k] \in {"pop", "write"}
      BY <1>5
      DEF WorkerPop, WorkerPops, WorkerWrite, WorkerWrites, WorkerAt
    <3>3. down[k] = <<>>
      BY <1>0, <3>2 DEF Lines
    <3> QED
      BY <1>5, <3>1, <3>2, <3>3
      DEF WorkerPop, WorkerPops, WorkerWrite, WorkerWrites, statVars, bufferVars,
          netVars
  <2>2. AnswersAtWorkers(p, b)' = AnswersAtWorkers(p, b)
    <3>1. Returned(p, b)' = Returned(p, b)
      BY <1>0, <2>1 DEF Returned
    <3> QED
      BY <3>1 DEF Returned, AnswersAtWorkers
  <2> QED
    BY <2>1, <2>2 DEF Sent, AnswersStored, AnswersAtStat, CountIn
<1>6. ASSUME NEW k \in Workers, WorkerRead(k)
      PROVE  Kept
  <2>1. PICK v \in Readings : down[k] = <<v>>
    BY <1>0, <1>6 DEF WorkerRead, WorkerAt, Lines
  <2>2. /\ worker[k] = "read"
        /\ worker' = [worker EXCEPT ![k] = "store"]
        /\ response' = [response EXCEPT ![k] = v]
        /\ down' = [down EXCEPT ![k] = <<>>]
        /\ UNCHANGED <<request, sq, statT, stat, hist, answered>>
    <3>1. Head(<<v>>) = v /\ Tail(<<v>>) = <<>>
      OBVIOUS
    <3> QED
      BY <1>0, <1>6, <2>1, <3>1
      DEF WorkerRead, WorkerAt, statVars, bufferVars
  <2>3. AnswersAtWorkers(p, b)' = AnswersAtWorkers(p, b)
    <3>1. /\ k \in Returned(p, b) <=> request[k] = p /\ BinOf(v) = b
          /\ k \in Returned(p, b)' <=> request[k] = p /\ BinOf(v) = b
          /\ \A l \in Workers \ {k} :
               /\ worker'[l] = worker[l] /\ request'[l] = request[l]
               /\ response'[l] = response[l] /\ down'[l] = down[l]
      BY <1>0, <2>1, <2>2 DEF Returned
    <3>2. AnswersAtWorkers(p, b)' + (IF k \in Returned(p, b) THEN 1 ELSE 0)
            = AnswersAtWorkers(p, b) + (IF k \in Returned(p, b)' THEN 1 ELSE 0)
      BY <3>1, AnswerMoves
    <3> QED
      BY <1>00, <3>1, <3>2
  <2> QED
    BY <2>2, <2>3 DEF Sent, AnswersStored, AnswersAtStat, CountIn
<1>7. ASSUME NEW k \in Workers, WorkerStore(k)
      PROVE  Kept
  <2> DEFINE here == p = request[k] /\ BinOf(response[k]) = b
  <2>1. /\ worker[k] = "store" /\ down[k] = <<>>
        /\ request[k] \in Patients /\ response[k] \in Readings
        /\ response[k] # Quit
        /\ sq' = [sq EXCEPT ![request[k]] = Append(@, response[k])]
        /\ worker' = [worker EXCEPT ![k] = "pop"]
        /\ response' = [response EXCEPT ![k] = None]
        /\ UNCHANGED <<request, down, statT, stat, hist, answered>>
    BY <1>0, <1>7, ReadingFacts
    DEF WorkerStore, WorkerAt, BufferOf, Typed, Locals, Lines, statVars, netVars
  <2>2. AnswersStored(p, b)' = AnswersStored(p, b) + (IF here THEN 1 ELSE 0)
    <3>1. \A c \in Bins :
            AnswersStored(p, c)' = AnswersStored(p, c)
              + (IF p = request[k] /\ response[k] # Quit /\ BinOf(response[k]) = c
                 THEN 1 ELSE 0)
      <4>1. /\ Typed
            /\ request[k] \in Patients /\ response[k] \in Readings \cup {Quit}
            /\ sq' = [sq EXCEPT ![request[k]] = Append(@, response[k])]
        BY <1>0, <2>1
      <4> HIDE DEF here
      <4> QED
        BY <4>1, StoreUp, ZenonT(40)
    <3> QED
      BY <2>1, <3>1
  <2>3. AnswersAtWorkers(p, b)' + (IF here THEN 1 ELSE 0)
          = AnswersAtWorkers(p, b)
    <3>1. /\ k \in Returned(p, b) <=> here
          /\ k \notin Returned(p, b)'
          /\ \A l \in Workers \ {k} :
               /\ worker'[l] = worker[l] /\ request'[l] = request[l]
               /\ response'[l] = response[l] /\ down'[l] = down[l]
      BY <1>0, <2>1 DEF Returned
    <3>2. AnswersAtWorkers(p, b)' + (IF k \in Returned(p, b) THEN 1 ELSE 0)
            = AnswersAtWorkers(p, b) + (IF k \in Returned(p, b)' THEN 1 ELSE 0)
      BY <3>1, AnswerMoves
    <3> HIDE DEF here
    <3> QED
      BY <1>00, <3>1, <3>2
  <2> HIDE DEF here
  <2>4. AnswersAtStat(p, b)' = AnswersAtStat(p, b)
        /\ hist'[map'[p]][b] = hist[map[p]][b]
    BY <1>00, <2>1 DEF AnswersAtStat
  <2> QED
    BY <1>00, <2>1, <2>2, <2>3, <2>4 DEF Sent
<1>8. ASSUME NEW j \in Indices, StatPop(j)
      PROVE  Kept
  <2> DEFINE q == pats_buffs[j]
             e == Head(sq[q])
             here == p = q /\ e # Quit /\ BinOf(e) = b
  <2>1. /\ q \in Patients /\ sq[q] # <<>> /\ statT[j] = "pop"
        /\ sq' = [sq EXCEPT ![q] = Tail(@)]
        /\ statT' = [statT EXCEPT ![j] = IF e = Quit THEN "done" ELSE "update"]
        /\ stat' = [stat EXCEPT ![j] = IF e = Quit THEN stat[j] ELSE e]
        /\ UNCHANGED <<worker, request, response, down, hist, answered>>
    BY <1>0, <1>8, Tables DEF StatPop, workerVars, netVars
  <2>2. AnswersStored(p, b) = AnswersStored(p, b)' + (IF here THEN 1 ELSE 0)
    BY <1>0, <2>1, StoreDown, ZenonT(40)
  <2>3. AnswersAtStat(p, b)' = AnswersAtStat(p, b) + (IF here THEN 1 ELSE 0)
    <3>1. /\ j \notin Sorting(p, b)
          /\ j \in Sorting(p, b)' <=> here
          /\ \A l \in Indices \ {j} : statT'[l] = statT[l] /\ stat'[l] = stat[l]
      BY <1>0, <2>1 DEF Sorting, Updating
    <3>2. AnswersAtStat(p, b)' + (IF j \in Sorting(p, b) THEN 1 ELSE 0)
            = AnswersAtStat(p, b) + (IF j \in Sorting(p, b)' THEN 1 ELSE 0)
      BY <3>1, SortMoves
    <3> HIDE DEF here
    <3> QED
      BY <1>00, <3>1, <3>2
  <2>4. /\ AnswersAtWorkers(p, b)' = AnswersAtWorkers(p, b)
        /\ hist'[map'[p]][b] = hist[map[p]][b]
    BY <1>00, <2>1 DEF AnswersAtWorkers
  <2>5. AnswersStored(p, b)' \in Nat
    <3>1. sq'[p] \in Seq(Readings \cup {Quit})
      BY <1>0, <2>1 DEF Typed, TypeOK
    <3>2. Cardinality(Positions(sq'[p], InBin(b))) \in Nat
      BY <3>1, PositionsFinite
    <3> QED
      BY <3>1, <3>2, Places DEF AnswersStored, CountIn
  <2> HIDE DEF here
  <2> QED
    BY <1>00, <2>1, <2>2, <2>3, <2>4, <2>5 DEF Sent
<1>9. ASSUME NEW j \in Indices, StatUpdate(j)
      PROVE  Kept
  <2> DEFINE q == pats_buffs[j]
             c == BinOf(stat[j])
             here == p = q /\ b = c
  <2>1. /\ q \in Patients /\ c \in Bins /\ statT[j] = "update"
        /\ hist' = [hist EXCEPT ![map[q]][c] = @ + 1]
        /\ statT' = [statT EXCEPT ![j] = "pop"]
        /\ stat' = [stat EXCEPT ![j] = None]
        /\ UNCHANGED <<worker, request, response, down, sq, answered>>
    BY <1>0, <1>9, Tables, ReadingFacts
    DEF StatUpdate, StatUpdates, Typed, Locals, workerVars, bufferVars, netVars
  <2>2. AnswersAtStat(p, b)' + (IF here THEN 1 ELSE 0) = AnswersAtStat(p, b)
    <3>1. /\ j \in Sorting(p, b) <=> here
          /\ j \notin Sorting(p, b)'
          /\ \A l \in Indices \ {j} : statT'[l] = statT[l] /\ stat'[l] = stat[l]
      BY <1>0, <2>1 DEF Sorting, Updating
    <3>2. AnswersAtStat(p, b)' + (IF j \in Sorting(p, b) THEN 1 ELSE 0)
            = AnswersAtStat(p, b) + (IF j \in Sorting(p, b)' THEN 1 ELSE 0)
      BY <3>1, SortMoves
    <3> HIDE DEF here
    <3> QED
      BY <1>00, <3>1, <3>2
  <2>3. hist'[map[p]][b] = hist[map[p]][b] + (IF here THEN 1 ELSE 0)
    <3>1. /\ map[p] \in Rows /\ map[q] \in Rows
          /\ map[p] = map[q] <=> p = q
      BY <1>0, <2>1, Tables
    <3> HIDE DEF q, c
    <3> QED
      BY <1>0, <1>00, <2>1, <3>1
  <2>4. /\ AnswersAtWorkers(p, b)' = AnswersAtWorkers(p, b)
        /\ AnswersStored(p, b)' = AnswersStored(p, b)
    BY <2>1 DEF AnswersAtWorkers, AnswersStored, CountIn
  <2> HIDE DEF here
  <2> QED
    BY <1>00, <2>1, <2>2, <2>3, <2>4 DEF Sent
<1>10. ASSUME NEW k \in Workers, ServerAnswer(k)
       PROVE  \E q \in Patients, c \in Bins :
                /\ answered' = [answered EXCEPT ![q][c] = @ + 1]
                /\ Sent(p, b)' = Sent(p, b) + (IF p = q /\ b = c THEN 1 ELSE 0)
  <2>1. PICK v \in Readings :
          /\ down' = [down EXCEPT ![k] = Append(@, v)]
          /\ answered' = [answered EXCEPT ![Head(up[k])][BinOf(v)] = @ + 1]
    BY <1>10 DEF ServerAnswer
  <2> DEFINE q == request[k]
             c == BinOf(v)
             here == p = q /\ b = c
  <2>2. /\ q \in Patients /\ c \in Bins
        /\ Head(up[k]) = q /\ down[k] = <<>> /\ worker[k] = "read"
    <3>1. worker[k] = "read" /\ up[k] = <<request[k]>> /\ down[k] = <<>>
      <4>1. up[k] # <<>> /\ Head(up[k]) \in Patients /\ Head(<<"!">>) = "!"
        BY <1>10 DEF ServerAnswer
      <4> QED
        BY <1>0, <4>1 DEF Lines, Patients
    <3>2. request[k] \in Patients
      BY <1>0, <3>1 DEF Typed, Locals
    <3> QED
      BY <3>1, <3>2, ReadingFacts
  <2>3. /\ down' = [down EXCEPT ![k] = <<v>>]
        /\ answered' = [answered EXCEPT ![q][c] = @ + 1]
        /\ UNCHANGED <<worker, request, response, sq, statT, stat, hist>>
    <3>1. Append(<<>>, v) = <<v>>
      OBVIOUS
    <3> QED
      BY <1>0, <1>10, <2>1, <2>2, <3>1
      DEF ServerAnswer, workerVars, statVars, bufferVars
  <2>4. AnswersAtWorkers(p, b)'
          = AnswersAtWorkers(p, b) + (IF here THEN 1 ELSE 0)
    <3>1. /\ k \notin Returned(p, b)
          /\ k \in Returned(p, b)' <=> here
          /\ \A l \in Workers \ {k} :
               /\ worker'[l] = worker[l] /\ request'[l] = request[l]
               /\ response'[l] = response[l] /\ down'[l] = down[l]
      BY <1>0, <2>2, <2>3 DEF Returned
    <3>2. AnswersAtWorkers(p, b)' + (IF k \in Returned(p, b) THEN 1 ELSE 0)
            = AnswersAtWorkers(p, b) + (IF k \in Returned(p, b)' THEN 1 ELSE 0)
      BY <3>1, AnswerMoves
    <3> HIDE DEF here
    <3> QED
      BY <1>00, <3>1, <3>2
  <2>5. /\ AnswersStored(p, b)' = AnswersStored(p, b)
        /\ AnswersAtStat(p, b)' = AnswersAtStat(p, b)
        /\ hist'[map'[p]][b] = hist[map[p]][b]
    BY <1>00, <2>3 DEF AnswersStored, AnswersAtStat, CountIn
  <2>6. Sent(p, b)' = Sent(p, b) + (IF here THEN 1 ELSE 0)
    <3> HIDE DEF here
    <3> QED
      BY <1>00, <2>4, <2>5 DEF Sent
  <2> QED
    BY <2>2, <2>3, <2>6
<1> QED
  BY <1>1, <1>2, <1>3, <1>4, <1>5, <1>6, <1>7, <1>8, <1>9, <1>10, Steps
  DEF vars, workerVars, statVars, bufferVars, netVars, OnlyMain, Dies, Ends,
      MainConnect, MainSpawnRequest, MainJoinRequest, MainSpawnQuit,
      MainJoinQuit, MainJoinWorker, JoinsWorkers, MainKillServer, MainJoinStat,
      MainReport, RequestPush, RequestPushes, RequestExit, QuitPush, QuitExit,
      ServerCloses, ServerStops

(***************************************************************************)
(* The number on the wire is the number that is counted, in the row of the *)
(* patient it was asked for, whatever fails (client.cpp:130-178).          *)
(***************************************************************************)
THEOREM AnswersAccounted == Spec => []AnswersConserved
<1>1. AnswersConserved <=> \A p \in Patients, b \in Bins : answered[p][b] = Sent(p, b)
  BY DEF AnswersConserved, Sent
<1>2. AnswersConserved' <=>
        \A p \in Patients, b \in Bins : answered'[p][b] = Sent(p, b)'
  BY DEF AnswersConserved, Sent
<1>3. Init => AnswersConserved
  <2> SUFFICES ASSUME Init, NEW p \in Patients, NEW b \in Bins
               PROVE  answered[p][b] = Sent(p, b)
    BY <1>1
  <2>1. answered[p][b] = 0
    BY DEF Init
  <2> QED
    BY <2>1, Nowhere DEF Sent
<1>4. ASSUME Orderly, AnswersConserved, [Next]_vars
      PROVE  AnswersConserved'
  <2> SUFFICES ASSUME NEW p \in Patients, NEW b \in Bins
               PROVE  answered'[p][b] = Sent(p, b)'
    BY <1>2
  <2>1. answered[p][b] = Sent(p, b)
    BY <1>1, <1>4
  <2>2. answered \in [Patients -> [Bins -> Nat]]
    BY <1>4 DEF Orderly, Typed, TypeOK
  <2>3. CASE Sent(p, b)' = Sent(p, b) /\ UNCHANGED answered
    BY <2>1, <2>3
  <2>4. ASSUME NEW q \in Patients, NEW c \in Bins,
               answered' = [answered EXCEPT ![q][c] = @ + 1],
               Sent(p, b)' = Sent(p, b) + (IF p = q /\ b = c THEN 1 ELSE 0)
        PROVE  answered'[p][b] = Sent(p, b)'
    <3>1. answered'[p][b] = answered[p][b] + (IF p = q /\ b = c THEN 1 ELSE 0)
      BY <2>2, <2>4
    <3> QED
      BY <2>1, <2>4, <3>1
  <2>5. \/ Sent(p, b)' = Sent(p, b) /\ UNCHANGED answered
        \/ \E q \in Patients, c \in Bins :
             /\ answered' = [answered EXCEPT ![q][c] = @ + 1]
             /\ Sent(p, b)' = Sent(p, b) + (IF p = q /\ b = c THEN 1 ELSE 0)
    BY <1>4, SentStep
  <2> QED
    BY <2>3, <2>4, <2>5
<1> QED
  BY <1>3, <1>4, OrderlyAlways, PTL DEF Spec

(***************************************************************************)
(* So no bin holds more than the server gave, and, as no more than N       *)
(* requests are pushed for a patient, no row counts more than N responses. *)
(***************************************************************************)
THEOREM NoOvercount == Spec => []NeverOvercounts
<1>1. Orderly /\ RequestsConserved /\ AnswersConserved => NeverOvercounts
  <2> SUFFICES ASSUME Orderly, RequestsConserved, AnswersConserved,
                      NEW p \in Patients
               PROVE  /\ Total(hist[map[p]]) <= N
                      /\ \A b \in Bins : hist[map[p]][b] <= answered[p][b]
    BY DEF NeverOvercounts
  <2>1. Total(hist[map[p]]) <= N
    <3>1. PICK j \in Indices : patients[j] = p
      BY Tables
    <3>2. /\ sent[j] = Queued(p) + AtWorkers(p) + Stored(p) + AtStat(p)
                        + Total(hist[map[p]])
          /\ sent[j] \in 0..N
      BY <3>1 DEF RequestsConserved, Orderly, Typed, TypeOK
    <3>3. /\ Queued(p) \in Nat /\ AtWorkers(p) \in Nat
          /\ Stored(p) \in Nat /\ AtStat(p) \in Nat
          /\ Total(hist[map[p]]) \in Nat
      BY PushedType DEF Orderly
    <3> QED
      BY <3>2, <3>3, NAssumption
  <2>2. ASSUME NEW b \in Bins PROVE hist[map[p]][b] <= answered[p][b]
    <3>1. answered[p][b] = AnswersAtWorkers(p, b) + AnswersStored(p, b)
                             + AnswersAtStat(p, b) + hist[map[p]][b]
      BY DEF AnswersConserved
    <3>2. /\ AnswersAtWorkers(p, b) \in Nat /\ AnswersStored(p, b) \in Nat
          /\ AnswersAtStat(p, b) \in Nat /\ hist[map[p]][b] \in Nat
      BY SentType DEF Orderly
    <3> QED
      BY <3>1, <3>2
  <2> QED
    BY <2>1, <2>2
<1> QED
  BY <1>1, OrderlyAlways, RequestsAccounted, AnswersAccounted, PTL

-----------------------------------------------------------------------------
(* The report is exact and nothing is left behind.                         *)

(***************************************************************************)
(* The quit of a stat thread is the last element of its buffer, and the    *)
(* thread that took it has left the buffer empty: what is counted when     *)
(* main() joins it is all there is (client.cpp:161-178, 408-422).          *)
(***************************************************************************)
StatQuitsEnd ==
  no_error =>
    \A j \in Indices :
      LET s == sq[pats_buffs[j]] IN
      /\ statT[j] = "done" => s = <<>>
      /\ \A x \in DOMAIN s : s[x] = Quit => x = Len(s)

(***************************************************************************)
(* A quit that was pushed is in the buffer, or the last thing a worker has *)
(* taken from it (client.cpp:91-101, 121-125).                             *)
(***************************************************************************)
Taken == {k \in Workers : worker[k] \in {"write", "done"} /\ request[k] = Quit}

QuitsTaken ==
  quits = Cardinality(Positions(rq, {Quit})) + Cardinality(Taken)

-----------------------------------------------------------------------------
\* Nothing is stored behind the quit of a stat thread.
LEMMA StatQuitsEndStep ==
  Orderly /\ StatQuitsEnd /\ [Next]_vars => StatQuitsEnd'
<1> SUFFICES ASSUME Orderly, StatQuitsEnd, [Next]_vars
             PROVE  StatQuitsEnd'
  OBVIOUS
<1>0. /\ Typed /\ SaidSoFar /\ JoinedSoFar
      /\ statT \in [Indices -> StatPoints]
      /\ sq \in [Patients -> Seq(Readings \cup {Quit})]
  BY DEF Orderly, Typed, TypeOK
<1>1. CASE UNCHANGED <<no_error, statT, sq>>
  BY <1>1 DEF StatQuitsEnd
<1>2. CASE MainSpawnWorkerFails /\ ~RmvBuilt
  BY <1>2 DEF MainSpawnWorkerFails, StatQuitsEnd
<1>3. CASE MainSpawnStat
  <2>1. /\ UNCHANGED <<no_error, sq>>
        /\ \E point \in {"pop", "failed"} : statT' = [statT EXCEPT ![i] = point]
    BY <1>3 DEF MainSpawnStat, Creates, bufferVars
  <2> QED
    BY <1>0, <2>1 DEF StatQuitsEnd
<1>4. CASE MainPushStatQuit
  <2>1. /\ i \in Indices /\ main = "quitStats" /\ i \in Nat
        /\ UNCHANGED <<no_error, statT>>
        /\ sq' = [sq EXCEPT ![pats_buffs[i]] = Append(@, Quit)]
    BY <1>0, <1>4, Moves, Ranges DEF Turn, MainPushStatQuit, statVars
  <2>2. ~QuitSent(i)
    BY <1>0, <2>1 DEF SaidSoFar, AfterQuitStats, AfterStats
  <2>3. ASSUME no_error, NEW j \in Indices
        PROVE  /\ statT[j] = "done" => sq'[pats_buffs[j]] = <<>>
               /\ \A x \in DOMAIN sq'[pats_buffs[j]] :
                    sq'[pats_buffs[j]][x] = Quit => x = Len(sq'[pats_buffs[j]])
    <3>1. CASE j = i
      <4> DEFINE s == sq[pats_buffs[i]]
      <4>1. /\ s \in Seq(Readings \cup {Quit})
            /\ sq'[pats_buffs[j]] = Append(s, Quit)
            /\ statT[i] # "done" /\ \A x \in DOMAIN s : s[x] # Quit
        BY <1>0, <2>1, <2>2, <3>1, Tables DEF QuitSent
      <4>2. Quit \in Readings \cup {Quit} /\ Len(Append(s, Quit)) = Len(s) + 1
        BY <4>1
      <4> HIDE DEF s
      <4> QED
        BY <3>1, <4>1, <4>2, AppendedTo
    <3>2. CASE j # i
      <4>1. sq'[pats_buffs[j]] = sq[pats_buffs[j]]
        BY <1>0, <2>1, <3>2, Tables
      <4> QED
        BY <2>3, <4>1 DEF StatQuitsEnd
    <3> QED
      BY <3>1, <3>2
  <2> QED
    BY <2>1, <2>3 DEF StatQuitsEnd
<1>5. ASSUME NEW j \in Indices, StatPop(j)
      PROVE  StatQuitsEnd'
  <2> DEFINE s == sq[pats_buffs[j]]
  <2>1. /\ sq' = [sq EXCEPT ![pats_buffs[j]] = Tail(@)]
        /\ s # <<>> /\ s \in Seq(Readings \cup {Quit})
        /\ statT' = [statT EXCEPT ![j] = IF Head(s) = Quit THEN "done" ELSE "update"]
        /\ UNCHANGED no_error
    BY <1>0, <1>5, Tables DEF StatPop, mainVars
  <2>2. ASSUME no_error, NEW l \in Indices
        PROVE  /\ statT'[l] = "done" => sq'[pats_buffs[l]] = <<>>
               /\ \A x \in DOMAIN sq'[pats_buffs[l]] :
                    sq'[pats_buffs[l]][x] = Quit => x = Len(sq'[pats_buffs[l]])
    <3>1. CASE l = j
      <4>1. /\ sq'[pats_buffs[l]] = Tail(s)
            /\ statT'[l] = "done" => Head(s) = Quit
            /\ \A x \in DOMAIN s : s[x] = Quit => x = Len(s)
        BY <1>0, <2>1, <2>2, <3>1, Tables DEF StatQuitsEnd
      <4>2. Head(s) = Quit => Tail(s) = <<>>
        <5>1. 1 \in DOMAIN s /\ Head(s) = s[1]
          BY <2>1
        <5> HIDE DEF s
        <5>2. /\ Tail(s) \in Seq(Readings \cup {Quit})
              /\ Len(Tail(s)) = Len(s) - 1
          BY <2>1
        <5>3. \A t \in Seq(Readings \cup {Quit}) : Len(t) = 0 => t = <<>>
          OBVIOUS
        <5> QED
          BY <4>1, <5>1, <5>2, <5>3
      <4>3. \A x \in DOMAIN Tail(s) : Tail(s)[x] = Quit => x = Len(Tail(s))
        <5>1. Len(Tail(s)) = Len(s) - 1
          BY <2>1
        <5> HIDE DEF s
        <5> QED
          BY <2>1, <4>1, <5>1, RemovedFrom
      <4> QED
        BY <4>1, <4>2, <4>3
    <3>2. CASE l # j
      <4>1. sq'[pats_buffs[l]] = sq[pats_buffs[l]] /\ statT'[l] = statT[l]
        BY <1>0, <2>1, <3>2, Tables
      <4> QED
        BY <2>2, <4>1 DEF StatQuitsEnd
    <3> QED
      BY <3>1, <3>2
  <2> QED
    BY <2>1, <2>2 DEF StatQuitsEnd
<1>6. ASSUME NEW j \in Indices, StatUpdate(j)
      PROVE  StatQuitsEnd'
  BY <1>0, <1>6 DEF StatUpdate, StatUpdates, StatQuitsEnd, mainVars, bufferVars
<1>7. ASSUME NEW k \in Workers, WorkerStore(k)
      PROVE  StatQuitsEnd'
  <2>1. /\ worker[k] = "store" /\ UNCHANGED <<no_error, statT>>
        /\ request[k] \in Patients /\ response[k] \in Readings
        /\ response[k] # Quit
        /\ sq' = [sq EXCEPT ![request[k]] = Append(@, response[k])]
    BY <1>0, <1>7, ReadingFacts
    DEF WorkerStore, WorkerAt, BufferOf, Typed, Locals, mainVars, statVars
  <2>2. ASSUME no_error, NEW j \in Indices
        PROVE  /\ statT[j] = "done" => sq'[pats_buffs[j]] = <<>>
               /\ \A x \in DOMAIN sq'[pats_buffs[j]] :
                    sq'[pats_buffs[j]][x] = Quit => x = Len(sq'[pats_buffs[j]])
    <3>1. ~QuitSent(j)
      <4>1. main \in AfterWorkers => worker[k] \in {"failed", "done"}
        BY <2>2, WorkersDone
      <4> QED
        BY <1>0, <2>1, <4>1 DEF SaidSoFar, AfterWorkers, AfterKill
    <3>2. CASE request[k] = pats_buffs[j]
      <4> DEFINE s == sq[pats_buffs[j]]
      <4>1. /\ s \in Seq(Readings \cup {Quit})
            /\ sq'[pats_buffs[j]] = Append(s, response[k])
            /\ statT[j] # "done" /\ \A x \in DOMAIN s : s[x] # Quit
        BY <1>0, <2>1, <3>1, <3>2, Tables DEF QuitSent
      <4>2. response[k] \in Readings \cup {Quit}
        BY <2>1
      <4> HIDE DEF s
      <4> QED
        BY <2>1, <4>1, <4>2, AppendedTo
    <3>3. CASE request[k] # pats_buffs[j]
      <4>1. sq'[pats_buffs[j]] = sq[pats_buffs[j]]
        BY <1>0, <2>1, <3>3, Tables
      <4> QED
        BY <2>2, <4>1 DEF StatQuitsEnd
    <3> QED
      BY <3>2, <3>3
  <2> QED
    BY <2>1, <2>2 DEF StatQuitsEnd
<1> QED
  BY <1>1, <1>2, <1>3, <1>4, <1>5, <1>6, <1>7, Steps
  DEF vars, mainVars, statVars, bufferVars, OnlyMain, Dies, Ends,
      MainConnect, MainSpawnRequest, MainSpawnWorker, MainJoinRequest,
      MainSpawnQuit, MainJoinQuit, MainJoinWorker, JoinsWorkers, MainKillServer,
      MainJoinStat, MainReport, RequestPush, RequestPushes, RequestExit,
      QuitPush, QuitExit, WorkerPop, WorkerPops, WorkerWrite, WorkerWrites,
      WorkerRead, ServerAnswer, ServerCloses, ServerStops

\* The quits that were taken, when worker k moves.
LEMMA TakenMoves ==
  ASSUME NEW k \in Workers,
         \A l \in Workers \ {k} :
           worker'[l] = worker[l] /\ request'[l] = request[l]
  PROVE  Cardinality(Taken') + (IF k \in Taken THEN 1 ELSE 0)
           = Cardinality(Taken) + (IF k \in Taken' THEN 1 ELSE 0)
<1> DEFINE Before == Taken
           After == Taken'
<1>1. IsFiniteSet(Before) /\ IsFiniteSet(After)
  BY FiniteThreads DEF Taken
<1>2. \A y : y # k => (y \in Before <=> y \in After)
  BY DEF Taken
<1> HIDE DEF Before, After
<1>3. Cardinality(After) + (IF k \in Before THEN 1 ELSE 0)
        = Cardinality(Before) + (IF k \in After THEN 1 ELSE 0)
  BY <1>1, <1>2, OneMoves
<1> QED
  BY <1>3 DEF Before, After

\* A worker that pops a quit takes no other.
LEMMA QuitsTakenStep ==
  Orderly /\ QuitsTaken /\ [Next]_vars => QuitsTaken'
<1> SUFFICES ASSUME Orderly, QuitsTaken, [Next]_vars
             PROVE  QuitsTaken'
  OBVIOUS
<1>0. /\ Typed /\ Unborn
      /\ rq \in Seq(Patients \cup {Quit})
      /\ worker \in [Workers -> WorkerPoints]
      /\ request \in [Workers -> Patients \cup {Quit}]
      /\ Quit \notin Patients
  BY QuitAssumption DEF Orderly, Typed, TypeOK
<1>00. /\ Cardinality(Positions(rq, {Quit})) \in Nat
       /\ Cardinality(Taken) \in Nat /\ Cardinality(Taken') \in Nat
  BY <1>0, PositionsFinite, FiniteThreads DEF Taken
<1>1. CASE UNCHANGED <<quits, rq, worker, request>>
  BY <1>1 DEF QuitsTaken, Positions, Taken
<1>2. CASE MainSpawnWorker \/ (MainSpawnWorkerFails /\ ~RmvBuilt)
  <2>1. /\ i \in Workers /\ worker[i] = "unborn"
        /\ \E point \in {"pop", "failed"} : worker' = [worker EXCEPT ![i] = point]
        /\ UNCHANGED <<rq, request, quits>>
    <3>1. main = "workers" /\ i \in Workers /\ i \in Nat
      BY <1>0, <1>2
      DEF MainSpawnWorker, MainSpawnWorkerFails, MainAt, Typed, Counter
    <3>2. worker[i] = "unborn"
      BY <1>0, <3>1 DEF Unborn
    <3> QED
      BY <1>2, <3>1, <3>2
      DEF MainSpawnWorker, MainSpawnWorkerFails, makerVars, bufferVars
  <2>2. Taken' = Taken
    BY <1>0, <2>1 DEF Taken
  <2> QED
    BY <2>1, <2>2 DEF QuitsTaken, Positions
<1>3. ASSUME NEW j \in Indices, RequestPush(j)
      PROVE  QuitsTaken'
  <2>1. /\ rq' = Append(rq, patients[j])
        /\ patients[j] \in Patients \cup {Quit} /\ patients[j] # Quit
        /\ UNCHANGED <<quits, worker, request>>
    BY <1>0, <1>3, Tables DEF RequestPush, RequestPushes, workerVars
  <2>2. Cardinality(Positions(rq', {Quit}))
          = Cardinality(Positions(rq, {Quit}))
              + (IF patients[j] \in {Quit} THEN 1 ELSE 0)
    BY <1>0, <2>1, CountAppended
  <2>3. Taken' = Taken
    BY <2>1 DEF Taken
  <2> QED
    BY <1>00, <2>1, <2>2, <2>3 DEF QuitsTaken
<1>4. CASE QuitPush
  <2>1. /\ rq' = Append(rq, Quit) /\ Quit \in Patients \cup {Quit}
        /\ quits' = quits + 1
        /\ UNCHANGED <<worker, request>>
    BY <1>4 DEF QuitPush, workerVars
  <2>2. Cardinality(Positions(rq', {Quit}))
          = Cardinality(Positions(rq, {Quit}))
              + (IF Quit \in {Quit} THEN 1 ELSE 0)
    BY <1>0, <2>1, CountAppended
  <2>3. Taken' = Taken
    BY <2>1 DEF Taken
  <2> QED
    BY <1>00, <2>1, <2>2, <2>3 DEF QuitsTaken
<1>5. ASSUME NEW k \in Workers, WorkerPop(k)
      PROVE  QuitsTaken'
  <2>1. /\ rq # <<>> /\ rq' = Tail(rq) /\ worker[k] = "pop"
        /\ worker' = [worker EXCEPT ![k] = "write"]
        /\ request' = [request EXCEPT ![k] = Head(rq)]
        /\ UNCHANGED quits
    BY <1>5 DEF WorkerPop, WorkerPops, WorkerAt, makerVars
  <2>2. Cardinality(Positions(rq, {Quit}))
          = Cardinality(Positions(rq', {Quit}))
              + (IF Head(rq) \in {Quit} THEN 1 ELSE 0)
    BY <1>0, <2>1, CountRemoved
  <2>3. Cardinality(Taken')
          = Cardinality(Taken) + (IF Head(rq) = Quit THEN 1 ELSE 0)
    <3>1. /\ k \notin Taken
          /\ k \in Taken' <=> Head(rq) = Quit
          /\ \A l \in Workers \ {k} :
               worker'[l] = worker[l] /\ request'[l] = request[l]
      BY <1>0, <2>1 DEF Taken
    <3>2. Cardinality(Taken') + (IF k \in Taken THEN 1 ELSE 0)
            = Cardinality(Taken) + (IF k \in Taken' THEN 1 ELSE 0)
      BY <3>1, TakenMoves
    <3> QED
      BY <1>00, <3>1, <3>2
  <2>4. Cardinality(Positions(rq', {Quit})) \in Nat
    <3>1. rq' \in Seq(Patients \cup {Quit})
      BY <1>0, <2>1
    <3> QED
      BY <3>1, PositionsFinite
  <2> QED
    BY <1>00, <2>1, <2>2, <2>3, <2>4 DEF QuitsTaken
<1>6. ASSUME NEW k \in Workers,
             WorkerWrite(k) \/ WorkerRead(k) \/ WorkerStore(k)
      PROVE  QuitsTaken'
  <2>1. /\ UNCHANGED <<rq, request, quits>>
        /\ \/ /\ worker[k] = "write"
              /\ worker' = [worker EXCEPT ![k] = IF request[k] = Quit THEN "done"
                                                 ELSE "read"]
           \/ /\ worker[k] \in {"read", "store"} /\ request[k] \in Patients
              /\ \E point \in {"store", "pop"} :
                   worker' = [worker EXCEPT ![k] = point]
    BY <1>0, <1>6
    DEF WorkerWrite, WorkerWrites, WorkerRead, WorkerStore, WorkerAt, Typed,
        Locals, makerVars, bufferVars
  <2>2. Taken' = Taken
    BY <1>0, <2>1 DEF Taken
  <2> QED
    BY <2>1, <2>2 DEF QuitsTaken, Positions
<1> QED
  BY <1>1, <1>2, <1>3, <1>4, <1>5, <1>6, Steps
  DEF vars, makerVars, workerVars, bufferVars, OnlyMain, Dies, Ends,
      MainConnect, MainSpawnRequest, MainSpawnStat, MainJoinRequest,
      MainSpawnQuit, MainJoinQuit, MainJoinWorker, JoinsWorkers, MainKillServer,
      MainPushStatQuit, MainJoinStat, MainReport, RequestExit, QuitExit,
      StatPop, StatUpdate, StatUpdates, ServerAnswer, ServerCloses, ServerStops

-----------------------------------------------------------------------------
(***************************************************************************)
(* What is invariant of the client, all of it.                             *)
(***************************************************************************)
Complete ==
  /\ Orderly /\ RequestsConserved /\ AnswersConserved
  /\ StatQuitsEnd /\ QuitsTaken

\* It is inductive.
LEMMA CompleteAlways == Spec => []Complete
<1>1. Init => StatQuitsEnd
  BY Tables DEF Init, StatQuitsEnd
<1>2. Init => QuitsTaken
  <2> SUFFICES ASSUME Init
               PROVE  QuitsTaken
    OBVIOUS
  <2>1. Positions(rq, {Quit}) = {} /\ Taken = {} /\ quits = 0
    BY DEF Init, Positions, Taken
  <2> QED
    BY <2>1, FS_EmptySet DEF QuitsTaken
<1>3. Spec => [](StatQuitsEnd /\ QuitsTaken)
  BY <1>1, <1>2, StatQuitsEndStep, QuitsTakenStep, OrderlyAlways, PTL DEF Spec
<1> QED
  BY <1>3, OrderlyAlways, RequestsAccounted, AnswersAccounted, PTL DEF Complete

(***************************************************************************)
(* At the end of main(), when no call of pthread_create has failed, every  *)
(* thread is done and every buffer empty.                                  *)
(***************************************************************************)
LEMMA AllDone ==
  ASSUME Complete, failures = 0, main \in AfterStats
  PROVE  /\ \A j \in Indices :
              /\ reqT[j] = "done" /\ sent[j] = N
              /\ statT[j] = "done" /\ sq[pats_buffs[j]] = <<>>
         /\ quitT = "done" /\ quits = W
         /\ \A k \in Workers : /\ worker[k] = "done" /\ request[k] = Quit
                               /\ down[k] = <<>>
<1>1. /\ no_error /\ quitT # "failed"
      /\ \A j \in Indices : reqT[j] # "failed" /\ statT[j] # "failed"
      /\ \A k \in Workers : worker[k] # "failed"
  BY DEF Complete, Orderly, NoneFailed
<1>2. /\ main \in AfterRequests /\ main \in AfterQuit /\ main \in AfterWorkers
  BY DEF AfterRequests, AfterQuit, AfterWorkers, AfterKill, AfterQuitStats
<1>3. /\ \A j \in Indices : reqT[j] = "done" /\ statT[j] = "done"
      /\ quitT = "done"
      /\ \A k \in Workers : worker[k] = "done"
  BY <1>1, <1>2 DEF Complete, Orderly, JoinedSoFar, Joined
<1>4. (\A j \in Indices : sent[j] = N) /\ quits = W
  BY <1>3 DEF Complete, Orderly, CountedSoFar
<1>5. \A j \in Indices : sq[pats_buffs[j]] = <<>>
  BY <1>1, <1>3 DEF Complete, StatQuitsEnd
<1>6. \A k \in Workers : request[k] = Quit /\ down[k] = <<>>
  BY <1>3 DEF Complete, Orderly, Typed, Locals, Lines
<1> QED
  BY <1>3, <1>4, <1>5, <1>6

\* W quits were pushed and W taken, so the request buffer is empty too.
LEMMA RequestsGone ==
  ASSUME Complete, failures = 0, main \in AfterStats
  PROVE  rq = <<>>
<1>1. rq \in Seq(Patients \cup {Quit})
  BY DEF Complete, Orderly, Typed, TypeOK
<1>2. Taken = Workers
  BY AllDone DEF Taken
<1>3. Cardinality(Workers) = W
  BY Ranges, FS_Interval
<1>4. /\ Cardinality(Positions(rq, {Quit})) \in Nat
      /\ IsFiniteSet(Positions(rq, {Quit}))
  BY <1>1, PositionsFinite
<1>5. Cardinality(Positions(rq, {Quit})) = 0
  BY <1>2, <1>3, <1>4, AllDone, Ranges DEF Complete, QuitsTaken
<1>6. Positions(rq, {Quit}) = {}
  BY <1>4, <1>5, FS_EmptySet
<1>7. \A x \in DOMAIN rq : rq[x] = Quit
  <2>1. 1 \in Workers
    BY Ranges
  <2> QED
    BY <2>1, AllDone DEF Complete, Orderly, WorkersStopLast
<1>8. DOMAIN rq = {}
  BY <1>6, <1>7 DEF Positions
<1> QED
  BY <1>1, <1>8

(***************************************************************************)
(* main() leaves the block that owns the buffers only when no thread can   *)
(* touch them again, and they are empty (client.cpp:416-436).              *)
(***************************************************************************)
THEOREM NothingLeft == Spec => [](failures = 0 => NothingLeftBehind)
<1>1. Complete => (failures = 0 => NothingLeftBehind)
  <2> SUFFICES ASSUME Complete, failures = 0, proc = "reported"
               PROVE  NothingLeftBehind
    BY DEF NothingLeftBehind
  <2>1. main \in AfterStats
    BY DEF Complete, Orderly, CountedSoFar, AfterStats
  <2>2. \A p \in Patients : sq[p] = <<>>
    BY <2>1, AllDone, Tables
  <2> QED
    BY <2>1, <2>2, AllDone, RequestsGone DEF NothingLeftBehind
<1> QED
  BY <1>1, CompleteAlways, PTL

(***************************************************************************)
(* With nothing left anywhere, what was pushed and what was answered is    *)
(* counted.                                                                *)
(***************************************************************************)
LEMMA ExactAtEnd ==
  ASSUME Complete, failures = 0, main \in AfterStats, NEW p \in Patients
  PROVE  Total(hist[map[p]]) = N /\ hist[map[p]] = answered[p]
<1>1. /\ DOMAIN rq = {} /\ DOMAIN sq[p] = {}
      /\ \A k \in Workers : worker[k] = "done" /\ DOMAIN down[k] = {}
      /\ \A j \in Indices : statT[j] = "done" /\ sent[j] = N
  <2>1. sq[p] = <<>>
    BY AllDone, Tables
  <2> QED
    BY <2>1, AllDone, RequestsGone
<1>2. Cardinality({}) = 0
  BY FS_EmptySet
<1>3. Queued(p) = 0 /\ Stored(p) = 0 /\ \A b \in Bins : AnswersStored(p, b) = 0
  BY <1>1, <1>2 DEF Queued, Stored, AnswersStored, CountIn
<1>4. AtWorkers(p) = 0 /\ AtStat(p) = 0
  <2>1. /\ {k \in Workers : /\ worker[k] \in {"write", "read", "store"}
                            /\ request[k] = p} = {}
        /\ {j \in Indices : pats_buffs[j] = p /\ statT[j] = "update"} = {}
    BY <1>1
  <2> QED
    BY <1>2, <2>1 DEF AtWorkers, AtStat
<1>5. ASSUME NEW b \in Bins
      PROVE  AnswersAtWorkers(p, b) = 0 /\ AnswersAtStat(p, b) = 0
  <2>1. /\ {k \in Workers :
              /\ request[k] = p
              /\ \/ worker[k] = "store" /\ BinOf(response[k]) = b
                 \/ \E x \in DOMAIN down[k] : BinOf(down[k][x]) = b} = {}
        /\ {j \in Indices : /\ pats_buffs[j] = p
                            /\ statT[j] = "update"
                            /\ BinOf(stat[j]) = b} = {}
    BY <1>1
  <2> QED
    BY <1>2, <2>1 DEF AnswersAtWorkers, AnswersAtStat
<1>6. /\ hist[map[p]] \in [Bins -> Nat] /\ answered[p] \in [Bins -> Nat]
      /\ Typed
  BY Tables DEF Complete, Orderly, Typed, TypeOK
<1>7. PICK j \in Indices : patients[j] = p
  BY Tables
<1>8. N = Total(hist[map[p]])
  <2>1. sent[j] = Queued(p) + AtWorkers(p) + Stored(p) + AtStat(p)
                    + Total(hist[map[p]])
    BY <1>7 DEF Complete, RequestsConserved
  <2>2. Total(hist[map[p]]) \in Nat
    BY <1>6, PushedType
  <2> QED
    BY <1>1, <1>3, <1>4, <2>1, <2>2
<1>9. \A b \in Bins : answered[p][b] = hist[map[p]][b]
  BY <1>3, <1>5, <1>6 DEF Complete, AnswersConserved
<1> QED
  BY <1>6, <1>8, <1>9

(***************************************************************************)
(* The report is complete and exact: N responses for every patient, in the *)
(* bins the server's answers fall in (client.cpp:365-432).                 *)
(***************************************************************************)
THEOREM ReportIsExact == Spec => [](failures = 0 => ReportExact)
<1>1. Complete => (failures = 0 => ReportExact)
  <2> SUFFICES ASSUME Complete, failures = 0, proc = "reported"
               PROVE  ReportExact
    BY DEF ReportExact
  <2>1. main \in AfterStats
    BY DEF Complete, Orderly, CountedSoFar, AfterStats
  <2> QED
    BY <2>1, ExactAtEnd DEF ReportExact
<1> QED
  BY <1>1, CompleteAlways, PTL
-----------------------------------------------------------------------------
(***************************************************************************)
(* Client implements Survey and, with what it sees of the data server,     *)
(* Connection.                                                             *)
(***************************************************************************)
\* With no failures allowed there are none.
LEMMA NoFailures == ASSUME MaxFailures = 0, TypeOK PROVE failures = 0
BY DEF TypeOK

\* The counts of the next state are numbers too.
LEMMA PushedTypeNext ==
  ASSUME NEW p \in Patients
  PROVE  Typed' => (/\ Queued(p) \in Nat /\ AtWorkers(p) \in Nat
                    /\ Stored(p) \in Nat /\ AtStat(p) \in Nat
                    /\ Total(hist[map[p]]) \in Nat)'
<1>1. Typed => /\ Queued(p) \in Nat /\ AtWorkers(p) \in Nat
               /\ Stored(p) \in Nat /\ AtStat(p) \in Nat
               /\ Total(hist[map[p]]) \in Nat
  BY PushedType
<1> QED
  BY <1>1, PTL

(***************************************************************************)
(* Every step of the client counts one response, reports, gives up, or     *)
(* does not show in Survey.  That a count never exceeds N is read off the  *)
(* conservation of requests after the step.                                *)
(***************************************************************************)
LEMMA SurveyStep ==
  ASSUME MaxFailures = 0, Complete, Complete', [Next]_vars
  PROVE  [Promise!Next]_Promise!vars
<1>0. /\ Typed /\ failures = 0 /\ map' = map
      /\ \A p \in Patients : Counted[p] = Total(hist[map[p]])
      /\ \A p \in Patients : Counted'[p] = Total(hist'[map[p]])
  BY NoFailures DEF Complete, Orderly, Typed, Counted, map
<1>1. CASE UNCHANGED <<proc, hist>>
  BY <1>0, <1>1 DEF Promise!vars, Counted, Outcome, Running
<1>2. CASE Dies
  <2>1. /\ proc = "running" /\ proc' \notin {"running", "reported"}
        /\ hist' = hist
    BY <1>2 DEF Dies, Ends, Running
  <2>2. UNCHANGED Counted /\ Outcome = "running" /\ Outcome' = "aborted"
    BY <1>0, <2>1 DEF Counted, Outcome, Running
  <2> QED
    BY <2>2 DEF Promise!Next, Promise!Abort
<1>3. CASE MainReport
  <2>1. /\ proc = "running" /\ proc' = "reported" /\ main = "report"
        /\ hist' = hist
    BY <1>3 DEF MainReport, MainAt, Running
  <2>2. UNCHANGED Counted /\ Outcome = "running" /\ Outcome' = "reported"
    BY <1>0, <2>1 DEF Counted, Outcome, Running
  <2>3. \A p \in Patients : Counted[p] = N
    BY <1>0, <2>1, ExactAtEnd DEF AfterStats
  <2> QED
    BY <2>2, <2>3 DEF Promise!Next, Promise!Report
<1>4. ASSUME NEW j \in Indices, StatUpdate(j)
      PROVE  \E p \in Patients : Promise!Count(p)
  <2> DEFINE q == pats_buffs[j]
  <2>1. /\ q \in Patients /\ proc = "running" /\ proc' = proc
        /\ Outcome = "running" /\ Outcome' = "running"
    BY <1>4, Tables DEF StatUpdate, StatUpdates, Running, Outcome
  <2>2. \A p \in Patients :
          Counted'[p] = Counted[p] + (IF p = q THEN 1 ELSE 0)
    BY <1>0, <1>4, UpdateCounts DEF Complete
  <2>3. \A p \in Patients : Counted[p] \in Nat /\ Counted'[p] <= N
    <3> SUFFICES ASSUME NEW p \in Patients
                 PROVE  Counted[p] \in Nat /\ Counted'[p] <= N
      OBVIOUS
    <3>1. PICK l \in Indices : patients[l] = p
      BY Tables
    <3>2. /\ sent'[l] = Queued(p)' + AtWorkers(p)' + Stored(p)' + AtStat(p)'
                          + Total(hist'[map[p]])
          /\ sent'[l] \in 0..N
      BY <1>0, <3>1 DEF Complete, RequestsConserved, Orderly, Typed, TypeOK, patients
    <3>3. /\ Queued(p)' \in Nat /\ AtWorkers(p)' \in Nat
          /\ Stored(p)' \in Nat /\ AtStat(p)' \in Nat
          /\ Total(hist'[map[p]]) \in Nat
      BY <1>0, PushedTypeNext DEF Complete, Orderly
    <3>4. Total(hist[map[p]]) \in Nat
      BY <1>0, PushedType
    <3> QED
      BY <1>0, <3>2, <3>3, <3>4, NAssumption
  <2>4. Counted' = [Counted EXCEPT ![q] = @ + 1]
    BY <2>1, <2>2, <2>3 DEF Counted
  <2>5. Counted[q] < N
    BY <2>1, <2>2, <2>3, NAssumption
  <2> QED
    BY <2>1, <2>4, <2>5 DEF Promise!Count
<1> QED
  BY <1>1, <1>2, <1>3, <1>4, Steps
  DEF Promise!Next, vars, OnlyMain, MainConnect, MainSpawnRequest,
      MainSpawnStat, MainSpawnWorker, MainSpawnWorkerFails, MainJoinRequest,
      MainSpawnQuit, MainJoinQuit, MainJoinWorker, JoinsWorkers, MainKillServer,
      MainPushStatQuit, MainJoinStat, RequestPush, RequestPushes, RequestExit,
      QuitPush, QuitExit, StatPop, WorkerPop, WorkerPops, WorkerWrite,
      WorkerWrites, WorkerRead, WorkerStore, ServerAnswer, ServerCloses,
      ServerStops

(***************************************************************************)
(* The client as a whole keeps what Survey promises, when every call of    *)
(* pthread_create succeeds: responses are counted one by one, never more   *)
(* than N for a patient, and the report comes when all are counted.        *)
(***************************************************************************)
THEOREM IsSurvey ==
  ASSUME MaxFailures = 0
  PROVE  Spec => ImplementsSurvey
<1>1. Init => Promise!Init
  <2> SUFFICES ASSUME Init
               PROVE  Promise!Init
    OBVIOUS
  <2>1. \A p \in Patients : Total(hist[map[p]]) = 0
    BY Nowhere
  <2> QED
    BY <2>1 DEF Init, Promise!Init, Counted, Outcome, Running
<1>2. Complete /\ Complete' /\ [Next]_vars => [Promise!Next]_Promise!vars
  BY SurveyStep
<1> QED
  BY <1>1, <1>2, CompleteAlways, PTL DEF Spec, ImplementsSurvey, Promise!Spec

-----------------------------------------------------------------------------
(***************************************************************************)
(* The control connection is made before anything else (client.cpp:291).   *)
(***************************************************************************)
ConnectedFirst == control = "none" <=> main = "connect"

\* Only the first step of main() leaves the state "none".
LEMMA ConnectedStep ==
  Orderly /\ ConnectedFirst /\ [Next]_vars => ConnectedFirst'
<1> SUFFICES ASSUME Orderly, ConnectedFirst, [Next]_vars
             PROVE  ConnectedFirst'
  OBVIOUS
<1>0. Typed
  BY DEF Orderly
<1>1. CASE UNCHANGED <<main, control>>
  BY <1>1 DEF ConnectedFirst
<1>2. CASE MainConnect \/ MainKillServer
  <2>1. main' # "connect" /\ control' # "none"
    BY <1>0, <1>2, Moves DEF Goes, MainConnect, MainKillServer
  <2> QED
    BY <2>1 DEF ConnectedFirst
<1>3. CASE \/ MainSpawnRequest \/ MainSpawnStat \/ MainSpawnWorker
           \/ (MainSpawnWorkerFails /\ ~RmvBuilt) \/ MainJoinRequest
           \/ MainSpawnQuit \/ MainJoinQuit \/ MainJoinWorker
           \/ MainPushStatQuit \/ MainJoinStat \/ MainReport
  <2>1. main # "connect" /\ main' # "connect"
    BY <1>0, <1>3, Moves DEF Turn, Goes
  <2>2. UNCHANGED control
    BY <1>3
    DEF MainSpawnRequest, MainSpawnStat, MainSpawnWorker, MainSpawnWorkerFails,
        MainJoinRequest, MainSpawnQuit, MainJoinQuit, MainJoinWorker,
        JoinsWorkers, MainPushStatQuit, MainJoinStat, MainReport, OnlyMain,
        netVars
  <2> QED
    BY <2>1, <2>2 DEF ConnectedFirst
<1> QED
  BY <1>1, <1>2, <1>3, Steps
  DEF vars, mainVars, netVars, Dies, Ends, RequestPush, RequestPushes,
      RequestExit, QuitPush, QuitExit, StatPop, StatUpdate, StatUpdates,
      WorkerPop, WorkerPops, WorkerWrite, WorkerWrites, WorkerRead, WorkerStore,
      ServerAnswer, ServerCloses, ServerStops

-----------------------------------------------------------------------------
(***************************************************************************)
(* What Connection sees of the client, spelt out.                          *)
(***************************************************************************)
Seen == [c \in Conns |-> PhaseAtEnd(c)]
OpenConns == {c \in Conns : Phase(c) # "new" /\
                 ~(c \in Workers /\ Phase(c) = "left" /\ up[c] = <<>>)}
Requested == [c \in Conns |-> UnderWay(c)]
Answering == [c \in Conns |-> Returning(c)]
SeenServer == IF server = "up" THEN "up"
              ELSE IF ServerMayDie THEN "failed" ELSE "stopped"

\* A connection carries at most one request and one answer.
LEMMA WireNow ==
  Orderly =>
    /\ Requested = [c \in Conns |-> IF /\ c # ControlConn /\ Running
                                       /\ worker[c] = "read" /\ up[c] # <<>>
                                    THEN 1 ELSE 0]
    /\ Answering = [c \in Conns |-> IF /\ c # ControlConn /\ Running
                                       /\ down[c] # <<>>
                                    THEN 1 ELSE 0]
<1> SUFFICES ASSUME Orderly, NEW k \in Workers
             PROVE  /\ CountIn(up[k], LAMBDA m : m # "!")
                         = IF worker[k] = "read" /\ up[k] # <<>> THEN 1 ELSE 0
                    /\ Len(down[k]) = IF down[k] # <<>> THEN 1 ELSE 0
  BY DEF Requested, Answering, UnderWay, Returning, Conns
<1>1. /\ worker[k] \in WorkerPoints
      /\ worker[k] = "read" => request[k] \in Patients
      /\ down[k] \in Seq(Readings)
      /\ Typed /\ Lines
  BY DEF Orderly, Typed, TypeOK, Locals
<1>2. Len(<<>>) = 0 /\ \A v : Len(<<v>>) = 1
  OBVIOUS
<1>3. Len(down[k]) = IF down[k] # <<>> THEN 1 ELSE 0
  BY <1>1, <1>2 DEF Lines
<1>4. /\ DOMAIN <<>> = {}
      /\ \A v : DOMAIN <<v>> = {1} /\ <<v>>[1] = v /\ <<v>> # <<>>
  OBVIOUS
<1>5. {x \in DOMAIN up[k] : up[k][x] # "!"}
        = IF worker[k] = "read" /\ up[k] # <<>> THEN {1} ELSE {}
  <2>1. CASE worker[k] = "read" /\ up[k] # <<>>
    <3>1. up[k] = <<request[k]>> /\ request[k] # "!"
      BY <1>1, <2>1 DEF Lines, Patients
    <3> QED
      BY <1>4, <2>1, <3>1
  <2>2. CASE ~(worker[k] = "read" /\ up[k] # <<>>)
    <3>1. up[k] = <<>> \/ up[k] = <<"!">>
      BY <1>1, <2>2 DEF Lines
    <3> QED
      BY <1>4, <2>2, <3>1
  <2> QED
    BY <2>1, <2>2
<1>6. Cardinality({}) = 0 /\ Cardinality({1}) = 1
  BY FS_EmptySet, FS_Singleton
<1> QED
  BY <1>3, <1>5, <1>6 DEF CountIn

\* The same of the next state.
LEMMA WireNext ==
  Orderly' =>
    (/\ Requested = [c \in Conns |-> IF /\ c # ControlConn /\ Running
                                        /\ worker[c] = "read" /\ up[c] # <<>>
                                     THEN 1 ELSE 0]
     /\ Answering = [c \in Conns |-> IF /\ c # ControlConn /\ Running
                                        /\ down[c] # <<>>
                                     THEN 1 ELSE 0])'
BY WireNow, PTL

(***************************************************************************)
(* What a step of the threads leaves of it, when it moves one worker.      *)
(***************************************************************************)
ShownOf(k) ==
  /\ Seen' = [Seen EXCEPT ![k] = Phase(k)'] /\ Seen[k] = Phase(k)
  /\ \A c \in Conns : c # k => (c \in OpenConns' <=> c \in OpenConns)
  /\ OpenConns' \subseteq Conns /\ OpenConns \subseteq Conns
  /\ Requested' = [Requested EXCEPT ![k] =
                      IF worker'[k] = "read" /\ up'[k] # <<>> THEN 1 ELSE 0]
  /\ Requested[k] = IF worker[k] = "read" /\ up[k] # <<>> THEN 1 ELSE 0
  /\ Answering' = [Answering EXCEPT ![k] = IF down'[k] # <<>> THEN 1 ELSE 0]
  /\ Answering[k] = IF down[k] # <<>> THEN 1 ELSE 0
  /\ UNCHANGED SeenServer

\* Writing what is there already changes nothing.
LEMMA Tabulated ==
  \A k \in Workers : /\ Seen = [Seen EXCEPT ![k] = Seen[k]]
                     /\ Requested = [Requested EXCEPT ![k] = Requested[k]]
                     /\ Answering = [Answering EXCEPT ![k] = Answering[k]]
BY DEF Seen, Requested, Answering

(***************************************************************************)
(* What a step shows when it moves worker k and its connection.            *)
(***************************************************************************)
LEMMA OneConnection ==
  ASSUME Orderly, Orderly', NEW k \in Workers, Running, Running',
         UNCHANGED <<control, server>>,
         \A l \in Workers \ {k} :
           worker'[l] = worker[l] /\ up'[l] = up[l] /\ down'[l] = down[l]
  PROVE  ShownOf(k)
<1>0. k # ControlConn /\ k \in Conns /\ \A c \in Conns : c # ControlConn => c \in Workers
  BY Ranges DEF ControlConn, Conns
<1>1. \A c \in Conns : c # k => Phase(c)' = Phase(c)
  <2>1. Phase(ControlConn)' = Phase(ControlConn)
    BY DEF Phase
  <2>2. ASSUME NEW c \in Workers \ {k}, c # ControlConn
        PROVE  Phase(c)' = Phase(c)
    <3>1. worker'[c] = worker[c]
      OBVIOUS
    <3> QED
      BY <2>2, <3>1 DEF Phase
  <2> QED
    BY <1>0, <2>1, <2>2
<1>2. Seen' = [Seen EXCEPT ![k] = Phase(k)'] /\ Seen[k] = Phase(k)
  BY <1>0, <1>1 DEF Seen, PhaseAtEnd, Running
<1>3. \A c \in Conns : c # k => (c \in OpenConns' <=> c \in OpenConns)
  BY <1>0, <1>1 DEF OpenConns
<1>4. /\ Requested' = [Requested EXCEPT ![k] =
                            IF worker'[k] = "read" /\ up'[k] # <<>> THEN 1 ELSE 0]
      /\ Requested[k] = IF worker[k] = "read" /\ up[k] # <<>> THEN 1 ELSE 0
  BY <1>0, WireNow, WireNext
<1>5. /\ Answering' = [Answering EXCEPT ![k] = IF down'[k] # <<>> THEN 1 ELSE 0]
      /\ Answering[k] = IF down[k] # <<>> THEN 1 ELSE 0
  BY <1>0, WireNow, WireNext
<1> QED
  BY <1>2, <1>3, <1>4, <1>5 DEF ShownOf, OpenConns, SeenServer

\* What stays the same of the connection does not show at all.
LEMMA NotShown ==
  ASSUME NEW k \in Workers, ShownOf(k)
  PROVE  /\ (k \in OpenConns' <=> k \in OpenConns) => OpenConns' = OpenConns
         /\ k \in OpenConns' => OpenConns' = OpenConns \cup {k}
         /\ k \notin OpenConns' => OpenConns' = OpenConns \ {k}
         /\ Phase(k)' = Phase(k) => Seen' = Seen
         /\ (worker'[k] = "read" /\ up'[k] # <<>>
               <=> worker[k] = "read" /\ up[k] # <<>>) => Requested' = Requested
         /\ (down'[k] # <<>> <=> down[k] # <<>>) => Answering' = Answering
<1>1. /\ (k \in OpenConns' <=> k \in OpenConns) => OpenConns' = OpenConns
      /\ k \in OpenConns' => OpenConns' = OpenConns \cup {k}
      /\ k \notin OpenConns' => OpenConns' = OpenConns \ {k}
  <2> DEFINE Before == OpenConns
             After == OpenConns'
  <2>1. k \in Conns
    BY DEF Conns
  <2>2. /\ \A c : c # k => (c \in After <=> c \in Before)
    BY DEF ShownOf
  <2> HIDE DEF Before, After
  <2>3. (k \in After <=> k \in Before) => After = Before
    BY <2>2
  <2>4. k \in After => After = Before \cup {k}
    BY <2>2
  <2>5. k \notin After => After = Before \ {k}
    BY <2>2
  <2> QED
    BY <2>3, <2>4, <2>5 DEF Before, After
<1>2. Phase(k)' = Phase(k) => Seen' = Seen
  BY Tabulated DEF ShownOf
<1>3. (worker'[k] = "read" /\ up'[k] # <<>>
         <=> worker[k] = "read" /\ up[k] # <<>>) => Requested' = Requested
  BY Tabulated DEF ShownOf
<1>4. (down'[k] # <<>> <=> down[k] # <<>>) => Answering' = Answering
  BY Tabulated DEF ShownOf
<1> QED
  BY <1>1, <1>2, <1>3, <1>4

\* The phase of a worker's connection.
LEMMA WorkerPhase ==
  ASSUME NEW k \in Workers
  PROVE  Phase(k) = IF worker[k] = "unborn" THEN "new"
                    ELSE IF worker[k] = "read" THEN "waiting"
                    ELSE IF worker[k] = "done" THEN "left" ELSE "idle"
<1>1. k # ControlConn
  BY Ranges DEF ControlConn
<1> QED
  BY <1>1 DEF Phase

\* The same of the next state.
LEMMA WorkerPhaseNext ==
  ASSUME NEW k \in Workers
  PROVE  Phase(k)' = IF worker'[k] = "unborn" THEN "new"
                     ELSE IF worker'[k] = "read" THEN "waiting"
                     ELSE IF worker'[k] = "done" THEN "left" ELSE "idle"
<1>1. k # ControlConn
  BY Ranges DEF ControlConn
<1> QED
  BY <1>1 DEF Phase

\* The phase of the control connection, in this state and the next.
LEMMA ControlPhase ==
  /\ control = "none" => Phase(ControlConn) = "new"
  /\ control = "open" => Phase(ControlConn) = "idle"
  /\ control = "!!" => Phase(ControlConn) = "left"
  /\ control' = "none" => Phase(ControlConn)' = "new"
  /\ control' = "open" => Phase(ControlConn)' = "idle"
  /\ control' = "!!" => Phase(ControlConn)' = "left"
BY DEF Phase

(***************************************************************************)
(* When the process ends, all its connections that were not left vanish.   *)
(***************************************************************************)
LEMMA EndVanishes ==
  ASSUME Orderly, Orderly', Running, ~Running',
         UNCHANGED <<worker, up, down, control, server>>
  PROVE  Wire!Vanish({c \in Conns : Phase(c) \in {"idle", "waiting"}})
<1> DEFINE S == {c \in Conns : Phase(c) \in {"idle", "waiting"}}
<1>1. /\ \A c \in Conns : Phase(c)' = Phase(c)
      /\ OpenConns' = OpenConns /\ SeenServer' = SeenServer
  BY DEF Phase, OpenConns, SeenServer
<1>2. /\ \A c \in S : Seen[c] \in {"idle", "waiting"}
      /\ Seen' = [c \in Conns |-> IF c \in S THEN "gone" ELSE Seen[c]]
  BY <1>1 DEF Seen, PhaseAtEnd
<1>3. \A c \in Conns : c \notin S => Requested[c] = 0 /\ Answering[c] = 0
  <2> SUFFICES ASSUME NEW c \in Workers, c # ControlConn, c \notin S
               PROVE  Requested[c] = 0 /\ Answering[c] = 0
    BY WireNow DEF Conns
  <2>1. worker[c] # "read" /\ worker[c] \in WorkerPoints
    BY WorkerPhase DEF Conns, Orderly, Typed, TypeOK
  <2>2. down[c] = <<>>
    BY <2>1 DEF Orderly, Lines
  <2> QED
    BY <2>1, <2>2, WireNow DEF Conns
<1>4. /\ Requested' = [c \in Conns |-> 0] /\ Answering' = [c \in Conns |-> 0]
  BY WireNext
<1>5. /\ Requested' = [c \in Conns |-> IF c \in S THEN 0 ELSE Requested[c]]
      /\ Answering' = [c \in Conns |-> IF c \in S THEN 0 ELSE Answering[c]]
  BY <1>3, <1>4
<1> HIDE DEF S
<1>6. Wire!Vanish(S)
  BY <1>1, <1>2, <1>5
  DEF Wire!Vanish, Seen, OpenConns, Requested, Answering, SeenServer
<1> QED
  BY <1>6 DEF S

(***************************************************************************)
(* Every step of the client, and of the server as it sees it, is a step of *)
(* Connection or does not show in it.                                      *)
(***************************************************************************)
LEMMA WireStep ==
  ASSUME Orderly, Orderly', ConnectedFirst, [Next]_vars
  PROVE  [Wire!Next]_Wire!vars
<1> DEFINE Same == UNCHANGED <<Seen, OpenConns, Requested, Answering, SeenServer>>
<1>0. /\ Typed /\ Unborn /\ Lines /\ Typed' /\ Lines'
      /\ worker \in [Workers -> WorkerPoints]
      /\ up \in [Workers -> Seq(Patients \cup {"!"})]
      /\ down \in [Workers -> Seq(Readings)]
      /\ request \in [Workers -> Patients \cup {Quit}]
      /\ ControlConn \in Conns /\ Workers \subseteq Conns
      /\ \A k \in Workers : k # ControlConn
  <2>1. ControlConn \in Conns /\ \A k \in Workers : k # ControlConn /\ k \in Conns
    BY Ranges DEF ControlConn, Conns
  <2> QED
    BY <2>1 DEF Orderly, Typed, TypeOK
<1>00. Same => UNCHANGED Wire!vars
  BY DEF Wire!vars, Seen, OpenConns, Requested, Answering, SeenServer
<1>1. CASE UNCHANGED <<proc, worker, up, down, control, server>>
  <2>1. \A c \in Conns : Phase(c)' = Phase(c) /\ PhaseAtEnd(c)' = PhaseAtEnd(c)
                /\ UnderWay(c)' = UnderWay(c) /\ Returning(c)' = Returning(c)
    BY <1>1 DEF Phase, PhaseAtEnd, UnderWay, Returning, CountIn, Running
  <2>2. Same
    BY <1>1, <2>1 DEF Seen, OpenConns, Requested, Answering, SeenServer
  <2> QED
    BY <1>00, <2>2
<1>2. CASE Dies \/ MainReport
  <2>1. Running /\ ~Running' /\ UNCHANGED <<worker, up, down, control, server>>
    BY <1>2
    DEF Dies, Ends, MainReport, MainAt, Running, workerVars, netVars
  <2>2. Wire!Vanish({c \in Conns : Phase(c) \in {"idle", "waiting"}})
    BY <2>1, EndVanishes
  <2>3. {c \in Conns : Phase(c) \in {"idle", "waiting"}} \in SUBSET Conns
    OBVIOUS
  <2> QED
    BY <2>2, <2>3 DEF Wire!Next
<1>3. ASSUME NEW k \in Workers, WorkerPop(k) \/ WorkerStore(k)
      PROVE  Same
  <2>1. /\ Running /\ Running' /\ UNCHANGED <<control, server, up, down>>
        /\ worker[k] \in {"pop", "store"}
        /\ \E point \in {"write", "pop"} : worker' = [worker EXCEPT ![k] = point]
    BY <1>3
    DEF WorkerPop, WorkerPops, WorkerStore, WorkerAt, Running, netVars
  <2>2. /\ worker'[k] \in {"write", "pop"} /\ up[k] = <<>> /\ down[k] = <<>>
        /\ \A l \in Workers \ {k} : worker'[l] = worker[l]
    BY <1>0, <2>1 DEF Lines
  <2>3. Phase(k) = "idle" /\ Phase(k)' = "idle"
    BY <2>1, <2>2, WorkerPhase, WorkerPhaseNext
  <2>4. k \in OpenConns /\ k \in OpenConns'
    BY <1>0, <2>3 DEF OpenConns
  <2>5. ShownOf(k)
    BY <2>1, <2>2, OneConnection
  <2> QED
    BY <2>1, <2>2, <2>3, <2>4, <2>5, NotShown DEF ShownOf
<1>4. CASE MainConnect
  <2>1. /\ Running /\ Running' /\ UNCHANGED <<server, worker, up, down>>
        /\ control = "none" /\ control' = "open" /\ server = "up"
    BY <1>4
    DEF MainConnect, MainAt, Running, ConnectedFirst, workerVars
  <2>2. /\ Phase(ControlConn) = "new" /\ Phase(ControlConn)' = "idle"
        /\ \A k \in Workers : Phase(k)' = Phase(k)
    BY <1>0, <2>1, ControlPhase DEF Phase
  <2>3. /\ Seen[ControlConn] = "new"
        /\ Seen' = [Seen EXCEPT ![ControlConn] = "idle"]
        /\ OpenConns' = OpenConns \cup {ControlConn}
        /\ SeenServer = "up" /\ SeenServer' = SeenServer
    BY <1>0, <2>1, <2>2 DEF Seen, PhaseAtEnd, OpenConns, SeenServer, Conns
  <2>4. Requested' = Requested /\ Answering' = Answering
    BY <2>1, WireNow, WireNext
  <2>5. Wire!Connect(ControlConn)
    BY <2>3, <2>4
    DEF Wire!Connect, Wire!Becomes, Seen, OpenConns, Requested, Answering, SeenServer
  <2> QED
    BY <1>0, <2>5 DEF Wire!Next
<1>5. CASE MainKillServer
  <2>1. /\ Running /\ Running' /\ UNCHANGED <<server, worker, up, down>>
        /\ control = "open" /\ control' = "!!"
    <3>1. control # "none" /\ control # "!!"
      BY <1>5
      DEF MainKillServer, MainAt, ConnectedFirst, Orderly, SaidSoFar, AfterKill,
          AfterQuitStats, AfterStats
    <3>2. control \in {"none", "open", "!!"}
      BY <1>0 DEF Typed, TypeOK
    <3> QED
      BY <1>5, <3>1, <3>2 DEF MainKillServer, MainAt, Running, workerVars
  <2>2. /\ Phase(ControlConn) = "idle" /\ Phase(ControlConn)' = "left"
        /\ \A k \in Workers : Phase(k)' = Phase(k)
    BY <1>0, <2>1, ControlPhase DEF Phase
  <2>3. /\ Seen[ControlConn] = "idle"
        /\ Seen' = [Seen EXCEPT ![ControlConn] = "left"]
        /\ OpenConns' = OpenConns
        /\ SeenServer' = SeenServer
    BY <1>0, <2>1, <2>2 DEF Seen, PhaseAtEnd, OpenConns, SeenServer, Conns
  <2>4. Requested' = Requested /\ Answering' = Answering
    BY <2>1, WireNow, WireNext
  <2>5. Wire!Leave(ControlConn)
    BY <2>3, <2>4
    DEF Wire!Leave, Wire!Becomes, Seen, OpenConns, Requested, Answering, SeenServer
  <2> QED
    BY <1>0, <2>5 DEF Wire!Next
<1>6. CASE MainSpawnWorker \/ (MainSpawnWorkerFails /\ ~RmvBuilt)
  <2>1. PICK k \in Workers :
          /\ worker[k] = "unborn" /\ Running /\ Running'
          /\ \E point \in {"pop", "failed"} : worker' = [worker EXCEPT ![k] = point]
          /\ UNCHANGED <<control, server, up, down>> /\ server = "up"
    <3>1. main = "workers" /\ i \in Workers /\ i \in Nat
      BY <1>0, <1>6
      DEF MainSpawnWorker, MainSpawnWorkerFails, MainAt, Typed, Counter
    <3>2. worker[i] = "unborn"
      BY <1>0, <3>1 DEF Unborn
    <3> QED
      BY <1>6, <3>1, <3>2
      DEF MainSpawnWorker, MainSpawnWorkerFails, MainAt, Running, netVars
  <2>2. /\ worker'[k] \in {"pop", "failed"} /\ down[k] = <<>>
        /\ \A l \in Workers \ {k} : worker'[l] = worker[l]
    BY <1>0, <2>1 DEF Lines
  <2>3. Phase(k) = "new" /\ Phase(k)' = "idle"
    BY <2>1, <2>2, WorkerPhase, WorkerPhaseNext
  <2>4. k \notin OpenConns /\ k \in OpenConns'
    BY <1>0, <2>1, <2>3 DEF OpenConns
  <2>5. ShownOf(k)
    BY <2>1, <2>2, OneConnection
  <2>6. /\ Seen[k] = "new" /\ Seen' = [Seen EXCEPT ![k] = "idle"]
        /\ OpenConns' = OpenConns \cup {k}
        /\ Requested' = Requested /\ Answering' = Answering
        /\ SeenServer = "up" /\ SeenServer' = SeenServer
    <3>1. SeenServer = "up"
      BY <2>1 DEF SeenServer
    <3> QED
      BY <1>0, <2>1, <2>2, <2>3, <2>4, <2>5, <3>1, NotShown DEF ShownOf
  <2>7. Wire!Connect(k)
    BY <2>6
    DEF Wire!Connect, Wire!Becomes, Seen, OpenConns, Requested, Answering, SeenServer
  <2> QED
    BY <1>0, <2>7 DEF Wire!Next
<1>7. ASSUME NEW k \in Workers, WorkerWrite(k)
      PROVE  Wire!Ask(k) \/ Wire!Leave(k)
  <2>1. /\ Running /\ Running' /\ UNCHANGED <<control, server, down>>
        /\ worker[k] = "write"
        /\ worker' = [worker EXCEPT ![k] = IF request[k] = Quit THEN "done"
                                           ELSE "read"]
        /\ up'[k] # <<>>
        /\ \A l \in Workers \ {k} : worker'[l] = worker[l] /\ up'[l] = up[l]
        /\ up[k] = <<>> /\ down[k] = <<>>
    <3>1. worker[k] = "write" /\ up[k] = <<>> /\ down[k] = <<>>
      BY <1>0, <1>7 DEF WorkerWrite, WorkerWrites, WorkerAt, Lines
    <3>2. \A m : Append(<<>>, m) # <<>>
      OBVIOUS
    <3> QED
      BY <1>0, <1>7, <3>1, <3>2
      DEF WorkerWrite, WorkerWrites, WorkerAt, Running
  <2>2. Phase(k) = "idle"
    BY <2>1, WorkerPhase
  <2>3. k \in OpenConns
    BY <1>0, <2>2 DEF OpenConns
  <2>0. ShownOf(k)
    BY <2>1, OneConnection
  <2>4. Answering' = Answering
    BY <2>0, <2>1, NotShown DEF ShownOf
  <2>5. CASE request[k] = Quit
    <3>1. Phase(k)' = "left" /\ worker'[k] = "done"
      BY <1>0, <2>1, <2>5, WorkerPhaseNext
    <3>2. k \in OpenConns'
      BY <1>0, <2>1, <3>1 DEF OpenConns
    <3>3. /\ Seen[k] = "idle" /\ Seen' = [Seen EXCEPT ![k] = "left"]
          /\ OpenConns' = OpenConns /\ Requested' = Requested
          /\ SeenServer' = SeenServer
      BY <2>0, <2>1, <2>2, <2>3, <3>1, <3>2, NotShown DEF ShownOf
    <3> QED
      BY <2>4, <3>3
      DEF Wire!Leave, Wire!Becomes, Seen, OpenConns, Requested, Answering,
          SeenServer
  <2>6. CASE request[k] # Quit
    <3>1. Phase(k)' = "waiting" /\ worker'[k] = "read"
      BY <1>0, <2>1, <2>6, WorkerPhaseNext
    <3>2. k \in OpenConns'
      BY <1>0, <2>1, <3>1 DEF OpenConns
    <3>3. Requested[k] = 0 /\ Requested' = [Requested EXCEPT ![k] = 1]
      BY <2>0, <2>1, <3>1 DEF ShownOf
    <3>4. Requested' = [Requested EXCEPT ![k] = @ + 1]
      BY <3>3
    <3>5. /\ Seen[k] = "idle" /\ Seen' = [Seen EXCEPT ![k] = "waiting"]
          /\ OpenConns' = OpenConns
          /\ SeenServer' = SeenServer
      BY <2>0, <2>2, <2>3, <3>1, <3>2, NotShown DEF ShownOf
    <3> QED
      BY <1>0, <2>4, <3>4, <3>5
      DEF Wire!Ask, Wire!Becomes, Seen, OpenConns, Requested, Answering,
          SeenServer
  <2> QED
    BY <2>5, <2>6
<1>8. ASSUME NEW k \in Workers, WorkerRead(k)
      PROVE  Wire!Receive(k)
  <2>1. /\ Running /\ Running' /\ UNCHANGED <<control, server, up>>
        /\ worker[k] = "read" /\ worker'[k] = "store"
        /\ up[k] = <<>> /\ down[k] # <<>> /\ down'[k] = <<>>
        /\ \A l \in Workers \ {k} : worker'[l] = worker[l] /\ down'[l] = down[l]
    <3>1. PICK v \in Readings : down[k] = <<v>> /\ up[k] = <<>>
      BY <1>0, <1>8 DEF WorkerRead, WorkerAt, Lines
    <3>2. Tail(<<v>>) = <<>>
      OBVIOUS
    <3> QED
      BY <1>0, <1>8, <3>1, <3>2 DEF WorkerRead, WorkerAt, Running
  <2>0. ShownOf(k)
    BY <2>1, OneConnection
  <2>2. Phase(k) = "waiting" /\ Phase(k)' = "idle"
    BY <2>1, WorkerPhase, WorkerPhaseNext
  <2>3. k \in OpenConns /\ k \in OpenConns'
    BY <1>0, <2>2 DEF OpenConns
  <2>4. /\ Seen[k] = "waiting" /\ Seen' = [Seen EXCEPT ![k] = "idle"]
        /\ OpenConns' = OpenConns /\ SeenServer' = SeenServer
        /\ Requested' = Requested
    BY <2>0, <2>1, <2>2, <2>3, NotShown DEF ShownOf
  <2>5. Answering[k] = 1 /\ Answering' = [Answering EXCEPT ![k] = @ - 1]
    BY <2>0, <2>1 DEF ShownOf
  <2> QED
    BY <2>4, <2>5
    DEF Wire!Receive, Wire!Becomes, Seen, OpenConns, Requested, Answering,
        SeenServer
<1>9. ASSUME NEW k \in Workers, ServerAnswer(k)
      PROVE  Wire!Answer(k)
  <2>1. /\ Running /\ Running' /\ UNCHANGED <<control, server, worker>>
        /\ worker[k] = "read" /\ up[k] # <<>> /\ down[k] = <<>> /\ server = "up"
        /\ up'[k] = <<>> /\ down'[k] # <<>>
        /\ \A l \in Workers \ {k} : up'[l] = up[l] /\ down'[l] = down[l]
    <3>1. up[k] # <<>> /\ Head(up[k]) \in Patients /\ Head(<<"!">>) = "!"
      BY <1>9 DEF ServerAnswer
    <3>2. worker[k] = "read" /\ up[k] = <<request[k]>> /\ down[k] = <<>>
      BY <1>0, <3>1 DEF Lines, Patients
    <3>3. PICK v \in Readings : down' = [down EXCEPT ![k] = Append(@, v)]
      BY <1>9 DEF ServerAnswer
    <3>4. Tail(<<request[k]>>) = <<>> /\ Append(<<>>, v) # <<>>
      OBVIOUS
    <3> QED
      BY <1>0, <1>9, <3>1, <3>2, <3>3, <3>4 DEF ServerAnswer, Running, workerVars
  <2>0. ShownOf(k)
    BY <2>1, OneConnection
  <2>2. Phase(k) = "waiting" /\ Phase(k)' = "waiting"
    BY <2>1, WorkerPhase, WorkerPhaseNext
  <2>3. k \in OpenConns /\ k \in OpenConns'
    BY <1>0, <2>2 DEF OpenConns
  <2>4. /\ Seen' = Seen
        /\ OpenConns' = OpenConns /\ SeenServer' = SeenServer /\ SeenServer = "up"
    <3>1. SeenServer = "up"
      BY <2>1 DEF SeenServer
    <3> QED
      BY <2>0, <2>1, <2>2, <2>3, <3>1, NotShown DEF ShownOf
  <2>5. /\ Requested[k] = 1 /\ Requested' = [Requested EXCEPT ![k] = @ - 1]
        /\ Answering' = [Answering EXCEPT ![k] = @ + 1]
    BY <2>0, <2>1 DEF ShownOf
  <2> QED
    BY <2>3, <2>4, <2>5
    DEF Wire!Answer, Seen, OpenConns, Requested, Answering, SeenServer
<1>10. ASSUME NEW k \in Workers, ServerCloses(k)
       PROVE  Wire!Close(k)
  <2>1. /\ Running /\ Running' /\ UNCHANGED <<control, server, worker, down>>
        /\ worker[k] = "done" /\ server = "up" /\ up'[k] = <<>>
        /\ \A l \in Workers \ {k} : up'[l] = up[l]
    <3>1. /\ up[k] # <<>> /\ Head(up[k]) = "!"
          /\ Head(<<request[k]>>) = request[k] /\ Tail(<<"!">>) = <<>>
      BY <1>10 DEF ServerCloses
    <3>2. worker[k] = "read" => request[k] # "!"
      BY <1>0 DEF Typed, Locals, Patients
    <3>3. worker[k] = "done" /\ up[k] = <<"!">>
      BY <1>0, <3>1, <3>2 DEF Lines
    <3> QED
      BY <1>0, <1>10, <3>1, <3>3 DEF ServerCloses, Running, workerVars
  <2>0. ShownOf(k)
    BY <2>1, OneConnection
  <2>2. Phase(k) = "left" /\ Phase(k)' = "left"
    BY <2>1, WorkerPhase, WorkerPhaseNext
  <2>3. k \notin OpenConns'
    BY <1>0, <2>1, <2>2 DEF OpenConns
  <2>4. /\ Seen[k] = "left" /\ Seen' = Seen
        /\ OpenConns' = OpenConns \ {k}
        /\ SeenServer' = SeenServer /\ SeenServer = "up"
        /\ Requested' = Requested /\ Answering' = Answering
    <3>1. SeenServer = "up"
      BY <2>1 DEF SeenServer
    <3> QED
      BY <2>0, <2>1, <2>2, <2>3, <3>1, NotShown DEF ShownOf
  <2> QED
    BY <2>4
    DEF Wire!Close, Seen, OpenConns, Requested, Answering, SeenServer
<1>11. CASE ServerStops
  <2>1. /\ Running /\ Running' /\ UNCHANGED <<control, worker, up, down>>
        /\ server = "up" /\ server' = "down"
        /\ control = "!!" \/ ServerMayDie
    BY <1>11 DEF ServerStops, Running, workerVars
  <2>2. \A c \in Conns : Phase(c)' = Phase(c)
    BY <2>1 DEF Phase
  <2>3. UNCHANGED <<Seen, OpenConns>>
    BY <2>1, <2>2 DEF Seen, PhaseAtEnd, OpenConns
  <2>4. UNCHANGED <<Requested, Answering>>
    BY <2>1, WireNow, WireNext
  <2>5. CASE ServerMayDie
    <3>1. SeenServer = "up" /\ SeenServer' = "failed"
      BY <2>1, <2>5 DEF SeenServer
    <3>2. Wire!Fail
      BY <2>3, <2>4, <3>1
      DEF Wire!Fail, Seen, OpenConns, Requested, Answering, SeenServer
    <3> QED
      BY <3>2 DEF Wire!Next
  <2>6. CASE ~ServerMayDie
    <3>1. SeenServer = "up" /\ SeenServer' = "stopped"
      BY <2>1, <2>6 DEF SeenServer
    <3>2. Seen[ControlConn] = "left"
      BY <1>0, <2>1, <2>6, ControlPhase DEF Seen, PhaseAtEnd
    <3>3. Wire!Stop
      BY <1>0, <2>3, <2>4, <3>1, <3>2
      DEF Wire!Stop, Seen, OpenConns, Requested, Answering, SeenServer
    <3> QED
      BY <3>3 DEF Wire!Next
  <2> QED
    BY <2>5, <2>6
<1>12. ASSUME NEW k \in Workers, WorkerWrite(k) \/ WorkerRead(k)
                                   \/ ServerAnswer(k) \/ ServerCloses(k)
       PROVE  Wire!Next
  BY <1>0, <1>7, <1>8, <1>9, <1>10, <1>12 DEF Wire!Next
<1> HIDE DEF Same
<1> QED
  BY <1>00, <1>1, <1>2, <1>3, <1>4, <1>5, <1>6, <1>11, <1>12, Steps
  DEF vars, workerVars, netVars, OnlyMain, MainSpawnRequest, MainSpawnStat,
      MainJoinRequest, MainSpawnQuit, MainJoinQuit, MainJoinWorker,
      JoinsWorkers, MainPushStatQuit, MainJoinStat, RequestPush, RequestPushes,
      RequestExit, QuitPush, QuitExit, StatPop, StatUpdate, StatUpdates

(***************************************************************************)
(* Whatever fails and however the server ends, on each connection a worker *)
(* asks, waits for its one answer, asks again, and says "!" last; main()   *)
(* says "!!" and nothing else (client.cpp:121-143, 406).                   *)
(***************************************************************************)
THEOREM IsConnection == Spec => ImplementsConnection
<1>1. Init => Wire!Init
  <2> SUFFICES ASSUME Init
               PROVE  Wire!Init
    OBVIOUS
  <2>1. \A c \in Conns : Phase(c) = "new"
    BY WorkerPhase, ControlPhase DEF Init, Conns
  <2>2. /\ \A k \in Workers : DOMAIN up[k] = {} /\ Len(down[k]) = 0
        /\ Cardinality({}) = 0
    BY FS_EmptySet DEF Init
  <2>3. \A c \in Conns : UnderWay(c) = 0 /\ Returning(c) = 0
    BY <2>2 DEF UnderWay, Returning, CountIn, Conns
  <2> QED
    BY <2>1, <2>3 DEF Wire!Init, PhaseAtEnd, Init
<1>2. Init => ConnectedFirst
  BY DEF Init, ConnectedFirst
<1>3. Spec => []ConnectedFirst
  BY <1>2, ConnectedStep, OrderlyAlways, PTL DEF Spec
<1> QED
  BY <1>1, <1>3, WireStep, OrderlyAlways, PTL
  DEF Spec, ImplementsConnection, Wire!Spec
=============================================================================

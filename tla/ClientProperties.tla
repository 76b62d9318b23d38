--------------------------- MODULE ClientProperties ---------------------------
(***************************************************************************)
(* What is checked and proved of Client.                                   *)
(***************************************************************************)
EXTENDS Client

\* The number of elements of a buffer that pass a test.
CountIn(s, Test(_)) == Cardinality({x \in DOMAIN s : Test(s[x])})

\* sum[j] of Histogram::print, for one row.
Total(row) ==
  row[0] + row[1] + row[2] + row[3] + row[4]
    + row[5] + row[6] + row[7] + row[8] + row[9]

(***************************************************************************)
(* Where the requests for p are that were pushed and not yet counted.      *)
(***************************************************************************)
Queued(p) == CountIn(rq, LAMBDA m : m = p)
AtWorkers(p) ==
  Cardinality({k \in Workers : /\ worker[k] \in {"write", "read", "store"}
                               /\ request[k] = p})
Stored(p) == CountIn(sq[p], LAMBDA m : m # Quit)
AtStat(p) ==
  Cardinality({j \in Indices : pats_buffs[j] = p /\ statT[j] = "update"})

(***************************************************************************)
(* Where the answers in bin b are that were sent for p and not yet         *)
(* counted.                                                                *)
(***************************************************************************)
AnswersAtWorkers(p, b) ==
  Cardinality({k \in Workers :
                 /\ request[k] = p
                 /\ \/ worker[k] = "store" /\ BinOf(response[k]) = b
                    \/ \E x \in DOMAIN down[k] : BinOf(down[k][x]) = b})
AnswersStored(p, b) == CountIn(sq[p], LAMBDA m : m # Quit /\ BinOf(m) = b)
AnswersAtStat(p, b) ==
  Cardinality({j \in Indices : /\ pats_buffs[j] = p
                               /\ statT[j] = "update"
                               /\ BinOf(stat[j]) = b})

-----------------------------------------------------------------------------
(* Safety.                                                                 *)

(***************************************************************************)
(* A request that was pushed is in exactly one place until its response is *)
(* counted in its patient's row: none is dropped, duplicated or counted    *)
(* for somebody else, whichever threads handle it and in whatever order.   *)
(* The property ties together four tables of client.cpp and Histogram.cpp  *)
(* that must agree: the dispatch by name in the worker (client.cpp:131-    *)
(* 140), pats_buffs (298), which_person (168-174) and Histogram::map.      *)
(***************************************************************************)
RequestsConserved ==
  \A j \in Indices :
    LET p == patients[j] IN
    sent[j] = Queued(p) + AtWorkers(p) + Stored(p) + AtStat(p)
                + Total(hist[map[p]])

(***************************************************************************)
(* The same for what the server answered, bin by bin: the number on the    *)
(* wire is the number that is counted (client.cpp:130-178).                *)
(***************************************************************************)
AnswersConserved ==
  \A p \in Patients, b \in Bins :
    answered[p][b] = AnswersAtWorkers(p, b) + AnswersStored(p, b)
                       + AnswersAtStat(p, b) + hist[map[p]][b]

(***************************************************************************)
(* The report printed at the end of main() is complete and exact: N        *)
(* responses for every patient, in the bins the server's answers fall in   *)
(* (client.cpp:365-432).                                                   *)
(***************************************************************************)
ReportExact ==
  proc = "reported" =>
    \A p \in Patients :
      Total(hist[map[p]]) = N /\ hist[map[p]] = answered[p]

(***************************************************************************)
(* "quit" requests "will be pushed after request threads are joined"       *)
(* (client.cpp:125): no data request is ever behind a quit in the request  *)
(* buffer, nor still to be pushed once a quit has been.                    *)
(***************************************************************************)
QuitsComeLast ==
  /\ quits > 0 => \A j \in Indices : reqT[j] \in {"done", "failed"}
  /\ \A x, y \in DOMAIN rq : x < y /\ rq[x] = Quit => rq[y] = Quit

(***************************************************************************)
(* A worker "terminates only when, and not before, all the requests have   *)
(* been processed" (client.cpp:107).  What is checked is that all have     *)
(* been taken: once a worker has taken a quit, every request thread has    *)
(* finished and the buffer holds no data request.                          *)
(***************************************************************************)
WorkersStopLast ==
  \A k \in Workers :
    worker[k] \in {"write", "done"} /\ request[k] = Quit =>
      /\ \A j \in Indices : reqT[j] \in {"done", "failed"}
      /\ \A x \in DOMAIN rq : rq[x] = Quit

(***************************************************************************)
(* The "quit" of a stat thread "will be pushed after worker threads are    *)
(* joined" (client.cpp:165): when one is in a response buffer, or its stat *)
(* thread has taken it, no worker will store a response any more.          *)
(***************************************************************************)
StatQuitsAfterWorkers ==
  \A j \in Indices :
    (statT[j] = "done" \/ \E x \in DOMAIN sq[pats_buffs[j]] :
                            sq[pats_buffs[j]][x] = Quit)
      => \A k \in Workers : worker[k] \in {"failed", "done"}

(***************************************************************************)
(* What that order is for: when the "quit" is in a response buffer, or its *)
(* stat thread has taken it, no worker holds a request whose response it   *)
(* has still to store there.  Whatever fails, client.cpp:165 says so.      *)
(***************************************************************************)
QuitBehindResponses ==
  \A j \in Indices :
    (statT[j] = "done" \/ \E x \in DOMAIN sq[pats_buffs[j]] :
                            sq[pats_buffs[j]][x] = Quit)
      => AtWorkers(pats_buffs[j]) = 0

(***************************************************************************)
(* "exit entire server, must join all client threads first" (pa7/          *)
(* reqchannel.cpp:56): when "!!" is sent no worker of this client waits    *)
(* for an answer or has a request unanswered.                              *)
(***************************************************************************)
KillAfterWorkers ==
  control = "!!" =>
    \A k \in Workers : /\ worker[k] \in {"failed", "done"}
                       /\ down[k] = <<>>
                       /\ \A x \in DOMAIN up[k] : up[k][x] = "!"

(***************************************************************************)
(* A thread that cannot be created does not upset the shutdown: the quits  *)
(* come last, and the last two properties hold unless main() left its      *)
(* joins out for it, which it remembers in no_error (client.cpp:359, 394,  *)
(* 401).                                                                   *)
(***************************************************************************)
OrderlyUnlessSkipped ==
  /\ QuitsComeLast
  /\ no_error => StatQuitsAfterWorkers /\ KillAfterWorkers

(***************************************************************************)
(* main() leaves the block that owns the buffers, the histogram's users    *)
(* and the thread arguments only when no thread can touch them again, and  *)
(* leaves no message behind in a buffer (client.cpp:416-436).              *)
(***************************************************************************)
NothingLeftBehind ==
  proc = "reported" =>
    /\ \A j \in Indices : reqT[j] = "done" /\ statT[j] = "done"
    /\ quitT = "done"
    /\ \A k \in Workers : worker[k] = "done" /\ down[k] = <<>>
    /\ rq = <<>>
    /\ \A p \in Patients : sq[p] = <<>>

(***************************************************************************)
(* Whatever fails, the row of a patient never counts more than N           *)
(* responses, nor a bin of it more than the server gave that fall there    *)
(* (stat_thread_function, Histogram::update).                              *)
(***************************************************************************)
NeverOvercounts ==
  \A p \in Patients :
    /\ Total(hist[map[p]]) <= N
    /\ \A b \in Bins : hist[map[p]][b] <= answered[p][b]

-----------------------------------------------------------------------------
(* The client implements Survey.                                           *)

Counted == [p \in Patients |-> Total(hist[map[p]])]
Outcome ==
  IF Running THEN "running"
  ELSE IF proc = "reported" THEN "reported" ELSE "aborted"

Promise == INSTANCE Survey WITH counted <- Counted, outcome <- Outcome

\* Responses are counted one by one, never more than N for a patient, and the
\* report comes when all are counted or not at all (main() as a whole).
ImplementsSurvey == Promise!Spec

-----------------------------------------------------------------------------
(* The client, with what it sees of the server, implements Connection.     *)

ControlConn == 0
Conns == {ControlConn} \cup Workers

Phase(c) ==
  IF c = ControlConn
  THEN CASE control = "none" -> "new" [] control = "open" -> "idle"
         [] control = "!!" -> "left"
  ELSE CASE worker[c] = "unborn" -> "new" [] worker[c] = "read" -> "waiting"
         [] worker[c] = "done" -> "left"
         [] OTHER -> "idle"
PhaseAtEnd(c) ==
  IF ~Running /\ Phase(c) \in {"idle", "waiting"} THEN "gone" ELSE Phase(c)
UnderWay(c) ==
  IF c = ControlConn \/ ~Running THEN 0 ELSE CountIn(up[c], LAMBDA m : m # "!")
Returning(c) == IF c = ControlConn \/ ~Running THEN 0 ELSE Len(down[c])

Wire == INSTANCE Connection WITH
  Controls <- {ControlConn},
  phase    <- [c \in Conns |-> PhaseAtEnd(c)],
  open     <- {c \in Conns : Phase(c) # "new" /\
                              ~(c \in Workers /\ Phase(c) = "left" /\ up[c] = <<>>)},
  requests <- [c \in Conns |-> UnderWay(c)],
  answers  <- [c \in Conns |-> Returning(c)],
  server   <- IF server = "up" THEN "up"
              ELSE IF ServerMayDie THEN "failed" ELSE "stopped"

(***************************************************************************)
(* On each connection a worker asks, waits for its one answer, asks again, *)
(* and says "!" last; main() says "!!" and nothing else on the control     *)
(* connection.  recv() has no framing: two messages under way in one       *)
(* direction could be read as one (client.cpp:121-143, 406).               *)
(***************************************************************************)
ImplementsConnection == Wire!Spec

-----------------------------------------------------------------------------
(* Liveness.                                                               *)

\* The server refused a connection, or died before it was told to.
ServerFailed ==
  \/ server = "down" /\ control # "!!"
  \/ server = "up" /\ proc = "exit"

(***************************************************************************)
(* The client always ends, and with a report unless the server failed: no  *)
(* request, worker, stat or quit push waits for ever on a full or an empty *)
(* buffer (the joins of client.cpp:365-422), and no cread for a server     *)
(* that is gone (pa7/reqchannel.cpp:195).                                  *)
(***************************************************************************)
EventuallyReports ==
  <>(\/ proc = "reported"
     \/ ~Running /\ ServerFailed)
=============================================================================

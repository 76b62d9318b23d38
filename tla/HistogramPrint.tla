---------------------------- MODULE HistogramPrint ----------------------------
(***************************************************************************)
(* The histogram of pa7/client.cpp under concurrent use: each stat thread  *)
(* updates it (Histogram::update), the SIGALRM handler animate_hist prints *)
(* it in the middle (Histogram::print), and main() prints it at the end.   *)
(* The mutex is commented out in update and print.                         *)
(*                                                                         *)
(* The signal goes to any thread of the process, which is suspended while  *)
(* it runs the handler; the signal is blocked in that thread only, so a    *)
(* later alarm may start a second handler in another one.  An increment is *)
(* a load and a store.  print reads each cell twice, once to show it and   *)
(* once for the total, with output in between.                             *)
(***************************************************************************)
EXTENDS Naturals

CONSTANTS
  Patients,    \* how many rows the histogram has (3 in the code)
  Bins,        \* how many cells a row has (10 in the code)
  N,           \* responses per patient
  MaxAlarms    \* bound: how often the alarm goes off

ASSUME SizesAssumption == Patients \in Nat \ {0} /\ Bins \in Nat \ {0}
ASSUME AmountsAssumption == N \in Nat /\ MaxAlarms \in Nat

VARIABLES
  hist,      \* hist[p][b]
  stat,      \* the stat threads
  main,      \* what main() is doing
  printer,   \* the calls of print: one per alarm, and main's own
  host,      \* host[k]: the thread that runs the handler of alarm k
  alarms,    \* how often the alarm went off
  counted    \* history: counted[p][b], the responses update was called with

vars == <<hist, stat, main, printer, host, alarms, counted>>

Rows == 1..Patients
Cells == 1..Bins
Main == 0
Workers == Patients + 1     \* any of the worker threads
Threads == 0..Workers
Handlers == 1..MaxAlarms
Printers == 0..MaxAlarms    \* Main, and the handlers
NoThread == Patients + 2

\* The counts of a row, added up from the first cell to each other one.
Sums(row) ==
  LET s[b \in 0..Bins] == IF b = 0 THEN 0 ELSE s[b - 1] + row[b] IN s
RowSum(table, p) == Sums(table[p])[Bins]

TypeOK ==
  /\ hist \in [Rows -> [Cells -> 0..N]]
  /\ stat \in [Rows -> [at : {"ready", "loaded", "done"},
                        bin : Cells, seen : 0..N]]
  /\ main \in {"joining workers", "joining stats", "printing", "done"}
  /\ printer \in [Printers -> [at : {"off", "show", "add", "totals"},
                               i : 1..Bins + 1, j : Rows,
                               shown : [Rows -> 0..N],
                               sum : [Rows -> 0..N],
                               floor : [Rows -> 0..N]]]
  /\ host \in [Handlers -> Threads \cup {NoThread}]
  /\ alarms \in 0..MaxAlarms
  /\ counted \in [Rows -> [Cells -> 0..N]]

\* A call of print before its first cell; one that has not begun, and one of
\* the histogram as it is now.
NothingRead(point, floor) ==
  [at |-> point, i |-> 1, j |-> 1, shown |-> [p \in Rows |-> 0],
   sum |-> [p \in Rows |-> 0], floor |-> floor]
Off == NothingRead("off", [p \in Rows |-> 0])
PrintCall == NothingRead("show", [p \in Rows |-> RowSum(counted, p)])

Init ==
  /\ hist = [p \in Rows |-> [b \in Cells |-> 0]]
  /\ stat = [p \in Rows |-> [at |-> "ready", bin |-> 1, seen |-> 0]]
  /\ main = "joining workers"
  /\ printer = [x \in Printers |-> Off]
  /\ host = [k \in Handlers |-> NoThread]
  /\ alarms = 0
  /\ counted = hist

Suspended(t) == \E k \in Handlers : host[k] = t
Alive(t) ==
  IF t = Main THEN main # "done"
  ELSE IF t = Workers THEN main = "joining workers"
  ELSE stat[t].at # "done"

-----------------------------------------------------------------------------
(* Histogram::update, called by stat thread p                              *)

\* Mutant of RowOf: a name that the map does not know.
FirstRow(p) == 1

\* person_index = map[request]
RowOf(p) == p

UpdateLoad(p) ==
  /\ ~Suspended(p)
  /\ stat[p].at = "ready"
  /\ RowSum(counted, p) < N
  /\ \E b \in Cells :
       stat' = [stat EXCEPT ![p] = [at |-> "loaded", bin |-> b,
                                    seen |-> hist[RowOf(p)][b]]]
  /\ UNCHANGED <<hist, main, printer, host, alarms, counted>>

UpdateStore(p) ==
  /\ ~Suspended(p)
  /\ stat[p].at = "loaded"
  /\ hist' = [hist EXCEPT ![RowOf(p)][stat[p].bin] = stat[p].seen + 1]
  /\ counted' = [counted EXCEPT ![p][stat[p].bin] = @ + 1]
  /\ stat' = [stat EXCEPT ![p].at = "ready"]
  /\ UNCHANGED <<main, printer, host, alarms>>

\* It has all its responses, and main() has pushed its "quit".
StatExit(p) ==
  /\ ~Suspended(p)
  /\ stat[p].at = "ready"
  /\ RowSum(counted, p) = N
  /\ main = "joining stats"
  /\ stat' = [stat EXCEPT ![p].at = "done"]
  /\ UNCHANGED <<hist, main, printer, host, alarms, counted>>

-----------------------------------------------------------------------------
(* Histogram::print                                                        *)

Printing(x, point) ==
  /\ printer[x].at = point
  /\ x = Main => ~Suspended(Main)

\* Mutant of PrintShow: the last line is left out.
PrintShowButLast(x) ==
  LET c == printer[x] IN
  /\ Printing(x, "show")
  /\ printer' = [printer EXCEPT
       ![x] = [c EXCEPT !.at = IF c.i = Bins THEN "totals" ELSE "add",
                        !.shown[c.j] = @ + hist[c.j][c.i]]]
  /\ UNCHANGED <<hist, stat, main, host, alarms, counted>>

\* cout << hist[j][i]
PrintShow(x) ==
  LET c == printer[x] IN
  /\ Printing(x, "show")
  /\ printer' = [printer EXCEPT
       ![x] = [c EXCEPT !.at = "add", !.shown[c.j] = @ + hist[c.j][c.i]]]
  /\ UNCHANGED <<hist, stat, main, host, alarms, counted>>

\* sum[j] += hist[j][i], and on to the next cell.
PrintAdd(x) ==
  LET c == printer[x]
      last == c.j = Patients
      i == IF last THEN c.i + 1 ELSE c.i
  IN
  /\ Printing(x, "add")
  /\ printer' = [printer EXCEPT
       ![x] = [c EXCEPT !.at = IF i > Bins THEN "totals" ELSE "show",
                        !.i = i,
                        !.j = IF last THEN 1 ELSE c.j + 1,
                        !.sum[c.j] = @ + hist[c.j][c.i]]]
  /\ UNCHANGED <<hist, stat, main, host, alarms, counted>>

-----------------------------------------------------------------------------
(* animate_hist                                                            *)

\* The alarm of two seconds goes off in thread t, which starts the next one.
Alarm(t) ==
  LET k == alarms + 1 IN
  /\ alarms < MaxAlarms
  /\ Alive(t) /\ ~Suspended(t)
  /\ alarms' = k
  /\ host' = [host EXCEPT ![k] = t]
  /\ printer' = [printer EXCEPT ![k] = PrintCall]
  /\ UNCHANGED <<hist, stat, main, counted>>

HandlerReturns(k) ==
  /\ printer[k].at = "totals"
  /\ host' = [host EXCEPT ![k] = NoThread]
  /\ printer' = [printer EXCEPT ![k] = Off]
  /\ UNCHANGED <<hist, stat, main, alarms, counted>>

-----------------------------------------------------------------------------
(* main()                                                                  *)

MainJoinsWorkers ==
  /\ main = "joining workers"
  /\ ~Suspended(Main) /\ ~Suspended(Workers)
  /\ main' = "joining stats"
  /\ UNCHANGED <<hist, stat, printer, host, alarms, counted>>

BeginsLastPrint ==
  /\ main = "joining stats"
  /\ ~Suspended(Main)
  /\ main' = "printing"
  /\ printer' = [printer EXCEPT ![Main] = PrintCall]
  /\ UNCHANGED <<hist, stat, host, alarms, counted>>

\* Mutant of MainPrints: the stat threads are not joined.
MainPrintsAtOnce == BeginsLastPrint

MainPrints == (\A p \in Rows : stat[p].at = "done") /\ BeginsLastPrint

MainReturns ==
  /\ Printing(Main, "totals")
  /\ main' = "done"
  /\ printer' = [printer EXCEPT ![Main] = Off]
  /\ UNCHANGED <<hist, stat, host, alarms, counted>>

Ended == main = "done" /\ UNCHANGED vars

Next ==
  \/ \E p \in Rows : UpdateLoad(p) \/ UpdateStore(p) \/ StatExit(p)
  \/ \E x \in Printers : PrintShow(x) \/ PrintAdd(x)
  \/ \E t \in Threads : Alarm(t)
  \/ \E k \in Handlers : HandlerReturns(k)
  \/ MainJoinsWorkers \/ MainPrints \/ MainReturns
  \/ Ended

Spec == Init /\ [][Next]_vars

-----------------------------------------------------------------------------
(***************************************************************************)
(* update loses nothing although the mutex is commented out                *)
(* (pa7/Histogram.cpp:34, 37): each row has one writer.                    *)
(***************************************************************************)
NoUpdateLost == hist = counted

(***************************************************************************)
(* A print in the middle shows, for each patient, no less than was counted *)
(* when it began and no more than is counted when it ends; its total is    *)
(* never below the cells above it, which were read first                   *)
(* (Histogram.cpp:53-54).  So a later print never shows less.              *)
(***************************************************************************)
PrintedInBetween ==
  \A x \in Printers : printer[x].at = "totals" =>
    \A p \in Rows :
      /\ printer[x].floor[p] <= printer[x].shown[p]
      /\ printer[x].shown[p] <= printer[x].sum[p]
      /\ printer[x].sum[p] <= RowSum(counted, p)

(***************************************************************************)
(* The last print, by main(), is exact, even if the handler prints in the  *)
(* middle of it: the alarm is never cancelled (client.cpp:417-432).        *)
(***************************************************************************)
LastPrintExact ==
  printer[Main].at = "totals" =>
    \A p \in Rows : printer[Main].shown[p] = N /\ printer[Main].sum[p] = N
=============================================================================

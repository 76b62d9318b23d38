------------------------- MODULE HistogramPrintProofs -------------------------
(***************************************************************************)
(* Theorems about HistogramPrint, for any number of rows, cells, responses *)
(* and alarms: no increment is lost, every print of the handler shows      *)
(* something between the beginning and the end of its call, and the last   *)
(* print is exact.                                                         *)
(***************************************************************************)
EXTENDS HistogramPrint, TLAPS, WellFoundedInduction

-----------------------------------------------------------------------------
(* The sums of a row.  Sums is a recursive function; what holds of all its *)
(* values follows from what holds of the least exception.                  *)

(***************************************************************************)
(* What holds of 0 and passes from each number to the next holds of all.   *)
(***************************************************************************)
LEMMA UpTo ==
  ASSUME NEW B \in Nat, NEW S, 0 \in S, \A b \in 0..B : b \in S /\ b < B => b + 1 \in S
  PROVE  \A b \in 0..B : b \in S
<1> DEFINE T == {b \in 0..B : b \notin S}
<1> SUFFICES ASSUME T # {} PROVE FALSE
  OBVIOUS
<1>1. T \subseteq Nat
  OBVIOUS
<1>2. PICK b \in T : \A a \in T : ~(<<a, b>> \in OpToRel(<, Nat))
  BY <1>1, NatLessThanWellFounded, WFMin
<1>3. \A a \in T : <<a, b>> \in OpToRel(<, Nat) <=> a < b
  BY <1>1 DEF OpToRel
<1>4. b \in 0..B /\ b \notin S /\ b # 0
  OBVIOUS
<1>5. b - 1 \in 0..B /\ b - 1 < b
  BY <1>4
<1>6. b - 1 \notin T
  BY <1>2, <1>3, <1>5
<1>7. b - 1 \in S
  BY <1>5, <1>6
<1> QED
  BY <1>4, <1>5, <1>7

(***************************************************************************)
(* The recursion that Sums states has a solution, cell by cell.            *)
(***************************************************************************)
LEMMA SumsDo ==
  ASSUME NEW row \in [Cells -> Nat]
  PROVE  /\ Sums(row)[0] = 0
         /\ \A b \in Cells : Sums(row)[b] = Sums(row)[b - 1] + row[b]
<1>0. Bins \in Nat /\ Cells = 1..Bins
  BY SizesAssumption DEF Cells
<1> DEFINE Adds(s, m) ==
      s = [b \in 0..m |-> IF b = 0 THEN 0 ELSE s[b - 1] + row[b]]
    P == {m \in 0..Bins : \E s : Adds(s, m)}
<1>1. 0 \in P
  <2>1. Adds([b \in 0..0 |-> 0], 0)
    OBVIOUS
  <2>2. \E s : Adds(s, 0)
    BY <2>1
  <2>3. 0 \in 0..Bins
    BY <1>0
  <2> QED
    BY <2>2, <2>3
<1>2. ASSUME NEW m \in 0..Bins, m \in P, m < Bins
      PROVE  m + 1 \in P
  <2>1. PICK s : Adds(s, m)
    BY <1>2
  <2> DEFINE r == [b \in 0..m + 1 |-> IF b = m + 1 THEN s[m] + row[m + 1] ELSE s[b]]
  <2>2. ASSUME NEW b \in 0..m + 1
        PROVE  r[b] = IF b = 0 THEN 0 ELSE r[b - 1] + row[b]
    <3>1. CASE b = m + 1
      <4>1. b - 1 = m /\ m \in 0..m + 1 /\ m # m + 1 /\ b # 0
        BY <3>1, <1>0
      <4> QED
        BY <4>1, <3>1
    <3>2. CASE b # m + 1
      <4>1. b \in 0..m
        BY <3>2, <1>0
      <4>2. s[b] = IF b = 0 THEN 0 ELSE s[b - 1] + row[b]
        BY <2>1, <4>1
      <4>3. b # 0 => b - 1 \in 0..m + 1 /\ b - 1 # m + 1
        BY <4>1, <1>0
      <4> QED
        BY <3>2, <4>2, <4>3
    <3> QED
      BY <3>1, <3>2
  <2>3. Adds(r, m + 1)
    BY <2>2
  <2>4. m + 1 \in 0..Bins
    BY <1>0, <1>2
  <2> QED
    BY <2>3, <2>4
<1>3. Bins \in P
  <2> HIDE DEF P
  <2>1. \A m \in 0..Bins : m \in P /\ m < Bins => m + 1 \in P
    BY <1>2
  <2>2. \A b \in 0..Bins : b \in P
    BY <1>0, <1>1, <2>1, UpTo
  <2> QED
    BY <1>0, <2>2
<1>4. Adds(Sums(row), Bins)
  <2>1. \E s : Adds(s, Bins)
    BY <1>3
  <2> QED
    BY <2>1 DEF Sums
<1>5. ASSUME NEW b \in 0..Bins
      PROVE  Sums(row)[b] = IF b = 0 THEN 0 ELSE Sums(row)[b - 1] + row[b]
  BY <1>4
<1> QED
  BY <1>0, <1>5

(***************************************************************************)
(* They are numbers.                                                       *)
(***************************************************************************)
LEMMA SumsType ==
  ASSUME NEW row \in [Cells -> Nat]
  PROVE  \A b \in 0..Bins : Sums(row)[b] \in Nat
<1>0. Bins \in Nat /\ Cells = 1..Bins
  BY SizesAssumption DEF Cells
<1> DEFINE P == {b \in 0..Bins : Sums(row)[b] \in Nat}
<1>1. 0 \in P
  BY <1>0, SumsDo
<1>2. ASSUME NEW b \in 0..Bins, b \in P, b < Bins
      PROVE  b + 1 \in P
  <2>1. b + 1 \in Cells /\ b + 1 \in 0..Bins /\ (b + 1) - 1 = b
    BY <1>0, <1>2
  <2>2. Sums(row)[b + 1] = Sums(row)[b] + row[b + 1]
    BY <2>1, SumsDo
  <2>3. row[b + 1] \in Nat /\ Sums(row)[b] \in Nat
    BY <1>2, <2>1
  <2> QED
    BY <2>1, <2>2, <2>3
<1>3. \A b \in 0..Bins : b \in P
  <2> HIDE DEF P
  <2>1. \A b \in 0..Bins : b \in P /\ b < Bins => b + 1 \in P
    BY <1>2
  <2> QED
    BY <1>0, <1>1, <2>1, UpTo
<1> QED
  BY <1>3

(***************************************************************************)
(* All cells are at zero: nothing adds up to nothing.                      *)
(***************************************************************************)
LEMMA SumsOfZero ==
  ASSUME NEW row \in [Cells -> Nat], \A b \in Cells : row[b] = 0
  PROVE  Sums(row)[Bins] = 0
<1>0. Bins \in Nat /\ Cells = 1..Bins
  BY SizesAssumption DEF Cells
<1> DEFINE P == {b \in 0..Bins : Sums(row)[b] = 0}
<1>1. 0 \in P
  BY <1>0, SumsDo
<1>2. ASSUME NEW b \in 0..Bins, b \in P, b < Bins
      PROVE  b + 1 \in P
  <2>1. b + 1 \in Cells /\ b + 1 \in 0..Bins /\ (b + 1) - 1 = b
    BY <1>0, <1>2
  <2>2. Sums(row)[b + 1] = Sums(row)[b] + row[b + 1]
    BY <2>1, SumsDo
  <2> QED
    BY <1>2, <2>1, <2>2
<1>3. \A b \in 0..Bins : b \in P
  <2> HIDE DEF P
  <2>1. \A b \in 0..Bins : b \in P /\ b < Bins => b + 1 \in P
    BY <1>2
  <2> QED
    BY <1>0, <1>1, <2>1, UpTo
<1> QED
  BY <1>0, <1>3

(***************************************************************************)
(* Up to a cell there is no more than in the whole row, and no cell holds  *)
(* more than the row.                                                      *)
(***************************************************************************)
LEMMA SumsRise ==
  ASSUME NEW row \in [Cells -> Nat]
  PROVE  /\ \A b \in 0..Bins : Sums(row)[b] <= Sums(row)[Bins]
         /\ \A b \in Cells : row[b] <= Sums(row)[Bins]
<1>0. Bins \in Nat /\ Cells = 1..Bins
  BY SizesAssumption DEF Cells
<1> DEFINE P == {b \in 0..Bins : \A a \in 0..b : Sums(row)[a] <= Sums(row)[b]}
<1>1. 0 \in P
  <2>1. Sums(row)[0] <= Sums(row)[0] /\ 0..0 = {0}
    BY <1>0, SumsType
  <2> QED
    BY <1>0, <2>1
<1>2. ASSUME NEW b \in 0..Bins, b \in P, b < Bins
      PROVE  b + 1 \in P
  <2>1. b + 1 \in Cells /\ b + 1 \in 0..Bins /\ (b + 1) - 1 = b
    BY <1>0, <1>2
  <2>2. Sums(row)[b + 1] = Sums(row)[b] + row[b + 1] /\ row[b + 1] \in Nat
    BY <2>1, SumsDo
  <2>3. \A a \in 0..Bins : Sums(row)[a] \in Nat
    BY SumsType
  <2>4. ASSUME NEW a \in 0..b + 1
        PROVE  Sums(row)[a] <= Sums(row)[b + 1]
    <3>1. CASE a = b + 1
      BY <2>1, <2>3, <3>1
    <3>2. CASE a # b + 1
      <4>1. a \in 0..b /\ a \in 0..Bins
        BY <3>2, <1>0
      <4>2. Sums(row)[a] <= Sums(row)[b]
        BY <1>2, <4>1
      <4>3. Sums(row)[a] \in Nat /\ Sums(row)[b] \in Nat
        BY <2>3, <4>1
      <4> QED
        BY <2>2, <4>2, <4>3
    <3> QED
      BY <3>1, <3>2
  <2> QED
    BY <2>1, <2>4
<1>3. \A b \in 0..Bins : b \in P
  <2> HIDE DEF P
  <2>1. \A b \in 0..Bins : b \in P /\ b < Bins => b + 1 \in P
    BY <1>2
  <2> QED
    BY <1>0, <1>1, <2>1, UpTo
<1>4. \A b \in 0..Bins : Sums(row)[b] <= Sums(row)[Bins]
  BY <1>0, <1>3
<1>5. ASSUME NEW b \in Cells
      PROVE  row[b] <= Sums(row)[Bins]
  <2>1. b \in 0..Bins /\ b - 1 \in 0..Bins /\ Bins \in 0..Bins
    BY <1>0
  <2>2. Sums(row)[b] = Sums(row)[b - 1] + row[b] /\ row[b] \in Nat
    BY SumsDo
  <2>3. /\ Sums(row)[b - 1] \in Nat /\ Sums(row)[b] \in Nat
        /\ Sums(row)[Bins] \in Nat /\ Sums(row)[b] <= Sums(row)[Bins]
    BY <1>4, <2>1, SumsType
  <2> QED
    BY <2>2, <2>3
<1> QED
  BY <1>4, <1>5

(***************************************************************************)
(* One more in cell c is one more in every sum that includes c.            *)
(***************************************************************************)
LEMMA SumsGrow ==
  ASSUME NEW row \in [Cells -> Nat], NEW c \in Cells,
         NEW more \in [Cells -> Nat], more = [row EXCEPT ![c] = @ + 1]
  PROVE  \A b \in 0..Bins :
           Sums(more)[b] = Sums(row)[b] + (IF c <= b THEN 1 ELSE 0)
<1>0. Bins \in Nat /\ Cells = 1..Bins
  BY SizesAssumption DEF Cells
<1> DEFINE P == {b \in 0..Bins :
                   Sums(more)[b] = Sums(row)[b] + (IF c <= b THEN 1 ELSE 0)}
<1>1. 0 \in P
  <2>1. ~(c <= 0) /\ 0 \in 0..Bins
    BY <1>0
  <2>2. Sums(row)[0] = 0 /\ Sums(more)[0] = 0
    BY SumsDo
  <2> QED
    BY <2>1, <2>2
<1>2. ASSUME NEW b \in 0..Bins, b \in P, b < Bins
      PROVE  b + 1 \in P
  <2>1. b + 1 \in Cells /\ b + 1 \in 0..Bins /\ (b + 1) - 1 = b
    BY <1>0, <1>2
  <2>2. /\ Sums(row)[b + 1] = Sums(row)[b] + row[b + 1]
        /\ Sums(more)[b + 1] = Sums(more)[b] + more[b + 1]
    BY <2>1, SumsDo
  <2>3. /\ row[b + 1] \in Nat /\ Sums(row)[b] \in Nat
        /\ more[b + 1] = row[b + 1] + (IF c = b + 1 THEN 1 ELSE 0)
    BY <2>1, SumsType
  <2>4. Sums(more)[b] = Sums(row)[b] + (IF c <= b THEN 1 ELSE 0)
    BY <1>2
  <2>5. c \in Nat /\ b \in Nat
    BY <1>0
  <2>6. Sums(more)[b + 1] = Sums(row)[b + 1] + (IF c <= b + 1 THEN 1 ELSE 0)
    BY <2>2, <2>3, <2>4, <2>5
  <2> QED
    BY <2>1, <2>6
<1>3. \A b \in 0..Bins : b \in P
  <2> HIDE DEF P
  <2>1. \A b \in 0..Bins : b \in P /\ b < Bins => b + 1 \in P
    BY <1>2
  <2> QED
    BY <1>0, <1>1, <2>1, UpTo
<1> QED
  BY <1>3

-----------------------------------------------------------------------------
(* The invariant.                                                          *)

(***************************************************************************)
(* What a stat thread has loaded is still in the cell, because no other    *)
(* thread writes to its row and the handlers only read.                    *)
(***************************************************************************)
Fresh == \A p \in Rows :
  stat[p].at = "loaded" => stat[p].seen = hist[p][stat[p].bin]

\* A stat thread that is about to store has not yet counted all its responses.
Bounded == \A p \in Rows :
  /\ RowSum(hist, p) <= N
  /\ stat[p].at = "loaded" => RowSum(hist, p) < N
  /\ stat[p].at = "done" => RowSum(hist, p) = N

\* main() prints a histogram that is complete.
Complete == printer[Main].at # "off" => \A p \in Rows : printer[Main].floor[p] = N

Calls == [at : {"off", "show", "add", "totals"}, i : 1..Bins + 1, j : Rows,
          shown : [Rows -> Nat], sum : [Rows -> Nat], floor : [Rows -> 0..N]]

Kinds ==
  /\ hist \in [Rows -> [Cells -> Nat]]
  /\ stat \in [Rows -> [at : {"ready", "loaded", "done"}, bin : Cells, seen : 0..N]]
  /\ main \in {"joining workers", "joining stats", "printing", "done"}
  /\ printer \in [Printers -> Calls]
  /\ host \in [Handlers -> Threads \cup {NoThread}]
  /\ alarms \in 0..MaxAlarms

(***************************************************************************)
(* How many cells of row p a call of print has added up, and how many it   *)
(* has shown: one more in the row it is at, between the two reads.         *)
(***************************************************************************)
Between(c, p) == c.at = "add" /\ p = c.j
Added(c, p) == IF p < c.j THEN c.i ELSE c.i - 1
Shown(c, p) == IF Between(c, p) THEN c.i ELSE Added(c, p)

(***************************************************************************)
(* What it has added up is at most what is now in these cells; what it has *)
(* shown is at most that, but for the cell between the two reads; and what *)
(* is missing to the count at the beginning is in the cells to come.       *)
(***************************************************************************)
InBetween(c, p) ==
  /\ c.sum[p] <= Sums(hist[p])[Added(c, p)]
  /\ c.shown[p] <= c.sum[p] + (IF Between(c, p) THEN hist[p][c.i] ELSE 0)
  /\ c.floor[p] + Sums(hist[p])[Shown(c, p)] <= c.shown[p] + RowSum(hist, p)

Reads(c) ==
  /\ c.at = "off" => \A p \in Rows : c.shown[p] = 0 /\ c.sum[p] = 0
  /\ c.at \in {"show", "add"} => c.i <= Bins
  /\ c.at = "totals" => c.i = Bins + 1 /\ c.j = 1
  /\ c.at # "off" => \A p \in Rows : InBetween(c, p)

Reading == \A x \in Printers : Reads(printer[x])

IInv ==
  /\ Kinds /\ Fresh /\ NoUpdateLost
  /\ Bounded /\ Complete /\ Reading

-----------------------------------------------------------------------------
(* The calls of print.                                                     *)

\* The numbers of the rows, cells and printers.
LEMMA Numbers ==
  /\ Bins \in Nat \ {0} /\ Patients \in Nat \ {0} /\ N \in Nat /\ MaxAlarms \in Nat
  /\ Rows = 1..Patients /\ Cells = 1..Bins /\ 1 \in Rows /\ 1 \in Cells
  /\ Printers = 0..MaxAlarms /\ Handlers = 1..MaxAlarms /\ Main = 0
BY SizesAssumption, AmountsAssumption
   DEF Rows, Cells, Printers, Handlers, Main

\* The fields of a call.
LEMMA CallFields ==
  ASSUME NEW c \in Calls
  PROVE  /\ c.at \in {"off", "show", "add", "totals"} /\ c.i \in 1..Bins + 1
         /\ c.j \in Rows /\ c.shown \in [Rows -> Nat] /\ c.sum \in [Rows -> Nat]
         /\ c.floor \in [Rows -> 0..N]
BY DEF Calls

\* The cells of a call that is under way are cells of the histogram.
LEMMA CellsRead ==
  ASSUME NEW c \in Calls, Reads(c), c.at # "off", NEW p \in Rows
  PROVE  /\ Added(c, p) \in 0..Bins /\ Shown(c, p) \in 0..Bins
         /\ Between(c, p) => c.i \in Cells
<1>1. c.i \in 1..Bins + 1 /\ c.j \in Rows /\ c.at \in {"off", "show", "add", "totals"}
  BY CallFields
<1>2. /\ c.at \in {"show", "add"} => c.i <= Bins
      /\ c.at = "totals" => c.i = Bins + 1 /\ c.j = 1
  BY DEF Reads
<1>3. p \in 1..Patients /\ c.j \in 1..Patients /\ Patients \in Nat /\ Bins \in Nat
  BY <1>1, Numbers
<1>4. Added(c, p) \in 0..Bins
  BY <1>1, <1>2, <1>3 DEF Added
<1>5. Between(c, p) => c.i \in 1..Bins
  BY <1>1, <1>2, <1>3 DEF Between
<1> QED
  BY <1>3, <1>4, <1>5, Numbers DEF Shown

\* The sums of a row are numbers, and grow towards its end.
LEMMA RowSums ==
  ASSUME Kinds, NEW p \in Rows
  PROVE  /\ hist[p] \in [Cells -> Nat]
         /\ \A b \in 0..Bins : /\ Sums(hist[p])[b] \in Nat
                               /\ Sums(hist[p])[b] <= RowSum(hist, p)
         /\ RowSum(hist, p) \in Nat
         /\ \A b \in Cells : hist[p][b] \in Nat /\ hist[p][b] <= RowSum(hist, p)
<1>1. hist[p] \in [Cells -> Nat]
  BY DEF Kinds
<1>2. Bins \in 0..Bins
  BY Numbers
<1> QED
  BY <1>1, <1>2, SumsType, SumsRise DEF RowSum

(***************************************************************************)
(* A call that has read nothing yet.                                       *)
(***************************************************************************)
LEMMA NothingReadIs ==
  ASSUME NEW point \in {"off", "show"}, NEW floor \in [Rows -> 0..N],
         NEW c, c = NothingRead(point, floor)
  PROVE  /\ c \in Calls /\ c.at = point /\ c.i = 1 /\ c.j = 1 /\ c.floor = floor
         /\ \A p \in Rows : c.shown[p] = 0 /\ c.sum[p] = 0
<1>1. 1 \in 1..Bins + 1 /\ 1 \in Rows
  BY Numbers
<1>2. [p \in Rows |-> 0] \in [Rows -> Nat]
  OBVIOUS
<1> QED
  BY <1>1, <1>2 DEF NothingRead, Calls

\* One that has not begun.
LEMMA OffReads ==
  ASSUME NEW c, c = Off
  PROVE  c \in Calls /\ c.at = "off" /\ Reads(c)
<1>1. [p \in Rows |-> 0] \in [Rows -> 0..N]
  BY Numbers
<1>2. PICK floor \in [Rows -> 0..N] : floor = [p \in Rows |-> 0]
  BY <1>1
<1>3. c = NothingRead("off", floor)
  BY <1>2 DEF Off
<1>4. /\ c \in Calls /\ c.at = "off"
      /\ \A p \in Rows : c.shown[p] = 0 /\ c.sum[p] = 0
  BY <1>3, NothingReadIs
<1> QED
  BY <1>4 DEF Reads

(***************************************************************************)
(* One that begins: what it has to show is what has been counted.          *)
(***************************************************************************)
LEMMA CallReads ==
  ASSUME Kinds, NoUpdateLost, Bounded, NEW c, c = PrintCall
  PROVE  /\ c \in Calls /\ c.at = "show" /\ Reads(c)
         /\ \A p \in Rows : c.floor[p] = RowSum(hist, p)
<1>1. \A p \in Rows : RowSum(hist, p) \in 0..N
  BY RowSums, Numbers DEF Bounded
<1>2. PICK floor \in [Rows -> 0..N] : floor = [p \in Rows |-> RowSum(hist, p)]
  BY <1>1
<1>3. c = NothingRead("show", floor)
  BY <1>2 DEF PrintCall, NoUpdateLost
<1>4. /\ c \in Calls /\ c.at = "show" /\ c.i = 1 /\ c.j = 1 /\ c.floor = floor
      /\ \A p \in Rows : c.shown[p] = 0 /\ c.sum[p] = 0
  BY <1>3, NothingReadIs
<1>5. ASSUME NEW p \in Rows
      PROVE  InBetween(c, p)
  <2>1. ~Between(c, p) /\ Added(c, p) = 0 /\ Shown(c, p) = 0
    <3>1. ~(p < 1)
      BY Numbers
    <3> QED
      BY <1>4, <3>1 DEF Between, Added, Shown
  <2>2. Sums(hist[p])[0] = 0 /\ RowSum(hist, p) \in Nat
    BY RowSums, SumsDo
  <2>3. c.floor[p] = RowSum(hist, p) /\ c.shown[p] = 0 /\ c.sum[p] = 0
    BY <1>2, <1>4
  <2> QED
    BY <2>1, <2>2, <2>3 DEF InBetween
<1>6. Reads(c)
  BY <1>4, <1>5, Numbers DEF Reads
<1> QED
  BY <1>2, <1>4, <1>6

(***************************************************************************)
(* The first of the two reads of a cell: it shows what is there.           *)
(***************************************************************************)
LEMMA ShowReads ==
  ASSUME Kinds, NEW c \in Calls, Reads(c), c.at = "show",
         NEW d \in Calls, d.at = "add", d.i = c.i, d.j = c.j, d.sum = c.sum,
         d.floor = c.floor,
         d.shown = [c.shown EXCEPT ![c.j] = @ + hist[c.j][c.i]]
  PROVE  Reads(d)
<1>1. /\ c.i \in 1..Bins /\ c.j \in Rows /\ c.i \in Cells
      /\ c.shown \in [Rows -> Nat] /\ c.sum \in [Rows -> Nat]
      /\ c.floor \in [Rows -> 0..N]
  <2>1. c.i <= Bins
    BY DEF Reads
  <2>2. /\ c.i \in 1..Bins + 1 /\ c.j \in Rows /\ c.shown \in [Rows -> Nat]
        /\ c.sum \in [Rows -> Nat] /\ c.floor \in [Rows -> 0..N]
    BY CallFields
  <2>3. Bins \in Nat /\ Cells = 1..Bins
    BY ONLY Numbers
  <2>4. c.i \in 1..Bins
    BY <2>1, <2>2, <2>3
  <2> QED
    BY <2>2, <2>3, <2>4
<1>2. ASSUME NEW p \in Rows
      PROVE  InBetween(d, p)
  <2>1. /\ c.sum[p] <= Sums(hist[p])[Added(c, p)] /\ c.shown[p] <= c.sum[p]
        /\ c.floor[p] + Sums(hist[p])[Added(c, p)] <= c.shown[p] + RowSum(hist, p)
    <3>1. InBetween(c, p)
      BY DEF Reads
    <3>2. ~Between(c, p) /\ Shown(c, p) = Added(c, p)
      BY DEF Between, Shown
    <3>3. c.shown[p] <= c.sum[p] + 0
      BY <3>1, <3>2 DEF InBetween
    <3>4. c.shown[p] <= c.sum[p]
      BY <1>1, <3>3
    <3> QED
      BY <3>1, <3>2, <3>4 DEF InBetween
  <2>2. Added(d, p) = Added(c, p)
    BY DEF Added
  <2>3. /\ c.shown[p] \in Nat /\ c.sum[p] \in Nat /\ c.floor[p] \in 0..N
        /\ RowSum(hist, p) \in Nat /\ hist[p] \in [Cells -> Nat] /\ N \in Nat
        /\ Sums(hist[p])[Added(c, p)] \in Nat
    BY <1>1, CellsRead, RowSums, Numbers
  <2>4. CASE p # c.j
    <3>1. d.shown[p] = c.shown[p] /\ ~Between(d, p) /\ Shown(d, p) = Added(c, p)
      BY <1>1, <2>2, <2>4 DEF Between, Shown
    <3>2. c.shown[p] <= c.sum[p] + 0
      BY <2>1, <2>3
    <3> QED
      BY <2>1, <2>2, <3>1, <3>2 DEF InBetween
  <2>5. CASE p = c.j
    <3>1. /\ d.shown[p] = c.shown[p] + hist[p][c.i]
          /\ Between(d, p) /\ Shown(d, p) = c.i /\ Added(c, p) = c.i - 1
      <4>1. d.shown[p] = c.shown[p] + hist[p][c.i]
        BY <1>1, <2>5
      <4>2. Between(d, p) /\ d.i = c.i
        BY <2>5 DEF Between
      <4>3. ~(p < c.j)
        <5>1. p \in Nat
          BY ONLY p \in Rows, Numbers
        <5> QED
          BY <2>5, <5>1
      <4> QED
        BY <4>1, <4>2, <4>3 DEF Shown, Added
    <3>2. Sums(hist[p])[c.i] = Sums(hist[p])[c.i - 1] + hist[p][c.i]
      BY <1>1, <2>3, SumsDo
    <3>3. hist[p][c.i] \in Nat
      BY <1>1, <2>3
    <3>4. c.sum[p] <= Sums(hist[p])[Added(d, p)]
      BY <2>1, <2>2
    <3>5. d.shown[p] <= c.sum[p] + hist[p][c.i]
      BY <2>1, <2>3, <3>1, <3>3
    <3>6. c.floor[p] + Sums(hist[p])[c.i] <= d.shown[p] + RowSum(hist, p)
      BY <2>1, <2>3, <3>1, <3>2, <3>3
    <3> QED
      BY <3>1, <3>4, <3>5, <3>6 DEF InBetween
  <2> QED
    BY <2>4, <2>5
<1>3. d.i <= Bins
  BY <1>1, Numbers
<1> QED
  BY <1>2, <1>3 DEF Reads

(***************************************************************************)
(* The second one adds what is there, which is no less by then.            *)
(***************************************************************************)
LEMMA AddReads ==
  ASSUME Kinds, NEW c \in Calls, Reads(c), c.at = "add",
         NEW d \in Calls,
         d.i = IF c.j = Patients THEN c.i + 1 ELSE c.i,
         d.j = IF c.j = Patients THEN 1 ELSE c.j + 1,
         d.at = IF d.i > Bins THEN "totals" ELSE "show",
         d.shown = c.shown, d.floor = c.floor,
         d.sum = [c.sum EXCEPT ![c.j] = @ + hist[c.j][c.i]]
  PROVE  Reads(d)
<1>1. /\ c.i \in 1..Bins /\ c.j \in Rows /\ c.i \in Cells
      /\ c.shown \in [Rows -> Nat] /\ c.sum \in [Rows -> Nat]
      /\ c.floor \in [Rows -> 0..N]
  <2>1. c.i <= Bins
    BY DEF Reads
  <2>2. /\ c.i \in 1..Bins + 1 /\ c.j \in Rows /\ c.shown \in [Rows -> Nat]
        /\ c.sum \in [Rows -> Nat] /\ c.floor \in [Rows -> 0..N]
    BY CallFields
  <2>3. Bins \in Nat /\ Cells = 1..Bins
    BY ONLY Numbers
  <2>4. c.i \in 1..Bins
    BY <2>1, <2>2, <2>3
  <2> QED
    BY <2>2, <2>3, <2>4
<1>2. ASSUME NEW p \in Rows
      PROVE  InBetween(d, p)
  <2>1. /\ c.sum[p] <= Sums(hist[p])[Added(c, p)]
        /\ c.shown[p] <= c.sum[p] + (IF Between(c, p) THEN hist[p][c.i] ELSE 0)
        /\ c.floor[p] + Sums(hist[p])[Shown(c, p)] <= c.shown[p] + RowSum(hist, p)
    BY DEF Reads, InBetween
  <2>2. ~Between(d, p) /\ Shown(d, p) = Added(d, p) /\ Added(d, p) = Shown(c, p)
    <3>1. d.at # "add"
      OBVIOUS
    <3>2. p \in 1..Patients /\ c.j \in 1..Patients /\ c.i \in Nat /\ Patients \in Nat
      BY <1>1, Numbers
    <3>3. Added(d, p) = Shown(c, p)
      <4>1. CASE c.j = Patients
        <5>1. Added(d, p) = c.i
          BY <3>2, <4>1 DEF Added
        <5>2. Shown(c, p) = c.i
          BY <3>2, <4>1 DEF Added, Shown, Between
        <5> QED
          BY <5>1, <5>2
      <4>2. CASE c.j # Patients
        <5>1. Added(d, p) = IF p < c.j + 1 THEN c.i ELSE c.i - 1
          BY <4>2 DEF Added
        <5>2. Shown(c, p) = IF p = c.j \/ p < c.j THEN c.i ELSE c.i - 1
          BY DEF Added, Shown, Between
        <5> QED
          BY <3>2, <5>1, <5>2
      <4> QED
        BY <4>1, <4>2
    <3> QED
      BY <3>1, <3>3 DEF Between, Shown
  <2>3. /\ c.shown[p] \in Nat /\ c.sum[p] \in Nat /\ hist[p] \in [Cells -> Nat]
        /\ Sums(hist[p])[Added(c, p)] \in Nat /\ hist[p][c.i] \in Nat
    BY <1>1, CellsRead, RowSums
  <2>4. CASE p # c.j
    <3>1. d.sum[p] = c.sum[p] /\ ~Between(c, p) /\ Shown(c, p) = Added(c, p)
      BY <1>1, <2>4 DEF Between, Shown
    <3>2. d.sum[p] <= Sums(hist[p])[Added(d, p)]
      BY <2>1, <2>2, <3>1
    <3> QED
      BY <2>1, <2>2, <3>1, <3>2 DEF InBetween
  <2>5. CASE p = c.j
    <3>1. /\ d.sum[p] = c.sum[p] + hist[p][c.i]
          /\ Between(c, p) /\ Shown(c, p) = c.i /\ Added(c, p) = c.i - 1
      <4>1. d.sum[p] = c.sum[p] + hist[p][c.i]
        BY <1>1, <2>5
      <4>2. ~(p < c.j) /\ Between(c, p)
        BY <1>1, <2>5, Numbers DEF Between
      <4> QED
        BY <4>1, <4>2 DEF Shown, Added
    <3>2. Sums(hist[p])[c.i] = Sums(hist[p])[c.i - 1] + hist[p][c.i]
      BY <1>1, <2>3, SumsDo
    <3>3. d.sum[p] <= Sums(hist[p])[Added(d, p)]
      BY <2>1, <2>2, <2>3, <3>1, <3>2
    <3>4. d.shown[p] <= d.sum[p] + 0
      BY <2>1, <2>3, <3>1
    <3> QED
      BY <2>1, <2>2, <3>3, <3>4 DEF InBetween
  <2> QED
    BY <2>4, <2>5
<1>3. /\ d.at # "off" /\ (d.at \in {"show", "add"} => d.i <= Bins)
      /\ d.at = "totals" => d.i = Bins + 1 /\ d.j = 1
  <2>1. /\ c.i \in Nat /\ c.i <= Bins /\ c.j \in 1..Patients
        /\ Bins \in Nat /\ Patients \in Nat
    BY <1>1, Numbers
  <2>2. d.at # "off" /\ (d.at \in {"show", "add"} => d.i <= Bins)
    BY <2>1
  <2>3. d.at = "totals" => d.i = Bins + 1 /\ d.j = 1
    BY <2>1
  <2> QED
    BY <2>2, <2>3
<1> QED
  BY <1>2, <1>3 DEF Reads

(***************************************************************************)
(* What PrintShow makes of a call of print, and what PrintAdd makes of it. *)
(***************************************************************************)
CellShown(c, v) == [c EXCEPT !.at = "add", !.shown[c.j] = @ + v]
CellAdded(c, point, y, q, v) ==
  [c EXCEPT !.at = point, !.i = y, !.j = q, !.sum[c.j] = @ + v]

\* The fields of the first one.
LEMMA Shows ==
  ASSUME NEW c \in Calls, NEW v \in Nat, NEW d, d = CellShown(c, v)
  PROVE  /\ d \in Calls /\ d.at = "add" /\ d.i = c.i /\ d.j = c.j
         /\ d.shown = [c.shown EXCEPT ![c.j] = @ + v]
         /\ d.sum = c.sum /\ d.floor = c.floor
<1>1. c.shown \in [Rows -> Nat] /\ c.j \in Rows
  BY CallFields
<1>2. [c.shown EXCEPT ![c.j] = @ + v] \in [Rows -> Nat]
  BY <1>1
<1> QED
  BY <1>2 DEF Calls, CellShown

\* And of the second.
LEMMA Adds ==
  ASSUME NEW c \in Calls, NEW v \in Nat, NEW point \in {"show", "totals"},
         NEW y \in 1..Bins + 1, NEW q \in Rows,
         NEW d, d = CellAdded(c, point, y, q, v)
  PROVE  /\ d \in Calls /\ d.at = point /\ d.i = y /\ d.j = q
         /\ d.sum = [c.sum EXCEPT ![c.j] = @ + v]
         /\ d.shown = c.shown /\ d.floor = c.floor
<1>1. c.sum \in [Rows -> Nat] /\ c.j \in Rows
  BY CallFields
<1>2. [c.sum EXCEPT ![c.j] = @ + v] \in [Rows -> Nat]
  BY <1>1
<1> QED
  BY <1>2 DEF Calls, CellAdded

-----------------------------------------------------------------------------
(* The invariant is kept.                                                  *)

\* It holds of an empty histogram, where no call of print has begun.
LEMMA InitIInv == Init => IInv
<1> SUFFICES ASSUME Init PROVE IInv
  OBVIOUS
<1>1. PICK c : c = Off
  OBVIOUS
<1>2. c \in Calls /\ c.at = "off" /\ Reads(c)
  BY <1>1, OffReads
<1>3. \A x \in Printers : printer[x] = c
  BY <1>1 DEF Init
<1>4. Kinds
  <2>1. printer \in [Printers -> Calls]
    BY <1>1, <1>2 DEF Init
  <2>2. hist \in [Rows -> [Cells -> Nat]]
    BY DEF Init
  <2>3. stat \in [Rows -> [at : {"ready", "loaded", "done"}, bin : Cells, seen : 0..N]]
    <3>1. 0 \in 0..N /\ 1 \in Cells
      BY Numbers
    <3> QED
      BY <3>1 DEF Init
  <2>4. /\ main \in {"joining workers", "joining stats", "printing", "done"}
        /\ alarms \in 0..MaxAlarms
        /\ host \in [Handlers -> Threads \cup {NoThread}]
    <3>1. 0 \in 0..MaxAlarms
      BY Numbers
    <3> QED
      BY <3>1 DEF Init
  <2> QED
    BY <2>1, <2>2, <2>3, <2>4 DEF Kinds
<1>5. Bounded
  <2>1. ASSUME NEW p \in Rows
        PROVE  RowSum(hist, p) = 0 /\ stat[p].at = "ready"
    <3>1. \A b \in Cells : hist[p][b] = 0
      BY DEF Init
    <3> QED
      BY <1>4, <3>1, RowSums, SumsOfZero DEF Init, RowSum
  <2> QED
    BY <2>1, Numbers DEF Bounded
<1>6. Complete /\ Reading
  <2>1. Main \in Printers
    BY Numbers
  <2> QED
    BY <1>2, <1>3, <2>1 DEF Complete, Reading
<1>7. Fresh /\ NoUpdateLost
  BY DEF Init, Fresh, NoUpdateLost
<1> QED
  BY <1>4, <1>5, <1>6, <1>7 DEF IInv

(***************************************************************************)
(* A step of one call of print touches nothing but this call.              *)
(***************************************************************************)
LEMMA CallKeeps ==
  ASSUME IInv, NEW x \in Printers, NEW d \in Calls, Reads(d),
         x = Main /\ d.at # "off" => \A p \in Rows : d.floor[p] = N,
         printer' = [printer EXCEPT ![x] = d],
         UNCHANGED <<hist, stat, counted>>,
         main' \in {"joining workers", "joining stats", "printing", "done"},
         host' \in [Handlers -> Threads \cup {NoThread}],
         alarms' \in 0..MaxAlarms
  PROVE  IInv'
<1>1. Kinds /\ Fresh /\ NoUpdateLost /\ Bounded /\ Complete /\ Reading
  BY DEF IInv
<1>2. Kinds' /\ Fresh' /\ NoUpdateLost' /\ Bounded'
  BY <1>1 DEF Kinds, Fresh, NoUpdateLost, Bounded, RowSum
<1>3. \A y \in Printers : printer'[y] = IF y = x THEN d ELSE printer[y]
  BY <1>1 DEF Kinds
<1>4. Complete'
  <2>1. Main \in Printers
    BY ONLY Numbers
  <2>2. printer'[Main] = IF Main = x THEN d ELSE printer[Main]
    BY <1>3, <2>1
  <2> QED
    BY <1>1, <2>2 DEF Complete
<1>5. Reading'
  <2>1. ASSUME NEW c, Reads(c)
        PROVE  Reads(c)'
    BY <2>1 DEF Reads, InBetween, RowSum
  <2>2. ASSUME NEW y \in Printers
        PROVE  Reads(printer[y])'
    <3>1. PICK c : c = printer'[y]
      OBVIOUS
    <3>2. Reads(c)
      BY <1>1, <1>3, <3>1 DEF Reading
    <3>3. Reads(c)'
      BY <2>1, <3>2
    <3> QED
      BY <3>1, <3>3
  <2> QED
    BY <2>2 DEF Reading
<1> QED
  BY <1>2, <1>4, <1>5 DEF IInv

\* One more in a cell of a row.
LEMMA OneMore ==
  ASSUME Kinds, NEW p \in Rows, NEW b \in Cells
  PROVE  \E more \in [Cells -> Nat] : more = [hist[p] EXCEPT ![b] = @ + 1]
<1>1. PICK row \in [Cells -> Nat] : row = hist[p]
  BY RowSums
<1>2. [row EXCEPT ![b] = @ + 1] \in [Cells -> Nat]
  BY <1>1
<1> QED
  BY <1>1, <1>2

(***************************************************************************)
(* What the prints have read stays in between when one more is counted.    *)
(***************************************************************************)
LEMMA StoreReads ==
  ASSUME Kinds, NEW p \in Rows, NEW b \in Cells,
         hist' = [hist EXCEPT ![p][b] = @ + 1],
         NEW c \in Calls, Reads(c)
  PROVE  Reads(c)'
<1>1. PICK more \in [Cells -> Nat] : more = [hist[p] EXCEPT ![b] = @ + 1]
  BY OneMore
<1>2. hist'[p] = more /\ \A q \in Rows : q # p => hist'[q] = hist[q]
  BY <1>1 DEF Kinds
<1>3. \A y \in 0..Bins :
        Sums(more)[y] = Sums(hist[p])[y] + (IF b <= y THEN 1 ELSE 0)
  BY <1>1, RowSums, SumsGrow
<1>4. ASSUME c.at # "off", NEW q \in Rows
      PROVE  InBetween(c, q)'
  <2>1. InBetween(c, q)
    BY <1>4 DEF Reads
  <2>2. CASE q # p
    BY <1>2, <2>1, <2>2 DEF InBetween, RowSum
  <2>3. CASE q = p
    <3>1. PICK y, z, w :
            y = Added(c, p) /\ z = Shown(c, p) /\ w = Bins
      OBVIOUS
    <3>2. /\ y \in 0..Bins /\ z \in 0..Bins /\ w \in 0..Bins /\ b \in 1..Bins
          /\ Bins \in Nat /\ (Between(c, p) => c.i \in Cells)
      BY <1>4, <3>1, CellsRead, Numbers
    <3>3. /\ Sums(hist[p])[y] \in Nat /\ Sums(hist[p])[z] \in Nat
          /\ Sums(hist[p])[w] \in Nat
      BY <3>2, RowSums
    <3>4. /\ Sums(more)[y] = Sums(hist[p])[y] + (IF b <= y THEN 1 ELSE 0)
          /\ Sums(more)[z] = Sums(hist[p])[z] + (IF b <= z THEN 1 ELSE 0)
          /\ Sums(more)[w] = Sums(hist[p])[w] + 1
      BY <1>3, <3>1, <3>2
    <3>5. /\ c.sum[p] \in Nat /\ c.shown[p] \in Nat /\ c.floor[p] \in Nat
      <4>1. /\ c.sum \in [Rows -> Nat] /\ c.shown \in [Rows -> Nat]
            /\ c.floor \in [Rows -> 0..N]
        BY CallFields
      <4>2. N \in Nat
        BY ONLY Numbers
      <4> QED
        BY <4>1, <4>2
    <3>6. /\ c.sum[p] <= Sums(hist[p])[y]
          /\ c.shown[p] <= c.sum[p] + (IF Between(c, p) THEN hist[p][c.i] ELSE 0)
          /\ c.floor[p] + Sums(hist[p])[z] <= c.shown[p] + Sums(hist[p])[w]
      BY <2>1, <2>3, <3>1 DEF InBetween, RowSum
    <3>7. c.sum[p] <= Sums(more)[y]
      BY <3>2, <3>3, <3>4, <3>5, <3>6
    <3>8. c.shown[p] <= c.sum[p] + (IF Between(c, p) THEN more[c.i] ELSE 0)
      <4>1. CASE Between(c, p)
        <5>1. c.i \in Cells
          BY <3>2, <4>1
        <5>2. hist[p][c.i] \in Nat /\ more[c.i] \in Nat /\ hist[p][c.i] <= more[c.i]
          BY <1>1, <5>1, RowSums
        <5> QED
          BY <3>5, <3>6, <4>1, <5>2
      <4>2. CASE ~Between(c, p)
        BY <3>6, <4>2
      <4> QED
        BY <4>1, <4>2
    <3>9. c.floor[p] + Sums(more)[z] <= c.shown[p] + Sums(more)[w]
      BY <3>2, <3>3, <3>4, <3>5, <3>6
    <3> QED
      BY <1>2, <2>3, <3>1, <3>7, <3>8, <3>9 DEF InBetween, RowSum
  <2> QED
    BY <2>2, <2>3
<1> QED
  BY <1>4 DEF Reads

(***************************************************************************)
(* Histogram::update, second half: one more is counted.                    *)
(***************************************************************************)
LEMMA StoreKeeps ==
  ASSUME IInv, NEW p \in Rows, UpdateStore(p)
  PROVE  IInv'
<1>0. Kinds /\ Fresh /\ NoUpdateLost /\ Bounded /\ Complete /\ Reading
  BY DEF IInv
<1>1. PICK b \in Cells : b = stat[p].bin
  BY <1>0 DEF Kinds
<1>2. /\ stat[p].at = "loaded" /\ stat[p].seen = hist[p][b]
      /\ stat' = [stat EXCEPT ![p].at = "ready"]
      /\ UNCHANGED <<main, printer, host, alarms>>
      /\ hist' = [hist EXCEPT ![p][b] = stat[p].seen + 1]
      /\ counted' = [counted EXCEPT ![p][b] = @ + 1]
  BY <1>0, <1>1 DEF UpdateStore, RowOf, Fresh
<1>3. hist' = [hist EXCEPT ![p][b] = @ + 1]
  BY <1>2
<1>4. NoUpdateLost'
  BY <1>0, <1>2, <1>3 DEF NoUpdateLost
<1>5. Kinds'
  <2>1. hist' \in [Rows -> [Cells -> Nat]]
    <3>1. PICK more \in [Cells -> Nat] : more = [hist[p] EXCEPT ![b] = @ + 1]
      BY <1>0, OneMore
    <3>2. hist' = [hist EXCEPT ![p] = more]
      BY <1>3, <3>1
    <3> QED
      BY <1>0, <3>2 DEF Kinds
  <2>2. stat' \in [Rows -> [at : {"ready", "loaded", "done"}, bin : Cells, seen : 0..N]]
    BY <1>0, <1>2 DEF Kinds
  <2> QED
    BY <1>0, <1>2, <2>1, <2>2 DEF Kinds
<1>6. \A q \in Rows : q # p => stat'[q] = stat[q] /\ hist'[q] = hist[q]
  BY <1>0, <1>2, <1>3 DEF Kinds
<1>7. stat'[p].at = "ready"
  BY <1>0, <1>2 DEF Kinds
<1>8. Fresh'
  BY <1>0, <1>6, <1>7 DEF Fresh
<1>9. Bounded'
  <2>1. RowSum(hist, p)' = RowSum(hist, p) + 1
    <3>1. PICK more \in [Cells -> Nat] : more = [hist[p] EXCEPT ![b] = @ + 1]
      BY <1>0, OneMore
    <3>2. Bins \in 0..Bins /\ b <= Bins
      BY Numbers
    <3>3. Sums(more)[Bins] = Sums(hist[p])[Bins] + 1
      BY <1>0, <3>1, <3>2, RowSums, SumsGrow
    <3>4. hist'[p] = more
      BY <1>0, <1>3, <3>1 DEF Kinds
    <3> QED
      BY <3>3, <3>4 DEF RowSum
  <2>2. RowSum(hist, p) < N /\ RowSum(hist, p) \in Nat /\ N \in Nat
    BY <1>0, <1>2, RowSums, Numbers DEF Bounded
  <2>3. ASSUME NEW q \in Rows
        PROVE  /\ RowSum(hist', q) <= N
               /\ stat'[q].at = "loaded" => RowSum(hist', q) < N
               /\ stat'[q].at = "done" => RowSum(hist', q) = N
    <3>1. CASE q = p
      <4>1. RowSum(hist', p) = RowSum(hist, p) + 1
        BY <2>1 DEF RowSum
      <4> QED
        BY <1>7, <2>2, <3>1, <4>1
    <3>2. CASE q # p
      <4>1. RowSum(hist', q) = RowSum(hist, q) /\ stat'[q] = stat[q]
        BY <1>6, <3>2 DEF RowSum
      <4> QED
        BY <1>0, <4>1 DEF Bounded
    <3> QED
      BY <3>1, <3>2
  <2> QED
    BY <2>3 DEF Bounded, RowSum
<1>10. Complete'
  BY <1>0, <1>2 DEF Complete
<1>11. Reading'
  <2>1. ASSUME NEW x \in Printers
        PROVE  Reads(printer[x])'
    <3>1. PICK c \in Calls : c = printer[x]
      BY <1>0 DEF Kinds
    <3>2. Reads(c)'
      BY <1>0, <1>3, <3>1, StoreReads DEF Reading
    <3> QED
      BY <1>2, <3>1, <3>2
  <2> QED
    BY <2>1 DEF Reading
<1> QED
  BY <1>4, <1>5, <1>8, <1>9, <1>10, <1>11 DEF IInv

(***************************************************************************)
(* The other steps of a stat thread.                                       *)
(***************************************************************************)
LEMMA StatKeeps ==
  ASSUME IInv, NEW p \in Rows, UpdateLoad(p) \/ StatExit(p)
  PROVE  IInv'
<1>0. Kinds /\ Fresh /\ NoUpdateLost /\ Bounded /\ Complete /\ Reading
  BY DEF IInv
<1>1. UNCHANGED <<hist, main, printer, host, alarms, counted>>
  BY DEF UpdateLoad, StatExit
<1>2. RowSum(counted, p) = RowSum(hist, p)
  BY <1>0 DEF NoUpdateLost
<1>3. Kinds' /\ Fresh' /\ Bounded'
  <2>1. CASE UpdateLoad(p)
    <3>1. PICK b \in Cells :
            stat' = [stat EXCEPT ![p] = [at |-> "loaded", bin |-> b,
                                         seen |-> hist[p][b]]]
      BY <2>1 DEF UpdateLoad, RowOf
    <3>2. hist[p][b] \in 0..N
      <4>1. /\ hist[p][b] \in Nat /\ hist[p][b] <= RowSum(hist, p)
            /\ RowSum(hist, p) \in Nat /\ RowSum(hist, p) <= N
        BY <1>0, RowSums DEF Bounded
      <4> QED
        BY <4>1, Numbers
    <3>3. stat' \in [Rows -> [at : {"ready", "loaded", "done"}, bin : Cells,
                             seen : 0..N]]
      BY <1>0, <3>1, <3>2 DEF Kinds
    <3>4. /\ stat'[p].at = "loaded" /\ stat'[p].bin = b /\ stat'[p].seen = hist[p][b]
          /\ \A q \in Rows : q # p => stat'[q] = stat[q]
      BY <1>0, <3>1 DEF Kinds
    <3>5. RowSum(hist, p) < N
      BY <1>2, <2>1 DEF UpdateLoad
    <3>6. Kinds'
      BY <1>0, <1>1, <3>3 DEF Kinds
    <3>7. Fresh'
      BY <1>0, <1>1, <3>4 DEF Fresh
    <3>8. Bounded'
      <4>1. ASSUME NEW q \in Rows
            PROVE  /\ RowSum(hist, q) <= N
                   /\ stat'[q].at = "loaded" => RowSum(hist, q) < N
                   /\ stat'[q].at = "done" => RowSum(hist, q) = N
        BY <1>0, <3>4, <3>5 DEF Bounded
      <4> QED
        BY <1>1, <4>1 DEF Bounded, RowSum
    <3> QED
      BY <3>6, <3>7, <3>8
  <2>2. CASE StatExit(p)
    <3>1. stat' = [stat EXCEPT ![p].at = "done"] /\ RowSum(hist, p) = N
      BY <1>2, <2>2 DEF StatExit
    <3>2. stat' \in [Rows -> [at : {"ready", "loaded", "done"}, bin : Cells,
                             seen : 0..N]]
      BY <1>0, <3>1 DEF Kinds
    <3>3. stat'[p].at = "done" /\ \A q \in Rows : q # p => stat'[q] = stat[q]
      BY <1>0, <3>1 DEF Kinds
    <3>4. Kinds'
      BY <1>0, <1>1, <3>2 DEF Kinds
    <3>5. Fresh'
      BY <1>0, <1>1, <3>3 DEF Fresh
    <3>6. Bounded'
      <4>1. ASSUME NEW q \in Rows
            PROVE  /\ RowSum(hist, q) <= N
                   /\ stat'[q].at = "loaded" => RowSum(hist, q) < N
                   /\ stat'[q].at = "done" => RowSum(hist, q) = N
        BY <1>0, <3>1, <3>3 DEF Bounded
      <4> QED
        BY <1>1, <4>1 DEF Bounded, RowSum
    <3> QED
      BY <3>4, <3>5, <3>6
  <2> QED
    BY <2>1, <2>2
<1>4. NoUpdateLost' /\ Complete' /\ Reading'
  BY <1>0, <1>1 DEF NoUpdateLost, Complete, Reading, Reads, InBetween, RowSum
<1> QED
  BY <1>3, <1>4 DEF IInv

(***************************************************************************)
(* Histogram::print, cell by cell.                                         *)
(***************************************************************************)
LEMMA PrintKeeps ==
  ASSUME IInv, NEW x \in Printers, PrintShow(x) \/ PrintAdd(x)
  PROVE  IInv'
<1>0. Kinds /\ Complete /\ Reading
  BY DEF IInv
<1>1. PICK c \in Calls : c = printer[x] /\ Reads(c)
  BY <1>0 DEF Kinds, Reading
<1>2. /\ UNCHANGED <<hist, stat, main, host, alarms, counted>>
      /\ c.at \in {"show", "add"}
  BY <1>1 DEF PrintShow, PrintAdd, Printing
<1>3. /\ c.j \in Rows /\ c.i \in Cells /\ hist[c.j][c.i] \in Nat
      /\ c.shown \in [Rows -> Nat] /\ c.sum \in [Rows -> Nat]
      /\ c.floor \in [Rows -> 0..N]
  <2>1. c.i <= Bins
    BY <1>1, <1>2 DEF Reads
  <2>2. c.j \in Rows /\ c.i \in Cells
    BY <2>1, CallFields, Numbers
  <2> QED
    BY <1>0, <2>2, CallFields, RowSums
<1>4. PICK d \in Calls :
        Reads(d) /\ d.floor = c.floor /\ printer' = [printer EXCEPT ![x] = d]
  <2>1. CASE PrintShow(x)
    <3>1. PICK v \in Nat : v = hist[c.j][c.i]
      BY <1>3
    <3>2. PICK d : d = CellShown(c, v)
      OBVIOUS
    <3>3. /\ d \in Calls /\ d.at = "add" /\ d.i = c.i /\ d.j = c.j
          /\ d.shown = [c.shown EXCEPT ![c.j] = @ + v]
          /\ d.sum = c.sum /\ d.floor = c.floor
      BY <3>2, Shows
    <3>4. c.at = "show" /\ printer' = [printer EXCEPT ![x] = d]
      BY <1>1, <2>1, <3>1, <3>2 DEF PrintShow, Printing, CellShown
    <3>5. Reads(d)
      BY <1>0, <1>1, <3>1, <3>3, <3>4, ShowReads
    <3> QED
      BY <3>3, <3>4, <3>5
  <2>2. CASE PrintAdd(x)
    <3>1. PICK v \in Nat : v = hist[c.j][c.i]
      BY <1>3
    <3>2. PICK y, q, point :
            /\ y = (IF c.j = Patients THEN c.i + 1 ELSE c.i)
            /\ q = (IF c.j = Patients THEN 1 ELSE c.j + 1)
            /\ point = (IF y > Bins THEN "totals" ELSE "show")
      OBVIOUS
    <3>3. PICK d : d = CellAdded(c, point, y, q, v)
      OBVIOUS
    <3>4. y \in 1..Bins + 1 /\ q \in Rows /\ point \in {"show", "totals"}
      <4>1. c.j \in 1..Patients /\ c.i \in 1..Bins
        BY <1>3, Numbers
      <4>2. y \in 1..Bins + 1
        BY <3>2, <4>1, Numbers
      <4>3. q \in 1..Patients
        BY <3>2, <4>1, Numbers
      <4> QED
        BY <3>2, <4>2, <4>3, Numbers
    <3>5. /\ d \in Calls /\ d.at = point /\ d.i = y /\ d.j = q
          /\ d.sum = [c.sum EXCEPT ![c.j] = @ + v]
          /\ d.shown = c.shown /\ d.floor = c.floor
      BY <3>3, <3>4, Adds
    <3>6. c.at = "add" /\ printer' = [printer EXCEPT ![x] = d]
      BY <1>1, <2>2, <3>1, <3>2, <3>3 DEF PrintAdd, Printing, CellAdded
    <3>7. Reads(d)
      <4>1. /\ d.i = IF c.j = Patients THEN c.i + 1 ELSE c.i
            /\ d.j = IF c.j = Patients THEN 1 ELSE c.j + 1
            /\ d.at = IF d.i > Bins THEN "totals" ELSE "show"
        BY <3>2, <3>5
      <4>2. d.sum = [c.sum EXCEPT ![c.j] = @ + hist[c.j][c.i]]
        BY <3>1, <3>5
      <4>3. Kinds /\ c \in Calls /\ Reads(c) /\ c.at = "add" /\ d \in Calls
        BY <1>0, <1>1, <3>5, <3>6
      <4> QED
        BY <3>5, <4>1, <4>2, <4>3, AddReads
    <3> QED
      BY <3>5, <3>6, <3>7
  <2> QED
    BY <1>1, <2>1, <2>2
<1>5. x = Main /\ d.at # "off" => \A p \in Rows : d.floor[p] = N
  BY <1>0, <1>1, <1>2, <1>4 DEF Complete
<1> QED
  BY <1>0, <1>2, <1>4, <1>5, CallKeeps DEF Kinds

(***************************************************************************)
(* The handler of an alarm, and the last print, by main().                 *)
(***************************************************************************)
LEMMA AlarmKeeps ==
  ASSUME IInv, NEW t \in Threads, Alarm(t)
  PROVE  IInv'
<1>0. Kinds /\ NoUpdateLost /\ Bounded
  BY DEF IInv
<1>1. PICK k, c : k = alarms + 1 /\ c = PrintCall
  OBVIOUS
<1>2. /\ k \in Handlers /\ k \in Printers /\ k # Main /\ k \in 0..MaxAlarms
      /\ alarms' = k /\ host' = [host EXCEPT ![k] = t]
      /\ printer' = [printer EXCEPT ![k] = c]
      /\ UNCHANGED <<hist, stat, main, counted>>
  <2>1. alarms < MaxAlarms /\ alarms \in 0..MaxAlarms
    BY <1>0 DEF Alarm, Kinds
  <2>2. k \in Handlers /\ k \in Printers /\ k # Main /\ k \in 0..MaxAlarms
    BY <1>1, <2>1, Numbers
  <2> QED
    BY <1>1, <2>2 DEF Alarm
<1>3. c \in Calls /\ Reads(c)
  BY <1>0, <1>1, CallReads
<1>4. host' \in [Handlers -> Threads \cup {NoThread}]
  BY <1>0, <1>2 DEF Kinds
<1>5. main' \in {"joining workers", "joining stats", "printing", "done"}
  BY <1>0, <1>2 DEF Kinds
<1> QED
  BY <1>2, <1>3, <1>4, <1>5, CallKeeps

\* The handler returns, and its call of print is over.
LEMMA ReturnKeeps ==
  ASSUME IInv, NEW k \in Handlers, HandlerReturns(k)
  PROVE  IInv'
<1>0. Kinds
  BY DEF IInv
<1>1. PICK c : c = Off
  OBVIOUS
<1>2. c \in Calls /\ Reads(c) /\ c.at = "off" /\ k \in Printers
  BY <1>1, OffReads, Numbers
<1>3. /\ host' = [host EXCEPT ![k] = NoThread]
      /\ printer' = [printer EXCEPT ![k] = c]
      /\ UNCHANGED <<hist, stat, main, alarms, counted>>
  BY <1>1 DEF HandlerReturns
<1>4. host' \in [Handlers -> Threads \cup {NoThread}]
  BY <1>0, <1>3 DEF Kinds
<1>5. /\ main' \in {"joining workers", "joining stats", "printing", "done"}
      /\ alarms' \in 0..MaxAlarms
  BY <1>0, <1>3 DEF Kinds
<1> QED
  BY <1>2, <1>3, <1>4, <1>5, CallKeeps

(***************************************************************************)
(* main() has joined the stat threads when it prints: all is counted.      *)
(***************************************************************************)
LEMMA MainKeeps ==
  ASSUME IInv, MainJoinsWorkers \/ MainPrints \/ MainReturns
  PROVE  IInv'
<1>0. Kinds /\ Fresh /\ NoUpdateLost /\ Bounded /\ Complete /\ Reading
  BY DEF IInv
<1>1. Main \in Printers
  BY ONLY Numbers
<1>2. CASE MainJoinsWorkers
  <2>1. /\ UNCHANGED <<hist, stat, printer, host, alarms, counted>>
        /\ main' = "joining stats"
    BY <1>2 DEF MainJoinsWorkers
  <2>2. Kinds' /\ Fresh' /\ NoUpdateLost' /\ Bounded' /\ Complete'
    BY <1>0, <2>1 DEF Kinds, Fresh, NoUpdateLost, Bounded, Complete, RowSum
  <2>3. Reading'
    BY <1>0, <2>1 DEF Reading, Reads, InBetween, RowSum
  <2> QED
    BY <2>2, <2>3 DEF IInv
<1>3. CASE MainPrints
  <2>1. PICK c : c = PrintCall
    OBVIOUS
  <2>2. /\ printer' = [printer EXCEPT ![Main] = c] /\ main' = "printing"
        /\ UNCHANGED <<hist, stat, host, alarms, counted>>
        /\ \A p \in Rows : stat[p].at = "done"
    BY <1>3, <2>1 DEF MainPrints, BeginsLastPrint
  <2>3. c \in Calls /\ Reads(c) /\ \A p \in Rows : c.floor[p] = RowSum(hist, p)
    BY <1>0, <2>1, CallReads
  <2>4. \A p \in Rows : c.floor[p] = N
    BY <1>0, <2>2, <2>3 DEF Bounded
  <2>5. /\ host' \in [Handlers -> Threads \cup {NoThread}]
        /\ alarms' \in 0..MaxAlarms
    BY <1>0, <2>2 DEF Kinds
  <2> QED
    BY <1>1, <2>2, <2>3, <2>4, <2>5, CallKeeps
<1>4. CASE MainReturns
  <2>1. PICK c : c = Off
    OBVIOUS
  <2>2. /\ printer' = [printer EXCEPT ![Main] = c] /\ main' = "done"
        /\ UNCHANGED <<hist, stat, host, alarms, counted>>
    BY <1>4, <2>1 DEF MainReturns
  <2>3. c \in Calls /\ Reads(c) /\ c.at = "off"
    BY <2>1, OffReads
  <2>4. /\ host' \in [Handlers -> Threads \cup {NoThread}]
        /\ alarms' \in 0..MaxAlarms
    BY <1>0, <2>2 DEF Kinds
  <2> QED
    BY <1>1, <2>2, <2>3, <2>4, CallKeeps
<1> QED
  BY <1>2, <1>3, <1>4

(***************************************************************************)
(* The invariant holds in every state.                                     *)
(***************************************************************************)
LEMMA Invariance == Spec => []IInv
<1>1. IInv /\ [Next]_vars => IInv'
  <2> SUFFICES ASSUME IInv, [Next]_vars PROVE IInv'
    OBVIOUS
  <2>1. ASSUME UNCHANGED vars
        PROVE  IInv'
    <3>1. Kinds /\ Fresh /\ NoUpdateLost /\ Bounded /\ Complete /\ Reading
      BY DEF IInv
    <3>2. UNCHANGED <<hist, stat, main, printer, host, alarms, counted>>
      BY <2>1 DEF vars
    <3>3. Kinds' /\ Fresh' /\ NoUpdateLost' /\ Bounded' /\ Complete'
      BY <3>1, <3>2 DEF Kinds, Fresh, NoUpdateLost, Bounded, Complete, RowSum
    <3>4. Reading'
      BY <3>1, <3>2 DEF Reading, Reads, InBetween, RowSum
    <3> QED
      BY <3>3, <3>4 DEF IInv
  <2>2. ASSUME NEW p \in Rows, UpdateLoad(p) \/ UpdateStore(p) \/ StatExit(p)
        PROVE  IInv'
    BY <2>2, StatKeeps, StoreKeeps
  <2>3. ASSUME NEW x \in Printers, PrintShow(x) \/ PrintAdd(x)
        PROVE  IInv'
    BY <2>3, PrintKeeps
  <2>4. ASSUME NEW t \in Threads, Alarm(t)
        PROVE  IInv'
    BY <2>4, AlarmKeeps
  <2>5. ASSUME NEW k \in Handlers, HandlerReturns(k)
        PROVE  IInv'
    BY <2>5, ReturnKeeps
  <2>6. CASE MainJoinsWorkers \/ MainPrints \/ MainReturns
    BY <2>6, MainKeeps
  <2> QED
    BY <2>1, <2>2, <2>3, <2>4, <2>5, <2>6 DEF Next, Ended
<1> QED
  BY InitIInv, <1>1, PTL DEF Spec

-----------------------------------------------------------------------------
(* The theorems.                                                           *)

(***************************************************************************)
(* The increments lose nothing, although the mutex of Histogram::update is *)
(* commented out, however many alarms interrupt them.                      *)
(***************************************************************************)
THEOREM UpdatesKept == Spec => []NoUpdateLost
<1>1. IInv => NoUpdateLost
  BY DEF IInv
<1> QED
  BY <1>1, Invariance, PTL

(***************************************************************************)
(* What a call of print has read by its end.                               *)
(***************************************************************************)
LEMMA AtTheEnd ==
  ASSUME IInv, NEW x \in Printers, printer[x].at = "totals", NEW p \in Rows
  PROVE  /\ printer[x].floor[p] <= printer[x].shown[p]
         /\ printer[x].shown[p] <= printer[x].sum[p]
         /\ printer[x].sum[p] <= RowSum(hist, p)
         /\ printer[x].floor[p] \in Nat /\ printer[x].shown[p] \in Nat
         /\ printer[x].sum[p] \in Nat /\ RowSum(hist, p) \in Nat
<1>0. Kinds /\ Reading
  BY DEF IInv
<1>1. PICK c \in Calls : c = printer[x] /\ Reads(c)
  BY <1>0 DEF Kinds, Reading
<1>2. c.i = Bins + 1 /\ c.j = 1 /\ InBetween(c, p)
  BY <1>1 DEF Reads
<1>3. ~Between(c, p) /\ Added(c, p) = Bins /\ Shown(c, p) = Bins
  <2>1. ~(p < 1) /\ (Bins + 1) - 1 = Bins
    BY Numbers
  <2>2. ~Between(c, p) /\ Added(c, p) = Bins
    BY <1>1, <1>2, <2>1 DEF Between, Added
  <2> QED
    BY <2>2 DEF Shown
<1>4. /\ c.floor[p] \in Nat /\ c.shown[p] \in Nat /\ c.sum[p] \in Nat
      /\ RowSum(hist, p) \in Nat /\ Sums(hist[p])[Bins] = RowSum(hist, p)
  <2>1. /\ c.sum \in [Rows -> Nat] /\ c.shown \in [Rows -> Nat]
        /\ c.floor \in [Rows -> 0..N]
    BY CallFields
  <2>2. N \in Nat
    BY ONLY Numbers
  <2>3. RowSum(hist, p) \in Nat
    BY <1>0, RowSums
  <2> QED
    BY <2>1, <2>2, <2>3 DEF RowSum
<1>5. /\ c.sum[p] <= RowSum(hist, p) /\ c.shown[p] <= c.sum[p] + 0
      /\ c.floor[p] + RowSum(hist, p) <= c.shown[p] + RowSum(hist, p)
  BY <1>2, <1>3, <1>4 DEF InBetween
<1> QED
  BY <1>1, <1>4, <1>5

(***************************************************************************)
(* A print in the middle shows something between what was counted when it  *)
(* began and what is counted when it ends, and its totals are not below    *)
(* its cells (pa7/Histogram.cpp:48-54).                                    *)
(***************************************************************************)
THEOREM PrintsInBetween == Spec => []PrintedInBetween
<1>1. IInv => PrintedInBetween
  <2> SUFFICES ASSUME IInv, NEW x \in Printers, printer[x].at = "totals",
                      NEW p \in Rows
               PROVE  /\ printer[x].floor[p] <= printer[x].shown[p]
                      /\ printer[x].shown[p] <= printer[x].sum[p]
                      /\ printer[x].sum[p] <= RowSum(counted, p)
    BY DEF PrintedInBetween
  <2>1. RowSum(counted, p) = RowSum(hist, p)
    BY DEF IInv, NoUpdateLost
  <2> QED
    BY <2>1, AtTheEnd
<1> QED
  BY <1>1, Invariance, PTL

(***************************************************************************)
(* The last print is exact: what main() began with was complete, and a     *)
(* row never holds more (client.cpp:415-432).                              *)
(***************************************************************************)
THEOREM LastIsExact == Spec => []LastPrintExact
<1>1. IInv => LastPrintExact
  <2> SUFFICES ASSUME IInv, printer[Main].at = "totals", NEW p \in Rows
               PROVE  printer[Main].shown[p] = N /\ printer[Main].sum[p] = N
    BY DEF LastPrintExact
  <2>1. Main \in Printers
    BY ONLY Numbers
  <2>2. /\ printer[Main].floor[p] <= printer[Main].shown[p]
        /\ printer[Main].shown[p] <= printer[Main].sum[p]
        /\ printer[Main].sum[p] <= RowSum(hist, p)
        /\ printer[Main].shown[p] \in Nat /\ printer[Main].sum[p] \in Nat
        /\ RowSum(hist, p) \in Nat
    BY <2>1, AtTheEnd
  <2>3. RowSum(hist, p) <= N /\ printer[Main].floor[p] = N /\ N \in Nat
    BY Numbers DEF IInv, Bounded, Complete
  <2> QED
    BY <2>2, <2>3
<1> QED
  BY <1>1, Invariance, PTL

(***************************************************************************)
(* Every variable has its type: no cell and no sum exceeds the responses   *)
(* of a patient, and no call of print leaves the histogram.                *)
(***************************************************************************)
THEOREM TypeCorrect == Spec => []TypeOK
<1>1. IInv => TypeOK
  <2> SUFFICES ASSUME IInv PROVE TypeOK
    OBVIOUS
  <2>0. Kinds /\ NoUpdateLost /\ Bounded /\ Reading
    BY DEF IInv
  <2>1. hist \in [Rows -> [Cells -> 0..N]]
    <3>1. ASSUME NEW p \in Rows, NEW b \in Cells
          PROVE  hist[p][b] \in 0..N
      <4>1. /\ hist[p][b] \in Nat /\ hist[p][b] <= RowSum(hist, p)
            /\ RowSum(hist, p) \in Nat /\ RowSum(hist, p) <= N
        BY <2>0, RowSums DEF Bounded
      <4> QED
        BY <4>1, Numbers
    <3>2. hist \in [Rows -> [Cells -> Nat]]
      BY <2>0 DEF Kinds
    <3> QED
      BY <3>1, <3>2
  <2>2. ASSUME NEW x \in Printers, NEW p \in Rows
        PROVE  printer[x].shown[p] \in 0..N /\ printer[x].sum[p] \in 0..N
    <3>1. PICK c \in Calls : c = printer[x] /\ Reads(c)
      BY <2>0 DEF Kinds, Reading
    <3>2. c.shown[p] \in Nat /\ c.sum[p] \in Nat /\ N \in Nat
      BY CallFields, Numbers
    <3>3. CASE c.at = "off"
      <4>1. c.shown[p] = 0 /\ c.sum[p] = 0
        BY <3>1, <3>3 DEF Reads
      <4> QED
        BY <3>1, <3>2, <4>1
    <3>4. CASE c.at # "off"
      <4>1. InBetween(c, p)
        BY <3>1, <3>4 DEF Reads
      <4>2. Added(c, p) \in 0..Bins /\ (Between(c, p) => c.i \in Cells)
        BY <3>1, <3>4, CellsRead
      <4>3. /\ Sums(hist[p])[Added(c, p)] \in Nat
            /\ Sums(hist[p])[Added(c, p)] <= RowSum(hist, p)
            /\ RowSum(hist, p) \in Nat /\ RowSum(hist, p) <= N
        BY <2>0, <4>2, RowSums DEF Bounded
      <4>4. c.sum[p] <= N
        BY <3>2, <4>1, <4>3 DEF InBetween
      <4>5. c.shown[p] <= N
        <5>1. CASE ~Between(c, p)
          <6>1. c.shown[p] <= c.sum[p] + 0
            BY <4>1, <5>1 DEF InBetween
          <6> QED
            BY <3>2, <4>4, <6>1
        <5>2. CASE Between(c, p)
          <6>1. /\ c.i \in 1..Bins /\ c.i - 1 \in 0..Bins /\ c.i \in 0..Bins
                /\ ~(p < c.j) /\ Bins \in Nat
            BY <4>2, <5>2, Numbers DEF Between
          <6>2. Added(c, p) = c.i - 1
            BY <6>1 DEF Added
          <6>3. /\ c.sum[p] <= Sums(hist[p])[c.i - 1]
                /\ c.shown[p] <= c.sum[p] + hist[p][c.i]
            BY <4>1, <5>2, <6>2 DEF InBetween
          <6>4. /\ Sums(hist[p])[c.i] = Sums(hist[p])[c.i - 1] + hist[p][c.i]
                /\ Sums(hist[p])[c.i] <= RowSum(hist, p)
                /\ Sums(hist[p])[c.i] \in Nat /\ Sums(hist[p])[c.i - 1] \in Nat
                /\ hist[p][c.i] \in Nat
            BY <2>0, <6>1, RowSums, SumsDo, Numbers
          <6> QED
            BY <3>2, <4>3, <6>3, <6>4
        <5> QED
          BY <5>1, <5>2
      <4> QED
        BY <3>1, <3>2, <4>4, <4>5
    <3> QED
      BY <3>3, <3>4
  <2>3. ASSUME NEW x \in Printers
        PROVE  printer[x] \in [at : {"off", "show", "add", "totals"},
                               i : 1..Bins + 1, j : Rows, shown : [Rows -> 0..N],
                               sum : [Rows -> 0..N], floor : [Rows -> 0..N]]
    <3>1. PICK c \in Calls : c = printer[x]
      BY <2>0 DEF Kinds
    <3>2. c.shown \in [Rows -> 0..N] /\ c.sum \in [Rows -> 0..N]
      BY <2>2, <3>1, CallFields
    <3>3. c \in [at : {"off", "show", "add", "totals"}, i : 1..Bins + 1,
                 j : Rows, shown : [Rows -> 0..N], sum : [Rows -> 0..N],
                 floor : [Rows -> 0..N]]
      BY <3>2 DEF Calls
    <3> QED
      BY <3>1, <3>3
  <2>4. printer \in [Printers -> [at : {"off", "show", "add", "totals"},
                                  i : 1..Bins + 1, j : Rows,
                                  shown : [Rows -> 0..N], sum : [Rows -> 0..N],
                                  floor : [Rows -> 0..N]]]
    <3>1. printer \in [Printers -> Calls]
      BY <2>0 DEF Kinds
    <3> QED
      BY <2>3, <3>1
  <2>5. counted \in [Rows -> [Cells -> 0..N]]
    BY <2>0, <2>1 DEF NoUpdateLost
  <2> QED
    BY <2>0, <2>1, <2>4, <2>5 DEF Kinds, TypeOK
<1> QED
  BY <1>1, Invariance, PTL

=============================================================================

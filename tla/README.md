# A verification of cpp_networking

TLA+ specifications of the programs in this repository, the TLC runs that check
them on small instances, and TLAPS proofs of the properties that matter most.
The reference is the code under `src/`; every definition names the lines it
models in `PROJECT.json` ("map"). Paths below are relative to `src/`.

## 1. The system

`pa7/client` collects `n` numbers for each of three patients from
`pa7/dataserver` over TCP and prints a histogram of them.

| part | source | state | operations | talks to |
|---|---|---|---|---|
| `SafeBuffer` | `pa7/SafeBuffer.*` (same in `pa6`) | a queue, its capacity, a mutex, two condition variables | `push`, `pop`, `size` | every client thread calls it |
| `main()` | `pa7/client.cpp:193-438` | the threads and channels it created, `no_error` | create, join, send `!!`, push the stat quits, report | creates and joins every other thread |
| request threads (3) | `client.cpp:81-101` | a loop counter | push `n` requests of one patient | request buffer |
| worker threads (`w`) | `client.cpp:103-146` | the request, the response | pop a request, write it, read the response, push it | request buffer, server, response buffers |
| quit thread | `client.cpp:73-79` | a loop counter | push `w` quits | request buffer |
| stat threads (3) | `client.cpp:148-179` | the response | pop a response, update the histogram | response buffers, `Histogram` |
| `Histogram` | `pa7/Histogram.*` | 3 x 10 counters, a map of names | `update`, `print` | stat threads, `main()`, the SIGALRM handler |
| `NetworkRequestChannel`, client side | `pa7/reqchannel.cpp:115-144, 192-222` | a socket | constructor, `cread`, `cwrite`, `EXITONERROR` | the server |
| `NetworkRequestChannel`, server side | `pa7/reqchannel.cpp:44-113, 154-190`, `dataserver.cpp` | the listening socket, a vector of descriptors, one thread per connection | accept, answer, close, exit | the clients |
| `rmv` | `pa7/rmv.cpp` | none | deletes `fifo*` | replaces a process in trouble through `execl` |
| `pa6` client, server, `FIFOrc` | `pa6/*` | as above, with two named pipes per channel | open, read, write, `newchannel` | each other |
| `ServerTCP`, `ClientTCP` | the files of those names | as the server side; one buffer | accept, answer `Hello to you`; send what is typed, print what is received | each other |
| demonstrations | `ServerUDP`, `ClientUDP`, `connect`, `lookup`, `test`, `junk_test` | one socket | straight-line I/O | |

How they interact: a request goes request thread -> request buffer -> worker ->
connection -> server thread -> connection -> worker -> response buffer of its
patient -> stat thread -> row of the histogram. Every arrow but the last is
asynchronous. The shutdown runs through the same buffers: `main()` joins the
request threads, has the quit thread push one `quit` per worker, joins the
workers (each turns its `quit` into `!`, which ends its connection), sends `!!`
on the control connection, which ends the server, pushes one `quit` per stat
thread, joins them, and prints.

Around it, each run forks a server and asks its user to confirm before it
connects, but nothing ties it to that server: it talks to whichever process has
the port.

What is hard here:

* **blocking and wake-ups**: one `pthread_cond_signal` per operation, waiters
  that are overtaken or wake for no reason, buffers as small as one slot;
* **order of the shutdown**: three generations of quit messages travel behind
  data through FIFO buffers, and joins are what keeps them behind;
* **agreement of tables**: four tables in two files say which patient is which;
* **failures**: threads that cannot be created, a server that refuses or dies;
  most results are logged or dropped, and the remedy is `execl("rmv")`, whose
  own failure sends the program down another path;
* **framing**: `recv` and `send` carry strings on a byte stream, so two
  messages under way in one direction could be read as one;
* **the server**: a descriptor passed by pointer into a growing vector, results
  of `recv` that nobody looks at, an `exit(0)` any client can ask for;
* **the SIGALRM handler**: it prints while others count;
* **several runs on one port**: servers that cannot bind, outlive their client,
  or are ended by another run's `!!`.

`PROJECT.json` lists these one by one under "hazards", at the line where each
bites, with the properties that cover it.

## 2. Modules

| module | what it is |
|---|---|
| `BoundedFIFO` | what a buffer promises: push and pop take effect at one instant, first in first out, within the capacity; some pending call goes through whenever it can |
| `SafeBuffer` | the class as written, one action per step between two points where another thread can run; implements `BoundedFIFO` |
| `SafeBufferProofs` | theorems about `SafeBuffer` |
| `Connection` | what a connection to a data server promises its two sides; `Client` and `Server` both implement it |
| `Survey` | what the client promises: `n` responses counted per patient, a report only when all are |
| `Client` | the client process and what it sees of the server |
| `ClientProperties` | what is checked of `Client`; `Client` implements `Survey` and `Connection` |
| `MCClient` | `Client` for TLC |
| `ClientProofs` | theorems about `Client`: the types and the order of the shutdown |
| `ClientCounting` | theorems about `Client`: every request and every answer is accounted for, the report is exact and nothing is left behind; it implements `Survey` and `Connection` |
| `Server` | the accept loop, the server threads, and the clients as their connections show them |
| `ServerProperties` | what is checked of `Server`; `Server` implements `Connection` |
| `MCServer` | `Server` for TLC, with symmetry |
| `ServerProofs` | theorems about `Server`: who serves whom, what is under way, why it ends; it implements `Connection` |
| `EchoTCP` | `ServerTCP`, which is `Server` with another answer, and `ClientTCP`; what is checked of them |
| `EchoTCPProofs` | theorems about `EchoTCP` |
| `Launch` | runs of the client on one port, as processes: fork, bind, prompt, connect, the end of the server |
| `LaunchProofs` | theorems about `Launch` |
| `FifoSession` | the pa6 client and server over named pipes, run again and again |
| `FifoSessionProofs` | theorems about `FifoSession` |
| `HistogramPrint` | `update` and `print` at the grain of loads and stores, with the SIGALRM handler |
| `HistogramPrintProofs` | theorems about `HistogramPrint` |

### SafeBuffer

`q`, `mut`, `cond_nf` and `cond_ne` are the members of the class; a condition
variable is the set of threads asleep on it. `op[t]`, `at[t]` and `str[t]` say
which member function thread `t` is executing, how far it is and what string it
holds. `Lock` is `pthread_mutex_lock` and also the way out of
`pthread_cond_wait`, which is why a woken thread goes back to `"lock"`: the loop
condition is evaluated again (`PushWait`/`PushItem`, `PopWait`/`PopItem`) after
others may have run. `PushSignal` picks any sleeper. The threads are arbitrary
callers, so whatever holds here holds for every client of the class.

### Client

One action per iteration of each loop of `main()` and of each thread function;
the buffers are used the way `BoundedFIFO` allows, one action per push or pop,
which `SafeBuffer` is shown to implement. Names of patients stand for the
`"data ..."` strings; a response is the number the server sent. `up[k]` and
`down[k]` are the messages on worker `k`'s connection in the two directions.
The server is what a connection shows of it. `proc` is what became of the
process: it goes on `"running"` until `main()` has `"reported"`, or `"exit"`,
`"killed"` by a signal, or replaced by `"rmv"`.

Faults: `ServerMayDie` lets the server refuse a connection or disappear at any
moment; `MaxFailures` bounds the failing calls of `pthread_create`; `RmvBuilt`
says whether `execl("rmv")` finds its program. A join of a thread that was
never created is undefined behaviour (its `pthread_t` is uninitialised): it
returns or crashes, as it may.

### Server

`new_fd` and `new_fds` are the locals of `handle_process_loop`. The vector's
memory is abstracted to what a pointer into it depends on: `capacity` says when
`push_back` moves the elements, `block` numbers the piece of memory they are
in, and a thread's `arg` is the block its pointer points into. `ReadArgument`
(`int my_fd = *((int*) arg)`) gets the right descriptor if the block is still
the current one, and anything otherwise: the memory is freed. `owner` is the
descriptor table: `accept` takes the lowest free descriptor and `close` frees
it. A thread's `buf` is the last message it received, or `Garbage` (its
content is uninitialised and may say anything), because `recv` may fail
unnoticed. The clients do what `client.cpp` does with a connection, and may
vanish. A server thread that has gone astray may hit any descriptor; the
listening socket is one of those that `BadFd` stands for.

`astray` records that a wrong descriptor has been read. `ServesItsConnection`
says it does not matter and is violated; the other properties say what the
server guarantees as long as it has not happened.

### Connection

`Client` takes for granted what its server does (`ServerAnswer`, `ServerCloses`,
`ServerStops`), and `Server` what its clients do (`Connect`, `Ask`, `Receive`,
`Leave`). `Connection` is the protocol between them: each side's own steps and
what it expects of the other. Both modules are shown to implement it, with the
requests and answers under way counted wherever each module keeps them (in the
socket, with a worker, with a server thread), so neither assumes more than the
other gives. `Server` implements it as long as no thread has read a wrong
descriptor (`[][~astray' => ...]`); a client process that ends vanishes from all
its connections at once (`Vanish(S)`).

### EchoTCP

`server()` and `server_thread_function` of `ServerTCP.cpp` repeat
`reqchannel.cpp:44-81, 154-190` but for the answer, so the module takes these
actions from `Server` and adds `Hello` and the loop of `ClientTCP`. `buf[c]` is
that client's buffer, which holds what it sent until `recv` receives something.
`program`, chosen at the start, says whether `dataserver` with the clients of
`client.cpp` or `ServerTCP` with `ClientTCP`s is running; the properties of the
accept loop are checked of both in one run. Unlike in `Server`, the clients go
on after the server has ended: what they make of it is the point.

### Launch

A run of the client goes `"prompt"`, `"connect"` (one step per channel, the
control channel first), `"work"`, `"kill"`, `"reported"`; what happens inside is
`Client`. `conn[r]` is whose server each channel leads to, which need not be the
run's own, nor the same for all. A server of which a worker still needs an
answer may be ended by another run (`Breaks`), and a client that failed may take
a server with it (`Dropped`, which is `Server`'s `RecvNothing` and `ReplyKills`).
`heeded` records whether all users did what the program asks: start when the
port is free (`client.cpp:435`), confirm when the server is there (249).

### HistogramPrint

`UpdateLoad` and `UpdateStore` are the two halves of `hist[..][..] ++`;
`PrintShow` and `PrintAdd` are the two reads `print` makes of each cell, with
`cout` in between. The handler of an alarm runs in any living thread, which is
suspended (`host`); several handlers may run at once, in different threads,
and one may interrupt `main()` in its own print. Nothing of `Client` but the
order of the joins matters to it.

### FifoSession

The pa6 programs over named pipes. `pa6` writes `new RequestChannel` where only
`FIFOrc` implements the class, so it does not compile as committed; it is read
as `FIFOrc`, and `handle_process_loop`, which has no `return`, as returning.
`file` is the directory, `pipes` the pipes that were made; a pipe outlives its
name. An end of a channel goes `"make"` (`mkfifo`), `"open"`, `"wait"` (inside
`open()`), twice, then `"ready"`, and in the destructor `"remove"`, twice,
`"gone"`. `main` and `chan` follow the two main threads. A session is one run of
the client and the server it forks; the next may begin as soon as the client
has exited. `todo` is what matters to a worker of the request buffer: it gets a
request while there are any, and `quit` after that, when `main()` has created all
workers. `stolen` records that a server's destructor removed a pipe of a later
session, `fault` which fault the last session met: a process killed, a worker
(`client.cpp:316-325`) or a server thread (`dataserver.cpp:28`) that cannot be
created. The program `rmv` is taken to be built (the makefile builds it).

## 3. Runs

| run | instance | question |
|---|---|---|
| `buffer_safety` | 4 threads, 2 strings, capacity 2, fair | mutual exclusion, capacity, no lost wake-up; is it an atomic FIFO; does some blocked call go through whenever the buffer can serve it? |
| `client_safety` | n=1, w=2, b=1, readings 7 and 93 | conservation, order of the shutdown, exact report; does it implement `Survey` and `Connection`? |
| `client_reports` | n=2, w=1, b=1, fair, the server may refuse or die | does it always finish, without a report only if the server failed? |
| `client_failures` | n=1, w=2, b=6, one thread cannot be created, the server may die, no `rmv` | is anything overcounted, does the shutdown keep its order? |
| `client_early_quit` | n=1, w=2, a worker cannot be created, no `rmv` | violated: a stat thread gets its quit while a worker has still a response to store for it |
| `server_safety` | 2 worker connections and a control connection, 2 descriptors, one failing call, clients may vanish, symmetry | do descriptors, connections and threads match, is each request answered once, what ends the server; does it implement `Connection`? |
| `server_live` | `EchoTCP`: either program, 3 connections, 1 descriptor, one failing call, fair | is everyone answered although `accept` fails again and again; what does a `ClientTCP` show, and does it end when told to? |
| `launch` | 3 runs, 2 workers, fair | when can a run fail, does every run end, who leaves a server behind? |
| `server_dangling` | 2 connections | violated: a thread reads a descriptor that is not its own |
| `fifo_sessions` | 2 sessions, 2 workers sharing 2 requests, files left over or not, in the last session a process may be killed or a thread may be missing, fair | do the right ends meet, is the shutdown clean, does every session end? |
| `fifo_restart` | 2 sessions, 1 worker | violated: two ends of a channel hold different pipes |
| `histogram_print` | 2 rows of 2 cells, 2 responses each, one alarm | what can a print in the middle show, and is the last one exact? |

Why the bounds are enough for the questions: two producers and two consumers on
a buffer of one or two slots show every way to wait, to be overtaken and to be
woken; more add only more of the same. In the client, `b = 1` is clamped to
three, so the response buffers have one slot and `WorkerStore` blocks; with
`n = 2` six requests go through a request buffer of three, so request threads,
workers and `main()` itself all block at times; two workers let a response
overtake another. Two readings in different bins tell a wrong bin from a right
one. The server's runs have fewer descriptors than connections, so that
descriptors run out and are given out again, and connections enough to move the
vector twice (capacities 1, 2, 4). For the histogram, one alarm is enough to
meet every step of the updates and of the final print; `MaxAlarms = 2` has been
run once (no violation) and is left out for its length. The bounds that are
not parameters of the programs are `MaxFailures`, `MaxRequests`, `MaxFds` (a
limit of the process), `MaxAlarms`, `Sessions` and, in `ServerReads` of `FifoSession`,
`NameLeft`: the code counts channels without end, the model knows the names of `W`
(met after a theft only, as `BoundUnmet` proves). Two sessions are enough for
one to disturb the next, since a server at its end only removes files. A
fault happens in the last session only: what an orphan would do to a later
session is not modelled. Three runs on one port let a run's channels lead to two
servers while a third run finds the port taken.

`CHECK_DEADLOCK FALSE` is set only where a thread could not be created: then the
client really may hang (a missing stat thread leaves a response buffer to fill),
for `Server`, which waits in `accept` for ever when nobody connects, for
`FifoSession` and `Launch`, which end when the last run does, and for `EchoTCP`,
where everybody may have left.

Fairness. `SafeBuffer`: a thread that holds the mutex keeps running (WF of
`Critical`), and a thread that wants a mutex that is free again and again gets
it (SF of `Lock`); nothing makes a thread call, and no fairness is put on
spurious wake-ups. POSIX does not promise the SF, schedulers give it in
practice. `Client`: every thread that can take a step is run eventually, and
the server answers what it has received (WF of each thread). `Server`: the
accept loop and each server thread are run eventually, a client reads its
answer and says goodbye in the end. `FifoSession`: the main threads, workers and
server threads run; nothing makes anyone start the client again. `EchoTCP`: the same for its server,
`recv` returns in a client when it can, and a user who is there types on and
says `!` or `!!` after `MaxRequests` messages. `Launch`: a confirmed run proceeds,
a server that was told to exit does, a port comes out of `TIME_WAIT`. No fault is
ever fair, nobody is made to connect or to ask.

Every property of a passing run has a mutant: an operator placed before the
definition it alters ("Mutant of ..."), a plausible slip such as `<=` for `<`, a
missing join, a signal given only to the first, which TLC must catch.

## 4. Proofs

`SafeBufferProofs` proves, for any finite set of threads, any strings and any
positive capacity (`MaxSizeAssumption`, `ThreadsAssumption`):

* `TypeCorrect`: `Spec => []TypeOK`. `TypeOK` is inductive because it also says
  who holds a string: a thread inside `push` does, a thread outside holds none.
* `MutualExclusion`: `Spec => []MutexOwnership`, inductive given the types.
* `Capacity`: `Spec => []WithinCapacity`, inductive given the types.
* `WakeupsKept`: `Spec => []NoLostWakeup`. While a consumer sleeps, the strings
  in the queue are at most as many as the `Takers`: threads that will look at
  the queue, and threads that still owe a signal. A push adds a string and makes
  the pusher a taker; its signal passes that role to a sleeper; a pop removes
  both a string and a taker. `MutexOwnership` supplies that sleepers are not
  takers already. `Counting` is the only fact about cardinalities it needs.
* `IsFIFO`: `Spec => ImplementsFIFO`, the refinement of `BoundedFIFO`'s safety
  part, by showing each action to be one abstract action or to leave the
  abstract state alone.

`ClientProofs` and `ClientCounting` prove, for any `N`, `W >= 1` and `B`, any set of
readings, any `MaxFailures`, with or without `rmv`, the server dying or not
(`NAssumption` to `FaultAssumption`, `ReadingsAssumption`, `QuitAssumption`):

* `TypeCorrect`: `Spec => []TypeOK`, which is inductive together with `Counter`
  (main's `i` counts threads only while it loops over them) and `Locals` (which
  local holds a value when).
* `QuitsLast`, `WorkersLast`, `OrderlyShutdown`: `QuitsComeLast`,
  `WorkersStopLast` and `OrderlyUnlessSkipped`, whatever fails. None of them is
  inductive. What makes them true is where `main()` is: at each point of it some
  threads have not been created (`Unborn`), some have been joined
  (`JoinedSoFar`), and some messages cannot have been sent yet (`SaidSoFar`,
  `CountedSoFar`). With what a connection holds while its worker is where it is
  (`Lines`) and the order of the request buffer (`QuitsInOrder`) this is the
  inductive invariant `Orderly`.
* `StatQuitsAfter`, `KillAfter`: `StatQuitsAfterWorkers` and `KillAfterWorkers` as
  long as no `pthread_create` has failed (`failures = 0`); the run `client_safety`
  checks them where no creation fails. After a failure the first is false even if
  no worker was created at all, which harms nothing. What does harm, a worker with
  a response to store behind the quit, is what `client_early_quit` shows
  (`QuitBehindResponses`).
* `RequestsAccounted`, `AnswersAccounted`: `RequestsConserved` and
  `AnswersConserved`, whatever fails. A request is counted where it is (request
  buffer, worker, connection, response buffer, stat thread, histogram), and each
  action takes one from a place and adds one to the next. `Positions` counts in
  a buffer by the cardinality of a set of indices; that a push adds one to it
  and a pop takes one away are lemmas, as are the same facts about sets of
  threads.
* `NoOvercount`: `NeverOvercounts`, whatever fails. That no row counts more than `N`
  responses follows from the first of these, as at most `N` requests are pushed for
  a patient; that no bin holds more than the server gave, from the second.
* `NothingLeft`, `ReportIsExact`: `NothingLeftBehind` and `ReportExact` when
  `main()` reports and no creation has failed. A stat thread that could not be
  created counts nothing and a request thread that could not asks for nothing,
  so the hypothesis is what the code needs; a worker that could not be created
  turns the process into `rmv` before it reports, and counts as a failure only
  where there is no `rmv`. The inductive invariant is `Complete`: `Orderly`, the
  two conservation laws, and two more facts about quits: the quit of a stat
  thread is the last element of its buffer (`StatQuitsEnd`), and every quit
  pushed for a worker is in the buffer or with a worker that has ended
  (`QuitsTaken`), so that when all `W` workers are joined all `W` quits are taken
  and the buffer is empty.
* `IsSurvey`: `Spec => ImplementsSurvey` where `MaxFailures = 0`; `Survey` reports
  only when all responses are counted, which the missing threads of a failure
  would make false.
* `IsConnection`: `Spec => ImplementsConnection`, whatever fails.

`ServerProofs` proves, for any finite set of connections, control connections
among them, any number of descriptors, requests and failures, clients that
vanish or not (`ConnsAssumption`, `BoundsAssumption`, `MayVanishAssumption`):

* `TypeCorrect`: `Spec => []TypeOK`.
* `OneThreadPerConnection`: `OneThreadEach`. The invariant is `Arranged`: a thread
  that has read its argument has its own descriptor (`OwnCopy`), an open
  descriptor belongs to one living thread or is about to be given to one
  (`Matched`), and descriptors and backlog hold different connections, all of
  them made (`Separate`). A close and the next `accept` may reuse a descriptor
  at once, so none of the three is inductive without the others.
* `Answered`: `AnsweredOnce`. The invariant is `Exchange`: what is under way on a
  connection, by what its client is doing. A thread in the middle of a message
  holds what was taken from the connection, so nothing is lost or answered twice.
* `EndsWithReason`: `EndsForAReason`, from the same two.
* `IsConnection`: `Spec => ImplementsConnection`. The requests and answers that
  `Connection` counts can be read off the client alone (`CountsNow`): a client that
  waits has one or the other under way, nobody else has any.

All four are about a server in which no thread has read a wrong descriptor
(`~astray`), the hypothesis the properties themselves state: `server_dangling`
shows that it can be false. `astray` never goes back (`StaysAstray`), so the
invariant that is proved is `OnCourse == ~astray => Arranged /\ Exchange /\
EndsForAReason`. With both `IsConnection` theorems each side of a connection is
proved to give what the other assumes, for every instance.

`EchoTCPProofs` proves the same of `EchoSpec`, which runs either program:

* `OwnTextOnlyAtTheEnd`: `OwnTextIsTheGoodbye`. A `ClientTCP` that is not waiting has
  nothing under way and is still connected; what one that waits has said is on the
  way, with its thread, or answered, or was `!` and has closed the connection
  (`EchoTalk`). A `recv` that returns nothing while the server runs therefore happens
  only after a `!`: then the client prints its own `!` as received from the server
  (`ClientTCP.cpp:59-60`), and ends. This holds only while the server runs and no thread
  has gone astray, which are the hypotheses of the property.
* `OneThreadInBoth` and `TypesInBoth`: `OneThreadEach` and `TypeOK`, from the steps of
  `Server`, of which `Hello` and the steps of a `ClientTCP` are only variants.

`LaunchProofs` proves, for any set of runs, finite or not, and any `W >= 1`
(`WorkersAssumption`, `PortAssumption`):

* `TypeCorrect`: `Spec => []TypeOK`.
* `FailsWithReason`: `FailsForAReason`. A server of which some run has a channel is
  gone only after a run that has ended had a channel of it too (`WhyGone`); the
  run that fails for it has not ended, so it shares the server with another. If
  the users heed the program, runs take turns (`InTurn`): one is on its way at a
  time, its server is the only one that starts, and stays until it is told.

`HistogramPrintProofs` proves, for any number of rows, cells, responses and
alarms (`SizesAssumption`, `AmountsAssumption`):

* `UpdatesKept`: `Spec => []NoUpdateLost`. The mutex of `update` is commented out
  and nothing is lost, because what a stat thread has loaded is still in the
  cell when it stores (`Fresh`): only this thread writes to its row, however
  many handlers run in between. `RowOf` carries the argument: if two threads
  shared a row, `Fresh` would not survive `UpdateStore`.
* `PrintsInBetween`: `PrintedInBetween`. The two reads of a cell run through the
  table while it changes under them, so the invariant relates three sums in the
  middle of a call (`InBetween`): what has been added up is at most what is now in
  the cells passed; what has been shown is at most that, but for a cell between its
  two reads; and the count at the beginning, plus what the passed cells hold, is at
  most what was shown plus what the row holds, that is, what is missing is in the
  cells to come. An increment in a passed cell, or in one to come, keeps all three,
  because cells only grow.
* `LastIsExact`: `LastPrintExact`. `main()` begins its print when every stat thread
  has counted all its responses (`Bounded`, `Complete`), so the two ends between
  which its print lies are both `N`.
* `TypeCorrect`: `Spec => []TypeOK`, in which no printed sum exceeds `N`.

`Sums(row)[b]` is a recursive function. That it is defined, a number, rising along
the row, and one more in every sum that includes an incremented cell, is proved by
taking the least cell where it fails (`UpTo`, from `WFMin`), since induction rules
cannot be used here.

`FifoSessionProofs` proves, for any number of sessions, workers and requests, with
or without files left over, kills and threads that cannot be created
(`FifoAssumption`, `MayFailAssumption`):

* `Invariance`: `Spec => []IInv`, where `IInv` says that as long as no pipe has been
  stolen (`~stolen`) the types hold and five more things do:
  * `Meeting`: neither end of a channel passes an `open` of the constructor
    without the other (`Sync`), they hold the same pipes, and what one has opened
    the other still finds (`Found`, `Sought`). Both sides open pipe 1 first; if
    one opened pipe 2 first, `Sync` would not survive `Open`.
  * `Naming`: a pipe was made for one name, an end holds pipes of its own session only,
    and every file there is names a pipe of the latest session (`Newest`; files left
    over at the start count as the first one's). Without it a new session might
    open what an old one is about to leave.
  * `Lives`: which main threads live at the same time; a session begins when the
    client before it has exited, and only the last one meets a fault.
  * `Shapes`: which channels a main thread has opened, given to a worker, or
    deleted, by where it is.
  * `Talking`: what is in the pipes of a channel, by where the two threads are that
    talk over it (`Dialogue` on the control channel, `Exchange` on the others). This
    is what excludes a read from a pipe without writer and a write without reader.
* `EndsMeetAlways`: `EndsMeetUnlessStolen`, from `Meeting`.
* `NobodyIsBroken`: `NobodyBroken`, from `Lives`, whose step needs all the others: a
  process dies of a pipe only if its partner has closed, and `Shapes` and `Talking`
  say that nobody closes while the partner still reads or writes.
* `NoFilesAreLeft`: `LeavesNoFiles`. The client has gone through `delete` of each
  channel, and what it has removed only a later session makes again (`Removed`).
* `TypeCorrect`: `TypeOK`, with no hypothesis: it is inductive by itself. Where an
  end has no pipe a write or a read changes nothing, so not even `Held` is needed.
* `BoundUnmet`: as long as no pipe has been stolen, a server that reads `newchannel`
  has a name left, so that the bound `NameLeft` cuts off nothing.

The hypothesis `~stolen` of the others is the one the properties state, and
`fifo_restart` shows that it can be false. After a theft one end may hold a pipe that
nobody else knows, and the server of one session may answer the client of another;
then the code promises none of the three.

TLC checked each inductive invariant before it was proved, on the instances of
the runs (`client_safety`, `client_failures`, `client_reports`, `server_safety`,
`server_live`, `launch`, `histogram_print`, `fifo_sessions`, and for the last also
with three sessions).

Only model-checked: all liveness (outside the prover's reach), `ImplementsProgress`,
`EventuallyReports`, `EveryoneIsServed`, `GoodbyeEnds`, `RunsEnd` and `SessionsEnd`.

## 5. Findings

`client_early_quit`: `pa7/client.cpp:165` says of the stat threads' `quit` that
it "will be pushed after worker threads are joined". If a worker cannot be
created and there is no `rmv` to turn into, `main()` skips the joins
(`client.cpp:394, 401`) and pushes those quits, and `!!`, while the remaining
workers run. In the counterexample the first worker is created and the second is
not; the stat thread's buffer has its quit while the first worker is about to send
a request, whose response it will store in that buffer, where nobody may be left
to count it.

`server_dangling`: `pa7/reqchannel.cpp:169` copies the descriptor into
`new_fds` "to ensure deep copy", but the thread gets a pointer to that copy
(171) and reads it when it is first scheduled (46). If the next connection has
been accepted by then, `push_back` may have moved the vector, and the thread
reads freed memory: two threads may serve one connection and none the other.

`fifo_restart`: `pa6/reqchannel.h:36` says of a new channel "If the channel exists
already, this object is associated with the channel." The server's destructor
removes the control pipes after the client has exited
(`pa6/reqchannel.cpp:125-128`). If the client is run again at once, as
`pa6/test.sh` does, it removes a pipe the new session has just made; the other
new end makes another one, and both wait in `open()`.

## 6. Not modelled

The timing and the output format; socket options and address lookup; a server on
another host (`-h`), which is nobody's child. `-w 0`, which creates no worker
(`WAssumption`). The limits of the listen backlog. That an `open` of a fifo, or its
creation, fails because the process has no descriptor left
(`pa6/reqchannel.h:41-47`): `OpenFails` is only the file that has been removed.

`ServerUDP` prints each datagram and keeps nothing, `ClientUDP` sends one and ends,
`connect` and `lookup` make one call and print its result, `test` and `junk_test`
are scratch files: no state, no second actor, nothing that could come in another
order. `MQrc` and `SHMrc` (`pa6/reqchannel.h:102-132`) are stubs.

`pa6/dataserver.cpp:23` counts channels without its lock, which would matter if
`newchannel` came on two channels; no client sends it but on the control channel.

The calls of `system` and `cout` inside the signal handler, which a C library may
not survive (a hazard, but one inside the library).

## 7. Plan

1. Done: `BoundedFIFO`, `SafeBuffer`, `Survey`, `Connection`, `Client`, `Server`,
   `EchoTCP`, `Launch`, `HistogramPrint` and `FifoSession`, with the runs of section 3.
2. Done: the theorems of section 4, one for each safety property of a passing run.
3. Left: the stat threads and the histogram of pa6, which `Client` models for pa7.

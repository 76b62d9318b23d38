------------------------------ MODULE SafeBuffer ------------------------------
(***************************************************************************)
(* class SafeBuffer (pa7/SafeBuffer.h, pa7/SafeBuffer.cpp; the copies      *)
(* under pa6 are identical): a queue<string> guarded by one pthread mutex  *)
(* and two condition variables, cond_nf ("not full") and cond_ne ("not     *)
(* empty").                                                                *)
(*                                                                         *)
(* Any thread may call push, pop or size whenever it is not already inside *)
(* the buffer, so the module covers every client.  One action is one step  *)
(* a thread takes between two points where another thread can run: taking  *)
(* the mutex, one evaluation of the while condition with what follows it,  *)
(* the signal, the release of the mutex.                                   *)
(*                                                                         *)
(* External semantics (POSIX): pthread_cond_wait releases the mutex and    *)
(* starts waiting in one atomic step and re-acquires the mutex before it   *)
(* returns; pthread_cond_signal wakes one waiter, if there is one; a       *)
(* waiter may also wake for no reason.                                     *)
(***************************************************************************)
EXTENDS Naturals, Sequences, FiniteSets

CONSTANTS
  Threads,   \* the threads that may call the buffer
  Value,     \* the strings that may be pushed
  MaxSize,   \* max_size, the capacity given to the constructor
  NoThread,  \* the owner of a free mutex
  NoValue    \* a thread that holds no string

\* main() never builds a buffer of capacity 0: "if(b < 3) b = 3" and b / 3.
ASSUME MaxSizeAssumption == MaxSize \in Nat \ {0}
ASSUME ThreadsAssumption == IsFiniteSet(Threads) /\ NoThread \notin Threads

VARIABLES
  q,         \* queue<string> q
  mut,       \* the thread that holds the mutex, or NoThread
  cond_nf,   \* the threads blocked in pthread_cond_wait(&cond_nf, &mut)
  cond_ne,   \* the threads blocked in pthread_cond_wait(&cond_ne, &mut)
  op,        \* op[t]: the member function t is executing, or "none"
  at,        \* at[t]: the point t has reached inside it
  str        \* str[t]: the parameter of push, the result of pop

vars == <<q, mut, cond_nf, cond_ne, op, at, str>>

Ops == {"none", "push", "pop", "size"}
Points == {"lock", "body", "signal", "unlock"}

TypeOK ==
  /\ q \in Seq(Value)
  /\ mut \in Threads \cup {NoThread}
  /\ cond_nf \subseteq Threads
  /\ cond_ne \subseteq Threads
  /\ op \in [Threads -> Ops]
  /\ at \in [Threads -> Points]
  /\ str \in [Threads -> Value \cup {NoValue}]
  /\ \A t \in Threads :
       /\ op[t] = "push" => str[t] \in Value
       /\ op[t] \in {"none", "size"} => str[t] = NoValue
       /\ op[t] = "none" => at[t] = "lock"

\* The constructor: an empty queue, a free mutex, nobody waiting.
Init ==
  /\ q = <<>>
  /\ mut = NoThread
  /\ cond_nf = {}
  /\ cond_ne = {}
  /\ op = [t \in Threads |-> "none"]
  /\ at = [t \in Threads |-> "lock"]
  /\ str = [t \in Threads |-> NoValue]

\* Mutant of Full: one string too many.
FullOffByOne == Len(q) > MaxSize

Full == Len(q) >= MaxSize
Empty == Len(q) <= 0
At(t, o, p) == op[t] = o /\ at[t] = p
Goto(t, p) == at' = [at EXCEPT ![t] = p]

-----------------------------------------------------------------------------
(* Calls, from outside the buffer.                                         *)

\* Mutant of CallPush: the argument is lost.
CallPushForgetting(t, s) ==
  /\ op[t] = "none"
  /\ op' = [op EXCEPT ![t] = "push"]
  /\ UNCHANGED <<q, mut, cond_nf, cond_ne, at, str>>

CallPush(t, s) ==
  /\ op[t] = "none"
  /\ op' = [op EXCEPT ![t] = "push"]
  /\ str' = [str EXCEPT ![t] = s]
  /\ UNCHANGED <<q, mut, cond_nf, cond_ne, at>>

CallPop(t) ==
  /\ op[t] = "none"
  /\ op' = [op EXCEPT ![t] = "pop"]
  /\ UNCHANGED <<q, mut, cond_nf, cond_ne, at, str>>

CallSize(t) ==
  /\ op[t] = "none"
  /\ op' = [op EXCEPT ![t] = "size"]
  /\ UNCHANGED <<q, mut, cond_nf, cond_ne, at, str>>

\* Mutant of Lock: the mutex is not looked at.
LockIgnoringOwner(t) ==
  /\ op[t] # "none"
  /\ at[t] = "lock"
  /\ t \notin cond_nf \cup cond_ne
  /\ mut' = t
  /\ Goto(t, "body")
  /\ UNCHANGED <<q, cond_nf, cond_ne, op, str>>

\* pthread_mutex_lock, on entry and on the way out of pthread_cond_wait.
Lock(t) ==
  /\ op[t] # "none"
  /\ at[t] = "lock"
  /\ t \notin cond_nf \cup cond_ne
  /\ mut = NoThread
  /\ mut' = t
  /\ Goto(t, "body")
  /\ UNCHANGED <<q, cond_nf, cond_ne, op, str>>

-----------------------------------------------------------------------------
(* push                                                                    *)

PushWait(t) ==
  /\ At(t, "push", "body")
  /\ Full
  /\ mut' = NoThread
  /\ cond_nf' = cond_nf \cup {t}
  /\ Goto(t, "lock")
  /\ UNCHANGED <<q, cond_ne, op, str>>

PushItem(t) ==
  /\ At(t, "push", "body")
  /\ ~Full
  /\ q' = Append(q, str[t])
  /\ Goto(t, "signal")
  /\ UNCHANGED <<mut, cond_nf, cond_ne, op, str>>

\* Mutant of PushSignal: a signal only when the queue was empty.
PushSignalIfFirst(t) ==
  /\ At(t, "push", "signal")
  /\ IF Len(q) # 1 \/ cond_ne = {}
     THEN UNCHANGED cond_ne
     ELSE \E u \in cond_ne : cond_ne' = cond_ne \ {u}
  /\ Goto(t, "unlock")
  /\ UNCHANGED <<q, mut, cond_nf, op, str>>

PushSignal(t) ==
  /\ At(t, "push", "signal")
  /\ IF cond_ne = {}
     THEN UNCHANGED cond_ne
     ELSE \E u \in cond_ne : cond_ne' = cond_ne \ {u}
  /\ Goto(t, "unlock")
  /\ UNCHANGED <<q, mut, cond_nf, op, str>>

-----------------------------------------------------------------------------
(* pop                                                                     *)

PopWait(t) ==
  /\ At(t, "pop", "body")
  /\ Empty
  /\ mut' = NoThread
  /\ cond_ne' = cond_ne \cup {t}
  /\ Goto(t, "lock")
  /\ UNCHANGED <<q, cond_nf, op, str>>

\* Mutant of PopItem: the newest string instead of the oldest.
PopNewest(t) ==
  /\ At(t, "pop", "body")
  /\ ~Empty
  /\ str' = [str EXCEPT ![t] = q[Len(q)]]
  /\ q' = SubSeq(q, 1, Len(q) - 1)
  /\ Goto(t, "signal")
  /\ UNCHANGED <<mut, cond_nf, cond_ne, op>>

PopItem(t) ==
  /\ At(t, "pop", "body")
  /\ ~Empty
  /\ str' = [str EXCEPT ![t] = Head(q)]
  /\ q' = Tail(q)
  /\ Goto(t, "signal")
  /\ UNCHANGED <<mut, cond_nf, cond_ne, op>>

\* Mutant of PopSignal: no signal.
PopNoSignal(t) ==
  /\ At(t, "pop", "signal")
  /\ Goto(t, "unlock")
  /\ UNCHANGED <<q, mut, cond_nf, cond_ne, op, str>>

PopSignal(t) ==
  /\ At(t, "pop", "signal")
  /\ IF cond_nf = {}
     THEN UNCHANGED cond_nf
     ELSE \E u \in cond_nf : cond_nf' = cond_nf \ {u}
  /\ Goto(t, "unlock")
  /\ UNCHANGED <<q, mut, cond_ne, op, str>>

-----------------------------------------------------------------------------
(* size: the length is read between the lock and the unlock.               *)
SizeRead(t) ==
  /\ At(t, "size", "body")
  /\ Goto(t, "unlock")
  /\ UNCHANGED <<q, mut, cond_nf, cond_ne, op, str>>

(* pthread_mutex_unlock and the return to the caller.                      *)
Unlock(t) ==
  /\ op[t] # "none"
  /\ at[t] = "unlock"
  /\ mut' = NoThread
  /\ op' = [op EXCEPT ![t] = "none"]
  /\ str' = [str EXCEPT ![t] = NoValue]
  /\ Goto(t, "lock")
  /\ UNCHANGED <<q, cond_nf, cond_ne>>

(* A spurious wake-up from pthread_cond_wait.                              *)
SpuriousWake(t) ==
  /\ t \in cond_nf \cup cond_ne
  /\ cond_nf' = cond_nf \ {t}
  /\ cond_ne' = cond_ne \ {t}
  /\ UNCHANGED <<q, mut, op, at, str>>

-----------------------------------------------------------------------------
Call(t) == (\E s \in Value : CallPush(t, s)) \/ CallPop(t) \/ CallSize(t)

\* What t does inside the buffer while it holds the mutex.
Critical(t) ==
  \/ PushWait(t) \/ PushItem(t) \/ PushSignal(t)
  \/ PopWait(t) \/ PopItem(t) \/ PopSignal(t)
  \/ SizeRead(t) \/ Unlock(t)

Next == \E t \in Threads : Call(t) \/ Lock(t) \/ Critical(t) \/ SpuriousWake(t)

Spec == Init /\ [][Next]_vars

(***************************************************************************)
(* A thread that holds the mutex keeps running, and a thread that wants    *)
(* the mutex gets it if the mutex is free again and again.  Nothing makes  *)
(* a thread call the buffer or wake for no reason.                         *)
(***************************************************************************)
Fairness ==
  \A t \in Threads : WF_vars(Critical(t)) /\ SF_vars(Lock(t))

FairSpec == Spec /\ Fairness

-----------------------------------------------------------------------------
(* Properties.                                                             *)

\* The threads that will look at the queue again and may take an item, and
\* those that may add one; a thread that still owes a signal counts for the
\* other side, because its signal will wake one.
Takers == {t \in Threads \ cond_ne : \/ op[t] = "pop" /\ at[t] \in {"lock", "body"}
                                     \/ At(t, "push", "signal")}
Givers == {t \in Threads \ cond_nf : \/ op[t] = "push" /\ at[t] \in {"lock", "body"}
                                     \/ At(t, "pop", "signal")}

(***************************************************************************)
(* Exactly the owner of the mutex is between its lock and its unlock, and  *)
(* a thread asleep on a condition variable is inside the call that waits   *)
(* on that variable and does not hold the mutex (SafeBuffer.cpp:42-48 and  *)
(* 56-63; "Is this function thread-safe???", SafeBuffer.cpp:39).           *)
(***************************************************************************)
MutexOwnership ==
  /\ \A t \in Threads : (op[t] # "none" /\ at[t] # "lock") <=> mut = t
  /\ \A t \in cond_nf : At(t, "push", "lock")
  /\ \A t \in cond_ne : At(t, "pop", "lock")

(***************************************************************************)
(* The queue never outgrows max_size, although a producer that waited for  *)
(* room can be overtaken between its wake-up and its re-acquisition of the *)
(* mutex (the "while" of SafeBuffer.cpp:43).                               *)
(***************************************************************************)
WithinCapacity == Len(q) <= MaxSize

(***************************************************************************)
(* No lost wake-up: while a consumer sleeps on cond_ne, every string in    *)
(* the queue is matched by a thread that will take it or wake a sleeper    *)
(* for it; while a producer sleeps on cond_nf, every free slot is matched  *)
(* the same way.  So nobody sleeps on a buffer that could serve it with no *)
(* thread left to notice (the signals of SafeBuffer.cpp:47 and 62, one per *)
(* operation whatever the length of the queue).                            *)
(***************************************************************************)
NoLostWakeup ==
  /\ cond_ne # {} => Len(q) <= Cardinality(Takers)
  /\ cond_nf # {} => MaxSize - Len(q) <= Cardinality(Givers)

(***************************************************************************)
(* SafeBuffer implements BoundedFIFO.  A push has taken effect once its    *)
(* item is in the queue, a pop once its item has left; size() reads only,  *)
(* so the abstract thread stays idle while it runs.                        *)
(***************************************************************************)
CallStatus ==
  [t \in Threads |->
     IF op[t] \in {"none", "size"} THEN "none"
     ELSE IF at[t] \in {"signal", "unlock"} THEN "returning"
     ELSE op[t]]

Fifo == INSTANCE BoundedFIFO WITH call <- CallStatus

\* Every push and pop takes effect at one instant, in first-in first-out order
\* and within the capacity (SafeBuffer::push and SafeBuffer::pop).
ImplementsFIFO == Fifo!Spec

\* While there is room some pending push goes through, and while there is a
\* string some pending pop does: the waiting of push and pop is never for ever
\* on the part of all callers (the two wait loops and the two signals).
ImplementsProgress == Fifo!FairSpec
=============================================================================

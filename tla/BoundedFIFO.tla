----------------------------- MODULE BoundedFIFO -----------------------------
(***************************************************************************)
(* What a SafeBuffer promises the threads that share it: a bounded         *)
(* first-in first-out queue whose push and pop take effect at one instant  *)
(* between the call and the return.  There is no mutex, no condition       *)
(* variable and no wake-up here; SafeBuffer.tla is shown to implement this *)
(* module, and Client.tla uses its buffers the way this module describes.  *)
(***************************************************************************)
EXTENDS Naturals, Sequences

CONSTANTS
  Threads,   \* the threads that may call the buffer
  Value,     \* the strings that may be pushed
  MaxSize,   \* max_size, the capacity given to the constructor
  NoValue    \* a thread that holds no string

VARIABLES
  q,         \* the queue<string> q
  call,      \* call[t]: what thread t is doing with the buffer
  str        \* str[t]: the argument of t's push, or the result of t's pop

vars == <<q, call, str>>

Init ==
  /\ q = <<>>
  /\ call = [t \in Threads |-> "none"]
  /\ str = [t \in Threads |-> NoValue]

CallPush(t, s) ==
  /\ call[t] = "none"
  /\ call' = [call EXCEPT ![t] = "push"]
  /\ str' = [str EXCEPT ![t] = s]
  /\ UNCHANGED q

CallPop(t) ==
  /\ call[t] = "none"
  /\ call' = [call EXCEPT ![t] = "pop"]
  /\ UNCHANGED <<q, str>>

\* The instant a push takes effect: there is room, and the argument goes last.
Put(t) ==
  /\ call[t] = "push"
  /\ Len(q) < MaxSize
  /\ q' = Append(q, str[t])
  /\ call' = [call EXCEPT ![t] = "returning"]
  /\ UNCHANGED str

\* The instant a pop takes effect: the oldest string leaves with this caller.
Get(t) ==
  /\ call[t] = "pop"
  /\ q # <<>>
  /\ str' = [str EXCEPT ![t] = Head(q)]
  /\ q' = Tail(q)
  /\ call' = [call EXCEPT ![t] = "returning"]

Return(t) ==
  /\ call[t] = "returning"
  /\ call' = [call EXCEPT ![t] = "none"]
  /\ str' = [str EXCEPT ![t] = NoValue]
  /\ UNCHANGED q

Next ==
  \E t \in Threads :
    \/ \E s \in Value : CallPush(t, s)
    \/ CallPop(t)
    \/ Put(t)
    \/ Get(t)
    \/ Return(t)

Spec == Init /\ [][Next]_vars

(***************************************************************************)
(* The progress the buffer promises, for the buffer as a whole: while some *)
(* push is pending and there is room one of the pending pushes takes       *)
(* effect, and likewise for pops.  A particular caller may still be        *)
(* overtaken for ever.                                                     *)
(***************************************************************************)
Progress ==
  /\ WF_vars(\E t \in Threads : Put(t))
  /\ WF_vars(\E t \in Threads : Get(t))
  /\ \A t \in Threads : WF_vars(Return(t))

FairSpec == Spec /\ Progress
=============================================================================

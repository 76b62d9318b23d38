--------------------------- MODULE SafeBufferProofs ---------------------------
(***************************************************************************)
(* Theorems about SafeBuffer, for any finite set of threads, any strings   *)
(* and any positive capacity.                                              *)
(*                                                                         *)
(* The invariants are proved one on top of the other: the types, then who  *)
(* owns the mutex, then the capacity and the wake-ups, then the refinement *)
(* of BoundedFIFO.                                                         *)
(***************************************************************************)
EXTENDS SafeBuffer, FiniteSetTheorems, TLAPS

-----------------------------------------------------------------------------
(***************************************************************************)
(* Every variable keeps its type; only strings that were pushed are ever   *)
(* in the queue, and a thread outside the buffer holds none (all of        *)
(* SafeBuffer.cpp).                                                        *)
(***************************************************************************)
LEMMA TypeStep == TypeOK /\ [Next]_vars => TypeOK'
<1> SUFFICES ASSUME TypeOK, [Next]_vars
             PROVE  TypeOK'
  OBVIOUS
<1> USE DEF TypeOK, Ops, Points, Goto, At
<1>1. CASE UNCHANGED vars
  BY <1>1 DEF vars
<1>2. ASSUME NEW t \in Threads, NEW s \in Value, CallPush(t, s)
      PROVE  TypeOK'
  BY <1>2 DEF CallPush
<1>3. ASSUME NEW t \in Threads, CallPop(t) \/ CallSize(t)
      PROVE  TypeOK'
  BY <1>3 DEF CallPop, CallSize
<1>4. ASSUME NEW t \in Threads, Lock(t)
      PROVE  TypeOK'
  BY <1>4 DEF Lock
<1>5. ASSUME NEW t \in Threads, PushWait(t) \/ PopWait(t)
      PROVE  TypeOK'
  BY <1>5 DEF PushWait, PopWait
<1>6. ASSUME NEW t \in Threads, PushItem(t)
      PROVE  TypeOK'
  BY <1>6 DEF PushItem
<1>7. ASSUME NEW t \in Threads, PushSignal(t) \/ PopSignal(t)
      PROVE  TypeOK'
  BY <1>7 DEF PushSignal, PopSignal
<1>8. ASSUME NEW t \in Threads, PopItem(t)
      PROVE  TypeOK'
  BY <1>8 DEF PopItem, Empty
<1>9. ASSUME NEW t \in Threads, SizeRead(t) \/ Unlock(t) \/ SpuriousWake(t)
      PROVE  TypeOK'
  BY <1>9 DEF SizeRead, Unlock, SpuriousWake
<1> QED
  BY <1>1, <1>2, <1>3, <1>4, <1>5, <1>6, <1>7, <1>8, <1>9
  DEF Next, Call, Critical

(***************************************************************************)
(* Every variable keeps its type: the queue holds strings, every thread is *)
(* at a line of push, pop or size, and the mutex is free or a thread's     *)
(* (SafeBuffer.h:13-17).                                                   *)
(***************************************************************************)
THEOREM TypeCorrect == Spec => []TypeOK
<1>1. Init => TypeOK
  BY DEF Init, TypeOK, Ops, Points
<1> QED
  BY <1>1, TypeStep, PTL DEF Spec

-----------------------------------------------------------------------------
(***************************************************************************)
(* Mutual exclusion: the owner of the mutex is the one thread between its  *)
(* lock and its unlock, and a sleeper is in the call that waits on its     *)
(* condition variable (SafeBuffer.cpp:42-48, 56-63).                       *)
(***************************************************************************)
LEMMA OwnershipStep ==
  TypeOK /\ MutexOwnership /\ [Next]_vars => MutexOwnership'
<1> SUFFICES ASSUME TypeOK, MutexOwnership, [Next]_vars
             PROVE  MutexOwnership'
  OBVIOUS
<1> USE ThreadsAssumption DEF TypeOK, MutexOwnership, Ops, Points, Goto, At
<1>1. CASE UNCHANGED vars
  BY <1>1 DEF vars
<1>2. ASSUME NEW t \in Threads, Call(t)
      PROVE  MutexOwnership'
  BY <1>2 DEF Call, CallPush, CallPop, CallSize
<1>3. ASSUME NEW t \in Threads, Lock(t)
      PROVE  MutexOwnership'
  BY <1>3 DEF Lock
<1>4. ASSUME NEW t \in Threads, PushWait(t) \/ PopWait(t)
      PROVE  MutexOwnership'
  BY <1>4 DEF PushWait, PopWait
<1>5. ASSUME NEW t \in Threads, PushItem(t) \/ PopItem(t) \/ SizeRead(t)
      PROVE  MutexOwnership'
  BY <1>5 DEF PushItem, PopItem, SizeRead
<1>6. ASSUME NEW t \in Threads, PushSignal(t) \/ PopSignal(t)
      PROVE  MutexOwnership'
  BY <1>6 DEF PushSignal, PopSignal
<1>7. ASSUME NEW t \in Threads, Unlock(t) \/ SpuriousWake(t)
      PROVE  MutexOwnership'
  BY <1>7 DEF Unlock, SpuriousWake
<1> QED
  BY <1>1, <1>2, <1>3, <1>4, <1>5, <1>6, <1>7 DEF Next, Critical

(***************************************************************************)
(* Only the owner of the mutex is between lock and unlock, and a thread    *)
(* that waits on a condition variable does not hold it                     *)
(* (SafeBuffer.cpp:26-65).                                                 *)
(***************************************************************************)
THEOREM MutualExclusion == Spec => []MutexOwnership
<1>1. Init => MutexOwnership
  BY ThreadsAssumption DEF Init, MutexOwnership
<1> QED
  BY <1>1, OwnershipStep, TypeCorrect, PTL DEF Spec

-----------------------------------------------------------------------------
(***************************************************************************)
(* The capacity is never exceeded, by any number of producers overtaking   *)
(* each other (SafeBuffer.cpp:43).                                         *)
(***************************************************************************)
LEMMA CapacityStep ==
  TypeOK /\ WithinCapacity /\ [Next]_vars => WithinCapacity'
<1> SUFFICES ASSUME TypeOK, WithinCapacity, [Next]_vars
             PROVE  WithinCapacity'
  OBVIOUS
<1> USE MaxSizeAssumption DEF TypeOK, WithinCapacity
<1>1. ASSUME NEW t \in Threads, PushItem(t)
      PROVE  WithinCapacity'
  BY <1>1 DEF PushItem, Full, At
<1>2. ASSUME NEW t \in Threads, PopItem(t)
      PROVE  WithinCapacity'
  BY <1>2 DEF PopItem, Empty
<1>3. CASE q' = q
  BY <1>3
<1> QED
  BY <1>1, <1>2, <1>3
  DEF Next, vars, Call, Critical, CallPush, CallPop, CallSize, Lock, PushWait,
      PushSignal, PopWait, PopSignal, SizeRead, Unlock, SpuriousWake

(***************************************************************************)
(* push waits while the queue is full, so it never holds more than         *)
(* max_size strings (SafeBuffer.cpp:43).                                   *)
(***************************************************************************)
THEOREM Capacity == Spec => []WithinCapacity
<1>1. Init => WithinCapacity
  BY MaxSizeAssumption DEF Init, WithinCapacity
<1> QED
  BY <1>1, CapacityStep, TypeCorrect, PTL DEF Spec

-----------------------------------------------------------------------------
(***************************************************************************)
(* No lost wake-up (SafeBuffer.cpp:47 and 62).  Whoever stops being a      *)
(* taker either took a string or, with its signal, made a sleeper a taker; *)
(* whoever adds a string becomes a taker.  The same for givers and slots.  *)
(***************************************************************************)
LEMMA Counting ==
  ASSUME NEW S, NEW T, NEW x, IsFiniteSet(S), IsFiniteSet(T)
  PROVE  /\ Cardinality(S) \in Nat
         /\ S \subseteq T => Cardinality(S) <= Cardinality(T)
         /\ x \notin S /\ S \cup {x} \subseteq T
              => Cardinality(S) + 1 <= Cardinality(T)
         /\ S \ {x} \subseteq T => Cardinality(S) - 1 <= Cardinality(T)
<1>1. Cardinality(S) \in Nat /\ Cardinality(T) \in Nat
  BY FS_CardinalityType
<1>2. \A R \in SUBSET T : Cardinality(R) <= Cardinality(T)
  BY FS_Subset
<1>3. x \notin S => Cardinality(S \cup {x}) = Cardinality(S) + 1
  BY FS_AddElement
<1>4. Cardinality(S \ {x}) \in {Cardinality(S), Cardinality(S) - 1}
  BY FS_RemoveElement
<1> QED
  BY <1>1, <1>2, <1>3, <1>4

\* Both sides of the wake-up count are finite sets of threads.
LEMMA SidesFinite ==
  /\ IsFiniteSet(Takers) /\ IsFiniteSet(Givers)
  /\ IsFiniteSet(Takers') /\ IsFiniteSet(Givers')
<1>1. /\ Takers \subseteq Threads /\ Givers \subseteq Threads
      /\ Takers' \subseteq Threads /\ Givers' \subseteq Threads
  BY DEF Takers, Givers
<1> QED
  BY <1>1, FS_Subset, ThreadsAssumption

(***************************************************************************)
(* No step loses a wake-up: whoever takes a signal or fills a slot leaves  *)
(* enough threads awake for what is in the queue.                          *)
(***************************************************************************)
LEMMA WakeupStep ==
  TypeOK /\ MutexOwnership /\ NoLostWakeup /\ [Next]_vars => NoLostWakeup'
<1> SUFFICES ASSUME TypeOK, MutexOwnership, NoLostWakeup, [Next]_vars
             PROVE  NoLostWakeup'
  OBVIOUS
<1>0. /\ Len(q) \in Nat /\ MaxSize \in Nat
      /\ Cardinality(Takers) \in Nat /\ Cardinality(Takers') \in Nat
      /\ Cardinality(Givers) \in Nat /\ Cardinality(Givers') \in Nat
  <2>1. Len(q) \in Nat /\ MaxSize \in Nat
    BY MaxSizeAssumption DEF TypeOK
  <2> QED
    BY <2>1, SidesFinite, FS_CardinalityType
<1>1. CASE UNCHANGED vars
  BY <1>1 DEF vars, NoLostWakeup, Takers, Givers, At
\* Steps after which nobody new sleeps and both sides are at least as large.
<1>2. ASSUME q' = q, cond_ne' \subseteq cond_ne, cond_nf' \subseteq cond_nf,
             Takers \subseteq Takers', Givers \subseteq Givers'
      PROVE  NoLostWakeup'
  <2>1. /\ Cardinality(Takers) <= Cardinality(Takers')
        /\ Cardinality(Givers) <= Cardinality(Givers')
    BY <1>2, SidesFinite, Counting
  <2> QED
    BY <1>0, <1>2, <2>1 DEF NoLostWakeup
<1>3. ASSUME NEW t \in Threads, Call(t) \/ Lock(t)
      PROVE  NoLostWakeup'
  <2>1. /\ q' = q /\ cond_ne' = cond_ne /\ cond_nf' = cond_nf
        /\ Takers \subseteq Takers' /\ Givers \subseteq Givers'
    BY <1>3 DEF Call, CallPush, CallPop, CallSize, Lock, Goto, Takers, Givers,
                At, TypeOK
  <2> QED
    BY <2>1, <1>2
<1>4. ASSUME NEW t \in Threads, SizeRead(t) \/ Unlock(t) \/ SpuriousWake(t)
      PROVE  NoLostWakeup'
  <2>1. /\ q' = q /\ cond_ne' \subseteq cond_ne /\ cond_nf' \subseteq cond_nf
        /\ Takers \subseteq Takers' /\ Givers \subseteq Givers'
    BY <1>4 DEF SizeRead, Unlock, SpuriousWake, Goto, Takers, Givers, At,
                TypeOK
  <2> QED
    BY <2>1, <1>2
<1>5. ASSUME NEW t \in Threads, PushWait(t)
      PROVE  NoLostWakeup'
  <2>1. Takers \subseteq Takers' /\ q' = q /\ cond_ne' = cond_ne
    BY <1>5 DEF PushWait, Goto, Takers, At, TypeOK
  <2>2. Cardinality(Takers) <= Cardinality(Takers')
    BY <2>1, SidesFinite, Counting
  <2>3. Len(q) >= MaxSize
    BY <1>5 DEF PushWait, Full
  <2> QED
    BY <1>0, <2>1, <2>2, <2>3 DEF NoLostWakeup
<1>6. ASSUME NEW t \in Threads, PushItem(t)
      PROVE  NoLostWakeup'
  <2>1. /\ t \notin Takers /\ Takers \cup {t} \subseteq Takers'
        /\ Givers \ {t} \subseteq Givers'
        /\ cond_ne' = cond_ne /\ cond_nf' = cond_nf
    BY <1>6 DEF PushItem, Goto, Takers, Givers, At, TypeOK, MutexOwnership
  <2>2. /\ Cardinality(Takers) + 1 <= Cardinality(Takers')
        /\ Cardinality(Givers) - 1 <= Cardinality(Givers')
    BY <2>1, SidesFinite, Counting
  <2>3. Len(q') = Len(q) + 1
    BY <1>6 DEF PushItem, TypeOK
  <2> QED
    BY <1>0, <2>1, <2>2, <2>3 DEF NoLostWakeup
<1>7. ASSUME NEW t \in Threads, PushSignal(t)
      PROVE  NoLostWakeup'
  <2>1. Givers \subseteq Givers' /\ q' = q /\ cond_nf' = cond_nf
    BY <1>7 DEF PushSignal, Goto, Givers, At, TypeOK
  <2>2. Cardinality(Givers) <= Cardinality(Givers')
    BY <2>1, SidesFinite, Counting
  <2>3. CASE cond_ne = {}
    BY <1>0, <1>7, <2>1, <2>2, <2>3 DEF NoLostWakeup, PushSignal
  <2>4. CASE cond_ne # {}
    <3>1. PICK u \in cond_ne : cond_ne' = cond_ne \ {u}
      BY <1>7, <2>4 DEF PushSignal
    <3>2. /\ u \notin Takers
          /\ (Takers \ {t}) \cup {u} \subseteq Takers'
          /\ t \in Takers
      BY <1>7, <3>1 DEF PushSignal, Goto, Takers, At, TypeOK, MutexOwnership
    <3>3. Cardinality(Takers \ {t}) = Cardinality(Takers) - 1
      BY <3>2, SidesFinite, FS_RemoveElement
    <3>4. Cardinality(Takers \ {t}) + 1 <= Cardinality(Takers')
      <4>1. IsFiniteSet(Takers \ {t})
        BY SidesFinite, FS_RemoveElement
      <4> QED
        BY <4>1, <3>2, SidesFinite, Counting
    <3> QED
      BY <1>0, <2>1, <2>2, <2>4, <3>3, <3>4 DEF NoLostWakeup
  <2> QED
    BY <2>3, <2>4
<1>8. ASSUME NEW t \in Threads, PopWait(t)
      PROVE  NoLostWakeup'
  <2>1. Givers \subseteq Givers' /\ q' = q /\ cond_nf' = cond_nf
    BY <1>8 DEF PopWait, Goto, Givers, At, TypeOK
  <2>2. Cardinality(Givers) <= Cardinality(Givers')
    BY <2>1, SidesFinite, Counting
  <2>3. Len(q) <= 0
    BY <1>8 DEF PopWait, Empty
  <2> QED
    BY <1>0, <2>1, <2>2, <2>3 DEF NoLostWakeup
<1>9. ASSUME NEW t \in Threads, PopItem(t)
      PROVE  NoLostWakeup'
  <2>1. /\ t \notin Givers /\ Givers \cup {t} \subseteq Givers'
        /\ Takers \ {t} \subseteq Takers'
        /\ cond_ne' = cond_ne /\ cond_nf' = cond_nf
    BY <1>9 DEF PopItem, Goto, Takers, Givers, At, TypeOK, MutexOwnership
  <2>2. /\ Cardinality(Givers) + 1 <= Cardinality(Givers')
        /\ Cardinality(Takers) - 1 <= Cardinality(Takers')
    BY <2>1, SidesFinite, Counting
  <2>3. Len(q') = Len(q) - 1
    BY <1>9 DEF PopItem, Empty, TypeOK
  <2> QED
    BY <1>0, <2>1, <2>2, <2>3 DEF NoLostWakeup
<1>10. ASSUME NEW t \in Threads, PopSignal(t)
       PROVE  NoLostWakeup'
  <2>1. Takers \subseteq Takers' /\ q' = q /\ cond_ne' = cond_ne
    BY <1>10 DEF PopSignal, Goto, Takers, At, TypeOK
  <2>2. Cardinality(Takers) <= Cardinality(Takers')
    BY <2>1, SidesFinite, Counting
  <2>3. CASE cond_nf = {}
    BY <1>0, <1>10, <2>1, <2>2, <2>3 DEF NoLostWakeup, PopSignal
  <2>4. CASE cond_nf # {}
    <3>1. PICK u \in cond_nf : cond_nf' = cond_nf \ {u}
      BY <1>10, <2>4 DEF PopSignal
    <3>2. /\ u \notin Givers
          /\ (Givers \ {t}) \cup {u} \subseteq Givers'
          /\ t \in Givers
      BY <1>10, <3>1 DEF PopSignal, Goto, Givers, At, TypeOK, MutexOwnership
    <3>3. Cardinality(Givers \ {t}) = Cardinality(Givers) - 1
      BY <3>2, SidesFinite, FS_RemoveElement
    <3>4. Cardinality(Givers \ {t}) + 1 <= Cardinality(Givers')
      <4>1. IsFiniteSet(Givers \ {t})
        BY SidesFinite, FS_RemoveElement
      <4> QED
        BY <4>1, <3>2, SidesFinite, Counting
    <3> QED
      BY <1>0, <2>1, <2>2, <2>4, <3>3, <3>4 DEF NoLostWakeup
  <2> QED
    BY <2>3, <2>4
<1> QED
  BY <1>1, <1>3, <1>4, <1>5, <1>6, <1>7, <1>8, <1>9, <1>10
  DEF Next, Critical

(***************************************************************************)
(* No wake-up is lost: whatever a sleeping consumer could take, or a       *)
(* sleeping producer could fill, is matched by a thread that is awake and  *)
(* will do it or signal (SafeBuffer.cpp:43-47, 58-62).                     *)
(***************************************************************************)
THEOREM WakeupsKept == Spec => []NoLostWakeup
<1>1. Init => NoLostWakeup
  BY DEF Init, NoLostWakeup
<1> QED
  BY <1>1, WakeupStep, TypeCorrect, MutualExclusion, PTL DEF Spec

-----------------------------------------------------------------------------
(***************************************************************************)
(* A SafeBuffer is a BoundedFIFO: every step is a step of the abstract     *)
(* queue or does not show in it (SafeBuffer::push, pop and size).          *)
(***************************************************************************)
LEMMA FIFOStep == TypeOK /\ [Next]_vars => [Fifo!Next]_Fifo!vars
<1> SUFFICES ASSUME TypeOK, [Next]_vars
             PROVE  [Fifo!Next]_Fifo!vars
  OBVIOUS
<1> USE DEF TypeOK, Ops, Points, Goto, At, CallStatus, Fifo!vars
<1>1. CASE UNCHANGED vars
  BY <1>1 DEF vars
<1>2. ASSUME NEW t \in Threads, NEW s \in Value, CallPush(t, s)
      PROVE  Fifo!CallPush(t, s)
  BY <1>2 DEF CallPush, Fifo!CallPush
<1>3. ASSUME NEW t \in Threads, CallPop(t)
      PROVE  Fifo!CallPop(t)
  BY <1>3 DEF CallPop, Fifo!CallPop
<1>4. ASSUME NEW t \in Threads, PushItem(t)
      PROVE  Fifo!Put(t)
  <2>1. CallStatus[t] = "push" /\ CallStatus' = [CallStatus EXCEPT ![t] = "returning"]
    BY <1>4 DEF PushItem
  <2>2. Len(q) < MaxSize
    BY <1>4, MaxSizeAssumption DEF PushItem, Full
  <2> QED
    BY <1>4, <2>1, <2>2 DEF PushItem, Fifo!Put
<1>5. ASSUME NEW t \in Threads, PopItem(t)
      PROVE  Fifo!Get(t)
  <2>1. CallStatus[t] = "pop" /\ CallStatus' = [CallStatus EXCEPT ![t] = "returning"]
    BY <1>5 DEF PopItem
  <2>2. q # <<>>
    BY <1>5 DEF PopItem, Empty
  <2> QED
    BY <1>5, <2>1, <2>2 DEF PopItem, Fifo!Get
<1>6. ASSUME NEW t \in Threads, Unlock(t)
      PROVE  Fifo!Return(t) \/ UNCHANGED Fifo!vars
  <2>1. CASE op[t] = "size"
    BY <1>6, <2>1 DEF Unlock
  <2>2. CASE op[t] # "size"
    BY <1>6, <2>2 DEF Unlock, Fifo!Return
  <2> QED
    BY <2>1, <2>2
<1>7. ASSUME NEW t \in Threads,
             \/ CallSize(t) \/ Lock(t) \/ PushWait(t) \/ PushSignal(t)
             \/ PopWait(t) \/ PopSignal(t) \/ SizeRead(t) \/ SpuriousWake(t)
      PROVE  UNCHANGED Fifo!vars
  BY <1>7 DEF CallSize, Lock, PushWait, PushSignal, PopWait, PopSignal,
              SizeRead, SpuriousWake
<1> QED
  BY <1>1, <1>2, <1>3, <1>4, <1>5, <1>6, <1>7
  DEF Next, Call, Critical, Fifo!Next

(***************************************************************************)
(* What the buffer does is what an atomic bounded queue could do: each     *)
(* push and pop takes effect at one step inside the critical section.      *)
(***************************************************************************)
THEOREM IsFIFO == Spec => ImplementsFIFO
<1>1. Init => Fifo!Init
  BY DEF Init, Fifo!Init, CallStatus
<1> QED
  BY <1>1, FIFOStep, TypeCorrect, PTL DEF Spec, ImplementsFIFO, Fifo!Spec
=============================================================================

--------------------------- MODULE ThreadPoolProofs ---------------------------
(***************************************************************************)
(* Theorems about ThreadPool, for every number of worker threads and every *)
(* number of connections.                                                  *)
(***************************************************************************)
EXTENDS ThreadPool, TLAPS

(* A loop is published exactly from the step that stores it on.            *)
PublishedByWorker ==
    \A i \in Workers :
        event_loop[i] = IF worker[i] \in {"signal", "unlock", "run"} THEN i ELSE NULL

(* Each mutex is held by the thread that is inside its critical section.   *)
MutexHolders ==
    \A i \in Workers :
        /\ mutex[i] = "main" <=> i = index /\ pc \in {"check", "block"}
        /\ mutex[i] = "worker" <=> worker[i] \in {"publish", "signal", "unlock"}

(* The starter has been through the workers before index and has created   *)
(* none after it; about to sleep, it knows worker index has not published. *)
StarterOrder ==
    /\ pc = "init" => index = 0
    /\ pc = "serve" => ~(index < ThreadNumber)
    /\ \A i \in Workers : i < index => event_loop[i] = i
    /\ \A i \in Workers :
          i > index \/ (i = index /\ pc \in {"init", "create"}) => worker[i] = "none"
    /\ pc \in {"lock", "check", "block", "wait"} => worker[index] # "none"
    /\ pc = "block" => event_loop[index] = NULL

(* The workers before position have had one connection more.               *)
Dealt ==
    /\ NoNullLoop
    /\ \E n \in Nat :
          \A i \in Workers :
              connections.on[i] = IF i < position THEN n + 1 ELSE n

PoolInv ==
    /\ TypeOK
    /\ PublishedByWorker
    /\ MutexHolders
    /\ StarterOrder
    /\ NoLostSignal
    /\ Dealt

LEMMA InitHolds == Init => PoolInv
  <1> SUFFICES ASSUME Init PROVE PoolInv
    OBVIOUS
  <1> USE PoolAssumption DEF Init
  <1>1. TypeOK
    BY DEF TypeOK, Workers
  <1>2. PublishedByWorker
    BY DEF PublishedByWorker
  <1>5. MutexHolders
    BY DEF MutexHolders
  <1>6. NoLostSignal
    BY DEF NoLostSignal
  <1>3. StarterOrder
    BY DEF StarterOrder, Workers
  <1>4. Dealt
    <2>1. NoNullLoop
      BY DEF NoNullLoop
    <2>2. \A i \in Workers : connections.on[i] = IF i < position THEN 0 + 1 ELSE 0
      BY DEF Workers
    <2> QED
      BY <2>1, <2>2 DEF Dealt
  <1> QED
    BY <1>1, <1>2, <1>3, <1>4, <1>5, <1>6 DEF PoolInv

(* What the connections have been given depends on no other variable.      *)
LEMMA DealtKept ==
    ASSUME PoolInv, UNCHANGED dealVars
    PROVE  Dealt'
  BY DEF PoolInv, Dealt, NoNullLoop, dealVars

LEMMA StarterKeeps ==
    ASSUME PoolInv, StarterNext \/ SpuriousWakeup
    PROVE  PoolInv'
  <1> USE PoolAssumption DEF PoolInv
  <1>1. CASE PoolStart
    <2>1. TypeOK'
      BY <1>1 DEF TypeOK, PoolStart, Round, Workers, dealVars, startVars
    <2>2. PublishedByWorker'
      BY <1>1 DEF TypeOK, PublishedByWorker, StarterOrder, PoolStart, Round, startVars
    <2>3. MutexHolders'
      BY <1>1 DEF TypeOK, MutexHolders, StarterOrder, PoolStart, Round, Workers, startVars
    <2>4. StarterOrder'
      BY <1>1 DEF TypeOK, PublishedByWorker, MutexHolders, StarterOrder, PoolStart, Round, Workers, startVars
    <2>5. NoLostSignal'
      BY <1>1 DEF TypeOK, NoLostSignal, PublishedByWorker, MutexHolders, StarterOrder, PoolStart, Round, Workers, startVars
    <2>6. Dealt'
      BY <1>1, DealtKept DEF PoolStart
    <2> QED
      BY <2>1, <2>2, <2>3, <2>4, <2>5, <2>6
  <1>2. CASE ThreadCreate
    <2>1. TypeOK'
      BY <1>2 DEF TypeOK, ThreadCreate, Workers, dealVars, startVars
    <2>2. PublishedByWorker'
      BY <1>2 DEF TypeOK, PublishedByWorker, StarterOrder, ThreadCreate, startVars
    <2>3. MutexHolders'
      BY <1>2 DEF TypeOK, MutexHolders, StarterOrder, ThreadCreate, Workers, startVars
    <2>4. StarterOrder'
      BY <1>2 DEF TypeOK, PublishedByWorker, MutexHolders, StarterOrder, ThreadCreate, Workers, startVars
    <2>5. NoLostSignal'
      BY <1>2 DEF TypeOK, NoLostSignal, PublishedByWorker, MutexHolders, StarterOrder, ThreadCreate, Workers, startVars
    <2>6. Dealt'
      BY <1>2, DealtKept DEF ThreadCreate
    <2> QED
      BY <2>1, <2>2, <2>3, <2>4, <2>5, <2>6
  <1>3. CASE StarterLock
    <2>1. TypeOK'
      BY <1>3 DEF TypeOK, StarterLock, Acquire, Workers, dealVars, startVars
    <2>2. PublishedByWorker'
      BY <1>3 DEF TypeOK, PublishedByWorker, StarterOrder, StarterLock, Acquire, startVars
    <2>3. MutexHolders'
      BY <1>3 DEF TypeOK, MutexHolders, StarterOrder, StarterLock, Acquire, Workers, startVars
    <2>4. StarterOrder'
      BY <1>3 DEF TypeOK, PublishedByWorker, MutexHolders, StarterOrder, StarterLock, Acquire, Workers, startVars
    <2>5. NoLostSignal'
      BY <1>3 DEF TypeOK, NoLostSignal, PublishedByWorker, MutexHolders, StarterOrder, StarterLock, Acquire, Workers, startVars
    <2>6. Dealt'
      BY <1>3, DealtKept DEF StarterLock
    <2> QED
      BY <2>1, <2>2, <2>3, <2>4, <2>5, <2>6
  <1>4. CASE StarterCheck
    <2>1. TypeOK'
      BY <1>4 DEF TypeOK, StarterCheck, Release, Round, Workers, dealVars, startVars
    <2>2. PublishedByWorker'
      BY <1>4 DEF TypeOK, PublishedByWorker, StarterOrder, StarterCheck, Release, Round, startVars
    <2>3. MutexHolders'
      BY <1>4 DEF TypeOK, MutexHolders, StarterOrder, StarterCheck, Release, Round, Workers, startVars
    <2>4. StarterOrder'
      BY <1>4 DEF TypeOK, PublishedByWorker, MutexHolders, StarterOrder, StarterCheck, Release, Round, Workers, startVars
    <2>5. NoLostSignal'
      BY <1>4 DEF TypeOK, NoLostSignal, PublishedByWorker, MutexHolders, StarterOrder, StarterCheck, Release, Round, Workers, startVars
    <2>6. Dealt'
      BY <1>4, DealtKept DEF StarterCheck
    <2> QED
      BY <2>1, <2>2, <2>3, <2>4, <2>5, <2>6
  <1>5. CASE StarterWait
    <2>1. TypeOK'
      BY <1>5 DEF TypeOK, StarterWait, Release, Workers, dealVars, startVars
    <2>2. PublishedByWorker'
      BY <1>5 DEF TypeOK, PublishedByWorker, StarterOrder, StarterWait, Release, startVars
    <2>3. MutexHolders'
      BY <1>5 DEF TypeOK, MutexHolders, StarterOrder, StarterWait, Release, Workers, startVars
    <2>4. StarterOrder'
      BY <1>5 DEF TypeOK, PublishedByWorker, MutexHolders, StarterOrder, StarterWait, Release, Workers, startVars
    <2>5. NoLostSignal'
      BY <1>5 DEF TypeOK, NoLostSignal, PublishedByWorker, MutexHolders, StarterOrder, StarterWait, Release, Workers, startVars
    <2>6. Dealt'
      BY <1>5, DealtKept DEF StarterWait
    <2> QED
      BY <2>1, <2>2, <2>3, <2>4, <2>5, <2>6
  <1>6. CASE SpuriousWakeup
    <2>1. TypeOK'
      BY <1>6 DEF TypeOK, SpuriousWakeup, Workers, dealVars, startVars
    <2>2. PublishedByWorker'
      BY <1>6 DEF TypeOK, PublishedByWorker, StarterOrder, SpuriousWakeup, startVars
    <2>3. MutexHolders'
      BY <1>6 DEF TypeOK, MutexHolders, StarterOrder, SpuriousWakeup, Workers, startVars
    <2>4. StarterOrder'
      BY <1>6 DEF TypeOK, PublishedByWorker, MutexHolders, StarterOrder, SpuriousWakeup, Workers, startVars
    <2>5. NoLostSignal'
      BY <1>6 DEF TypeOK, NoLostSignal, PublishedByWorker, MutexHolders, StarterOrder, SpuriousWakeup, Workers, startVars
    <2>6. Dealt'
      BY <1>6, DealtKept DEF SpuriousWakeup
    <2> QED
      BY <2>1, <2>2, <2>3, <2>4, <2>5, <2>6
  <1> QED
    BY <1>1, <1>2, <1>3, <1>4, <1>5, <1>6 DEF StarterNext

LEMMA WorkerKeeps ==
    ASSUME PoolInv, NEW k \in Workers, WorkerNext(k)
    PROVE  PoolInv'
  <1> USE PoolAssumption DEF PoolInv
  <1>1. CASE WorkerLock(k)
    <2>1. TypeOK'
      BY <1>1 DEF TypeOK, WorkerLock, Acquire, Workers, dealVars, startVars
    <2>2. PublishedByWorker'
      BY <1>1 DEF TypeOK, PublishedByWorker, StarterOrder, WorkerLock, Acquire, startVars
    <2>3. MutexHolders'
      BY <1>1 DEF TypeOK, MutexHolders, StarterOrder, WorkerLock, Acquire, Workers, startVars
    <2>4. StarterOrder'
      BY <1>1 DEF TypeOK, PublishedByWorker, MutexHolders, StarterOrder, WorkerLock, Acquire, Workers, startVars
    <2>5. NoLostSignal'
      BY <1>1 DEF TypeOK, NoLostSignal, PublishedByWorker, MutexHolders, StarterOrder, WorkerLock, Acquire, Workers, startVars
    <2>6. Dealt'
      BY <1>1, DealtKept DEF WorkerLock
    <2> QED
      BY <2>1, <2>2, <2>3, <2>4, <2>5, <2>6
  <1>2. CASE Publish(k)
    <2>1. TypeOK'
      BY <1>2 DEF TypeOK, Publish, Workers, dealVars, startVars
    <2>2. PublishedByWorker'
      BY <1>2 DEF TypeOK, PublishedByWorker, StarterOrder, Publish, startVars
    <2>3. MutexHolders'
      BY <1>2 DEF TypeOK, MutexHolders, StarterOrder, Publish, Workers, startVars
    <2>4. StarterOrder'
      BY <1>2 DEF TypeOK, PublishedByWorker, MutexHolders, StarterOrder, Publish, Workers, startVars
    <2>5. NoLostSignal'
      BY <1>2 DEF TypeOK, NoLostSignal, PublishedByWorker, MutexHolders, StarterOrder, Publish, Workers, startVars
    <2>6. Dealt'
      BY <1>2, DealtKept DEF Publish
    <2> QED
      BY <2>1, <2>2, <2>3, <2>4, <2>5, <2>6
  <1>3. CASE Signal(k)
    <2>1. TypeOK'
      BY <1>3 DEF TypeOK, Signal, Woken, Workers, dealVars, startVars
    <2>2. PublishedByWorker'
      BY <1>3 DEF TypeOK, PublishedByWorker, StarterOrder, Signal, Woken, startVars
    <2>3. MutexHolders'
      BY <1>3 DEF TypeOK, MutexHolders, StarterOrder, Signal, Woken, Workers, startVars
    <2>4. StarterOrder'
      BY <1>3 DEF TypeOK, PublishedByWorker, MutexHolders, StarterOrder, Signal, Woken, Workers, startVars
    <2>5. NoLostSignal'
      BY <1>3 DEF TypeOK, NoLostSignal, PublishedByWorker, MutexHolders, StarterOrder, Signal, Woken, Workers, startVars
    <2>6. Dealt'
      BY <1>3, DealtKept DEF Signal
    <2> QED
      BY <2>1, <2>2, <2>3, <2>4, <2>5, <2>6
  <1>4. CASE WorkerUnlock(k)
    <2>1. TypeOK'
      BY <1>4 DEF TypeOK, WorkerUnlock, Release, Workers, dealVars, startVars
    <2>2. PublishedByWorker'
      BY <1>4 DEF TypeOK, PublishedByWorker, StarterOrder, WorkerUnlock, Release, startVars
    <2>3. MutexHolders'
      BY <1>4 DEF TypeOK, MutexHolders, StarterOrder, WorkerUnlock, Release, Workers, startVars
    <2>4. StarterOrder'
      BY <1>4 DEF TypeOK, PublishedByWorker, MutexHolders, StarterOrder, WorkerUnlock, Release, Workers, startVars
    <2>5. NoLostSignal'
      BY <1>4 DEF TypeOK, NoLostSignal, PublishedByWorker, MutexHolders, StarterOrder, WorkerUnlock, Release, Workers, startVars
    <2>6. Dealt'
      BY <1>4, DealtKept DEF WorkerUnlock
    <2> QED
      BY <2>1, <2>2, <2>3, <2>4, <2>5, <2>6
  <1> QED
    BY <1>1, <1>2, <1>3, <1>4 DEF WorkerNext

(* A call for a loop leaves the threads alone and keeps the deal even.     *)
LEMMA GetLoopKeeps ==
    ASSUME PoolInv, GetLoop
    PROVE  PoolInv'
  <1> USE PoolAssumption DEF PoolInv
  <1>1. CASE ThreadNumber > 0
    <2>1. position \in Workers /\ position < index
      BY <1>1 DEF GetLoop, TypeOK, StarterOrder, Workers
    <2>2. event_loop[position] = position
      BY <2>1 DEF StarterOrder
    <2>3. /\ connections'.total = connections.total + 1
          /\ connections'.on = [connections.on EXCEPT ![position] = @ + 1]
          /\ position' = Advanced(position)
      BY <1>1, <2>2 DEF GetLoop
    <2>4. position' \in Workers
      BY <1>1, <2>1, <2>3 DEF Advanced, Workers
    <2>5. connections' \in [total : Nat, on : [Workers \cup {MainLoop, NULL} -> Nat]]
      BY <1>1, <2>1, <2>2 DEF GetLoop, TypeOK
    <2>6. NoNullLoop'
      BY <2>1, <2>3 DEF TypeOK, Dealt, NoNullLoop
    <2>7. PICK n \in Nat : \A i \in Workers :
              connections.on[i] = IF i < position THEN n + 1 ELSE n
      BY DEF Dealt
    <2>8. \A i \in Workers :
              connections'.on[i] = IF i <= position THEN n + 1 ELSE n
      BY <2>1, <2>3, <2>7 DEF TypeOK, Workers
    <2>9. Dealt'
      <3>1. CASE position + 1 >= ThreadNumber
        <4>1. position' = 0 /\ \A i \in Workers : i <= position /\ ~(i < 0)
          BY <2>1, <2>3, <3>1 DEF Advanced, Workers
        <4>2. \A i \in Workers :
                  connections'.on[i] = IF i < position' THEN (n + 1) + 1 ELSE n + 1
          BY <2>8, <4>1
        <4> QED
          BY <2>6, <4>2 DEF Dealt
      <3>2. CASE ~(position + 1 >= ThreadNumber)
        <4>1. \A i \in Workers : i <= position <=> i < position'
          BY <2>1, <2>3, <3>2 DEF Advanced, Workers
        <4> QED
          BY <2>6, <2>8, <4>1 DEF Dealt
      <3> QED
        BY <3>1, <3>2
    <2>10. TypeOK'
      BY <1>1, <2>4, <2>5 DEF GetLoop, TypeOK, startVars, Workers
    <2> QED
      BY <2>9, <2>10 DEF GetLoop, startVars, PublishedByWorker, MutexHolders,
                         StarterOrder, NoLostSignal
  <1>2. CASE ~(ThreadNumber > 0)
    <2>1. /\ Workers = {}
          /\ connections' = [total |-> connections.total + 1,
                              on |-> [connections.on EXCEPT ![MainLoop] = @ + 1]]
      BY <1>2 DEF GetLoop, Workers
    <2>2. TypeOK'
      BY <1>2, <2>1 DEF GetLoop, TypeOK, startVars
    <2>3. Dealt'
      BY <2>1 DEF TypeOK, Dealt, NoNullLoop
    <2> QED
      BY <2>2, <2>3 DEF GetLoop, startVars, PublishedByWorker, MutexHolders,
                        StarterOrder, NoLostSignal
  <1> QED
    BY <1>1, <1>2

THEOREM PoolInvariant == Spec => []PoolInv
  <1>1. PoolInv /\ [Next]_vars => PoolInv'
    <2>1. CASE UNCHANGED vars
      BY <2>1, DealtKept DEF vars, dealVars, PoolInv, TypeOK, PublishedByWorker, MutexHolders,
                  StarterOrder, NoLostSignal
    <2> QED
      BY <2>1, StarterKeeps, WorkerKeeps, GetLoopKeeps DEF Next
  <1> QED
    BY <1>1, InitHolds, PTL DEF Spec

(* The pool's variables keep their types, and position names a worker      *)
(* whenever there are any (thread_pool_get_loop).                          *)
THEOREM TypeCorrect == Spec => []TypeOK
  BY PoolInvariant, PTL DEF PoolInv

(* thread_pool_get_loop never returns a loop that is still NULL, because   *)
(* event_loop_thread_start waited for every one of them.                   *)
THEOREM LoopsAreReady == Spec => []NoNullLoop
  BY PoolInvariant, PTL DEF PoolInv, Dealt

(* The signal of event_loop_thread_run cannot come before the starter      *)
(* sleeps: both test and publish under the mutex.                          *)
THEOREM SignalIsNotLost == Spec => []NoLostSignal
  BY PoolInvariant, PTL DEF PoolInv

(* thread_pool_get_loop deals the connections out evenly, to within one.   *)
THEOREM LoadsStayBalanced == Spec => []LoadsBalanced
  <1>1. PoolInv => LoadsBalanced
    <2> SUFFICES ASSUME PoolInv, NEW i \in Workers, NEW j \in Workers
                 PROVE  connections.on[i] <= connections.on[j] + 1
      BY DEF LoadsBalanced
    <2>1. PICK n \in Nat : \A k \in Workers :
              connections.on[k] = IF k < position THEN n + 1 ELSE n
      BY DEF PoolInv, Dealt
    <2> QED
      BY <2>1
  <1> QED
    BY <1>1, PoolInvariant, PTL
=============================================================================

------------------------------ MODULE ThreadPool ------------------------------
(***************************************************************************)
(* The worker threads of the server: thread_pool_start creates them one    *)
(* by one and waits for each to publish its event loop                     *)
(* (event_loop_thread_start and event_loop_thread_run of event_loop.c),    *)
(* and thread_pool_get_loop then deals the loops out to new connections    *)
(* (src/src/thread_pool.c).                                                *)
(*                                                                         *)
(* Worker i publishes loop i.  pthread_cond_wait may return without a      *)
(* signal, as POSIX allows.                                                *)
(***************************************************************************)
EXTENDS Integers

CONSTANTS
    ThreadNumber,   (* thread_number; zero or less means no workers        *)
    MaxConnections, (* bound: calls of thread_pool_get_loop                *)
    MainLoop,       (* main_loop                                           *)
    NULL

Workers == 0..(ThreadNumber - 1)

ASSUME PoolAssumption ==
    /\ ThreadNumber \in Int
    /\ MaxConnections \in Nat
    /\ NULL \notin Workers
    /\ NULL \notin {MainLoop, "main", "worker"}
    /\ MainLoop \notin Workers

VARIABLES
    event_loop,     (* event_loop of each event_loop_thread_struc          *)
    mutex,          (* who holds the mutex of each: "main", "worker", NULL *)
    pc,             (* where thread_pool_start and its caller are          *)
    index,          (* i in thread_pool_start                              *)
    worker,         (* where each worker is in event_loop_thread_run       *)
    position,       (* thread_pool->position                               *)
    connections     (* calls so far, and how many returned each loop       *)

vars == <<event_loop, mutex, pc, index, worker, position, connections>>
startVars == <<event_loop, mutex, index, worker>>
dealVars == <<position, connections>>

(* thread_pool_init, and event_loop_thread_init of each worker.            *)
Init ==
    /\ event_loop = [i \in Workers |-> NULL]
    /\ mutex = [i \in Workers |-> NULL]
    /\ pc = "init"
    /\ index = 0
    /\ worker = [i \in Workers |-> "none"]
    /\ position = 0
    /\ connections = [total |-> 0,
                      on |-> [l \in Workers \cup {MainLoop, NULL} |-> 0]]
-----------------------------------------------------------------------------
(* Mutant: the mutex is not waited for.                                    *)
AcquireAlways(i, who) == mutex' = [mutex EXCEPT ![i] = who]

Acquire(i, who) == mutex[i] = NULL /\ mutex' = [mutex EXCEPT ![i] = who]

(* Mutant: the unlock is forgotten.                                        *)
ReleaseNothing(i) == UNCHANGED mutex

Release(i) == mutex' = [mutex EXCEPT ![i] = NULL]

(* The next round of the loop in thread_pool_start, or its end.            *)
Round(i) ==
    /\ index' = i
    /\ pc' = IF i < ThreadNumber THEN "create" ELSE "serve"

PoolStart ==
    /\ pc = "init"
    /\ Round(0)
    /\ UNCHANGED <<event_loop, mutex, worker, dealVars>>

ThreadCreate ==
    /\ pc = "create"
    /\ worker' = [worker EXCEPT ![index] = "lock"]
    /\ pc' = "lock"
    /\ UNCHANGED <<event_loop, mutex, index, dealVars>>

(* pthread_mutex_lock, also the one inside pthread_cond_wait.              *)
StarterLock ==
    /\ pc = "lock"
    /\ Acquire(index, "main")
    /\ pc' = "check"
    /\ UNCHANGED <<event_loop, index, worker, dealVars>>

(* Mutant: the starter does not wait for the worker's loop.                *)
StarterCheckNothing ==
    /\ pc = "check"
    /\ Release(index)
    /\ Round(index + 1)
    /\ UNCHANGED <<event_loop, worker, dealVars>>

(* The test of the while loop; when it ends, the unlock and the return.    *)
StarterCheck ==
    /\ pc = "check"
    /\ \/ /\ event_loop[index] = NULL
          /\ pc' = "block"
          /\ UNCHANGED <<mutex, index>>
       \/ /\ event_loop[index] # NULL
          /\ Release(index)
          /\ Round(index + 1)
    /\ UNCHANGED <<event_loop, worker, dealVars>>

(* pthread_cond_wait gives up the mutex as it goes to sleep.               *)
StarterWait ==
    /\ pc = "block"
    /\ Release(index)
    /\ pc' = "wait"
    /\ UNCHANGED <<event_loop, index, worker, dealVars>>

SpuriousWakeup ==
    /\ pc = "wait"
    /\ pc' = "lock"
    /\ UNCHANGED <<startVars, dealVars>>
-----------------------------------------------------------------------------
WorkerLock(i) ==
    /\ worker[i] = "lock"
    /\ Acquire(i, "worker")
    /\ worker' = [worker EXCEPT ![i] = "publish"]
    /\ UNCHANGED <<event_loop, pc, index, dealVars>>

(* event_loop_init returns and its result is stored.                       *)
Publish(i) ==
    /\ worker[i] = "publish"
    /\ event_loop' = [event_loop EXCEPT ![i] = i]
    /\ worker' = [worker EXCEPT ![i] = "signal"]
    /\ UNCHANGED <<mutex, pc, index, dealVars>>

(* pthread_cond_signal wakes the starter if it sleeps on this condition.   *)
Woken(i) == IF pc = "wait" /\ index = i THEN "lock" ELSE pc

Signal(i) ==
    /\ worker[i] = "signal"
    /\ pc' = Woken(i)
    /\ worker' = [worker EXCEPT ![i] = "unlock"]
    /\ UNCHANGED <<event_loop, mutex, index, dealVars>>

WorkerUnlock(i) ==
    /\ worker[i] = "unlock"
    /\ Release(i)
    /\ worker' = [worker EXCEPT ![i] = "run"]
    /\ UNCHANGED <<event_loop, pc, index, dealVars>>
-----------------------------------------------------------------------------
(* Mutant: the last worker is left out.                                    *)
AdvancedShort(p) == IF p + 2 >= ThreadNumber THEN 0 ELSE p + 1

Advanced(p) == IF p + 1 >= ThreadNumber THEN 0 ELSE p + 1

(* thread_pool_get_loop, called by the thread that started the pool for    *)
(* every connection it accepts.                                            *)
GetLoop ==
    /\ pc = "serve"
    /\ connections.total < MaxConnections
    /\ LET selected == IF ThreadNumber > 0 THEN event_loop[position] ELSE MainLoop
       IN connections' = [total |-> connections.total + 1,
                          on |-> [connections.on EXCEPT ![selected] = @ + 1]]
    /\ position' = IF ThreadNumber > 0 THEN Advanced(position) ELSE position
    /\ UNCHANGED <<startVars, pc>>

StarterNext ==
    PoolStart \/ ThreadCreate \/ StarterLock \/ StarterCheck \/ StarterWait

WorkerNext(i) == WorkerLock(i) \/ Publish(i) \/ Signal(i) \/ WorkerUnlock(i)

Next ==
    \/ StarterNext
    \/ SpuriousWakeup
    \/ GetLoop
    \/ \E i \in Workers : WorkerNext(i)

(* Threads are scheduled, a wait may end without a signal but need not,    *)
(* and a worker that finds the mutex free again and again gets it.         *)
Spec ==
    /\ Init
    /\ [][Next]_vars
    /\ WF_vars(StarterNext)
    /\ \A i \in Workers : WF_vars(WorkerNext(i)) /\ SF_vars(WorkerLock(i))
-----------------------------------------------------------------------------
(* The values the variables take; position always names a worker.          *)
TypeOK ==
    /\ event_loop \in [Workers -> Workers \cup {NULL}]
    /\ mutex \in [Workers -> {"main", "worker", NULL}]
    /\ pc \in {"init", "create", "lock", "check", "block", "wait", "serve"}
    /\ index \in Nat
    /\ pc \notin {"init", "serve"} => index \in Workers
    /\ worker \in [Workers -> {"none", "lock", "publish", "signal", "unlock", "run"}]
    /\ position \in Nat /\ (ThreadNumber > 0 => position \in Workers)
    /\ connections \in [total : Nat, on : [Workers \cup {MainLoop, NULL} -> Nat]]

(* No connection is given a loop that its worker has not published yet:    *)
(* the caller of thread_pool_get_loop would dereference NULL.              *)
NoNullLoop == connections.on[NULL] = 0

(* While the starter sleeps, the worker it waits for has its signal still  *)
(* to give; otherwise the server would never accept a connection.          *)
NoLostSignal ==
    pc = "wait" => worker[index] \in {"lock", "publish", "signal"}

(* thread_pool_get_loop shares the connections out evenly.                 *)
LoadsBalanced ==
    \A i, j \in Workers : connections.on[i] <= connections.on[j] + 1

(* thread_pool_start returns, and then every worker comes to run its loop. *)
PoolServes == <>[](pc = "serve" /\ \A i \in Workers : worker[i] = "run")
=============================================================================

----------------------------- MODULE ServerProofs -----------------------------
(***************************************************************************)
(* Theorems about Server, for every set of clients, pool of workers and    *)
(* supply of descriptors.                                                  *)
(***************************************************************************)
EXTENDS Server, TLAPS, WellFoundedInduction, NaturalsInduction, SequenceTheorems

(* The values of the variables; position names a worker, if there are any. *)
TypeInv ==
    /\ client \in [Clients -> {"away", "waiting", "connected", "gone"}]
    /\ inbox \in [Clients -> {"", "message", "end", "error"}]
    /\ asked \in [Clients -> Nat]
    /\ holder \in [Fds -> Clients \cup {NULL}]
    /\ watch \in [Loops -> SUBSET Fds]
    /\ workers \in Pools
    /\ failures \in Nat
    /\ fd \in [Connections -> Fds \cup {NULL, -1}]
    /\ fd[NoClient] = -1
    /\ event_loop \in [Connections -> Loops \cup {NULL}]
    /\ data \in [Connections -> BOOLEAN]
    /\ request \in [Connections -> BOOLEAN]
    /\ position \in Nat
    /\ workers # <<>> => position + 1 \in 1..Len(workers)
    /\ pending \in [Loops -> Seq(Connections)]
    /\ map \in [Loops -> [Fds -> Clients \cup {NULL}]]
    /\ cur \in Connections \cup {NULL}
    /\ pc \in {"wait", "add", "data", "crashed"}
    /\ pc \in {"add", "data"} => cur \in Connections

(* A descriptor that is open is the one its connection was made with.      *)
HolderInv ==
    \A f \in Fds : holder[f] # NULL =>
        /\ fd[holder[f]] = f
        /\ client[holder[f]] \in {"connected", "gone"}

(* A connection on its way to the loop l: its descriptor is open, nobody   *)
(* watches it yet, and nobody has freed its request.                       *)
Coming(c, l) ==
    /\ fd[c] \in Fds /\ holder[fd[c]] = c
    /\ event_loop[c] = l
    /\ request[c]
    /\ \A k \in Loops : fd[c] \notin watch[k]

(* Each connection of a client that is on its way is so once; those that   *)
(* were made of a failed accept may be on any list any number of times.    *)
ComingInv ==
    /\ pc = "add" => event_loop[cur] \in Loops
    /\ pc = "add" /\ cur # NoClient =>
          /\ Coming(cur, event_loop[cur])
          /\ \A l \in Loops : \A i \in 1..Len(pending[l]) : pending[l][i] # cur
    /\ \A l \in Loops : \A i \in 1..Len(pending[l]) : pending[l][i] # NoClient =>
          /\ Coming(pending[l][i], l)
          /\ \A j \in 1..Len(pending[l]) : pending[l][i] = pending[l][j] => i = j

(* A connection that is watched has its request, and its data except while *)
(* the acceptor is still at it; without workers the main loop has it.      *)
DataInv ==
    /\ \A l \in Loops : \A f \in watch[l] : request[holder[f]]
    /\ \A f \in Fds : holder[f] # NULL =>
          data[holder[f]] \/ (cur = holder[f] /\ pc # "wait")
    /\ workers = <<>> => \A c \in Connections : event_loop[c] \in {Main, NULL}

ServerInv ==
    /\ TypeInv
    /\ HolderInv
    /\ ComingInv
    /\ EventReachesOwner
    /\ DataInv
    /\ CrashOnlyInTheGap
-----------------------------------------------------------------------------
(* A nonempty set of naturals has a least element.                         *)
LEMMA LeastNatural ==
    ASSUME NEW T, T \subseteq Nat, T # {}
    PROVE  Min(T) \in T
  <1> DEFINE R == {ss \in Nat \X Nat : ss[1] < ss[2]}
  <1>1. IsWellFoundedOn(R, Nat)
    BY NatLessThanWellFounded DEF OpToRel
  <1>2. \A k, m \in Nat : k < m => <<k, m>> \in R
    OBVIOUS
  <1> HIDE DEF R
  <1>3. PICK m \in T : \A k \in T : ~(<<k, m>> \in R)
    BY <1>1, WFMin, Zenon
  <1>4. ASSUME NEW k \in T PROVE m <= k
    <2>1. k \in Nat /\ m \in Nat
      OBVIOUS
    <2>2. ~(k < m)
      BY <1>2, <1>3, <2>1, Zenon
    <2> QED
      BY <2>1, <2>2
  <1> QED
    BY <1>4 DEF Min

(* accept returns a descriptor that was free.                              *)
LEMMA LowestIsFree ==
    ASSUME Free # {}
    PROVE  Min(Free) \in Fds /\ holder[Min(Free)] = NULL
  <1>1. Free \subseteq Nat
    BY ServerAssumption DEF Free
  <1> QED
    BY <1>1, LeastNatural DEF Free

(* thread_pool_get_loop returns a loop of the pool, or the main loop, and  *)
(* leaves position inside the array.                                       *)
LEMMA LoopIsDealt ==
    ASSUME TypeInv
    PROVE  /\ NextLoop \in Loops
           /\ workers = <<>> => NextLoop = Main
           /\ Advanced \in Nat
           /\ workers # <<>> => Advanced + 1 \in 1..Len(workers)
  <1>1. workers \in Seq(Loops \ {Main})
    BY ServerAssumption DEF TypeInv
  <1>2. Main \in Loops
    BY DEF Loops
  <1>3. CASE workers = <<>>
    BY <1>2, <1>3 DEF NextLoop, Advanced
  <1>4. CASE workers # <<>>
    <2>1. Len(workers) \in Nat \ {0} /\ position \in Nat /\ position + 1 \in 1..Len(workers)
      BY <1>1, <1>4, EmptySeq DEF TypeInv
    <2>2. workers[position + 1] \in Loops
      BY <1>1, <2>1
    <2> QED
      BY <1>4, <2>1, <2>2 DEF NextLoop, Advanced
  <1> QED
    BY <1>3, <1>4

LEMMA RegisterType ==
    ASSUME TypeInv, NEW l \in Loops, NEW c \in Connections, Register(l, c),
           c # NoClient => c \in Clients /\ fd[c] \in Fds
    PROVE  map' \in [Loops -> [Fds -> Clients \cup {NULL}]] /\ watch' \in [Loops -> SUBSET Fds]
  <1>1. map \in [Loops -> [Fds -> Clients \cup {NULL}]] /\ watch \in [Loops -> SUBSET Fds]
    BY DEF TypeInv
  <1>2. CASE UNCHANGED <<map, watch>>
    BY <1>1, <1>2
  <1>3. CASE /\ map' = [map EXCEPT ![l][fd[c]] = c]
             /\ watch' = [watch EXCEPT ![l] = @ \cup {fd[c]}]
             /\ c \in Clients /\ fd[c] \in Fds
    BY <1>1, <1>3
  <1>4. fd[NoClient] = -1 /\ ~(-1 >= 0)
    <2>1. fd[NoClient] = -1
      BY DEF TypeInv
    <2>2. ~(-1 >= 0)
      OBVIOUS
    <2> QED
      BY <2>1, <2>2
  <1> QED
    BY <1>2, <1>3, <1>4 DEF Register

(* A connection is made of the descriptor accept gave, or of -1.           *)
LEMMA MakeType ==
    ASSUME TypeInv, NEW c \in Connections, NEW f \in Fds \cup {-1}, Make(c, f),
           c = NoClient => f = -1
    PROVE  /\ fd' \in [Connections -> Fds \cup {NULL, -1}] /\ fd'[NoClient] = -1
           /\ event_loop' \in [Connections -> Loops \cup {NULL}]
           /\ data' \in [Connections -> BOOLEAN]
           /\ request' \in [Connections -> BOOLEAN]
           /\ position' \in Nat
           /\ workers' # <<>> => position' + 1 \in 1..Len(workers')
           /\ cur' \in Connections
           /\ UNCHANGED <<workers, watch, pending, map>>
           /\ pc' = "add"
  <1>1. /\ fd' = [fd EXCEPT ![c] = f] /\ event_loop' = [event_loop EXCEPT ![c] = NextLoop]
        /\ position' = Advanced /\ data' = [data EXCEPT ![c] = FALSE]
        /\ request' = [request EXCEPT ![c] = TRUE] /\ cur' = c /\ pc' = "add"
        /\ UNCHANGED <<workers, watch, pending, map>>
    BY DEF Make
  <1>2. /\ NextLoop \in Loops /\ Advanced \in Nat
        /\ workers # <<>> => Advanced + 1 \in 1..Len(workers)
    BY LoopIsDealt
  <1>3. /\ data' \in [Connections -> BOOLEAN] /\ request' \in [Connections -> BOOLEAN]
        /\ event_loop' \in [Connections -> Loops \cup {NULL}]
    BY <1>1, <1>2 DEF TypeInv
  <1>4. fd' \in [Connections -> Fds \cup {NULL, -1}] /\ fd'[NoClient] = -1
    BY <1>1 DEF TypeInv, Connections
  <1> QED
    BY <1>1, <1>2, <1>3, <1>4

LEMMA TypeInit == Init => TypeInv
  <1> SUFFICES ASSUME Init PROVE TypeInv
    OBVIOUS
  <1>1. workers # <<>> => position + 1 \in 1..Len(workers)
    <2>1. workers \in Seq(Loops \ {Main}) /\ position = 0
      BY ServerAssumption DEF Init
    <2> QED
      BY <2>1, EmptySeq
  <1>2. pending \in [Loops -> Seq(Connections)] /\ map \in [Loops -> [Fds -> Clients \cup {NULL}]]
    <2>1. <<>> \in Seq(Connections) /\ [f \in Fds |-> NULL] \in [Fds -> Clients \cup {NULL}]
      BY EmptySeq
    <2> QED
      BY <2>1 DEF Init
  <1>3. workers \in Pools /\ position \in Nat /\ pc = "wait" /\ cur = NULL
    BY DEF Init
  <1>4. /\ client \in [Clients -> {"away", "waiting", "connected", "gone"}]
        /\ inbox \in [Clients -> {"", "message", "end", "error"}]
        /\ asked \in [Clients -> Nat]
        /\ data \in [Connections -> BOOLEAN]
        /\ request \in [Connections -> BOOLEAN]
        /\ failures \in Nat
    BY DEF Init
  <1>5. /\ holder \in [Fds -> Clients \cup {NULL}]
        /\ watch \in [Loops -> SUBSET Fds]
        /\ fd \in [Connections -> Fds \cup {NULL, -1}] /\ fd[NoClient] = -1
        /\ event_loop \in [Connections -> Loops \cup {NULL}]
    BY DEF Init, Connections
  <1> QED
    BY <1>1, <1>2, <1>3, <1>4, <1>5 DEF TypeInv

LEMMA TypeStep == TypeInv /\ ComingInv /\ [Next]_vars => TypeInv'
  <1> SUFFICES ASSUME TypeInv, ComingInv, [Next]_vars PROVE TypeInv'
    OBVIOUS
  <1> USE DEF kernelVars, serverVars
  <1>1. ASSUME NEW c \in Clients, Connect(c) PROVE TypeInv'
    BY <1>1 DEF TypeInv, Connect
  <1>2. ASSUME NEW c \in Clients, Ask(c) PROVE TypeInv'
    <2>1. asked' \in [Clients -> Nat]
      <3>1. asked \in [Clients -> Nat] /\ asked' = [asked EXCEPT ![c] = asked[c] + 1]
        BY <1>2 DEF TypeInv, Ask
      <3> QED
        BY <3>1
    <2>2. inbox' \in [Clients -> {"", "message", "end", "error"}]
      BY <1>2 DEF TypeInv, Ask
    <2> QED
      BY <1>2, <2>1, <2>2 DEF TypeInv, Ask
  <1>3. ASSUME NEW c \in Clients, Leave(c) PROVE TypeInv'
    BY <1>3 DEF TypeInv, Leave
  <1>4. ASSUME NEW c \in Clients, Accept(c) PROVE TypeInv'
    <2>1. Min(Free) \in Fds /\ c \in Connections /\ c # NoClient
      BY <1>4, LowestIsFree, ServerAssumption DEF Accept, Connections
    <2>2. /\ client' \in [Clients -> {"away", "waiting", "connected", "gone"}]
          /\ holder' \in [Fds -> Clients \cup {NULL}]
      BY <1>4, <2>1 DEF TypeInv, Accept
    <2>3. Make(c, Min(Free)) /\ UNCHANGED <<asked, inbox, failures>>
      BY <1>4 DEF Accept
    <2> QED
      BY <2>1, <2>2, <2>3, MakeType DEF TypeInv
  <1>5. CASE AcceptFails
    <2>1. NoClient \in Connections
      BY DEF Connections
    <2>2. /\ Make(NoClient, -1) /\ failures' = failures + 1
          /\ UNCHANGED <<client, asked, inbox, holder>>
      BY <1>5 DEF AcceptFails
    <2>3. failures' \in Nat
      <3>1. failures \in Nat
        BY DEF TypeInv
      <3> QED
        BY <2>2, <3>1
    <2> QED
      BY <2>1, <2>2, <2>3, MakeType DEF TypeInv
  <1>6. CASE AddChannel
    <2>1. /\ cur \in Connections /\ event_loop[cur] \in Loops
          /\ cur # NoClient => cur \in Clients /\ fd[cur] \in Fds
      BY <1>6 DEF AddChannel, TypeInv, ComingInv, Coming, Connections
    <2>2. map' \in [Loops -> [Fds -> Clients \cup {NULL}]] /\ watch' \in [Loops -> SUBSET Fds]
      BY <1>6, <2>1, RegisterType DEF AddChannel, TypeInv
    <2>3. pending' \in [Loops -> Seq(Connections)]
      <3>1. pending \in [Loops -> Seq(Connections)]
        BY DEF TypeInv
      <3>2. Append(pending[event_loop[cur]], cur) \in Seq(Connections)
        BY <2>1, <3>1, AppendProperties
      <3>3. \/ UNCHANGED pending
            \/ pending' = [pending EXCEPT ![event_loop[cur]] = Append(@, cur)]
        BY <1>6 DEF AddChannel
      <3> QED
        BY <2>1, <3>1, <3>2, <3>3
    <2> QED
      BY <1>6, <2>1, <2>2, <2>3 DEF AddChannel, TypeInv
  <1>7. CASE SetData
    BY <1>7 DEF TypeInv, SetData
  <1>8. ASSUME NEW l \in Loops, Drain(l) PROVE TypeInv'
    <2>1. pending[l] \in Seq(Connections) /\ pending[l] # <<>>
      BY <1>8 DEF TypeInv, Drain
    <2>2. Head(pending[l]) \in Connections /\ Tail(pending[l]) \in Seq(Connections)
      BY <2>1, HeadTailProperties
    <2>4. Head(pending[l]) # NoClient =>
             Head(pending[l]) \in Clients /\ fd[Head(pending[l])] \in Fds
      <3>1. Head(pending[l]) = pending[l][1] /\ 1 \in 1..Len(pending[l])
        BY <2>1, EmptySeq
      <3> QED
        BY <2>2, <3>1 DEF ComingInv, Coming, Connections
    <2>3. map' \in [Loops -> [Fds -> Clients \cup {NULL}]] /\ watch' \in [Loops -> SUBSET Fds]
      BY <1>8, <2>2, <2>4, RegisterType DEF Drain
    <2> QED
      BY <1>8, <2>2, <2>3 DEF TypeInv, Drain
  <1>9. ASSUME NEW l \in Loops, NEW f \in Fds, HandleMessage(l, f) PROVE TypeInv'
    BY <1>9 DEF TypeInv, HandleMessage
  <1>10. ASSUME NEW l \in Loops, NEW f \in Fds, HandleClosed(l, f) PROVE TypeInv'
    BY <1>10 DEF TypeInv, HandleClosed
  <1>11. ASSUME NEW l \in Loops, NEW f \in Fds, CloseOnError(l, f) PROVE TypeInv'
    BY <1>11 DEF TypeInv, CloseOnError
  <1>12. CASE UNCHANGED vars
    BY <1>12 DEF TypeInv, vars
  <1> QED
    BY <1>1, <1>2, <1>3, <1>4, <1>5, <1>6, <1>7, <1>8, <1>9, <1>10, <1>11, <1>12
       DEF Next, LoopNext, Established
-----------------------------------------------------------------------------
LEMMA InvInit == Init => ServerInv
  <1> SUFFICES ASSUME Init PROVE ServerInv
    OBVIOUS
  <1>1. HolderInv /\ EventReachesOwner /\ DataInv
    BY DEF Init, HolderInv, EventReachesOwner, DataInv
  <1>2. ComingInv
    <2>1. \A l \in Loops : pending[l] = <<>> /\ Len(pending[l]) = 0
      BY DEF Init
    <2>2. pc # "add"
      BY DEF Init
    <2> QED
      BY <2>1, <2>2 DEF ComingInv
  <1>3. CrashOnlyInTheGap
    BY DEF Init, CrashOnlyInTheGap, Alive
  <1> QED
    BY <1>1, <1>2, <1>3, TypeInit DEF ServerInv

(* What a loop watches is neither free nor on its way to a loop.           *)
LEMMA WatchedIsKnown ==
    ASSUME ServerInv, NEW l \in Loops, NEW f \in watch[l]
    PROVE  /\ f \in Fds /\ holder[f] \in Clients
           /\ fd[holder[f]] = f
           /\ map[l][f] = holder[f]
           /\ event_loop[holder[f]] = l
           /\ request[holder[f]]
           /\ \A k \in Loops : \A i \in 1..Len(pending[k]) : pending[k][i] # holder[f]
           /\ pc = "add" => cur # holder[f]
  <1>1. f \in Fds
    BY DEF ServerInv, TypeInv
  <1>2. /\ holder[f] # NULL /\ map[l][f] = holder[f]
        /\ event_loop[holder[f]] = l /\ request[holder[f]]
    BY DEF ServerInv, EventReachesOwner, DataInv
  <1>3. holder[f] \in Clients /\ fd[holder[f]] = f
    BY <1>1, <1>2 DEF ServerInv, TypeInv, HolderInv
  <1>4. \A k \in Loops : \A i \in 1..Len(pending[k]) : pending[k][i] # holder[f]
    BY <1>3, ServerAssumption DEF ServerInv, ComingInv, Coming
  <1>5. pc = "add" => cur # holder[f]
    BY <1>3, ServerAssumption DEF ServerInv, ComingInv, Coming
  <1> QED
    BY <1>1, <1>2, <1>3, <1>4, <1>5

(* event_loop_handle_pending_add on the right loop; a connection of -1 is  *)
(* turned away.                                                            *)
LEMMA RegisterKeeps ==
    ASSUME ServerInv, NEW l \in Loops, NEW c \in Connections,
           c # NoClient => Coming(c, l), Register(l, c),
           UNCHANGED <<holder, event_loop, request, fd>>
    PROVE  /\ EventReachesOwner'
           /\ \A k \in Loops : \A f \in watch'[k] : request'[holder'[f]]
           /\ \A d \in Clients, k \in Loops : d # c /\ Coming(d, k) => Coming(d, k)'
  <1>2. c # NULL
    BY ServerAssumption DEF Connections
  <1>3. CASE UNCHANGED <<map, watch>>
    BY <1>3 DEF ServerInv, EventReachesOwner, DataInv, Coming
  <1>4. CASE /\ c # NoClient
             /\ map' = [map EXCEPT ![l][fd[c]] = c]
             /\ watch' = [watch EXCEPT ![l] = @ \cup {fd[c]}]
    <2>0. fd[c] \in Fds /\ holder[fd[c]] = c /\ event_loop[c] = l /\ request[c]
      BY <1>4 DEF Coming
    <2>1. \A k \in Loops : watch'[k] = IF k = l THEN watch[k] \cup {fd[c]} ELSE watch[k]
      BY <1>4 DEF ServerInv, TypeInv
    <2>2. \A k \in Loops, f \in Fds :
             map'[k][f] = IF k = l /\ f = fd[c] THEN c ELSE map[k][f]
      BY <1>4 DEF ServerInv, TypeInv
    <2>3. \A k \in Loops : watch[k] \subseteq Fds
      BY DEF ServerInv, TypeInv
    <2>4. ASSUME NEW k \in Loops, NEW f \in watch'[k]
          PROVE  /\ holder'[f] # NULL /\ map'[k][f] = holder'[f]
                 /\ event_loop'[holder'[f]] = k /\ request'[holder'[f]]
      <3>1. CASE k = l /\ f = fd[c]
        BY <1>2, <2>0, <2>2, <3>1
      <3>2. CASE ~(k = l /\ f = fd[c])
        <4>1. f \in watch[k] /\ f \in Fds
          BY <2>1, <2>3, <3>2
        <4> QED
          BY <2>2, <3>2, <4>1 DEF ServerInv, EventReachesOwner, DataInv
      <3> QED
        BY <3>1, <3>2
    <2>5. EventReachesOwner' /\ \A k \in Loops : \A f \in watch'[k] : request'[holder'[f]]
      BY <2>4 DEF EventReachesOwner
    <2>6. ASSUME NEW d \in Clients, NEW k \in Loops, d # c, Coming(d, k)
          PROVE  Coming(d, k)'
      <3>1. fd[d] # fd[c]
        BY <2>0, <2>6 DEF Coming
      <3>2. /\ fd[d] \in Fds /\ holder[fd[d]] = d
            /\ event_loop[d] = k /\ request[d]
            /\ \A j \in Loops : fd[d] \notin watch[j]
        BY <2>6 DEF Coming
      <3>3. ASSUME NEW j \in Loops PROVE fd[d] \notin watch'[j]
        BY <2>1, <3>1, <3>2
      <3> QED
        BY <3>2, <3>3 DEF Coming
    <2> QED
      BY <2>5, <2>6
  <1>5. fd[NoClient] = -1 /\ ~(-1 >= 0)
    <2>1. fd[NoClient] = -1
      BY DEF ServerInv, TypeInv
    <2>2. ~(-1 >= 0)
      OBVIOUS
    <2> QED
      BY <2>1, <2>2
  <1> QED
    BY <1>3, <1>4, <1>5 DEF Register

LEMMA InvStep == ServerInv /\ TypeInv' /\ [Next]_vars => ServerInv'
  <1> SUFFICES ASSUME ServerInv, TypeInv', [Next]_vars PROVE ServerInv'
    OBVIOUS
  <1> USE DEF kernelVars, serverVars
  <1>0. /\ TypeInv /\ HolderInv /\ ComingInv /\ EventReachesOwner /\ DataInv
        /\ CrashOnlyInTheGap
    BY DEF ServerInv
  <1>a. \A f \in Fds : holder[f] # NULL => holder[f] \in Clients
    BY <1>0 DEF TypeInv
  <1>b. \A l \in Loops : /\ pending[l] \in Seq(Connections)
                         /\ Len(pending[l]) \in Nat
                         /\ \A i \in 1..Len(pending[l]) : pending[l][i] \in Connections
    BY <1>0, ElementOfSeq, LenProperties DEF TypeInv
  <1>c. Clients \subseteq Connections /\ NoClient \in Connections /\ NoClient \notin Clients
    BY ServerAssumption DEF Connections
  <1>d. \A c \in Connections : c # NoClient => c \in Clients
    BY DEF Connections
  (* Steps of a client: what the server has stays, and a client that is    *)
  (* connected is connected or gone afterwards.                            *)
  <1>1. ASSUME UNCHANGED <<holder, serverVars>>,
               \A c \in Clients : client[c] \in {"connected", "gone"} =>
                                      client'[c] \in {"connected", "gone"}
        PROVE  ServerInv'
    <2>1. HolderInv'
      BY <1>0, <1>1, <1>a DEF HolderInv
    <2>2. ComingInv'
      BY <1>0, <1>1 DEF ComingInv, Coming
    <2>3. EventReachesOwner' /\ DataInv' /\ CrashOnlyInTheGap'
      BY <1>0, <1>1 DEF EventReachesOwner, DataInv, CrashOnlyInTheGap, Alive
    <2> QED
      BY <2>1, <2>2, <2>3 DEF ServerInv
  <1>2. ASSUME NEW c \in Clients, Connect(c) \/ Ask(c) \/ Leave(c) PROVE ServerInv'
    BY <1>0, <1>1, <1>2 DEF Connect, Ask, Leave, TypeInv
  <1>4. ASSUME NEW c \in Clients, Accept(c) PROVE ServerInv'
    <2> DEFINE f0 == Min(Free)
    <2>1. f0 \in Fds /\ holder[f0] = NULL
      BY <1>4, LowestIsFree DEF Accept
    <2>2. PICK l0 \in Loops : l0 = NextLoop /\ (workers = <<>> => l0 = Main)
      BY <1>0, LoopIsDealt
    <2> HIDE DEF f0
    <2>3. /\ client[c] = "waiting" /\ pc = "wait" /\ pc' = "add" /\ cur' = c
          /\ client' = [client EXCEPT ![c] = "connected"]
          /\ holder' = [holder EXCEPT ![f0] = c]
          /\ fd' = [fd EXCEPT ![c] = f0]
          /\ event_loop' = [event_loop EXCEPT ![c] = l0]
          /\ request' = [request EXCEPT ![c] = TRUE]
          /\ data' = [data EXCEPT ![c] = FALSE]
          /\ UNCHANGED <<workers, watch, pending, map>>
      BY <1>4, <2>2 DEF Accept, Make, f0
    <2>4. c # NULL /\ c # NoClient /\ c \in Connections
      BY <1>c, ServerAssumption
    <2>a. /\ client'[c] = "connected" /\ fd'[c] = f0
          /\ event_loop'[c] = l0 /\ request'[c] = TRUE
          /\ \A d \in Clients : d # c => client'[d] = client[d]
          /\ \A d \in Connections : d # c =>
                /\ fd'[d] = fd[d] /\ data'[d] = data[d]
                /\ event_loop'[d] = event_loop[d] /\ request'[d] = request[d]
          /\ \A f \in Fds : holder'[f] = IF f = f0 THEN c ELSE holder[f]
      <3>1. /\ client \in [Clients -> {"away", "waiting", "connected", "gone"}]
            /\ fd \in [Connections -> Fds \cup {NULL, -1}]
            /\ event_loop \in [Connections -> Loops \cup {NULL}]
            /\ request \in [Connections -> BOOLEAN]
            /\ data \in [Connections -> BOOLEAN]
            /\ holder \in [Fds -> Clients \cup {NULL}]
        BY <1>0 DEF TypeInv
      <3> QED
        BY <2>1, <2>3, <2>4, <3>1
    (* c had no descriptor until now, and f0 was in nobody's hands.        *)
    <2>5. \A f \in Fds : holder[f] # c /\ (holder[f] # NULL => f # f0)
      BY <1>0, <2>1, <2>3, <2>4 DEF HolderInv
    <2>6. \A l \in Loops : f0 \notin watch[l]
      BY <1>0, <2>1 DEF EventReachesOwner
    <2>7. \A l \in Loops : \A i \in 1..Len(pending[l]) : pending[l][i] # c
      <3>1. \A l \in Loops : ~Coming(c, l)
        BY <2>5 DEF Coming
      <3> QED
        BY <1>0, <2>4, <3>1 DEF ComingInv
    <2>8. HolderInv'
      BY <1>0, <1>a, <1>c, <2>5, <2>a DEF HolderInv
    <2>9. ASSUME NEW d \in Clients, NEW l \in Loops, d # c, Coming(d, l)
          PROVE  Coming(d, l)'
      <3>1. fd[d] \in Fds /\ holder[fd[d]] = d /\ d # NULL
        BY <2>9, ServerAssumption DEF Coming
      <3>2. fd'[d] = fd[d] /\ holder'[fd[d]] = d
        BY <1>c, <2>5, <2>9, <2>a, <3>1
      <3> QED
        BY <1>c, <2>3, <2>9, <2>a, <3>1, <3>2 DEF Coming
    <2>10. Coming(c, l0)'
      BY <2>1, <2>3, <2>6, <2>a DEF Coming
    <2>11. ComingInv'
      <3>1. event_loop'[cur'] = l0
        BY <2>3, <2>a
      <3>2. ASSUME NEW l \in Loops, NEW i \in 1..Len(pending[l]), pending[l][i] # NoClient
            PROVE  Coming(pending[l][i], l)'
        <4>1. pending[l][i] \in Clients /\ pending[l][i] # c /\ Coming(pending[l][i], l)
          BY <1>0, <1>b, <1>d, <2>7, <3>2 DEF ComingInv
        <4> QED
          BY <2>3, <2>9, <4>1
      <3>3. pc' = "add" =>
              /\ event_loop'[cur'] \in Loops
              /\ Coming(cur, event_loop[cur])'
              /\ \A l \in Loops : \A i \in 1..Len(pending'[l]) : pending'[l][i] # cur'
        BY <2>2, <2>3, <2>7, <2>10, <3>1 DEF Coming
      <3> QED
        BY <1>0, <2>3, <3>2, <3>3 DEF ComingInv
    <2>12. \A l \in Loops : \A f \in watch[l] :
              holder'[f] = holder[f] /\ holder[f] # c /\ holder[f] \in Clients
      BY <1>0, <2>3, <2>5, <2>6, WatchedIsKnown
    <2>13. EventReachesOwner' /\ \A l \in Loops : \A f \in watch'[l] : request'[holder'[f]]
      BY <1>0, <1>c, <2>3, <2>12, <2>a DEF EventReachesOwner, DataInv
    <2>14. DataInv'
      <3>1. \A f \in Fds : holder'[f] # NULL => data'[holder'[f]] \/ cur' = holder'[f]
        <4>1. \A f \in Fds : holder[f] # NULL => data[holder[f]]
          BY <1>0, <2>3 DEF DataInv
        <4>2. \A f \in Fds : holder[f] # NULL => holder[f] # c /\ holder[f] \in Connections
          BY <1>a, <1>c, <2>5
        <4>3. \A f \in Fds : holder[f] # NULL => data'[holder[f]]
          BY <2>a, <4>1, <4>2
        <4> QED
          BY <2>3, <2>a, <4>3
      <3>2. workers' = <<>> => \A d \in Connections : event_loop'[d] \in {Main, NULL}
        <4>1. workers = <<>> =>
                l0 = Main /\ \A d \in Connections : event_loop[d] \in {Main, NULL}
          BY <1>0, <2>2 DEF DataInv
        <4>2. \A d \in Connections : event_loop'[d] = l0 \/ event_loop'[d] = event_loop[d]
          BY <2>a
        <4> QED
          BY <2>3, <4>1, <4>2
      <3> QED
        BY <2>3, <2>13, <3>1, <3>2 DEF DataInv
    <2>15. CrashOnlyInTheGap'
      BY <2>3 DEF CrashOnlyInTheGap, Alive
    <2> QED
      BY <2>8, <2>11, <2>13, <2>14, <2>15 DEF ServerInv
  (* No client's connection changes, and nothing is known of NoClient's.   *)
  <1>5. CASE AcceptFails
    <2>1. PICK l0 \in Loops : l0 = NextLoop /\ (workers = <<>> => l0 = Main)
      BY <1>0, LoopIsDealt
    <2>2. /\ pc = "wait" /\ pc' = "add" /\ cur' = NoClient
          /\ fd' = [fd EXCEPT ![NoClient] = -1]
          /\ event_loop' = [event_loop EXCEPT ![NoClient] = l0]
          /\ request' = [request EXCEPT ![NoClient] = TRUE]
          /\ data' = [data EXCEPT ![NoClient] = FALSE]
          /\ UNCHANGED <<client, holder, workers, watch, pending, map>>
      BY <1>5, <2>1 DEF AcceptFails, Make
    <2>3. /\ event_loop'[NoClient] = l0
          /\ \A d \in Connections : d # NoClient =>
                /\ fd'[d] = fd[d] /\ data'[d] = data[d]
                /\ event_loop'[d] = event_loop[d] /\ request'[d] = request[d]
      BY <1>0, <1>c, <2>2 DEF TypeInv
    <2>4. \A d \in Clients :
             /\ fd'[d] = fd[d] /\ data'[d] = data[d]
             /\ event_loop'[d] = event_loop[d] /\ request'[d] = request[d]
      BY <1>c, <2>3
    <2>5. \A l \in Loops : \A f \in watch[l] : f \in Fds /\ holder[f] \in Clients
      BY WatchedIsKnown
    <2>6. HolderInv' /\ EventReachesOwner' /\ CrashOnlyInTheGap'
      BY <1>0, <1>a, <2>2, <2>4, <2>5 DEF HolderInv, EventReachesOwner, CrashOnlyInTheGap, Alive
    <2>7. \A d \in Clients, l \in Loops : Coming(d, l) => Coming(d, l)'
      BY <2>2, <2>4 DEF Coming
    <2>8. ComingInv'
      <3>1. ASSUME NEW l \in Loops, NEW i \in 1..Len(pending[l]), pending[l][i] # NoClient
            PROVE  Coming(pending[l][i], l)'
        <4>1. pending[l][i] \in Clients /\ Coming(pending[l][i], l)
          BY <1>0, <1>b, <1>d, <3>1 DEF ComingInv
        <4> QED
          BY <2>2, <2>7, <4>1
      <3> QED
        BY <1>0, <2>2, <2>3, <3>1 DEF ComingInv
    <2>9. DataInv'
      <3>1. \A l \in Loops : \A f \in watch'[l] : request'[holder'[f]]
        BY <1>0, <2>2, <2>4, <2>5 DEF DataInv
      <3>2. \A f \in Fds : holder'[f] # NULL => data'[holder'[f]]
        <4>1. \A f \in Fds : holder[f] # NULL => data[holder[f]]
          BY <1>0, <2>2 DEF DataInv
        <4> QED
          BY <1>a, <2>2, <2>4, <4>1
      <3>3. workers' = <<>> => \A d \in Connections : event_loop'[d] \in {Main, NULL}
        BY <1>0, <2>1, <2>2, <2>3 DEF DataInv
      <3> QED
        BY <3>1, <3>2, <3>3 DEF DataInv
    <2> QED
      BY <2>6, <2>8, <2>9 DEF ServerInv
  <1>6. CASE AddChannel
    <2>1. pc = "add" /\ pc' = "data" /\ cur \in Connections
          /\ UNCHANGED <<workers, kernelVars, fd, event_loop, data, request, position, cur>>
      BY <1>0, <1>6 DEF AddChannel, TypeInv
    <2> DEFINE l0 == event_loop[cur]
    <2>2. l0 \in Loops /\ (cur # NoClient => Coming(cur, l0))
      BY <1>0, <2>1 DEF ComingInv
    <2>3. \A l \in Loops : \A i \in 1..Len(pending[l]) :
             pending[l][i] \in Connections /\ (pending[l][i] = cur => cur = NoClient)
      BY <1>0, <1>b, <2>1 DEF ComingInv
    <2>4. HolderInv' /\ CrashOnlyInTheGap'
      BY <1>0, <2>1 DEF HolderInv, CrashOnlyInTheGap, Alive
    <2>5. CASE Register(Main, cur) /\ l0 = Main /\ UNCHANGED pending
      <3>1. /\ EventReachesOwner'
            /\ \A k \in Loops : \A f \in watch'[k] : request'[holder'[f]]
            /\ \A d \in Clients, k \in Loops : d # cur /\ Coming(d, k) => Coming(d, k)'
        BY <2>1, <2>2, <2>5, RegisterKeeps
      <3>2. ComingInv'
        <4>1. ASSUME NEW l \in Loops, NEW i \in 1..Len(pending[l]), pending[l][i] # NoClient
              PROVE  Coming(pending[l][i], l)'
          <5>1. pending[l][i] \in Clients \ {cur} /\ Coming(pending[l][i], l)
            BY <1>0, <1>d, <2>3, <4>1 DEF ComingInv
          <5> QED
            BY <2>5, <3>1, <5>1
        <4> QED
          BY <1>0, <2>1, <2>5, <4>1 DEF ComingInv
      <3>3. DataInv'
        BY <1>0, <2>1, <3>1 DEF DataInv
      <3> QED
        BY <2>4, <3>1, <3>2, <3>3 DEF ServerInv
    <2>6. CASE /\ pending' = [pending EXCEPT ![l0] = Append(@, cur)]
               /\ UNCHANGED <<map, watch>>
      <3>1. EventReachesOwner' /\ DataInv'
        BY <1>0, <2>1, <2>6 DEF EventReachesOwner, DataInv
      <3>2. \A d \in Clients, l \in Loops : Coming(d, l) => Coming(d, l)'
        BY <2>1, <2>6 DEF Coming
      <3>3. \A l \in Loops : l # l0 => pending'[l] = pending[l]
        BY <1>0, <2>6 DEF TypeInv
      <3>4. /\ Len(pending'[l0]) = Len(pending[l0]) + 1
            /\ \A i \in 1..Len(pending[l0]) : pending'[l0][i] = pending[l0][i]
            /\ pending'[l0][Len(pending[l0]) + 1] = cur
            /\ Len(pending[l0]) \in Nat
        <4>1. pending'[l0] = Append(pending[l0], cur)
          BY <1>0, <2>2, <2>6 DEF TypeInv
        <4> QED
          BY <1>b, <2>1, <2>2, <4>1, AppendProperties
      <3>5. ASSUME NEW l \in Loops, NEW i \in 1..Len(pending'[l]), pending'[l][i] # NoClient
            PROVE  /\ \A d \in Clients : d = pending'[l][i] => Coming(d, l)'
                   /\ pending'[l][i] \in Clients
                   /\ \A j \in 1..Len(pending'[l]) : pending'[l][i] = pending'[l][j] => i = j
        <4>1. CASE l # l0
          <5>1. pending'[l] = pending[l] /\ i \in 1..Len(pending[l])
            BY <3>3, <4>1
          <5>2. pending[l][i] \in Clients /\ Coming(pending[l][i], l)
            BY <1>0, <1>d, <2>3, <3>5, <5>1 DEF ComingInv
          <5>3. \A j \in 1..Len(pending[l]) : pending[l][i] = pending[l][j] => i = j
            BY <1>0, <3>5, <5>1 DEF ComingInv
          <5> QED
            BY <3>2, <5>1, <5>2, <5>3
        <4>2. CASE l = l0
          <5>1. \A j \in 1..Len(pending'[l]) :
                   j \in 1..Len(pending[l]) \/ j = Len(pending[l]) + 1
            BY <3>4, <4>2
          <5>2. CASE i = Len(pending[l]) + 1
            <6>1. pending'[l][i] = cur /\ Coming(cur, l) /\ cur \in Clients
              BY <1>d, <2>1, <2>2, <3>4, <3>5, <4>2, <5>2
            <6>2. \A j \in 1..Len(pending[l]) : pending'[l][j] # cur
              BY <1>c, <2>3, <3>4, <4>2, <6>1
            <6>3. \A d \in Clients : d = cur => Coming(d, l)'
              BY <3>2, <6>1
            <6> QED
              BY <5>1, <5>2, <6>1, <6>2, <6>3
          <5>3. CASE i \in 1..Len(pending[l])
            <6>1. /\ pending'[l][i] = pending[l][i] /\ pending[l][i] \in Clients \ {cur}
                  /\ Coming(pending[l][i], l)
              BY <1>0, <1>d, <2>3, <3>4, <3>5, <4>2, <5>3 DEF ComingInv
            <6>2. \A d \in Clients : d = pending'[l][i] => Coming(d, l)'
              BY <3>2, <6>1
            <6>3. \A j \in 1..Len(pending[l]) : pending[l][i] = pending[l][j] => i = j
              BY <1>0, <5>3, <6>1, <1>c DEF ComingInv
            <6>4. \A j \in 1..Len(pending'[l]) : pending'[l][i] = pending'[l][j] => i = j
              BY <3>4, <4>2, <5>1, <6>1, <6>3
            <6> QED
              BY <6>1, <6>2, <6>4
          <5> QED
            BY <5>1, <5>2, <5>3
        <4> QED
          BY <4>1, <4>2
      <3>6. ComingInv'
        <4>1. pc' # "add"
          BY <2>1
        <4>2. \A l \in Loops : \A i \in 1..Len(pending'[l]) : pending'[l][i] # NoClient =>
                 /\ Coming(pending[l][i], l)'
                 /\ \A j \in 1..Len(pending'[l]) : pending'[l][i] = pending'[l][j] => i = j
          BY <3>5 DEF Coming
        <4> QED
          BY <4>1, <4>2 DEF ComingInv
      <3> QED
        BY <2>4, <3>1, <3>6 DEF ServerInv
    <2> QED
      BY <1>6, <2>5, <2>6 DEF AddChannel
  <1>7. CASE SetData
    <2>1. /\ pc = "data" /\ pc' = "wait" /\ data' = [data EXCEPT ![cur] = TRUE]
          /\ UNCHANGED <<workers, kernelVars, watch, fd, event_loop, request, pending, map, cur>>
      BY <1>7 DEF SetData
    <2>2. HolderInv' /\ ComingInv' /\ EventReachesOwner' /\ CrashOnlyInTheGap'
      BY <1>0, <2>1 DEF HolderInv, ComingInv, Coming, EventReachesOwner, CrashOnlyInTheGap,
                        Alive
    <2>3. DataInv'
      <3>1. \A l \in Loops : \A f \in watch'[l] : request'[holder'[f]]
        BY <1>0, <2>1 DEF DataInv
      <3>2. ASSUME NEW f \in Fds, holder[f] # NULL
            PROVE  data'[holder[f]]
        <4>1. holder[f] \in Connections /\ data \in [Connections -> BOOLEAN]
          BY <1>0, <1>c, <3>2 DEF TypeInv
        <4>2. data[holder[f]] \/ cur = holder[f]
          BY <1>0, <3>2 DEF DataInv
        <4> QED
          BY <2>1, <4>1, <4>2
      <3>3. workers' = <<>> => \A d \in Connections : event_loop'[d] \in {Main, NULL}
        BY <1>0, <2>1 DEF DataInv
      <3>4. holder' = holder
        BY <2>1
      <3> QED
        BY <3>1, <3>2, <3>3, <3>4 DEF DataInv
    <2> QED
      BY <2>2, <2>3 DEF ServerInv
  <1>8. ASSUME NEW l \in Loops, Drain(l) PROVE ServerInv'
    <2> DEFINE c == Head(pending[l])
    <2>1. /\ pc # "crashed" /\ pending[l] # <<>> /\ Register(l, c)
          /\ pending' = [pending EXCEPT ![l] = Tail(@)]
          /\ UNCHANGED <<workers, kernelVars, fd, event_loop, data, request, cur, pc>>
      BY <1>8 DEF Drain, Alive
    <2>2. pending[l] \in Seq(Connections)
      BY <1>0 DEF TypeInv
    <2>3. /\ c \in Connections
          /\ c = pending[l][1] /\ 1 \in 1..Len(pending[l])
          /\ Len(pending'[l]) = Len(pending[l]) - 1
          /\ Len(pending[l]) \in Nat
          /\ \A i \in 1..Len(pending'[l]) : pending'[l][i] = pending[l][i + 1]
          /\ \A k \in Loops : k # l => pending'[k] = pending[k]
      <3>1. pending'[l] = Tail(pending[l]) /\ \A k \in Loops : k # l => pending'[k] = pending[k]
        BY <1>0, <2>1 DEF TypeInv
      <3>2. Len(pending[l]) \in Nat \ {0}
        BY <2>1, <2>2, EmptySeq
      <3>3. /\ c \in Connections
            /\ Len(Tail(pending[l])) = Len(pending[l]) - 1
            /\ \A i \in 1..Len(Tail(pending[l])) : Tail(pending[l])[i] = pending[l][i + 1]
        BY <2>1, <2>2, HeadTailProperties
      <3>4. c = pending[l][1]
        BY <2>1, <2>2
      <3> QED
        BY <3>1, <3>2, <3>3, <3>4
    <2> HIDE DEF c
    <2>4. c # NoClient => Coming(c, l)
      BY <1>0, <2>3 DEF ComingInv
    <2>5. /\ EventReachesOwner'
          /\ \A k \in Loops : \A f \in watch'[k] : request'[holder'[f]]
          /\ \A d \in Clients, k \in Loops : d # c /\ Coming(d, k) => Coming(d, k)'
      BY <2>1, <2>3, <2>4, RegisterKeeps
    <2>6. \A k \in Loops : \A i \in 1..Len(pending'[k]) :
             \E j \in 1..Len(pending[k]) : /\ pending'[k][i] = pending[k][j]
                                           /\ j = IF k = l THEN i + 1 ELSE i
      BY <2>3
    (* What is left on the lists is not c: it was there once.              *)
    <2>7. ASSUME NEW k \in Loops, NEW i \in 1..Len(pending'[k]), pending'[k][i] # NoClient
          PROVE  pending'[k][i] \in Clients \ {c} /\ Coming(pending'[k][i], k)
      <3>1. PICK j \in 1..Len(pending[k]) : /\ pending'[k][i] = pending[k][j]
                                            /\ j = IF k = l THEN i + 1 ELSE i
        BY <2>6
      <3>2. pending[k][j] \in Clients /\ Coming(pending[k][j], k)
        BY <1>0, <1>b, <1>d, <2>7, <3>1 DEF ComingInv
      <3>3. CASE k # l
        <4>1. pending[k][j] # c
          BY <1>c, <2>4, <3>2, <3>3 DEF Coming
        <4> QED
          BY <3>1, <3>2, <4>1
      <3>4. CASE k = l
        BY <1>0, <1>c, <2>3, <3>1, <3>2, <3>4 DEF ComingInv
      <3> QED
        BY <3>3, <3>4
    <2>8. \A k \in Loops : \A i, j \in 1..Len(pending'[k]) :
             pending'[k][i] # NoClient /\ pending'[k][i] = pending'[k][j] => i = j
      <3>1. SUFFICES ASSUME NEW k \in Loops, NEW i \in 1..Len(pending'[k]),
                            NEW j \in 1..Len(pending'[k]),
                            pending'[k][i] # NoClient, pending'[k][i] = pending'[k][j]
                     PROVE  i = j
        OBVIOUS
      <3>2. CASE k # l
        BY <1>0, <2>3, <3>1, <3>2 DEF ComingInv
      <3>3. CASE k = l
        <4>1. i + 1 \in 1..Len(pending[l]) /\ j + 1 \in 1..Len(pending[l])
          BY <2>3, <3>3
        <4>2. pending[l][i + 1] = pending[l][j + 1] /\ pending[l][i + 1] # NoClient
          BY <2>3, <3>1, <3>3
        <4>3. i + 1 = j + 1
          BY <1>0, <4>1, <4>2 DEF ComingInv
        <4> QED
          BY <4>3
      <3> QED
        BY <3>2, <3>3
    <2>9. pc = "add" /\ cur # NoClient =>
             /\ cur # c
             /\ \A k \in Loops : \A i \in 1..Len(pending'[k]) : pending'[k][i] # cur
      <3>1. pc = "add" /\ cur # NoClient =>
               \A k \in Loops : \A i \in 1..Len(pending[k]) : pending[k][i] # cur
        BY <1>0 DEF ComingInv
      <3> QED
        BY <2>3, <2>6, <3>1
    <2>10. ComingInv'
      <3>1. /\ pc' = "add" => event_loop'[cur'] \in Loops
            /\ pc' = "add" /\ cur' # NoClient => Coming(cur, event_loop[cur])'
        BY <1>0, <1>d, <2>1, <2>5, <2>9 DEF ComingInv, TypeInv
      <3>2. \A k \in Loops : \A i \in 1..Len(pending'[k]) : pending'[k][i] # NoClient =>
               /\ pending'[k][i] \in Clients
               /\ \A d \in Clients : d = pending'[k][i] => Coming(d, k)'
        BY <2>5, <2>7
      <3>3. pc' = "add" /\ cur' # NoClient =>
               \A k \in Loops : \A i \in 1..Len(pending'[k]) : pending'[k][i] # cur'
        BY <2>1, <2>9
      <3> QED
        BY <2>8, <3>1, <3>2, <3>3 DEF ComingInv, Coming
    <2>11. HolderInv' /\ DataInv' /\ CrashOnlyInTheGap'
      BY <1>0, <2>1, <2>5 DEF HolderInv, DataInv, CrashOnlyInTheGap, Alive
    <2> QED
      BY <2>5, <2>10, <2>11 DEF ServerInv
  <1>9. ASSUME NEW l \in Loops, NEW f \in Fds, HandleMessage(l, f) PROVE ServerInv'
    <2>1. /\ pc # "crashed" /\ ~Busy(l) /\ f \in watch[l]
          /\ UNCHANGED <<client, holder, watch, workers, fd, event_loop, data, request,
                         pending, map, cur>>
          /\ \/ data[map[l][f]] /\ request[map[l][f]] /\ pc' = pc
             \/ ~(data[map[l][f]] /\ request[map[l][f]]) /\ pc' = "crashed"
      BY <1>9 DEF HandleMessage, Alive
    <2>2. HolderInv' /\ EventReachesOwner'
      BY <1>0, <2>1 DEF HolderInv, EventReachesOwner
    <2>3. ComingInv' /\ DataInv'
      BY <1>0, <2>1 DEF ComingInv, Coming, DataInv
    <2>4. CASE pc' = pc
      BY <1>0, <2>1, <2>2, <2>3, <2>4 DEF ServerInv, CrashOnlyInTheGap, Alive
    <2>5. CASE ~(data[map[l][f]] /\ request[map[l][f]])
      <3>1. /\ holder[f] \in Clients /\ map[l][f] = holder[f]
            /\ event_loop[holder[f]] = l /\ request[holder[f]]
        BY <2>1, WatchedIsKnown
      <3>2. holder[f] = cur /\ pc # "wait" /\ ~data[cur]
        BY <1>0, <2>5, <3>1, ServerAssumption DEF DataInv
      <3>3. l # Main
        BY <2>1, <3>2 DEF Busy
      <3>4. workers # <<>>
        BY <1>0, <1>c, <3>1, <3>3, ServerAssumption DEF DataInv
      <3> QED
        BY <2>1, <2>2, <2>3, <3>2, <3>4 DEF ServerInv, CrashOnlyInTheGap
    <2> QED
      BY <2>1, <2>4, <2>5
  <1>10. ASSUME NEW l \in Loops, NEW f \in Fds, HandleClosed(l, f) PROVE ServerInv'
    <2>1. /\ pc # "crashed" /\ f \in watch[l]
          /\ watch' = [watch EXCEPT ![l] = @ \ {f}]
          /\ request' = [request EXCEPT ![map[l][f]] = FALSE]
          /\ map' = [map EXCEPT ![l][f] = NULL]
          /\ UNCHANGED <<workers, kernelVars, fd, event_loop, data, pending, cur, pc>>
      BY <1>10 DEF HandleClosed, Alive
    <2> DEFINE c == holder[f]
    <2>2. /\ c \in Clients /\ fd[c] = f /\ map[l][f] = c /\ event_loop[c] = l
          /\ \A k \in Loops : \A i \in 1..Len(pending[k]) : pending[k][i] # c
          /\ pc = "add" => cur # c
      BY <2>1, WatchedIsKnown
    <2> HIDE DEF c
    <2>3. \A k \in Loops : watch'[k] = IF k = l THEN watch[k] \ {f} ELSE watch[k]
      BY <1>0, <2>1 DEF TypeInv
    <2>4. \A k \in Loops, g \in Fds :
             map'[k][g] = IF k = l /\ g = f THEN NULL ELSE map[k][g]
      BY <1>0, <2>1, Zenon DEF TypeInv
    <2>5. \A d \in Clients : d # c => request'[d] = request[d]
      BY <1>0, <1>c, <2>1, <2>2 DEF TypeInv
    <2>6. \A k \in Loops : \A g \in watch'[k] :
             /\ g \in watch[k] /\ g \in Fds /\ g # f
             /\ holder[g] \in Clients /\ holder[g] # c
      <3>1. SUFFICES ASSUME NEW k \in Loops, NEW g \in watch'[k]
                     PROVE  /\ g \in watch[k] /\ g \in Fds /\ g # f
                            /\ holder[g] \in Clients /\ holder[g] # c
        OBVIOUS
      <3>2. g \in watch[k] /\ (k = l => g # f)
        BY <2>3
      <3>3. g \in Fds /\ holder[g] \in Clients /\ fd[holder[g]] = g /\ event_loop[holder[g]] = k
        BY <3>2, WatchedIsKnown
      <3>4. g # f
        BY <2>2, <3>2, <3>3 DEF c
      <3>5. holder[g] # c
        BY <2>2, <3>3, <3>4
      <3> QED
        BY <3>2, <3>3, <3>4, <3>5
    <2>7. EventReachesOwner'
      BY <1>0, <2>1, <2>4, <2>6 DEF EventReachesOwner
    <2>8. DataInv'
      <3>1. \A k \in Loops : \A g \in watch'[k] : request'[holder'[g]]
        <4>1. \A k \in Loops : \A g \in watch'[k] : request[holder[g]] = request'[holder[g]]
          BY <2>5, <2>6
        <4> QED
          BY <1>0, <2>1, <2>6, <4>1 DEF DataInv
      <3> QED
        BY <1>0, <2>1, <3>1 DEF DataInv
    <2>9. \A d \in Clients, k \in Loops : d # c /\ Coming(d, k) => Coming(d, k)'
      <3>1. SUFFICES ASSUME NEW d \in Clients, NEW k \in Loops, d # c, Coming(d, k)
                     PROVE  Coming(d, k)'
        OBVIOUS
      <3>2. request'[d] /\ \A m \in Loops : fd[d] \notin watch'[m]
        BY <2>3, <2>5, <3>1 DEF Coming
      <3> QED
        BY <2>1, <3>1, <3>2 DEF Coming
    <2>10. ComingInv'
      <3>1. ASSUME NEW k \in Loops, NEW i \in 1..Len(pending[k]), pending[k][i] # NoClient
            PROVE  Coming(pending[k][i], k)'
        <4>1. pending[k][i] \in Clients \ {c} /\ Coming(pending[k][i], k)
          BY <1>0, <1>b, <1>d, <2>2, <3>1 DEF ComingInv
        <4> QED
          BY <2>1, <2>9, <4>1
      <3>2. /\ pc = "add" => event_loop[cur] \in Loops
            /\ pc = "add" /\ cur # NoClient => Coming(cur, event_loop[cur])'
        BY <1>0, <1>d, <2>1, <2>2, <2>9 DEF ComingInv, TypeInv
      <3> QED
        BY <1>0, <2>1, <3>1, <3>2 DEF ComingInv
    <2>11. HolderInv' /\ CrashOnlyInTheGap'
      BY <1>0, <2>1 DEF HolderInv, CrashOnlyInTheGap, Alive
    <2> QED
      BY <2>7, <2>8, <2>10, <2>11 DEF ServerInv
  <1>11. ASSUME NEW l \in Loops, NEW f \in Fds, CloseOnError(l, f) PROVE ServerInv'
    <2>1. /\ pc # "crashed" /\ f \in watch[l]
          /\ watch' = [watch EXCEPT ![l] = @ \ {f}]
          /\ holder' = [holder EXCEPT ![f] = NULL]
          /\ UNCHANGED <<client, map, workers, fd, event_loop, data, request, pending, cur, pc>>
      BY <1>11 DEF CloseOnError, Alive
    <2>2. /\ fd[holder[f]] = f /\ event_loop[holder[f]] = l
          /\ \A k \in Loops : \A i \in 1..Len(pending[k]) : pending[k][i] # holder[f]
          /\ pc = "add" => cur # holder[f]
      BY <2>1, WatchedIsKnown
    <2>3. \A k \in Loops : watch'[k] = IF k = l THEN watch[k] \ {f} ELSE watch[k]
      BY <1>0, <2>1 DEF TypeInv
    <2>4. \A g \in Fds : holder'[g] = IF g = f THEN NULL ELSE holder[g]
      BY <1>0, <2>1 DEF TypeInv
    (* Only l watched f.                                                   *)
    <2>5. \A k \in Loops : \A g \in watch'[k] : g \in watch[k] /\ g \in Fds /\ g # f
      <3>1. SUFFICES ASSUME NEW k \in Loops, NEW g \in watch'[k]
                     PROVE  g \in watch[k] /\ g \in Fds /\ g # f
        OBVIOUS
      <3>2. g \in watch[k] /\ (k = l => g # f)
        BY <2>3
      <3>3. g \in Fds /\ event_loop[holder[g]] = k
        BY <3>2, WatchedIsKnown
      <3> QED
        BY <2>2, <3>2, <3>3
    <2>6. EventReachesOwner' /\ DataInv' /\ HolderInv'
      BY <1>0, <2>1, <2>4, <2>5 DEF EventReachesOwner, DataInv, HolderInv
    <2>7. \A d, k : d # holder[f] /\ Coming(d, k) => Coming(d, k)'
      BY <2>1, <2>3, <2>4 DEF Coming
    <2>8. ComingInv' /\ CrashOnlyInTheGap'
      BY <1>0, <2>1, <2>2, <2>7 DEF ComingInv, CrashOnlyInTheGap, Alive
    <2> QED
      BY <2>6, <2>8 DEF ServerInv
  <1>12. CASE UNCHANGED vars
    BY <1>1, <1>12 DEF vars
  <1> QED
    BY <1>2, <1>4, <1>5, <1>6, <1>7, <1>8, <1>9, <1>10, <1>11, <1>12
       DEF Next, LoopNext, Established

LEMMA Invariance == Init /\ [][Next]_vars => []ServerInv
  <1>1. ServerInv => TypeInv /\ ComingInv
    BY DEF ServerInv
  <1> QED
    BY <1>1, InvInit, TypeStep, InvStep, PTL

(* Whatever descriptors are closed, left open and given out again, on      *)
(* whichever loops: a loop's events (event_loop.c:93) are those of the     *)
(* connections that handle_connection_established gave to it.              *)
THEOREM LoopsKeepApart == Spec => []EventReachesOwner
  <1>1. ServerInv => EventReachesOwner
    BY DEF ServerInv
  <1> QED
    BY <1>1, Invariance, PTL DEF Spec

(* The only way to meet a connection without its data is the gap between   *)
(* lines 240 and 242 of lib_tcp_server.c, and only with worker threads.    *)
THEOREM OnlyTheGapCrashes == Spec => []CrashOnlyInTheGap
  <1>1. ServerInv => CrashOnlyInTheGap
    BY DEF ServerInv
  <1> QED
    BY <1>1, Invariance, PTL DEF Spec
=============================================================================

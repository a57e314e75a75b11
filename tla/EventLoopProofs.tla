--------------------------- MODULE EventLoopProofs ---------------------------
(***************************************************************************)
(* Theorems about EventLoop, for every set of threads and channels.        *)
(***************************************************************************)
EXTENDS EventLoop, TLAPS, WellFoundedInduction, NaturalsInduction, SequenceTheorems

(* The facts about constants that the steps below use.                     *)
LEMMA ConstantFacts ==
    /\ Owner \in Threads
    /\ NULL \notin Threads
    /\ WakeFd \in Fds
    /\ Fds \subseteq Nat
    /\ Wake \in Channels
    /\ NULL \notin Channels
    /\ \A c \in Channels : FdOf[c] \in Int /\ (FdOf[c] >= 0 => FdOf[c] \in Fds)
    /\ \A c \in Channels : FdOf[c] = WakeFd => c = Wake
    /\ Connections \subseteq Channels \ {Wake}
    /\ Acceptors \subseteq Channels \ {Wake}
    /\ MapSizes \subseteq Nat
    /\ PairCapacity \in Nat \ {0}
  BY ThreadsAssumption, ChannelsAssumption, SizesAssumption
     DEF Threads, WakeFd, Fds, Connections

(* A nonempty set of naturals has a least element.                         *)
LEMMA LeastNatural ==
    ASSUME NEW T, T \subseteq Nat, T # {}
    PROVE  \E m \in T : \A k \in T : m <= k
  <1> DEFINE R == {ss \in Nat \X Nat : ss[1] < ss[2]}
  <1>1. IsWellFoundedOn(R, Nat)
    BY NatLessThanWellFounded DEF OpToRel
  <1>2. \A k, m \in Nat : k < m => <<k, m>> \in R
    OBVIOUS
  <1> HIDE DEF R
  <1>3. PICK m \in T : \A k \in T : ~(<<k, m>> \in R)
    BY <1>1, WFMin, Zenon
  <1>4. ASSUME NEW k \in T PROVE m <= k
    <2>1. k \in Nat /\ m \in Nat
      OBVIOUS
    <2>2. ~(k < m)
      BY <1>2, <1>3, <2>1, Zenon
    <2> QED
      BY <2>1, <2>2
  <1> QED
    BY <1>4

(* map_expand_space makes the table large enough, and only that large.     *)
LEMMA ExpandedFits ==
    ASSUME NEW fd \in Fds
    PROVE  Expanded(fd) \in MapSizes /\ Expanded(fd) > fd
  <1> DEFINE T == {m \in MapSizes : m > fd}
  <1>1. T \subseteq Nat /\ T # {}
    BY SizesAssumption
  <1>2. PICK m \in T : \A k \in T : m <= k
    BY <1>1, LeastNatural
  <1>3. m \in MapSizes /\ m > fd /\ \A k \in MapSizes : k > fd => m <= k
    BY <1>2
  <1> QED
    BY <1>3 DEF Expanded
-----------------------------------------------------------------------------
(***************************************************************************)
(* Type correctness.  The wakeup channel is never closed and is reported   *)
(* readable only while the pair holds a byte, which keeps pair a natural.  *)
(***************************************************************************)
WakeReady ==
    /\ batch[WakeFd] \subseteq {"read"}
    /\ "read" \in batch[WakeFd] => pair > 0

TypeInv == TypeOK /\ WakeReady

LEMMA TypeInit == Init => TypeInv
  <1> SUFFICES ASSUME Init PROVE TypeInv
    OBVIOUS
  <1>1. Expanded(WakeFd) \in MapSizes /\ Expanded(WakeFd) > WakeFd
    BY ConstantFacts, ExpandedFits
  <1>2. /\ events \in [Channels -> Interests]
        /\ holder \in [Fds -> Channels \cup {NULL}]
        /\ map \in [Fds -> Channels \cup {NULL}]
        /\ \A fd \in Fds : map[fd] # NULL => fd < n_channel
        /\ interest \in [Fds -> {NULL} \cup Interests]
        /\ n_channel \in MapSizes
    BY <1>1, ConstantFacts DEF Init, Interests
  <1>3. req \in [Threads -> Requests] /\ pc \in [Threads -> Labels]
    BY ConstantFacts DEF Init, Requests, Labels
  <1>4. pending \in Seq(Requests) /\ cursor \in 1..(Len(pending) + 1)
    BY DEF Init
  <1>5. /\ mutex \in Threads \cup {NULL}
        /\ is_handle_pending \in BOOLEAN
        /\ back \in {"wait", "dispatch"}
    BY ConstantFacts, Zenon DEF Init
  <1>8. pair \in 0..PairCapacity
    BY ConstantFacts DEF Init
  <1>6. batch \in [Fds -> EventSets]
    BY DEF Init, EventSets
  <1>7. WakeReady
    BY ConstantFacts DEF Init, WakeReady
  <1> QED
    BY <1>2, <1>3, <1>4, <1>5, <1>6, <1>7, <1>8 DEF TypeInv, TypeOK

(* The requests a thread makes and the channels it creates are well typed. *)
LEMMA RequestType ==
    ASSUME TypeInv, NEW t \in Threads, NEW type \in {"add", "remove"},
           NEW c \in Channels, Request(t, type, c)
    PROVE  pc' \in [Threads -> Labels] /\ req' \in [Threads -> Requests]
  <1>1. [type |-> type, channel |-> c] \in Requests
    BY DEF Requests
  <1>2. pc \in [Threads -> Labels] /\ req \in [Threads -> Requests]
    BY DEF TypeInv, TypeOK
  <1>3. "lock" \in Labels
    BY DEF Labels
  <1> QED
    BY <1>1, <1>2, <1>3 DEF Request, Goto

LEMMA CreateType ==
    ASSUME TypeInv, NEW c \in Channels, Create(c)
    PROVE  events' \in [Channels -> Interests] /\ holder' \in [Fds -> Channels \cup {NULL}]
  BY DEF TypeInv, TypeOK, Create, Interests

LEMMA GotoType ==
    ASSUME TypeInv, NEW label \in Labels, Goto(Owner, label)
    PROVE  pc' \in [Threads -> Labels]
  BY ConstantFacts DEF TypeInv, TypeOK, Goto

(* What a callback changes, apart from the batch.                          *)
CallbackVars ==
    /\ events \in [Channels -> Interests]
    /\ holder \in [Fds -> Channels \cup {NULL}]
    /\ pc \in [Threads -> Labels]
    /\ req \in [Threads -> Requests]
    /\ back \in {"wait", "dispatch"}

LEMMA ReturnType ==
    ASSUME TypeInv, Return
    PROVE  CallbackVars' /\ pair' = pair
  <1>1. pc' \in [Threads -> Labels]
    BY GotoType DEF Return, Labels
  <1> QED
    BY <1>1 DEF TypeInv, TypeOK, Return, CallbackVars, channelVars

LEMMA ReadCallbackType ==
    ASSUME TypeInv, NEW c \in Channels, ReadCallback(c)
    PROVE  CallbackVars' /\ (pair' = pair \/ (c = Wake /\ pair' = pair - 1))
  <1> USE DEF CallbackVars, channelVars
  <1>0. /\ "dispatch" \in Labels /\ "undefined" \in Labels
        /\ Owner \in Threads /\ Connections \subseteq Channels
    BY ConstantFacts DEF Labels
  <1>1. CASE c = Wake /\ HandleWakeup
    <2>1. pc' \in [Threads -> Labels]
      BY <1>0, <1>1, GotoType DEF HandleWakeup
    <2> QED
      BY <1>1, <2>1 DEF HandleWakeup, TypeInv, TypeOK
  <1>2. CASE Return
    BY <1>0, <1>2, ReturnType
  <1>3. CASE CloseConnection(c)
    <2>1. pc' \in [Threads -> Labels] /\ req' \in [Threads -> Requests]
      BY <1>0, <1>3, RequestType DEF CloseConnection
    <2> QED
      BY <1>3, <2>1 DEF CloseConnection, TypeInv, TypeOK
  <1>4. CASE AcceptHere(c)
    <2>1. PICK d \in Connections : Create(d) /\ Request(Owner, "add", d)
      BY <1>4 DEF AcceptHere
    <2>2. d \in Channels
      BY <1>0
    <2>3. pc' \in [Threads -> Labels] /\ req' \in [Threads -> Requests]
      BY <1>0, <2>1, <2>2, RequestType
    <2>4. /\ events' \in [Channels -> Interests]
          /\ holder' \in [Fds -> Channels \cup {NULL}]
      BY <2>1, <2>2, CreateType
    <2> QED
      BY <1>4, <2>3, <2>4 DEF AcceptHere
  <1>5. CASE SwitchWrite(c)
    <2>1. pc' \in [Threads -> Labels]
      BY <1>0, <1>5, GotoType DEF SwitchWrite
    <2> QED
      BY <1>5, <2>1 DEF SwitchWrite, TypeInv, TypeOK, Interests
  <1> QED
    BY <1>1, <1>2, <1>3, <1>4, <1>5 DEF ReadCallback

(* Only the wakeup channel's callback takes a byte from the pair.          *)
LEMMA ReadEventType ==
    ASSUME TypeInv, NEW fd \in Fds, ReadEvent(fd)
    PROVE  TypeInv'
  <1>2. /\ UNCHANGED <<loopVars, tableVars>>
        /\ batch' = [batch EXCEPT ![fd] = {}]
        /\ "read" \in batch[fd]
        /\ Activate(fd)
    BY DEF ReadEvent
  <1>3. CallbackVars' /\ (pair' = pair \/ (fd = WakeFd /\ pair' = pair - 1))
    <2>1. CASE Return
      BY <2>1, ReturnType
    <2>2. CASE Crash /\ UNCHANGED <<channelVars, pair, req, back>>
      <3>1. pc' \in [Threads -> Labels]
        BY <2>2, GotoType DEF Crash, Labels
      <3> QED
        BY <2>2, <3>1 DEF TypeInv, TypeOK, CallbackVars, channelVars
    <2>3. CASE map[fd] # NULL /\ FdOf[map[fd]] = fd /\ ReadCallback(map[fd])
      <3>1. map[fd] \in Channels
        BY <2>3 DEF TypeInv, TypeOK
      <3> QED
        BY <2>3, <3>1, ReadCallbackType DEF WakeFd
    <2> QED
      BY <1>2, <2>1, <2>2, <2>3 DEF Activate
  <1>4. pair \in 0..PairCapacity /\ (fd = WakeFd => pair > 0)
    BY <1>2 DEF TypeInv, TypeOK, WakeReady
  <1>5. pair' \in 0..PairCapacity
    BY <1>3, <1>4, ConstantFacts
  <1>6. batch' \in [Fds -> EventSets]
    BY <1>2 DEF TypeInv, TypeOK, EventSets
  <1>7. WakeReady'
    <2>1. batch[WakeFd] \subseteq {"read"} /\ ("read" \in batch[WakeFd] => pair > 0)
      BY DEF TypeInv, WakeReady
    <2>2. CASE fd = WakeFd
      BY <1>2, <2>1, <2>2, ConstantFacts DEF TypeInv, TypeOK, WakeReady
    <2>3. CASE fd # WakeFd
      BY <1>2, <1>3, <2>1, <2>3, ConstantFacts DEF TypeInv, TypeOK, WakeReady
    <2> QED
      BY <2>2, <2>3
  <1> QED
    BY <1>2, <1>3, <1>5, <1>6, <1>7
       DEF TypeInv, TypeOK, CallbackVars, loopVars, tableVars

(* The table never loses an entry by growing.                              *)
LEMMA HandlePendingType ==
    ASSUME TypeInv, HandlePending
    PROVE  TypeInv'
  <1>1. PICK r \in Requests : /\ r = pending[cursor]
                              /\ cursor \in 1..Len(pending)
    <2>1. cursor \in 1..Len(pending) /\ pending \in Seq(Requests)
      BY DEF TypeInv, TypeOK, HandlePending
    <2> QED
      BY <2>1, ElementOfSeq
  <1>2. /\ cursor' = cursor + 1
        /\ UNCHANGED <<pending, mutex, is_handle_pending, channelVars, pair,
                       batch, req, back>>
    BY DEF HandlePending
  <1>3. r.channel \in Channels
    BY <1>1 DEF Requests
  <1>4. FdOf[r.channel] \in Int /\ (FdOf[r.channel] >= 0 => FdOf[r.channel] \in Fds)
    BY <1>3, ConstantFacts
  <1>5. \/ HandleAdd(r.channel)
        \/ HandleRemove(r.channel)
    BY <1>1 DEF HandlePending
  <1>6. /\ map \in [Fds -> Channels \cup {NULL}]
        /\ \A f \in Fds : map[f] # NULL => f < n_channel
        /\ n_channel \in MapSizes
        /\ interest \in [Fds -> {NULL} \cup Interests]
        /\ events \in [Channels -> Interests]
    BY DEF TypeInv, TypeOK
  <1>7. pc' \in [Threads -> Labels]
    <2>1. pc \in [Threads -> Labels]
      BY DEF TypeInv, TypeOK
    <2>2. pc' = pc \/ Crash
      BY <1>5 DEF HandleAdd, HandleRemove
    <2> QED
      BY <2>1, <2>2, GotoType DEF Crash, Labels
  <1>8. /\ map' \in [Fds -> Channels \cup {NULL}]
        /\ \A f \in Fds : map'[f] # NULL => f < n_channel'
        /\ n_channel' \in MapSizes
        /\ interest' \in [Fds -> {NULL} \cup Interests]
    <2>1. CASE HandleAdd(r.channel)
      <3>1. CASE FdOf[r.channel] < 0
        BY <1>4, <1>6, <2>1, <3>1 DEF HandleAdd, tableVars
      <3>2. CASE FdOf[r.channel] >= 0
        <4>1. n_channel' = IF FdOf[r.channel] >= n_channel
                           THEN Expanded(FdOf[r.channel]) ELSE n_channel
          BY <1>4, <2>1, <3>2 DEF HandleAdd
        <4>2. /\ n_channel' \in MapSizes
              /\ FdOf[r.channel] < n_channel'
              /\ n_channel <= n_channel'
          <5>1. /\ Expanded(FdOf[r.channel]) \in MapSizes
                /\ Expanded(FdOf[r.channel]) > FdOf[r.channel]
            BY <1>4, <3>2, ExpandedFits
          <5>2. n_channel \in Nat /\ Expanded(FdOf[r.channel]) \in Nat
            BY <1>6, <5>1, ConstantFacts
          <5> QED
            BY <1>4, <1>6, <4>1, <5>1, <5>2
        <4>3. /\ map' \in [Fds -> Channels \cup {NULL}]
              /\ interest' \in [Fds -> {NULL} \cup Interests]
              /\ \A f \in Fds : f # FdOf[r.channel] => map'[f] = map[f]
          BY <1>3, <1>4, <1>6, <2>1, <3>2 DEF HandleAdd, EpollAdd
        <4> QED
          BY <1>4, <1>6, <3>2, <4>2, <4>3, ConstantFacts
      <3> QED
        BY <1>4, <3>1, <3>2
    <2>2. CASE HandleRemove(r.channel)
      BY <1>4, <1>6, <2>2 DEF HandleRemove, EpollDel, tableVars
    <2> QED
      BY <1>5, <2>1, <2>2
  <1>9. cursor' \in 1..(Len(pending') + 1)
    BY <1>1, <1>2, LenProperties DEF TypeInv, TypeOK
  <1> QED
    BY <1>2, <1>7, <1>8, <1>9
       DEF TypeInv, TypeOK, WakeReady, channelVars

LEMMA AppendRequestType ==
    ASSUME TypeInv, NEW t \in Threads, AppendRequest(t)
    PROVE  TypeInv'
  <1>1. /\ pending \in Seq(Requests) /\ Len(pending) \in Nat
        /\ req[t] \in Requests
        /\ cursor \in 1..(Len(pending) + 1)
    BY LenProperties DEF TypeInv, TypeOK
  <1>2. pending' = pending \/ pending' = Append(pending, req[t])
    BY DEF AppendRequest, PushBack
  <1>3. /\ pending' \in Seq(Requests)
        /\ Len(pending') \in Nat
        /\ Len(pending) <= Len(pending')
    BY <1>1, <1>2, AppendProperties
  <1>4. cursor' \in 1..(Len(pending') + 1)
    BY <1>1, <1>3 DEF AppendRequest
  <1>5. mutex' \in Threads \cup {NULL}
    BY DEF AppendRequest, Release, TypeInv, TypeOK
  <1>6. pc' \in [Threads -> Labels]
    BY ConstantFacts
       DEF AppendRequest, AfterAppend, Goto, Crash, Labels, TypeInv, TypeOK
  <1> QED
    BY <1>3, <1>4, <1>5, <1>6
       DEF AppendRequest, TypeInv, TypeOK, WakeReady, tableVars, channelVars

LEMMA TypeStep == TypeInv /\ [Next]_vars => TypeInv'
  <1> SUFFICES ASSUME TypeInv, [Next]_vars PROVE TypeInv'
    OBVIOUS
  <1>1. CASE Start
    BY <1>1, ConstantFacts
       DEF Start, Create, Request, Goto, Requests, Interests, Labels, loopVars,
           tableVars, TypeInv, TypeOK, WakeReady
  <1>2. ASSUME NEW t \in Posters, Post(t) PROVE TypeInv'
    BY <1>2, ConstantFacts
       DEF Post, Create, Request, Goto, Requests, Interests, Labels, Threads,
           loopVars, tableVars, TypeInv, TypeOK, WakeReady
  <1>3. ASSUME NEW t \in Threads, Lock(t) PROVE TypeInv'
    BY <1>3 DEF Lock, Acquire, Goto, Labels, tableVars, channelVars, TypeInv,
                TypeOK, WakeReady
  <1>4. ASSUME NEW t \in Threads, AppendRequest(t) PROVE TypeInv'
    BY <1>4, AppendRequestType
  <1>5. ASSUME NEW t \in Posters, Wakeup(t) PROVE TypeInv'
    BY <1>5, ConstantFacts
       DEF Wakeup, Goto, Labels, Threads, loopVars, tableVars, channelVars,
           TypeInv, TypeOK, WakeReady
  <1>6. CASE EpollWait
    <2>1. batch' \in [Fds -> EventSets]
      <3>1. \E S \in SUBSET Fds : \E ready \in [S -> EventSets] :
               batch' = [fd \in Fds |-> IF fd \in S THEN ready[fd] ELSE {}]
        <4>1. PICK S \in SUBSET {fd \in Fds : Reports(fd) # {}} :
                 \E ready \in [S -> EventSets] :
                    batch' = [fd \in Fds |-> IF fd \in S THEN ready[fd] ELSE {}]
          BY <1>6, Zenon DEF EpollWait
        <4>2. S \in SUBSET Fds
          OBVIOUS
        <4> QED
          BY <4>1, <4>2
      <3>2. {} \in EventSets
        BY DEF EventSets
      <3>3. PICK S \in SUBSET Fds : \E ready \in [S -> EventSets] :
               batch' = [fd \in Fds |-> IF fd \in S THEN ready[fd] ELSE {}]
        BY <3>1
      <3>4. PICK ready \in [S -> EventSets] :
               batch' = [fd \in Fds |-> IF fd \in S THEN ready[fd] ELSE {}]
        BY <3>3
      <3> QED
        BY <3>2, <3>4
    <2>2. WakeReady'
      BY <1>6, ConstantFacts DEF EpollWait, Reports, WakeReady
    <2> QED
      BY <1>6, <2>1, <2>2, ConstantFacts
         DEF EpollWait, Goto, Labels, loopVars, tableVars, channelVars, TypeInv,
             TypeOK
  <1>7. ASSUME NEW fd \in Fds, CloseOnError(fd) PROVE TypeInv'
    BY <1>7, ConstantFacts
       DEF CloseOnError, loopVars, EventSets, TypeInv, TypeOK, WakeReady
  <1>8. ASSUME NEW fd \in Fds, ReadEvent(fd) PROVE TypeInv'
    BY <1>8, ReadEventType
  <1>9. CASE DrainEnd
    BY <1>9, ConstantFacts
       DEF DrainEnd, Goto, Labels, loopVars, tableVars, channelVars, TypeInv,
           TypeOK, WakeReady
  <1>10. CASE EndDispatch
    BY <1>10, ConstantFacts
       DEF EndDispatch, Goto, Labels, loopVars, tableVars, channelVars, TypeInv,
           TypeOK, WakeReady
  <1>11. CASE DrainLock
    BY <1>11, ConstantFacts
       DEF DrainLock, Acquire, Goto, Labels, tableVars, channelVars, TypeInv,
           TypeOK, WakeReady
  <1>12. CASE HandlePending
    BY <1>12, HandlePendingType
  <1>13. CASE Clear
    <2>1. pending' \in Seq(Requests) /\ cursor' \in 1..(Len(pending') + 1)
      BY <1>13 DEF Clear
    <2>2. is_handle_pending' \in BOOLEAN
      BY <1>13 DEF Clear
    <2>3. pc' \in [Threads -> Labels] /\ mutex' \in Threads \cup {NULL}
      BY <1>13, ConstantFacts DEF Clear, Release, Goto, Labels, TypeInv, TypeOK
    <2> QED
      BY <1>13, <2>1, <2>2, <2>3
         DEF Clear, tableVars, channelVars, TypeInv, TypeOK, WakeReady
  <1>14. CASE UNCHANGED vars
    BY <1>14 DEF vars, loopVars, tableVars, channelVars, TypeInv, TypeOK, WakeReady
  <1> QED
    BY <1>1, <1>2, <1>3, <1>4, <1>5, <1>6, <1>7, <1>8, <1>9, <1>10, <1>11,
       <1>12, <1>13, <1>14
       DEF Next, PosterNext, OwnerRun, Handle, Threads

(* Every reachable state of a loop is well typed, whatever the number of   *)
(* threads, channels and descriptors: in particular an entry of the map    *)
(* lies inside the table (event_loop.c:223-227) and the pair is never read *)
(* when it is empty.                                                       *)
THEOREM TypeCorrect == SafeSpec => []TypeOK
  <1>1. TypeInv => TypeOK
    BY DEF TypeInv
  <1> QED
    BY <1>1, TypeInit, TypeStep, PTL DEF SafeSpec
-----------------------------------------------------------------------------
(***************************************************************************)
(* The mutex and the wakeup.                                               *)
(***************************************************************************)

(* The mutex is held exactly while a request is appended and while the     *)
(* list is handled and cleared, and that is done only under the mutex: so  *)
(* nothing is appended between the end of the walk and the clearing.       *)
MutexInv ==
    /\ \A t \in Threads :
          mutex = t => \/ pc[t] = "append"
                       \/ t = Owner /\ pc[t] \in {"drain", "clear", "crashed"}
    /\ \A t \in Threads : pc[t] = "append" => mutex = t
    /\ pc[Owner] \in {"drain", "clear"} => mutex = Owner
    /\ pc[Owner] = "clear" => cursor > Len(pending)
    /\ is_handle_pending => mutex = Owner /\ pc[Owner] \in {"drain", "clear", "crashed"}

(* A callback leaves the request list alone and moves only the owner.      *)
LEMMA EventEffect ==
    ASSUME NEW fd \in Fds, ReadEvent(fd)
    PROVE  /\ UNCHANGED <<loopVars, tableVars>>
           /\ pc[Owner] = "dispatch"
           /\ \E label \in {"lock", "dispatch", "crashed", "undefined"} : Goto(Owner, label)
  BY DEF ReadEvent, Activate, ReadCallback, Return, HandleWakeup, Crash,
         CloseConnection, AcceptHere, SwitchWrite, Request

LEMMA MutexInit == Init => MutexInv
  BY ConstantFacts DEF Init, MutexInv

LEMMA MutexStep == TypeInv /\ MutexInv /\ [Next]_vars => MutexInv'
  <1> SUFFICES ASSUME TypeInv, MutexInv, [Next]_vars PROVE MutexInv'
    OBVIOUS
  <1> USE ConstantFacts DEF MutexInv, Goto, loopVars
  <1>0. pc \in [Threads -> Labels] /\ back \in {"wait", "dispatch"}
    BY DEF TypeInv, TypeOK
  <1>1. CASE Start
    BY <1>0, <1>1 DEF Start, Request
  <1>2. ASSUME NEW t \in Posters, Post(t) PROVE MutexInv'
    BY <1>0, <1>2, ThreadsAssumption DEF Post, Request, Threads
  <1>3. ASSUME NEW t \in Threads, Lock(t) PROVE MutexInv'
    BY <1>0, <1>3 DEF Lock, Acquire
  <1>4. ASSUME NEW t \in Threads, AppendRequest(t) PROVE MutexInv'
    BY <1>0, <1>4 DEF AppendRequest, Crash, Release, AfterAppend
  <1>5. ASSUME NEW t \in Posters, Wakeup(t) PROVE MutexInv'
    BY <1>0, <1>5, ThreadsAssumption DEF Wakeup, Threads
  <1>6. CASE EpollWait
    BY <1>0, <1>6 DEF EpollWait
  <1>7. ASSUME NEW fd \in Fds, CloseOnError(fd) PROVE MutexInv'
    BY <1>7 DEF CloseOnError
  <1>8. ASSUME NEW fd \in Fds, ReadEvent(fd) PROVE MutexInv'
    BY <1>0, <1>8, EventEffect
  <1>9. CASE EndDispatch
    BY <1>0, <1>9 DEF EndDispatch
  <1>10. CASE DrainLock
    BY <1>0, <1>10 DEF DrainLock, Acquire
  <1>11. CASE HandlePending
    <2>1. /\ pc[Owner] = "drain"
          /\ pc' = pc \/ Crash
          /\ UNCHANGED <<mutex, is_handle_pending>>
      BY <1>11 DEF HandlePending, HandleAdd, HandleRemove
    <2> QED
      BY <1>0, <2>1 DEF Crash
  <1>12. CASE DrainEnd
    BY <1>0, <1>12 DEF DrainEnd
  <1>13. CASE Clear
    BY <1>0, <1>13 DEF Clear, Release
  <1>14. CASE UNCHANGED vars
    BY <1>14 DEF vars
  <1> QED
    BY <1>1, <1>2, <1>3, <1>4, <1>5, <1>6, <1>7, <1>8, <1>9, <1>10, <1>11,
       <1>12, <1>13, <1>14
       DEF Next, PosterNext, OwnerRun, Handle, Threads

(* The assertion at event_loop.c:149 holds in every run, and no thread     *)
(* waits for the mutex it holds.                                           *)
THEOREM MutexCorrect == SafeSpec => []MutexDiscipline
  <1>1. MutexInv => MutexDiscipline
    BY ConstantFacts DEF MutexInv, MutexDiscipline
  <1> QED
    BY <1>1, TypeInit, TypeStep, MutexInit, MutexStep, PTL DEF SafeSpec

(* A poster that appends goes on to the wakeup, and the owner starts to    *)
(* wait only with the list empty.                                          *)
LEMMA WakeupStep == TypeInv /\ NoLostWakeup /\ [Next]_vars => NoLostWakeup'
  <1> SUFFICES ASSUME TypeInv, NoLostWakeup, [Next]_vars PROVE NoLostWakeup'
    OBVIOUS
  <1> USE ConstantFacts DEF NoLostWakeup, Goto
  <1>0. /\ pc \in [Threads -> Labels]
        /\ pair \in Nat
        /\ Posters \subseteq Threads /\ Owner \notin Posters
    BY ThreadsAssumption DEF TypeInv, TypeOK, Threads
  <1>1. CASE Start
    BY <1>0, <1>1 DEF Start, Request
  <1>2. ASSUME NEW t \in Posters, Post(t) PROVE NoLostWakeup'
    BY <1>0, <1>2 DEF Post, Request, loopVars
  <1>3. ASSUME NEW t \in Threads, Lock(t) PROVE NoLostWakeup'
    BY <1>0, <1>3 DEF Lock
  <1>4. ASSUME NEW t \in Posters, AppendRequest(t) PROVE NoLostWakeup'
    BY <1>0, <1>4 DEF AppendRequest, Crash, AfterAppend
  <1>5. CASE AppendRequest(Owner)
    BY <1>0, <1>5 DEF AppendRequest, Crash, AfterAppend
  <1>6. ASSUME NEW t \in Posters, Wakeup(t) PROVE NoLostWakeup'
    BY <1>0, <1>6 DEF Wakeup
  <1>7. CASE EpollWait
    BY <1>0, <1>7 DEF EpollWait
  <1>8. ASSUME NEW fd \in Fds, CloseOnError(fd) PROVE NoLostWakeup'
    BY <1>0, <1>8 DEF CloseOnError
  <1>9. ASSUME NEW fd \in Fds, ReadEvent(fd) PROVE NoLostWakeup'
    BY <1>0, <1>9, EventEffect
  <1>10. CASE EndDispatch
    BY <1>0, <1>10 DEF EndDispatch
  <1>11. CASE DrainLock
    BY <1>0, <1>11 DEF DrainLock
  <1>12. CASE HandlePending
    <2>1. pc[Owner] = "drain" /\ (pc' = pc \/ Crash)
      BY <1>12 DEF HandlePending, HandleAdd, HandleRemove
    <2> QED
      BY <1>0, <2>1 DEF Crash
  <1>13. CASE DrainEnd
    BY <1>0, <1>13 DEF DrainEnd
  <1>14. CASE Clear
    BY <1>14 DEF Clear
  <1>15. CASE UNCHANGED vars
    BY <1>15 DEF vars, loopVars
  <1> QED
    BY <1>1, <1>2, <1>3, <1>4, <1>5, <1>6, <1>7, <1>8, <1>9, <1>10, <1>11,
       <1>12, <1>13, <1>14, <1>15
       DEF Next, PosterNext, OwnerRun, Handle, Threads

(* The wakeup is never lost: while the owner sleeps in epoll_wait, every   *)
(* request on the list has a byte in the socket pair or a thread about to  *)
(* write one (event_loop.c:152-157), for any number of posting threads.    *)
THEOREM NoWakeupIsLost == SafeSpec => []NoLostWakeup
  <1>1. Init => NoLostWakeup
    BY DEF Init, NoLostWakeup
  <1> QED
    BY <1>1, TypeInit, TypeStep, WakeupStep, PTL DEF SafeSpec
-----------------------------------------------------------------------------
(***************************************************************************)
(* EventLoop implements ChannelRegistry.                                   *)
(***************************************************************************)
Unhandled == SubSeq(pending, cursor, Len(pending))

LEMMA SubmitStep ==
    ASSUME TypeInv, NEW r \in Requests,
           pending' = Append(pending, r), UNCHANGED <<cursor, map>>
    PROVE  Registry!Next
  <1>1. /\ pending \in Seq(Requests) /\ Len(pending) \in Nat
        /\ cursor \in 1..(Len(pending) + 1)
    BY LenProperties DEF TypeInv, TypeOK
  <1>2. /\ pending' \in Seq(Requests)
        /\ Len(pending') = Len(pending) + 1
        /\ pending'[Len(pending) + 1] = r
        /\ \A i \in 1..Len(pending) : pending'[i] = pending[i]
    BY <1>1, AppendProperties
  <1>3. Unhandled' = Append(SubSeq(pending', cursor, Len(pending)), r)
    <2>1. cursor \in 1..Len(pending') /\ Len(pending) \in (cursor - 1)..(Len(pending') - 1)
      BY <1>1, <1>2
    <2>2. SubSeq(pending', cursor, Len(pending) + 1)
              = Append(SubSeq(pending', cursor, Len(pending)), pending'[Len(pending) + 1])
      BY <1>2, <2>1, SubSeqRecursiveSecond
    <2> QED
      BY <1>2, <2>2 DEF Unhandled
  <1>4. SubSeq(pending', cursor, Len(pending)) = SubSeq(pending, cursor, Len(pending))
    BY <1>1, <1>2
  <1> QED
    BY <1>3, <1>4
       DEF Registry!Next, Registry!Submit, Registry!Requests, Requests, Unhandled
LEMMA ApplyStep ==
    ASSUME TypeInv, HandlePending
    PROVE  Registry!Next
  <1>1. PICK r \in Requests : r = pending[cursor] /\ cursor \in 1..Len(pending)
    <2>1. cursor \in 1..Len(pending) /\ pending \in Seq(Requests)
      BY DEF TypeInv, TypeOK, HandlePending
    <2> QED
      BY <2>1, ElementOfSeq
  <1>2. /\ pending \in Seq(Requests) /\ Len(pending) \in Nat
        /\ pending' = pending /\ cursor' = cursor + 1
    BY LenProperties DEF TypeInv, TypeOK, HandlePending
  <1>3. /\ Head(Unhandled) = r
        /\ Unhandled' = Tail(Unhandled)
        /\ Unhandled # <<>>
    <2>1. /\ Head(Unhandled) = r
          /\ Tail(Unhandled) = SubSeq(pending, cursor + 1, Len(pending))
      BY <1>1, <1>2, HeadTailOfSubSeq DEF Unhandled
    <2>2. Len(Unhandled) = Len(pending) - cursor + 1
      BY <1>1, <1>2, SubSeqProperties, ElementOfSeq DEF Unhandled
    <2>3. Unhandled # <<>>
      BY <1>1, <1>2, <2>2
    <2> QED
      BY <1>2, <2>1, <2>3 DEF Unhandled
  <1> DEFINE c == r.channel
             fd == FdOf[c]
  <1>4. /\ c \in Channels
        /\ r.type \in {"add", "remove"}
        /\ fd \in Int
        /\ fd >= 0 => fd \in Fds
    BY ConstantFacts DEF Requests
  <1>5. map \in [Fds -> Channels \cup {NULL}] /\ (\A f \in Fds : map[f] # NULL => f < n_channel)
        /\ n_channel \in Nat
    BY ConstantFacts DEF TypeInv, TypeOK
  <1>6. map' = IF fd < 0 THEN map
               ELSE [map EXCEPT ![fd] = IF r.type = "remove" THEN NULL
                                        ELSE IF @ = NULL THEN c ELSE @]
    <2>1. CASE r.type = "add"
      <3>1. HandleAdd(c)
        BY <1>1, <2>1 DEF HandlePending
      <3> QED
        BY <1>4, <1>5, <2>1, <3>1 DEF HandleAdd, tableVars
    <2>2. CASE r.type = "remove"
      <3>1. HandleRemove(c)
        BY <1>1, <2>2 DEF HandlePending
      <3> QED
        BY <1>4, <1>5, <2>2, <3>1 DEF HandleRemove, tableVars
    <2> QED
      BY <1>4, <2>1, <2>2
  <1> QED
    BY <1>3, <1>6 DEF Registry!Next, Registry!Apply, Registry!Effect, Unhandled

(* Handling the whole list leaves nothing to forget.                       *)
LEMMA ForgetStep ==
    ASSUME TypeInv, MutexInv, Clear
    PROVE  Unhandled' = Unhandled /\ map' = map
  <1>1. /\ cursor > Len(pending) /\ cursor' = 1 /\ pending' = <<>>
        /\ cursor \in Nat /\ Len(pending) \in Nat
    BY LenProperties DEF TypeInv, TypeOK, MutexInv, Clear
  <1>2. Unhandled = <<>>
    BY <1>1, SubSeqEmpty DEF Unhandled
  <1>3. Unhandled' = <<>>
    BY <1>1, SubSeqEmpty DEF Unhandled
  <1> QED
    BY <1>2, <1>3 DEF Clear, tableVars

LEMMA RegistryInit == Init => Registry!Init
  <1> SUFFICES ASSUME Init PROVE Registry!Init
    OBVIOUS
  <1>1. Unhandled = <<>>
    BY DEF Init, Unhandled
  <1> QED
    BY <1>1 DEF Init, Registry!Init, Unhandled, Registry!Fds, Fds, WakeFd

LEMMA RegistryNext == TypeInv /\ MutexInv /\ [Next]_vars => [Registry!Next]_(Registry!vars)
  <1> SUFFICES ASSUME TypeInv, MutexInv, [Next]_vars PROVE [Registry!Next]_(Registry!vars)
    OBVIOUS
  <1> DEFINE Same == Unhandled' = Unhandled /\ map' = map
  <1>1. UNCHANGED <<pending, cursor, map>> => Same
    BY DEF Unhandled
  <1>2. ASSUME Start PROVE Same
    BY <1>1, <1>2 DEF Start, loopVars, tableVars
  <1>3. ASSUME NEW t \in Posters, Post(t) PROVE Same
    BY <1>1, <1>3 DEF Post, loopVars, tableVars
  <1>4. ASSUME NEW t \in Threads, Lock(t) PROVE Same
    BY <1>1, <1>4 DEF Lock, tableVars
  <1>5. ASSUME NEW t \in Threads, AppendRequest(t) PROVE Same \/ Registry!Next
    <2>1. req[t] \in Requests
      BY DEF TypeInv, TypeOK
    <2>2. UNCHANGED <<cursor, map>>
      BY <1>5 DEF AppendRequest, tableVars
    <2>3. CASE UNCHANGED pending
      BY <1>1, <2>2, <2>3
    <2>4. CASE pending' = Append(pending, req[t])
      BY <2>1, <2>2, <2>4, SubmitStep
    <2> QED
      BY <1>5, <2>3, <2>4 DEF AppendRequest, PushBack
  <1>6. ASSUME NEW t \in Posters, Wakeup(t) PROVE Same
    BY <1>1, <1>6 DEF Wakeup, loopVars, tableVars
  <1>7. ASSUME EpollWait PROVE Same
    BY <1>1, <1>7 DEF EpollWait, loopVars, tableVars
  <1>8. ASSUME NEW fd \in Fds, CloseOnError(fd) PROVE Same
    BY <1>1, <1>8 DEF CloseOnError, loopVars
  <1>9. ASSUME NEW fd \in Fds, ReadEvent(fd) PROVE Same
    BY <1>1, <1>9, EventEffect DEF loopVars, tableVars
  <1>10. ASSUME EndDispatch PROVE Same
    BY <1>1, <1>10 DEF EndDispatch, loopVars, tableVars
  <1>11. ASSUME DrainLock PROVE Same
    BY <1>1, <1>11 DEF DrainLock, tableVars
  <1>12. CASE HandlePending
    BY <1>12, ApplyStep
  <1>13. ASSUME DrainEnd PROVE Same
    BY <1>1, <1>13 DEF DrainEnd, loopVars, tableVars
  <1>14. ASSUME Clear PROVE Same
    BY <1>14, ForgetStep
  <1>15. ASSUME UNCHANGED vars PROVE Same
    BY <1>1, <1>15 DEF vars, loopVars, tableVars
  <1> QED
    BY <1>2, <1>3, <1>4, <1>5, <1>6, <1>7, <1>8, <1>9, <1>10, <1>11, <1>12,
       <1>13, <1>14, <1>15
       DEF Next, PosterNext, OwnerRun, Handle, Threads, Registry!vars, Unhandled

(* The loop's mutex, list and wakeup implement ChannelRegistry: every      *)
(* request takes effect once, in the order of the appends.                 *)
THEOREM LoopImplementsRegistry == SafeSpec => RegistryStep
  BY TypeInit, TypeStep, MutexInit, MutexStep, RegistryInit, RegistryNext, PTL
     DEF SafeSpec, RegistryStep, Registry!SafeSpec
-----------------------------------------------------------------------------
(***************************************************************************)
(* The assertion of channel_event_activate, and the channel an event       *)
(* reaches.                                                                *)
(***************************************************************************)

(* Whatever epoll watches or has reported has in the map the channel of    *)
(* the connection that holds the descriptor; every mapped channel has been *)
(* made, for the descriptor it is under.                                   *)
Mapped ==
    /\ map[WakeFd] = Wake /\ holder[WakeFd] = Wake
    /\ \A fd \in Fds : map[fd] # NULL => FdOf[map[fd]] = fd /\ events[map[fd]] # {}
    /\ \A fd \in Fds : interest[fd] # NULL \/ batch[fd] # {} =>
          map[fd] # NULL /\ map[fd] = holder[fd]

Removable(c) ==
    /\ FdOf[c] \in Fds \ {WakeFd}
    /\ batch[FdOf[c]] = {}
    /\ map[FdOf[c]] # NULL

RemovesAt(i) == i \in cursor..Len(pending) /\ pending[i].type = "remove"

(* Only the owner removes, one channel at a time, after that channel's     *)
(* event; the removal is on the list only while the owner handles it.      *)
RemoveInv ==
    /\ pc[Owner] # "crashed"
    /\ \A t \in Posters : req[t].type = "add"
    /\ pc[Owner] \in {"lock", "append"} /\ req[Owner].type = "remove" =>
          Removable(req[Owner].channel)
    /\ \A i \in 1..Len(pending) : RemovesAt(i) =>
          pc[Owner] \in {"drain_lock", "drain"} /\ Removable(pending[i].channel)
    /\ \A i, j \in 1..Len(pending) : RemovesAt(i) /\ RemovesAt(j) => i = j

(* The channel of an add holds its descriptor from the accept until the    *)
(* request is handled, and is not in the map before.                       *)
Coming(c) ==
    /\ events[c] # {}
    /\ FdOf[c] \in Fds => holder[FdOf[c]] = c /\ map[FdOf[c]] # c

AddsAt(i) == i \in cursor..Len(pending) /\ pending[i].type = "add"

Adding(t) == pc[t] \in {"lock", "append"} /\ req[t].type = "add"

(* No channel is asked for twice.                                          *)
AddInv ==
    /\ \A i \in 1..Len(pending) : AddsAt(i) => Coming(pending[i].channel)
    /\ \A t \in Threads : Adding(t) => Coming(req[t].channel)
    /\ \A i, j \in 1..Len(pending) :
          AddsAt(i) /\ AddsAt(j) /\ pending[i].channel = pending[j].channel => i = j
    /\ \A i \in 1..Len(pending), t \in Threads :
          AddsAt(i) /\ Adding(t) => pending[i].channel # req[t].channel
    /\ \A t, u \in Threads :
          Adding(t) /\ Adding(u) /\ req[t].channel = req[u].channel => t = u

LoopInv == Mapped /\ RemoveInv /\ AddInv

LEMMA LoopInit == Init => LoopInv
  <1> SUFFICES ASSUME Init PROVE LoopInv
    OBVIOUS
  <1>1. Mapped
    BY ConstantFacts DEF Init, Mapped, WakeFd
  <1>2. RemoveInv
    BY ConstantFacts, ThreadsAssumption DEF Init, RemoveInv, RemovesAt, Threads
  <1>3. AddInv
    BY DEF Init, AddInv, AddsAt, Adding
  <1> QED
    BY <1>1, <1>2, <1>3 DEF LoopInv

(* What a step keeps that makes no channel and applies no request.         *)
LEMMA RemovesKept ==
    ASSUME UNCHANGED <<pending, cursor, map, batch>>
    PROVE  /\ \A c : Removable(c)' <=> Removable(c)
           /\ \A i : RemovesAt(i)' <=> RemovesAt(i)
  BY DEF Removable, RemovesAt

LEMMA RequestChannels ==
    ASSUME TypeInv
    PROVE  /\ \A i \in 1..Len(pending) : pending[i].channel \in Channels
           /\ \A t \in Threads : req[t].channel \in Channels
  <1>1. pending \in Seq(Requests) /\ req \in [Threads -> Requests]
    BY DEF TypeInv, TypeOK
  <1>2. \A i \in 1..Len(pending) : pending[i] \in Requests
    BY <1>1, ElementOfSeq
  <1> QED
    BY <1>1, <1>2 DEF Requests

LEMMA AddsKept ==
    ASSUME TypeInv, AddInv,
           UNCHANGED <<pending, cursor, map, holder>>,
           \A c \in Channels : events[c] # {} => events'[c] # {},
           \A t \in Threads : Adding(t)' => Adding(t) /\ req'[t] = req[t]
    PROVE  AddInv'
  <1>1. /\ \A i \in 1..Len(pending) : pending[i].channel \in Channels
        /\ \A t \in Threads : req[t].channel \in Channels
    BY RequestChannels
  <1>2. \A c \in Channels : Coming(c) => Coming(c)'
    BY DEF Coming
  <1>3. \A i : AddsAt(i)' <=> AddsAt(i)
    BY DEF AddsAt
  <1> QED
    BY <1>1, <1>2, <1>3 DEF AddInv

LEMMA MappedKept ==
    ASSUME TypeInv, Mapped,
           UNCHANGED <<map, interest, holder>>,
           \A fd \in Fds : batch'[fd] = {} \/ batch'[fd] = batch[fd],
           \A c \in Channels : events[c] # {} => events'[c] # {}
    PROVE  Mapped'
  BY DEF Mapped, TypeInv, TypeOK

(* A new channel gets a descriptor that no channel holds, so that no other *)
(* request is for it and nothing is watched or reported under it.          *)
LEMMA CreateKeeps ==
    ASSUME TypeInv, Mapped, AddInv, NEW t \in Threads, NEW c \in Channels,
           Create(c), Request(t, "add", c), pc[t] \notin {"lock", "append"},
           UNCHANGED <<pending, cursor, map, interest>>,
           \A fd \in Fds : batch'[fd] = {} \/ batch'[fd] = batch[fd]
    PROVE  Mapped' /\ AddInv'
  <1> USE ConstantFacts
  <1>0. /\ pc \in [Threads -> Labels] /\ req \in [Threads -> Requests]
        /\ events \in [Channels -> Interests]
        /\ holder \in [Fds -> Channels \cup {NULL}]
        /\ map \in [Fds -> Channels \cup {NULL}]
        /\ \A i \in 1..Len(pending) : pending[i].channel \in Channels
        /\ \A u \in Threads : req[u].channel \in Channels
    BY RequestChannels DEF TypeInv, TypeOK
  <1>1. /\ events[c] = {} /\ events'[c] # {}
        /\ \A d \in Channels \ {c} : events'[d] = events[d]
        /\ FdOf[c] \in Fds => holder[FdOf[c]] = NULL /\ holder'[FdOf[c]] = c
        /\ \A fd \in Fds \ {FdOf[c]} : holder'[fd] = holder[fd]
    BY <1>0 DEF Create
  <1>2. FdOf[c] # WakeFd
    BY <1>1 DEF Mapped
  <1>3. \A fd \in Fds : map[fd] # c
    BY <1>1 DEF Mapped
  <1>4. \A d \in Channels : Coming(d) => d # c /\ Coming(d)'
    BY <1>1 DEF Coming
  <1>5. Coming(c)'
    BY <1>1, <1>3 DEF Coming
  <1>6. Mapped'
    <2>1. \A fd \in Fds : map[fd] # NULL => events'[map[fd]] # {}
      BY <1>0, <1>1 DEF Mapped
    <2>2. ASSUME NEW fd \in Fds, interest[fd] # NULL \/ batch'[fd] # {}
          PROVE  map[fd] # NULL /\ map[fd] = holder'[fd]
      <3>1. map[fd] # NULL /\ map[fd] = holder[fd]
        BY <2>2 DEF Mapped
      <3> QED
        BY <1>1, <3>1
    <2> QED
      BY <1>1, <1>2, <2>1, <2>2 DEF Mapped
  <1>7. /\ Adding(t)' /\ req'[t].channel = c
        /\ \A u \in Threads \ {t} : (Adding(u)' <=> Adding(u)) /\ req'[u] = req[u]
        /\ ~Adding(t)
    BY <1>0 DEF Request, Goto, Adding
  <1>8. \A i : AddsAt(i)' <=> AddsAt(i)
    BY DEF AddsAt
  <1>9. AddInv'
    <2>1. \A i \in 1..Len(pending) :
             AddsAt(i) => Coming(pending[i].channel)' /\ pending[i].channel # c
      BY <1>0, <1>4 DEF AddInv
    <2>2. \A u \in Threads \ {t} :
             Adding(u) => Coming(req[u].channel)' /\ req[u].channel # c
      <3>1. \A u \in Threads \ {t} : Adding(u) => Coming(req[u].channel)
        BY DEF AddInv
      <3> QED
        BY <1>0, <1>4, <1>7, <3>1 DEF Coming
    <2>3. \A u \in Threads : Adding(u)' => Coming(req[u].channel)'
      BY <1>5, <1>7, <2>2 DEF Coming
    <2>4. \A i \in 1..Len(pending), u \in Threads :
             AddsAt(i) /\ Adding(u)' => pending[i].channel # req'[u].channel
      BY <1>7, <2>1 DEF AddInv
    <2>5. \A u, v \in Threads :
             Adding(u)' /\ Adding(v)' /\ req'[u].channel = req'[v].channel => u = v
      BY <1>7, <2>2 DEF AddInv
    <2>6. \A i, j \in 1..Len(pending) :
             AddsAt(i) /\ AddsAt(j) /\ pending[i].channel = pending[j].channel => i = j
      BY DEF AddInv
    <2> QED
      BY <1>8, <2>1, <2>3, <2>4, <2>5, <2>6 DEF AddInv
  <1> QED
    BY <1>6, <1>9

LEMMA AppendKeeps ==
    ASSUME TypeInv, MutexInv, LoopInv, NEW t \in Threads, AppendRequest(t)
    PROVE  LoopInv'
  <1> USE ConstantFacts, ThreadsAssumption DEF LoopInv
  <1>0. /\ pc \in [Threads -> Labels] /\ Posters \subseteq Threads
        /\ req[t] \in Requests
        /\ pending \in Seq(Requests) /\ Len(pending) \in Nat
        /\ cursor \in 1..(Len(pending) + 1)
    BY LenProperties DEF TypeInv, TypeOK, Threads
  <1>1. /\ pc[t] = "append"
        /\ pending' = Append(pending, req[t])
        /\ pc' = [pc EXCEPT ![t] = IF t = Owner THEN "drain_lock" ELSE "wake"]
        /\ UNCHANGED <<cursor, tableVars, channelVars, batch, req>>
    BY DEF AppendRequest, AfterAppend, PushBack, MutexInv, Goto
  <1>2. /\ Len(pending') = Len(pending) + 1
        /\ \A i \in 1..Len(pending) : pending'[i] = pending[i]
        /\ pending'[Len(pending) + 1] = req[t]
    BY <1>0, <1>1, AppendProperties
  <1>3. Mapped'
    BY <1>1 DEF Mapped, tableVars, channelVars
  <1>4. \A c : (Removable(c) <=> Removable(c)') /\ (Coming(c) <=> Coming(c)')
    BY <1>1 DEF Removable, Coming, tableVars, channelVars
  <1>5. RemoveInv'
    <2>1. CASE t = Owner
      <3>1. \A i \in 1..Len(pending) : ~RemovesAt(i)
        BY <1>1, <2>1 DEF RemoveInv
      <3>2. \A i \in 1..Len(pending') : RemovesAt(i)' =>
               i = Len(pending) + 1 /\ req[t].type = "remove"
        BY <1>0, <1>1, <1>2, <3>1 DEF RemovesAt
      <3>3. pc'[Owner] = "drain_lock" /\ req' = req
        BY <1>0, <1>1, <2>1
      <3> QED
        BY <1>0, <1>1, <1>2, <1>4, <2>1, <3>2, <3>3 DEF RemoveInv
    <2>2. CASE t # Owner
      <3>1. t \in Posters /\ req[t].type = "add"
        BY <2>2 DEF Threads, RemoveInv
      <3>2. \A i \in 1..Len(pending') : RemovesAt(i)' =>
               i \in 1..Len(pending) /\ RemovesAt(i) /\ pending'[i] = pending[i]
        BY <1>0, <1>1, <1>2, <3>1 DEF RemovesAt
      <3>3. pc'[Owner] = pc[Owner] /\ req' = req
        BY <1>0, <1>1, <2>2
      <3>4. \A i \in 1..Len(pending') : RemovesAt(i)' =>
               pc'[Owner] \in {"drain_lock", "drain"} /\ Removable(pending[i].channel)
        BY <3>2, <3>3 DEF RemoveInv
      <3> QED
        BY <1>0, <1>4, <3>2, <3>3, <3>4 DEF RemoveInv
    <2> QED
      BY <2>1, <2>2
  <1>6. AddInv'
    <2>1. /\ req' = req
          /\ \A u \in Threads : Adding(u)' => Adding(u) /\ u # t
      BY <1>0, <1>1 DEF Adding
    <2>2. \A i \in 1..Len(pending') : AddsAt(i)' =>
             \/ i \in 1..Len(pending) /\ AddsAt(i) /\ pending'[i] = pending[i]
             \/ i = Len(pending) + 1 /\ pending'[i] = req[t] /\ Adding(t)
      BY <1>0, <1>1, <1>2 DEF AddsAt, Adding
    <2>3. \A i \in 1..Len(pending') : AddsAt(i)' => Coming(pending'[i].channel)
      BY <2>2 DEF AddInv
    <2>4. \A i, j \in 1..Len(pending') :
             AddsAt(i)' /\ AddsAt(j)' /\ pending'[i].channel = pending'[j].channel => i = j
      BY <2>2 DEF AddInv
    <2>5. \A i \in 1..Len(pending'), u \in Threads :
             AddsAt(i)' /\ Adding(u)' => pending'[i].channel # req'[u].channel
      BY <2>1, <2>2 DEF AddInv
    <2>6. \A u \in Threads : Adding(u)' => Coming(req'[u].channel)
      BY <2>1 DEF AddInv
    <2>7. \A u, v \in Threads :
             Adding(u)' /\ Adding(v)' /\ req'[u].channel = req'[v].channel => u = v
      BY <2>1 DEF AddInv
    <2>8. \A c : Coming(c) => Coming(c)'
      BY <1>4
    <2>9. \A i \in 1..Len(pending') : AddsAt(i)' => Coming(pending[i].channel)'
      BY <2>3, <2>8 DEF Coming
    <2>10. \A u \in Threads : Adding(u)' => Coming(req[u].channel)'
      BY <2>6, <2>8 DEF Coming
    <2> QED
      BY <2>4, <2>5, <2>7, <2>9, <2>10 DEF AddInv
  <1> QED
    BY <1>3, <1>5, <1>6

(* A read callback asks for one thing at most, and its removal is of the   *)
(* channel it belongs to.                                                  *)
LEMMA EventKeeps ==
    ASSUME TypeInv, LoopInv, NEW fd \in Fds, ReadEvent(fd)
    PROVE  LoopInv'
  <1> USE ConstantFacts, ThreadsAssumption DEF LoopInv, Goto
  <1>0. /\ pc \in [Threads -> Labels] /\ req \in [Threads -> Requests]
        /\ events \in [Channels -> Interests]
        /\ batch \in [Fds -> EventSets]
        /\ map \in [Fds -> Channels \cup {NULL}]
        /\ Posters \subseteq Threads /\ Owner \notin Posters
    BY DEF TypeInv, TypeOK, Threads
  <1>1. /\ pc[Owner] = "dispatch"
        /\ batch[fd] # {}
        /\ batch' = [batch EXCEPT ![fd] = {}]
        /\ Activate(fd)
        /\ UNCHANGED <<loopVars, tableVars>>
    BY DEF ReadEvent
  <1>2. batch'[fd] = {} /\ \A f \in Fds \ {fd} : batch'[f] = batch[f]
    BY <1>0, <1>1
  <1>3. map[fd] # NULL /\ FdOf[map[fd]] = fd /\ map[fd] \in Channels
    BY <1>0, <1>1 DEF Mapped
  <1>4. UNCHANGED <<pending, cursor, map, interest>>
    BY <1>1 DEF loopVars, tableVars
  <1>5. \A i \in 1..Len(pending) : ~RemovesAt(i)
    BY <1>1 DEF RemoveInv
  <1>6. \A i : RemovesAt(i)' <=> RemovesAt(i)
    BY <1>4 DEF RemovesAt
  <1>7. map[fd] # Wake => Removable(map[fd])'
    BY <1>0, <1>2, <1>3, <1>4 DEF Removable
  <1> DEFINE Asked == /\ pc'[Owner] \in {"dispatch", "lock", "undefined"}
                      /\ \A t \in Posters : req'[t] = req[t]
                      /\ pc'[Owner] = "lock" =>
                            \/ req'[Owner].type = "add"
                            \/ req'[Owner].channel = map[fd] /\ map[fd] # Wake
  <1>8. Asked => RemoveInv'
    <2> SUFFICES ASSUME Asked PROVE RemoveInv'
      OBVIOUS
    <2>1. pc'[Owner] = "lock" /\ req'[Owner].type = "remove" =>
             (Removable(req[Owner].channel))'
      BY <1>3, <1>4, <1>7 DEF Removable
    <2>2. pc'[Owner] \notin {"append", "crashed"} /\ \A t \in Posters : req'[t].type = "add"
      BY DEF RemoveInv
    <2> QED
      BY <1>4, <1>5, <1>6, <2>1, <2>2 DEF RemoveInv
  <1>9. CASE \/ Return
             \/ map[fd] = Wake /\ HandleWakeup
             \/ CloseConnection(map[fd])
             \/ SwitchWrite(map[fd])
    <2>1. /\ holder' = holder
          /\ \A c \in Channels : events[c] # {} => events'[c] # {}
      BY <1>0, <1>3, <1>9
         DEF Return, HandleWakeup, CloseConnection, SwitchWrite, channelVars
    <2>2. \A t \in Threads : Adding(t)' => Adding(t) /\ req'[t] = req[t]
      <3>1. \A t \in Threads : Adding(t)' => t # Owner
        BY <1>0, <1>9
           DEF Return, HandleWakeup, CloseConnection, SwitchWrite, Request, Adding
      <3>2. \A t \in Threads \ {Owner} : pc'[t] = pc[t] /\ req'[t] = req[t]
        BY <1>0, <1>9
           DEF Return, HandleWakeup, CloseConnection, SwitchWrite, Request
      <3> QED
        BY <3>1, <3>2 DEF Adding
    <2>3. AddInv'
      BY <1>4, <2>1, <2>2, AddsKept
    <2>4. Mapped'
      BY <1>2, <1>4, <2>1, MappedKept
    <2>5. Asked
      BY <1>0, <1>3, <1>9
         DEF Return, HandleWakeup, CloseConnection, SwitchWrite, Request
    <2> QED
      BY <1>8, <2>3, <2>4, <2>5
  <1>10. CASE AcceptHere(map[fd])
    <2>1. PICK d \in Connections : Create(d) /\ Request(Owner, "add", d)
      BY <1>10 DEF AcceptHere
    <2>2. Mapped' /\ AddInv'
      BY <1>1, <1>2, <1>4, <2>1, CreateKeeps
    <2>3. Asked
      BY <1>0, <2>1 DEF Request
    <2> QED
      BY <1>8, <2>2, <2>3
  <1> QED
    BY <1>1, <1>3, <1>9, <1>10 DEF Activate, ReadCallback

(* A handled add makes its channel the watched and mapped one of a         *)
(* descriptor it holds; a handled removal ends both.                       *)
LEMMA HandleKeeps ==
    ASSUME TypeInv, LoopInv, HandlePending
    PROVE  LoopInv'
  <1> USE ConstantFacts DEF LoopInv
  <1>1. PICK r \in Requests : /\ r = pending[cursor]
                              /\ cursor \in 1..Len(pending)
    <2>1. cursor \in 1..Len(pending) /\ pending \in Seq(Requests)
      BY DEF TypeInv, TypeOK, HandlePending
    <2> QED
      BY <2>1, ElementOfSeq
  <1> DEFINE c == r.channel
             fd == FdOf[c]
  <1>2. /\ c \in Channels /\ fd \in Int
        /\ fd >= 0 <=> fd \in Fds
        /\ events[c] # NULL
        /\ map \in [Fds -> Channels \cup {NULL}]
        /\ interest \in [Fds -> {NULL} \cup Interests]
        /\ n_channel \in Nat
        /\ \A i \in 1..Len(pending) : pending[i].channel \in Channels
        /\ \A t \in Threads : req[t].channel \in Channels
    <2>1. c \in Channels /\ events[c] \in Interests
      BY <1>1 DEF TypeInv, TypeOK, Requests
    <2>2. fd \in Int /\ (fd >= 0 <=> fd \in Fds)
      BY <2>1
    <2>3. events[c] # NULL
      BY <2>1, ChannelsAssumption
    <2>4. n_channel \in Nat
      BY DEF TypeInv, TypeOK
    <2> QED
      BY <2>1, <2>2, <2>3, <2>4, RequestChannels DEF TypeInv, TypeOK
  <1>3. /\ pc[Owner] = "drain"
        /\ cursor' = cursor + 1
        /\ UNCHANGED <<pending, channelVars, batch, req>>
    BY DEF HandlePending
  <1>4. \A i \in 1..Len(pending) :
           /\ RemovesAt(i)' => RemovesAt(i) /\ i # cursor
           /\ AddsAt(i)' => AddsAt(i) /\ i # cursor
    BY <1>1, <1>3 DEF RemovesAt, AddsAt
  <1> HIDE DEF c, fd
  <1> DEFINE Kept == /\ UNCHANGED pc
                     /\ Mapped'
                     /\ \A i \in 1..Len(pending) : RemovesAt(i)' =>
                           Removable(pending[i].channel)'
                     /\ \A d \in Channels : Coming(d) =>
                           Coming(d)' \/ (d = c /\ AddsAt(cursor))
  <1>5. ASSUME UNCHANGED <<map, interest, pc>> PROVE Kept
    <2>1. Mapped'
      BY <1>3, <1>5 DEF Mapped, channelVars
    <2>2. \A d : (Removable(d) => Removable(d)') /\ (Coming(d) => Coming(d)')
      BY <1>3, <1>5 DEF Removable, Coming, channelVars
    <2>3. \A i \in 1..Len(pending) : RemovesAt(i)' => Removable(pending[i].channel)
      BY <1>4 DEF RemoveInv
    <2>4. \A i \in 1..Len(pending) : RemovesAt(i)' => Removable(pending[i].channel)'
      BY <1>3, <2>2, <2>3 DEF Removable
    <2> QED
      BY <1>5, <2>1, <2>2, <2>4
  <1>6. ASSUME r.type = "add", fd \in Fds, map[fd] = NULL,
               map' = [map EXCEPT ![fd] = c], EpollAdd(fd, c), pc' = pc
        PROVE  Kept
    <2>1. AddsAt(cursor) /\ pending[cursor].channel = c
      BY <1>1, <1>6 DEF AddsAt, c
    <2>2. events[c] # {} /\ holder[fd] = c
      BY <1>1, <1>6, <2>1 DEF AddInv, Coming, fd
    <2>3. \A f \in Fds : map'[f] # NULL <=> (map[f] # NULL \/ f = fd)
      BY <1>2, <1>6
    <2>4. Mapped'
      <3>1. /\ map'[fd] = c /\ \A f \in Fds \ {fd} : map'[f] = map[f]
            /\ \A f \in Fds \ {fd} : interest'[f] = interest[f]
        BY <1>2, <1>6 DEF EpollAdd
      <3>2. holder' = holder /\ events' = events /\ batch' = batch
        BY <1>3 DEF channelVars
      <3>3. FdOf[c] = fd
        BY DEF fd
      <3>4. fd # WakeFd
        BY <1>6 DEF Mapped
      <3>5. \A f \in Fds : map'[f] # NULL => FdOf[map'[f]] = f /\ events'[map'[f]] # {}
        BY <2>2, <3>1, <3>2, <3>3 DEF Mapped
      <3>6. \A f \in Fds : interest'[f] # NULL \/ batch'[f] # {} =>
               map'[f] # NULL /\ map'[f] = holder'[f]
        BY <1>2, <2>2, <3>1, <3>2 DEF Mapped
      <3> QED
        BY <3>1, <3>2, <3>4, <3>5, <3>6 DEF Mapped
    <2>5. \A d : Removable(d) => Removable(d)'
      BY <1>3, <2>3 DEF Removable
    <2>6. \A i \in 1..Len(pending) : RemovesAt(i)' => Removable(pending[i].channel)
      BY <1>4 DEF RemoveInv
    <2>7. \A i \in 1..Len(pending) : RemovesAt(i)' => Removable(pending[i].channel)'
      BY <1>3, <2>5, <2>6 DEF Removable
    <2>8. ASSUME NEW d \in Channels, Coming(d), d # c PROVE Coming(d)'
      BY <1>2, <1>3, <1>6, <2>8 DEF Coming, channelVars
    <2> QED
      BY <1>6, <2>1, <2>4, <2>7, <2>8
  <1>7. ASSUME r.type = "remove" PROVE Kept
    <2>1. RemovesAt(cursor)
      BY <1>1, <1>7 DEF RemovesAt
    <2>2. Removable(c)
      BY <1>1, <2>1 DEF RemoveInv, c
    <2>3. \A i \in 1..Len(pending) : ~RemovesAt(i)'
      BY <1>1, <1>4, <2>1 DEF RemoveInv
    <2>4. HandleRemove(c)
      BY <1>1, <1>7 DEF HandlePending, c
    <2>5. /\ fd \in Fds \ {WakeFd} /\ map[fd] # NULL /\ batch[fd] = {}
          /\ 0 <= fd /\ fd < n_channel
      BY <1>2, <2>2 DEF Removable, TypeInv, TypeOK, fd
    <2>6. /\ interest' = [interest EXCEPT ![fd] = NULL]
          /\ map' = [map EXCEPT ![fd] = NULL]
          /\ pc' = pc
      <3>1. ~(fd < 0 \/ fd >= n_channel)
        BY <1>2, <2>5
      <3> QED
        BY <2>4, <2>5, <3>1 DEF HandleRemove, EpollDel, fd
    <2>7. Mapped'
      BY <1>2, <1>3, <2>5, <2>6 DEF Mapped, channelVars
    <2>8. \A d \in Channels : Coming(d) => Coming(d)'
      BY <1>2, <1>3, <2>5, <2>6 DEF Coming, channelVars
    <2> QED
      BY <2>3, <2>6, <2>7, <2>8
  <1>8. Kept
    <2>1. ASSUME r.type = "add" PROVE Kept
      <3>1. HandleAdd(c)
        BY <1>1, <2>1 DEF HandlePending, c
      <3>2. \/ UNCHANGED <<map, interest, pc>>
            \/ /\ fd \in Fds /\ map[fd] = NULL /\ map' = [map EXCEPT ![fd] = c]
               /\ EpollAdd(fd, c) /\ pc' = pc
        BY <1>2, <3>1 DEF HandleAdd, tableVars, fd
      <3> QED
        BY <1>5, <1>6, <2>1, <3>2
    <2> QED
      BY <1>7, <2>1 DEF Requests
  <1>9. RemoveInv'
    BY <1>3, <1>4, <1>8 DEF RemoveInv
  <1>10. AddInv'
    <2>1. \A t : Adding(t)' <=> Adding(t)
      BY <1>3, <1>8 DEF Adding
    <2>2. \A i \in 1..Len(pending) : AddsAt(i)' => Coming(pending[i].channel)'
      <3>1. SUFFICES ASSUME NEW i \in 1..Len(pending), AddsAt(i)', NEW d \in Channels,
                            d = pending[i].channel
                     PROVE  Coming(d)'
        BY <1>2, <1>3 DEF Coming
      <3>2. AddsAt(i) /\ i # cursor /\ Coming(d)
        BY <1>4, <3>1 DEF AddInv
      <3>3. AddsAt(cursor) => d # c
        BY <1>1, <3>1, <3>2 DEF AddInv, c
      <3> QED
        BY <1>8, <3>2, <3>3
    <2>3. \A t \in Threads : Adding(t) => Coming(req[t].channel)'
      <3>1. SUFFICES ASSUME NEW t \in Threads, Adding(t), NEW d \in Channels,
                            d = req[t].channel
                     PROVE  Coming(d)'
        BY <1>2, <1>3 DEF Coming
      <3>2. Coming(d)
        BY <3>1 DEF AddInv
      <3>3. AddsAt(cursor) => d # c
        BY <1>1, <3>1 DEF AddInv, c
      <3> QED
        BY <1>8, <3>2, <3>3
    <2> QED
      BY <1>3, <1>4, <2>1, <2>2, <2>3 DEF AddInv
  <1> QED
    BY <1>8, <1>9, <1>10

LEMMA LoopStep == TypeInv /\ MutexInv /\ LoopInv /\ [Next]_vars => LoopInv'
  <1> SUFFICES ASSUME TypeInv, MutexInv, LoopInv, [Next]_vars PROVE LoopInv'
    OBVIOUS
  <1> USE ConstantFacts, ThreadsAssumption DEF LoopInv, Goto
  <1>0. /\ pc \in [Threads -> Labels] /\ back \in {"wait", "dispatch"}
        /\ req \in [Threads -> Requests]
        /\ batch \in [Fds -> EventSets]
        /\ interest \in [Fds -> {NULL} \cup Interests]
        /\ holder \in [Fds -> Channels \cup {NULL}]
        /\ Posters \subseteq Threads /\ Owner \notin Posters
    BY DEF TypeInv, TypeOK, Threads
  <1>1. CASE Start
    <2>1. PICK c \in Acceptors : Create(c) /\ Request(Owner, "add", c)
      BY <1>1 DEF Start
    <2>2. UNCHANGED <<pending, cursor, map, interest, batch>> /\ pc[Owner] = "start"
      BY <1>1 DEF Start, tableVars, loopVars
    <2>3. Mapped' /\ AddInv'
      BY <2>1, <2>2, CreateKeeps
    <2>4. /\ pc'[Owner] = "lock" /\ req'[Owner].type = "add"
          /\ \A t \in Posters : req'[t] = req[t]
      BY <1>0, <2>1 DEF Request
    <2>5. RemoveInv'
      BY <2>2, <2>4, RemovesKept DEF RemoveInv
    <2> QED
      BY <2>3, <2>5
  <1>2. ASSUME NEW t \in Posters, Post(t) PROVE LoopInv'
    <2>1. PICK c \in Connections : Create(c) /\ Request(t, "add", c)
      BY <1>2 DEF Post
    <2>2. /\ UNCHANGED <<pending, cursor, map, interest, batch>>
          /\ pc[t] = "idle" /\ t \in Threads
      BY <1>0, <1>2 DEF Post, tableVars, loopVars
    <2>3. Mapped' /\ AddInv'
      BY <2>1, <2>2, CreateKeeps
    <2>4. /\ pc'[Owner] = pc[Owner] /\ req'[Owner] = req[Owner]
          /\ \A u \in Posters : req'[u] = req[u] \/ req'[u].type = "add"
      BY <1>0, <2>1 DEF Request
    <2>5. RemoveInv'
      BY <2>2, <2>4, RemovesKept DEF RemoveInv
    <2> QED
      BY <2>3, <2>5
  <1>3. ASSUME NEW t \in Threads, Lock(t) PROVE LoopInv'
    <2>1. /\ UNCHANGED <<pending, cursor, map, interest, events, holder, batch, req>>
          /\ pc[t] = "lock" /\ pc' = [pc EXCEPT ![t] = "append"]
      BY <1>3 DEF Lock, tableVars, channelVars
    <2>2. Mapped'
      BY <2>1, MappedKept
    <2>3. AddInv'
      BY <1>0, <2>1, AddsKept DEF Adding
    <2>4. RemoveInv'
      BY <1>0, <2>1, RemovesKept DEF RemoveInv
    <2> QED
      BY <2>2, <2>3, <2>4
  <1>4. ASSUME NEW t \in Threads, AppendRequest(t) PROVE LoopInv'
    BY <1>4, AppendKeeps
  <1>5. ASSUME NEW t \in Posters, Wakeup(t) PROVE LoopInv'
    <2>1. /\ UNCHANGED <<pending, cursor, map, interest, events, holder, batch, req>>
          /\ pc' = [pc EXCEPT ![t] = "idle"] /\ t \in Threads
      BY <1>0, <1>5 DEF Wakeup, tableVars, channelVars, loopVars
    <2>2. Mapped'
      BY <2>1, MappedKept
    <2>3. AddInv'
      BY <1>0, <2>1, AddsKept DEF Adding
    <2>4. RemoveInv'
      BY <1>0, <2>1, RemovesKept DEF RemoveInv
    <2> QED
      BY <2>2, <2>3, <2>4
  <1>6. CASE EpollWait
    <2>1. /\ UNCHANGED <<pending, cursor, map, interest, events, holder, req>>
          /\ pc[Owner] = "wait" /\ pc' = [pc EXCEPT ![Owner] = "dispatch"]
      BY <1>6 DEF EpollWait, tableVars, channelVars, loopVars
    <2>2. ASSUME NEW fd \in Fds, batch'[fd] # {}
          PROVE  map[fd] # NULL /\ map[fd] = holder[fd]
      <3>1. Reports(fd) # {}
        BY <1>6, <2>2 DEF EpollWait
      <3> QED
        BY <3>1 DEF Reports, Mapped
    <2>3. Mapped'
      BY <2>1, <2>2 DEF Mapped
    <2>4. AddInv'
      BY <1>0, <2>1, AddsKept DEF Adding
    <2>5. RemoveInv'
      BY <1>0, <2>1 DEF RemoveInv, RemovesAt
    <2> QED
      BY <2>3, <2>4, <2>5
  <1>7. ASSUME NEW fd \in Fds, CloseOnError(fd) PROVE LoopInv'
    <2>1. /\ UNCHANGED <<pending, cursor, map, events, req, pc>>
          /\ pc[Owner] = "dispatch" /\ batch[fd] # {} /\ fd # WakeFd
          /\ interest'[fd] = NULL /\ batch'[fd] = {} /\ holder'[fd] = NULL
          /\ \A f \in Fds \ {fd} : /\ interest'[f] = interest[f]
                                   /\ batch'[f] = batch[f] /\ holder'[f] = holder[f]
      BY <1>0, <1>7 DEF CloseOnError, loopVars, TypeInv, WakeReady
    <2>2. Mapped'
      BY <2>1 DEF Mapped
    <2>3. AddInv'
      <3>1. map[fd] # NULL /\ map[fd] = holder[fd]
        BY <2>1 DEF Mapped
      <3>2. \A c : Coming(c) => Coming(c)'
        BY <2>1, <3>1 DEF Coming
      <3>3. \A i : AddsAt(i)' <=> AddsAt(i)
        BY <2>1 DEF AddsAt
      <3>4. \A t : Adding(t)' <=> Adding(t)
        BY <2>1 DEF Adding
      <3>5. \A i \in 1..Len(pending) : AddsAt(i) => Coming(pending[i].channel)'
        BY <2>1, <3>2 DEF AddInv, Coming
      <3>6. \A t \in Threads : Adding(t) => Coming(req[t].channel)'
        BY <2>1, <3>2 DEF AddInv, Coming
      <3> QED
        BY <2>1, <3>3, <3>4, <3>5, <3>6 DEF AddInv
    <2>4. RemoveInv'
      BY <2>1 DEF RemoveInv, RemovesAt
    <2> QED
      BY <2>2, <2>3, <2>4
  <1>8. ASSUME NEW fd \in Fds, ReadEvent(fd) PROVE LoopInv'
    BY <1>8, EventKeeps
  <1>9. CASE EndDispatch \/ DrainLock \/ DrainEnd
    <2>1. /\ UNCHANGED <<pending, cursor, map, interest, events, holder, batch, req>>
          /\ \/ pc[Owner] = "dispatch" /\ pc' = [pc EXCEPT ![Owner] = "drain_lock"]
             \/ pc[Owner] = "drain_lock" /\ pc' = [pc EXCEPT ![Owner] = "drain"]
             \/ /\ pc[Owner] = "drain" /\ pc' = [pc EXCEPT ![Owner] = "clear"]
                /\ cursor > Len(pending)
      BY <1>9 DEF EndDispatch, DrainLock, DrainEnd, tableVars, channelVars, loopVars
    <2>2. Mapped'
      BY <2>1, MappedKept
    <2>3. AddInv'
      BY <1>0, <2>1, AddsKept DEF Adding
    <2>4. cursor > Len(pending) => \A i \in 1..Len(pending) : ~RemovesAt(i)
      BY LenProperties DEF RemovesAt, TypeInv, TypeOK
    <2>5. RemoveInv'
      BY <1>0, <2>1, <2>4, RemovesKept DEF RemoveInv
    <2> QED
      BY <2>2, <2>3, <2>5
  <1>10. CASE HandlePending
    BY <1>10, HandleKeeps
  <1>11. CASE Clear
    <2>1. /\ pending' = <<>> /\ pc[Owner] = "clear"
          /\ pc' = [pc EXCEPT ![Owner] = back]
          /\ UNCHANGED <<map, interest, events, holder, batch, req>>
      BY <1>11 DEF Clear, tableVars, channelVars
    <2>2. Mapped'
      BY <2>1, MappedKept
    <2>3. /\ \A t : Adding(t)' <=> Adding(t)
          /\ \A c : Coming(c)' <=> Coming(c)
          /\ \A i \in 1..Len(pending') : FALSE
      BY <1>0, <2>1 DEF Adding, Coming
    <2>4. \A t \in Threads : Adding(t) => Coming(req[t].channel)'
      BY <2>1, <2>3 DEF AddInv, Coming
    <2>5. AddInv'
      BY <2>1, <2>3, <2>4 DEF AddInv
    <2>6. RemoveInv'
      BY <1>0, <2>1, <2>3 DEF RemoveInv
    <2> QED
      BY <2>2, <2>5, <2>6
  <1>12. CASE UNCHANGED vars
    <2>1. UNCHANGED <<pending, cursor, map, interest, events, holder, batch, req, pc>>
      BY <1>12 DEF vars, tableVars, channelVars, loopVars
    <2>2. Mapped' /\ AddInv'
      BY <2>1, MappedKept, AddsKept DEF Adding
    <2>3. RemoveInv'
      BY <2>1, RemovesKept DEF RemoveInv
    <2> QED
      BY <2>2, <2>3
  <1> QED
    BY <1>1, <1>2, <1>3, <1>4, <1>5, <1>6, <1>7, <1>8, <1>9, <1>10, <1>11, <1>12
       DEF Next, PosterNext, OwnerRun, Handle, Threads

LEMMA LoopCorrect == SafeSpec => []LoopInv
  BY TypeInit, TypeStep, MutexInit, MutexStep, LoopInit, LoopStep, PTL DEF SafeSpec

(* The loop does not fail the assertion of channel_event_activate          *)
(* (event_loop.c:93) and dereferences no NULL entry of its map, in any     *)
(* interleaving of its callbacks with any number of threads that add       *)
(* channels, before a response overflows its socket.                       *)
THEOREM LoopNeverCrashes == SafeSpec => []NoCrash
  <1>1. LoopInv => NoCrash
    BY DEF LoopInv, RemoveInv, NoCrash
  <1> QED
    BY <1>1, LoopCorrect, PTL

(* What epoll watches or has reported has a channel of its descriptor in   *)
(* the map, even while requests are being handled.                         *)
THEOREM LoopEventsHaveChannel == SafeSpec => []EventHasChannel
  <1>1. LoopInv => EventHasChannel
    BY DEF LoopInv, Mapped, EventHasChannel
  <1> QED
    BY <1>1, LoopCorrect, PTL

(* And that channel is the one whose connection holds the descriptor: an   *)
(* entry that close left stale (event_dispatcher.c:110) is never the one   *)
(* an event is activated for, because the add of the next connection with  *)
(* that descriptor is refused before epoll hears of it                     *)
(* (event_loop.c:225-230).                                                 *)
THEOREM LoopEventsReachHolder == SafeSpec => []EventReachesHolder
  <1>1. LoopInv => EventReachesHolder
    BY DEF LoopInv, Mapped, EventReachesHolder
  <1> QED
    BY <1>1, LoopCorrect, PTL
=============================================================================

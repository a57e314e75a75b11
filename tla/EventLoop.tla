------------------------------ MODULE EventLoop ------------------------------
(***************************************************************************)
(* One event loop (src/src/event_loop.c) over the epoll dispatcher         *)
(* (src/src/event_dispatcher.c) and its channels (src/src/channel.c).      *)
(*                                                                         *)
(* The owner thread alternates epoll_wait, the callbacks of the channels   *)
(* that are ready, and the list of pending channel requests.  Any thread   *)
(* may append to that list under the loop's mutex; a thread that is not    *)
(* the owner then writes a byte to a socket pair to end epoll_wait.  The   *)
(* specification starts when event_loop_init has returned and stops at a   *)
(* NULL dereference or a failed assertion, which kill the process, and at  *)
(* a switch of the write interest, which uses a connection as if it were   *)
(* an event loop.  So no channel is ever registered but for reading: the   *)
(* EPOLLOUT branches and the update requests are never reached.            *)
(***************************************************************************)
EXTENDS Integers, Sequences, FiniteSets

CONSTANTS
    Owner,          (* the thread that runs event_loop_run                 *)
    Posters,        (* the other threads that hand channels to this loop   *)
    Channels,       (* channel_struc objects, each created at most once    *)
    Wake,           (* the channel of socker_pair[1]                       *)
    Acceptors,      (* channels whose read callback accepts a connection   *)
    FdOf,           (* channel->fd; -1 is what a failed accept leaves      *)
    MapSizes,       (* sizes map_expand_space gives: 32, 64, 128 ...       *)
    MaxEvents,      (* MAXEVENTS: most events one epoll_wait returns       *)
    PairCapacity,   (* bytes the socket pair holds before a write blocks   *)
    Overflows,      (* can a callback write more than its socket takes?    *)
    NULL

Threads == Posters \cup {Owner}
Fds == {fd \in {FdOf[c] : c \in Channels} : fd >= 0}
WakeFd == FdOf[Wake]
Connections == Channels \ (Acceptors \cup {Wake})
Interests == SUBSET {"read", "write"}
Requests == [type : {"add", "remove"}, channel : Channels]
EventSets == {{}, {"read"}, {"error"}}

ASSUME ThreadsAssumption ==
    /\ Owner \notin Posters
    /\ NULL \notin Threads

ASSUME ChannelsAssumption ==
    /\ FdOf \in [Channels -> Int]
    /\ Wake \in Channels
    /\ Acceptors \subseteq Channels \ {Wake}
    /\ WakeFd >= 0
    /\ \A c \in Channels \ {Wake} : FdOf[c] # WakeFd
    /\ NULL \notin Channels
    /\ \A m \in Interests : m # NULL

ASSUME SizesAssumption ==
    /\ MapSizes \subseteq Nat
    /\ \A fd \in Fds : \E m \in MapSizes : m > fd
    /\ MaxEvents \in Nat \ {0}
    /\ PairCapacity \in Nat \ {0}
    /\ Overflows \in BOOLEAN

VARIABLES
    events,             (* channel->events; {} before channel_init         *)
    holder,             (* the channel whose socket each descriptor names  *)
    pending,            (* pending_head .. pending_tail                    *)
    cursor,             (* channel_elem while the list is walked, else 1   *)
    mutex,              (* the thread that holds event_loop->mutex         *)
    is_handle_pending,
    map,                (* channel_map->channels                           *)
    n_channel,          (* channel_map->n_channel                          *)
    interest,           (* what epoll watches, NULL if not registered      *)
    pair,               (* bytes in the socket pair                        *)
    batch,              (* the events epoll_wait returned, still unhandled *)
    pc,                 (* where each thread is                            *)
    req,                (* each thread's request in process_channel_event  *)
    back                (* where the owner goes on after handle_pending    *)

loopVars == <<pending, cursor, mutex, is_handle_pending>>
tableVars == <<map, n_channel, interest>>
channelVars == <<events, holder>>
vars == <<loopVars, tableVars, channelVars, pair, batch, pc, req, back>>

Alive == pc[Owner] \notin {"crashed", "undefined"}
Goto(t, label) == pc' = [pc EXCEPT ![t] = label]
Crash == Goto(Owner, "crashed")

(***************************************************************************)
(* map_expand_space doubles n_channel, from 32, until it exceeds fd.       *)
(***************************************************************************)
ExpandedOffByOne(fd) ==
    CHOOSE m \in MapSizes : m >= fd /\ \A k \in MapSizes : k >= fd => m <= k

Expanded(fd) ==
    CHOOSE m \in MapSizes : m > fd /\ \A k \in MapSizes : k > fd => m <= k

(* event_loop_init: the owner has registered the wakeup channel itself.    *)
Init ==
    /\ events = [c \in Channels |-> IF c = Wake THEN {"read"} ELSE {}]
    /\ holder = [fd \in Fds |-> IF fd = WakeFd THEN Wake ELSE NULL]
    /\ map = [fd \in Fds |-> IF fd = WakeFd THEN Wake ELSE NULL]
    /\ interest = [fd \in Fds |-> IF fd = WakeFd THEN {"read"} ELSE NULL]
    /\ n_channel = Expanded(WakeFd)
    /\ pending = <<>>
    /\ cursor = 1
    /\ mutex = NULL
    /\ is_handle_pending = FALSE
    /\ pair = 0
    /\ batch = [fd \in Fds |-> {}]
    /\ pc = [t \in Threads |-> IF t # Owner THEN "idle"
                               ELSE IF Acceptors = {} THEN "wait" ELSE "start"]
    /\ req = [t \in Threads |-> [type |-> "add", channel |-> Wake]]
    /\ back = "wait"
-----------------------------------------------------------------------------
(***************************************************************************)
(* Requests: event_loop_process_channel_event and its three callers.       *)
(***************************************************************************)

(* A descriptor is obtained and channel_init makes its channel.            *)
Create(c) ==
    /\ events[c] = {}
    /\ FdOf[c] >= 0 => holder[FdOf[c]] = NULL
    /\ events' = [events EXCEPT ![c] = {"read"}]
    /\ holder' = [fd \in Fds |-> IF fd = FdOf[c] THEN c ELSE holder[fd]]

Request(t, type, c) ==
    /\ req' = [req EXCEPT ![t] = [type |-> type, channel |-> c]]
    /\ Goto(t, "lock")

(* tcp_server_start adds the listening channel before event_loop_run.       *)
Start ==
    /\ pc[Owner] = "start"
    /\ \E c \in Acceptors : Create(c) /\ Request(Owner, "add", c)
    /\ back' = "wait"
    /\ UNCHANGED <<loopVars, tableVars, pair, batch>>

(* Another thread, which accepted a connection, adds it to this loop.      *)
Post(t) ==
    /\ Alive
    /\ pc[t] = "idle"
    /\ \E c \in Connections : Create(c) /\ Request(t, "add", c)
    /\ UNCHANGED <<loopVars, tableVars, pair, batch, back>>

(* Mutant: the critical sections are entered without the mutex.            *)
AcquireAlways(t) == mutex' = t

Acquire(t) == mutex = NULL /\ mutex' = t

Release == mutex' = NULL

Lock(t) ==
    /\ Alive
    /\ pc[t] = "lock"
    /\ Acquire(t)
    /\ Goto(t, "append")
    /\ UNCHANGED <<pending, cursor, is_handle_pending, tableVars, channelVars,
                   pair, batch, req, back>>

(* Mutant: a request is listed twice.                                      *)
PushTwice(r) == pending' = pending \o <<r, r>>

(* event_loop_channel_buffer_noblock: the request becomes the tail.        *)
PushBack(r) == pending' = Append(pending, r)

(* Mutant: no wakeup for the owner.                                        *)
AfterAppendSilent(t) == IF t = Owner THEN "drain_lock" ELSE "idle"

(* The owner handles the list itself, any other thread wakes the owner.    *)
AfterAppend(t) == IF t = Owner THEN "drain_lock" ELSE "wake"

(* The rest of process_channel_event's critical section: the assertion,    *)
(* the append and the unlock.                                              *)
AppendRequest(t) ==
    /\ Alive
    /\ pc[t] = "append"
    /\ \/ /\ is_handle_pending
          /\ Crash
          /\ UNCHANGED <<pending, mutex>>
       \/ /\ ~is_handle_pending
          /\ PushBack(req[t])
          /\ Release
          /\ Goto(t, AfterAppend(t))
    /\ UNCHANGED <<cursor, is_handle_pending, tableVars, channelVars, pair,
                   batch, req, back>>

(* event_loop_wakeup: the write blocks while the socket pair is full.      *)
Wakeup(t) ==
    /\ Alive
    /\ pc[t] = "wake"
    /\ pair < PairCapacity
    /\ pair' = pair + 1
    /\ Goto(t, "idle")
    /\ UNCHANGED <<loopVars, tableVars, channelVars, batch, req, back>>
-----------------------------------------------------------------------------
(***************************************************************************)
(* epoll_wait and epoll_dispatch.                                          *)
(***************************************************************************)

(* The event bits epoll may report for fd, which it watches for reading.   *)
(* It reports an error whatever the mask, and the code looks at no other   *)
(* bit then; the wakeup channel is ready exactly when the pair holds a     *)
(* byte.                                                                   *)
Reports(fd) ==
    IF fd = WakeFd
    THEN {b \in {{"read"}} : pair > 0}
    ELSE IF interest[fd] = NULL
    THEN {}
    ELSE {interest[fd]} \cup {b \in {{"error"}} : holder[fd] \in Connections}

EpollWait ==
    /\ pc[Owner] = "wait"
    /\ \E S \in SUBSET {fd \in Fds : Reports(fd) # {}} :
          /\ S # {}
          /\ Cardinality(S) <= MaxEvents
          /\ pair > 0 => WakeFd \in S \/ Cardinality(S) = MaxEvents
          /\ \E ready \in [S -> EventSets] :
                /\ \A fd \in S : ready[fd] \in Reports(fd)
                /\ batch' = [fd \in Fds |-> IF fd \in S THEN ready[fd] ELSE {}]
    /\ Goto(Owner, "dispatch")
    /\ UNCHANGED <<loopVars, tableVars, channelVars, pair, req, back>>

(* EPOLLERR or EPOLLHUP: the descriptor is closed, which also takes it out *)
(* of the epoll set; the channel map keeps its entry.                      *)
CloseOnError(fd) ==
    /\ pc[Owner] = "dispatch"
    /\ "error" \in batch[fd]
    /\ batch' = [batch EXCEPT ![fd] = {}]
    /\ holder' = [holder EXCEPT ![fd] = NULL]
    /\ interest' = [interest EXCEPT ![fd] = NULL]
    /\ UNCHANGED <<loopVars, map, n_channel, events, pair, pc, req, back>>

(* handle_wakeup, handle_read and handle_connection_established as the     *)
(* loop sees them: what each asks of the loop before the next event.       *)
Return ==
    /\ Goto(Owner, "dispatch")
    /\ UNCHANGED <<channelVars, pair, req, back>>

(* Mutant: the byte is left in the pair.                                   *)
HandleWakeupUnread == Return

HandleWakeup ==
    /\ pair' = pair - 1
    /\ Goto(Owner, "dispatch")
    /\ UNCHANGED <<channelVars, req, back>>

CloseConnection(c) ==
    /\ c \in Connections
    /\ Request(Owner, "remove", c)
    /\ back' = "dispatch"
    /\ UNCHANGED <<channelVars, pair>>

AcceptHere(c) ==
    /\ c \in Acceptors
    /\ \E d \in Connections : Create(d) /\ Request(Owner, "add", d)
    /\ back' = "dispatch"
    /\ UNCHANGED pair

(* A response the socket does not take whole: tcp_connection_send_data     *)
(* calls channel_write_event_enable, which takes channel->data for the     *)
(* event loop.  It is the connection: the lock, the assertion and the list *)
(* that follow are in memory that holds none of them.                      *)
SwitchWrite(c) ==
    /\ Overflows
    /\ c \in Connections
    /\ events' = [events EXCEPT ![c] = @ \cup {"write"}]
    /\ Goto(Owner, "undefined")
    /\ UNCHANGED <<holder, pair, req, back>>

ReadCallback(c) ==
    \/ c = Wake /\ HandleWakeup
    \/ c # Wake /\ Return
    \/ CloseConnection(c)
    \/ AcceptHere(c)
    \/ SwitchWrite(c)

(* channel_event_activate: an entry that is NULL or of another descriptor  *)
(* ends the process at the assertion.                                      *)
Activate(fd) ==
    \/ /\ fd >= n_channel
       /\ Return
    \/ /\ fd < n_channel
       /\ ~(map[fd] # NULL /\ FdOf[map[fd]] = fd)
       /\ Crash
       /\ UNCHANGED <<channelVars, pair, req, back>>
    \/ /\ fd < n_channel
       /\ map[fd] # NULL /\ FdOf[map[fd]] = fd
       /\ ReadCallback(map[fd])

ReadEvent(fd) ==
    /\ pc[Owner] = "dispatch"
    /\ "read" \in batch[fd]
    /\ batch' = [batch EXCEPT ![fd] = {}]
    /\ Activate(fd)
    /\ UNCHANGED <<loopVars, tableVars>>

(* Mutant: event_loop_run goes back to epoll_wait without the list.        *)
EndDispatchOnly ==
    /\ pc[Owner] = "dispatch"
    /\ \A fd \in Fds : batch[fd] = {}
    /\ Goto(Owner, "wait")
    /\ UNCHANGED <<loopVars, tableVars, channelVars, pair, batch, req, back>>

EndDispatch ==
    /\ pc[Owner] = "dispatch"
    /\ \A fd \in Fds : batch[fd] = {}
    /\ back' = "wait"
    /\ Goto(Owner, "drain_lock")
    /\ UNCHANGED <<loopVars, tableVars, channelVars, pair, batch, req>>
-----------------------------------------------------------------------------
(***************************************************************************)
(* event_loop_handle_pending_channel.                                      *)
(***************************************************************************)

DrainLock ==
    /\ pc[Owner] = "drain_lock"
    /\ Acquire(Owner)
    /\ is_handle_pending' = TRUE
    /\ Goto(Owner, "drain")
    /\ UNCHANGED <<pending, cursor, tableVars, channelVars, pair, batch, req, back>>

(* epoll_ctl refuses to add what is there; the dispatcher only prints the  *)
(* error.                                                                  *)
EpollAdd(fd, c) ==
    interest' = [interest EXCEPT ![fd] = IF @ = NULL THEN events[c] ELSE @]

(* Mutant: the descriptor stays in the epoll set.                          *)
EpollKeep(fd) == UNCHANGED interest

EpollDel(fd) ==
    interest' = [interest EXCEPT ![fd] = NULL]

(* Mutant: the dispatcher is called whatever the map holds.                *)
HandleAddAlways(c) ==
    LET fd == FdOf[c] IN
    /\ pc' = pc
    /\ \/ fd < 0 /\ UNCHANGED tableVars
       \/ /\ fd >= 0
          /\ n_channel' = IF fd >= n_channel THEN Expanded(fd) ELSE n_channel
          /\ map' = [map EXCEPT ![fd] = IF @ = NULL THEN c ELSE @]
          /\ EpollAdd(fd, c)

(* event_loop_handle_pending_add                                           *)
HandleAdd(c) ==
    LET fd == FdOf[c] IN
    /\ pc' = pc
    /\ \/ fd < 0 /\ UNCHANGED tableVars
       \/ /\ fd >= 0
          /\ n_channel' = IF fd >= n_channel THEN Expanded(fd) ELSE n_channel
          /\ \/ /\ map[fd] = NULL
                /\ map' = [map EXCEPT ![fd] = c]
                /\ EpollAdd(fd, c)
             \/ /\ map[fd] # NULL
                /\ UNCHANGED <<map, interest>>

(* event_loop_handle_pending_remove: the dispatcher is given the entry of  *)
(* the map, and dereferences it.                                           *)
HandleRemove(c) ==
    LET fd == FdOf[c] IN
    \/ /\ fd < 0 \/ fd >= n_channel
       /\ UNCHANGED <<tableVars, pc>>
    \/ /\ 0 <= fd /\ fd < n_channel
       /\ map[fd] = NULL
       /\ Crash
       /\ UNCHANGED tableVars
    \/ /\ 0 <= fd /\ fd < n_channel
       /\ map[fd] # NULL
       /\ EpollDel(fd)
       /\ map' = [map EXCEPT ![fd] = NULL]
       /\ UNCHANGED <<n_channel, pc>>

HandlePending ==
    /\ pc[Owner] = "drain"
    /\ cursor <= Len(pending)
    /\ LET r == pending[cursor] IN
          \/ r.type = "add" /\ HandleAdd(r.channel)
          \/ r.type = "remove" /\ HandleRemove(r.channel)
    /\ cursor' = cursor + 1
    /\ UNCHANGED <<pending, mutex, is_handle_pending, channelVars, pair, batch,
                   req, back>>

(* Mutant: the mutex is given back before the list is cleared.             *)
DrainEndUnlocked ==
    /\ pc[Owner] = "drain"
    /\ cursor > Len(pending)
    /\ Release
    /\ is_handle_pending' = FALSE
    /\ Goto(Owner, "clear")
    /\ UNCHANGED <<pending, cursor, tableVars, channelVars, pair, batch, req,
                   back>>

DrainEnd ==
    /\ pc[Owner] = "drain"
    /\ cursor > Len(pending)
    /\ Goto(Owner, "clear")
    /\ UNCHANGED <<loopVars, tableVars, channelVars, pair, batch, req, back>>

Clear ==
    /\ pc[Owner] = "clear"
    /\ pending' = <<>>
    /\ cursor' = 1
    /\ is_handle_pending' = FALSE
    /\ Release
    /\ Goto(Owner, back)
    /\ UNCHANGED <<tableVars, channelVars, pair, batch, req, back>>
-----------------------------------------------------------------------------
PosterNext(t) == Post(t) \/ Lock(t) \/ AppendRequest(t) \/ Wakeup(t)

Handle == \E fd \in Fds : CloseOnError(fd) \/ ReadEvent(fd)

OwnerRun ==
    \/ Start
    \/ Handle
    \/ EndDispatch
    \/ Lock(Owner)
    \/ AppendRequest(Owner)
    \/ DrainLock
    \/ HandlePending
    \/ DrainEnd
    \/ Clear

Next ==
    \/ \E t \in Posters : PosterNext(t)
    \/ EpollWait
    \/ OwnerRun

SafeSpec == Init /\ [][Next]_vars

(* The owner never stops between two epoll_waits, and a poster that has a  *)
(* request finishes it.  The kernel puts a descriptor it has reported      *)
(* behind the others that are ready, so the pair's turn comes although a   *)
(* batch has no room for all.                                              *)
Fairness ==
    /\ WF_vars(OwnerRun)
    /\ SF_vars(EpollWait /\ "read" \in batch'[WakeFd])
    /\ \A t \in Posters :
          WF_vars(Lock(t) \/ AppendRequest(t) \/ Wakeup(t))

Spec == SafeSpec /\ Fairness
-----------------------------------------------------------------------------
(***************************************************************************)
(* Properties.                                                             *)
(***************************************************************************)

Labels == {"start", "idle", "wait", "dispatch", "lock", "append", "wake",
           "drain_lock", "drain", "clear", "crashed", "undefined"}

(* The values the variables take; a channel is stored inside the table the *)
(* map owns, and the list is walked only between its ends.                 *)
TypeOK ==
    /\ events \in [Channels -> Interests]
    /\ holder \in [Fds -> Channels \cup {NULL}]
    /\ pending \in Seq(Requests)
    /\ cursor \in 1..(Len(pending) + 1)
    /\ mutex \in Threads \cup {NULL}
    /\ is_handle_pending \in BOOLEAN
    /\ n_channel \in MapSizes
    /\ map \in [Fds -> Channels \cup {NULL}]
    /\ \A fd \in Fds : map[fd] # NULL => fd < n_channel
    /\ interest \in [Fds -> {NULL} \cup Interests]
    /\ pair \in 0..PairCapacity
    /\ batch \in [Fds -> EventSets]
    /\ pc \in [Threads -> Labels]
    /\ req \in [Threads -> Requests]
    /\ back \in {"wait", "dispatch"}

(* The assertion of event_loop_process_channel_event holds: a thread that  *)
(* has the mutex to append never finds the list being handled.  And no     *)
(* thread waits for the (non-recursive) mutex that it holds itself, as a   *)
(* request made inside a callback would if callbacks ran under it.         *)
MutexDiscipline ==
    \A t \in Threads :
        /\ pc[t] = "append" => ~is_handle_pending
        /\ pc[t] \in {"lock", "drain_lock"} => mutex # t

(* While the owner sleeps in epoll_wait, a request on the list has its     *)
(* wakeup byte in the pair or a thread that is about to write one.         *)
NoLostWakeup ==
    pc[Owner] = "wait" /\ pending # <<>> =>
        pair > 0 \/ \E t \in Posters : pc[t] = "wake"

(* The assertion of channel_event_activate: whatever epoll watches or has  *)
(* reported has a channel of that descriptor in the map.                   *)
EventHasChannel ==
    \A fd \in Fds : batch[fd] # {} \/ interest[fd] # NULL =>
        map[fd] # NULL /\ FdOf[map[fd]] = fd

(* No assertion fails and no entry that is NULL is dereferenced.           *)
NoCrash == pc[Owner] # "crashed"

(* An event reaches the channel whose socket reported it: the map has, for *)
(* whatever epoll watches or has reported, the channel of the connection   *)
(* that holds the descriptor now, not one of an earlier connection.        *)
EventReachesHolder ==
    \A fd \in Fds : batch[fd] # {} \/ interest[fd] # NULL =>
        map[fd] # NULL /\ map[fd] = holder[fd]

(* A request that is on the list is handled, however the loop is woken.    *)
RequestHandled ==
    \A c \in Channels :
        (\E i \in cursor..Len(pending) : pending[i].channel = c)
            ~> ~(\E i \in cursor..Len(pending) : pending[i].channel = c)

(* A thread that blocks because the pair is full is released.              *)
WakeupReturns == \A t \in Posters : pc[t] = "wake" ~> pc[t] = "idle"

(* The loop implements ChannelRegistry: each request is applied once, in   *)
(* the order of the appends.                                               *)
Registry == INSTANCE ChannelRegistry
                WITH queue <- SubSeq(pending, cursor, Len(pending)),
                     table <- map

RegistryStep == Registry!SafeSpec
=============================================================================

---------------------------- MODULE PollDispatcher ----------------------------
(***************************************************************************)
(* An event loop over the poll dispatcher (src/src/event_dispatcher.c from *)
(* line 147 on), which README.md:12 offers as the other setting.           *)
(*                                                                         *)
(* The dispatcher keeps one array of pollfd slots.  poll_dispatch walks it *)
(* while the callbacks it calls add and remove channels in it.  The list   *)
(* of requests is a queue here: EventLoop shows that its mutex and wakeups *)
(* make it one.  As there, every channel is registered for reading only,   *)
(* and a switch of the write interest takes the connection for the event   *)
(* loop, after which the model says no more: poll_update is never reached. *)
(***************************************************************************)
EXTENDS Integers, SequencesExt

CONSTANTS
    Connections,    (* descriptors accept returns, each once: the server   *)
                    (* never closes one                                    *)
    WakeFd,         (* socker_pair[1]                                      *)
    ListenFd,       (* the acceptor's descriptor, in the main loop         *)
    PollMax         (* POLL_MAX_SIZE                                       *)

Fds == Connections \cup {ListenFd, WakeFd}
Slots == 1..PollMax
Requests == [type : {"add", "remove"}, fd : Fds]

ASSUME PollAssumption ==
    /\ Connections \subseteq Nat
    /\ WakeFd \in Nat \ Connections
    /\ ListenFd \in Nat \ (Connections \cup {WakeFd})
    /\ PollMax \in Nat \ {0}

VARIABLES
    posted,         (* do other threads hand it connections, as they do to *)
                    (* a worker's loop, or does it accept them itself?     *)
    event_set,      (* the slots: fd and revents                           *)
    map,            (* descriptors with a channel in the channel map       *)
    queue,          (* requests not yet handled                            *)
    fresh,          (* descriptors that accept has not returned yet        *)
    inbox,          (* what there is to read at each descriptor            *)
    index,          (* i in poll_dispatch                                  *)
    ready_number,
    poll_fd,        (* the copy of the slot in hand                        *)
    pc,
    back            (* where the loop goes on after the list is handled    *)

tables == <<event_set, map>>
world == <<queue, fresh, inbox>>
walk == <<index, ready_number, poll_fd>>
vars == <<tables, world, walk, pc, back, posted>>

Free == [fd |-> -1, revents |-> {}]

(* poll_init, after which event_loop_init adds the wakeup channel, and     *)
(* tcp_server_start the acceptor's.                                        *)
Init ==
    /\ posted \in BOOLEAN
    /\ event_set = [i \in Slots |-> Free]
    /\ map = {}
    /\ queue = <<[type |-> "add", fd |-> WakeFd]>>
                 \o IF posted THEN <<>> ELSE <<[type |-> "add", fd |-> ListenFd]>>
    /\ fresh = Connections
    /\ inbox = [fd \in Fds |-> 0]
    /\ index = PollMax
    /\ ready_number = 0
    /\ poll_fd = Free
    /\ pc = "lock"
    /\ back = "poll"
-----------------------------------------------------------------------------
(***************************************************************************)
(* The slot array.                                                         *)
(***************************************************************************)

(* Mutant: the search goes on after a free slot was taken.                 *)
PollAddEverywhere(fd) ==
    event_set' = [i \in Slots |-> IF event_set[i].fd < 0
                                  THEN [event_set[i] EXCEPT !.fd = fd]
                                  ELSE event_set[i]]

(* poll_add: the first free slot; if there is none, only a line is logged. *)
PollAdd(fd) ==
    LET free == {i \in Slots : event_set[i].fd < 0} IN
    event_set' = IF free = {} THEN event_set
                 ELSE [event_set EXCEPT ![Min(free)].fd = fd]

Holding(fd) == {i \in Slots : event_set[i].fd = fd}

(* Mutants: the last slot in use fills the gap; the slot is not found.     *)
PollDeleteMoving(fd) ==
    LET used == {i \in Slots : event_set[i].fd >= 0} IN
    event_set' = [event_set EXCEPT ![Min(Holding(fd))] = event_set[Max(used)],
                                   ![Max(used)] = Free]
PollDeleteMissed(fd) == UNCHANGED event_set

(* poll_delete: revents stays as it is.                                    *)
PollDelete(fd) ==
    event_set' = IF Holding(fd) = {} THEN event_set
                 ELSE [event_set EXCEPT ![Min(Holding(fd))].fd = -1]
-----------------------------------------------------------------------------
(***************************************************************************)
(* Requests, as event_loop_process_channel_event and the three handlers    *)
(* treat them.                                                             *)
(***************************************************************************)

(* A thread that accepted a connection adds it here and writes a byte.     *)
Post(fd) ==
    /\ pc \notin {"drain", "crashed", "undefined"}
    /\ posted
    /\ fd \in fresh
    /\ fresh' = fresh \ {fd}
    /\ queue' = Append(queue, [type |-> "add", fd |-> fd])
    /\ inbox' = [inbox EXCEPT ![WakeFd] = @ + 1]
    /\ UNCHANGED <<tables, walk, pc, back, posted>>

(* The owner's own request: it goes on to the list at once.                *)
Ask(type, fd) ==
    /\ queue' = Append(queue, [type |-> type, fd |-> fd])
    /\ pc' = "lock"
    /\ back' = "event"

DrainLock ==
    /\ pc = "lock"
    /\ pc' = "drain"
    /\ UNCHANGED <<tables, world, walk, back, posted>>

HandleAdd(fd) ==
    /\ UNCHANGED pc
    /\ \/ fd \in map /\ UNCHANGED tables
       \/ fd \notin map /\ map' = map \cup {fd} /\ PollAdd(fd)

HandleRemove(fd) ==
    \/ /\ fd \notin map
       /\ pc' = "crashed"
       /\ UNCHANGED tables
    \/ /\ fd \in map
       /\ PollDelete(fd)
       /\ map' = map \ {fd}
       /\ UNCHANGED pc

HandlePending ==
    /\ pc = "drain"
    /\ queue # <<>>
    /\ LET r == Head(queue) IN
          \/ r.type = "add" /\ HandleAdd(r.fd)
          \/ r.type = "remove" /\ HandleRemove(r.fd)
    /\ queue' = Tail(queue)
    /\ UNCHANGED <<fresh, inbox, walk, back, posted>>

DrainEnd ==
    /\ pc = "drain"
    /\ queue = <<>>
    /\ pc' = back
    /\ UNCHANGED <<tables, world, walk, back, posted>>
-----------------------------------------------------------------------------
(***************************************************************************)
(* poll and poll_dispatch.                                                 *)
(***************************************************************************)

(* A peer sends, closes or connects.                                       *)
Arrive(fd) ==
    /\ pc \notin {"crashed", "undefined"}
    /\ fd \in Fds \ (fresh \cup {WakeFd})
    /\ fd = ListenFd => ~posted /\ fresh # {}
    /\ inbox[fd] = 0
    /\ inbox' = [inbox EXCEPT ![fd] = 1]
    /\ UNCHANGED <<tables, queue, fresh, walk, pc, back, posted>>

(* poll fills revents of every slot: nothing for a free one; for the rest  *)
(* whether there is something to read and, unasked, an error.  It comes    *)
(* back within a second even if nothing is ready, and then reports none.   *)
Polled(slot, failed) ==
    IF slot.fd < 0 THEN {}
    ELSE (IF inbox[slot.fd] > 0 THEN {"read"} ELSE {})
         \cup (IF slot.fd \in failed THEN {"error"} ELSE {})

Poll ==
    /\ pc = "poll"
    /\ \E failed \in {{}} \cup {{fd} : fd \in Connections \ fresh} :
          event_set' = [i \in Slots |->
                          [event_set[i] EXCEPT !.revents = Polled(event_set[i], failed)]]
    /\ ready_number' = Cardinality({i \in Slots : event_set'[i].revents # {}})
    /\ index' = 0
    /\ \/ ready_number' = 0 /\ pc' = "lock" /\ back' = "poll"
       \/ ready_number' > 0 /\ pc' = "walk" /\ UNCHANGED back
    /\ UNCHANGED <<map, world, poll_fd, posted>>

(* Mutant: one slot is left out.                                           *)
NextReadyLate ==
    {i \in Slots : i > index + 1 /\ event_set[i].fd >= 0 /\ event_set[i].revents # {}}

(* The slots still ahead that have something to report.                    *)
NextReady ==
    {i \in Slots : i > index /\ event_set[i].fd >= 0 /\ event_set[i].revents # {}}

TakeSlot ==
    /\ pc = "walk"
    /\ NextReady # {}
    /\ index' = Min(NextReady)
    /\ poll_fd' = event_set[Min(NextReady)]
    /\ pc' = "event"
    /\ UNCHANGED <<tables, world, ready_number, back, posted>>

(* Callbacks, as the loop sees them: handle_wakeup, handle_read and        *)
(* handle_connection_established.                                          *)
Return ==
    /\ pc' = "event"
    /\ UNCHANGED <<queue, back>>

(* tcp_connection_send_data has more than the socket takes.                *)
SwitchWrite ==
    /\ pc' = "undefined"
    /\ UNCHANGED <<queue, back>>

ReadCallback(fd) ==
    \/ /\ fd # ListenFd
       /\ inbox' = [inbox EXCEPT ![fd] = @ - 1]
       /\ Return
       /\ UNCHANGED fresh
    \/ /\ fd \in Connections
       /\ inbox' = [inbox EXCEPT ![fd] = 0]
       /\ Ask("remove", fd) \/ SwitchWrite
       /\ UNCHANGED fresh
    \/ /\ fd = ListenFd
       /\ inbox' = [inbox EXCEPT ![fd] = 0]
       /\ \/ \E new \in fresh : fresh' = fresh \ {new} /\ Ask("add", new)
          \/ UNCHANGED fresh /\ Return

(* channel_event_activate.                                                 *)
Activate(fd) ==
    \/ /\ fd \notin map
       /\ pc' = "crashed"
       /\ UNCHANGED <<world, back>>
    \/ fd \in map /\ ReadCallback(fd)

Deliver ==
    /\ pc = "event"
    /\ "read" \in poll_fd.revents
    /\ poll_fd' = [poll_fd EXCEPT !.revents = @ \ {"read"}]
    /\ Activate(poll_fd.fd)
    /\ UNCHANGED <<tables, index, ready_number, posted>>

SlotDone ==
    /\ pc = "event"
    /\ "read" \notin poll_fd.revents
    /\ ready_number' = ready_number - 1
    /\ \/ /\ ready_number' <= 0 \/ NextReady = {}
          /\ pc' = "lock"
          /\ back' = "poll"
       \/ /\ ready_number' > 0 /\ NextReady # {}
          /\ pc' = "walk"
          /\ UNCHANGED back
    /\ UNCHANGED <<tables, world, index, poll_fd, posted>>
-----------------------------------------------------------------------------
PollDispatch == Poll \/ TakeSlot \/ Deliver \/ SlotDone

OwnerNext == DrainLock \/ HandlePending \/ DrainEnd \/ PollDispatch

Next ==
    \/ OwnerNext
    \/ \E fd \in Fds : Post(fd) \/ Arrive(fd)

(* The owner's thread runs; nothing has to arrive or to be posted.         *)
Spec == Init /\ [][Next]_vars /\ WF_vars(OwnerNext)
-----------------------------------------------------------------------------
(***************************************************************************)
(* Properties.                                                             *)
(***************************************************************************)

(* poll_delete frees the first slot of a descriptor: that is right only if *)
(* no descriptor ever has two, and a slot outlives no channel.             *)
SlotsMatchMap ==
    /\ \A fd \in Fds : Cardinality(Holding(fd)) <= 1
    /\ \A i \in Slots : event_set[i].fd >= 0 => event_set[i].fd \in map

(* No callback of a round takes the channel of a later slot away, and no   *)
(* slot outlives its channel: the assertion of channel_event_activate and  *)
(* the dereference in event_loop_handle_pending_remove are safe.           *)
NoCrash == pc # "crashed"

(* A descriptor with something to read is read or given up, whatever other *)
(* callbacks do to the array while it is walked.                           *)
Served ==
    \A fd \in Fds \ {ListenFd} :
        fd \in map /\ inbox[fd] > 0
            ~> fd \notin map \/ inbox[fd] = 0 \/ pc = "undefined"

(* The array implements the set of watched descriptors: nothing is         *)
(* reported that is not in it, what is reported is still in it when its    *)
(* callback is called, and the early break drops no event of the round.    *)
Watched == {event_set[i].fd : i \in {i \in Slots : event_set[i].fd >= 0}}

Due ==
    {event_set[i].fd : i \in {i \in NextReady : "read" \in event_set[i].revents}}
    \cup {fd \in {poll_fd.fd} : pc = "event" /\ "read" \in poll_fd.revents}

Array == INSTANCE Dispatcher WITH watch <- Watched, due <- Due

ImplementsDispatcher == Array!Spec
=============================================================================

------------------------- MODULE PollDispatcherProofs -------------------------
(***************************************************************************)
(* Theorems about PollDispatcher, for every set of connections and every   *)
(* size of the array.                                                      *)
(***************************************************************************)
EXTENDS PollDispatcher, TLAPS, WellFoundedInduction, NaturalsInduction, FiniteSetTheorems,
        SequenceTheorems

Record == [fd : Fds \cup {-1}, revents : SUBSET {"read", "error"}]

TypeInv ==
    /\ posted \in BOOLEAN
    /\ event_set \in [Slots -> Record]
    /\ map \subseteq Fds
    /\ queue \in Seq(Requests)
    /\ fresh \subseteq Connections
    /\ inbox \in [Fds -> Int]
    /\ index \in 0..PollMax
    /\ ready_number \in Int
    /\ poll_fd \in Record
    /\ pc \in {"lock", "drain", "poll", "walk", "event", "crashed", "undefined"}
    /\ back \in {"poll", "event"}

(* No descriptor has two slots, and none has one without its channel being *)
(* in the map.                                                             *)
SlotInv ==
    /\ \A i, j \in Slots :
          event_set[i].fd >= 0 /\ event_set[i].fd = event_set[j].fd => i = j
    /\ \A i \in Slots :
          event_set[i].fd >= 0 => event_set[i].fd \in map

(* A descriptor is fresh, then on its way to the map, then in it.          *)
AddInv ==
    /\ fresh \cap map = {}
    /\ \A k \in 1..Len(queue) :
          queue[k].type = "add" =>
              /\ queue[k].fd \notin fresh \cup map
              /\ \A l \in 1..Len(queue) :
                    queue[l].type = "add" /\ queue[l].fd = queue[k].fd => l = k

(* The owner is at the slot index, in a callback or handling the requests  *)
(* of one.                                                                 *)
AtSlot == pc = "event" \/ (pc \in {"lock", "drain"} /\ back = "event")

(* The slot in hand is still its descriptor's, or the descriptor's channel *)
(* was removed by its own read callback; a request is made only by a       *)
(* callback, so the event is delivered by then.                            *)
EventInv ==
    AtSlot =>
        /\ index \in Slots
        /\ poll_fd.fd \in Fds \ fresh
        /\ \A k \in 1..Len(queue) : queue[k].type = "add" => queue[k].fd # poll_fd.fd
        /\ pc # "event" => "read" \notin poll_fd.revents
        /\ \/ poll_fd.fd \in map /\ event_set[index].fd = poll_fd.fd
           \/ poll_fd.fd \notin map /\ "read" \notin poll_fd.revents

(* Whatever is not an add is the request of the callback that has just     *)
(* returned, to remove its own channel, and there is one at most.          *)
OwnInv ==
    \A k \in 1..Len(queue) :
        queue[k].type # "add" =>
            /\ pc \in {"lock", "drain"} /\ back = "event"
            /\ queue[k].fd = poll_fd.fd /\ poll_fd.fd \in map
            /\ \A l \in 1..Len(queue) : queue[l].type # "add" => l = k

(* ready_number counts the slots ahead, and a slot that is free while the  *)
(* walk is before it has nothing to report, so that one that gets a new    *)
(* descriptor has not either.                                              *)
WalkInv ==
    /\ \A i \in Slots : i > index /\ event_set[i].fd < 0 => event_set[i].revents = {}
    /\ AtSlot => ready_number = Cardinality(NextReady) + 1
    /\ pc = "walk" => ready_number = Cardinality(NextReady) /\ ready_number > 0
    /\ pc \in {"lock", "drain"} /\ back = "poll" => NextReady = {}
    /\ pc = "poll" => back = "poll" /\ NextReady = {}

PollInv ==
    /\ TypeInv
    /\ SlotInv
    /\ AddInv
    /\ EventInv
    /\ OwnInv
    /\ WalkInv
    /\ NoCrash
-----------------------------------------------------------------------------
LEMMA Naturals == /\ Fds \subseteq Nat /\ PollMax \in Nat \ {0} /\ -1 \notin Fds
                  /\ WakeFd \in Fds \ Connections /\ ListenFd \in Fds \ Connections
                  /\ ListenFd # WakeFd /\ Connections \subseteq Fds
  <1>1. Fds \subseteq Nat
    BY PollAssumption DEF Fds
  <1> QED
    BY <1>1, PollAssumption DEF Fds

(* A nonempty set of naturals has a least element.                         *)
LEMMA LeastNatural ==
    ASSUME NEW T, T \subseteq Nat, T # {}
    PROVE  Min(T) \in T /\ \A k \in T : Min(T) <= k
  <1> DEFINE R == {ss \in Nat \X Nat : ss[1] < ss[2]}
  <1>1. IsWellFoundedOn(R, Nat)
    BY NatLessThanWellFounded DEF OpToRel
  <1>2. \A k, m \in Nat : k < m => <<k, m>> \in R
    OBVIOUS
  <1> HIDE DEF R
  <1>3. PICK m \in T : \A k \in T : ~(<<k, m>> \in R)
    BY <1>1, WFMin, Zenon
  <1>4. ASSUME NEW k \in T PROVE m <= k
    <2>1. k \in Nat /\ m \in Nat
      OBVIOUS
    <2>2. ~(k < m)
      BY <1>2, <1>3, <2>1, Zenon
    <2> QED
      BY <2>1, <2>2
  <1> QED
    BY <1>4 DEF Min

LEMMA LeastSlot ==
    ASSUME NEW T, T \subseteq Slots, T # {}
    PROVE  Min(T) \in T /\ \A k \in T : Min(T) <= k
  <1>1. Slots \subseteq Nat
    BY Naturals DEF Slots
  <1> QED
    BY <1>1, LeastNatural

LEMMA SlotTypes ==
    ASSUME TypeInv, NEW i \in Slots
    PROVE  /\ event_set[i] \in Record
           /\ event_set[i].fd \in Fds \cup {-1} /\ event_set[i].fd \in Int
           /\ event_set[i].fd >= 0 <=> event_set[i].fd \in Fds
           /\ event_set[i].fd < 0 <=> event_set[i].fd = -1
           /\ event_set[i].revents \subseteq {"read", "error"}
           /\ i \in Int
  <1>1. event_set[i] \in Record
    BY DEF TypeInv
  <1>2. /\ event_set[i].fd \in Fds \cup {-1}
        /\ event_set[i].revents \subseteq {"read", "error"}
    BY <1>1 DEF Record
  <1>3. event_set[i].fd = -1 \/ (event_set[i].fd \in Nat /\ event_set[i].fd \in Fds)
    BY <1>2, Naturals
  <1>4. -1 \notin Fds
    BY Naturals
  <1>5. i \in Int
    BY DEF Slots
  <1> QED
    BY <1>1, <1>2, <1>3, <1>4, <1>5

LEMMA QueueTypes ==
    ASSUME TypeInv
    PROVE  /\ queue \in Seq(Requests) /\ Len(queue) \in Nat
           /\ \A k \in 1..Len(queue) : /\ queue[k] \in Requests /\ queue[k].fd \in Fds
                                       /\ queue[k].type \in {"add", "remove"}
  <1>1. queue \in Seq(Requests)
    BY DEF TypeInv
  <1>2. Len(queue) \in Nat /\ \A k \in 1..Len(queue) : queue[k] \in Requests
    BY <1>1, LenProperties, ElementOfSeq
  <1> QED
    BY <1>1, <1>2 DEF Requests

LEMMA Appended ==
    ASSUME TypeInv, NEW r \in Requests, queue' = Append(queue, r)
    PROVE  /\ queue' \in Seq(Requests)
           /\ \A k \in 1..Len(queue) : k \in 1..Len(queue') /\ queue'[k] = queue[k]
           /\ \A k \in 1..Len(queue') : \/ k \in 1..Len(queue) /\ queue'[k] = queue[k]
                                        \/ k = Len(queue) + 1 /\ queue'[k] = r
           /\ Len(queue) + 1 \in 1..Len(queue') /\ queue'[Len(queue) + 1] = r
  <1>1. queue \in Seq(Requests) /\ Len(queue) \in Nat
    BY QueueTypes
  <1>2. /\ queue' \in Seq(Requests) /\ Len(queue') = Len(queue) + 1
        /\ \A k \in 1..Len(queue) : queue'[k] = queue[k]
        /\ queue'[Len(queue) + 1] = r
    BY <1>1, AppendProperties
  <1>3. \A k \in 1..(Len(queue) + 1) : k \in 1..Len(queue) \/ k = Len(queue) + 1
    BY <1>1
  <1>4. \A k \in 1..Len(queue) : k \in 1..(Len(queue) + 1)
    BY <1>1
  <1>5. Len(queue) + 1 \in 1..(Len(queue) + 1)
    BY <1>1
  <1> QED
    BY <1>2, <1>3, <1>4, <1>5

LEMMA Taken ==
    ASSUME TypeInv, queue # <<>>, queue' = Tail(queue)
    PROVE  /\ queue' \in Seq(Requests)
           /\ 1 \in 1..Len(queue) /\ Head(queue) = queue[1]
           /\ \A k \in 1..Len(queue') : /\ k + 1 \in 1..Len(queue) /\ k + 1 # 1
                                        /\ queue'[k] = queue[k + 1]
           /\ \A k \in 1..Len(queue) :
                 k # 1 => k - 1 \in 1..Len(queue') /\ queue'[k - 1] = queue[k]
           /\ \A k, l \in 1..Len(queue') : k + 1 = l + 1 => k = l
  <1>1. queue \in Seq(Requests) /\ Len(queue) \in Nat
    BY QueueTypes
  <1>2. /\ queue' \in Seq(Requests) /\ Len(queue') = Len(queue) - 1
        /\ \A k \in 1..Len(queue') : queue'[k] = queue[k + 1]
    BY <1>1, HeadTailProperties
  <1>3. Len(queue) # 0
    BY <1>1, EmptySeq
  <1>4. 1 \in 1..Len(queue) /\ Head(queue) = queue[1]
    BY <1>1, <1>3
  <1>5. \A k \in 1..(Len(queue) - 1) : k + 1 \in 1..Len(queue) /\ k + 1 # 1
    BY <1>1
  <1>6. \A k \in 1..Len(queue) : k # 1 => k - 1 \in 1..(Len(queue) - 1) /\ (k - 1) + 1 = k
    BY <1>1
  <1>7. \A k, l \in 1..(Len(queue) - 1) : k + 1 = l + 1 => k = l
    BY <1>1
  <1> QED
    BY <1>2, <1>4, <1>5, <1>6, <1>7

(* The slots ahead are finitely many.                                      *)
LEMMA AheadFinite == NextReady \subseteq Slots /\ IsFiniteSet(NextReady)
                     /\ Cardinality(NextReady) \in Nat
                     /\ (Cardinality(NextReady) = 0 <=> NextReady = {})
  <1>1. IsFiniteSet(Slots)
    BY Naturals, FS_Interval DEF Slots
  <1>2. NextReady \in SUBSET Slots
    BY DEF NextReady
  <1>3. IsFiniteSet(NextReady)
    BY <1>1, <1>2, FS_Subset
  <1> QED
    BY <1>2, <1>3, FS_EmptySet, FS_CardinalityType
-----------------------------------------------------------------------------
(* What the two operations do to the array.                                *)
LEMMA AddEffect ==
    ASSUME TypeInv, NEW fd \in Fds, PollAdd(fd)
    PROVE  \/ event_set' = event_set
           \/ \E i \in Slots :
                 /\ event_set[i].fd < 0
                 /\ event_set' = [event_set EXCEPT ![i] = [fd |-> fd,
                                                           revents |-> event_set[i].revents]]
  <1> DEFINE free == {i \in Slots : event_set[i].fd < 0}
             m == Min(free)
  <1>1. CASE free = {}
    BY <1>1 DEF PollAdd
  <1>2. CASE free # {}
    <2>1. m \in Slots /\ event_set[m].fd < 0
      BY <1>2, LeastSlot
    <2>2. event_set' = [event_set EXCEPT ![m].fd = fd]
      BY <1>2 DEF PollAdd
    <2> HIDE DEF m
    <2>3. event_set[m] \in Record
      BY <2>1, SlotTypes
    <2>4. [event_set[m] EXCEPT !.fd = fd] = [fd |-> fd, revents |-> event_set[m].revents]
      BY <2>3 DEF Record
    <2>5. event_set' = [event_set EXCEPT ![m] = [event_set[m] EXCEPT !.fd = fd]]
      BY <2>1, <2>2 DEF TypeInv
    <2> QED
      BY <2>1, <2>4, <2>5
  <1> QED
    BY <1>1, <1>2

LEMMA HoldingOne ==
    ASSUME TypeInv, SlotInv, NEW fd \in Fds, NEW i \in Slots, event_set[i].fd = fd
    PROVE  Holding(fd) = {i} /\ Min(Holding(fd)) = i
  <1>1. fd >= 0
    BY Naturals
  <1>2. \A j \in Slots : event_set[j].fd = fd => j = i
    BY <1>1 DEF SlotInv
  <1>3. Holding(fd) = {i}
    BY <1>2 DEF Holding
  <1>4. Min(Holding(fd)) \in {i}
    BY <1>3, LeastSlot
  <1> QED
    BY <1>3, <1>4

LEMMA DeleteEffect ==
    ASSUME TypeInv, SlotInv, NEW fd \in Fds, NEW i \in Slots, event_set[i].fd = fd,
           PollDelete(fd)
    PROVE  event_set' = [event_set EXCEPT ![i] = [fd |-> -1,
                                                  revents |-> event_set[i].revents]]
  <1>1. event_set' = [event_set EXCEPT ![i].fd = -1]
    BY HoldingOne DEF PollDelete
  <1>2. event_set[i] \in Record
    BY SlotTypes
  <1>3. [event_set[i] EXCEPT !.fd = -1] = [fd |-> -1, revents |-> event_set[i].revents]
    BY <1>2 DEF Record
  <1>4. event_set' = [event_set EXCEPT ![i] = [event_set[i] EXCEPT !.fd = -1]]
    BY <1>1 DEF TypeInv
  <1> QED
    BY <1>3, <1>4
-----------------------------------------------------------------------------
LEMMA PollInit == Init => PollInv
  <1> SUFFICES ASSUME Init PROVE PollInv
    OBVIOUS
  <1> DEFINE wake == [type |-> "add", fd |-> WakeFd]
             listen == [type |-> "add", fd |-> ListenFd]
  <1>1. /\ posted \in BOOLEAN
        /\ event_set = [i \in Slots |-> Free]
        /\ map = {}
        /\ queue = <<wake>> \o IF posted THEN <<>> ELSE <<listen>>
        /\ fresh = Connections
        /\ inbox = [fd \in Fds |-> 0]
        /\ index = PollMax
        /\ ready_number = 0
        /\ poll_fd = Free
        /\ pc = "lock" /\ back = "poll"
    BY DEF Init
  <1>2. wake \in Requests /\ listen \in Requests
    BY Naturals DEF Requests
  <1>3. \/ queue = <<wake>>
        \/ /\ queue \in Seq(Requests) /\ Len(queue) = 2
           /\ queue[1] = wake /\ queue[2] = listen
    <2> HIDE DEF wake, listen
    <2>1. CASE posted
      <3>1. queue = <<wake>> \o <<>>
        BY <1>1, <2>1
      <3>2. <<wake>> \in Seq(Requests)
        BY <1>2
      <3> QED
        BY <3>1, <3>2, ConcatEmptySeq
    <2>2. CASE ~posted
      <3>1. queue = <<wake>> \o <<listen>>
        BY <1>1, <2>2
      <3>2. /\ <<wake>> \in Seq(Requests) /\ Len(<<wake>>) = 1 /\ <<wake>>[1] = wake
            /\ <<listen>> \in Seq(Requests) /\ Len(<<listen>>) = 1 /\ <<listen>>[1] = listen
        BY <1>2
      <3>3. queue \in Seq(Requests) /\ Len(queue) = 2
        BY <3>1, <3>2, ConcatProperties
      <3>4. 1 \in 1..1 /\ 1 <= 1 /\ 1 \in 1..2 /\ 2 \in 1..2 /\ ~(2 <= 1) /\ 2 - 1 = 1
        OBVIOUS
      <3>5. queue[1] = wake /\ queue[2] = listen
        BY <3>1, <3>2, <3>4, ConcatProperties
      <3> QED
        BY <3>3, <3>5
    <2> QED
      BY <2>1, <2>2
  <1>4. /\ queue \in Seq(Requests)
        /\ \A k \in 1..Len(queue) : queue[k].type = "add" /\ queue[k].fd \in Fds \ Connections
        /\ \A k, l \in 1..Len(queue) : queue[l].fd = queue[k].fd => l = k
    <2> HIDE DEF wake, listen
    <2>1. /\ wake.type = "add" /\ wake.fd = WakeFd
          /\ listen.type = "add" /\ listen.fd = ListenFd
      BY DEF wake, listen
    <2>2. CASE queue = <<wake>>
      BY <1>2, <2>1, <2>2, Naturals
    <2>3. CASE /\ queue \in Seq(Requests) /\ Len(queue) = 2
               /\ queue[1] = wake /\ queue[2] = listen
      <3>1. \A k \in 1..2 : k = 1 \/ k = 2
        OBVIOUS
      <3> QED
        BY <2>1, <2>3, <3>1, Naturals
    <2> QED
      BY <1>3, <2>2, <2>3
  <1>5. Free \in Record /\ Free.fd = -1 /\ Free.revents = {}
    BY DEF Free, Record
  <1>6. \A i \in Slots : event_set[i].fd = -1 /\ event_set[i].revents = {} /\ i <= PollMax
    BY <1>1, <1>5, Naturals DEF Slots
  <1>7. TypeInv
    <2>1. /\ event_set \in [Slots -> Record] /\ map \subseteq Fds /\ poll_fd \in Record
      BY <1>1, <1>5
    <2>2. inbox \in [Fds -> Int] /\ fresh \subseteq Connections
      BY <1>1
    <2>3. index \in 0..PollMax /\ ready_number \in Int
      BY <1>1, Naturals
    <2> QED
      BY <1>1, <1>4, <2>1, <2>2, <2>3 DEF TypeInv
  <1>8. SlotInv
    BY <1>6 DEF SlotInv
  <1>9. AddInv
    BY <1>1, <1>4 DEF AddInv
  <1>10. EventInv /\ OwnInv
    BY <1>1, <1>4 DEF EventInv, OwnInv, AtSlot
  <1>11. NextReady = {}
    BY <1>6 DEF NextReady
  <1>12. WalkInv
    BY <1>1, <1>6, <1>11 DEF WalkInv, AtSlot
  <1>13. NoCrash
    BY <1>1 DEF NoCrash
  <1> QED
    BY <1>7, <1>8, <1>9, <1>10, <1>12, <1>13 DEF PollInv
-----------------------------------------------------------------------------
(* A request watches one more descriptor or one less, and changes none of  *)
(* the slots that the walk will still report.                              *)
Touches(fd) ==
    /\ Watched' \in {Watched \cup {fd}, Watched \ {fd}}
    /\ \A j \in NextReady : /\ event_set'[j].fd = event_set[j].fd
                            /\ event_set'[j].revents = event_set[j].revents

(* An operation that leaves revents alone, and of the slots ahead touches  *)
(* only those with nothing to report, does not disturb the walk.           *)
LEMMA WalkFrame ==
    ASSUME TypeInv, TypeInv', WalkInv,
           UNCHANGED <<index, ready_number, poll_fd, pc, back>>,
           \A i \in Slots : event_set'[i].revents = event_set[i].revents,
           \A i \in Slots : i > index /\ event_set'[i].fd < 0 => event_set[i].fd < 0,
           \A i \in Slots : i > index /\ event_set[i].fd >= 0 => event_set'[i].fd >= 0
    PROVE  WalkInv' /\ NextReady' = NextReady
  <1>1. \A i \in Slots : i > index /\ event_set[i].revents # {} /\ event_set'[i].fd >= 0
                             => event_set[i].fd >= 0
    <2>1. \A i \in Slots : event_set[i].fd >= 0 \/ event_set[i].fd < 0
      BY SlotTypes
    <2> QED
      BY <2>1 DEF WalkInv
  <1>2. NextReady' = NextReady
    BY <1>1 DEF NextReady
  <1>3. \A i \in Slots : i > index' /\ event_set'[i].fd < 0 => event_set'[i].revents = {}
    BY DEF WalkInv
  <1> QED
    BY <1>2, <1>3 DEF WalkInv, AtSlot

LEMMA HandleAddKeeps ==
    ASSUME PollInv, HandlePending, queue[1].type = "add"
    PROVE  PollInv' /\ NextReady' = NextReady /\ pc' = pc /\ \E fd \in Fds : Touches(fd)
  <1>0. TypeInv /\ SlotInv /\ AddInv /\ EventInv /\ OwnInv /\ WalkInv
    BY DEF PollInv
  <1>1. /\ pc = "drain" /\ queue # <<>> /\ queue' = Tail(queue)
        /\ UNCHANGED <<fresh, inbox, index, ready_number, poll_fd, back, posted>>
    BY DEF HandlePending, walk
  <1>2. /\ queue' \in Seq(Requests)
        /\ 1 \in 1..Len(queue) /\ Head(queue) = queue[1]
        /\ \A k \in 1..Len(queue') : /\ k + 1 \in 1..Len(queue) /\ k + 1 # 1
                                     /\ queue'[k] = queue[k + 1]
        /\ \A k \in 1..Len(queue) :
              k # 1 => k - 1 \in 1..Len(queue') /\ queue'[k - 1] = queue[k]
        /\ \A k, l \in 1..Len(queue') : k + 1 = l + 1 => k = l
    BY <1>0, <1>1, Taken
  <1>3. PICK fd \in Fds : fd = queue[1].fd
    BY <1>0, <1>2, QueueTypes
  <1>4. fd \notin fresh \cup map
    BY <1>0, <1>2, <1>3 DEF AddInv
  <1>5. pc' = pc /\ map' = map \cup {fd} /\ PollAdd(fd)
    BY <1>2, <1>3, <1>4 DEF HandlePending, HandleAdd
  <1>6. PICK i \in Slots :
           \/ event_set' = event_set
           \/ /\ event_set[i].fd < 0
              /\ event_set' = [event_set EXCEPT ![i] = [fd |-> fd,
                                                        revents |-> event_set[i].revents]]
    <2>1. 1 \in Slots
      BY Naturals DEF Slots
    <2> QED
      BY <1>0, <1>5, <2>1, AddEffect
  <1>7. fd \in Nat /\ fd >= 0 /\ ~(fd < 0)
    BY Naturals
  <1>8. \A j \in Slots :
           /\ event_set'[j].revents = event_set[j].revents
           /\ \/ event_set'[j] = event_set[j]
              \/ j = i /\ event_set[i].fd < 0 /\ event_set'[j].fd = fd
    BY <1>0, <1>6 DEF TypeInv
  <1>9. TypeInv'
    <2>1. event_set' \in [Slots -> Record]
      <3>1. event_set \in [Slots -> Record]
        BY <1>0 DEF TypeInv
      <3>2. [fd |-> fd, revents |-> event_set[i].revents] \in Record
        BY <1>0, SlotTypes DEF Record
      <3> QED
        BY <1>6, <3>1, <3>2
    <2>2. map' \subseteq Fds
      BY <1>0, <1>5 DEF TypeInv
    <2> QED
      BY <1>0, <1>1, <1>2, <1>5, <2>1, <2>2 DEF TypeInv
  <1>10. ASSUME NEW j \in Slots, event_set'[j].fd >= 0
         PROVE  \/ /\ event_set'[j] = event_set[j] /\ event_set[j].fd \in map
                   /\ event_set[j].fd # fd
                \/ j = i /\ event_set'[j].fd = fd
    BY <1>0, <1>4, <1>8, <1>10 DEF SlotInv
  <1>11. SlotInv'
    <2>1. ASSUME NEW j \in Slots, NEW k \in Slots,
                 event_set'[j].fd >= 0, event_set'[j].fd = event_set'[k].fd
          PROVE  j = k
      BY <1>0, <1>10, <2>1 DEF SlotInv
    <2>2. \A j \in Slots : event_set'[j].fd >= 0 => event_set'[j].fd \in map'
      BY <1>5, <1>10
    <2> QED
      BY <2>1, <2>2 DEF SlotInv
  <1>13. AddInv'
    <2>1. fresh' \cap map' = {}
      BY <1>0, <1>1, <1>4, <1>5 DEF AddInv
    <2>2. ASSUME NEW k \in 1..Len(queue'), queue'[k].type = "add"
          PROVE  /\ queue'[k].fd \notin fresh' \cup map'
                 /\ \A l \in 1..Len(queue') :
                       queue'[l].type = "add" /\ queue'[l].fd = queue'[k].fd => l = k
      <3>1. /\ k + 1 \in 1..Len(queue) /\ k + 1 # 1 /\ queue'[k] = queue[k + 1]
            /\ queue[k + 1].type = "add"
        BY <1>2, <2>2
      <3>2. queue[k + 1].fd \notin fresh \cup map /\ queue[k + 1].fd # fd
        BY <1>0, <1>2, <1>3, <3>1 DEF AddInv
      <3>3. ASSUME NEW l \in 1..Len(queue'), queue'[l].type = "add", queue'[l].fd = queue'[k].fd
            PROVE  l = k
        <4>1. l + 1 \in 1..Len(queue) /\ queue'[l] = queue[l + 1]
          BY <1>2
        <4>2. l + 1 = k + 1
          BY <1>0, <3>1, <3>3, <4>1 DEF AddInv
        <4> QED
          BY <1>2, <4>2
      <3> QED
        BY <1>1, <1>5, <3>1, <3>2, <3>3
    <2> QED
      BY <2>1, <2>2 DEF AddInv
  <1>14. EventInv'
    <2> SUFFICES ASSUME AtSlot PROVE EventInv'
      BY <1>1, <1>5 DEF EventInv, AtSlot
    <2>1. /\ index \in Slots
          /\ poll_fd.fd \in Fds \ fresh
          /\ poll_fd.fd # fd
          /\ "read" \notin poll_fd.revents
          /\ poll_fd.fd \in map => event_set[index].fd = poll_fd.fd
      BY <1>0, <1>1, <1>2, <1>3 DEF EventInv
    <2>2. \A k \in 1..Len(queue') : queue'[k].type = "add" => queue'[k].fd # poll_fd.fd
      BY <1>0, <1>2 DEF EventInv
    <2>3. poll_fd.fd \in map' <=> poll_fd.fd \in map
      BY <1>5, <2>1
    <2>4. poll_fd.fd \in map => event_set'[index].fd = poll_fd.fd
      <3>0. poll_fd.fd \in Nat
        BY <2>1, Naturals
      <3>1. poll_fd.fd >= 0 /\ ~(poll_fd.fd < 0)
        BY <3>0
      <3> QED
        BY <1>8, <2>1, <3>1
    <2> QED
      BY <1>1, <2>1, <2>2, <2>3, <2>4 DEF EventInv
  <1>15. OwnInv'
    <2> SUFFICES ASSUME NEW k \in 1..Len(queue'), queue'[k].type # "add"
                 PROVE  /\ pc' \in {"lock", "drain"} /\ back' = "event"
                        /\ queue'[k].fd = poll_fd'.fd /\ poll_fd'.fd \in map'
                        /\ \A l \in 1..Len(queue') : queue'[l].type # "add" => l = k
      BY DEF OwnInv
    <2>1. k + 1 \in 1..Len(queue) /\ queue'[k] = queue[k + 1]
      BY <1>2
    <2>2. /\ pc \in {"lock", "drain"} /\ back = "event"
          /\ queue[k + 1].fd = poll_fd.fd /\ poll_fd.fd \in map
          /\ \A l \in 1..Len(queue) : queue[l].type # "add" => l = k + 1
      BY <1>0, <2>1 DEF OwnInv
    <2>3. \A l \in 1..Len(queue') : queue'[l].type # "add" => l = k
      BY <1>2, <2>2
    <2> QED
      BY <1>1, <1>5, <2>1, <2>2, <2>3
  <1>16. WalkInv' /\ NextReady' = NextReady
    <2>1. \A j \in Slots : /\ event_set'[j].fd < 0 => event_set[j].fd < 0
                           /\ event_set[j].fd >= 0 => event_set'[j].fd >= 0
      BY <1>7, <1>8
    <2> QED
      BY <1>0, <1>1, <1>5, <1>8, <1>9, <2>1, WalkFrame
  <1>17. NoCrash'
    BY <1>1, <1>5 DEF NoCrash
  <1>18. Touches(fd)
    <2>1. event_set[i].fd < 0 => event_set[i].fd = -1 /\ ~(event_set[i].fd >= 0)
      BY <1>0, SlotTypes
    <2>2. event_set[i].fd < 0 => i \notin NextReady
      BY <2>1 DEF NextReady
    <2>3. \A j \in NextReady : /\ event_set'[j].fd = event_set[j].fd
                               /\ event_set'[j].revents = event_set[j].revents
      BY <1>8, <2>2 DEF NextReady
    <2>4. Watched' \in {Watched \cup {fd}, Watched \ {fd}}
      <3>1. CASE event_set' = event_set
        <4>1. fd \notin Watched
          BY <1>0, <1>4 DEF Watched, SlotInv
        <4>2. Watched' = Watched
          BY <3>1 DEF Watched
        <4> QED
          BY <4>1, <4>2
      <3>2. CASE /\ event_set[i].fd < 0
                 /\ event_set' = [event_set EXCEPT ![i] = [fd |-> fd,
                                                           revents |-> event_set[i].revents]]
        <4>1. event_set'[i].fd = fd /\ \A j \in Slots : j # i => event_set'[j] = event_set[j]
          BY <1>0, <3>2 DEF TypeInv
        <4>2. \A f : f \in Watched' <=> f \in Watched \/ f = fd
          BY <1>7, <2>1, <3>2, <4>1 DEF Watched
        <4> QED
          BY <4>2
      <3> QED
        BY <1>6, <3>1, <3>2
    <2> QED
      BY <2>3, <2>4 DEF Touches
  <1> QED
    BY <1>5, <1>9, <1>11, <1>13, <1>14, <1>15, <1>16, <1>17, <1>18 DEF PollInv

(* A request that is not an add is the removal that the callback of the    *)
(* slot in hand asked for.  Only adds are left, and the slot is freed.     *)
LEMMA HandleRemoveKeeps ==
    ASSUME PollInv, HandlePending, queue[1].type = "remove"
    PROVE  PollInv' /\ NextReady' = NextReady /\ pc' = pc /\ \E fd \in Fds : Touches(fd)
  <1>0. TypeInv /\ SlotInv /\ AddInv /\ EventInv /\ OwnInv /\ WalkInv
    BY DEF PollInv
  <1>1. /\ pc = "drain" /\ queue # <<>> /\ queue' = Tail(queue)
        /\ UNCHANGED <<fresh, inbox, index, ready_number, poll_fd, back, posted>>
    BY DEF HandlePending, walk
  <1>2. /\ queue' \in Seq(Requests)
        /\ 1 \in 1..Len(queue) /\ Head(queue) = queue[1]
        /\ \A k \in 1..Len(queue') : /\ k + 1 \in 1..Len(queue) /\ k + 1 # 1
                                     /\ queue'[k] = queue[k + 1]
        /\ \A k, l \in 1..Len(queue') : k + 1 = l + 1 => k = l
    BY <1>0, <1>1, Taken
  <1>3. /\ back = "event" /\ queue[1].fd = poll_fd.fd /\ poll_fd.fd \in map
        /\ \A l \in 1..Len(queue) : queue[l].type # "add" => l = 1
    BY <1>0, <1>2 DEF OwnInv
  <1>4. AtSlot
    BY <1>1, <1>3 DEF AtSlot
  <1>5. PICK fd \in Fds \ fresh : fd = poll_fd.fd
    BY <1>0, <1>4 DEF EventInv
  <1>6. /\ index \in Slots /\ event_set[index].fd = fd /\ "read" \notin poll_fd.revents
        /\ \A k \in 1..Len(queue) : queue[k].type = "add" => queue[k].fd # fd
    BY <1>0, <1>1, <1>3, <1>4, <1>5 DEF EventInv
  <1>7. \A k \in 1..Len(queue') : queue'[k].type = "add" /\ queue'[k].fd # fd
    BY <1>2, <1>3, <1>6
  <1>8. pc' = pc /\ map' = map \ {fd} /\ PollDelete(fd)
    BY <1>2, <1>3, <1>5 DEF HandlePending, HandleRemove
  <1>9. event_set' = [event_set EXCEPT ![index] = [fd |-> -1,
                                                   revents |-> event_set[index].revents]]
    BY <1>0, <1>6, <1>8, DeleteEffect
  <1>10. \A j \in Slots :
            /\ event_set'[j].revents = event_set[j].revents
            /\ j # index => event_set'[j] = event_set[j]
            /\ j = index => event_set'[j].fd = -1
    BY <1>0, <1>9 DEF TypeInv
  <1>11. TypeInv'
    <2>1. event_set' \in [Slots -> Record]
      <3>1. event_set \in [Slots -> Record]
        BY <1>0 DEF TypeInv
      <3>2. [fd |-> -1, revents |-> event_set[index].revents] \in Record
        BY <1>0, <1>6, SlotTypes DEF Record
      <3> QED
        BY <1>9, <3>1, <3>2
    <2> QED
      BY <1>0, <1>1, <1>2, <1>8, <2>1 DEF TypeInv
  <1>12. ASSUME NEW j \in Slots, event_set'[j].fd >= 0
         PROVE  j # index /\ event_set'[j] = event_set[j] /\ event_set[j].fd # fd
    <2>1. j # index
      BY <1>10, <1>12
    <2>2. event_set'[j] = event_set[j]
      BY <1>10, <2>1
    <2>3. event_set[j].fd # event_set[index].fd
      BY <1>0, <1>6, <1>12, <2>1, <2>2 DEF SlotInv
    <2> QED
      BY <1>6, <2>1, <2>2, <2>3
  <1>13. SlotInv'
    <2>1. ASSUME NEW j \in Slots, NEW k \in Slots,
                 event_set'[j].fd >= 0, event_set'[j].fd = event_set'[k].fd
          PROVE  j = k
      BY <1>0, <1>12, <2>1 DEF SlotInv
    <2>2. \A j \in Slots : event_set'[j].fd >= 0 => event_set'[j].fd \in map'
      BY <1>0, <1>8, <1>12 DEF SlotInv
    <2> QED
      BY <2>1, <2>2 DEF SlotInv
  <1>14. AddInv'
    <2>1. fresh' \cap map' = {}
      BY <1>0, <1>1, <1>8 DEF AddInv
    <2>2. ASSUME NEW k \in 1..Len(queue')
          PROVE  /\ queue'[k].fd \notin fresh' \cup map'
                 /\ \A l \in 1..Len(queue') : queue'[l].fd = queue'[k].fd => l = k
      <3>1. /\ k + 1 \in 1..Len(queue) /\ queue'[k] = queue[k + 1]
            /\ queue[k + 1].type = "add"
        BY <1>2, <1>7
      <3>2. queue[k + 1].fd \notin fresh \cup map
        BY <1>0, <3>1 DEF AddInv
      <3>3. ASSUME NEW l \in 1..Len(queue'), queue'[l].fd = queue'[k].fd
            PROVE  l = k
        <4>1. l + 1 \in 1..Len(queue) /\ queue'[l] = queue[l + 1] /\ queue[l + 1].type = "add"
          BY <1>2, <1>7
        <4>2. l + 1 = k + 1
          BY <1>0, <3>1, <3>3, <4>1 DEF AddInv
        <4> QED
          BY <1>2, <4>2
      <3> QED
        BY <1>1, <1>8, <3>1, <3>2, <3>3
    <2> QED
      BY <2>1, <2>2 DEF AddInv
  <1>15. OwnInv'
    BY <1>7 DEF OwnInv
  <1>16. EventInv'
    <2>1. poll_fd' = poll_fd /\ index' \in Slots /\ poll_fd.fd \in Fds \ fresh'
      BY <1>1, <1>5, <1>6
    <2>2. poll_fd.fd \notin map'
      BY <1>5, <1>8
    <2> QED
      BY <1>5, <1>6, <1>7, <2>1, <2>2 DEF EventInv
  <1>17. WalkInv' /\ NextReady' = NextReady
    <2>1. \A j \in Slots : j > index => j # index
      BY <1>6 DEF Slots
    <2> QED
      BY <1>0, <1>1, <1>8, <1>10, <1>11, <2>1, WalkFrame
  <1>18. NoCrash'
    BY <1>1, <1>8 DEF NoCrash
  <1>19. Touches(fd)
    <2>1. index \notin NextReady
      BY <1>6 DEF NextReady, Slots
    <2>2. \A j \in NextReady : /\ event_set'[j].fd = event_set[j].fd
                               /\ event_set'[j].revents = event_set[j].revents
      BY <1>10, <2>1 DEF NextReady
    <2>3. ASSUME NEW f PROVE f \in Watched' <=> f \in Watched /\ f # fd
      <3>1. f \in Watched' => f \in Watched /\ f # fd
        BY <1>12 DEF Watched
      <3>2. ASSUME f \in Watched, f # fd PROVE f \in Watched'
        <4>1. PICK j \in Slots : event_set[j].fd >= 0 /\ f = event_set[j].fd
          BY <3>2 DEF Watched
        <4>2. j # index
          BY <1>6, <3>2, <4>1
        <4>3. event_set'[j] = event_set[j]
          BY <1>10, <4>2
        <4> QED
          BY <4>1, <4>3 DEF Watched
      <3> QED
        BY <3>1, <3>2
    <2>4. Watched' = Watched \ {fd}
      BY <2>3
    <2> QED
      BY <2>2, <2>4 DEF Touches
  <1> QED
    BY <1>5, <1>8, <1>11, <1>13, <1>14, <1>15, <1>16, <1>17, <1>18, <1>19 DEF PollInv
-----------------------------------------------------------------------------
(* A connection is handed over: by another thread, or by the callback of   *)
(* the acceptor's channel.                                                 *)
LEMMA HandedOver ==
    ASSUME PollInv, NEW fd \in fresh, fresh' = fresh \ {fd}, map' = map,
           queue' = Append(queue, [type |-> "add", fd |-> fd])
    PROVE  /\ queue' \in Seq(Requests) /\ AddInv'
           /\ \A k \in 1..Len(queue') :
                 \/ k \in 1..Len(queue) /\ queue'[k] = queue[k]
                 \/ queue'[k].type = "add" /\ queue'[k].fd = fd
  <1>0. TypeInv /\ AddInv
    BY DEF PollInv
  <1> DEFINE r == [type |-> "add", fd |-> fd]
  <1>1. r \in Requests /\ r.type = "add" /\ r.fd = fd
    BY <1>0, Naturals DEF Requests, TypeInv
  <1> HIDE DEF r
  <1>2. /\ queue' \in Seq(Requests)
        /\ \A k \in 1..Len(queue) : k \in 1..Len(queue') /\ queue'[k] = queue[k]
        /\ \A k \in 1..Len(queue') : \/ k \in 1..Len(queue) /\ queue'[k] = queue[k]
                                     \/ k = Len(queue) + 1 /\ queue'[k] = r
    BY <1>0, <1>1, Appended DEF r
  <1>3. fd \notin map /\ \A k \in 1..Len(queue) : queue[k].type = "add" => queue[k].fd # fd
    BY <1>0 DEF AddInv
  <1>4. AddInv'
    <2>1. fresh' \cap map' = {}
      BY <1>0 DEF AddInv
    <2>2. ASSUME NEW k \in 1..Len(queue'), queue'[k].type = "add"
          PROVE  queue'[k].fd \notin fresh' \cup map'
      BY <1>0, <1>1, <1>2, <1>3, <2>2 DEF AddInv
    <2>3. ASSUME NEW k \in 1..Len(queue'), NEW l \in 1..Len(queue'), queue'[k].type = "add",
                 queue'[l].type = "add", queue'[l].fd = queue'[k].fd
          PROVE  l = k
      <3>1. CASE k \in 1..Len(queue) /\ queue'[k] = queue[k]
        <4>1. queue'[l] # r
          BY <1>1, <1>3, <2>3, <3>1
        <4>2. l \in 1..Len(queue) /\ queue'[l] = queue[l]
          BY <1>2, <4>1
        <4> QED
          BY <1>0, <2>3, <3>1, <4>2 DEF AddInv
      <3>2. CASE k = Len(queue) + 1 /\ queue'[k] = r
        <4>1. ~(l \in 1..Len(queue) /\ queue'[l] = queue[l])
          BY <1>1, <1>3, <2>3, <3>2
        <4> QED
          BY <1>2, <3>2, <4>1
      <3> QED
        BY <1>2, <3>1, <3>2
    <2> QED
      BY <2>1, <2>2, <2>3 DEF AddInv
  <1> QED
    BY <1>1, <1>2, <1>4

LEMMA PostKeeps ==
    ASSUME PollInv, NEW fd \in Fds, Post(fd)
    PROVE  PollInv' /\ NextReady' = NextReady
  <1>0. /\ TypeInv /\ SlotInv /\ EventInv /\ OwnInv /\ WalkInv
        /\ UNCHANGED <<event_set, map, index, ready_number, poll_fd, pc, back, posted>>
        /\ pc \notin {"drain", "crashed"}
        /\ fd \in fresh /\ fresh' = fresh \ {fd}
        /\ queue' = Append(queue, [type |-> "add", fd |-> fd])
        /\ inbox' = [inbox EXCEPT ![WakeFd] = @ + 1]
    BY DEF PollInv, Post, tables, walk
  <1>1. /\ queue' \in Seq(Requests) /\ AddInv'
        /\ \A k \in 1..Len(queue') :
              \/ k \in 1..Len(queue) /\ queue'[k] = queue[k]
              \/ queue'[k].type = "add" /\ queue'[k].fd = fd
    BY <1>0, HandedOver
  <1>2. TypeInv'
    <2>1. inbox' \in [Fds -> Int]
      BY <1>0, Naturals DEF TypeInv
    <2> QED
      BY <1>0, <1>1, <2>1 DEF TypeInv
  <1>3. SlotInv'
    BY <1>0 DEF SlotInv
  <1>4. EventInv'
    <2> SUFFICES ASSUME AtSlot PROVE EventInv'
      BY <1>0 DEF EventInv, AtSlot
    <2>1. \A k \in 1..Len(queue') : queue'[k].type = "add" => queue'[k].fd # poll_fd.fd
      BY <1>0, <1>1 DEF EventInv
    <2> QED
      BY <1>0, <2>1 DEF EventInv
  <1>5. OwnInv'
    <2>1. \A k \in 1..Len(queue') : queue'[k].type # "add" =>
              k \in 1..Len(queue) /\ queue'[k] = queue[k]
      BY <1>1
    <2> QED
      BY <1>0, <2>1 DEF OwnInv
  <1>6. WalkInv' /\ NextReady' = NextReady
    <2>1. NextReady' = NextReady
      BY <1>0 DEF NextReady
    <2> QED
      BY <1>0, <2>1 DEF WalkInv, AtSlot
  <1>7. NoCrash'
    BY <1>0 DEF NoCrash
  <1> QED
    BY <1>1, <1>2, <1>3, <1>4, <1>5, <1>6, <1>7 DEF PollInv

LEMMA ArriveKeeps ==
    ASSUME PollInv, NEW fd \in Fds, Arrive(fd)
    PROVE  PollInv' /\ NextReady' = NextReady
  <1>1. /\ UNCHANGED <<event_set, map, queue, fresh, index, ready_number, poll_fd,
                       pc, back, posted>>
        /\ inbox' = [inbox EXCEPT ![fd] = 1]
    BY DEF Arrive, tables, walk
  <1>2. TypeInv'
    <2>1. inbox' \in [Fds -> Int]
      BY <1>1 DEF PollInv, TypeInv
    <2> QED
      BY <1>1, <2>1 DEF PollInv, TypeInv
  <1>3. NextReady' = NextReady
    BY <1>1 DEF NextReady
  <1>4. SlotInv' /\ AddInv'
    BY <1>1 DEF PollInv, SlotInv, AddInv
  <1>5. EventInv' /\ OwnInv'
    BY <1>1 DEF PollInv, EventInv, OwnInv, AtSlot
  <1>6. WalkInv' /\ NoCrash'
    BY <1>1, <1>3 DEF PollInv, WalkInv, AtSlot, NoCrash
  <1> QED
    BY <1>2, <1>3, <1>4, <1>5, <1>6 DEF PollInv

LEMMA DrainKeeps ==
    ASSUME PollInv, DrainLock \/ DrainEnd
    PROVE  PollInv' /\ NextReady' = NextReady
  <1>1. /\ UNCHANGED <<event_set, map, queue, fresh, inbox, index, ready_number, poll_fd,
                       back, posted>>
        /\ \/ pc = "lock" /\ pc' = "drain"
           \/ pc = "drain" /\ queue = <<>> /\ pc' = back
    BY DEF DrainLock, DrainEnd, tables, world, walk
  <1>2. back \in {"poll", "event"}
    BY DEF PollInv, TypeInv
  <1>3. TypeInv'
    BY <1>1 DEF PollInv, TypeInv
  <1>4. NextReady' = NextReady
    BY <1>1 DEF NextReady
  <1>5. SlotInv' /\ AddInv'
    BY <1>1 DEF PollInv, SlotInv, AddInv
  <1>6. AtSlot' <=> AtSlot
    BY <1>1, <1>2 DEF AtSlot
  <1>7. EventInv'
    BY <1>1, <1>6 DEF PollInv, EventInv
  <1>8. OwnInv'
    <2>1. queue = <<>> => 1..Len(queue) = {}
      OBVIOUS
    <2> QED
      BY <1>1, <2>1 DEF PollInv, OwnInv
  <1>9. WalkInv' /\ NoCrash'
    BY <1>1, <1>2, <1>4, <1>6 DEF PollInv, WalkInv, NoCrash
  <1> QED
    BY <1>3, <1>4, <1>5, <1>7, <1>8, <1>9 DEF PollInv
-----------------------------------------------------------------------------
(* What poll leaves behind: the walk starts at the front, with the slots   *)
(* ahead that poll found something for.                                    *)
LEMMA PollKeeps ==
    ASSUME PollInv, Poll
    PROVE  /\ PollInv'
           /\ \A i \in Slots : event_set'[i].fd = event_set[i].fd
           /\ NextReady = {}
  <1>0. /\ TypeInv /\ SlotInv /\ AddInv /\ OwnInv /\ WalkInv
        /\ pc = "poll" /\ back = "poll" /\ NextReady = {}
    BY DEF PollInv, Poll, WalkInv
  <1>1. /\ UNCHANGED <<map, queue, fresh, inbox, poll_fd, posted>>
        /\ index' = 0
        /\ ready_number' = Cardinality({i \in Slots : event_set'[i].revents # {}})
        /\ \/ ready_number' = 0 /\ pc' = "lock" /\ back' = "poll"
           \/ ready_number' > 0 /\ pc' = "walk" /\ back' = back
    BY DEF Poll, world
  <1>2. PICK failed : event_set' = [i \in Slots |->
                                      [event_set[i] EXCEPT
                                         !.revents = Polled(event_set[i], failed)]]
    BY DEF Poll
  <1>3. ASSUME NEW slot PROVE Polled(slot, failed) \in SUBSET {"read", "error"}
    BY DEF Polled
  <1>4. \A i \in Slots : /\ event_set'[i].fd = event_set[i].fd
                         /\ event_set'[i].fd < 0 => event_set'[i].revents = {}
                         /\ event_set'[i] \in Record
    <2> SUFFICES ASSUME NEW i \in Slots
                 PROVE  /\ event_set'[i].fd = event_set[i].fd
                        /\ event_set'[i].fd < 0 => event_set'[i].revents = {}
                        /\ event_set'[i] \in Record
      OBVIOUS
    <2> DEFINE w == Polled(event_set[i], failed)
    <2>1. event_set[i] \in Record
      BY <1>0, SlotTypes
    <2>2. w \in SUBSET {"read", "error"} /\ (event_set[i].fd < 0 => w = {})
      BY <1>3 DEF Polled
    <2>3. event_set'[i] = [event_set[i] EXCEPT !.revents = w]
      BY <1>2
    <2> HIDE DEF w
    <2>4. event_set'[i] = [fd |-> event_set[i].fd, revents |-> w]
      BY <2>1, <2>3 DEF Record
    <2>5. event_set[i].fd \in Fds \cup {-1}
      BY <1>0, SlotTypes
    <2>6. event_set'[i] \in Record
      BY <2>2, <2>4, <2>5 DEF Record
    <2> QED
      BY <2>2, <2>4, <2>6
  <1>5. NextReady' = {i \in Slots : event_set'[i].revents # {}}
    <2>1. \A i \in Slots : i > index'
      BY <1>1 DEF Slots
    <2>2. \A i \in Slots : event_set'[i].fd >= 0 \/ event_set'[i].fd < 0
      BY <1>0, <1>4, SlotTypes
    <2> QED
      BY <1>4, <2>1, <2>2 DEF NextReady
  <1>6. IsFiniteSet(NextReady') /\ ready_number' = Cardinality(NextReady')
        /\ ready_number' \in Nat /\ (ready_number' = 0 <=> NextReady' = {})
    <2>1. IsFiniteSet(Slots)
      BY Naturals, FS_Interval DEF Slots
    <2>2. NextReady' \in SUBSET Slots
      BY <1>5
    <2>3. IsFiniteSet(NextReady')
      BY <2>1, <2>2, FS_Subset
    <2> QED
      BY <1>1, <1>5, <2>3, FS_EmptySet, FS_CardinalityType
  <1>7. TypeInv'
    <2>1. event_set' \in [Slots -> Record]
      <3>1. \E f : event_set' = [i \in Slots |-> f[i]]
        <4> DEFINE f == [i \in Slots |-> [event_set[i] EXCEPT
                                            !.revents = Polled(event_set[i], failed)]]
        <4>1. event_set' = f /\ f = [i \in Slots |-> f[i]]
          BY <1>2
        <4> HIDE DEF f
        <4> QED
          BY <4>1
      <3> QED
        BY <1>4, <3>1
    <2>2. index' \in 0..PollMax
      BY <1>1, Naturals
    <2>3. ready_number' \in Int
      BY <1>6
    <2> QED
      BY <1>0, <1>1, <2>1, <2>2, <2>3 DEF TypeInv
  <1>8. SlotInv' /\ AddInv'
    BY <1>0, <1>1, <1>4 DEF SlotInv, AddInv
  <1>9. ~AtSlot' /\ pc' \in {"lock", "walk"} /\ back' = "poll"
    BY <1>0, <1>1 DEF AtSlot
  <1>10. EventInv' /\ OwnInv'
    BY <1>0, <1>1, <1>9 DEF EventInv, OwnInv
  <1>11. WalkInv'
    BY <1>1, <1>4, <1>6, <1>9 DEF WalkInv
  <1>12. NoCrash'
    BY <1>9 DEF NoCrash
  <1> QED
    BY <1>0, <1>4, <1>7, <1>8, <1>9, <1>10, <1>11, <1>12 DEF PollInv

LEMMA TakeSlotKeeps ==
    ASSUME PollInv, TakeSlot
    PROVE  /\ PollInv'
           /\ index' \in NextReady /\ NextReady' = NextReady \ {index'}
           /\ poll_fd' = event_set[index']
  <1>0. /\ TypeInv /\ SlotInv /\ AddInv /\ OwnInv /\ WalkInv
        /\ pc = "walk" /\ NextReady # {}
    BY DEF PollInv, TakeSlot
  <1>1. /\ UNCHANGED <<event_set, map, queue, fresh, inbox, ready_number, back, posted>>
        /\ index' = Min(NextReady) /\ poll_fd' = event_set[Min(NextReady)] /\ pc' = "event"
    BY DEF TakeSlot, tables, world
  <1>2. PICK m \in NextReady : m = Min(NextReady) /\ \A k \in NextReady : m <= k
    BY <1>0, AheadFinite, LeastSlot
  <1>3. /\ m \in Slots /\ m > index /\ event_set[m].fd >= 0
        /\ event_set[m] \in Record /\ event_set[m].fd \in Fds
    BY <1>0, <1>2, SlotTypes DEF NextReady
  <1>4. index' = m /\ poll_fd' = event_set[m]
    BY <1>1, <1>2
  <1>5. NextReady' = NextReady \ {m}
    <2>1. \A k \in Slots : k > m <=> (k >= m /\ k # m)
      BY <1>3 DEF Slots
    <2>2. \A k \in Slots : k > m => k > index
      BY <1>0, <1>3 DEF Slots, TypeInv
    <2>3. \A k \in NextReady : k \in Slots /\ k >= m
      BY <1>2, <1>3 DEF NextReady, Slots
    <2> QED
      BY <1>1, <1>4, <2>1, <2>2, <2>3 DEF NextReady
  <1>6. Cardinality(NextReady) = Cardinality(NextReady') + 1
    <2>1. Cardinality(NextReady') = Cardinality(NextReady) - 1
      BY <1>2, <1>5, AheadFinite, FS_RemoveElement
    <2> QED
      BY <2>1, AheadFinite
  <1>7. TypeInv'
    <2>1. index' \in 0..PollMax
      BY <1>3, <1>4, Naturals DEF Slots
    <2> QED
      BY <1>0, <1>1, <1>3, <1>4, <2>1 DEF TypeInv
  <1>8. SlotInv' /\ AddInv'
    BY <1>0, <1>1 DEF SlotInv, AddInv
  <1>9. EventInv'
    <2>1. event_set[m].fd \in map
      BY <1>0, <1>3 DEF SlotInv
    <2>2. /\ event_set[m].fd \notin fresh
          /\ \A k \in 1..Len(queue) : queue[k].type = "add" => queue[k].fd # event_set[m].fd
      BY <1>0, <2>1 DEF AddInv
    <2> QED
      BY <1>1, <1>3, <1>4, <2>1, <2>2 DEF EventInv
  <1>10. OwnInv'
    BY <1>0, <1>1 DEF OwnInv
  <1>11. WalkInv'
    <2>1. \A i \in Slots : i > m => i > index
      BY <1>0, <1>3 DEF Slots, TypeInv
    <2> QED
      BY <1>0, <1>1, <1>4, <1>6, <2>1 DEF WalkInv
  <1>12. NoCrash'
    BY <1>1 DEF NoCrash
  <1> QED
    BY <1>2, <1>4, <1>5, <1>7, <1>8, <1>9, <1>10, <1>11, <1>12 DEF PollInv

LEMMA SlotDoneKeeps ==
    ASSUME PollInv, SlotDone
    PROVE  /\ PollInv' /\ NextReady' = NextReady
           /\ pc' \in {"lock", "walk"} /\ (pc' = "lock" => back' = "poll")
  <1>0. /\ TypeInv /\ SlotInv /\ AddInv /\ OwnInv /\ WalkInv
        /\ pc = "event" /\ "read" \notin poll_fd.revents /\ AtSlot
    BY DEF PollInv, SlotDone, AtSlot
  <1>1. /\ UNCHANGED <<event_set, map, queue, fresh, inbox, index, poll_fd, posted>>
        /\ ready_number' = ready_number - 1
        /\ \/ /\ ready_number' <= 0 \/ NextReady = {}
              /\ pc' = "lock" /\ back' = "poll"
           \/ /\ ready_number' > 0 /\ NextReady # {}
              /\ pc' = "walk" /\ back' = back
    BY DEF SlotDone, tables, world
  <1>2. NextReady' = NextReady
    BY <1>1 DEF NextReady
  <1>3. ready_number = Cardinality(NextReady) + 1
    BY <1>0 DEF WalkInv
  <1>4. /\ ready_number' = Cardinality(NextReady') /\ ready_number' \in Int
        /\ ready_number' <= 0 => NextReady = {}
    BY <1>1, <1>2, <1>3, AheadFinite
  <1>5. TypeInv'
    BY <1>0, <1>1, <1>4 DEF TypeInv
  <1>6. SlotInv' /\ AddInv'
    BY <1>0, <1>1 DEF SlotInv, AddInv
  <1>7. ~AtSlot'
    BY <1>1 DEF AtSlot
  <1>8. EventInv' /\ OwnInv'
    BY <1>0, <1>1, <1>7 DEF EventInv, OwnInv
  <1>9. WalkInv'
    BY <1>0, <1>1, <1>2, <1>4, <1>7 DEF WalkInv
  <1>10. NoCrash'
    BY <1>1 DEF NoCrash
  <1> QED
    BY <1>1, <1>2, <1>5, <1>6, <1>8, <1>9, <1>10 DEF PollInv
-----------------------------------------------------------------------------
(* The read callback of the slot in hand.                                  *)
LEMMA DeliverKeeps ==
    ASSUME PollInv, Deliver
    PROVE  /\ PollInv' /\ NextReady' = NextReady
           /\ poll_fd'.fd = poll_fd.fd /\ "read" \notin poll_fd'.revents
           /\ poll_fd.fd \in map /\ event_set[index].fd = poll_fd.fd /\ index \in Slots
  <1>0. /\ TypeInv /\ SlotInv /\ AddInv /\ EventInv /\ OwnInv /\ WalkInv
        /\ pc = "event" /\ "read" \in poll_fd.revents /\ AtSlot
    BY DEF PollInv, Deliver, AtSlot
  <1>1. /\ UNCHANGED <<event_set, map, index, ready_number, posted>>
        /\ poll_fd' = [poll_fd EXCEPT !.revents = @ \ {"read"}]
        /\ Activate(poll_fd.fd)
    BY DEF Deliver, tables
  <1>2. NextReady' = NextReady
    BY <1>1 DEF NextReady
  <1>3. poll_fd' \in Record /\ poll_fd'.fd = poll_fd.fd /\ "read" \notin poll_fd'.revents
    <2>1. poll_fd \in Record
      BY <1>0 DEF TypeInv
    <2>2. poll_fd' = [fd |-> poll_fd.fd, revents |-> poll_fd.revents \ {"read"}]
      BY <1>1, <2>1 DEF Record
    <2>3. /\ poll_fd.fd \in Fds \cup {-1}
          /\ poll_fd.revents \ {"read"} \subseteq {"read", "error"}
      BY <2>1 DEF Record
    <2> QED
      BY <2>2, <2>3 DEF Record
  <1>4. PICK fd \in Fds \ fresh : fd = poll_fd.fd
    BY <1>0 DEF EventInv
  <1>5. /\ index \in Slots /\ fd \in map /\ event_set[index].fd = fd
        /\ \A k \in 1..Len(queue) : queue[k].type = "add" /\ queue[k].fd # fd
    BY <1>0, <1>4 DEF EventInv, OwnInv
  <1>6. SlotInv'
    BY <1>0, <1>1 DEF SlotInv
  <1>7. ReadCallback(fd)
    BY <1>1, <1>4, <1>5 DEF Activate
  <1>8. /\ inbox' \in [Fds -> Int]
        /\ \/ (Return \/ SwitchWrite) /\ fresh' = fresh
           \/ Ask("remove", fd) /\ fresh' = fresh
           \/ \E new \in fresh : fresh' = fresh \ {new} /\ Ask("add", new)
    <2>1. inbox \in [Fds -> Int]
      BY <1>0 DEF TypeInv
    <2>2. /\ [inbox EXCEPT ![fd] = 0] \in [Fds -> Int]
          /\ [inbox EXCEPT ![fd] = @ - 1] \in [Fds -> Int]
      BY <2>1
    <2> QED
      BY <1>7, <2>2 DEF ReadCallback
  <1>9. CASE (Return \/ SwitchWrite) /\ fresh' = fresh
    <2>1. pc' \in {"event", "undefined"} /\ UNCHANGED <<queue, back>>
      BY <1>9 DEF Return, SwitchWrite
    <2>2. TypeInv'
      BY <1>0, <1>1, <1>3, <1>8, <1>9, <2>1 DEF TypeInv
    <2>3. AddInv'
      BY <1>0, <1>1, <1>9, <2>1 DEF AddInv
    <2>4. EventInv' /\ OwnInv'
      BY <1>1, <1>3, <1>4, <1>5, <1>9, <2>1 DEF EventInv, OwnInv
    <2>5. WalkInv' /\ NoCrash'
      BY <1>0, <1>1, <1>2, <2>1 DEF WalkInv, AtSlot, NoCrash
    <2> QED
      BY <1>2, <1>3, <1>4, <1>5, <1>6, <2>2, <2>3, <2>4, <2>5 DEF PollInv
  <1>10. CASE Ask("remove", fd) /\ fresh' = fresh
    <2> DEFINE r == [type |-> "remove", fd |-> fd]
    <2>1. r \in Requests /\ r.type = "remove" /\ r.fd = fd
      BY DEF Requests
    <2>2. queue' = Append(queue, r) /\ pc' = "lock" /\ back' = "event"
      BY <1>10 DEF Ask
    <2> HIDE DEF r
    <2>3. /\ queue' \in Seq(Requests)
          /\ \A k \in 1..Len(queue') : \/ k \in 1..Len(queue) /\ queue'[k] = queue[k]
                                       \/ k = Len(queue) + 1 /\ queue'[k] = r
      BY <1>0, <2>1, <2>2, Appended
    <2>4. \A k \in 1..Len(queue') :
             \/ /\ k \in 1..Len(queue) /\ queue'[k] = queue[k]
                /\ queue'[k].type = "add" /\ queue'[k].fd # fd
             \/ k = Len(queue) + 1 /\ queue'[k].type = "remove" /\ queue'[k].fd = fd
      BY <1>5, <2>1, <2>3
    <2>5. TypeInv'
      BY <1>0, <1>1, <1>3, <1>8, <1>10, <2>2, <2>3 DEF TypeInv
    <2>6. AddInv'
      <3>1. \A k \in 1..Len(queue') : queue'[k].type = "add" =>
                k \in 1..Len(queue) /\ queue'[k] = queue[k]
        BY <2>4
      <3> QED
        BY <1>0, <1>1, <1>10, <3>1 DEF AddInv
    <2>7. EventInv'
      <3>1. \A k \in 1..Len(queue') : queue'[k].type = "add" => queue'[k].fd # fd
        BY <2>4
      <3> QED
        BY <1>1, <1>3, <1>4, <1>5, <1>10, <3>1 DEF EventInv
    <2>8. OwnInv'
      <3>1. \A k \in 1..Len(queue') : queue'[k].type # "add" =>
                k = Len(queue) + 1 /\ queue'[k].fd = fd
        BY <2>4
      <3> QED
        BY <1>1, <1>3, <1>4, <1>5, <2>2, <3>1 DEF OwnInv
    <2>9. WalkInv' /\ NoCrash'
      BY <1>0, <1>1, <1>2, <2>2 DEF WalkInv, NoCrash
    <2> QED
      BY <1>2, <1>3, <1>4, <1>5, <1>6, <2>5, <2>6, <2>7, <2>8, <2>9 DEF PollInv
  <1>11. CASE \E new \in fresh : fresh' = fresh \ {new} /\ Ask("add", new)
    <2>1. PICK new \in fresh : fresh' = fresh \ {new} /\ Ask("add", new)
      BY <1>11
    <2>2. /\ queue' = Append(queue, [type |-> "add", fd |-> new])
          /\ pc' = "lock" /\ back' = "event"
      BY <2>1 DEF Ask
    <2>3. /\ queue' \in Seq(Requests) /\ AddInv'
          /\ \A k \in 1..Len(queue') :
                \/ k \in 1..Len(queue) /\ queue'[k] = queue[k]
                \/ queue'[k].type = "add" /\ queue'[k].fd = new
      BY <1>1, <2>1, <2>2, HandedOver
    <2>4. \A k \in 1..Len(queue') : queue'[k].type = "add" /\ queue'[k].fd # fd
      <3>1. new # fd
        BY <1>4, <2>1
      <3> QED
        BY <1>5, <2>3, <3>1
    <2>5. TypeInv'
      BY <1>0, <1>1, <1>3, <1>8, <2>1, <2>2, <2>3 DEF TypeInv
    <2>6. EventInv' /\ OwnInv'
      BY <1>1, <1>3, <1>4, <1>5, <2>1, <2>4 DEF EventInv, OwnInv
    <2>7. WalkInv' /\ NoCrash'
      BY <1>0, <1>1, <1>2, <2>2 DEF WalkInv, NoCrash
    <2> QED
      BY <1>2, <1>3, <1>4, <1>5, <1>6, <2>3, <2>5, <2>6, <2>7 DEF PollInv
  <1> QED
    BY <1>8, <1>9, <1>10, <1>11
-----------------------------------------------------------------------------
LEMMA HandleKeeps ==
    ASSUME PollInv, HandlePending
    PROVE  PollInv' /\ NextReady' = NextReady /\ pc' = pc /\ \E fd \in Fds : Touches(fd)
  <1>1. queue # <<>> /\ queue' = Tail(queue)
    BY DEF HandlePending
  <1>2. 1 \in 1..Len(queue)
    BY <1>1, Taken DEF PollInv
  <1>3. queue[1].type \in {"add", "remove"}
    BY <1>2, QueueTypes DEF PollInv
  <1> QED
    BY <1>3, HandleAddKeeps, HandleRemoveKeeps

LEMMA StepKeeps == PollInv /\ [Next]_vars => PollInv'
  <1> SUFFICES ASSUME PollInv, [Next]_vars PROVE PollInv'
    OBVIOUS
  <1>1. CASE OwnerNext
    BY <1>1, DrainKeeps, HandleKeeps, PollKeeps, TakeSlotKeeps, SlotDoneKeeps, DeliverKeeps
       DEF OwnerNext, PollDispatch
  <1>2. CASE \E fd \in Fds : Post(fd) \/ Arrive(fd)
    BY <1>2, PostKeeps, ArriveKeeps
  <1>3. CASE UNCHANGED vars
    <2>1. UNCHANGED <<event_set, map, queue, fresh, inbox, index, ready_number, poll_fd,
                      pc, back, posted>>
      BY <1>3 DEF vars, tables, world, walk
    <2>2. NextReady' = NextReady
      BY <2>1 DEF NextReady
    <2>3. TypeInv' /\ SlotInv' /\ AddInv'
      BY <2>1 DEF PollInv, TypeInv, SlotInv, AddInv
    <2>4. EventInv' /\ OwnInv' /\ WalkInv' /\ NoCrash'
      BY <2>1, <2>2 DEF PollInv, EventInv, OwnInv, WalkInv, AtSlot, NoCrash
    <2> QED
      BY <2>3, <2>4 DEF PollInv
  <1> QED
    BY <1>1, <1>2, <1>3 DEF Next

LEMMA Invariance == Spec => []PollInv
  BY PollInit, StepKeeps, PTL DEF Spec

LEMMA SlotsMatch == PollInv => SlotsMatchMap
  <1> SUFFICES ASSUME PollInv PROVE SlotsMatchMap
    OBVIOUS
  <1>1. TypeInv /\ SlotInv
    BY DEF PollInv
  <1>2. ASSUME NEW fd \in Fds PROVE Cardinality(Holding(fd)) <= 1
    <2>1. CASE Holding(fd) = {}
      <3>1. Cardinality({}) = 0
        BY FS_EmptySet
      <3> QED
        BY <2>1, <3>1
    <2>2. CASE Holding(fd) # {}
      <3>1. PICK i \in Slots : event_set[i].fd = fd
        BY <2>2 DEF Holding
      <3>2. Holding(fd) = {i}
        BY <1>1, <3>1, HoldingOne
      <3>3. Cardinality({i}) = 1
        BY FS_Singleton
      <3> QED
        BY <3>2, <3>3
    <2> QED
      BY <2>1, <2>2
  <1> QED
    BY <1>1, <1>2 DEF SlotsMatchMap, SlotInv

(* poll_add and poll_delete keep one slot for a descriptor at most, and    *)
(* only for one with a channel, for every number of connections and slots. *)
THEOREM OneSlotEach == Spec => []SlotsMatchMap
  BY Invariance, SlotsMatch, PTL

(* poll_dispatch calls no callback of a channel that another callback of   *)
(* the round freed, and no channel is removed that is not in the map.      *)
THEOREM PollNeverCrashes == Spec => []NoCrash
  BY Invariance, PTL DEF PollInv
-----------------------------------------------------------------------------
(***************************************************************************)
(* The array as a dispatcher.                                              *)
(***************************************************************************)

(* What is due: the slots ahead that can be read, and the slot in hand     *)
(* before its callback is called.                                          *)
AheadDue(fd) == \E i \in NextReady : fd = event_set[i].fd /\ "read" \in event_set[i].revents
HandDue(fd) == fd = poll_fd.fd /\ pc = "event" /\ "read" \in poll_fd.revents

DueIs == \A fd : fd \in Due <=> AheadDue(fd) \/ HandDue(fd)

LEMMA DueMembers == DueIs
  BY DEF DueIs, Due, AheadDue, HandDue

LEMMA DueNext == DueIs'
  BY DueMembers, PTL

(* A step that changes neither what is ahead nor what is in hand.          *)
LEMMA DueKept ==
    ASSUME NextReady' = NextReady, \A fd : HandDue(fd)' <=> HandDue(fd),
           \A j \in NextReady : /\ event_set'[j].fd = event_set[j].fd
                                /\ event_set'[j].revents = event_set[j].revents
    PROVE  Due' = Due
  <1>1. \A fd : AheadDue(fd)' <=> AheadDue(fd)
    BY DEF AheadDue
  <1>2. \A fd : fd \in Due' <=> fd \in Due
    BY <1>1, DueMembers, DueNext DEF DueIs
  <1> QED
    BY <1>2

LEMMA WatchKept ==
    ASSUME \A j \in Slots : event_set'[j].fd = event_set[j].fd
    PROVE  Watched' = Watched
  <1>1. \A fd : fd \in Watched' <=> fd \in Watched
    BY DEF Watched
  <1> QED
    BY <1>1
-----------------------------------------------------------------------------
LEMMA ArrayInit == Init => Array!Init
  <1> SUFFICES ASSUME Init PROVE Array!Init
    OBVIOUS
  <1>1. \A i \in Slots : event_set[i].fd = -1
    BY DEF Init, Free
  <1>2. NextReady = {} /\ Watched = {}
    BY <1>1 DEF NextReady, Watched
  <1>3. pc # "event"
    BY DEF Init
  <1>4. Due = {}
    BY <1>2, <1>3 DEF Due
  <1> QED
    BY <1>2, <1>4 DEF Array!Init

(* A step of the owner or of another thread that the array does not see.   *)
LEMMA HiddenStep ==
    ASSUME UNCHANGED <<event_set, index>>, \A fd : HandDue(fd)' <=> HandDue(fd)
    PROVE  UNCHANGED Array!vars
  <1>1. NextReady' = NextReady
    BY DEF NextReady
  <1>2. Due' = Due
    BY <1>1, DueKept
  <1>3. Watched' = Watched
    BY WatchKept
  <1> QED
    BY <1>2, <1>3 DEF Array!vars

LEMMA DrainStep ==
    ASSUME PollInv, DrainLock \/ DrainEnd
    PROVE  UNCHANGED Array!vars
  <1>1. /\ UNCHANGED <<event_set, index, poll_fd, back>>
        /\ pc \in {"lock", "drain"} /\ pc' \in {"drain", back}
    BY DEF DrainLock, DrainEnd, tables, walk
  <1>2. pc' = "event" => "read" \notin poll_fd.revents
    BY <1>1 DEF PollInv, EventInv, AtSlot
  <1>3. \A fd : ~HandDue(fd) /\ ~HandDue(fd)'
    BY <1>1, <1>2 DEF HandDue
  <1> QED
    BY <1>1, <1>3, HiddenStep

LEMMA HandleStep ==
    ASSUME PollInv, HandlePending
    PROVE  Array!Change
  <1>1. NextReady' = NextReady /\ pc = "drain" /\ pc' = pc
    BY HandleKeeps DEF HandlePending
  <1>2. PICK fd \in Fds : Touches(fd)
    BY HandleKeeps
  <1>3. \A f : ~HandDue(f) /\ ~HandDue(f)'
    BY <1>1 DEF HandDue
  <1>4. Due' = Due
    BY <1>1, <1>2, <1>3, DueKept DEF Touches
  <1> QED
    BY <1>2, <1>4 DEF Array!Change, Touches

LEMMA PollStep ==
    ASSUME PollInv, Poll
    PROVE  Array!Report
  <1>1. (\A i \in Slots : event_set'[i].fd = event_set[i].fd) /\ NextReady = {}
    BY PollKeeps
  <1>2. pc = "poll" /\ pc' \in {"lock", "walk"}
    BY DEF Poll
  <1>3. Due = {}
    BY <1>1, <1>2 DEF Due
  <1>4. Watched' = Watched
    BY <1>1, WatchKept
  <1>5. ASSUME NEW fd \in Due'
        PROVE  fd \in Watched
    <2>1. ~HandDue(fd)'
      BY <1>2 DEF HandDue
    <2>2. AheadDue(fd)'
      BY <2>1, DueNext DEF DueIs
    <2>3. \E i \in Slots : fd = event_set'[i].fd /\ event_set'[i].fd >= 0
      BY <2>2 DEF AheadDue, NextReady
    <2> QED
      BY <1>1, <2>3 DEF Watched
  <1> QED
    BY <1>3, <1>4, <1>5 DEF Array!Report

LEMMA TakeSlotStep ==
    ASSUME PollInv, TakeSlot
    PROVE  UNCHANGED Array!vars
  <1>1. /\ index' \in NextReady /\ NextReady' = NextReady \ {index'}
        /\ poll_fd' = event_set[index']
    BY TakeSlotKeeps
  <1>2. pc = "walk" /\ pc' = "event" /\ UNCHANGED event_set
    BY DEF TakeSlot, tables
  <1>3. ASSUME NEW fd PROVE fd \in Due <=> fd \in Due'
    <2>1. fd \in Due <=> AheadDue(fd)
      BY <1>2, DueMembers DEF DueIs, HandDue
    <2>2. fd \in Due' <=> AheadDue(fd)' \/ HandDue(fd)'
      BY DueNext DEF DueIs
    <2>3. AheadDue(fd) <=> AheadDue(fd)' \/ HandDue(fd)'
      BY <1>1, <1>2 DEF AheadDue, HandDue
    <2> QED
      BY <2>1, <2>2, <2>3
  <1>4. Due' = Due
    <2>1. Due \subseteq Due' /\ Due' \subseteq Due
      BY <1>3
    <2> QED
      BY <2>1
  <1>5. Watched' = Watched
    BY <1>2, WatchKept
  <1> QED
    BY <1>4, <1>5 DEF Array!vars

(* The slot in hand is the descriptor's only one, and it is not ahead.     *)
LEMMA DeliverStep ==
    ASSUME PollInv, Deliver
    PROVE  Array!Deliver
  <1>1. /\ NextReady' = NextReady
        /\ poll_fd'.fd = poll_fd.fd /\ "read" \notin poll_fd'.revents
        /\ poll_fd.fd \in map /\ event_set[index].fd = poll_fd.fd /\ index \in Slots
    BY DeliverKeeps
  <1>2. pc = "event" /\ "read" \in poll_fd.revents /\ UNCHANGED event_set
    BY DEF Deliver, tables
  <1>3. event_set[index].fd >= 0
    <2>1. poll_fd.fd \in Nat
      BY <1>1, Naturals DEF PollInv, TypeInv
    <2>2. poll_fd.fd >= 0
      BY <2>1
    <2> QED
      BY <1>1, <2>2
  <1>4. \A i \in NextReady : event_set[i].fd # poll_fd.fd
    <2> SUFFICES ASSUME NEW i \in NextReady PROVE event_set[i].fd # poll_fd.fd
      OBVIOUS
    <2>1. i \in Slots /\ i > index
      BY DEF NextReady
    <2>2. i # index
      BY <1>1, <2>1 DEF Slots
    <2> QED
      BY <1>1, <1>3, <2>1, <2>2 DEF PollInv, SlotInv
  <1>5. poll_fd.fd \in Due \cap Watched
    <2>1. HandDue(poll_fd.fd)
      BY <1>2 DEF HandDue
    <2>2. poll_fd.fd \in Due
      BY <2>1, DueMembers DEF DueIs
    <2> QED
      BY <1>1, <1>3, <2>2 DEF Watched
  <1>6. ASSUME NEW fd PROVE fd \in Due' <=> fd \in Due /\ fd # poll_fd.fd
    <2>1. fd \in Due' <=> AheadDue(fd)
      BY <1>1, <1>2, DueNext DEF DueIs, AheadDue, HandDue
    <2>2. AheadDue(fd) => fd # poll_fd.fd
      BY <1>4 DEF AheadDue
    <2>3. fd \in Due <=> AheadDue(fd) \/ fd = poll_fd.fd
      BY <1>2, DueMembers DEF DueIs, HandDue
    <2> QED
      BY <2>1, <2>2, <2>3
  <1>7. Due' = Due \ {poll_fd.fd}
    BY <1>6
  <1>8. Watched' = Watched
    BY <1>2, WatchKept
  <1> QED
    BY <1>5, <1>7, <1>8 DEF Array!Deliver

LEMMA SlotDoneStep ==
    ASSUME PollInv, SlotDone
    PROVE  UNCHANGED Array!vars
  <1>1. UNCHANGED <<event_set, index, poll_fd>> /\ "read" \notin poll_fd.revents
    BY DEF SlotDone, tables
  <1>2. \A fd : ~HandDue(fd) /\ ~HandDue(fd)'
    BY <1>1 DEF HandDue
  <1> QED
    BY <1>1, <1>2, HiddenStep

LEMMA ArrayStep == PollInv /\ [Next]_vars => [Array!Next]_(Array!vars)
  <1> SUFFICES ASSUME PollInv, [Next]_vars PROVE [Array!Next]_(Array!vars)
    OBVIOUS
  <1>1. CASE DrainLock \/ DrainEnd
    BY <1>1, DrainStep
  <1>2. CASE \E fd \in Fds : Post(fd) \/ Arrive(fd)
    <2>1. UNCHANGED <<event_set, index, poll_fd, pc>>
      BY <1>2 DEF Post, Arrive, tables, walk
    <2> QED
      BY <2>1, HiddenStep DEF HandDue
  <1>3. CASE UNCHANGED vars
    BY <1>3, HiddenStep DEF vars, HandDue, tables, walk
  <1>4. CASE HandlePending
    BY <1>4, HandleStep DEF Array!Next
  <1>5. CASE Poll
    BY <1>5, PollStep DEF Array!Next
  <1>6. CASE TakeSlot
    BY <1>6, TakeSlotStep
  <1>7. CASE SlotDone
    BY <1>7, SlotDoneStep
  <1>8. CASE Deliver
    BY <1>8, DeliverStep DEF Array!Next
  <1> QED
    BY <1>1, <1>2, <1>3, <1>4, <1>5, <1>6, <1>7, <1>8 DEF Next, OwnerNext, PollDispatch

(* poll_dispatch keeps a dispatcher's promise: it reports what is watched, *)
(* delivers each report once, to a descriptor that is watched and has its  *)
(* channel, and drops none of a round by its early break, whatever the     *)
(* callbacks do to the array.                                              *)
THEOREM ArrayImplementsDispatcher == Spec => ImplementsDispatcher
  BY ArrayInit, ArrayStep, Invariance, PTL DEF Spec, ImplementsDispatcher, Array!Spec
=============================================================================

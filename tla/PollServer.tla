------------------------------ MODULE PollServer ------------------------------
(***************************************************************************)
(* The main loop of src/pre/poll_server.c: an echo server with a fixed     *)
(* array for poll and blocking sockets.                                    *)
(***************************************************************************)
EXTENDS EchoClients, FiniteSetsExt

CONSTANT CLIENT_SIZE    (* slots, with that of the listening socket        *)

ASSUME PollServerAssumption == CLIENT_SIZE \in Nat

VARIABLES
    event_set,      (* the descriptor in each slot, or -1                  *)
    revents,        (* the slots with events; 0 is the listening socket    *)
    ready_number,
    slot,           (* i                                                   *)
    poll_pc

pollServerVars == <<event_set, revents, ready_number, slot, poll_pc>>

Slots == 1..(CLIENT_SIZE - 1)

PollServerInit ==
    /\ event_set = [k \in Slots |-> -1]
    /\ revents = {} /\ ready_number = 0
    /\ slot = 0
    /\ poll_pc = IF echo_server = "poll_server" THEN "poll" ELSE "idle"

(* Slots with -1 are passed over and get no revents.                       *)
PollSlots ==
    /\ poll_pc = "poll"
    /\ revents' = {k \in Slots : event_set[k] # -1 /\ HasNews(event_set[k])}
                  \cup (IF Waiting # {} THEN {0} ELSE {})
    /\ revents' # {}
    /\ ready_number' = Cardinality(revents')
    /\ slot' = 1
    /\ poll_pc' = IF 0 \in revents' THEN "accept" ELSE "walk"
    /\ UNCHANGED <<echoVars, event_set>>

(* The walk goes on unless that was all that was ready.                    *)
CountDown(pc, next) ==
    /\ ready_number' = ready_number - 1
    /\ IF ready_number' <= 0 THEN poll_pc' = "poll" /\ slot' = 0
                             ELSE poll_pc' = pc /\ slot' = next

(* What accept returned goes into the first slot with -1.                  *)
IntoSlot(f) ==
    LET empty == {k \in Slots : event_set[k] < 0} IN
    \/ /\ empty # {}
       /\ event_set' = [event_set EXCEPT ![Lowest(empty)] = f]
       /\ CountDown("walk", 1)
    \/ /\ empty = {}                (* "cannot hold so many clients"       *)
       /\ poll_pc' = "exited"
       /\ UNCHANGED <<event_set, ready_number, slot>>

AcceptIntoSlot ==
    /\ poll_pc = "accept"
    /\ \E u \in Waiting : AcceptUser(u, Lowest(Free))
    /\ IntoSlot(Lowest(Free))
    /\ UNCHANGED <<echo_server, written, unread, echoed, edges, revents>>

(* accept fails, which is not looked at: the user waits on, or, when the   *)
(* kernel does not like cli_addlen, which is never set, loses its          *)
(* connection.                                                             *)
AcceptNothing ==
    /\ poll_pc = "accept"
    /\ \E u \in Waiting : user' \in {user, [user EXCEPT ![u] = "left"]}
    /\ IntoSlot(-1)
    /\ UNCHANGED <<echo_server, written, socketVars, revents>>

PassSlot ==
    /\ poll_pc = "walk"
    /\ slot \notin revents
    /\ IF slot + 1 \in Slots THEN slot' = slot + 1 /\ UNCHANGED poll_pc
                             ELSE slot' = 0 /\ poll_pc' = "poll"
    /\ UNCHANGED <<echoVars, event_set, revents, ready_number>>

(* What a read takes is written back; the end and ECONNRESET close.        *)
ServeSlot ==
    /\ poll_pc = "walk"
    /\ slot \in revents
    /\ LET f == event_set[slot]
           u == owner[f]
       IN \/ /\ \E k \in 1..Len(unread[u]) :
                   /\ Echoed(u, SubSeq(unread[u], 1, k))
                   /\ unread' = [unread EXCEPT ![u] = SubSeq(@, k + 1, Len(@))]
             /\ UNCHANGED <<event_set, owner>>
          \/ /\ unread[u] = <<>>
             /\ CloseFd(f)
             /\ event_set' = [event_set EXCEPT ![slot] = -1]
             /\ UNCHANGED <<unread, echoed>>
    /\ IF slot + 1 \in Slots THEN CountDown("walk", slot + 1) ELSE CountDown("poll", 0)
    /\ UNCHANGED <<echo_server, userVars, fd_of, edges, revents>>

(* SIGPIPE, from a further write to a user that has left or was reset.     *)
Killed ==
    /\ poll_pc = "walk"
    /\ slot \in revents
    /\ LET u == owner[event_set[slot]] IN user[u] # "here" /\ unread[u] # <<>>
    /\ poll_pc' = "exited"
    /\ UNCHANGED <<echoVars, event_set, revents, ready_number, slot>>

PollServerNext ==
    PollSlots \/ AcceptIntoSlot \/ AcceptNothing \/ PassSlot \/ ServeSlot \/ Killed
=============================================================================

----------------------------- MODULE ChatServers -----------------------------
(***************************************************************************)
(* Two chat servers that send what one client says to all the others:      *)
(* bgnet_examples/pollserver.c with an array for poll, and selectserver.c  *)
(* with a descriptor set for select.  Their sockets block; here only recv  *)
(* waits, and what is sent finds room.                                     *)
(*                                                                         *)
(* A client connects once, and its number is its descriptor: both servers  *)
(* accept at the start of a round, before they close any descriptor, so a  *)
(* number that is given out again is never one of the same round.          *)
(***************************************************************************)
EXTENDS Integers, SequencesExt

CONSTANTS
    Members,        (* the clients, as descriptors                         *)
    Listener,       (* the listening socket, a smaller number              *)
    FdSize          (* pollserver: room in the array at first              *)

ASSUME ChatAssumption ==
    /\ Members \subseteq Nat
    /\ Listener \in Nat \ Members
    /\ FdSize \in Nat \ {0}

VARIABLES
    (* the clients and the kernel                                          *)
    peer,           (* "away", "backlog", "here", "gone" (closed, reset)   *)
    spoke,          (* those that have ever said something                 *)
    pending_in,     (* is there something of it to read?                   *)
    deaf,           (* may a further send to it raise SIGPIPE?             *)
    (* both servers                                                        *)
    chat_server,    (* the one that runs; nothing changes it               *)
    open,           (* accepted and not closed                             *)
    at,             (* i, the place in the walk                            *)
    state,          (* "wait", "walk"; at the end "blocked", "killed"      *)
    (* pollserver                                                          *)
    pfds,           (* the array: fd and revents                           *)
    fd_count, fd_size,
    (* selectserver                                                        *)
    master, read_fds, fdmax

peerVars == <<peer, spoke, chat_server>>
kernelVars == <<pending_in, deaf>>
pollVars == <<pfds, fd_count, fd_size>>
selectVars == <<master, read_fds, fdmax>>
chatVars == <<peerVars, kernelVars, open, at, state, pollVars, selectVars>>

(* A slot that was never written; malloc leaves anything there.            *)
NoSlot == [fd |-> -1, revents |-> "unset"]

ChatInit ==
    /\ peer = [c \in Members |-> "away"]
    /\ spoke = {}
    /\ chat_server \in {"pollserver", "selectserver"}
    /\ pending_in = {} /\ deaf = {}
    /\ open = {}
    /\ at = 0
    /\ state = "wait"
    /\ pfds = [k \in 1..FdSize |-> IF k = 1 THEN [fd |-> Listener, revents |-> "unset"]
                                            ELSE NoSlot]
    /\ fd_count = 1 /\ fd_size = FdSize
    /\ master = {Listener} /\ read_fds = {} /\ fdmax = Listener
-----------------------------------------------------------------------------
(***************************************************************************)
(* The clients.                                                            *)
(***************************************************************************)

serverVars == <<chat_server, open, at, state, pollVars, selectVars>>

Arrive(c) ==
    /\ peer[c] = "away"
    /\ peer' = [peer EXCEPT ![c] = "backlog"]
    /\ UNCHANGED <<spoke, kernelVars, serverVars>>

Talk(c) ==
    /\ peer[c] \in {"backlog", "here"}
    /\ c \notin pending_in
    /\ spoke' = spoke \cup {c}
    /\ pending_in' = pending_in \cup {c}
    /\ UNCHANGED <<peer, deaf, serverVars>>

(* What was said before can still be read.                                 *)
GoAway(c) ==
    /\ peer[c] = "here"
    /\ peer' = [peer EXCEPT ![c] = "gone"]
    /\ UNCHANGED <<spoke, kernelVars, serverVars>>

Backlog == {c \in Members : peer[c] = "backlog"}
Readable(c) == c \in pending_in \/ peer[c] = "gone"
-----------------------------------------------------------------------------
(***************************************************************************)
(* What both do with a descriptor.                                         *)
(***************************************************************************)

(* recv takes what there is, once.                                         *)
Recv(c) == pending_in' = pending_in \ {c}

(* Mutant: the server reads on until there is nothing more.                *)
BroadcastAgain(everyone, k) ==
    /\ state' = "walk"
    /\ UNCHANGED <<deaf, at>>

(* send to everyone in the set, and after that the handler returns to k.   *)
(* The first send to a client that is gone makes it answer with a reset,   *)
(* or reports the reset; one that comes after the reset kills.             *)
Broadcast(everyone, k) ==
    /\ \/ state' = "walk"
       \/ everyone \cap deaf # {} /\ state' = "killed"
    /\ deaf' = deaf \cup {d \in everyone : peer[d] = "gone"}
    /\ at' = k

Accepted(c) ==
    /\ peer' = [peer EXCEPT ![c] = "here"]
    /\ open' = open \cup {c}
    /\ UNCHANGED <<spoke, chat_server, kernelVars>>
-----------------------------------------------------------------------------
(***************************************************************************)
(* pollserver                                                              *)
(***************************************************************************)

PollRuns(s) == chat_server = "pollserver" /\ state = s

Wanted(fd) == IF fd = Listener THEN Backlog # {} ELSE Readable(fd)

Poll ==
    /\ PollRuns("wait")
    /\ \E k \in 1..fd_count : Wanted(pfds[k].fd)
    /\ pfds' = [k \in DOMAIN pfds |->
                   IF k <= fd_count
                   THEN [pfds[k] EXCEPT !.revents = IF Wanted(pfds[k].fd) THEN "in" ELSE "no"]
                   ELSE pfds[k]]
    /\ state' = "walk" /\ at' = 1
    /\ UNCHANGED <<peerVars, kernelVars, open, fd_count, fd_size, selectVars>>

(* revents as the walk sees them: what malloc left may be anything.        *)
Revents(k) == IF pfds[k].revents = "unset" THEN {"in", "no"} ELSE {pfds[k].revents}

PollSkip ==
    /\ PollRuns("walk") /\ at <= fd_count
    /\ "no" \in Revents(at)
    /\ at' = at + 1
    /\ UNCHANGED <<peerVars, kernelVars, open, state, pollVars, selectVars>>

(* add_to_pfds: fd and events are set, revents are what they were.         *)
AddToPfds(fd) ==
    /\ fd_size' = IF fd_count = fd_size THEN 2 * fd_size ELSE fd_size
    /\ pfds' = [k \in 1..fd_size' |->
                   LET old == IF k <= fd_size THEN pfds[k] ELSE NoSlot IN
                   IF k = fd_count + 1 THEN [old EXCEPT !.fd = fd] ELSE old]
    /\ fd_count' = fd_count + 1

PollAccept ==
    /\ PollRuns("walk") /\ at <= fd_count
    /\ "in" \in Revents(at) /\ pfds[at].fd = Listener
    /\ \E c \in Backlog : Accepted(c) /\ AddToPfds(c)
    /\ at' = at + 1
    /\ UNCHANGED <<state, selectVars>>

(* Mutant: the slot behind the last one is copied.                         *)
DelFromPfdsBehind(k) ==
    /\ pfds' = [pfds EXCEPT ![k] = IF fd_count < fd_size THEN pfds[fd_count + 1] ELSE NoSlot]
    /\ fd_count' = fd_count - 1

(* del_from_pfds: the last one takes its place, and this round passes over *)
(* it.                                                                     *)
DelFromPfds(k) ==
    /\ pfds' = [pfds EXCEPT ![k] = pfds[fd_count]]
    /\ fd_count' = fd_count - 1

(* recv waits when there is nothing to read.                               *)
PollRecv ==
    /\ PollRuns("walk") /\ at <= fd_count
    /\ "in" \in Revents(at) /\ pfds[at].fd # Listener
    /\ LET c == pfds[at].fd IN
       \/ /\ ~Readable(c)
          /\ state' = "blocked"
          /\ UNCHANGED <<kernelVars, open, at, pollVars>>
       \/ /\ c \in pending_in
          /\ Recv(c)
          /\ Broadcast({pfds[k].fd : k \in 1..fd_count} \ {Listener, c}, at + 1)
          /\ UNCHANGED <<open, pollVars>>
       \/ /\ c \notin pending_in /\ Readable(c)
          /\ Recv(c)
          /\ open' = open \ {c}
          /\ DelFromPfds(at)
          /\ at' = at + 1
          /\ UNCHANGED <<deaf, state, fd_size>>
    /\ UNCHANGED <<peerVars, selectVars>>

(* A server that waits in recv gets on with the next thing its client does.*)
PollUnblocked ==
    /\ PollRuns("blocked")
    /\ Readable(pfds[at].fd)
    /\ state' = "walk"
    /\ pfds' = [pfds EXCEPT ![at].revents = "in"]
    /\ UNCHANGED <<peerVars, kernelVars, open, at, fd_count, fd_size, selectVars>>

PollRoundDone ==
    /\ PollRuns("walk") /\ at > fd_count
    /\ state' = "wait" /\ at' = 0
    /\ UNCHANGED <<peerVars, kernelVars, open, pollVars, selectVars>>
-----------------------------------------------------------------------------
(***************************************************************************)
(* selectserver                                                            *)
(***************************************************************************)

SelectRuns(s) == chat_server = "selectserver" /\ state = s

Select ==
    /\ SelectRuns("wait")
    /\ read_fds' = {fd \in master : fd <= fdmax /\ Wanted(fd)}
    /\ read_fds' # {}
    /\ state' = "walk" /\ at' = 0
    /\ UNCHANGED <<peerVars, kernelVars, open, pollVars, master, fdmax>>

SelectSkip ==
    /\ SelectRuns("walk") /\ at <= fdmax
    /\ at \notin read_fds
    /\ at' = at + 1
    /\ UNCHANGED <<peerVars, kernelVars, open, state, pollVars, selectVars>>

SelectAccept ==
    /\ SelectRuns("walk") /\ at = Listener /\ at \in read_fds
    /\ \E c \in Backlog :
          /\ Accepted(c)
          /\ master' = master \cup {c}
          /\ fdmax' = IF c > fdmax THEN c ELSE fdmax
    /\ at' = at + 1
    /\ UNCHANGED <<state, pollVars, read_fds>>

SelectRecv ==
    /\ SelectRuns("walk") /\ at <= fdmax /\ at # Listener
    /\ at \in read_fds
    /\ \/ /\ ~Readable(at)
          /\ state' = "blocked"
          /\ UNCHANGED <<kernelVars, open, at, master>>
       \/ /\ at \in pending_in
          /\ Recv(at)
          /\ Broadcast({j \in master : j <= fdmax} \ {Listener, at}, at + 1)
          /\ UNCHANGED <<open, master>>
       \/ /\ at \notin pending_in /\ Readable(at)
          /\ Recv(at)
          /\ open' = open \ {at}
          /\ master' = master \ {at}
          /\ at' = at + 1
          /\ UNCHANGED <<deaf, state>>
    /\ UNCHANGED <<peerVars, pollVars, read_fds, fdmax>>

SelectRoundDone ==
    /\ SelectRuns("walk") /\ at > fdmax
    /\ state' = "wait" /\ at' = 0
    /\ UNCHANGED <<peerVars, kernelVars, open, pollVars, selectVars>>
-----------------------------------------------------------------------------
ChatNext ==
    \/ \E c \in Members : Arrive(c) \/ Talk(c) \/ GoAway(c)
    \/ Poll \/ PollSkip \/ PollAccept \/ PollRecv \/ PollUnblocked \/ PollRoundDone
    \/ Select \/ SelectSkip \/ SelectAccept \/ SelectRecv \/ SelectRoundDone
-----------------------------------------------------------------------------
(* Through all accepts, removals in the middle of the walk and growing of  *)
(* the array, the server watches its listener and each open connection     *)
(* once, and nothing else.                                                 *)
Registered ==
    LET watched == IF chat_server = "pollserver" THEN {pfds[k].fd : k \in 1..fd_count}
                                                ELSE {fd \in master : fd <= fdmax}
    IN /\ watched = open \cup {Listener}
       /\ chat_server = "pollserver" => Cardinality(watched) = fd_count
       /\ chat_server = "selectserver" => watched = master

(* The sockets block, so one recv on a socket with nothing to read stops   *)
(* the service for all.  That happens in pollserver only, which takes the  *)
(* revents that an old slot or malloc left for those of a new connection:  *)
(* it waits in recv for a client before its first word only.  (That a      *)
(* client that does not read may stop it in send is another matter.)       *)
StallsOnlyOnStale ==
    state = "blocked" =>
        /\ chat_server = "pollserver"
        /\ Readable(pfds[at].fd) \/ pfds[at].fd \notin spoke
=============================================================================

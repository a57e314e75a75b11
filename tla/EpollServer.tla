----------------------------- MODULE EpollServer -----------------------------
(***************************************************************************)
(* The main loop of src/pre/epoll_server.c: an edge-triggered echo server  *)
(* whose inner loops count with the variables i and n of the outer one.    *)
(***************************************************************************)
EXTENDS EchoClients

VARIABLES
    events,         (* what epoll_wait has returned                        *)
    next_event, n_read,     (* i and n                                     *)
    epoll_pc,
    lost            (* descriptors whose event was in a batch and never    *)
                    (* looked at; kept for the property                    *)

epollServerVars == <<events, next_event, n_read, epoll_pc, lost>>

EpollServerInit ==
    /\ events = <<>> /\ next_event = 1 /\ n_read = 0
    /\ epoll_pc = IF echo_server = "epoll_server" THEN "wait" ELSE "idle"
    /\ lost = {}

StillNews == {f \in edges : IF f = 0 THEN Waiting # {} ELSE HasNews(f)}

(* The descriptors reported with an error: those that were reset, and of   *)
(* those whose user has left the ones that have answered with a reset.     *)
Errors ==
    {e \in SUBSET (StillNews \ {0}) :
        \A f \in StillNews \ {0} : /\ user[owner[f]] = "reset" => f \in e
                                  /\ f \in e => user[owner[f]] # "here"}

EpollWait ==
    /\ epoll_pc = "wait"
    /\ StillNews # {}
    /\ \E order \in SetToSeqs(StillNews), err \in Errors :
          events' = [k \in DOMAIN order |-> [fd |-> order[k], err |-> order[k] \in err]]
    /\ edges' = {}
    /\ next_event' = 1 /\ n_read' = Len(events')
    /\ epoll_pc' = "batch"
    /\ UNCHANGED <<echo_server, userVars, fd_of, unread, echoed, owner, lost>>

Event == events[next_event]

(* One connection for each event of the listening socket.                  *)
AcceptOne ==
    /\ epoll_pc = "batch" /\ next_event <= n_read
    /\ Event.fd = 0
    /\ \E u \in Waiting :
          /\ AcceptUser(u, Lowest(Free))
          /\ edges' = IF unread[u] # <<>> THEN edges \cup {Lowest(Free)} ELSE edges
    /\ next_event' = next_event + 1
    /\ UNCHANGED <<echo_server, written, unread, echoed, events, n_read, epoll_pc, lost>>

CloseOnEpollError ==
    /\ epoll_pc = "batch" /\ next_event <= n_read
    /\ Event.fd # 0 /\ Event.err
    /\ CloseFd(Event.fd)
    /\ edges' = edges \ {Event.fd}
    /\ lost' = lost \ {Event.fd}
    /\ next_event' = next_event + 1
    /\ UNCHANGED <<echo_server, userVars, fd_of, unread, echoed, events, n_read, epoll_pc>>

BeginRead ==
    /\ epoll_pc = "batch" /\ next_event <= n_read
    /\ Event.fd # 0 /\ ~Event.err
    /\ lost' = lost \ {Event.fd}
    /\ epoll_pc' = "read"
    /\ UNCHANGED <<echoVars, events, next_event, n_read>>

(* Mutant: one read for each event.                                        *)
ReadOnce(f, u) ==
    /\ unread[u] # <<>>
    /\ \E k \in 1..Len(unread[u]) :
          /\ unread' = [unread EXCEPT ![u] = SubSeq(@, k + 1, Len(@))]
          /\ Echoed(u, SubSeq(unread[u], 1, k))
    /\ next_event' = n_read + 1
    /\ epoll_pc' = "batch"
    /\ UNCHANGED <<owner, n_read, lost>>

(* Some of what there is is read, and written as far as the kernel takes   *)
(* it; if it takes nothing the process ends.                               *)
ReadSome(f, u) ==
    /\ unread[u] # <<>>
    /\ \E k \in 1..Len(unread[u]) :
          /\ unread' = [unread EXCEPT ![u] = SubSeq(@, k + 1, Len(@))]
          /\ \/ /\ user[u] # "reset"
                /\ \E taken \in 1..k : Echoed(u, SubSeq(unread[u], 1, taken))
                /\ UNCHANGED epoll_pc
             \/ /\ epoll_pc' = "exited"
                /\ UNCHANGED echoed
    /\ UNCHANGED <<owner, next_event, n_read, lost>>

(* Nothing left: n is 0 at the end of the stream and -1 otherwise, and the *)
(* outer loop ends, whatever else was in the batch.                        *)
ReadEnd(f, u) ==
    /\ unread[u] = <<>>
    /\ \/ /\ user[u] = "here"
          /\ n_read' = -1 /\ epoll_pc' = "batch"
          /\ UNCHANGED owner
       \/ /\ user[u] = "left"
          /\ CloseFd(f)
          /\ n_read' = 0 /\ epoll_pc' = "batch"
       \/ /\ user[u] = "reset"
          /\ CloseFd(f)
          /\ n_read' = -1 /\ epoll_pc' = "exited"
    /\ lost' = lost \cup {events[k].fd : k \in (next_event + 1)..n_read}
    /\ UNCHANGED <<unread, echoed, next_event>>

ReadReady ==
    /\ epoll_pc = "read"
    /\ LET f == Event.fd IN
          ReadSome(f, owner[f]) \/ ReadEnd(f, owner[f])
    /\ edges' = edges \ {f \in EchoFds : owner'[f] = Nobody}
    /\ UNCHANGED <<echo_server, userVars, fd_of, events>>

BatchDone ==
    /\ epoll_pc = "batch" /\ next_event > n_read
    /\ events' = <<>> /\ next_event' = 1 /\ n_read' = 0
    /\ epoll_pc' = "wait"
    /\ UNCHANGED <<echoVars, lost>>

EpollServerNext ==
    EpollWait \/ AcceptOne \/ CloseOnEpollError \/ BeginRead \/ ReadReady \/ BatchDone
-----------------------------------------------------------------------------
(* An edge is reported once.  When the server waits, a connection with     *)
(* something to read has an edge to come, however reads and arrivals were  *)
(* interleaved; the exception are events that were in a batch behind that  *)
(* of another connection, which the clobbered loop variables throw away.   *)
Unforgotten ==
    epoll_pc = "wait" =>
        \A f \in EchoFds : HasNews(f) => f \in edges \/ f \in lost
=============================================================================

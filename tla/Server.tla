-------------------------------- MODULE Server --------------------------------
(***************************************************************************)
(* The TCP server as a whole: the acceptor on the main thread, the loops   *)
(* it deals connections to, and the descriptors they all share             *)
(* (src/src/lib_tcp_server.c from line 190 on, the callbacks of            *)
(* src/src/lib_http.c).                                                    *)
(*                                                                         *)
(* What the other modules show is used here: a loop applies the requests   *)
(* on its list in order (EventLoop), the pool's loops are there once it    *)
(* has started (ThreadPool), and a message is answered within one callback *)
(* (HttpConnection).  One step is one system call or one callback; the     *)
(* acceptor's callback is three, since a worker's loop can run in between. *)
(*                                                                         *)
(* A failing accept is not looked at: a connection is made of -1 all the   *)
(* same, and a loop is asked to add it.  NoClient stands for the one that  *)
(* was made last; each is lost, and nothing refers to it but its request.  *)
(***************************************************************************)
EXTENDS Integers, Sequences, FiniteSetsExt

CONSTANTS
    Clients,
    Main,           (* the main thread and its loop                        *)
    Pools,          (* the pools to look at: their loops in order; <<>> is *)
                    (* thread_num 0                                        *)
    Fds,            (* descriptors the process may still open              *)
    MaxMessages,    (* bound: messages of one client                       *)
    Resets,         (* may clients reset their connections?                *)
    MaxFailures,    (* bound: accepts that fail                            *)
    NoClient,
    NULL

Loops == {Main} \cup UNION {{pool[i] : i \in DOMAIN pool} : pool \in Pools}

ASSUME ServerAssumption ==
    /\ \A pool \in Pools : pool \in Seq(Loops \ {Main})
    /\ Fds \subseteq Nat
    /\ MaxMessages \in Nat
    /\ Resets \in BOOLEAN
    /\ MaxFailures \in Nat
    /\ NoClient \notin Clients
    /\ NULL \notin Clients \cup Loops \cup Fds \cup {NoClient}

Connections == Clients \cup {NoClient}

VARIABLES
    (* clients and kernel                                                  *)
    client,         (* "away", "waiting" in the backlog, "connected", "gone"*)
    asked,          (* messages each client has sent                       *)
    inbox,          (* what its socket reports: "", "message", "end",      *)
                    (* "error"                                             *)
    holder,         (* whose connection each descriptor names              *)
    failures,       (* accepts that have failed                            *)
    watch,          (* each loop's epoll set                               *)
    (* the server                                                          *)
    workers,        (* thread_pool->event_loop_threads                     *)
    fd,             (* channel->fd of each connection                      *)
    event_loop,     (* the loop it was given                               *)
    data,           (* has connection->data been stored?                   *)
    request,        (* is connection->request allocated?                   *)
    position,       (* thread_pool->position                               *)
    pending,        (* each loop's list of connections to add              *)
    map,            (* each loop's channel map                             *)
    cur,            (* the connection handle_connection_established makes  *)
    pc              (* where the main thread is; "crashed" for all         *)

kernelVars == <<client, asked, inbox, holder, failures>>
serverVars ==
    <<watch, workers, fd, event_loop, data, request, position, pending, map, cur, pc>>
vars == <<kernelVars, serverVars>>

Alive == pc # "crashed"
Free == {f \in Fds : holder[f] = NULL}
Busy(l) == l = Main /\ pc # "wait"

Init ==
    /\ client = [c \in Clients |-> "away"]
    /\ asked = [c \in Clients |-> 0]
    /\ inbox = [c \in Clients |-> ""]
    /\ holder = [f \in Fds |-> NULL]
    /\ failures = 0
    /\ watch = [l \in Loops |-> {}]
    /\ fd = [c \in Connections |-> IF c = NoClient THEN -1 ELSE NULL]
    /\ event_loop = [c \in Connections |-> NULL]
    /\ data = [c \in Connections |-> FALSE]
    /\ request = [c \in Connections |-> FALSE]
    /\ workers \in Pools
    /\ position = 0
    /\ pending = [l \in Loops |-> <<>>]
    /\ map = [l \in Loops |-> [f \in Fds |-> NULL]]
    /\ cur = NULL
    /\ pc = "wait"
-----------------------------------------------------------------------------
Connect(c) ==
    /\ client[c] = "away"
    /\ client' = [client EXCEPT ![c] = "waiting"]
    /\ UNCHANGED <<asked, inbox, holder, failures, serverVars>>

(* A client may send before its connection was accepted.                   *)
Ask(c) ==
    /\ client[c] \in {"waiting", "connected"}
    /\ inbox[c] = "" /\ asked[c] < MaxMessages
    /\ asked' = [asked EXCEPT ![c] = @ + 1]
    /\ inbox' = [inbox EXCEPT ![c] = "message"]
    /\ UNCHANGED <<client, holder, failures, serverVars>>

Leave(c) ==
    /\ client[c] = "connected" /\ inbox[c] = ""
    /\ client' = [client EXCEPT ![c] = "gone"]
    /\ \E end \in IF Resets THEN {"end", "error"} ELSE {"end"} :
          inbox' = [inbox EXCEPT ![c] = end]
    /\ UNCHANGED <<asked, holder, failures, serverVars>>
-----------------------------------------------------------------------------
(* thread_pool_get_loop                                                    *)
NextLoop == IF workers = <<>> THEN Main ELSE workers[position + 1]

Advanced == IF workers = <<>> \/ position + 1 >= Len(workers) THEN 0 ELSE position + 1

(* Mutant: http_on_connection_completed is not called.                     *)
MakeNoRequest(c, f) ==
    /\ fd' = [fd EXCEPT ![c] = f]
    /\ event_loop' = [event_loop EXCEPT ![c] = NextLoop]
    /\ position' = Advanced
    /\ data' = [data EXCEPT ![c] = FALSE]
    /\ cur' = c
    /\ pc' = "add"
    /\ UNCHANGED <<workers, watch, request, pending, map>>

(* tcp_connection_init for what accept returned: data is what malloc left  *)
(* there, and http_on_connection_completed makes the request.              *)
Make(c, f) ==
    /\ fd' = [fd EXCEPT ![c] = f]
    /\ event_loop' = [event_loop EXCEPT ![c] = NextLoop]
    /\ position' = Advanced
    /\ data' = [data EXCEPT ![c] = FALSE]
    /\ request' = [request EXCEPT ![c] = TRUE]
    /\ cur' = c
    /\ pc' = "add"
    /\ UNCHANGED <<workers, watch, pending, map>>

(* handle_connection_established up to its request: accept gives the       *)
(* lowest free descriptor.                                                 *)
Accept(c) ==
    /\ pc = "wait"
    /\ client[c] = "waiting"
    /\ Free # {}
    /\ client' = [client EXCEPT ![c] = "connected"]
    /\ holder' = [holder EXCEPT ![Min(Free)] = c]
    /\ Make(c, Min(Free))
    /\ UNCHANGED <<asked, inbox, failures>>

(* The same when accept returns -1, for want of a descriptor or for other  *)
(* reasons.  The client waits on.                                          *)
AcceptFails ==
    /\ pc = "wait"
    /\ \E c \in Clients : client[c] = "waiting"
    /\ failures < MaxFailures
    /\ failures' = failures + 1
    /\ Make(NoClient, -1)
    /\ UNCHANGED <<client, asked, inbox, holder>>

(* Mutant: the dispatcher is not told.                                     *)
RegisterMapOnly(l, c) ==
    /\ map' = IF fd[c] < 0 THEN map ELSE [map EXCEPT ![l][fd[c]] = c]
    /\ UNCHANGED watch

(* event_loop_handle_pending_add on the loop l.                            *)
Register(l, c) ==
    \/ /\ fd[c] < 0
       /\ UNCHANGED <<map, watch>>
    \/ /\ fd[c] >= 0 /\ map[l][fd[c]] = NULL
       /\ map' = [map EXCEPT ![l][fd[c]] = c]
       /\ watch' = [watch EXCEPT ![l] = @ \cup {fd[c]}]
    \/ /\ fd[c] >= 0 /\ map[l][fd[c]] # NULL
       /\ UNCHANGED <<map, watch>>

(* Mutant: a request for another loop blocks the acceptor.                 *)
AddChannelBlocked ==
    /\ pc = "add"
    /\ event_loop[cur] = Main
    /\ Register(Main, cur)
    /\ pc' = "data"
    /\ UNCHANGED <<workers, kernelVars, fd, event_loop, data, request, position, pending, cur>>

(* event_loop_add_channel_event: at once on the own loop, else by the list.*)
AddChannel ==
    /\ pc = "add"
    /\ LET l == event_loop[cur] IN
          \/ l = Main /\ Register(l, cur) /\ UNCHANGED pending
          \/ l # Main /\ pending' = [pending EXCEPT ![l] = Append(@, cur)]
                      /\ UNCHANGED <<map, watch>>
    /\ pc' = "data"
    /\ UNCHANGED <<workers, kernelVars, fd, event_loop, data, request, position, cur>>

(* The end of handle_connection_established.                               *)
SetData ==
    /\ pc = "data"
    /\ data' = [data EXCEPT ![cur] = TRUE]
    /\ pc' = "wait"
    /\ UNCHANGED <<workers, kernelVars, watch, fd, event_loop, request, position, pending,
                   map, cur>>

(* A worker handles a request on its list.                                 *)
Drain(l) ==
    /\ Alive /\ pending[l] # <<>>
    /\ Register(l, Head(pending[l]))
    /\ pending' = [pending EXCEPT ![l] = Tail(@)]
    /\ UNCHANGED <<workers, kernelVars, fd, event_loop, data, request, position, cur, pc>>

(* handle_read with data: http_on_message takes connection->data for the   *)
(* HTTP server and calls through it.                                       *)
HandleMessage(l, f) ==
    /\ Alive /\ ~Busy(l)
    /\ f \in watch[l]
    /\ inbox[holder[f]] = "message"
    /\ LET c == map[l][f] IN
          \/ data[c] /\ request[c] /\ UNCHANGED pc
          \/ ~(data[c] /\ request[c]) /\ pc' = "crashed"
    /\ inbox' = [inbox EXCEPT ![holder[f]] = ""]
    /\ UNCHANGED <<workers, client, asked, holder, failures, watch, fd, event_loop, data, request,
                   position, pending, map, cur>>

(* Mutant: the descriptor is closed, the channel stays.                    *)
HandleClosedKeep(l, f) ==
    /\ Alive /\ ~Busy(l)
    /\ f \in watch[l]
    /\ inbox[holder[f]] = "end"
    /\ request' = [request EXCEPT ![map[l][f]] = FALSE]
    /\ holder' = [holder EXCEPT ![f] = NULL]
    /\ UNCHANGED <<workers, client, asked, inbox, failures, watch, map, fd, event_loop, data,
                   position, pending, cur, pc>>

(* handle_connection_closed: the channel leaves the loop, the request is   *)
(* freed; nobody closes the descriptor.                                    *)
HandleClosed(l, f) ==
    /\ Alive /\ ~Busy(l)
    /\ f \in watch[l]
    /\ inbox[holder[f]] = "end"
    /\ watch' = [watch EXCEPT ![l] = @ \ {f}]
    /\ request' = [request EXCEPT ![map[l][f]] = FALSE]
    /\ map' = [map EXCEPT ![l][f] = NULL]
    /\ UNCHANGED <<workers, kernelVars, fd, event_loop, data, position, pending, cur, pc>>

(* EPOLLERR in epoll_dispatch: the descriptor is closed and free for the   *)
(* next accept, on whatever loop; the map keeps its entry.                 *)
CloseOnError(l, f) ==
    /\ Alive /\ ~Busy(l)
    /\ f \in watch[l]
    /\ inbox[holder[f]] = "error"
    /\ watch' = [watch EXCEPT ![l] = @ \ {f}]
    /\ holder' = [holder EXCEPT ![f] = NULL]
    /\ UNCHANGED <<workers, client, asked, inbox, failures, fd, event_loop, data, request, position,
                   pending, map, cur, pc>>
-----------------------------------------------------------------------------
Established == AddChannel \/ SetData

LoopNext(l) ==
    \/ Drain(l)
    \/ \E f \in Fds : HandleMessage(l, f) \/ HandleClosed(l, f) \/ CloseOnError(l, f)

Next ==
    \/ \E c \in Clients : Connect(c) \/ Ask(c) \/ Leave(c)
    \/ \E c \in Clients : Accept(c)
    \/ AcceptFails
    \/ Established
    \/ \E l \in Loops : LoopNext(l)

(* Each loop's thread runs and turns to what its epoll reports; the main   *)
(* thread's also to the listening socket.                                  *)
Spec ==
    /\ Init /\ [][Next]_vars
    /\ WF_vars(Established \/ \E c \in Clients : Accept(c))
    /\ \A l \in Loops : WF_vars(Drain(l) \/ \E f \in Fds : HandleMessage(l, f))
-----------------------------------------------------------------------------
(* Whichever loop gave a descriptor back and whichever got it next: what a *)
(* loop watches is the socket of the connection its map has there, and the *)
(* acceptor gave that connection to this loop, so no two threads touch it. *)
EventReachesOwner ==
    \A l \in Loops : \A f \in watch[l] :
        /\ holder[f] # NULL
        /\ map[l][f] = holder[f]
        /\ event_loop[holder[f]] = l

(* A callback finds what it works on, the HTTP server in connection->data  *)
(* and a request that is not freed.  The one exception is the gap after    *)
(* event_loop_add_channel_event: the loop of the connection that is being  *)
(* established may be faster than the acceptor, and then ends the process. *)
CrashOnlyInTheGap == ~Alive => workers # <<>> /\ ~data[cur]

(* The loop still holds the connection that had c's descriptor before.     *)
Shadowed(c) ==
    event_loop[c] # NULL /\ map[event_loop[c]][fd[c]] \notin {NULL, c}

(* A message on a connection is handled whatever the others do, unless a   *)
(* descriptor that was closed on an error came back to the loop that still *)
(* has its old channel.                                                    *)
EveryMessageHandled ==
    \A c \in Clients :
        client[c] = "connected" /\ inbox[c] = "message"
            ~> inbox[c] # "message" \/ Shadowed(c) \/ ~Alive

(* A waiting client is accepted as long as there is a descriptor left:     *)
(* since none of an ended connection comes back, a server that has been    *)
(* asked often enough accepts nobody.                                      *)
AcceptedWhileFdsLast ==
    \A c \in Clients :
        client[c] = "waiting" ~> client[c] # "waiting" \/ Free = {} \/ ~Alive
=============================================================================

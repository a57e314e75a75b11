----------------------------- MODULE SocketSetup -----------------------------
(***************************************************************************)
(* How a program of the repository comes by its socket: the walk over the  *)
(* addresses of getaddrinfo with socket, setsockopt, bind or connect and   *)
(* close, and then listen.  The walk is written out in some twenty places; *)
(* each of them is a record that says where it differs.  A few processes   *)
(* of programs that use one port do it at the same time.                   *)
(***************************************************************************)
EXTENDS Integers, FiniteSetsExt

CONSTANTS
    Processes,
    Addresses,      (* how many addresses getaddrinfo returns              *)
    NoProgram

(* port     what it binds or connects to                                   *)
(* attach   what it does with a new socket                                 *)
(* option   SO_REUSEADDR: not set, set, or set without a look at the result*)
(* next     is a socket that cannot be made skipped, or the end?           *)
(* listens  does listen follow?                                            *)
(* single   one fixed address, and no list                                 *)
Walk == [port |-> "none", attach |-> "bind", option |-> "unset", next |-> TRUE,
         listens |-> TRUE, single |-> FALSE]

WithOption == [Walk EXCEPT !.option = "set"]
Client == [Walk EXCEPT !.attach = "connect", !.listens = FALSE]

socket_acceptor_init == [WithOption EXCEPT !.port = "21042"]
tcp_nonblocking_server == [WithOption EXCEPT !.port = "12345"]
tcp_listen_fd == [WithOption EXCEPT !.port = "12345"]
get_listenfd == [Walk EXCEPT !.port = "12345", !.next = FALSE]
get_server_listen_fd == [Walk EXCEPT !.port = "21042"]
addressused == [WithOption EXCEPT !.port = "12345"]
graceserver == [Walk EXCEPT !.port = "43211"]
make_socket == [Walk EXCEPT !.port = "12345", !.next = FALSE, !.listens = FALSE,
                            !.single = TRUE]
get_listener_socket == [Walk EXCEPT !.port = "9034", !.option = "tried"]
selectserver == [Walk EXCEPT !.port = "9034", !.option = "tried"]
bgnet_server == [WithOption EXCEPT !.port = "3490"]
tutorial_server == [WithOption EXCEPT !.port = "3490"]
tcp_client == [Client EXCEPT !.port = "12345"]
get_connected_fd == [Client EXCEPT !.port = "21042"]
graceclient == [Client EXCEPT !.port = "43211"]
get_sockfd == [Client EXCEPT !.port = "43211"]
bgnet_client == [Client EXCEPT !.port = "3490"]
tutorial_client == [Client EXCEPT !.port = "3490"]
telnot == [Client EXCEPT !.port = "9034"]
listener == [Walk EXCEPT !.port = "4950", !.listens = FALSE]
talker == [Client EXCEPT !.port = "4950", !.attach = "none"]

Programs == {socket_acceptor_init, tcp_nonblocking_server, tcp_listen_fd, get_listenfd,
             get_server_listen_fd, addressused, graceserver, make_socket,
             get_listener_socket, selectserver, bgnet_server, tutorial_server, tcp_client,
             get_connected_fd, graceclient, get_sockfd, bgnet_client, tutorial_client,
             telnot, listener, talker}

ASSUME SetupAssumption == Addresses \in Nat \ {0} /\ NoProgram \notin Programs

VARIABLES
    program,        (* what each process runs                              *)
    step,           (* where it is                                         *)
    rp,             (* the address it is at; behind the last one: NULL     *)
    sockets,        (* its open descriptors: address, state and option     *)
    res,            (* its address list: "none", "held", "freed"           *)
    faulty,         (* has a call failed for want of something other than  *)
                    (* the port?                                           *)
    dual,           (* does an IPv6 socket take the IPv4 port, too?        *)
    time_wait       (* does the port have connections in TIME_WAIT?        *)

setupVars == <<program, step, rp, sockets, res, faulty, dual, time_wait>>

SetupInit ==
    /\ program = [p \in Processes |-> NoProgram]
    /\ step = [p \in Processes |-> "idle"]
    /\ rp = [p \in Processes |-> 1]
    /\ sockets = [p \in Processes |-> {}]
    /\ res = [p \in Processes |-> "none"]
    /\ faulty = FALSE
    /\ dual \in BOOLEAN /\ time_wait \in BOOLEAN

To(p, s) == step' = [step EXCEPT ![p] = s]
LastAddress(p) == IF program[p].single THEN 1 ELSE Addresses

(* The process ends, and the kernel takes back what it had.                *)
Exit(p) ==
    /\ To(p, "ended")
    /\ sockets' = [sockets EXCEPT ![p] = {}]
    /\ res' = [res EXCEPT ![p] = "none"]
    /\ UNCHANGED <<program, rp>>
-----------------------------------------------------------------------------
(***************************************************************************)
(* The kernel.                                                             *)
(***************************************************************************)

Rivals(p, at) ==
    {s \in UNION {sockets[q] : q \in Processes \ {p}} :
        s.state \in {"bound", "listening"} /\ (dual \/ s.at = at)}

(* Two sockets may be bound to a port if both say SO_REUSEADDR and neither *)
(* listens; TIME_WAIT is an obstacle only without it.                      *)
MayBind(p, s) ==
    /\ \A r \in Rivals(p, s.at) : s.reuse /\ r.reuse /\ r.state = "bound"
    /\ time_wait => s.reuse

MayListen(p, s) == \A r \in Rivals(p, s.at) : r.state # "listening"
MayConnect(p, s) == \E r \in Rivals(p, s.at) : r.state = "listening"

Succeeds(p, s) ==
    CASE program[p].attach = "bind" -> MayBind(p, s)
      [] program[p].attach = "connect" -> MayConnect(p, s)
      [] program[p].attach = "none" -> TRUE

Attached == [bind |-> "bound", connect |-> "connected", none |-> "fresh"]
-----------------------------------------------------------------------------
(***************************************************************************)
(* The programs.                                                           *)
(***************************************************************************)

(* getaddrinfo: a list, or the end.                                        *)
Launch(p) ==
    /\ step[p] = "idle"
    /\ \E prog \in Programs :
          /\ \A q \in Processes : program[q] # NoProgram => program[q].port = prog.port
          /\ program' = [program EXCEPT ![p] = prog]
          /\ res' = [res EXCEPT ![p] = IF prog.single THEN "freed" ELSE "held"]
    /\ To(p, "socket")
    /\ UNCHANGED <<rp, sockets, faulty, dual, time_wait>>

LookupFails(p) ==
    /\ step[p] = "socket" /\ rp[p] = 1 /\ sockets[p] = {} /\ res[p] = "held"
    /\ Exit(p)
    /\ faulty' = TRUE
    /\ UNCHANGED <<dual, time_wait>>

(* Mutant: the option is set on no socket.                                 *)
TakesForgotten(p) == {FALSE}

(* The values SO_REUSEADDR may get.                                        *)
Takes(p) ==
    CASE program[p].option = "unset" -> {FALSE}
      [] program[p].option = "set" -> {TRUE}
      [] program[p].option = "tried" -> BOOLEAN

NewSocket(p) ==
    /\ step[p] = "socket" /\ rp[p] <= LastAddress(p)
    /\ \E reuse \in Takes(p) :
          /\ sockets' = [sockets EXCEPT ![p] =
                            @ \cup {[at |-> rp[p], state |-> "fresh", reuse |-> reuse]}]
          /\ faulty' = (faulty \/ (program[p].option = "tried" /\ ~reuse))
    /\ To(p, "attach")
    /\ UNCHANGED <<program, rp, res, dual, time_wait>>

(* No socket of this family: the next address, or the end.                 *)
SocketFails(p) ==
    /\ step[p] = "socket" /\ rp[p] <= LastAddress(p)
    /\ \/ /\ program[p].next
          /\ rp' = [rp EXCEPT ![p] = @ + 1]
          /\ UNCHANGED <<program, step, sockets, res>>
       \/ /\ ~program[p].next
          /\ Exit(p)
    /\ faulty' = TRUE
    /\ UNCHANGED <<dual, time_wait>>

OptionFails(p) ==
    /\ step[p] = "socket" /\ rp[p] <= LastAddress(p)
    /\ program[p].option = "set"
    /\ Exit(p)
    /\ faulty' = TRUE
    /\ UNCHANGED <<dual, time_wait>>

(* Mutant: a socket that could not be attached stays open.                 *)
CloseNothing(p, s) == UNCHANGED sockets

Close(p, s) == sockets' = [sockets EXCEPT ![p] = @ \ {s}]

(* bind or connect.  When it fails the socket is closed and the next       *)
(* address tried; make_socket has no next one.                             *)
Attach(p) ==
    /\ step[p] = "attach"
    /\ \E s \in sockets[p], fault \in BOOLEAN :
          /\ s.at = rp[p]
          /\ faulty' = (faulty \/ fault)
          /\ \/ /\ Succeeds(p, s) /\ ~fault
                /\ sockets' = [sockets EXCEPT ![p] =
                      (@ \ {s}) \cup {[s EXCEPT !.state = Attached[program[p].attach]]}]
                /\ To(p, "attached")
                /\ UNCHANGED <<rp, res>>
             \/ /\ ~Succeeds(p, s) \/ (fault /\ program[p].attach # "none")
                /\ Close(p, s)
                /\ To(p, "socket")
                /\ rp' = [rp EXCEPT ![p] = @ + 1]
                /\ UNCHANGED res
    /\ UNCHANGED <<program, dual, time_wait>>

(* rp == NULL                                                              *)
NoAddressLeft(p) ==
    /\ step[p] = "socket" /\ rp[p] > LastAddress(p)
    /\ Exit(p)
    /\ UNCHANGED <<faulty, dual, time_wait>>

(* freeaddrinfo                                                            *)
FreeList(p) ==
    /\ step[p] = "attached"
    /\ ~program[p].single
    /\ res' = [res EXCEPT ![p] = "freed"]
    /\ To(p, IF program[p].listens THEN "listen" ELSE "up")
    /\ UNCHANGED <<program, rp, sockets, faulty, dual, time_wait>>

(* make_socket's main ends as soon as it has the socket.                   *)
MakeSocketDone(p) ==
    /\ step[p] = "attached"
    /\ program[p].single
    /\ Exit(p)
    /\ UNCHANGED <<faulty, dual, time_wait>>

Listen(p) ==
    /\ step[p] = "listen"
    /\ \E s \in sockets[p] :
          \/ /\ MayListen(p, s)
             /\ sockets' = [sockets EXCEPT ![p] =
                               (@ \ {s}) \cup {[s EXCEPT !.state = "listening"]}]
             /\ To(p, "up")
             /\ UNCHANGED <<program, rp, res>>
          \/ ~MayListen(p, s) /\ Exit(p)
    /\ UNCHANGED <<faulty, dual, time_wait>>

SetupNext ==
    \E p \in Processes :
        \/ Launch(p) \/ LookupFails(p)
        \/ NewSocket(p) \/ SocketFails(p) \/ OptionFails(p)
        \/ Attach(p) \/ NoAddressLeft(p)
        \/ FreeList(p) \/ MakeSocketDone(p) \/ Listen(p)
-----------------------------------------------------------------------------
(* However many addresses failed before: a program that has come through   *)
(* has one descriptor open, that of the address it stopped at, in the      *)
(* state its purpose asks for, and its list is freed.                      *)
OneSocketKept ==
    \A p \in Processes :
        step[p] = "up" =>
            /\ res[p] = "freed"
            /\ \E s \in sockets[p] :
                  /\ sockets[p] = {s}
                  /\ s.at = rp[p]
                  /\ s.state = IF program[p].listens THEN "listening"
                                                     ELSE Attached[program[p].attach]

(* Programs that race for a port may keep each other from binding or       *)
(* listening, but never all of them: if one that sets SO_REUSEADDR was     *)
(* started and nothing else failed, someone listens in the end, even when  *)
(* connections of an earlier run are in TIME_WAIT.  make_socket, which     *)
(* takes the port and ends without listening, is left out.                 *)
PortServed ==
    /\ ~faulty /\ make_socket \notin {program[p] : p \in Processes}
    /\ \A p \in Processes : step[p] \in {"idle", "up", "ended"}
    /\ \E p \in Processes : step[p] # "idle" /\ program[p].listens
                                             /\ program[p].option # "unset"
    => \E p \in Processes : \E s \in sockets[p] : s.state = "listening"
=============================================================================

----------------------------- MODULE EchoClients -----------------------------
(***************************************************************************)
(* The users of the echo servers under src/pre, with the kernel between:   *)
(* connections, what is written to them and not read yet, descriptors and  *)
(* their reuse.  PollServer, EpollServer and NonblockingServer are the     *)
(* servers; one of them runs.                                              *)
(***************************************************************************)
EXTENDS Integers, SequencesExt, FiniteSetsExt

CONSTANTS
    Users,
    EchoFds,        (* the descriptors accept gives out, the lowest first  *)
    MaxWrites,      (* bound: pieces all users write together              *)
    Nobody

ASSUME EchoAssumption ==
    /\ EchoFds \subseteq Nat \ {0}
    /\ IsFiniteSet(EchoFds)
    /\ Nobody \notin Users

VARIABLES
    echo_server,    (* the server that runs; nothing changes it            *)
    user,           (* "away", "backlog", "here", "left" (closed by it, or *)
                    (* by a failing accept), "reset"                       *)
    fd_of,          (* the descriptor each user has or had                 *)
    written,        (* pieces each has written                             *)
    unread,         (* those the server has not read                       *)
    echoed,         (* what each has got back                              *)
    owner,          (* the user of each descriptor, or Nobody              *)
    edges           (* epoll: descriptors with news not reported yet; 0    *)
                    (* stands for the listening socket                     *)

userVars == <<user, written>>
socketVars == <<fd_of, unread, echoed, owner, edges>>
echoVars == <<echo_server, userVars, socketVars>>

EchoInit ==
    /\ user = [u \in Users |-> "away"]
    /\ fd_of = [u \in Users |-> 0]
    /\ written = [u \in Users |-> 0]
    /\ unread = [u \in Users |-> <<>>]
    /\ echoed = [u \in Users |-> <<>>]
    /\ owner = [f \in EchoFds |-> Nobody]
    /\ edges = {}

(* News of a descriptor reaches epoll, if it is open and epoll is used.    *)
News(f) ==
    edges' = IF echo_server = "epoll_server" /\ (f = 0 \/ owner[f] # Nobody)
             THEN edges \cup {f} ELSE edges

NewsOf(u) == IF user[u] = "here" THEN News(fd_of[u]) ELSE UNCHANGED edges

Connect(u) ==
    /\ user[u] = "away"
    /\ user' = [user EXCEPT ![u] = "backlog"]
    /\ News(0)
    /\ UNCHANGED <<echo_server, written, fd_of, unread, echoed, owner>>

(* A piece ends a line or not, which only NonblockingServer looks at.      *)
Write(u) ==
    /\ user[u] \in {"backlog", "here"}
    /\ MapThenSumSet(LAMBDA v : written[v], Users) < MaxWrites
    /\ written' = [written EXCEPT ![u] = @ + 1]
    /\ \E line \in IF echo_server = "nonblocking_server" THEN BOOLEAN ELSE {TRUE} :
          unread' = [unread EXCEPT ![u] =
                        Append(@, [from |-> u, n |-> written[u] + 1, line |-> line])]
    /\ NewsOf(u)
    /\ UNCHANGED <<echo_server, user, fd_of, echoed, owner>>

(* A user closes or resets its connection.                                 *)
Depart(u) ==
    /\ user[u] = "here"
    /\ user' \in {[user EXCEPT ![u] = "left"], [user EXCEPT ![u] = "reset"]}
    /\ NewsOf(u)
    /\ UNCHANGED <<echo_server, written, fd_of, unread, echoed, owner>>

UsersNext == \E u \in Users : Connect(u) \/ Write(u) \/ Depart(u)
-----------------------------------------------------------------------------
(* What the servers do with sockets.                                       *)

Waiting == {u \in Users : user[u] = "backlog"}
Free == {f \in EchoFds : owner[f] = Nobody}
Lowest(F) == CHOOSE f \in F : \A g \in F : f <= g

HasNews(f) == owner[f] # Nobody /\ (unread[owner[f]] # <<>> \/ user[owner[f]] # "here")

(* accept, for user u and with descriptor f; nobody comes in while all     *)
(* numbers of EchoFds are taken.                                           *)
AcceptUser(u, f) ==
    /\ f \in Free
    /\ user' = [user EXCEPT ![u] = "here"]
    /\ fd_of' = [fd_of EXCEPT ![u] = f]
    /\ owner' = [owner EXCEPT ![f] = u]

CloseFd(f) == owner' = [owner EXCEPT ![f] = Nobody]

(* A user that has left or reset its connection gets nothing more.         *)
Echoed(u, pieces) ==
    echoed' = IF user[u] = "here" THEN [echoed EXCEPT ![u] = @ \o pieces] ELSE echoed
-----------------------------------------------------------------------------
(* A user gets its own pieces, each once at most and in the order they     *)
(* were written, however reads and writes are split and descriptors reused;*)
(* somebody else's only from NonblockingServer, and only if that one was   *)
(* reset with pieces left in the buffer of the same descriptor.            *)
EchoInOrder ==
    \A u \in Users :
        /\ \A j, k \in 1..Len(echoed[u]) :
              j < k /\ echoed[u][j].from = u /\ echoed[u][k].from = u
                  => echoed[u][j].n < echoed[u][k].n
        /\ \A k \in 1..Len(echoed[u]) :
              LET other == echoed[u][k].from IN
              other # u => /\ echo_server = "nonblocking_server"
                           /\ user[other] = "reset" /\ fd_of[other] = fd_of[u]
=============================================================================

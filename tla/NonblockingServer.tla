-------------------------- MODULE NonblockingServer --------------------------
(***************************************************************************)
(* The main loop of src/pre/nonblocking_server.c: an echo server with a    *)
(* buffer for each descriptor number, select and non-blocking sockets.  A  *)
(* piece stands for a byte.                                                *)
(***************************************************************************)
EXTENDS EchoClients

CONSTANTS
    FD_INIT_SIZE,
    MAX_LINE        (* the room in a buffer                                *)

ASSUME NonblockingAssumption == FD_INIT_SIZE \in Nat /\ MAX_LINE \in Nat

VARIABLES
    connect_fd,     (* the buffers whose connect_fd is not 0               *)
    buffer,         (* what is in front of each write_index                *)
    read_index,
    readable,       (* the buffers with this flag                          *)
    readset, writeset,
    stdin_open,
    select_pc

nonblockingVars == <<connect_fd, buffer, read_index, readable, readset, writeset,
                     stdin_open, select_pc>>

NonblockingInit ==
    /\ connect_fd = {}
    /\ buffer = [f \in EchoFds |-> <<>>]
    /\ read_index = [f \in EchoFds |-> 0]
    /\ readable = {}
    /\ readset = {} /\ writeset = {}
    /\ stdin_open = TRUE
    /\ select_pc = IF echo_server = "nonblocking_server" THEN "select" ELSE "idle"

(* Every buffer that is not in use puts descriptor 0 into readset, and     *)
(* into writeset if it was left readable; -1 stands for the listening      *)
(* socket.  A descriptor that takes no data may be left out of writeset.   *)
SelectSets ==
    /\ select_pc = "select" /\ stdin_open
    /\ \E typed \in SUBSET {0}, full \in SUBSET (readable \cap connect_fd) :
          /\ readset' = {f \in connect_fd : HasNews(f)} \cup typed
                        \cup (IF Waiting # {} THEN {-1} ELSE {})
          /\ writeset' = (readable \cap connect_fd) \ full
    /\ readset' \cup writeset' # {} \/ readable \ connect_fd # {}
    /\ select_pc' = IF -1 \in readset' THEN "accept" ELSE "walk"
    /\ UNCHANGED <<echoVars, connect_fd, buffer, read_index, readable, stdin_open>>

(* select fails on a descriptor 0 that was closed.                         *)
SelectFails ==
    /\ select_pc = "select" /\ ~stdin_open
    /\ select_pc' = "exited"
    /\ UNCHANGED <<echoVars, connect_fd, buffer, read_index, readable, readset,
                   writeset, stdin_open>>

(* The array has no element FD_INIT_SIZE.                                  *)
AcceptIntoBuffer ==
    /\ select_pc = "accept"
    /\ \E u \in Waiting : AcceptUser(u, Lowest(Free))
    /\ LET f == Lowest(Free) IN
          /\ select_pc' = CASE f > FD_INIT_SIZE -> "exited"
                            [] f = FD_INIT_SIZE -> "wild"
                            [] f < FD_INIT_SIZE -> "walk"
          /\ connect_fd' = IF f < FD_INIT_SIZE THEN connect_fd \cup {f} ELSE connect_fd
    /\ readset' = readset \ {-1}
    /\ UNCHANGED <<echo_server, written, unread, echoed, edges, buffer, read_index,
                   readable, writeset, stdin_open>>

Turn == Lowest(readset \cup writeset)

(* r is not 0: the buffer keeps what is in it.                             *)
Hangup(f) ==
    /\ connect_fd' = connect_fd \ {f}
    /\ CloseFd(f)
    /\ readset' = readset \ {f} /\ writeset' = writeset \ {f}

(* recv on the terminal fails, and descriptor 0 is closed.                 *)
ReadTerminal ==
    /\ select_pc = "walk" /\ 0 \in readset
    /\ stdin_open' = FALSE
    /\ readset' = readset \ {0}
    /\ UNCHANGED <<echoVars, connect_fd, buffer, read_index, readable, writeset, select_pc>>

(* recv until there is nothing more; what finds no room is dropped.  At    *)
(* the end of the stream recv returns 0, and the loop goes on for ever.    *)
OnSocketRead ==
    /\ select_pc = "walk"
    /\ readset \cup writeset # {} /\ Turn \in readset \ {0}
    /\ LET f == Turn
           u == owner[f]
           room == MAX_LINE - Len(buffer[f])
       IN /\ unread' = [unread EXCEPT ![u] = <<>>]
          /\ buffer' = [buffer EXCEPT
                ![f] = @ \o SubSeq(unread[u], 1, IF Len(unread[u]) < room
                                                 THEN Len(unread[u]) ELSE room)]
          /\ readable' = IF \E k \in DOMAIN unread[u] : unread[u][k].line
                         THEN readable \cup {f} ELSE readable
          /\ \/ /\ user[u] = "here"
                /\ readset' = readset \ {f}
                /\ UNCHANGED <<connect_fd, writeset, owner, select_pc>>
             \/ /\ user[u] = "left"
                /\ select_pc' = "spinning"
                /\ UNCHANGED <<connect_fd, readset, writeset, owner>>
             \/ /\ user[u] = "reset"
                /\ Hangup(f)
                /\ UNCHANGED select_pc
    /\ UNCHANGED <<echo_server, userVars, fd_of, echoed, edges, read_index, stdin_open>>

(* Mutant: after a part was sent the next send starts at the front again.  *)
SentFromFront(f, k) ==
    IF read_index[f] + k = Len(buffer[f])
    THEN /\ buffer' = [buffer EXCEPT ![f] = <<>>]
         /\ read_index' = [read_index EXCEPT ![f] = 0]
         /\ readable' = readable \ {f}
    ELSE UNCHANGED <<buffer, read_index, readable>>

(* The first k bytes that were not sent are now; after the last one the    *)
(* buffer is empty again.                                                  *)
Sent(f, k) ==
    IF read_index[f] + k = Len(buffer[f])
    THEN /\ buffer' = [buffer EXCEPT ![f] = <<>>]
         /\ read_index' = [read_index EXCEPT ![f] = 0]
         /\ readable' = readable \ {f}
    ELSE /\ read_index' = [read_index EXCEPT ![f] = @ + k]
         /\ UNCHANGED <<buffer, readable>>

(* send until all is gone or no more is taken.  The second send to a user  *)
(* that has left kills the process, any to one that was reset fails.       *)
OnSocketWrite ==
    /\ select_pc = "walk"
    /\ readset \cup writeset # {} /\ Turn \notin readset
    /\ LET f == Turn
           u == owner[f]
           rest == SubSeq(buffer[f], read_index[f] + 1, Len(buffer[f]))
       IN \/ /\ user[u] # "reset" \/ rest = <<>>
             /\ \E k \in 0..Len(rest) :
                   /\ Sent(f, k)
                   /\ Echoed(u, SubSeq(rest, 1, k))
             /\ writeset' = writeset \ {f}
             /\ UNCHANGED <<connect_fd, owner, readset, select_pc>>
          \/ /\ user[u] = "left" /\ Len(rest) > 1
             /\ select_pc' = "exited"
             /\ UNCHANGED <<echoed, connect_fd, owner, buffer, read_index, readable,
                            readset, writeset>>
          \/ /\ user[u] = "reset" /\ rest # <<>>
             /\ Hangup(f)
             /\ UNCHANGED <<echoed, buffer, read_index, readable, select_pc>>
    /\ UNCHANGED <<echo_server, userVars, fd_of, unread, edges, stdin_open>>

SelectDone ==
    /\ select_pc = "walk"
    /\ readset \cup writeset = {}
    /\ select_pc' = "select"
    /\ UNCHANGED <<echoVars, connect_fd, buffer, read_index, readable, readset, writeset,
                   stdin_open>>

NonblockingNext ==
    \/ SelectSets \/ SelectFails \/ AcceptIntoBuffer
    \/ ReadTerminal \/ OnSocketRead \/ OnSocketWrite \/ SelectDone
=============================================================================

------------------------------ MODULE Connection ------------------------------
(***************************************************************************)
(* The write path of one connection on its loop thread: handle_read,       *)
(* handle_write, tcp_connection_send_data and tcp_connection_shutdown of   *)
(* src/src/lib_tcp_server.c and the write switches of src/src/channel.c,   *)
(* against the kernel's send buffer and a peer that reads, asks, leaves or *)
(* resets the connection at any time.                                      *)
(*                                                                         *)
(* Every switch takes channel->data for the event loop.  As it is          *)
(* compiled, the data is the connection, and what the first switch does is *)
(* undefined; the model takes the end of the process, at the assertion in  *)
(* the event loop.  data_is_loop is the other case, in which the rest of   *)
(* the path can be judged.                                                 *)
(***************************************************************************)
EXTENDS Integers, SequencesExt

CONSTANTS
    MaxBytes,       (* bound: bytes sent in all                            *)
    MaxMessages,    (* bound: messages from the peer                       *)
    SendCapacity    (* bytes the kernel's send buffer holds                *)

ASSUME ConnectionAssumption ==
    /\ MaxBytes \in Nat
    /\ MaxMessages \in Nat
    /\ SendCapacity \in Nat \ {0}

VARIABLES
    (* the peer and the kernel                                             *)
    asked,          (* messages the peer has sent                          *)
    inbox,          (* those not read yet                                  *)
    left,           (* has the peer closed its side?                       *)
    reset,          (* has it reset the connection?                        *)
    so_error,       (* is that error still to be reported to a write?      *)
    wire,           (* the kernel's send buffer                            *)
    got,            (* what the peer has read                              *)
    (* the server                                                          *)
    sent,           (* bytes handed to tcp_connection_send_data            *)
    out_buffer,
    enabled,        (* EVENT_WRITE in channel->events, and in epoll        *)
    shut,           (* tcp_connection_shutdown was called                  *)
    fault,          (* a send was given up for EPIPE or ECONNRESET         *)
    pc,
    data_is_loop    (* is the channel's data the loop its switches expect? *)
                    (* Nothing changes it                                  *)

peerVars == <<asked, left, reset, got, data_is_loop>>
vars == <<peerVars, inbox, so_error, wire, sent, out_buffer, enabled, shut, fault, pc>>

Init ==
    /\ asked = 0 /\ inbox = 0
    /\ left = FALSE /\ reset = FALSE /\ so_error = FALSE
    /\ wire = <<>> /\ got = <<>>
    /\ sent = 0 /\ out_buffer = <<>>
    /\ enabled = FALSE /\ shut = FALSE /\ fault = FALSE
    /\ pc = "wait"
    /\ data_is_loop \in BOOLEAN

Watched == pc \in {"wait", "message"}
-----------------------------------------------------------------------------
PeerAsk ==
    /\ asked < MaxMessages /\ ~left /\ ~reset
    /\ asked' = asked + 1
    /\ inbox' = inbox + 1
    /\ UNCHANGED <<left, reset, got, so_error, wire, sent, out_buffer, enabled,
                   shut, fault, pc, data_is_loop>>

PeerRead ==
    /\ wire # <<>> /\ ~reset
    /\ got' = Append(got, Head(wire))
    /\ wire' = Tail(wire)
    /\ UNCHANGED <<asked, left, reset, inbox, so_error, sent, out_buffer, enabled,
                   shut, fault, pc, data_is_loop>>

PeerLeave ==
    /\ ~left /\ ~reset
    /\ left' = TRUE
    /\ UNCHANGED <<asked, reset, got, inbox, so_error, wire, sent, out_buffer,
                   enabled, shut, fault, pc, data_is_loop>>

(* What was not read yet is gone, in both directions.                      *)
PeerReset ==
    /\ ~reset
    /\ reset' = TRUE /\ so_error' = TRUE
    /\ inbox' = 0 /\ wire' = <<>>
    /\ UNCHANGED <<asked, left, got, sent, out_buffer, enabled, shut, fault, pc,
                   data_is_loop>>
-----------------------------------------------------------------------------
Min2(a, b) == IF a < b THEN a ELSE b
Room == SendCapacity - Len(wire)

(* The outcomes of write(fd, data, ..): the bytes the kernel takes, -1     *)
(* with EWOULDBLOCK or ECONNRESET, or EPIPE, whose signal ends the process.*)
Outcome(data) ==
    IF so_error THEN "ECONNRESET"
    ELSE IF shut \/ reset THEN "SIGPIPE"
    ELSE IF data # <<>> /\ Room = 0 THEN "EWOULDBLOCK"
    ELSE "ok"

Taken(data) == SubSeq(data, 1, Min2(Room, Len(data)))
Left(data) == SubSeq(data, Min2(Room, Len(data)) + 1, Len(data))

(* Mutant: the channel is not switched on.                                 *)
KeepForgetful(data) ==
    /\ out_buffer' = out_buffer \o data
    /\ UNCHANGED <<enabled, pc>>

(* The rest goes behind what is buffered already, and write interest on.   *)
Keep(data) ==
    /\ out_buffer' = out_buffer \o data
    /\ \/ enabled /\ UNCHANGED <<enabled, pc>>
       \/ ~enabled /\ data_is_loop /\ enabled' = TRUE /\ UNCHANGED pc
       \/ ~enabled /\ ~data_is_loop /\ pc' = "crashed" /\ UNCHANGED enabled

Data(n) == [i \in 1..n |-> sent + i]

(* Mutant: the data is written at once, past what is buffered.             *)
SendDataDirect(n) ==
    /\ Outcome(Data(n)) \in {"ok", "EWOULDBLOCK"}
    /\ wire' = wire \o Taken(Data(n))
    /\ IF Left(Data(n)) = <<>> THEN UNCHANGED <<out_buffer, enabled, pc>>
                               ELSE Keep(Left(Data(n)))
    /\ UNCHANGED <<so_error, fault>>

(* tcp_connection_send_data: straight to the kernel only if nothing is     *)
(* waiting already; a fault drops the data, and nobody is told.            *)
SendData(n) ==
    LET data == Data(n)
        direct == ~enabled /\ out_buffer = <<>>
        outcome == Outcome(data)
    IN
    \/ /\ ~direct
       /\ Keep(data)
       /\ UNCHANGED <<so_error, wire, fault>>
    \/ /\ direct /\ outcome = "ok"
       /\ wire' = wire \o Taken(data)
       /\ \/ Left(data) = <<>> /\ UNCHANGED <<out_buffer, enabled, pc>>
          \/ Left(data) # <<>> /\ Keep(Left(data))
       /\ UNCHANGED <<so_error, fault>>
    \/ /\ direct /\ outcome = "EWOULDBLOCK"
       /\ Keep(data)
       /\ UNCHANGED <<so_error, wire, fault>>
    \/ /\ direct /\ outcome = "ECONNRESET"
       /\ so_error' = FALSE /\ fault' = TRUE
       /\ UNCHANGED <<wire, out_buffer, enabled, pc>>
    \/ /\ direct /\ outcome = "SIGPIPE"
       /\ pc' = "killed"
       /\ UNCHANGED <<so_error, wire, out_buffer, enabled, fault>>

(* Inside on_message: the application sends, or shuts down, or returns.    *)
Send ==
    /\ pc = "message"
    /\ \E n \in 1..(MaxBytes - sent) : SendData(n) /\ sent' = sent + n
    /\ UNCHANGED <<peerVars, inbox, shut>>

Shutdown ==
    /\ pc = "message"
    /\ ~shut
    /\ shut' = TRUE
    /\ UNCHANGED <<peerVars, inbox, so_error, wire, sent, out_buffer, enabled,
                   fault, pc>>

MessageDone ==
    /\ pc = "message"
    /\ pc' = "wait"
    /\ UNCHANGED <<peerVars, inbox, so_error, wire, sent, out_buffer, enabled,
                   shut, fault>>

(* Mutant: only the hang-up is looked at.                                  *)
CloseOnHangUp ==
    /\ pc = "wait"
    /\ shut /\ left
    /\ pc' = "closed"
    /\ UNCHANGED <<peerVars, inbox, so_error, wire, sent, out_buffer, enabled,
                   shut, fault>>

(* EPOLLERR or EPOLLHUP.                                                   *)
CloseOnError ==
    /\ pc = "wait"
    /\ reset \/ (shut /\ left)
    /\ pc' = "closed"
    /\ UNCHANGED <<peerVars, inbox, so_error, wire, sent, out_buffer, enabled,
                   shut, fault>>

(* handle_read, for an event that was reported before the reset, too: an   *)
(* error closes as the end of the stream does, and with it what is still   *)
(* in out_buffer is lost.                                                  *)
HandleRead ==
    /\ pc = "wait"
    /\ inbox > 0 \/ left \/ reset
    /\ inbox' = 0
    /\ so_error' = FALSE
    /\ pc' = IF inbox > 0 THEN "message" ELSE "closed"
    /\ UNCHANGED <<peerVars, wire, sent, out_buffer, enabled, shut, fault>>

(* handle_write: what is not sent stays for the next event.  The switch at *)
(* its end leaves EVENT_WRITE in the mask, so the events go on when the    *)
(* buffer is empty (even a write of no bytes raises the signal after a     *)
(* shutdown), and every later send goes through the buffer.                *)
HandleWrite ==
    /\ pc = "wait" /\ enabled
    /\ \/ /\ Outcome(out_buffer) = "ok"
          /\ wire' = wire \o Taken(out_buffer)
          /\ out_buffer' = Left(out_buffer)
          /\ UNCHANGED <<so_error, pc>>
       \/ /\ Outcome(out_buffer) = "ECONNRESET"
          /\ so_error' = FALSE
          /\ UNCHANGED <<wire, out_buffer, pc>>
       \/ /\ Outcome(out_buffer) = "SIGPIPE"
          /\ pc' = "killed"
          /\ UNCHANGED <<so_error, wire, out_buffer>>
    /\ UNCHANGED <<peerVars, inbox, sent, enabled, shut, fault>>
-----------------------------------------------------------------------------
PeerNext == PeerAsk \/ PeerRead \/ PeerLeave \/ PeerReset

LoopNext ==
    Send \/ Shutdown \/ MessageDone \/ CloseOnError \/ HandleRead \/ HandleWrite

Next == PeerNext \/ LoopNext

(* The peer reads, callbacks return, epoll goes on reporting an error, and *)
(* a socket that stays writable is reported in turn.                       *)
Spec ==
    /\ Init /\ [][Next]_vars
    /\ WF_vars(PeerRead)
    /\ WF_vars(MessageDone)
    /\ WF_vars(CloseOnError)
    /\ SF_vars(HandleWrite)
-----------------------------------------------------------------------------
(* While bytes wait in out_buffer the loop watches for EVENT_WRITE: no     *)
(* send can leave bytes behind that no event will ever move.               *)
NeverStalls == Watched /\ out_buffer # <<>> => enabled

(* A send given up for EPIPE or ECONNRESET is reported to nobody; but the  *)
(* loop then sees the same error and closes the descriptor, or a second    *)
(* write ends the process.                                                 *)
FaultEndsConnection == fault ~> ~Watched

(* The connection implements a byte stream: every byte reaches the peer    *)
(* once and in order, however the writes were split and whatever was sent  *)
(* while they were pending, unless the stream is cut: by a reset, by the   *)
(* peer's leaving or a shutdown, with output pending or not, or by the end *)
(* of the process.                                                         *)
Stream == INSTANCE ByteStream
             WITH given <- [i \in 1..sent |-> i],
                  arrived <- got,
                  cut <- reset \/ left \/ shut \/ pc = "crashed"

StreamDelivers == Stream!Spec
=============================================================================

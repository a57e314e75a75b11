-------------------------------- MODULE Buffer --------------------------------
(***************************************************************************)
(* The growable byte buffer of src/src/buffer.c, which holds a             *)
(* connection's unparsed input and its unsent output.                      *)
(*                                                                         *)
(* A buffer is a record, and its functions are operators on such records,  *)
(* so that other modules can hold several buffers.  The specification      *)
(* below runs one buffer through every sequence of calls.  malloc and      *)
(* realloc are assumed to succeed, as every caller in the code assumes.    *)
(***************************************************************************)
EXTENDS Integers, Sequences

CONSTANTS
    Bytes,
    Junk,               (* what malloc and realloc leave in new memory     *)
    INIT_BUFFER_SIZE,   (* 65536 in buffer.h                               *)
    MaxLen,             (* bound: most bytes one call brings               *)
    MaxTotal            (* bound: no call may make the memory larger       *)

ASSUME BufferAssumption ==
    /\ Junk \notin Bytes
    /\ INIT_BUFFER_SIZE \in Nat \ {0}
    /\ MaxLen \in Nat
    /\ MaxTotal \in Nat

buffer_new ==
    [data |-> [i \in 0..(INIT_BUFFER_SIZE - 1) |-> Junk],
     total_size |-> INIT_BUFFER_SIZE, read_index |-> 0, write_index |-> 0]

Writeable(b) == b.total_size - b.write_index
Readable(b) == b.write_index - b.read_index
FrontSpare(b) == b.read_index

(* The bytes a reader of the buffer sees.                                  *)
Content(b) == [i \in 1..Readable(b) |-> b.data[b.read_index + i - 1]]
-----------------------------------------------------------------------------
(* Mutant: the indices still point to where the bytes were.                *)
MovedKeepRead(b) ==
    [b EXCEPT !.data = [i \in DOMAIN @ |-> IF i < Readable(b)
                                           THEN @[b.read_index + i] ELSE @[i]],
              !.write_index = Readable(b)]

(* expand_space without realloc: the unread bytes move to the front.       *)
Moved(b) ==
    [b EXCEPT !.data = [i \in DOMAIN @ |-> IF i < Readable(b)
                                           THEN @[b.read_index + i] ELSE @[i]],
              !.read_index = 0,
              !.write_index = Readable(b)]

(* expand_space with realloc: the memory grows by the size asked for.      *)
Grown(b, size) ==
    [b EXCEPT !.data = [i \in 0..(b.total_size + size - 1) |->
                            IF i < b.total_size THEN @[i] ELSE Junk],
              !.total_size = @ + size]

(* Mutant: the space in front of the unread bytes is not used.             *)
ExpandedByGrowing(b, size) ==
    IF Writeable(b) >= size THEN b ELSE Grown(b, size)

(* expand_space                                                            *)
Expanded(b, size) ==
    IF Writeable(b) >= size THEN b
    ELSE IF FrontSpare(b) + Writeable(b) >= size THEN Moved(b)
    ELSE Grown(b, size)

(* memcpy of s behind the last byte, or readv into the same place.         *)
Copied(b, s) ==
    [b EXCEPT !.data = [i \in DOMAIN @ |->
                            IF i \in b.write_index..(b.write_index + Len(s) - 1)
                            THEN s[i - b.write_index + 1] ELSE @[i]],
              !.write_index = @ + Len(s)]

Appended(b, s) == Copied(Expanded(b, Len(s)), s)

(* Mutant: the spilled bytes are taken from one place too far.             *)
ReceivedSpill(b, s) ==
    IF Len(s) <= Writeable(b) THEN Copied(b, s)
    ELSE Appended(Copied(b, SubSeq(s, 1, Writeable(b))),
                  SubSeq(s, Writeable(b) + 2, Len(s)))

(* buffer_socket_read: readv fills the free space, then a second buffer of *)
(* INIT_BUFFER_SIZE bytes, which is appended.                              *)
Received(b, s) ==
    IF Len(s) <= Writeable(b) THEN Copied(b, s)
    ELSE Appended(Copied(b, SubSeq(s, 1, Writeable(b))),
                  SubSeq(s, Writeable(b) + 1, Len(s)))

(* A reader moves read_index past the bytes it has used.                   *)
Consumed(b, n) == [b EXCEPT !.read_index = @ + n]
-----------------------------------------------------------------------------
VARIABLE buffer

Init == buffer = buffer_new

Inputs == UNION {[1..n -> Bytes] : n \in 0..MaxLen}

(* buffer_append and buffer_append_string; a NULL string changes nothing.  *)
BufferAppend ==
    \E s \in Inputs :
        /\ Appended(buffer, s).total_size <= MaxTotal
        /\ buffer' = Appended(buffer, s)

(* The socket delivers at most what the two vectors of readv hold; at the  *)
(* end of the stream, or on an error, nothing changes.                     *)
BufferSocketRead ==
    \E s \in Inputs :
        /\ Len(s) <= Writeable(buffer) + INIT_BUFFER_SIZE
        /\ Received(buffer, s).total_size <= MaxTotal
        /\ buffer' = Received(buffer, s)

(* parse_http_request, handle_write and tcp_connection_send_buffer use no  *)
(* more than the readable bytes.                                           *)
BufferConsume ==
    \E n \in 1..Readable(buffer) : buffer' = Consumed(buffer, n)

Next == BufferAppend \/ BufferSocketRead \/ BufferConsume

Spec == Init /\ [][Next]_buffer
-----------------------------------------------------------------------------
(* The indices are in order and inside the memory, and every byte between  *)
(* them was put there by a caller.                                         *)
IsBuffer(b) ==
    /\ b \in [data : [0..(b.total_size - 1) -> Bytes \cup {Junk}],
              total_size : Nat, read_index : Nat, write_index : Nat]
    /\ b.read_index <= b.write_index
    /\ b.write_index <= b.total_size
    /\ \A i \in b.read_index..(b.write_index - 1) : b.data[i] \in Bytes

(* The buffer of a connection is such a buffer after every sequence of     *)
(* calls (the type invariant): no reader sees a byte nobody sent.          *)
TypeOK == IsBuffer(buffer)

(* Whatever is moved or reallocated on the way, a call that brings bytes   *)
(* puts them all, in order, behind those not yet used.                     *)
BytesArriveInOrder ==
    \A s \in Inputs :
        /\ Content(Appended(buffer, s)) = Content(buffer) \o s
        /\ Len(s) <= Writeable(buffer) + INIT_BUFFER_SIZE =>
              Content(Received(buffer, s)) = Content(buffer) \o s

(* The memory grows only when it could not hold the unread bytes, and then *)
(* to at most twice their number, so that it stays in proportion to what   *)
(* is really waiting ("no need alloc memory, just move it", buffer.c:48).  *)
GrowsInProportion ==
    [][buffer'.total_size # buffer.total_size =>
         /\ buffer.total_size < Readable(buffer')
         /\ buffer'.total_size < 2 * Readable(buffer')]_buffer
=============================================================================

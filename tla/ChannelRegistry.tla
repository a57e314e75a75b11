--------------------------- MODULE ChannelRegistry ---------------------------
(***************************************************************************)
(* What an event loop promises to the threads that hand it channels: every *)
(* add and remove request is applied to the channel table exactly once, in *)
(* the order the requests were made, and nothing else changes the table.   *)
(* Who applies a request, under which lock and after which wakeup, is left *)
(* to EventLoop, which implements this specification.                      *)
(***************************************************************************)
EXTENDS Integers, Sequences

CONSTANTS
    Channels,   (* channel_struc objects                                  *)
    Wake,       (* the loop's own wakeup channel, registered at the start *)
    FdOf,       (* the descriptor each channel was made for               *)
    NULL

Fds == {fd \in {FdOf[c] : c \in Channels} : fd >= 0}
Requests == [type : {"add", "remove"}, channel : Channels]

VARIABLES
    queue,      (* requests made and not yet applied, oldest first        *)
    table       (* the channel registered for each descriptor             *)

vars == <<queue, table>>

Init ==
    /\ queue = <<>>
    /\ table = [fd \in Fds |-> IF fd = FdOf[Wake] THEN Wake ELSE NULL]

(* The first registration of a descriptor wins; a later one is dropped.    *)
Effect(r) ==
    LET fd == FdOf[r.channel] IN
    IF fd < 0
    THEN table
    ELSE [table EXCEPT ![fd] = IF r.type = "remove" THEN NULL
                               ELSE IF @ = NULL THEN r.channel ELSE @]

Submit ==
    /\ \E r \in Requests : queue' = Append(queue, r)
    /\ UNCHANGED table

Apply ==
    /\ queue # <<>>
    /\ table' = Effect(Head(queue))
    /\ queue' = Tail(queue)

Next == Submit \/ Apply

SafeSpec == Init /\ [][Next]_vars

Spec == SafeSpec /\ WF_vars(Apply)
=============================================================================

------------------------------ MODULE Dispatcher ------------------------------
(***************************************************************************)
(* What an event_dispatcher_struc promises to its event loop: a round      *)
(* reports only descriptors that are watched; each of them is delivered    *)
(* once, and is still watched then, so that it has its channel; and no     *)
(* round begins before the last one is delivered, whatever the callbacks   *)
(* change in between.  PollDispatcher implements it.                       *)
(***************************************************************************)
CONSTANT
    Fds         (* the descriptors                                        *)

VARIABLES
    watch,      (* the descriptors that are watched                       *)
    due         (* those reported and not yet delivered                   *)

vars == <<watch, due>>

Init ==
    /\ watch \in SUBSET Fds
    /\ due = {}

Change ==
    /\ \E fd \in Fds : watch' \in {watch \cup {fd}, watch \ {fd}}
    /\ UNCHANGED due

Report ==
    /\ due = {}
    /\ due' \in SUBSET watch
    /\ UNCHANGED watch

Deliver ==
    /\ \E fd \in due \cap watch : due' = due \ {fd}
    /\ UNCHANGED watch

Next == Change \/ Report \/ Deliver

Spec == Init /\ [][Next]_vars
=============================================================================

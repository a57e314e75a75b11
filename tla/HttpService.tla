----------------------------- MODULE HttpService -----------------------------
(***************************************************************************)
(* What the server promises each client: requests are answered one by one, *)
(* in the order they were made, every one of them once, and the server     *)
(* ends the connection only when nothing is left to answer.                *)
(* HttpConnection implements this specification.                           *)
(***************************************************************************)
EXTENDS Integers

CONSTANTS
    Connections,
    MaxRequests     (* bound: requests on one connection                   *)

VARIABLES
    asked,          (* requests each client has made                       *)
    answered,       (* complete responses the server has given to each     *)
    ended           (* has the server shut its side down?                  *)

vars == <<asked, answered, ended>>

Init ==
    /\ asked = [c \in Connections |-> 0]
    /\ answered = [c \in Connections |-> 0]
    /\ ended = [c \in Connections |-> FALSE]

Ask(c) ==
    /\ asked[c] < MaxRequests
    /\ ~ended[c]
    /\ asked' = [asked EXCEPT ![c] = @ + 1]
    /\ UNCHANGED <<answered, ended>>

Answer(c) ==
    /\ answered[c] < asked[c]
    /\ ~ended[c]
    /\ answered' = [answered EXCEPT ![c] = @ + 1]
    /\ UNCHANGED <<asked, ended>>

End(c) ==
    /\ answered[c] = asked[c]
    /\ ended' = [ended EXCEPT ![c] = TRUE]
    /\ UNCHANGED <<asked, answered>>

Next == \E c \in Connections : Ask(c) \/ Answer(c) \/ End(c)

Spec == Init /\ [][Next]_vars
=============================================================================

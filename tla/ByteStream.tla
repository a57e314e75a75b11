------------------------------ MODULE ByteStream ------------------------------
(***************************************************************************)
(* What a connection promises to whoever sends on it: the peer receives a  *)
(* prefix of the bytes that were given, and unless the connection is cut,  *)
(* all of them in the end.  Connection implements it.                      *)
(***************************************************************************)
EXTENDS Naturals, SequencesExt

CONSTANTS
    MaxBytes    (* bound: bytes given in all                               *)

VARIABLES
    given,      (* what the senders gave, in order                         *)
    arrived,    (* what the peer has                                       *)
    cut         (* has the connection ended with bytes under way?          *)

vars == <<given, arrived, cut>>

Init ==
    /\ given = <<>>
    /\ arrived = <<>>
    /\ cut = FALSE

(* To give bytes may be what ends the connection.                          *)
Give ==
    /\ \E n \in 1..(MaxBytes - Len(given)) :
          given' = given \o [i \in 1..n |-> Len(given) + i]
    /\ cut' \in {cut, TRUE}
    /\ UNCHANGED arrived

Arrive ==
    /\ Len(arrived) < Len(given)
    /\ arrived' = Append(arrived, given[Len(arrived) + 1])
    /\ UNCHANGED <<given, cut>>

Cut ==
    /\ cut' = TRUE
    /\ UNCHANGED <<given, arrived>>

Next == Give \/ Arrive \/ Cut

SafeSpec == Init /\ [][Next]_vars

Spec == SafeSpec /\ WF_vars(~cut /\ Arrive)
=============================================================================

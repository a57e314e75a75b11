------------------------------- MODULE MCServer -------------------------------
(* Small instances of Server.                                              *)
EXTENDS Server

CONSTANTS l1, l2

(* thread_num 0, as main.c has it, and 2.                                  *)
SomePools == {<<>>, <<l1, l2>>}
=============================================================================

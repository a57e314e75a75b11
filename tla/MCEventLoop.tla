----------------------------- MODULE MCEventLoop -----------------------------
(* Small instances of EventLoop.  Descriptor 0 is the wakeup pair's, a and *)
(* b share descriptor 1, c's descriptor 2 makes the table grow, and x is   *)
(* what a failed accept leaves.                                            *)
EXTENDS EventLoop, TLC

CONSTANTS w, l, a, b, c, x, p, q

WorkerFds == w :> 0 @@ a :> 1 @@ b :> 1 @@ c :> 2 @@ x :> -1
MainFds == w :> 0 @@ l :> 1 @@ a :> 2 @@ b :> 2 @@ c :> 3 @@ x :> -1

WorkerChannels == {w, a, b, c, x}
MainChannels == {w, l, a, b, c, x}
Sizes == {2, 4}
=============================================================================

---------------------------- MODULE MCWorkSteal -----------------------------
(***************************************************************************)
(* Constants of the runs of WorkSteal:  an array of two entries, which     *)
(* grows to four when the second task is pushed, before the workers start  *)
(* or after, or one of four, which does not grow.                          *)
(***************************************************************************)
EXTENDS WorkSteal

MCTasks   == {"x", "y"}
MCThieves == {"t1", "t2"}
MCGarbage == {NULL}

\* Nothing is claimed of what follows a disturbance, so it is not explored.
Followed == undisturbed
=============================================================================

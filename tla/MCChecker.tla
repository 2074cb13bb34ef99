------------------------------ MODULE MCChecker ------------------------------
(***************************************************************************)
(* Constants of the runs of Checker: tasks are numbered from 0, as the     *)
(* tracer does, and 0 is the value logged for reads.                       *)
(***************************************************************************)
EXTENDS Checker

MCTasks   == 0..3
MCAddrs   == {1}
MCValues  == {0, 1}
MCFuncs   == {"f"}
MCFuncIds == {1}
==============================================================================

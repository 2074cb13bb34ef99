-------------------------- MODULE MCTestScheduler --------------------------
(***************************************************************************)
(* Constants of the run of TestScheduler: a source that runs three times,  *)
(* and two instances of a task with two inputs.  Four priorities are fewer *)
(* than the tasks that can be added, so they run out.                      *)
(***************************************************************************)
EXTENDS TestScheduler

MCTasks   == {"s", "i1", "i2"}
MCBuffers == {"a", "b"}
MCBufferList ==
  [t \in MCTasks |-> CASE t = "s" -> <<>>
                       [] t \in {"i1", "i2"} -> <<"a", "b">>]
MCCreated == [b \in MCBuffers |-> CASE b = "a" -> <<"i1", "i2">>
                                    [] b = "b" -> <<>>]

Does(p, s) == [passes |-> p, stop |-> s]

\* The source passes tokens in any order; an instance passes one or stops.
MCCode ==
  [t \in MCTasks |->
     CASE t = "s" -> <<{Does(<<"b", "b">>, FALSE)},
                       {Does(<<"a", "a">>, TRUE), Does(<<>>, FALSE)},
                       {Does(<<"a", "a">>, TRUE)}>>
       [] t = "i1" -> <<{Does(<<>>, FALSE)}>>
       [] t = "i2" -> <<{Does(<<>>, TRUE)}>>]
=============================================================================

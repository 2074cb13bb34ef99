---------------------------- MODULE MCThreadPool ----------------------------
(***************************************************************************)
(* Constants of the runs of ThreadPool: a source, two instances of a task  *)
(* with two inputs, and a task bound to the first worker that they pass    *)
(* their results to.                                                       *)
(***************************************************************************)
EXTENDS ThreadPool

MCWorkers == {1, 2}
MCTasks   == {"s1", "s2", "i1", "i2", "k"}
MCBoundTo == [t \in MCTasks |-> IF t = "k" THEN 1 ELSE NULL]
MCBuffers == {"a", "b", "c"}
MCBufferList ==
  [t \in MCTasks |-> CASE t \in {"s1", "s2"} -> <<>>
                       [] t \in {"i1", "i2"} -> <<"a", "b">>
                       [] t = "k" -> <<"c">>]
MCCreated == [b \in MCBuffers |-> CASE b = "a" -> <<"i1", "i2">>
                                    [] b = "b" -> <<>>
                                    [] b = "c" -> <<"k">>]

Does(p, s) == [passes |-> p, stop |-> s]

\* A source passes tokens in any order; an instance passes one or stops.
MCCode ==
  [t \in MCTasks |->
     CASE t = "s1" -> <<{Does(<<"a", "b">>, FALSE)}, {Does(<<"a">>, TRUE)}>>
       [] t = "s2" -> <<{Does(<<"b", "b", "b", "a">>, TRUE)}>>
       [] t = "i1" -> <<{Does(<<"c">>, FALSE), Does(<<>>, TRUE)}>>
       [] t = "i2" -> <<{Does(<<"c">>, FALSE)}>>
       [] t = "k" -> <<{Does(<<>>, FALSE)}>>]
=============================================================================

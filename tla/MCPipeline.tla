----------------------------- MODULE MCPipeline -----------------------------
(***************************************************************************)
(* Constants of the runs of Pipeline.                                      *)
(***************************************************************************)
EXTENDS Pipeline, TLC

CONSTANTS w1, w2, p1, p2, f1, f2  (* model values *)

MCOneThread == {1}
MCOneSlot   == {1}
MCTokens    == {1}
MCAddrs     == {1}
MCZero      == {0}
MCOneFunc   == {"f"}

\* Contents in halves: 0.0, 1.0 and 1.5, of which the last two are logged alike.
MCHalves    == {0, 2, 3}
MCValues    == {0, 1}
MCTruncates == [c \in MCHalves |-> c \div 2]
MCSame      == [c \in MCZero |-> c]

\* Threads, addresses of tokens and functions are compared, never ordered.
MCThreadSet == {w1, w2}
MCSlotSet   == {p1, p2}
MCFuncSet   == {f1, f2}
MCSymmetry  == Permutations(MCThreadSet) \union Permutations(MCSlotSet)
                 \union Permutations(MCFuncSet)
=============================================================================

--------------------------- MODULE MCInstrumentor ---------------------------
(***************************************************************************)
(* Constants of the run of Instrumentor.   "p" and "q" point to shared     *)
(* data and may be aliases, as "w" does, to more bytes; that may be an     *)
(* array of the function, passed on as "q", and "l" a pointer into it that *)
(* is not; else "l" points to another variable of the function.  "c"       *)
(* points to a constant.                                                   *)
(***************************************************************************)
EXTENDS Instrumentor

MCPointers == {"p", "q", "w", "l", "c"}
MCOnStack  == {"q", "w", "l"}
MCConstant == {"c"}
MCCaptured == {"p", "q", "w"}
MCAddrs    == 1..4
MCEnv(q, l) == [x \in MCPointers |-> CASE x = "p" -> 1 [] x \in {"q", "w"} -> q
                                       [] x = "l" -> l [] x = "c" -> 4]
MCEnvs      == {MCEnv(1, 3), MCEnv(2, 3), MCEnv(2, 2)}

On(op, p)    == [op |-> op, ptr |-> p, dst |-> NULL, size |-> 4]
Wide(op, p)  == [On(op, p) EXCEPT !.size = 10]
Copy(op, d, s) == [op |-> op, ptr |-> s, dst |-> d, size |-> 8]
Plain(op)    == [op |-> op, ptr |-> NULL, dst |-> NULL, size |-> 0]

MCAlphabet ==
  {On("load", "p"), On("store", "p"), On("load", "q"), On("store", "l"),
   Plain("call"), Plain("indirect"), Copy("memmove", "l", "q")}
MCOdd ==
  {On("atomic", "p"), Wide("store", "w"), On("load", "c"), Copy("memset", "q", NULL),
   Copy("memcpy", "p", "q")}

MCLast ==
  {On("load", "p"), On("store", "p"), On("store", "q"), Plain("call")}

MCFirst == {<<i, j, k>> : i \in MCAlphabet \union MCOdd, j \in MCAlphabet, k \in MCLast}
MCApplication ==
  {[runtime |-> FALSE, name |-> n,
    body |-> <<a, <<On("store", "p"), Plain("return")>>, <<Plain("return")>>>>] :
     n \in {{}, {"::operator()(token_s*) const"}}, a \in MCFirst}
  \union
  {[runtime |-> FALSE, name |-> {"genmat", "::operator()(token_s*) const"},
    body |-> <<<<On("store", "p"), Plain("call"), Plain("return")>>>>]}
MCRuntime ==
  {[runtime |-> TRUE, name |-> {n},
    body |-> <<<<Copy("memset", "q", NULL)>>, <<Copy("memcpy", "q", "p"), Plain("call")>>,
               <<Plain("return")>>>>] :
     n \in {"PassToken", "InitRuntime", "TerminateRuntime"}}
MCFunctions == MCApplication \union MCRuntime
=============================================================================

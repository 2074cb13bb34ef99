------------------------------ MODULE TaskGraph ------------------------------
(***************************************************************************)
(* The happens-before order of dataflow tasks, from the edges the streams  *)
(* give.  edges[p] is the set of tasks that received a token from p.       *)
(***************************************************************************)

Parents(edges, t) == {p \in DOMAIN edges : t \in edges[p]}

\* s contains the parents of each of its members.
ParentClosed(edges, s) == \A q \in s : Parents(edges, q) \subseteq s

\* The tasks that happen before t: those in every closed set that has the
\* parents of t.  (The transitive closure of the edges, without recursion.)
Ancestors(edges, t) ==
  {a \in DOMAIN edges :
     \A s \in SUBSET DOMAIN edges :
       Parents(edges, t) \subseteq s /\ ParentClosed(edges, s) => a \in s}

\* The children of p through which it happens before t, t itself among them when
\* p is a parent of t.
OnTheWay(edges, p, t) == edges[p] \intersect (Ancestors(edges, t) \union {t})

\* p happens before t, and every path from p to t begins with the same child.
OneWay(edges, p, t) ==
  p \in Ancestors(edges, t) /\ \E v \in edges[p] : OnTheWay(edges, p, t) = {v}
==============================================================================

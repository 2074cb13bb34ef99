----------------------------- MODULE TaskDeque ------------------------------
(***************************************************************************)
(* What the deque of a worker promises: its owner pushes and pops at one   *)
(* end, thieves take from the other, a task goes to one of them.  This is  *)
(* how ThreadPool uses deques; WorkSteal is the algorithm.                 *)
(***************************************************************************)
EXTENDS SequencesExt

CONSTANTS
  Tasks,
  Owner,     (* The worker that the deque belongs to.                      *)
  Thieves,   (* Other workers.                                             *)
  NULL

VARIABLES
  deque,     (* the tasks in it, its bottom last                           *)
  running,   (* the task each worker runs                                  *)
  waiting    (* tasks that are neither in the deque nor run                *)

Workers == {Owner} \union Thieves
vars == <<deque, running, waiting>>

Init ==
  /\ deque = <<>>
  /\ running = [w \in Workers |-> NULL]
  /\ waiting = Tasks

\* The task that was waiting, or the one that the owner has run.
Push(x) ==
  /\ deque' = Append(deque, x)
  /\ \/ /\ x \in waiting
        /\ waiting' = waiting \ {x}
        /\ UNCHANGED running
     \/ /\ x = running[Owner]
        /\ running' = [running EXCEPT ![Owner] = NULL]
        /\ UNCHANGED waiting

Takes(w, x) ==
  /\ running[w] = NULL
  /\ running' = [running EXCEPT ![w] = x]

Pop ==
  /\ deque # <<>>
  /\ Takes(Owner, Last(deque))
  /\ deque' = Front(deque)
  /\ UNCHANGED waiting

Steal(w) ==
  /\ deque # <<>>
  /\ Takes(w, Head(deque))
  /\ deque' = Tail(deque)
  /\ UNCHANGED waiting

\* The owner has a task from elsewhere.
RunOther ==
  /\ \E x \in waiting : Takes(Owner, x) /\ waiting' = waiting \ {x}
  /\ UNCHANGED deque

EndTask(w) ==
  /\ running[w] # NULL
  /\ running' = [running EXCEPT ![w] = NULL]
  /\ waiting' = waiting \union {running[w]}
  /\ UNCHANGED deque

Next ==
  \/ \E x \in Tasks : Push(x)
  \/ Pop \/ RunOther
  \/ \E w \in Thieves : Steal(w)
  \/ \E w \in Workers : EndTask(w)

Spec == Init /\ [][Next]_vars
=============================================================================

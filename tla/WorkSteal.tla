----------------------------- MODULE WorkSteal ------------------------------
(***************************************************************************)
(* One work-stealing deque (worksteal.cpp) with its owner and thieves, and *)
(* its circular array.                                                     *)
(*                                                                         *)
(* Between stores of one thread and loads of another there is only a       *)
(* compiler barrier.  So the stores of the owner go through the store      *)
(* buffer of its processor, as on x86: others see them later, in order,    *)
(* the owner may load top before its store of bottom is seen, and only the *)
(* compare-and-exchange waits until all stores are out.  Thieves store     *)
(* nothing but by compare-and-exchange.                                    *)
(***************************************************************************)
EXTENDS Integers, SequencesExt

CONSTANTS
  Tasks,
  Owner,        (* The worker that pushes and pops.                        *)
  Thieves,
  LogSize,      (* deque_logsize, 10 in the code.                          *)
  Garbage,      (* What memory that was not written may hold.              *)
  StoreBuffer,  (* Bound: stores of the owner not seen by others.          *)
  MaxBottom,    (* Bound of bottom.                                        *)
  NULL

ASSUME NullAssumption == NULL \notin Tasks
ASSUME OwnerAssumption == Owner \notin Thieves
ASSUME SizeAssumption == LogSize \in Nat /\ 2^LogSize \in Nat \ {0}

Workers == {Owner} \union Thieves

VARIABLES
  top,        (* atomic                                                    *)
  memory,     (* what the owner alone stores to, as others see it          *)
  pending,    (* the same after each store that others do not see          *)
  local,      (* the local variables of the function a worker is in        *)
  loaded,     (* what a thief has loaded of the array, 0 if not yet        *)
  running,    (* the task each worker runs                                 *)
  waiting,    (* tasks that are neither in the deque nor run               *)
  released,   (* ReleaseThreads: the workers have started                  *)
  failed,     (* an assertion has failed                                   *)
  disturbed   (* history: what went against the algorithm                  *)

vars == <<top, memory, pending, local, loaded, running, waiting, released, failed, disturbed>>
taskVars == <<running, waiting, released, failed, disturbed>>
restVars == <<loaded, taskVars>>

NoCall == [pc |-> "idle", top |-> 0, bottom |-> 0, task |-> NULL]

NotLoaded == [size |-> 0, array |-> 0]

\* Segments are numbered.
InitDeque(g) ==
  [bottom |-> 0, size |-> 2^LogSize, array |-> 1, segment |-> [i \in 0..(2^LogSize - 1) |-> g]]

Init ==
  /\ top = 0
  /\ \E g \in Garbage : memory = InitDeque(g)
  /\ pending = <<>>
  /\ local = [w \in Workers |-> NoCall]
  /\ loaded = [w \in Thieves |-> NotLoaded]
  /\ running = [w \in Workers |-> NULL]
  /\ waiting = Tasks
  /\ released = FALSE
  /\ failed = FALSE
  /\ disturbed = {}

undisturbed == disturbed = {}

-----------------------------------------------------------------------------
(* Memory.                                                                 *)

\* What the owner itself loads.
Own == IF pending = <<>> THEN memory ELSE Last(pending)

Store(m) ==
  /\ Len(pending) < StoreBuffer
  /\ pending' = Append(pending, m)

Flush ==
  /\ pending # <<>>
  /\ memory' = Head(pending)
  /\ pending' = Tail(pending)
  /\ UNCHANGED <<top, local, restVars>>

\* What a load of entry i may yield, from the size and the segment that were loaded.
GetTaskFromArray(m, from, i) ==
  LET k == i % from.size IN
  IF from.array = m.array /\ k \in DOMAIN m.segment THEN {m.segment[k]} ELSE Garbage

\* A failed assertion ends the program.
Goes(w, pc) == ~failed /\ local[w].pc = pc

Sets(w, pc, t, b, x) ==
  local' = [local EXCEPT ![w] = [pc |-> pc, top |-> t, bottom |-> b, task |-> x]]

Returns(w) == local' = [local EXCEPT ![w] = NoCall]

Free(w) == Goes(w, "idle") /\ running[w] = NULL

Runs(w, x) == running' = [running EXCEPT ![w] = x]

-----------------------------------------------------------------------------
(* pushBottom, by DispatchTasks and by ScheduleTask.                       *)

Full(n, size) == n >= size - 1

\* A task that the owner runs passes a token to x, or has been run and is ready again.
PushBottom(x) ==
  LET b == Own.bottom IN
  /\ Goes(Owner, "idle") /\ b < MaxBottom
  /\ released => running[Owner] # NULL
  /\ x \in waiting \union {running[Owner]}
  /\ Sets(Owner, IF Full(b - top, Own.size) THEN "grow" ELSE "put", top, b, x)
  /\ UNCHANGED <<top, memory, pending, restVars>>

\* The size changes first, the old segment is freed while others may still read it, and
\* then the new one is there.  Entries are copied from where they would be in the new
\* size, to their index itself: what is beyond the old or the new segment gets lost.
GrowCircularArray ==
  LET l == local[Owner]
      grown == [Own EXCEPT !.size = 2 * @]
      freed == [grown EXCEPT !.segment = <<>>] IN
  /\ Goes(Owner, "grow")
  /\ Len(pending) + 3 <= StoreBuffer
  /\ \E g \in Garbage :
       \E new \in [0..(grown.size - 1) -> Tasks \union Garbage] :
         /\ \A i \in DOMAIN new :
              new[i] \in IF i \in l.top..(l.bottom - 1) THEN GetTaskFromArray(grown, grown, i) ELSE {g}
         /\ pending' = pending \o
              <<grown, freed, [grown EXCEPT !.array = @ + 1, !.segment = new]>>
  /\ Sets(Owner, "put", l.top, l.bottom, l.task)
  /\ disturbed' = disturbed \union (IF released THEN {"grown"} ELSE {})
  /\ UNCHANGED <<top, memory, loaded, running, waiting, released, failed>>

PutTaskIntoArray ==
  LET l == local[Owner] IN
  /\ Goes(Owner, "put")
  /\ Store([Own EXCEPT !.segment[l.bottom % Own.size] = l.task])
  /\ Sets(Owner, "publish", l.top, l.bottom, l.task)
  /\ UNCHANGED <<top, memory, restVars>>

Publish ==
  LET l == local[Owner] IN
  /\ Goes(Owner, "publish")
  /\ Store([Own EXCEPT !.bottom = l.bottom + 1])
  /\ Returns(Owner)
  /\ IF l.task = running[Owner]
     THEN Runs(Owner, NULL) /\ UNCHANGED waiting
     ELSE waiting' = waiting \ {l.task} /\ UNCHANGED running
  /\ UNCHANGED <<top, memory, loaded, released, failed, disturbed>>

-----------------------------------------------------------------------------
(* popBottom.                                                              *)

PopBottom ==
  LET b == Own.bottom - 1 IN
  /\ released /\ Free(Owner)
  /\ Store([Own EXCEPT !.bottom = b])
  /\ Sets(Owner, "popped", 0, b, NULL)
  /\ UNCHANGED <<top, memory, restVars>>

\* Mistake: the last task is not seen.
EmptyBelowOne(n) == n <= 0

Empty(n) == n < 0

\* top is loaded.  The deque is empty, or there is more than one task and the last is
\* taken as it is, or there is one and a thief may be about to take it.  If others do not
\* see yet that the last is gone, they may take it too.
PopTop ==
  LET b == local[Owner].bottom
      n == b - top IN
  /\ Goes(Owner, "popped")
  /\ \/ /\ Empty(n)
        /\ Sets(Owner, "lost", 0, top, NULL)
        /\ UNCHANGED <<running, failed, disturbed>>
     \/ /\ ~Empty(n) /\ n > 0
        /\ \E x \in GetTaskFromArray(Own, Own, b) : Runs(Owner, x) /\ failed' = (x = NULL)
        /\ Returns(Owner)
        /\ disturbed' = disturbed \union (IF pending # <<>> THEN {"overtaken"} ELSE {})
     \/ /\ ~Empty(n) /\ n = 0
        /\ \E x \in GetTaskFromArray(Own, Own, b) : Sets(Owner, "cas", top, b, x)
        /\ UNCHANGED <<running, failed, disturbed>>
  /\ UNCHANGED <<top, memory, pending, loaded, waiting, released>>

\* Mistake: bottom is set to the top that was expected.
StaleTop(w) == local[w].top

\* When it fails the exchange loads top.
LoadedTop(w) == top

PopExchange ==
  LET l == local[Owner] IN
  /\ Goes(Owner, "cas")
  /\ pending = <<>>
  /\ IF top = l.top
     THEN top' = top + 1 /\ Sets(Owner, "won", 0, l.top + 1, l.task)
     ELSE Sets(Owner, "lost", 0, LoadedTop(Owner), NULL) /\ UNCHANGED top
  /\ UNCHANGED <<memory, pending, restVars>>

\* bottom is the new top.  GetNextTask asserts that a task that was found is not NULL.
ResetBottom ==
  LET l == local[Owner] IN
  /\ Goes(Owner, "won") \/ Goes(Owner, "lost")
  /\ Store([Own EXCEPT !.bottom = l.bottom])
  /\ Runs(Owner, l.task)
  /\ failed' = (Goes(Owner, "won") /\ l.task = NULL)
  /\ Returns(Owner)
  /\ UNCHANGED <<top, memory, loaded, waiting, released, disturbed>>

-----------------------------------------------------------------------------
(* steal.                                                                  *)

StealTop(w) ==
  /\ released /\ Free(w)
  /\ Sets(w, "top", top, 0, NULL)
  /\ UNCHANGED <<top, memory, pending, restVars>>

\* Mistake: a thief leaves one task for the owner.
NothingButOne(n) == n <= 1

NothingToSteal(n) == n <= 0

StealBottom(w) ==
  LET l == local[w] IN
  /\ Goes(w, "top")
  /\ IF NothingToSteal(memory.bottom - l.top) THEN Returns(w) ELSE Sets(w, "read", l.top, 0, NULL)
  /\ UNCHANGED <<top, memory, pending, restVars>>

\* The size and the segment are loaded in either order, and then the entry.
LoadSize(w) ==
  /\ Goes(w, "read") /\ loaded[w].size = 0
  /\ loaded' = [loaded EXCEPT ![w].size = memory.size]
  /\ UNCHANGED <<top, memory, pending, local, taskVars>>

LoadSegment(w) ==
  /\ Goes(w, "read") /\ loaded[w].array = 0
  /\ loaded' = [loaded EXCEPT ![w].array = memory.array]
  /\ UNCHANGED <<top, memory, pending, local, taskVars>>

StealTask(w) ==
  LET l == local[w] IN
  /\ Goes(w, "read") /\ loaded[w].size # 0 /\ loaded[w].array # 0
  /\ \E x \in GetTaskFromArray(memory, loaded[w], l.top) : Sets(w, "cas", l.top, 0, x)
  /\ loaded' = [loaded EXCEPT ![w] = NotLoaded]
  /\ UNCHANGED <<top, memory, pending, taskVars>>

StealExchange(w) ==
  LET l == local[w] IN
  /\ Goes(w, "cas")
  /\ IF top = l.top
     THEN top' = l.top + 1 /\ Runs(w, l.task)
     ELSE UNCHANGED <<top, running>>
  /\ Returns(w)
  /\ UNCHANGED <<memory, pending, loaded, waiting, released, failed, disturbed>>

-----------------------------------------------------------------------------
(* The workers.                                                            *)

\* What was ready is dispatched, and the barrier of the start makes the stores seen.
ReleaseThreads ==
  /\ ~released /\ Goes(Owner, "idle") /\ pending = <<>>
  /\ released' = TRUE
  /\ UNCHANGED <<top, memory, pending, local, loaded, running, waiting, failed, disturbed>>

\* The owner has a task from another queue.
RunOther ==
  /\ released /\ Free(Owner)
  /\ \E x \in waiting : Runs(Owner, x) /\ waiting' = waiting \ {x}
  /\ UNCHANGED <<top, memory, pending, local, loaded, released, failed, disturbed>>

EndTask(w) ==
  /\ Goes(w, "idle") /\ running[w] # NULL
  /\ Runs(w, NULL)
  /\ waiting' = waiting \union {running[w]}
  /\ UNCHANGED <<top, memory, pending, local, loaded, released, failed, disturbed>>

Owns ==
  \/ \E x \in Tasks : PushBottom(x)
  \/ GrowCircularArray \/ PutTaskIntoArray \/ Publish
  \/ PopBottom \/ PopTop \/ PopExchange \/ ResetBottom
  \/ ReleaseThreads \/ RunOther \/ EndTask(Owner)

Steals(w) ==
  \/ StealTop(w) \/ StealBottom(w)
  \/ LoadSize(w) \/ LoadSegment(w) \/ StealTask(w)
  \/ StealExchange(w) \/ EndTask(w)

Next == Flush \/ Owns \/ \E w \in Thieves : Steals(w)

\* Stores get out of the processor, and workers that can go on do.
Fairness == WF_vars(Flush) /\ WF_vars(Owns) /\ \A w \in Thieves : WF_vars(Steals(w))

Spec == Init /\ [][Next]_vars /\ Fairness

-----------------------------------------------------------------------------
(* Properties.                                                             *)

\* What is in the deque: with the entry that the owner is about to take, or has given up,
\* but for those that a thief has taken from under its hands.
Queue ==
  LET bottom == Own.bottom + (IF local[Owner].pc \in {"popped", "cas", "lost"} THEN 1 ELSE 0) IN
  [k \in 1..(bottom - top) |-> Own.segment[(top + k - 1) % Own.size]]

\* What each worker has taken.
Taken == [running EXCEPT ![Owner] = IF Goes(Owner, "won") THEN local[Owner].task ELSE @]

\* popBottom finds a task (threadpool.cpp:207: "assert(my_next_task != NULL)"); and when it
\* finds none there is none, so that a worker that has gone through its queues may say
\* that it is idle.  So it is unless a pop overtook its own store of bottom, or the array
\* grew under the workers.
PopAnswers == undisturbed => ~failed /\ (Goes(Owner, "lost") => Queue = <<>>)

\* The tasks of a deque get taken although its owner always takes the newest, and
\* although thieves give up whenever top has changed.
EveryTaskTaken ==
  \A x \in Tasks : x \in Range(Queue) ~> (x \notin Range(Queue) \/ ~undisturbed)

\* The algorithm keeps the promise until it is disturbed: whatever one worker does between
\* the loads and the exchange of another, each task goes to one of them and none gets
\* lost.  A push takes place when bottom is stored, a pop or a theft when it can no longer
\* fail.
Promise == INSTANCE TaskDeque WITH deque <- Queue, running <- Taken
KeepsPromise == Promise!Init /\ [][undisturbed' => Promise!Next]_(Promise!vars)

\* popBottom takes the last task without an exchange only if "there are more than a single
\* element in deque" (worksteal.cpp:235), so nobody else takes that task.
TakenByOne ==
  \A v, w \in Workers : running[v] = running[w] /\ running[w] # NULL => v = w
=============================================================================

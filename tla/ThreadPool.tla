----------------------------- MODULE ThreadPool -----------------------------
(***************************************************************************)
(* The scheduler of the build without USE_TEST_THREAD (threadpool.cpp):    *)
(* workers take tasks from their own deque or steal them, and the worker   *)
(* that finds none and no task in work tells the main thread that the      *)
(* region is done (taskqueue.cpp).  The runtime that the tasks use is      *)
(* module Dataflow.                                                        *)
(*                                                                         *)
(* A deque is taken for what it promises: the owner pushes and pops at one *)
(* end, thieves take from the other, each task goes to one of them; a      *)
(* thief may miss a task.  The algorithm is module WorkSteal.              *)
(***************************************************************************)
EXTENDS TaskSystem, Functions

CONSTANTS
  Workers,      (* The threads of the pool.                                *)
  BoundTo       (* thread_bind_id: the worker that must run the task, NULL *)
                (* for most.                                               *)

Threads   == Workers
Scheduler == "threadPool"

ASSUME BoundAssumption == BoundTo \in [Tasks -> Workers \union {NULL}]

VARIABLES
  tokens, wait_queue, token_list, current_buffer, status, stop, ready, runs, pc, own,
  left, got, tok, passed, used, dropped,
  deque_list,        (* the deque of each worker, its bottom last          *)
  bind_queue_list,   (* the tasks bound to each worker                     *)
  ready_task_count,  (* tasks that are ready or run                        *)
  looked,            (* the worker has found its bind queue empty          *)
  idle_cycle,        (* the worker has found nothing, and has said so      *)
  reports,           (* the worker has found nothing and is to say so      *)
  region_done,       (* a signal was sent to the main thread               *)
  main               (* where the main thread is                           *)

Flow == INSTANCE Dataflow

flowVars == <<tokens, wait_queue, token_list, current_buffer, status, stop, ready,
              runs, pc, own, left, got, tok, passed, used, dropped>>
\* All of them but the status of tasks.
unmarkedVars == <<tokens, wait_queue, token_list, current_buffer, stop, ready, runs, pc, own,
                  left, got, tok, passed, used, dropped>>
queueVars  == <<deque_list, bind_queue_list>>
idleVars   == <<looked, idle_cycle, reports>>
regionVars == <<region_done, main>>
vars == <<flowVars, queueVars, ready_task_count, idleVars, regionVars>>

Init ==
  /\ Flow!Init
  /\ deque_list = [w \in Workers |-> <<>>]
  /\ bind_queue_list = [w \in Workers |-> <<>>]
  /\ ready_task_count = 0
  /\ looked = [w \in Workers |-> FALSE]
  /\ idle_cycle = [w \in Workers |-> FALSE]
  /\ reports = [w \in Workers |-> FALSE]
  /\ region_done = FALSE
  /\ main = "init"

-----------------------------------------------------------------------------
(* The main thread.                                                        *)

\* Push task t, which is ready, for worker w; a bound task goes to the queue of its
\* worker, which marks it as queued.
Push(w, t) ==
  IF BoundTo[t] # NULL
  THEN /\ bind_queue_list' = [bind_queue_list EXCEPT ![BoundTo[t]] = Append(@, t)]
       /\ status' = [status EXCEPT ![t] = "queued"]
       /\ UNCHANGED deque_list
  ELSE /\ deque_list' = [deque_list EXCEPT ![w] = Append(@, t)]
       /\ status' = [status EXCEPT ![t] = "ready"]
       /\ UNCHANGED bind_queue_list

\* One of the tasks that are ready is dealt out, in turn to the deques; the workers are
\* held back until ReleaseThreads.
DispatchTasks ==
  /\ main = "init"
  /\ \E t \in ready, w \in Workers :
       /\ \A v \in Workers : /\ t \notin Range(deque_list[v]) \union Range(bind_queue_list[v])
                             /\ Len(deque_list[w]) <= Len(deque_list[v])
       /\ Push(w, t)
  /\ ready_task_count' = ready_task_count + 1
  /\ UNCHANGED <<unmarkedVars, idleVars, regionVars>>

ReleaseThreads ==
  /\ main = "init" /\ ready_task_count = Cardinality(ready)
  /\ main' = "started"
  /\ UNCHANGED <<flowVars, queueVars, ready_task_count, idleVars, region_done>>

\* TaskRegionWait: the main thread goes to sleep, whatever has happened before.
TaskRegionWait ==
  /\ main = "started"
  /\ main' = "asleep"
  /\ UNCHANGED <<flowVars, queueVars, ready_task_count, idleVars, region_done>>

\* The wait has no condition: it also ends without a signal.
WakeUnsignalled ==
  /\ main = "asleep"
  /\ main' = "over"
  /\ UNCHANGED <<flowVars, queueVars, ready_task_count, idleVars, region_done>>

-----------------------------------------------------------------------------
(* ThreadRun.                                                              *)

Works(w) == main # "init" /\ ~reports[w]

\* The worker has task t to run.
Takes(w, t) ==
  /\ Flow!Run(w, t)
  /\ looked' = [looked EXCEPT ![w] = FALSE]
  /\ idle_cycle' = [idle_cycle EXCEPT ![w] = FALSE]
  /\ UNCHANGED <<ready_task_count, reports, regionVars>>

BindQueuePop(w) ==
  /\ Works(w) /\ ~looked[w]
  /\ bind_queue_list[w] # <<>>
  /\ bind_queue_list' = [bind_queue_list EXCEPT ![w] = Tail(@)]
  /\ Takes(w, Head(bind_queue_list[w]))
  /\ UNCHANGED deque_list

\* Nothing is bound to the worker; when it goes on to its deque, that may have changed.
BindQueueEmpty(w) ==
  /\ Works(w) /\ ~looked[w]
  /\ pc[w] = "idle" /\ bind_queue_list[w] = <<>>
  /\ looked' = [looked EXCEPT ![w] = TRUE]
  /\ UNCHANGED <<flowVars, queueVars, ready_task_count, idle_cycle, reports, regionVars>>

PopBottom(w) ==
  LET d == deque_list[w] IN
  /\ Works(w) /\ looked[w]
  /\ d # <<>>
  /\ deque_list' = [deque_list EXCEPT ![w] = SubSeq(d, 1, Len(d) - 1)]
  /\ Takes(w, d[Len(d)])
  /\ UNCHANGED bind_queue_list

\* Only the worker itself puts tasks into its deque, so it stays empty.
Steal(w) ==
  /\ Works(w) /\ looked[w]
  /\ deque_list[w] = <<>>
  /\ \E v \in Workers \ {w} :
       /\ deque_list[v] # <<>>
       /\ deque_list' = [deque_list EXCEPT ![v] = Tail(@)]
       /\ Takes(w, Head(deque_list[v]))
  /\ UNCHANGED bind_queue_list

\* Nothing was found, here and there one after the other; if it is the first time the
\* worker goes on to see whether the region is done.
FindNothing(w) ==
  /\ Works(w) /\ looked[w]
  /\ deque_list[w] = <<>>
  /\ looked' = [looked EXCEPT ![w] = FALSE]
  /\ reports' = [reports EXCEPT ![w] = ~idle_cycle[w]]
  /\ UNCHANGED <<flowVars, queueVars, ready_task_count, idle_cycle, regionVars>>

\* ReportIdleThread and TaskRegionDone: the signal wakes the main thread if it sleeps.
ReportIdleThread(w) ==
  /\ reports[w]
  /\ IF ready_task_count = 0
     THEN /\ region_done' = TRUE
          /\ main' = IF main = "asleep" THEN "over" ELSE main
     ELSE UNCHANGED regionVars
  /\ reports' = [reports EXCEPT ![w] = FALSE]
  /\ idle_cycle' = [idle_cycle EXCEPT ![w] = TRUE]
  /\ UNCHANGED <<flowVars, queueVars, ready_task_count, looked>>

Proceed(w) ==
  /\ Flow!Proceed(w)
  /\ UNCHANGED <<queueVars, ready_task_count, idleVars, regionVars>>

\* Mistake: a task that its own thread runs again is counted again.
CountAll(w) == 1

\* Mistake: a task that gets its last token is not counted.
CountNone(w) == 0

\* ScheduleTask counts a task that was not ready; ThreadRun has made its own so.
Counts(w) == IF got[w] = own[w] \/ status[got[w]] = "ready" THEN 0 ELSE 1

\* ScheduleTask, by PassToken2Buffer or by ThreadRun for its own task.
ScheduleTask(w) ==
  /\ Flow!Enable(w)
  /\ ready_task_count' = ready_task_count + Counts(w)
  /\ Push(w, got[w])
  /\ UNCHANGED <<idleVars, regionVars>>

\* The task was stopped or waits: one less, after it was queued.
Retire(w) ==
  /\ pc[w] = "retire"
  /\ Flow!End(w)
  /\ ready_task_count' = ready_task_count - 1
  /\ UNCHANGED <<queueVars, idleVars, regionVars>>

GoOn(w) ==
  /\ pc[w] = "over"
  /\ Flow!End(w)
  /\ UNCHANGED <<queueVars, ready_task_count, idleVars, regionVars>>

-----------------------------------------------------------------------------
Main == DispatchTasks \/ ReleaseThreads \/ TaskRegionWait

ThreadRun(w) ==
  \/ BindQueuePop(w) \/ BindQueueEmpty(w) \/ PopBottom(w) \/ Steal(w) \/ FindNothing(w) \/ ReportIdleThread(w)
  \/ Proceed(w) \/ ScheduleTask(w) \/ Retire(w) \/ GoOn(w)

Next == Main \/ WakeUnsignalled \/ \E w \in Workers : ThreadRun(w)

\* The operating system lets every thread run that can, and bodies of tasks return.
Fairness == WF_vars(Main) /\ \A w \in Workers : WF_vars(ThreadRun(w))

Spec == Init /\ [][Next]_vars /\ Fairness

-----------------------------------------------------------------------------
(* Properties.                                                             *)

TypeOK          == Flow!TypeOK
TasksInOnePlace == Flow!TasksInOnePlace
TokensConserved == Flow!TokensConserved

\* The region is said to be done when every task was stopped or waits for a token that
\* was not passed, and no sooner, although the counter of tasks is changed at other
\* moments than the queues (taskqueue.cpp:333: "wait for all the task from the task
\* region to finish").
RegionDoneLast ==
  region_done =>
    \A t \in Tasks : \/ status[t] = "stopped"
                     \/ /\ status[t] = "waiting"
                        /\ tokens[BufferList[t][current_buffer[t]]] = <<>>

\* Workers report only once while they are idle; still the last one does not miss the
\* end of the region.
RegionGetsDone == <>region_done

\* The main thread does not sleep through the signal (taskqueue.cpp:336: "this condition
\* is used to avoid missing the signal").
SignalNotMissed ==
  (\A w \in Workers : pc[w] = "idle" /\ idle_cycle[w] /\ bind_queue_list[w] = <<>>
                      /\ deque_list[w] = <<>>)
    => main # "asleep"
=============================================================================

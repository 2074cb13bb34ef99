--------------------------- MODULE TestScheduler ---------------------------
(***************************************************************************)
(* The scheduler of the default build (testscheduler.cpp).  Each run of a  *)
(* task has a thread of its own; the scheduler picks one that is ready,    *)
(* wakes it and sleeps until it is finished, so that one task runs at a    *)
(* time.  The runtime that the tasks use is module Dataflow.               *)
(*                                                                         *)
(* Threads and scheduler share one mutex: what is done under it is one     *)
(* step.  A signal wakes who waits on the condition variable, and is lost  *)
(* when nobody does.  Priorities are random, so the top of the queue is    *)
(* any thread in it; a thread keeps its priority for ever, so there are    *)
(* MAX_PRIORITY threads at most.  SuspendCurrentThread is left out: its    *)
(* calls are commented out (adf_tm.h:112).                                 *)
(*                                                                         *)
(* Two things disturb the hand-over: nothing sets the status of a new      *)
(* thread, and the scheduler's wait has no predicate, so that a wake-up    *)
(* without a signal ends it.  The history variable disturbed tells whether *)
(* they have happened.                                                     *)
(***************************************************************************)
EXTENDS TaskSystem

CONSTANTS
  MAX_PRIORITY   (* Bound of the code on the threads: 10000.               *)

Threads   == 1..MAX_PRIORITY
Scheduler == "taskPerThread"

ASSUME PriorityAssumption == MAX_PRIORITY \in Nat

\* What the memory of a new thread may say of its status: nothing sets it, and the thread
\* looks only whether it is "scheduled".
FreshStatus == {"finished", "scheduled"}

VARIABLES
  tokens, wait_queue, token_list, current_buffer, status, stop, ready, runs, pc, own,
  left, got, tok, passed, used, dropped,
  threads,         (* how many threads there are                           *)
  task,            (* TaskThread: the task of each                         *)
  thread_status,   (* TaskThread: its status                               *)
  at,              (* where each thread is, beside its task                *)
  p_queue,         (* the threads that may be picked                       *)
  current_thread,  (* the thread picked last                               *)
  main,            (* where the scheduler is                               *)
  disturbed        (* history: a thread was born "fresh" as if it was      *)
                   (* scheduled, the scheduler "woke" without a signal     *)

Flow == INSTANCE Dataflow

flowVars      == <<tokens, wait_queue, token_list, current_buffer, status, stop, ready,
                   runs, pc, own, left, got, tok, passed, used, dropped>>
schedulerVars == <<threads, task, thread_status, at, p_queue, current_thread, main,
                   disturbed>>
vars == <<flowVars, schedulerVars>>

Init ==
  /\ Flow!Init
  /\ threads = 0
  /\ task = [th \in Threads |-> NULL]
  /\ thread_status = [th \in Threads |-> "none"]
  /\ at = [th \in Threads |-> "none"]
  /\ p_queue = {}
  /\ current_thread = NULL
  /\ main = "init"
  /\ disturbed = {}

-----------------------------------------------------------------------------
\* A thread for task t, which starts at once, and into the queue with it.
AddTask(t) ==
  \E fresh \in FreshStatus :
    /\ threads < MAX_PRIORITY
    /\ threads' = threads + 1
    /\ task' = [task EXCEPT ![threads'] = t]
    /\ thread_status' = [thread_status EXCEPT ![threads'] = fresh]
    /\ at' = [at EXCEPT ![threads'] = "born"]
    /\ p_queue' = p_queue \union {threads'}
    /\ disturbed' = disturbed \union (IF fresh = "scheduled" THEN {"fresh"} ELSE {})

NewTasks == {t \in Tasks : status[t] = "ready" /\ \A th \in Threads : task[th] # t}

\* StartDataflow: threads for the tasks that are ready and have none.
InitPQueue ==
  /\ main = "init"
  /\ \/ /\ \E t \in NewTasks : AddTask(t)
        /\ UNCHANGED main
     \/ /\ NewTasks = {}
        /\ main' = "loop"
        /\ UNCHANGED <<threads, task, thread_status, at, p_queue, disturbed>>
  /\ UNCHANGED <<flowVars, current_thread>>

\* A signal to thread th.
Wake(th) == IF at[th] = "asleep" THEN [at EXCEPT ![th] = "awake"] ELSE at

\* Start picks a thread; under the mutex it is marked and woken, and the scheduler goes
\* to sleep.
RunCurrentThread ==
  /\ main = "loop"
  /\ \E th \in p_queue :
       /\ current_thread' = th
       /\ p_queue' = p_queue \ {th}
       /\ thread_status' = [thread_status EXCEPT ![th] = "scheduled"]
       /\ at' = Wake(th)
  /\ main' = "asleep"
  /\ UNCHANGED <<flowVars, threads, task, disturbed>>

\* The wait of the scheduler ends without a signal, and nothing is looked at after it.
WakeUnsignalled ==
  /\ main = "asleep"
  /\ main' = "loop"
  /\ disturbed' = disturbed \union {"woken"}
  /\ UNCHANGED <<flowVars, threads, task, thread_status, at, p_queue, current_thread>>

StartReturns ==
  /\ main = "loop" /\ p_queue = {}
  /\ main' = "done"
  /\ UNCHANGED <<flowVars, threads, task, thread_status, at, p_queue, current_thread, disturbed>>

-----------------------------------------------------------------------------
\* Mistake: the thread goes to sleep without a look at its status.
SleepUnseen(th) ==
  /\ at[th] \in {"born", "awake"}
  /\ thread_status' = [thread_status EXCEPT ![th] = "waiting"]
  /\ at' = [at EXCEPT ![th] = "asleep"]
  /\ UNCHANGED <<flowVars, threads, task, p_queue, current_thread, main, disturbed>>

\* The thread looks, under the mutex, whether it is scheduled, and sleeps if not.
Look(th) ==
  /\ at[th] \in {"born", "awake"}
  /\ thread_status[th] # "scheduled"
  /\ thread_status' = [thread_status EXCEPT ![th] = "waiting"]
  /\ at' = [at EXCEPT ![th] = "asleep"]
  /\ UNCHANGED <<flowVars, threads, task, p_queue, current_thread, main, disturbed>>

\* A thread may wake without a signal.
WakeUp(th) ==
  /\ at[th] = "asleep"
  /\ at' = [at EXCEPT ![th] = "awake"]
  /\ UNCHANGED <<flowVars, threads, task, thread_status, p_queue, current_thread, main, disturbed>>

\* Mistake: the thread takes being awake for being scheduled.
RunAwake(th) ==
  /\ at[th] \in {"born", "awake"}
  /\ thread_status' = [thread_status EXCEPT ![th] = "running"]
  /\ at' = [at EXCEPT ![th] = "task"]
  /\ Flow!Run(th, task[th])
  /\ UNCHANGED <<threads, task, p_queue, current_thread, main, disturbed>>

RunTask(th) ==
  /\ at[th] \in {"born", "awake"}
  /\ thread_status[th] = "scheduled"
  /\ thread_status' = [thread_status EXCEPT ![th] = "running"]
  /\ at' = [at EXCEPT ![th] = "task"]
  /\ Flow!Run(th, task[th])
  /\ UNCHANGED <<threads, task, p_queue, current_thread, main, disturbed>>

Proceed(th) ==
  /\ Flow!Proceed(th)
  /\ UNCHANGED schedulerVars

\* Mistake: a thread whose own task is ready again forgets to add it.
EnableOthers(th) ==
  /\ Flow!Enable(th)
  /\ IF got[th] # own[th] THEN AddTask(got[th])
     ELSE UNCHANGED <<threads, task, thread_status, at, p_queue, disturbed>>
  /\ UNCHANGED <<current_thread, main>>

\* A task has got all its tokens, by PassToken2Buffer or by its own thread.
Enable(th) ==
  /\ Flow!Enable(th)
  /\ AddTask(got[th])
  /\ UNCHANGED <<current_thread, main>>

\* The run is over and the thread finished, without the mutex.
Finish(th) ==
  /\ at[th] = "task"
  /\ Flow!End(th)
  /\ thread_status' = [thread_status EXCEPT ![th] = "finished"]
  /\ at' = [at EXCEPT ![th] = "finished"]
  /\ UNCHANGED <<threads, task, p_queue, current_thread, main, disturbed>>

\* Under the mutex the thread signals the scheduler, if it still is finished.
Signal(th) ==
  /\ at[th] = "finished"
  /\ at' = [at EXCEPT ![th] = "ended"]
  /\ main' = IF main = "asleep" /\ thread_status[th] = "finished" THEN "loop" ELSE main
  /\ UNCHANGED <<flowVars, threads, task, thread_status, p_queue, current_thread, disturbed>>

-----------------------------------------------------------------------------
Start      == InitPQueue \/ RunCurrentThread \/ StartReturns
Runs(th)   == Look(th) \/ RunTask(th) \/ Proceed(th) \/ Enable(th) \/ Finish(th) \/ Signal(th)

Next == Start \/ WakeUnsignalled \/ \E th \in Threads : Runs(th) \/ WakeUp(th)

\* The operating system lets every thread run that can, and bodies of tasks return.
Fairness == WF_vars(Start) /\ \A th \in Threads : WF_vars(Runs(th))

Spec == Init /\ [][Next]_vars /\ Fairness

-----------------------------------------------------------------------------
(* Properties.                                                             *)

undisturbed == disturbed = {}

\* The hand-over of the condition variables gives what the tracer and the matching of
\* tokens rely on: one task at a time.  After a disturbance tasks may run side by side,
\* but each is still begun when it was ready, and once.
OneTaskAtATime ==
  /\ Flow!Init
  /\ [][\/ Flow!Next
        \/ ~undisturbed' /\ \E th \in Threads, t \in ready : Flow!Run(th, t)]_flowVars

\* No task sleeps in the queue of a buffer that has a token, disturbed or not.
NoneWaitsBesideTokens == Flow!NoneWaitsBesideTokens

\* The tokens of a run were passed together, unless the hand-over was disturbed.
TokensMatched == undisturbed => Flow!TokensMatched

\* Start returns when every task was stopped or waits for a token that was not passed,
\* and not before (TerminateRuntime frees the tasks after it), unless disturbed.
StartReturnsLast ==
  main = "done" /\ undisturbed =>
    \A t \in Tasks : \/ status[t] = "stopped"
                     \/ /\ status[t] = "waiting"
                        /\ tokens[BufferList[t][current_buffer[t]]] = <<>>

\* A thread or the scheduler needs one more priority and looks for it for ever.
PrioritiesGiven ==
  /\ threads = MAX_PRIORITY
  /\ \/ main = "init" /\ NewTasks # {}
     \/ \E th \in Threads : pc[th] = "consume" /\ current_buffer[got[th]] > Len(BufferList[got[th]])

\* No wake-up is lost: Start does return, whether or not the scheduler was woken without a
\* signal, unless a thread began before its turn or the priorities are used up.
StartDoesReturn == <>(main = "done" \/ "fresh" \in disturbed \/ PrioritiesGiven)
=============================================================================

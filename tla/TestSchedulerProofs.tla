------------------------ MODULE TestSchedulerProofs ------------------------
(***************************************************************************)
(* The test scheduler implements module Dataflow, whatever the program and *)
(* the bound on the threads: one task runs at a time until the hand-over   *)
(* is disturbed.  Every task that is ready has a thread of its own.        *)
(***************************************************************************)
EXTENDS TestScheduler, TLAPS

P == INSTANCE DataflowProofs

-----------------------------------------------------------------------------
(* The inductive invariant.                                                *)

\* Threads that have not begun to run their task.
Pending(th) == at[th] \in {"born", "asleep", "awake"}
Scheduled(th) == thread_status[th] = "scheduled"
Busy(th) == at[th] \in {"task", "finished"}

Statuses == {"none", "waiting", "scheduled", "running", "finished"}
Places == {"none", "born", "asleep", "awake", "task", "finished", "ended"}

SchedulerTypes ==
  /\ threads \in Nat /\ threads <= MAX_PRIORITY
  /\ task \in [Threads -> Tasks \union {NULL}]
  /\ thread_status \in [Threads -> Statuses]
  /\ at \in [Threads -> Places]
  /\ p_queue \subseteq Threads
  /\ \A th \in Threads : th > threads => at[th] = "none"
  /\ \A th \in Threads : at[th] = "none" => task[th] = NULL
  /\ \A th \in Threads : at[th] = "task" <=> pc[th] # "idle"

\* Disturbed or not, a thread that has not begun has a task that is ready, and has it alone.
PendingInv ==
  /\ \A th \in Threads : Pending(th) => task[th] \in ready
  /\ \A th, u \in Threads : Pending(th) /\ Pending(u) /\ task[th] = task[u] => th = u
  /\ main = "init" => NewTasks \subseteq ready

\* Only a thread that was picked runs its task, while the scheduler sleeps.
TurnInv ==
  /\ \A th \in Threads : Busy(th) => th = current_thread /\ main = "asleep"
  /\ \A th \in Threads : at[th] = "finished" => thread_status[th] = "finished"
  /\ \A th \in Threads : Scheduled(th) =>
       /\ th = current_thread /\ main = "asleep" /\ at[th] \in {"born", "awake"}
       /\ \A u \in Threads : ~Busy(u)

\* Every task that is ready has a thread in the queue or picked.
ServedInv ==
  /\ \A th \in p_queue : Pending(th) /\ ~Scheduled(th)
  /\ main = "init" => /\ \A t \in Tasks : status[t] = "ready" <=> t \in ready
                      /\ \A th \in Threads : task[th] # NULL => th \in p_queue
  /\ main # "init" => \A t \in ready : \E th \in Threads :
       Pending(th) /\ task[th] = t /\ (th \in p_queue \/ Scheduled(th))
  /\ main = "done" => p_queue = {}

OrderInv == TurnInv /\ ServedInv

SInv == P!IInv /\ SchedulerTypes /\ PendingInv /\ (undisturbed => OrderInv)

-----------------------------------------------------------------------------
(* What the steps of Dataflow do to the state that both modules share.     *)

LEMMA SameActions ==
  ASSUME NEW w \in Threads
  PROVE  /\ \A t : Flow!Run(w, t) <=> P!Run(w, t)
         /\ Flow!Proceed(w) <=> P!Proceed(w)
         /\ Flow!Enable(w) <=> P!Enable(w)
         /\ Flow!End(w) <=> P!End(w)
<1>1. \A t : Flow!Run(w, t) <=> P!Run(w, t)
  BY DEF P!Run, Flow!Run, P!bufferVars, Flow!bufferVars, P!history, Flow!history
<1>2. Flow!Return(w) <=> P!Return(w)
  BY DEF P!Return, Flow!Return, P!bufferVars, Flow!bufferVars
<1>3. Flow!Deposit(w) <=> P!Deposit(w)
  BY DEF P!Deposit, Flow!Deposit, P!PutToken, Flow!PutToken, P!taskVars, Flow!taskVars
<1>4. Flow!Dequeue(w) <=> P!Dequeue(w)
  BY DEF P!Dequeue, Flow!Dequeue, P!taskVars, Flow!taskVars
<1>5. Flow!Give(w) <=> P!Give(w)
  BY DEF P!Give, Flow!Give, P!bufferVars, Flow!bufferVars, P!history, Flow!history
<1>6. Flow!GetToken(w) <=> P!GetToken(w)
  BY DEF P!GetToken, Flow!GetToken, P!Needs, Flow!Needs, P!threadVars, Flow!threadVars,
         P!history, Flow!history
<1>7. Flow!EnqueueTask(w) <=> P!EnqueueTask(w)
  BY DEF P!EnqueueTask, Flow!EnqueueTask, P!Needs, Flow!Needs, P!history, Flow!history
<1>8. Flow!Enable(w) <=> P!Enable(w)
  BY DEF P!Enable, Flow!Enable, P!ReadyMarks, Flow!ReadyMarks, P!bufferVars, Flow!bufferVars, P!history, Flow!history
<1>9. Flow!End(w) <=> P!End(w)
  BY DEF P!End, Flow!End, P!bufferVars, Flow!bufferVars, P!taskVars, Flow!taskVars,
         P!history, Flow!history
<1> QED BY <1>1, <1>2, <1>3, <1>4, <1>5, <1>6, <1>7, <1>8, <1>9 DEF P!Proceed, Flow!Proceed

LEMMA FlowSteps ==
  ASSUME P!IInv, NEW w \in Threads
  PROVE  /\ \A t \in ready : Flow!Run(w, t) =>
              /\ P!IInv' /\ ready' = ready \ {t} /\ status' = status
              /\ pc[w] = "idle" /\ pc' = [pc EXCEPT ![w] = "body"]
         /\ Flow!Proceed(w) =>
              /\ P!IInv' /\ ready' = ready
              /\ \A t \in Tasks : status'[t] = "ready" => status[t] = "ready"
              /\ pc[w] # "idle" /\ pc'[w] # "idle" /\ \A x \in Threads : x # w => pc'[x] = pc[x]
         /\ Flow!Enable(w) =>
              /\ P!IInv' /\ ready' = ready \union {got[w]}
              /\ \A t \in Tasks : t # got[w] => status'[t] = status[t]
              /\ got[w] \in Tasks /\ got[w] \notin ready
              /\ pc[w] # "idle" /\ pc'[w] # "idle" /\ \A x \in Threads : x # w => pc'[x] = pc[x]
         /\ Flow!End(w) =>
              /\ P!IInv' /\ ready' = ready /\ status' = status
              /\ pc[w] # "idle" /\ pc' = [pc EXCEPT ![w] = "idle"]
<1> USE NullAssumption, CapacityAssumption, BufferListAssumption, CreatedAssumption,
        CodeAssumption DEF Behaviour, P!Behaviour
<1>0. P!TypeInv /\ P!ThreadInv /\ P!PlaceInv
  BY DEF P!IInv
<1>1. ASSUME NEW t \in ready, Flow!Run(w, t)
      PROVE  /\ P!IInv' /\ ready' = ready \ {t} /\ status' = status
             /\ pc[w] = "idle" /\ pc' = [pc EXCEPT ![w] = "body"]
  <2>1. P!Run(w, t)
    BY <1>1, SameActions
  <2>2. P!IInv'
    BY <2>1, P!RunKeeps
  <2> QED BY <2>1, <2>2 DEF P!Run, Scheduler
<1>2. ASSUME Flow!Proceed(w)
      PROVE  /\ P!IInv' /\ ready' = ready
             /\ \A t \in Tasks : status'[t] = "ready" => status[t] = "ready"
             /\ pc[w] # "idle" /\ pc'[w] # "idle" /\ \A x \in Threads : x # w => pc'[x] = pc[x]
  <2>1. P!Proceed(w)
    BY <1>2, SameActions
  <2>2. P!IInv'
    BY <2>1, P!ProceedKeeps
  <2>3. ready' = ready /\ pc[w] # "idle"
    BY <2>1 DEF P!Proceed, P!Return, P!Deposit, P!Dequeue, P!Give, P!GetToken, P!EnqueueTask, P!Needs
  <2>4. \/ pc' = pc
        \/ \E x \in {"retire", "consume", "give", "body"} : pc' = [pc EXCEPT ![w] = x]
    BY <2>1 DEF P!Proceed, P!Return, P!Deposit, P!Dequeue, P!Give, P!GetToken, P!EnqueueTask,
                P!threadVars
  <2>5. pc'[w] # "idle" /\ \A x \in Threads : x # w => pc'[x] = pc[x]
    BY <1>0, <2>3, <2>4 DEF P!TypeInv
  <2>6. \A t \in Tasks : status'[t] = "ready" => status[t] = "ready"
    <3>1. \/ status' = status
          \/ \E t \in Tasks, x \in {"waiting", "stopped"} : status' = [status EXCEPT ![t] = x]
      <4>1. P!Return(w) => \/ status' = status
                           \/ own[w] \in Tasks /\ status' = [status EXCEPT ![own[w]] = "stopped"]
        BY <1>0 DEF P!Return, P!TypeInv, P!ThreadInv
      <4>2. P!EnqueueTask(w) => got[w] \in Tasks /\ status' = [status EXCEPT ![got[w]] = "waiting"]
        BY <1>0 DEF P!EnqueueTask, P!Needs, P!TypeInv, P!ThreadInv
      <4>3. P!Deposit(w) \/ P!Dequeue(w) \/ P!Give(w) \/ P!GetToken(w) => status' = status
        BY DEF P!Deposit, P!Dequeue, P!Give, P!GetToken, P!taskVars
      <4> QED BY <2>1, <4>1, <4>2, <4>3 DEF P!Proceed
    <3> QED BY <1>0, <3>1 DEF P!TypeInv
  <2> QED BY <2>2, <2>3, <2>5, <2>6
<1>3. ASSUME Flow!Enable(w)
      PROVE  /\ P!IInv' /\ ready' = ready \union {got[w]}
             /\ \A t \in Tasks : t # got[w] => status'[t] = status[t]
             /\ got[w] \in Tasks /\ got[w] \notin ready
             /\ pc[w] # "idle" /\ pc'[w] # "idle" /\ \A x \in Threads : x # w => pc'[x] = pc[x]
  <2>1. P!Enable(w)
    BY <1>3, SameActions
  <2>2. P!IInv'
    BY <2>1, P!EnableKeeps
  <2>3. /\ pc[w] = "consume" /\ ready' = ready \union {got[w]}
        /\ pc' = [pc EXCEPT ![w] = IF got[w] = own[w] THEN "over" ELSE "body"]
    BY <2>1 DEF P!Enable
  <2>4. got[w] \in Tasks
    BY <1>0, <2>3 DEF P!TypeInv, P!ThreadInv
  <2>5. got[w] \notin ready
    BY <1>0, <2>3, <2>4 DEF P!PlaceInv, P!Holds
  <2>6. pc'[w] # "idle" /\ \A x \in Threads : x # w => pc'[x] = pc[x]
    BY <1>0, <2>3 DEF P!TypeInv
  <2>7. \A t \in Tasks : t # got[w] => status'[t] = status[t]
    BY <1>0, <2>1 DEF P!Enable, P!ReadyMarks, P!TypeInv
  <2> QED BY <2>2, <2>3, <2>4, <2>5, <2>6, <2>7
<1>4. ASSUME Flow!End(w)
      PROVE  /\ P!IInv' /\ ready' = ready /\ status' = status
             /\ pc[w] # "idle" /\ pc' = [pc EXCEPT ![w] = "idle"]
  <2>1. P!End(w)
    BY <1>4, SameActions
  <2>2. P!IInv'
    BY <2>1, P!EndKeeps
  <2> QED BY <2>1, <2>2 DEF P!End, P!taskVars
<1> QED BY <1>1, <1>2, <1>3, <1>4

LEMMA FlowStutters ==
  ASSUME P!IInv, UNCHANGED flowVars
  PROVE  P!IInv' /\ UNCHANGED <<ready, status, pc>>
<1>1. UNCHANGED P!vars /\ UNCHANGED Flow!vars
  BY DEF flowVars, P!vars, P!bufferVars, P!taskVars, P!threadVars, P!history,
         Flow!vars, Flow!bufferVars, Flow!taskVars, Flow!threadVars, Flow!history
<1>2. P!IInv'
  BY <1>1, P!StutterKeeps, NullAssumption, CapacityAssumption, BufferListAssumption,
     CreatedAssumption, CodeAssumption DEF Behaviour, P!Behaviour
<1> QED BY <1>1, <1>2 DEF flowVars

-----------------------------------------------------------------------------
(* The steps.                                                              *)

\* What a step leaves alone, as far as the queue and the threads are concerned.
LEMMA PendingKept ==
  ASSUME PendingInv, ready \subseteq ready', UNCHANGED <<task, status>>,
         main' = "init" => main = "init",
         \A u \in Threads : Pending(u)' => Pending(u)
  PROVE  PendingInv'
BY DEF PendingInv, NewTasks

\* A thread for a task that has become ready or has none yet.
LEMMA AddTaskKeeps ==
  ASSUME SchedulerTypes, PendingInv, NEW t \in Tasks, AddTask(t),
         t \in ready', ready \subseteq ready',
         \A u \in Threads : Pending(u) => task[u] # t,
         \A u \in Threads : pc'[u] = "idle" <=> pc[u] = "idle",
         \A s \in Tasks : s # t => (status'[s] = "ready" => status[s] = "ready"),
         UNCHANGED <<main, current_thread>>
  PROVE  /\ SchedulerTypes' /\ PendingInv'
         /\ undisturbed' => undisturbed
         /\ undisturbed' /\ TurnInv => TurnInv'
         /\ undisturbed' /\ ServedInv => \A u \in p_queue' : Pending(u)' /\ ~Scheduled(u)'
         /\ \A u \in Threads : Pending(u) => Pending(u)' /\ task'[u] = task[u]
                                           /\ (Scheduled(u) => Scheduled(u)')
         /\ p_queue \subseteq p_queue'
         /\ \E n \in Threads : /\ Pending(n)' /\ task'[n] = t /\ n \in p_queue'
                              /\ \A u \in Threads : u # n => task'[u] = task[u]
<1>1. PICK fresh \in FreshStatus :
         /\ threads < MAX_PRIORITY /\ threads' = threads + 1
         /\ task' = [task EXCEPT ![threads'] = t]
         /\ thread_status' = [thread_status EXCEPT ![threads'] = fresh]
         /\ at' = [at EXCEPT ![threads'] = "born"]
         /\ p_queue' = p_queue \union {threads'}
         /\ disturbed' = disturbed \union (IF fresh = "scheduled" THEN {"fresh"} ELSE {})
  BY DEF AddTask
<1>2. PICK n \in Threads : n = threads + 1 /\ n = threads' /\ n > threads /\ n <= MAX_PRIORITY
  BY <1>1, PriorityAssumption DEF SchedulerTypes, Threads
<1>3. at[n] = "none" /\ pc[n] = "idle" /\ ~Pending(n) /\ ~Busy(n)
  BY <1>2 DEF SchedulerTypes, Pending, Busy
<1>4. /\ task'[n] = t /\ thread_status'[n] = fresh /\ at'[n] = "born"
      /\ \A u \in Threads : u # n => /\ task'[u] = task[u] /\ at'[u] = at[u]
                                    /\ thread_status'[u] = thread_status[u]
  BY <1>1, <1>2 DEF SchedulerTypes
<1>5. /\ undisturbed' => undisturbed /\ fresh # "scheduled"
      /\ fresh \in Statuses /\ t # NULL
  BY <1>1, NullAssumption DEF undisturbed, FreshStatus, Statuses
<1>6. /\ \A u \in Threads : u # n => /\ (Pending(u)' <=> Pending(u)) /\ (Scheduled(u)' <=> Scheduled(u))
                                    /\ (Busy(u)' <=> Busy(u))
      /\ Pending(n)' /\ ~Busy(n)' /\ (undisturbed' => ~Scheduled(n)')
  BY <1>4, <1>5 DEF Pending, Scheduled, Busy
<1>7. SchedulerTypes'
  <2>1. threads' \in Nat /\ threads' <= MAX_PRIORITY
    BY <1>2 DEF SchedulerTypes
  <2>2. /\ task' \in [Threads -> Tasks \union {NULL}]
        /\ thread_status' \in [Threads -> Statuses]
        /\ at' \in [Threads -> Places]
        /\ p_queue' \subseteq Threads
    BY <1>1, <1>2, <1>5 DEF SchedulerTypes, Places
  <2>3. \A u \in Threads : u > threads' => at'[u] = "none"
    <3> SUFFICES ASSUME NEW u \in Threads, u > threads' PROVE at'[u] = "none"
      OBVIOUS
    <3>1. u # n /\ u > threads
      BY <1>1, <1>2 DEF SchedulerTypes, Threads
    <3> QED BY <1>4, <3>1 DEF SchedulerTypes
  <2>4. \A u \in Threads : at'[u] = "none" => task'[u] = NULL
    BY <1>4 DEF SchedulerTypes
  <2>5. \A u \in Threads : at'[u] = "task" <=> pc'[u] # "idle"
    BY <1>3, <1>4 DEF SchedulerTypes
  <2> QED BY <2>1, <2>2, <2>3, <2>4, <2>5 DEF SchedulerTypes
<1>8. undisturbed' /\ TurnInv => TurnInv'
  <2> SUFFICES ASSUME undisturbed', TurnInv PROVE TurnInv'
    OBVIOUS
  <2>1. \A u \in Threads : Busy(u)' => u = current_thread' /\ main' = "asleep"
    BY <1>6 DEF TurnInv
  <2>2. \A u \in Threads : at'[u] = "finished" => thread_status'[u] = "finished"
    BY <1>4 DEF TurnInv
  <2>3. \A u \in Threads : Scheduled(u)' =>
          /\ u = current_thread' /\ main' = "asleep" /\ at'[u] \in {"born", "awake"}
          /\ \A v \in Threads : ~Busy(v)'
    BY <1>4, <1>6 DEF TurnInv
  <2> QED BY <2>1, <2>2, <2>3 DEF TurnInv
<1>9. PendingInv'
  <2>1. \A u \in Threads : Pending(u)' => task'[u] \in ready'
    BY <1>4, <1>6 DEF PendingInv
  <2>2. \A u, v \in Threads : Pending(u)' /\ Pending(v)' /\ task'[u] = task'[v] => u = v
    <3> SUFFICES ASSUME NEW u \in Threads, NEW v \in Threads, Pending(u)', Pending(v)',
                        task'[u] = task'[v]
                 PROVE  u = v
      OBVIOUS
    <3>1. CASE u = n \/ v = n
      BY <1>4, <1>6, <3>1
    <3>2. CASE u # n /\ v # n
      BY <1>4, <1>6, <3>2 DEF PendingInv
    <3> QED BY <3>1, <3>2
  <2>3. main' = "init" => NewTasks' \subseteq ready'
    <3> SUFFICES ASSUME main = "init", NEW s \in NewTasks' PROVE s \in ready'
      OBVIOUS
    <3>1. s \in Tasks /\ status'[s] = "ready" /\ \A u \in Threads : task'[u] # s
      BY DEF NewTasks
    <3>2. s # t /\ \A u \in Threads : task[u] # s
      <4>1. s # t
        BY <1>4, <3>1
      <4>2. task[n] = NULL
        BY <1>3 DEF SchedulerTypes
      <4> QED BY <1>4, <3>1, <4>1, <4>2, NullAssumption
    <3> QED BY <3>1, <3>2 DEF NewTasks, PendingInv
  <2> QED BY <2>1, <2>2, <2>3 DEF PendingInv
<1>10. undisturbed' /\ ServedInv => \A u \in p_queue' : Pending(u)' /\ ~Scheduled(u)'
  BY <1>1, <1>2, <1>6 DEF ServedInv, SchedulerTypes
<1>11. \A u \in Threads : Pending(u) => /\ Pending(u)' /\ task'[u] = task[u]
                                        /\ (Scheduled(u) => Scheduled(u)')
  BY <1>3, <1>4, <1>6
<1>12. p_queue \subseteq p_queue' /\ n \in p_queue'
  BY <1>1, <1>2
<1> QED BY <1>4, <1>5, <1>6, <1>7, <1>8, <1>9, <1>10, <1>11, <1>12

\* The main thread.
LEMMA InitPQueueKeeps ==
  ASSUME SInv, InitPQueue
  PROVE  SInv' /\ UNCHANGED flowVars
<1>0. P!IInv /\ SchedulerTypes /\ PendingInv /\ (undisturbed => TurnInv /\ ServedInv)
  BY DEF SInv, OrderInv
<1>1. main = "init" /\ UNCHANGED <<flowVars, current_thread>>
  BY DEF InitPQueue
<1>2. P!IInv' /\ UNCHANGED <<ready, status, pc>>
  BY <1>0, <1>1, FlowStutters
<1>3. CASE (\E t \in NewTasks : AddTask(t)) /\ UNCHANGED main
  <2>1. PICK t \in NewTasks : AddTask(t)
    BY <1>3
  <2>2. t \in Tasks /\ t \in ready /\ \A u \in Threads : task[u] # t
    BY <1>0, <1>1, <2>1 DEF PendingInv, NewTasks
  <2>3. /\ t \in ready' /\ ready \subseteq ready' /\ UNCHANGED <<main, current_thread>>
        /\ \A u \in Threads : pc'[u] = "idle" <=> pc[u] = "idle"
        /\ \A s \in Tasks : s # t => (status'[s] = "ready" => status[s] = "ready")
    BY <1>1, <1>2, <1>3, <2>2
  <2>4. /\ SchedulerTypes' /\ PendingInv' /\ p_queue \subseteq p_queue'
        /\ undisturbed' => undisturbed
        /\ undisturbed' /\ TurnInv => TurnInv'
        /\ undisturbed' /\ ServedInv => \A u \in p_queue' : Pending(u)' /\ ~Scheduled(u)'
        /\ \E n \in Threads : /\ Pending(n)' /\ task'[n] = t /\ n \in p_queue'
                             /\ \A u \in Threads : u # n => task'[u] = task[u]
    BY <1>0, <2>1, <2>2, <2>3, AddTaskKeeps
  <2>5. ASSUME undisturbed' PROVE ServedInv'
    <3>1. ServedInv
      BY <1>0, <2>4, <2>5
    <3> QED BY <1>1, <1>2, <1>3, <2>4, <2>5, <3>1 DEF ServedInv
  <2>6. undisturbed' => TurnInv' /\ ServedInv'
    BY <1>0, <2>4, <2>5
  <2> QED BY <1>1, <1>2, <2>4, <2>6 DEF SInv, OrderInv
<1>4. CASE /\ NewTasks = {} /\ main' = "loop"
           /\ UNCHANGED <<threads, task, thread_status, at, p_queue, disturbed>>
  <2>1. SchedulerTypes'
    BY <1>0, <1>2, <1>4 DEF SchedulerTypes
  <2>2. PendingInv'
    BY <1>0, <1>2, <1>4, PendingKept DEF Pending
  <2>3. ASSUME undisturbed' PROVE TurnInv' /\ ServedInv'
    <3>0. TurnInv /\ ServedInv
      BY <1>0, <1>4, <2>3 DEF undisturbed
    <3>1. TurnInv'
      BY <1>1, <1>2, <1>4, <3>0 DEF TurnInv, Scheduled, Busy
    <3>2. \A t \in ready : \E th \in Threads : Pending(th) /\ task[th] = t /\ th \in p_queue
      <4> SUFFICES ASSUME NEW t \in ready
                   PROVE  \E th \in Threads : Pending(th) /\ task[th] = t /\ th \in p_queue
        OBVIOUS
      <4>1. t \in Tasks /\ status[t] = "ready"
        BY <1>0, <1>1, <3>0 DEF ServedInv, P!IInv, P!TypeInv
      <4>2. PICK th \in Threads : task[th] = t
        BY <1>4, <4>1 DEF NewTasks
      <4>3. th \in p_queue
        BY <1>1, <3>0, <4>1, <4>2, NullAssumption DEF ServedInv
      <4> QED BY <3>0, <4>2, <4>3 DEF ServedInv
    <3>3. ServedInv'
      BY <1>2, <1>4, <3>0, <3>2 DEF ServedInv, Pending, Scheduled
    <3> QED BY <3>1, <3>3
  <2>4. undisturbed' => OrderInv'
    BY <2>3 DEF OrderInv
  <2> QED BY <1>1, <1>2, <2>1, <2>2, <2>4 DEF SInv
<1> QED BY <1>1, <1>3, <1>4 DEF InitPQueue

LEMMA RunCurrentThreadKeeps ==
  ASSUME SInv, RunCurrentThread
  PROVE  SInv' /\ UNCHANGED flowVars
<1>0. P!IInv /\ SchedulerTypes /\ PendingInv /\ (undisturbed => TurnInv /\ ServedInv)
  BY DEF SInv, OrderInv
<1>1. PICK th \in p_queue :
         /\ current_thread' = th
         /\ p_queue' = p_queue \ {th}
         /\ thread_status' = [thread_status EXCEPT ![th] = "scheduled"]
         /\ at' = Wake(th)
  BY DEF RunCurrentThread
<1>2. /\ main = "loop" /\ main' = "asleep" /\ UNCHANGED <<flowVars, threads, task, disturbed>>
      /\ P!IInv' /\ UNCHANGED <<ready, status, pc>>
  BY <1>0, FlowStutters DEF RunCurrentThread
<1>3. th \in Threads
  BY <1>0, <1>1 DEF SchedulerTypes
<1>4. /\ at' \in [Threads -> Places]
      /\ at'[th] = (IF at[th] = "asleep" THEN "awake" ELSE at[th])
      /\ \A u \in Threads : u # th => at'[u] = at[u]
  BY <1>0, <1>1, <1>3 DEF SchedulerTypes, Places, Wake
<1>5. /\ thread_status' \in [Threads -> Statuses]
      /\ Scheduled(th)' /\ \A u \in Threads : u # th => thread_status'[u] = thread_status[u]
  BY <1>0, <1>1, <1>3 DEF SchedulerTypes, Scheduled, Statuses
<1>6. \A u \in Threads : (Pending(u)' <=> Pending(u)) /\ (Busy(u)' <=> Busy(u))
                         /\ (at'[u] = "task" <=> at[u] = "task") /\ (at'[u] = "none" <=> at[u] = "none")
  BY <1>3, <1>4 DEF Pending, Busy
<1>7. SchedulerTypes'
  BY <1>0, <1>1, <1>2, <1>3, <1>4, <1>5, <1>6 DEF SchedulerTypes
<1>8. PendingInv'
  BY <1>0, <1>2, <1>6, PendingKept
<1>9. ASSUME undisturbed' PROVE TurnInv' /\ ServedInv'
  <2>0. TurnInv /\ ServedInv
    BY <1>0, <1>2, <1>9 DEF undisturbed
  <2>1. Pending(th) /\ at'[th] \in {"born", "awake"}
    BY <1>1, <1>4, <2>0 DEF ServedInv, Pending
  <2>2. \A u \in Threads : ~Busy(u) /\ ~Scheduled(u)
    BY <1>2, <2>0 DEF TurnInv
  <2>3. \A u \in Threads : ~Busy(u)' /\ (Scheduled(u)' <=> u = th)
    BY <1>3, <1>5, <1>6, <2>2 DEF Scheduled
  <2>4. TurnInv'
    BY <1>1, <1>2, <2>1, <2>3 DEF TurnInv, Busy
  <2>5. \A t \in ready : \E u \in Threads :
          Pending(u)' /\ task'[u] = t /\ (u \in p_queue' \/ Scheduled(u)')
    <3> SUFFICES ASSUME NEW t \in ready
                 PROVE  \E u \in Threads : Pending(u)' /\ task'[u] = t /\ (u \in p_queue' \/ Scheduled(u)')
      OBVIOUS
    <3>1. PICK u \in Threads : Pending(u) /\ task[u] = t /\ (u \in p_queue \/ Scheduled(u))
      BY <1>2, <2>0 DEF ServedInv
    <3> QED BY <1>1, <1>2, <1>6, <2>2, <2>3, <3>1
  <2>6. main' # "init" /\ main' # "done" /\ ready' = ready
    BY <1>2
  <2>7. \A u \in p_queue' : Pending(u)' /\ ~Scheduled(u)'
    BY <1>0, <1>1, <1>6, <2>0, <2>3 DEF ServedInv, SchedulerTypes
  <2> QED BY <2>4, <2>5, <2>6, <2>7 DEF ServedInv
<1> QED BY <1>2, <1>7, <1>8, <1>9 DEF SInv, OrderInv

LEMMA StartReturnsKeeps ==
  ASSUME SInv, StartReturns \/ WakeUnsignalled
  PROVE  SInv' /\ UNCHANGED flowVars
<1>0. P!IInv /\ SchedulerTypes /\ PendingInv /\ (undisturbed => TurnInv /\ ServedInv)
  BY DEF SInv, OrderInv
<1>1. /\ UNCHANGED <<flowVars, threads, task, thread_status, at, p_queue, current_thread>>
      /\ main' # "init"
      /\ P!IInv' /\ UNCHANGED <<ready, status, pc>>
  BY <1>0, FlowStutters DEF StartReturns, WakeUnsignalled
<1>2. SchedulerTypes'
  BY <1>0, <1>1 DEF SchedulerTypes
<1>3. PendingInv'
  BY <1>0, <1>1, PendingKept DEF Pending
<1>4. CASE StartReturns
  <2>1. main = "loop" /\ main' = "done" /\ p_queue = {} /\ disturbed' = disturbed
    BY <1>4 DEF StartReturns
  <2>2. ASSUME undisturbed' PROVE TurnInv' /\ ServedInv'
    <3>1. TurnInv /\ ServedInv
      BY <1>0, <2>1, <2>2 DEF undisturbed
    <3> QED BY <1>1, <2>1, <3>1 DEF TurnInv, ServedInv, Pending, Scheduled, Busy
  <2> QED BY <1>1, <1>2, <1>3, <2>2 DEF SInv, OrderInv
<1>5. CASE WakeUnsignalled
  <2>1. ~undisturbed'
    BY <1>5 DEF WakeUnsignalled, undisturbed
  <2> QED BY <1>1, <1>2, <1>3, <2>1 DEF SInv
<1> QED BY <1>4, <1>5

\* The threads.
LEMMA LookKeeps ==
  ASSUME SInv, NEW th \in Threads, Look(th) \/ WakeUp(th)
  PROVE  SInv' /\ UNCHANGED flowVars
<1>0. P!IInv /\ SchedulerTypes /\ PendingInv /\ (undisturbed => TurnInv /\ ServedInv)
  BY DEF SInv, OrderInv
<1>1. /\ UNCHANGED <<flowVars, threads, task, p_queue, current_thread, main, disturbed>>
      /\ P!IInv' /\ UNCHANGED <<ready, status, pc>>
  BY <1>0, FlowStutters DEF Look, WakeUp
<1>2. /\ Pending(th)
      /\ \E x \in {"asleep", "awake"} : at' = [at EXCEPT ![th] = x]
      /\ \/ thread_status' = thread_status /\ at[th] = "asleep"
         \/ thread_status' = [thread_status EXCEPT ![th] = "waiting"] /\ ~Scheduled(th)
  BY DEF Look, WakeUp, Pending, Scheduled
<1>3. /\ at' \in [Threads -> Places]
      /\ at'[th] \in {"asleep", "awake"} /\ \A u \in Threads : u # th => at'[u] = at[u]
  BY <1>0, <1>2 DEF SchedulerTypes, Places
<1>4. /\ thread_status' \in [Threads -> Statuses]
      /\ \A u \in Threads : u # th => thread_status'[u] = thread_status[u]
      /\ \A u \in Threads : Scheduled(u)' <=> Scheduled(u)
  BY <1>0, <1>2 DEF SchedulerTypes, Scheduled, Statuses
<1>5. \A u \in Threads : (Pending(u)' <=> Pending(u)) /\ (Busy(u)' <=> Busy(u))
                         /\ (at'[u] = "task" <=> at[u] = "task") /\ (at'[u] = "none" <=> at[u] = "none")
  BY <1>2, <1>3 DEF Pending, Busy
<1>6. SchedulerTypes'
  BY <1>0, <1>1, <1>2, <1>3, <1>4, <1>5 DEF SchedulerTypes
<1>7. PendingInv'
  BY <1>0, <1>1, <1>5, PendingKept
<1>8. ASSUME undisturbed' PROVE TurnInv' /\ ServedInv'
  <2>0. TurnInv /\ ServedInv
    BY <1>0, <1>1, <1>8 DEF undisturbed
  <2>1. ~Scheduled(th)
    BY <1>2, <2>0 DEF TurnInv
  <2>2. TurnInv'
    BY <1>1, <1>3, <1>4, <1>5, <2>0, <2>1 DEF TurnInv
  <2>3. ServedInv'
    BY <1>0, <1>1, <1>4, <1>5, <2>0 DEF ServedInv, SchedulerTypes
  <2> QED BY <2>2, <2>3
<1> QED BY <1>1, <1>6, <1>7, <1>8 DEF SInv, OrderInv

\* A thread begins its task: alone, unless the hand-over was disturbed.
LEMMA RunTaskKeeps ==
  ASSUME SInv, NEW th \in Threads, RunTask(th)
  PROVE  /\ SInv' /\ task[th] \in Tasks /\ task[th] \in ready /\ Flow!Run(th, task[th])
         /\ undisturbed' => Flow!Begin(th, task[th])
<1>0. /\ P!IInv /\ SchedulerTypes /\ PendingInv /\ P!TypeInv /\ P!ThreadInv
      /\ undisturbed => TurnInv /\ ServedInv
  BY DEF SInv, OrderInv, P!IInv
<1>1. /\ Pending(th) /\ Scheduled(th) /\ Flow!Run(th, task[th])
      /\ thread_status' = [thread_status EXCEPT ![th] = "running"]
      /\ at' = [at EXCEPT ![th] = "task"]
      /\ UNCHANGED <<threads, task, p_queue, current_thread, main, disturbed>>
  BY DEF RunTask, Pending, Scheduled
<1>2. task[th] \in ready /\ task[th] \in Tasks
  BY <1>0, <1>1 DEF PendingInv, P!TypeInv
<1>3. P!IInv' /\ ready' = ready \ {task[th]} /\ status' = status /\ pc' = [pc EXCEPT ![th] = "body"]
  BY <1>0, <1>1, <1>2, FlowSteps
<1>4. /\ at'[th] = "task" /\ \A u \in Threads : u # th => at'[u] = at[u]
      /\ pc'[th] = "body" /\ \A u \in Threads : u # th => pc'[u] = pc[u]
      /\ \A u \in Threads : Scheduled(u)' <=> Scheduled(u) /\ u # th
      /\ \A u \in Threads : Pending(u)' <=> Pending(u) /\ u # th
  BY <1>0, <1>1, <1>3 DEF SchedulerTypes, P!TypeInv, Scheduled, Pending
<1>5. SchedulerTypes'
  <2>1. thread_status' \in [Threads -> Statuses] /\ at' \in [Threads -> Places]
    BY <1>0, <1>1 DEF SchedulerTypes, Statuses, Places
  <2> QED BY <1>0, <1>1, <1>4, <2>1 DEF SchedulerTypes, Pending
<1>6. PendingInv'
  <2>1. \A u \in Threads : Pending(u)' => task'[u] \in ready'
    BY <1>0, <1>1, <1>3, <1>4 DEF PendingInv
  <2>2. main' = "init" => NewTasks' \subseteq ready'
    BY <1>0, <1>1, <1>3 DEF PendingInv, NewTasks
  <2> QED BY <1>0, <1>1, <1>4, <2>1, <2>2 DEF PendingInv
<1>7. ASSUME undisturbed' PROVE TurnInv' /\ ServedInv' /\ Flow!Begin(th, task[th])
  <2>0. TurnInv /\ ServedInv
    BY <1>0, <1>1, <1>7 DEF undisturbed
  <2>1. /\ th = current_thread /\ main = "asleep"
        /\ \A u \in Threads : ~Busy(u) /\ (u # th => ~Scheduled(u))
    BY <1>1, <2>0 DEF TurnInv
  <2>2. Flow!Begin(th, task[th])
    <3>1. \A u \in Threads : pc[u] = "idle"
      BY <1>0, <2>1 DEF SchedulerTypes, Busy
    <3>2. \A u \in Threads : own[u] = NULL
      BY <1>0, <3>1 DEF P!ThreadInv
    <3> QED BY <1>1, <1>2, <3>2 DEF Flow!Begin
  <2>3. TurnInv'
    BY <1>1, <1>4, <2>0, <2>1 DEF TurnInv, Busy
  <2>4. th \notin p_queue
    BY <1>1, <2>0 DEF ServedInv
  <2>5. \A t \in ready' : \E u \in Threads :
          Pending(u)' /\ task'[u] = t /\ (u \in p_queue' \/ Scheduled(u)')
    <3> SUFFICES ASSUME NEW t \in ready, t # task[th]
                 PROVE  \E u \in Threads : Pending(u)' /\ task'[u] = t /\ (u \in p_queue' \/ Scheduled(u)')
      BY <1>3
    <3>1. PICK u \in Threads : Pending(u) /\ task[u] = t /\ (u \in p_queue \/ Scheduled(u))
      BY <2>0, <2>1 DEF ServedInv
    <3>2. u # th
      BY <3>1
    <3> QED BY <1>1, <1>4, <3>1, <3>2
  <2>6. ServedInv'
    BY <1>0, <1>1, <1>4, <2>0, <2>1, <2>4, <2>5 DEF ServedInv, SchedulerTypes
  <2> QED BY <2>2, <2>3, <2>6
<1> QED BY <1>1, <1>2, <1>3, <1>5, <1>6, <1>7 DEF SInv, OrderInv

LEMMA ProceedKeeps ==
  ASSUME SInv, NEW th \in Threads, Proceed(th)
  PROVE  SInv'
<1>0. P!IInv /\ SchedulerTypes /\ PendingInv /\ (undisturbed => TurnInv /\ ServedInv)
  BY DEF SInv, OrderInv
<1>1. UNCHANGED <<threads, task, thread_status, at, p_queue, current_thread, main, disturbed>>
  BY DEF Proceed, schedulerVars
<1>2. /\ P!IInv' /\ ready' = ready
      /\ \A t \in Tasks : status'[t] = "ready" => status[t] = "ready"
      /\ pc[th] # "idle" /\ pc'[th] # "idle" /\ \A x \in Threads : x # th => pc'[x] = pc[x]
  BY <1>0, FlowSteps DEF Proceed
<1>3. SchedulerTypes'
  BY <1>0, <1>1, <1>2 DEF SchedulerTypes
<1>4. PendingInv'
  BY <1>0, <1>1, <1>2 DEF PendingInv, Pending, NewTasks
<1>5. ASSUME undisturbed' PROVE TurnInv' /\ ServedInv'
  <2>0. TurnInv /\ ServedInv
    BY <1>0, <1>1, <1>5 DEF undisturbed
  <2>1. main = "asleep"
    BY <1>0, <1>2, <2>0 DEF TurnInv, SchedulerTypes, Busy
  <2>2. TurnInv'
    BY <1>1, <2>0 DEF TurnInv, Scheduled, Busy
  <2>3. ServedInv'
    BY <1>1, <1>2, <2>0, <2>1 DEF ServedInv, Pending, Scheduled
  <2> QED BY <2>2, <2>3
<1> QED BY <1>2, <1>3, <1>4, <1>5 DEF SInv, OrderInv

LEMMA EnableKeeps ==
  ASSUME SInv, NEW th \in Threads, Enable(th)
  PROVE  SInv'
<1>0. P!IInv /\ SchedulerTypes /\ PendingInv /\ (undisturbed => TurnInv /\ ServedInv)
  BY DEF SInv, OrderInv
<1>1. Flow!Enable(th) /\ AddTask(got[th]) /\ UNCHANGED <<current_thread, main>>
  BY DEF Enable
<1>2. /\ P!IInv' /\ ready' = ready \union {got[th]}
      /\ \A t \in Tasks : t # got[th] => status'[t] = status[t]
      /\ got[th] \in Tasks /\ got[th] \notin ready
      /\ pc[th] # "idle" /\ pc'[th] # "idle" /\ \A x \in Threads : x # th => pc'[x] = pc[x]
  BY <1>0, <1>1, FlowSteps
<1>3. PICK t \in Tasks : t = got[th]
  BY <1>2
<1>4. /\ t \in ready' /\ ready \subseteq ready' /\ AddTask(t)
      /\ \A u \in Threads : Pending(u) => task[u] # t
      /\ \A u \in Threads : pc'[u] = "idle" <=> pc[u] = "idle"
      /\ \A s \in Tasks : s # t => (status'[s] = "ready" => status[s] = "ready")
  BY <1>0, <1>1, <1>2, <1>3 DEF PendingInv
<1>5. /\ SchedulerTypes' /\ PendingInv'
      /\ undisturbed' => undisturbed
      /\ undisturbed' /\ TurnInv => TurnInv'
      /\ undisturbed' /\ ServedInv => \A u \in p_queue' : Pending(u)' /\ ~Scheduled(u)'
      /\ \A u \in Threads : Pending(u) => Pending(u)' /\ task'[u] = task[u]
                                        /\ (Scheduled(u) => Scheduled(u)')
      /\ p_queue \subseteq p_queue'
      /\ \E n \in Threads : /\ Pending(n)' /\ task'[n] = t /\ n \in p_queue'
                           /\ \A u \in Threads : u # n => task'[u] = task[u]
  BY <1>0, <1>1, <1>4, AddTaskKeeps
<1>6. ASSUME undisturbed' PROVE TurnInv' /\ ServedInv'
  <2>0. TurnInv /\ ServedInv
    BY <1>0, <1>5, <1>6
  <2>1. main = "asleep"
    BY <1>0, <1>2, <2>0 DEF TurnInv, SchedulerTypes, Busy
  <2>2. \A s \in ready' : \E u \in Threads :
          Pending(u)' /\ task'[u] = s /\ (u \in p_queue' \/ Scheduled(u)')
    <3> SUFFICES ASSUME NEW s \in ready'
                 PROVE  \E u \in Threads : Pending(u)' /\ task'[u] = s /\ (u \in p_queue' \/ Scheduled(u)')
      OBVIOUS
    <3>1. CASE s = t
      BY <1>5, <3>1
    <3>2. CASE s # t
      <4>1. PICK u \in Threads : Pending(u) /\ task[u] = s /\ (u \in p_queue \/ Scheduled(u))
        BY <1>2, <1>3, <2>0, <2>1, <3>2 DEF ServedInv
      <4> QED BY <1>5, <4>1
    <3> QED BY <3>1, <3>2
  <2>3. ServedInv'
    BY <1>1, <1>5, <1>6, <2>0, <2>1, <2>2 DEF ServedInv
  <2> QED BY <1>5, <1>6, <2>0, <2>3
<1> QED BY <1>2, <1>5, <1>6 DEF SInv, OrderInv

LEMMA FinishKeeps ==
  ASSUME SInv, NEW th \in Threads, Finish(th)
  PROVE  SInv'
<1>0. /\ P!IInv /\ SchedulerTypes /\ PendingInv /\ P!TypeInv
      /\ undisturbed => TurnInv /\ ServedInv
  BY DEF SInv, OrderInv, P!IInv
<1>1. /\ at[th] = "task" /\ Flow!End(th)
      /\ thread_status' = [thread_status EXCEPT ![th] = "finished"]
      /\ at' = [at EXCEPT ![th] = "finished"]
      /\ UNCHANGED <<threads, task, p_queue, current_thread, main, disturbed>>
  BY DEF Finish
<1>2. P!IInv' /\ ready' = ready /\ status' = status /\ pc' = [pc EXCEPT ![th] = "idle"]
  BY <1>0, <1>1, FlowSteps
<1>3. /\ at'[th] = "finished" /\ \A u \in Threads : u # th => at'[u] = at[u]
      /\ thread_status'[th] = "finished"
      /\ \A u \in Threads : u # th => thread_status'[u] = thread_status[u]
      /\ pc'[th] = "idle" /\ \A u \in Threads : u # th => pc'[u] = pc[u]
  BY <1>0, <1>1, <1>2 DEF SchedulerTypes, P!TypeInv
<1>4. \A u \in Threads : (Pending(u)' <=> Pending(u)) /\ (Busy(u)' <=> Busy(u))
                         /\ (Scheduled(u)' => Scheduled(u))
  BY <1>1, <1>3 DEF Pending, Busy, Scheduled
<1>5. SchedulerTypes'
  <2>1. thread_status' \in [Threads -> Statuses] /\ at' \in [Threads -> Places]
    BY <1>0, <1>1 DEF SchedulerTypes, Statuses, Places
  <2> QED BY <1>0, <1>1, <1>3, <2>1 DEF SchedulerTypes
<1>6. PendingInv'
  BY <1>0, <1>1, <1>2, <1>4, PendingKept
<1>7. ASSUME undisturbed' PROVE TurnInv' /\ ServedInv'
  <2>0. TurnInv /\ ServedInv
    BY <1>0, <1>1, <1>7 DEF undisturbed
  <2>1. main = "asleep" /\ th = current_thread /\ \A u \in Threads : ~Scheduled(u)
    BY <1>1, <2>0 DEF TurnInv, Busy
  <2>2. TurnInv'
    BY <1>1, <1>3, <1>4, <2>0, <2>1 DEF TurnInv
  <2>3. \A t \in ready' : \E u \in Threads :
          Pending(u)' /\ task'[u] = t /\ (u \in p_queue' \/ Scheduled(u)')
    BY <1>1, <1>2, <1>4, <2>0, <2>1 DEF ServedInv
  <2>4. ServedInv'
    BY <1>0, <1>1, <1>4, <2>0, <2>1, <2>3 DEF ServedInv, SchedulerTypes
  <2> QED BY <2>2, <2>4
<1> QED BY <1>2, <1>5, <1>6, <1>7 DEF SInv, OrderInv

LEMMA SignalKeeps ==
  ASSUME SInv, NEW th \in Threads, Signal(th)
  PROVE  SInv' /\ UNCHANGED flowVars
<1>0. P!IInv /\ SchedulerTypes /\ PendingInv /\ (undisturbed => TurnInv /\ ServedInv)
  BY DEF SInv, OrderInv
<1>1. /\ at[th] = "finished" /\ at' = [at EXCEPT ![th] = "ended"]
      /\ main' = IF main = "asleep" /\ thread_status[th] = "finished" THEN "loop" ELSE main
      /\ UNCHANGED <<flowVars, threads, task, thread_status, p_queue, current_thread, disturbed>>
      /\ P!IInv' /\ UNCHANGED <<ready, status, pc>>
  BY <1>0, FlowStutters DEF Signal
<1>2. at'[th] = "ended" /\ \A u \in Threads : u # th => at'[u] = at[u]
  BY <1>0, <1>1 DEF SchedulerTypes
<1>3. \A u \in Threads : (Pending(u)' <=> Pending(u)) /\ (Busy(u)' <=> Busy(u) /\ u # th)
                         /\ (Scheduled(u)' <=> Scheduled(u))
  BY <1>1, <1>2 DEF Pending, Busy, Scheduled
<1>4. SchedulerTypes'
  <2>1. at' \in [Threads -> Places]
    BY <1>0, <1>1 DEF SchedulerTypes, Places
  <2> QED BY <1>0, <1>1, <1>2, <2>1 DEF SchedulerTypes
<1>5. PendingInv'
  BY <1>0, <1>1, <1>3, PendingKept
<1>6. ASSUME undisturbed' PROVE TurnInv' /\ ServedInv'
  <2>0. TurnInv /\ ServedInv
    BY <1>0, <1>1, <1>6 DEF undisturbed
  <2>1. /\ main = "asleep" /\ main' = "loop" /\ thread_status[th] = "finished"
        /\ \A u \in Threads : (Busy(u) => u = th) /\ ~Scheduled(u)
    BY <1>1, <2>0 DEF TurnInv, Busy
  <2>2. TurnInv'
    <3>1. \A u \in Threads : ~Busy(u)' /\ ~Scheduled(u)'
      BY <1>3, <2>1
    <3> QED BY <1>1, <1>2, <2>0, <3>1 DEF TurnInv
  <2>3. ServedInv'
    BY <1>0, <1>1, <1>3, <2>0, <2>1 DEF ServedInv, SchedulerTypes
  <2> QED BY <2>2, <2>3
<1> QED BY <1>1, <1>4, <1>5, <1>6 DEF SInv, OrderInv

LEMMA SchedulerInit == Init => SInv /\ Flow!Init /\ undisturbed
<1> SUFFICES ASSUME Init PROVE SInv /\ Flow!Init /\ undisturbed
  OBVIOUS
<1>1. Flow!Init /\ undisturbed
  BY DEF Init, undisturbed
<1>2. P!Init
  BY <1>1 DEF Flow!Init, P!Init
<1>3. P!IInv
  BY <1>2, P!InitInv, NullAssumption, CapacityAssumption, BufferListAssumption, CreatedAssumption,
     CodeAssumption DEF Behaviour, P!Behaviour
<1>4. /\ threads = 0 /\ task = [th \in Threads |-> NULL]
      /\ thread_status = [th \in Threads |-> "none"]
      /\ at = [th \in Threads |-> "none"] /\ p_queue = {} /\ main = "init"
      /\ pc = [th \in Threads |-> "idle"]
  BY <1>1 DEF Init, Flow!Init
<1>5. SchedulerTypes
  BY <1>4, PriorityAssumption DEF SchedulerTypes, Statuses, Places
<1>6. \A t \in Tasks : status[t] = "ready" <=> t \in ready
  BY <1>1 DEF Flow!Init
<1>7. PendingInv
  BY <1>4, <1>6 DEF PendingInv, Pending, NewTasks
<1>8. ServedInv
  BY <1>4, <1>6 DEF ServedInv
<1>9. TurnInv
  <2>1. \A th \in Threads : ~Busy(th) /\ at[th] = "none" /\ thread_status[th] = "none"
    BY <1>4 DEF Busy
  <2> QED BY <2>1 DEF TurnInv, Scheduled
<1> QED BY <1>1, <1>3, <1>5, <1>7, <1>8, <1>9 DEF SInv, OrderInv

LEMMA StutterKeeps ==
  ASSUME SInv, UNCHANGED vars
  PROVE  SInv' /\ UNCHANGED flowVars
<1>0. P!IInv /\ SchedulerTypes /\ PendingInv /\ (undisturbed => TurnInv /\ ServedInv)
  BY DEF SInv, OrderInv
<1>1. /\ UNCHANGED flowVars
      /\ UNCHANGED <<threads, task, thread_status, at, p_queue, current_thread, main, disturbed>>
  BY DEF vars, schedulerVars
<1>2. P!IInv' /\ UNCHANGED <<ready, status, pc>>
  BY <1>0, <1>1, FlowStutters
<1>3. SchedulerTypes' /\ PendingInv'
  BY <1>0, <1>1, <1>2 DEF SchedulerTypes, PendingInv, Pending, NewTasks
<1>4. ASSUME undisturbed' PROVE TurnInv' /\ ServedInv'
  <2>0. TurnInv /\ ServedInv
    BY <1>0, <1>1, <1>4 DEF undisturbed
  <2> QED BY <1>1, <1>2, <2>0 DEF TurnInv, ServedInv, Pending, Scheduled, Busy
<1> QED BY <1>1, <1>2, <1>3, <1>4 DEF SInv, OrderInv

\* Threads begin tasks side by side, which module Dataflow does not allow.
BeginsBeside == ~undisturbed' /\ \E th \in Threads, t \in ready : Flow!Run(th, t)

\* A step of the scheduler or of a thread is a step of Dataflow or leaves its state.
LEMMA SchedulerNext ==
  ASSUME SInv, [Next]_vars
  PROVE  SInv' /\ (Flow!Next \/ BeginsBeside \/ UNCHANGED flowVars)
<1>1. CASE Start \/ WakeUnsignalled
  BY <1>1, InitPQueueKeeps, RunCurrentThreadKeeps, StartReturnsKeeps DEF Start
<1>2. ASSUME NEW th \in Threads, Runs(th) \/ WakeUp(th)
      PROVE  SInv' /\ (Flow!Next \/ BeginsBeside \/ UNCHANGED flowVars)
  <2>1. CASE Look(th) \/ WakeUp(th)
    BY <2>1, LookKeeps
  <2>2. CASE RunTask(th)
    <3>1. /\ SInv' /\ task[th] \in Tasks /\ task[th] \in ready /\ Flow!Run(th, task[th])
          /\ undisturbed' => Flow!Begin(th, task[th])
      BY <2>2, RunTaskKeeps
    <3>2. CASE undisturbed'
      BY <3>1, <3>2 DEF Flow!Next
    <3>3. CASE ~undisturbed'
      BY <3>1, <3>3 DEF BeginsBeside
    <3> QED BY <3>1, <3>2, <3>3
  <2>3. CASE Proceed(th)
    <3>1. SInv' /\ Flow!Proceed(th)
      BY <2>3, ProceedKeeps DEF Proceed
    <3> QED BY <3>1 DEF Flow!Next
  <2>4. CASE Enable(th)
    <3>1. SInv' /\ Flow!Enable(th)
      BY <2>4, EnableKeeps DEF Enable
    <3> QED BY <3>1 DEF Flow!Next
  <2>5. CASE Finish(th)
    <3>1. SInv' /\ Flow!End(th)
      BY <2>5, FinishKeeps DEF Finish
    <3> QED BY <3>1 DEF Flow!Next
  <2>6. CASE Signal(th)
    BY <2>6, SignalKeeps
  <2> QED BY <1>2, <2>1, <2>2, <2>3, <2>4, <2>5, <2>6 DEF Runs
<1>3. CASE UNCHANGED vars
  BY <1>3, StutterKeeps
<1> QED BY <1>1, <1>2, <1>3 DEF Next

LEMMA StaysDisturbed == [Next]_vars /\ undisturbed' => undisturbed
<1> SUFFICES ASSUME [Next]_vars PROVE disturbed \subseteq disturbed'
  BY DEF undisturbed
<1>1. CASE Start \/ WakeUnsignalled
  BY <1>1 DEF Start, InitPQueue, AddTask, RunCurrentThread, StartReturns, WakeUnsignalled
<1>2. ASSUME NEW th \in Threads, Runs(th) \/ WakeUp(th) PROVE disturbed \subseteq disturbed'
  BY <1>2 DEF Runs, WakeUp, Look, RunTask, Proceed, Enable, AddTask, Finish, Signal, schedulerVars
<1>3. CASE UNCHANGED vars
  BY <1>3 DEF vars, schedulerVars
<1> QED BY <1>1, <1>2, <1>3 DEF Next

\* When Start returns no thread has a task in its hands and none is ready.
LEMMA DoneIsLast ==
  ASSUME SInv
  PROVE  StartReturnsLast
<1> SUFFICES ASSUME main = "done", undisturbed, NEW t \in Tasks, status[t] # "stopped"
             PROVE  /\ status[t] = "waiting"
                    /\ tokens[BufferList[t][current_buffer[t]]] = <<>>
  BY DEF StartReturnsLast
<1>1. /\ P!TypeInv /\ P!LiveInv /\ P!TokenInv /\ P!WaitInv
      /\ P!NoneWaitsBesideTokens
      /\ SchedulerTypes /\ TurnInv /\ ServedInv
  BY DEF SInv, OrderInv, P!IInv
<1>2. ready = {}
  <2>1. p_queue = {} /\ \A th \in Threads : ~Scheduled(th)
    BY <1>1 DEF TurnInv, ServedInv
  <2> QED BY <1>1, <2>1 DEF ServedInv
<1>3. ~\E th \in Threads : P!Holds(th, t)
  <2>1. \A th \in Threads : pc[th] = "idle"
    BY <1>1 DEF TurnInv, SchedulerTypes, Busy
  <2> QED BY <2>1 DEF P!Holds
<1>4. P!Somewhere(t)
  BY <1>1 DEF P!LiveInv
<1>5. PICK b \in Buffers : \E i \in 1..Len(wait_queue[b]) : wait_queue[b][i] = t
  BY <1>2, <1>3, <1>4 DEF P!Somewhere, P!Queue
<1>6. PICK i \in 1..Len(wait_queue[b]) : wait_queue[b][i] = t
  BY <1>5
<1>7. status[t] = "waiting"
  BY <1>1, <1>6 DEF P!WaitInv, P!Queue
<1>8. BufferList[t][current_buffer[t]] = b
  BY <1>1, <1>6 DEF P!TokenInv, P!Queue
<1>9. wait_queue[b] # <<>>
  BY <1>6
<1>10. tokens[b] = <<>>
  BY <1>1, <1>9 DEF P!NoneWaitsBesideTokens
<1> QED BY <1>7, <1>8, <1>10

-----------------------------------------------------------------------------
(* The theorems.                                                           *)

\* The inductive invariant holds throughout: what threads, queue and status say of one
\* another, before and after a disturbance (testscheduler.cpp).
THEOREM SchedulerInvariant == Spec => []SInv
<1>1. Init => SInv
  BY SchedulerInit
<1>2. SInv /\ [Next]_vars => SInv'
  BY SchedulerNext
<1> QED BY <1>1, <1>2, PTL DEF Spec

\* Whatever the program and the order in which the threads wake, the scheduler begins only
\* tasks that are ready, and each of them once; and one at a time as long as no thread is
\* born with the status of a scheduled one (nothing sets it, testscheduler.cpp:40) and the
\* scheduler is not woken without a signal (testscheduler.cpp:280).
THEOREM SchedulerImplementsDataflow == Spec => OneTaskAtATime
<1> DEFINE Step == \/ Flow!Next
                   \/ ~undisturbed' /\ \E th \in Threads, t \in ready : Flow!Run(th, t)
<1>1. Init => Flow!Init
  BY SchedulerInit
<1>2. SInv /\ [Next]_vars => [Step]_flowVars
  BY SchedulerNext DEF BeginsBeside
<1> QED BY <1>1, <1>2, SchedulerInvariant, PTL DEF Spec, OneTaskAtATime

\* No task of any program sleeps in the queue of a buffer that has a token, whether or not
\* tasks run side by side (buffer.cpp, PassToken2Buffer and ConsumeTokens).
THEOREM SchedulerLosesNoToken == Spec => []NoneWaitsBesideTokens
<1>1. SInv => NoneWaitsBesideTokens
  BY DEF SInv, P!IInv, NoneWaitsBesideTokens, P!NoneWaitsBesideTokens, Flow!NoneWaitsBesideTokens
<1> QED BY <1>1, SchedulerInvariant, PTL

\* Start of any program returns only when every task was stopped or waits for a token
\* that was not passed, unless the hand-over was disturbed (testscheduler.cpp, Start; adf.cpp,
\* TerminateRuntime).
THEOREM StartReturnsAfterAll == Spec => []StartReturnsLast
<1>1. SInv => StartReturnsLast
  BY DoneIsLast
<1> QED BY <1>1, SchedulerInvariant, PTL

LEMMA SameNext == Flow!Next \/ UNCHANGED flowVars => [P!Next]_(P!vars)
<1> SUFFICES ASSUME Flow!Next \/ UNCHANGED flowVars PROVE [P!Next]_(P!vars)
  OBVIOUS
<1>1. CASE UNCHANGED flowVars
  BY <1>1 DEF flowVars, P!vars, P!bufferVars, P!taskVars, P!threadVars, P!history
<1>2. ASSUME NEW th \in Threads, NEW t \in Tasks, Flow!Begin(th, t) PROVE P!Next
  <2>1. P!Begin(th, t)
    BY <1>2, SameActions DEF Flow!Begin, P!Begin
  <2> QED BY <2>1 DEF P!Next
<1>3. ASSUME NEW th \in Threads, Flow!Proceed(th) \/ Flow!Enable(th) \/ Flow!End(th) PROVE P!Next
  <2>1. P!Proceed(th) \/ P!Enable(th) \/ P!End(th)
    BY <1>3, SameActions
  <2> QED BY <2>1 DEF P!Next
<1>4. ASSUME NEW t \in Tasks, Flow!Mark(t) PROVE P!Next
  <2>1. P!Mark(t)
    BY <1>4 DEF P!Mark, Flow!Mark, P!ReadyMarks, Flow!ReadyMarks, P!bufferVars, Flow!bufferVars,
                P!threadVars, Flow!threadVars, P!history, Flow!history
  <2> QED BY <2>1 DEF P!Next
<1> QED BY <1>1, <1>2, <1>3, <1>4 DEF Flow!Next

\* With the test scheduler the tokens that a run of a task has were passed together, the n-th
\* of each of its buffers, although several instances of the task take them, unless a buffer
\* overflowed or the hand-over was disturbed (buffer.cpp:180; testscheduler.cpp,
\* RunCurrentThread).
THEOREM SchedulerMatchesTokens == Spec => []TokensMatched
<1> USE NullAssumption, CapacityAssumption, BufferListAssumption, CreatedAssumption,
        CodeAssumption DEF Behaviour, P!Behaviour
<1> DEFINE Matches == undisturbed => P!SingleInv /\ P!MatchInv
<1>1. Init => Matches
  <2>1. Init => P!Init
    BY SchedulerInit DEF Flow!Init, P!Init
  <2> QED BY <2>1, P!InitMatches DEF P!SingleInv, P!MatchInv
<1>2. SInv /\ Matches /\ [Next]_vars => Matches'
  <2> SUFFICES ASSUME SInv, Matches, [Next]_vars, undisturbed' PROVE P!SingleInv' /\ P!MatchInv'
    OBVIOUS
  <2>1. P!IInv /\ [P!Next]_(P!vars) /\ P!SingleInv /\ P!MatchInv
    <3>1. Flow!Next \/ UNCHANGED flowVars
      BY SchedulerNext DEF BeginsBeside
    <3> QED BY <3>1, SameNext, StaysDisturbed DEF SInv
  <2> QED BY <2>1, P!SingleKept, P!NextMatches
<1>3. SInv /\ Matches => TokensMatched
  <2>1. P!IInv /\ P!MatchInv => P!TokensMatched
    BY P!MatchedTokens
  <2>2. Flow!TokensMatched <=> P!TokensMatched
    BY DEF Flow!TokensMatched, P!TokensMatched
  <2> QED BY <2>1, <2>2 DEF SInv, TokensMatched
<1> HIDE DEF Matches
<1> QED BY <1>1, <1>2, <1>3, SchedulerInvariant, PTL DEF Spec
=============================================================================

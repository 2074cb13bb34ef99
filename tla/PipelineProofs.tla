--------------------------- MODULE PipelineProofs ---------------------------
(***************************************************************************)
(* Theorems about the tracer and about the tool that reads its logs, for   *)
(* any number of threads, tasks, tokens and accesses.  The first part is   *)
(* about the program that is traced (module Tracer); the second shows that *)
(* the tool runs it and the checker as their modules have them, so that    *)
(* what is proved of each holds of the tool: the logs that the one writes  *)
(* are logs that the other expects.                                        *)
(***************************************************************************)
EXTENDS Pipeline, FiniteSetTheorems, TLAPS

D == INSTANCE CheckerProofs WITH Tasks <- 0..(MaxTasks - 1), FuncIds <- Nat \ {0}


-----------------------------------------------------------------------------
(* The inductive invariant.                                                *)

\* The task that sent a token began before the one that has it.
HeapInv ==
  \A s \in Slots : heap[s] # NULL =>
    /\ heap[s].sender < taskIDSeed
    /\ heap[s].state = "new" => /\ taskInfo[heap[s].thread].active
                                /\ heap[s].sender = Current(heap[s].thread)
    /\ heap[s].state = "taken" => /\ taskInfo[heap[s].thread].active
                                  /\ heap[s].sender < Current(heap[s].thread)

\* Only tasks that have begun are filed.
FiledInv ==
  \A k \in Slots \X TokenValues : idMap[k] # NULL => idMap[k] < taskIDSeed

EdgeInv ==
  /\ \A e \in HBloggerBuffer : /\ e[1] < taskIDSeed /\ e[2] < taskIDSeed
                               /\ e[1] # e[2]
  /\ NoStreamMissed
  /\ StrayCopies = FALSE => NoEdgeInvented
  /\ StrayCopies = FALSE \/ Scheduler = "taskPerThread" => ParentsOlder

\* The tasks with a block are those that have begun and do not run.
LogInv ==
  \A t \in TaskIds :
    BlockOf(t) # {} <=>
      t < taskIDSeed /\ \A th \in Threads : ~(taskInfo[th].active /\ Current(th) = t)

\* One task at a time, the youngest, so all parents of a task are in the log.
SerialInv ==
  Scheduler = "taskPerThread" =>
    /\ \A th, u \in Threads : taskInfo[th].active /\ taskInfo[u].active => th = u
    /\ \A th \in Threads : taskInfo[th].active => Current(th) = taskIDSeed - 1
    /\ ParentsLoggedFirst

IInv == TypeOK /\ HeapInv /\ TokensAttributed /\ FiledInv /\ EdgeInv /\ LogInv /\ SerialInv

LEMMA InitIInv == Init => IInv
<1> SUFFICES ASSUME Init PROVE IInv
  OBVIOUS
<1>1. TypeOK
  <2>1. 0 \in 0..MaxTasks /\ 0 \in 0..MaxSends
    BY BoundsAssumption
  <2>2. taskInfo \in [Threads -> Info]
    BY BoundsAssumption DEF Init, NewInfo, NoActions, TaskIds, Info
  <2>3. funcNames \in [Funcs -> Nat] /\ funcIDSeed \in Nat \ {0}
    BY DEF Init
  <2>4. \A th \in Threads : ~taskInfo[th].active
    BY DEF Init, NewInfo
  <2> QED BY <2>1, <2>2, <2>3, <2>4 DEF Init, TypeOK
<1>2. HeapInv /\ TokensAttributed /\ FiledInv
  BY DEF Init, HeapInv, TokensAttributed, FiledInv
<1>3. EdgeInv
  BY DEF Init, EdgeInv, NoStreamMissed, NoEdgeInvented, ParentsOlder
<1>4. LogInv
  BY DEF Init, LogInv, BlockOf, TaskIds
<1>5. SerialInv
  BY DEF Init, SerialInv, ParentsLoggedFirst, NewInfo
<1> QED BY <1>1, <1>2, <1>3, <1>4, <1>5 DEF IInv

\* What TypeOK says of the threads.
LEMMA ThreadTypes ==
  ASSUME TypeOK
  PROVE  /\ \A u \in Threads : Current(u) \in TaskIds /\ Current(u) \in Nat
         /\ \A u \in Threads : taskInfo[u].active => Current(u) < taskIDSeed
         /\ \A u, v \in Threads :
              taskInfo[u].active /\ taskInfo[v].active /\ u # v => Current(u) # Current(v)
         /\ taskIDSeed \in Nat
BY BoundsAssumption DEF TypeOK, TaskIds, Current, Info

\* A task that begins gets an id; the rest of what its thread has stays.
LEMMA BeginInfo ==
  ASSUME TypeOK, NEW th \in Threads, NEW inputs \in SUBSET Slots, TaskBegin(th, inputs)
  PROVE  /\ taskInfo'[th].active /\ taskInfo'[th].taskID = taskIDSeed
         /\ \A u \in Threads : u # th => taskInfo'[u] = taskInfo[u]
         /\ \A u \in Threads : /\ taskInfo'[u].functions = taskInfo[u].functions
                               /\ taskInfo'[u].memoryLocations = taskInfo[u].memoryLocations
<1>1. taskInfo[th] \in Info /\ taskInfo \in [Threads -> Info]
  BY DEF TypeOK
<1>2. taskInfo' = [taskInfo EXCEPT ![th].taskID = taskIDSeed, ![th].active = TRUE]
  BY DEF TaskBegin, GenTaskID
<1>3. /\ taskInfo'[th] = [taskInfo[th] EXCEPT !.taskID = taskIDSeed, !.active = TRUE]
      /\ \A u \in Threads : u # th => taskInfo'[u] = taskInfo[u]
  BY <1>1, <1>2
<1>4. /\ taskInfo'[th].active /\ taskInfo'[th].taskID = taskIDSeed
      /\ taskInfo'[th].functions = taskInfo[th].functions
      /\ taskInfo'[th].memoryLocations = taskInfo[th].memoryLocations
  BY <1>1, <1>3 DEF Info
<1> QED BY <1>3, <1>4

LEMMA BeginStep ==
  ASSUME IInv, NEW th \in Threads, NEW inputs \in SUBSET Slots, TaskBegin(th, inputs)
  PROVE  IInv'
<1>0. /\ TypeOK /\ HeapInv /\ TokensAttributed /\ FiledInv /\ EdgeInv /\ LogInv
      /\ SerialInv
  BY DEF IInv
<1>1. /\ taskIDSeed \in TaskIds /\ taskIDSeed \in Nat /\ taskIDSeed' = taskIDSeed + 1
      /\ taskIDSeed' \in 0..MaxTasks /\ ~taskInfo[th].active
      /\ UNCHANGED <<idMap, HBloggerBuffer, logger, funcNames, funcIDSeed, sends,
                     streams, performed>>
  <2>1. taskIDSeed \in 0..MaxTasks /\ taskIDSeed < MaxTasks /\ taskIDSeed' = taskIDSeed + 1
    BY <1>0 DEF TaskBegin, TypeOK
  <2>2. taskIDSeed \in TaskIds /\ taskIDSeed \in Nat /\ taskIDSeed' \in 0..MaxTasks
    BY <2>1, BoundsAssumption DEF TaskIds
  <2> QED BY <2>1, <2>2 DEF TaskBegin, historyVars, funcVars
<1>2. /\ taskInfo' \in [Threads -> Info]
      /\ taskInfo'[th].active /\ Current(th)' = taskIDSeed
      /\ \A u \in Threads : u # th => taskInfo'[u] = taskInfo[u]
  <2>1. taskInfo[th] \in Info /\ taskInfo \in [Threads -> Info]
    BY <1>0 DEF TypeOK
  <2>2. taskInfo' = [taskInfo EXCEPT ![th].taskID = taskIDSeed, ![th].active = TRUE]
    BY DEF TaskBegin, GenTaskID
  <2>3. /\ taskInfo'[th] = [taskInfo[th] EXCEPT !.taskID = taskIDSeed, !.active = TRUE]
        /\ DOMAIN taskInfo' = Threads
        /\ \A u \in Threads : u # th => taskInfo'[u] = taskInfo[u]
    BY <2>1, <2>2
  <2>4. taskInfo'[th] \in Info /\ taskInfo'[th].active /\ taskInfo'[th].taskID = taskIDSeed
    BY <1>1, <2>1, <2>3 DEF Info
  <2>5. taskInfo' \in [Threads -> Info]
    BY <2>1, <2>2, <2>3, <2>4
  <2> QED BY <2>3, <2>4, <2>5 DEF Current
<1>3. /\ \A u \in Threads : Current(u) \in Nat /\ (u # th => Current(u)' = Current(u))
      /\ \A u \in Threads : taskInfo[u].active => Current(u) < taskIDSeed
      /\ \A u, v \in Threads :
           taskInfo[u].active /\ taskInfo[v].active /\ u # v => Current(u) # Current(v)
  BY <1>0, <1>2, ThreadTypes DEF Current
<1>4. ASSUME NEW s \in Slots, heap'[s] # NULL
      PROVE  /\ heap[s] # NULL /\ heap'[s] \in Token
             /\ heap'[s].sender = heap[s].sender /\ heap'[s].value = heap[s].value
             /\ heap'[s] = heap[s] \/ (heap'[s].state = "taken" /\ heap'[s].thread = th)
  <2>1. CASE s \in inputs
    <3>1. heap[s] \in Token /\ heap[s] # NULL
      BY <1>0, <2>1 DEF TaskBegin, TypeOK
    <3>2. heap'[s] = [heap[s] EXCEPT !.state = "taken", !.thread = th]
      BY <2>1 DEF TaskBegin
    <3> QED BY <3>1, <3>2 DEF Token
  <2>2. CASE s \notin inputs
    BY <1>0, <1>4, <2>2 DEF TaskBegin, TypeOK
  <2> QED BY <2>1, <2>2
<1>5. TypeOK'
  <2>1. heap' \in [Slots -> Token \union {NULL}]
    BY <1>4 DEF TaskBegin
  <2>2. \A u \in Threads : taskInfo'[u].active => Current(u)' < taskIDSeed'
    BY <1>1, <1>2, <1>3
  <2>3. \A u, v \in Threads : taskInfo'[u].active /\ taskInfo'[v].active /\ u # v
                                => Current(u)' # Current(v)'
    BY <1>1, <1>2, <1>3
  <2> QED BY <1>0, <1>1, <1>2, <2>1, <2>2, <2>3 DEF TypeOK
<1>6. HeapInv'
  <2> SUFFICES ASSUME NEW s \in Slots, heap'[s] # NULL, NEW u, u = heap'[s].thread
               PROVE  /\ heap'[s].sender < taskIDSeed'
                      /\ heap'[s].state = "new" =>
                           taskInfo'[u].active /\ heap'[s].sender = Current(u)'
                      /\ heap'[s].state = "taken" =>
                           taskInfo'[u].active /\ heap'[s].sender < Current(u)'
    BY DEF HeapInv, Current
  <2>1. /\ heap'[s] \in Token /\ u \in Threads
        /\ heap[s].sender \in Nat /\ heap[s].sender < taskIDSeed
    BY <1>0, <1>4 DEF TypeOK, Token, HeapInv, TaskIds
  <2>2. CASE heap'[s] = heap[s]
    <3>1. taskInfo[u].active => u # th
      BY <1>1
    <3>2. /\ heap[s].state = "new" => taskInfo[u].active /\ heap[s].sender = Current(u)
          /\ heap[s].state = "taken" => taskInfo[u].active /\ heap[s].sender < Current(u)
      BY <1>0, <1>4, <2>2 DEF HeapInv
    <3> QED BY <1>1, <1>2, <1>3, <2>1, <2>2, <3>1, <3>2
  <2>3. CASE heap'[s].state = "taken" /\ heap'[s].thread = th
    BY <1>1, <1>2, <1>4, <2>1, <2>3
  <2> QED BY <1>4, <2>2, <2>3
<1>7. TokensAttributed'
  BY <1>0, <1>1, <1>4 DEF TokensAttributed
<1>8. FiledInv'
  BY <1>0, <1>1 DEF FiledInv, TypeOK, TaskIds
<1>9. EdgeInv'
  BY <1>0, <1>1 DEF EdgeInv, TypeOK, TaskIds, NoStreamMissed, NoEdgeInvented, ParentsOlder
<1>10. LogInv'
  <2> SUFFICES ASSUME NEW t \in TaskIds
               PROVE  BlockOf(t)' # {} <=>
                        t < taskIDSeed' /\ \A u \in Threads :
                          ~(taskInfo'[u].active /\ Current(u)' = t)
    BY DEF LogInv
  <2>1. BlockOf(t)' = BlockOf(t) /\ t \in Nat
    BY <1>1 DEF BlockOf, TaskIds
  <2>2. BlockOf(t) # {} <=>
          t < taskIDSeed /\ \A u \in Threads : ~(taskInfo[u].active /\ Current(u) = t)
    BY <1>0 DEF LogInv
  <2>3. CASE t = taskIDSeed
    BY <1>1, <1>2, <2>1, <2>2, <2>3
  <2>4. CASE t # taskIDSeed
    BY <1>1, <1>2, <1>3, <2>1, <2>2, <2>4
  <2> QED BY <2>3, <2>4
<1>11. SerialInv'
  <2>1. ParentsLoggedFirst' <=> ParentsLoggedFirst
    BY <1>1 DEF ParentsLoggedFirst, BlockOf
  <2> SUFFICES ASSUME Scheduler = "taskPerThread"
               PROVE  /\ \A u, v \in Threads :
                           taskInfo'[u].active /\ taskInfo'[v].active => u = v
                      /\ \A u \in Threads :
                           taskInfo'[u].active => Current(u)' = taskIDSeed' - 1
    BY <1>0, <2>1 DEF SerialInv
  <2>2. \A u \in Threads : taskInfo'[u].active => u = th
    BY <1>2 DEF TaskBegin
  <2> QED BY <1>1, <1>2, <2>2
<1> QED BY <1>5, <1>6, <1>7, <1>8, <1>9, <1>10, <1>11 DEF IInv

LEMMA EndStep ==
  ASSUME IInv, NEW th \in Threads, TaskEnd(th)
  PROVE  IInv'
<1>0. /\ TypeOK /\ HeapInv /\ TokensAttributed /\ FiledInv /\ EdgeInv /\ LogInv
      /\ SerialInv
  BY DEF IInv
<1> DEFINE me  == Current(th)
           new == [kind |-> "block", task |-> me, lines |-> Printed(th)]
<1>1. /\ taskInfo[th].active /\ logger' = Append(logger, new)
      /\ UNCHANGED <<taskIDSeed, idMap, HBloggerBuffer, funcNames, funcIDSeed, sends,
                     streams, performed>>
  BY DEF TaskEnd, Running, historyVars, funcVars
<1>2. /\ taskInfo' \in [Threads -> Info]
      /\ ~taskInfo'[th].active
      /\ \A u \in Threads : u # th => taskInfo'[u] = taskInfo[u]
  <2>1. NewInfo \in Info
    BY BoundsAssumption DEF NewInfo, NoActions, TaskIds, Info
  <2>2. ~NewInfo.active
    BY DEF NewInfo
  <2> HIDE DEF new
  <2> QED BY <1>0, <2>1, <2>2 DEF TaskEnd, TypeOK, Info
<1>3. /\ \A u \in Threads : u # th => Current(u)' = Current(u)
      /\ \A u \in Threads : Current(u) \in TaskIds /\ Current(u) \in Nat
      /\ \A u \in Threads : taskInfo[u].active => Current(u) < taskIDSeed
      /\ \A u, v \in Threads :
           taskInfo[u].active /\ taskInfo[v].active /\ u # v => Current(u) # Current(v)
  BY <1>0, <1>2, ThreadTypes DEF Current
<1>4. \A s \in Slots : heap'[s] # NULL =>
        /\ heap'[s] = heap[s]
        /\ ~(heap[s].state = "taken" /\ heap[s].thread = th)
        /\ ~(heap[s].state = "new" /\ heap[s].thread = th)
  BY DEF TaskEnd, Running, InPassToken
<1>5. new \in Block
  BY <1>0, <1>3 DEF Block, Printed, TypeOK, Info
<1>6. /\ logger' \in Seq(Block \union FLine) /\ Len(logger') = Len(logger) + 1
      /\ DOMAIN logger' = DOMAIN logger \union {Len(logger) + 1}
      /\ \A i \in DOMAIN logger : logger'[i] = logger[i] /\ i \in 1..Len(logger)
      /\ logger'[Len(logger) + 1] = new /\ Len(logger) \in Nat
  <2> HIDE DEF new
  <2> QED BY <1>0, <1>1, <1>5 DEF TypeOK
<1>7. TypeOK'
  <2>1. heap' \in [Slots -> Token \union {NULL}]
    BY <1>0, <1>4 DEF TaskEnd, TypeOK
  <2>2. \A u \in Threads : taskInfo'[u].active => Current(u)' < taskIDSeed'
    BY <1>1, <1>2, <1>3
  <2>3. \A u, v \in Threads : taskInfo'[u].active /\ taskInfo'[v].active /\ u # v
                                => Current(u)' # Current(v)'
    BY <1>2, <1>3
  <2> QED BY <1>0, <1>1, <1>2, <1>6, <2>1, <2>2, <2>3 DEF TypeOK
<1>8. HeapInv'
  <2> SUFFICES ASSUME NEW s \in Slots, heap'[s] # NULL, NEW u, u = heap'[s].thread
               PROVE  /\ heap'[s].sender < taskIDSeed'
                      /\ heap'[s].state = "new" =>
                           taskInfo'[u].active /\ heap'[s].sender = Current(u)'
                      /\ heap'[s].state = "taken" =>
                           taskInfo'[u].active /\ heap'[s].sender < Current(u)'
    BY DEF HeapInv, Current
  <2>1. u \in Threads /\ heap'[s] = heap[s]
    BY <1>0, <1>4 DEF TypeOK, Token
  <2>2. /\ heap[s].sender < taskIDSeed
        /\ heap[s].state = "new" => taskInfo[u].active /\ heap[s].sender = Current(u)
        /\ heap[s].state = "taken" => taskInfo[u].active /\ heap[s].sender < Current(u)
    BY <1>0, <2>1 DEF HeapInv
  <2> QED BY <1>1, <1>2, <1>3, <1>4, <2>1, <2>2
<1>9. TokensAttributed' /\ FiledInv'
  BY <1>0, <1>1, <1>4 DEF TokensAttributed, FiledInv
<1>10. EdgeInv'
  BY <1>0, <1>1 DEF EdgeInv, NoStreamMissed, NoEdgeInvented, ParentsOlder
<1>11. \A t \in TaskIds : BlockOf(t)' =
         IF t = me THEN BlockOf(t) \union {Len(logger) + 1} ELSE BlockOf(t)
  BY <1>6 DEF BlockOf
<1>12. LogInv'
  <2> SUFFICES ASSUME NEW t \in TaskIds
               PROVE  BlockOf(t)' # {} <=>
                        t < taskIDSeed' /\ \A u \in Threads :
                          ~(taskInfo'[u].active /\ Current(u)' = t)
    BY DEF LogInv
  <2>1. BlockOf(t) # {} <=>
          t < taskIDSeed /\ \A u \in Threads : ~(taskInfo[u].active /\ Current(u) = t)
    BY <1>0 DEF LogInv
  <2>2. CASE t = me
    BY <1>1, <1>2, <1>3, <1>11, <2>2
  <2>3. CASE t # me
    BY <1>1, <1>2, <1>3, <1>11, <2>1, <2>3
  <2> QED BY <2>2, <2>3
<1>13. SerialInv'
  <2> SUFFICES ASSUME Scheduler = "taskPerThread"
               PROVE  /\ \A u, v \in Threads :
                           taskInfo'[u].active /\ taskInfo'[v].active => u = v
                      /\ ParentsLoggedFirst'
    <3>1. ASSUME Scheduler = "taskPerThread", NEW u \in Threads, taskInfo'[u].active
          PROVE  Current(u)' = taskIDSeed' - 1
      <4>1. u # th /\ taskInfo[u].active /\ Current(u)' = Current(u)
        BY <1>2, <1>3, <3>1
      <4>2. Current(u) = taskIDSeed - 1
        BY <1>0, <3>1, <4>1 DEF SerialInv
      <4> QED BY <1>1, <4>1, <4>2
    <3> QED BY <3>1 DEF SerialInv
  <2>1. \A u, v \in Threads : taskInfo'[u].active /\ taskInfo'[v].active => u = v
    BY <1>0, <1>2 DEF SerialInv
  <2>2. \A t \in TaskIds : t < taskIDSeed /\ t # me => BlockOf(t) # {}
    <3>1. \A u \in Threads : taskInfo[u].active => u = th
      BY <1>0, <1>1 DEF SerialInv
    <3> QED BY <1>0, <3>1 DEF LogInv
  <2>3. ASSUME NEW e \in HBloggerBuffer, NEW i \in BlockOf(e[1])'
        PROVE  \E j \in BlockOf(e[2])' : j < i
    <3>1. e[1] \in TaskIds /\ e[2] \in TaskIds /\ e[2] < taskIDSeed /\ e[1] # e[2]
      BY <1>0 DEF TypeOK, EdgeInv
    <3>2. CASE i \in BlockOf(e[1])
      <4>1. PICK j \in BlockOf(e[2]) : j < i
        BY <1>0, <3>2 DEF SerialInv, ParentsLoggedFirst
      <4> QED BY <1>11, <3>1, <4>1
    <3>3. CASE i \notin BlockOf(e[1])
      <4>1. e[1] = me /\ i = Len(logger) + 1
        BY <1>11, <3>1, <3>3
      <4>2. PICK j \in BlockOf(e[2]) : TRUE
        BY <2>2, <3>1, <4>1
      <4>3. j \in 1..Len(logger)
        BY <1>6, <4>2 DEF BlockOf
      <4>4. j < i /\ j \in BlockOf(e[2])'
        BY <1>6, <1>11, <3>1, <4>1, <4>2, <4>3
      <4> QED BY <4>4
    <3> QED BY <3>2, <3>3
  <2> QED BY <1>1, <2>1, <2>3 DEF ParentsLoggedFirst
<1> QED BY <1>7, <1>8, <1>9, <1>10, <1>12, <1>13 DEF IInv

\* What the invariant says depends on heap, idMap, the logs and on which tasks
\* run; not on what the threads remember.
LEMMA SameTasks ==
  ASSUME IInv, TypeOK',
         UNCHANGED <<taskIDSeed, idMap, HBloggerBuffer, heap, streams>>,
         \A t \in TaskIds : BlockOf(t)' = BlockOf(t),
         \A u \in Threads : /\ taskInfo'[u].active = taskInfo[u].active
                            /\ Current(u)' = Current(u)
  PROVE  IInv'
<1>0. /\ TypeOK /\ HeapInv /\ TokensAttributed /\ FiledInv /\ EdgeInv /\ LogInv
      /\ SerialInv
  BY DEF IInv
<1>1. HeapInv'
  <2> SUFFICES ASSUME NEW s \in Slots, heap[s] # NULL, NEW u, u = heap[s].thread
               PROVE  /\ heap[s].sender < taskIDSeed
                      /\ heap[s].state = "new" =>
                           taskInfo'[u].active /\ heap[s].sender = Current(u)'
                      /\ heap[s].state = "taken" =>
                           taskInfo'[u].active /\ heap[s].sender < Current(u)'
    BY DEF HeapInv, Current
  <2>1. u \in Threads
    BY <1>0 DEF TypeOK, Token
  <2>2. /\ heap[s].sender < taskIDSeed
        /\ heap[s].state = "new" => taskInfo[u].active /\ heap[s].sender = Current(u)
        /\ heap[s].state = "taken" => taskInfo[u].active /\ heap[s].sender < Current(u)
    BY <1>0 DEF HeapInv
  <2> QED BY <2>1, <2>2
<1>2. TokensAttributed' /\ FiledInv'
  BY <1>0 DEF TokensAttributed, FiledInv
<1>3. EdgeInv'
  BY <1>0 DEF EdgeInv, NoStreamMissed, NoEdgeInvented, ParentsOlder
<1>4. LogInv'
  BY <1>0 DEF LogInv
<1>5. SerialInv'
  <2>1. \A e \in HBloggerBuffer : e[1] \in TaskIds /\ e[2] \in TaskIds
    BY <1>0 DEF TypeOK
  <2> QED BY <1>0, <2>1 DEF SerialInv, ParentsLoggedFirst
<1> QED BY <1>1, <1>2, <1>3, <1>4, <1>5 DEF IInv

\* What an access does to the registry and the trace: nothing, or the function
\* gets the next id and is named; in either case the id used is not 0.
LEMMA Registering ==
  ASSUME TypeOK, NEW th \in Threads, NEW f \in Funcs,
         IF taskInfo[th].functions[f] # 0 THEN UNCHANGED <<funcVars, logger>>
         ELSE RegisterFunction(f)
  PROVE  /\ funcNames' \in [Funcs -> Nat] /\ funcIDSeed' \in Nat \ {0}
         /\ GetFunctionId(th, f) \in Nat \ {0}
         /\ \/ UNCHANGED <<funcNames, funcIDSeed, logger>>
            \/ /\ funcNames[f] = 0
               /\ funcNames' = [funcNames EXCEPT ![f] = funcIDSeed]
               /\ funcIDSeed' = funcIDSeed + 1
               /\ logger' = Append(logger, [kind |-> "F", func |-> f, id |-> funcIDSeed])
               /\ taskInfo[th].functions[f] = 0
<1>1. /\ funcNames \in [Funcs -> Nat] /\ funcIDSeed \in Nat \ {0}
      /\ taskInfo[th].functions[f] \in Nat
  BY DEF TypeOK, Info
<1>2. CASE taskInfo[th].functions[f] # 0
  BY <1>1, <1>2 DEF GetFunctionId, funcVars
<1>3. CASE taskInfo[th].functions[f] = 0 /\ funcNames[f] # 0
  BY <1>1, <1>3 DEF GetFunctionId, RegisterFunction, funcVars
<1>4. CASE taskInfo[th].functions[f] = 0 /\ funcNames[f] = 0
  <2>1. /\ funcNames' = [funcNames EXCEPT ![f] = funcIDSeed]
        /\ funcIDSeed' = funcIDSeed + 1
        /\ logger' = Append(logger, [kind |-> "F", func |-> f, id |-> funcIDSeed])
    BY <1>4 DEF RegisterFunction
  <2> QED BY <1>1, <1>4, <2>1 DEF GetFunctionId
<1> QED BY <1>1, <1>2, <1>3, <1>4

LEMMA NewName ==
  ASSUME TypeOK, NEW f \in Funcs,
         logger' = Append(logger, [kind |-> "F", func |-> f, id |-> funcIDSeed])
  PROVE  /\ logger' \in Seq(Block \union FLine) /\ Len(logger) \in Nat
         /\ DOMAIN logger = 1..Len(logger) /\ DOMAIN logger' = 1..(Len(logger) + 1)
         /\ \A i \in 1..Len(logger) : logger'[i] = logger[i]
         /\ logger'[Len(logger) + 1] = [kind |-> "F", func |-> f, id |-> funcIDSeed]
<1> DEFINE new == [kind |-> "F", func |-> f, id |-> funcIDSeed]
<1>1. new \in Block \union FLine /\ logger \in Seq(Block \union FLine)
  BY DEF TypeOK, FLine
<1> HIDE DEF new
<1>2. logger' = Append(logger, new)
  BY DEF new
<1> QED BY <1>1, <1>2 DEF new

LEMMA AccessStep ==
  ASSUME IInv, NEW th \in Threads, NEW x \in Addrs, NEW v \in Contents,
         NEW f \in Funcs, NEW isWrite \in BOOLEAN,
         AccessBy(th, x, v, f, isWrite)
  PROVE  IInv'
<1>0. TypeOK
  BY DEF IInv
<1> DEFINE new == LineOf(th, x, v, f, isWrite)
<1>a. /\ Performs(th, x, v, f, isWrite) /\ Remembers(th, x, f, new)
      /\ IF taskInfo[th].functions[f] # 0 THEN UNCHANGED <<funcVars, logger>>
         ELSE RegisterFunction(f)
      /\ UNCHANGED <<taskIDSeed, idMap, HBloggerBuffer, heap, sends, streams>>
  BY DEF AccessBy
<1>1. Current(th) \in TaskIds
  BY <1>0, ThreadTypes
<1>2. new \in Line /\ new.funcId \in Nat
  <2>1. GetFunctionId(th, f) \in Nat /\ Lint[v] \in Values
    BY <1>0, <1>a, Registering, LintAssumption
  <2> QED BY <1>1, <2>1 DEF LineOf, Line
<1>3. /\ taskInfo' \in [Threads -> Info]
      /\ \A u \in Threads : /\ taskInfo'[u].active = taskInfo[u].active
                            /\ taskInfo'[u].taskID = taskInfo[u].taskID
  <2>1. StoreAction(taskInfo[th].memoryLocations[x], new) \in Line \union {NULL}
    BY <1>0, <1>2 DEF StoreAction, TypeOK, Info
  <2> HIDE DEF new
  <2> DEFINE old == taskInfo[th]
             mem == [old.memoryLocations EXCEPT ![x] = StoreAction(@, new)]
             ids == [old.functions EXCEPT ![f] = new.funcId]
             now == [old EXCEPT !.memoryLocations = mem, !.functions = ids]
  <2>2. taskInfo' = [taskInfo EXCEPT ![th].memoryLocations[x] = StoreAction(@, new),
                                     ![th].functions[f] = new.funcId]
    BY <1>a DEF Remembers
  <2>3. old \in Info /\ taskInfo \in [Threads -> Info]
    BY <1>0 DEF TypeOK
  <2>4. /\ mem \in [Addrs -> Line \union {NULL}]
        /\ ids \in [Funcs -> Nat]
    BY <1>2, <2>1, <2>3 DEF Info
  <2>5. /\ taskInfo' = [taskInfo EXCEPT ![th] = now]
        /\ now \in Info /\ now.active = old.active /\ now.taskID = old.taskID
    BY <2>2, <2>3, <2>4 DEF Info
  <2> HIDE DEF now
  <2> QED BY <2>3, <2>5
<1>4. performed' \in [TaskIds -> Seq(Access)]
  <2>1. [addr |-> x, value |-> v, func |-> f, isWrite |-> isWrite] \in Access
    BY DEF Access
  <2> QED BY <1>0, <1>1, <1>a, <2>1 DEF Performs, TypeOK
<1>5. \A u \in Threads : Current(u)' = Current(u)
  BY <1>3 DEF Current
<1>6. /\ funcNames' \in [Funcs -> Nat] /\ funcIDSeed' \in Nat \ {0}
      /\ logger' \in Seq(Block \union FLine)
      /\ \A t \in TaskIds : BlockOf(t)' = BlockOf(t)
  <2>1. CASE UNCHANGED <<funcNames, funcIDSeed, logger>>
    BY <1>0, <2>1 DEF TypeOK, BlockOf
  <2>2. CASE logger' = Append(logger, [kind |-> "F", func |-> f, id |-> funcIDSeed])
    BY <1>0, <1>a, <2>2, Registering, NewName DEF BlockOf
  <2> QED BY <1>0, <1>a, <2>1, <2>2, Registering
<1>7. TypeOK'
  BY <1>0, <1>a, <1>3, <1>4, <1>5, <1>6 DEF TypeOK
<1> QED BY <1>a, <1>3, <1>5, <1>6, <1>7, SameTasks

LEMMA SendStep ==
  ASSUME IInv, NEW th \in Threads, NEW s \in Slots, NEW v \in TokenValues,
         TaskSendToken(th, s, v)
  PROVE  IInv'
<1>0. /\ TypeOK /\ HeapInv /\ TokensAttributed /\ FiledInv /\ EdgeInv /\ LogInv
      /\ SerialInv
  BY DEF IInv
<1> DEFINE tok == [value |-> v, sender |-> Current(th), thread |-> th, state |-> "new"]
<1>1. /\ taskInfo[th].active /\ heap[s] = NULL
      /\ heap' = [heap EXCEPT ![s] = tok]
      /\ idMap' = [idMap EXCEPT ![<<s, v>>] = Current(th)]
      /\ sends' = sends + 1 /\ sends < MaxSends
      /\ UNCHANGED <<taskIDSeed, taskInfo, HBloggerBuffer, logger, funcNames,
                     funcIDSeed, streams, performed>>
  BY DEF TaskSendToken, Running, Filed, historyVars, funcVars
<1>2. /\ Current(th) \in TaskIds /\ Current(th) \in Nat /\ Current(th) < taskIDSeed
      /\ taskIDSeed \in Nat /\ NULL \notin TaskIds
  BY <1>0, <1>1, ThreadTypes, NoNullAssumption
<1>3. tok \in Token /\ heap'[s] = tok
      /\ \A r \in Slots : r # s => heap'[r] = heap[r]
  <2> HIDE DEF tok
  <2>1. heap'[s] = tok /\ \A r \in Slots : r # s => heap'[r] = heap[r]
    BY <1>0, <1>1 DEF TypeOK
  <2>2. tok \in Token
    BY <1>2 DEF tok, Token
  <2> QED BY <2>1, <2>2
<1>4. /\ idMap'[<<s, v>>] = Current(th)
      /\ \A k \in Slots \X TokenValues : k # <<s, v>> => idMap'[k] = idMap[k]
  BY <1>0, <1>1 DEF TypeOK
<1>5. TypeOK'
  <2>1. heap' \in [Slots -> Token \union {NULL}]
    <3> HIDE DEF tok
    <3> QED BY <1>0, <1>1, <1>3 DEF TypeOK
  <2>2. idMap' \in [Slots \X TokenValues -> TaskIds \union {NULL}]
    BY <1>0, <1>1, <1>2 DEF TypeOK
  <2>3. sends' \in 0..MaxSends
    BY <1>0, <1>1, BoundsAssumption DEF TypeOK
  <2> HIDE DEF tok
  <2> QED BY <1>0, <1>1, <2>1, <2>2, <2>3 DEF TypeOK, Current
<1>6. HeapInv'
  <2> SUFFICES ASSUME NEW r \in Slots, heap'[r] # NULL, NEW u, u = heap'[r].thread
               PROVE  /\ heap'[r].sender < taskIDSeed
                      /\ heap'[r].state = "new" =>
                           taskInfo[u].active /\ heap'[r].sender = Current(u)
                      /\ heap'[r].state = "taken" =>
                           taskInfo[u].active /\ heap'[r].sender < Current(u)
    BY <1>1 DEF HeapInv, Current
  <2>1. CASE r = s
    BY <1>1, <1>2, <1>3, <2>1
  <2>2. CASE r # s
    BY <1>0, <1>3, <2>2 DEF HeapInv
  <2> QED BY <2>1, <2>2
<1>7. TokensAttributed'
  <2> SUFFICES ASSUME NEW r \in Slots, heap'[r] # NULL
               PROVE  idMap'[<<r, heap'[r].value>>] = heap'[r].sender
    BY DEF TokensAttributed
  <2>1. CASE r = s
    BY <1>3, <1>4, <2>1
  <2>2. CASE r # s
    <3>1. heap'[r] = heap[r] /\ heap[r] \in Token
      BY <1>0, <1>3, <2>2 DEF TypeOK
    <3>2. <<r, heap[r].value>> \in Slots \X TokenValues /\ <<r, heap[r].value>> # <<s, v>>
      BY <2>2, <3>1 DEF Token
    <3> QED BY <1>0, <1>4, <3>1, <3>2 DEF TokensAttributed
  <2> QED BY <2>1, <2>2
<1>8. FiledInv'
  BY <1>0, <1>1, <1>2, <1>4 DEF FiledInv
<1>9. EdgeInv'
  BY <1>0, <1>1 DEF EdgeInv, NoStreamMissed, NoEdgeInvented, ParentsOlder
<1>10. LogInv'
  BY <1>0, <1>1 DEF LogInv, BlockOf, Current
<1>11. SerialInv'
  BY <1>0, <1>1 DEF SerialInv, ParentsLoggedFirst, BlockOf, Current
<1> QED BY <1>5, <1>6, <1>7, <1>8, <1>9, <1>10, <1>11 DEF IInv

LEMMA PassStep ==
  ASSUME IInv, NEW s \in Slots, PassToken2Buffer(s)
  PROVE  IInv'
<1>0. /\ TypeOK /\ HeapInv /\ TokensAttributed /\ FiledInv /\ EdgeInv /\ LogInv
      /\ SerialInv
  BY DEF IInv
<1>1. /\ heap[s] # NULL /\ heap[s] \in Token
      /\ heap' = [heap EXCEPT ![s].state = "buffered"]
      /\ UNCHANGED <<taskIDSeed, taskInfo, idMap, HBloggerBuffer, logger, funcNames,
                     funcIDSeed, sends, streams, performed>>
  BY <1>0 DEF PassToken2Buffer, tracerVars, funcVars, historyVars, TypeOK
<1>2. /\ heap' \in [Slots -> Token \union {NULL}]
      /\ heap'[s] \in Token
      /\ heap'[s].state = "buffered" /\ heap'[s].sender = heap[s].sender
      /\ heap'[s].value = heap[s].value
      /\ \A r \in Slots : r # s => heap'[r] = heap[r]
  BY <1>0, <1>1 DEF TypeOK, Token
<1>3. TypeOK'
  BY <1>0, <1>1, <1>2 DEF TypeOK, Current
<1>4. HeapInv'
  <2> SUFFICES ASSUME NEW r \in Slots, heap'[r] # NULL, NEW u, u = heap'[r].thread
               PROVE  /\ heap'[r].sender < taskIDSeed
                      /\ heap'[r].state = "new" =>
                           taskInfo[u].active /\ heap'[r].sender = Current(u)
                      /\ heap'[r].state = "taken" =>
                           taskInfo[u].active /\ heap'[r].sender < Current(u)
    BY <1>1 DEF HeapInv, Current
  <2> QED BY <1>0, <1>1, <1>2 DEF HeapInv
<1>5. TokensAttributed'
  BY <1>0, <1>1, <1>2 DEF TokensAttributed
<1>6. FiledInv'
  BY <1>0, <1>1 DEF FiledInv
<1>7. EdgeInv'
  BY <1>0, <1>1 DEF EdgeInv, NoStreamMissed, NoEdgeInvented, ParentsOlder
<1>8. LogInv'
  BY <1>0, <1>1 DEF LogInv, BlockOf, Current
<1>9. SerialInv'
  BY <1>0, <1>1 DEF SerialInv, ParentsLoggedFirst, BlockOf, Current
<1> QED BY <1>3, <1>4, <1>5, <1>6, <1>7, <1>8, <1>9 DEF IInv

\* An edge that a running task logs: it leads to an older task, and to one that
\* is in the log if tasks run one at a time.
LEMMA EdgeStep ==
  ASSUME IInv, NEW th \in Threads, Running(th),
         NEW s \in Slots, NEW v \in TokenValues,
         HBloggerBuffer' = HBloggerBuffer \union EdgeOf(Current(th), s, v),
         streams' \subseteq TaskIds \X TaskIds, streams' \subseteq HBloggerBuffer',
         StrayCopies = FALSE => HBloggerBuffer' \subseteq streams',
         StrayCopies = FALSE \/ Scheduler = "taskPerThread" =>
           \A e \in EdgeOf(Current(th), s, v) : e[2] < e[1],
         UNCHANGED <<taskIDSeed, taskInfo, idMap, logger, funcNames, funcIDSeed, heap,
                     sends, performed>>
  PROVE  IInv'
<1>0. /\ TypeOK /\ HeapInv /\ TokensAttributed /\ FiledInv /\ EdgeInv /\ LogInv
      /\ SerialInv
  BY DEF IInv
<1> DEFINE me == Current(th)
           edge == EdgeOf(me, s, v)
<1>1. taskInfo[th].active /\ me \in TaskIds /\ me < taskIDSeed
  BY <1>0, ThreadTypes DEF Running
<1>2. ASSUME NEW e \in edge
      PROVE  /\ e \in TaskIds \X TaskIds
             /\ e[1] = me /\ e[2] < taskIDSeed /\ e[2] # me
  <2>1. e = <<me, idMap[<<s, v>>]>> /\ idMap[<<s, v>>] \notin {NULL, me}
    BY DEF EdgeOf
  <2>2. <<s, v>> \in Slots \X TokenValues
    OBVIOUS
  <2>3. idMap[<<s, v>>] \in TaskIds /\ idMap[<<s, v>>] < taskIDSeed
    BY <1>0, <2>1, <2>2 DEF TypeOK, FiledInv
  <2> HIDE DEF me
  <2> QED BY <1>1, <2>1, <2>3
<1>3. TypeOK'
  <2>1. HBloggerBuffer' \subseteq TaskIds \X TaskIds
    BY <1>0, <1>2 DEF TypeOK
  <2> QED BY <1>0, <2>1 DEF TypeOK, Current
<1>4. HeapInv' /\ TokensAttributed' /\ FiledInv' /\ LogInv'
  BY <1>0 DEF HeapInv, TokensAttributed, FiledInv, LogInv, BlockOf, Current
<1>5. EdgeInv'
  <2> HIDE DEF me, edge
  <2>1. HBloggerBuffer' = HBloggerBuffer \union edge
    BY DEF edge, me
  <2>2. \A e \in HBloggerBuffer' : /\ e[1] < taskIDSeed /\ e[2] < taskIDSeed
                                   /\ e[1] # e[2]
    BY <1>0, <1>1, <1>2, <2>1 DEF EdgeInv
  <2>3. StrayCopies = FALSE \/ Scheduler = "taskPerThread" =>
          \A e \in HBloggerBuffer' : e[2] < e[1]
    BY <1>0, <2>1 DEF EdgeInv, ParentsOlder, edge, me
  <2> QED BY <2>2, <2>3 DEF EdgeInv, NoStreamMissed, NoEdgeInvented, ParentsOlder
<1>6. SerialInv'
  <2> SUFFICES ASSUME Scheduler = "taskPerThread",
                      NEW e \in HBloggerBuffer', NEW i \in BlockOf(e[1])
               PROVE  \E j \in BlockOf(e[2]) : j < i
    BY <1>0 DEF SerialInv, ParentsLoggedFirst, BlockOf, Current
  <2>1. CASE e \in HBloggerBuffer
    BY <1>0, <2>1 DEF SerialInv, ParentsLoggedFirst
  <2>2. CASE e \in edge
    <3>1. e[1] = me
      BY <1>2, <2>2
    <3>2. BlockOf(me) = {}
      BY <1>0, <1>1 DEF LogInv
    <3> QED BY <3>1, <3>2
  <2> QED BY <2>1, <2>2
<1> QED BY <1>3, <1>4, <1>5, <1>6 DEF IInv

LEMMA ReceiveStep ==
  ASSUME IInv, NEW th \in Threads, NEW s \in Slots, TaskReceiveToken(th, s)
  PROVE  IInv'
<1>0. TypeOK /\ HeapInv /\ TokensAttributed /\ EdgeInv
  BY DEF IInv
<1> DEFINE me == Current(th)
           v  == heap[s].value
<1>1. /\ Running(th) /\ heap[s] # NULL /\ heap[s].state = "taken" /\ heap[s].thread = th
      /\ HBloggerBuffer' = HBloggerBuffer \union EdgeOf(me, s, v)
      /\ streams' = streams \union {<<me, heap[s].sender>>}
      /\ UNCHANGED <<taskIDSeed, taskInfo, idMap, logger, funcNames, funcIDSeed, heap,
                     sends, performed>>
  BY DEF TaskReceiveToken, funcVars
<1>2. /\ heap[s] \in Token /\ v \in TokenValues /\ heap[s].sender \in TaskIds
      /\ me \in TaskIds /\ heap[s].sender < me
  BY <1>0, <1>1, ThreadTypes DEF TypeOK, Token, HeapInv
<1>3. idMap[<<s, v>>] = heap[s].sender /\ heap[s].sender \notin {NULL, me}
  BY <1>0, <1>1, <1>2, NoNullAssumption DEF TokensAttributed, TaskIds
<1>4. EdgeOf(me, s, v) = {<<me, heap[s].sender>>}
  BY <1>3 DEF EdgeOf
<1> HIDE DEF me, v
<1>5. streams' \subseteq TaskIds \X TaskIds
  BY <1>0, <1>1, <1>2 DEF TypeOK
<1>6. /\ streams' \subseteq HBloggerBuffer'
      /\ StrayCopies = FALSE => HBloggerBuffer' \subseteq streams'
      /\ \A e \in EdgeOf(me, s, v) : e[2] < e[1]
  BY <1>0, <1>1, <1>2, <1>4 DEF EdgeInv, NoStreamMissed, NoEdgeInvented
<1> QED BY <1>1, <1>2, <1>5, <1>6, EdgeStep DEF me

LEMMA StrayStep ==
  ASSUME IInv, NEW th \in Threads, NEW s \in Slots, NEW v \in TokenValues,
         StrayCopy(th, s, v)
  PROVE  IInv'
<1>1. /\ StrayCopies # FALSE /\ Running(th)
      /\ HBloggerBuffer' = HBloggerBuffer \union EdgeOf(Current(th), s, v)
      /\ UNCHANGED <<taskIDSeed, taskInfo, idMap, logger, funcNames, funcIDSeed, heap,
                     sends, streams, performed>>
  BY DEF StrayCopy, historyVars, funcVars
<1>2. streams' \subseteq TaskIds \X TaskIds /\ streams' \subseteq HBloggerBuffer'
  BY <1>1 DEF IInv, TypeOK, EdgeInv, NoStreamMissed
<1>3. ASSUME Scheduler = "taskPerThread", NEW e \in EdgeOf(Current(th), s, v)
      PROVE  e[2] < e[1]
  <2>1. TypeOK /\ FiledInv /\ SerialInv
    BY DEF IInv
  <2>2. /\ Current(th) \in Nat /\ taskIDSeed \in Nat
        /\ Current(th) = taskIDSeed - 1
    BY <1>1, <1>3, <2>1, ThreadTypes DEF SerialInv, Running
  <2>3. e = <<Current(th), idMap[<<s, v>>]>> /\ idMap[<<s, v>>] \notin {NULL, Current(th)}
    BY <1>3 DEF EdgeOf
  <2>4. <<s, v>> \in Slots \X TokenValues
    OBVIOUS
  <2>5. idMap[<<s, v>>] \in Nat /\ idMap[<<s, v>>] < taskIDSeed
    BY <2>1, <2>3, <2>4 DEF TypeOK, FiledInv, TaskIds
  <2> QED BY <2>2, <2>3, <2>5
<1> QED BY <1>1, <1>2, <1>3, EdgeStep

LEMMA NextIInv == IInv /\ [Next]_vars => IInv'
<1> SUFFICES ASSUME IInv, [Next]_vars PROVE IInv'
  OBVIOUS
<1>1. ASSUME NEW th \in Threads, NEW inputs \in SUBSET Slots, TaskBegin(th, inputs)
      PROVE  IInv'
  BY <1>1, BeginStep
<1>2. ASSUME NEW th \in Threads, TaskEnd(th) PROVE IInv'
  BY <1>2, EndStep
<1>3. ASSUME NEW th \in Threads, NEW x \in Addrs, NEW f \in Funcs, Read(th, x, f)
      PROVE  IInv'
  BY <1>3, AccessStep, LintAssumption DEF Read
<1>4. ASSUME NEW th \in Threads, NEW x \in Addrs, NEW v \in Contents, NEW f \in Funcs,
             Write(th, x, v, f)
      PROVE  IInv'
  BY <1>4, AccessStep DEF Write
<1>5. ASSUME NEW th \in Threads, NEW s \in Slots, TaskReceiveToken(th, s) PROVE IInv'
  BY <1>5, ReceiveStep
<1>6. ASSUME NEW th \in Threads, NEW s \in Slots, NEW v \in TokenValues,
             TaskSendToken(th, s, v) \/ StrayCopy(th, s, v)
      PROVE  IInv'
  BY <1>6, SendStep, StrayStep
<1>7. ASSUME NEW s \in Slots, PassToken2Buffer(s) PROVE IInv'
  BY <1>7, PassStep
<1>8. CASE UNCHANGED vars
  <2>1. TypeOK'
    BY <1>8 DEF IInv, TypeOK, Current, vars, tracerVars, funcVars, historyVars
  <2>2. \A t \in TaskIds : BlockOf(t)' = BlockOf(t)
    BY <1>8 DEF BlockOf, vars, tracerVars
  <2> QED BY <1>8, <2>1, <2>2, SameTasks DEF Current, vars, tracerVars, historyVars
<1> QED BY <1>1, <1>2, <1>3, <1>4, <1>5, <1>6, <1>7, <1>8 DEF Next

LEMMA Invariance == Spec => []IInv
<1> QED BY InitIInv, NextIInv, PTL DEF Spec

-----------------------------------------------------------------------------
(* Names of functions.                                                     *)

NamedIds ==
  {logger[j].id : j \in {k \in DOMAIN logger : logger[k].kind = "F"}}

\* Ids in use are below the seed and have their F line: those of the registry,
\* those the threads keep, and those of the accesses they remember.
FuncInv ==
  /\ \A i \in DOMAIN logger : logger[i].kind = "F" => logger[i].id < funcIDSeed
  /\ \A f \in Funcs : funcNames[f] # 0 => funcNames[f] \in NamedIds
  /\ \A th \in Threads, f \in Funcs :
       taskInfo[th].functions[f] # 0 => taskInfo[th].functions[f] \in NamedIds
  /\ \A th \in Threads, x \in Addrs :
       taskInfo[th].memoryLocations[x] # NULL =>
         taskInfo[th].memoryLocations[x].funcId \in NamedIds
  /\ FuncsNamedFirst

LEMMA TraceShape ==
  ASSUME TypeOK
  PROVE  /\ Len(logger) \in Nat /\ DOMAIN logger = 1..Len(logger)
         /\ \A i \in DOMAIN logger :
              /\ logger[i].kind = "F" => logger[i].id \in Nat
              /\ logger[i] \in Block \union FLine
BY DEF TypeOK, Block, FLine

LEMMA EndNames ==
  ASSUME TypeOK, FuncInv, NEW th \in Threads, TaskEnd(th)
  PROVE  FuncInv'
<1> DEFINE new == [kind |-> "block", task |-> Current(th), lines |-> Printed(th)]
           n == Len(logger)
<1>1. /\ logger' = Append(logger, new) /\ UNCHANGED <<funcNames, funcIDSeed>>
      /\ \A u \in Threads : u # th => taskInfo'[u] = taskInfo[u]
      /\ taskInfo'[th] = IF Scheduler = "taskPerThread" THEN NewInfo
                         ELSE [taskInfo[th] EXCEPT !.active = FALSE]
  BY DEF TaskEnd, TypeOK, funcVars
<1>2. /\ n \in Nat /\ DOMAIN logger = 1..n
      /\ \A i \in DOMAIN logger : logger[i].kind = "F" => logger[i].id \in Nat
  BY TraceShape
<1>3. /\ DOMAIN logger' = 1..(n + 1) /\ logger'[n + 1] = new
      /\ \A i \in 1..n : logger'[i] = logger[i]
  <2> HIDE DEF new
  <2> QED BY <1>1, <1>2 DEF TypeOK
<1>4. NamedIds \subseteq NamedIds'
  BY <1>2, <1>3 DEF NamedIds
<1>5. \A u \in Threads, f \in Funcs :
        taskInfo'[u].functions[f] \in {0, taskInfo[u].functions[f]}
  <2>1. taskInfo[th] \in Info
    BY DEF TypeOK
  <2> QED BY <1>1, <2>1 DEF NewInfo, Info
<1>6. \A u \in Threads, x \in Addrs :
        taskInfo'[u].memoryLocations[x] \in {NULL, taskInfo[u].memoryLocations[x]}
  <2>1. taskInfo[th] \in Info
    BY DEF TypeOK
  <2>2. \A x \in Addrs : NewInfo.memoryLocations[x] = NULL
    BY DEF NewInfo, NoActions
  <2>3. taskInfo'[th] = NewInfo \/ taskInfo'[th].memoryLocations = taskInfo[th].memoryLocations
    BY <1>1, <2>1 DEF Info
  <2> QED BY <1>1, <2>2, <2>3
<1>7. FuncsNamedFirst'
  <2>1. ASSUME NEW i \in DOMAIN logger', logger'[i].kind = "block", NEW l \in logger'[i].lines
        PROVE  \E j \in 1..(i - 1) : logger'[j].kind = "F" /\ logger'[j].id = l.funcId
    <3>1. CASE i \in 1..n
      <4>1. PICK j \in 1..(i - 1) : logger[j].kind = "F" /\ logger[j].id = l.funcId
        BY <1>2, <1>3, <2>1, <3>1 DEF FuncInv, FuncsNamedFirst
      <4> QED BY <1>2, <1>3, <3>1, <4>1
    <3>2. CASE i = n + 1
      <4>1. PICK x \in Addrs : /\ taskInfo[th].memoryLocations[x] # NULL
                               /\ l = taskInfo[th].memoryLocations[x]
        BY <1>3, <2>1, <3>2 DEF Printed
      <4>2. l.funcId \in NamedIds
        BY <4>1 DEF FuncInv
      <4> QED BY <1>2, <1>3, <3>2, <4>2 DEF NamedIds
    <3> QED BY <1>2, <1>3, <3>1, <3>2
  <2>2. ASSUME NEW i \in DOMAIN logger', NEW j \in DOMAIN logger',
               logger'[i].kind = "F", logger'[j].kind = "F", logger'[i].id = logger'[j].id
        PROVE  i = j
    BY <1>2, <1>3, <2>2 DEF FuncInv, FuncsNamedFirst
  <2> QED BY <2>1, <2>2 DEF FuncsNamedFirst
<1>8. \A i \in DOMAIN logger' : logger'[i].kind = "F" => logger'[i].id < funcIDSeed'
  BY <1>1, <1>2, <1>3 DEF FuncInv
<1> QED BY <1>1, <1>4, <1>5, <1>6, <1>7, <1>8 DEF FuncInv

LEMMA AccessNames ==
  ASSUME TypeOK, FuncInv, NEW th \in Threads, NEW x \in Addrs, NEW v \in Contents,
         NEW f \in Funcs, NEW isWrite \in BOOLEAN, AccessBy(th, x, v, f, isWrite)
  PROVE  FuncInv'
<1> DEFINE new == LineOf(th, x, v, f, isWrite)
           id  == GetFunctionId(th, f)
           n   == Len(logger)
<1>1. /\ Remembers(th, x, f, new) /\ new.funcId = id
      /\ IF taskInfo[th].functions[f] # 0 THEN UNCHANGED <<funcVars, logger>>
         ELSE RegisterFunction(f)
  BY DEF AccessBy, LineOf
<1>2. /\ funcIDSeed \in Nat \ {0} /\ funcNames \in [Funcs -> Nat]
      /\ n \in Nat /\ DOMAIN logger = 1..n
      /\ \A i \in DOMAIN logger : logger[i].kind = "F" => logger[i].id \in Nat
  BY TraceShape DEF TypeOK
<1>3. /\ \A u \in Threads, g \in Funcs :
           taskInfo'[u].functions[g] = IF u = th /\ g = f THEN id
                                       ELSE taskInfo[u].functions[g]
      /\ \A u \in Threads, y \in Addrs :
           taskInfo'[u].memoryLocations[y] \in {taskInfo[u].memoryLocations[y], new}
  <2> HIDE DEF new, id
  <2>1. taskInfo' = [taskInfo EXCEPT ![th].memoryLocations[x] = StoreAction(@, new),
                                     ![th].functions[f] = id]
    BY <1>1 DEF Remembers
  <2>2. taskInfo \in [Threads -> Info]
    BY DEF TypeOK
  <2> QED BY <2>1, <2>2 DEF StoreAction, Info
<1>4. CASE UNCHANGED <<funcNames, funcIDSeed, logger>>
  <2>1. NamedIds' = NamedIds
    BY <1>4 DEF NamedIds
  <2>2. id \in NamedIds
    <3>1. id # 0 /\ id \in {taskInfo[th].functions[f], funcNames[f]}
      BY <1>1, <1>4, Registering DEF GetFunctionId
    <3> QED BY <3>1 DEF FuncInv
  <2>3. FuncsNamedFirst'
    BY <1>4 DEF FuncInv, FuncsNamedFirst
  <2> HIDE DEF id, new
  <2> QED BY <1>1, <1>3, <1>4, <2>1, <2>2, <2>3 DEF FuncInv
<1>5. CASE /\ funcNames[f] = 0
           /\ funcNames' = [funcNames EXCEPT ![f] = funcIDSeed]
           /\ funcIDSeed' = funcIDSeed + 1
           /\ logger' = Append(logger, [kind |-> "F", func |-> f, id |-> funcIDSeed])
           /\ taskInfo[th].functions[f] = 0
  <2>1. /\ DOMAIN logger' = 1..(n + 1)
        /\ logger'[n + 1] = [kind |-> "F", func |-> f, id |-> funcIDSeed]
        /\ \A i \in 1..n : logger'[i] = logger[i]
    BY <1>5, NewName
  <2>2. id = funcIDSeed
    BY <1>2, <1>5 DEF GetFunctionId
  <2>3. funcIDSeed \in NamedIds'
    BY <1>2, <2>1 DEF NamedIds
  <2>4. NamedIds \subseteq NamedIds'
    BY <1>2, <2>1 DEF NamedIds
  <2>5. \A i \in DOMAIN logger' : logger'[i].kind = "F" => logger'[i].id < funcIDSeed'
    BY <1>2, <1>5, <2>1 DEF FuncInv
  <2>6. FuncsNamedFirst'
    <3>1. ASSUME NEW i \in DOMAIN logger', logger'[i].kind = "block",
                 NEW l \in logger'[i].lines
          PROVE  \E j \in 1..(i - 1) : logger'[j].kind = "F" /\ logger'[j].id = l.funcId
      <4>1. i \in 1..n
        BY <1>2, <2>1, <3>1
      <4>2. PICK j \in 1..(i - 1) : logger[j].kind = "F" /\ logger[j].id = l.funcId
        BY <1>2, <2>1, <3>1, <4>1 DEF FuncInv, FuncsNamedFirst
      <4> QED BY <1>2, <2>1, <4>1, <4>2
    <3>2. ASSUME NEW i \in DOMAIN logger', NEW j \in DOMAIN logger',
                 logger'[i].kind = "F", logger'[j].kind = "F",
                 logger'[i].id = logger'[j].id
          PROVE  i = j
      BY <1>2, <2>1, <3>2 DEF FuncInv, FuncsNamedFirst
    <3> QED BY <3>1, <3>2 DEF FuncsNamedFirst
  <2>7. \A g \in Funcs : funcNames'[g] # 0 => funcNames'[g] \in NamedIds'
    BY <1>2, <1>5, <2>3, <2>4 DEF FuncInv
  <2> HIDE DEF id, new
  <2>8. \A u \in Threads, g \in Funcs :
          taskInfo'[u].functions[g] # 0 => taskInfo'[u].functions[g] \in NamedIds'
    BY <1>3, <2>2, <2>3, <2>4 DEF FuncInv
  <2>9. \A u \in Threads, y \in Addrs :
          taskInfo'[u].memoryLocations[y] # NULL =>
            taskInfo'[u].memoryLocations[y].funcId \in NamedIds'
    BY <1>1, <1>3, <2>2, <2>3, <2>4 DEF FuncInv
  <2> QED BY <2>5, <2>6, <2>7, <2>8, <2>9 DEF FuncInv
<1> QED BY <1>1, <1>4, <1>5, Registering

\* Steps that neither register nor log nor remember.
LEMMA QuietNames ==
  ASSUME FuncInv, UNCHANGED <<logger, funcNames, funcIDSeed>>,
         \A u \in Threads : /\ taskInfo'[u].functions = taskInfo[u].functions
                            /\ taskInfo'[u].memoryLocations = taskInfo[u].memoryLocations
  PROVE  FuncInv'
<1>1. NamedIds' = NamedIds
  BY DEF NamedIds
<1>2. FuncsNamedFirst'
  BY DEF FuncInv, FuncsNamedFirst
<1> QED BY <1>1, <1>2 DEF FuncInv

LEMMA NamesInvariance == Spec => []FuncInv
<1>1. Init => FuncInv
  BY DEF Init, FuncInv, FuncsNamedFirst, NewInfo, NoActions
<1>2. IInv /\ FuncInv /\ [Next]_vars => FuncInv'
  <2> SUFFICES ASSUME IInv, FuncInv, [Next]_vars PROVE FuncInv'
    OBVIOUS
  <2>0. TypeOK
    BY DEF IInv
  <2>1. ASSUME NEW th \in Threads, NEW inputs \in SUBSET Slots, TaskBegin(th, inputs)
        PROVE  FuncInv'
    <3>1. UNCHANGED <<logger, funcNames, funcIDSeed>>
      BY <2>1 DEF TaskBegin, funcVars
    <3> QED BY <2>0, <2>1, <3>1, BeginInfo, QuietNames
  <2>2. ASSUME NEW th \in Threads, TaskEnd(th) PROVE FuncInv'
    BY <2>0, <2>2, EndNames
  <2>3. ASSUME NEW th \in Threads, NEW x \in Addrs, NEW f \in Funcs,
               Read(th, x, f) \/ \E v \in Contents : Write(th, x, v, f)
        PROVE  FuncInv'
    BY <2>0, <2>3, AccessNames, LintAssumption DEF Read, Write
  <2>4. ASSUME NEW th \in Threads, NEW s \in Slots, NEW v \in TokenValues,
               TaskSendToken(th, s, v) \/ StrayCopy(th, s, v)
        PROVE  FuncInv'
    BY <2>4, QuietNames DEF TaskSendToken, StrayCopy, funcVars
  <2>5. ASSUME NEW th \in Threads, NEW s \in Slots, TaskReceiveToken(th, s)
        PROVE  FuncInv'
    BY <2>5, QuietNames DEF TaskReceiveToken, funcVars
  <2>7. ASSUME NEW s \in Slots, PassToken2Buffer(s)
        PROVE  FuncInv'
    BY <2>7, QuietNames DEF PassToken2Buffer, tracerVars, funcVars
  <2>6. CASE UNCHANGED vars
    BY <2>6, QuietNames DEF vars, tracerVars, funcVars
  <2> QED BY <2>1, <2>2, <2>3, <2>4, <2>5, <2>6, <2>7 DEF Next
<1> QED BY <1>1, <1>2, Invariance, PTL DEF Spec

\* The ids in the trace and those the threads keep are those of the registry, which
\* gives no id to two functions.
NamesAgree ==
  /\ \A th \in Threads, f \in Funcs :
       taskInfo[th].functions[f] # 0 => taskInfo[th].functions[f] = funcNames[f]
  /\ \A i \in DOMAIN logger :
       logger[i].kind = "F" => logger[i].id = funcNames[logger[i].func]
  /\ \A f, g \in Funcs : funcNames[f] # 0 /\ funcNames[f] = funcNames[g] => f = g

\* The id an access is logged with is that of its function; ids stay.
LEMMA AccessAgrees ==
  ASSUME TypeOK, FuncInv, NamesAgree, NEW th \in Threads, NEW x \in Addrs,
         NEW v \in Contents, NEW f \in Funcs, NEW isWrite \in BOOLEAN,
         AccessBy(th, x, v, f, isWrite)
  PROVE  /\ NamesAgree'
         /\ GetFunctionId(th, f) = funcNames'[f] /\ funcNames'[f] # 0
         /\ \A g \in Funcs : funcNames[g] # 0 => funcNames'[g] = funcNames[g]
<1> DEFINE n == Len(logger)
<1>1. /\ taskInfo' = [taskInfo EXCEPT ![th].memoryLocations[x] =
                                        StoreAction(@, LineOf(th, x, v, f, isWrite)),
                                      ![th].functions[f] = GetFunctionId(th, f)]
      /\ IF taskInfo[th].functions[f] # 0 THEN UNCHANGED <<funcVars, logger>>
         ELSE RegisterFunction(f)
  BY DEF AccessBy, Remembers, LineOf
<1>2. /\ funcIDSeed \in Nat \ {0} /\ funcNames \in [Funcs -> Nat]
      /\ taskInfo \in [Threads -> Info] /\ n \in Nat /\ DOMAIN logger = 1..n
  BY TraceShape DEF TypeOK
<1>3. \A g \in Funcs : funcNames[g] # 0 => funcNames[g] \in Nat /\ funcNames[g] < funcIDSeed
  BY <1>2 DEF FuncInv, NamedIds
<1>4. /\ \A g \in Funcs : funcNames[g] # 0 => funcNames'[g] = funcNames[g]
      /\ \A g, h \in Funcs : funcNames'[g] # 0 /\ funcNames'[g] = funcNames'[h] => g = h
      /\ GetFunctionId(th, f) = funcNames'[f] /\ funcNames'[f] # 0
  <2>1. CASE UNCHANGED <<funcNames, funcIDSeed, logger>>
    <3>1. GetFunctionId(th, f) = funcNames'[f]
      BY <2>1 DEF GetFunctionId, NamesAgree
    <3>2. GetFunctionId(th, f) # 0
      BY <1>1, Registering
    <3> QED BY <2>1, <3>1, <3>2 DEF NamesAgree
  <2>2. CASE /\ funcNames[f] = 0 /\ taskInfo[th].functions[f] = 0
             /\ funcNames' = [funcNames EXCEPT ![f] = funcIDSeed]
    <3>1. \A g \in Funcs : funcNames'[g] = IF g = f THEN funcIDSeed ELSE funcNames[g]
      BY <1>2, <2>2
    <3>2. GetFunctionId(th, f) = funcNames'[f]
      BY <2>2 DEF GetFunctionId
    <3> QED BY <1>2, <1>3, <2>2, <3>1, <3>2 DEF NamesAgree
  <2> QED BY <1>1, <2>1, <2>2, Registering
<1>5. \A i \in DOMAIN logger' :
        logger'[i].kind = "F" => logger'[i].id = funcNames'[logger'[i].func]
  <2>1. ASSUME NEW i \in 1..n, logger[i].kind = "F"
        PROVE  logger[i].id = funcNames'[logger[i].func]
    <3>1. logger[i].id \in Nat \ {0} /\ logger[i].func \in Funcs
      <4>1. logger[i] \in Block \union FLine
        BY <1>2, TraceShape
      <4> QED BY <2>1, <4>1 DEF Block, FLine
    <3>2. logger[i].id = funcNames[logger[i].func]
      BY <1>2, <2>1 DEF NamesAgree
    <3> QED BY <1>4, <3>1, <3>2
  <2>2. CASE UNCHANGED logger
    BY <1>2, <2>1, <2>2
  <2>3. CASE /\ funcNames' = [funcNames EXCEPT ![f] = funcIDSeed]
             /\ logger' = Append(logger, [kind |-> "F", func |-> f, id |-> funcIDSeed])
    <3>1. /\ DOMAIN logger' = 1..(n + 1)
          /\ \A i \in 1..n : logger'[i] = logger[i]
          /\ logger'[n + 1] = [kind |-> "F", func |-> f, id |-> funcIDSeed]
      BY <2>3, NewName
    <3>2. \A i \in 1..(n + 1) : i \in 1..n \/ i = n + 1
      BY <1>2
    <3>3. funcNames'[f] = funcIDSeed
      BY <1>2, <2>3
    <3> QED BY <2>1, <3>1, <3>2, <3>3
  <2> QED BY <1>1, <2>2, <2>3, Registering
<1>6. \A u \in Threads, g \in Funcs :
        taskInfo'[u].functions[g] = IF u = th /\ g = f THEN GetFunctionId(th, f)
                                    ELSE taskInfo[u].functions[g]
  BY <1>1, <1>2 DEF Info
<1>7. \A u \in Threads, g \in Funcs :
        taskInfo'[u].functions[g] # 0 => taskInfo'[u].functions[g] = funcNames'[g]
  BY <1>4, <1>6 DEF NamesAgree
<1> QED BY <1>4, <1>5, <1>7 DEF NamesAgree

\* The trace grows by one entry.
LEMMA OneMoreEntry ==
  ASSUME TypeOK, NEW e \in Block \union FLine, logger' = Append(logger, e)
  PROVE  /\ Len(logger) \in Nat /\ DOMAIN logger = 1..Len(logger)
         /\ DOMAIN logger' = 1..(Len(logger) + 1) /\ logger'[Len(logger) + 1] = e
         /\ \A i \in 1..Len(logger) : logger'[i] = logger[i]
<1>1. logger \in Seq(Block \union FLine) /\ Len(logger) \in Nat /\ DOMAIN logger = 1..Len(logger)
  BY TraceShape DEF TypeOK
<1> QED BY <1>1

\* Steps that do not register.
LEMMA OthersAgree ==
  ASSUME TypeOK, NamesAgree, UNCHANGED funcNames,
         \/ UNCHANGED logger
         \/ \E e : e.kind = "block" /\ e \in Block /\ logger' = Append(logger, e),
         \A u \in Threads, f \in Funcs :
           taskInfo'[u].functions[f] \in {0, taskInfo[u].functions[f]}
  PROVE  NamesAgree'
<1>1. \A i \in DOMAIN logger' :
        logger'[i].kind = "F" => logger'[i].id = funcNames[logger'[i].func]
  <2>1. CASE UNCHANGED logger
    BY <2>1 DEF NamesAgree
  <2>2. CASE ~UNCHANGED logger
    <3>1. PICK e : e.kind = "block" /\ e \in Block /\ logger' = Append(logger, e)
      BY <2>2
    <3>2. /\ Len(logger) \in Nat /\ DOMAIN logger = 1..Len(logger)
          /\ DOMAIN logger' = 1..(Len(logger) + 1) /\ logger'[Len(logger) + 1] = e
          /\ \A i \in 1..Len(logger) : logger'[i] = logger[i]
      BY <3>1, OneMoreEntry
    <3>3. \A i \in DOMAIN logger' : i \in 1..Len(logger) \/ i = Len(logger) + 1
      BY <3>2
    <3>4. e.kind # "F"
      BY <3>1
    <3> HIDE <3>1
    <3> QED BY <3>2, <3>3, <3>4 DEF NamesAgree
  <2> QED BY <2>1, <2>2
<1> QED BY <1>1 DEF NamesAgree

LEMMA AgreeInvariance == Spec => []NamesAgree
<1>1. Init => NamesAgree
  BY DEF Init, NamesAgree, NewInfo
<1>2. IInv /\ FuncInv /\ NamesAgree /\ [Next]_vars => NamesAgree'
  <2> SUFFICES ASSUME IInv, FuncInv, NamesAgree, [Next]_vars PROVE NamesAgree'
    OBVIOUS
  <2>0. TypeOK
    BY DEF IInv
  <2>1. ASSUME NEW th \in Threads, NEW inputs \in SUBSET Slots, TaskBegin(th, inputs)
        PROVE  NamesAgree'
    <3>1. \A u \in Threads : taskInfo'[u].functions = taskInfo[u].functions
      BY <2>0, <2>1, BeginInfo
    <3> QED BY <2>0, <2>1, <3>1, OthersAgree DEF TaskBegin, funcVars
  <2>2. ASSUME NEW th \in Threads, TaskEnd(th) PROVE NamesAgree'
    <3> DEFINE new == [kind |-> "block", task |-> Current(th), lines |-> Printed(th)]
    <3>1. taskInfo \in [Threads -> Info] /\ taskInfo[th] \in Info
      BY <2>0 DEF TypeOK
    <3>2. new \in Block /\ new.kind = "block"
      BY <3>1 DEF Block, Printed, Current, Info
    <3>3. \A u \in Threads, f \in Funcs :
            taskInfo'[u].functions[f] \in {0, taskInfo[u].functions[f]}
      BY <2>2, <3>1 DEF TaskEnd, NewInfo, Info
    <3>4. logger' = Append(logger, new) /\ UNCHANGED funcNames
      BY <2>2 DEF TaskEnd, funcVars
    <3> HIDE DEF new
    <3> QED BY <2>0, <3>2, <3>3, <3>4, OthersAgree
  <2>3. ASSUME NEW th \in Threads, NEW x \in Addrs, NEW f \in Funcs,
               Read(th, x, f) \/ \E v \in Contents : Write(th, x, v, f)
        PROVE  NamesAgree'
    BY <2>0, <2>3, AccessAgrees, LintAssumption DEF Read, Write
  <2>4. CASE UNCHANGED <<funcNames, logger, taskInfo>>
    BY <2>0, <2>4, OthersAgree
  <2>5. ASSUME NEW th \in Threads, NEW s \in Slots, NEW v \in TokenValues,
               TaskSendToken(th, s, v) \/ StrayCopy(th, s, v)
        PROVE  UNCHANGED <<funcNames, logger, taskInfo>>
    BY <2>5 DEF TaskSendToken, StrayCopy, funcVars
  <2>6. ASSUME NEW s \in Slots, PassToken2Buffer(s)
        PROVE  UNCHANGED <<funcNames, logger, taskInfo>>
    BY <2>6 DEF PassToken2Buffer, tracerVars, funcVars
  <2>7. ASSUME NEW th \in Threads, NEW s \in Slots, TaskReceiveToken(th, s)
        PROVE  UNCHANGED <<funcNames, logger, taskInfo>>
    BY <2>7 DEF TaskReceiveToken, funcVars
  <2>8. UNCHANGED vars => UNCHANGED <<funcNames, logger, taskInfo>>
    BY DEF vars, tracerVars, funcVars
  <2> QED BY <2>1, <2>2, <2>3, <2>4, <2>5, <2>6, <2>7, <2>8 DEF Next
<1> QED BY <1>1, <1>2, Invariance, NamesInvariance, PTL DEF Spec

-----------------------------------------------------------------------------
(* Lines and accesses.                                                     *)

\* The task of the line made the access that the line tells of, in the function that
\* has its id.
Made(l, did, names) ==
  \E k \in DOMAIN did[l.taskId], f \in Funcs :
    /\ Tells(l, did[l.taskId][k]) /\ did[l.taskId][k].func = f
    /\ names[f] = l.funcId /\ names[f] # 0
Truthful(l, did, names) ==
  l.taskId \in TaskIds /\ Made(l, did, names) /\ (~l.isWrite => l.value = 0)

\* Lines are true, remembered or written, of whatever task they are.
LineInv ==
  /\ \A th \in Threads, x \in Addrs :
       taskInfo[th].memoryLocations[x] # NULL =>
         Truthful(taskInfo[th].memoryLocations[x], performed, funcNames)
  /\ \A i \in DOMAIN logger : logger[i].kind = "block" =>
       \A l \in logger[i].lines : Truthful(l, performed, funcNames)

\* The trace grows by one entry at most, whose lines are remembered ones.
LEMMA GrowsTruthful ==
  ASSUME TypeOK, LineInv, NEW e, e \in Block \union FLine, logger' = Append(logger, e),
         \A l : Truthful(l, performed, funcNames) => Truthful(l, performed', funcNames'),
         e.kind = "block" => \A l \in e.lines : Truthful(l, performed, funcNames)
  PROVE  \A i \in DOMAIN logger' : logger'[i].kind = "block" =>
           \A l \in logger'[i].lines : Truthful(l, performed', funcNames')
<1> DEFINE n == Len(logger)
<1>1. n \in Nat /\ DOMAIN logger = 1..n
  BY TraceShape
<1>2. /\ DOMAIN logger' = 1..(n + 1) /\ logger'[n + 1] = e
      /\ \A i \in 1..n : logger'[i] = logger[i]
  BY <1>1 DEF TypeOK
<1> QED BY <1>1, <1>2 DEF LineInv

LEMMA EndLines ==
  ASSUME TypeOK, LineInv, NEW th \in Threads, TaskEnd(th)
  PROVE  LineInv'
<1> DEFINE new == [kind |-> "block", task |-> Current(th), lines |-> Printed(th)]
<1>1. /\ logger' = Append(logger, new) /\ performed' = performed /\ funcNames' = funcNames
      /\ \A u \in Threads : u # th => taskInfo'[u] = taskInfo[u]
      /\ taskInfo'[th] = IF Scheduler = "taskPerThread" THEN NewInfo
                         ELSE [taskInfo[th] EXCEPT !.active = FALSE]
  BY DEF TaskEnd, TypeOK, historyVars, funcVars
<1>2. \A u \in Threads, x \in Addrs :
        taskInfo'[u].memoryLocations[x] \in {NULL, taskInfo[u].memoryLocations[x]}
  <2>1. taskInfo[th] \in Info
    BY DEF TypeOK
  <2>2. \A x \in Addrs : NewInfo.memoryLocations[x] = NULL
    BY DEF NewInfo, NoActions
  <2>3. taskInfo'[th] = NewInfo \/ taskInfo'[th].memoryLocations = taskInfo[th].memoryLocations
    BY <1>1, <2>1 DEF Info
  <2> QED BY <1>1, <2>2, <2>3
<1>3. \A l \in Printed(th) : Truthful(l, performed, funcNames)
  BY DEF Printed, LineInv
<1>4. new \in Block
  <2>1. taskInfo[th] \in Info
    BY DEF TypeOK
  <2> QED BY <2>1 DEF Block, Printed, Current, Info
<1>5. new.kind = "block" => \A l \in new.lines : Truthful(l, performed, funcNames)
  BY <1>3
<1>6. \A l : Truthful(l, performed', funcNames') <=> Truthful(l, performed, funcNames)
  BY <1>1 DEF Truthful, Made
<1> HIDE DEF new
<1>7. \A i \in DOMAIN logger' : logger'[i].kind = "block" =>
        \A l \in logger'[i].lines : Truthful(l, performed', funcNames')
  BY <1>1, <1>4, <1>5, <1>6, GrowsTruthful
<1>8. \A u \in Threads, x \in Addrs :
        taskInfo'[u].memoryLocations[x] # NULL =>
          Truthful(taskInfo'[u].memoryLocations[x], performed', funcNames')
  BY <1>2, <1>6 DEF LineInv
<1> QED BY <1>7, <1>8 DEF LineInv

LEMMA AccessLines ==
  ASSUME TypeOK, FuncInv, NamesAgree, LineInv, NEW th \in Threads, NEW x \in Addrs,
         NEW v \in Contents, NEW f \in Funcs, NEW isWrite \in BOOLEAN,
         AccessBy(th, x, v, f, isWrite), ~isWrite => v = 0
  PROVE  LineInv'
<1> DEFINE new == LineOf(th, x, v, f, isWrite)
           act == [addr |-> x, value |-> v, func |-> f, isWrite |-> isWrite]
<1>1. /\ Remembers(th, x, f, new)
      /\ IF taskInfo[th].functions[f] # 0 THEN UNCHANGED <<funcVars, logger>>
         ELSE RegisterFunction(f)
      /\ performed' = [performed EXCEPT ![Current(th)] = Append(@, act)]
  BY DEF AccessBy, Performs
<1>2. /\ new.taskId = Current(th) /\ new.addr = x /\ new.value = Lint[v]
      /\ new.isWrite = isWrite
      /\ new.funcId = funcNames'[f] /\ funcNames'[f] # 0
      /\ Current(th) \in TaskIds
      /\ \A g \in Funcs : funcNames[g] # 0 => funcNames'[g] = funcNames[g]
  BY ThreadTypes, AccessAgrees DEF LineOf
<1>3. /\ \A t \in TaskIds : \A k \in DOMAIN performed[t] :
           k \in DOMAIN performed'[t] /\ performed'[t][k] = performed[t][k]
      /\ \E k \in DOMAIN performed'[Current(th)] : performed'[Current(th)][k] = act
  <2>1. /\ performed[Current(th)] \in Seq(Access) /\ act \in Access
        /\ performed \in [TaskIds -> Seq(Access)]
    BY <1>2 DEF TypeOK, Access
  <2> HIDE DEF act
  <2>2. performed'[Current(th)] = Append(performed[Current(th)], act)
    BY <1>1, <1>2, <2>1
  <2>3. \A t \in TaskIds : t # Current(th) => performed'[t] = performed[t]
    BY <1>1, <2>1
  <2>4. \A k \in DOMAIN performed[Current(th)] :
          /\ k \in DOMAIN performed'[Current(th)]
          /\ performed'[Current(th)][k] = performed[Current(th)][k]
    BY <2>1, <2>2
  <2>5. /\ Len(performed[Current(th)]) + 1 \in DOMAIN performed'[Current(th)]
        /\ performed'[Current(th)][Len(performed[Current(th)]) + 1] = act
    BY <2>1, <2>2
  <2> QED BY <2>3, <2>4, <2>5
<1>4. \A l : Truthful(l, performed, funcNames) => Truthful(l, performed', funcNames')
  BY <1>2, <1>3 DEF Truthful, Made
<1>5. PICK line : line = new
  OBVIOUS
<1>6. Truthful(line, performed', funcNames')
  <2>1. /\ line.taskId = Current(th) /\ funcNames'[f] = line.funcId
        /\ Tells(line, act) /\ act.func = f
    BY <1>2, <1>5 DEF Tells
  <2>2. ~line.isWrite => line.value = 0
    BY <1>2, <1>5, LintAssumption
  <2> QED BY <1>2, <1>3, <2>1, <2>2 DEF Truthful, Made
<1>7. \A u \in Threads, y \in Addrs :
        taskInfo'[u].memoryLocations[y] \in {taskInfo[u].memoryLocations[y], line}
  <2>1. taskInfo' = [taskInfo EXCEPT ![th].memoryLocations[x] = StoreAction(@, line),
                                     ![th].functions[f] = line.funcId]
    BY <1>1, <1>5 DEF Remembers
  <2>2. taskInfo \in [Threads -> Info]
    BY DEF TypeOK
  <2> QED BY <2>1, <2>2 DEF StoreAction, Info
<1> HIDE DEF new, act
<1>8. \A i \in DOMAIN logger' : logger'[i].kind = "block" =>
        \A l \in logger'[i].lines : Truthful(l, performed', funcNames')
  <2>1. CASE UNCHANGED logger
    BY <1>4, <2>1 DEF LineInv
  <2>2. CASE logger' = Append(logger, [kind |-> "F", func |-> f, id |-> funcIDSeed])
    <3>1. [kind |-> "F", func |-> f, id |-> funcIDSeed] \in FLine
      BY DEF TypeOK, FLine
    <3> QED BY <1>4, <2>2, <3>1, GrowsTruthful
  <2> QED BY <1>1, <2>1, <2>2, Registering
<1>9. \A u \in Threads, y \in Addrs :
        taskInfo'[u].memoryLocations[y] # NULL =>
          Truthful(taskInfo'[u].memoryLocations[y], performed', funcNames')
  BY <1>4, <1>6, <1>7 DEF LineInv
<1> QED BY <1>8, <1>9 DEF LineInv

\* Steps that neither log nor remember.
LEMMA QuietLines ==
  ASSUME LineInv, UNCHANGED <<logger, performed, funcNames>>,
         \A u \in Threads : taskInfo'[u].memoryLocations = taskInfo[u].memoryLocations
  PROVE  LineInv'
<1>1. \A l : Truthful(l, performed', funcNames') <=> Truthful(l, performed, funcNames)
  BY DEF Truthful, Made
<1> QED BY <1>1 DEF LineInv

LEMMA LineInvariance == Spec => []LineInv
<1>1. Init => LineInv
  BY DEF Init, LineInv, NewInfo, NoActions
<1>2. IInv /\ FuncInv /\ NamesAgree /\ LineInv /\ [Next]_vars => LineInv'
  <2> SUFFICES ASSUME IInv, FuncInv, NamesAgree, LineInv, [Next]_vars PROVE LineInv'
    OBVIOUS
  <2>0. TypeOK
    BY DEF IInv
  <2>1. ASSUME NEW th \in Threads, NEW inputs \in SUBSET Slots, TaskBegin(th, inputs)
        PROVE  LineInv'
    <3>1. UNCHANGED <<logger, funcNames, funcIDSeed, performed>>
      BY <2>1 DEF TaskBegin, historyVars, funcVars
    <3> QED BY <2>0, <2>1, <3>1, BeginInfo, QuietLines
  <2>2. ASSUME NEW th \in Threads, TaskEnd(th) PROVE LineInv'
    BY <2>0, <2>2, EndLines
  <2>3. ASSUME NEW th \in Threads, NEW x \in Addrs, NEW f \in Funcs,
               Read(th, x, f) \/ \E v \in Contents : Write(th, x, v, f)
        PROVE  LineInv'
    BY <2>0, <2>3, AccessLines, LintAssumption DEF Read, Write
  <2>4. ASSUME NEW th \in Threads, NEW s \in Slots, NEW v \in TokenValues,
               TaskSendToken(th, s, v) \/ StrayCopy(th, s, v)
        PROVE  LineInv'
    BY <2>4, QuietLines DEF TaskSendToken, StrayCopy, historyVars, funcVars
  <2>5. ASSUME NEW th \in Threads, NEW s \in Slots, TaskReceiveToken(th, s)
        PROVE  LineInv'
    BY <2>5, QuietLines DEF TaskReceiveToken, funcVars
  <2>6. ASSUME NEW s \in Slots, PassToken2Buffer(s)
        PROVE  LineInv'
    BY <2>6, QuietLines DEF PassToken2Buffer, tracerVars, historyVars, funcVars
  <2>7. CASE UNCHANGED vars
    BY <2>7, QuietLines DEF vars, tracerVars, historyVars, funcVars
  <2> QED BY <2>1, <2>2, <2>3, <2>4, <2>5, <2>6, <2>7 DEF Next
<1> QED BY <1>1, <1>2, Invariance, NamesInvariance, AgreeInvariance, PTL DEF Spec

-----------------------------------------------------------------------------
(* Where lines are printed.                                                *)

HasBlock(t) == \E i \in DOMAIN logger : logger[i].kind = "block" /\ logger[i].task = t

\* A task has one block.
OneBlock ==
  \A i, j \in DOMAIN logger :
    logger[i].kind = "block" /\ logger[j].kind = "block" /\ logger[i].task = logger[j].task
      => i = j

\* What a thread remembers at an address is a line of it, of the task it runs or of one
\* that has ended.
Placed(l, th, x) ==
  l.addr = x /\ (HasBlock(l.taskId) \/ (taskInfo[th].active /\ l.taskId = Current(th)))
RememberedInv ==
  \A th \in Threads, x \in Addrs :
    taskInfo[th].memoryLocations[x] # NULL => Placed(taskInfo[th].memoryLocations[x], th, x)

\* A block has one line per address, of tasks whose blocks are at this place or before.
PrintedInv ==
  \A i \in DOMAIN logger : logger[i].kind = "block" =>
    /\ \A l \in logger[i].lines :
         \E j \in DOMAIN logger : j <= i /\ logger[j].kind = "block" /\ logger[j].task = l.taskId
    /\ \A l, m \in logger[i].lines : l.addr = m.addr => l = m

PlacesInv == OneBlock /\ RememberedInv /\ PrintedInv

LEMMA EndPlaces ==
  ASSUME IInv, PlacesInv, NEW th \in Threads, TaskEnd(th)
  PROVE  PlacesInv'
<1> DEFINE n == Len(logger)
           new == [kind |-> "block", task |-> Current(th), lines |-> Printed(th)]
<1>0. TypeOK /\ LogInv
  BY DEF IInv
<1>1. /\ taskInfo[th].active /\ logger' = Append(logger, new)
      /\ \A u \in Threads : u # th => taskInfo'[u] = taskInfo[u]
      /\ taskInfo'[th] = IF Scheduler = "taskPerThread" THEN NewInfo
                         ELSE [taskInfo[th] EXCEPT !.active = FALSE]
  BY <1>0 DEF TaskEnd, TypeOK, Running
<1>2. n \in Nat /\ DOMAIN logger = 1..n
  BY <1>0, TraceShape
<1>3. /\ DOMAIN logger' = 1..(n + 1)
      /\ logger'[n + 1] = new /\ \A i \in 1..n : logger'[i] = logger[i]
  <2> HIDE DEF new
  <2> QED BY <1>0, <1>1, <1>2 DEF TypeOK
<1>4. Current(th) \in TaskIds /\ ~HasBlock(Current(th))
  BY <1>0, <1>1, ThreadTypes DEF LogInv, BlockOf, HasBlock
<1>5. \A t : HasBlock(t)' <=> HasBlock(t) \/ t = Current(th)
  BY <1>2, <1>3 DEF HasBlock
<1>6. OneBlock'
  BY <1>2, <1>3, <1>4 DEF PlacesInv, OneBlock, HasBlock
<1>7. \A u \in Threads, x \in Addrs :
        taskInfo'[u].memoryLocations[x] \in {NULL, taskInfo[u].memoryLocations[x]}
  <2>1. taskInfo[th] \in Info
    BY <1>0 DEF TypeOK
  <2>2. \A x \in Addrs : NewInfo.memoryLocations[x] = NULL
    BY DEF NewInfo, NoActions
  <2>3. taskInfo'[th] = NewInfo \/ taskInfo'[th].memoryLocations = taskInfo[th].memoryLocations
    BY <1>1, <2>1 DEF Info
  <2> QED BY <1>1, <2>2, <2>3
<1>8. RememberedInv'
  <2>1. ASSUME NEW u \in Threads, NEW x \in Addrs, NEW l, Placed(l, u, x)
        PROVE  Placed(l, u, x)'
    <3>1. CASE u = th
      BY <1>5, <2>1, <3>1 DEF Placed
    <3>2. CASE u # th
      BY <1>1, <1>5, <2>1, <3>2 DEF Placed, Current
    <3> QED BY <3>1, <3>2
  <2> QED BY <1>7, <2>1 DEF PlacesInv, RememberedInv
<1>9. /\ \A l \in Printed(th) : HasBlock(l.taskId)'
      /\ \A l, m \in Printed(th) : l.addr = m.addr => l = m
  <2>1. \A x \in Addrs : taskInfo[th].memoryLocations[x] # NULL =>
          Placed(taskInfo[th].memoryLocations[x], th, x)
    BY DEF PlacesInv, RememberedInv
  <2>2. \A l \in Printed(th) : \E x \in Addrs :
          l = taskInfo[th].memoryLocations[x] /\ Placed(l, th, x)
    BY <2>1 DEF Printed
  <2> QED BY <1>5, <2>2 DEF Placed
<1>10. PrintedInv'
  <2> SUFFICES ASSUME NEW i \in 1..(n + 1), logger'[i].kind = "block"
               PROVE  /\ \A l \in logger'[i].lines :
                           \E j \in 1..(n + 1) : /\ j <= i /\ logger'[j].kind = "block"
                                                 /\ logger'[j].task = l.taskId
                      /\ \A l, m \in logger'[i].lines : l.addr = m.addr => l = m
    BY <1>3 DEF PrintedInv
  <2>1. CASE i = n + 1
    <3>1. logger'[i].lines = Printed(th)
      BY <1>3, <2>1
    <3>2. \A j \in 1..(n + 1) : j <= i
      BY <1>2, <2>1
    <3> QED BY <1>3, <1>9, <3>1, <3>2 DEF HasBlock
  <2>2. CASE i \in 1..n
    BY <1>2, <1>3, <2>2 DEF PlacesInv, PrintedInv
  <2> QED BY <1>2, <2>1, <2>2
<1> QED BY <1>6, <1>8, <1>10 DEF PlacesInv

LEMMA AccessPlaces ==
  ASSUME IInv, PlacesInv, NEW th \in Threads, NEW x \in Addrs, NEW v \in Contents,
         NEW f \in Funcs, NEW isWrite \in BOOLEAN, AccessBy(th, x, v, f, isWrite)
  PROVE  PlacesInv'
<1>0. TypeOK
  BY DEF IInv
<1>1. PICK line : line = LineOf(th, x, v, f, isWrite)
  OBVIOUS
<1>2. /\ taskInfo[th].active /\ line.taskId = Current(th) /\ line.addr = x
      /\ taskInfo' = [taskInfo EXCEPT ![th].memoryLocations[x] = StoreAction(@, line),
                                      ![th].functions[f] = line.funcId]
      /\ IF taskInfo[th].functions[f] # 0 THEN UNCHANGED <<funcVars, logger>>
         ELSE RegisterFunction(f)
  BY <1>1 DEF AccessBy, Performs, Remembers, Running, LineOf
<1>3. \A u \in Threads :
        /\ taskInfo'[u].active = taskInfo[u].active /\ Current(u)' = Current(u)
        /\ \A y \in Addrs : \/ taskInfo'[u].memoryLocations[y] = taskInfo[u].memoryLocations[y]
                            \/ u = th /\ y = x /\ taskInfo'[u].memoryLocations[y] = line
  <2>1. taskInfo \in [Threads -> Info]
    BY <1>0 DEF TypeOK
  <2> QED BY <1>2, <2>1 DEF StoreAction, Info, Current
<1>6. Placed(line, th, x)
  BY <1>2 DEF Placed
<1>4. CASE UNCHANGED logger
  <2>1. \A t : HasBlock(t)' <=> HasBlock(t)
    BY <1>4 DEF HasBlock
  <2>2. RememberedInv'
    <3>1. \A l : \A u \in Threads, y \in Addrs : Placed(l, u, y)' <=> Placed(l, u, y)
      BY <1>3, <2>1 DEF Placed
    <3> QED BY <1>3, <1>6, <3>1 DEF PlacesInv, RememberedInv
  <2>3. OneBlock' /\ PrintedInv'
    BY <1>4 DEF PlacesInv, OneBlock, PrintedInv
  <2> QED BY <2>2, <2>3 DEF PlacesInv
<1>5. CASE logger' = Append(logger, [kind |-> "F", func |-> f, id |-> funcIDSeed])
  <2> DEFINE n == Len(logger)
  <2>1. /\ DOMAIN logger = 1..n /\ DOMAIN logger' = 1..(n + 1) /\ n \in Nat
        /\ \A i \in 1..n : logger'[i] = logger[i]
        /\ logger'[n + 1].kind # "block"
    BY <1>0, <1>5, NewName
  <2>2. \A i \in DOMAIN logger' : logger'[i].kind = "block" =>
          i \in DOMAIN logger /\ logger[i].kind = "block" /\ logger'[i] = logger[i]
    BY <2>1
  <2>3. \A i \in DOMAIN logger : i \in DOMAIN logger' /\ logger'[i] = logger[i]
    BY <2>1
  <2>4. \A t : HasBlock(t)' <=> HasBlock(t)
    BY <2>2, <2>3 DEF HasBlock
  <2>5. RememberedInv'
    <3>1. \A l : \A u \in Threads, y \in Addrs : Placed(l, u, y)' <=> Placed(l, u, y)
      BY <1>3, <2>4 DEF Placed
    <3> QED BY <1>3, <1>6, <3>1 DEF PlacesInv, RememberedInv
  <2>6. OneBlock' /\ PrintedInv'
    <3>1. OneBlock'
      BY <2>2 DEF PlacesInv, OneBlock
    <3>2. PrintedInv'
      BY <2>2, <2>3 DEF PlacesInv, PrintedInv
    <3> QED BY <3>1, <3>2
  <2> QED BY <2>5, <2>6 DEF PlacesInv
<1> QED BY <1>0, <1>2, <1>4, <1>5, Registering

\* Steps that neither log, remember nor end a task.
LEMMA QuietPlaces ==
  ASSUME PlacesInv, UNCHANGED logger,
         \A u \in Threads : /\ taskInfo'[u].memoryLocations = taskInfo[u].memoryLocations
                            /\ taskInfo[u].active =>
                                 taskInfo'[u].active /\ Current(u)' = Current(u)
  PROVE  PlacesInv'
<1>1. \A t : HasBlock(t)' <=> HasBlock(t)
  BY DEF HasBlock
<1>2. RememberedInv'
  BY <1>1 DEF PlacesInv, RememberedInv, Placed
<1>3. OneBlock' /\ PrintedInv'
  BY DEF PlacesInv, OneBlock, PrintedInv
<1> QED BY <1>2, <1>3 DEF PlacesInv

LEMMA PlacesInvariance == Spec => []PlacesInv
<1>1. Init => PlacesInv
  BY DEF Init, PlacesInv, OneBlock, RememberedInv, PrintedInv, NewInfo, NoActions
<1>2. IInv /\ PlacesInv /\ [Next]_vars => PlacesInv'
  <2> SUFFICES ASSUME IInv, PlacesInv, [Next]_vars PROVE PlacesInv'
    OBVIOUS
  <2>0. TypeOK
    BY DEF IInv
  <2>1. ASSUME NEW th \in Threads, NEW inputs \in SUBSET Slots, TaskBegin(th, inputs)
        PROVE  PlacesInv'
    <3>1. UNCHANGED logger /\ ~taskInfo[th].active
      BY <2>1 DEF TaskBegin
    <3> QED BY <2>0, <2>1, <3>1, BeginInfo, QuietPlaces DEF Current
  <2>2. ASSUME NEW th \in Threads, TaskEnd(th) PROVE PlacesInv'
    BY <2>2, EndPlaces
  <2>3. ASSUME NEW th \in Threads, NEW x \in Addrs, NEW f \in Funcs,
               Read(th, x, f) \/ \E v \in Contents : Write(th, x, v, f)
        PROVE  PlacesInv'
    BY <2>3, AccessPlaces, LintAssumption DEF Read, Write
  <2>4. ASSUME NEW th \in Threads, NEW s \in Slots, NEW v \in TokenValues,
               TaskSendToken(th, s, v) \/ StrayCopy(th, s, v)
        PROVE  PlacesInv'
    BY <2>4, QuietPlaces DEF TaskSendToken, StrayCopy, Current
  <2>5. ASSUME NEW th \in Threads, NEW s \in Slots, TaskReceiveToken(th, s)
        PROVE  PlacesInv'
    BY <2>5, QuietPlaces DEF TaskReceiveToken, Current
  <2>6. ASSUME NEW s \in Slots, PassToken2Buffer(s)
        PROVE  PlacesInv'
    BY <2>6, QuietPlaces DEF PassToken2Buffer, tracerVars, Current
  <2>7. CASE UNCHANGED vars
    BY <2>7, QuietPlaces DEF vars, tracerVars, Current
  <2> QED BY <2>1, <2>2, <2>3, <2>4, <2>5, <2>6, <2>7 DEF Next
<1> QED BY <1>1, <1>2, Invariance, PTL DEF Spec

-----------------------------------------------------------------------------
(* The theorems.                                                           *)

\* Every variable of the tracer has its type, and two tasks that run at the
\* same time never have one id (GenTaskID, Logger.hpp:108).
THEOREM TypeCorrect == Spec => []TypeOK
<1>1. IInv => TypeOK
  BY DEF IInv
<1> QED BY <1>1, Invariance, PTL

\* However tokens are allocated, freed and allocated again, the entry of a live
\* token in idMap names its sender (INS::TaskSendTokenLog, with freed addresses).
THEOREM TokensStayAttributed == Spec => []TokensAttributed
<1>1. IInv => TokensAttributed
  BY DEF IInv
<1> QED BY <1>1, Invariance, PTL

\* No token that a task copies fails to give its edge (INS::TaskReceiveTokenLog), in
\* both builds and with stray copies.
THEOREM StreamsFound == Spec => []NoStreamMissed
<1>1. IInv => NoStreamMissed
  BY DEF IInv, EdgeInv
<1> QED BY <1>1, Invariance, PTL

\* When task bodies copy nothing but tokens, there is no other edge, and edges
\* lead from older to younger tasks (INS::TaskReceiveTokenLog).
THEOREM EdgesSound ==
  ASSUME StrayCopies = FALSE
  PROVE  Spec => [](NoEdgeInvented /\ ParentsOlder)
<1>1. IInv => NoEdgeInvented /\ ParentsOlder
  BY DEF IInv, EdgeInv
<1> QED BY <1>1, Invariance, PTL

\* Whatever threads meet a function first, and whatever they kept from earlier
\* tasks: a name precedes the first line with its id, and no id is given twice
\* (INS::RegisterFunction; the assertions of sigManager.hpp:32 and :46 hold).
THEOREM FunctionsNamed == Spec => []FuncsNamedFirst
<1>1. FuncInv => FuncsNamedFirst
  BY DEF FuncInv
<1> QED BY <1>1, NamesInvariance, PTL

\* In the default build the block of a task comes after the blocks of all its
\* parents: what checker.cpp:207 relies on.
THEOREM ParentsFirst ==
  ASSUME Scheduler = "taskPerThread"
  PROVE  Spec => []ParentsLoggedFirst
<1>1. IInv => ParentsLoggedFirst
  BY DEF IInv, SerialInv
<1> QED BY <1>1, Invariance, PTL

-----------------------------------------------------------------------------
(***************************************************************************)
(* In the default build every block of the trace is exactly what its task  *)
(* leaves behind, for any number of tasks, addresses and accesses.         *)
(***************************************************************************)
(* What survives of a sequence of accesses.                                *)

\* Survives, of any sequence.
Lasting(acts, k) ==
  IF acts[k].isWrite
  THEN \A j \in DOMAIN acts : j > k /\ acts[j].isWrite => acts[j].addr # acts[k].addr
  ELSE /\ \A j \in DOMAIN acts : acts[j].isWrite => acts[j].addr # acts[k].addr
       /\ \A j \in DOMAIN acts : j < k => acts[j].addr # acts[k].addr

LineAt(acts, names, t, k) ==
  [taskId |-> t, addr |-> acts[k].addr, value |-> Lint[acts[k].value],
   funcId |-> names[acts[k].func], isWrite |-> acts[k].isWrite]

Leaves(acts, names, t) ==
  {LineAt(acts, names, t, k) : k \in {k \in DOMAIN acts : Lasting(acts, k)}}

LEMMA SummaryLeaves ==
  ASSUME NEW t
  PROVE  Summary(t) = Leaves(performed[t], funcNames, t)
<1>1. \A k \in DOMAIN performed[t] : Survives(t, k) <=> Lasting(performed[t], k)
  BY DEF Survives, Lasting, Wrote
<1> QED BY <1>1 DEF Summary, Leaves, LineAt

\* Giving names to other functions changes nothing.
LEMMA SameLeaves ==
  ASSUME NEW acts, NEW t, NEW names, NEW others,
         \A k \in DOMAIN acts : names[acts[k].func] = others[acts[k].func]
  PROVE  /\ \A k \in DOMAIN acts : LineAt(acts, names, t, k) = LineAt(acts, others, t, k)
         /\ Leaves(acts, names, t) = Leaves(acts, others, t)
BY DEF Leaves, LineAt

\* One more access: a write takes the place of all at its address, a read counts
\* only when it is the first.
LEMMA LastingAppend ==
  ASSUME NEW acts \in Seq(Access), NEW a \in Access
  PROVE  LET more == Append(acts, a)  n == Len(acts) + 1 IN
         /\ DOMAIN more = 1..n /\ DOMAIN acts = 1..Len(acts) /\ Len(acts) \in Nat
         /\ more[n] = a /\ \A k \in 1..Len(acts) : more[k] = acts[k]
         /\ \A k \in 1..Len(acts) :
              Lasting(more, k) <=> Lasting(acts, k) /\ ~(a.isWrite /\ acts[k].addr = a.addr)
         /\ Lasting(more, n) <=>
              a.isWrite \/ \A j \in 1..Len(acts) : acts[j].addr # a.addr
<1> DEFINE more == Append(acts, a)
           n    == Len(acts) + 1
<1>1. /\ DOMAIN more = 1..n /\ DOMAIN acts = 1..Len(acts) /\ Len(acts) \in Nat
      /\ more[n] = a /\ \A k \in 1..Len(acts) : more[k] = acts[k]
  OBVIOUS
<1>2. \A k \in 1..n : k \in 1..Len(acts) \/ k = n
  BY <1>1
<1> HIDE DEF more
<1>3. ASSUME NEW k \in 1..Len(acts)
      PROVE  Lasting(more, k) <=> Lasting(acts, k) /\ ~(a.isWrite /\ acts[k].addr = a.addr)
  <2>1. n > k /\ ~(n < k) /\ n \in 1..n /\ more[k] = acts[k]
        /\ \A j \in 1..Len(acts) : j \in 1..n
    BY <1>1
  <2> HIDE DEF n
  <2>2. CASE acts[k].isWrite
    BY <1>1, <1>2, <2>1, <2>2 DEF Lasting
  <2>3. CASE ~acts[k].isWrite
    BY <1>1, <1>2, <2>1, <2>3 DEF Lasting
  <2> QED BY <2>2, <2>3
<1>4. Lasting(more, n) <=> a.isWrite \/ \A j \in 1..Len(acts) : acts[j].addr # a.addr
  <2>1. /\ n \in 1..n /\ \A j \in 1..n : ~(j > n)
        /\ \A j \in 1..Len(acts) : j < n /\ j \in 1..n
    BY <1>1
  <2> HIDE DEF n
  <2>2. CASE a.isWrite
    BY <1>1, <2>1, <2>2 DEF Lasting
  <2>3. CASE ~a.isWrite
    BY <1>1, <1>2, <2>1, <2>3 DEF Lasting
  <2> QED BY <2>2, <2>3
<1> QED BY <1>1, <1>3, <1>4 DEF more

-----------------------------------------------------------------------------
(* What a thread remembers.                                                *)

\* The memory mem holds, per address, the access of acts that survives there.
Holds(mem, acts, names, t) ==
  /\ \A k \in DOMAIN acts :
       /\ mem[acts[k].addr] # NULL
       /\ Lasting(acts, k) => mem[acts[k].addr] = LineAt(acts, names, t, k)
  /\ \A x \in Addrs : mem[x] # NULL =>
       \E k \in DOMAIN acts : acts[k].addr = x /\ Lasting(acts, k)

LEMMA StoreHolds ==
  ASSUME NEW mem \in [Addrs -> Line \union {NULL}], NEW acts \in Seq(Access),
         NEW a \in Access, NEW names, NEW t, Holds(mem, acts, names, t),
         NEW line \in Line,
         line = [taskId |-> t, addr |-> a.addr, value |-> Lint[a.value],
                 funcId |-> names[a.func], isWrite |-> a.isWrite]
  PROVE  Holds([mem EXCEPT ![a.addr] = StoreAction(@, line)], Append(acts, a), names, t)
<1> DEFINE more == Append(acts, a)
           n    == Len(acts) + 1
           now  == [mem EXCEPT ![a.addr] = StoreAction(@, line)]
<1>1. /\ DOMAIN more = 1..n /\ DOMAIN acts = 1..Len(acts) /\ Len(acts) \in Nat
      /\ more[n] = a /\ \A k \in 1..Len(acts) : more[k] = acts[k]
      /\ \A k \in 1..Len(acts) :
           Lasting(more, k) <=> Lasting(acts, k) /\ ~(a.isWrite /\ acts[k].addr = a.addr)
      /\ Lasting(more, n) <=> a.isWrite \/ \A j \in 1..Len(acts) : acts[j].addr # a.addr
  BY LastingAppend
<1>2. /\ \A k \in 1..n : k \in 1..Len(acts) \/ k = n
      /\ n \in 1..n /\ \A k \in 1..Len(acts) : k \in 1..n
  BY <1>1
<1>3. /\ a.addr \in Addrs /\ line # NULL /\ a.isWrite \in BOOLEAN /\ line.isWrite = a.isWrite
      /\ \A k \in 1..Len(acts) : acts[k].addr \in Addrs
  <2>1. \A k \in 1..Len(acts) : acts[k] \in Access
    BY <1>1
  <2> QED BY <2>1, NoNullAssumption DEF Access
<1>4. /\ now[a.addr] = IF mem[a.addr] = NULL \/ a.isWrite THEN line ELSE mem[a.addr]
      /\ \A x \in Addrs : x # a.addr => now[x] = mem[x]
      /\ \A x \in Addrs : mem[x] # NULL => now[x] # NULL
      /\ now[a.addr] # NULL
  BY <1>3 DEF StoreAction
<1>5. /\ LineAt(more, names, t, n) = line
      /\ \A k \in 1..Len(acts) : LineAt(more, names, t, k) = LineAt(acts, names, t, k)
  BY <1>1 DEF LineAt
<1> HIDE DEF more, now, n
<1>6. mem[a.addr] = NULL <=> \A j \in 1..Len(acts) : acts[j].addr # a.addr
  <2>1. \A j \in 1..Len(acts) : mem[acts[j].addr] # NULL
    BY <1>1 DEF Holds
  <2>2. mem[a.addr] # NULL => \E j \in 1..Len(acts) : acts[j].addr = a.addr
    BY <1>1, <1>3 DEF Holds
  <2> QED BY <2>1, <2>2
<1>7. ASSUME NEW k \in DOMAIN more
      PROVE  /\ now[more[k].addr] # NULL
             /\ Lasting(more, k) => now[more[k].addr] = LineAt(more, names, t, k)
  <2>1. CASE k = n
    BY <1>1, <1>4, <1>5, <1>6, <2>1
  <2>2. CASE k \in 1..Len(acts)
    <3>1. /\ mem[acts[k].addr] # NULL
          /\ Lasting(acts, k) => mem[acts[k].addr] = LineAt(acts, names, t, k)
      BY <1>1, <2>2 DEF Holds
    <3> QED BY <1>1, <1>3, <1>4, <1>5, <2>2, <3>1
  <2> QED BY <1>1, <1>2, <2>1, <2>2
<1>8. ASSUME NEW x \in Addrs, now[x] # NULL
      PROVE  \E k \in DOMAIN more : more[k].addr = x /\ Lasting(more, k)
  <2>1. CASE x = a.addr /\ (a.isWrite \/ mem[x] = NULL)
    BY <1>1, <1>2, <1>6, <2>1
  <2>2. CASE x # a.addr \/ ~(a.isWrite \/ mem[x] = NULL)
    <3>1. mem[x] # NULL
      BY <1>4, <1>8, <2>2
    <3>2. PICK k \in 1..Len(acts) : acts[k].addr = x /\ Lasting(acts, k)
      BY <1>1, <3>1 DEF Holds
    <3> QED BY <1>1, <1>2, <2>2, <3>2
  <2> QED BY <2>1, <2>2
<1>9. Holds(now, more, names, t)
  BY <1>7, <1>8 DEF Holds
<1> QED BY <1>9 DEF now, more

\* What is printed of such a memory is what the accesses leave behind.
LEMMA HoldsLeaves ==
  ASSUME NEW mem \in [Addrs -> Line \union {NULL}], NEW acts \in Seq(Access),
         NEW names, NEW t, Holds(mem, acts, names, t)
  PROVE  {mem[x] : x \in Addrs} \ {NULL} = Leaves(acts, names, t)
<1>1. \A k \in DOMAIN acts : acts[k].addr \in Addrs
  <2>1. \A k \in DOMAIN acts : acts[k] \in Access
    OBVIOUS
  <2> QED BY <2>1 DEF Access
<1>2. ASSUME NEW x \in Addrs, mem[x] # NULL
      PROVE  mem[x] \in Leaves(acts, names, t)
  <2>1. PICK k \in DOMAIN acts : acts[k].addr = x /\ Lasting(acts, k)
    BY <1>2 DEF Holds
  <2> QED BY <2>1 DEF Holds, Leaves
<1>3. ASSUME NEW k \in DOMAIN acts, Lasting(acts, k)
      PROVE  LineAt(acts, names, t, k) \in {mem[x] : x \in Addrs} \ {NULL}
  BY <1>1, <1>3 DEF Holds
<1> QED BY <1>2, <1>3 DEF Leaves

-----------------------------------------------------------------------------
(* The inductive invariant.                                                *)

\* A thread that runs a task remembers what the task did, one that runs none
\* nothing; functions of accesses have ids.
MemoryInv ==
  /\ \A th \in Threads :
       IF taskInfo[th].active
       THEN Holds(taskInfo[th].memoryLocations, performed[Current(th)], funcNames, Current(th))
       ELSE \A x \in Addrs : taskInfo[th].memoryLocations[x] = NULL
  /\ \A t \in TaskIds : t >= taskIDSeed => performed[t] = <<>>
  /\ \A t \in TaskIds : \A k \in DOMAIN performed[t] : funcNames[performed[t][k].func] # 0

BlockInv == Scheduler = "taskPerThread" => MemoryInv /\ BlocksFaithful

LEMMA BeginBlocks ==
  ASSUME IInv, MemoryInv, BlocksFaithful, NEW th \in Threads, NEW inputs \in SUBSET Slots,
         TaskBegin(th, inputs)
  PROVE  MemoryInv' /\ BlocksFaithful'
<1>0. TypeOK
  BY DEF IInv
<1>1. /\ taskIDSeed \in Nat /\ taskIDSeed < MaxTasks /\ taskIDSeed' = taskIDSeed + 1
      /\ ~taskInfo[th].active
      /\ UNCHANGED <<logger, funcNames, performed>>
  BY <1>0, ThreadTypes DEF TaskBegin, historyVars, funcVars
<1>2. /\ taskInfo'[th].active /\ Current(th)' = taskIDSeed
      /\ \A u \in Threads : u # th => taskInfo'[u] = taskInfo[u] /\ Current(u)' = Current(u)
      /\ taskInfo'[th].memoryLocations = taskInfo[th].memoryLocations
  BY <1>0, BeginInfo DEF Current
<1>3. taskIDSeed \in TaskIds
  BY <1>1, BoundsAssumption DEF TaskIds
<1>4. performed[taskIDSeed] = <<>>
  BY <1>1, <1>3 DEF MemoryInv
<1>5. Holds(taskInfo'[th].memoryLocations, <<>>, funcNames, taskIDSeed)
  BY <1>1, <1>2 DEF MemoryInv, Holds
<1>6. ASSUME NEW u \in Threads
      PROVE  IF taskInfo'[u].active
             THEN Holds(taskInfo'[u].memoryLocations, performed'[Current(u)'], funcNames',
                        Current(u)')
             ELSE \A x \in Addrs : taskInfo'[u].memoryLocations[x] = NULL
  BY <1>1, <1>2, <1>4, <1>5 DEF MemoryInv
<1>7. \A t \in TaskIds : t >= taskIDSeed' => t >= taskIDSeed
  BY <1>1 DEF TaskIds
<1>8. MemoryInv'
  BY <1>1, <1>6, <1>7 DEF MemoryInv
<1>9. \A t : Summary(t)' = Summary(t)
  BY <1>1 DEF Summary, Survives, Wrote
<1> QED BY <1>1, <1>8, <1>9 DEF BlocksFaithful

LEMMA EndBlocks ==
  ASSUME IInv, MemoryInv, BlocksFaithful, Scheduler = "taskPerThread",
         NEW th \in Threads, TaskEnd(th)
  PROVE  MemoryInv' /\ BlocksFaithful'
<1>0. TypeOK
  BY DEF IInv
<1> DEFINE new == [kind |-> "block", task |-> Current(th), lines |-> Printed(th)]
<1>1. /\ taskInfo \in [Threads -> Info] /\ taskInfo[th] \in Info
      /\ Current(th) \in TaskIds /\ performed[Current(th)] \in Seq(Access)
      /\ taskInfo[th].memoryLocations \in [Addrs -> Line \union {NULL}]
  BY <1>0, ThreadTypes DEF TypeOK, Info
<1>2. /\ logger' = Append(logger, new) /\ taskInfo[th].active
      /\ taskInfo'[th] = NewInfo
      /\ \A u \in Threads : u # th => taskInfo'[u] = taskInfo[u] /\ Current(u)' = Current(u)
      /\ UNCHANGED <<taskIDSeed, funcNames, performed>>
  BY <1>1 DEF TaskEnd, Running, historyVars, funcVars, Current
<1>3. new \in Block /\ Printed(th) = Summary(Current(th))
  <2>1. Printed(th) = Leaves(performed[Current(th)], funcNames, Current(th))
    BY <1>1, <1>2, HoldsLeaves DEF Printed, MemoryInv
  <2> QED BY <1>1, <2>1, SummaryLeaves DEF Printed, Block
<1>4. \A t : Summary(t)' = Summary(t)
  BY <1>2 DEF Summary, Survives, Wrote
<1>5. /\ DOMAIN logger' = 1..(Len(logger) + 1) /\ logger'[Len(logger) + 1] = new
      /\ DOMAIN logger = 1..Len(logger) /\ Len(logger) \in Nat
      /\ \A i \in 1..Len(logger) : logger'[i] = logger[i]
  <2> HIDE DEF new
  <2> QED BY <1>0, <1>2, <1>3, OneMoreEntry
<1>6. new.task = Current(th) /\ new.lines = Printed(th)
  OBVIOUS
<1>7. BlocksFaithful'
  <2> SUFFICES ASSUME NEW i \in DOMAIN logger', logger'[i].kind = "block",
                      NEW t, t = logger'[i].task
               PROVE  logger'[i].lines = Summary(t)
    BY <1>4 DEF BlocksFaithful
  <2>1. CASE i = Len(logger) + 1
    BY <1>3, <1>4, <1>5, <1>6, <2>1
  <2>2. CASE i \in 1..Len(logger)
    BY <1>4, <1>5, <2>2 DEF BlocksFaithful
  <2> QED BY <1>5, <2>1, <2>2
<1>8. ~NewInfo.active /\ \A x \in Addrs : NewInfo.memoryLocations[x] = NULL
  BY DEF NewInfo, NoActions
<1>9. MemoryInv'
  <2> HIDE DEF new
  <2> QED BY <1>2, <1>8 DEF MemoryInv
<1> QED BY <1>7, <1>9

LEMMA AccessBlocks ==
  ASSUME IInv, FuncInv, NamesAgree, MemoryInv, BlocksFaithful,
         Scheduler = "taskPerThread", NEW th \in Threads, NEW x \in Addrs,
         NEW v \in Contents, NEW f \in Funcs, NEW isWrite \in BOOLEAN,
         AccessBy(th, x, v, f, isWrite)
  PROVE  MemoryInv' /\ BlocksFaithful'
<1> DEFINE act == [addr |-> x, value |-> v, func |-> f, isWrite |-> isWrite]
           t   == Current(th)
           new == LineOf(th, x, v, f, isWrite)
           mem == taskInfo[th].memoryLocations
<1>0. TypeOK /\ LogInv
  BY DEF IInv
<1>1. /\ taskInfo \in [Threads -> Info] /\ taskInfo[th] \in Info /\ t \in TaskIds
      /\ performed \in [TaskIds -> Seq(Access)] /\ mem \in [Addrs -> Line \union {NULL}]
      /\ funcNames \in [Funcs -> Nat] /\ act \in Access
      /\ \A u \in TaskIds : \A k \in DOMAIN performed[u] : performed[u][k].func \in Funcs
  <2>1. \A u \in TaskIds : \A k \in DOMAIN performed[u] : performed[u][k] \in Access
    BY <1>0 DEF TypeOK
  <2> QED BY <1>0, <2>1, ThreadTypes DEF TypeOK, Info, Access
<1>2. /\ Performs(th, x, v, f, isWrite) /\ Remembers(th, x, f, new) /\ taskInfo[th].active
      /\ UNCHANGED taskIDSeed
      /\ performed' = [performed EXCEPT ![t] = Append(@, act)]
      /\ IF taskInfo[th].functions[f] # 0 THEN UNCHANGED <<funcVars, logger>>
         ELSE RegisterFunction(f)
  BY DEF AccessBy, Performs, Running
<1>3. /\ GetFunctionId(th, f) = funcNames'[f] /\ funcNames'[f] # 0
      /\ \A g \in Funcs : funcNames[g] # 0 => funcNames'[g] = funcNames[g]
      /\ GetFunctionId(th, f) \in Nat
  <2>1. GetFunctionId(th, f) \in Nat
    BY <1>0, <1>2, Registering
  <2> QED BY <1>0, <2>1, AccessAgrees
<1>4. \A u \in TaskIds : \A k \in DOMAIN performed[u] :
        /\ funcNames[performed[u][k].func] # 0
        /\ funcNames'[performed[u][k].func] = funcNames[performed[u][k].func]
  BY <1>1, <1>3 DEF MemoryInv
<1>5. new \in Line /\ new = [taskId |-> t, addr |-> act.addr, value |-> Lint[act.value],
                             funcId |-> funcNames'[act.func], isWrite |-> act.isWrite]
  BY <1>1, <1>3, LintAssumption DEF LineOf, Line
<1>6. /\ performed'[t] = Append(performed[t], act)
      /\ \A u \in TaskIds : u # t => performed'[u] = performed[u]
  BY <1>1, <1>2
<1>7. /\ taskInfo'[th].active /\ Current(th)' = t
      /\ taskInfo'[th].memoryLocations = [mem EXCEPT ![x] = StoreAction(@, new)]
      /\ \A u \in Threads : u # th => taskInfo'[u] = taskInfo[u] /\ Current(u)' = Current(u)
  <2> HIDE DEF new
  <2> QED BY <1>1, <1>2 DEF Remembers, Info, Current
<1>8. Holds(taskInfo'[th].memoryLocations, performed'[t], funcNames', t)
  <2>1. Holds(mem, performed[t], funcNames, t)
    BY <1>2 DEF MemoryInv
  <2>2. Holds(mem, performed[t], funcNames', t)
    BY <1>1, <1>4, <2>1 DEF Holds, LineAt
  <2>3. act.addr = x
    OBVIOUS
  <2> HIDE DEF new, act, mem, t
  <2>4. Holds([mem EXCEPT ![act.addr] = StoreAction(@, new)], Append(performed[t], act),
              funcNames', t)
    BY <1>1, <1>5, <2>2, StoreHolds
  <2> QED BY <1>6, <1>7, <2>3, <2>4
<1>9. ASSUME NEW u \in Threads, u # th
      PROVE  ~taskInfo[u].active /\ \A y \in Addrs : taskInfo[u].memoryLocations[y] = NULL
  BY <1>2, <1>9 DEF IInv, SerialInv, MemoryInv
<1>10. \A u \in TaskIds : \A k \in DOMAIN performed'[u] : funcNames'[performed'[u][k].func] # 0
  <2> SUFFICES ASSUME NEW k \in DOMAIN performed'[t]
               PROVE  funcNames'[performed'[t][k].func] # 0
    BY <1>4, <1>6
  <2>1. act.func = f
    OBVIOUS
  <2> HIDE DEF act, t
  <2>2. performed'[t][k] = act \/ (k \in DOMAIN performed[t] /\ performed'[t][k] = performed[t][k])
    BY <1>1, <1>6
  <2> QED BY <1>1, <1>3, <1>4, <2>1, <2>2
<1>11. \A u \in TaskIds : u >= taskIDSeed' => performed'[u] = <<>>
  <2>1. t < taskIDSeed /\ taskIDSeed \in Nat /\ t \in Nat
    BY <1>0, <1>2, ThreadTypes
  <2>2. \A u \in TaskIds : u >= taskIDSeed => u # t
    BY <2>1
  <2> QED BY <1>2, <1>6, <2>2 DEF MemoryInv
<1>12. MemoryInv'
  <2> HIDE DEF new, act, mem, t
  <2>1. \A u \in Threads :
          IF taskInfo'[u].active
          THEN Holds(taskInfo'[u].memoryLocations, performed'[Current(u)'], funcNames',
                     Current(u)')
          ELSE \A y \in Addrs : taskInfo'[u].memoryLocations[y] = NULL
    BY <1>7, <1>8, <1>9
  <2> QED BY <1>10, <1>11, <2>1 DEF MemoryInv
<1>13. ASSUME NEW u \in TaskIds, u # t
       PROVE  Summary(u)' = Summary(u)
  <2>1. Summary(u) = Leaves(performed[u], funcNames, u)
    BY SummaryLeaves
  <2>2. Summary(u)' = Leaves(performed'[u], funcNames', u)
    <3>1. \A k \in DOMAIN performed'[u] : Survives(u, k)' <=> Lasting(performed'[u], k)
      BY DEF Survives, Lasting, Wrote
    <3> QED BY <3>1 DEF Summary, Leaves, LineAt
  <2> QED BY <1>4, <1>6, <1>13, <2>1, <2>2, SameLeaves
<1>14. \A i \in DOMAIN logger : logger[i].kind = "block" =>
         logger[i].task \in TaskIds /\ logger[i].task # t
  <2>1. BlockOf(t) = {}
    BY <1>0, <1>1, <1>2 DEF LogInv
  <2>2. \A i \in DOMAIN logger : logger[i] \in Block \union FLine
    BY <1>0, TraceShape
  <2> QED BY <2>1, <2>2 DEF BlockOf, Block, FLine
<1>15. BlocksFaithful'
  <2>1. CASE UNCHANGED logger
    BY <1>13, <1>14, <2>1 DEF BlocksFaithful
  <2>2. CASE logger' = Append(logger, [kind |-> "F", func |-> f, id |-> funcIDSeed])
    <3>1. /\ DOMAIN logger = 1..Len(logger) /\ DOMAIN logger' = 1..(Len(logger) + 1)
          /\ \A i \in 1..Len(logger) : logger'[i] = logger[i] /\ Len(logger) \in Nat
          /\ logger'[Len(logger) + 1].kind = "F"
      BY <1>0, <2>2, NewName
    <3> QED BY <1>13, <1>14, <3>1 DEF BlocksFaithful
  <2> QED BY <1>0, <1>2, <2>1, <2>2, Registering
<1> QED BY <1>12, <1>15

\* Steps of the tokens.
LEMMA QuietBlocks ==
  ASSUME MemoryInv, BlocksFaithful,
         UNCHANGED <<taskIDSeed, taskInfo, logger, funcNames, performed>>
  PROVE  MemoryInv' /\ BlocksFaithful'
<1>1. \A t : Summary(t)' = Summary(t)
  BY DEF Summary, Survives, Wrote
<1> QED BY <1>1 DEF MemoryInv, BlocksFaithful, Current

LEMMA BlockInvariance == Spec => []BlockInv
<1>1. Init => BlockInv
  BY DEF Init, BlockInv, MemoryInv, BlocksFaithful, NewInfo, NoActions
<1>2. IInv /\ FuncInv /\ NamesAgree /\ BlockInv /\ [Next]_vars => BlockInv'
  <2> SUFFICES ASSUME IInv, FuncInv, NamesAgree, MemoryInv, BlocksFaithful, [Next]_vars,
                      Scheduler = "taskPerThread"
               PROVE  MemoryInv' /\ BlocksFaithful'
    BY DEF BlockInv
  <2>1. ASSUME NEW th \in Threads, NEW inputs \in SUBSET Slots, TaskBegin(th, inputs)
        PROVE  MemoryInv' /\ BlocksFaithful'
    BY <2>1, BeginBlocks
  <2>2. ASSUME NEW th \in Threads, TaskEnd(th) PROVE MemoryInv' /\ BlocksFaithful'
    BY <2>2, EndBlocks
  <2>3. ASSUME NEW th \in Threads, NEW x \in Addrs, NEW f \in Funcs,
               Read(th, x, f) \/ \E v \in Contents : Write(th, x, v, f)
        PROVE  MemoryInv' /\ BlocksFaithful'
    BY <2>3, AccessBlocks, LintAssumption DEF Read, Write
  <2>4. ASSUME NEW th \in Threads, NEW s \in Slots, NEW v \in TokenValues,
               TaskSendToken(th, s, v) \/ StrayCopy(th, s, v)
        PROVE  MemoryInv' /\ BlocksFaithful'
    BY <2>4, QuietBlocks DEF TaskSendToken, StrayCopy, historyVars, funcVars
  <2>5. ASSUME NEW th \in Threads, NEW s \in Slots, TaskReceiveToken(th, s)
        PROVE  MemoryInv' /\ BlocksFaithful'
    BY <2>5, QuietBlocks DEF TaskReceiveToken, funcVars
  <2>6. ASSUME NEW s \in Slots, PassToken2Buffer(s)
        PROVE  MemoryInv' /\ BlocksFaithful'
    BY <2>6, QuietBlocks DEF PassToken2Buffer, tracerVars, historyVars, funcVars
  <2>7. CASE UNCHANGED vars
    BY <2>7, QuietBlocks DEF vars, tracerVars, historyVars, funcVars
  <2> QED BY <2>1, <2>2, <2>3, <2>4, <2>5, <2>6, <2>7 DEF Next
<1> QED BY <1>1, <1>2, Invariance, NamesInvariance, AgreeInvariance, PTL DEF Spec

\* In the default build the block of a task has one line per address the task
\* touched, with the value it left there, and none of another task: nothing is
\* lost and nothing is stale, in however many steps (Callbacks.cpp:21, "local to
\* a thread(and thus a task)").
THEOREM BlocksTrue ==
  ASSUME Scheduler = "taskPerThread"
  PROVE  Spec => []BlocksFaithful
<1>1. BlockInv => BlocksFaithful
  BY DEF BlockInv
<1> QED BY <1>1, BlockInvariance, PTL

-----------------------------------------------------------------------------
(***************************************************************************)
(* The tool as a whole.                                                    *)
(***************************************************************************)
(* The checker it runs.                                                    *)

LEMMA SameDetector ==
  /\ Detector!Init <=> D!Init
  /\ \A e : Detector!AddTaskNode(e[1], e[2]) <=> D!AddTaskNode(e[1], e[2])
  /\ Detector!EndOfHBLog <=> D!EndOfHBLog
  /\ \A t : Detector!Begin(t) <=> D!Begin(t)
  /\ \A id, f : Detector!AddFuncName(id, f) <=> D!AddFuncName(id, f)
  /\ \A a : Detector!SaveTaskActions(a) <=> D!SaveTaskActions(a)
  /\ \A id : Detector!Named(id) <=> D!Named(id)
  /\ \A a : Detector!LineExpected(a) <=> D!LineExpected(a)
  /\ UNCHANGED detectorVars => UNCHANGED D!vars /\ UNCHANGED Detector!vars
<1>1. Detector!Init <=> D!Init
  BY DEF Detector!Init, D!Init
<1>2. /\ \A e : Detector!AddTaskNode(e[1], e[2]) <=> D!AddTaskNode(e[1], e[2])
      /\ Detector!EndOfHBLog <=> D!EndOfHBLog
  BY DEF Detector!AddTaskNode, D!AddTaskNode, Detector!EndOfHBLog, D!EndOfHBLog,
         Detector!logVars, D!logVars, Detector!checkerVars, D!checkerVars
<1>3. \A t : /\ Detector!OpenBlock(t) <=> D!OpenBlock(t)
             /\ Detector!MissingParentBag(t) <=> D!MissingParentBag(t)
             /\ Detector!Inheritable(t) = D!Inheritable(t)
  BY DEF Detector!OpenBlock, D!OpenBlock, Detector!MissingParentBag, D!MissingParentBag,
         Detector!Inheritable, D!Inheritable, Detector!Parents, D!Parents
<1>4. \A t, taken, own, rest :
        Detector!MergeBags(t, taken, own, rest) <=> D!MergeBags(t, taken, own, rest)
  <2>1. \A S : Detector!Cardinality(S) = D!Cardinality(S)
    BY Zenon DEF Detector!Cardinality, D!Cardinality
  <2>2. \A own, rest : Detector!Absorb(own, rest) = D!Absorb(own, rest)
    BY Zenon DEF Detector!Absorb, D!Absorb
  <2>3. \A bag : Detector!Release(bag) = D!Release(bag)
    BY Zenon DEF Detector!Release, D!Release
  <2> QED BY <2>1, <2>2, <2>3 DEF Detector!MergeBags, D!MergeBags
<1>5. \A t : Detector!Begin(t) <=> D!Begin(t)
  <2> SUFFICES ASSUME NEW t PROVE Detector!Begin(t) <=> D!Begin(t)
    OBVIOUS
  <2>1. Detector!BeginRoot(t) <=> D!BeginRoot(t)
    BY <1>3, <1>4 DEF Detector!BeginRoot, D!BeginRoot
  <2>2. Detector!BeginClone(t) <=> D!BeginClone(t)
    BY <1>3, <1>4 DEF Detector!BeginClone, D!BeginClone
  <2>3. \A p, stale : Detector!BeginInherit(t, p, stale) <=> D!BeginInherit(t, p, stale)
    BY Zenon, <1>3, <1>4 DEF Detector!BeginInherit, D!BeginInherit
  <2>4. Detector!BeginCrash(t) <=> D!BeginCrash(t)
    BY <1>3 DEF Detector!BeginCrash, D!BeginCrash
  <2> QED BY <2>1, <2>2, <2>3, <2>4 DEF Detector!Begin, D!Begin, Detector!StaleRead,
             D!StaleRead
<1>6. \A id : Detector!Named(id) <=> D!Named(id)
  BY DEF Detector!Named, D!Named
<1>7. \A id, f : Detector!AddFuncName(id, f) <=> D!AddFuncName(id, f)
  BY <1>6 DEF Detector!AddFuncName, D!AddFuncName, Detector!logVars, D!logVars
<1>8. \A a : /\ Detector!ReadLine(a) <=> D!ReadLine(a)
             /\ Detector!NeedsBag(a) <=> D!NeedsBag(a)
  BY DEF Detector!ReadLine, D!ReadLine, Detector!NeedsBag, D!NeedsBag
<1>9. \A a : Detector!NewConflicts(a) = D!NewConflicts(a)
  BY DEF Detector!NewConflicts, D!NewConflicts, Detector!ConflictsWith, D!ConflictsWith,
         Detector!Interferes, D!Interferes, Detector!Recorded, D!Recorded
<1>10. \A w, a : Detector!Remember(w, a) = D!Remember(w, a)
  BY DEF Detector!Remember, D!Remember
<1>11. \A a : Detector!SaveTaskActions(a) <=> D!SaveTaskActions(a)
  BY <1>8, <1>9, <1>10 DEF Detector!SaveTaskActions, D!SaveTaskActions
<1>12. UNCHANGED detectorVars => UNCHANGED D!vars /\ UNCHANGED Detector!vars
  BY DEF detectorVars, D!vars, D!checkerVars, D!logVars,
         Detector!vars, Detector!checkerVars, Detector!logVars
<1>13. \A a : Detector!LineExpected(a) <=> D!LineExpected(a)
  BY <1>6 DEF Detector!LineExpected, D!LineExpected
<1> QED BY <1>1, <1>2, <1>5, <1>6, <1>7, <1>11, <1>12, <1>13

-----------------------------------------------------------------------------
(* What the modules of the two programs assume.                            *)

LEMMA DetectorConstants ==
  /\ 0..(MaxTasks - 1) \subseteq Nat /\ D!IsFiniteSet(0..(MaxTasks - 1))
  /\ CONC_THREASHOLD \in Nat \ {0}
  /\ 0 \in Values
  /\ NULL \notin D!SerialBag /\ NULL \notin 0..(MaxTasks - 1)
<1>1. IsFiniteSet(0..(MaxTasks - 1))
  BY BoundsAssumption, FS_Interval
<1>2. D!IsFiniteSet(0..(MaxTasks - 1))
  BY Zenon, <1>1 DEF IsFiniteSet, D!IsFiniteSet
<1> QED BY <1>2, BoundsAssumption, LintAssumption, NoNullAssumption, DetectorAssumption,
           NullAssumption
        DEF TaskIds, D!SerialBag, Detector!SerialBag

-----------------------------------------------------------------------------
(* The program.                                                            *)

\* A step of the tool is one of the program or leaves its state.
LEMMA ProgramStep == [ToolNext]_toolVars => [Next]_vars
<1> SUFFICES ASSUME [ToolNext]_toolVars
             PROVE  [Next]_vars
  OBVIOUS
<1>1. CASE Run
  BY <1>1 DEF Run
<1>2. CASE Finalize \/ ReadLogs \/ UNCHANGED toolVars
  BY <1>2 DEF Finalize, ReadLogs, ReadEdge, OpenTrace, ReadBlock, ReadName, ReadAccess,
     ReportConflicts, toolVars
<1> QED BY <1>1, <1>2 DEF ToolNext

\* What is proved of the tracer holds of its logs here.
TraceInv == IInv /\ FuncInv /\ NamesAgree /\ LineInv /\ BlockInv /\ PlacesInv

LEMMA TraceInvariance == ToolSpec => []TraceInv
<1>1. Spec => []IInv /\ []FuncInv /\ []NamesAgree /\ []LineInv /\ []BlockInv /\ []PlacesInv
  BY Invariance, NamesInvariance, AgreeInvariance, LineInvariance, BlockInvariance,
     PlacesInvariance
<1>2. ToolInit => Init
  BY DEF ToolInit
<1>3. IInv /\ FuncInv /\ NamesAgree /\ LineInv /\ BlockInv /\ PlacesInv => TraceInv
  BY DEF TraceInv
<1> QED BY <1>1, <1>2, <1>3, ProgramStep, PTL DEF ToolSpec, Spec

-----------------------------------------------------------------------------
(* The checker.                                                            *)

\* What the F lines that have been read say.
NamesRead == {<<logger[j].id, logger[j].func>> : j \in {k \in 1..position : logger[k].kind = "F"}}

\* How far the checker has come in the logs, and what it knows from there.
ReaderInv ==
  /\ position \in Nat /\ position <= Len(logger)
  /\ ~traced => hbLeft = {} /\ phase = "hblog"
  /\ phase = "hblog" => position = 0 /\ linesLeft = {}
  /\ phase = "trace" => hbLeft = {}
  /\ hbLeft \subseteq HBloggerBuffer
  /\ functions = NamesRead
  /\ linesLeft # {} => /\ position # 0 /\ logger[position].kind = "block"
                       /\ linesLeft \subseteq logger[position].lines

\* The graph is made of the edges that have been read.
EdgesRead ==
  \A t, p \in TaskIds :
    t \in outEdges[p] <=> traced /\ <<t, p>> \in HBloggerBuffer /\ <<t, p>> \notin hbLeft

\* The access a was made, if per is what the tasks performed, by the function that has
\* its id among names.
Known(per, names, a) ==
  \E k \in DOMAIN per[a.taskId], f \in Funcs :
    /\ Tells(a, per[a.taskId][k]) /\ per[a.taskId][k].func = f
    /\ <<a.funcId, f>> \in names

\* Every access that is kept or reported was made and has a function with a name.
KnownInv ==
  /\ \A x \in Addrs : \A i \in DOMAIN writes[x] : Known(performed, functions, writes[x][i])
  /\ \A c \in conflictTable :
       /\ Known(performed, functions, c.action1) /\ Known(performed, functions, c.action2)
       /\ c.action1.addr = c.action2.addr
       /\ D!Interferes(c.action1, c.action2)

CheckInv == D!IInv /\ D!ReportInv

\* The checker is at the block the reader is at: its tasks are those whose blocks have
\* been opened, and the lines that are left are lines it expects.  In the default build
\* the log stays ordered.
PlaceInv ==
  /\ begun = {logger[k].task : k \in {j \in 1..position : logger[j].kind = "block"}}
  /\ linesLeft # {} => block = logger[position].task /\ \A l \in linesLeft : l.addr \in fresh
  /\ Scheduler = "taskPerThread" => ordered

ToolInv == TraceInv /\ CheckInv /\ ReaderInv /\ EdgesRead /\ KnownInv /\ PlaceInv

\* The task of the line l made its access in function f.
DidBy(l, f) ==
  \E k \in DOMAIN performed[l.taskId] :
    Tells(l, performed[l.taskId][k]) /\ performed[l.taskId][k].func = f

\* What the tracer writes is what the checker can read.
LEMMA LogShape ==
  ASSUME TraceInv
  PROVE  /\ Len(logger) \in Nat
         /\ HBloggerBuffer \subseteq TaskIds \X TaskIds
         /\ \A i \in 1..Len(logger) :
              \/ logger[i].kind = "block" /\ logger[i].task \in TaskIds
              \/ logger[i].kind = "F" /\ logger[i].id \in Nat \ {0} /\ logger[i].func \in Funcs
         /\ \A i \in 1..Len(logger) : logger[i].kind = "block" =>
              \A l \in logger[i].lines :
                /\ l \in D!Action
                /\ \E j \in 1..(i - 1) :
                     /\ logger[j].kind = "F" /\ logger[j].id = l.funcId
                     /\ DidBy(l, logger[j].func)
                /\ Scheduler = "taskPerThread" => l.taskId = logger[i].task
         /\ \A i, j \in 1..Len(logger) :
              logger[i].kind = "F" /\ logger[j].kind = "F" /\ logger[i].id = logger[j].id
                => i = j
<1>1. TypeOK /\ FuncsNamedFirst /\ LineInv /\ NamesAgree
  BY DEF TraceInv, IInv, FuncInv
<1>2. /\ logger \in Seq(Block \union FLine) /\ Len(logger) \in Nat
      /\ DOMAIN logger = 1..Len(logger)
      /\ HBloggerBuffer \subseteq TaskIds \X TaskIds
  BY <1>1 DEF TypeOK
<1>3. \A i \in 1..Len(logger) : logger[i] \in Block \/ logger[i] \in FLine
  BY <1>2
<1>4. \A i \in 1..Len(logger) :
        \/ logger[i].kind = "block" /\ logger[i].task \in TaskIds
        \/ logger[i].kind = "F" /\ logger[i].id \in Nat \ {0} /\ logger[i].func \in Funcs
  BY <1>2, <1>3 DEF Block, FLine
<1>5. ASSUME NEW i \in 1..Len(logger), logger[i].kind = "block", NEW l \in logger[i].lines
      PROVE  /\ l \in D!Action
             /\ \E j \in 1..(i - 1) : /\ logger[j].kind = "F" /\ logger[j].id = l.funcId
                                      /\ DidBy(l, logger[j].func)
             /\ Scheduler = "taskPerThread" => l.taskId = logger[i].task
  <2>1. PICK j \in 1..(i - 1) : logger[j].kind = "F" /\ logger[j].id = l.funcId
    BY <1>1, <1>2, <1>5 DEF FuncsNamedFirst
  <2>2. j \in 1..Len(logger) /\ l.funcId # 0 /\ logger[j].func \in Funcs
    BY <1>2, <1>4, <2>1
  <2>3. l \in Line
    BY <1>3, <1>5 DEF Block, FLine
  <2>4. Truthful(l, performed, funcNames)
    BY <1>1, <1>2, <1>5 DEF LineInv
  <2>5. ~l.isWrite => l.value = 0
    BY <2>4 DEF Truthful
  <2>6. l \in [taskId : 0..(MaxTasks - 1), addr : Addrs, value : Values,
               funcId : Nat \ {0}, isWrite : BOOLEAN]
    BY <2>2, <2>3 DEF Line, TaskIds
  <2>7. PICK f \in Funcs : DidBy(l, f) /\ funcNames[f] = l.funcId
    BY <2>4 DEF Truthful, Made, DidBy
  <2>8. logger[j].func = f
    BY <1>1, <1>2, <2>1, <2>2, <2>7 DEF NamesAgree
  <2>9. Scheduler = "taskPerThread" => l.taskId = logger[i].task
    BY <1>2, <1>5 DEF TraceInv, BlockInv, BlocksFaithful, Summary
  <2> QED BY <2>1, <2>5, <2>6, <2>7, <2>8, <2>9 DEF D!Action
<1>6. \A i, j \in 1..Len(logger) :
        logger[i].kind = "F" /\ logger[j].kind = "F" /\ logger[i].id = logger[j].id => i = j
  BY <1>1, <1>2 DEF FuncsNamedFirst
<1> QED BY <1>2, <1>4, <1>5, <1>6

\* Ids that have been read have a name; names stay.
LEMMA Naming ==
  ASSUME TraceInv, ReaderInv
  PROVE  \A id : D!Named(id) <=> \E j \in 1..position : logger[j].kind = "F" /\ logger[j].id = id
<1>1. \A j \in 1..position : logger[j].kind = "F" => logger[j].func \in Funcs
  BY LogShape DEF ReaderInv
<1> QED BY <1>1 DEF D!Named, ReaderInv, NamesRead

\* What is known stays known while the tables stay and names are only added.
LEMMA KnownKept ==
  ASSUME KnownInv, UNCHANGED <<performed, writes, conflictTable>>,
         functions \subseteq functions'
  PROVE  KnownInv'
<1>1. \A a : Known(performed, functions, a) => Known(performed', functions', a)
  BY DEF Known
<1> QED BY <1>1 DEF KnownInv, D!Interferes

LEMMA RunKeeps ==
  ASSUME ToolInv, TraceInv', Run
  PROVE  UNCHANGED D!vars /\ ReaderInv' /\ EdgesRead' /\ KnownInv' /\ PlaceInv'
<1>1. ~traced /\ UNCHANGED <<detectorVars, traced, hbLeft, position, linesLeft>>
  BY DEF Run, readerVars
<1>2. /\ UNCHANGED D!vars
      /\ UNCHANGED <<outEdges, writes, conflictTable, functions, phase, begun, ordered>>
  BY <1>1, SameDetector DEF detectorVars
<1>3. position = 0 /\ linesLeft = {} /\ hbLeft = {} /\ phase = "hblog"
  BY <1>1 DEF ToolInv, ReaderInv
<1>4. NamesRead = {} /\ NamesRead' = {}
  BY <1>1, <1>3 DEF NamesRead
<1>5. Len(logger') \in Nat
  BY LogShape
<1>6. ReaderInv'
  BY <1>1, <1>2, <1>3, <1>4, <1>5 DEF ToolInv, ReaderInv
<1>7. EdgesRead'
  BY <1>1, <1>2 DEF ToolInv, EdgesRead
<1>8. conflictTable' = {} /\ \A x \in Addrs : writes'[x] = <<>>
  BY <1>2, <1>3 DEF ToolInv, CheckInv, D!ReportInv, D!WindowInv
<1>9. KnownInv'
  BY <1>8 DEF KnownInv
<1>10. PlaceInv'
  BY <1>1, <1>2, <1>3 DEF ToolInv, PlaceInv
<1> QED BY <1>2, <1>6, <1>7, <1>9, <1>10

LEMMA FinalizeKeeps ==
  ASSUME ToolInv, Finalize
  PROVE  UNCHANGED D!vars /\ ReaderInv' /\ EdgesRead' /\ KnownInv' /\ PlaceInv'
<1>1. /\ ~traced /\ traced' = TRUE /\ hbLeft' = HBloggerBuffer
      /\ UNCHANGED <<detectorVars, performed, HBloggerBuffer, logger, position, linesLeft>>
  BY DEF Finalize, vars, tracerVars, funcVars, historyVars
<1>2. /\ UNCHANGED D!vars
      /\ UNCHANGED <<outEdges, writes, conflictTable, functions, phase, begun, block, fresh,
                     ordered>>
  BY <1>1, SameDetector DEF detectorVars
<1>3. phase = "hblog" /\ NamesRead' = NamesRead
  BY <1>1 DEF ToolInv, ReaderInv, NamesRead
<1>4. ReaderInv'
  BY <1>1, <1>2, <1>3 DEF ToolInv, ReaderInv
<1>5. EdgesRead' /\ KnownInv'
  BY <1>1, <1>2 DEF ToolInv, EdgesRead, KnownInv, D!Named, ReportedAccessesMade, Did
<1>6. PlaceInv'
  BY <1>1, <1>2 DEF ToolInv, PlaceInv
<1> QED BY <1>2, <1>4, <1>5, <1>6

LEMMA ReadEdgeKeeps ==
  ASSUME ToolInv, ReadEdge
  PROVE  /\ D!AnyEdge /\ (ParentsOlder => D!Next)
         /\ ReaderInv' /\ EdgesRead' /\ KnownInv' /\ PlaceInv'
<1>0. TraceInv /\ ReaderInv /\ EdgesRead /\ KnownInv /\ PlaceInv /\ D!TypeOK
  BY DEF ToolInv, CheckInv, D!IInv
<1>1. PICK e \in hbLeft :
        /\ D!AddTaskNode(e[1], e[2]) /\ hbLeft' = hbLeft \ {e}
        /\ UNCHANGED <<performed, HBloggerBuffer, logger, traced, position, linesLeft>>
  BY SameDetector DEF ReadEdge, vars, tracerVars, funcVars, historyVars
<1>2. e[1] \in TaskIds /\ e[2] \in TaskIds /\ e = <<e[1], e[2]>> /\ e \in HBloggerBuffer
  BY <1>0, <1>1, LogShape DEF ReaderInv
<1>3. /\ phase = "hblog" /\ outEdges' = [outEdges EXCEPT ![e[2]] = @ \union {e[1]}]
      /\ UNCHANGED <<writes, conflictTable, functions, phase, begun, block, fresh, ordered>>
  BY <1>1 DEF D!AddTaskNode, D!logVars
<1>4. D!AnyEdge /\ (ParentsOlder => D!Next)
  <2>1. e[1] # e[2] /\ (ParentsOlder => e[2] < e[1])
    BY <1>0, <1>2 DEF TraceInv, IInv, EdgeInv, ParentsOlder
  <2> QED BY <1>1, <1>2, <2>1 DEF D!Next, D!AnyEdge, TaskIds
<1>5. ReaderInv'
  BY <1>0, <1>1, <1>3 DEF ReaderInv, NamesRead
<1>6. EdgesRead'
  <2>1. traced
    BY <1>0, <1>1 DEF ReaderInv
  <2>2. \A p \in TaskIds : outEdges'[p] = IF p = e[2] THEN outEdges[p] \union {e[1]}
                                         ELSE outEdges[p]
    BY <1>0, <1>2, <1>3 DEF D!TypeOK, TaskIds
  <2> SUFFICES ASSUME NEW t \in TaskIds, NEW p \in TaskIds
               PROVE  (t \in outEdges[p] <=> traced /\ <<t, p>> \in HBloggerBuffer /\ <<t, p>> \notin hbLeft)'
    BY DEF EdgesRead
  <2>3. <<t, p>> = e <=> t = e[1] /\ p = e[2]
    BY <1>2
  <2>4. t \in outEdges'[p] <=> t \in outEdges[p] \/ <<t, p>> = e
    BY <2>2, <2>3
  <2>5. t \in outEdges[p] <=> <<t, p>> \in HBloggerBuffer /\ <<t, p>> \notin hbLeft
    BY <1>0, <2>1 DEF EdgesRead
  <2> QED BY <1>1, <1>2, <2>1, <2>4, <2>5
<1>7. KnownInv'
  BY <1>0, <1>1, <1>3, KnownKept
<1>8. PlaceInv'
  BY <1>0, <1>1, <1>3 DEF PlaceInv
<1> QED BY <1>4, <1>5, <1>6, <1>7, <1>8

LEMMA OpenTraceKeeps ==
  ASSUME ToolInv, OpenTrace
  PROVE  D!Next /\ ReaderInv' /\ EdgesRead' /\ KnownInv' /\ PlaceInv'
<1>0. ReaderInv /\ EdgesRead /\ KnownInv /\ PlaceInv
  BY DEF ToolInv
<1>1. /\ D!EndOfHBLog /\ traced /\ hbLeft = {}
      /\ UNCHANGED <<performed, HBloggerBuffer, logger, traced, hbLeft, position, linesLeft>>
  BY SameDetector DEF OpenTrace, vars, tracerVars, funcVars, historyVars, readerVars
<1>2. /\ phase' = "trace"
      /\ UNCHANGED <<outEdges, writes, conflictTable, functions, begun, block, fresh, ordered>>
  BY <1>1 DEF D!EndOfHBLog, D!checkerVars
<1>3. ReaderInv'
  BY <1>0, <1>1, <1>2 DEF ReaderInv, NamesRead
<1>4. EdgesRead' /\ KnownInv'
  <2>1. EdgesRead'
    BY <1>0, <1>1, <1>2 DEF EdgesRead
  <2>2. KnownInv'
    BY <1>0, <1>1, <1>2, KnownKept
  <2> QED BY <2>1, <2>2
<1>5. PlaceInv'
  BY <1>0, <1>1, <1>2 DEF PlaceInv
<1> QED BY <1>1, <1>3, <1>4, <1>5 DEF D!Next

LEMMA ReadBlockKeeps ==
  ASSUME ToolInv, ReadBlock
  PROVE  D!Next /\ ReaderInv' /\ EdgesRead' /\ KnownInv' /\ PlaceInv'
<1>0. /\ TraceInv /\ ReaderInv /\ EdgesRead /\ KnownInv /\ PlaceInv
      /\ D!TypeOK /\ D!GraphInv
  BY DEF ToolInv, CheckInv, D!IInv
<1> DEFINE i == position + 1
<1>1. /\ phase = "trace" /\ position < Len(logger) /\ logger[i].kind = "block"
      /\ D!Begin(logger[i].task) /\ position' = i /\ linesLeft' = logger[i].lines
      /\ UNCHANGED <<performed, HBloggerBuffer, logger, traced, hbLeft>>
  BY SameDetector DEF ReadBlock, vars, tracerVars, funcVars, historyVars
<1>2. i \in 1..Len(logger) /\ logger[i].task \in TaskIds
  BY <1>0, <1>1, LogShape DEF ReaderInv
<1> DEFINE t == logger[i].task
<1>3. /\ UNCHANGED <<outEdges, writes, conflictTable, functions, phase>>
      /\ D!OpenBlock(t)
  BY <1>1 DEF D!Begin, D!BeginRoot, D!BeginClone, D!BeginInherit, D!BeginCrash, D!OpenBlock
<1>a. t \notin begun
  <2>1. \A j \in DOMAIN logger : logger[j].kind = "block" /\ logger[j].task = t => j = i
    BY <1>0, <1>1, <1>2, TraceShape DEF TraceInv, IInv, PlacesInv, OneBlock
  <2>2. \A j \in 1..position : j \in DOMAIN logger /\ j # i
    BY <1>0, <1>1, TraceShape DEF ReaderInv, TraceInv, IInv
  <2> QED BY <1>0, <2>1, <2>2 DEF PlaceInv
<1>4. D!Next
  BY <1>1, <1>2, <1>a DEF D!Next, TaskIds
<1>5. NamesRead' = NamesRead
  <2>1. \A k \in Nat : k \in 1..i /\ logger[k].kind = "F" <=> k \in 1..position /\ logger[k].kind = "F"
    BY <1>0, <1>1 DEF ReaderInv
  <2>2. {k \in 1..i : logger[k].kind = "F"} = {k \in 1..position : logger[k].kind = "F"}
    BY <2>1
  <2> QED BY <1>1, <2>2 DEF NamesRead
<1>6. ReaderInv'
  BY <1>0, <1>1, <1>2, <1>3, <1>5 DEF ReaderInv
<1>7. EdgesRead' /\ KnownInv'
  <2>1. EdgesRead'
    BY <1>0, <1>1, <1>3 DEF EdgesRead
  <2>2. KnownInv'
    BY <1>0, <1>1, <1>3, KnownKept
  <2> QED BY <2>1, <2>2
<1>8. PlaceInv'
  <2>1. begun' = begun \union {t} /\ block' = t /\ fresh' = Addrs
        /\ ordered' = (ordered /\ inEdges[t] \subseteq begun)
    BY <1>3 DEF D!OpenBlock
  <2>2. {k \in 1..i : logger[k].kind = "block"}
          = {k \in 1..position : logger[k].kind = "block"} \union {i}
    <3>1. \A k : k \in 1..i <=> k \in 1..position \/ k = i
      BY <1>0 DEF ReaderInv
    <3> QED BY <1>1, <3>1
  <2>3. begun' = {logger[k].task : k \in {k \in 1..i : logger[k].kind = "block"}}
    BY <1>0, <2>1, <2>2 DEF PlaceInv
  <2>4. \A l \in logger[i].lines : l.addr \in Addrs
    BY <1>0, <1>1, <1>2, LogShape DEF D!Action
  <2>5. ASSUME Scheduler = "taskPerThread", NEW p \in inEdges[t]
        PROVE  p \in begun
    <3>1. p \in TaskIds /\ t \in outEdges[p]
      BY <1>0, <1>2, <1>a, <2>5 DEF D!GraphInv, D!TypeOK, D!Parents, TaskIds
    <3>2. <<t, p>> \in HBloggerBuffer
      BY <1>0, <1>2, <3>1 DEF EdgesRead
    <3>3. ParentsLoggedFirst /\ DOMAIN logger = 1..Len(logger)
      BY <1>0, <2>5, TraceShape DEF TraceInv, IInv, SerialInv
    <3>4. i \in BlockOf(t)
      BY <1>1, <1>2, <3>3 DEF BlockOf
    <3>5. PICK j \in BlockOf(p) : j < i
      <4>1. PICK e \in HBloggerBuffer : e = <<t, p>>
        BY <3>2
      <4>2. e[1] = t /\ e[2] = p
        BY <4>1
      <4> HIDE DEF t, i
      <4> QED BY <3>3, <3>4, <4>2 DEF ParentsLoggedFirst
    <3>6. j \in 1..position /\ logger[j].kind = "block" /\ logger[j].task = p
      BY <1>0, <3>3, <3>5 DEF BlockOf, ReaderInv
    <3> QED BY <1>0, <3>6 DEF PlaceInv
  <2>6. Scheduler = "taskPerThread" => ordered'
    BY <1>0, <2>1, <2>5 DEF PlaceInv
  <2> QED BY <1>1, <2>1, <2>3, <2>4, <2>6 DEF PlaceInv
<1> QED BY <1>4, <1>6, <1>7, <1>8

LEMMA ReadNameKeeps ==
  ASSUME ToolInv, ReadName
  PROVE  D!Next /\ ReaderInv' /\ EdgesRead' /\ KnownInv' /\ PlaceInv'
<1>0. TraceInv /\ ReaderInv /\ EdgesRead /\ KnownInv /\ PlaceInv
  BY DEF ToolInv
<1> DEFINE i == position + 1
<1>1. /\ phase = "trace" /\ linesLeft = {} /\ position < Len(logger) /\ logger[i].kind = "F"
      /\ D!AddFuncName(logger[i].id, logger[i].func) /\ position' = i
      /\ UNCHANGED <<performed, HBloggerBuffer, logger, traced, hbLeft, linesLeft>>
  BY SameDetector DEF ReadName, vars, tracerVars, funcVars, historyVars
<1>2. i \in 1..Len(logger) /\ logger[i].id \in Nat \ {0} /\ logger[i].func \in Funcs
  BY <1>0, <1>1, LogShape DEF ReaderInv
<1>3. ~D!Named(logger[i].id)
  <2>1. \A j \in 1..position : logger[j].kind = "F" /\ logger[j].id = logger[i].id => j = i
    BY <1>0, <1>1, <1>2, LogShape DEF ReaderInv
  <2> QED BY <1>0, <2>1, Naming DEF ReaderInv
<1>4. /\ functions' = functions \union {<<logger[i].id, logger[i].func>>}
      /\ UNCHANGED <<outEdges, writes, conflictTable, phase, begun, ordered>>
  BY <1>1, <1>3 DEF D!AddFuncName, D!logVars
<1>5. D!Next
  BY <1>1, <1>2, <1>3 DEF D!Next
<1>6. NamesRead' = NamesRead \union {<<logger[i].id, logger[i].func>>}
  <2>1. \A k \in Nat : k \in 1..i /\ logger[k].kind = "F"
                         <=> (k \in 1..position /\ logger[k].kind = "F") \/ k = i
    BY <1>0, <1>1 DEF ReaderInv
  <2>2. {k \in 1..i : logger[k].kind = "F"} = {k \in 1..position : logger[k].kind = "F"} \union {i}
    BY <2>1, <1>2
  <2> QED BY <1>1, <2>2 DEF NamesRead
<1>7. ReaderInv'
  BY <1>0, <1>1, <1>2, <1>4, <1>6 DEF ReaderInv
<1>8. EdgesRead' /\ KnownInv'
  <2>1. EdgesRead'
    BY <1>0, <1>1, <1>4 DEF EdgesRead
  <2>2. KnownInv'
    BY <1>0, <1>1, <1>4, KnownKept
  <2> QED BY <2>1, <2>2
<1>9. PlaceInv'
  <2>1. {k \in 1..i : logger[k].kind = "block"} = {k \in 1..position : logger[k].kind = "block"}
    <3>1. \A k : k \in 1..i <=> k \in 1..position \/ k = i
      BY <1>0 DEF ReaderInv
    <3> QED BY <1>1, <3>1
  <2> QED BY <1>0, <1>1, <1>4, <2>1 DEF PlaceInv
<1> QED BY <1>5, <1>7, <1>8, <1>9

\* A line that is left to be read is one the checker expects.
LEMMA LineIsExpected ==
  ASSUME ToolInv, NEW a \in linesLeft
  PROVE  /\ position \in 1..Len(logger) /\ logger[position].kind = "block"
         /\ a \in logger[position].lines
         /\ a \in D!Action /\ D!LineExpected(a) /\ Known(performed, functions, a)
<1>0. TraceInv /\ ReaderInv /\ PlaceInv
  BY DEF ToolInv
<1>1. position \in 1..Len(logger) /\ logger[position].kind = "block"
      /\ a \in logger[position].lines
  BY <1>0, LogShape DEF ReaderInv
<1>2. a \in D!Action /\ D!Named(a.funcId) /\ Known(performed, functions, a)
  <2>1. PICK j \in 1..(position - 1) : /\ logger[j].kind = "F" /\ logger[j].id = a.funcId
                                       /\ DidBy(a, logger[j].func)
    BY <1>0, <1>1, LogShape
  <2>2. j \in 1..position /\ j \in 1..Len(logger)
    BY <1>1
  <2>3. D!Named(a.funcId)
    BY <1>0, <2>1, <2>2, Naming
  <2>4. a \in D!Action /\ logger[j].func \in Funcs
    BY <1>0, <1>1, <2>1, <2>2, LogShape
  <2>5. <<a.funcId, logger[j].func>> \in functions
    BY <1>0, <2>1, <2>2 DEF ReaderInv, NamesRead
  <2> QED BY <2>1, <2>3, <2>4, <2>5 DEF DidBy, Known
<1>3. DOMAIN logger = 1..Len(logger) /\ Len(logger) \in Nat
  BY <1>0, TraceShape DEF TraceInv, IInv
<1>4. PICK j \in DOMAIN logger : /\ j <= position /\ logger[j].kind = "block"
                                 /\ logger[j].task = a.taskId
  BY <1>0, <1>1, <1>3 DEF TraceInv, PlacesInv, PrintedInv
<1>5. j \in 1..position
  BY <1>0, <1>3, <1>4 DEF ReaderInv
<1>6. a.taskId \in begun
  BY <1>0, <1>4, <1>5 DEF PlaceInv
<1> QED BY <1>0, <1>1, <1>2, <1>6 DEF D!LineExpected, PlaceInv

LEMMA ReadAccessKeeps ==
  ASSUME ToolInv, ReadAccess
  PROVE  D!Next /\ ReaderInv' /\ EdgesRead' /\ KnownInv' /\ PlaceInv'
<1>0. TraceInv /\ ReaderInv /\ EdgesRead /\ KnownInv /\ PlaceInv /\ D!TypeOK
  BY DEF ToolInv, CheckInv, D!IInv
<1>1. PICK a \in linesLeft :
        /\ D!SaveTaskActions(a) /\ linesLeft' = linesLeft \ {a}
        /\ UNCHANGED <<performed, HBloggerBuffer, logger, traced, hbLeft, position>>
  BY SameDetector DEF ReadAccess, vars, tracerVars, funcVars, historyVars
<1>2. position \in 1..Len(logger) /\ logger[position].kind = "block"
      /\ a \in logger[position].lines
  BY LineIsExpected
<1>3. a \in D!Action /\ D!LineExpected(a) /\ Known(performed, functions, a)
  BY LineIsExpected
<1>4. D!Next
  BY <1>1, <1>3 DEF D!Next
<1>b. /\ \A l \in linesLeft : l \in logger[position].lines
      /\ \A l, m \in logger[position].lines : l.addr = m.addr => l = m
  BY <1>0, <1>1, <1>2, TraceShape DEF TraceInv, IInv, PlacesInv, PrintedInv, ReaderInv
<1>5. /\ UNCHANGED <<outEdges, functions, phase, begun, block>>
      /\ fresh' = fresh \ {a.addr} /\ ordered' = (ordered /\ a.taskId = block)
  BY <1>1 DEF D!SaveTaskActions, D!ReadLine
<1>d. PlaceInv'
  <2>1. \A l \in linesLeft' : l.addr \in fresh'
    BY <1>0, <1>1, <1>5, <1>b DEF PlaceInv
  <2>2. Scheduler = "taskPerThread" => a.taskId = block
    BY <1>0, <1>1, <1>2, LogShape DEF PlaceInv
  <2>3. Scheduler = "taskPerThread" => ordered'
    BY <1>0, <1>5, <2>2 DEF PlaceInv
  <2>4. linesLeft' # {} => linesLeft # {}
    BY <1>1
  <2> QED BY <1>0, <1>1, <1>5, <2>1, <2>3, <2>4 DEF PlaceInv
<1>6. ReaderInv' /\ EdgesRead'
  BY <1>0, <1>1, <1>5 DEF ReaderInv, NamesRead, EdgesRead
<1>7. KnownInv'
  <2>1. CASE UNCHANGED <<conflictTable, writes>>
    BY <1>0, <1>1, <1>5, <2>1, KnownKept
  <2>2. CASE /\ conflictTable' = conflictTable \union D!NewConflicts(a)
             /\ writes' = [writes EXCEPT ![a.addr] = D!Remember(@, a)]
    <3> DEFINE Ok(l) == Known(performed, functions, l)
    <3>1. a.addr \in Addrs /\ writes[a.addr] \in Seq(D!Action)
      BY <1>0, <1>3 DEF D!Action, D!TypeOK
    <3>2. \A k \in DOMAIN writes[a.addr] : Ok(writes[a.addr][k])
      BY <1>0, <3>1 DEF KnownInv
    <3>3. \A k \in DOMAIN D!Remember(writes[a.addr], a) : Ok(D!Remember(writes[a.addr], a)[k])
      <4>1. \A k \in DOMAIN D!Remember(writes[a.addr], a) :
              \/ D!Remember(writes[a.addr], a)[k] = a
              \/ \E j \in DOMAIN writes[a.addr] :
                   D!Remember(writes[a.addr], a)[k] = writes[a.addr][j]
        BY <1>3, <3>1, D!RememberRange, DetectorConstants
      <4> QED BY <1>3, <3>2, <4>1
    <3>4. \A x \in Addrs : writes'[x] = IF x = a.addr THEN D!Remember(writes[x], a) ELSE writes[x]
      BY <1>0, <2>2, <3>1 DEF D!TypeOK
    <3>5. \A x \in Addrs : \A k \in DOMAIN writes'[x] : Ok(writes'[x][k])
      BY <1>0, <3>3, <3>4 DEF KnownInv
    <3>6. ASSUME NEW c \in D!NewConflicts(a)
          PROVE  /\ Ok(c.action1) /\ Ok(c.action2)
                 /\ c.action1.addr = c.action2.addr
                 /\ D!Interferes(c.action1, c.action2)
      <4>1. PICK k \in DOMAIN writes[a.addr] :
              /\ c = [action1 |-> a, action2 |-> writes[a.addr][k]]
              /\ D!ConflictsWith(a, writes[a.addr][k])
        BY DEF D!NewConflicts
      <4>2. writes[a.addr][k].addr = a.addr
        BY <3>1, <4>1 DEF ToolInv, CheckInv, D!ReportInv, D!WindowInv
      <4>3. D!Interferes(a, writes[a.addr][k])
        BY <4>1 DEF D!ConflictsWith
      <4> QED BY <1>3, <3>2, <4>1, <4>2, <4>3
    <3>7. \A c \in conflictTable' :
            /\ Ok(c.action1) /\ Ok(c.action2)
            /\ c.action1.addr = c.action2.addr
            /\ D!Interferes(c.action1, c.action2)
      BY <1>0, <2>2, <3>6 DEF KnownInv
    <3> QED BY <1>1, <1>5, <3>5, <3>7 DEF KnownInv
  <2> QED BY <1>1, <2>1, <2>2 DEF D!SaveTaskActions
<1> QED BY <1>4, <1>6, <1>7, <1>d

\* Every name that is asked for is there.
LEMMA ReportKeeps ==
  ASSUME ToolInv, ReportConflicts
  PROVE  UNCHANGED D!vars /\ ReaderInv' /\ EdgesRead' /\ KnownInv' /\ PlaceInv'
<1>0. TraceInv /\ ReaderInv /\ EdgesRead /\ KnownInv /\ PlaceInv
  BY DEF ToolInv
<1>1. UNCHANGED <<performed, HBloggerBuffer, logger, traced, hbLeft, position, linesLeft>>
  BY DEF ReportConflicts, vars, tracerVars, funcVars, historyVars
<1>2. \A c \in conflictTable : Detector!Named(c.action1.funcId) /\ Detector!Named(c.action2.funcId)
  BY <1>0 DEF KnownInv, Known, Detector!Named
<1>3. UNCHANGED detectorVars
  BY <1>2 DEF ReportConflicts
<1>4. /\ UNCHANGED D!vars
      /\ UNCHANGED <<outEdges, writes, conflictTable, functions, phase, begun, block, fresh,
                     ordered>>
  BY <1>3, SameDetector DEF detectorVars
<1>5. ReaderInv' /\ PlaceInv'
  BY <1>0, <1>1, <1>4 DEF ReaderInv, NamesRead, PlaceInv
<1>6. EdgesRead' /\ KnownInv'
  <2>1. EdgesRead'
    BY <1>0, <1>1, <1>4 DEF EdgesRead
  <2>2. KnownInv'
    BY <1>0, <1>1, <1>4, KnownKept
  <2> QED BY <2>1, <2>2
<1> QED BY <1>4, <1>5, <1>6

LEMMA ToolStep ==
  ASSUME ToolInv, TraceInv', [ToolNext]_toolVars
  PROVE  /\ ToolInv' /\ [D!Next \/ D!AnyEdge]_(D!vars)
         /\ ParentsOlder => [D!Next]_(D!vars)
<1>1. /\ [D!Next \/ D!AnyEdge]_(D!vars)
      /\ ParentsOlder => [D!Next]_(D!vars)
      /\ ReaderInv' /\ EdgesRead' /\ KnownInv' /\ PlaceInv'
  <2>1. CASE Run \/ Finalize
    BY <2>1, RunKeeps, FinalizeKeeps
  <2>2. CASE ReadLogs
    BY <2>2, ReadEdgeKeeps, OpenTraceKeeps, ReadBlockKeeps, ReadNameKeeps, ReadAccessKeeps,
       ReportKeeps DEF ReadLogs
  <2>3. CASE UNCHANGED toolVars
    <3>1. /\ UNCHANGED <<performed, HBloggerBuffer, logger, traced, hbLeft, position, linesLeft>>
          /\ UNCHANGED <<outEdges, writes, conflictTable, functions, phase, begun, block, fresh,
                         ordered>>
          /\ UNCHANGED D!vars
      BY <2>3, SameDetector DEF toolVars, vars, tracerVars, funcVars, historyVars,
         readerVars, detectorVars
    <3>2. ReaderInv'
      BY <3>1 DEF ToolInv, ReaderInv, NamesRead
    <3>3. EdgesRead'
      BY <3>1 DEF ToolInv, EdgesRead
    <3>4. KnownInv'
      BY <3>1, KnownKept DEF ToolInv
    <3>5. PlaceInv'
      BY <3>1 DEF ToolInv, PlaceInv
    <3> QED BY <3>1, <3>2, <3>3, <3>4, <3>5
  <2> QED BY <2>1, <2>2, <2>3 DEF ToolNext
<1>2. CheckInv'
  BY <1>1, D!NextIInv, D!NextReportInv, DetectorConstants DEF ToolInv, CheckInv
<1> QED BY <1>1, <1>2 DEF ToolInv

LEMMA SameChecker ==
  ASSUME [D!Next]_(D!vars)
  PROVE  [Detector!Next]_(Detector!vars)
<1>1. Detector!Action = D!Action
  BY DEF Detector!Action, D!Action
<1>2. ASSUME NEW sib \in TaskIds, NEW par \in TaskIds, D!AddTaskNode(sib, par)
      PROVE  Detector!AddTaskNode(sib, par)
  <2>1. PICK e : e = <<sib, par>>
    OBVIOUS
  <2>2. Detector!AddTaskNode(e[1], e[2]) <=> D!AddTaskNode(e[1], e[2])
    BY SameDetector
  <2> QED BY <1>2, <2>1, <2>2
<1>3. D!Next => Detector!Next
  BY <1>1, <1>2, SameDetector DEF D!Next, Detector!Next, TaskIds
<1>4. UNCHANGED D!vars => UNCHANGED Detector!vars
  BY DEF D!vars, D!checkerVars, D!logVars, Detector!vars, Detector!checkerVars, Detector!logVars
<1> QED BY <1>3, <1>4

LEMMA ToolBegins == ToolInit /\ TraceInv => ToolInv
<1> SUFFICES ASSUME ToolInit, TraceInv PROVE ToolInv
  OBVIOUS
<1>1. /\ D!Init /\ ~traced /\ hbLeft = {} /\ position = 0 /\ linesLeft = {}
  BY SameDetector DEF ToolInit
<1>2. /\ outEdges = [t \in TaskIds |-> {}] /\ writes = [x \in Addrs |-> <<>>]
      /\ conflictTable = {} /\ functions = {} /\ phase = "hblog"
  BY <1>1 DEF D!Init, TaskIds
<1>3. D!IInv
  BY <1>1, D!InitIInv, DetectorConstants
<1>4. D!ReportInv
  BY <1>2 DEF D!ReportInv, D!WindowInv, D!RacesInWindowReported, D!ReportsExplained
<1>5. ReaderInv
  <2>1. NamesRead = {}
    BY <1>1 DEF NamesRead
  <2> QED BY <1>1, <1>2, <2>1, LogShape DEF ReaderInv
<1>6. EdgesRead /\ KnownInv
  BY <1>1, <1>2 DEF EdgesRead, KnownInv
<1>7. PlaceInv
  BY <1>1 DEF PlaceInv, D!Init
<1> QED BY <1>3, <1>4, <1>5, <1>6, <1>7 DEF ToolInv, CheckInv

LEMMA ToolInvariance == ToolSpec => []ToolInv
BY ToolBegins, ToolStep, TraceInvariance, PTL DEF ToolSpec

-----------------------------------------------------------------------------
(* Order by edges and order by tokens.                                     *)

LEMMA SameAncestors ==
  ASSUME NEW edges, NEW t
  PROVE  D!Ancestors(edges, t) = Ancestors(edges, t)
BY DEF D!Ancestors, Ancestors, D!Parents, Parents, D!ParentClosed, ParentClosed

\* What the graph of the checker says when the trace is read.
LEMMA GraphRead ==
  ASSUME ToolInv, phase = "trace"
  PROVE  /\ outEdges \in [TaskIds -> SUBSET TaskIds]
         /\ \A p \in TaskIds : outEdges[p] = {t \in TaskIds : <<t, p>> \in HBloggerBuffer}
<1>0. TraceInv /\ ReaderInv /\ EdgesRead /\ D!TypeOK
  BY DEF ToolInv, CheckInv, D!IInv
<1>1. traced /\ hbLeft = {}
  BY <1>0 DEF ReaderInv
<1>2. outEdges \in [TaskIds -> SUBSET TaskIds]
  BY <1>0 DEF D!TypeOK, TaskIds
<1>3. \A t, p \in TaskIds : t \in outEdges[p] <=> <<t, p>> \in HBloggerBuffer
  BY <1>0, <1>1 DEF EdgesRead
<1> QED BY <1>2, <1>3

\* Two tasks that the graph does not order are ordered by no tokens: it has at least
\* the edges of the tokens.
LEMMA StreamsOrder ==
  ASSUME ToolInv, phase = "trace", NEW t \in TaskIds
  PROVE  Ancestors(Happened, t) \subseteq Ancestors(outEdges, t)
<1>1. /\ outEdges \in [TaskIds -> SUBSET TaskIds]
      /\ \A p \in TaskIds : outEdges[p] = {q \in TaskIds : <<q, p>> \in HBloggerBuffer}
  BY GraphRead
<1>2. streams \subseteq HBloggerBuffer
  BY DEF ToolInv, TraceInv, IInv, EdgeInv, NoStreamMissed
<1>3. DOMAIN Happened = TaskIds /\ DOMAIN outEdges = TaskIds
  BY <1>1 DEF Happened
<1>4. \A q \in TaskIds : Parents(Happened, q) \subseteq Parents(outEdges, q)
  BY <1>1, <1>2, <1>3 DEF Parents, Happened
<1>5. \A s \in SUBSET TaskIds :
        Parents(outEdges, t) \subseteq s /\ ParentClosed(outEdges, s)
          => Parents(Happened, t) \subseteq s /\ ParentClosed(Happened, s)
  BY <1>4 DEF ParentClosed
<1> QED BY <1>3, <1>5 DEF Ancestors

LEMMA SameOrder ==
  ASSUME ToolInv, NoEdgeInvented, phase = "trace"
  PROVE  \A s, t : D!Parallel(s, t) <=> ReallyParallel(s, t)
<1>1. HBloggerBuffer = streams
  BY DEF ToolInv, TraceInv, IInv, EdgeInv, NoStreamMissed, NoEdgeInvented
<1>2. outEdges = Happened
  BY <1>1, GraphRead DEF Happened
<1> QED BY <1>2, SameAncestors DEF D!Parallel, ReallyParallel

LEMMA SameOverlooked ==
  \A p, t : D!Overlooked(p, t) => Detector!Overlooked(p, t)
<1>1. \A e, t : D!Ancestors(e, t) = Detector!Ancestors(e, t)
  BY DEF D!Ancestors, Detector!Ancestors, D!Parents, Detector!Parents, D!ParentClosed,
     Detector!ParentClosed
<1>2. \A e, p, t : D!OnTheWay(e, p, t) = Detector!OnTheWay(e, p, t)
  BY Zenon, <1>1 DEF D!OnTheWay, Detector!OnTheWay
<1>3. \A e, p, t : D!OneWay(e, p, t) <=> Detector!OneWay(e, p, t)
  BY <1>1, <1>2 DEF D!OneWay, Detector!OneWay
<1> QED BY Zenon, <1>2, <1>3 DEF D!Overlooked, Detector!Overlooked

-----------------------------------------------------------------------------
(* The theorems.                                                           *)

\* The logs of the tracer are logs that module Checker expects: in the default build, and
\* in the other one as long as nothing but tokens is copied, an edge leads from an older
\* to a younger task, a task has one block, a line is the only one of its address in its
\* block and of a task whose block has been opened, and its function has been named, once
\* (detector/main.cpp over the logs of Logger.hpp).  ReadEdge, ReadBlock, ReadName and
\* ReadAccess take whatever the log has; that it meets those guards is what is proved.
THEOREM ToolRunsChecker ==
  ASSUME StrayCopies = FALSE \/ Scheduler = "taskPerThread"
  PROVE  ToolSpec => Detector!Spec
<1>1. ToolInit => Detector!Init
  BY DEF ToolInit
<1>2. ToolInv => ParentsOlder
  BY DEF ToolInv, TraceInv, IInv, EdgeInv
<1>3. ToolInv /\ TraceInv' /\ [ToolNext]_toolVars => [Detector!Next]_(Detector!vars)
  BY <1>2, ToolStep, SameChecker
<1> QED BY <1>1, <1>3, ToolInvariance, TraceInvariance, PTL DEF ToolSpec, Detector!Spec

\* What the tool promises its user, as far as its checker keeps it: in the default build,
\* whatever memory is copied, two tasks that are reported are ordered by no chain of tokens
\* that were really copied; or the earlier one is linked to the later one through a single
\* child, which took over its bag and read the erased element (checker.cpp:244).  For any
\* number of tasks, tokens and accesses (from INS::TaskReceiveTokenLog to checker.cpp:44).
THEOREM ToolReportsExplained ==
  ASSUME Scheduler = "taskPerThread"
  PROVE  ToolSpec => []FalseReportsExplained
<1>1. ASSUME ToolInv, NEW c \in conflictTable
      PROVE  \/ ReallyParallel(c.action1.taskId, c.action2.taskId)
             \/ Detector!Overlooked(c.action2.taskId, c.action1.taskId)
  <2> DEFINE s == c.action1.taskId  t == c.action2.taskId
  <2>0. phase = "trace" /\ D!TypeOK
    BY <1>1 DEF ToolInv, CheckInv, D!IInv, D!ReportInv, D!WindowInv, D!TypeOK
  <2>1. s \in TaskIds /\ t \in TaskIds
    BY <2>0 DEF D!TypeOK, D!Conflict, D!Action, TaskIds
  <2>2. D!Parallel(s, t) \/ D!Overlooked(t, s)
    BY <1>1 DEF ToolInv, CheckInv, D!ReportInv, D!ReportsExplained, PlaceInv
  <2>3. D!Parallel(s, t) => ReallyParallel(s, t)
    <3>1. /\ Ancestors(Happened, s) \subseteq Ancestors(outEdges, s)
          /\ Ancestors(Happened, t) \subseteq Ancestors(outEdges, t)
      BY <1>1, <2>0, <2>1, StreamsOrder
    <3> QED BY <3>1, SameAncestors DEF D!Parallel, ReallyParallel
  <2> QED BY <2>2, <2>3, SameOverlooked
<1>2. ToolInv => FalseReportsExplained
  BY <1>1 DEF FalseReportsExplained
<1> QED BY <1>2, ToolInvariance, PTL

\* In both builds, and whatever memory task bodies copy, the two tasks of a report made the
\* accesses that it names, of one address and in a way that their order matters, although
\* workers print the lines of earlier tasks again (TaskInfo.hpp:76).
THEOREM ReportsTrue == ToolSpec => []ReportedAccessesMade
<1>1. KnownInv => ReportedAccessesMade
  BY DEF KnownInv, Known, ReportedAccessesMade, Did, D!Interferes, Detector!Interferes
<1>2. ToolInv => KnownInv
  BY DEF ToolInv
<1> QED BY <1>1, <1>2, ToolInvariance, PTL

\* In the default build no log makes the checker use a missing bag or fail an assertion
\* (checker.cpp:239, sigManager.hpp:32 and :46).
THEOREM ToolNeverCrashes ==
  ASSUME Scheduler = "taskPerThread"
  PROVE  ToolSpec => []~crashed
<1>1. ToolInv => ~crashed
  BY DEF ToolInv, CheckInv, D!IInv, D!NeverCrashes, PlaceInv
<1> QED BY <1>1, ToolInvariance, PTL

-----------------------------------------------------------------------------
(***************************************************************************)
(* What the tool finds: in the default build every race between the tasks  *)
(* of a run is on record when the logs have been read, and what is printed *)
(* names the functions that did it.                                        *)
(***************************************************************************)
(* Nothing that is read is forgotten.                                      *)

InWindow(l) == \E k \in DOMAIN writes[l.addr] : writes[l.addr][k] = l

\* When the logs are closed no task runs; a line of a block that has been opened is still
\* to be read, or in the window of its address.
KeptInv ==
  /\ traced => \A th \in Threads : ~taskInfo[th].active
  /\ D!OneLineInv
  /\ \A i \in 1..position : logger[i].kind = "block" =>
       \A l \in logger[i].lines : (i = position /\ l \in linesLeft) \/ InWindow(l)

Fits == Scheduler = "taskPerThread" /\ MaxTasks <= CONC_THREASHOLD

LEMMA TaskCount == D!Cardinality(0..(MaxTasks - 1)) = MaxTasks
<1>1. Cardinality(0..(MaxTasks - 1)) = MaxTasks
  BY BoundsAssumption, FS_Interval
<1>2. \A S : D!Cardinality(S) = Cardinality(S)
  BY Zenon DEF D!Cardinality, Cardinality
<1> QED BY <1>1, <1>2

\* Steps that read no line and open no block.
LEMMA SameKept ==
  ASSUME KeptInv, UNCHANGED <<writes, position, linesLeft>>, D!OneLineInv',
         traced' => \A th \in Threads : ~taskInfo'[th].active,
         UNCHANGED logger \/ position = 0
  PROVE  KeptInv'
<1>1. \A l : InWindow(l)' <=> InWindow(l)
  BY DEF InWindow
<1> QED BY <1>1 DEF KeptInv

LEMMA BlockKept ==
  ASSUME ToolInv, KeptInv, D!OneLineInv', ReadBlock
  PROVE  KeptInv'
<1>0. ReaderInv
  BY DEF ToolInv
<1>1. /\ D!Begin(logger[position + 1].task) /\ linesLeft = {} /\ position' = position + 1
      /\ linesLeft' = logger[position + 1].lines /\ position \in Nat
      /\ UNCHANGED <<logger, traced, taskInfo>>
  BY <1>0, SameDetector DEF ReadBlock, vars, tracerVars, funcVars, historyVars, ReaderInv
<1>2. UNCHANGED writes
  BY <1>1 DEF D!Begin, D!BeginRoot, D!BeginClone, D!BeginInherit, D!BeginCrash, D!OpenBlock
<1>3. \A l : InWindow(l)' <=> InWindow(l)
  BY <1>2 DEF InWindow
<1>4. \A i \in 1..position' : i \in 1..position \/ i = position'
  BY <1>1
<1> QED BY <1>1, <1>3, <1>4 DEF KeptInv

LEMMA NameKept ==
  ASSUME ToolInv, KeptInv, D!OneLineInv', ReadName
  PROVE  KeptInv'
<1>0. ReaderInv
  BY DEF ToolInv
<1>1. /\ D!AddFuncName(logger[position + 1].id, logger[position + 1].func)
      /\ linesLeft = {} /\ position' = position + 1 /\ position \in Nat
      /\ logger[position + 1].kind = "F"
      /\ UNCHANGED <<logger, traced, taskInfo, linesLeft>>
  BY <1>0, SameDetector DEF ReadName, vars, tracerVars, funcVars, historyVars, ReaderInv
<1>2. UNCHANGED writes
  BY <1>1 DEF D!AddFuncName
<1>3. \A l : InWindow(l)' <=> InWindow(l)
  BY <1>2 DEF InWindow
<1>4. \A i \in 1..position' : i \in 1..position \/ i = position + 1
  BY <1>1
<1> QED BY <1>1, <1>3, <1>4 DEF KeptInv

LEMMA AccessKept ==
  ASSUME ToolInv, ToolInv', KeptInv, D!OneLineInv', Fits, ReadAccess
  PROVE  KeptInv'
<1>0. TraceInv /\ ReaderInv /\ D!TypeOK /\ ~crashed /\ ~crashed'
  BY DEF ToolInv, CheckInv, D!IInv, D!NeverCrashes, PlaceInv, Fits
<1>1. PICK a \in linesLeft :
        /\ D!SaveTaskActions(a) /\ D!LineExpected(a) /\ linesLeft' = linesLeft \ {a}
        /\ UNCHANGED <<logger, traced, taskInfo, position>>
  BY LineIsExpected, SameDetector DEF ReadAccess, vars, tracerVars, funcVars, historyVars
<1>2. a \in D!Action
  <2>1. position \in 1..Len(logger) /\ logger[position].kind = "block"
        /\ a \in logger[position].lines
    BY <1>0, <1>1, LogShape DEF ReaderInv
  <2> QED BY <1>0, <2>1, LogShape
<1>3. D!ReadLine(a) /\ writes' = [writes EXCEPT ![a.addr] = D!Remember(@, a)]
  BY <1>0, <1>1 DEF D!SaveTaskActions
<1>4. /\ a.addr \in Addrs /\ writes[a.addr] \in Seq(D!Action)
      /\ D!Remember(writes[a.addr], a) = Append(writes[a.addr], a)
  BY <1>0, <1>1, <1>2, D!NothingForgotten, DetectorConstants, TaskCount DEF KeptInv, Fits
<1>5. \A x \in Addrs : writes'[x] = IF x = a.addr THEN Append(writes[x], a) ELSE writes[x]
  BY <1>0, <1>3, <1>4 DEF D!TypeOK
<1>6. InWindow(a)'
  <2>1. /\ Len(writes[a.addr]) + 1 \in DOMAIN Append(writes[a.addr], a)
        /\ Append(writes[a.addr], a)[Len(writes[a.addr]) + 1] = a
    BY <1>2, <1>4
  <2> QED BY <1>4, <1>5, <2>1 DEF InWindow
<1>7. ASSUME NEW l, l.addr \in Addrs, InWindow(l)
      PROVE  InWindow(l)'
  <2>1. PICK k \in DOMAIN writes[l.addr] : writes[l.addr][k] = l
    BY <1>7 DEF InWindow
  <2>2. CASE l.addr # a.addr
    BY <1>5, <1>7, <2>1, <2>2 DEF InWindow
  <2>3. CASE l.addr = a.addr
    <3>1. /\ k \in DOMAIN Append(writes[a.addr], a)
          /\ Append(writes[a.addr], a)[k] = writes[a.addr][k]
      BY <1>2, <1>4, <2>1, <2>3
    <3> QED BY <1>4, <1>5, <2>1, <2>3, <3>1 DEF InWindow
  <2> QED BY <2>2, <2>3
<1>8. \A i \in 1..position : logger[i].kind = "block" =>
        \A l \in logger[i].lines : l.addr \in Addrs
  <2>1. \A i \in 1..position : i \in 1..Len(logger)
    BY <1>0, LogShape DEF ReaderInv
  <2> QED BY <1>0, <2>1, LogShape DEF D!Action
<1> QED BY <1>1, <1>6, <1>7, <1>8 DEF KeptInv

LEMMA KeptStep ==
  ASSUME ToolInv, ToolInv', KeptInv, Fits, [ToolNext]_toolVars,
         [D!Next \/ D!AnyEdge]_(D!vars)
  PROVE  KeptInv'
<1>0. ReaderInv
  BY DEF ToolInv
<1>1. D!OneLineInv'
  BY D!NextOneLine, DetectorConstants DEF ToolInv, CheckInv, KeptInv
<1>2. CASE Run
  <2>1. ~traced /\ UNCHANGED <<traced, writes, position, linesLeft>> /\ position = 0
    BY <1>0, <1>2 DEF Run, detectorVars, readerVars, ReaderInv
  <2> QED BY <1>1, <2>1, SameKept
<1>3. CASE Finalize
  BY <1>1, <1>3, SameKept DEF Finalize, vars, tracerVars, funcVars, historyVars, detectorVars
<1>4. CASE ReadEdge \/ OpenTrace \/ ReportConflicts \/ UNCHANGED toolVars
  <2>1. UNCHANGED <<vars, traced, position, linesLeft>>
    BY <1>4 DEF ReadEdge, OpenTrace, ReportConflicts, readerVars, toolVars
  <2>2. UNCHANGED writes
    BY <1>4 DEF ReadEdge, OpenTrace, ReportConflicts, toolVars, Detector!AddTaskNode,
       Detector!EndOfHBLog, Detector!checkerVars, detectorVars
  <2> QED BY <1>1, <2>1, <2>2, SameKept DEF vars, tracerVars, funcVars, historyVars, KeptInv
<1>5. CASE ReadBlock
  BY <1>1, <1>5, BlockKept
<1>6. CASE ReadName
  BY <1>1, <1>6, NameKept
<1>7. CASE ReadAccess
  BY <1>1, <1>7, AccessKept
<1> QED BY <1>2, <1>3, <1>4, <1>5, <1>6, <1>7 DEF ToolNext, ReadLogs

LEMMA KeptInit == ToolInit => KeptInv
<1> SUFFICES ASSUME ToolInit PROVE KeptInv
  OBVIOUS
<1>1. D!OneLineInv
  BY SameDetector, D!InitOneLine, DetectorConstants DEF ToolInit
<1> QED BY <1>1 DEF ToolInit, KeptInv

LEMMA KeptInvariance ==
  ASSUME Fits
  PROVE  ToolSpec => []KeptInv
<1>1. ToolInv /\ TraceInv' /\ KeptInv /\ [ToolNext]_toolVars => KeptInv'
  BY ToolStep, KeptStep
<1> QED BY <1>1, KeptInit, ToolInvariance, TraceInvariance, PTL DEF ToolSpec

-----------------------------------------------------------------------------
(* What is printed.                                                        *)

\* Nothing happens after the summary, and it is right.
SummaryInv == report # NULL => AllRead /\ traced /\ SummaryFaithful

LEMMA NameFound ==
  ASSUME ToolInv, NEW id, NEW f \in Funcs, <<id, f>> \in functions
  PROVE  Detector!GetFuncName(id) = f
<1>0. TraceInv /\ ReaderInv
  BY DEF ToolInv
<1>1. ASSUME NEW g \in Funcs, <<id, g>> \in functions
      PROVE  g = f
  <2>1. PICK i \in 1..position : logger[i].kind = "F" /\ <<logger[i].id, logger[i].func>> = <<id, f>>
    BY <1>0 DEF ReaderInv, NamesRead
  <2>2. PICK j \in 1..position : logger[j].kind = "F" /\ <<logger[j].id, logger[j].func>> = <<id, g>>
    BY <1>0, <1>1 DEF ReaderInv, NamesRead
  <2>3. i \in 1..Len(logger) /\ j \in 1..Len(logger)
    BY <1>0, <2>1, <2>2, LogShape DEF ReaderInv
  <2>4. i = j
    BY <1>0, <2>1, <2>2, <2>3, LogShape
  <2> QED BY <2>1, <2>2, <2>4
<1> QED BY <1>1 DEF Detector!GetFuncName

LEMMA KnownDidIn ==
  ASSUME ToolInv, NEW a, Known(performed, functions, a)
  PROVE  DidIn(a.taskId, a.addr, Detector!GetFuncName(a.funcId))
<1>1. PICK k \in DOMAIN performed[a.taskId], f \in Funcs :
        /\ Tells(a, performed[a.taskId][k]) /\ performed[a.taskId][k].func = f
        /\ <<a.funcId, f>> \in functions
  BY DEF Known
<1>2. Detector!GetFuncName(a.funcId) = f
  BY <1>1, NameFound
<1> QED BY <1>1, <1>2 DEF DidIn, Tells

LEMMA SummaryMade ==
  ASSUME ToolInv, ReportConflicts
  PROVE  SummaryInv'
<1>0. KnownInv /\ ReaderInv /\ D!TypeOK
  BY DEF ToolInv, CheckInv, D!IInv
<1>1. PICK shown \in SUBSET conflictTable :
        /\ \A s, t \in TaskIds :
             LET all == OfPair(conflictTable, s, t)  some == OfPair(shown, s, t) IN
             some = all \/ (Cardinality(some) = MaxShown /\ Cardinality(all) > MaxShown)
        /\ IF \A c \in shown : Detector!Named(c.action1.funcId)
                               /\ Detector!Named(c.action2.funcId)
           THEN /\ report' = {Entry(c) : c \in shown} /\ UNCHANGED detectorVars
           ELSE UNCHANGED report
  BY DEF ReportConflicts
<1>2. AllRead /\ traced /\ UNCHANGED <<vars, traced, position, linesLeft>>
  BY <1>0 DEF ReportConflicts, AllRead, ReaderInv
<1>3. \A c \in shown : Detector!Named(c.action1.funcId) /\ Detector!Named(c.action2.funcId)
  BY <1>0 DEF KnownInv, Known, Detector!Named
<1>4. report' = {Entry(c) : c \in shown} /\ UNCHANGED detectorVars
  BY <1>1, <1>3
<1>5. ASSUME NEW c \in conflictTable
      PROVE  \E r \in report' : r.tasks = <<c.action1.taskId, c.action2.taskId>>
  <2>1. c.action1.taskId \in TaskIds /\ c.action2.taskId \in TaskIds
    BY <1>0 DEF D!TypeOK, D!Conflict, D!Action, TaskIds
  <2>2. c \in OfPair(conflictTable, c.action1.taskId, c.action2.taskId)
    BY DEF OfPair
  <2>3. OfPair(shown, c.action1.taskId, c.action2.taskId) # {}
    BY <1>1, <2>1, <2>2, FS_EmptySet, ShownAssumption
  <2>4. PICK d \in shown : /\ d.action1.taskId = c.action1.taskId
                          /\ d.action2.taskId = c.action2.taskId
    BY <2>3 DEF OfPair
  <2>5. Entry(d) \in report' /\ Entry(d).tasks = <<c.action1.taskId, c.action2.taskId>>
    BY <1>4, <2>4 DEF Entry
  <2> QED BY <2>5
<1>6. ASSUME NEW c \in shown
      PROVE  /\ DidIn(Entry(c).tasks[1], Entry(c).addr, Entry(c).func1)
             /\ DidIn(Entry(c).tasks[2], Entry(c).addr, Entry(c).func2)
  <2>1. /\ DidIn(c.action1.taskId, c.action1.addr, Detector!GetFuncName(c.action1.funcId))
        /\ DidIn(c.action2.taskId, c.action2.addr, Detector!GetFuncName(c.action2.funcId))
        /\ c.action1.addr = c.action2.addr
    BY <1>0, KnownDidIn DEF KnownInv
  <2> QED BY <2>1 DEF Entry
<1>7. \A t, x, f : DidIn(t, x, f)' <=> DidIn(t, x, f)
  BY <1>2 DEF DidIn, vars, tracerVars, funcVars, historyVars
<1>8. conflictTable' = conflictTable
  BY <1>4 DEF detectorVars
<1>9. SummaryFaithful'
  <2>1. \A r \in report' : /\ DidIn(r.tasks[1], r.addr, r.func1)
                           /\ DidIn(r.tasks[2], r.addr, r.func2)
    BY <1>4, <1>6
  <2> QED BY <1>5, <1>7, <1>8, <2>1 DEF SummaryFaithful
<1> QED BY <1>2, <1>4, <1>9 DEF SummaryInv, AllRead, vars, tracerVars, funcVars,
   historyVars, detectorVars

LEMMA SummaryStep ==
  ASSUME ToolInv, SummaryInv, [ToolNext]_toolVars
  PROVE  SummaryInv'
<1>0. ReaderInv
  BY DEF ToolInv
<1>1. CASE ReportConflicts
  BY <1>1, SummaryMade
<1>2. CASE UNCHANGED toolVars
  BY <1>2 DEF SummaryInv, SummaryFaithful, DidIn, AllRead, toolVars, vars, tracerVars,
     funcVars, historyVars, detectorVars,
              readerVars
<1>3. CASE Run \/ Finalize \/ ReadEdge \/ OpenTrace \/ ReadBlock \/ ReadName \/ ReadAccess
  <2>1. UNCHANGED report
    BY <1>3 DEF Run, Finalize, ReadEdge, OpenTrace, ReadBlock, ReadName, ReadAccess, readerVars
  <2>2. report = NULL
    BY <1>0, <1>3 DEF SummaryInv, AllRead, ReaderInv, Run, Finalize, ReadEdge, OpenTrace, ReadBlock,
       ReadName, ReadAccess, Detector!AddTaskNode, Detector!EndOfHBLog
  <2> QED BY <2>1, <2>2 DEF SummaryInv
<1> QED BY <1>1, <1>2, <1>3 DEF ToolNext, ReadLogs

-----------------------------------------------------------------------------
(* The theorems.                                                           *)

\* In the default build, as long as no more tasks run than a window has entries and no
\* stray copy was taken for a token: when the logs are read, any two tasks that no chain of
\* tokens orders and that leave interfering outcomes at an address are on record there.
\* Outcomes are compared as the trace has them, converted to lint (Callbacks.cpp:191-227):
\* of floats that differ in the fraction only it says nothing.  Whatever the erased
\* element yields (checker.cpp:40-74, :244-256).
THEOREM RacesFound ==
  ASSUME Scheduler = "taskPerThread", MaxTasks <= CONC_THREASHOLD
  PROVE  ToolSpec => []RacesAreReported
<1>1. ASSUME ToolInv, KeptInv, AllRead, NEW t \in TaskIds, NEW a \in Summary(t)
      PROVE  a.taskId = t /\ a.addr \in Addrs /\ InWindow(a)
  <2>0. TraceInv /\ ReaderInv /\ TypeOK
    BY <1>1 DEF ToolInv, TraceInv, IInv
  <2>1. /\ a \in Summary(t) /\ a.taskId = t /\ performed[t] # <<>>
    BY <1>1 DEF Summary
  <2>2. t < taskIDSeed
    <3>1. t \in TaskIds /\ t \in Int /\ taskIDSeed \in Int
      BY <2>0, BoundsAssumption DEF TaskIds, TypeOK
    <3>2. ~(t >= taskIDSeed)
      BY <2>0, <2>1, <3>1 DEF TraceInv, BlockInv, MemoryInv
    <3> QED BY <3>1, <3>2
  <2>3. \A th \in Threads : ~taskInfo[th].active
    BY <1>1, <2>0 DEF KeptInv, AllRead, ReaderInv
  <2>4. PICK i \in DOMAIN logger : logger[i].kind = "block" /\ logger[i].task = t
    <3>1. BlockOf(t) # {}
      BY <2>0, <2>2, <2>3 DEF TraceInv, IInv, LogInv
    <3> QED BY <3>1 DEF BlockOf
  <2>5. a \in logger[i].lines
    BY <2>0, <2>1, <2>4 DEF TraceInv, BlockInv, BlocksFaithful
  <2>6. i \in 1..Len(logger)
    BY <2>0, <2>4 DEF TypeOK
  <2>7. InWindow(a)
    BY <1>1, <2>4, <2>5, <2>6 DEF KeptInv, AllRead
  <2>8. a \in D!Action
    BY <2>0, <2>4, <2>5, <2>6, LogShape
  <2> QED BY <2>1, <2>7, <2>8 DEF D!Action
<1>2. ASSUME ToolInv, KeptInv, AllRead, NEW s \in TaskIds, NEW t \in TaskIds,
             NoEdgeInvented, ReallyParallel(s, t),
             NEW a \in Summary(s), NEW b \in Summary(t), a.addr = b.addr, Detector!Interferes(a, b)
      PROVE  Detector!Reported(s, t, a.addr)
  <2>1. D!Parallel(s, t)
    BY <1>2, SameOrder DEF AllRead
  <2>2. PICK i \in DOMAIN writes[a.addr] : writes[a.addr][i] = a
    BY <1>1, <1>2 DEF InWindow
  <2>3. PICK j \in DOMAIN writes[a.addr] : writes[a.addr][j] = b
    BY <1>1, <1>2 DEF InWindow
  <2>4. a.taskId = s /\ b.taskId = t /\ a.addr \in Addrs
    BY <1>1, <1>2
  <2>5. D!Interferes(a, b)
    BY <1>2 DEF Detector!Interferes, D!Interferes
  <2>6. D!Reported(s, t, a.addr)
    BY <1>2, <2>1, <2>2, <2>3, <2>4, <2>5
       DEF ToolInv, CheckInv, D!ReportInv, D!RacesInWindowReported
  <2> QED BY <2>6 DEF D!Reported, Detector!Reported
<1>3. ToolInv /\ KeptInv => RacesAreReported
  BY <1>2 DEF RacesAreReported
<1>4. Fits
  BY DEF Fits
<1> QED BY <1>3, <1>4, ToolInvariance, KeptInvariance, PTL

\* In both builds the summary has every pair of tasks with a conflict, and names, for
\* each access it shows, a function in which that task did access the address: ids are
\* right through the caches of the threads, the registry and the checker's map
\* (TaskInfo.hpp, INS::RegisterFunction, sigManager.hpp).
THEOREM SummaryTrue == ToolSpec => []SummaryFaithful
<1>1. ToolInit => SummaryInv
  BY DEF ToolInit, SummaryInv
<1>2. ToolInv /\ SummaryInv /\ [ToolNext]_toolVars => SummaryInv'
  BY SummaryStep
<1>3. SummaryInv => SummaryFaithful
  BY DEF SummaryInv, SummaryFaithful
<1> QED BY <1>1, <1>2, <1>3, ToolInvariance, PTL DEF ToolSpec
=============================================================================

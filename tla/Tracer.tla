------------------------------- MODULE Tracer -------------------------------
(***************************************************************************)
(* The tracer of DFinspec: the callbacks that instrumented code makes      *)
(* (passes/Callbacks.cpp) and the logger behind them (passes/includes/     *)
(* Logger.hpp, TaskInfo.hpp, common/MemoryActions.hpp).                    *)
(*                                                                         *)
(* Each thread has one TaskInfo.  An access is remembered there, one slot  *)
(* per address; when the task ends, what the thread remembers is flushed   *)
(* to the trace as the block of the task.  Happens-before edges are found  *)
(* through the tokens: a send files the task under the token's address and *)
(* value, and a task body that copies from an address looks it up.         *)
(* Functions are logged by number: the first access of a function gives it *)
(* an id and writes its name to the trace; each thread keeps the ids it    *)
(* has met.                                                                *)
(*                                                                         *)
(* The runtime is the environment: it allocates a token per send, hands    *)
(* buffered tokens to the task it starts, and frees them when the task has *)
(* run, so that addresses are used again.  In the "taskPerThread" build a  *)
(* task runs to its end on a thread of its own before the next one starts; *)
(* in the "threadPool" build workers run tasks side by side, one after     *)
(* another on the same thread.                                             *)
(***************************************************************************)
EXTENDS Integers, Sequences, MemoryActions

CONSTANTS
  Threads,       (* Threads that run tasks.                                *)
  Slots,         (* Heap addresses tokens are allocated at.                *)
  TokenValues,   (* Values of tokens.                                      *)
  Addrs,         (* Addresses of shared data.                              *)
  Contents,      (* What shared data can hold: integers, and floats with   *)
                 (* fractions.                                             *)
  Values,        (* The values that are logged: lint, an integer type.     *)
  Lint,          (* The conversion of contents to lint.                    *)
  Funcs,         (* Functions whose code makes accesses.                   *)
  MaxTasks,      (* Bound: task activations.                               *)
  MaxSends,      (* Bound: tokens sent.                                    *)
  MaxAccesses,   (* Bound: reads and writes per task.                      *)
  Scheduler,     (* "taskPerThread" or "threadPool".                       *)
  StrayCopies    (* Whether task bodies also copy memory that is no token. *)

TaskIds == 0..(MaxTasks - 1)
Access  == [addr : Addrs, value : Contents, func : Funcs, isWrite : BOOLEAN]
Line    == [taskId : TaskIds, addr : Addrs, value : Values, funcId : Nat,
            isWrite : BOOLEAN]
Block   == [kind : {"block"}, task : TaskIds, lines : SUBSET Line]
Info    == [taskID : TaskIds, active : BOOLEAN,
            memoryLocations : [Addrs -> Line \union {NULL}], functions : [Funcs -> Nat]]
FLine   == [kind : {"F"}, func : Funcs, id : Nat \ {0}]
Token   == [value : TokenValues, sender : TaskIds, thread : Threads,
            state : {"new", "buffered", "taken"}]

ASSUME BoundsAssumption == MaxTasks \in Nat \ {0} /\ MaxSends \in Nat /\ MaxAccesses \in Nat
ASSUME BuildAssumption  == /\ Scheduler \in {"taskPerThread", "threadPool"}
                           /\ StrayCopies \in BOOLEAN
\* A conversion drops the fraction, so it need not be injective.
ASSUME LintAssumption   == /\ Lint \in [Contents -> Values]
                           /\ 0 \in Contents /\ 0 \in Values /\ Lint[0] = 0
ASSUME NoNullAssumption == NULL \notin TaskIds /\ NULL \notin Line /\ NULL \notin Token

VARIABLES
  taskIDSeed,      (* the id of the next task                               *)
  taskInfo,        (* the TaskInfo of each thread                           *)
  idMap,           (* who sent the token filed under an address and value   *)
  HBloggerBuffer,  (* the happens-before log: pairs <<task, parent>>        *)
  logger,          (* the trace: names of functions and, per task that has  *)
                   (* ended, a block                                        *)
  funcNames,       (* the id of each function, 0 when it has none           *)
  funcIDSeed,      (* the id of the next function                           *)
  heap,            (* the token allocated at each slot                      *)
  sends,           (* how many tokens were sent                             *)
  streams,         (* history: pairs <<task, task whose token it copied>>   *)
  performed        (* history: the accesses of each task, in order          *)

funcVars    == <<funcNames, funcIDSeed>>
tracerVars  == <<taskIDSeed, taskInfo, idMap, HBloggerBuffer, logger, funcVars>>
historyVars == <<streams, performed>>
vars        == <<tracerVars, heap, sends, historyVars>>

NoActions == [x \in Addrs |-> NULL]
NewInfo   == [taskID |-> 0, active |-> FALSE, memoryLocations |-> NoActions,
              functions |-> [f \in Funcs |-> 0]]

InPassToken(th) == \E s \in Slots : heap[s] # NULL /\ heap[s].state = "new"
                                                  /\ heap[s].thread = th
\* The thread executes the body of a task.
Running(th) == taskInfo[th].active /\ ~InPassToken(th)
Current(th) == taskInfo[th].taskID

-----------------------------------------------------------------------------
(* Tasks.                                                                  *)

\* Mistake: the id is the seed after the increment, not before.
SeedAfterIncrement == taskIDSeed + 1

GenTaskID == taskIDSeed

\* The runtime starts a task on th with the tokens at inputs.  The accesses a
\* thread remembers are not cleared.
TaskBegin(th, inputs) ==
  /\ taskIDSeed < MaxTasks
  /\ ~taskInfo[th].active
  /\ Scheduler = "taskPerThread" => \A u \in Threads : ~taskInfo[u].active
  /\ \A s \in inputs : heap[s] # NULL /\ heap[s].state = "buffered"
  /\ taskIDSeed' = taskIDSeed + 1
  /\ taskInfo' = [taskInfo EXCEPT ![th].taskID = GenTaskID, ![th].active = TRUE]
  /\ heap' = [s \in Slots |-> IF s \in inputs
                              THEN [heap[s] EXCEPT !.state = "taken", !.thread = th]
                              ELSE heap[s]]
  /\ UNCHANGED <<idMap, HBloggerBuffer, logger, funcVars, sends, historyVars>>

\* Mistake: the task that ends signs for everything that is printed.
PrintedAsCurrent(th) ==
  {[taskInfo[th].memoryLocations[x] EXCEPT !.taskId = Current(th)] :
     x \in {x \in Addrs : taskInfo[th].memoryLocations[x] # NULL}}

\* What printMemoryActions prints.
Printed(th) ==
  {taskInfo[th].memoryLocations[x] : x \in Addrs} \ {NULL}

\* The task ends: its block is flushed under the lock, then the runtime frees
\* its tokens.  A thread of its own ends with its task and takes its TaskInfo
\* along; a worker keeps it.
TaskEnd(th) ==
  /\ Running(th)
  /\ logger' = Append(logger, [kind |-> "block", task |-> Current(th),
                               lines |-> Printed(th)])
  /\ taskInfo' = [taskInfo EXCEPT ![th] =
       IF Scheduler = "taskPerThread" THEN NewInfo ELSE [@ EXCEPT !.active = FALSE]]
  /\ heap' = [s \in Slots |->
       IF heap[s] # NULL /\ heap[s].state = "taken" /\ heap[s].thread = th
       THEN NULL ELSE heap[s]]
  /\ UNCHANGED <<taskIDSeed, idMap, HBloggerBuffer, funcVars, sends, historyVars>>

-----------------------------------------------------------------------------
(* Functions.                                                              *)

\* Mistake in registering: the name is not written.
NameNotWritten(f) ==
  IF funcNames[f] # 0 THEN UNCHANGED <<funcVars, logger>>
  ELSE /\ funcNames' = [funcNames EXCEPT ![f] = funcIDSeed]
       /\ funcIDSeed' = funcIDSeed + 1
       /\ UNCHANGED logger

\* Under the lock: a function without an id gets one and is named in the trace.
RegisterFunction(f) ==
  IF funcNames[f] # 0 THEN UNCHANGED <<funcVars, logger>>
  ELSE /\ funcNames' = [funcNames EXCEPT ![f] = funcIDSeed]
       /\ funcIDSeed' = funcIDSeed + 1
       /\ logger' = Append(logger, [kind |-> "F", func |-> f, id |-> funcIDSeed])

\* Mistake: the last id given out is taken for that of the function.
LastIdGiven(th, f) ==
  IF taskInfo[th].functions[f] # 0 THEN taskInfo[th].functions[f] ELSE funcIDSeed' - 1

\* The id an access of f on th is logged with: the one the thread keeps, else
\* the registered one.
GetFunctionId(th, f) ==
  IF taskInfo[th].functions[f] # 0 THEN taskInfo[th].functions[f] ELSE funcNames'[f]

-----------------------------------------------------------------------------
(* Accesses.                                                               *)

Performs(th, x, v, f, isWrite) ==
  /\ Running(th)
  /\ Len(performed[Current(th)]) < MaxAccesses
  /\ performed' = [performed EXCEPT ![Current(th)] =
                     Append(@, [addr |-> x, value |-> v, func |-> f, isWrite |-> isWrite])]

LineOf(th, x, v, f, isWrite) ==
  [taskId |-> Current(th), addr |-> x, value |-> Lint[v], funcId |-> GetFunctionId(th, f),
   isWrite |-> isWrite]

Remembers(th, x, f, new) ==
  taskInfo' = [taskInfo EXCEPT ![th].memoryLocations[x] = StoreAction(@, new),
                               ![th].functions[f] = new.funcId]

\* An access of x by the code of f.
AccessBy(th, x, v, f, isWrite) ==
  /\ Performs(th, x, v, f, isWrite)
  /\ IF taskInfo[th].functions[f] # 0 THEN UNCHANGED <<funcVars, logger>>
     ELSE RegisterFunction(f)
  /\ Remembers(th, x, f, LineOf(th, x, v, f, isWrite))
  /\ UNCHANGED <<taskIDSeed, idMap, HBloggerBuffer, heap, sends, streams>>

\* A read is logged with the value 0, a write of a float or double as (lint)value.
Read(th, x, f)     == AccessBy(th, x, 0, f, FALSE)
Write(th, x, v, f) == AccessBy(th, x, v, f, TRUE)

-----------------------------------------------------------------------------
(* Tokens.                                                                 *)

\* Mistakes in filing a token: an entry that is there is not replaced; the
\* token is filed under its value alone.
FiledOnce(s, v, t) ==
  [idMap EXCEPT ![<<s, v>>] = IF @ = NULL THEN t ELSE @]
FiledByValue(s, v, t) ==
  [k \in Slots \X TokenValues |-> IF k[2] = v THEN t ELSE idMap[k]]

Filed(s, v, t) == [idMap EXCEPT ![<<s, v>>] = t]

\* PassToken allocates the token; the callback runs before the copy, so before
\* any buffer has it.
TaskSendToken(th, s, v) ==
  /\ Running(th)
  /\ heap[s] = NULL /\ sends < MaxSends
  /\ heap' = [heap EXCEPT ![s] = [value |-> v, sender |-> Current(th),
                                  thread |-> th, state |-> "new"]]
  /\ sends' = sends + 1
  /\ idMap' = Filed(s, v, Current(th))
  /\ UNCHANGED <<taskIDSeed, taskInfo, HBloggerBuffer, logger, funcVars, historyVars>>

\* The rest of PassToken: a task may be started with the token from now on.
PassToken2Buffer(s) ==
  /\ heap[s] # NULL /\ heap[s].state = "new"
  /\ heap' = [heap EXCEPT ![s].state = "buffered"]
  /\ UNCHANGED <<tracerVars, sends, historyVars>>

\* Mistake: the line names the sender first.
EdgeSenderFirst(t, s, v) ==
  IF idMap[<<s, v>>] \notin {NULL, t} THEN {<<idMap[<<s, v>>], t>>} ELSE {}

\* The edge logged when t copies the value v at address s, if any.
EdgeOf(t, s, v) ==
  IF idMap[<<s, v>>] \notin {NULL, t} THEN {<<t, idMap[<<s, v>>]>>} ELSE {}

TaskReceiveToken(th, s) ==
  /\ Running(th)
  /\ heap[s] # NULL /\ heap[s].state = "taken" /\ heap[s].thread = th
  /\ HBloggerBuffer' = HBloggerBuffer \union EdgeOf(Current(th), s, heap[s].value)
  /\ streams' = streams \union {<<Current(th), heap[s].sender>>}
  /\ UNCHANGED <<taskIDSeed, taskInfo, idMap, logger, funcVars, heap, sends, performed>>

\* Every memcpy of a task body is taken for a receive.  This one reads memory
\* of the application that happens to lie where a token was.
StrayCopy(th, s, v) ==
  /\ StrayCopies
  /\ Running(th)
  /\ heap[s] = NULL
  /\ HBloggerBuffer' = HBloggerBuffer \union EdgeOf(Current(th), s, v)
  /\ UNCHANGED <<taskIDSeed, taskInfo, idMap, logger, funcVars, heap, sends, historyVars>>

-----------------------------------------------------------------------------
Init ==
  /\ taskIDSeed     = 0
  /\ taskInfo       = [th \in Threads |-> NewInfo]
  /\ idMap          = [k \in Slots \X TokenValues |-> NULL]
  /\ HBloggerBuffer = {}
  /\ logger         = <<>>
  /\ funcNames      = [f \in Funcs |-> 0]
  /\ funcIDSeed     = 1
  /\ heap           = [s \in Slots |-> NULL]
  /\ sends          = 0
  /\ streams        = {}
  /\ performed      = [t \in TaskIds |-> <<>>]

Next ==
  \/ \E th \in Threads :
       \/ \E inputs \in SUBSET Slots : TaskBegin(th, inputs)
       \/ TaskEnd(th)
       \/ \E x \in Addrs, f \in Funcs :
            \/ Read(th, x, f)
            \/ \E v \in Contents : Write(th, x, v, f)
       \/ \E s \in Slots :
            \/ TaskReceiveToken(th, s)
            \/ \E v \in TokenValues : TaskSendToken(th, s, v) \/ StrayCopy(th, s, v)
  \/ \E s \in Slots : PassToken2Buffer(s)

Spec == Init /\ [][Next]_vars

-----------------------------------------------------------------------------
(* Properties.                                                             *)

\* Every variable has its type, and the tasks that run have different ids.
TypeOK ==
  /\ taskIDSeed \in 0..MaxTasks
  /\ taskInfo \in [Threads -> Info]
  /\ \A th \in Threads : taskInfo[th].active => Current(th) < taskIDSeed
  /\ \A th, u \in Threads :
       taskInfo[th].active /\ taskInfo[u].active /\ th # u => Current(th) # Current(u)
  /\ idMap \in [Slots \X TokenValues -> TaskIds \union {NULL}]
  /\ HBloggerBuffer \subseteq TaskIds \X TaskIds
  /\ logger \in Seq(Block \union FLine)
  /\ funcNames \in [Funcs -> Nat]
  /\ funcIDSeed \in Nat \ {0}
  /\ heap \in [Slots -> Token \union {NULL}]
  /\ sends \in 0..MaxSends
  /\ streams \subseteq TaskIds \X TaskIds
  /\ performed \in [TaskIds -> Seq(Access)]

\* However often an address is allocated again, the entry of a token that is
\* alive names the task that sent it.
TokensAttributed ==
  \A s \in Slots : heap[s] # NULL => idMap[<<s, heap[s].value>>] = heap[s].sender

\* Every token a task copies gives its edge, whatever was sent in between.
NoStreamMissed == streams \subseteq HBloggerBuffer

\* An edge is logged only for a token the task received (Logger.hpp:174: "there
\* is a sender of the token ... dependent through a streaming buffer").
NoEdgeInvented == HBloggerBuffer \subseteq streams

\* Ids grow along the edges, so the happens-before graph has no cycle.
ParentsOlder == \A e \in HBloggerBuffer : e[2] < e[1]

BlockOf(t) == {i \in DOMAIN logger : logger[i].kind = "block" /\ logger[i].task = t}

\* The block of a task comes after those of the tasks it got tokens from
\* (checker.cpp:207: "if new task creation, parents terminated").
ParentsLoggedFirst ==
  \A e \in HBloggerBuffer : \A i \in BlockOf(e[1]) : \E j \in BlockOf(e[2]) : j < i

Wrote(t, x) ==
  \E k \in DOMAIN performed[t] : performed[t][k].addr = x /\ performed[t][k].isWrite

\* The k-th access of t was its last write at its address, or the first of the
\* reads of an address that t did not write.
Survives(t, k) ==
  LET acts == performed[t] IN
  IF acts[k].isWrite
  THEN \A j \in DOMAIN acts : j > k /\ acts[j].isWrite => acts[j].addr # acts[k].addr
  ELSE /\ ~Wrote(t, acts[k].addr)
       /\ \A j \in DOMAIN acts : j < k => acts[j].addr # acts[k].addr

\* What t leaves behind, as far as a line can tell.
Summary(t) ==
  {[taskId |-> t, addr |-> performed[t][k].addr, value |-> Lint[performed[t][k].value],
    funcId |-> funcNames[performed[t][k].func], isWrite |-> performed[t][k].isWrite] :
     k \in {k \in DOMAIN performed[t] : Survives(t, k)}}

\* A block has one line per address its task touched: the last value the task
\* wrote there, without its fraction, or a read when it wrote nothing; and nothing
\* of another task (Callbacks.cpp:21: "local to a thread(and thus a task)").
BlocksFaithful ==
  \A i \in DOMAIN logger : logger[i].kind = "block" =>
    logger[i].lines = Summary(logger[i].task)

\* Whichever threads meet a function first, its id is in the trace before the
\* first line that has it, and no id is given to two functions (the checker
\* asserts both, sigManager.hpp:32 and :46).
FuncsNamedFirst ==
  /\ \A i \in DOMAIN logger : logger[i].kind = "block" =>
       \A l \in logger[i].lines :
         \E j \in 1..(i - 1) : logger[j].kind = "F" /\ logger[j].id = l.funcId
  /\ \A i, j \in DOMAIN logger :
       logger[i].kind = "F" /\ logger[j].kind = "F" /\ logger[i].id = logger[j].id => i = j
=============================================================================

# Verification of DFinspec

DFinspec finds nondeterminism in dataflow programs.  An LLVM pass instruments an
ADF program; the instrumented program, linked with the tracer, writes two logs
while it runs; the offline checker reads the logs and reports pairs of parallel
tasks whose accesses to one address depend on their order.  This directory has
TLA+ modules of those parts, the TLC configurations that check them and proofs
of their main properties.  `PROJECT.json` maps each definition to its lines.

## The system

| part | where | state it keeps | operations |
|---|---|---|---|
| checker | `detector/checker.cpp`, `checker.hpp`, `conflictReport.hpp`, `main.cpp` | task graph, serial bags, a window of accesses per address, conflict table | one per log line: happens-before edge, `B`, `R`/`W`, `F` |
| validator | `detector/validator.cpp`, `operationSet.hpp`, `instruction.hpp` | instructions of each task body, set of operations seen | parse the IR log, erase conflicts of commuting writes |
| function names | `Logger.hpp`, `TaskInfo.hpp`, `detector/sigManager.hpp` | id per name in the tracer, a cache of it per thread, name per id in the checker | register (under the lock), look up |
| tracer | `passes/Callbacks.cpp`, `Logger.hpp`, `TaskInfo.hpp`, `common/MemoryActions.hpp` | one `TaskInfo` per thread; under the lock: id counter, `idMap`, the two logs | `INS_TaskBeginFunc`, `INS_TaskFinishFunc`, `INS_AdfMemRead/Write*`, `INS_RegSendToken`, `INS_RegReceiveToken`, `INS_Init`, `INS_Fini` |
| instrumentation | `passes/AdfInstrumentor.cpp`, `TokenDetector.cpp`, `includes/Excludes.hpp` | while it compiles: the accesses since the last call, those chosen | decides which instruction makes which callback |
| ADF runtime | `tests/adf_benchmarks/src` | token buffers with wait queues, tasks, scheduler or workers with deques | `PassToken`, `ConsumeTokens`, `RunTask`, schedule, steal |
| programs | `tests/adf_tests`, `tests/adf_benchmarks/dwarfs` | their own | workloads of the tool |

The runtime calls task bodies; these call the tracer's callbacks; the tracer
writes the trace (a block of lines per task, written when the task ends) and, at
the end, the happens-before log (one line per token received).  The checker reads
the happens-before log to its end and then the trace.  Nothing else connects the
tracer and the checker, so what the checker needs of the logs is what the tracer
has to provide.

There are two builds of the runtime.  With `USE_TEST_THREAD` (`internal.h:20`),
the default, the test scheduler runs one task at a time, each on a thread of its
own ("taskPerThread" in the modules).  Without it a pool of workers with
work-stealing deques runs tasks side by side ("threadPool").

What is hard here:

* the checker keeps a bag only as long as some child still needs it, and passes
  bags from parent to child; the count, the moment of removal and the content
  must agree for every graph and every order of blocks;
* the sender of a token is found by address and value, while addresses are freed
  and used again;
* the tracer keeps one slot per address for all that a task does there, per
  thread and not per task;
* blocks are written in the order in which tasks end;
* the pass drops callbacks that it takes for redundant, on every path through the
  code and with pointers that may be aliases;
* a buffer is locked while it is looked at, and not while the task that waited there
  gets its token and collects the others;
* the scheduler and the threads of the tasks wait for each other on condition
  variables; the counter that tells the workers of the end changes at other moments
  than their queues;
* the order on conflicts is no order, so the set of conflicts drops entries and
  keeps duplicates;
* the owner of a deque and its thieves go by loads and stores that processors reorder.

What makes each part correct:

* checker: a bag holds the ancestors of its task and no others; no missing bag is used;
  no ordered pair of tasks is reported (the code reports some, see Findings); no parallel
  pair in a window is lost;
* tracer: the edges logged are exactly the streams between tasks; a block is
  exactly what its task did; the blocks of parents come first;
* validator: a conflict is erased only if the two writes commute;
* function names: an `F` line comes before every line that uses its id;
* instrumentation: what the tracer is told of a task is what the task did, and it is
  told of a token before the token is copied;
* runtime: tokens are neither lost nor given to two tasks, and no task waits for
  a token that is there; a task is run once for each set of tokens; the program ends
  when nothing is left to run, and then it does end.

## The modules

**TaskGraph** — parents and ancestors in the graph of streams, without recursion, and
which children of a task lead to another (`OnTheWay`, `OneWay`).

**RaceDetector** — what the checker promises.  There are no bags: a race is a pair
of tasks not ordered by the graph, with interfering accesses of one address, at
most `Window` accesses apart.  With each access it finds all of these (`Rivals`) and
may add pairs that one child links (`FalseAlarms`), which is what the code gives.

**Checker** — `class Checker`.  `inEdges`, `outEdges` are `graph`; `serial_bags`,
`writes` and `conflictTable` are the members of the same name.  The conflict table is one
set, as its keys are one per pair of tasks.  A line of the happens-before log
is `AddTaskNode`.  A `B` line has four paths: no parents (`BeginRoot`), all the
parents' bags have other readers (`BeginClone`), some bag can be taken over
(`BeginInherit`, for any such parent, as the set is unordered), a parent has no bag
(`BeginCrash`).  An `R` or `W` line is `SaveTaskActions`.  `Recorded` and
`NewConflicts` are what `std::set` does under `Conflict::operator<`.  Line 244
reads a set element after its erasure; `StaleRead` are the two things it may yield, and
every step takes either.  `phase`, `begun`, `block` and `fresh` are the position in the
logs.  `Next` takes any log of the form the tracer writes: an edge leads to a task with a
higher number, as tasks are numbered when they begin (the guard `par < sib`), a task has one block, a
function is named once.  The history variable `ordered` tells whether the log is, so far,
one of the default build: blocks parents first, each with the lines of its own task.
`functions` is the table of `sigManager`; its two assertions are `crashed`.

**Tracer** — the callbacks and `class INS`.  `taskInfo` is the thread-local `TaskInfo`;
`taskIDSeed`, `idMap`, `HBloggerBuffer`, `logger`, `funcNames`, `funcIDSeed` are the members
of the same name.  Each callback changes shared state at most once, under the lock, so it is
one action; an access in a function whose id is not in the cache of its thread registers it
first (`GetFunctionId`), and the `F` line is in the trace before the block of the task.  The
runtime is the environment: `heap` has the token allocated at each slot and how far it has
come; a slot is free again when the task that took the token has ended.  `Lint` is the
conversion of what is written to what is logged, which takes the fraction from floats and
doubles.  `streams` and `performed` are history: which tokens were really copied and which
accesses really made.

**MemoryActions** — what one address remembers of a task's accesses; `Tracer` and
`Instrumentor` share it.

**Instrumentor** — the two passes.  One function of `Functions` is compiled: `Visit`
is `runOnFunction` going over its instructions, `chooseInstructionsToInstrument` the
walk back that drops reads, `Insert` the callbacks of `runOnFunction` and of
`TokenDetector`.  Then the instrumented code runs, on any path through its blocks:
`Callback` for what was inserted, `Execute` for the instruction itself.  `performed` and
`copied` are what the code did, `memoryLocations` and `reported` what the tracer was told.
The semantics of LLVM instructions is external: `Proceed`, `MakeAccess`, `MakeCopy`, `MakeCall`.
`WellFormed` says what code a compiler makes: a return ends its block, what a pointer points
to has one size, constant data is not stored to.  `NotCaptured` is the answer of LLVM's capture
analysis for one pointer.  Any pointers may hold one address; so a pointer that is not captured may
lead to a variable that others know.

**TaskSystem** — a program as the runtime has it when all tasks are created: the
buffers of each task, who waits where, what each run of a task may do.

**Dataflow** — the runtime without a scheduler: `buffer.cpp`, `RunTask` of `taskqueue.cpp`
and `PassToken`.  What is done under the lock of a buffer is one action, what follows the
unlock is another: `Deposit` or `Dequeue`, then `Give`; `GetToken` until the task is
complete (`Enable`) or queued (`EnqueueTask`).  `Begin` is all that a scheduler promises: it
runs a task that is ready, and may mark it anew while it has it (`Mark`: the bind queue
marks its tasks as queued).  A token is its number in its buffer; `passed`, `used` and
`dropped` are history.

**TestScheduler** — `testscheduler.cpp` over `Dataflow`.  `thread_status` and `at` are the
status a thread has and where it is in `TaskWrapper`; `main` is where `Start` is.  The mutex
makes one step of the look at the status and the wait.  Threads may wake without a signal,
and so may the scheduler, which has no predicate to look at (`WakeUnsignalled`); a new
thread may be born with either status (`FreshStatus`, as the constructor sets none).
`disturbed` is history: whether one of the two has put a task beside another.
`OneTaskAtATime` says that the scheduler implements `Dataflow`, and begins only ready tasks
even when it is disturbed.

**ThreadPool** — `threadpool.cpp` and the end of a region in `taskqueue.cpp`, over
`Dataflow`.  `deque_list`, `bind_queue_list`, `ready_task_count` and `idle_cycle` are
the variables of the same name.  `BindQueueEmpty` and `PopBottom` are apart, as are `FindNothing` and
`ReportIdleThread`, since a worker looks at its two queues and at the counter one after the other.

**TaskDeque** — what `ThreadPool` takes a deque for: the owner pushes and pops at one
end, thieves take from the other, a task goes to one of them.

**WorkSteal** — `worksteal.cpp`: one deque, one action per load, store or exchange.
`memory` is what the owner alone writes (`bottom`, the array and its size) as others see it,
`pending` the same after each store that is still in the store buffer of its processor: x86
keeps stores in order and lets later loads pass them, and the compiler barriers of the code
change nothing about that; an exchange waits for the buffer.  A thief loads size, segment and entry one
by one.  `GrowCircularArray` is what it does: the size first, then the old
segment freed, then the new one, with entries copied by indexes that are not wrapped.
`disturbed` is history: a pop has taken a task without an exchange while its store of `bottom` was
not seen ("overtaken"), or the array has grown under the workers ("grown").  `KeepsPromise` says that
the deque implements `TaskDeque` until then.

**Pipeline** — the tool as a whole, an extension of `Tracer`.  The steps of the program are
those of `Tracer`, until it ends (`Finalize`, `INS_Fini`); then `Detector == INSTANCE
Checker` reads what it logged (`ReadLogs`), as `main.cpp` does: `ReadEdge` for the lines of
the happens-before log, `OpenTrace`, then `ReadBlock` and `ReadAccess` for the trace.
`Checker` has guards that say which logs it is given; a log of `Tracer` that did not meet
them would leave lines unread, and `ReaderNotStuck` would fail.  The properties compare the
reports with `streams` and `performed`, what the tasks really did.  `ReportConflicts` prints
the summary: at most `MaxShown` addresses per pair of tasks, with the names of functions.

**TaskCode** — what the code of a task means: `Wanted` and `OperationsFor` are a data
flow analysis (which operations lead to a value), `Effect` is what a location holds
after the code has run.  It is the reference for `Validator`; only the groups of
operations are translated.

**Validator** — `validator.cpp`, `operationSet.hpp`, `instruction.hpp` and
`Checker::checkCommutativeOperations`.  `IsSafe` is the recursive walk back over a
body, a recursive function here; it carries the set of operations from the first
operand to the second and from the first line to the second, as the reference
parameter in the code does.  Where the code has no order of its own the model takes
every one: the reports are in a map ordered by pointers, and which of several alike
conflicts comes first is a matter of `std::set`.  Two values are read before they are set:
`oper` of an instruction of no known kind (`ParseTasksIR` chooses it among
`GarbageOpers`) and the whole instruction where a line is not found
(`InvolveSimpleOperations`).  `Sides` says that the trace has one line per task and
address.

**CheckerProofs**, **InstrumentorProofs**, **DataflowProofs**, **ThreadPoolProofs**,
**TestSchedulerProofs**, **WorkStealProofs**, **ValidatorProofs**, **PipelineProofs** — the
proofs of the module of that name; those of `Tracer` are the first part of `PipelineProofs`.
The modules **MC...** hold the constants of the runs.

Definitions named as mistakes in comments ("Mistake: ...") are wrong variants of the
definition that follows them; no action uses them.  They are there to see that each
property fails when the code is wrong in that way.

## The runs

| run | instance | shows |
|---|---|---|
| `checker` | 4 tasks, 1 address, 2 values, window 2, blocks in any order, replayed lines, the erased element intact or written over | no race of a window is lost; bags hold ancestors only and miss, and reports add, no more than that element explains; on ordered logs no crash, and `Checker` implements `RaceDetector` |
| `checker_stale` | the same | tasks that a stream orders are reported (violation) |
| `pipeline` | 3 tasks, 1 slot, 2 sends, 2 accesses per task, window 3, default build, copies of any memory, two floats with one whole part | reports are parallel by the tokens really copied, with the same exception; all interfering outcomes of parallel tasks are reported; blocks are what the tasks did; parents are logged first; the reader never gets stuck |
| `pipeline_pool` | 2 workers, 3 tasks, 2 slots, 2 functions, 3 sends, 1 access per task | two workers side by side: tokens are laid to their senders, edges are the streams and all of them, names come before ids, reports name accesses really made, and the summary the functions that made them |
| `validator` | two bodies out of 17 each, a second instance of the second, 2 locations, 3 conflicts | verdicts depend on the data flow alone; conflicts of a read and a write that are dropped had a twin; plain updates that are dropped commute, and plain sums or products are dropped |
| `validator_stores` | the same, one conflict | `x = 2` against `x = x + 2` is dropped (violation) |
| `instrumentor` | blocks of three out of a dozen instructions, then a branch or a return; as body, called or outside; aliases or not, one of them left out by the pass; a pointer to ten bytes; `PassToken`, `InitRuntime`, `TerminateRuntime` | what the tracer remembers is what the code did over the pointers the pass goes by; tokens are told of before they are copied |
| `test_scheduler` | a source that runs three times, 2 instances with two inputs, capacity 2, 4 threads | until it is disturbed: one task at a time, tokens that were passed together are used together, `Start` returns last; always: only ready tasks, each once, and none beside a token; `Start` returns unless the priorities run out or a thread is born "scheduled" |
| `thread_pool` | 2 workers, two instances with two inputs and what feeds them, one task bound to a worker, capacity 2 | no task or token is lost or doubled; the region is done when nothing is left, and it gets done |
| `region_signal` | the same | the main thread sleeps through the signal (violation) |
| `work_steal` | 2 tasks, 2 thieves, array of 2 that grows to 4, store buffer of 3, until a disturbance | the deque implements `TaskDeque`; the owner misses no task, the oldest task is not left for ever |
| `work_steal_fence` | the same with an array of 4 | owner and thief take one task (violation) |

Bounds.  Four tasks have every shape that the bags distinguish: a chain, a fork, a join, a
diamond, a parent inherited with another merged, a bag shared by several children.  The
window is 2 or 3 in the runs, 5 in the code: what matters is that it overflows, which needs
one access more than its length.  Values only matter by being equal or not, before and after
the conversion.  In `Pipeline`, `MaxTasks`, `MaxSends` and `MaxAccesses` bound counters;
three sends of two workers on two slots use a slot twice with one value while another token
is alive.  With one task at a time one member of `Threads` is enough: it stands for the
thread of whatever task runs, and its `TaskInfo` is reset when the next begins.  In
`pipeline` the window is as long as the number of tasks, so that `RacesAreReported` speaks
of all pairs.  In `Validator`, `MaxConflicts` is 3: two alike conflicts and one more.  The
seventeen bodies are those that the walk tells apart: stores, updates with each operation,
`3 - x` and `0 - x`, through a local, with a call before the store, a loop, two locations on
one line, and the commission of `motivating_bank_example_adf.cpp`.  `Instrumentor` has two
shared pointers that may hold one address, a third to a size that has no callback, one that
the pass takes for not captured, to a variable of its own or to the shared one, and one to a
constant; a run enters two blocks, since the pass forgets at the end of each.  In the runs
of the runtime the sources pass tokens in different orders, so that both instances wait at
one buffer while tokens are at another; in `thread_pool` a capacity of 2 lets a buffer
overflow.  `MAX_PRIORITY` 4 is enough for some orders of the default scheduler and too few
for others. In `WorkSteal` two tasks and two thieves have every race: of thieves with each
other, with the owner for the last task, and past it; `MaxBottom` 3 goes around the array
once; the buffer needs 3 for growth and has at most two stores otherwise.  `work_steal`
follows no behaviour beyond a disturbance (`CONSTRAINT Followed`), of which its properties
say nothing.  `pipeline_pool` uses the symmetry of workers, slots and functions, and has no
temporal property.  The configurations say `CHECK_DEADLOCK FALSE` because logs end and
programs stop.

Fairness.  `Pipeline` has none: that the reader does not get stuck is the invariant
`ReaderNotStuck`, and each of its steps takes something from a log.  `TestScheduler` and
`ThreadPool` have weak fairness of the main thread and of each thread: the operating system
lets every thread run that can, locks are held for a few statements only, and bodies of
tasks return.  Nothing is assumed of which task is picked or which wake-up comes.  In
`WorkSteal` stores leave the processor in the end, and the thieves are ones that find
nothing elsewhere.

Disturbances.  Some of what the parts promise is kept only until something happens that the code
does not rule out.  It is in the modules and in the runs, a history variable tells when it has
happened, and the properties say what holds until then and what holds after it as well: `ordered` in
`Checker` (logs of the default build), `disturbed` in `TestScheduler` (a thread born "scheduled", a
wake-up of the scheduler without a signal) and in `WorkSteal` (a pop that overtakes its own store,
growth under the workers).  After a disturbance of the default scheduler two tasks may call `AddTask`
at once and race on a `std::set`; the model takes them one after the other.

## Findings

* `checker.cpp:244`: the id of the parent whose bag is taken over is read from a set element erased
  two lines before.  When the allocator has written over it, the parent is missing in the bag, and
  its accesses are reported against those of its child, which a stream orders (`checker_stale`).
  `BagsAreComplete` and `ReportsExplained` say that this is all that it does: a pair that two
  children link is never reported.  No race is lost by it (`RacesInWindowReported`).
* `worksteal.cpp:221`: between the store of `bottom` and the load of `top` there is only a
  compiler barrier, so x86 may load first.  A thief that goes by the old `bottom` then takes
  the task that the owner takes without an exchange, and both run it (`work_steal_fence`).
  `ThreadPool` is about deques that do not.
* `validator.cpp:141`: the walk asks which operations lead to a store, not whether
  the old value has part in it, so a plain store passes (`validator_stores`).
* `taskqueue.cpp:337`: the main thread waits for the end of the region without looking
  whether it has come (`region_signal`).

Seen while modelling, that no run of its own is about:

* `Callbacks.cpp:195`-`227`: floats and doubles are logged as `(lint)value`, without their
  fraction.  Two parallel tasks that leave 1.2 and 1.7 have no race for the checker.  `Tracer`
  converts as the code does (`Lint`), and `RacesAreReported` and `BlocksFaithful` speak of converted values.
* `AdfInstrumentor.cpp:347`: `PointerMayBeCaptured` is asked of the pointer operand, say an
  element of an array, and not of the variable it points into.  The array may be known to others when
  the pointer is not, although the comment at line 348 says that it "cannot be referenced from a different
  thread"; such an access gets no callback, and its race is not found.  In `Instrumentor`
  that pointer may hold the address of a shared one, and its accesses count as left out.
* `testscheduler.cpp:280`: the scheduler waits on its condition variable without a predicate, so a
  wake-up without a signal starts a second task, or lets `Start` return while one runs.  Tokens
  of different rounds may then meet in one run of a task.
* `testscheduler.cpp:40`: the status of a new thread is read and was never set; if the memory says
  "scheduled", the thread runs at once, beside another.
* `testscheduler.cpp:198`: priorities are never given back, so a program that starts more than
  `MAX_PRIORITY` runs of tasks never ends.
* `AdfInstrumentor.cpp:636`: a copy is replaced by a call of the C library, which the
  comment says is intercepted; nothing in the repository does, so the accesses are in no block.
* `worksteal.cpp:37`-`47`: the array that grows copies entries by the index modulo the new
  size in the old segment, to the index itself; once `bottom` has gone around the array, entries
  are lost, and `popBottom` may find NULL.  A thief may load the new size with the old segment, or
  a segment that was freed.  Growth while tasks are dispatched is right, and in `work_steal`.
* `TaskInfo.hpp:76`: the slots of a thread outlive its task, so a worker prints
  accesses of earlier tasks again, with the earlier task's id.
* `Logger.hpp:177`: the sender of a token is looked up by address and content, so a
  copy of other memory can match and invent an edge.
* `checker.cpp:239`: with workers, blocks come in the order in which tasks end, so a
  parent's bag may not be there, and the checker crashes.
* `checker.cpp:296`: duplicates go before the validation, and by lines only, so a
  conflict of a read and a write can go as the duplicate of one that is dropped.
* `operationSet.hpp:40`: a subtraction goes with additions whatever its operands, so
  `x = 0 - x` against `x = x + 2` is dropped and does not commute.  `PlainUpdate` therefore
  takes only numbers away; without that TLC finds the pair in `DroppedUpdatesCommute`.
* The one slot per address keeps the last write and loses the reads before it, so
  "outcome" in `RacesAreReported` is what a task leaves behind.
* Two sections of the IR log with the same name are one, and the last
  counts; the line of an access in a called function is looked up in the
  body of the caller; an operation that the validator has no name for (shifts,
  casts) is walked past, as if it had nothing to do with the value.
* An indirect call does not end the region in which a read may be dropped; when the called
  function throws, the write that stood for the read never comes (`TaskOver` leaves this out).
* `PassToken` from the main thread before `StartDataflow`: a task that gets ready is
  added by it and again by `InitPQueue`, or, in the pool, is pushed to the deque of a
  thread that is no worker.  The models begin when tasks are created and
  no token was passed, as in all the programs of the repository.

## What is proved

For every set of tasks, addresses and values, every window length, every order of blocks and
whatever the erased element yields (`CheckerProofs`): type correctness, `BagAccounting`,
`BagsHoldAncestors`, `BagsAreComplete`, `RacesInWindowReported`; while the log is ordered
`NeverCrashes`, `ReportsExplained` and the refinement
`DetectsRaces`: a step of the checker is one of `RaceDetector`, since a bag tells the same
as the ancestors do, but for those that one child links (`Overlooked`).

The inductive invariant adds to these: the two edge sets are converses of each other, and
become `inEdges` minus the inherited parent after the `B` line; edges lead from smaller to
larger ids, so there is no cycle; everything in a window belongs to a task that has begun.
`BagAccounting` needs the counter as the cardinality of the children not begun, which each
path takes down by one. Completeness of a bag goes by the closed-set form of `Ancestors`:
the bag, the parents and what is overlooked together are a closed set that has the parents.
What one child that inherits misses, any other child that is on the way has copied.
`RacesInWindowReported` needs the bags: a parallel task is never in the bag, so the
comparison is made, and what the set then drops is the same pair at the same address.

For every number of threads, slots, tasks and accesses (first part of `PipelineProofs`): type
correctness, `TokensAttributed`, `NoStreamMissed` in both builds; `NoEdgeInvented`
and `ParentsOlder` without stray copies; `ParentsLoggedFirst` with one task at a
time.  The inductive invariant says of each live token that its sender began before
the task that has it (`HeapInv`), that only tasks that have begun are in `idMap`,
that a task has a block if and only if it has begun and does not run (`LogInv`), and
in the default build that at most one task runs.

It also says that a function is registered once and before any line that has
its id (`FunctionsNamed`), that caches and slots agree with the registry (`NamesAgree`), and that
every line of a block is an access that its task made, in the function named (`LineInv`).

From these, `BlocksFaithful` in the default build.  The slot of an address is, after
every access, the last write of the task there or else its first read (`MemoryInv`), whatever
comes before; a later access changes that for its own address only (`Holds`).  Values are
those of the log, for any conversion `Lint`.

For every program and any number of threads (`DataflowProofs`): types and
capacities, `NoneWaitsBesideTokens`, that a task that is ready has all its tokens, and
`TasksInOnePlace`.  The invariant has a task in one place (`PlaceInv`) and somewhere
(`LiveInv`), and tells from the place how many tokens it has (`TokenInv`): a task in a queue
lacks the token of just that buffer, which is what makes `Give` safe without the lock.

There also `TokensConserved`.  The invariant (`ConserveInv`) says that the tokens passed to a
buffer are those in it, those it lost and those that went out (`CoverInv`), that what is in it is
younger than what went out (`OrderInv`), and that what went out is in one list of one task, with one
thread or used (`HolderInv`).  `LostInv` sets the lost apart from the rest.

And `TokensMatched`, with one task at a time and no overflow.  The comment at `buffer.cpp:180` is
unsure of it, since several instances of a task wait at one buffer and any may get there first.  The
invariant (`Matching`) counts for each pair of consecutive buffers of a task: what was taken
from the first was taken from the second, or its taker waits there, or one is on its way
(`Passing`).  So the `i`-th in the queue of a buffer will get the `i`-th token from now, which has the
number of the tokens it has (`Awaited`).  It needs that a buffer has one place in all
lists that have it, and that only one thread hands out tokens (`Single`).

Marking a ready task anew changes nothing of this (`MarkKeeps`).

`ThreadPoolProofs`: the pool implements `Dataflow` (the deques together are the ready tasks,
each once) and inherits its theorems, `TokensConserved` among them; `RegionDoneLast` for
finite sets of tasks and workers, where the counter is the number of ready tasks and of
those that some worker has between taking and `Retire` (`CountInv`): so it is 0 only if all
are stopped or queued, and then `NoneWaitsBesideTokens` says that no token is there.

`TestSchedulerProofs`: the default scheduler implements `Dataflow`, and until it is
disturbed with one task at a time; so `TokensMatched` holds of it until then, and
`StartReturnsLast`; `NoneWaitsBesideTokens` throughout.  The invariant says who has the turn
(`TurnInv`: the thread picked last, while the scheduler sleeps), and that the threads that
have not begun and the ready tasks are one to one (`PendingInv`, `ServedInv`).

`WorkStealProofs`: for any number of tasks and thieves and any size of the array,
`KeepsPromise` (the refinement of `TaskDeque`), `PopAnswers` and that each task is in one
place, until a disturbance; nothing is assumed of fences or of when tasks are pushed.  The
invariant has three sides.  The owner's: the entries from `top` to `Bottom` are tasks, one
entry of the array is free, and what the owner has read of `top` is not ahead of it
(`QueueInv`, `OwnerInv`).  The others': whatever a thief may see of `bottom` and the array,
now or after any of the pending stores, an entry it takes for part of the queue holds what
it will hold when all stores are done (`ViewInv`); that is where stores in order are needed.
The thief's: if its exchange will succeed, it has read the head of the queue, which is not
the entry that the owner takes without an exchange (`ThiefInv`); this is what a pop that has
overtaken its own store breaks.  `OnceInv` has each task in one place, so an entry that is
overwritten is none that anybody will take.

`InstrumentorProofs`: for every function, path, number of blocks, and pointers that may be
aliases, `TypeOK`, `TokensReported` and `AccessesLogged`.  The invariant says of the pass
that the accesses collected are those since the last call in the block, in order, and that
an access is chosen if and only if its pointer is not judged uncaptured, it is not a read of
constant data, and not a load before a store through the same pointer with no call between
(`ScanInv`); so what is inserted is known for each instruction (`Callbacks`, `TodoInv`).  Of
the run it says that what the tracer has at an address is the outcome of the accesses it was
told of (`MemoryInv`), and that a read it was not told of has been followed by a write to
the same address that it was told of, or that such a store is ahead in the block
(`DroppedInv`); then the read changes no outcome (`SameOutcome`).  It is here that a call
ends a stretch: what is ahead is reached, unless an indirect call throws.  `ReportInv` has
the tokens told one ahead of those copied between the callback and the copy.

`PipelineProofs`: the logs that the tracer writes meet what `Checker` takes for
granted (`ToolRunsChecker`), so all of the above
holds of the composition, and a name that is looked up is there.  The invariant ties the edges, the names
and the lines read to those in the logs (`ReaderInv`, `EdgesRead`, `KnownInv`).  From
both together follow, end to end: `FalseReportsExplained` in the default build, whatever is copied,
`ReportedAccessesMade` in both builds, and that the default build never crashes.
`NoEdgeInvented`, `FuncsNamedFirst` and `BlocksFaithful` hold of the logs the checker reads, since
the steps of the tool are steps of `Tracer` or leave its variables alone.

There too `RacesAreReported` in the default build, as long as no stray copy was taken for a token, if no
more tasks run than a window has entries.  Each task has one
line per address, so no window overflows (`OneLineInv`), and what is read stays in it
(`KeptInv`); with `BlocksFaithful` the outcomes of both tasks are there, and
`RacesInWindowReported` does the rest.  `SummaryFaithful` in both builds.

`ValidatorProofs`, for any code, any number of sections, pairs of tasks and conflicts, and
whatever is read before it is set: `WalkFollowsDataFlow`, that the walk back from a store is
safe exactly if no call has part in the value and the operations that lead to it, with those
met before, are of one kind, and that it then has collected all of them; from it
`VerdictsByDataFlow`, `ReadWriteKept` and `PlainUpdatesDropped`.  The recursive functions
`IsSafe`, `Wanted` and `BodyOf` reach the prover as a choice of a function that satisfies an
equation, so the module first proves that there is one (`Recursion`) and that what is chosen
has its values (`WalkSteps`, `WantedSteps`, `BodyStepsOf`).  Those and the proofs along a
body go by the least number that a statement fails for (`LeastNat`, `UpInduction`): a set of
numbers takes the place of the predicate that the induction theorems of the library have as
a parameter.  The walk is right at every position for every name and every set of operations
seen (`RightAll`), since one step of it splits the data flow as `Before` does (`RightBack`).
The invariant of the loops (`VInv`) says that every pair of names and lines that was seen is
in a report that was visited (`DuplicatesInv`), that the reports visited have nothing that
is safe, and that each conflict, or one that looks like it, is in a report or was found safe
(`VerdictInv`).  `PlainUpdatesDropped` takes a second one (`CodeInv`): a section that has
its name alone is kept as it is but for what has no line, so the last instruction kept is
the store that the trace has the line of.

Assumed are only the `ASSUME`s on the constants (task ids are natural numbers, reads are
logged with value 0, `NULL` is none of the values, a task that waits at first does so at its
first buffer, the owner of a deque is no thief, code is `WellFormed`, `PassToken` copies its
token with `memcpy`, `adf.cpp:178`, the IR log has a section for each task) and what a
theorem names in its statement.

Only model-checked: all liveness (`StartDoesReturn`, `RegionGetsDone`, `EveryTaskTaken`),
which is beyond the prover, and `ReaderNotStuck`, which has an `ENABLED`; and
`DroppedUpdatesCommute`, which compares values that `Effect` computes: that code which uses
each value once adds or scales is a matter of all paths through it, and `Commute` tries
numbers (`Samples`), as a check does.

## Not modelled

* LLVM's rewriting of the IR as such: of the passes there is which callback comes
  before which instruction.  Accesses of vtables, and unaligned ones and those of 2 or 16 bytes, whose
  callbacks do not exist, so that the program does not link, are left out.
* The splitting of an instruction's text into words, and of demangled names: names are
  opaque in `Validator` and sets of signatures in `Instrumentor`.
* The deque with a lock and the reserved task, which are not compiled; the array of the bind
  queue, which grows by the same function, under a lock.  Processors that reorder more than x86.
* A second `INS_Init` in one process: no program starts the runtime twice.
* What the runs print, the `.sif` and `.js` graphs, the timing and statistics.
* The test programs and the benchmarks: workloads.
* Transactions: `TransactionBegin` and `TransactionEnd` have no caller.

## Plan

Done: all modules above, and the proofs of the safety of `Checker`, `Tracer`, `Instrumentor`,
`Dataflow`, both schedulers, `WorkSteal`, `Validator` and `Pipeline`.  Left, in this order:

1. `Validator` after `Checker` in one module: conflicts of a real log with bodies that make them.
2. `ThreadPool` over the deque of `WorkSteal`: what a task that is run twice
   does to the tokens and to the counter.

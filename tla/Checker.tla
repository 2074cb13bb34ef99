------------------------------- MODULE Checker -------------------------------
(***************************************************************************)
(* The offline analysis of DFinspec (detector/checker.cpp).                *)
(*                                                                         *)
(* The detector reads two logs.  The happens-before log gives one edge     *)
(* "child parent" per line; the trace gives, per task, a block of lines:   *)
(* the B line that opens it and one R or W line per memory location.       *)
(* While it reads the trace the checker keeps, per task that may still     *)
(* have unread children, a serial bag: the tasks that happened before it   *)
(* and the number of children that have not asked for the bag yet.  Per    *)
(* address it keeps a short window of past accesses; an access that        *)
(* conflicts with one in the window, made by a task that is not in the     *)
(* bag, is recorded as a source of nondeterminism.                         *)
(*                                                                         *)
(* The logs are the environment: phase, begun, block and fresh are the     *)
(* position of the reader in them, everything else is a member of class    *)
(* Checker.  The handlers take any line; which lines come is up to Next:   *)
(* one block per task and one line per address in it, edges from older to  *)
(* younger tasks, functions named once and before their ids are used.  Of  *)
(* the logs with this form, those of the default build of the runtime are  *)
(* "ordered": it runs one task at a time, each on a thread of its own, so  *)
(* blocks come parents first and have the lines of their task.  The thread *)
(* pool flushes blocks in any order, and a worker that runs a second task  *)
(* prints the first one's accesses again.                                  *)
(***************************************************************************)
EXTENDS Integers, FiniteSets, Sequences, TaskGraph

CONSTANTS
  Tasks,           (* Task ids.  The tracer numbers tasks when they begin. *)
  Addrs,           (* Memory addresses.                                    *)
  Values,          (* Values read or written.                              *)
  Funcs,           (* Names of functions that make accesses.               *)
  FuncIds,         (* The ids the tracer gives them.                       *)
  CONC_THREASHOLD, (* Length of the window kept per address.               *)
  NULL             (* No serial bag.                                       *)

SerialBag == [outBufferCount : Int, HB : SUBSET Tasks]
\* The tracer logs 0 as the value of every read.
Action    == {a \in [taskId : Tasks, addr : Addrs, value : Values,
                     funcId : FuncIds, isWrite : BOOLEAN] : ~a.isWrite => a.value = 0}
Conflict  == [action1 : Action, action2 : Action]

ASSUME TasksAssumption  == Tasks \subseteq Nat /\ IsFiniteSet(Tasks)
ASSUME WindowAssumption == CONC_THREASHOLD \in Nat \ {0}
ASSUME ValuesAssumption == 0 \in Values
\* The checker exits at a line with function id 0; the tracer counts from 1.
ASSUME FuncsAssumption  == FuncIds \subseteq Nat \ {0}
ASSUME NullAssumption   == NULL \notin SerialBag /\ NULL \notin Tasks

VARIABLES
  inEdges,         (* graph[t].inEdges: parents not yet merged into t      *)
  outEdges,        (* graph[t].outEdges: children of t                     *)
  serial_bags,     (* the bag of each task, NULL when there is none        *)
  writes,          (* per address, the window of past accesses             *)
  conflictTable,   (* the conflicts recorded, over all pairs of tasks      *)
  functions,       (* SigManager: pairs <<id, name>> of functions          *)
  crashed,         (* a NULL bag was dereferenced or an assertion failed   *)
  phase,           (* which of the two logs is being read                  *)
  begun,           (* tasks whose B line has been read                     *)
  block,           (* the task whose block is being read                   *)
  fresh,           (* addresses that have no line yet in this block        *)
  ordered          (* history: parents first so far, and no line of an     *)
                   (* earlier task                                         *)

checkerVars == <<inEdges, outEdges, serial_bags, writes, conflictTable,
                 functions, crashed>>
logVars     == <<phase, begun, block, fresh, ordered>>
vars        == <<checkerVars, logVars>>

-----------------------------------------------------------------------------
(* The happens-before log.                                                 *)

\* One line "sib par".
AddTaskNode(sib, par) ==
  /\ phase = "hblog"
  /\ outEdges' = [outEdges EXCEPT ![par] = @ \union {sib}]
  /\ inEdges'  = [inEdges EXCEPT ![sib] = @ \union {par}]
  /\ UNCHANGED <<serial_bags, writes, conflictTable, functions, crashed, logVars>>

EndOfHBLog ==
  /\ phase = "hblog"
  /\ phase' = "trace"
  /\ UNCHANGED <<checkerVars, begun, block, fresh, ordered>>

-----------------------------------------------------------------------------
(* B lines.                                                                *)

\* The reader reaches the block of t.
OpenBlock(t) ==
  /\ phase = "trace" /\ ~crashed
  /\ begun' = begun \union {t}
  /\ block' = t
  /\ fresh' = Addrs
  /\ ordered' = (ordered /\ inEdges[t] \subseteq begun)
  /\ UNCHANGED phase

MissingParentBag(t) == \E p \in inEdges[t] : serial_bags[p] = NULL

\* A bag whose only remaining reader is t can be taken over by t.
Inheritable(t) == {p \in inEdges[t] : serial_bags[p].outBufferCount = 1}

\* Mistakes in counting: the count is tested before it is taken down; the bag
\* goes one reader early.
ReleaseLate(bag) ==
  IF bag.outBufferCount = 0 THEN NULL ELSE [bag EXCEPT !.outBufferCount = @ - 1]
ReleaseEarly(bag) ==
  IF bag.outBufferCount <= 2 THEN NULL ELSE [bag EXCEPT !.outBufferCount = @ - 1]

\* One reader fewer; the last one removes the bag.
Release(bag) ==
  IF bag.outBufferCount = 1 THEN NULL
  ELSE [bag EXCEPT !.outBufferCount = @ - 1]

\* Mistakes in merging: the parents themselves are not inserted; the sets are
\* inserted the wrong way round, from the child's bag into the parent's.
AbsorbBagsOnly(own, rest) ==
  own \union UNION {serial_bags[p].HB : p \in rest}
MergeBackwards(t, taken, own, rest) ==
  serial_bags' = [q \in Tasks |->
    IF q = t THEN [outBufferCount |-> Cardinality(outEdges[t]), HB |-> own]
    ELSE IF q \in taken THEN NULL
    ELSE IF q \in rest
         THEN Release([serial_bags[q] EXCEPT !.HB = @ \union own \union rest])
    ELSE serial_bags[q]]

\* The parents and whatever happened before them happened before the child.
Absorb(own, rest) ==
  own \union rest \union UNION {serial_bags[p].HB : p \in rest}

\* t gets a bag that starts as own and absorbs those of its parents in rest;
\* the bags of the parents in taken are gone.
MergeBags(t, taken, own, rest) ==
  serial_bags' = [q \in Tasks |->
    IF q = t THEN [outBufferCount |-> Cardinality(outEdges[t]),
                   HB |-> Absorb(own, rest)]
    ELSE IF q \in taken THEN NULL
    ELSE IF q \in rest THEN Release(serial_bags[q])
    ELSE serial_bags[q]]

\* A task with no parents: an empty bag.
BeginRoot(t) ==
  /\ OpenBlock(t)
  /\ inEdges[t] = {}
  /\ IF serial_bags[t] = NULL
     THEN MergeBags(t, {}, {}, {})
     ELSE UNCHANGED serial_bags
  /\ UNCHANGED <<inEdges, outEdges, writes, conflictTable, functions, crashed>>

\* Every parent's bag has other readers: t starts from an empty bag.
BeginClone(t) ==
  /\ OpenBlock(t)
  /\ inEdges[t] # {} /\ ~MissingParentBag(t) /\ Inheritable(t) = {}
  /\ MergeBags(t, {}, {}, inEdges[t])
  /\ UNCHANGED <<inEdges, outEdges, writes, conflictTable, functions, crashed>>

\* What reading the element of an erased node yields: the element, or what the
\* allocator has written over it, a number that is no task's.
StaleRead == {"intact", "clobbered"}

\* Some parent's bag has no other reader: t takes it over.  The code erases p
\* from inEdges[t] and only then inserts *inEdge, the element it has just
\* erased, into the bag.  The set is unordered, so any such p may be met first.
BeginInherit(t, p, stale) ==
  /\ OpenBlock(t)
  /\ ~MissingParentBag(t) /\ p \in Inheritable(t)
  /\ inEdges' = [inEdges EXCEPT ![t] = @ \ {p}]
  /\ MergeBags(t, {p},
               serial_bags[p].HB \union IF stale = "intact" THEN {p} ELSE {},
               inEdges[t] \ {p})
  /\ UNCHANGED <<outEdges, writes, conflictTable, functions, crashed>>

\* A parent has no bag: serial_bags[parent] is NULL and is dereferenced.
BeginCrash(t) ==
  /\ OpenBlock(t)
  /\ MissingParentBag(t)
  /\ crashed' = TRUE
  /\ UNCHANGED <<inEdges, outEdges, serial_bags, writes, conflictTable, functions>>

-----------------------------------------------------------------------------
(* R and W lines.                                                          *)

\* Mistakes in comparing and remembering accesses: only reads are checked
\* against earlier writes; the bag is not asked; the window overflows by one;
\* it keeps its oldest entries.
InterferesReadAfterWrite(a, b) ==
  \/ a.isWrite /\ b.isWrite /\ a.value # b.value
  \/ ~a.isWrite /\ b.isWrite
ConflictsUnordered(a, w) ==
  /\ a.taskId # w.taskId
  /\ \/ a.isWrite /\ w.isWrite /\ a.value # w.value
     \/ a.isWrite # w.isWrite
RememberOneMore(window, a) ==
  Append(IF Len(window) > CONC_THREASHOLD THEN Tail(window) ELSE window, a)
RememberOldest(window, a) ==
  IF Len(window) >= CONC_THREASHOLD THEN window ELSE Append(window, a)

\* Two accesses whose order changes the outcome: writes of different values,
\* or a read and a write.
Interferes(a, b) ==
  \/ a.isWrite /\ b.isWrite /\ a.value # b.value
  \/ a.isWrite # b.isWrite

\* The current access a is parallel to the stored access w and interferes.
ConflictsWith(a, w) ==
  /\ a.taskId # w.taskId
  /\ w.taskId \notin serial_bags[a.taskId].HB
  /\ Interferes(a, w)

\* Conflicts are sorted by operator<, which says "smaller" whenever action1
\* has the smaller task id, and compares addresses otherwise.  So a report
\* whose action1 has the larger id is dropped when its pair already has one
\* for that address.
Recorded(a, b) ==
  \E c \in conflictTable :
    /\ c.action1.taskId = a.taskId
    /\ c.action2.taskId = b.taskId
    /\ c.action1.addr = a.addr

NewConflicts(a) ==
  LET window == writes[a.addr]
      hits   == {i \in DOMAIN window : ConflictsWith(a, window[i])}
  IN  {[action1 |-> a, action2 |-> window[i]] : i \in
         {i \in hits : a.taskId < window[i].taskId
                       \/ /\ ~Recorded(a, window[i])
                          /\ \A j \in hits : j < i =>
                               window[j].taskId # window[i].taskId}}

Remember(window, a) ==
  Append(IF Len(window) >= CONC_THREASHOLD THEN Tail(window) ELSE window, a)

\* The bag of the current task is looked up for each access of another task.
NeedsBag(a) ==
  \E i \in DOMAIN writes[a.addr] : writes[a.addr][i].taskId # a.taskId

ReadLine(a) ==
  /\ phase = "trace" /\ ~crashed
  /\ fresh' = fresh \ {a.addr}
  /\ ordered' = (ordered /\ a.taskId = block)
  /\ UNCHANGED <<phase, begun, block>>

SaveTaskActions(a) ==
  /\ ReadLine(a)
  /\ IF NeedsBag(a) /\ serial_bags[a.taskId] = NULL
     THEN /\ crashed' = TRUE
          /\ UNCHANGED <<conflictTable, writes>>
     ELSE /\ conflictTable' = conflictTable \union NewConflicts(a)
          /\ writes' = [writes EXCEPT ![a.addr] = Remember(@, a)]
          /\ UNCHANGED crashed
  /\ UNCHANGED <<inEdges, outEdges, serial_bags, functions>>

-----------------------------------------------------------------------------
(* F lines.                                                                *)

Named(id) == \E f \in Funcs : <<id, f>> \in functions

\* An id is given once: addFuncName asserts that it has no name yet.
AddFuncName(id, f) ==
  /\ phase = "trace" /\ ~crashed
  /\ crashed' = Named(id)
  /\ functions' = IF Named(id) THEN functions ELSE functions \union {<<id, f>>}
  /\ UNCHANGED <<inEdges, outEdges, serial_bags, writes, conflictTable, logVars>>

\* The name printed for the id of an access; getFuncName asserts that it has one.
GetFuncName(id) == CHOOSE f \in Funcs : <<id, f>> \in functions

-----------------------------------------------------------------------------
Init ==
  /\ inEdges       = [t \in Tasks |-> {}]
  /\ outEdges      = [t \in Tasks |-> {}]
  /\ serial_bags   = [t \in Tasks |-> NULL]
  /\ writes        = [x \in Addrs |-> <<>>]
  /\ conflictTable = {}
  /\ functions     = {}
  /\ crashed       = FALSE
  /\ phase         = "hblog"
  /\ begun         = {}
  /\ block         = NULL
  /\ fresh         = {}
  /\ ordered       = TRUE

Begin(t) ==
  \/ BeginRoot(t)
  \/ BeginClone(t)
  \/ \E p \in Tasks, stale \in StaleRead : BeginInherit(t, p, stale)
  \/ BeginCrash(t)

\* A line that the block being read can have: the only one of its address, of a
\* function that has a name by now, and an access of the block's task or of one
\* that the same worker ran before.
LineExpected(a) == a.addr \in fresh /\ a.taskId \in begun /\ Named(a.funcId)

\* The logs of the tracer: a parent was numbered before its children, a task has
\* one block, and a function is named once.
Next ==
  \/ \E sib, par \in Tasks : par < sib /\ AddTaskNode(sib, par)
  \/ EndOfHBLog
  \/ \E t \in Tasks \ begun : Begin(t)
  \/ \E a \in Action : LineExpected(a) /\ SaveTaskActions(a)
  \/ \E id \in FuncIds, f \in Funcs : ~Named(id) /\ AddFuncName(id, f)

Spec == Init /\ [][Next]_vars

-----------------------------------------------------------------------------
(* Properties.                                                             *)

\* Every variable has its type, and no window is longer than it may be.
TypeOK ==
  /\ inEdges \in [Tasks -> SUBSET Tasks]
  /\ outEdges \in [Tasks -> SUBSET Tasks]
  /\ serial_bags \in [Tasks -> SerialBag \union {NULL}]
  /\ writes \in [Addrs -> Seq(Action)]
  /\ \A x \in Addrs : Len(writes[x]) <= CONC_THREASHOLD
  /\ conflictTable \subseteq Conflict
  /\ functions \subseteq FuncIds \X Funcs
  /\ crashed \in BOOLEAN
  /\ phase \in {"hblog", "trace"}
  /\ begun \subseteq Tasks
  /\ block \in Tasks \union {NULL}
  /\ fresh \subseteq Addrs
  /\ ordered \in BOOLEAN

\* A bag lives exactly as long as it is needed: from its task's B line until
\* the last child has asked for it (forever when there is no child), and its
\* counter is the number of children still to come.  The inherit, merge and
\* release paths of the B line share this counter.
BagAccounting ==
  ~crashed => \A t \in Tasks :
    LET waiting == outEdges[t] \ begun IN
    /\ serial_bags[t] # NULL <=>
         t \in begun /\ (outEdges[t] = {} \/ waiting # {})
    /\ serial_bags[t] # NULL =>
         serial_bags[t].outBufferCount = Cardinality(waiting)

\* A bag never holds a task that is not an ancestor of its owner: however the
\* bags of the parents are taken over and merged, no race is hidden by a
\* happens-before edge the program does not have.
BagsHoldAncestors ==
  \A t \in Tasks : serial_bags[t] # NULL =>
    serial_bags[t].HB \subseteq Ancestors(outEdges, t)

\* Only one child of p leads to t, and that child took over the bag of p.
Overlooked(p, t) ==
  /\ OneWay(outEdges, p, t)
  /\ \A v \in OnTheWay(outEdges, p, t) : p \notin inEdges[v]

\* ... and of the ancestors, whose own bags are long gone, it misses none but
\* those whose bag was taken over by the one child through which all paths go:
\* the read after the erase loses no more than that, since any other child got a
\* copy with the parent in it.
BagsAreComplete ==
  \A t \in Tasks : serial_bags[t] # NULL =>
    \A p \in Ancestors(outEdges, t) \ serial_bags[t].HB : Overlooked(p, t)

Parallel(s, t) ==
  /\ s # t
  /\ s \notin Ancestors(outEdges, t)
  /\ t \notin Ancestors(outEdges, s)

\* Accesses of tasks ordered by the streams are never reported while the log is
\* ordered (checker.cpp:27: "a previous write in a happens-before -> just save").
\* The read after the erase breaks this.
OnlyParallelTasksReported ==
  ordered => \A c \in conflictTable : Parallel(c.action1.taskId, c.action2.taskId)

\* What may be reported instead: while the log is ordered, of a pair that is not
\* parallel the second task precedes the first by paths that all begin with one
\* child, and that child took over its bag.  A pair that two ways through different
\* children order is never reported.
ReportsExplained ==
  ordered => \A c \in conflictTable :
    \/ Parallel(c.action1.taskId, c.action2.taskId)
    \/ Overlooked(c.action2.taskId, c.action1.taskId)

Reported(s, t, x) ==
  \E c \in conflictTable :
    /\ {c.action1.taskId, c.action2.taskId} = {s, t}
    /\ c.action1.addr = x

\* Two accesses in the window of an address, of parallel tasks and whose order
\* matters, are on record for that pair of tasks and that address: neither the
\* bags nor the way the set of conflicts drops entries loses a race.
RacesInWindowReported ==
  \A x \in Addrs : \A i, j \in DOMAIN writes[x] :
    LET a == writes[x][i]  b == writes[x][j] IN
    Interferes(a, b) /\ Parallel(a.taskId, b.taskId)
      => Reported(a.taskId, b.taskId, x)

\* The checker never looks into a bag that is not there while the log is ordered.
NeverCrashes == ordered => ~crashed

\* The serial bags, the merging and the dropping of entries together implement
\* a detector that decides by the task graph alone, for as long as the log is
\* ordered.
Ideal == INSTANCE RaceDetector WITH
  succ   <- outEdges,
  recent <- writes,
  races  <- {[tasks |-> {c.action1.taskId, c.action2.taskId},
              addr  |-> c.action1.addr] : c \in conflictTable},
  Window <- CONC_THREASHOLD
DetectsRaces == Ideal!Init /\ [][ordered' => Ideal!Next]_(Ideal!vars)
==============================================================================

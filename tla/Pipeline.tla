------------------------------ MODULE Pipeline ------------------------------
(***************************************************************************)
(* The whole of DFinspec: an instrumented program runs and is traced, its  *)
(* logs are closed, and the checker (detector/main.cpp) reads the          *)
(* happens-before log and then the trace.  The program is module Tracer,   *)
(* which this module extends with the reader of its logs; the reader works *)
(* on an instance of Checker.  So what is reported can be compared with    *)
(* what the tasks really did.                                              *)
(***************************************************************************)
EXTENDS Tracer, FiniteSets, TaskGraph

CONSTANTS
  CONC_THREASHOLD,  (* The size of a window of the checker: 5.              *)
  MaxShown          (* How many addresses are printed per pair of tasks: 10. *)

ASSUME ShownAssumption == MaxShown \in Nat \ {0}

VARIABLES
  inEdges, outEdges, serial_bags, writes, conflictTable, functions, crashed, phase,
  begun, block, fresh, ordered,
  traced,     (* the program has ended and the logs are closed             *)
  hbLeft,     (* lines of the happens-before log not yet read              *)
  position,   (* entries of the trace whose first line has been read       *)
  linesLeft,  (* lines of the current block not yet read                   *)
  report      (* what is printed: conflicts with the names of functions    *)

Detector == INSTANCE Checker WITH Tasks <- 0..(MaxTasks - 1), FuncIds <- Nat \ {0}

ASSUME DetectorAssumption == CONC_THREASHOLD \in Nat \ {0}
ASSUME NullAssumption == NULL \notin Detector!SerialBag

\* vars are the variables of the program.
detectorVars == <<inEdges, outEdges, serial_bags, writes, conflictTable, functions,
                  crashed, phase, begun, block, fresh, ordered>>
readerVars   == <<hbLeft, position, linesLeft, report>>
toolVars     == <<vars, detectorVars, traced, readerVars>>

ToolInit ==
  /\ Init
  /\ Detector!Init
  /\ traced = FALSE
  /\ hbLeft = {} /\ position = 0 /\ linesLeft = {} /\ report = NULL

-----------------------------------------------------------------------------
\* A step of the program that is traced.
Run ==
  /\ ~traced
  /\ Next
  /\ UNCHANGED <<detectorVars, traced, readerVars>>

\* The program ends when no task runs: INS_Fini writes the happens-before log
\* and closes both.
Finalize ==
  /\ ~traced
  /\ \A th \in Threads : ~taskInfo[th].active
  /\ traced' = TRUE
  /\ hbLeft' = HBloggerBuffer
  /\ UNCHANGED <<vars, detectorVars, position, linesLeft, report>>

ReadEdge ==
  \E e \in hbLeft :
    /\ Detector!AddTaskNode(e[1], e[2])
    /\ hbLeft' = hbLeft \ {e}
    /\ UNCHANGED <<vars, traced, position, linesLeft, report>>

OpenTrace ==
  /\ traced /\ hbLeft = {}
  /\ Detector!EndOfHBLog
  /\ UNCHANGED <<vars, traced, readerVars>>

ReadBlock ==
  /\ phase = "trace" /\ linesLeft = {} /\ position < Len(logger)
  /\ logger[position + 1].kind = "block"
  /\ Detector!Begin(logger[position + 1].task)
  /\ position' = position + 1
  /\ linesLeft' = logger[position + 1].lines
  /\ UNCHANGED <<vars, traced, hbLeft, report>>

ReadName ==
  /\ phase = "trace" /\ linesLeft = {} /\ position < Len(logger)
  /\ logger[position + 1].kind = "F"
  /\ Detector!AddFuncName(logger[position + 1].id, logger[position + 1].func)
  /\ position' = position + 1
  /\ UNCHANGED <<vars, traced, hbLeft, linesLeft, report>>

\* printMemoryActions goes over an unordered map: any line may be next.
ReadAccess ==
  \E a \in linesLeft :
    /\ Detector!SaveTaskActions(a)
    /\ linesLeft' = linesLeft \ {a}
    /\ UNCHANGED <<vars, traced, hbLeft, position, report>>

AllRead ==
  phase = "trace" /\ position = Len(logger) /\ linesLeft = {}

OfPair(conflicts, s, t) ==
  {c \in conflicts : c.action1.taskId = s /\ c.action2.taskId = t}

\* What is printed of a conflict.
Entry(c) ==
  [tasks |-> <<c.action1.taskId, c.action2.taskId>>, addr |-> c.action1.addr,
   func1 |-> Detector!GetFuncName(c.action1.funcId),
   func2 |-> Detector!GetFuncName(c.action2.funcId)]

\* The summary: of each pair of tasks the first MaxShown conflicts, in the order
\* of the set.  A name that is not there stops the checker.
ReportConflicts ==
  /\ AllRead /\ ~crashed /\ report = NULL
  /\ \E shown \in SUBSET conflictTable :
       /\ \A s, t \in TaskIds :
            LET all == OfPair(conflictTable, s, t)  some == OfPair(shown, s, t) IN
            some = all \/ (Cardinality(some) = MaxShown /\ Cardinality(all) > MaxShown)
       /\ \A s, t \in TaskIds : Cardinality(OfPair(shown, s, t)) <= MaxShown
       /\ IF \A c \in shown : Detector!Named(c.action1.funcId)
                              /\ Detector!Named(c.action2.funcId)
          THEN /\ report' = {Entry(c) : c \in shown}
               /\ UNCHANGED detectorVars
          ELSE /\ crashed' = TRUE
               /\ UNCHANGED <<inEdges, outEdges, serial_bags, writes, conflictTable,
                              functions, phase, begun, block, fresh, ordered,
                              report>>
  /\ UNCHANGED <<vars, traced, hbLeft, position, linesLeft>>

ReadLogs ==
  ReadEdge \/ OpenTrace \/ ReadBlock \/ ReadName \/ ReadAccess \/ ReportConflicts

ToolNext == Run \/ Finalize \/ ReadLogs

ToolSpec == ToolInit /\ [][ToolNext]_toolVars

-----------------------------------------------------------------------------
(* Properties.                                                             *)

\* The order of the tasks by the tokens they really copied.
Happened == [p \in TaskIds |-> {t \in TaskIds : <<t, p>> \in streams}]
ReallyParallel(s, t) ==
  /\ s # t
  /\ s \notin Ancestors(Happened, t)
  /\ t \notin Ancestors(Happened, s)

\* The line a tells of the access done.
Tells(a, done) ==
  a.addr = done.addr /\ a.isWrite = done.isWrite /\ a.value = Lint[done.value]

Did(a) == \E k \in DOMAIN performed[a.taskId] : Tells(a, performed[a.taskId][k])

\* Task t made an access of x in function f.
DidIn(t, x, f) ==
  \E k \in DOMAIN performed[t] : performed[t][k].addr = x /\ performed[t][k].func = f

\* The tasks of a report are ordered by no token, directly or through other
\* tasks: the tracer attributed every token that matters to its sender, and the
\* bags carried that to the tasks further down.  The exception is what the
\* checker loses by reading an element it has erased (checker.cpp:244): the
\* earlier task is linked to the later one through one child only, which took
\* over its bag.
FalseReportsExplained ==
  \A c \in conflictTable :
    \/ ReallyParallel(c.action1.taskId, c.action2.taskId)
    \/ Detector!Overlooked(c.action2.taskId, c.action1.taskId)

\* Both tasks of a report made the accesses it names, on one address and in a
\* way that the order matters: no access of one task is laid to another's.
ReportedAccessesMade ==
  \A c \in conflictTable :
    /\ Did(c.action1) /\ Did(c.action2)
    /\ c.action1.addr = c.action2.addr
    /\ Detector!Interferes(c.action1, c.action2)

\* The summary shows every pair of tasks with a conflict, and of each address it
\* shows, the names of functions in which these two tasks did access it: ids are
\* resolved to the right names, over the caches of the threads, the registry of
\* the tracer and that of the checker.
SummaryFaithful ==
  report # NULL =>
    /\ \A c \in conflictTable :
         \E r \in report : r.tasks = <<c.action1.taskId, c.action2.taskId>>
    /\ \A r \in report : DidIn(r.tasks[1], r.addr, r.func1)
                         /\ DidIn(r.tasks[2], r.addr, r.func2)

\* When the logs are read, any two parallel tasks whose outcomes at an address
\* interfere are reported there, as long as all lines of an address fit into a
\* window and no stray copy was taken for a token.  Outcomes are compared as
\* lint: two floats that differ in the fraction only are equal to the tool, and
\* that race is not reported.
RacesAreReported ==
  AllRead /\ ~crashed /\ NoEdgeInvented => \A s, t \in TaskIds :
    ReallyParallel(s, t) => \A a \in Summary(s), b \in Summary(t) :
      a.addr = b.addr /\ Detector!Interferes(a, b) => Detector!Reported(s, t, a.addr)

\* The checker gets through whatever the tracer has logged in the default build:
\* it stops only when its summary is printed, so no line is unexpected and none
\* makes it crash.
ReaderNotStuck == traced /\ ~ENABLED ReadLogs => report # NULL
=============================================================================

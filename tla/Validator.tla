------------------------------ MODULE Validator ------------------------------
(***************************************************************************)
(* The validation of the conflicts found (detector/validator.cpp and       *)
(* Checker::checkCommutativeOperations).                                   *)
(*                                                                         *)
(* When the trace is read, the checker reads the LLVM code of the task     *)
(* bodies, drops conflicts that repeat the same two lines of the same two  *)
(* bodies, and then drops those of two writes that it takes to commute: a  *)
(* walk back over the code from each of the two stores meets nothing but   *)
(* additions and subtractions, or nothing but multiplications and          *)
(* divisions.  Reports that are left empty go.                             *)
(*                                                                         *)
(* A body is a sequence of instructions over names of values and           *)
(* locations.  Names are opaque: of the text of an instruction there is    *)
(* only the set of names in it.                                            *)
(***************************************************************************)
EXTENDS Integers, FiniteSets, Sequences, TaskCode

CONSTANTS
  IRlogs,        (* IR logs: sequences of a task name and its code         *)
  CodeOf,        (* CodeOf[t] is the section of the log that task t runs   *)
  Pairs,         (* pairs of tasks in conflict                             *)
  CalleeLines,   (* lines of writes in functions that tasks call           *)
  GarbageOpers,  (* what an operation that was never set may turn out to be*)
  MaxConflicts   (* bound on the conflicts recorded                        *)

ASSUME CodeAssumption ==
  \A log \in IRlogs, p \in Pairs : CodeOf[p[1]] \in DOMAIN log /\ CodeOf[p[2]] \in DOMAIN log
ASSUME TypeAssumption ==
  /\ \A log \in IRlogs : log \in Seq([name : STRING, code : Seq(Instruction)])
  /\ CalleeLines \subseteq Int /\ GarbageOpers \subseteq STRING
ASSUME BoundAssumption == MaxConflicts \in Nat

VARIABLES
  IRlog,         (* the IR log                                             *)
  Tasks,         (* the code kept per task name                            *)
  conflictTable, (* the reports: per pair of tasks the conflicts           *)
  conflictTasksAndLines, (* names and lines already seen                   *)
  phase,         (* the part of main that runs                             *)
  left,          (* the reports its loop has not visited                   *)
  recorded       (* history: all conflicts recorded                        *)

vars == <<IRlog, Tasks, conflictTable, conflictTasksAndLines, phase, left, recorded>>

-----------------------------------------------------------------------------
(* The code.                                                               *)

\* Of an instruction of no known kind nothing is set but its text.
Unset(instr, garbage) ==
  [instr EXCEPT !.oper = garbage, !.destination = "", !.operand1 = "", !.operand2 = ""]

\* Mistakes: subtractions only go with subtractions; all operations commute.
CommutativeIfSame(ops, op) == ops \subseteq {op}
CommutativeAlways(ops, op) == TRUE

\* Does op commute with the operations seen before?
IsCommutative(ops, op) ==
  \/ op \in Sums /\ ops \subseteq Sums
  \/ op \in Products /\ ops \subseteq Products

AppendOperation(ops, op) == ops \union {op}

\* The walk back from position index for the value of operand.  Are the
\* operations it meets compatible with each other and with those in seen?
IsSafe(body, index, operand, seen) ==
  LET safe[loc \in 0..Len(body)] == [name \in Operands |-> [ops \in SUBSET Arith |->
    IF loc = 0 THEN [ok |-> TRUE, ops |-> ops]
    ELSE LET i    == body[loc]
             hit  == i.destination = name
             stop == [ok |-> FALSE, ops |-> ops]
    IN CASE i.oper = "ALLOCA" /\ hit -> [ok |-> TRUE, ops |-> ops]
         [] i.oper = "CALL" /\ Mentions(i, name) -> stop
         [] i.oper \in {"BITCAST", "STORE", "LOAD"} /\ hit -> safe[loc - 1][i.operand1][ops]
         [] i.oper \in Arith /\ hit /\ ~IsCommutative(ops, i.oper) -> stop
         [] i.oper \in Arith /\ hit /\ IsCommutative(ops, i.oper) ->
              LET t1 == safe[loc - 1][i.operand1][AppendOperation(ops, i.oper)]
                  t2 == safe[loc - 1][i.operand2][t1.ops]
              IN [ok |-> t1.ok /\ t2.ok, ops |-> t2.ops]
         [] OTHER -> safe[loc - 1][name][ops]]]
  IN safe[index][operand][seen]

\* How many instructions come before the first one of a later line.
UpTo(body, line) ==
  CHOOSE n \in 0..Len(body) :
    /\ \A k \in 1..n : body[k].lineNo <= line
    /\ n = Len(body) \/ body[n + 1].lineNo > line

\* The instruction checked for a line is the last one of that line before any
\* later line; there may be none.
Found(body, line) == {k \in 1..UpTo(body, line) : body[k].lineNo = line}
Chosen(body, line) ==
  body[CHOOSE k \in Found(body, line) : \A j \in Found(body, line) : j <= k]

\* The possible outcomes for a line: it has to be a store of a safe value.  If
\* there is no instruction, an instruction that was never set is checked.
InvolveSimpleOperations(body, line, ops) ==
  LET walk(operand) == IsSafe(body, UpTo(body, line), operand, ops)
      no == [ok |-> FALSE, ops |-> ops]
  IN IF Found(body, line) = {}
     THEN {no} \union {walk("") : oper \in GarbageOpers \intersect {"STORE"}}
     ELSE IF Chosen(body, line).oper = "STORE"
          THEN {walk(Chosen(body, line).operand1)}
          ELSE {no}

-----------------------------------------------------------------------------
(* The conflicts.                                                          *)

Code(t)        == IRlog[CodeOf[t]].code
NamesPair(p)   == <<IRlog[CodeOf[p[1]]].name, IRlog[CodeOf[p[2]]].name>>
Lines(c)       == <<c.action1.lineNo, c.action2.lineNo>>

Stores(t, addr) ==
  {k \in DOMAIN Code(t) : Code(t)[k].oper = "STORE" /\ Code(t)[k].destination = addr}
Loads(t, addr) ==
  {k \in DOMAIN Code(t) : Code(t)[k].oper = "LOAD" /\ Code(t)[k].operand1 = addr}

\* The line of the trace that a task can have for addr: its last write or, if it
\* does not write, its first read; or a write in a function that it calls.
Accesses(t, addr) ==
  {[lineNo |-> Code(t)[k].lineNo, isWrite |-> TRUE, own |-> TRUE] :
     k \in {j \in Stores(t, addr) : \A i \in Stores(t, addr) : i <= j}}
  \union
  {[lineNo |-> Code(t)[k].lineNo, isWrite |-> FALSE, own |-> TRUE] :
     k \in {j \in Loads(t, addr) : Stores(t, addr) = {} /\ \A i \in Loads(t, addr) : j <= i}}
  \union
  {[lineNo |-> l, isWrite |-> TRUE, own |-> FALSE] :
     l \in {n \in CalleeLines : \E k \in DOMAIN Code(t) : Code(t)[k].oper = "CALL"}}

Conflicts(p) ==
  {c \in UNION {[addr : {a}, action1 : Accesses(p[1], a), action2 : Accesses(p[2], a)]
                  : a \in Shared} :
     c.action1.isWrite \/ c.action2.isWrite}

-----------------------------------------------------------------------------
Init ==
  /\ IRlog \in IRlogs
  /\ Tasks = <<>> /\ conflictTable = <<>> /\ conflictTasksAndLines = {}
  /\ phase = "trace" /\ left = {} /\ recorded = {}

\* Whose line a conflict has: the trace has one per task and address.
Sides(p, c) == {<<p[1], c.addr, c.action1>>, <<p[2], c.addr, c.action2>>}

\* While the trace is read.  MaxConflicts bounds the run.
SaveNondeterminismReport(p, c) ==
  /\ phase = "trace"
  /\ \A r \in recorded : \A m \in Sides(p, c), n \in Sides(r[1], r[2]) :
       m[1] = n[1] /\ m[2] = n[2] => m = n
  /\ Cardinality(recorded) < MaxConflicts
  /\ conflictTable' = [q \in DOMAIN conflictTable \union {p} |->
       (IF q \in DOMAIN conflictTable THEN conflictTable[q] ELSE {})
       \union (IF q = p THEN {c} ELSE {})]
  /\ recorded' = recorded \union {<<p, c>>}
  /\ UNCHANGED <<IRlog, Tasks, conflictTasksAndLines, phase, left>>

\* Instructions of no known kind.
Unknown ==
  UNION {{<<s, k>> : k \in {j \in DOMAIN IRlog[s].code : IRlog[s].code[j].oper = "OTHER"}}
           : s \in DOMAIN IRlog}

Instructions(s, garbage) ==
  LET code == IRlog[s].code
  IN [k \in DOMAIN code |->
        IF <<s, k>> \in DOMAIN garbage THEN Unset(code[k], garbage[<<s, k>>]) ELSE code[k]]

\* Instructions that have no line are left out.
BodyOf(s, garbage) ==
  LET all == Instructions(s, garbage)
      body[n \in 0..Len(all)] ==
        IF n = 0 THEN <<>>
        ELSE IF all[n].lineNo > 0 THEN Append(body[n - 1], all[n]) ELSE body[n - 1]
  IN body[Len(all)]

\* A name that comes again starts over.
ParseTasksIR ==
  /\ phase = "trace"
  /\ \E garbage \in [Unknown -> GarbageOpers] :
       Tasks' = [name \in {IRlog[s].name : s \in DOMAIN IRlog} |->
         BodyOf(CHOOSE s \in DOMAIN IRlog :
                  /\ IRlog[s].name = name
                  /\ \A r \in DOMAIN IRlog : IRlog[r].name = name => r <= s, garbage)]
  /\ phase' = "duplicates" /\ left' = DOMAIN conflictTable
  /\ UNCHANGED <<IRlog, conflictTable, conflictTasksAndLines, recorded>>

\* Of the conflicts of a report with the same lines, the first in the order of
\* the set stays, unless a report of the same names had the lines already.
EraseDuplicates(p) ==
  LET fresh == {c \in conflictTable[p] : <<NamesPair(p), Lines(c)>> \notin conflictTasksAndLines}
  IN /\ phase = "duplicates" /\ p \in left
     /\ \E kept \in SUBSET fresh :
          /\ \A c \in fresh : \E d \in kept : Lines(d) = Lines(c)
          /\ \A c, d \in kept : Lines(c) = Lines(d) => c = d
          /\ conflictTable' = [conflictTable EXCEPT ![p] = kept]
     /\ conflictTasksAndLines' = conflictTasksAndLines
          \union {<<NamesPair(p), Lines(c)>> : c \in fresh}
     /\ left' = left \ {p}
     /\ UNCHANGED <<IRlog, Tasks, phase, recorded>>

DuplicatesErased ==
  /\ phase = "duplicates" /\ left = {}
  /\ phase' = "validate" /\ left' = DOMAIN conflictTable
  /\ UNCHANGED <<IRlog, Tasks, conflictTable, conflictTasksAndLines, recorded>>

\* Mistake: each line is checked with an empty set of operations.
SafeAlone(p, c) ==
  {r1.ok /\ r2.ok :
     r1 \in InvolveSimpleOperations(Tasks[NamesPair(p)[1]], c.action1.lineNo, {}),
     r2 \in InvolveSimpleOperations(Tasks[NamesPair(p)[2]], c.action2.lineNo, {})}

\* The possible verdicts on a conflict: the second line is only checked if the
\* first is safe, and with the operations of the first.
Safe(p, c) ==
  UNION {IF r1.ok
         THEN {r2.ok : r2 \in InvolveSimpleOperations(Tasks[NamesPair(p)[2]],
                                                      c.action2.lineNo, r1.ops)}
         ELSE {FALSE} :
    r1 \in InvolveSimpleOperations(Tasks[NamesPair(p)[1]], c.action1.lineNo, {})}

\* Mistake: conflicts with a read are checked as well.
CheckedAlways(c) == TRUE

\* Only conflicts of like accesses are checked.
Checked(c) == c.action1.isWrite = c.action2.isWrite

\* Conflicts of two writes that are safe go; a report that is empty goes.
Validate(p) ==
  /\ phase = "validate" /\ p \in left
  /\ \E kept \in SUBSET conflictTable[p] :
       /\ \A c \in conflictTable[p] \ kept : Checked(c) /\ TRUE \in Safe(p, c)
       /\ \A c \in kept : ~Checked(c) \/ FALSE \in Safe(p, c)
       /\ conflictTable' =
            [q \in DOMAIN conflictTable \ (IF kept = {} THEN {p} ELSE {}) |->
               IF q = p THEN kept ELSE conflictTable[q]]
  /\ left' = left \ {p}
  /\ UNCHANGED <<IRlog, Tasks, conflictTasksAndLines, phase, recorded>>

Next ==
  \/ ParseTasksIR \/ DuplicatesErased
  \/ \E p \in Pairs :
       \/ \E c \in Conflicts(p) : SaveNondeterminismReport(p, c)
       \/ EraseDuplicates(p) \/ Validate(p)

Spec == Init /\ [][Next]_vars
-----------------------------------------------------------------------------
(* Properties.                                                             *)

Mixed(c) == c.action1.isWrite # c.action2.isWrite
Done == phase = "validate" /\ left = {}

\* What a conflict looks like to the user: two names and two lines.
Shown(p, c) == <<NamesPair(p), Lines(c)>>
Reported    == UNION {{Shown(p, c) : c \in conflictTable[p]} : p \in DOMAIN conflictTable}
LookAlikes(p, c) == {r \in recorded : Shown(r[1], r[2]) = Shown(p, c)}

BodyAt(p, k) == Tasks[NamesPair(p)[k]]
LinesFound(p, c) == \A k \in {1, 2} : Found(BodyAt(p, k), Lines(c)[k]) # {}

Compatible(p, c) ==
  LET body(k)  == BodyAt(p, k)
      index(k) == UpTo(body(k), Lines(c)[k])
      store(k) == Chosen(body(k), Lines(c)[k])
      ops == UNION {OperationsFor(body(k), index(k), store(k).operand1) : k \in {1, 2}}
  IN /\ \A k \in {1, 2} : /\ store(k).oper = "STORE"
                          /\ ~PassedOn(body(k), index(k), store(k).operand1)
     /\ ops \subseteq Sums \/ ops \subseteq Products

\* A pair of lines that only write is reported exactly if the operations that
\* lead to the two stores are of different kinds or a call has part in them:
\* neither the order of the conflicts, nor which of several alike is kept, nor
\* an earlier conflict has any influence.
VerdictsByDataFlow ==
  Done => \A r \in recorded :
    LinesFound(r[1], r[2]) /\ (\A q \in LookAlikes(r[1], r[2]) : ~Mixed(q[2]))
      => (Shown(r[1], r[2]) \in Reported <=> ~Compatible(r[1], r[2]))

\* A conflict of a read and a write stays, or one that looks the same, if none
\* that looks the same may be dropped (validator.cpp:80).
ReadWriteKept ==
  Done => \A r \in recorded :
    /\ Mixed(r[2])
    /\ \A q \in LookAlikes(r[1], r[2]) :
         Mixed(q[2]) \/ (LinesFound(q[1], q[2]) /\ ~Compatible(q[1], q[2]))
    => Shown(r[1], r[2]) \in Reported

OwnWrites(c) ==
  c.action1.own /\ c.action2.own /\ c.action1.isWrite /\ c.action2.isWrite

\* The code that is kept under the name of task t is its own.
OwnName(t) == \A s \in DOMAIN IRlog : IRlog[s].name = IRlog[CodeOf[t]].name => s = CodeOf[t]

\* The conflict is one of two plain updates.
PlainUpdates(p, c) ==
  OwnWrites(c) /\ \A k \in {1, 2} : OwnName(p[k]) /\ PlainUpdate(Code(p[k]), c.addr)

\* Two plain updates whose conflict is dropped give the same result in either
\* order.
DroppedUpdatesCommute ==
  Done => \A r \in recorded :
    PlainUpdates(r[1], r[2]) /\ Shown(r[1], r[2]) \notin Reported
      => Commute(Code(r[1][1]), Code(r[1][2]), r[2].addr)

\* Plain updates that both add and subtract, or that both multiply, are not
\* reported, if no call is in the way: the balance of commute_adf.cpp is no
\* nondeterminism.
PlainUpdatesDropped ==
  Done => \A r \in recorded :
    /\ PlainUpdates(r[1], r[2])
    /\ \E kind \in {Sums, Products} : \A k \in {1, 2} : Only(Code(r[1][k]), kind)
    /\ \A k \in {1, 2} : \A j \in DOMAIN Code(r[1][k]) : Code(r[1][k])[j].oper # "CALL"
    /\ \A q \in LookAlikes(r[1], r[2]) : ~Mixed(q[2])
    => Shown(r[1], r[2]) \notin Reported

\* Two writes of the tasks themselves whose conflict is dropped give the same
\* result in either order.  validator.cpp:66: "Checks for commutative task
\* operations which have been flagged as conflicts."
DroppedWritesCommute ==
  Done => \A r \in recorded :
    OwnWrites(r[2]) /\ Shown(r[1], r[2]) \notin Reported
      => Commute(Code(r[1][1]), Code(r[1][2]), r[2].addr)
==============================================================================

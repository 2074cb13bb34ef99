---------------------------- MODULE RaceDetector -----------------------------
(***************************************************************************)
(* What the offline analysis promises: every pair of parallel tasks whose  *)
(* accesses to one address interfere is found, as long as no more than     *)
(* Window accesses of that address lie between; and no pair is that the    *)
(* task graph orders, but for tasks between which all paths begin with the *)
(* same child: of those the code may lose the order (OneWay).  There are   *)
(* no serial bags here: order is read off the task graph.                  *)
(***************************************************************************)
EXTENDS Integers, FiniteSets, Sequences, TaskGraph

CONSTANTS Tasks, Addrs, Values, FuncIds, Window

VARIABLES
  succ,    (* succ[t]: tasks that received a token from t                  *)
  recent,  (* per address, the last Window accesses                        *)
  races    (* the pairs found: [tasks, addr]                               *)
vars == <<succ, recent, races>>

Access == [taskId : Tasks, addr : Addrs, value : Values, funcId : FuncIds,
           isWrite : BOOLEAN]

Ordered(s, t) ==
  s = t \/ s \in Ancestors(succ, t) \/ t \in Ancestors(succ, s)

OrderMatters(a, b) ==
  \/ a.isWrite /\ b.isWrite /\ a.value # b.value
  \/ a.isWrite # b.isWrite

PairsWith(a, others) ==
  {[tasks |-> {a.taskId, b.taskId}, addr |-> a.addr] : b \in others}

\* The earlier accesses in the window whose order with a changes the outcome.
Rivals(a) ==
  {b \in {recent[a.addr][i] : i \in DOMAIN recent[a.addr]} : OrderMatters(a, b)}

RacesOf(a) == PairsWith(a, {b \in Rivals(a) : ~Ordered(a.taskId, b.taskId)})

\* The false alarms that a may raise.
FalseAlarms(a) == PairsWith(a, {b \in Rivals(a) : OneWay(succ, b.taskId, a.taskId)})

Init ==
  /\ succ   = [t \in Tasks |-> {}]
  /\ recent = [x \in Addrs |-> <<>>]
  /\ races  = {}

\* The graph is complete before the first access is looked at.
Edge(p, t) ==
  /\ \A x \in Addrs : recent[x] = <<>>
  /\ succ' = [succ EXCEPT ![p] = @ \union {t}]
  /\ UNCHANGED <<recent, races>>

Observe(a) ==
  /\ recent' = [recent EXCEPT ![a.addr] =
       Append(IF Len(@) < Window THEN @ ELSE Tail(@), a)]
  /\ \E alarms \in SUBSET FalseAlarms(a) : races' = races \union RacesOf(a) \union alarms
  /\ UNCHANGED succ

Next == \/ \E p, t \in Tasks : Edge(p, t)
        \/ \E a \in Access : Observe(a)

Spec == Init /\ [][Next]_vars
==============================================================================

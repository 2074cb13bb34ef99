---------------------------- MODULE CheckerProofs ----------------------------
(***************************************************************************)
(* Theorems about module Checker, for every set of tasks, addresses and    *)
(* values, every window length, every log the tracer can write and both     *)
(* outcomes of the read after the erase.                                   *)
(***************************************************************************)
EXTENDS Checker, FiniteSetTheorems, WellFoundedInduction, TLAPS

-----------------------------------------------------------------------------
(* The ancestors of a task are its parents and the ancestors of these.     *)

LEMMA AncestorsClosed ==
  ASSUME NEW edges, NEW t, NEW p \in Ancestors(edges, t)
  PROVE  Parents(edges, p) \subseteq Ancestors(edges, t)
BY DEF Ancestors, Parents, ParentClosed

LEMMA ParentsAreAncestors ==
  ASSUME NEW edges, NEW t
  PROVE  Parents(edges, t) \subseteq Ancestors(edges, t)
BY DEF Ancestors, Parents

LEMMA AncestorsOfParent ==
  ASSUME NEW edges, NEW t, NEW p \in Parents(edges, t)
  PROVE  Ancestors(edges, p) \subseteq Ancestors(edges, t)
<1> SUFFICES ASSUME NEW a \in Ancestors(edges, p),
                    NEW s \in SUBSET DOMAIN edges,
                    Parents(edges, t) \subseteq s, ParentClosed(edges, s)
             PROVE  a \in s
  BY DEF Ancestors
<1>1. Parents(edges, p) \subseteq s
  BY DEF ParentClosed
<1> QED BY <1>1 DEF Ancestors

LEMMA AncestorsRecurrence ==
  ASSUME NEW edges, NEW t
  PROVE  Ancestors(edges, t) =
           Parents(edges, t) \union
           UNION {Ancestors(edges, p) : p \in Parents(edges, t)}
<1> DEFINE s == Parents(edges, t) \union
                UNION {Ancestors(edges, p) : p \in Parents(edges, t)}
<1>1. s \subseteq Ancestors(edges, t)
  BY ParentsAreAncestors, AncestorsOfParent
<1>2. s \in SUBSET DOMAIN edges
  BY DEF Ancestors, Parents
<1>3. ParentClosed(edges, s)
  BY ParentsAreAncestors, AncestorsClosed DEF ParentClosed
<1>4. Ancestors(edges, t) \subseteq s
  BY <1>2, <1>3 DEF Ancestors
<1> QED BY <1>1, <1>4

\* A closed set that has no edge into it from b has no descendant of b.
LEMMA NotAnAncestor ==
  ASSUME NEW edges, NEW s \in SUBSET DOMAIN edges, NEW b, NEW t \in s,
         ParentClosed(edges, s), \A q \in s : b \notin Parents(edges, q)
  PROVE  b \notin Ancestors(edges, t)
<1>1. s \ {b} \in SUBSET DOMAIN edges /\ ParentClosed(edges, s \ {b})
  BY DEF ParentClosed
<1>2. Parents(edges, t) \subseteq s \ {b}
  BY DEF ParentClosed
<1> QED BY <1>1, <1>2 DEF Ancestors

-----------------------------------------------------------------------------
(* The inductive invariant.                                                *)

\* Reading the graph: a task is never its own parent, and what is read of the
\* happens-before log is not yet consumed for a task that has no block yet.
GraphInv ==
  /\ phase = "hblog" => begun = {}
  /\ \A t \in Tasks : t \notin outEdges[t] /\ inEdges[t] \subseteq Parents(outEdges, t)
  /\ \A t \in Tasks \ begun :
       /\ inEdges[t] = Parents(outEdges, t)
       /\ serial_bags[t] = NULL

\* Until a crash, blocks come parents first, and no child of the current task
\* has a block yet.
OrderInv ==
  ~crashed =>
    /\ \A t \in begun : Parents(outEdges, t) \subseteq begun
    /\ block # NULL => block \in begun /\ outEdges[block] \intersect begun = {}

\* v took over the bag of its parent p.
TookOver(v, p) == v \in outEdges[p] \intersect begun /\ p \notin inEdges[v]

\* Until a crash, a bag is taken over once, by the last child to begin.
TakenOnce ==
  ~crashed => \A p, v \in Tasks : TookOver(v, p) =>
    /\ outEdges[p] \subseteq begun
    /\ \A u \in Tasks : TookOver(u, p) => u = v

IInv ==
  /\ TypeOK /\ GraphInv /\ OrderInv /\ TakenOnce
  /\ BagAccounting /\ BagsHoldAncestors /\ BagsAreComplete /\ NeverCrashes

LEMMA InitIInv == Init => IInv
<1> SUFFICES ASSUME Init PROVE IInv
  OBVIOUS
<1>1. TypeOK
  <2>1. writes \in [Addrs -> Seq(Action)]
    BY DEF Init
  <2>2. \A x \in Addrs : Len(writes[x]) <= CONC_THREASHOLD
    BY WindowAssumption DEF Init
  <2> QED BY <2>1, <2>2 DEF Init, TypeOK
<1>2. GraphInv
  BY DEF Init, GraphInv, Parents
<1>3. OrderInv /\ NeverCrashes /\ TakenOnce
  BY DEF Init, OrderInv, NeverCrashes, TakenOnce, TookOver
<1>4. \A t \in Tasks : serial_bags[t] = NULL
  BY DEF Init
<1>5. BagAccounting /\ BagsHoldAncestors /\ BagsAreComplete
  BY <1>4 DEF Init, BagAccounting, BagsHoldAncestors, BagsAreComplete
<1> QED BY <1>1, <1>2, <1>3, <1>5 DEF IInv

LEMMA OneFewer ==
  ASSUME NEW S, IsFiniteSet(S), NEW x \in S, NEW T, T = S \ {x}
  PROVE  /\ Cardinality(S) \in Nat
         /\ Cardinality(T) = Cardinality(S) - 1
         /\ Cardinality(S) = 1 <=> T = {}
<1>1. Cardinality(S) \in Nat
  BY FS_CardinalityType
<1>2. IsFiniteSet(T) /\ Cardinality(T) = Cardinality(S) - 1
  BY FS_RemoveElement
<1>3. Cardinality(T) = 0 <=> T = {}
  BY <1>2, FS_EmptySet
<1> QED BY <1>1, <1>2, <1>3

\* A parent of a task that is about to begin has a bag, once its own block has
\* been read.
LEMMA BegunParentHasBag ==
  ASSUME IInv, ~crashed, NEW t \in Tasks \ begun, NEW p \in inEdges[t], p \in begun
  PROVE  serial_bags[p] # NULL
<1>1. p \in Tasks /\ t \in outEdges[p]
  BY DEF IInv, TypeOK, GraphInv, Parents
<1>2. outEdges[p] \ begun # {}
  BY <1>1
<1> QED BY <1>1, <1>2 DEF IInv, BagAccounting

LEMMA FiniteEdges ==
  ASSUME TypeOK, NEW t \in Tasks
  PROVE  /\ IsFiniteSet(outEdges[t])
         /\ Cardinality(outEdges[t]) \in Nat
         /\ IsFiniteSet(outEdges[t] \ begun)
         /\ Cardinality(outEdges[t] \ begun) \in Nat
<1>1. outEdges[t] \subseteq Tasks /\ outEdges[t] \ begun \subseteq Tasks
  BY DEF TypeOK
<1>2. IsFiniteSet(outEdges[t]) /\ IsFiniteSet(outEdges[t] \ begun)
  BY <1>1, FS_Subset, TasksAssumption
<1> QED BY <1>2, FS_CardinalityType

-----------------------------------------------------------------------------
(* What a bag misses.                                                      *)

\* If the bag of q misses p, the child through which p leads to q took over the
\* bag of p.
LEMMA MissedIsTaken ==
  ASSUME IInv, ~crashed, NEW q \in begun, serial_bags[q] # NULL,
         NEW p \in Ancestors(outEdges, q), p \notin serial_bags[q].HB,
         NEW x \in OnTheWay(outEdges, p, q)
  PROVE  /\ OnTheWay(outEdges, p, q) = {x} /\ TookOver(x, p)
         /\ p \in Tasks /\ x \in Tasks
<1>0. TypeOK /\ OrderInv /\ BagsAreComplete
  BY DEF IInv
<1>1. q \in Tasks /\ p \in Tasks /\ DOMAIN outEdges = Tasks
  BY <1>0 DEF TypeOK, Ancestors
<1>2. Overlooked(p, q)
  BY <1>0, <1>1 DEF BagsAreComplete
<1>3. OnTheWay(outEdges, p, q) = {x} /\ p \notin inEdges[x]
  BY <1>2 DEF Overlooked, OneWay
<1>4. Ancestors(outEdges, q) \subseteq begun
  <2>1. begun \in SUBSET DOMAIN outEdges /\ ParentClosed(outEdges, begun)
    BY <1>0, <1>1 DEF TypeOK, OrderInv, ParentClosed
  <2>2. Parents(outEdges, q) \subseteq begun
    BY <2>1 DEF ParentClosed
  <2> QED BY <2>1, <2>2 DEF Ancestors
<1>5. x \in outEdges[p] /\ x \in begun
  BY <1>4 DEF OnTheWay
<1> QED BY <1>0, <1>1, <1>3, <1>5 DEF TookOver, TypeOK

\* A task through which p leads to t is t or leads there through a parent of t.
LEMMA WayThroughParent ==
  ASSUME NEW edges, NEW t, NEW p \in DOMAIN edges, NEW x \in OnTheWay(edges, p, t), x # t
  PROVE  \E q \in Parents(edges, t) :
           p \in Ancestors(edges, q) /\ x \in OnTheWay(edges, p, q)
<1>1. x \in edges[p] /\ x \in Ancestors(edges, t)
  BY DEF OnTheWay
<1>2. PICK q \in Parents(edges, t) : x = q \/ x \in Ancestors(edges, q)
  BY <1>1, AncestorsRecurrence
<1>3. p \in Parents(edges, x)
  BY <1>1 DEF Parents
<1>4. p \in Ancestors(edges, q)
  BY <1>2, <1>3, ParentsAreAncestors, AncestorsClosed
<1> QED BY <1>1, <1>2, <1>4 DEF OnTheWay

\* Merging loses no more: what the bags of the parents of t hold goes into that
\* of t, and so do all parents but some whose bags t takes over.
LEMMA MergedBagMisses ==
  ASSUME IInv, ~crashed, NEW t \in Tasks, t \notin begun, NEW bag,
         NEW taken \in SUBSET Parents(outEdges, t),
         \A q \in Parents(outEdges, t) :
           /\ q \in begun /\ serial_bags[q] # NULL
           /\ serial_bags[q].HB \subseteq bag
           /\ q \in taken \/ q \in bag,
         NEW p \in Ancestors(outEdges, t), p \notin bag
  PROVE  /\ p \in Tasks
         /\ \/ p \in taken /\ OnTheWay(outEdges, p, t) = {t}
            \/ \E v \in Tasks : OnTheWay(outEdges, p, t) = {v} /\ TookOver(v, p)
<1>0. TypeOK /\ TakenOnce /\ p \in Tasks /\ DOMAIN outEdges = Tasks
  BY DEF IInv, TypeOK, Ancestors
<1>1. ASSUME NEW x \in OnTheWay(outEdges, p, t), x # t
      PROVE  TookOver(x, p) /\ x \in Tasks
  <2>1. PICK q \in Parents(outEdges, t) :
          p \in Ancestors(outEdges, q) /\ x \in OnTheWay(outEdges, p, q)
    BY <1>0, <1>1, WayThroughParent
  <2>2. p \notin serial_bags[q].HB
    OBVIOUS
  <2> QED BY <2>1, <2>2, MissedIsTaken
<1>2. CASE p \in taken
  <2>1. t \in outEdges[p] /\ t \in OnTheWay(outEdges, p, t)
    BY <1>2 DEF Parents, OnTheWay
  <2>2. ASSUME NEW x \in OnTheWay(outEdges, p, t), x # t
        PROVE  FALSE
    BY <1>0, <1>1, <2>1, <2>2 DEF TakenOnce
  <2> QED BY <1>0, <1>2, <2>1, <2>2
<1>3. CASE p \notin taken
  <2>1. p \notin Parents(outEdges, t)
    BY <1>3
  <2>2. t \notin OnTheWay(outEdges, p, t)
    BY <1>0, <2>1 DEF OnTheWay, Parents
  <2>3. PICK q \in Parents(outEdges, t) : p \in Ancestors(outEdges, q)
    BY <2>1, AncestorsRecurrence
  <2>4. PICK v \in outEdges[p] : OnTheWay(outEdges, p, q) = {v}
    <3>1. Overlooked(p, q)
      BY <1>0, <2>3 DEF IInv, BagsAreComplete, Parents
    <3> QED BY <3>1 DEF Overlooked, OneWay
  <2>5. v \in OnTheWay(outEdges, p, t)
    BY <2>3, <2>4, ParentsAreAncestors, AncestorsOfParent DEF OnTheWay
  <2>6. v \in Tasks /\ TookOver(v, p)
    BY <2>5, <2>2, <1>1
  <2>7. \A x \in OnTheWay(outEdges, p, t) : x = v
    BY <1>0, <1>1, <2>2, <2>6 DEF TakenOnce
  <2> QED BY <1>0, <2>5, <2>6, <2>7
<1> QED BY <1>2, <1>3

-----------------------------------------------------------------------------
(* The B line.  Root, clone and inherit are one step with different parts. *)

LEMMA MergeStep ==
  ASSUME IInv, NEW t \in Tasks, t \notin begun, OpenBlock(t), ~MissingParentBag(t),
         NEW taken \in SUBSET Inheritable(t), NEW own \in SUBSET Tasks,
         own \subseteq Ancestors(outEdges, t),
         \A p \in taken : serial_bags[p].HB \subseteq own,
         MergeBags(t, taken, own, inEdges[t] \ taken),
         inEdges' \in [Tasks -> SUBSET Tasks],
         inEdges'[t] = inEdges[t] \ taken,
         \A u \in Tasks \ {t} : inEdges'[u] = inEdges[u],
         UNCHANGED <<outEdges, writes, conflictTable, functions, crashed>>
  PROVE  IInv'
<1> DEFINE rest == inEdges[t] \ taken
<1>0. /\ TypeOK /\ GraphInv /\ OrderInv /\ TakenOnce
      /\ BagAccounting /\ BagsHoldAncestors /\ BagsAreComplete /\ NeverCrashes
  BY DEF IInv
<1>1. /\ t \notin begun /\ begun' = begun \union {t} /\ block' = t
      /\ ~crashed /\ phase = "trace" /\ phase' = phase /\ fresh' = Addrs
      /\ ordered' \in BOOLEAN
  BY <1>0 DEF OpenBlock
<1>2. /\ inEdges[t] = Parents(outEdges, t)
      /\ \A p \in inEdges[t] : /\ p \in Tasks /\ p # t /\ t \in outEdges[p]
                               /\ serial_bags[p] \in SerialBag
                               /\ serial_bags[p] # NULL
                               /\ p \in begun
  BY <1>0, <1>1 DEF GraphInv, TypeOK, Parents, MissingParentBag, BagAccounting
<1>3. outEdges[t] \intersect begun = {} /\ t \notin outEdges[t]
  BY <1>0, <1>1 DEF OrderInv, GraphInv, Parents, TypeOK
<1>4. \A p \in inEdges[t] :
        serial_bags[p].outBufferCount = Cardinality(outEdges[p] \ begun)
  BY <1>0, <1>1, <1>2 DEF BagAccounting
<1>5. \A p \in inEdges[t] :
        /\ Cardinality(outEdges[p] \ begun') = Cardinality(outEdges[p] \ begun) - 1
        /\ Cardinality(outEdges[p] \ begun) = 1 <=> outEdges[p] \ begun' = {}
  <2> SUFFICES ASSUME NEW p \in inEdges[t]
               PROVE  /\ Cardinality(outEdges[p] \ begun') =
                           Cardinality(outEdges[p] \ begun) - 1
                      /\ Cardinality(outEdges[p] \ begun) = 1
                           <=> outEdges[p] \ begun' = {}
    OBVIOUS
  <2>1. t \in outEdges[p] \ begun /\ IsFiniteSet(outEdges[p] \ begun)
    BY <1>0, <1>1, <1>2, FiniteEdges
  <2>2. outEdges[p] \ begun' = (outEdges[p] \ begun) \ {t}
    BY <1>0, <1>1
  <2> QED BY <1>0, <2>1, <2>2, OneFewer
<1>6. serial_bags' = [q \in Tasks |->
        IF q = t
        THEN [outBufferCount |-> Cardinality(outEdges[t]),
              HB |-> own \union rest \union
                     UNION {serial_bags[p].HB : p \in rest}]
        ELSE IF q \in taken THEN NULL
        ELSE IF q \in rest THEN Release(serial_bags[q])
        ELSE serial_bags[q]]
  BY <1>0 DEF MergeBags, Absorb
<1>7. /\ serial_bags'[t].outBufferCount = Cardinality(outEdges[t])
      /\ serial_bags'[t].HB = own \union rest \union
                              UNION {serial_bags[p].HB : p \in rest}
      /\ serial_bags'[t] \in SerialBag
  <2>1. own \union rest \union UNION {serial_bags[p].HB : p \in rest} \subseteq Tasks
    BY <1>0, <1>2 DEF SerialBag
  <2>2. Cardinality(outEdges[t]) \in Nat
    BY <1>0, FiniteEdges
  <2> QED BY <1>0, <1>6, <2>1, <2>2 DEF SerialBag
<1>8. \A p \in taken : p \in inEdges[t] /\ serial_bags'[p] = NULL
  BY <1>0, <1>2, <1>6 DEF Inheritable
<1>9. \A p \in rest : serial_bags'[p] = Release(serial_bags[p])
  BY <1>0, <1>2, <1>6
<1>10. \A p \in rest :
        /\ Cardinality(outEdges[p] \ begun) = 1 => serial_bags'[p] = NULL
        /\ Cardinality(outEdges[p] \ begun) # 1 =>
             /\ serial_bags'[p] \in SerialBag
             /\ serial_bags'[p].HB = serial_bags[p].HB
             /\ serial_bags'[p].outBufferCount = serial_bags[p].outBufferCount - 1
  <2> SUFFICES ASSUME NEW p \in rest
               PROVE  LET n == Cardinality(outEdges[p] \ begun) IN
                 /\ n = 1 => serial_bags'[p] = NULL
                 /\ n # 1 =>
                      /\ serial_bags'[p] \in SerialBag
                      /\ serial_bags'[p].HB = serial_bags[p].HB
                      /\ serial_bags'[p].outBufferCount =
                           serial_bags[p].outBufferCount - 1
    OBVIOUS
  <2> DEFINE bag == serial_bags[p]
  <2>1. bag \in SerialBag /\ bag.outBufferCount = Cardinality(outEdges[p] \ begun)
    BY <1>2, <1>4
  <2>2. serial_bags'[p] = Release(bag)
    BY <1>9
  <2> HIDE DEF bag
  <2>3. Release(bag) = IF bag.outBufferCount = 1 THEN NULL
                       ELSE [outBufferCount |-> bag.outBufferCount - 1, HB |-> bag.HB]
    BY <2>1 DEF Release, SerialBag
  <2>4. bag.outBufferCount \in Int /\ bag.HB \in SUBSET Tasks
    BY <2>1 DEF SerialBag
  <2>5. CASE bag.outBufferCount = 1
    BY <2>1, <2>2, <2>3, <2>5
  <2>6. CASE bag.outBufferCount # 1
    <3>1. serial_bags'[p] = [outBufferCount |-> bag.outBufferCount - 1, HB |-> bag.HB]
      BY <2>2, <2>3, <2>6
    <3> QED BY <3>1, <2>1, <2>4, <2>6 DEF SerialBag, bag
  <2> QED BY <2>5, <2>6
<1>11. \A q \in Tasks \ (inEdges[t] \union {t}) : serial_bags'[q] = serial_bags[q]
  BY <1>0, <1>6, <1>8
<1>12. TypeOK'
  <2>1. \A q \in Tasks : serial_bags'[q] \in SerialBag \union {NULL}
    BY <1>0, <1>7, <1>8, <1>10, <1>11 DEF TypeOK
  <2>2. serial_bags' \in [Tasks -> SerialBag \union {NULL}]
    BY <1>0, <1>6, <2>1
  <2> QED BY <1>0, <1>1, <2>2 DEF TypeOK
<1>13. GraphInv'
  BY <1>0, <1>1, <1>2, <1>11 DEF GraphInv, Parents
<1>14. OrderInv'
  BY <1>0, <1>1, <1>2, <1>3 DEF OrderInv
<1>15. BagAccounting'
  <2>1. ASSUME NEW u \in Tasks
        PROVE  LET waiting == outEdges[u] \ begun' IN
               /\ serial_bags'[u] # NULL <=>
                    u \in begun' /\ (outEdges[u] = {} \/ waiting # {})
               /\ serial_bags'[u] # NULL =>
                    serial_bags'[u].outBufferCount = Cardinality(waiting)
    <3>1. CASE u = t
      <4>1. outEdges[u] \ begun' = outEdges[u]
        BY <1>0, <3>1, <1>1, <1>3
      <4> QED BY <3>1, <4>1, <1>1, <1>7, NullAssumption
    <3>2. CASE u \in taken
      <4>1. outEdges[u] \ begun' = {} /\ outEdges[u] # {}
        BY <1>0, <3>2, <1>2, <1>4, <1>5, <1>8 DEF Inheritable
      <4> QED BY <1>0, <3>2, <4>1, <1>8
    <3>3. CASE u \in rest
      <4>1. u \in inEdges[t] /\ outEdges[u] # {} /\ u \in begun'
        BY <3>3, <1>1, <1>2
      <4>2. CASE Cardinality(outEdges[u] \ begun) = 1
        <5>1. serial_bags'[u] = NULL /\ outEdges[u] \ begun' = {}
          BY <3>3, <4>1, <4>2, <1>5, <1>10
        <5> QED BY <4>1, <5>1
      <4>3. CASE Cardinality(outEdges[u] \ begun) # 1
        <5>1. serial_bags'[u] \in SerialBag /\ outEdges[u] \ begun' # {}
          BY <3>3, <4>1, <4>3, <1>5, <1>10
        <5>2. serial_bags'[u] # NULL
          BY <5>1, NullAssumption
        <5>3. serial_bags'[u].outBufferCount = Cardinality(outEdges[u] \ begun')
          BY <3>3, <4>1, <4>3, <1>4, <1>5, <1>10
        <5> QED BY <4>1, <5>1, <5>2, <5>3
      <4> QED BY <4>2, <4>3
    <3>4. CASE u \notin inEdges[t] \union {t}
      <4>1. t \notin outEdges[u]
        BY <1>0, <3>4, <1>2 DEF Parents, TypeOK
      <4>2. outEdges[u] \ begun' = outEdges[u] \ begun /\ (u \in begun' <=> u \in begun)
        BY <1>0, <4>1, <3>4, <1>1
      <4> QED BY <1>0, <3>4, <4>2, <1>1, <1>11 DEF BagAccounting
    <3> QED BY <1>0, <3>1, <3>2, <3>3, <3>4
  <2> QED BY <1>0, <2>1 DEF BagAccounting
<1>16. BagsHoldAncestors'
  <2>1. serial_bags'[t].HB \subseteq Ancestors(outEdges, t)
    BY <1>0, <1>2, <1>7, AncestorsRecurrence DEF BagsHoldAncestors
  <2> SUFFICES ASSUME NEW u \in Tasks, serial_bags'[u] # NULL
               PROVE  serial_bags'[u].HB \subseteq Ancestors(outEdges, u)
    BY DEF BagsHoldAncestors
  <2> QED BY <1>0, <1>2, <2>1, <1>8, <1>10, <1>11 DEF BagsHoldAncestors
<1>17. BagsAreComplete'
  <2>0. \A u \in Tasks : inEdges'[u] \subseteq inEdges[u]
    BY <1>0
  <2>1. \A u, p \in Tasks : Overlooked(p, u) => Overlooked(p, u)'
    <3> SUFFICES ASSUME NEW u \in Tasks, NEW p \in Tasks, Overlooked(p, u)
                 PROVE  Overlooked(p, u)'
      OBVIOUS
    <3>1. \A v \in OnTheWay(outEdges, p, u) : v \in Tasks /\ p \notin inEdges'[v]
      BY <1>0, <2>0 DEF Overlooked, OnTheWay, TypeOK
    <3> QED BY <3>1 DEF Overlooked
  <2>2. \A p \in Ancestors(outEdges, t) \ serial_bags'[t].HB : Overlooked(p, t)'
    <3> DEFINE bag == serial_bags'[t].HB
    <3> SUFFICES ASSUME NEW p \in Ancestors(outEdges, t), p \notin bag
                 PROVE  Overlooked(p, t)'
      OBVIOUS
    <3>1. taken \in SUBSET Parents(outEdges, t)
      BY <1>2 DEF Inheritable
    <3>2. \A q \in Parents(outEdges, t) :
            /\ q \in begun /\ serial_bags[q] # NULL
            /\ serial_bags[q].HB \subseteq bag
            /\ q \in taken \/ q \in bag
      BY <1>2, <1>7
    <3> HIDE DEF bag
    <3>3. /\ p \in Tasks
          /\ \/ p \in taken /\ OnTheWay(outEdges, p, t) = {t}
             \/ \E v \in Tasks : OnTheWay(outEdges, p, t) = {v} /\ TookOver(v, p)
      BY <1>1, <3>1, <3>2, MergedBagMisses
    <3>4. PICK v \in Tasks : OnTheWay(outEdges, p, t) = {v} /\ p \notin inEdges'[v]
      BY <3>3, <2>0 DEF TookOver
    <3>5. OneWay(outEdges, p, t)
      BY <3>4 DEF OneWay, OnTheWay
    <3> QED BY <3>4, <3>5 DEF Overlooked
  <2> SUFFICES ASSUME NEW u \in Tasks, serial_bags'[u] # NULL,
                      NEW p \in Ancestors(outEdges, u) \ serial_bags'[u].HB
               PROVE  Overlooked(p, u)'
    BY DEF BagsAreComplete
  <2>3. CASE u = t
    BY <2>2, <2>3
  <2>4. CASE u # t
    <3>1. serial_bags[u] # NULL /\ serial_bags'[u].HB = serial_bags[u].HB
      BY <2>4, <1>2, <1>8, <1>10, <1>11
    <3>2. p \in Tasks
      BY <1>0 DEF Ancestors, TypeOK
    <3> QED BY <3>1, <3>2, <2>1, <1>0 DEF BagsAreComplete
  <2> QED BY <2>3, <2>4
<1>18. NeverCrashes'
  BY <1>0, <1>1 DEF NeverCrashes
<1>19. TakenOnce'
  <2>1. \A p, v \in Tasks : TookOver(v, p)' <=> TookOver(v, p) \/ (v = t /\ p \in taken)
    BY <1>0, <1>1, <1>2 DEF TookOver, TypeOK, Inheritable, Parents
  <2>2. \A p \in taken : /\ p \in Tasks /\ t \in outEdges[p]
                         /\ outEdges[p] \subseteq begun'
    BY <1>1, <1>2, <1>4, <1>5 DEF Inheritable
  <2>3. ASSUME NEW p \in Tasks, NEW v \in Tasks, TookOver(v, p)
        PROVE  outEdges[p] \subseteq begun /\ p \notin taken
    BY <1>0, <1>1, <2>2, <2>3 DEF TakenOnce
  <2> QED BY <1>0, <1>1, <2>1, <2>2, <2>3 DEF TakenOnce
<1> QED BY <1>12, <1>13, <1>14, <1>15, <1>16, <1>17, <1>18, <1>19 DEF IInv

-----------------------------------------------------------------------------
(* Every step preserves the invariant.                                     *)

LEMMA EdgeStep ==
  ASSUME IInv, NEW sib \in Tasks, NEW par \in Tasks, sib # par, AddTaskNode(sib, par)
  PROVE  IInv'
<1>0. TypeOK /\ GraphInv /\ OrderInv /\ NeverCrashes
  BY DEF IInv
<1>1. /\ phase = "hblog" /\ phase' = phase /\ begun = {} /\ begun' = {}
      /\ block' = block /\ fresh' = fresh /\ crashed' = crashed /\ ordered' = ordered
      /\ serial_bags' = serial_bags
  BY <1>0 DEF AddTaskNode, logVars, GraphInv
<1>2. TypeOK'
  BY <1>0, <1>1 DEF TypeOK, AddTaskNode
<1>3. \A t \in Tasks : serial_bags'[t] = NULL /\ t \notin outEdges'[t]
  BY <1>0, <1>1 DEF GraphInv, TypeOK, AddTaskNode
<1>4. ASSUME NEW t \in Tasks PROVE inEdges'[t] = Parents(outEdges', t)
  <2>1. inEdges[t] = Parents(outEdges, t)
    BY <1>0, <1>1 DEF GraphInv
  <2>2. inEdges'[t] = IF t = sib THEN inEdges[t] \union {par} ELSE inEdges[t]
    BY <1>0 DEF TypeOK, AddTaskNode
  <2>3. \A p \in Tasks : outEdges'[p] =
          IF p = par THEN outEdges[p] \union {sib} ELSE outEdges[p]
    BY <1>0 DEF TypeOK, AddTaskNode
  <2>4. DOMAIN outEdges = Tasks /\ DOMAIN outEdges' = Tasks
    BY <1>0, <1>2 DEF TypeOK
  <2> QED BY <2>1, <2>2, <2>3, <2>4 DEF Parents
<1>5. GraphInv' /\ OrderInv' /\ NeverCrashes' /\ TakenOnce'
  BY <1>0, <1>1, <1>3, <1>4
     DEF GraphInv, OrderInv, NeverCrashes, TakenOnce, TookOver
<1>6. BagAccounting' /\ BagsHoldAncestors' /\ BagsAreComplete'
  BY <1>1, <1>3 DEF BagAccounting, BagsHoldAncestors, BagsAreComplete
<1> QED BY <1>2, <1>5, <1>6 DEF IInv

LEMMA CrashStep ==
  ASSUME IInv, NEW t \in Tasks, t \notin begun, BeginCrash(t)
  PROVE  IInv'
<1>0. /\ TypeOK /\ GraphInv /\ OrderInv
      /\ BagAccounting /\ BagsHoldAncestors /\ BagsAreComplete /\ NeverCrashes
  BY DEF IInv
<1>1. /\ t \notin begun /\ begun' = begun \union {t} /\ block' = t
      /\ ordered' = (ordered /\ inEdges[t] \subseteq begun)
      /\ ~crashed /\ phase = "trace" /\ phase' = phase /\ fresh' = Addrs
      /\ crashed' = TRUE
      /\ UNCHANGED <<inEdges, outEdges, serial_bags, writes, conflictTable, functions>>
  BY DEF BeginCrash, OpenBlock
<1>2. TypeOK' /\ GraphInv'
  BY <1>0, <1>1 DEF TypeOK, GraphInv
<1>3. OrderInv' /\ BagAccounting' /\ TakenOnce'
  BY <1>1 DEF OrderInv, BagAccounting, TakenOnce
<1>4. BagsHoldAncestors' /\ BagsAreComplete'
  BY <1>0, <1>1 DEF BagsHoldAncestors, BagsAreComplete, Overlooked
<1>5. NeverCrashes'
  <2> SUFFICES ASSUME inEdges[t] \subseteq begun PROVE FALSE
    BY <1>1 DEF NeverCrashes
  <2>1. PICK p \in inEdges[t] : serial_bags[p] = NULL
    BY DEF BeginCrash, MissingParentBag
  <2> QED BY <2>1, <1>1, BegunParentHasBag
<1> QED BY <1>2, <1>3, <1>4, <1>5 DEF IInv

LEMMA LineStep ==
  ASSUME IInv, NEW a \in Action, SaveTaskActions(a)
  PROVE  IInv'
<1>0. /\ TypeOK /\ GraphInv /\ OrderInv /\ TakenOnce
      /\ BagAccounting /\ BagsHoldAncestors /\ BagsAreComplete /\ NeverCrashes
  BY DEF IInv
<1>1. /\ ~crashed /\ ordered' = (ordered /\ a.taskId = block) /\ ordered' \in BOOLEAN
      /\ UNCHANGED <<inEdges, outEdges, serial_bags, functions, phase, begun, block>>
      /\ fresh' \subseteq Addrs /\ a.addr \in Addrs
  <2>1. a.addr \in Addrs
    BY DEF Action
  <2>2. ordered' = (ordered /\ a.taskId = block)
    BY DEF SaveTaskActions, ReadLine
  <2> QED BY <1>0, <2>1, <2>2 DEF SaveTaskActions, ReadLine, TypeOK
<1>2. TypeOK'
  <2>1. crashed' \in BOOLEAN
    BY <1>0 DEF SaveTaskActions, TypeOK
  <2>2. writes' \in [Addrs -> Seq(Action)]
    <3>1. Remember(writes[a.addr], a) \in Seq(Action)
      BY <1>0, <1>1, WindowAssumption DEF Remember, TypeOK
    <3> QED BY <3>1, <1>0 DEF SaveTaskActions, TypeOK
  <2>3. conflictTable' \subseteq Conflict
    <3>1. \A i \in DOMAIN writes[a.addr] : writes[a.addr][i] \in Action
      BY <1>0, <1>1 DEF TypeOK
    <3>2. NewConflicts(a) \subseteq Conflict
      BY <3>1 DEF NewConflicts, Conflict
    <3> QED BY <3>2, <1>0 DEF SaveTaskActions, TypeOK
  <2>4. \A x \in Addrs : Len(writes'[x]) <= CONC_THREASHOLD
    <3>1. /\ writes[a.addr] \in Seq(Action)
          /\ Len(writes[a.addr]) <= CONC_THREASHOLD
      BY <1>0, <1>1 DEF TypeOK
    <3>2. Len(Remember(writes[a.addr], a)) <= CONC_THREASHOLD
      BY <3>1, WindowAssumption DEF Remember
    <3>3. \A x \in Addrs : writes'[x] = writes[x] \/
                            writes'[x] = Remember(writes[a.addr], a)
      BY <1>0, <1>1 DEF SaveTaskActions, TypeOK
    <3> QED BY <1>0, <3>2, <3>3 DEF TypeOK
  <2> QED BY <2>1, <2>2, <2>3, <2>4, <1>0, <1>1 DEF TypeOK
<1>3. GraphInv' /\ OrderInv' /\ TakenOnce'
  BY <1>0, <1>1 DEF GraphInv, OrderInv, TakenOnce, TookOver
<1>4. BagAccounting' /\ BagsHoldAncestors' /\ BagsAreComplete'
  BY <1>0, <1>1 DEF BagAccounting, BagsHoldAncestors, BagsAreComplete, Overlooked
<1>5. NeverCrashes'
  <2> SUFFICES ASSUME a.taskId = block
               PROVE  ~(NeedsBag(a) /\ serial_bags[a.taskId] = NULL)
    BY <1>0, <1>1 DEF NeverCrashes, SaveTaskActions
  <2>1. a.taskId = block /\ a.taskId \in Tasks
    BY DEF Action
  <2>2. a.taskId \in begun /\ outEdges[a.taskId] \intersect begun = {}
    BY <1>0, <1>1, <2>1, NullAssumption DEF OrderInv
  <2>3. outEdges[a.taskId] = {} \/ outEdges[a.taskId] \ begun # {}
    BY <2>2
  <2> QED BY <1>0, <1>1, <2>1, <2>2, <2>3 DEF BagAccounting
<1> QED BY <1>2, <1>3, <1>4, <1>5 DEF IInv

\* A step with an edge to any other task, older or younger.
AnyEdge == \E sib, par \in Tasks : sib # par /\ AddTaskNode(sib, par)

LEMMA NextIInv == IInv /\ [Next \/ AnyEdge]_vars => IInv'
<1> SUFFICES ASSUME IInv, [Next \/ AnyEdge]_vars PROVE IInv'
  OBVIOUS
<1>0. TypeOK /\ GraphInv
  BY DEF IInv
<1>1. ASSUME NEW sib \in Tasks, NEW par \in Tasks, par < sib \/ sib # par,
             AddTaskNode(sib, par)
      PROVE  IInv'
  <2>1. sib # par
    BY <1>1, TasksAssumption
  <2> QED BY <1>1, <2>1, EdgeStep
<1>2. CASE EndOfHBLog
  <2>1. /\ UNCHANGED <<checkerVars, begun, block, fresh, ordered>>
        /\ phase = "hblog" /\ phase' = "trace"
    BY <1>2 DEF EndOfHBLog
  <2> QED BY <1>0, <2>1 DEF checkerVars, IInv, TypeOK, GraphInv, OrderInv, TakenOnce,
     TookOver, BagAccounting, BagsHoldAncestors, BagsAreComplete, Overlooked, NeverCrashes
<1>3. ASSUME NEW t \in Tasks, t \notin begun, BeginRoot(t)
      PROVE  IInv'
  <2>1. OpenBlock(t) /\ ~MissingParentBag(t) /\ inEdges[t] \ {} = {}
    BY <1>3 DEF BeginRoot, MissingParentBag
  <2>2. MergeBags(t, {}, {}, inEdges[t] \ {})
    BY <1>0, <1>3, <2>1 DEF BeginRoot, OpenBlock, GraphInv
  <2> QED BY <1>0, <1>3, <2>1, <2>2, MergeStep DEF BeginRoot, TypeOK
<1>4. ASSUME NEW t \in Tasks, t \notin begun, BeginClone(t)
      PROVE  IInv'
  <2>1. MergeBags(t, {}, {}, inEdges[t] \ {})
    BY <1>4 DEF BeginClone
  <2> QED BY <1>0, <1>4, <2>1, MergeStep DEF BeginClone, TypeOK
<1>5. ASSUME NEW t \in Tasks, t \notin begun, NEW p \in Tasks,
             NEW stale \in StaleRead, BeginInherit(t, p, stale)
      PROVE  IInv'
  <2> DEFINE own == serial_bags[p].HB \union IF stale = "intact" THEN {p} ELSE {}
  <2>1. /\ OpenBlock(t) /\ ~MissingParentBag(t) /\ p \in Inheritable(t)
        /\ p \in inEdges[t] /\ serial_bags[p] # NULL
    BY <1>5 DEF BeginInherit, Inheritable, MissingParentBag
  <2>2. p \in Parents(outEdges, t) /\ serial_bags[p].HB \subseteq Tasks
    BY <1>0, <1>5, <2>1 DEF GraphInv, TypeOK, SerialBag
  <2>3. own \in SUBSET Tasks /\ own \subseteq Ancestors(outEdges, t)
    <3>1. serial_bags[p].HB \subseteq Ancestors(outEdges, p)
      BY <2>1 DEF IInv, BagsHoldAncestors
    <3> QED BY <2>2, <3>1, ParentsAreAncestors, AncestorsOfParent
  <2>4. \A q \in {p} : serial_bags[q].HB \subseteq own
    OBVIOUS
  <2>5. /\ MergeBags(t, {p}, own, inEdges[t] \ {p})
        /\ inEdges' \in [Tasks -> SUBSET Tasks]
        /\ inEdges'[t] = inEdges[t] \ {p}
        /\ \A u \in Tasks \ {t} : inEdges'[u] = inEdges[u]
        /\ UNCHANGED <<outEdges, writes, conflictTable, functions, crashed>>
    BY <1>0, <1>5 DEF BeginInherit, TypeOK
  <2> HIDE DEF own
  <2> QED BY <1>5, <2>1, <2>3, <2>4, <2>5, MergeStep
<1>6. ASSUME NEW t \in Tasks, t \notin begun, BeginCrash(t)
      PROVE  IInv'
  BY <1>6, CrashStep
<1>7. ASSUME NEW a \in Action, SaveTaskActions(a)
      PROVE  IInv'
  BY <1>7, LineStep
<1>8. ASSUME NEW id \in FuncIds, NEW f \in Funcs, ~Named(id), AddFuncName(id, f)
      PROVE  IInv'
  <2>0. crashed = FALSE /\ crashed' = FALSE
    <3>1. crashed \in BOOLEAN
      BY <1>0 DEF TypeOK
    <3> QED BY <1>8, <3>1 DEF AddFuncName
  <2>1. /\ crashed' = crashed /\ crashed = FALSE
        /\ UNCHANGED <<inEdges, outEdges, serial_bags, writes, conflictTable, phase,
                       begun, block, fresh, ordered>>
    BY <1>8, <2>0 DEF AddFuncName, logVars
  <2>2. TypeOK'
    <3>1. functions' = functions \union {<<id, f>>}
      BY <1>8 DEF AddFuncName
    <3>2. functions' \subseteq FuncIds \X Funcs
      BY <1>0, <3>1 DEF TypeOK
    <3> QED BY <1>0, <2>1, <3>2 DEF TypeOK
  <2> QED BY <2>1, <2>2 DEF IInv, GraphInv, OrderInv, TakenOnce, TookOver,
     BagAccounting, BagsHoldAncestors, BagsAreComplete, Overlooked, NeverCrashes
<1>9. CASE UNCHANGED vars
  BY <1>9 DEF vars, checkerVars, logVars, IInv, TypeOK, GraphInv, OrderInv, TakenOnce,
     TookOver, BagAccounting, BagsHoldAncestors, BagsAreComplete, Overlooked, NeverCrashes
<1> QED BY <1>1, <1>2, <1>3, <1>4, <1>5, <1>6, <1>7, <1>8, <1>9 DEF Next, AnyEdge, Begin

LEMMA Invariance == Spec => []IInv
<1>1. IInv /\ [Next]_vars => IInv'
  BY NextIInv
<1> QED BY InitIInv, <1>1, PTL DEF Spec

-----------------------------------------------------------------------------
(* The recorded conflicts.                                                 *)

LEMMA LeastNat ==
  ASSUME NEW S \in SUBSET Nat, S # {}
  PROVE  \E m \in S : \A n \in S : ~(n < m)
<1>1. \E m \in S : \A n \in S : <<n, m>> \notin OpToRel(<, Nat)
  BY WFMin, NatLessThanWellFounded
<1> QED BY <1>1 DEF OpToRel

\* What is in the windows was logged by a task whose block was opened, at the
\* address of the window; nothing is recorded before the trace is read.
WindowInv ==
  /\ phase = "hblog" => conflictTable = {} /\ \A x \in Addrs : writes[x] = <<>>
  /\ \A x \in Addrs : \A i \in DOMAIN writes[x] :
       writes[x][i].taskId \in begun /\ writes[x][i].addr = x

\* The invariant of the theorems about reports.
ReportInv ==
  /\ WindowInv
  /\ RacesInWindowReported
  /\ ReportsExplained

\* What a window holds after an access is what it held before, or the access.
LEMMA RememberRange ==
  ASSUME NEW w \in Seq(Action), NEW a \in Action
  PROVE  /\ Remember(w, a) \in Seq(Action)
         /\ \A i \in DOMAIN Remember(w, a) :
              Remember(w, a)[i] = a
              \/ \E j \in DOMAIN w : Remember(w, a)[i] = w[j]
<1> DEFINE kept == IF Len(w) >= CONC_THREASHOLD THEN Tail(w) ELSE w
<1>1. kept \in Seq(Action) /\ \A i \in DOMAIN kept : \E j \in DOMAIN w : kept[i] = w[j]
  <2>1. CASE Len(w) >= CONC_THREASHOLD
    <3>1. w # <<>> /\ kept = Tail(w)
      BY <2>1, WindowAssumption
    <3>2. Tail(w) \in Seq(Action) /\ Len(Tail(w)) = Len(w) - 1
          /\ \A i \in 1..Len(Tail(w)) : Tail(w)[i] = w[i + 1]
      BY <3>1
    <3>3. ASSUME NEW i \in DOMAIN Tail(w)
          PROVE  \E j \in DOMAIN w : Tail(w)[i] = w[j]
      <4>1. i + 1 \in DOMAIN w /\ Tail(w)[i] = w[i + 1]
        BY <3>2
      <4> QED BY <4>1
    <3> QED BY <3>1, <3>2, <3>3
  <2>2. CASE ~(Len(w) >= CONC_THREASHOLD)
    BY <2>2
  <2> QED BY <2>1, <2>2
<1> HIDE DEF kept
<1>2. /\ Append(kept, a) \in Seq(Action)
      /\ \A i \in DOMAIN Append(kept, a) :
           Append(kept, a)[i] = a \/ (i \in DOMAIN kept /\ Append(kept, a)[i] = kept[i])
  BY <1>1
<1>3. Remember(w, a) = Append(kept, a)
  BY DEF Remember, kept
<1> QED BY <1>1, <1>2, <1>3

\* The first entry of its task in the window that conflicts with an access is
\* recorded, unless the pair of tasks already has the address: in any case the
\* race is on record afterwards.
LEMMA HitIsRecorded ==
  ASSUME TypeOK, NEW a \in Action, a.addr \in Addrs,
         NEW k \in DOMAIN writes[a.addr], ConflictsWith(a, writes[a.addr][k]),
         conflictTable' = conflictTable \union NewConflicts(a),
         NEW s, s = writes[a.addr][k].taskId
  PROVE  Reported(a.taskId, s, a.addr)'
<1> DEFINE w    == writes[a.addr]
           hits == {i \in DOMAIN w : ConflictsWith(a, w[i])}
           same == {i \in hits : w[i].taskId = s}
           conf(i) == [action1 |-> a, action2 |-> w[i]]
<1>1. same \in SUBSET Nat /\ same # {}
  <2>1. w \in Seq(Action)
    BY DEF TypeOK
  <2>2. DOMAIN w \subseteq Nat
    BY <2>1
  <2> QED BY <2>2
<1>2. PICK m \in same : \A n \in same : ~(n < m)
  <2> HIDE DEF same
  <2> QED BY <1>1, LeastNat
<1>3. \A i \in same : conf(i) \in conflictTable' => Reported(a.taskId, s, a.addr)'
  <2> SUFFICES ASSUME NEW i \in same, conf(i) \in conflictTable'
               PROVE  Reported(a.taskId, s, a.addr)'
    OBVIOUS
  <2>1. /\ {conf(i).action1.taskId, conf(i).action2.taskId} = {a.taskId, s}
        /\ conf(i).action1.addr = a.addr
    OBVIOUS
  <2> HIDE DEF conf
  <2>2. \E c \in conflictTable' :
           /\ {c.action1.taskId, c.action2.taskId} = {a.taskId, s}
           /\ c.action1.addr = a.addr
    BY <2>1
  <2> HIDE DEF same
  <2> QED BY <2>2 DEF Reported
<1>4. CASE Recorded(a, w[m])
  <2>1. PICK c \in conflictTable : /\ c.action1.taskId = a.taskId
                                  /\ c.action2.taskId = s
                                  /\ c.action1.addr = a.addr
    BY <1>2, <1>4 DEF Recorded
  <2>2. {c.action1.taskId, c.action2.taskId} = {a.taskId, s}
    BY <2>1
  <2> QED BY <2>1, <2>2 DEF Reported
<1>5. CASE ~Recorded(a, w[m])
  <2>1. \A j \in hits : j < m => w[j].taskId # w[m].taskId
    BY <1>2
  <2>2. conf(m) \in NewConflicts(a)
    BY <1>2, <1>5, <2>1 DEF NewConflicts
  <2> QED BY <1>2, <1>3, <2>2
<1> QED BY <1>4, <1>5

LEMMA ParallelNotInBag ==
  ASSUME BagsHoldAncestors, NEW s \in Tasks, NEW t \in Tasks,
         serial_bags[t] # NULL, Parallel(s, t)
  PROVE  s \notin serial_bags[t].HB
BY DEF BagsHoldAncestors, Parallel

\* Steps that touch neither the graph's edges, the windows nor the conflicts.
LEMMA QuietStep ==
  ASSUME TypeOK, ReportInv, UNCHANGED <<outEdges, writes, conflictTable>>,
         begun \subseteq begun', phase' = "hblog" => phase = "hblog",
         ordered' => ordered, \A v \in Tasks : inEdges'[v] \subseteq inEdges[v]
  PROVE  ReportInv'
<1>1. WindowInv'
  BY DEF ReportInv, WindowInv
<1>2. \A s, t : Parallel(s, t)' <=> Parallel(s, t)
  BY DEF Parallel
<1>3. \A s, t, x : Reported(s, t, x)' <=> Reported(s, t, x)
  BY DEF Reported
<1>4. RacesInWindowReported'
  BY <1>2, <1>3 DEF ReportInv, RacesInWindowReported, Interferes
<1>5. ReportsExplained'
  <2>1. \A p, t : Overlooked(p, t) => Overlooked(p, t)'
    <3> SUFFICES ASSUME NEW p, NEW t, Overlooked(p, t) PROVE Overlooked(p, t)'
      OBVIOUS
    <3>1. \A v \in OnTheWay(outEdges, p, t) : v \in Tasks
      BY DEF OnTheWay, TypeOK, Overlooked, OneWay, Ancestors
    <3> QED BY <3>1 DEF Overlooked
  <2> QED BY <1>2, <2>1 DEF ReportInv, ReportsExplained
<1> QED BY <1>1, <1>4, <1>5 DEF ReportInv

\* A race with an access in the window is on record once the line is read.
LEMMA RaceIsRecorded ==
  ASSUME TypeOK, BagsHoldAncestors, NEW a \in Action,
         ~(NeedsBag(a) /\ serial_bags[a.taskId] = NULL),
         conflictTable' = conflictTable \union NewConflicts(a),
         NEW k \in DOMAIN writes[a.addr], NEW b, b = writes[a.addr][k],
         NEW s, s = b.taskId, Parallel(s, a.taskId), Interferes(a, b)
  PROVE  Reported(a.taskId, s, a.addr)'
<1>0. a.taskId \in Tasks /\ a.addr \in Addrs /\ writes[a.addr] \in Seq(Action)
  BY DEF Action, TypeOK
<1>1. b \in Action /\ s \in Tasks /\ s # a.taskId
  BY <1>0 DEF Action, Parallel
<1>2. serial_bags[a.taskId] # NULL
  BY <1>1 DEF NeedsBag
<1>3. s \notin serial_bags[a.taskId].HB
  BY <1>0, <1>1, <1>2, ParallelNotInBag
<1>4. ConflictsWith(a, b)
  BY <1>1, <1>3 DEF ConflictsWith
<1> QED BY <1>0, <1>4, HitIsRecorded

\* While the log is ordered, an access that the bag does not order before the
\* current one is parallel to it or overlooked.
LEMMA HitIsExplained ==
  ASSUME IInv, WindowInv, NEW a \in Action, ReadLine(a), ordered',
         ~(NeedsBag(a) /\ serial_bags[a.taskId] = NULL),
         NEW w, NEW k \in DOMAIN writes[a.addr], w = writes[a.addr][k],
         ConflictsWith(a, w)
  PROVE  Parallel(a.taskId, w.taskId) \/ Overlooked(w.taskId, a.taskId)
<1>0. /\ TypeOK /\ OrderInv /\ BagsAreComplete
      /\ a.taskId \in Tasks /\ a.addr \in Addrs /\ writes[a.addr] \in Seq(Action)
  BY DEF IInv, Action, TypeOK
<1>1. a.taskId = block /\ a.taskId \in begun /\ ~crashed
      /\ outEdges[block] \intersect begun = {}
  BY <1>0, NullAssumption DEF ReadLine, OrderInv
<1>2. w \in Action /\ w.taskId \in begun /\ w.taskId \in Tasks /\ a.taskId # w.taskId
  BY <1>0 DEF WindowInv, ConflictsWith, Action
<1>3. serial_bags[a.taskId] # NULL
  BY <1>2 DEF NeedsBag
<1>4. w.taskId \notin Ancestors(outEdges, a.taskId) \/ Overlooked(w.taskId, a.taskId)
  BY <1>0, <1>3 DEF BagsAreComplete, ConflictsWith
<1>5. begun \in SUBSET DOMAIN outEdges /\ ParentClosed(outEdges, begun)
  BY <1>0, <1>1 DEF TypeOK, OrderInv, ParentClosed
<1>6. \A q \in begun : a.taskId \notin Parents(outEdges, q)
  BY <1>1 DEF Parents
<1>7. a.taskId \notin Ancestors(outEdges, w.taskId)
  BY <1>2, <1>5, <1>6, NotAnAncestor
<1> QED BY <1>2, <1>4, <1>7 DEF Parallel

\* An access that meets no missing bag.
LEMMA AccessReports ==
  ASSUME IInv, ReportInv, NEW a \in Action, LineExpected(a), ReadLine(a),
         ~(NeedsBag(a) /\ serial_bags[a.taskId] = NULL),
         conflictTable' = conflictTable \union NewConflicts(a),
         writes' = [writes EXCEPT ![a.addr] = Remember(@, a)],
         UNCHANGED <<inEdges, outEdges, serial_bags>>
  PROVE  ReportInv'
<1>0. /\ TypeOK /\ GraphInv /\ OrderInv /\ BagsHoldAncestors
      /\ WindowInv /\ RacesInWindowReported
  BY DEF IInv, ReportInv
<1>1. /\ a.taskId \in Tasks /\ a.addr \in Addrs /\ ~crashed /\ phase' = "trace"
      /\ begun' = begun /\ block' = block /\ writes[a.addr] \in Seq(Action)
  BY <1>0 DEF ReadLine, Action, TypeOK
<1>2. a.taskId \in begun
  BY DEF LineExpected
<1>3. \A x \in Addrs : x # a.addr => writes'[x] = writes[x]
  BY <1>0 DEF TypeOK
<1>4. writes'[a.addr] = Remember(writes[a.addr], a)
  BY <1>0, <1>1 DEF TypeOK
<1>5. \A i \in DOMAIN writes'[a.addr] :
        writes'[a.addr][i] = a
        \/ \E j \in DOMAIN writes[a.addr] : writes'[a.addr][i] = writes[a.addr][j]
  BY <1>1, <1>4, RememberRange
<1>6. WindowInv'
  BY <1>0, <1>1, <1>2, <1>3, <1>5 DEF WindowInv
<1>7. \A s, t \in Tasks, x \in Addrs : Reported(s, t, x) => Reported(s, t, x)'
  BY DEF Reported
<1>8. ASSUME NEW k \in DOMAIN writes[a.addr], NEW b, b = writes[a.addr][k],
             NEW s, s = b.taskId, Parallel(s, a.taskId), Interferes(a, b)
      PROVE  Reported(a.taskId, s, a.addr)'
  BY <1>0, <1>8, RaceIsRecorded
<1>9. RacesInWindowReported'
  <2> SUFFICES ASSUME NEW x \in Addrs, NEW i \in DOMAIN writes'[x],
                      NEW j \in DOMAIN writes'[x], NEW c, NEW d,
                      c = writes'[x][i], d = writes'[x][j],
                      NEW s, NEW t, s = c.taskId, t = d.taskId,
                      Parallel(s, t)', Interferes(c, d)
               PROVE  Reported(s, t, x)'
    BY DEF RacesInWindowReported, Interferes
  <2>1. Parallel(s, t) /\ Parallel(t, s) /\ Interferes(d, c)
    BY DEF Parallel, Interferes
  <2>2. \A y : Reported(s, t, y)' <=> Reported(t, s, y)'
    <3>1. {s, t} = {t, s}
      OBVIOUS
    <3> QED BY <3>1 DEF Reported
  <2>3. ASSUME NEW p \in DOMAIN writes[x], NEW q \in DOMAIN writes[x],
               c = writes[x][p], d = writes[x][q]
        PROVE  Reported(s, t, x)'
    <3>1. Reported(s, t, x)
      BY <1>0, <2>1, <2>3 DEF RacesInWindowReported
    <3> QED BY <3>1 DEF Reported
  <2>4. CASE x # a.addr
    <3>1. writes'[x] = writes[x]
      BY <1>3, <2>4
    <3> QED BY <3>1, <2>3
  <2>5. CASE x = a.addr
    <3>1. CASE c = a /\ d = a
      BY <3>1, <2>1 DEF Parallel
    <3>2. ASSUME c = a, NEW q \in DOMAIN writes[x], d = writes[x][q]
          PROVE  Reported(s, t, x)'
      BY <3>2, <2>1, <2>5, <1>8
    <3>3. ASSUME d = a, NEW q \in DOMAIN writes[x], c = writes[x][q]
          PROVE  Reported(s, t, x)'
      <4>1. Reported(t, s, x)'
        BY <3>3, <2>1, <2>5, <1>8
      <4> QED BY <4>1, <2>2
    <3> QED BY <3>1, <3>2, <3>3, <2>3, <2>5, <1>5
  <2> QED BY <2>4, <2>5
<1>10. ReportsExplained'
  <2> SUFFICES ASSUME ordered' PROVE ReportsExplained'
    BY DEF ReportsExplained
  <2>1. ReportsExplained /\ ordered
    BY DEF ReportInv, ReadLine
  <2>2. ASSUME NEW c \in NewConflicts(a)
        PROVE  \/ Parallel(c.action1.taskId, c.action2.taskId)
               \/ Overlooked(c.action2.taskId, c.action1.taskId)
    <3>1. PICK k \in DOMAIN writes[a.addr] :
            /\ c = [action1 |-> a, action2 |-> writes[a.addr][k]]
            /\ ConflictsWith(a, writes[a.addr][k])
      BY DEF NewConflicts
    <3> QED BY <3>1, HitIsExplained DEF ReportInv
  <2>3. \A s, t : /\ Parallel(s, t)' <=> Parallel(s, t)
                  /\ Overlooked(s, t)' <=> Overlooked(s, t)
    BY DEF Parallel, Overlooked
  <2> QED BY <2>1, <2>2, <2>3 DEF ReportsExplained
<1> QED BY <1>6, <1>9, <1>10 DEF ReportInv

LEMMA NextReportInv == IInv /\ ReportInv /\ [Next \/ AnyEdge]_vars => ReportInv'
<1> SUFFICES ASSUME IInv, ReportInv, [Next \/ AnyEdge]_vars PROVE ReportInv'
  OBVIOUS
<1>0. TypeOK
  BY DEF IInv
<1>1. ASSUME NEW sib \in Tasks, NEW par \in Tasks, AddTaskNode(sib, par)
      PROVE  ReportInv'
  <2>1. conflictTable' = {} /\ \A x \in Addrs : writes'[x] = <<>>
    BY <1>1 DEF AddTaskNode, ReportInv, WindowInv
  <2> QED BY <2>1 DEF ReportInv, WindowInv, RacesInWindowReported, ReportsExplained
<1>2. CASE EndOfHBLog
  BY <1>0, <1>2, QuietStep DEF EndOfHBLog, checkerVars
<1>3. ASSUME NEW t \in Tasks, Begin(t)
      PROVE  ReportInv'
  <2>1. /\ UNCHANGED <<outEdges, writes, conflictTable>>
        /\ begun \subseteq begun' /\ phase' = phase
        /\ ordered' => ordered
    <3>1. OpenBlock(t) /\ UNCHANGED <<outEdges, writes, conflictTable>>
      BY <1>3 DEF Begin, BeginRoot, BeginClone, BeginInherit, BeginCrash
    <3>2. ordered' => ordered
      BY <3>1 DEF OpenBlock
    <3> QED BY <3>1, <3>2 DEF OpenBlock
  <2>2. \A v \in Tasks : inEdges'[v] \subseteq inEdges[v]
    BY <1>0, <1>3 DEF Begin, BeginRoot, BeginClone, BeginInherit, BeginCrash, TypeOK
  <2> QED BY <1>0, <2>1, <2>2, QuietStep
<1>4. ASSUME NEW a \in Action, LineExpected(a), SaveTaskActions(a)
      PROVE  ReportInv'
  <2>1. CASE NeedsBag(a) /\ serial_bags[a.taskId] = NULL
    BY <1>0, <1>4, <2>1, QuietStep DEF SaveTaskActions, ReadLine
  <2>2. CASE ~(NeedsBag(a) /\ serial_bags[a.taskId] = NULL)
    BY <1>4, <2>2, AccessReports DEF SaveTaskActions
  <2> QED BY <2>1, <2>2
<1>5. ASSUME NEW id \in FuncIds, NEW f \in Funcs, AddFuncName(id, f)
      PROVE  ReportInv'
  BY <1>0, <1>5, QuietStep DEF AddFuncName, logVars
<1>6. CASE UNCHANGED vars
  BY <1>0, <1>6, QuietStep DEF vars, checkerVars, logVars
<1> QED BY <1>1, <1>2, <1>3, <1>4, <1>5, <1>6 DEF Next, AnyEdge

LEMMA ReportInvariance == Spec => []ReportInv
<1>1. Init => ReportInv
  BY DEF Init, ReportInv, WindowInv, RacesInWindowReported, ReportsExplained
<1>2. IInv /\ ReportInv /\ [Next]_vars => ReportInv'
  BY NextReportInv
<1> QED BY <1>1, <1>2, Invariance, PTL DEF Spec

-----------------------------------------------------------------------------
(* The checker implements the detector that decides by the task graph.     *)

LEMMA SameAncestors ==
  ASSUME NEW edges, NEW t
  PROVE  Ideal!Ancestors(edges, t) = Ancestors(edges, t)
BY DEF Ideal!Ancestors, Ideal!Parents, Ideal!ParentClosed,
       Ancestors, Parents, ParentClosed

LEMMA OrderedOrParallel ==
  ASSUME NEW s, NEW t
  PROVE  ~Ideal!Ordered(s, t) <=> Parallel(t, s)
BY SameAncestors DEF Ideal!Ordered, Parallel

LEMMA SameWay ==
  ASSUME NEW s, NEW t, Overlooked(s, t)
  PROVE  Ideal!OneWay(outEdges, s, t)
BY SameAncestors DEF Overlooked, OneWay, OnTheWay, Ideal!OneWay, Ideal!OnTheWay

LEMMA SameInterference ==
  ASSUME NEW a, NEW b
  PROVE  Ideal!OrderMatters(a, b) <=> Interferes(a, b)
BY DEF Ideal!OrderMatters, Interferes

\* What the abstract detector knows of a set of recorded conflicts.
Pair(c)      == [tasks |-> {c.action1.taskId, c.action2.taskId},
                 addr  |-> c.action1.addr]
Pairs(table) == {Pair(c) : c \in table}

\* The pairs that an access adds are the races it has with the window and, of
\* tasks that one child connects, some more.
LEMMA SamePairs ==
  ASSUME IInv, WindowInv, NEW a \in Action, ReadLine(a), ordered',
         ~(NeedsBag(a) /\ serial_bags[a.taskId] = NULL),
         conflictTable' = conflictTable \union NewConflicts(a)
  PROVE  \E alarms \in SUBSET Ideal!FalseAlarms(a) :
           Pairs(conflictTable') = Pairs(conflictTable) \union Ideal!RacesOf(a)
                                     \union alarms
<1> DEFINE w == writes[a.addr]
<1>0. TypeOK /\ BagsHoldAncestors
  BY DEF IInv
<1>1. ASSUME NEW c \in NewConflicts(a)
      PROVE  Pair(c) \in Ideal!RacesOf(a) \union Ideal!FalseAlarms(a)
  <2>1. PICK k \in DOMAIN w :
          c = [action1 |-> a, action2 |-> w[k]] /\ ConflictsWith(a, w[k])
    BY DEF NewConflicts
  <2>2. Parallel(a.taskId, w[k].taskId) \/ Overlooked(w[k].taskId, a.taskId)
    BY <2>1, HitIsExplained
  <2>3. ~Ideal!Ordered(a.taskId, w[k].taskId)
        \/ Ideal!OneWay(outEdges, w[k].taskId, a.taskId)
    BY <2>2, OrderedOrParallel, SameWay DEF Parallel
  <2>4. w[k] \in Ideal!Rivals(a)
    BY <2>1, SameInterference DEF ConflictsWith, Ideal!Rivals
  <2>5. Pair(c) = [tasks |-> {a.taskId, w[k].taskId}, addr |-> a.addr]
    BY <2>1 DEF Pair
  <2> QED BY <2>3, <2>4, <2>5 DEF Ideal!RacesOf, Ideal!FalseAlarms, Ideal!PairsWith
<1>2. ASSUME NEW r \in Ideal!RacesOf(a)
      PROVE  r \in Pairs(conflictTable')
  <2>1. PICK k \in DOMAIN w :
          /\ r = [tasks |-> {a.taskId, w[k].taskId}, addr |-> a.addr]
          /\ ~Ideal!Ordered(a.taskId, w[k].taskId)
          /\ Ideal!OrderMatters(a, w[k])
    BY DEF Ideal!RacesOf, Ideal!PairsWith, Ideal!Rivals
  <2>2. PICK b : b = w[k]
    OBVIOUS
  <2>3. PICK s : s = b.taskId
    OBVIOUS
  <2>4. Parallel(s, a.taskId) /\ Interferes(a, b)
    BY <2>1, <2>2, <2>3, OrderedOrParallel, SameInterference
  <2>5. Reported(a.taskId, s, a.addr)'
    BY <1>0, <2>2, <2>3, <2>4, RaceIsRecorded
  <2>6. PICK c \in conflictTable' :
          /\ {c.action1.taskId, c.action2.taskId} = {a.taskId, s}
          /\ c.action1.addr = a.addr
    BY <2>5 DEF Reported
  <2>7. r = Pair(c)
    BY <2>1, <2>2, <2>3, <2>6 DEF Pair
  <2> QED BY <2>6, <2>7 DEF Pairs
<1> DEFINE alarms == Pairs(NewConflicts(a)) \intersect Ideal!FalseAlarms(a)
<1>3. Pairs(conflictTable') = Pairs(conflictTable) \union Pairs(NewConflicts(a))
  BY DEF Pairs
<1>4. Pairs(NewConflicts(a)) \subseteq Ideal!RacesOf(a) \union Ideal!FalseAlarms(a)
  BY <1>1 DEF Pairs
<1>5. Ideal!RacesOf(a) \subseteq Pairs(conflictTable')
  BY <1>2
<1>6. Pairs(conflictTable') = Pairs(conflictTable) \union Ideal!RacesOf(a) \union alarms
  BY <1>3, <1>4, <1>5
<1> QED BY <1>6

LEMMA SameWindow ==
  ASSUME NEW w \in Seq(Action), NEW a
  PROVE  Remember(w, a) = Append(IF Len(w) < CONC_THREASHOLD THEN w ELSE Tail(w), a)
<1>1. Len(w) \in Nat /\ CONC_THREASHOLD \in Nat
  BY WindowAssumption
<1>2. Len(w) >= CONC_THREASHOLD <=> ~(Len(w) < CONC_THREASHOLD)
  BY <1>1
<1> QED BY <1>2 DEF Remember

\* A line of an ordered trace is an observation of the abstract detector.
LEMMA LineIsObservation ==
  ASSUME IInv, WindowInv, NeverCrashes', ordered', NEW a \in Action, SaveTaskActions(a)
  PROVE  Ideal!Observe(a)
<1>0. /\ TypeOK /\ a.addr \in Addrs /\ writes[a.addr] \in Seq(Action)
      /\ ReadLine(a) /\ outEdges' = outEdges
  BY DEF IInv, TypeOK, Action, SaveTaskActions
<1>1. ~(NeedsBag(a) /\ serial_bags[a.taskId] = NULL)
  BY DEF SaveTaskActions, NeverCrashes
<1>2. /\ conflictTable' = conflictTable \union NewConflicts(a)
      /\ writes' = [writes EXCEPT ![a.addr] = Remember(@, a)]
  BY <1>1 DEF SaveTaskActions
<1>3. writes' = [writes EXCEPT ![a.addr] =
        Append(IF Len(@) < CONC_THREASHOLD THEN @ ELSE Tail(@), a)]
  BY <1>0, <1>2, SameWindow
<1>4. \E alarms \in SUBSET Ideal!FalseAlarms(a) :
        Pairs(conflictTable') = Pairs(conflictTable) \union Ideal!RacesOf(a)
                                  \union alarms
  BY <1>0, <1>1, <1>2, SamePairs
<1> QED BY <1>0, <1>3, <1>4 DEF Ideal!Observe, Pairs, Pair

\* A line of the happens-before log is an edge, every other step a stutter.
LEMMA StepsMap ==
  ASSUME IInv, IInv', WindowInv, [Next]_vars
  PROVE  [ordered' => Ideal!Next]_(Ideal!vars)
<1> DEFINE Stutter == UNCHANGED <<outEdges, writes, conflictTable>>
<1>1. Stutter => UNCHANGED Ideal!vars
  BY DEF Ideal!vars
<1>2. ASSUME NEW sib \in Tasks, NEW par \in Tasks, AddTaskNode(sib, par)
      PROVE  Ideal!Next
  <2>1. Ideal!Edge(par, sib)
    BY <1>2 DEF AddTaskNode, WindowInv, Ideal!Edge
  <2> QED BY <2>1 DEF Ideal!Next
<1>3. CASE EndOfHBLog
  BY <1>1, <1>3 DEF EndOfHBLog, checkerVars
<1>4. ASSUME NEW t \in Tasks, Begin(t)
      PROVE  Stutter
  BY <1>4 DEF Begin, BeginRoot, BeginClone, BeginInherit, BeginCrash
<1>5. ASSUME NEW a \in Action, SaveTaskActions(a), ordered'
      PROVE  Ideal!Next
  <2>1. Ideal!Observe(a)
    BY <1>5, LineIsObservation DEF IInv
  <2>2. a \in Ideal!Access
    BY DEF Action, Ideal!Access
  <2> QED BY <2>1, <2>2 DEF Ideal!Next
<1>6. ASSUME NEW id \in FuncIds, NEW f \in Funcs, AddFuncName(id, f)
      PROVE  Stutter
  BY <1>6 DEF AddFuncName
<1>7. CASE UNCHANGED vars
  BY <1>1, <1>7 DEF vars, checkerVars
<1> QED BY <1>1, <1>2, <1>3, <1>4, <1>5, <1>6, <1>7 DEF Next

-----------------------------------------------------------------------------
(* A block has one line per address.                                       *)

\* A window has at most one entry per block begun; while the address has no line in
\* the current block, one less.
OneLineInv ==
  \A x \in Addrs :
    /\ Len(writes[x]) <= Cardinality(begun)
    /\ x \in fresh => Len(writes[x]) < Cardinality(begun)

LEMMA CountBegun ==
  ASSUME TypeOK
  PROVE  /\ Cardinality(begun) \in Nat /\ Cardinality(begun) <= Cardinality(Tasks)
         /\ Cardinality(Tasks) \in Nat
         /\ \A t \in Tasks \ begun : Cardinality(begun \union {t}) = Cardinality(begun) + 1
<1>1. begun \subseteq Tasks /\ IsFiniteSet(Tasks)
  BY TasksAssumption DEF TypeOK
<1>2. IsFiniteSet(begun) /\ Cardinality(begun) <= Cardinality(Tasks)
  BY <1>1, FS_Subset
<1>3. \A t \in Tasks \ begun : Cardinality(begun \union {t}) = Cardinality(begun) + 1
  BY <1>2, FS_AddElement
<1> QED BY <1>1, <1>2, <1>3, FS_CardinalityType

\* While tasks are no more than a window has entries, no access is forgotten.
LEMMA NothingForgotten ==
  ASSUME TypeOK, OneLineInv, NEW a \in Action, LineExpected(a)
  PROVE  /\ a.addr \in Addrs /\ writes[a.addr] \in Seq(Action)
         /\ Len(Remember(writes[a.addr], a)) <= Len(writes[a.addr]) + 1
         /\ Len(writes[a.addr]) < Cardinality(begun)
         /\ Cardinality(Tasks) <= CONC_THREASHOLD =>
              Remember(writes[a.addr], a) = Append(writes[a.addr], a)
<1> DEFINE w == writes[a.addr]
<1>1. a.addr \in Addrs /\ w \in Seq(Action) /\ Len(w) \in Nat /\ a.addr \in fresh
  BY DEF Action, TypeOK, LineExpected
<1>2. Len(w) < Cardinality(begun)
  BY <1>1, CountBegun DEF OneLineInv
<1>3. Cardinality(Tasks) <= CONC_THREASHOLD => ~(Len(w) >= CONC_THREASHOLD)
  BY <1>1, <1>2, CountBegun, WindowAssumption
<1>4. Len(Remember(w, a)) <= Len(w) + 1
  <2>1. CASE Len(w) >= CONC_THREASHOLD
    <3>1. w # <<>> /\ Remember(w, a) = Append(Tail(w), a)
      BY <1>1, <2>1, WindowAssumption DEF Remember
    <3>2. Tail(w) \in Seq(Action) /\ Len(Tail(w)) = Len(w) - 1
      BY <1>1, <3>1
    <3> HIDE DEF w
    <3>3. Len(Append(Tail(w), a)) = Len(Tail(w)) + 1
      BY <3>2
    <3> QED BY <1>1, <3>1, <3>2, <3>3
  <2>2. CASE ~(Len(w) >= CONC_THREASHOLD)
    BY <1>1, <2>2 DEF Remember
  <2> QED BY <2>1, <2>2
<1> QED BY <1>1, <1>2, <1>3, <1>4 DEF Remember

LEMMA NextOneLine == IInv /\ OneLineInv /\ [Next \/ AnyEdge]_vars => OneLineInv'
<1> SUFFICES ASSUME IInv, OneLineInv, [Next \/ AnyEdge]_vars PROVE OneLineInv'
  OBVIOUS
<1>0. TypeOK /\ \A x \in Addrs : Len(writes[x]) \in Nat
  BY DEF IInv, TypeOK
<1>1. ASSUME NEW t \in Tasks, t \notin begun, Begin(t) PROVE OneLineInv'
  <2>1. /\ t \notin begun /\ begun' = begun \union {t} /\ UNCHANGED writes
        /\ fresh' = Addrs
    BY <1>1 DEF Begin, BeginRoot, BeginClone, BeginInherit, BeginCrash, OpenBlock
  <2>2. \A x \in Addrs : Len(writes[x]) <= Cardinality(begun)
    BY <1>0, CountBegun DEF OneLineInv
  <2>3. Cardinality(begun') = Cardinality(begun) + 1 /\ Cardinality(begun) \in Nat
    BY <1>0, <2>1, CountBegun
  <2> QED BY <1>0, <2>1, <2>2, <2>3 DEF OneLineInv
<1>2. ASSUME NEW a \in Action, LineExpected(a), SaveTaskActions(a) PROVE OneLineInv'
  <2>1. /\ LineExpected(a) /\ fresh' = fresh \ {a.addr} /\ begun' = begun
        /\ UNCHANGED writes \/ writes' = [writes EXCEPT ![a.addr] = Remember(@, a)]
    BY <1>2 DEF SaveTaskActions, ReadLine
  <2>2. /\ a.addr \in Addrs /\ Len(Remember(writes[a.addr], a)) <= Len(writes[a.addr]) + 1
        /\ Len(writes[a.addr]) < Cardinality(begun) /\ Cardinality(begun) \in Nat
        /\ Len(Remember(writes[a.addr], a)) \in Nat
    <3>1. Remember(writes[a.addr], a) \in Seq(Action)
      BY <1>0, <2>1, NothingForgotten, RememberRange
    <3> QED BY <1>0, <2>1, <3>1, NothingForgotten, CountBegun
  <2>3. CASE UNCHANGED writes
    BY <1>0, <2>1, <2>2, <2>3 DEF OneLineInv
  <2>4. CASE writes' = [writes EXCEPT ![a.addr] = Remember(@, a)]
    <3>1. \A x \in Addrs : writes'[x] = IF x = a.addr THEN Remember(writes[x], a) ELSE writes[x]
      BY <1>0, <2>4 DEF TypeOK
    <3> QED BY <1>0, <2>1, <2>2, <3>1 DEF OneLineInv
  <2> QED BY <2>1, <2>3, <2>4
<1>3. CASE UNCHANGED <<writes, fresh, begun>>
  BY <1>3 DEF OneLineInv
<1>4. ASSUME NEW sib \in Tasks, NEW par \in Tasks, AddTaskNode(sib, par)
      PROVE  UNCHANGED <<writes, fresh, begun>>
  BY <1>4 DEF AddTaskNode, logVars
<1>5. ASSUME NEW id \in FuncIds, NEW f \in Funcs, AddFuncName(id, f)
      PROVE  UNCHANGED <<writes, fresh, begun>>
  BY <1>5 DEF AddFuncName, logVars
<1>6. EndOfHBLog \/ UNCHANGED vars => UNCHANGED <<writes, fresh, begun>>
  BY DEF EndOfHBLog, vars, checkerVars, logVars
<1> QED BY <1>1, <1>2, <1>3, <1>4, <1>5, <1>6 DEF Next, AnyEdge

LEMMA InitOneLine == Init => OneLineInv
<1>1. Cardinality({}) = 0
  BY FS_EmptySet
<1> QED BY <1>1 DEF Init, OneLineInv

-----------------------------------------------------------------------------
(* The results.                                                            *)

\* Every variable keeps its type.
THEOREM TypeCorrect == Spec => []TypeOK
BY Invariance, PTL DEF IInv

\* A bag lives until its last child has asked for it, for every task graph:
\* inheriting, merging and releasing keep one consistent count
\* (checker.cpp:235-268).
THEOREM BagsAccounted == Spec => []BagAccounting
BY Invariance, PTL DEF IInv

\* The bags never order two tasks the streams leave parallel, whatever the read
\* of the erased node yields and whatever order the blocks come in.
THEOREM BagsSound == Spec => []BagsHoldAncestors
BY Invariance, PTL DEF IInv

\* A bag has all the tasks that happened before its owner but those whose bag was
\* taken over by the only child that leads to the owner: that is all that the read
\* of the erased node can lose (checker.cpp:241-244), for every graph and order of
\* blocks.
THEOREM BagsComplete == Spec => []BagsAreComplete
BY Invariance, PTL DEF IInv

\* While the log is that of a run with one thread per task, no line makes the
\* checker dereference a missing bag.
THEOREM NoCrash == Spec => []NeverCrashes
BY Invariance, PTL DEF IInv

\* No race is lost as long as both accesses are in the window of their address:
\* not through a bag, not through the order of the set of conflicts
\* (checker.cpp:40-74, conflictReport.hpp:34).
THEOREM NoRaceLost == Spec => []RacesInWindowReported
BY ReportInvariance, PTL DEF ReportInv

\* The only false alarms of an ordered log are those between tasks that a single
\* child connects, when that child took over the bag of the first and the erased
\* node had been written over (checker.cpp:44-48 and 241-244).
THEOREM FalseAlarmsExplained == Spec => []ReportsExplained
BY ReportInvariance, PTL DEF ReportInv

\* The serial bags, the inheriting, the windows and the set of conflicts that
\* drops entries together decide what the task graph decides: at every line of an
\* ordered log the checker finds what the abstract detector finds.
THEOREM ImplementsIdeal == Spec => DetectsRaces
<1>1. Init => Ideal!Init
  BY DEF Init, Ideal!Init
<1>2. IInv /\ IInv' /\ ReportInv /\ [Next]_vars => [ordered' => Ideal!Next]_(Ideal!vars)
  BY StepsMap DEF ReportInv
<1> QED BY <1>1, <1>2, Invariance, ReportInvariance, PTL DEF Spec, DetectsRaces
==============================================================================

-------------------------- MODULE ThreadPoolProofs --------------------------
(***************************************************************************)
(* The thread pool implements module Dataflow, whatever the number of      *)
(* workers; so what DataflowProofs shows holds of it.  The queues of the   *)
(* workers hold tasks that are ready, each of them once.                   *)
(***************************************************************************)
EXTENDS ThreadPool, SequenceTheorems, FiniteSetTheorems, TLAPS

P == INSTANCE DataflowProofs

-----------------------------------------------------------------------------
(* Arrays of queues.                                                       *)

\* All entries of the queues Q are in S; no two are the same.
Within(Q, S) == \A w \in Workers : \A i \in 1..Len(Q[w]) : Q[w][i] \in S
Distinct(Q) ==
  \A v, w \in Workers : \A i \in 1..Len(Q[v]), j \in 1..Len(Q[w]) :
    Q[v][i] = Q[w][j] => v = w /\ i = j

\* A task that is in no queue is put at the end of one.
LEMMA Pushed ==
  ASSUME NEW Q \in [Workers -> Seq(Tasks)], NEW w \in Workers, NEW t \in Tasks, NEW S,
         Within(Q, S), Distinct(Q), t \in S,
         \A v \in Workers : \A i \in 1..Len(Q[v]) : Q[v][i] # t
  PROVE  LET R == [Q EXCEPT ![w] = Append(@, t)]
         IN  R \in [Workers -> Seq(Tasks)] /\ Within(R, S) /\ Distinct(R)
<1> DEFINE R == [Q EXCEPT ![w] = Append(@, t)]
<1>1. /\ Append(Q[w], t) \in Seq(Tasks)
      /\ Len(Append(Q[w], t)) = Len(Q[w]) + 1
      /\ \A i \in 1..Len(Q[w]) : Append(Q[w], t)[i] = Q[w][i]
      /\ Append(Q[w], t)[Len(Q[w]) + 1] = t
      /\ Len(Q[w]) \in Nat
  OBVIOUS
<1>2. R[w] = Append(Q[w], t) /\ \A v \in Workers : v # w => R[v] = Q[v]
  OBVIOUS
<1>3. R \in [Workers -> Seq(Tasks)]
  BY <1>1
<1> HIDE DEF R
<1>4. \A v \in Workers : \A i \in 1..Len(R[v]) :
         \/ i \in 1..Len(Q[v]) /\ R[v][i] = Q[v][i]
         \/ v = w /\ i = Len(Q[w]) + 1 /\ R[v][i] = t
  <2> SUFFICES ASSUME NEW v \in Workers, NEW i \in 1..Len(R[v])
               PROVE  \/ i \in 1..Len(Q[v]) /\ R[v][i] = Q[v][i]
                      \/ v = w /\ i = Len(Q[w]) + 1 /\ R[v][i] = t
    OBVIOUS
  <2>1. CASE v = w
    <3>1. i \in 1..Len(Q[w]) \/ i = Len(Q[w]) + 1
      BY <1>1, <1>2, <2>1
    <3> QED BY <1>1, <1>2, <2>1, <3>1
  <2>2. CASE v # w
    BY <1>2, <2>2
  <2> QED BY <2>1, <2>2
<1>5. Within(R, S)
  BY <1>4 DEF Within
<1>6. Distinct(R)
  <2> SUFFICES ASSUME NEW u \in Workers, NEW v \in Workers,
                      NEW i \in 1..Len(R[u]), NEW j \in 1..Len(R[v]), R[u][i] = R[v][j]
               PROVE  u = v /\ i = j
    BY DEF Distinct
  <2>1. CASE R[u][i] = t
    <3>1. u = w /\ i = Len(Q[w]) + 1
      BY <1>4, <2>1
    <3>2. v = w /\ j = Len(Q[w]) + 1
      BY <1>4, <2>1
    <3> QED BY <3>1, <3>2
  <2>2. CASE R[u][i] # t
    <3>1. i \in 1..Len(Q[u]) /\ R[u][i] = Q[u][i]
      BY <1>4, <2>2
    <3>2. j \in 1..Len(Q[v]) /\ R[v][j] = Q[v][j]
      BY <1>4, <2>2
    <3>3. Q[u][i] = Q[v][j]
      BY <3>1, <3>2
    <3> QED BY <3>1, <3>2, <3>3 DEF Distinct
  <2> QED BY <2>1, <2>2
<1> QED BY <1>3, <1>5, <1>6 DEF R

\* Entry k of the queue of w is taken out, and the others stay in order.
LEMMA Removed ==
  ASSUME NEW Q \in [Workers -> Seq(Tasks)], NEW w \in Workers, NEW S,
         NEW k \in 1..Len(Q[w]), NEW s \in Seq(Tasks),
         Len(s) = Len(Q[w]) - 1,
         \A i \in 1..Len(s) : s[i] = Q[w][IF i < k THEN i ELSE i + 1],
         Within(Q, S), Distinct(Q)
  PROVE  LET R == [Q EXCEPT ![w] = s]
         IN  R \in [Workers -> Seq(Tasks)] /\ Within(R, S \ {Q[w][k]}) /\ Distinct(R)
<1> DEFINE R == [Q EXCEPT ![w] = s]
           Old(v, i) == IF v = w /\ i >= k THEN i + 1 ELSE i
<1>1. R \in [Workers -> Seq(Tasks)] /\ R[w] = s /\ \A v \in Workers : v # w => R[v] = Q[v]
  OBVIOUS
<1>2. Len(Q[w]) \in Nat
  OBVIOUS
<1> HIDE DEF R
<1>3. \A v \in Workers : \A i \in 1..Len(R[v]) :
         Old(v, i) \in 1..Len(Q[v]) /\ R[v][i] = Q[v][Old(v, i)] /\ (v = w => Old(v, i) # k)
  <2> SUFFICES ASSUME NEW v \in Workers, NEW i \in 1..Len(R[v])
               PROVE  Old(v, i) \in 1..Len(Q[v]) /\ R[v][i] = Q[v][Old(v, i)] /\ (v = w => Old(v, i) # k)
    OBVIOUS
  <2>1. CASE v = w
    <3>1. i \in 1..Len(Q[w]) - 1 /\ R[w][i] = Q[w][IF i < k THEN i ELSE i + 1]
      BY <1>1, <2>1
    <3>2. CASE i < k
      BY <1>2, <2>1, <3>1, <3>2
    <3>3. CASE ~(i < k)
      BY <1>2, <2>1, <3>1, <3>3
    <3> QED BY <3>2, <3>3
  <2>2. CASE v # w
    BY <1>1, <2>2
  <2> QED BY <2>1, <2>2
<1>4. \A v \in Workers : \A i, j \in Nat : Old(v, i) = Old(v, j) => i = j
  OBVIOUS
<1> HIDE DEF Old
<1>5. Within(R, S \ {Q[w][k]})
  <2> SUFFICES ASSUME NEW v \in Workers, NEW i \in 1..Len(R[v])
               PROVE  R[v][i] \in S /\ R[v][i] # Q[w][k]
    BY DEF Within
  <2>1. Old(v, i) \in 1..Len(Q[v]) /\ R[v][i] = Q[v][Old(v, i)] /\ (v = w => Old(v, i) # k)
    BY <1>3
  <2> QED BY <2>1 DEF Within, Distinct
<1>6. Distinct(R)
  <2> SUFFICES ASSUME NEW u \in Workers, NEW v \in Workers,
                      NEW i \in 1..Len(R[u]), NEW j \in 1..Len(R[v]), R[u][i] = R[v][j]
               PROVE  u = v /\ i = j
    BY DEF Distinct
  <2>1. Old(u, i) \in 1..Len(Q[u]) /\ R[u][i] = Q[u][Old(u, i)]
    BY <1>3
  <2>2. Old(v, j) \in 1..Len(Q[v]) /\ R[v][j] = Q[v][Old(v, j)]
    BY <1>3
  <2>3. u = v /\ Old(u, i) = Old(v, j)
    <3>1. Q[u][Old(u, i)] = Q[v][Old(v, j)]
      BY <2>1, <2>2
    <3> QED BY <2>1, <2>2, <3>1 DEF Distinct
  <2> QED BY <1>4, <2>3
<1> QED BY <1>1, <1>5, <1>6 DEF R

-----------------------------------------------------------------------------
(* The inductive invariant.                                                *)

Free  == {t \in Tasks : BoundTo[t] = NULL}
Bound == {t \in Tasks : BoundTo[t] # NULL}

QueuesInv ==
  /\ deque_list \in [Workers -> Seq(Tasks)]
  /\ bind_queue_list \in [Workers -> Seq(Tasks)]
  /\ Within(deque_list, ready \intersect Free)
  /\ Within(bind_queue_list, ready \intersect Bound)
  /\ Distinct(deque_list)
  /\ Distinct(bind_queue_list)

PoolInv == P!IInv /\ QueuesInv

\* The two instances of Dataflow are the same.
LEMMA SameActions ==
  ASSUME NEW w \in Workers
  PROVE  /\ \A t : Flow!Run(w, t) <=> P!Run(w, t)
         /\ Flow!Proceed(w) <=> P!Proceed(w)
         /\ Flow!Enable(w) <=> P!Enable(w)
         /\ Flow!End(w) <=> P!End(w)
         /\ \A t : Flow!Mark(t) <=> P!Mark(t)
<1>1. \A t : Flow!Run(w, t) <=> P!Run(w, t)
  BY DEF P!Run, Flow!Run, P!bufferVars, Flow!bufferVars, P!history, Flow!history
<1>2. Flow!Return(w) <=> P!Return(w)
  BY DEF P!Return, Flow!Return, P!bufferVars, Flow!bufferVars
<1>3. Flow!Deposit(w) <=> P!Deposit(w)
  BY DEF P!Deposit, Flow!Deposit, P!PutToken, Flow!PutToken, P!taskVars, Flow!taskVars
<1>4. Flow!Dequeue(w) <=> P!Dequeue(w)
  BY DEF P!Dequeue, Flow!Dequeue, P!taskVars, Flow!taskVars
<1>5. Flow!Give(w) <=> P!Give(w)
  BY DEF P!Give, Flow!Give, P!bufferVars, Flow!bufferVars, P!history, Flow!history
<1>6. Flow!GetToken(w) <=> P!GetToken(w)
  BY DEF P!GetToken, Flow!GetToken, P!Needs, Flow!Needs, P!threadVars, Flow!threadVars,
         P!history, Flow!history
<1>7. Flow!EnqueueTask(w) <=> P!EnqueueTask(w)
  BY DEF P!EnqueueTask, Flow!EnqueueTask, P!Needs, Flow!Needs, P!history, Flow!history
<1>8. Flow!Enable(w) <=> P!Enable(w)
  BY DEF P!Enable, Flow!Enable, P!ReadyMarks, Flow!ReadyMarks, P!bufferVars, Flow!bufferVars, P!history, Flow!history
<1>9. Flow!End(w) <=> P!End(w)
  BY DEF P!End, Flow!End, P!bufferVars, Flow!bufferVars, P!taskVars, Flow!taskVars,
         P!history, Flow!history
<1>10. \A t : Flow!Mark(t) <=> P!Mark(t)
  BY DEF P!Mark, Flow!Mark, P!ReadyMarks, Flow!ReadyMarks, P!bufferVars, Flow!bufferVars,
         P!threadVars, Flow!threadVars, P!history, Flow!history
<1> QED BY <1>1, <1>2, <1>3, <1>4, <1>5, <1>6, <1>7, <1>8, <1>9, <1>10 DEF P!Proceed, Flow!Proceed

\* What the steps of Dataflow do to the tasks that are ready.
LEMMA FlowSteps ==
  ASSUME P!IInv, NEW w \in Workers
  PROVE  /\ \A t \in ready : Flow!Run(w, t) => P!IInv' /\ ready' = ready \ {t}
         /\ Flow!Proceed(w) => P!IInv' /\ ready' = ready
         /\ Flow!Enable(w) => /\ P!IInv' /\ ready' = ready \union {got[w]}
                             /\ got[w] \in Tasks /\ got[w] \notin ready
         /\ Flow!End(w) => P!IInv' /\ ready' = ready
         /\ \A t \in Tasks : Flow!Mark(t) => P!IInv' /\ ready' = ready
         /\ UNCHANGED flowVars => P!IInv' /\ ready' = ready
<1> USE NullAssumption, CapacityAssumption, BufferListAssumption, CreatedAssumption,
        CodeAssumption DEF Threads, Behaviour, P!Behaviour
<1>1. ASSUME NEW t \in ready, Flow!Run(w, t) PROVE P!IInv' /\ ready' = ready \ {t}
  <2>1. P!Run(w, t)
    BY <1>1, SameActions
  <2>2. P!IInv'
    BY <2>1, P!RunKeeps
  <2> QED BY <2>1, <2>2 DEF P!Run
<1>2. ASSUME Flow!Proceed(w) PROVE P!IInv' /\ ready' = ready
  <2>1. P!Proceed(w)
    BY <1>2, SameActions
  <2>2. P!IInv'
    BY <2>1, P!ProceedKeeps
  <2>3. ready' = ready
    BY <2>1 DEF P!Proceed, P!Return, P!Deposit, P!Dequeue, P!Give, P!GetToken, P!EnqueueTask
  <2> QED BY <2>2, <2>3
<1>3. ASSUME Flow!Enable(w)
      PROVE  /\ P!IInv' /\ ready' = ready \union {got[w]}
             /\ got[w] \in Tasks /\ got[w] \notin ready
  <2>1. P!Enable(w)
    BY <1>3, SameActions
  <2>2. P!IInv'
    BY <2>1, P!EnableKeeps
  <2>3. pc[w] = "consume" /\ ready' = ready \union {got[w]}
    BY <2>1 DEF P!Enable
  <2>4. P!TypeInv /\ P!ThreadInv /\ P!PlaceInv
    BY DEF P!IInv
  <2>5. got[w] \in Tasks
    BY <2>3, <2>4 DEF P!TypeInv, P!ThreadInv
  <2>6. got[w] \notin ready
    BY <2>3, <2>4, <2>5 DEF P!PlaceInv, P!Holds
  <2> QED BY <2>2, <2>3, <2>5, <2>6
<1>4. ASSUME Flow!End(w) PROVE P!IInv' /\ ready' = ready
  <2>1. P!End(w)
    BY <1>4, SameActions
  <2>2. P!IInv'
    BY <2>1, P!EndKeeps
  <2> QED BY <2>1, <2>2 DEF P!End
<1>5. ASSUME UNCHANGED flowVars PROVE P!IInv' /\ ready' = ready
  <2>1. UNCHANGED P!vars
    BY <1>5 DEF flowVars, P!vars, P!bufferVars, P!taskVars, P!threadVars, P!history
  <2>2. P!IInv'
    BY <2>1, P!StutterKeeps
  <2> QED BY <1>5, <2>2 DEF flowVars
<1>6. ASSUME NEW t \in Tasks, Flow!Mark(t) PROVE P!IInv' /\ ready' = ready
  <2>1. P!Mark(t)
    BY <1>6, SameActions
  <2>2. P!IInv'
    BY <2>1, P!MarkKeeps
  <2> QED BY <2>1, <2>2 DEF P!Mark
<1> QED BY <1>1, <1>2, <1>3, <1>4, <1>5, <1>6

-----------------------------------------------------------------------------
(* The steps.                                                              *)

\* Nothing happens to the queues.
LEMMA QueuesKept ==
  ASSUME QueuesInv, UNCHANGED <<deque_list, bind_queue_list, ready>>
  PROVE  QueuesInv'
BY DEF QueuesInv, Within, Distinct

LEMMA PushKeeps ==
  ASSUME QueuesInv, NEW w \in Workers, NEW t \in Tasks, Push(w, t),
         \A v \in Workers : /\ \A i \in 1..Len(deque_list[v]) : deque_list[v][i] # t
                           /\ \A i \in 1..Len(bind_queue_list[v]) : bind_queue_list[v][i] # t,
         t \in ready', ready \subseteq ready'
  PROVE  QueuesInv'
<1>1. /\ Within(deque_list, ready' \intersect Free)
      /\ Within(bind_queue_list, ready' \intersect Bound)
  BY DEF QueuesInv, Within
<1>2. CASE BoundTo[t] # NULL
  <2>1. /\ bind_queue_list' = [bind_queue_list EXCEPT ![BoundTo[t]] = Append(@, t)]
        /\ deque_list' = deque_list
    BY <1>2 DEF Push
  <2>2. BoundTo[t] \in Workers /\ t \in ready' \intersect Bound
    BY <1>2, BoundAssumption DEF Bound
  <2>3. /\ bind_queue_list' \in [Workers -> Seq(Tasks)]
        /\ Within(bind_queue_list', ready' \intersect Bound)
        /\ Distinct(bind_queue_list')
    BY <1>1, <2>1, <2>2, Pushed DEF QueuesInv
  <2>4. Within(deque_list', ready' \intersect Free) /\ Distinct(deque_list')
        /\ deque_list' \in [Workers -> Seq(Tasks)]
    BY <1>1, <2>1 DEF QueuesInv
  <2> QED BY <2>3, <2>4 DEF QueuesInv, Within, Distinct, Free, Bound
<1>3. CASE BoundTo[t] = NULL
  <2>1. /\ deque_list' = [deque_list EXCEPT ![w] = Append(@, t)]
        /\ bind_queue_list' = bind_queue_list
    BY <1>3 DEF Push
  <2>2. t \in ready' \intersect Free
    BY <1>3 DEF Free
  <2>3. /\ deque_list' \in [Workers -> Seq(Tasks)]
        /\ Within(deque_list', ready' \intersect Free)
        /\ Distinct(deque_list')
    BY <1>1, <2>1, <2>2, Pushed DEF QueuesInv
  <2>4. Within(bind_queue_list', ready' \intersect Bound) /\ Distinct(bind_queue_list')
    BY <1>1, <2>1 DEF QueuesInv
  <2> QED BY <2>1, <2>3, <2>4 DEF QueuesInv, Within, Distinct, Free, Bound
<1> QED BY <1>2, <1>3

\* The ends of a queue.
LEMMA Ends ==
  ASSUME NEW s \in Seq(Tasks), s # <<>>
  PROVE  /\ Len(s) \in Nat /\ 1 \in 1..Len(s) /\ Len(s) \in 1..Len(s)
         /\ Head(s) = s[1]
         /\ Tail(s) \in Seq(Tasks) /\ Len(Tail(s)) = Len(s) - 1
         /\ \A i \in 1..Len(Tail(s)) : Tail(s)[i] = s[IF i < 1 THEN i ELSE i + 1]
         /\ SubSeq(s, 1, Len(s) - 1) \in Seq(Tasks) /\ Len(SubSeq(s, 1, Len(s) - 1)) = Len(s) - 1
         /\ \A i \in 1..Len(SubSeq(s, 1, Len(s) - 1)) :
              SubSeq(s, 1, Len(s) - 1)[i] = s[IF i < Len(s) THEN i ELSE i + 1]
<1>1. Len(s) \in Nat /\ Len(s) > 0
  BY EmptySeq
<1>2. /\ Head(s) = s[1]
      /\ Tail(s) \in Seq(Tasks) /\ Len(Tail(s)) = Len(s) - 1
      /\ \A i \in 1..Len(Tail(s)) : Tail(s)[i] = s[i + 1]
  BY HeadTailProperties
<1>3. /\ SubSeq(s, 1, Len(s) - 1) \in Seq(Tasks)
      /\ Len(SubSeq(s, 1, Len(s) - 1)) = Len(s) - 1
      /\ \A i \in 1..Len(s) - 1 : SubSeq(s, 1, Len(s) - 1)[i] = s[i]
  <2>1. Len(s) - 1 \in Nat /\ 1 \in Int /\ \A i \in 1..Len(s) - 1 : s[i] \in Tasks
    BY <1>1
  <2>2. /\ SubSeq(s, 1, Len(s) - 1) \in Seq(Tasks)
        /\ Len(SubSeq(s, 1, Len(s) - 1)) = IF 1 <= Len(s) - 1 THEN (Len(s) - 1) - 1 + 1 ELSE 0
        /\ \A i \in 1..(Len(s) - 1) - 1 + 1 : SubSeq(s, 1, Len(s) - 1)[i] = s[1 + i - 1]
    BY <2>1, SubSeqProperties
  <2>3. (Len(s) - 1) - 1 + 1 = Len(s) - 1 /\ \A i \in Nat : 1 + i - 1 = i
    BY <1>1
  <2> QED BY <1>1, <2>2, <2>3
<1> QED BY <1>1, <1>2, <1>3

LEMMA BindQueuePopKeeps ==
  ASSUME PoolInv, NEW w \in Workers, BindQueuePop(w)
  PROVE  PoolInv' /\ \E t \in ready : Takes(w, t)
<1> DEFINE q == bind_queue_list[w]
           t == Head(q)
<1>1. q \in Seq(Tasks) /\ q # <<>> /\ P!IInv /\ QueuesInv
  BY DEF PoolInv, QueuesInv, BindQueuePop
<1>2. /\ 1 \in 1..Len(q) /\ t = q[1] /\ Tail(q) \in Seq(Tasks) /\ Len(Tail(q)) = Len(q) - 1
      /\ \A i \in 1..Len(Tail(q)) : Tail(q)[i] = q[IF i < 1 THEN i ELSE i + 1]
  BY <1>1, Ends
<1>3. t \in ready \intersect Bound
  BY <1>1, <1>2 DEF QueuesInv, Within
<1>4. /\ Takes(w, t) /\ Flow!Run(w, t)
      /\ bind_queue_list' = [bind_queue_list EXCEPT ![w] = Tail(q)]
      /\ deque_list' = deque_list
  BY DEF BindQueuePop, Takes
<1>5. P!IInv' /\ ready' = ready \ {t}
  BY <1>1, <1>3, <1>4, FlowSteps
<1>6. /\ bind_queue_list' \in [Workers -> Seq(Tasks)]
      /\ Within(bind_queue_list', (ready \intersect Bound) \ {q[1]})
      /\ Distinct(bind_queue_list')
  BY <1>1, <1>2, <1>4, Removed DEF QueuesInv
<1>7. Within(deque_list, ready' \intersect Free)
  BY <1>1, <1>3, <1>5 DEF QueuesInv, Within, Free, Bound
<1>8. QueuesInv'
  <2>1. (ready \intersect Bound) \ {q[1]} = ready' \intersect Bound
    BY <1>2, <1>5
  <2>2. Within(bind_queue_list', ready' \intersect Bound)
    BY <1>6, <2>1
  <2>3. Within(deque_list', ready' \intersect Free) /\ Distinct(deque_list')
    BY <1>1, <1>4, <1>7 DEF QueuesInv
  <2>4. deque_list' \in [Workers -> Seq(Tasks)]
    BY <1>1, <1>4 DEF QueuesInv
  <2> QED BY <1>6, <2>2, <2>3, <2>4 DEF QueuesInv, Within, Distinct, Free, Bound
<1> QED BY <1>3, <1>4, <1>5, <1>8 DEF PoolInv

\* Entry k of the deque of v is taken by w.
LEMMA DequeTaken ==
  ASSUME PoolInv, NEW w \in Workers, NEW v \in Workers,
         NEW k \in 1..Len(deque_list[v]), NEW s \in Seq(Tasks),
         Len(s) = Len(deque_list[v]) - 1,
         \A i \in 1..Len(s) : s[i] = deque_list[v][IF i < k THEN i ELSE i + 1],
         deque_list' = [deque_list EXCEPT ![v] = s],
         bind_queue_list' = bind_queue_list,
         Takes(w, deque_list[v][k])
  PROVE  PoolInv' /\ \E t \in ready : Takes(w, t)
<1> DEFINE t == deque_list[v][k]
<1>1. P!IInv /\ QueuesInv
  BY DEF PoolInv
<1>3. t \in ready \intersect Free
  BY <1>1 DEF QueuesInv, Within
<1>5. P!IInv' /\ ready' = ready \ {t}
  BY <1>1, <1>3, FlowSteps DEF Takes
<1>6. /\ deque_list' \in [Workers -> Seq(Tasks)]
      /\ Within(deque_list', (ready \intersect Free) \ {t})
      /\ Distinct(deque_list')
  BY <1>1, Removed DEF QueuesInv
<1>7. Within(bind_queue_list, ready' \intersect Bound)
  BY <1>1, <1>3, <1>5 DEF QueuesInv, Within, Free, Bound
<1>8. QueuesInv'
  <2>1. (ready \intersect Free) \ {t} = ready' \intersect Free
    BY <1>5
  <2> QED BY <1>1, <1>6, <1>7, <2>1 DEF QueuesInv, Within, Distinct, Free, Bound
<1> QED BY <1>3, <1>5, <1>8 DEF PoolInv

LEMMA PopBottomKeeps ==
  ASSUME PoolInv, NEW w \in Workers, PopBottom(w)
  PROVE  PoolInv' /\ \E t \in ready : Takes(w, t)
<1> DEFINE d == deque_list[w]
<1>1. d \in Seq(Tasks) /\ d # <<>>
  BY DEF PoolInv, QueuesInv, PopBottom
<1>2. /\ Len(d) \in 1..Len(d)
      /\ SubSeq(d, 1, Len(d) - 1) \in Seq(Tasks) /\ Len(SubSeq(d, 1, Len(d) - 1)) = Len(d) - 1
      /\ \A i \in 1..Len(SubSeq(d, 1, Len(d) - 1)) :
           SubSeq(d, 1, Len(d) - 1)[i] = d[IF i < Len(d) THEN i ELSE i + 1]
  BY <1>1, Ends
<1>3. /\ deque_list' = [deque_list EXCEPT ![w] = SubSeq(d, 1, Len(d) - 1)]
      /\ bind_queue_list' = bind_queue_list
      /\ Takes(w, d[Len(d)])
  BY DEF PopBottom
<1> QED BY <1>2, <1>3, DequeTaken

LEMMA StealKeeps ==
  ASSUME PoolInv, NEW w \in Workers, Steal(w)
  PROVE  PoolInv' /\ \E t \in ready : Takes(w, t)
<1>1. PICK v \in Workers : /\ deque_list[v] # <<>>
                           /\ deque_list' = [deque_list EXCEPT ![v] = Tail(@)]
                           /\ Takes(w, Head(deque_list[v]))
  BY DEF Steal
<1> DEFINE d == deque_list[v]
<1>2. d \in Seq(Tasks)
  BY DEF PoolInv, QueuesInv
<1>3. /\ 1 \in 1..Len(d) /\ Head(d) = d[1] /\ Tail(d) \in Seq(Tasks) /\ Len(Tail(d)) = Len(d) - 1
      /\ \A i \in 1..Len(Tail(d)) : Tail(d)[i] = d[IF i < 1 THEN i ELSE i + 1]
  BY <1>1, <1>2, Ends
<1>4. /\ deque_list' = [deque_list EXCEPT ![v] = Tail(d)]
      /\ bind_queue_list' = bind_queue_list
      /\ Takes(w, d[1])
  BY <1>1, <1>3 DEF Steal
<1> QED BY <1>3, <1>4, DequeTaken

\* The queues hold no task that is not ready.
LEMMA NotQueued ==
  ASSUME QueuesInv, NEW t, t \notin ready
  PROVE  \A v \in Workers : /\ \A i \in 1..Len(deque_list[v]) : deque_list[v][i] # t
                           /\ \A i \in 1..Len(bind_queue_list[v]) : bind_queue_list[v][i] # t
BY DEF QueuesInv, Within

LEMMA DispatchTasksKeeps ==
  ASSUME PoolInv, DispatchTasks
  PROVE  PoolInv' /\ \E t \in ready : Flow!Mark(t)
<1>1. PICK t \in ready, w \in Workers :
         /\ \A v \in Workers : t \notin Range(deque_list[v]) \union Range(bind_queue_list[v])
         /\ Push(w, t)
  BY DEF DispatchTasks
<1>2. Flow!Mark(t)
  <2>1. UNCHANGED unmarkedVars
    BY DEF DispatchTasks
  <2>2. \E mark \in {"ready", "queued"} : status' = [status EXCEPT ![t] = mark]
    BY <1>1 DEF Push
  <2> QED BY <2>1, <2>2 DEF Flow!Mark, Flow!ReadyMarks, Scheduler, unmarkedVars, Flow!bufferVars,
                            Flow!threadVars, Flow!history
<1>4. QueuesInv /\ P!TypeInv
  BY DEF PoolInv, P!IInv
<1>5. t \in Tasks
  BY <1>4 DEF P!TypeInv
<1>3. P!IInv' /\ ready' = ready
  BY <1>2, <1>5, FlowSteps DEF PoolInv
<1>6. \A v \in Workers : /\ \A i \in 1..Len(deque_list[v]) : deque_list[v][i] # t
                        /\ \A i \in 1..Len(bind_queue_list[v]) : bind_queue_list[v][i] # t
  BY <1>1, <1>4 DEF QueuesInv, Range
<1>7. QueuesInv'
  BY <1>1, <1>3, <1>4, <1>5, <1>6, PushKeeps
<1> QED BY <1>2, <1>3, <1>7 DEF PoolInv

LEMMA ScheduleTaskKeeps ==
  ASSUME PoolInv, NEW w \in Workers, ScheduleTask(w)
  PROVE  PoolInv'
<1>1. QueuesInv /\ P!IInv
  BY DEF PoolInv
<1>2. Flow!Enable(w) /\ Push(w, got[w])
  BY DEF ScheduleTask
<1>3. /\ P!IInv' /\ ready' = ready \union {got[w]}
      /\ got[w] \in Tasks /\ got[w] \notin ready
  BY <1>1, <1>2, FlowSteps
<1>4. QueuesInv'
  <2>1. \A v \in Workers : /\ \A i \in 1..Len(deque_list[v]) : deque_list[v][i] # got[w]
                          /\ \A i \in 1..Len(bind_queue_list[v]) : bind_queue_list[v][i] # got[w]
    BY <1>1, <1>3, NotQueued
  <2>2. got[w] \in ready' /\ ready \subseteq ready'
    BY <1>3
  <2> QED BY <1>1, <1>2, <1>3, <2>1, <2>2, PushKeeps
<1> QED BY <1>3, <1>4 DEF PoolInv

\* The steps that leave the queues alone.
LEMMA OthersKeep ==
  ASSUME PoolInv, UNCHANGED queueVars,
         \/ UNCHANGED flowVars
         \/ \E w \in Workers : Flow!Proceed(w) \/ Flow!End(w)
  PROVE  PoolInv'
<1>1. P!IInv /\ QueuesInv /\ UNCHANGED <<deque_list, bind_queue_list>>
  BY DEF PoolInv, queueVars
<1>2. P!IInv' /\ ready' = ready
  <2>1. ASSUME UNCHANGED flowVars PROVE P!IInv' /\ ready' = ready
    <3>1. UNCHANGED P!vars
      BY <2>1 DEF flowVars, P!vars, P!bufferVars, P!taskVars, P!threadVars, P!history
    <3>2. P!IInv'
      BY <1>1, <3>1, P!StutterKeeps, NullAssumption, CapacityAssumption, BufferListAssumption,
         CreatedAssumption, CodeAssumption DEF Behaviour, P!Behaviour
    <3> QED BY <2>1, <3>2 DEF flowVars
  <2>2. ASSUME NEW w \in Workers, Flow!Proceed(w) \/ Flow!End(w) PROVE P!IInv' /\ ready' = ready
    BY <1>1, <2>2, FlowSteps
  <2> QED BY <2>1, <2>2
<1>3. QueuesInv'
  BY <1>1, <1>2, QueuesKept
<1> QED BY <1>2, <1>3 DEF PoolInv

LEMMA PoolInit == Init => PoolInv /\ Flow!Init
<1> SUFFICES ASSUME Init PROVE PoolInv /\ Flow!Init
  OBVIOUS
<1>1. Flow!Init
  BY DEF Init
<1>2. P!Init
  BY <1>1 DEF Flow!Init, P!Init
<1>3. P!IInv
  BY <1>2, P!InitInv, NullAssumption, CapacityAssumption, BufferListAssumption, CreatedAssumption,
     CodeAssumption DEF Behaviour, P!Behaviour
<1>4. QueuesInv
  BY DEF Init, QueuesInv, Within, Distinct
<1> QED BY <1>1, <1>3, <1>4 DEF PoolInv

\* Each step of the pool is one of Dataflow or none.
LEMMA PoolNext == PoolInv /\ [Next]_vars => PoolInv' /\ [Flow!Next]_(Flow!vars)
<1> SUFFICES ASSUME PoolInv, [Next]_vars PROVE PoolInv' /\ [Flow!Next]_(Flow!vars)
  OBVIOUS
<1>1. UNCHANGED flowVars => UNCHANGED Flow!vars
  BY DEF flowVars, Flow!vars, Flow!bufferVars, Flow!taskVars, Flow!threadVars, Flow!history
<1>2. ready \subseteq Tasks
  BY DEF PoolInv, P!IInv, P!TypeInv
<1>3. CASE Main
  <2>1. CASE DispatchTasks
    <3>1. PoolInv' /\ \E t \in ready : Flow!Mark(t)
      BY <2>1, DispatchTasksKeeps
    <3>2. Flow!Next
      BY <1>2, <3>1 DEF Flow!Next
    <3> QED BY <3>1, <3>2
  <2>2. CASE ReleaseThreads \/ TaskRegionWait
    <3>1. UNCHANGED flowVars /\ UNCHANGED queueVars
      BY <2>2 DEF ReleaseThreads, TaskRegionWait
    <3> QED BY <1>1, <3>1, OthersKeep
  <2> QED BY <1>3, <2>1, <2>2 DEF Main
<1>6. CASE WakeUnsignalled
  <2>1. UNCHANGED flowVars /\ UNCHANGED queueVars
    BY <1>6 DEF WakeUnsignalled
  <2> QED BY <1>1, <2>1, OthersKeep
<1>4. ASSUME NEW w \in Workers, ThreadRun(w) PROVE PoolInv' /\ [Flow!Next]_(Flow!vars)
  <2>1. CASE BindQueuePop(w) \/ PopBottom(w) \/ Steal(w)
    <3>1. PoolInv' /\ \E t \in ready : Takes(w, t)
      BY <2>1, BindQueuePopKeeps, PopBottomKeeps, StealKeeps
    <3>2. PICK t \in ready : Flow!Run(w, t)
      BY <3>1 DEF Takes
    <3>3. Flow!Begin(w, t)
      BY <3>2 DEF Flow!Begin, Scheduler
    <3>4. Flow!Next
      BY <1>2, <3>3 DEF Flow!Next, Threads
    <3> QED BY <3>1, <3>4
  <2>2. CASE BindQueueEmpty(w) \/ FindNothing(w) \/ ReportIdleThread(w)
    <3>1. UNCHANGED flowVars /\ UNCHANGED queueVars
      BY <2>2 DEF BindQueueEmpty, FindNothing, ReportIdleThread
    <3> QED BY <1>1, <3>1, OthersKeep
  <2>3. CASE Proceed(w) \/ Retire(w) \/ GoOn(w)
    <3>1. UNCHANGED queueVars /\ (Flow!Proceed(w) \/ Flow!End(w))
      BY <2>3 DEF Proceed, Retire, GoOn
    <3>2. Flow!Next
      BY <3>1 DEF Flow!Next, Threads
    <3> QED BY <3>1, <3>2, OthersKeep
  <2>4. CASE ScheduleTask(w)
    <3>1. Flow!Next
      BY <2>4 DEF ScheduleTask, Flow!Next, Threads
    <3> QED BY <2>4, <3>1, ScheduleTaskKeeps
  <2> QED BY <1>4, <2>1, <2>2, <2>3, <2>4 DEF ThreadRun
<1>5. CASE UNCHANGED vars
  <2>1. UNCHANGED flowVars /\ UNCHANGED queueVars
    BY <1>5 DEF vars
  <2> QED BY <1>1, <2>1, OthersKeep
<1> QED BY <1>3, <1>4, <1>5, <1>6 DEF Next

-----------------------------------------------------------------------------
(* The theorems.                                                           *)

\* The inductive invariant holds throughout: every task that is ready is in one queue of one
\* worker (threadpool.cpp).
THEOREM PoolInvariant == Spec => []PoolInv
<1>1. PoolInv /\ [Next]_vars => PoolInv'
  BY PoolNext
<1>2. Init => PoolInv
  BY PoolInit
<1> QED BY <1>1, <1>2, PTL DEF Spec

\* The pool runs a task only when it is ready, once, on one worker: what its workers do
\* with their queues is what module Dataflow allows (threadpool.cpp, ThreadRun).
THEOREM PoolImplementsDataflow == Spec => Flow!Spec
<1>1. Init => Flow!Init
  BY PoolInit
<1>2. PoolInv /\ [Next]_vars => [Flow!Next]_(Flow!vars)
  BY PoolNext
<1> QED BY <1>1, <1>2, PoolInvariant, PTL DEF Spec, Flow!Spec

\* With any number of workers, buffers stay within their capacity and no task has more
\* tokens than it takes.
THEOREM PoolTypeCorrect == Spec => []TypeOK
<1>1. PoolInv => TypeOK
  <2>1. P!IInv => P!TypeOK
    BY P!TypesHold, NullAssumption, CapacityAssumption, BufferListAssumption, CreatedAssumption,
       CodeAssumption DEF Behaviour, P!Behaviour
  <2> QED BY <2>1 DEF PoolInv, TypeOK, Flow!TypeOK, P!TypeOK
<1> QED BY <1>1, PoolInvariant, PTL

\* With any number of workers, no task gets lost between the queues of buffers, the
\* deques and the workers, and none is in two hands.
THEOREM PoolKeepsTasks == Spec => []TasksInOnePlace
<1>1. PoolInv => TasksInOnePlace
  <2>1. P!IInv => P!TasksInOnePlace
    BY P!PlacesCount, NullAssumption, CapacityAssumption, BufferListAssumption, CreatedAssumption,
       CodeAssumption DEF Behaviour, P!Behaviour
  <2>2. TasksInOnePlace <=> P!TasksInOnePlace
    BY Zenon DEF TasksInOnePlace, Flow!TasksInOnePlace, P!TasksInOnePlace, Flow!WaitsAt, P!WaitsAt,
                 Flow!HeldBy, P!HeldBy, Flow!Cardinality, P!Cardinality
  <2> QED BY <2>1, <2>2 DEF PoolInv
<1> QED BY <1>1, PoolInvariant, PTL

LEMMA SameNext == [Flow!Next]_(Flow!vars) => [P!Next]_(P!vars)
<1> SUFFICES ASSUME [Flow!Next]_(Flow!vars) PROVE [P!Next]_(P!vars)
  OBVIOUS
<1>1. CASE UNCHANGED Flow!vars
  BY <1>1 DEF Flow!vars, P!vars, Flow!bufferVars, P!bufferVars, Flow!taskVars, P!taskVars,
              Flow!threadVars, P!threadVars, Flow!history, P!history
<1>2. ASSUME NEW w \in Workers, NEW t \in Tasks, Flow!Begin(w, t) PROVE P!Next
  <2>1. P!Begin(w, t)
    BY <1>2, SameActions DEF Flow!Begin, P!Begin
  <2> QED BY <2>1 DEF P!Next, Threads
<1>3. ASSUME NEW w \in Workers, Flow!Proceed(w) \/ Flow!Enable(w) \/ Flow!End(w) PROVE P!Next
  <2>1. P!Proceed(w) \/ P!Enable(w) \/ P!End(w)
    BY <1>3, SameActions
  <2> QED BY <2>1 DEF P!Next, Threads
<1>4. ASSUME NEW t \in Tasks, Flow!Mark(t) PROVE P!Next
  <2>1. P!Mark(t)
    BY <1>4 DEF P!Mark, Flow!Mark, P!ReadyMarks, Flow!ReadyMarks, P!bufferVars, Flow!bufferVars,
                P!threadVars, Flow!threadVars, P!history, Flow!history
  <2> QED BY <2>1 DEF P!Next
<1> QED BY <1>1, <1>2, <1>3, <1>4 DEF Flow!Next, Threads

\* With any number of workers, a token that was passed is in its buffer, lost to its
\* overflow, with one task, with one worker or freed; none is used twice, and those of one
\* buffer go out in the order in which they came (buffer.cpp).
THEOREM PoolConservesTokens == Spec => []TokensConserved
<1> USE NullAssumption, CapacityAssumption, BufferListAssumption, CreatedAssumption,
        CodeAssumption DEF Behaviour, P!Behaviour
<1>1. Init => P!ConserveInv
  <2>1. Init => P!Init
    BY PoolInit DEF Flow!Init, P!Init
  <2> QED BY <2>1, P!InitConserve
<1>2. PoolInv /\ P!ConserveInv /\ [Next]_vars => P!ConserveInv'
  <2>1. PoolInv /\ [Next]_vars => P!IInv /\ [P!Next]_(P!vars)
    BY PoolNext, SameNext DEF PoolInv
  <2> QED BY <2>1, P!NextConserves
<1>3. PoolInv /\ P!ConserveInv => TokensConserved
  <2>1. P!IInv /\ P!ConserveInv => P!TokensConserved
    BY P!TokensCount
  <2>2. TokensConserved <=> P!TokensConserved
    BY Zenon DEF TokensConserved, Flow!TokensConserved, P!TokensConserved, Flow!TakenFrom, P!TakenFrom,
                 Flow!InLists, P!InLists, Flow!InHands, P!InHands, Flow!Cardinality, P!Cardinality
  <2> QED BY <2>1, <2>2 DEF PoolInv
<1> QED BY <1>1, <1>2, <1>3, PoolInvariant, PTL DEF Spec

-----------------------------------------------------------------------------
(* The end of the region.                                                  *)

\* The workers whose task is counted.
Active == {w \in Workers : pc[w] \in {"body", "give", "consume", "retire"}}

StatusInv == \A t \in Tasks : status[t] \in {"ready", "queued"} <=> t \in ready

CountInv ==
  /\ main = "init" => ~region_done /\ \A w \in Workers : pc[w] = "idle" /\ ~reports[w]
  /\ main # "init" => ready_task_count = Cardinality(ready) + Cardinality(Active)
  /\ region_done => main # "init" /\ ready_task_count = 0

LEMMA StatusInit == Init => StatusInv
BY DEF Init, Flow!Init, StatusInv

LEMMA StatusRun ==
  ASSUME P!IInv, StatusInv, NEW w \in Workers, NEW t \in ready, Flow!Run(w, t)
  PROVE  StatusInv'
<1>1. P!TypeInv
  BY DEF P!IInv
<1>2. status' = [status EXCEPT ![t] = "running"] /\ ready' = ready \ {t}
  BY DEF Flow!Run, Scheduler
<1> QED BY <1>1, <1>2 DEF P!TypeInv, StatusInv

\* The task that a thread holds is not ready.
LEMMA HeldElsewhere ==
  ASSUME P!IInv, NEW w \in Workers, NEW t \in {own[w], got[w]}, t \in Tasks,
         pc[w] \in {"body", "give", "consume"}
  PROVE  t \notin ready
<1>1. P!PlaceInv /\ P!Holds(w, t)
  BY DEF P!IInv, P!Holds
<1> QED BY <1>1 DEF P!PlaceInv, P!Holds, Threads

LEMMA StatusProceed ==
  ASSUME P!IInv, StatusInv, NEW w \in Workers, Flow!Proceed(w)
  PROVE  StatusInv' /\ Active' = Active
<1>1. P!TypeInv /\ P!ThreadInv
  BY DEF P!IInv
<1>2. CASE Flow!Return(w)
  <2>1. pc[w] = "body" /\ own[w] \in Tasks /\ ready' = ready
    BY <1>1, <1>2, NullAssumption DEF Flow!Return, P!TypeInv, P!ThreadInv, Threads
  <2>2. own[w] \notin ready
    BY <2>1, HeldElsewhere
  <2>3. status' = [status EXCEPT ![own[w]] = "stopped"] \/ status' = status
    BY <1>2 DEF Flow!Return
  <2>4. StatusInv'
    BY <1>1, <2>1, <2>2, <2>3 DEF P!TypeInv, StatusInv
  <2>5. \/ pc' = [pc EXCEPT ![w] = "retire"] \/ pc' = [pc EXCEPT ![w] = "consume"]
    BY <1>2 DEF Flow!Return
  <2> QED BY <1>1, <2>1, <2>4, <2>5 DEF Active, P!TypeInv, Threads
<1>3. CASE Flow!Deposit(w)
  BY <1>3 DEF Flow!Deposit, Flow!taskVars, StatusInv, Active
<1>4. CASE Flow!Dequeue(w)
  <2>1. pc[w] = "body" /\ pc' = [pc EXCEPT ![w] = "give"] /\ UNCHANGED <<status, ready>>
    BY <1>4 DEF Flow!Dequeue, Flow!taskVars
  <2> QED BY <1>1, <2>1 DEF StatusInv, Active, P!TypeInv, Threads
<1>5. CASE Flow!Give(w)
  <2>1. pc[w] = "give" /\ pc' = [pc EXCEPT ![w] = "consume"] /\ UNCHANGED <<status, ready>>
    BY <1>5 DEF Flow!Give
  <2> QED BY <1>1, <2>1 DEF StatusInv, Active, P!TypeInv, Threads
<1>6. CASE Flow!GetToken(w)
  BY <1>6 DEF Flow!GetToken, Flow!threadVars, StatusInv, Active
<1>7. CASE Flow!EnqueueTask(w)
  <2>1. /\ status' = [status EXCEPT ![got[w]] = "waiting"]
        /\ pc' = [pc EXCEPT ![w] = IF got[w] = own[w] THEN "retire" ELSE "body"]
        /\ ready' = ready /\ pc[w] = "consume"
    BY <1>7 DEF Flow!EnqueueTask, Flow!Needs
  <2>2. got[w] \in Tasks
    BY <1>1, <2>1, NullAssumption DEF P!TypeInv, P!ThreadInv, Threads
  <2>3. got[w] \notin ready
    BY <2>1, <2>2, HeldElsewhere
  <2>4. StatusInv'
    BY <1>1, <2>1, <2>2, <2>3 DEF P!TypeInv, StatusInv
  <2> QED BY <1>1, <2>1, <2>4 DEF Active, P!TypeInv, Threads
<1> QED BY <1>2, <1>3, <1>4, <1>5, <1>6, <1>7 DEF Flow!Proceed

LEMMA StatusEnable ==
  ASSUME P!IInv, StatusInv, NEW w \in Workers, Flow!Enable(w)
  PROVE  /\ StatusInv' /\ ready' = ready \union {got[w]} /\ got[w] \notin ready
         /\ status[got[w]] # "ready" /\ w \in Active
         /\ Active' = IF got[w] = own[w] THEN Active \ {w} ELSE Active
<1>1. P!TypeInv /\ P!ThreadInv
  BY DEF P!IInv
<1>m. PICK mark \in {"ready", "queued"} : status' = [status EXCEPT ![got[w]] = mark]
  BY DEF Flow!Enable, Flow!ReadyMarks, Scheduler
<1>2. /\ pc[w] = "consume"
      /\ ready' = ready \union {got[w]}
      /\ pc' = [pc EXCEPT ![w] = IF got[w] = own[w] THEN "over" ELSE "body"]
  BY DEF Flow!Enable
<1>3. got[w] \in Tasks
  BY <1>1, <1>2, NullAssumption DEF P!TypeInv, P!ThreadInv, Threads
<1>4. got[w] \notin ready
  BY <1>2, <1>3, HeldElsewhere
<1>7. StatusInv'
  BY <1>1, <1>2, <1>3, <1>m DEF P!TypeInv, StatusInv
<1>8. Active' = IF got[w] = own[w] THEN Active \ {w} ELSE Active
  BY <1>1, <1>2 DEF Active, P!TypeInv, Threads
<1> QED BY <1>2, <1>3, <1>4, <1>7, <1>8 DEF StatusInv, Active

LEMMA StatusEnd ==
  ASSUME P!IInv, StatusInv, NEW w \in Workers, Flow!End(w)
  PROVE  StatusInv' /\ Active' = Active \ {w} /\ ready' = ready /\ pc[w] # "idle"
<1>1. P!TypeInv
  BY DEF P!IInv
<1>2. /\ pc[w] \in {"retire", "over"} /\ pc' = [pc EXCEPT ![w] = "idle"]
      /\ UNCHANGED <<status, ready>>
  BY DEF Flow!End, Flow!bufferVars, Flow!taskVars
<1> QED BY <1>1, <1>2 DEF StatusInv, Active, P!TypeInv, Threads

EndInv == PoolInv /\ StatusInv /\ CountInv

\* The counter loses and gains with the sets that it counts.
LEMMA Counting ==
  ASSUME NEW S, IsFiniteSet(S), NEW x
  PROVE  /\ Cardinality(S) \in Nat
         /\ x \in S => Cardinality(S \ {x}) = Cardinality(S) - 1 /\ Cardinality(S) > 0
         /\ x \notin S => Cardinality(S \union {x}) = Cardinality(S) + 1
<1>1. Cardinality(S) \in Nat
  BY FS_CardinalityType
<1>2. IsFiniteSet(S \ {x}) /\ (x \in S => Cardinality(S \ {x}) = Cardinality(S) - 1)
  BY FS_RemoveElement
<1>3. Cardinality(S \ {x}) \in Nat
  BY <1>2, FS_CardinalityType
<1>4. x \notin S => Cardinality(S \union {x}) = Cardinality(S) + 1
  BY FS_AddElement
<1> QED BY <1>1, <1>2, <1>3, <1>4

\* A worker that has got a task to run.
LEMMA EndTake ==
  ASSUME IsFiniteSet(Tasks), IsFiniteSet(Workers), EndInv,
         NEW w \in Workers, NEW t \in ready, Works(w), Takes(w, t)
  PROVE  StatusInv' /\ CountInv'
<1>1. P!IInv /\ P!TypeInv /\ StatusInv /\ CountInv
  BY DEF EndInv, PoolInv, P!IInv
<1>2. /\ Flow!Run(w, t) /\ main # "init"
      /\ UNCHANGED <<ready_task_count, reports, region_done, main>>
  BY DEF Takes, Works, regionVars
<1>3. StatusInv'
  BY <1>1, <1>2, StatusRun
<1>4. /\ pc[w] = "idle" /\ pc' = [pc EXCEPT ![w] = "body"] /\ ready' = ready \ {t}
  BY <1>2 DEF Flow!Run
<1>5. Active' = Active \union {w} /\ w \notin Active
  BY <1>1, <1>4 DEF Active, P!TypeInv, Threads
<1>6. IsFiniteSet(ready) /\ IsFiniteSet(Active)
  BY <1>1, FS_Subset DEF P!TypeInv, Active
<1>7. /\ Cardinality(ready) \in Nat /\ Cardinality(ready) > 0 /\ Cardinality(Active) \in Nat
      /\ Cardinality(ready') = Cardinality(ready) - 1
      /\ Cardinality(Active') = Cardinality(Active) + 1
  BY <1>4, <1>5, <1>6, Counting
<1>8. ready_task_count = Cardinality(ready) + Cardinality(Active) /\ ~region_done
  BY <1>1, <1>2, <1>7 DEF CountInv
<1>9. CountInv'
  BY <1>2, <1>7, <1>8 DEF CountInv
<1> QED BY <1>3, <1>9

LEMMA EndSchedule ==
  ASSUME IsFiniteSet(Tasks), IsFiniteSet(Workers), EndInv, NEW w \in Workers, ScheduleTask(w)
  PROVE  StatusInv' /\ CountInv'
<1>1. P!IInv /\ P!TypeInv /\ StatusInv /\ CountInv
  BY DEF EndInv, PoolInv, P!IInv
<1>2. /\ Flow!Enable(w) /\ ready_task_count' = ready_task_count + Counts(w)
      /\ UNCHANGED <<reports, region_done, main>>
  BY DEF ScheduleTask, idleVars, regionVars
<1>3. /\ StatusInv' /\ ready' = ready \union {got[w]} /\ got[w] \notin ready
      /\ status[got[w]] # "ready" /\ w \in Active
      /\ Active' = IF got[w] = own[w] THEN Active \ {w} ELSE Active
  BY <1>1, <1>2, StatusEnable
<1>4. IsFiniteSet(ready) /\ IsFiniteSet(Active)
  BY <1>1, FS_Subset DEF P!TypeInv, Active
<1>5. /\ Cardinality(ready) \in Nat /\ Cardinality(Active) \in Nat /\ Cardinality(Active) > 0
      /\ Cardinality(ready') = Cardinality(ready) + 1
      /\ Cardinality(Active \ {w}) = Cardinality(Active) - 1
  BY <1>3, <1>4, Counting
<1>6. main # "init"
  BY <1>1, <1>3 DEF CountInv, Active
<1>7. ready_task_count = Cardinality(ready) + Cardinality(Active) /\ ~region_done
  BY <1>1, <1>5, <1>6 DEF CountInv
<1>8. ready_task_count' = Cardinality(ready') + Cardinality(Active')
  <2>1. CASE got[w] = own[w]
    BY <1>2, <1>3, <1>5, <1>7, <2>1 DEF Counts
  <2>2. CASE got[w] # own[w]
    BY <1>2, <1>3, <1>5, <1>7, <2>2 DEF Counts
  <2> QED BY <2>1, <2>2
<1>9. CountInv'
  BY <1>2, <1>6, <1>7, <1>8 DEF CountInv
<1> QED BY <1>3, <1>9

LEMMA EndOthers ==
  ASSUME IsFiniteSet(Tasks), IsFiniteSet(Workers), EndInv, NEW w \in Workers,
         \/ Proceed(w) \/ Retire(w) \/ GoOn(w)
         \/ BindQueueEmpty(w) \/ FindNothing(w) \/ ReportIdleThread(w)
  PROVE  StatusInv' /\ CountInv'
<1>1. P!IInv /\ P!TypeInv /\ StatusInv /\ CountInv
  BY DEF EndInv, PoolInv, P!IInv
<1>4. IsFiniteSet(ready) /\ IsFiniteSet(Active)
  BY <1>1, FS_Subset DEF P!TypeInv, Active
<1>5. CASE Proceed(w)
  <2>1. Flow!Proceed(w) /\ UNCHANGED <<ready_task_count, reports, region_done, main>>
    BY <1>5 DEF Proceed, idleVars, regionVars
  <2>2. StatusInv' /\ Active' = Active /\ ready' = ready
    BY <1>1, <2>1, StatusProceed, FlowSteps
  <2>3. pc[w] # "idle"
    BY <2>1 DEF Flow!Proceed, Flow!Return, Flow!Deposit, Flow!Dequeue, Flow!Give, Flow!GetToken,
                Flow!EnqueueTask, Flow!Needs
  <2>4. CountInv'
    BY <1>1, <2>1, <2>2, <2>3 DEF CountInv
  <2> QED BY <2>2, <2>4
<1>6. CASE Retire(w) \/ GoOn(w)
  <2>1. Flow!End(w) /\ UNCHANGED <<reports, region_done, main>>
    BY <1>6 DEF Retire, GoOn, idleVars, regionVars
  <2>2. StatusInv' /\ Active' = Active \ {w} /\ ready' = ready /\ pc[w] # "idle"
    BY <1>1, <2>1, StatusEnd
  <2>3. main # "init"
    BY <1>1, <2>2 DEF CountInv
  <2>4. CASE Retire(w)
    <3>1. w \in Active /\ ready_task_count' = ready_task_count - 1
      BY <2>4 DEF Retire, Active
    <3>2. /\ Cardinality(ready) \in Nat /\ Cardinality(Active) \in Nat /\ Cardinality(Active) > 0
          /\ Cardinality(Active') = Cardinality(Active) - 1
      BY <1>4, <2>2, <3>1, Counting
    <3>3. CountInv'
      BY <1>1, <2>1, <2>2, <2>3, <3>1, <3>2 DEF CountInv
    <3> QED BY <2>2, <3>3
  <2>5. CASE GoOn(w)
    <3>1. w \notin Active /\ ready_task_count' = ready_task_count
      BY <2>5 DEF GoOn, Active
    <3>2. Active' = Active
      BY <2>2, <3>1
    <3>3. CountInv'
      BY <1>1, <2>1, <2>2, <2>3, <3>1, <3>2 DEF CountInv
    <3> QED BY <2>2, <3>3
  <2> QED BY <1>6, <2>4, <2>5
<1>7. CASE BindQueueEmpty(w) \/ FindNothing(w)
  <2>1. UNCHANGED <<status, ready, pc, ready_task_count, region_done, main>> /\ main # "init"
    BY <1>7 DEF BindQueueEmpty, FindNothing, Works, flowVars, regionVars
  <2>2. StatusInv' /\ Active' = Active
    BY <1>1, <2>1 DEF StatusInv, Active
  <2>3. CountInv'
    BY <1>1, <2>1, <2>2 DEF CountInv
  <2> QED BY <2>2, <2>3
<1>8. CASE ReportIdleThread(w)
  <2>1. UNCHANGED <<status, ready, pc, ready_task_count>> /\ reports[w]
    BY <1>8 DEF ReportIdleThread, flowVars
  <2>2. StatusInv' /\ Active' = Active
    BY <1>1, <2>1 DEF StatusInv, Active
  <2>3. main # "init"
    BY <1>1, <2>1 DEF CountInv
  <2>4. /\ main' = main \/ main' = "over"
        /\ region_done' = region_done \/ ready_task_count = 0
    BY <1>8 DEF ReportIdleThread, regionVars
  <2>5. CountInv'
    BY <1>1, <2>1, <2>2, <2>3, <2>4 DEF CountInv
  <2> QED BY <2>2, <2>5
<1> QED BY <1>5, <1>6, <1>7, <1>8

LEMMA EndMain ==
  ASSUME IsFiniteSet(Tasks), IsFiniteSet(Workers), EndInv, Main
  PROVE  StatusInv' /\ CountInv'
<1>1. StatusInv /\ CountInv /\ P!TypeInv
  BY DEF EndInv, PoolInv, P!IInv
<1>2. UNCHANGED <<ready, pc, reports, region_done>>
  BY DEF Main, DispatchTasks, ReleaseThreads, TaskRegionWait, flowVars, unmarkedVars, idleVars,
         regionVars
<1>m. status' = status \/ \E t \in ready, mark \in {"ready", "queued"} :
                               status' = [status EXCEPT ![t] = mark]
  BY DEF Main, DispatchTasks, Push, ReleaseThreads, TaskRegionWait, flowVars
<1>3. StatusInv' /\ Active' = Active
  BY <1>1, <1>2, <1>m DEF StatusInv, Active, P!TypeInv
<1>4. CASE DispatchTasks
  <2>1. main = "init" /\ main' = main
    BY <1>4 DEF DispatchTasks, regionVars
  <2>2. ~region_done /\ \A w \in Workers : pc[w] = "idle" /\ ~reports[w]
    BY <1>1, <2>1 DEF CountInv
  <2>3. CountInv'
    BY <1>2, <2>1, <2>2 DEF CountInv
  <2> QED BY <1>3, <2>3
<1>5. CASE ReleaseThreads
  <2>1. main = "init" /\ main' = "started" /\ ready_task_count' = Cardinality(ready)
    BY <1>5 DEF ReleaseThreads
  <2>2. Active = {} /\ ~region_done
    BY <1>1, <2>1 DEF CountInv, Active
  <2>3. Cardinality(Active) = 0
    BY <2>2, FS_EmptySet
  <2>4. Cardinality(ready) \in Nat
    <3>1. ready \subseteq Tasks
      BY DEF EndInv, PoolInv, P!IInv, P!TypeInv
    <3> QED BY <3>1, FS_Subset, FS_CardinalityType
  <2> QED BY <1>2, <1>3, <2>1, <2>2, <2>3, <2>4 DEF CountInv
<1>6. CASE TaskRegionWait
  BY <1>1, <1>2, <1>3, <1>6 DEF TaskRegionWait, CountInv
<1> QED BY <1>3, <1>4, <1>5, <1>6 DEF Main

LEMMA EndNext ==
  ASSUME IsFiniteSet(Tasks), IsFiniteSet(Workers), EndInv, [Next]_vars
  PROVE  EndInv'
<1>1. PoolInv'
  BY PoolNext DEF EndInv
<1>2. CASE Main
  BY <1>1, <1>2, EndMain DEF EndInv
<1>3. ASSUME NEW w \in Workers, ThreadRun(w) PROVE EndInv'
  <2>0. PoolInv
    BY DEF EndInv
  <2>1. CASE BindQueuePop(w) \/ PopBottom(w) \/ Steal(w)
    <3>1. PICK t \in ready : Takes(w, t)
      BY <2>0, <2>1, BindQueuePopKeeps, PopBottomKeeps, StealKeeps
    <3>2. Works(w)
      BY <2>1 DEF BindQueuePop, PopBottom, Steal
    <3> QED BY <1>1, <3>1, <3>2, EndTake DEF EndInv
  <2>2. CASE ScheduleTask(w)
    BY <1>1, <2>2, EndSchedule DEF EndInv
  <2>3. CASE \/ Proceed(w) \/ Retire(w) \/ GoOn(w)
             \/ BindQueueEmpty(w) \/ FindNothing(w) \/ ReportIdleThread(w)
    BY <1>1, <2>3, EndOthers DEF EndInv
  <2> QED BY <1>3, <2>1, <2>2, <2>3 DEF ThreadRun
<1>4. CASE UNCHANGED vars
  <2>1. UNCHANGED <<status, ready, pc, ready_task_count, reports, region_done, main>>
    BY <1>4 DEF vars, flowVars, idleVars, regionVars
  <2>2. StatusInv' /\ Active' = Active
    BY <2>1 DEF EndInv, StatusInv, Active
  <2> QED BY <1>1, <2>1, <2>2 DEF EndInv, CountInv
<1>5. CASE WakeUnsignalled
  <2>1. /\ UNCHANGED <<status, ready, pc, ready_task_count, reports, region_done>>
        /\ main # "init" /\ main' # "init"
    BY <1>5 DEF WakeUnsignalled, flowVars, idleVars
  <2>2. StatusInv' /\ Active' = Active
    BY <2>1 DEF EndInv, StatusInv, Active
  <2> QED BY <1>1, <2>1, <2>2 DEF EndInv, CountInv
<1> QED BY <1>2, <1>3, <1>4, <1>5 DEF Next

LEMMA EndInit == Init => EndInv
<1> SUFFICES ASSUME Init PROVE EndInv
  OBVIOUS
<1>1. PoolInv /\ StatusInv
  BY PoolInit, StatusInit
<1>2. main = "init" /\ ~region_done /\ \A w \in Workers : pc[w] = "idle" /\ ~reports[w]
  BY DEF Init, Flow!Init, Threads
<1>3. CountInv
  BY <1>2 DEF CountInv
<1> QED BY <1>1, <1>3 DEF EndInv

LEMMA DoneIsLast ==
  ASSUME IsFiniteSet(Tasks), IsFiniteSet(Workers), EndInv
  PROVE  RegionDoneLast
<1> SUFFICES ASSUME region_done, NEW t \in Tasks, status[t] # "stopped"
             PROVE  /\ status[t] = "waiting"
                    /\ tokens[BufferList[t][current_buffer[t]]] = <<>>
  BY DEF RegionDoneLast
<1>1. /\ P!TypeInv /\ P!LiveInv /\ P!TokenInv /\ P!WaitInv
      /\ P!NoneWaitsBesideTokens
      /\ StatusInv /\ CountInv
  BY DEF EndInv, PoolInv, P!IInv
<1>2. IsFiniteSet(ready) /\ IsFiniteSet(Active)
  BY <1>1, FS_Subset DEF P!TypeInv, Active
<1>3. ready = {} /\ Active = {}
  <2>1. Cardinality(ready) \in Nat /\ Cardinality(Active) \in Nat
    BY <1>2, FS_CardinalityType
  <2>2. Cardinality(ready) + Cardinality(Active) = 0
    BY <1>1 DEF CountInv
  <2>3. Cardinality(ready) = 0 /\ Cardinality(Active) = 0
    BY <2>1, <2>2
  <2> QED BY <1>2, <2>3, FS_EmptySet
<1>4. ~\E w \in Threads : P!Holds(w, t)
  BY <1>3 DEF Active, P!Holds, Threads
<1>5. P!Somewhere(t)
  BY <1>1 DEF P!LiveInv
<1>6. PICK b \in Buffers : \E i \in 1..Len(wait_queue[b]) : wait_queue[b][i] = t
  BY <1>3, <1>4, <1>5 DEF P!Somewhere, P!Queue
<1>7. PICK i \in 1..Len(wait_queue[b]) : wait_queue[b][i] = t
  BY <1>6
<1>8. status[t] = "waiting"
  BY <1>1, <1>7 DEF P!WaitInv, P!Queue
<1>9. BufferList[t][current_buffer[t]] = b
  BY <1>1, <1>7 DEF P!TokenInv, P!Queue
<1>10. wait_queue[b] # <<>>
  BY <1>7
<1>11. tokens[b] = <<>>
  BY <1>1, <1>10 DEF P!NoneWaitsBesideTokens
<1> QED BY <1>8, <1>9, <1>11

\* With any number of workers and tasks, a worker says that the region is done only when
\* every task was stopped or waits for a token that was not passed, although the counter
\* is changed apart from the queues (taskqueue.cpp, TaskRegionDone).
THEOREM RegionEndsLast ==
  ASSUME IsFiniteSet(Tasks), IsFiniteSet(Workers)
  PROVE  Spec => []RegionDoneLast
<1>1. EndInv /\ [Next]_vars => EndInv'
  BY EndNext
<1>2. EndInv => RegionDoneLast
  BY DoneIsLast
<1> QED BY <1>1, <1>2, EndInit, PTL DEF Spec
=============================================================================

-------------------------- MODULE WorkStealProofs --------------------------
(***************************************************************************)
(* The deque keeps the promise of TaskDeque, for any tasks and thieves and *)
(* every size, until it is disturbed:  until a pop takes a task while its  *)
(* store of bottom is not seen yet, or the array grows after the workers   *)
(* have started.                                                           *)
(***************************************************************************)
EXTENDS WorkSteal, SequenceTheorems, TLAPS

-----------------------------------------------------------------------------
(* The invariant.                                                          *)

Values   == Tasks \union Garbage
Array(n) == [0..(n - 1) -> Values]
Segments == (UNION {Array(n) : n \in Nat}) \union {<<>>}
Deque    == [bottom : Int, size : Nat \ {0}, array : Nat \ {0}, segment : Segments]
Loads    == [size : Nat, array : Nat]

OwnerPcs == {"idle", "grow", "put", "publish", "popped", "cas", "won", "lost"}
ThiefPcs == {"idle", "top", "read", "cas"}
Call     == [pc : OwnerPcs \union ThiefPcs, top : Nat, bottom : Int, task : Values \union {NULL}]

\* What others see after k of the pending stores.
View(k) == IF k = 0 THEN memory ELSE pending[k]

At(m, i) == m.segment[i % m.size]

\* The end of the queue.
Bottom == Own.bottom + (IF local[Owner].pc \in {"popped", "cas", "lost"} THEN 1 ELSE 0)

TypeInv ==
  /\ top \in Nat
  /\ memory \in Deque
  /\ pending \in Seq(Deque)
  /\ local \in [Workers -> Call]
  /\ loaded \in [Thieves -> Loads]
  /\ running \in [Workers -> Tasks \union {NULL}]
  /\ waiting \in SUBSET Tasks
  /\ released \in BOOLEAN

\* The entries of the queue are tasks, and one entry of the array at least is free.
QueueInv ==
  /\ Own.segment \in Array(Own.size)
  /\ \A i \in top..(Bottom - 1) : At(Own, i) \in Tasks
  /\ Bottom - top < Own.size
  /\ local[Owner].pc # "won" => top <= Bottom

\* What the owner knows where it is.
OwnerInv ==
  LET l == local[Owner] IN
  /\ ~failed
  /\ l.pc \in OwnerPcs
  /\ l.pc \in {"grow", "put", "publish"} =>
       /\ l.bottom = Own.bottom /\ l.top <= top
       /\ l.task \in Tasks
       /\ l.task \in waiting \union {running[Owner]}
  /\ l.pc \in {"put", "publish"} => Own.bottom - top < Own.size - 1
  /\ l.pc = "publish" => At(Own, l.bottom) = l.task
  /\ l.pc \in {"popped", "cas", "won", "lost"} => released /\ running[Owner] = NULL
  /\ l.pc \in {"popped", "cas"} => l.bottom = Own.bottom
  /\ l.pc = "cas" =>
       l.top = Own.bottom /\ l.top <= top /\ l.task = At(Own, Own.bottom)
  /\ l.pc \in {"won", "lost"} => l.bottom = top /\ top = Own.bottom + 1
  /\ l.pc = "won" => l.task \in Tasks
  /\ l.pc = "lost" => l.task = NULL

\* Before the start there is nobody but the owner, and it only pushes.
StartInv ==
  ~released =>
    /\ top = 0
    /\ \A w \in Workers : running[w] = NULL
    /\ \A w \in Thieves : local[w].pc = "idle"

\* After it, whatever others see as part of the queue is so, and remains so with every store
\* that is pending.
Settled(i, k) == \A j \in k..Len(pending) : At(View(j), i) = At(Own, i)

ViewInv ==
  released =>
    \A k \in 0..Len(pending) :
      /\ View(k).size = Own.size /\ View(k).array = Own.array
      /\ View(k).segment \in Array(Own.size)
      /\ View(k).bottom <= Bottom
      /\ \A i \in top..(View(k).bottom - 1) : Settled(i, k)

\* A thief whose exchange will succeed has seen the head of the queue, which is not the
\* entry that the owner takes without an exchange.
ThiefInv ==
  \A w \in Thieves :
    LET l == local[w] IN
    /\ l.pc \in ThiefPcs
    /\ l.pc # "idle" => running[w] = NULL /\ l.top <= top
    /\ l.pc \in {"read", "cas"} /\ l.top = top => top < Bottom /\ Settled(top, 0)
    /\ l.pc = "cas" /\ l.top = top => l.task = At(Own, top)

\* What a thief has loaded of the array is still so.
LoadedInv ==
  \A w \in Thieves :
    /\ local[w].pc # "read" => loaded[w] = NotLoaded
    /\ loaded[w].size \in {0, Own.size} /\ loaded[w].array \in {0, Own.array}

\* Each task is in one place.
OnceInv ==
  /\ \A i, j \in DOMAIN Queue : Queue[i] = Queue[j] => i = j
  /\ \A i \in DOMAIN Queue : /\ Queue[i] \notin waiting
                             /\ \A w \in Workers : Queue[i] # Taken[w]
  /\ \A w \in Workers : Taken[w] \notin waiting
  /\ \A v, w \in Workers : Taken[v] = Taken[w] /\ Taken[w] # NULL => v = w
  /\ \A x \in Tasks : \/ x \in waiting
                      \/ \E i \in DOMAIN Queue : Queue[i] = x
                      \/ \E w \in Workers : Taken[w] = x

CoreInv == TypeInv /\ QueueInv /\ OwnerInv /\ StartInv /\ ViewInv /\ ThiefInv /\ LoadedInv

IInv == CoreInv /\ OnceInv

-----------------------------------------------------------------------------
(* Arithmetic of the circular array, and views.                            *)

LEMMA ModRange ==
  ASSUME NEW i \in Int, NEW n \in Nat \ {0}
  PROVE  i % n \in 0..(n - 1)
OBVIOUS

LEMMA ModSmall ==
  ASSUME NEW n \in Nat \ {0}, NEW i \in 0..(n - 1)
  PROVE  i % n = i
OBVIOUS

\* Indexes less than one lap apart are different entries.
LEMMA ModApart ==
  ASSUME NEW i \in Int, NEW j \in Int, NEW n \in Nat \ {0}, i < j, j - i < n
  PROVE  i % n # j % n
<1>1. ASSUME NEW k \in Int
      PROVE  /\ k = n * (k \div n) + (k % n)
             /\ k \div n \in Int /\ k % n \in 0..(n - 1)
  <2>1. n \in Int /\ n > 0
    OBVIOUS
  <2>2. k = n * (k \div n) + (k % n)
    BY <2>1, Z3
  <2>3. k \div n \in Int
    OBVIOUS
  <2> QED BY <2>2, <2>3, ModRange
<1>2. /\ i = n * (i \div n) + (i % n) /\ i \div n \in Int /\ i % n \in 0..(n - 1)
      /\ j = n * (j \div n) + (j % n) /\ j \div n \in Int /\ j % n \in 0..(n - 1)
  BY <1>1
<1>3. ASSUME NEW a \in Int, NEW b \in Int, a < b PROVE n * b >= n * a + n
  <2>1. b - a - 1 \in Nat
    BY <1>3
  <2>2. n * (b - a - 1) >= 0
    BY <2>1
  <2>3. n * (b - a - 1) = n * b - n * a - n
    OBVIOUS
  <2> QED BY <2>2, <2>3
<1>4. ASSUME i % n = j % n PROVE FALSE
  <2> DEFINE a == i \div n
             b == j \div n
  <2>1. j - i = n * b - n * a
    BY <1>2, <1>4
  <2>2. a \in Int /\ b \in Int /\ n * a \in Int /\ n * b \in Int
    BY <1>2
  <2> HIDE DEF a, b
  <2>3. CASE a < b
    BY <2>1, <2>2, <2>3, <1>3
  <2>4. CASE a = b
    BY <2>1, <2>2, <2>4
  <2>5. CASE b < a
    <3>1. n * a >= n * b + n
      BY <2>2, <2>5, <1>3
    <3> QED BY <3>1, <2>1, <2>2
  <2> QED BY <2>2, <2>3, <2>4, <2>5
<1> QED BY <1>4

LEMMA OwnIsLast ==
  ASSUME TypeInv
  PROVE  /\ Own \in Deque
         /\ Own = View(Len(pending))
         /\ Len(pending) \in Nat
         /\ \A k \in 0..Len(pending) : View(k) \in Deque
<1>1. Len(pending) \in Nat /\ (pending = <<>> <=> Len(pending) = 0)
      /\ \A k \in 1..Len(pending) : pending[k] \in Deque
  BY DEF TypeInv
<1>2. \A k \in 0..Len(pending) : View(k) \in Deque
  BY <1>1 DEF View, TypeInv
<1>3. Own = View(Len(pending))
  BY <1>1 DEF Own, Last, View
<1> QED BY <1>1, <1>2, <1>3

\* A store is the newest view.
LEMMA StoreView ==
  ASSUME TypeInv, NEW m \in Deque, Store(m), UNCHANGED memory
  PROVE  /\ pending' \in Seq(Deque)
         /\ Len(pending') = Len(pending) + 1
         /\ Own' = m
         /\ \A k \in 0..Len(pending) : View(k)' = View(k)
         /\ View(Len(pending))' = m
<1>1. /\ pending \in Seq(Deque) /\ pending' = Append(pending, m)
  BY DEF TypeInv, Store
<1>2. /\ pending' \in Seq(Deque) /\ Len(pending') = Len(pending) + 1
      /\ \A k \in 1..Len(pending) : pending'[k] = pending[k]
      /\ pending'[Len(pending) + 1] = m
      /\ Len(pending) \in Nat /\ pending' # <<>>
  BY <1>1
<1>3. Own' = m
  BY <1>2 DEF Own, Last
<1>4. \A k \in 0..Len(pending) : View(k)' = View(k)
  <2>1. \A k \in 0..Len(pending) : k = 0 \/ k \in 1..Len(pending)
    BY <1>2
  <2> QED BY <1>2, <2>1 DEF View
<1>5. View(Len(pending))' = m
  BY <1>2 DEF View
<1> QED BY <1>2, <1>3, <1>4, <1>5

LEMMA SameView ==
  ASSUME UNCHANGED <<memory, pending>>
  PROVE  /\ Own' = Own
         /\ \A k : View(k)' = View(k)
         /\ Len(pending') = Len(pending)
BY DEF Own, Last, View

\* A store that others see is the oldest view no longer.
LEMMA FlushView ==
  ASSUME TypeInv, Flush
  PROVE  /\ memory' \in Deque /\ pending' \in Seq(Deque)
         /\ Len(pending') = Len(pending) - 1 /\ Len(pending) >= 1
         /\ Own' = Own
         /\ \A k \in 0..Len(pending') : View(k)' = View(k + 1)
<1>1. /\ pending \in Seq(Deque) /\ pending # <<>>
      /\ memory' = pending[1] /\ pending' = Tail(pending)
  BY DEF TypeInv, Flush
<1>2. /\ memory' \in Deque /\ pending' \in Seq(Deque)
      /\ Len(pending') = Len(pending) - 1 /\ Len(pending) \in Nat /\ Len(pending) >= 1
      /\ \A k \in 1..Len(pending') : pending'[k] = pending[k + 1]
  BY <1>1
<1>3. Own' = Own
  <2>1. pending' = <<>> <=> Len(pending') = 0
    BY <1>2
  <2> QED BY <1>1, <1>2, <2>1 DEF Own, Last
<1> QED BY <1>1, <1>2, <1>3 DEF View

LEMMA IsSeq ==
  ASSUME NEW n \in Nat, NEW S, NEW q \in [1..n -> S]
  PROVE  q \in Seq(S) /\ Len(q) = n
OBVIOUS

\* The tasks from one index to another.
LEMMA Slice ==
  ASSUME NEW m, NEW t \in Nat, NEW e \in Int,
         \A i \in t..(e - 1) : At(m, i) \in Tasks,
         NEW q, q = [k \in 1..(e - t) |-> At(m, t + k - 1)]
  PROVE  /\ DOMAIN q = 1..(e - t)
         /\ q \in Seq(Tasks)
         /\ \A k \in 1..(e - t) : q[k] = At(m, t + k - 1)
         /\ Len(q) = IF e >= t THEN e - t ELSE 0
<1>1. \A k \in 1..(e - t) : At(m, t + k - 1) \in Tasks
  <2>1. \A k \in 1..(e - t) : t + k - 1 \in t..(e - 1)
    OBVIOUS
  <2> QED BY <2>1
<1>2. q \in [1..(e - t) -> Tasks]
  BY <1>1
<1>3. ASSUME NEW n \in Nat, 1..(e - t) = 1..n
      PROVE  q \in Seq(Tasks) /\ Len(q) = n
  <2>1. q \in [1..n -> Tasks]
    BY <1>2, <1>3
  <2> QED BY <2>1, IsSeq
<1>4. CASE e >= t
  <2>1. e - t \in Nat
    BY <1>4
  <2> QED BY <1>3, <1>4, <2>1
<1>5. CASE ~(e >= t)
  <2>1. 1..(e - t) = 1..0 /\ 0 \in Nat
    BY <1>5
  <2> QED BY <1>3, <1>5, <2>1
<1> QED BY <1>4, <1>5

\* What the queue is.
LEMMA QueueIs ==
  ASSUME TypeInv, QueueInv
  PROVE  /\ Bottom \in Int /\ top \in Nat
         /\ DOMAIN Queue = 1..(Bottom - top)
         /\ Queue \in Seq(Tasks)
         /\ \A k \in 1..(Bottom - top) : Queue[k] = At(Own, top + k - 1)
         /\ Len(Queue) = IF Bottom >= top THEN Bottom - top ELSE 0
<1>1. Bottom \in Int /\ top \in Nat
  BY OwnIsLast DEF Bottom, TypeInv, Deque
<1>2. Queue = [k \in 1..(Bottom - top) |-> At(Own, top + k - 1)]
  BY Zenon DEF Queue, Bottom, At
<1>3. \A i \in top..(Bottom - 1) : At(Own, i) \in Tasks
  BY DEF QueueInv
<1> QED BY <1>1, <1>2, <1>3, Slice

LEMMA TakenIs ==
  ASSUME TypeInv, OwnerInv
  PROVE  /\ Taken \in [Workers -> Tasks \union {NULL}]
         /\ \A w \in Thieves : Taken[w] = running[w]
         /\ Taken[Owner] = IF local[Owner].pc = "won" THEN local[Owner].task ELSE running[Owner]
<1>1. Owner \in Workers /\ Thieves \subseteq Workers
  BY DEF Workers
<1>2. running \in [Workers -> Tasks \union {NULL}]
  BY DEF TypeInv
<1>3. Goes(Owner, "won") <=> local[Owner].pc = "won"
  BY DEF Goes, OwnerInv
<1>4. local[Owner].pc = "won" => local[Owner].task \in Tasks
  BY DEF OwnerInv
<1> QED BY <1>1, <1>2, <1>3, <1>4, OwnerAssumption DEF Taken

-----------------------------------------------------------------------------
(* What steps of one kind keep.                                            *)

\* Steps that touch neither top nor the memory.
LEMMA SameMemory ==
  ASSUME CoreInv, UNCHANGED <<top, memory, pending, released>>, Bottom' = Bottom,
         local'[Owner].pc = "won" <=> local[Owner].pc = "won"
  PROVE  /\ QueueInv' /\ ViewInv' /\ Queue' = Queue /\ Own' = Own
         /\ \A i : At(Own, i)' = At(Own, i)
         /\ \A i, k : Settled(i, k)' <=> Settled(i, k)
<1>1. /\ Own' = Own /\ \A k : View(k)' = View(k)
      /\ Len(pending') = Len(pending)
  BY SameView
<1>2. \A i : At(Own, i)' = At(Own, i)
  BY <1>1 DEF At
<1>3. \A i, k : Settled(i, k)' <=> Settled(i, k)
  BY <1>1 DEF Settled, At
<1>4. QueueInv'
  BY <1>1, <1>2 DEF QueueInv, CoreInv
<1>5. ViewInv'
  BY <1>1, <1>3 DEF ViewInv, CoreInv
<1>6. Queue' = Queue
  <2>1. Queue = [k \in 1..(Bottom - top) |-> At(Own, top + k - 1)]
    BY Zenon DEF Queue, Bottom, At
  <2>2. Queue' = [k \in 1..(Bottom' - top') |-> At(Own', top' + k - 1)]
    BY Zenon DEF Queue, Bottom, At
  <2> QED BY <1>1, <2>1, <2>2
<1> QED BY <1>1, <1>2, <1>3, <1>4, <1>5, <1>6

\* A store that leaves the entries of the queue as they are.
LEMMA StoreKeeps ==
  ASSUME CoreInv, released, UNCHANGED <<top, memory, released>>,
         NEW m \in Deque, Store(m),
         m.size = Own.size, m.array = Own.array, m.segment \in Array(m.size),
         \A i \in top..(Bottom - 1) : At(m, i) = At(Own, i),
         Bottom' \in Int, m.bottom <= Bottom', Bottom <= Bottom'
  PROVE  /\ ViewInv'
         /\ \A i \in top..(Bottom - 1) : /\ At(Own, i)' = At(Own, i)
                                         /\ Settled(i, 0) => Settled(i, 0)'
<1>1. /\ Len(pending) \in Nat /\ Len(pending') = Len(pending) + 1
      /\ Own' = m /\ View(Len(pending))' = m
      /\ \A k \in 0..Len(pending) : View(k)' = View(k)
      /\ \A k \in 0..Len(pending) : View(k) \in Deque
      /\ Own = View(Len(pending)) /\ Own \in Deque
  BY StoreView, OwnIsLast DEF CoreInv
<1>2. /\ Bottom \in Int /\ top \in Nat
  BY <1>1, QueueIs DEF CoreInv
<1>3. \A i \in top..(Bottom - 1) : At(Own, i)' = At(Own, i)
  BY <1>1 DEF At
<1>4. ASSUME NEW i \in top..(Bottom - 1), NEW k \in 0..Len(pending), Settled(i, k)
      PROVE  Settled(i, k)'
  <2>1. \A j \in k..Len(pending') : j \in k..Len(pending) \/ j = Len(pending')
    BY <1>1
  <2>2. \A j \in k..Len(pending) : At(View(j)', i) = At(Own', i)
    BY <1>1, <1>3, <1>4 DEF Settled, At
  <2>3. At(m, i) = At(Own', i)
    BY <1>1
  <2> QED BY <2>1, <2>2, <2>3, <1>1 DEF Settled
<1>5. ASSUME NEW k \in 0..Len(pending')
      PROVE  /\ View(k)'.size = Own'.size /\ View(k)'.array = Own'.array
             /\ View(k)'.segment \in Array(Own'.size)
             /\ View(k)'.bottom <= Bottom'
             /\ \A i \in top..(View(k)'.bottom - 1) : Settled(i, k)'
  <2>1. CASE k \in 0..Len(pending)
    <3>1. /\ View(k).size = Own.size /\ View(k).segment \in Array(Own.size)
          /\ View(k).array = Own.array
          /\ View(k).bottom <= Bottom
          /\ \A i \in top..(View(k).bottom - 1) : Settled(i, k)
      BY <2>1 DEF ViewInv, CoreInv
    <3>2. View(k).bottom \in Int
      BY <1>1, <2>1 DEF Deque
    <3>3. \A i \in top..(View(k).bottom - 1) : i \in top..(Bottom - 1)
      BY <1>2, <3>1, <3>2
    <3> QED BY <1>1, <1>2, <1>4, <2>1, <3>1, <3>2, <3>3
  <2>2. CASE k = Len(pending')
    <3>1. View(k)' = m /\ k = Len(pending) + 1
      BY <1>1, <2>2
    <3>2. \A i : Settled(i, k)'
      <4>1. \A j \in k..Len(pending') : j = k
        BY <1>1, <2>2
      <4> QED BY <4>1, <3>1, <1>1 DEF Settled
    <3> QED BY <1>1, <3>1, <3>2
  <2> QED BY <1>1, <2>1, <2>2
<1>6. ViewInv'
  BY <1>5 DEF ViewInv
<1>7. \A i \in top..(Bottom - 1) : Settled(i, 0) => Settled(i, 0)'
  BY <1>1, <1>4
<1> QED BY <1>3, <1>6, <1>7

\* Steps of the owner that leave the head of the queue alone.
LEMMA ThievesKept ==
  ASSUME CoreInv, top' = top,
         \A w \in Thieves : local'[w] = local[w] /\ running'[w] = running[w],
         (\E w \in Thieves : local[w].pc \in {"read", "cas"} /\ local[w].top = top)
           => (top < Bottom /\ Settled(top, 0)
                 => top < Bottom' /\ Settled(top, 0)' /\ At(Own, top)' = At(Own, top))
  PROVE  ThiefInv'
<1>1. SUFFICES ASSUME NEW w \in Thieves
               PROVE  LET l == local'[w] IN
                      /\ l.pc \in ThiefPcs
                      /\ l.pc # "idle" => running'[w] = NULL /\ l.top <= top'
                      /\ l.pc \in {"read", "cas"} /\ l.top = top'
                           => top' < Bottom' /\ Settled(top, 0)'
                      /\ l.pc = "cas" /\ l.top = top' => l.task = At(Own, top)'
  BY Zenon DEF ThiefInv
<1>2. /\ local[w].pc \in ThiefPcs
      /\ local[w].pc # "idle" => running[w] = NULL /\ local[w].top <= top
      /\ local[w].pc \in {"read", "cas"} /\ local[w].top = top => top < Bottom /\ Settled(top, 0)
      /\ local[w].pc = "cas" /\ local[w].top = top => local[w].task = At(Own, top)
  BY Zenon DEF ThiefInv, CoreInv
<1> QED BY <1>2

LEMMA LoadedKept ==
  ASSUME CoreInv, loaded' = loaded, \A w \in Thieves : local'[w] = local[w],
         Own'.size = Own.size, Own'.array = Own.array
  PROVE  LoadedInv'
BY DEF CoreInv, LoadedInv

\* Steps in which nobody gets or loses a task.
Stutters == UNCHANGED <<Queue, Taken, waiting>>

LEMMA SameTaken ==
  ASSUME UNCHANGED <<running, failed>>,
         \/ local'[Owner] = local[Owner]
         \/ local[Owner].pc # "won" /\ local'[Owner].pc # "won"
  PROVE  Taken' = Taken
BY DEF Taken, Goes

-----------------------------------------------------------------------------
(* The steps of the memory and of the owner.                               *)

LEMMA FlushStep ==
  ASSUME CoreInv, Flush
  PROVE  CoreInv' /\ Stutters
<1>1. /\ UNCHANGED <<top, local, running, waiting, loaded, released, failed>>
      /\ pending # <<>>
  BY DEF Flush, restVars, taskVars
<1>2. /\ memory' \in Deque /\ pending' \in Seq(Deque)
      /\ Len(pending) \in Nat /\ Len(pending') = Len(pending) - 1 /\ Len(pending) >= 1
      /\ Own' = Own
      /\ \A k \in 0..Len(pending') : View(k)' = View(k + 1)
  BY FlushView, OwnIsLast DEF CoreInv
<1>3. Bottom' = Bottom /\ \A i : At(Own, i)' = At(Own, i)
  BY <1>1, <1>2 DEF Bottom, At
<1>4. \A i : \A k \in 0..Len(pending') : Settled(i, k + 1) => Settled(i, k)'
  BY <1>2, <1>3 DEF Settled
<1>5. \A i : Settled(i, 0) => Settled(i, 0)'
  <2>1. \A i : Settled(i, 0) => Settled(i, 1)
    BY <1>2 DEF Settled
  <2> QED BY <1>2, <1>4, <2>1
<1>6. TypeInv'
  BY <1>1, <1>2 DEF TypeInv, CoreInv
<1>7. QueueInv'
  BY <1>1, <1>2, <1>3 DEF QueueInv, CoreInv
<1>8. OwnerInv' /\ StartInv'
  BY <1>1, <1>2, <1>3 DEF OwnerInv, StartInv, CoreInv
<1>9. ViewInv'
  <2>1. \A k \in 0..Len(pending') : k + 1 \in 0..Len(pending)
    BY <1>2
  <2> QED BY <1>1, <1>2, <1>3, <1>4, <2>1 DEF ViewInv, CoreInv
<1>10. ThiefInv'
  BY <1>1, <1>3, <1>5, ThievesKept
<1>12. LoadedInv'
  BY <1>1, <1>2, LoadedKept
<1>11. Stutters
  <2>1. Queue' = Queue
    BY <1>1, <1>2 DEF Queue
  <2>2. Taken' = Taken
    BY <1>1, SameTaken
  <2> QED BY <1>1, <2>1, <2>2 DEF Stutters
<1> QED BY <1>6, <1>7, <1>8, <1>9, <1>10, <1>11, <1>12 DEF CoreInv

\* The owner is the only worker whose local variables change, to those given.
LEMMA OwnerSets ==
  ASSUME TypeInv, NEW r \in Call, local' = [local EXCEPT ![Owner] = r]
  PROVE  /\ local' \in [Workers -> Call]
         /\ local'[Owner] = r
         /\ \A w \in Thieves : local'[w] = local[w]
BY OwnerAssumption DEF TypeInv, Workers

LEMMA OwnerAt ==
  ASSUME TypeInv
  PROVE  /\ local[Owner] \in Call /\ Owner \in Workers
         /\ \A w \in Thieves : local[w] \in Call /\ w \in Workers
         /\ running[Owner] \in Tasks \union {NULL}
BY DEF TypeInv, Workers

LEMMA PushStep ==
  ASSUME CoreInv, NEW x \in Tasks, PushBottom(x)
  PROVE  CoreInv' /\ Stutters
<1> DEFINE p == IF Full(Own.bottom - top, Own.size) THEN "grow" ELSE "put"
           r == [pc |-> p, top |-> top, bottom |-> Own.bottom, task |-> x]
<1>1. /\ local' = [local EXCEPT ![Owner] = r]
      /\ UNCHANGED <<top, memory, pending, running, waiting, loaded, released, failed>>
      /\ local[Owner].pc = "idle" /\ ~failed
      /\ x \in waiting \union {running[Owner]}
  BY DEF PushBottom, Sets, Goes, restVars, taskVars
<1>2. Own \in Deque /\ top \in Nat /\ Own.bottom \in Int /\ Own.size \in Nat
  BY OwnIsLast DEF CoreInv, TypeInv, Deque
<1>3. r \in Call /\ r.pc \in {"grow", "put"} /\ r.bottom = Own.bottom /\ r.top = top
      /\ r.task = x /\ (r.pc = "put" <=> ~Full(Own.bottom - top, Own.size))
  BY <1>2 DEF Call, OwnerPcs, Values
<1> HIDE DEF r
<1>4. /\ local' \in [Workers -> Call] /\ local'[Owner] = r
      /\ \A w \in Thieves : local'[w] = local[w]
  BY <1>1, <1>3, OwnerSets DEF CoreInv
<1>5. Own' = Own
  BY <1>1, SameView
<1>6. Bottom' = Bottom
  BY <1>1, <1>3, <1>4, <1>5 DEF Bottom
<1>7. QueueInv' /\ ViewInv' /\ Queue' = Queue
      /\ (\A i : At(Own, i)' = At(Own, i)) /\ \A i, k : Settled(i, k)' <=> Settled(i, k)
  BY <1>1, <1>3, <1>4, <1>6, SameMemory
<1>8. TypeInv'
  BY <1>1, <1>4 DEF TypeInv, CoreInv
<1>9. OwnerInv'
  BY <1>1, <1>2, <1>3, <1>4, <1>5 DEF OwnerInv, OwnerPcs, Full, CoreInv
<1>10. StartInv'
  BY <1>1, <1>4 DEF StartInv, CoreInv
<1>11. ThiefInv'
  BY <1>1, <1>4, <1>6, <1>7, ThievesKept
<1>13. LoadedInv'
  BY <1>1, <1>4, <1>5, LoadedKept
<1>12. Taken' = Taken
  BY <1>1, <1>3, <1>4, SameTaken
<1> QED BY <1>1, <1>7, <1>8, <1>9, <1>10, <1>11, <1>12, <1>13 DEF CoreInv, Stutters

\* What is copied while nothing was taken yet is at its place.
LEMMA GrowStep ==
  ASSUME CoreInv, undisturbed', GrowCircularArray
  PROVE  CoreInv' /\ Stutters
<1> DEFINE l == local[Owner]
           s == Own.size
           grown == [Own EXCEPT !.size = 2 * @]
           freed == [grown EXCEPT !.segment = <<>>]
           copy(new) == [grown EXCEPT !.array = @ + 1, !.segment = new]
           r == [pc |-> "put", top |-> l.top, bottom |-> l.bottom, task |-> l.task]
<1>1. /\ l.pc = "grow" /\ ~released /\ top = 0 /\ l.top = 0
      /\ l.bottom = Own.bottom /\ l.task \in Tasks
      /\ l.task \in waiting \union {running[Owner]}
      /\ l \in Call /\ Own \in Deque
      /\ s \in Nat \ {0} /\ Own.bottom \in Int
      /\ Own.segment \in [0..(s - 1) -> Values]
      /\ Bottom = Own.bottom
      /\ Own.bottom \in Nat /\ Own.bottom <= s - 1
  <2>1. l \in Call /\ Own \in Deque
    BY OwnerAt, OwnIsLast DEF CoreInv
  <2>2. l.pc = "grow"
    BY DEF GrowCircularArray, Goes
  <2>3. ~released /\ top = 0
    <3>1. disturbed' = disturbed \union (IF released THEN {"grown"} ELSE {})
      BY DEF GrowCircularArray
    <3>2. ~released
      BY <3>1 DEF undisturbed
    <3> QED BY <3>2 DEF CoreInv, StartInv
  <2>4. Bottom = Own.bottom
    BY <2>1, <2>2 DEF Bottom, Deque
  <2>5. l.top \in Nat /\ Own.bottom \in Int /\ s \in Nat \ {0}
    BY <2>1 DEF Call, Deque
  <2>6. l.bottom = Own.bottom /\ l.top <= top /\ l.task \in Tasks
        /\ l.task \in waiting \union {running[Owner]}
    BY <2>2 DEF CoreInv, OwnerInv
  <2>7. /\ Own.segment \in [0..(s - 1) -> Values]
        /\ Bottom - top < s /\ top <= Bottom
    BY <2>2 DEF CoreInv, QueueInv, Array
  <2> QED BY <2>1, <2>2, <2>3, <2>4, <2>5, <2>6, <2>7
<1>2. /\ local' = [local EXCEPT ![Owner] = r]
      /\ UNCHANGED <<top, memory, running, waiting, loaded, released, failed>>
      /\ ~failed
  BY DEF GrowCircularArray, Sets, restVars, taskVars, Goes
<1>3. PICK new \in [0..(grown.size - 1) -> Values] :
        /\ \A i \in DOMAIN new : i \in l.top..(l.bottom - 1) => new[i] \in GetTaskFromArray(grown, grown, i)
        /\ pending' = pending \o <<grown, freed, copy(new)>>
  BY DEF GrowCircularArray, Values
<1>4. /\ grown \in Deque /\ grown.size = 2 * s /\ grown.segment = Own.segment
      /\ grown.bottom = Own.bottom
  <2>1. 2 * s \in Nat \ {0}
    BY <1>1
  <2> QED BY <1>1, <2>1 DEF Deque
<1>5. freed \in Deque
  <2>1. <<>> \in Segments
    BY DEF Segments
  <2>2. /\ grown.bottom \in Int /\ grown.size \in Nat \ {0} /\ grown.array \in Nat \ {0}
        /\ freed = [bottom |-> grown.bottom, size |-> grown.size, array |-> grown.array,
                    segment |-> <<>>]
    <3> HIDE DEF grown
    <3> QED BY <1>4 DEF Deque
  <2> HIDE DEF grown, freed
  <2> QED BY <2>1, <2>2 DEF Deque
<1>6. /\ copy(new) \in Deque /\ copy(new).size = 2 * s /\ copy(new).segment = new
      /\ copy(new).bottom = Own.bottom /\ new \in Array(2 * s)
  <2>1. new \in Array(2 * s) /\ 2 * s \in Nat
    BY <1>1, <1>3, <1>4 DEF Array
  <2>2. new \in Segments
    BY <2>1 DEF Segments
  <2>3. grown.array + 1 \in Nat \ {0}
    BY <1>4 DEF Deque
  <2> QED BY <1>4, <2>1, <2>2, <2>3 DEF Deque
<1>7. /\ pending' \in Seq(Deque) /\ Own' = copy(new)
  <2> DEFINE three == <<grown, freed, copy(new)>>
  <2>1. three \in Seq(Deque) /\ Len(three) = 3 /\ three[3] = copy(new)
    BY <1>4, <1>5, <1>6
  <2>2. pending \in Seq(Deque) /\ pending' = pending \o three
    BY <1>3 DEF CoreInv, TypeInv
  <2> HIDE DEF three, copy
  <2>3. /\ pending' \in Seq(Deque) /\ Len(pending') = Len(pending) + 3
        /\ pending'[Len(pending) + 3] = copy(new) /\ Len(pending) \in Nat
    <3>1. /\ pending' \in Seq(Deque) /\ Len(pending') = Len(pending) + Len(three)
          /\ \A i \in 1..(Len(pending) + Len(three)) :
               pending'[i] = IF i <= Len(pending) THEN pending[i] ELSE three[i - Len(pending)]
          /\ Len(pending) \in Nat
      BY <2>1, <2>2, ConcatProperties, LenProperties, ZenonT(30)
    <3>2. Len(pending) + 3 \in 1..(Len(pending) + Len(three)) /\ ~(Len(pending) + 3 <= Len(pending))
          /\ Len(pending) + 3 - Len(pending) = 3
      BY <2>1, <3>1
    <3> QED BY <2>1, <3>1, <3>2
  <2>4. pending' # <<>>
    BY <2>3
  <2> QED BY <2>3, <2>4 DEF Own, Last
<1>8. ASSUME NEW i \in 0..(Own.bottom - 1)
      PROVE  At(Own, i)' = At(Own, i)
  <2>1. i \in 0..(s - 1) /\ i \in 0..(2 * s - 1) /\ 2 * s \in Nat \ {0}
    BY <1>1
  <2>2. i % s = i /\ i % (2 * s) = i
    BY <1>1, <2>1, ModSmall
  <2>3. GetTaskFromArray(grown, grown, i) = {Own.segment[i]}
    <3>1. i \in DOMAIN grown.segment
      BY <1>1, <1>4, <2>1
    <3> QED BY <1>4, <2>2, <3>1 DEF GetTaskFromArray
  <2>4. new[i] = Own.segment[i]
    <3>1. i \in DOMAIN new /\ i \in l.top..(l.bottom - 1)
      BY <1>1, <1>3, <1>4, <2>1
    <3> QED BY <1>3, <2>3, <3>1
  <2>5. At(Own, i) = Own.segment[i]
    BY <2>2 DEF At
  <2>6. At(Own', i) = new[i]
    BY <1>6, <1>7, <2>2 DEF At
  <2> QED BY <2>4, <2>5, <2>6 DEF At
<1>9. /\ r \in Call /\ r.pc = "put" /\ r.bottom = Own.bottom /\ r.top = 0 /\ r.task = l.task
  BY <1>1 DEF Call, OwnerPcs
<1> HIDE DEF r, l, grown, freed, copy
<1>10. /\ local' \in [Workers -> Call] /\ local'[Owner] = r
       /\ \A w \in Thieves : local'[w] = local[w]
  BY <1>2, <1>9, OwnerSets DEF CoreInv
<1>11. Bottom' = Bottom
  BY <1>1, <1>6, <1>7, <1>9, <1>10 DEF Bottom
<1>12. TypeInv'
  BY <1>2, <1>7, <1>10 DEF CoreInv, TypeInv
<1>13. QueueInv'
  <2>1. Own'.size = 2 * s /\ Own'.segment \in Array(Own'.size)
    BY <1>6, <1>7
  <2>2. \A i \in top'..(Bottom' - 1) : At(Own, i)' \in Tasks
    BY <1>1, <1>2, <1>8, <1>11 DEF CoreInv, QueueInv
  <2>3. Bottom' - top' < 2 * s /\ top' <= Bottom'
    BY <1>1, <1>2, <1>11
  <2> QED BY <2>1, <2>2, <2>3 DEF QueueInv
<1>14. OwnerInv'
  BY <1>1, <1>2, <1>6, <1>7, <1>9, <1>10 DEF OwnerInv, OwnerPcs, l
<1>15. StartInv' /\ ViewInv'
  BY <1>1, <1>2, <1>10 DEF CoreInv, StartInv, ViewInv
<1>16. ThiefInv'
  <2>1. \A w \in Thieves : local[w].pc = "idle"
    BY <1>1 DEF CoreInv, StartInv
  <2> QED BY <1>2, <1>10, <2>1 DEF ThiefInv, ThiefPcs
<1>19. LoadedInv'
  <2>1. \A w \in Thieves : local[w].pc = "idle" /\ loaded[w] = NotLoaded
    BY <1>1 DEF CoreInv, StartInv, LoadedInv
  <2> QED BY <1>2, <1>10, <2>1 DEF LoadedInv, NotLoaded
<1>17. Queue' = Queue
  <2>1. /\ Queue = [k \in 1..(Bottom - top) |-> At(Own, top + k - 1)]
        /\ Queue' = [k \in 1..(Bottom' - top') |-> At(Own', top' + k - 1)]
    BY Zenon DEF Queue, Bottom, At
  <2>2. \A k \in 1..(Bottom - top) : At(Own', top' + k - 1) = At(Own, top + k - 1)
    BY <1>1, <1>2, <1>8 DEF At
  <2> QED BY <1>2, <1>11, <2>1, <2>2
<1>18. Taken' = Taken
  BY <1>1, <1>2, <1>9, <1>10, SameTaken DEF l
<1> QED BY <1>2, <1>12, <1>13, <1>14, <1>15, <1>16, <1>17, <1>18, <1>19 DEF CoreInv, Stutters

\* The entry that is overwritten is not part of the queue, nor what others take for it.
LEMMA PutStep ==
  ASSUME CoreInv, PutTaskIntoArray
  PROVE  CoreInv' /\ Stutters
<1> DEFINE l == local[Owner]
           b == Own.bottom
           m == [Own EXCEPT !.segment[l.bottom % Own.size] = l.task]
           r == [pc |-> "publish", top |-> l.top, bottom |-> l.bottom, task |-> l.task]
<1>1. /\ l.pc = "put" /\ ~failed
      /\ Store(m)
      /\ local' = [local EXCEPT ![Owner] = r]
      /\ UNCHANGED <<top, memory, running, waiting, loaded, released, failed>>
  BY DEF PutTaskIntoArray, Goes, Sets, restVars, taskVars
<1>2. /\ l \in Call /\ Own \in Deque /\ top \in Nat
      /\ b \in Int /\ Own.size \in Nat \ {0}
      /\ Own.segment \in [0..(Own.size - 1) -> Values]
  BY OwnerAt, OwnIsLast DEF CoreInv, TypeInv, Deque, QueueInv, Array
<1>3. /\ l.bottom = b /\ l.top <= top /\ l.task \in Tasks
      /\ l.task \in waiting \union {running[Owner]}
      /\ b - top < Own.size - 1
      /\ Bottom = b /\ top <= b
  <2>1. Bottom = b
    BY <1>1, <1>2 DEF Bottom
  <2> QED BY <1>1, <1>2, <2>1 DEF CoreInv, OwnerInv, QueueInv
<1>4. /\ m \in Deque /\ m.size = Own.size /\ m.array = Own.array /\ m.bottom = b
      /\ m.segment \in Array(m.size)
      /\ m.segment = [Own.segment EXCEPT ![b % Own.size] = l.task]
  <2>1. m.segment = [Own.segment EXCEPT ![b % Own.size] = l.task]
        /\ m.size = Own.size /\ m.array = Own.array /\ m.bottom = b
    BY <1>2, <1>3 DEF Deque
  <2>2. [Own.segment EXCEPT ![b % Own.size] = l.task] \in [0..(Own.size - 1) -> Values]
    BY <1>2, <1>3 DEF Values
  <2>3. [Own.segment EXCEPT ![b % Own.size] = l.task] \in Segments
    BY <1>2, <2>2 DEF Segments, Array
  <2>4. m = [Own EXCEPT !.segment = [Own.segment EXCEPT ![b % Own.size] = l.task]]
    BY <1>2, <1>3 DEF Deque
  <2> QED BY <1>2, <2>1, <2>2, <2>3, <2>4 DEF Deque, Array
<1>5. /\ At(m, b) = l.task
      /\ \A i \in top..(b - 1) : At(m, i) = At(Own, i)
  <2>1. b % Own.size \in 0..(Own.size - 1)
    BY <1>2, ModRange
  <2>2. \A i \in top..(b - 1) : i % Own.size # b % Own.size
    <3>1. \A i \in top..(b - 1) : i \in Int /\ i < b /\ b - i < Own.size
      BY <1>2, <1>3
    <3> QED BY <1>2, <3>1, ModApart
  <2>3. \A i \in top..(b - 1) : i % Own.size \in 0..(Own.size - 1)
    <3>1. \A i \in top..(b - 1) : i \in Int
      BY <1>2
    <3> QED BY <1>2, <3>1, ModRange
  <2> QED BY <1>2, <1>4, <2>1, <2>2, <2>3 DEF At
<1> HIDE DEF m
<1>6. /\ r \in Call /\ r.pc = "publish" /\ r.bottom = b /\ r.top = l.top /\ r.task = l.task
  BY <1>2, <1>3 DEF Call, OwnerPcs
<1> HIDE DEF r
<1>7. /\ local' \in [Workers -> Call] /\ local'[Owner] = r
      /\ \A w \in Thieves : local'[w] = local[w]
  BY <1>1, <1>6, OwnerSets DEF CoreInv
<1>8. pending' \in Seq(Deque) /\ Own' = m
  BY <1>1, <1>4, StoreView DEF CoreInv
<1>9. Bottom' = Bottom
  BY <1>2, <1>3, <1>4, <1>6, <1>7, <1>8 DEF Bottom
<1>10. TypeInv'
  BY <1>1, <1>7, <1>8 DEF CoreInv, TypeInv
<1>11. QueueInv'
  <2>1. \A i \in top..(b - 1) : At(Own', i) \in Tasks
    BY <1>3, <1>5, <1>8 DEF CoreInv, QueueInv
  <2>2. \A i \in top'..(Bottom' - 1) : At(Own, i)' \in Tasks
    BY <1>1, <1>3, <1>9, <2>1 DEF At
  <2>3. Own'.segment \in Array(Own'.size)
    BY <1>4, <1>8
  <2>4. Bottom' - top' < Own'.size /\ top' <= Bottom'
    BY <1>1, <1>2, <1>3, <1>4, <1>8, <1>9
  <2> QED BY <2>2, <2>3, <2>4 DEF QueueInv
<1>12. OwnerInv'
  <2>1. At(Own', b) = l.task
    BY <1>5, <1>8
  <2> QED BY <1>1, <1>3, <1>4, <1>6, <1>7, <1>8, <2>1 DEF OwnerInv, OwnerPcs, At
<1>13. StartInv'
  BY <1>1, <1>7 DEF CoreInv, StartInv
<1>14. released => /\ ViewInv'
                   /\ \A i \in top..(Bottom - 1) : /\ At(Own, i)' = At(Own, i)
                                                   /\ Settled(i, 0) => Settled(i, 0)'
  BY <1>1, <1>2, <1>3, <1>4, <1>5, <1>6, <1>7, <1>9, StoreKeeps
<1>15. ViewInv'
  BY <1>1, <1>14 DEF ViewInv
<1>16. ThiefInv'
  <2>1. ~released => \A w \in Thieves : local[w].pc = "idle"
    BY DEF CoreInv, StartInv
  <2>2. top < Bottom => top \in top..(Bottom - 1)
    BY <1>2, <1>3
  <2> QED BY <1>1, <1>7, <1>9, <1>14, <2>1, <2>2, ThievesKept
<1>17. Queue' = Queue
  <2>1. /\ Queue = [k \in 1..(Bottom - top) |-> At(Own, top + k - 1)]
        /\ Queue' = [k \in 1..(Bottom' - top') |-> At(Own', top' + k - 1)]
    BY Zenon DEF Queue, Bottom, At
  <2>2. \A k \in 1..(Bottom - top) : At(Own', top' + k - 1) = At(Own, top + k - 1)
    <3>1. \A k \in 1..(Bottom - top) : top + k - 1 \in top..(b - 1)
      BY <1>2, <1>3
    <3> QED BY <1>1, <1>5, <1>8, <3>1
  <2> QED BY <1>1, <1>9, <2>1, <2>2
<1>19. LoadedInv'
  BY <1>1, <1>4, <1>7, <1>8, LoadedKept
<1>18. Taken' = Taken
  BY <1>1, <1>6, <1>7, SameTaken
<1> QED BY <1>1, <1>10, <1>11, <1>12, <1>13, <1>15, <1>16, <1>17, <1>18, <1>19 DEF CoreInv, Stutters

\* While the owner is not about to return the last task, Taken is running.
LEMMA TakenNow ==
  ASSUME TypeInv
  PROVE  local[Owner].pc # "won" => Taken = running
BY DEF TypeInv, Taken, Goes, Workers

LEMMA TakenNext ==
  ASSUME TypeInv'
  PROVE  local'[Owner].pc # "won" => Taken' = running'
BY DEF TypeInv, Taken, Goes, Workers

\* The queue after a step.
LEMMA QueueNext ==
  ASSUME TypeInv', QueueInv'
  PROVE  /\ Bottom' \in Int /\ top' \in Nat
         /\ DOMAIN Queue' = 1..(Bottom' - top')
         /\ Queue' \in Seq(Tasks)
         /\ \A k \in 1..(Bottom' - top') : Queue'[k] = At(Own', top' + k - 1)
         /\ Len(Queue') = IF Bottom' >= top' THEN Bottom' - top' ELSE 0
<1>1. Bottom' \in Int /\ top' \in Nat
  <2>1. pending' # <<>> => Len(pending') \in 1..Len(pending')
    BY DEF TypeInv
  <2>2. Own' \in Deque
    BY <2>1 DEF TypeInv, Own, Last
  <2> QED BY <2>2 DEF Bottom, TypeInv, Deque
<1>2. Queue' = [k \in 1..(Bottom' - top') |-> At(Own', top' + k - 1)]
  BY Zenon DEF Queue, Bottom, At
<1>3. \A i \in top'..(Bottom' - 1) : At(Own', i) \in Tasks
  BY DEF QueueInv, At
<1> QED BY <1>1, <1>2, <1>3, Slice

\* A push takes place when bottom is stored.
LEMMA PublishStep ==
  ASSUME CoreInv, Publish
  PROVE  CoreInv' /\ Promise!Next
<1> DEFINE l == local[Owner]
           b == Own.bottom
           m == [Own EXCEPT !.bottom = l.bottom + 1]
<1>1. /\ l.pc = "publish" /\ ~failed
      /\ Store(m)
      /\ local' = [local EXCEPT ![Owner] = NoCall]
      /\ IF l.task = running[Owner]
         THEN running' = [running EXCEPT ![Owner] = NULL] /\ UNCHANGED waiting
         ELSE waiting' = waiting \ {l.task} /\ UNCHANGED running
      /\ UNCHANGED <<top, memory, loaded, released, failed>>
  BY DEF Publish, Goes, Returns, Runs
<1>2. /\ l \in Call /\ Own \in Deque /\ top \in Nat
      /\ b \in Int /\ Own.size \in Nat \ {0}
  BY OwnerAt, OwnIsLast DEF CoreInv, TypeInv, Deque
<1>3. /\ l.bottom = b /\ l.task \in Tasks
      /\ l.task \in waiting \union {running[Owner]}
      /\ b - top < Own.size - 1 /\ At(Own, b) = l.task
      /\ Bottom = b /\ top <= b
      /\ Own.segment \in Array(Own.size)
  <2>1. Bottom = b
    BY <1>1, <1>2 DEF Bottom
  <2> QED BY <1>1, <1>2, <2>1 DEF CoreInv, OwnerInv, QueueInv
<1>4. /\ m \in Deque /\ m.size = Own.size /\ m.array = Own.array /\ m.bottom = b + 1 /\ m.segment = Own.segment
      /\ \A i : At(m, i) = At(Own, i)
  BY <1>2, <1>3 DEF Deque, At
<1> HIDE DEF m
<1>5. NoCall \in Call /\ NoCall.pc = "idle"
  BY DEF NoCall, Call, OwnerPcs
<1>6. /\ local' \in [Workers -> Call] /\ local'[Owner] = NoCall
      /\ \A w \in Thieves : local'[w] = local[w]
  BY <1>1, <1>5, OwnerSets DEF CoreInv
<1>7. pending' \in Seq(Deque) /\ Own' = m
  BY <1>1, <1>4, StoreView DEF CoreInv
<1>8. Bottom' = b + 1
  BY <1>4, <1>5, <1>6, <1>7, <1>2 DEF Bottom
<1>9. /\ running' \in [Workers -> Tasks \union {NULL}] /\ waiting' \in SUBSET Tasks
      /\ \A w \in Thieves : running'[w] = running[w]
      /\ \A w \in Workers : running[w] = NULL => running'[w] = NULL
  BY <1>1, OwnerAssumption DEF CoreInv, TypeInv, Workers
<1>10. TypeInv'
  BY <1>1, <1>6, <1>7, <1>9 DEF CoreInv, TypeInv
<1>11. QueueInv'
  <2>1. \A i \in top..b : At(Own, i) \in Tasks
    <3>1. \A i \in top..b : i = b \/ i \in top..(b - 1)
      BY <1>2
    <3> QED BY <1>3, <3>1 DEF CoreInv, QueueInv
  <2>2. \A i \in top'..(Bottom' - 1) : At(Own', i) \in Tasks
    BY <1>1, <1>2, <1>4, <1>7, <1>8, <2>1
  <2>3. \A i \in top'..(Bottom' - 1) : At(Own, i)' \in Tasks
    BY <2>2 DEF At
  <2> QED BY <1>1, <1>2, <1>3, <1>4, <1>7, <1>8, <2>3 DEF QueueInv
<1>12. OwnerInv'
  BY <1>1, <1>5, <1>6 DEF OwnerInv, OwnerPcs
<1>13. StartInv'
  BY <1>1, <1>6, <1>9 DEF CoreInv, StartInv
<1>14. released => /\ ViewInv'
                   /\ \A i \in top..(Bottom - 1) : /\ At(Own, i)' = At(Own, i)
                                                   /\ Settled(i, 0) => Settled(i, 0)'
  <2>1. m.segment \in Array(m.size) /\ Bottom' \in Int /\ m.bottom <= Bottom' /\ Bottom <= Bottom'
    BY <1>2, <1>3, <1>4, <1>8
  <2> QED BY <1>1, <1>4, <1>5, <1>6, <2>1, StoreKeeps
<1>15. ViewInv'
  BY <1>1, <1>14 DEF ViewInv
<1>16. ThiefInv'
  <2>1. ~released => \A w \in Thieves : local[w].pc = "idle"
    BY DEF CoreInv, StartInv
  <2>2. top < Bottom => top \in top..(Bottom - 1) /\ top < Bottom'
    BY <1>2, <1>3, <1>8
  <2> QED BY <1>1, <1>6, <1>9, <1>14, <2>1, <2>2, ThievesKept
<1>19. LoadedInv'
  BY <1>1, <1>4, <1>6, <1>7, LoadedKept
<1>17. Queue' = Append(Queue, l.task)
  <2> DEFINE q == Append(Queue, l.task)
  <2>1. /\ Queue \in Seq(Tasks) /\ Len(Queue) = b - top /\ b - top \in Nat
        /\ DOMAIN Queue = 1..(b - top)
        /\ \A k \in 1..(b - top) : Queue[k] = At(Own, top + k - 1)
    BY <1>2, <1>3, QueueIs DEF CoreInv
  <2>2. /\ q \in Seq(Tasks) /\ Len(q) = b - top + 1
        /\ \A k \in 1..(b - top) : q[k] = At(Own, top + k - 1)
        /\ q[b - top + 1] = At(Own, b)
    BY <1>3, <2>1
  <2>3. /\ Queue' \in Seq(Tasks) /\ Len(Queue') = b + 1 - top
        /\ \A k \in 1..(b + 1 - top) : Queue'[k] = At(Own, top + k - 1)
    <3>1. /\ Queue' \in Seq(Tasks)
          /\ \A k \in 1..(Bottom' - top') : Queue'[k] = At(Own', top' + k - 1)
          /\ Len(Queue') = IF Bottom' >= top' THEN Bottom' - top' ELSE 0
      BY <1>10, <1>11, QueueNext
    <3>2. Bottom' - top' = b + 1 - top /\ Bottom' >= top' /\ top' = top
      BY <1>1, <1>2, <1>3, <1>8
    <3> QED BY <1>4, <1>7, <3>1, <3>2
  <2>4. \A k \in 1..(b + 1 - top) :
          \/ k \in 1..(b - top)
          \/ k = b - top + 1 /\ top + k - 1 = b
    BY <1>2
  <2> HIDE DEF q
  <2>5. \A k \in 1..Len(Queue') : Queue'[k] = q[k]
    BY <2>2, <2>3, <2>4
  <2>6. Len(Queue') = Len(q)
    BY <1>2, <2>2, <2>3
  <2>7. Queue' = q
    BY <2>2, <2>3, <2>5, <2>6, SeqEqual
  <2> QED BY <2>7 DEF q
<1>18. Promise!Push(l.task)
  <2>1. Taken = running /\ Taken' = running'
    BY <1>1, <1>5, <1>6, <1>10, TakenNow, TakenNext DEF CoreInv
  <2> QED BY <1>1, <1>3, <1>17, <2>1 DEF Promise!Push
<1> QED BY <1>3, <1>10, <1>11, <1>12, <1>13, <1>15, <1>16, <1>18, <1>19 DEF CoreInv, Promise!Next

\* The entry given up stays in the queue until top was loaded.
LEMMA PopBottomStep ==
  ASSUME CoreInv, PopBottom
  PROVE  CoreInv' /\ Stutters
<1> DEFINE b == Own.bottom - 1
           m == [Own EXCEPT !.bottom = b]
           r == [pc |-> "popped", top |-> 0, bottom |-> b, task |-> NULL]
<1>1. /\ local[Owner].pc = "idle" /\ ~failed /\ running[Owner] = NULL /\ released
      /\ Store(m)
      /\ local' = [local EXCEPT ![Owner] = r]
      /\ UNCHANGED <<top, memory, running, waiting, loaded, released, failed>>
  BY DEF PopBottom, Free, Goes, Sets, restVars, taskVars
<1>2. /\ Own \in Deque /\ top \in Nat /\ Own.bottom \in Int /\ b \in Int
      /\ Own.size \in Nat \ {0} /\ Own.segment \in Array(Own.size)
      /\ Bottom = Own.bottom
  BY <1>1, OwnIsLast DEF CoreInv, TypeInv, Deque, QueueInv, Bottom
<1>3. /\ m \in Deque /\ m.size = Own.size /\ m.array = Own.array /\ m.bottom = b /\ m.segment = Own.segment
      /\ \A i : At(m, i) = At(Own, i)
  BY <1>2 DEF Deque, At
<1> HIDE DEF m
<1>4. r \in Call /\ r.pc = "popped" /\ r.bottom = b
  BY <1>2 DEF Call, OwnerPcs
<1> HIDE DEF r
<1>5. /\ local' \in [Workers -> Call] /\ local'[Owner] = r
      /\ \A w \in Thieves : local'[w] = local[w]
  BY <1>1, <1>4, OwnerSets DEF CoreInv
<1>6. pending' \in Seq(Deque) /\ Own' = m
  BY <1>1, <1>3, StoreView DEF CoreInv
<1>7. Bottom' = Bottom
  BY <1>2, <1>3, <1>4, <1>5, <1>6 DEF Bottom
<1>8. TypeInv'
  BY <1>1, <1>5, <1>6 DEF CoreInv, TypeInv
<1>9. \A i : At(Own, i)' = At(Own, i)
  BY <1>3, <1>6 DEF At
<1>10. QueueInv'
  BY <1>1, <1>2, <1>3, <1>4, <1>5, <1>6, <1>7, <1>9 DEF CoreInv, QueueInv
<1>11. OwnerInv'
  BY <1>1, <1>3, <1>4, <1>5, <1>6 DEF OwnerInv, OwnerPcs
<1>12. StartInv'
  BY <1>1 DEF StartInv
<1>13. /\ ViewInv'
       /\ \A i \in top..(Bottom - 1) : /\ At(Own, i)' = At(Own, i)
                                       /\ Settled(i, 0) => Settled(i, 0)'
  <2>1. m.segment \in Array(m.size) /\ Bottom' \in Int /\ m.bottom <= Bottom' /\ Bottom <= Bottom'
    BY <1>2, <1>3, <1>7
  <2> QED BY <1>1, <1>3, <1>4, <1>5, <2>1, StoreKeeps
<1>14. ThiefInv'
  <2>1. top < Bottom => top \in top..(Bottom - 1) /\ top < Bottom'
    BY <1>2, <1>7
  <2> QED BY <1>1, <1>5, <1>13, <2>1, ThievesKept
<1>17. LoadedInv'
  BY <1>1, <1>3, <1>5, <1>6, LoadedKept
<1>15. Queue' = Queue
  <2>1. /\ Queue = [k \in 1..(Bottom - top) |-> At(Own, top + k - 1)]
        /\ Queue' = [k \in 1..(Bottom' - top') |-> At(Own', top' + k - 1)]
    BY Zenon DEF Queue, Bottom, At
  <2> QED BY <1>1, <1>3, <1>6, <1>7, <2>1
<1>16. Taken' = Taken
  BY <1>1, <1>4, <1>5, SameTaken
<1> QED BY <1>1, <1>8, <1>10, <1>11, <1>12, <1>13, <1>14, <1>15, <1>16, <1>17 DEF CoreInv, Stutters

\* Steps of popBottom in which the owner only finds out where it is.
LEMMA OwnerMoves ==
  ASSUME CoreInv, NEW r \in Call, local' = [local EXCEPT ![Owner] = r],
         UNCHANGED <<top, memory, pending, running, waiting, loaded, released, failed>>,
         released, local[Owner].pc # "won", r.pc # "won",
         Bottom' = Bottom, OwnerInv'
  PROVE  CoreInv' /\ Stutters
<1>1. /\ local' \in [Workers -> Call] /\ local'[Owner] = r
      /\ \A w \in Thieves : local'[w] = local[w]
  BY OwnerSets DEF CoreInv
<1>2. /\ QueueInv' /\ ViewInv' /\ Queue' = Queue
      /\ (\A i : At(Own, i)' = At(Own, i)) /\ \A i, k : Settled(i, k)' <=> Settled(i, k)
  BY <1>1, SameMemory
<1>3. TypeInv'
  BY <1>1 DEF CoreInv, TypeInv
<1>4. StartInv'
  BY DEF StartInv
<1>5. ThiefInv'
  BY <1>1, <1>2, ThievesKept
<1>7. LoadedInv'
  BY <1>1, <1>2, SameView, LoadedKept
<1>6. Taken' = Taken
  BY <1>1, SameTaken
<1> QED BY <1>2, <1>3, <1>4, <1>5, <1>6, <1>7 DEF CoreInv, Stutters

\* The entry that the owner looks at is in the array.
LEMMA GetIsAt ==
  ASSUME NEW m \in Deque, m.segment \in Array(m.size), NEW i \in Int,
         NEW from, from.size = m.size, from.array = m.array
  PROVE  GetTaskFromArray(m, from, i) = {At(m, i)} /\ At(m, i) \in Values
<1>1. i % m.size \in 0..(m.size - 1)
  BY ModRange DEF Deque
<1> QED BY <1>1 DEF GetTaskFromArray, At, Array

LEMMA FrontIs ==
  ASSUME NEW S, NEW s \in Seq(S), NEW t \in Seq(S), Len(s) = Len(t) + 1,
         \A k \in 1..Len(t) : t[k] = s[k]
  PROVE  t = Front(s)
<1>1. Len(t) \in Nat
  BY LenProperties
<1>2. SubSeq(s, 1, Len(s) - 1) = SubSeq(s, 1, Len(t))
  BY <1>1
<1>3. /\ SubSeq(s, 1, Len(t)) \in Seq(S) /\ Len(SubSeq(s, 1, Len(t))) = Len(t)
      /\ \A k \in 1..Len(t) : SubSeq(s, 1, Len(t))[k] = s[k]
  BY <1>1
<1> QED BY <1>2, <1>3, SeqEqual DEF Front

\* With more than one task the owner takes the last one, and a thief that has read bottom
\* before it was decremented has not got that far.
LEMMA PopTopStep ==
  ASSUME CoreInv, undisturbed', PopTop
  PROVE  CoreInv' /\ (Stutters \/ Promise!Next)
<1> DEFINE l == local[Owner]
           b == Own.bottom
<1>1. /\ l.pc = "popped" /\ ~failed
      /\ UNCHANGED <<top, memory, pending, loaded, waiting, released>>
  BY DEF PopTop, Goes
<1>2. /\ l \in Call /\ Own \in Deque /\ top \in Nat /\ b \in Int
      /\ Own.size \in Nat \ {0} /\ Own.segment \in Array(Own.size)
      /\ Own' = Own
  BY <1>1, OwnerAt, OwnIsLast, SameView DEF CoreInv, TypeInv, Deque, QueueInv
<1>3. /\ Bottom = b + 1 /\ l.bottom = b /\ released /\ running[Owner] = NULL
      /\ top <= b + 1 /\ b + 1 - top < Own.size
  <2>1. Bottom = b + 1
    BY <1>1 DEF Bottom
  <2>2. l.bottom = b /\ released /\ running[Owner] = NULL
    BY <1>1 DEF CoreInv, OwnerInv
  <2>3. top <= Bottom /\ Bottom - top < Own.size
    BY <1>1 DEF CoreInv, QueueInv
  <2> QED BY <1>2, <2>1, <2>2, <2>3
<1>4. GetTaskFromArray(Own, Own, b) = {At(Own, b)} /\ At(Own, b) \in Values
  BY <1>2, GetIsAt
<1>5. CASE b - top < 0
  <2> DEFINE r == [pc |-> "lost", top |-> 0, bottom |-> top, task |-> NULL]
  <2>1. /\ local' = [local EXCEPT ![Owner] = r] /\ UNCHANGED <<running, failed>>
    BY <1>2, <1>3, <1>5 DEF PopTop, Empty, Sets
  <2>2. r \in Call /\ r.pc = "lost" /\ r.bottom = top /\ r.task = NULL
    BY <1>2 DEF Call, OwnerPcs
  <2> HIDE DEF r
  <2>3. local'[Owner] = r
    BY <2>1, <2>2, OwnerSets DEF CoreInv
  <2>4. Bottom' = Bottom
    BY <1>1, <1>2, <2>2, <2>3 DEF Bottom
  <2>5. OwnerInv'
    <3>1. top = b + 1
      BY <1>2, <1>3, <1>5
    <3> QED BY <1>1, <1>2, <1>3, <2>1, <2>2, <2>3, <3>1 DEF OwnerInv, OwnerPcs
  <2> QED BY <1>1, <1>3, <2>1, <2>2, <2>4, <2>5, OwnerMoves
<1>6. CASE b - top = 0
  <2> DEFINE r == [pc |-> "cas", top |-> top, bottom |-> b, task |-> At(Own, b)]
  <2>1. /\ local' = [local EXCEPT ![Owner] = r] /\ UNCHANGED <<running, failed>>
    BY <1>2, <1>3, <1>4, <1>6 DEF PopTop, Empty, Sets
  <2>2. r \in Call /\ r.pc = "cas" /\ r.top = top /\ r.bottom = b /\ r.task = At(Own, b)
    BY <1>2, <1>4 DEF Call, OwnerPcs
  <2> HIDE DEF r
  <2>3. local'[Owner] = r
    BY <2>1, <2>2, OwnerSets DEF CoreInv
  <2>4. Bottom' = Bottom
    BY <1>1, <1>2, <2>2, <2>3 DEF Bottom
  <2>5. OwnerInv'
    <3>1. /\ r.bottom = Own'.bottom /\ r.top = Own'.bottom /\ r.top <= top'
          /\ r.task = At(Own', Own'.bottom)
      BY <1>1, <1>2, <1>6, <2>2
    <3>2. ~failed' /\ released' /\ running'[Owner] = NULL /\ local'[Owner].pc = "cas"
      BY <1>1, <1>3, <2>1, <2>2, <2>3
    <3> QED BY <2>3, <3>1, <3>2 DEF OwnerInv, OwnerPcs, At
  <2> QED BY <1>1, <1>3, <2>1, <2>2, <2>4, <2>5, OwnerMoves
<1>7. CASE b - top > 0
  <2> DEFINE x == At(Own, b)
  <2>1. /\ local' = [local EXCEPT ![Owner] = NoCall]
        /\ running' = [running EXCEPT ![Owner] = x] /\ failed' = (x = NULL)
    BY <1>2, <1>3, <1>4, <1>7 DEF PopTop, Empty, Returns, Runs
  <2>0. pending = <<>>
    <3>1. disturbed' = disturbed \union (IF pending # <<>> THEN {"overtaken"} ELSE {})
      BY <1>2, <1>3, <1>7 DEF PopTop, Empty
    <3> QED BY <3>1 DEF undisturbed
  <2>2. x \in Tasks
    <3>1. b \in top..(Bottom - 1)
      BY <1>2, <1>3, <1>7
    <3> QED BY <3>1 DEF CoreInv, QueueInv
  <2>3. NoCall \in Call /\ NoCall.pc = "idle"
    BY DEF NoCall, Call, OwnerPcs
  <2>4. /\ local' \in [Workers -> Call] /\ local'[Owner] = NoCall
        /\ \A w \in Thieves : local'[w] = local[w]
    BY <2>1, <2>3, OwnerSets DEF CoreInv
  <2>5. /\ running' \in [Workers -> Tasks \union {NULL}]
        /\ \A w \in Thieves : running'[w] = running[w]
    BY <2>1, <2>2, OwnerAssumption DEF CoreInv, TypeInv, Workers
  <2>6. ~failed' /\ failed' \in BOOLEAN
    BY <2>1, <2>2, NullAssumption
  <2>7. Bottom' = b
    BY <1>2, <2>3, <2>4 DEF Bottom
  <2>8. TypeInv'
    BY <1>1, <2>4, <2>5 DEF CoreInv, TypeInv
  <2>9. \A i : At(Own, i)' = At(Own, i)
    BY <1>2 DEF At
  <2>10. QueueInv'
    <3>1. \A i \in top..(b - 1) : i \in top..(Bottom - 1)
      BY <1>2, <1>3
    <3>2. \A i \in top..(b - 1) : At(Own, i) \in Tasks
      BY <3>1 DEF CoreInv, QueueInv
    <3> QED BY <1>1, <1>2, <1>3, <1>7, <2>7, <2>9, <3>2 DEF QueueInv
  <2>11. OwnerInv' /\ StartInv'
    BY <1>1, <1>3, <2>3, <2>4, <2>6 DEF OwnerInv, OwnerPcs, StartInv
  <2>12. ViewInv'
    <3>1. /\ Len(pending') = 0 /\ View(0)' = Own' /\ View(0) = Own
          /\ \A k : View(k)' = View(k)
      BY <1>1, <1>2, <2>0, SameView DEF View, Own
    <3>2. \A i : Settled(i, 0)'
      <4>1. \A j \in 0..Len(pending') : j = 0
        BY <3>1
      <4> QED BY <3>1, <4>1 DEF Settled
    <3>3. \A k \in 0..Len(pending') : k = 0
      BY <3>1
    <3> QED BY <1>2, <2>3, <2>4, <2>7, <3>1, <3>2, <3>3 DEF ViewInv
  <2>13. ThiefInv'
    <3>1. \A i, k : Settled(i, k)' <=> Settled(i, k)
      BY <1>1, <1>2, SameView DEF Settled, At
    <3> QED BY <1>1, <1>2, <1>7, <2>4, <2>5, <2>7, <2>9, <3>1, ThievesKept
  <2>14. Queue # <<>> /\ Last(Queue) = x /\ Queue' = Front(Queue)
    <3>1. /\ Queue \in Seq(Tasks) /\ Len(Queue) = b + 1 - top /\ b + 1 - top \in Nat
          /\ \A k \in 1..(b + 1 - top) : Queue[k] = At(Own, top + k - 1)
      BY <1>2, <1>3, QueueIs DEF CoreInv
    <3>2. Queue # <<>> /\ Last(Queue) = x
      <4>1. Queue[b + 1 - top] = At(Own, top + (b + 1 - top) - 1)
        BY <1>2, <1>7, <3>1
      <4>2. top + (b + 1 - top) - 1 = b
        BY <1>2
      <4> QED BY <1>2, <1>7, <3>1, <4>1, <4>2 DEF Last
    <3>3. /\ Queue' \in Seq(Tasks) /\ Len(Queue') = b - top
          /\ \A k \in 1..(b - top) : Queue'[k] = At(Own, top + k - 1)
      <4>1. /\ Queue' \in Seq(Tasks)
            /\ \A k \in 1..(Bottom' - top') : Queue'[k] = At(Own', top' + k - 1)
            /\ Len(Queue') = IF Bottom' >= top' THEN Bottom' - top' ELSE 0
        BY <2>8, <2>10, QueueNext
      <4>2. Bottom' - top' = b - top /\ Bottom' >= top' /\ top' = top
        BY <1>1, <1>2, <1>7, <2>7
      <4> QED BY <1>2, <4>1, <4>2
    <3> HIDE DEF x
    <3>4. Queue' = Front(Queue)
      BY <1>2, <1>7, <3>1, <3>3, FrontIs, SMTT(30)
    <3> QED BY <3>2, <3>4
  <2>16. LoadedInv'
    BY <1>1, <1>2, <2>4, LoadedKept
  <2>15. Promise!Pop
    <3>1. Taken = running /\ Taken' = running'
      BY <1>1, <2>3, <2>4, <2>8, TakenNow, TakenNext DEF CoreInv
    <3> QED BY <1>1, <1>3, <2>1, <2>14, <3>1
            DEF Promise!Pop, Promise!Takes, Promise!Last, Last, Promise!Front, Front
  <2> QED BY <2>8, <2>10, <2>11, <2>12, <2>13, <2>15, <2>16 DEF CoreInv, Promise!Next
<1> QED BY <1>2, <1>5, <1>6, <1>7

\* With one task left the exchange decides, and when it succeeds every thief has an old top.
LEMMA PopExchangeStep ==
  ASSUME CoreInv, PopExchange
  PROVE  CoreInv' /\ (Stutters \/ Promise!Next)
<1> DEFINE l == local[Owner]
           b == Own.bottom
<1>1. /\ l.pc = "cas" /\ ~failed /\ pending = <<>>
      /\ UNCHANGED <<memory, pending, running, waiting, loaded, released, failed>>
  BY DEF PopExchange, Goes, restVars, taskVars
<1>2. /\ l \in Call /\ Own \in Deque /\ top \in Nat /\ b \in Int
      /\ Own.size \in Nat \ {0} /\ Own.segment \in Array(Own.size)
      /\ Own' = Own
  BY <1>1, OwnerAt, OwnIsLast, SameView DEF CoreInv, TypeInv, Deque, QueueInv
<1>3. /\ Bottom = b + 1 /\ l.top = b /\ l.top <= top /\ l.task = At(Own, b)
      /\ released /\ running[Owner] = NULL /\ top <= b + 1
  <2>1. Bottom = b + 1
    BY <1>1 DEF Bottom
  <2>2. l.top = b /\ l.top <= top /\ l.task = At(Own, b) /\ released /\ running[Owner] = NULL
    BY <1>1 DEF CoreInv, OwnerInv
  <2>3. top <= Bottom
    BY <1>1 DEF CoreInv, QueueInv
  <2> QED BY <1>2, <2>1, <2>2, <2>3
<1>4. CASE top # l.top
  <2> DEFINE r == [pc |-> "lost", top |-> 0, bottom |-> top, task |-> NULL]
  <2>1. local' = [local EXCEPT ![Owner] = r] /\ top' = top
    BY <1>4 DEF PopExchange, Sets, LoadedTop
  <2>2. r \in Call /\ r.pc = "lost" /\ r.bottom = top /\ r.task = NULL
    BY <1>2 DEF Call, OwnerPcs
  <2> HIDE DEF r
  <2>3. local'[Owner] = r
    BY <2>2, <2>1, OwnerSets DEF CoreInv
  <2>4. Bottom' = Bottom
    BY <1>1, <1>2, <2>2, <2>3 DEF Bottom
  <2>5. OwnerInv'
    <3>1. top = b + 1
      BY <1>2, <1>3, <1>4
    <3> QED BY <1>1, <1>2, <1>3, <2>1, <2>2, <2>3, <3>1 DEF OwnerInv, OwnerPcs
  <2> QED BY <1>1, <1>3, <2>1, <2>2, <2>4, <2>5, OwnerMoves
<1>5. CASE top = l.top
  <2> DEFINE x == At(Own, b)
             r == [pc |-> "won", top |-> 0, bottom |-> b + 1, task |-> x]
  <2>1. top = b /\ top' = b + 1 /\ local' = [local EXCEPT ![Owner] = r]
    BY <1>3, <1>5 DEF PopExchange, Sets
  <2>2. x \in Tasks
    <3>1. b \in top..(Bottom - 1)
      BY <1>2, <1>3, <2>1
    <3> QED BY <3>1 DEF CoreInv, QueueInv
  <2> HIDE DEF x
  <2>3. r \in Call /\ r.pc = "won" /\ r.bottom = b + 1 /\ r.task = x
    BY <1>2, <2>2 DEF Call, OwnerPcs, Values
  <2> HIDE DEF r
  <2>4. /\ local' \in [Workers -> Call] /\ local'[Owner] = r
        /\ \A w \in Thieves : local'[w] = local[w]
    BY <2>1, <2>3, OwnerSets DEF CoreInv
  <2>5. Bottom' = b
    BY <1>2, <2>3, <2>4 DEF Bottom
  <2>6. TypeInv'
    <3>1. top' \in Nat
      BY <1>2, <2>1
    <3> QED BY <1>1, <2>4, <3>1 DEF CoreInv, TypeInv
  <2>7. QueueInv'
    <3>1. top'..(Bottom' - 1) = {}
      BY <1>2, <2>1, <2>5
    <3> QED BY <1>2, <2>1, <2>3, <2>4, <2>5, <3>1 DEF QueueInv
  <2>8. OwnerInv' /\ StartInv'
    BY <1>1, <1>2, <1>3, <2>1, <2>2, <2>3, <2>4 DEF OwnerInv, OwnerPcs, StartInv
  <2>9. ViewInv'
    <3>1. /\ View(0)' = Own' /\ Len(pending') = 0
      BY <1>1, <1>2 DEF View, Own
    <3>2. \A k \in 0..Len(pending') : k = 0
      BY <3>1
    <3>3. top'..(View(0)'.bottom - 1) = {}
      BY <1>2, <2>1, <3>1
    <3> QED BY <1>2, <2>3, <2>4, <2>5, <3>1, <3>2, <3>3 DEF ViewInv
  <2>10. ThiefInv'
    <3>1. \A w \in Thieves : /\ local'[w] = local[w] /\ local[w] \in Call
                             /\ local[w].top \in Nat
      BY <2>4, OwnerAt DEF CoreInv, Call
    <3>2. \A w \in Thieves :
            /\ local[w].pc \in ThiefPcs
            /\ local[w].pc # "idle" => /\ running'[w] = NULL
                                       /\ local[w].top <= top' /\ local[w].top # top'
      BY <1>1, <1>2, <2>1, <3>1 DEF CoreInv, ThiefInv
    <3> QED BY <3>1, <3>2 DEF ThiefInv
  <2>11. Queue # <<>> /\ Last(Queue) = x /\ Queue' = Front(Queue)
    <3>1. /\ Queue \in Seq(Tasks) /\ Len(Queue) = 1 /\ Queue[1] = At(Own, top + 1 - 1)
      <4>1. 1 \in 1..(Bottom - top) /\ Bottom >= top /\ Bottom - top = 1
        BY <1>2, <1>3, <2>1
      <4> QED BY <4>1, QueueIs DEF CoreInv
    <3>2. Queue # <<>> /\ Last(Queue) = x
      <4>1. top + 1 - 1 = b
        BY <1>2, <2>1
      <4> QED BY <3>1, <4>1 DEF Last, x
    <3>3. /\ Queue' \in Seq(Tasks) /\ Len(Queue') = 0
      <4>1. ~(Bottom' >= top')
        BY <1>2, <2>1, <2>5
      <4> QED BY <2>6, <2>7, <4>1, QueueNext
    <3>4. Queue' = Front(Queue)
      <4>1. /\ Len(Queue) = Len(Queue') + 1
            /\ \A k \in 1..Len(Queue') : Queue'[k] = Queue[k]
        BY <3>1, <3>3
      <4> QED BY <3>1, <3>3, <4>1, FrontIs
    <3> QED BY <3>2, <3>4
  <2>13. LoadedInv'
    BY <1>1, <1>2, <2>4, LoadedKept
  <2>12. Promise!Pop
    <3>1. Taken = running
      BY <1>1, TakenNow DEF CoreInv
    <3>2. Taken' = [running EXCEPT ![Owner] = x]
      BY <1>1, <2>3, <2>4 DEF Taken, Goes
    <3> QED BY <1>1, <1>3, <2>11, <3>1, <3>2
            DEF Promise!Pop, Promise!Takes, Promise!Last, Last, Promise!Front, Front
  <2> QED BY <2>6, <2>7, <2>8, <2>9, <2>10, <2>12, <2>13 DEF CoreInv, Promise!Next
<1> QED BY <1>4, <1>5

\* The queue is empty when bottom is reset, and a task that was found is there.
LEMMA ResetBottomStep ==
  ASSUME CoreInv, ResetBottom
  PROVE  CoreInv' /\ Stutters
<1> DEFINE l == local[Owner]
           m == [Own EXCEPT !.bottom = l.bottom]
<1>1. /\ l.pc \in {"won", "lost"} /\ ~failed
      /\ Store(m)
      /\ local' = [local EXCEPT ![Owner] = NoCall]
      /\ running' = [running EXCEPT ![Owner] = l.task]
      /\ failed' = (l.pc = "won" /\ l.task = NULL)
      /\ UNCHANGED <<top, memory, loaded, waiting, released>>
  BY DEF ResetBottom, Goes, Returns, Runs
<1>2. /\ l \in Call /\ Own \in Deque /\ top \in Nat /\ Own.bottom \in Int
      /\ Own.size \in Nat \ {0} /\ Own.segment \in Array(Own.size)
  BY <1>1, OwnerAt, OwnIsLast DEF CoreInv, TypeInv, Deque, QueueInv
<1>3. /\ l.bottom = top /\ top = Own.bottom + 1 /\ released /\ running[Owner] = NULL
      /\ l.pc = "won" => l.task \in Tasks
      /\ l.pc = "lost" => l.task = NULL
  BY <1>1 DEF CoreInv, OwnerInv
<1>4. Bottom = (IF l.pc = "won" THEN top - 1 ELSE top) /\ Bottom \in Int /\ Bottom <= top
  BY <1>1, <1>2, <1>3 DEF Bottom
<1>5. /\ m \in Deque /\ m.size = Own.size /\ m.array = Own.array /\ m.bottom = top /\ m.segment = Own.segment
      /\ \A i : At(m, i) = At(Own, i)
  BY <1>2, <1>3 DEF Deque, At
<1> HIDE DEF m
<1>6. NoCall \in Call /\ NoCall.pc = "idle"
  BY DEF NoCall, Call, OwnerPcs
<1>7. /\ local' \in [Workers -> Call] /\ local'[Owner] = NoCall
      /\ \A w \in Thieves : local'[w] = local[w]
  BY <1>1, <1>6, OwnerSets DEF CoreInv
<1>8. pending' \in Seq(Deque) /\ Own' = m
  BY <1>1, <1>5, StoreView DEF CoreInv
<1>9. Bottom' = top
  BY <1>2, <1>5, <1>6, <1>7, <1>8 DEF Bottom
<1>10. /\ running' \in [Workers -> Tasks \union {NULL}]
       /\ \A w \in Thieves : running'[w] = running[w]
  BY <1>1, <1>3, OwnerAssumption DEF CoreInv, TypeInv, Workers
<1>11. ~failed'
  BY <1>1, <1>3, NullAssumption
<1>12. TypeInv'
  BY <1>1, <1>7, <1>8, <1>10 DEF CoreInv, TypeInv
<1>13. QueueInv'
  <2>1. top'..(Bottom' - 1) = {}
    BY <1>1, <1>2, <1>9
  <2> QED BY <1>1, <1>2, <1>5, <1>8, <1>9, <2>1 DEF QueueInv
<1>14. OwnerInv' /\ StartInv'
  BY <1>1, <1>3, <1>6, <1>7, <1>11 DEF OwnerInv, OwnerPcs, StartInv
<1>15. ViewInv'
  <2>1. m.segment \in Array(m.size) /\ Bottom' \in Int /\ m.bottom <= Bottom' /\ Bottom <= Bottom'
    BY <1>2, <1>4, <1>5, <1>9
  <2> QED BY <1>1, <1>3, <1>5, <1>6, <1>7, <2>1, StoreKeeps
<1>16. ThiefInv'
  <2>1. ~(top < Bottom)
    BY <1>2, <1>4
  <2>2. ~\E w \in Thieves : local[w].pc \in {"read", "cas"} /\ local[w].top = top
    BY <2>1 DEF CoreInv, ThiefInv
  <2> QED BY <1>1, <1>7, <1>10, <2>2, ThievesKept
<1>19. LoadedInv'
  BY <1>1, <1>5, <1>7, <1>8, LoadedKept
<1>17. Queue' = Queue
  <2>1. Queue \in Seq(Tasks) /\ Len(Queue) = 0
    BY <1>2, <1>4, QueueIs DEF CoreInv
  <2>2. Queue' \in Seq(Tasks) /\ Len(Queue') = 0
    <3>1. Bottom' - top' = 0 /\ Bottom' >= top'
      BY <1>1, <1>2, <1>9
    <3> QED BY <1>12, <1>13, <3>1, QueueNext
  <2> QED BY <2>1, <2>2, EmptySeq
<1>18. Taken' = Taken
  <2>1. Taken' = running'
    BY <1>6, <1>7, <1>12, TakenNext
  <2>2. CASE l.pc = "won"
    BY <1>1, <2>1, <2>2 DEF Taken, Goes
  <2>3. CASE l.pc = "lost"
    <3>1. Taken = running
      BY <2>3, TakenNow DEF CoreInv
    <3>2. running' = running
      BY <1>1, <1>3, <2>3 DEF CoreInv, TypeInv
    <3> QED BY <2>1, <3>1, <3>2
  <2> QED BY <1>1, <2>2, <2>3
<1> QED BY <1>1, <1>12, <1>13, <1>14, <1>15, <1>16, <1>17, <1>18, <1>19 DEF CoreInv, Stutters

-----------------------------------------------------------------------------
(* The steps of the thieves and of the workers.                            *)

LEMMA ThiefSets ==
  ASSUME TypeInv, NEW w \in Thieves, NEW r \in Call, local' = [local EXCEPT ![w] = r]
  PROVE  /\ local' \in [Workers -> Call]
         /\ local'[w] = r /\ local'[Owner] = local[Owner]
         /\ \A v \in Thieves \ {w} : local'[v] = local[v]
BY OwnerAssumption DEF TypeInv, Workers

LEMMA OwnerKept ==
  ASSUME OwnerInv, UNCHANGED <<top, memory, pending, running, waiting, released, failed>>,
         local'[Owner] = local[Owner]
  PROVE  OwnerInv'
<1>1. Own' = Own
  BY SameView
<1>2. At(Own, Own.bottom)' = At(Own, Own.bottom)
      /\ At(Own, local[Owner].bottom)' = At(Own, local[Owner].bottom)
  BY <1>1 DEF At
<1> QED BY <1>1, <1>2 DEF OwnerInv

\* Steps of a thief that take nothing.
LEMMA ThiefMoves ==
  ASSUME CoreInv, NEW w \in Thieves, NEW r \in Call, local' = [local EXCEPT ![w] = r],
         UNCHANGED <<top, memory, pending, running, waiting, released, failed>>,
         released, running[w] = NULL, r.pc \in ThiefPcs, r.pc # "idle" => r.top <= top,
         r.pc \in {"read", "cas"} /\ r.top = top => top < Bottom /\ Settled(top, 0),
         r.pc = "cas" /\ r.top = top => r.task = At(Own, top),
         NEW n \in Loads, loaded' = [loaded EXCEPT ![w] = n],
         r.pc # "read" => n = NotLoaded,
         n.size \in {0, Own.size}, n.array \in {0, Own.array}
  PROVE  CoreInv' /\ Stutters
<1>1. /\ local' \in [Workers -> Call]
      /\ local'[w] = r /\ local'[Owner] = local[Owner]
      /\ \A v \in Thieves \ {w} : local'[v] = local[v]
  BY ThiefSets DEF CoreInv
<1>2. Own' = Own /\ Bottom' = Bottom
  BY <1>1, SameView DEF Bottom
<1>4. /\ QueueInv' /\ ViewInv' /\ Queue' = Queue
      /\ (\A i : At(Own, i)' = At(Own, i)) /\ \A i, k : Settled(i, k)' <=> Settled(i, k)
  BY <1>1, <1>2, SameMemory
<1>5. TypeInv'
  <2>1. loaded' \in [Thieves -> Loads]
    BY DEF CoreInv, TypeInv
  <2> QED BY <1>1, <2>1 DEF CoreInv, TypeInv
<1>6. OwnerInv' /\ StartInv'
  BY <1>1, OwnerKept DEF CoreInv, StartInv
<1>7. ThiefInv'
  <2>1. SUFFICES ASSUME NEW v \in Thieves
                 PROVE  LET l == local'[v] IN
                        /\ l.pc \in ThiefPcs
                        /\ l.pc # "idle" => running'[v] = NULL /\ l.top <= top'
                        /\ l.pc \in {"read", "cas"} /\ l.top = top'
                             => top' < Bottom' /\ Settled(top, 0)'
                        /\ l.pc = "cas" /\ l.top = top' => l.task = At(Own, top)'
    BY Zenon DEF ThiefInv
  <2>2. CASE v = w
    BY <1>1, <1>2, <1>4, <2>2
  <2>3. CASE v # w
    <3>1. /\ local[v].pc \in ThiefPcs
          /\ local[v].pc # "idle" => running[v] = NULL /\ local[v].top <= top
          /\ local[v].pc \in {"read", "cas"} /\ local[v].top = top
               => top < Bottom /\ Settled(top, 0)
          /\ local[v].pc = "cas" /\ local[v].top = top => local[v].task = At(Own, top)
      BY Zenon DEF ThiefInv, CoreInv
    <3> QED BY <1>1, <1>2, <1>4, <2>3, <3>1
  <2> QED BY <2>2, <2>3
<1>9. LoadedInv'
  <2>1. \A v \in Thieves : loaded'[v] = IF v = w THEN n ELSE loaded[v]
    BY DEF CoreInv, TypeInv
  <2> QED BY <1>1, <1>2, <2>1 DEF CoreInv, LoadedInv
<1>8. Taken' = Taken
  BY <1>1, SameTaken
<1> QED BY <1>4, <1>5, <1>6, <1>7, <1>8, <1>9 DEF CoreInv, Stutters

\* A thief that is not reading the array has nothing loaded, and leaves it so.
LEMMA NothingLoaded ==
  ASSUME CoreInv, NEW w \in Thieves, local[w].pc # "read"
  PROVE  /\ NotLoaded \in Loads
         /\ loaded = [loaded EXCEPT ![w] = NotLoaded]
         /\ NotLoaded.size \in {0, Own.size} /\ NotLoaded.array \in {0, Own.array}
<1>1. loaded[w] = NotLoaded /\ loaded \in [Thieves -> Loads]
  BY DEF CoreInv, LoadedInv, TypeInv
<1> QED BY <1>1 DEF NotLoaded, Loads

\* What is true of a thief that is at work.
LEMMA ThiefAt ==
  ASSUME CoreInv, NEW w \in Thieves, local[w].pc # "idle"
  PROVE  /\ released /\ running[w] = NULL
         /\ local[w] \in Call /\ local[w].top \in Nat /\ local[w].top <= top /\ top \in Nat
BY OwnerAt DEF CoreInv, StartInv, ThiefInv, TypeInv, Call

LEMMA StealTopStep ==
  ASSUME CoreInv, NEW w \in Thieves, StealTop(w)
  PROVE  CoreInv' /\ Stutters
<1> DEFINE r == [pc |-> "top", top |-> top, bottom |-> 0, task |-> NULL]
<1>1. /\ released /\ running[w] = NULL /\ local' = [local EXCEPT ![w] = r]
      /\ UNCHANGED <<top, memory, pending, running, waiting, loaded, released, failed>>
      /\ top \in Nat /\ local[w].pc = "idle"
  BY DEF StealTop, Free, Goes, Sets, restVars, taskVars, CoreInv, TypeInv
<1>2. r \in Call /\ r.pc = "top" /\ r.top = top
  BY <1>1 DEF Call, ThiefPcs
<1> HIDE DEF r
<1>3. r.pc \in ThiefPcs /\ r.top <= top
  BY <1>1, <1>2 DEF ThiefPcs
<1> QED BY <1>1, <1>2, <1>3, NothingLoaded, ThiefMoves

LEMMA IdleCall == NoCall \in Call /\ NoCall.pc = "idle" /\ NoCall.pc \in ThiefPcs
BY DEF NoCall, Call, ThiefPcs

\* A bottom that a thief sees is not beyond the queue, and the head has been stored.
LEMMA StealBottomStep ==
  ASSUME CoreInv, NEW w \in Thieves, StealBottom(w)
  PROVE  CoreInv' /\ Stutters
<1> DEFINE l == local[w]
           r == [pc |-> "read", top |-> l.top, bottom |-> 0, task |-> NULL]
<1>1. /\ l.pc = "top"
      /\ UNCHANGED <<top, memory, pending, running, waiting, loaded, released, failed>>
      /\ IF memory.bottom - l.top <= 0 THEN local' = [local EXCEPT ![w] = NoCall]
                                       ELSE local' = [local EXCEPT ![w] = r]
  BY DEF StealBottom, Goes, Returns, Sets, restVars, taskVars, NothingToSteal
<1>2. /\ released /\ running[w] = NULL
      /\ l \in Call /\ l.top \in Nat /\ l.top <= top /\ top \in Nat
  BY <1>1, ThiefAt
<1>3. CASE memory.bottom - l.top <= 0
  BY <1>1, <1>2, <1>3, IdleCall, NothingLoaded, ThiefMoves
<1>4. CASE ~(memory.bottom - l.top <= 0)
  <2>1. r \in Call /\ r.pc = "read" /\ r.top = l.top
    BY <1>2 DEF Call, ThiefPcs
  <2> HIDE DEF r
  <2>2. r.pc \in ThiefPcs /\ r.top <= top
    BY <1>2, <2>1 DEF ThiefPcs
  <2>3. ASSUME l.top = top PROVE top < Bottom /\ Settled(top, 0)
    <3>1. View(0) = memory /\ 0 \in 0..Len(pending)
      BY OwnIsLast DEF View, CoreInv
    <3>2. memory.bottom <= Bottom /\ \A i \in top..(memory.bottom - 1) : Settled(i, 0)
      BY <1>2, <3>1 DEF CoreInv, ViewInv
    <3>3. memory.bottom \in Int /\ Bottom \in Int
      BY QueueIs DEF CoreInv, TypeInv, Deque
    <3>4. top \in top..(memory.bottom - 1) /\ top < Bottom
      BY <1>2, <1>4, <2>3, <3>2, <3>3
    <3> QED BY <3>2, <3>4
  <2> QED BY <1>1, <1>2, <1>4, <2>1, <2>2, <2>3, NothingLoaded, ThiefMoves
<1> QED BY <1>3, <1>4

\* The size and the segment that a thief loads are those of the owner.
LEMMA LoadStep ==
  ASSUME CoreInv, NEW w \in Thieves, LoadSize(w) \/ LoadSegment(w)
  PROVE  CoreInv' /\ Stutters
<1> DEFINE l == local[w]
<1>1. /\ l.pc = "read"
      /\ UNCHANGED <<top, memory, pending, local, running, waiting, released, failed>>
  BY DEF LoadSize, LoadSegment, Goes, taskVars
<1>2. /\ released /\ running[w] = NULL
      /\ l \in Call /\ l.top \in Nat /\ l.top <= top /\ top \in Nat
  BY <1>1, ThiefAt
<1>3. local' = [local EXCEPT ![w] = l]
  BY <1>1 DEF CoreInv, TypeInv, Workers
<1>4. l.top = top => top < Bottom /\ Settled(top, 0)
  BY <1>1 DEF CoreInv, ThiefInv
<1>5. /\ memory.size = Own.size /\ memory.array = Own.array
      /\ Own.size \in Nat /\ Own.array \in Nat
  <2>1. View(0) = memory /\ 0 \in 0..Len(pending) /\ Own \in Deque
    BY OwnIsLast DEF View, CoreInv
  <2> QED BY <1>2, <2>1 DEF CoreInv, ViewInv, Deque
<1>6. PICK n \in Loads : /\ loaded' = [loaded EXCEPT ![w] = n]
                         /\ n.size \in {0, Own.size} /\ n.array \in {0, Own.array}
  <2>1. /\ loaded[w] \in Loads /\ loaded \in [Thieves -> Loads]
        /\ loaded[w].size \in {0, Own.size} /\ loaded[w].array \in {0, Own.array}
    BY DEF CoreInv, TypeInv, LoadedInv
  <2>2. CASE LoadSize(w)
    <3> DEFINE n == [loaded[w] EXCEPT !.size = memory.size]
    <3>1. n \in Loads /\ n.size = Own.size /\ n.array = loaded[w].array
      BY <1>5, <2>1 DEF Loads
    <3>2. loaded' = [loaded EXCEPT ![w] = n]
      BY <2>1, <2>2 DEF LoadSize
    <3> HIDE DEF n
    <3> QED BY <2>1, <3>1, <3>2
  <2>3. CASE LoadSegment(w)
    <3> DEFINE n == [loaded[w] EXCEPT !.array = memory.array]
    <3>1. n \in Loads /\ n.array = Own.array /\ n.size = loaded[w].size
      BY <1>5, <2>1 DEF Loads
    <3>2. loaded' = [loaded EXCEPT ![w] = n]
      BY <2>1, <2>3 DEF LoadSegment
    <3> HIDE DEF n
    <3> QED BY <2>1, <3>1, <3>2
  <2> QED BY <2>2, <2>3
<1>7. l.pc \in ThiefPcs /\ l.pc # "idle" /\ l.pc # "cas"
  BY <1>1 DEF ThiefPcs
<1> QED BY <1>1, <1>2, <1>3, <1>4, <1>6, <1>7, ThiefMoves

\* While top is the same the head is what the thief reads.
LEMMA StealTaskStep ==
  ASSUME CoreInv, NEW w \in Thieves, StealTask(w)
  PROVE  CoreInv' /\ Stutters
<1> DEFINE l == local[w]
           r(x) == [pc |-> "cas", top |-> l.top, bottom |-> 0, task |-> x]
<1>1. /\ l.pc = "read"
      /\ UNCHANGED <<top, memory, pending, running, waiting, released, failed>>
      /\ loaded[w].size # 0 /\ loaded[w].array # 0
      /\ loaded' = [loaded EXCEPT ![w] = NotLoaded]
  BY DEF StealTask, Goes, restVars, taskVars
<1>2. /\ released /\ running[w] = NULL
      /\ l \in Call /\ l.top \in Nat /\ l.top <= top /\ top \in Nat
  BY <1>1, ThiefAt
<1>3. View(0) = memory /\ 0 \in 0..Len(pending) /\ memory \in Deque
  BY OwnIsLast DEF View, CoreInv, TypeInv
<1>4. /\ memory.segment \in Array(memory.size)
      /\ loaded[w].size = memory.size /\ loaded[w].array = memory.array
  <2>1. /\ memory.segment \in Array(memory.size)
        /\ memory.size = Own.size /\ memory.array = Own.array
    BY <1>2, <1>3 DEF CoreInv, ViewInv
  <2> QED BY <1>1, <2>1 DEF CoreInv, LoadedInv
<1>5. /\ GetTaskFromArray(memory, loaded[w], l.top) = {At(memory, l.top)}
      /\ At(memory, l.top) \in Values
  <2>1. ASSUME NEW i \in Int, NEW from, from.size = memory.size, from.array = memory.array
        PROVE  GetTaskFromArray(memory, from, i) = {At(memory, i)} /\ At(memory, i) \in Values
    BY <1>3, <1>4, <2>1, GetIsAt
  <2>2. l.top \in Int
    BY <1>2
  <2> QED BY <1>4, <2>1, <2>2
<1>6. local' = [local EXCEPT ![w] = r(At(memory, l.top))]
  BY <1>5 DEF StealTask, Sets
<1>7. /\ r(At(memory, l.top)) \in Call /\ r(At(memory, l.top)).pc = "cas"
      /\ r(At(memory, l.top)).top = l.top /\ r(At(memory, l.top)).task = At(memory, l.top)
  BY <1>2, <1>5 DEF Call, ThiefPcs
<1> HIDE DEF r
<1>8. ASSUME l.top = top
      PROVE  top < Bottom /\ Settled(top, 0) /\ At(memory, l.top) = At(Own, top)
  <2>1. top < Bottom /\ Settled(top, 0)
    BY <1>1, <1>8 DEF CoreInv, ThiefInv
  <2> QED BY <1>3, <1>8, <2>1 DEF Settled
<1>9. r(At(memory, l.top)).pc \in ThiefPcs
  BY <1>7 DEF ThiefPcs
<1>10. /\ NotLoaded \in Loads
       /\ NotLoaded.size \in {0, Own.size} /\ NotLoaded.array \in {0, Own.array}
  BY DEF NotLoaded, Loads
<1> QED BY <1>1, <1>2, <1>6, <1>7, <1>8, <1>9, <1>10, ThiefMoves

LEMMA TailIs ==
  ASSUME NEW S, NEW s \in Seq(S), s # <<>>, NEW t \in Seq(S), Len(s) = Len(t) + 1,
         \A k \in 1..Len(t) : t[k] = s[k + 1]
  PROVE  t = Tail(s)
<1>1. /\ Tail(s) \in Seq(S) /\ Len(Tail(s)) = Len(s) - 1
      /\ \A k \in 1..Len(Tail(s)) : Tail(s)[k] = s[k + 1]
  BY HeadTailProperties
<1>2. Len(Tail(s)) = Len(t)
  BY <1>1, LenProperties
<1> QED BY <1>1, <1>2, SeqEqual

\* An exchange that finds the top that was loaded takes the head of the queue.
LEMMA StealExchangeStep ==
  ASSUME CoreInv, NEW w \in Thieves, StealExchange(w)
  PROVE  CoreInv' /\ (Stutters \/ Promise!Next)
<1> DEFINE l == local[w]
<1>1. /\ l.pc = "cas" /\ ~failed /\ local' = [local EXCEPT ![w] = NoCall]
      /\ UNCHANGED <<memory, pending, loaded, waiting, released, failed>>
      /\ IF top = l.top
         THEN top' = l.top + 1 /\ running' = [running EXCEPT ![w] = l.task]
         ELSE UNCHANGED <<top, running>>
  BY DEF StealExchange, Goes, Returns, Runs
<1>2. /\ released /\ running[w] = NULL
      /\ l \in Call /\ l.top \in Nat /\ l.top <= top /\ top \in Nat
  BY <1>1, ThiefAt
<1>3. CASE top # l.top
  BY <1>1, <1>2, <1>3, IdleCall, NothingLoaded, ThiefMoves
<1>4. CASE top = l.top
  <2> DEFINE x == At(Own, top)
  <2>1. top < Bottom /\ l.task = x
    BY <1>1, <1>4 DEF CoreInv, ThiefInv
  <2>2. /\ Own \in Deque /\ Own.bottom \in Int /\ Bottom \in Int
        /\ Own.size \in Nat \ {0} /\ Own.segment \in Array(Own.size)
        /\ Own' = Own /\ \A k : View(k)' = View(k)
        /\ Len(pending') = Len(pending)
    BY <1>1, OwnIsLast, QueueIs, SameView DEF CoreInv, Deque, QueueInv
  <2>3. x \in Tasks
    <3>1. top \in top..(Bottom - 1)
      BY <1>2, <2>1, <2>2
    <3> QED BY <3>1 DEF CoreInv, QueueInv
  <2>4. top' = top + 1 /\ running' = [running EXCEPT ![w] = x]
    BY <1>1, <1>4, <2>1
  <2> HIDE DEF x
  <2>5. /\ local' \in [Workers -> Call]
        /\ local'[w] = NoCall /\ local'[Owner] = local[Owner]
        /\ \A v \in Thieves \ {w} : local'[v] = local[v]
    BY <1>1, IdleCall, ThiefSets DEF CoreInv
  <2>6. /\ running' \in [Workers -> Tasks \union {NULL}] /\ running'[Owner] = running[Owner]
        /\ \A v \in Thieves \ {w} : running'[v] = running[v]
    BY <2>3, <2>4, OwnerAssumption DEF CoreInv, TypeInv, Workers
  <2>7. local[Owner].pc \notin {"won", "lost"}
    <3>1. ASSUME local[Owner].pc \in {"won", "lost"} PROVE FALSE
      <4>1. top = Own.bottom + 1
        BY <3>1 DEF CoreInv, OwnerInv
      <4> QED BY <1>2, <2>1, <2>2, <4>1 DEF Bottom
    <3> QED BY <3>1
  <2>8. Bottom' = Bottom
    BY <2>2, <2>5 DEF Bottom
  <2>9. TypeInv'
    <3>1. top' \in Nat
      BY <1>2, <2>4
    <3> QED BY <1>1, <2>5, <2>6, <3>1 DEF CoreInv, TypeInv
  <2>10. \A i : At(Own, i)' = At(Own, i)
    BY <2>2 DEF At
  <2>11. QueueInv'
    <3>1. \A i \in top'..(Bottom' - 1) : i \in top..(Bottom - 1)
      BY <1>2, <2>2, <2>4, <2>8
    <3>2. Bottom - top < Own.size
      BY DEF CoreInv, QueueInv
    <3>3. Bottom' - top' < Own'.size /\ top' <= Bottom'
      BY <1>2, <2>1, <2>2, <2>4, <2>8, <3>2
    <3>4. \A i \in top'..(Bottom' - 1) : At(Own, i)' \in Tasks
      BY <2>10, <3>1 DEF CoreInv, QueueInv
    <3> QED BY <2>2, <3>3, <3>4 DEF QueueInv
  <2>12. OwnerInv'
    <3>1. local[Owner].top \in Nat
      BY OwnerAt DEF CoreInv, Call
    <3> QED BY <1>1, <1>2, <2>2, <2>4, <2>5, <2>6, <2>7, <2>10, <3>1 DEF CoreInv, OwnerInv, At
  <2>13. StartInv'
    BY <1>1, <1>2 DEF StartInv
  <2>14. \A i, k : Settled(i, k)' <=> Settled(i, k)
    BY <2>2 DEF Settled, At
  <2>15. ViewInv'
    <3>1. ASSUME NEW k \in 0..Len(pending)
          PROVE  /\ View(k).size = Own.size /\ View(k).array = Own.array
                 /\ View(k).segment \in Array(Own.size)
                 /\ View(k).bottom <= Bottom
                 /\ \A i \in top'..(View(k).bottom - 1) : Settled(i, k)
      <4>1. View(k).bottom \in Int
        BY OwnIsLast DEF CoreInv, Deque
      <4>2. \A i \in top'..(View(k).bottom - 1) : i \in top..(View(k).bottom - 1)
        BY <1>2, <2>4, <4>1
      <4> QED BY <1>2, <4>2 DEF CoreInv, ViewInv
    <3> QED BY <2>2, <2>8, <2>14, <3>1 DEF ViewInv
  <2>16. ThiefInv'
    <3>1. local'[w].pc = "idle" /\ "idle" \in ThiefPcs
      BY <2>5, IdleCall DEF ThiefPcs
    <3>2. ASSUME NEW v \in Thieves \ {w}
          PROVE  /\ local'[v].pc \in ThiefPcs
                 /\ local'[v].pc # "idle" => /\ running'[v] = NULL
                                             /\ local'[v].top <= top' /\ local'[v].top # top'
      <4>1. local[v].top \in Nat
        BY OwnerAt DEF CoreInv, Call
      <4>2. /\ local[v].pc \in ThiefPcs
            /\ local[v].pc # "idle" => running[v] = NULL /\ local[v].top <= top
        BY DEF CoreInv, ThiefInv
      <4> QED BY <1>2, <2>4, <2>5, <2>6, <4>1, <4>2
    <3> QED BY <3>1, <3>2 DEF ThiefInv
  <2>17. Queue # <<>> /\ Head(Queue) = x /\ Queue' = Tail(Queue)
    <3>1. /\ Queue \in Seq(Tasks) /\ Len(Queue) = Bottom - top /\ Bottom - top \in Nat \ {0}
          /\ \A k \in 1..(Bottom - top) : Queue[k] = At(Own, top + k - 1)
      BY <1>2, <2>1, <2>2, QueueIs DEF CoreInv
    <3>2. Queue # <<>> /\ Head(Queue) = x
      <4>1. Queue[1] = At(Own, top + 1 - 1) /\ top + 1 - 1 = top
        BY <1>2, <3>1
      <4> QED BY <3>1, <4>1 DEF x
    <3>3. /\ Queue' \in Seq(Tasks) /\ Len(Queue') = Bottom - top - 1
          /\ \A k \in 1..(Bottom - top - 1) : Queue'[k] = At(Own, top + (k + 1) - 1)
      <4>1. /\ Queue' \in Seq(Tasks)
            /\ \A k \in 1..(Bottom' - top') : Queue'[k] = At(Own', top' + k - 1)
            /\ Len(Queue') = IF Bottom' >= top' THEN Bottom' - top' ELSE 0
        BY <2>9, <2>11, QueueNext
      <4>2. Bottom' - top' = Bottom - top - 1 /\ Bottom' >= top'
        BY <1>2, <2>1, <2>2, <2>4, <2>8
      <4>3. \A k \in 1..(Bottom - top - 1) : top' + k - 1 = top + (k + 1) - 1
        BY <1>2, <2>2, <2>4
      <4> QED BY <2>2, <4>1, <4>2, <4>3
    <3>4. \A k \in 1..(Bottom - top - 1) : k + 1 \in 1..(Bottom - top)
      BY <3>1
    <3>5. \A k \in 1..Len(Queue') : Queue'[k] = Queue[k + 1]
      BY <3>1, <3>3, <3>4
    <3>6. Len(Queue) = Len(Queue') + 1
      BY <3>1, <3>3
    <3>7. Queue' = Tail(Queue)
      BY <3>1, <3>2, <3>3, <3>5, <3>6, TailIs
    <3> QED BY <3>2, <3>7
  <2>19. LoadedInv'
    <3>1. loaded[w] = NotLoaded
      BY <1>1 DEF CoreInv, LoadedInv
    <3>2. \A v \in Thieves : v = w \/ local'[v] = local[v]
      BY <2>5
    <3> QED BY <1>1, <2>2, <3>1, <3>2 DEF CoreInv, LoadedInv
  <2>18. Promise!Steal(w)
    <3>1. Taken = running /\ Taken' = running'
      BY <2>5, <2>7, <2>9, TakenNow, TakenNext DEF CoreInv
    <3> QED BY <1>1, <1>2, <2>4, <2>17, <3>1 DEF Promise!Steal, Promise!Takes
  <2> QED BY <2>9, <2>11, <2>12, <2>13, <2>15, <2>16, <2>18, <2>19 DEF CoreInv, Promise!Next
<1> QED BY <1>3, <1>4

\* All stores are out when the workers start.
LEMMA ReleaseStep ==
  ASSUME CoreInv, ReleaseThreads
  PROVE  CoreInv' /\ Stutters
<1>1. /\ local[Owner].pc = "idle" /\ ~failed /\ pending = <<>> /\ released' = TRUE
      /\ UNCHANGED <<top, memory, pending, local, running, waiting, loaded, failed>>
  BY DEF ReleaseThreads, Goes
<1>2. /\ Own' = Own /\ Bottom' = Bottom /\ Own \in Deque /\ Bottom = Own.bottom
      /\ \A i : At(Own, i)' = At(Own, i)
      /\ \A i, k : Settled(i, k)' <=> Settled(i, k)
      /\ Len(pending) = 0 /\ View(0) = Own /\ View(0)' = Own'
  BY <1>1, OwnIsLast, SameView DEF CoreInv, Bottom, Deque, At, Settled, View
<1>3. TypeInv' /\ QueueInv' /\ OwnerInv' /\ StartInv'
  <2>1. TypeInv' /\ StartInv'
    BY <1>1 DEF CoreInv, TypeInv, StartInv
  <2>2. QueueInv'
    BY <1>1, <1>2 DEF CoreInv, QueueInv
  <2>3. OwnerInv'
    BY <1>1 DEF OwnerInv, OwnerPcs
  <2> QED BY <2>1, <2>2, <2>3
<1>4. ViewInv'
  <2>1. \A k \in 0..Len(pending') : k = 0
    BY <1>1, <1>2
  <2>2. \A i : Settled(i, 0)
    <3>1. \A j \in 0..Len(pending) : j = 0
      BY <1>2
    <3> QED BY <1>2, <3>1 DEF Settled
  <2>3. Own.bottom <= Bottom /\ Own.segment \in Array(Own.size)
    BY <1>2 DEF Deque, CoreInv, QueueInv
  <2> QED BY <1>1, <1>2, <2>1, <2>2, <2>3 DEF ViewInv
<1>5. ThiefInv'
  BY <1>1, <1>2, ThievesKept
<1>8. LoadedInv'
  BY <1>1, <1>2, LoadedKept
<1>6. Queue' = Queue
  BY <1>1, <1>2 DEF Queue
<1>7. Taken' = Taken
  BY <1>1, SameTaken
<1> QED BY <1>1, <1>3, <1>4, <1>5, <1>6, <1>7, <1>8 DEF CoreInv, Stutters

\* Steps that touch nothing but who runs what.
LEMMA RunsKeep ==
  ASSUME CoreInv, UNCHANGED <<top, memory, pending, local, loaded, released, failed>>, released
  PROVE  /\ QueueInv' /\ ViewInv' /\ StartInv' /\ Queue' = Queue /\ Own' = Own
         /\ (\A i : At(Own, i)' = At(Own, i)) /\ \A i, k : Settled(i, k)' <=> Settled(i, k)
         /\ Bottom' = Bottom /\ LoadedInv'
<1>1. Bottom' = Bottom
  BY SameView DEF Bottom
<1>2. Own' = Own
  BY SameView
<1> QED BY <1>1, <1>2, SameMemory, LoadedKept DEF StartInv

LEMMA RunOtherStep ==
  ASSUME CoreInv, RunOther
  PROVE  CoreInv' /\ Promise!Next
<1>1. PICK x \in waiting : /\ running' = [running EXCEPT ![Owner] = x]
                           /\ waiting' = waiting \ {x}
  BY DEF RunOther, Runs
<1>2. /\ released /\ ~failed /\ local[Owner].pc = "idle" /\ running[Owner] = NULL
      /\ UNCHANGED <<top, memory, pending, local, loaded, released, failed>>
  BY DEF RunOther, Free, Goes
<1>3. /\ QueueInv' /\ ViewInv' /\ StartInv' /\ Queue' = Queue /\ Own' = Own
      /\ (\A i : At(Own, i)' = At(Own, i)) /\ \A i, k : Settled(i, k)' <=> Settled(i, k)
      /\ Bottom' = Bottom /\ LoadedInv'
  BY <1>2, RunsKeep
<1>4. /\ running' \in [Workers -> Tasks \union {NULL}] /\ waiting' \in SUBSET Tasks
      /\ \A w \in Thieves : running'[w] = running[w]
  BY <1>1, OwnerAssumption DEF CoreInv, TypeInv, Workers
<1>5. TypeInv'
  BY <1>2, <1>4 DEF CoreInv, TypeInv
<1>6. OwnerInv'
  BY <1>2 DEF OwnerInv, OwnerPcs
<1>7. ThiefInv'
  BY <1>2, <1>3, <1>4, ThievesKept
<1>8. Promise!RunOther
  <2>1. Taken = running /\ Taken' = running'
    BY <1>2, <1>5, TakenNow, TakenNext DEF CoreInv
  <2> QED BY <1>1, <1>2, <1>3, <2>1 DEF Promise!RunOther, Promise!Takes
<1> QED BY <1>3, <1>5, <1>6, <1>7, <1>8 DEF CoreInv, Promise!Next

LEMMA EndTaskStep ==
  ASSUME CoreInv, NEW w \in Workers, EndTask(w)
  PROVE  CoreInv' /\ Promise!Next
<1>1. /\ ~failed /\ local[w].pc = "idle" /\ running[w] # NULL
      /\ running' = [running EXCEPT ![w] = NULL]
      /\ waiting' = waiting \union {running[w]}
      /\ UNCHANGED <<top, memory, pending, local, loaded, released, failed>>
  BY DEF EndTask, Goes, Runs
<1>2. released /\ running[w] \in Tasks
  BY <1>1 DEF CoreInv, StartInv, TypeInv
<1>3. /\ QueueInv' /\ ViewInv' /\ StartInv' /\ Queue' = Queue /\ Own' = Own
      /\ (\A i : At(Own, i)' = At(Own, i)) /\ \A i, k : Settled(i, k)' <=> Settled(i, k)
      /\ Bottom' = Bottom /\ LoadedInv'
  BY <1>1, <1>2, RunsKeep
<1>4. /\ running' \in [Workers -> Tasks \union {NULL}] /\ waiting' \in SUBSET Tasks
      /\ running \in [Workers -> Tasks \union {NULL}]
      /\ \A v \in Workers \ {w} : running'[v] = running[v]
      /\ Owner \in Workers /\ Thieves \subseteq Workers
  BY <1>1, <1>2 DEF CoreInv, TypeInv, Workers
<1>5. TypeInv'
  BY <1>1, <1>4 DEF CoreInv, TypeInv
<1>6. OwnerInv'
  <2>1. CASE w = Owner
    BY <1>1, <2>1 DEF OwnerInv, OwnerPcs
  <2>2. CASE w # Owner
    <3>1. running'[Owner] = running[Owner]
      BY <1>4, <2>2
    <3> QED BY <1>1, <1>3, <3>1 DEF CoreInv, OwnerInv, At
  <2> QED BY <2>1, <2>2
<1>7. ThiefInv'
  <2>1. \A v \in Thieves : v = w \/ running'[v] = running[v]
    BY <1>4
  <2> QED BY <1>1, <1>3, <2>1 DEF CoreInv, ThiefInv
<1>8. Promise!EndTask(w)
  <2>1. Taken[w] = running[w] /\ Taken' = [Taken EXCEPT ![w] = NULL]
    BY <1>1, <1>4 DEF Taken, Goes
  <2> QED BY <1>1, <1>3, <2>1 DEF Promise!EndTask
<1>9. Promise!Next
  BY <1>8 DEF Promise!Next, Promise!Workers, Workers
<1> QED BY <1>3, <1>5, <1>6, <1>7, <1>9 DEF CoreInv

-----------------------------------------------------------------------------
(* Each task is in one place.                                              *)

Types ==
  /\ Queue \in Seq(Tasks)
  /\ Taken \in [Workers -> Tasks \union {NULL}]
  /\ waiting \in SUBSET Tasks

LEMMA CoreTypes ==
  ASSUME CoreInv
  PROVE  Types
BY QueueIs, TakenIs DEF CoreInv, Types, TypeInv

LEMMA CoreTypesNext ==
  ASSUME CoreInv'
  PROVE  Types'
<1>1. Queue' \in Seq(Tasks)
  BY QueueNext DEF CoreInv
<1>2. Taken' \in [Workers -> Tasks \union {NULL}]
  BY DEF CoreInv, Taken, Goes, TypeInv, OwnerInv, Workers
<1> QED BY <1>1, <1>2 DEF Types, CoreInv, TypeInv

LEMMA OncePush ==
  ASSUME Types, Types', OnceInv, NEW x \in Tasks, Promise!Push(x)
  PROVE  OnceInv'
<1> DEFINE n == Len(Queue)
<1>1. /\ Queue' = Append(Queue, x)
      /\ \/ x \in waiting /\ waiting' = waiting \ {x} /\ Taken' = Taken
         \/ x = Taken[Owner] /\ Taken' = [Taken EXCEPT ![Owner] = NULL] /\ waiting' = waiting
  BY DEF Promise!Push
<1>2. /\ n \in Nat /\ DOMAIN Queue = 1..n /\ DOMAIN Queue' = 1..(n + 1)
      /\ \A i \in 1..n : Queue'[i] = Queue[i] /\ Queue[i] \in Tasks
      /\ Queue'[n + 1] = x
  BY <1>1 DEF Types
<1>3. \A i \in 1..(n + 1) : i \in 1..n \/ i = n + 1
  BY <1>2
<1>4. \A i \in 1..n : i \in 1..(n + 1) /\ n + 1 \in 1..(n + 1)
  BY <1>2
<1>5. n + 1 \in DOMAIN Queue'
  BY <1>2
<1>6. /\ \A i, j \in 1..n : Queue[i] = Queue[j] => i = j
      /\ \A i \in 1..n : /\ Queue[i] \notin waiting
                         /\ \A w \in Workers : Queue[i] # Taken[w]
      /\ \A w \in Workers : Taken[w] \notin waiting
      /\ \A v, w \in Workers : Taken[v] = Taken[w] /\ Taken[w] # NULL => v = w
      /\ \A y \in Tasks : \/ y \in waiting
                          \/ \E i \in 1..n : Queue[i] = y
                          \/ \E w \in Workers : Taken[w] = y
  BY <1>2, Zenon DEF OnceInv
<1>7. /\ Owner \in Workers /\ Taken \in [Workers -> Tasks \union {NULL}] /\ waiting \subseteq Tasks
      /\ NULL \notin Tasks
  BY NullAssumption DEF Workers, Types
<1>8. \A i \in 1..n : Queue[i] # x
  BY <1>1, <1>6, <1>7
<1> HIDE DEF n
<1>9. \A i, j \in DOMAIN Queue' : Queue'[i] = Queue'[j] => i = j
  BY <1>2, <1>3, <1>6, <1>8
<1>10. \A w \in Workers : \/ Taken'[w] = Taken[w] /\ Taken[w] # x
                          \/ Taken'[w] = NULL /\ w = Owner /\ Taken[w] = x
  <2>1. CASE x \in waiting /\ Taken' = Taken
    BY <1>6, <2>1
  <2>2. CASE x = Taken[Owner] /\ Taken' = [Taken EXCEPT ![Owner] = NULL]
    BY <1>6, <1>7, <2>2
  <2> QED BY <1>1, <2>1, <2>2
<1>11. waiting' = waiting \ {x}
  BY <1>1, <1>6, <1>7
<1>12. \A i \in DOMAIN Queue' : /\ Queue'[i] \notin waiting'
                                /\ \A w \in Workers : Queue'[i] # Taken'[w]
  <2>1. \A i \in 1..n : /\ Queue'[i] \notin waiting'
                        /\ \A w \in Workers : Queue'[i] # Taken'[w]
    BY <1>2, <1>6, <1>7, <1>10, <1>11
  <2>2. x \notin waiting' /\ \A w \in Workers : x # Taken'[w]
    BY <1>7, <1>10, <1>11
  <2> QED BY <1>2, <1>3, <2>1, <2>2
<1>13. \A w \in Workers : Taken'[w] \notin waiting'
  BY <1>6, <1>7, <1>10, <1>11
<1>14. \A v, w \in Workers : Taken'[v] = Taken'[w] /\ Taken'[w] # NULL => v = w
  BY <1>6, <1>10
<1>15. \A y \in Tasks : \/ y \in waiting'
                        \/ \E i \in DOMAIN Queue' : Queue'[i] = y
                        \/ \E w \in Workers : Taken'[w] = y
  <2>1. SUFFICES ASSUME NEW y \in Tasks, y # x
                 PROVE  \/ y \in waiting'
                        \/ \E i \in DOMAIN Queue' : Queue'[i] = y
                        \/ \E w \in Workers : Taken'[w] = y
    BY <1>2, <1>5
  <2>2. CASE y \in waiting
    BY <1>11, <2>1, <2>2
  <2>3. CASE \E i \in 1..n : Queue[i] = y
    BY <1>2, <1>4, <2>3
  <2>4. CASE \E w \in Workers : Taken[w] = y
    BY <1>10, <2>1, <2>4
  <2> QED BY <1>6, <2>2, <2>3, <2>4
<1> QED BY <1>9, <1>12, <1>13, <1>14, <1>15 DEF OnceInv

\* The same for an entry that is taken from either end.
TakesEntry(w, k, f) ==
  /\ w \in Workers /\ k \in DOMAIN Queue /\ Taken[w] = NULL /\ UNCHANGED waiting
  /\ Taken' = [Taken EXCEPT ![w] = Queue[k]]
  /\ f \in [DOMAIN Queue' -> DOMAIN Queue \ {k}]
  /\ \A i \in DOMAIN Queue' : Queue'[i] = Queue[f[i]]
  /\ \A i, j \in DOMAIN Queue' : f[i] = f[j] => i = j
  /\ \A j \in DOMAIN Queue \ {k} : \E i \in DOMAIN Queue' : f[i] = j

LEMMA OnceTake ==
  ASSUME Types, Types', OnceInv, NEW w, NEW k, NEW f, TakesEntry(w, k, f)
  PROVE  OnceInv'
<1>0. /\ w \in Workers /\ k \in DOMAIN Queue /\ Taken[w] = NULL /\ UNCHANGED waiting
      /\ Taken' = [Taken EXCEPT ![w] = Queue[k]]
      /\ f \in [DOMAIN Queue' -> DOMAIN Queue \ {k}]
      /\ \A i \in DOMAIN Queue' : Queue'[i] = Queue[f[i]]
      /\ \A i, j \in DOMAIN Queue' : f[i] = f[j] => i = j
      /\ \A j \in DOMAIN Queue \ {k} : \E i \in DOMAIN Queue' : f[i] = j
  BY DEF TakesEntry
<1>1. /\ \A i, j \in DOMAIN Queue : Queue[i] = Queue[j] => i = j
      /\ \A i \in DOMAIN Queue : /\ Queue[i] \notin waiting
                                 /\ \A v \in Workers : Queue[i] # Taken[v]
      /\ \A v \in Workers : Taken[v] \notin waiting
      /\ \A u, v \in Workers : Taken[u] = Taken[v] /\ Taken[v] # NULL => u = v
      /\ \A y \in Tasks : \/ y \in waiting
                          \/ \E i \in DOMAIN Queue : Queue[i] = y
                          \/ \E v \in Workers : Taken[v] = y
  BY Zenon DEF OnceInv
<1>2. \A v \in Workers : Taken'[v] = IF v = w THEN Queue[k] ELSE Taken[v]
  BY <1>0 DEF Types
<1>3. \A i \in DOMAIN Queue' : f[i] \in DOMAIN Queue /\ f[i] # k
  BY <1>0
<1>4. \A i, j \in DOMAIN Queue' : Queue'[i] = Queue'[j] => i = j
  BY <1>0, <1>1, <1>3
<1>5. \A i \in DOMAIN Queue' : /\ Queue'[i] \notin waiting'
                               /\ \A v \in Workers : Queue'[i] # Taken'[v]
  BY <1>0, <1>1, <1>2, <1>3
<1>6. \A v \in Workers : Taken'[v] \notin waiting'
  BY <1>0, <1>1, <1>2
<1>7. \A u, v \in Workers : Taken'[u] = Taken'[v] /\ Taken'[v] # NULL => u = v
  BY <1>0, <1>1, <1>2
<1>8. \A y \in Tasks : \/ y \in waiting'
                       \/ \E i \in DOMAIN Queue' : Queue'[i] = y
                       \/ \E v \in Workers : Taken'[v] = y
  <2>1. SUFFICES ASSUME NEW y \in Tasks
                 PROVE  \/ y \in waiting'
                        \/ \E i \in DOMAIN Queue' : Queue'[i] = y
                        \/ \E v \in Workers : Taken'[v] = y
    OBVIOUS
  <2>2. CASE \E j \in DOMAIN Queue : Queue[j] = y
    <3>1. PICK j \in DOMAIN Queue : Queue[j] = y
      BY <2>2
    <3>2. CASE j = k
      BY <1>0, <1>2, <3>1, <3>2
    <3>3. CASE j # k
      <4>1. PICK i \in DOMAIN Queue' : f[i] = j
        BY <1>0, <3>3
      <4> QED BY <1>0, <3>1, <4>1
    <3> QED BY <3>2, <3>3
  <2>3. CASE \E v \in Workers : Taken[v] = y
    <3>1. PICK v \in Workers : Taken[v] = y
      BY <2>3
    <3>2. v # w
      BY <1>0, <2>1, <3>1, NullAssumption
    <3> QED BY <1>2, <3>1, <3>2
  <2> QED BY <1>0, <1>1, <2>2, <2>3
<1> QED BY <1>4, <1>5, <1>6, <1>7, <1>8 DEF OnceInv

LEMMA OncePop ==
  ASSUME Types, Types', OnceInv, Promise!Pop
  PROVE  OnceInv'
<1> DEFINE n == Len(Queue)
           f == [i \in DOMAIN Queue' |-> i]
<1>1. /\ Queue # <<>> /\ Taken[Owner] = NULL /\ UNCHANGED waiting
      /\ Taken' = [Taken EXCEPT ![Owner] = Queue[n]]
      /\ Queue' = SubSeq(Queue, 1, n - 1)
  BY DEF Promise!Pop, Promise!Takes, Promise!Last, Promise!Front
<1>2. /\ n \in Nat \ {0} /\ DOMAIN Queue = 1..n /\ DOMAIN Queue' = 1..(n - 1)
      /\ \A i \in 1..(n - 1) : Queue'[i] = Queue[i]
  BY <1>1 DEF Types
<1> HIDE DEF n
<1>3. n \in DOMAIN Queue /\ DOMAIN Queue' = DOMAIN Queue \ {n}
  BY <1>2
<1>4. /\ f \in [DOMAIN Queue' -> DOMAIN Queue \ {n}]
      /\ \A i \in DOMAIN Queue' : f[i] = i
  BY <1>3
<1>5. f \in [DOMAIN Queue' -> DOMAIN Queue \ {n}]
  BY <1>4
<1> HIDE DEF f
<1>6. Owner \in Workers /\ n \in DOMAIN Queue
  BY <1>3 DEF Workers
<1>7. /\ \A i \in DOMAIN Queue' : Queue'[i] = Queue[f[i]]
      /\ \A i, j \in DOMAIN Queue' : f[i] = f[j] => i = j
      /\ \A j \in DOMAIN Queue \ {n} : \E i \in DOMAIN Queue' : f[i] = j
  BY <1>2, <1>3, <1>4
<1>8. TakesEntry(Owner, n, f)
  BY <1>1, <1>5, <1>6, <1>7 DEF TakesEntry
<1> QED BY <1>8, OnceTake

LEMMA OnceSteal ==
  ASSUME Types, Types', OnceInv, NEW w \in Thieves, Promise!Steal(w)
  PROVE  OnceInv'
<1> DEFINE n == Len(Queue)
           f == [i \in DOMAIN Queue' |-> i + 1]
<1>1. /\ Queue # <<>> /\ Taken[w] = NULL /\ UNCHANGED waiting
      /\ Taken' = [Taken EXCEPT ![w] = Queue[1]]
      /\ Queue' = Tail(Queue)
  BY DEF Promise!Steal, Promise!Takes
<1>2. /\ n \in Nat \ {0} /\ DOMAIN Queue = 1..n /\ DOMAIN Queue' = 1..(n - 1)
      /\ \A i \in 1..(n - 1) : Queue'[i] = Queue[i + 1]
  BY <1>1 DEF Types
<1> HIDE DEF n
<1>3. 1 \in DOMAIN Queue /\ w \in Workers
  BY <1>2 DEF Workers
<1>4. /\ f \in [DOMAIN Queue' -> DOMAIN Queue \ {1}]
      /\ \A i \in DOMAIN Queue' : f[i] = i + 1
  BY <1>2
<1> HIDE DEF f
<1>5. /\ \A i \in DOMAIN Queue' : Queue'[i] = Queue[f[i]]
      /\ \A i, j \in DOMAIN Queue' : f[i] = f[j] => i = j
  BY <1>2, <1>4
<1>6. ASSUME NEW j \in DOMAIN Queue \ {1}
      PROVE  \E i \in DOMAIN Queue' : f[i] = j
  <2>1. j - 1 \in DOMAIN Queue' /\ (j - 1) + 1 = j
    BY <1>2
  <2> QED BY <1>4, <2>1
<1>7. TakesEntry(w, 1, f)
  BY <1>1, <1>3, <1>4, <1>5, <1>6 DEF TakesEntry
<1> QED BY <1>7, OnceTake

LEMMA OnceStep ==
  ASSUME Types, Types', OnceInv, Stutters \/ Promise!Next
  PROVE  OnceInv'
<1>1. CASE Stutters
  BY <1>1, Zenon DEF Stutters, OnceInv
<1>2. CASE \E x \in Tasks : Promise!Push(x)
  BY <1>2, OncePush
<1>3. CASE Promise!Pop
  BY <1>3, OncePop
<1>4. CASE \E w \in Thieves : Promise!Steal(w)
  BY <1>4, OnceSteal
<1>5. CASE Promise!RunOther
  <2>1. PICK x \in waiting : /\ Taken[Owner] = NULL /\ Taken' = [Taken EXCEPT ![Owner] = x]
                             /\ waiting' = waiting \ {x} /\ Queue' = Queue
    BY <1>5 DEF Promise!RunOther, Promise!Takes
  <2>2. /\ \A w \in Workers : Taken'[w] = IF w = Owner THEN x ELSE Taken[w]
        /\ Owner \in Workers /\ x \in Tasks /\ NULL \notin Tasks /\ waiting \subseteq Tasks
    BY <2>1, NullAssumption DEF Types, Workers
  <2> QED BY <2>1, <2>2 DEF OnceInv
<1>6. CASE \E w \in Workers : Promise!EndTask(w)
  <2>1. PICK w \in Workers : /\ Taken[w] # NULL /\ Taken' = [Taken EXCEPT ![w] = NULL]
                             /\ waiting' = waiting \union {Taken[w]} /\ Queue' = Queue
    BY <1>6 DEF Promise!EndTask
  <2>2. /\ \A v \in Workers : Taken'[v] = IF v = w THEN NULL ELSE Taken[v]
        /\ NULL \notin Tasks /\ waiting \subseteq Tasks /\ Taken[w] \in Tasks
        /\ \A i \in DOMAIN Queue : Queue[i] \in Tasks
    BY <2>1, NullAssumption DEF Types
  <2> QED BY <2>1, <2>2 DEF OnceInv
<1> QED BY <1>1, <1>2, <1>3, <1>4, <1>5, <1>6 DEF Promise!Next, Promise!Workers, Workers

-----------------------------------------------------------------------------
(* The theorems.                                                           *)

LEMMA UnchangedStep ==
  ASSUME CoreInv, UNCHANGED vars
  PROVE  CoreInv' /\ Stutters
<1>1. UNCHANGED <<top, memory, pending, local, loaded, running, waiting, released, failed>>
  BY DEF vars
<1>2. Bottom' = Bottom
  BY <1>1, SameView DEF Bottom
<1>3. /\ QueueInv' /\ ViewInv' /\ Queue' = Queue /\ Own' = Own
      /\ (\A i : At(Own, i)' = At(Own, i)) /\ \A i, k : Settled(i, k)' <=> Settled(i, k)
  BY <1>1, <1>2, SameMemory
<1>4. TypeInv' /\ StartInv'
  BY <1>1 DEF CoreInv, TypeInv, StartInv
<1>5. OwnerInv'
  BY <1>1, OwnerKept DEF CoreInv
<1>6. ThiefInv' /\ LoadedInv'
  BY <1>1, <1>2, <1>3, ThievesKept, LoadedKept
<1>7. Taken' = Taken
  BY <1>1, SameTaken
<1> QED BY <1>1, <1>3, <1>4, <1>5, <1>6, <1>7 DEF CoreInv, Stutters

\* Every step that does not disturb it keeps the invariant, and is a step of the promise or
\* none.
LEMMA CoreStep ==
  ASSUME CoreInv, undisturbed', [Next]_vars
  PROVE  CoreInv' /\ (Stutters \/ Promise!Next)
<1>1. ASSUME Owns PROVE CoreInv' /\ (Stutters \/ Promise!Next)
  <2>1. Owner \in Workers
    BY DEF Workers
  <2> QED BY <1>1, <2>1, PushStep, GrowStep, PutStep, PublishStep, PopBottomStep, PopTopStep,
             PopExchangeStep, ResetBottomStep, ReleaseStep, RunOtherStep, EndTaskStep
          DEF Owns
<1>2. ASSUME NEW w \in Thieves, Steals(w) PROVE CoreInv' /\ (Stutters \/ Promise!Next)
  <2>1. w \in Workers
    BY DEF Workers
  <2> QED BY <1>2, <2>1, StealTopStep, StealBottomStep, LoadStep, StealTaskStep,
             StealExchangeStep, EndTaskStep
          DEF Steals
<1> QED BY <1>1, <1>2, FlushStep, UnchangedStep DEF Next

LEMMA InitInv ==
  ASSUME Init
  PROVE  IInv /\ Promise!Init
<1> DEFINE n == 2^LogSize
<1>1. PICK g \in Garbage : memory = InitDeque(g)
  BY DEF Init
<1>2. /\ n \in Nat \ {0} /\ Owner \in Workers /\ Thieves \subseteq Workers
      /\ top = 0 /\ pending = <<>> /\ waiting = Tasks /\ released = FALSE /\ failed = FALSE
      /\ local = [w \in Workers |-> NoCall]
      /\ loaded = [w \in Thieves |-> NotLoaded]
      /\ running = [w \in Workers |-> NULL]
      /\ Own = memory
  BY SizeAssumption DEF Init, Own, Workers
<1>3. /\ memory.bottom = 0 /\ memory.size = n /\ memory.segment \in Array(n)
      /\ memory \in Deque
  <2> DEFINE s == [i \in 0..(n - 1) |-> g]
  <2>1. memory = [bottom |-> 0, size |-> n, array |-> 1, segment |-> s]
    BY <1>1 DEF InitDeque
  <2>2. s \in Array(n)
    BY DEF Array, Values
  <2> HIDE DEF s, n
  <2>3. s \in Segments
    BY <1>2, <2>2 DEF Segments
  <2> QED BY <1>2, <2>1, <2>2, <2>3 DEF Deque
<1> HIDE DEF n
<1>4. \A w \in Workers : local[w] = NoCall /\ local[w].pc = "idle" /\ running[w] = NULL
  BY <1>2, IdleCall
<1>5. Bottom = 0
  BY <1>2, <1>3, <1>4 DEF Bottom
<1>6. TypeInv
  <2>1. pending \in Seq(Deque) /\ waiting \in SUBSET Tasks /\ top \in Nat
    BY <1>2, EmptySeq
  <2>2. /\ local \in [Workers -> Call]
        /\ running \in [Workers -> Tasks \union {NULL}]
    BY <1>2, IdleCall
  <2>3. loaded \in [Thieves -> Loads]
    BY <1>2 DEF NotLoaded, Loads
  <2> QED BY <1>2, <1>3, <2>1, <2>2, <2>3 DEF TypeInv
<1>7. QueueInv
  <2>1. top..(Bottom - 1) = {}
    BY <1>2, <1>5
  <2> QED BY <1>2, <1>3, <1>5, <2>1 DEF QueueInv
<1>8. OwnerInv /\ StartInv /\ ViewInv
  BY <1>2, <1>4 DEF OwnerInv, OwnerPcs, StartInv, ViewInv
<1>9. ThiefInv
  BY <1>2, <1>4 DEF ThiefInv, ThiefPcs
<1>10. LoadedInv
  BY <1>2 DEF LoadedInv, NotLoaded
<1>11. Queue = <<>>
  <2>1. Queue \in Seq(Tasks) /\ Len(Queue) = 0
    BY <1>2, <1>5, <1>6, <1>7, QueueIs
  <2> QED BY <2>1, EmptySeq
<1>12. Taken = running
  BY <1>2, <1>4, <1>6, TakenNow
<1>13. OnceInv
  <2>1. DOMAIN Queue = {}
    BY <1>11
  <2> QED BY <1>2, <1>4, <1>12, <2>1, NullAssumption DEF OnceInv
<1>14. Promise!Init
  BY <1>2, <1>11, <1>12 DEF Promise!Init, Promise!Workers, Workers
<1> QED BY <1>6, <1>7, <1>8, <1>9, <1>10, <1>13, <1>14 DEF IInv, CoreInv

\* What has disturbed the deque stays known.
LEMMA DisturbedStays ==
  ASSUME undisturbed', [Next]_vars
  PROVE  undisturbed
<1>1. disturbed \subseteq disturbed'
  BY DEF Next, Owns, Steals, vars, taskVars, restVars, Flush, PushBottom, GrowCircularArray,
     PutTaskIntoArray, Publish, PopBottom, PopTop, PopExchange, ResetBottom, ReleaseThreads,
     RunOther, EndTask, StealTop, StealBottom, LoadSize, LoadSegment, StealTask, StealExchange
<1> QED BY <1>1 DEF undisturbed

\* The invariant of the algorithm, and what it implies of each step.
LEMMA Invariant ==
  Spec => /\ Promise!Init /\ [](undisturbed => IInv)
          /\ [][undisturbed' => Promise!Next]_Promise!vars
<1> DEFINE I == undisturbed => IInv
           A == undisturbed' => Promise!Next
<1>1. Init => I /\ Promise!Init
  BY InitInv
<1>2. I /\ [Next]_vars => I' /\ [A]_Promise!vars
  <2>1. SUFFICES ASSUME I, [Next]_vars, undisturbed'
                 PROVE  IInv' /\ (Promise!Next \/ UNCHANGED Promise!vars)
    OBVIOUS
  <2>2. CoreInv /\ OnceInv
    BY <2>1, DisturbedStays DEF IInv
  <2>3. CoreInv' /\ (Stutters \/ Promise!Next)
    BY <2>1, <2>2, CoreStep
  <2>4. OnceInv'
    BY <2>2, <2>3, CoreTypes, CoreTypesNext, OnceStep
  <2>5. Stutters => UNCHANGED Promise!vars
    BY DEF Stutters, Promise!vars
  <2> QED BY <2>3, <2>4, <2>5 DEF IInv
<1> HIDE DEF I, A
<1>3. Spec => []I /\ Promise!Init /\ [][A]_Promise!vars
  BY <1>1, <1>2, PTL DEF Spec
<1> QED BY <1>3 DEF I, A

\* Whatever the interleaving of the owner, the thieves and the store buffer, each step of
\* the algorithm (worksteal.cpp) is a step of a deque from which tasks are taken whole, or
\* none: no task is lost, and none goes to two workers.  It ends when a pop takes a task
\* before its store of bottom is seen, or the array grows under the workers.
THEOREM DequeKeepsPromise == Spec => KeepsPromise
<1>1. Spec => Promise!Init /\ [][undisturbed' => Promise!Next]_Promise!vars
  BY Invariant, PTL
<1> QED BY <1>1 DEF KeepsPromise

\* Until then popBottom finds a task or the deque is empty, and the assertion of
\* GetNextTask (threadpool.cpp:207) holds.
THEOREM PopAnswersAlways == Spec => []PopAnswers
<1>1. (undisturbed => IInv) => PopAnswers
  <2> SUFFICES ASSUME IInv PROVE ~failed /\ (Goes(Owner, "lost") => Queue = <<>>)
    BY DEF PopAnswers
  <2>1. ~failed
    BY DEF IInv, CoreInv, OwnerInv
  <2>2. ASSUME Goes(Owner, "lost") PROVE Queue = <<>>
    <3>1. top = Own.bottom + 1 /\ local[Owner].pc = "lost"
      BY <2>2 DEF Goes, IInv, CoreInv, OwnerInv
    <3>2. Bottom = top /\ top \in Nat
      BY <3>1 DEF Bottom, IInv, CoreInv, TypeInv
    <3>3. Queue \in Seq(Tasks) /\ Len(Queue) = 0
      BY <3>2, QueueIs DEF IInv, CoreInv
    <3> QED BY <3>3, EmptySeq
  <2> QED BY <2>1, <2>2
<1> QED BY <1>1, Invariant, PTL

\* And until then each task is in one place at every moment: it waits, or is one entry of
\* the queue, or one worker has it.
THEOREM OncePlaced == Spec => [](undisturbed => OnceInv)
<1>1. (undisturbed => IInv) => (undisturbed => OnceInv)
  BY DEF IInv
<1> QED BY <1>1, Invariant, PTL
=============================================================================

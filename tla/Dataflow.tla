------------------------------ MODULE Dataflow ------------------------------
(***************************************************************************)
(* The ADF runtime as the buffers of tokens see it: buffer.cpp, the        *)
(* running of a task (taskqueue.cpp) and PassToken (adf.cpp).  Of the      *)
(* schedulers there is only what they promise: a task that is ready is     *)
(* run by some thread, once.  Modules TestScheduler and ThreadPool are the *)
(* two schedulers, which implement this one.                               *)
(*                                                                         *)
(* Each buffer has a spin lock: what is done under it is one step, what is *)
(* done after it is another.  A token is the number it has among those     *)
(* passed to its buffer.                                                   *)
(***************************************************************************)
EXTENDS TaskSystem

CONSTANTS
  Threads,
  Scheduler    (* "taskPerThread" or "threadPool": the build               *)

VARIABLES
  tokens,          (* token_buffer_t: the tokens in each buffer            *)
  wait_queue,      (* token_buffer_t: the tasks that wait for one          *)
  token_list,      (* task_t: the tokens a task has                        *)
  current_buffer,  (* task_t: index of the buffer whose token it needs     *)
  status,          (* task_t                                               *)
  stop,            (* task_t                                               *)
  ready,           (* the tasks that the scheduler has to run              *)
  runs,            (* which run of its code a task is to make next         *)
  pc,              (* where each thread is                                 *)
  own,             (* the task it runs                                     *)
  left,            (* the buffers it has still to pass tokens to           *)
  got,             (* the task it is collecting tokens for                 *)
  tok,             (* the token it has for that task                       *)
  passed,          (* history: how many tokens were passed to a buffer     *)
  used,            (* history: the tokens freed after a run                *)
  dropped          (* history: the tokens that a full buffer lost          *)

bufferVars == <<tokens, wait_queue>>
taskVars   == <<token_list, current_buffer, status, stop, runs>>
threadVars == <<pc, own, left, got, tok>>
history    == <<passed, used, dropped>>
vars       == <<bufferVars, taskVars, ready, threadVars, history>>

\* CreateTask has been called for all tasks.
Init ==
  /\ tokens = [b \in Buffers |-> <<>>]
  /\ wait_queue = Created
  /\ token_list = [t \in Tasks |-> <<>>]
  /\ current_buffer = [t \in Tasks |-> 1]
  /\ status = [t \in Tasks |-> IF BufferList[t] = <<>> THEN "ready" ELSE "waiting"]
  /\ stop = [t \in Tasks |-> FALSE]
  /\ ready = {t \in Tasks : BufferList[t] = <<>>}
  /\ runs = [t \in Tasks |-> 1]
  /\ pc = [th \in Threads |-> "idle"]
  /\ own = [th \in Threads |-> NULL]
  /\ left = [th \in Threads |-> <<>>]
  /\ got = [th \in Threads |-> NULL]
  /\ tok = [th \in Threads |-> 0]
  /\ passed = [b \in Buffers |-> 0]
  /\ used = [b \in Buffers |-> {}]
  /\ dropped = [b \in Buffers |-> {}]

-----------------------------------------------------------------------------
(* RunTask.                                                                *)

\* Task t is run on a thread; the test scheduler leaves its status.
Run(th, t) ==
  /\ pc[th] = "idle"
  /\ \E c \in Code[t][runs[t]] :
       /\ left' = [left EXCEPT ![th] = c.passes]
       /\ stop' = [stop EXCEPT ![t] = c.stop]
  /\ runs' = [runs EXCEPT ![t] = IF @ < Len(Code[t]) THEN @ + 1 ELSE @]
  /\ ready' = ready \ {t}
  /\ status' = IF Scheduler = "threadPool" THEN [status EXCEPT ![t] = "running"]
               ELSE status
  /\ own' = [own EXCEPT ![th] = t]
  /\ pc' = [pc EXCEPT ![th] = "body"]
  /\ UNCHANGED <<bufferVars, token_list, current_buffer, got, tok, history>>

\* What a scheduler promises: it runs a task that is ready, and the test scheduler only
\* when no other runs.
Begin(th, t) ==
  /\ t \in ready
  /\ Scheduler = "taskPerThread" => \A o \in Threads : own[o] = NULL
  /\ Run(th, t)

\* The body of the task returns: its tokens are freed; it waits for the next ones
\* unless it was stopped.
Return(th) ==
  /\ pc[th] = "body" /\ left[th] = <<>>
  /\ LET t == own[th] IN
     /\ used' = [b \in Buffers |-> used[b] \union
           {token_list[t][j] : j \in {i \in DOMAIN token_list[t] : BufferList[t][i] = b}}]
     /\ token_list' = [token_list EXCEPT ![t] = <<>>]
     /\ IF stop[t]
        THEN /\ status' = [status EXCEPT ![t] = "stopped"]
             /\ pc' = [pc EXCEPT ![th] = "retire"]
             /\ UNCHANGED got
        ELSE /\ got' = [got EXCEPT ![th] = t]
             /\ pc' = [pc EXCEPT ![th] = "consume"]
             /\ UNCHANGED status
  /\ UNCHANGED <<bufferVars, current_buffer, stop, runs, ready, own, left, tok,
                 passed, dropped>>

\* The thread is done with its task.
End(th) ==
  /\ pc[th] \in {"retire", "over"}
  /\ pc' = [pc EXCEPT ![th] = "idle"]
  /\ own' = [own EXCEPT ![th] = NULL]
  /\ UNCHANGED <<bufferVars, taskVars, ready, left, got, tok, history>>

-----------------------------------------------------------------------------
(* PassToken2Buffer.                                                       *)

\* Mistake: the bound is one too high.
PutOneTooMany(b, n) ==
  IF Len(tokens[b]) > Capacity
  THEN /\ dropped' = [dropped EXCEPT ![b] = @ \union {n}]
       /\ UNCHANGED tokens
  ELSE /\ tokens' = [tokens EXCEPT ![b] = Append(@, n)]
       /\ UNCHANGED dropped

\* Mistake: the token is linked before the others.
PutAtHead(b, n) ==
  IF Len(tokens[b]) = Capacity
  THEN /\ dropped' = [dropped EXCEPT ![b] = @ \union {n}]
       /\ UNCHANGED tokens
  ELSE /\ tokens' = [tokens EXCEPT ![b] = <<n>> \o @]
       /\ UNCHANGED dropped

\* A full buffer drops the token with a message.
PutToken(b, n) ==
  IF Len(tokens[b]) = Capacity
  THEN /\ dropped' = [dropped EXCEPT ![b] = @ \union {n}]
       /\ UNCHANGED tokens
  ELSE /\ tokens' = [tokens EXCEPT ![b] = Append(@, n)]
       /\ UNCHANGED dropped

\* Mistake: the queue is not looked at.
DepositUnseen(th) ==
  /\ pc[th] = "body" /\ left[th] # <<>>
  /\ LET b == Head(left[th]) IN
     /\ PutToken(b, passed[b] + 1)
     /\ passed' = [passed EXCEPT ![b] = @ + 1]
  /\ left' = [left EXCEPT ![th] = Tail(@)]
  /\ UNCHANGED <<wait_queue, taskVars, ready, pc, own, got, tok, used>>

\* Under the lock of the buffer: no task waits, so the token is put there.
Deposit(th) ==
  /\ pc[th] = "body" /\ left[th] # <<>>
  /\ LET b == Head(left[th]) IN
     /\ wait_queue[b] = <<>>
     /\ PutToken(b, passed[b] + 1)
     /\ passed' = [passed EXCEPT ![b] = @ + 1]
  /\ left' = [left EXCEPT ![th] = Tail(@)]
  /\ UNCHANGED <<wait_queue, taskVars, ready, pc, own, got, tok, used>>

\* Under the lock of the buffer: a task that waits is taken from the queue.
Dequeue(th) ==
  /\ pc[th] = "body" /\ left[th] # <<>>
  /\ LET b == Head(left[th]) IN
     /\ wait_queue[b] # <<>>
     /\ wait_queue' = [wait_queue EXCEPT ![b] = Tail(@)]
     /\ got' = [got EXCEPT ![th] = Head(wait_queue[b])]
     /\ tok' = [tok EXCEPT ![th] = passed[b] + 1]
     /\ passed' = [passed EXCEPT ![b] = @ + 1]
  /\ left' = [left EXCEPT ![th] = Tail(@)]
  /\ pc' = [pc EXCEPT ![th] = "give"]
  /\ UNCHANGED <<tokens, taskVars, ready, own, used, dropped>>

\* With no lock held, the task gets the token.
Give(th) ==
  /\ pc[th] = "give"
  /\ token_list' = [token_list EXCEPT ![got[th]] = Append(@, tok[th])]
  /\ current_buffer' = [current_buffer EXCEPT ![got[th]] = @ + 1]
  /\ pc' = [pc EXCEPT ![th] = "consume"]
  /\ UNCHANGED <<bufferVars, status, stop, runs, ready, own, left, got, tok, history>>

-----------------------------------------------------------------------------
(* ConsumeTokens.                                                          *)

\* The task needs a token of buffer b.
Needs(th, b) ==
  /\ pc[th] = "consume"
  /\ current_buffer[got[th]] <= Len(BufferList[got[th]])
  /\ b = BufferList[got[th]][current_buffer[got[th]]]

GetToken(th) ==
  \E b \in Buffers :
    /\ Needs(th, b)
    /\ tokens[b] # <<>>
    /\ tokens' = [tokens EXCEPT ![b] = Tail(@)]
    /\ token_list' = [token_list EXCEPT ![got[th]] = Append(@, Head(tokens[b]))]
    /\ current_buffer' = [current_buffer EXCEPT ![got[th]] = @ + 1]
    /\ UNCHANGED <<wait_queue, status, stop, runs, ready, threadVars, history>>

\* Mistake: the loop goes on after the task was queued.
EnqueueAndGoOn(th) ==
  \E b \in Buffers :
    /\ Needs(th, b)
    /\ tokens[b] = <<>>
    /\ Len(wait_queue[b]) < Cardinality(Tasks)
    /\ wait_queue' = [wait_queue EXCEPT ![b] = Append(@, got[th])]
    /\ status' = [status EXCEPT ![got[th]] = "waiting"]
    /\ UNCHANGED <<tokens, token_list, current_buffer, stop, runs, ready, threadVars, history>>

EnqueueTask(th) ==
  \E b \in Buffers :
    /\ Needs(th, b)
    /\ tokens[b] = <<>>
    /\ wait_queue' = [wait_queue EXCEPT ![b] = Append(@, got[th])]
    /\ status' = [status EXCEPT ![got[th]] = "waiting"]
    /\ pc' = [pc EXCEPT ![th] = IF got[th] = own[th] THEN "retire" ELSE "body"]
    /\ got' = [got EXCEPT ![th] = NULL]
    /\ UNCHANGED <<tokens, token_list, current_buffer, stop, runs, ready, own, left, tok,
                   history>>

\* How the scheduler marks a task that it has to run; the test scheduler has one mark.
ReadyMarks == IF Scheduler = "threadPool" THEN {"ready", "queued"} ELSE {"ready"}

\* All tokens are there: the task goes to the scheduler.
Enable(th) ==
  /\ pc[th] = "consume"
  /\ current_buffer[got[th]] > Len(BufferList[got[th]])
  /\ current_buffer' = [current_buffer EXCEPT ![got[th]] = 1]
  /\ \E mark \in ReadyMarks : status' = [status EXCEPT ![got[th]] = mark]
  /\ ready' = ready \union {got[th]}
  /\ pc' = [pc EXCEPT ![th] = IF got[th] = own[th] THEN "over" ELSE "body"]
  /\ got' = [got EXCEPT ![th] = NULL]
  /\ UNCHANGED <<bufferVars, token_list, stop, runs, own, left, tok, history>>

\* The scheduler marks a task anew.
Mark(t) ==
  /\ t \in ready
  /\ \E mark \in ReadyMarks : status' = [status EXCEPT ![t] = mark]
  /\ UNCHANGED <<bufferVars, token_list, current_buffer, stop, runs, ready, threadVars, history>>

-----------------------------------------------------------------------------
\* What a thread does once it has a task, as far as the scheduler has no part in it.
Proceed(th) ==
  Return(th) \/ Deposit(th) \/ Dequeue(th) \/ Give(th) \/ GetToken(th) \/ EnqueueTask(th)

Next ==
  \/ \E th \in Threads : \/ \E t \in Tasks : Begin(th, t)
                         \/ Proceed(th) \/ Enable(th) \/ End(th)
  \/ \E t \in Tasks : Mark(t)

Spec == Init /\ [][Next]_vars

-----------------------------------------------------------------------------
(* Properties.                                                             *)

\* Every variable has its type.
TypeOK ==
  /\ tokens \in [Buffers -> Seq(Nat)]
  /\ \A b \in Buffers : Len(tokens[b]) <= Capacity
  /\ wait_queue \in [Buffers -> Seq(Tasks)]
  /\ token_list \in [Tasks -> Seq(Nat)]
  /\ \A t \in Tasks : Len(token_list[t]) <= Len(BufferList[t])
  /\ current_buffer \in [Tasks -> Nat \ {0}]
  /\ status \in [Tasks -> {"waiting", "ready", "queued", "running", "stopped"}]
  /\ stop \in [Tasks -> BOOLEAN]
  /\ ready \subseteq Tasks
  /\ runs \in [Tasks -> Nat \ {0}]
  /\ \A t \in Tasks : runs[t] <= Len(Code[t])
  /\ pc \in [Threads -> {"idle", "body", "give", "consume", "retire", "over"}]
  /\ own \in [Threads -> Tasks \union {NULL}]
  /\ left \in [Threads -> Seq(Buffers)]
  /\ got \in [Threads -> Tasks \union {NULL}]
  /\ tok \in [Threads -> Nat]
  /\ passed \in [Buffers -> Nat]
  /\ used \in [Buffers -> SUBSET Nat]
  /\ dropped \in [Buffers -> SUBSET Nat]

\* No task sleeps through its token: the look into the buffer and the queueing of the
\* task, and the look into the queue and the putting of the token, never cross
\* (buffer.h:70).
NoneWaitsBesideTokens ==
  \A b \in Buffers : wait_queue[b] = <<>> \/ tokens[b] = <<>>

\* Where a task may be: waiting at a buffer, in the hands of the thread that runs it
\* or collects its tokens, or with the scheduler.
WaitsAt(t) ==
  {p \in UNION {{b} \X (DOMAIN wait_queue[b]) : b \in Buffers} : wait_queue[p[1]][p[2]] = t}
HeldBy(t) ==
  {th \in Threads : pc[th] \in {"body", "give", "consume"} /\ t \in {own[th], got[th]}}

\* Whatever the threads do at the same time, no task gets lost and none is in two
\* hands, to be run twice or with the tokens of two runs, until it is stopped.
TasksInOnePlace ==
  \A t \in Tasks :
    Cardinality(WaitsAt(t)) + Cardinality(HeldBy(t)) + Cardinality(ready \intersect {t})
      = IF status[t] = "stopped" THEN 0 ELSE 1

\* The tokens of buffer b that tasks have, that threads hand on, and all that left it.
InLists(b) ==
  {p \in UNION {{t} \X (DOMAIN token_list[t]) : t \in Tasks} : BufferList[p[1]][p[2]] = b}
InHands(b) ==
  {th \in Threads : pc[th] = "give" /\ BufferList[got[th]][current_buffer[got[th]]] = b}
TakenFrom(b) ==
  used[b] \union {token_list[p[1]][p[2]] : p \in InLists(b)} \union {tok[th] : th \in InHands(b)}

\* Tokens are neither lost nor used twice, except by the overflow of a buffer, and
\* those of one buffer are taken in the order in which they were passed.
TokensConserved ==
  \A b \in Buffers :
    LET here == {tokens[b][i] : i \in DOMAIN tokens[b]} IN
    /\ 1..passed[b] = here \union TakenFrom(b) \union dropped[b]
    /\ \A i, j \in DOMAIN tokens[b] : i < j => tokens[b][i] < tokens[b][j]
    /\ \A n \in here, m \in TakenFrom(b) : m < n
    /\ passed[b] = Len(tokens[b]) + Cardinality(used[b]) + Cardinality(InLists(b))
                     + Cardinality(InHands(b)) + Cardinality(dropped[b])

\* With one task at a time, a run has tokens that were passed together: the first of
\* each buffer, the second of each, and so on, although several instances take them
\* (buffer.cpp:180: "I am not sure if this matches the tokens correctly").
TokensMatched ==
  Scheduler = "taskPerThread" /\ (\A b \in Buffers : dropped[b] = {}) =>
    \A t \in Tasks : \A i, j \in DOMAIN token_list[t] :
      token_list[t][i] = token_list[t][j]
=============================================================================

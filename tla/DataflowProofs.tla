--------------------------- MODULE DataflowProofs ---------------------------
(***************************************************************************)
(* Theorems about module Dataflow, for every program, any number of        *)
(* threads and both builds.                                                *)
(***************************************************************************)
EXTENDS Dataflow, SequenceTheorems, FunctionTheorems, FiniteSetTheorems, TLAPS

-----------------------------------------------------------------------------
(* The inductive invariant.                                                *)

Queue(b) == 1..Len(wait_queue[b])

\* Thread th has task t in its hands.
Holds(th, t) == pc[th] \in {"body", "give", "consume"} /\ t \in {own[th], got[th]}

TypeInv ==
  /\ tokens \in [Buffers -> Seq(Nat)]
  /\ \A b \in Buffers : Len(tokens[b]) <= Capacity
  /\ wait_queue \in [Buffers -> Seq(Tasks)]
  /\ token_list \in [Tasks -> Seq(Nat)]
  /\ current_buffer \in [Tasks -> Nat \ {0}]
  /\ status \in [Tasks -> {"waiting", "ready", "queued", "running", "stopped"}]
  /\ stop \in [Tasks -> BOOLEAN]
  /\ ready \subseteq Tasks
  /\ runs \in [Tasks -> Nat \ {0}]
  /\ \A t \in Tasks : runs[t] <= Len(Code[t])
  /\ pc \in [Threads -> {"idle", "body", "give", "consume", "retire", "over"}]
  /\ own \in [Threads -> Tasks \union {NULL}]
  /\ left \in [Threads -> Seq(Buffers)]
  /\ got \in [Threads -> Tasks \union {NULL}]
  /\ tok \in [Threads -> Nat]
  /\ passed \in [Buffers -> Nat]
  /\ used \in [Buffers -> SUBSET Nat]
  /\ dropped \in [Buffers -> SUBSET Nat]

ThreadInv ==
  \A th \in Threads : /\ own[th] = NULL <=> pc[th] = "idle"
                      /\ got[th] = NULL <=> pc[th] \notin {"give", "consume"}
                      /\ pc[th] = "give" => got[th] # own[th]

\* A task is in one place.
PlaceInv ==
  /\ \A th, u \in Threads, t \in Tasks : Holds(th, t) /\ Holds(u, t) => th = u
  /\ \A th \in Threads, t \in ready : ~Holds(th, t)
  /\ \A b \in Buffers : \A i \in Queue(b) : wait_queue[b][i] \notin ready
  /\ \A b \in Buffers, th \in Threads : \A i \in Queue(b) : ~Holds(th, wait_queue[b][i])
  /\ \A b, c \in Buffers : \A i \in Queue(b), j \in Queue(c) :
       wait_queue[b][i] = wait_queue[c][j] => b = c /\ i = j

\* It is somewhere until it is stopped.
Somewhere(t) ==
  \/ t \in ready
  \/ \E th \in Threads : Holds(th, t)
  \/ \E b \in Buffers : \E i \in Queue(b) : wait_queue[b][i] = t
LiveInv == \A t \in Tasks : status[t] = "stopped" <=> ~Somewhere(t)

\* How many tokens a task has is told by its place.
Full(t)    == Len(token_list[t]) = Len(BufferList[t]) /\ current_buffer[t] = 1
Partial(t) == /\ current_buffer[t] = Len(token_list[t]) + 1
              /\ Len(token_list[t]) <= Len(BufferList[t])
Lacks(t)   == Partial(t) /\ Len(token_list[t]) < Len(BufferList[t])
TokenInv ==
  /\ \A t \in Tasks : Len(token_list[t]) <= Len(BufferList[t])
  /\ \A t \in Tasks : status[t] = "stopped" => token_list[t] = <<>>
  /\ \A t \in ready : Full(t)
  /\ \A th \in Threads :
       /\ pc[th] \in {"body", "give", "consume"} /\ own[th] # got[th] => Full(own[th])
       /\ pc[th] = "consume" => Partial(got[th])
       /\ pc[th] = "give" => Lacks(got[th])
  /\ \A b \in Buffers : \A i \in Queue(b) :
       /\ Lacks(wait_queue[b][i])
       /\ BufferList[wait_queue[b][i]][current_buffer[wait_queue[b][i]]] = b

\* A task in a queue says so.
WaitInv == \A b \in Buffers : \A i \in Queue(b) : status[wait_queue[b][i]] = "waiting"

IInv ==
  /\ TypeInv /\ ThreadInv /\ PlaceInv /\ LiveInv
  /\ TokenInv /\ WaitInv /\ NoneWaitsBesideTokens

-----------------------------------------------------------------------------
(* Sequences.                                                              *)

LEMMA Appended ==
  ASSUME NEW S, NEW s \in Seq(S), NEW e \in S
  PROVE  /\ Append(s, e) \in Seq(S)
         /\ Len(Append(s, e)) = Len(s) + 1
         /\ \A i \in 1..Len(s) : Append(s, e)[i] = s[i]
         /\ Append(s, e)[Len(s) + 1] = e
  OBVIOUS

LEMMA Emptied ==
  ASSUME NEW S, NEW s \in Seq(S)
  PROVE  /\ s = <<>> <=> Len(s) = 0
         /\ Len(s) \in Nat
         /\ DOMAIN s = 1..Len(s)
         /\ \A i \in 1..Len(s) : s[i] \in S
  OBVIOUS

-----------------------------------------------------------------------------
LEMMA InitInv == Init => IInv
<1> SUFFICES ASSUME Init PROVE IInv
  OBVIOUS
<1>1. \A b \in Buffers : Created[b] \in Seq(Tasks)
  BY CreatedAssumption
<1>2. \A t \in Tasks : BufferList[t] \in Seq(Buffers)
  BY BufferListAssumption
<1>3. \A b \in Buffers : \A i \in 1..Len(Created[b]) :
        BufferList[Created[b][i]] # <<>> /\ BufferList[Created[b][i]][1] = b
  BY <1>1, CreatedAssumption, Emptied
<1>4. \A b \in Buffers : \A i, j \in 1..Len(Created[b]) : Created[b][i] = Created[b][j] => i = j
  BY <1>1, CreatedAssumption
<1>5. TypeInv
  BY <1>1, CreatedAssumption, CapacityAssumption, CodeAssumption DEF Init, TypeInv
<1>6. ThreadInv
  BY NullAssumption DEF Init, ThreadInv
<1>7. \A th \in Threads, t \in Tasks : ~Holds(th, t)
  BY DEF Init, Holds
<1>8. PlaceInv
  <2>1. \A b \in Buffers : Queue(b) = 1..Len(Created[b]) /\ wait_queue[b] = Created[b]
    BY DEF Init, Queue
  <2>2. \A b \in Buffers : \A i \in Queue(b) : wait_queue[b][i] \in Tasks
    BY <2>1, <1>1, Emptied
  <2>3. \A b \in Buffers : \A i \in Queue(b) :
           BufferList[wait_queue[b][i]] # <<>> /\ BufferList[wait_queue[b][i]][1] = b
    BY <2>1, <1>3
  <2>4. \A b \in Buffers : \A i \in Queue(b) : wait_queue[b][i] \notin ready
    BY <2>3 DEF Init
  <2>5. \A b \in Buffers, th \in Threads : \A i \in Queue(b) : ~Holds(th, wait_queue[b][i])
    BY <2>2, <1>7
  <2>6. \A b, c \in Buffers : \A i \in Queue(b), j \in Queue(c) :
           wait_queue[b][i] = wait_queue[c][j] => b = c /\ i = j
    BY <2>1, <2>3, <1>4
  <2>7. ready \subseteq Tasks
    BY DEF Init
  <2> QED BY <1>7, <2>4, <2>5, <2>6, <2>7 DEF PlaceInv
<1>9. LiveInv
  <2> SUFFICES ASSUME NEW t \in Tasks PROVE Somewhere(t) /\ status[t] # "stopped"
    BY DEF LiveInv
  <2>1. CASE BufferList[t] = <<>>
    BY <2>1 DEF Init, Somewhere
  <2>2. CASE BufferList[t] # <<>>
    <3>1. BufferList[t][1] \in Buffers
      BY <2>2, <1>2, Emptied
    <3>2. PICK i \in DOMAIN Created[BufferList[t][1]] : Created[BufferList[t][1]][i] = t
      BY <3>1, <2>2, CreatedAssumption
    <3>3. i \in Queue(BufferList[t][1])
      BY <3>1, <3>2, <1>1, Emptied DEF Queue, Init
    <3> QED BY <2>2, <3>1, <3>2, <3>3 DEF Init, Somewhere
  <2> QED BY <2>1, <2>2
<1>10. TokenInv
  <2>1. \A t \in Tasks : Len(BufferList[t]) \in Nat /\ (BufferList[t] # <<>> => Len(BufferList[t]) > 0)
    BY <1>2, Emptied
  <2>2. \A t \in Tasks : BufferList[t] = <<>> => Len(BufferList[t]) = 0
    BY <1>2, Emptied
  <2>3. \A b \in Buffers : \A i \in Queue(b) : wait_queue[b][i] \in Tasks
    BY <1>1, Emptied DEF Init, Queue
  <2>4. \A th \in Threads : pc[th] = "idle"
    BY DEF Init
  <2>5. \A t \in Tasks : token_list[t] = <<>> /\ Len(token_list[t]) = 0 /\ current_buffer[t] = 1
    BY DEF Init
  <2>6. \A t \in ready : Full(t)
    BY <2>2, <2>5 DEF Init, Full
  <2>7. \A b \in Buffers : \A i \in Queue(b) :
           BufferList[wait_queue[b][i]] # <<>> /\ BufferList[wait_queue[b][i]][1] = b
    BY <1>3 DEF Init, Queue
  <2>8. \A b \in Buffers : \A i \in Queue(b) :
       /\ Lacks(wait_queue[b][i])
       /\ BufferList[wait_queue[b][i]][current_buffer[wait_queue[b][i]]] = b
    BY <2>1, <2>3, <2>5, <2>7 DEF Lacks, Partial
  <2> QED BY <2>1, <2>4, <2>5, <2>6, <2>8 DEF TokenInv
<1>11. NoneWaitsBesideTokens
  BY DEF Init, NoneWaitsBesideTokens
<1>20. WaitInv
  <2>1. \A b \in Buffers : Queue(b) = 1..Len(Created[b]) /\ wait_queue[b] = Created[b]
    BY DEF Init, Queue
  <2>2. \A b \in Buffers : \A i \in 1..Len(Created[b]) : Created[b][i] \in Tasks
    BY <1>1, Emptied
  <2> QED BY <1>3, <2>1, <2>2, SMTT(30) DEF Init, WaitInv
<1> QED BY <1>5, <1>6, <1>8, <1>9, <1>10, <1>11, <1>20 DEF IInv

-----------------------------------------------------------------------------
(* The places of tasks, when one comes or goes.                            *)

\* Neither queues nor the tasks in hands change.
LEMMA PlaceKept ==
  ASSUME PlaceInv, LiveInv, UNCHANGED <<wait_queue, ready>>,
         \A x \in Threads, s \in Tasks : Holds(x, s)' <=> Holds(x, s),
         \A s \in Tasks : status'[s] = "stopped" <=> status[s] = "stopped",
         wait_queue \in [Buffers -> Seq(Tasks)], ready \subseteq Tasks
  PROVE  PlaceInv' /\ LiveInv'
<1>1. \A b \in Buffers : Queue(b)' = Queue(b)
  BY DEF Queue
<1>2. \A b \in Buffers : \A i \in Queue(b) : wait_queue[b][i] \in Tasks
  BY Emptied DEF Queue
<1>3. PlaceInv'
  BY <1>1, <1>2 DEF PlaceInv
<1>4. LiveInv'
  BY <1>1 DEF LiveInv, Somewhere
<1> QED BY <1>3, <1>4

\* What one thread holds is nowhere else.
LEMMA OnlyHolder ==
  ASSUME PlaceInv, NEW th \in Threads, NEW g \in Tasks, Holds(th, g)
  PROVE  /\ g \notin ready
         /\ \A x \in Threads \ {th} : ~Holds(x, g)
         /\ \A x \in Threads \ {th} : pc[x] \in {"body", "give", "consume"} =>
              own[x] # g /\ got[x] # g
         /\ \A b \in Buffers : \A i \in Queue(b) : wait_queue[b][i] # g
  BY DEF PlaceInv, Holds

\* The status of a task that is in no queue may change.
LEMMA WaitKept ==
  ASSUME TypeInv, WaitInv, wait_queue' = wait_queue, NEW t \in Tasks, NEW x,
         status' = [status EXCEPT ![t] = x] \/ status' = status,
         \A b \in Buffers : \A i \in Queue(b) : wait_queue[b][i] # t
  PROVE  WaitInv'
<1>1. \A b \in Buffers : \A i \in Queue(b) : wait_queue[b][i] \in Tasks
  BY Emptied DEF TypeInv, Queue
<1>2. \A s \in Tasks : s # t => status'[s] = status[s]
  BY DEF TypeInv
<1>3. \A b \in Buffers : Queue(b)' = Queue(b)
  BY DEF Queue
<1> QED BY <1>1, <1>2, <1>3 DEF WaitInv

-----------------------------------------------------------------------------
(* The steps.                                                              *)

LEMMA RunKeeps ==
  ASSUME IInv, NEW th \in Threads, NEW t \in ready, Run(th, t)
  PROVE  IInv'
<1>0. /\ TypeInv /\ ThreadInv /\ PlaceInv /\ LiveInv
      /\ TokenInv /\ WaitInv /\ NoneWaitsBesideTokens
  BY DEF IInv
<1>t. t \in Tasks /\ pc[th] = "idle" /\ own[th] = NULL /\ got[th] = NULL
  BY <1>0 DEF TypeInv, ThreadInv, Run
<1>c. PICK c \in Code[t][runs[t]] : /\ left' = [left EXCEPT ![th] = c.passes]
                                   /\ stop' = [stop EXCEPT ![t] = c.stop]
  BY DEF Run
<1>d. c.passes \in Seq(Buffers) /\ c.stop \in BOOLEAN
  <2>1. Code[t] \in Seq(SUBSET Behaviour) /\ runs[t] \in 1..Len(Code[t])
    BY <1>0, <1>t, CodeAssumption, Emptied DEF TypeInv
  <2>2. c \in Behaviour
    BY <2>1, <1>c, Emptied
  <2> QED BY <2>2 DEF Behaviour
<1>h. \A x \in Threads, s \in Tasks : Holds(x, s)' <=> Holds(x, s) \/ (x = th /\ s = t)
  BY <1>0, <1>t, NullAssumption DEF TypeInv, Holds, Run
<1>q. /\ \A b \in Buffers : Queue(b)' = Queue(b) /\ wait_queue' = wait_queue
      /\ \A b \in Buffers : \A i \in Queue(b) : wait_queue[b][i] \in Tasks
  BY <1>0, Emptied DEF TypeInv, Run, Queue, bufferVars
<1>1. TypeInv'
  <2>1. runs' \in [Tasks -> Nat \ {0}] /\ \A s \in Tasks : runs'[s] <= Len(Code[s])
    BY <1>0, <1>t, CodeAssumption, Emptied DEF TypeInv, Run
  <2> QED BY <1>0, <1>t, <1>c, <1>d, <2>1 DEF TypeInv, Run, bufferVars, history
<1>2. ThreadInv'
  BY <1>0, <1>t, NullAssumption DEF TypeInv, ThreadInv, Run
<1>3. PlaceInv'
  <2>1. ready' = ready \ {t} /\ ready \subseteq Tasks
    BY <1>0 DEF Run, TypeInv
  <2>2. \A x, u \in Threads, s \in Tasks : Holds(x, s)' /\ Holds(u, s)' => x = u
    BY <1>0, <1>t, <1>h DEF PlaceInv
  <2>3. \A x \in Threads, s \in ready' : ~Holds(x, s)'
    BY <1>0, <1>h, <2>1 DEF PlaceInv
  <2>4. \A b \in Buffers, x \in Threads : \A i \in Queue(b) : ~Holds(x, wait_queue[b][i])'
    BY <1>0, <1>h, <1>q DEF PlaceInv
  <2> QED BY <1>0, <1>q, <2>1, <2>2, <2>3, <2>4 DEF PlaceInv
<1>4. LiveInv'
  <2>1. \A s \in Tasks : Somewhere(s)' <=> Somewhere(s)
    BY <1>h, <1>q, <1>t DEF Somewhere, Run
  <2>2. \A s \in Tasks : status'[s] = "stopped" <=> status[s] = "stopped"
    BY <1>0, <1>t DEF LiveInv, Somewhere, TypeInv, Run
  <2> QED BY <1>0, <2>1, <2>2 DEF LiveInv
<1>5. TokenInv'
  <2>1. UNCHANGED <<token_list, current_buffer, wait_queue>>
    BY DEF Run, bufferVars
  <2>2. \A s \in Tasks : status'[s] = "stopped" => status[s] = "stopped"
    BY <1>0, <1>t DEF TypeInv, Run
  <2>3. \A x \in Threads : x # th => pc'[x] = pc[x] /\ own'[x] = own[x] /\ got'[x] = got[x]
    BY <1>0 DEF TypeInv, Run
  <2>4. pc'[th] = "body" /\ own'[th] = t /\ Full(t)
    BY <1>0, <1>t DEF TypeInv, TokenInv, Run
  <2>5. \A x \in Threads :
       /\ pc'[x] \in {"body", "give", "consume"} /\ own'[x] # got'[x] => Full(own'[x])
       /\ pc'[x] = "consume" => Partial(got'[x])
       /\ pc'[x] = "give" => Lacks(got'[x])
    BY <1>0, <2>3, <2>4 DEF TokenInv
  <2>6. \A s \in ready' : Full(s)
    BY <1>0 DEF TokenInv, Run
  <2> QED BY <1>0, <1>q, <2>1, <2>2, <2>5, <2>6 DEF TokenInv, Full, Partial, Lacks
<1>6. NoneWaitsBesideTokens'
  BY <1>0 DEF NoneWaitsBesideTokens, Run, bufferVars
<1>20. WaitInv'
  <2>1. wait_queue' = wait_queue /\ (status' = [status EXCEPT ![t] = "running"] \/ status' = status)
    BY DEF Run, bufferVars
  <2>2. \A b \in Buffers : \A i \in Queue(b) : wait_queue[b][i] # t
    BY <1>0 DEF PlaceInv
  <2> QED BY <1>0, <1>t, <2>1, <2>2, WaitKept
<1> QED BY <1>1, <1>2, <1>3, <1>4, <1>5, <1>6, <1>20 DEF IInv

LEMMA EndKeeps ==
  ASSUME IInv, NEW th \in Threads, End(th)
  PROVE  IInv'
<1>0. /\ TypeInv /\ ThreadInv /\ PlaceInv /\ LiveInv
      /\ TokenInv /\ WaitInv /\ NoneWaitsBesideTokens
  BY DEF IInv
<1>h. \A x \in Threads, s \in Tasks : Holds(x, s)' <=> Holds(x, s)
  BY <1>0 DEF TypeInv, Holds, End
<1>1. TypeInv'
  BY <1>0 DEF TypeInv, End, bufferVars, taskVars, history
<1>2. ThreadInv'
  BY <1>0, NullAssumption DEF TypeInv, ThreadInv, End
<1>3. PlaceInv' /\ LiveInv'
  BY <1>0, <1>h, PlaceKept DEF TypeInv, End, bufferVars, taskVars
<1>5. TokenInv'
  BY <1>0 DEF TypeInv, ThreadInv, TokenInv, End, Full, Partial, Lacks, Queue, bufferVars, taskVars
<1>6. NoneWaitsBesideTokens'
  BY <1>0 DEF NoneWaitsBesideTokens, End, bufferVars
<1>20. WaitInv'
  BY <1>0 DEF End, bufferVars, taskVars, WaitInv, Queue
<1> QED BY <1>1, <1>2, <1>3, <1>5, <1>6, <1>20 DEF IInv

LEMMA ReturnKeeps ==
  ASSUME IInv, NEW th \in Threads, Return(th)
  PROVE  IInv'
<1>0. /\ TypeInv /\ ThreadInv /\ PlaceInv /\ LiveInv
      /\ TokenInv /\ WaitInv /\ NoneWaitsBesideTokens
  BY DEF IInv
<1> DEFINE t == own[th]
<1>t. t \in Tasks /\ pc[th] = "body" /\ got[th] = NULL /\ Holds(th, t) /\ t # NULL
  BY <1>0, NullAssumption DEF TypeInv, ThreadInv, Return, Holds
<1>o. /\ t \notin ready
      /\ \A x \in Threads \ {th} : ~Holds(x, t)
      /\ \A x \in Threads \ {th} : pc[x] \in {"body", "give", "consume"} => own[x] # t /\ got[x] # t
      /\ \A b \in Buffers : \A i \in Queue(b) : wait_queue[b][i] # t
  BY <1>0, <1>t, OnlyHolder
<1>f. Full(t)
  BY <1>0, <1>t DEF TokenInv
<1>u. /\ token_list' = [token_list EXCEPT ![t] = <<>>]
      /\ UNCHANGED <<tokens, wait_queue, current_buffer, stop, runs, ready, own, left, tok,
                     passed, dropped>>
  BY DEF Return, bufferVars
<1>e. \/ /\ status' = [status EXCEPT ![t] = "stopped"]
         /\ pc' = [pc EXCEPT ![th] = "retire"]
         /\ got' = got
      \/ /\ got' = [got EXCEPT ![th] = t]
         /\ pc' = [pc EXCEPT ![th] = "consume"]
         /\ status' = status
  BY DEF Return
<1>q. /\ \A b \in Buffers : Queue(b)' = Queue(b)
      /\ \A b \in Buffers : \A i \in Queue(b) : wait_queue[b][i] \in Tasks
  BY <1>0, <1>u, Emptied DEF TypeInv, Queue
<1>1. TypeInv'
  <2>1. used' \in [Buffers -> SUBSET Nat]
    <3>1. \A j \in DOMAIN token_list[t] : token_list[t][j] \in Nat
      BY <1>0, <1>t, Emptied DEF TypeInv
    <3>2. used' = [b \in Buffers |-> used[b] \union
             {token_list[t][j] : j \in {i \in DOMAIN token_list[t] : BufferList[t][i] = b}}]
      BY DEF Return
    <3> QED BY <1>0, <3>1, <3>2 DEF TypeInv
  <2>2. token_list' \in [Tasks -> Seq(Nat)]
    BY <1>0, <1>u, EmptySeq DEF TypeInv
  <2> QED BY <1>0, <1>t, <1>u, <1>e, <2>1, <2>2 DEF TypeInv
<1>2. ThreadInv'
  BY <1>0, <1>t, <1>u, <1>e, NullAssumption DEF TypeInv, ThreadInv
<1>3. PlaceInv' /\ LiveInv'
  <2>1. CASE /\ status' = [status EXCEPT ![t] = "stopped"]
             /\ pc' = [pc EXCEPT ![th] = "retire"]
             /\ got' = got
    <3>1. \A x \in Threads, s \in Tasks : Holds(x, s)' <=> Holds(x, s) /\ ~(x = th /\ s = t)
      BY <1>0, <1>t, <1>u, <2>1, NullAssumption DEF TypeInv, Holds
    <3>2. PlaceInv'
      BY <1>0, <1>u, <1>q, <3>1 DEF PlaceInv, TypeInv
    <3>3. \A s \in Tasks : Somewhere(s)' <=> Somewhere(s) /\ s # t
      BY <1>0, <1>u, <1>q, <1>o, <1>t, <3>1 DEF Somewhere
    <3>4. \A s \in Tasks : status'[s] = "stopped" <=> status[s] = "stopped" \/ s = t
      BY <1>0, <1>t, <2>1 DEF TypeInv
    <3> QED BY <1>0, <3>2, <3>3, <3>4 DEF LiveInv
  <2>2. CASE /\ got' = [got EXCEPT ![th] = t]
             /\ pc' = [pc EXCEPT ![th] = "consume"]
             /\ status' = status
    <3>1. \A x \in Threads, s \in Tasks : Holds(x, s)' <=> Holds(x, s)
      BY <1>0, <1>t, <1>u, <2>2, NullAssumption DEF TypeInv, Holds
    <3> QED BY <1>0, <1>u, <2>2, <3>1, PlaceKept DEF TypeInv
  <2> QED BY <1>e, <2>1, <2>2
<1>5. TokenInv'
  <2>1. \A s \in Tasks : s # t => token_list'[s] = token_list[s]
    BY <1>0, <1>u DEF TypeInv
  <2>2. token_list'[t] = <<>> /\ Len(token_list'[t]) = 0 /\ current_buffer'[t] = 1
    BY <1>0, <1>t, <1>u, <1>f DEF TypeInv, Full
  <2>3. \A s \in Tasks : Len(BufferList[s]) \in Nat
    BY BufferListAssumption, Emptied
  <2>4. \A s \in Tasks : s # t => /\ (Full(s) => Full(s)')
                                /\ (Partial(s) => Partial(s)')
                                /\ (Lacks(s) => Lacks(s)')
    BY <1>u, <2>1 DEF Full, Partial, Lacks
  <2>5. Partial(t)'
    BY <2>2, <2>3, <1>t, <1>u DEF Partial
  <2>6. \A x \in Threads :
       /\ pc'[x] \in {"body", "give", "consume"} /\ own'[x] # got'[x] => Full(own[x])'
       /\ pc'[x] = "consume" => Partial(got[x])'
       /\ pc'[x] = "give" => Lacks(got[x])'
    <3> SUFFICES ASSUME NEW x \in Threads
                 PROVE  /\ pc'[x] \in {"body", "give", "consume"} /\ own'[x] # got'[x] => Full(own[x])'
                        /\ pc'[x] = "consume" => Partial(got[x])'
                        /\ pc'[x] = "give" => Lacks(got[x])'
      OBVIOUS
    <3>1. CASE x = th
      BY <1>0, <1>t, <1>u, <1>e, <2>5, <3>1 DEF TypeInv, Partial
    <3>2. CASE x # th
      <4>1. pc'[x] = pc[x] /\ own'[x] = own[x] /\ got'[x] = got[x]
        BY <1>0, <1>u, <1>e, <3>2 DEF TypeInv
      <4>2. pc[x] \in {"body", "give", "consume"} => own[x] \in Tasks /\ own[x] # t
        BY <1>0, <1>o, <3>2 DEF TypeInv, ThreadInv
      <4>3. pc[x] \in {"give", "consume"} => got[x] \in Tasks /\ got[x] # t
        BY <1>0, <1>o, <3>2 DEF TypeInv, ThreadInv
      <4>4. pc[x] \in {"body", "give", "consume"} /\ own[x] # got[x] => Full(own[x])'
        BY <1>0, <1>u, <2>1, <4>1, <4>2 DEF TokenInv, Full
      <4>5. pc[x] = "consume" => Partial(got[x])'
        BY <1>0, <1>u, <2>1, <4>1, <4>3 DEF TokenInv, Partial
      <4>6. pc[x] = "give" => Lacks(got[x])'
        BY <1>0, <1>u, <2>1, <4>1, <4>3 DEF TokenInv, Lacks, Partial
      <4> QED BY <4>1, <4>4, <4>5, <4>6
    <3> QED BY <3>1, <3>2
  <2>7. \A s \in Tasks : status'[s] = "stopped" => token_list'[s] = <<>>
    BY <1>0, <1>t, <1>e, <2>1, <2>2 DEF TypeInv, TokenInv
  <2>8. \A s \in ready' : Full(s)'
    BY <1>0, <1>u, <1>o, <2>1 DEF TypeInv, TokenInv, Full
  <2>9. \A b \in Buffers : \A i \in Queue(b)' :
           Lacks(wait_queue[b][i])' /\ BufferList[wait_queue'[b][i]][current_buffer'[wait_queue'[b][i]]] = b
    BY <1>0, <1>u, <1>q, <1>o, <2>4 DEF TokenInv, Lacks, Partial
  <2>10. \A s \in Tasks : Len(token_list'[s]) <= Len(BufferList[s])
    BY <1>0, <2>1, <2>2, <2>3 DEF TokenInv
  <2> QED BY <2>6, <2>7, <2>8, <2>9, <2>10 DEF TokenInv
<1>6. NoneWaitsBesideTokens'
  BY <1>0, <1>u DEF NoneWaitsBesideTokens
<1>20. WaitInv'
  <2>1. wait_queue' = wait_queue /\ (status' = [status EXCEPT ![t] = "stopped"] \/ status' = status)
    BY <1>u, <1>e
  <2> QED BY <1>0, <1>t, <1>o, <2>1, WaitKept
<1> QED BY <1>1, <1>2, <1>3, <1>5, <1>6, <1>20 DEF IInv

LEMMA DepositKeeps ==
  ASSUME IInv, NEW th \in Threads, Deposit(th)
  PROVE  IInv'
<1>0. /\ TypeInv /\ ThreadInv /\ PlaceInv /\ LiveInv
      /\ TokenInv /\ WaitInv /\ NoneWaitsBesideTokens
  BY DEF IInv
<1> DEFINE b == Head(left[th])
           n == passed[b] + 1
<1>u. /\ wait_queue[b] = <<>>
      /\ PutToken(b, n)
      /\ passed' = [passed EXCEPT ![b] = @ + 1]
      /\ left' = [left EXCEPT ![th] = Tail(@)]
      /\ UNCHANGED <<wait_queue, token_list, current_buffer, status, stop, runs, ready, pc, own,
                     got, tok, used>>
  BY DEF Deposit, taskVars
<1>b. b \in Buffers /\ n \in Nat /\ Tail(left[th]) \in Seq(Buffers)
  BY <1>0, HeadTailProperties DEF Deposit, TypeInv
<1>p. /\ tokens' \in [Buffers -> Seq(Nat)]
      /\ dropped' \in [Buffers -> SUBSET Nat]
      /\ \A c \in Buffers : Len(tokens'[c]) <= Capacity
      /\ \A c \in Buffers : c # b => tokens'[c] = tokens[c]
  <2>1. tokens[b] \in Seq(Nat) /\ Len(tokens[b]) \in Nat /\ Len(tokens[b]) <= Capacity
    BY <1>0, <1>b, Emptied DEF TypeInv
  <2>2. Append(tokens[b], n) \in Seq(Nat) /\ Len(Append(tokens[b], n)) = Len(tokens[b]) + 1
    BY <1>b, <2>1, Appended
  <2>3. CASE Len(tokens[b]) = Capacity
    <3>1. tokens' = tokens /\ dropped' = [dropped EXCEPT ![b] = @ \union {n}]
      BY <1>u, <2>3 DEF PutToken
    <3> QED BY <1>0, <1>b, <3>1 DEF TypeInv
  <2>4. CASE Len(tokens[b]) # Capacity
    <3>1. tokens' = [tokens EXCEPT ![b] = Append(@, n)] /\ dropped' = dropped
      BY <1>u, <2>4 DEF PutToken
    <3>2. Len(tokens[b]) + 1 <= Capacity
      BY <2>1, <2>4, CapacityAssumption
    <3> QED BY <1>0, <1>b, <2>2, <3>1, <3>2 DEF TypeInv
  <2> QED BY <2>3, <2>4
<1>1. TypeInv'
  BY <1>0, <1>b, <1>p, <1>u DEF TypeInv
<1>2. ThreadInv'
  BY <1>0, <1>u DEF ThreadInv
<1>h. \A x \in Threads, s \in Tasks : Holds(x, s)' <=> Holds(x, s)
  BY <1>u DEF Holds
<1>3. PlaceInv' /\ LiveInv'
  BY <1>0, <1>u, <1>h, PlaceKept DEF TypeInv
<1>5. TokenInv'
  BY <1>0, <1>u DEF TokenInv, Full, Partial, Lacks, Queue
<1>6. NoneWaitsBesideTokens'
  BY <1>0, <1>u, <1>p DEF NoneWaitsBesideTokens
<1>20. WaitInv'
  <2>1. UNCHANGED <<wait_queue, status>>
    BY <1>u
  <2> QED BY <1>0, <2>1 DEF WaitInv, Queue
<1> QED BY <1>1, <1>2, <1>3, <1>5, <1>6, <1>20 DEF IInv

LEMMA DequeueKeeps ==
  ASSUME IInv, NEW th \in Threads, Dequeue(th)
  PROVE  IInv'
<1>0. /\ TypeInv /\ ThreadInv /\ PlaceInv /\ LiveInv
      /\ TokenInv /\ WaitInv /\ NoneWaitsBesideTokens
  BY DEF IInv
<1>d. /\ left[th] # <<>> /\ left[th] \in Seq(Buffers)
      /\ Head(left[th]) \in Buffers /\ Tail(left[th]) \in Seq(Buffers)
  BY <1>0, HeadTailProperties DEF Dequeue, TypeInv
<1>e. PICK b \in Buffers : b = Head(left[th])
  BY <1>d
<1>f. wait_queue[b] # <<>> /\ wait_queue[b] \in Seq(Tasks)
  BY <1>0, <1>e DEF Dequeue, TypeInv
<1>k. PICK g \in Tasks : g = Head(wait_queue[b])
  BY <1>f, HeadTailProperties
<1>u. /\ wait_queue[b] # <<>>
      /\ wait_queue' = [wait_queue EXCEPT ![b] = Tail(@)]
      /\ got' = [got EXCEPT ![th] = g]
      /\ tok' = [tok EXCEPT ![th] = passed[b] + 1]
      /\ passed' = [passed EXCEPT ![b] = @ + 1]
      /\ left' = [left EXCEPT ![th] = Tail(@)]
      /\ pc' = [pc EXCEPT ![th] = "give"]
      /\ UNCHANGED <<tokens, token_list, current_buffer, status, stop, runs, ready, own, used, dropped>>
  BY <1>e, <1>k DEF Dequeue, taskVars
<1>b. b \in Buffers /\ passed[b] + 1 \in Nat /\ Tail(left[th]) \in Seq(Buffers)
  BY <1>0, <1>d DEF TypeInv
<1>w. wait_queue[b] \in Seq(Tasks) /\ Len(wait_queue[b]) \in Nat /\ 1 \in Queue(b)
  BY <1>0, <1>b, <1>u, Emptied, EmptySeq DEF TypeInv, Queue
<1>g. /\ g \in Tasks /\ g = wait_queue[b][1] /\ g # NULL
      /\ Tail(wait_queue[b]) \in Seq(Tasks)
      /\ Len(Tail(wait_queue[b])) = Len(wait_queue[b]) - 1
      /\ \A i \in 1..Len(wait_queue[b]) - 1 : Tail(wait_queue[b])[i] = wait_queue[b][i + 1]
  BY <1>k, <1>u, <1>w, HeadTailProperties, NullAssumption
<1>q. /\ \A c \in Buffers : c # b => Queue(c)' = Queue(c) /\ wait_queue'[c] = wait_queue[c]
      /\ Queue(b)' = 1..Len(wait_queue[b]) - 1
      /\ \A i \in Queue(b)' : i + 1 \in Queue(b) /\ wait_queue'[b][i] = wait_queue[b][i + 1]
  <2>1. wait_queue'[b] = Tail(wait_queue[b])
    BY <1>0, <1>b, <1>u DEF TypeInv
  <2>2. \A c \in Buffers : c # b => wait_queue'[c] = wait_queue[c]
    BY <1>0, <1>b, <1>u DEF TypeInv
  <2>3. Len(wait_queue'[b]) = Len(wait_queue[b]) - 1
    BY <1>g, <2>1
  <2>4. Queue(b)' = 1..Len(wait_queue[b]) - 1
    BY <2>3 DEF Queue
  <2>5. \A i \in 1..Len(wait_queue[b]) - 1 : wait_queue'[b][i] = wait_queue[b][i + 1]
    BY <1>g, <2>1
  <2>6. \A c \in Buffers : c # b => Queue(c)' = Queue(c)
    BY <2>2 DEF Queue
  <2>7. \A i \in 1..Len(wait_queue[b]) - 1 : i + 1 \in Queue(b)
    BY <1>w DEF Queue
  <2> QED BY <2>2, <2>4, <2>5, <2>6, <2>7
<1>n. \A c \in Buffers : \A i \in Queue(c)' :
         \E j \in Queue(c) : /\ wait_queue'[c][i] = wait_queue[c][j]
                             /\ j = IF c = b THEN i + 1 ELSE i
  <2> SUFFICES ASSUME NEW c \in Buffers, NEW i \in Queue(c)'
               PROVE  \E j \in Queue(c) : /\ wait_queue'[c][i] = wait_queue[c][j]
                                          /\ j = IF c = b THEN i + 1 ELSE i
    OBVIOUS
  <2>1. CASE c = b
    BY <1>q, <2>1
  <2>2. CASE c # b
    BY <1>q, <2>2
  <2> QED BY <2>1, <2>2
<1>m. \A c \in Buffers : \A i \in Queue(c) : wait_queue[c][i] \in Tasks
  BY <1>0, Emptied DEF TypeInv, Queue
<1>t. own[th] \in Tasks /\ pc[th] = "body" /\ got[th] = NULL /\ own[th] # NULL
  BY <1>0, NullAssumption DEF TypeInv, ThreadInv, Dequeue
<1>o. /\ g \notin ready
      /\ \A x \in Threads : ~Holds(x, g)
  BY <1>0, <1>b, <1>w, <1>g DEF PlaceInv
<1>h. \A x \in Threads, s \in Tasks : Holds(x, s)' <=> Holds(x, s) \/ (x = th /\ s = g)
  <2>1. /\ pc \in [Threads -> {"idle", "body", "give", "consume", "retire", "over"}]
        /\ got \in [Threads -> Tasks \union {NULL}] /\ g \in Tasks
    BY <1>0, <1>g DEF TypeInv
  <2>2. /\ pc'[th] \in {"give", "consume"} /\ got'[th] = g /\ own' = own
        /\ \A x \in Threads : x # th => pc'[x] = pc[x] /\ got'[x] = got[x]
    BY <1>u, <1>g, <2>1
  <2>3. \A s \in Tasks : Holds(th, s) <=> s = own[th]
    BY <1>t, NullAssumption DEF Holds
  <2>4. \A s \in Tasks : Holds(th, s)' <=> s = own[th] \/ s = g
    BY <2>2 DEF Holds
  <2>5. \A x \in Threads, s \in Tasks : x # th => (Holds(x, s)' <=> Holds(x, s))
    BY <2>2 DEF Holds
  <2> QED BY <2>3, <2>4, <2>5
<1>1. TypeInv'
  BY <1>0, <1>b, <1>g, <1>u DEF TypeInv
<1>2. ThreadInv'
  BY <1>0, <1>t, <1>u, <1>g, <1>o, NullAssumption DEF TypeInv, ThreadInv, Holds
<1>3. PlaceInv'
  <2>1. \A x, u \in Threads, s \in Tasks : Holds(x, s)' /\ Holds(u, s)' => x = u
    BY <1>0, <1>h, <1>o DEF PlaceInv
  <2>2. \A x \in Threads, s \in ready' : ~Holds(x, s)'
    BY <1>0, <1>u, <1>h, <1>o DEF PlaceInv, TypeInv
  <2>3. \A c \in Buffers : \A i \in Queue(c)' : wait_queue'[c][i] \notin ready'
    <3> SUFFICES ASSUME NEW c \in Buffers, NEW i \in Queue(c)'
                 PROVE  wait_queue'[c][i] \notin ready'
      OBVIOUS
    <3>1. PICK k \in Queue(c) : wait_queue'[c][i] = wait_queue[c][k]
      BY <1>n
    <3>2. wait_queue[c][k] \notin ready
      BY <1>0 DEF PlaceInv
    <3>3. ready' = ready
      BY <1>u
    <3> QED BY <3>1, <3>2, <3>3
  <2>4. \A c, d \in Buffers : \A i \in Queue(c)', j \in Queue(d)' :
           wait_queue'[c][i] = wait_queue'[d][j] => c = d /\ i = j
    <3> SUFFICES ASSUME NEW c \in Buffers, NEW d \in Buffers, NEW i \in Queue(c)', NEW j \in Queue(d)',
                        wait_queue'[c][i] = wait_queue'[d][j]
                 PROVE  c = d /\ i = j
      OBVIOUS
    <3>1. PICK k \in Queue(c) : wait_queue'[c][i] = wait_queue[c][k] /\ k = IF c = b THEN i + 1 ELSE i
      BY <1>n
    <3>2. PICK l \in Queue(d) : wait_queue'[d][j] = wait_queue[d][l] /\ l = IF d = b THEN j + 1 ELSE j
      BY <1>n
    <3>3. c = d /\ k = l
      <4>1. wait_queue[c][k] = wait_queue[d][l]
        BY <3>1, <3>2
      <4> QED BY <1>0, <4>1 DEF PlaceInv
    <3> QED BY <3>1, <3>2, <3>3 DEF Queue
  <2>5. \A c \in Buffers : \A i \in Queue(c)' : wait_queue'[c][i] # g
    <3> SUFFICES ASSUME NEW c \in Buffers, NEW i \in Queue(c)', wait_queue'[c][i] = g
                 PROVE  FALSE
      OBVIOUS
    <3>1. PICK k \in Queue(c) : wait_queue'[c][i] = wait_queue[c][k] /\ k = IF c = b THEN i + 1 ELSE i
      BY <1>n
    <3>2. c = b /\ k = 1
      BY <1>0, <1>b, <1>w, <1>g, <3>1 DEF PlaceInv
    <3> QED BY <3>1, <3>2 DEF Queue
  <2>6. \A c \in Buffers, x \in Threads : \A i \in Queue(c)' : ~Holds(x, wait_queue[c][i])'
    <3> SUFFICES ASSUME NEW c \in Buffers, NEW x \in Threads, NEW i \in Queue(c)'
                 PROVE  ~Holds(x, wait_queue[c][i])'
      OBVIOUS
    <3>1. PICK k \in Queue(c) : wait_queue'[c][i] = wait_queue[c][k]
      BY <1>n
    <3>2. wait_queue'[c][i] \in Tasks /\ ~Holds(x, wait_queue'[c][i])
      BY <1>0, <1>m, <3>1 DEF PlaceInv
    <3>3. ~Holds(x, wait_queue[c][k]) /\ wait_queue[c][k] # g
      BY <1>0, <2>5, <3>1 DEF PlaceInv
    <3>4. pc'[x] \in {"body", "give", "consume"} => wait_queue[c][k] # own'[x] /\ wait_queue[c][k] # got'[x]
      BY <1>0, <1>t, <1>u, <3>3 DEF TypeInv, Holds
    <3> QED BY <3>1, <3>4 DEF Holds
  <2> QED BY <2>1, <2>2, <2>3, <2>4, <2>6 DEF PlaceInv
<1>4. LiveInv'
  <2>1. ASSUME NEW s \in Tasks PROVE Somewhere(s)' <=> Somewhere(s)
    <3>1. CASE s = g
      <4>1. Somewhere(g)'
        <5>1. Holds(th, g)'
          BY <1>g, <1>h
        <5> QED BY <5>1 DEF Somewhere
      <4>2. Somewhere(g)
        BY <1>b, <1>w, <1>g DEF Somewhere
      <4> QED BY <3>1, <4>1, <4>2
    <3>2. CASE s # g
      <4>1. (\E c \in Buffers : \E i \in Queue(c)' : wait_queue'[c][i] = s)
              => \E c \in Buffers : \E i \in Queue(c) : wait_queue[c][i] = s
        BY <1>n
      <4>2. ASSUME NEW c \in Buffers, NEW i \in Queue(c), wait_queue[c][i] = s
            PROVE  \E j \in Queue(c)' : wait_queue'[c][j] = s
        <5>1. CASE c # b
          BY <1>q, <4>2, <5>1
        <5>2. CASE c = b
          <6>1. i # 1 /\ i \in 1..Len(wait_queue[b]) /\ Len(wait_queue[b]) \in Nat
            BY <1>g, <1>w, <3>2, <4>2, <5>2 DEF Queue
          <6>2. i - 1 \in 1..Len(wait_queue[b]) - 1 /\ (i - 1) + 1 = i
            BY <6>1
          <6>3. i - 1 \in Queue(b)' /\ wait_queue'[b][i - 1] = wait_queue[b][i]
            BY <1>q, <6>2
          <6> QED BY <4>2, <5>2, <6>3
        <5> QED BY <5>1, <5>2
      <4>3. (\E x \in Threads : Holds(x, s)') <=> \E x \in Threads : Holds(x, s)
        BY <1>h, <3>2
      <4> QED BY <1>u, <4>1, <4>2, <4>3 DEF Somewhere
    <3> QED BY <3>1, <3>2
  <2> QED BY <1>0, <1>u, <2>1 DEF LiveInv
<1>5. TokenInv'
  <2>1. Lacks(g)
    BY <1>0, <1>b, <1>w, <1>g DEF TokenInv
  <2>2. Full(own[th])
    BY <1>0, <1>t DEF TokenInv
  <2>3. \A x \in Threads : x # th => pc'[x] = pc[x] /\ own'[x] = own[x] /\ got'[x] = got[x]
    BY <1>0, <1>u DEF TypeInv
  <2>4. pc'[th] = "give" /\ own'[th] = own[th] /\ got'[th] = g
    BY <1>0, <1>u DEF TypeInv
  <2>5. \A x \in Threads :
       /\ pc'[x] \in {"body", "give", "consume"} /\ own'[x] # got'[x] => Full(own'[x])
       /\ pc'[x] = "consume" => Partial(got'[x])
       /\ pc'[x] = "give" => Lacks(got'[x])
    BY <1>0, <2>1, <2>2, <2>3, <2>4 DEF TokenInv
  <2>6. \A c \in Buffers : \A i \in Queue(c)' :
       /\ Lacks(wait_queue'[c][i])
       /\ BufferList[wait_queue'[c][i]][current_buffer[wait_queue'[c][i]]] = c
    <3> SUFFICES ASSUME NEW c \in Buffers, NEW i \in Queue(c)'
                 PROVE  /\ Lacks(wait_queue'[c][i])
                        /\ BufferList[wait_queue'[c][i]][current_buffer[wait_queue'[c][i]]] = c
      OBVIOUS
    <3>1. PICK k \in Queue(c) : wait_queue'[c][i] = wait_queue[c][k]
      BY <1>n
    <3> QED BY <1>0, <3>1 DEF TokenInv
  <2>7. UNCHANGED <<token_list, current_buffer, status, ready>>
    BY <1>u
  <2>8. \A s \in Tasks : Len(token_list'[s]) <= Len(BufferList[s])
    BY <1>0, <2>7 DEF TokenInv
  <2>12. \A s \in Tasks : status'[s] = "stopped" => token_list'[s] = <<>>
    BY <1>0, <2>7 DEF TokenInv
  <2>9. \A x \in Threads :
       /\ pc'[x] \in {"body", "give", "consume"} /\ own'[x] # got'[x] => Full(own[x])'
       /\ pc'[x] = "consume" => Partial(got[x])'
       /\ pc'[x] = "give" => Lacks(got[x])'
    BY <2>5, <2>7 DEF Full, Partial, Lacks
  <2>10. \A c \in Buffers : \A i \in Queue(c)' :
       /\ Lacks(wait_queue[c][i])'
       /\ BufferList[wait_queue'[c][i]][current_buffer'[wait_queue'[c][i]]] = c
    BY <2>6, <2>7 DEF Lacks, Partial
  <2>11. \A s \in ready' : Full(s)'
    BY <1>0, <2>7 DEF TokenInv, Full
  <2> QED BY <2>8, <2>9, <2>10, <2>11, <2>12 DEF TokenInv
<1>6. NoneWaitsBesideTokens'
  BY <1>0, <1>u, <1>b DEF NoneWaitsBesideTokens, TypeInv
<1>20. WaitInv'
  <2>1. status' = status
    BY <1>u
  <2>2. \A c \in Buffers : \A i \in Queue(c)' : status[wait_queue'[c][i]] = "waiting"
    <3> SUFFICES ASSUME NEW c \in Buffers, NEW i \in Queue(c)'
                 PROVE  status[wait_queue'[c][i]] = "waiting"
      OBVIOUS
    <3>1. PICK k \in Queue(c) : wait_queue'[c][i] = wait_queue[c][k]
      BY <1>n
    <3> QED BY <1>0, <3>1 DEF WaitInv
  <2> QED BY <2>1, <2>2 DEF WaitInv
<1> QED BY <1>1, <1>2, <1>3, <1>4, <1>5, <1>6, <1>20 DEF IInv

\* A task that is in hands and lacks a token gets one.
LEMMA OneMoreToken ==
  ASSUME TypeInv, ThreadInv, PlaceInv, LiveInv, TokenInv,
         NEW th \in Threads, NEW g \in Tasks, NEW e \in Nat,
         got[th] = g, pc[th] \in {"give", "consume"}, Lacks(g),
         token_list' = [token_list EXCEPT ![g] = Append(@, e)],
         current_buffer' = [current_buffer EXCEPT ![g] = @ + 1],
         pc' = [pc EXCEPT ![th] = "consume"],
         UNCHANGED <<wait_queue, status, ready, own, got>>
  PROVE  /\ token_list' \in [Tasks -> Seq(Nat)]
         /\ current_buffer' \in [Tasks -> Nat \ {0}]
         /\ pc' \in [Threads -> {"idle", "body", "give", "consume", "retire", "over"}]
         /\ ThreadInv' /\ PlaceInv' /\ LiveInv' /\ TokenInv'
<1>1. Holds(th, g) /\ own[th] # NULL /\ g # NULL
  BY NullAssumption DEF TypeInv, ThreadInv, Holds
<1>2. /\ g \notin ready
      /\ \A x \in Threads \ {th} : pc[x] \in {"body", "give", "consume"} => own[x] # g /\ got[x] # g
      /\ \A b \in Buffers : \A i \in Queue(b) : wait_queue[b][i] # g
  BY <1>1, OnlyHolder
<1>3. /\ token_list[g] \in Seq(Nat) /\ Len(token_list[g]) \in Nat
      /\ current_buffer[g] \in Nat \ {0}
      /\ Append(token_list[g], e) \in Seq(Nat)
      /\ Len(Append(token_list[g], e)) = Len(token_list[g]) + 1
  BY Appended, Emptied DEF TypeInv
<1>4. Len(BufferList[g]) \in Nat
  BY BufferListAssumption, Emptied
<1>5. /\ token_list' \in [Tasks -> Seq(Nat)]
      /\ current_buffer' \in [Tasks -> Nat \ {0}]
      /\ pc' \in [Threads -> {"idle", "body", "give", "consume", "retire", "over"}]
  BY <1>3 DEF TypeInv
<1>6. \A s \in Tasks : s # g => token_list'[s] = token_list[s] /\ current_buffer'[s] = current_buffer[s]
  BY DEF TypeInv
<1>7. Len(token_list'[g]) = Len(token_list[g]) + 1 /\ current_buffer'[g] = current_buffer[g] + 1
  BY <1>3 DEF TypeInv
<1>8. \A x \in Threads : x # th => pc'[x] = pc[x]
  BY DEF TypeInv
<1>9. pc'[th] = "consume"
  BY DEF TypeInv
<1>10. ThreadInv'
  BY <1>1, <1>8, <1>9 DEF ThreadInv
<1>11. PlaceInv' /\ LiveInv'
  <2>1. \A x \in Threads, s \in Tasks : Holds(x, s)' <=> Holds(x, s)
    BY <1>8, <1>9 DEF Holds
  <2> QED BY <2>1, PlaceKept DEF TypeInv
<1>12. TokenInv'
  <2>1. Partial(g)' /\ Len(token_list'[g]) <= Len(BufferList[g])
    BY <1>3, <1>4, <1>7 DEF Lacks, Partial
  <2>2. \A s \in Tasks : Len(token_list'[s]) <= Len(BufferList[s])
    BY <1>6, <2>1 DEF TokenInv
  <2>3. \A s \in Tasks : status'[s] = "stopped" => token_list'[s] = <<>>
    <3>1. status[g] # "stopped"
      BY <1>1 DEF LiveInv, Somewhere
    <3> QED BY <1>6, <3>1 DEF TokenInv
  <2>4. \A s \in ready' : Full(s)'
    BY <1>2, <1>6 DEF TypeInv, TokenInv, Full
  <2>5. \A x \in Threads :
       /\ pc'[x] \in {"body", "give", "consume"} /\ own'[x] # got'[x] => Full(own[x])'
       /\ pc'[x] = "consume" => Partial(got[x])'
       /\ pc'[x] = "give" => Lacks(got[x])'
    <3> SUFFICES ASSUME NEW x \in Threads
                 PROVE  /\ pc'[x] \in {"body", "give", "consume"} /\ own'[x] # got'[x] => Full(own[x])'
                        /\ pc'[x] = "consume" => Partial(got[x])'
                        /\ pc'[x] = "give" => Lacks(got[x])'
      OBVIOUS
    <3>1. CASE x = th
      <4>1. own[th] \in Tasks
        BY <1>1 DEF TypeInv
      <4>2. own[th] # g => Full(own[th])
        BY DEF TokenInv
      <4>3. own[th] # g => Full(own[th])'
        BY <1>6, <4>1, <4>2 DEF Full
      <4> QED BY <1>9, <2>1, <3>1, <4>3 DEF Partial
    <3>2. CASE x # th
      <4>1. pc[x] \in {"body", "give", "consume"} => own[x] \in Tasks /\ own[x] # g
        BY <1>2, <3>2 DEF TypeInv, ThreadInv
      <4>2. pc[x] \in {"give", "consume"} => got[x] \in Tasks /\ got[x] # g
        BY <1>2, <3>2 DEF TypeInv, ThreadInv
      <4>3. pc[x] \in {"body", "give", "consume"} /\ own[x] # got[x] => Full(own[x])'
        BY <1>6, <4>1 DEF TokenInv, Full
      <4>4. pc[x] = "consume" => Partial(got[x])'
        BY <1>6, <4>2 DEF TokenInv, Partial
      <4>5. pc[x] = "give" => Lacks(got[x])'
        BY <1>6, <4>2 DEF TokenInv, Lacks, Partial
      <4> QED BY <1>8, <3>2, <4>3, <4>4, <4>5
    <3> QED BY <3>1, <3>2
  <2>6. \A b \in Buffers : \A i \in Queue(b)' :
           Lacks(wait_queue[b][i])' /\ BufferList[wait_queue'[b][i]][current_buffer'[wait_queue'[b][i]]] = b
    <3>1. \A b \in Buffers : \A i \in Queue(b) : wait_queue[b][i] \in Tasks
      BY Emptied DEF TypeInv, Queue
    <3>2. \A b \in Buffers : Queue(b)' = Queue(b)
      BY DEF Queue
    <3>3. \A s \in Tasks : s # g => Lacks(s)' = Lacks(s)
      BY <1>6 DEF Lacks, Partial
    <3>4. \A b \in Buffers : \A i \in Queue(b) :
            /\ Lacks(wait_queue[b][i])
            /\ BufferList[wait_queue[b][i]][current_buffer[wait_queue[b][i]]] = b
      BY DEF TokenInv
    <3> QED BY <1>2, <1>6, <3>1, <3>2, <3>4 DEF Lacks, Partial
  <2> QED BY <2>2, <2>3, <2>4, <2>5, <2>6 DEF TokenInv
<1> QED BY <1>5, <1>10, <1>11, <1>12

LEMMA GiveKeeps ==
  ASSUME IInv, NEW th \in Threads, Give(th)
  PROVE  IInv'
<1>0. /\ TypeInv /\ ThreadInv /\ PlaceInv /\ LiveInv
      /\ TokenInv /\ WaitInv /\ NoneWaitsBesideTokens
  BY DEF IInv
<1>1. pc[th] = "give" /\ got[th] \in Tasks /\ tok[th] \in Nat /\ Lacks(got[th])
  BY <1>0 DEF Give, TypeInv, ThreadInv, TokenInv
<1>2. /\ token_list' = [token_list EXCEPT ![got[th]] = Append(@, tok[th])]
      /\ current_buffer' = [current_buffer EXCEPT ![got[th]] = @ + 1]
      /\ pc' = [pc EXCEPT ![th] = "consume"]
      /\ UNCHANGED <<tokens, wait_queue, status, stop, runs, ready, own, left, got, tok, passed,
                     used, dropped>>
  BY DEF Give, bufferVars, history
<1>3. /\ token_list' \in [Tasks -> Seq(Nat)]
      /\ current_buffer' \in [Tasks -> Nat \ {0}]
      /\ pc' \in [Threads -> {"idle", "body", "give", "consume", "retire", "over"}]
      /\ ThreadInv' /\ PlaceInv' /\ LiveInv' /\ TokenInv'
  BY <1>0, <1>1, <1>2, OneMoreToken
<1>4. TypeInv'
  BY <1>0, <1>2, <1>3 DEF TypeInv
<1>5. NoneWaitsBesideTokens'
  BY <1>0, <1>2 DEF NoneWaitsBesideTokens
<1>20. WaitInv'
  <2>1. UNCHANGED <<wait_queue, status>>
    BY <1>2
  <2> QED BY <1>0, <2>1 DEF WaitInv, Queue
<1> QED BY <1>3, <1>4, <1>5, <1>20 DEF IInv

LEMMA GetTokenKeeps ==
  ASSUME IInv, NEW th \in Threads, GetToken(th)
  PROVE  IInv'
<1>0. /\ TypeInv /\ ThreadInv /\ PlaceInv /\ LiveInv
      /\ TokenInv /\ WaitInv /\ NoneWaitsBesideTokens
  BY DEF IInv
<1>1. PICK b \in Buffers :
         /\ Needs(th, b)
         /\ tokens[b] # <<>>
         /\ tokens' = [tokens EXCEPT ![b] = Tail(@)]
         /\ token_list' = [token_list EXCEPT ![got[th]] = Append(@, Head(tokens[b]))]
         /\ current_buffer' = [current_buffer EXCEPT ![got[th]] = @ + 1]
         /\ UNCHANGED <<wait_queue, status, stop, runs, ready, threadVars, history>>
  BY DEF GetToken
<1>2. pc[th] = "consume" /\ got[th] \in Tasks
  BY <1>0, <1>1 DEF Needs, TypeInv, ThreadInv
<1>3. Lacks(got[th])
  <2>1. Partial(got[th]) /\ current_buffer[got[th]] <= Len(BufferList[got[th]])
    BY <1>0, <1>1, <1>2 DEF Needs, TokenInv
  <2>2. Len(token_list[got[th]]) \in Nat /\ Len(BufferList[got[th]]) \in Nat
    BY <1>0, <1>2, BufferListAssumption, Emptied DEF TypeInv
  <2> QED BY <2>1, <2>2 DEF Lacks, Partial
<1>4. /\ tokens[b] \in Seq(Nat) /\ Len(tokens[b]) \in Nat /\ Len(tokens[b]) <= Capacity
      /\ Head(tokens[b]) \in Nat /\ Tail(tokens[b]) \in Seq(Nat)
      /\ Len(Tail(tokens[b])) = Len(tokens[b]) - 1
  BY <1>0, <1>1, HeadTailProperties, Emptied DEF TypeInv
<1>5. UNCHANGED <<wait_queue, status, stop, runs, ready, pc, own, left, got, tok, passed, used, dropped>>
  BY <1>1 DEF threadVars, history
<1>6. pc' = [pc EXCEPT ![th] = "consume"]
  BY <1>0, <1>2, <1>5 DEF TypeInv
<1>7. /\ token_list' \in [Tasks -> Seq(Nat)]
      /\ current_buffer' \in [Tasks -> Nat \ {0}]
      /\ ThreadInv' /\ PlaceInv' /\ LiveInv' /\ TokenInv'
  BY <1>0, <1>1, <1>2, <1>3, <1>4, <1>5, <1>6, OneMoreToken
<1>8. TypeInv'
  <2>1. /\ tokens' \in [Buffers -> Seq(Nat)]
        /\ \A c \in Buffers : Len(tokens'[c]) <= Capacity
    BY <1>0, <1>1, <1>4, CapacityAssumption DEF TypeInv
  <2> QED BY <1>0, <1>5, <1>7, <2>1 DEF TypeInv
<1>9. NoneWaitsBesideTokens'
  BY <1>0, <1>1, <1>5 DEF NoneWaitsBesideTokens, TypeInv
<1>20. WaitInv'
  <2>1. UNCHANGED <<wait_queue, status>>
    BY <1>5
  <2> QED BY <1>0, <2>1 DEF WaitInv, Queue
<1> QED BY <1>7, <1>8, <1>9, <1>20 DEF IInv

\* What thread th holds when it has put the task away that it had collected tokens for.
LEMMA PutAway ==
  ASSUME TypeInv, ThreadInv, TokenInv, NEW th \in Threads, NEW g \in Tasks,
         got[th] = g, pc[th] = "consume",
         pc'[th] \in {"idle", "body", "retire", "over"},
         pc'[th] = "body" <=> own[th] # g,
         pc'[th] # "idle",
         pc' = [pc EXCEPT ![th] = pc'[th]], got' = [got EXCEPT ![th] = NULL],
         own' = own
  PROVE  /\ pc' \in [Threads -> {"idle", "body", "give", "consume", "retire", "over"}]
         /\ got' \in [Threads -> Tasks \union {NULL}]
         /\ ThreadInv'
         /\ \A x \in Threads, s \in Tasks : Holds(x, s)' <=> Holds(x, s) /\ ~(x = th /\ s = g)
         /\ \A x \in Threads : x # th => pc'[x] = pc[x] /\ got'[x] = got[x]
         /\ pc'[th] = "body" => own[th] \in Tasks /\ own[th] # g /\ Full(own[th])
<1>1. own[th] # NULL /\ g # NULL
  BY NullAssumption DEF ThreadInv
<1>2. /\ pc' \in [Threads -> {"idle", "body", "give", "consume", "retire", "over"}]
      /\ got' \in [Threads -> Tasks \union {NULL}]
      /\ got'[th] = NULL
  BY DEF TypeInv
<1>3. \A x \in Threads : x # th => pc'[x] = pc[x] /\ got'[x] = got[x]
  BY DEF TypeInv
<1>4. ThreadInv'
  BY <1>1, <1>2, <1>3 DEF ThreadInv
<1>5. \A x \in Threads, s \in Tasks : Holds(x, s)' <=> Holds(x, s) /\ ~(x = th /\ s = g)
  <2> SUFFICES ASSUME NEW x \in Threads, NEW s \in Tasks
               PROVE  Holds(x, s)' <=> Holds(x, s) /\ ~(x = th /\ s = g)
    OBVIOUS
  <2>1. CASE x = th
    <3>1. s # NULL
      BY NullAssumption
    <3> QED BY <1>1, <1>2, <2>1, <3>1 DEF Holds
  <2>2. CASE x # th
    BY <1>3, <2>2 DEF Holds
  <2> QED BY <2>1, <2>2
<1>6. pc'[th] = "body" => own[th] \in Tasks /\ own[th] # g /\ Full(own[th])
  BY <1>1 DEF TypeInv, TokenInv
<1> QED BY <1>2, <1>3, <1>4, <1>5, <1>6

LEMMA EnqueueTaskKeeps ==
  ASSUME IInv, NEW th \in Threads, EnqueueTask(th)
  PROVE  IInv'
<1>0. /\ TypeInv /\ ThreadInv /\ PlaceInv /\ LiveInv
      /\ TokenInv /\ WaitInv /\ NoneWaitsBesideTokens
  BY DEF IInv
<1>1. PICK b \in Buffers :
         /\ Needs(th, b)
         /\ tokens[b] = <<>>
         /\ wait_queue' = [wait_queue EXCEPT ![b] = Append(@, got[th])]
         /\ status' = [status EXCEPT ![got[th]] = "waiting"]
         /\ pc' = [pc EXCEPT ![th] = IF got[th] = own[th] THEN "retire" ELSE "body"]
         /\ got' = [got EXCEPT ![th] = NULL]
         /\ UNCHANGED <<tokens, token_list, current_buffer, stop, runs, ready, own, left, tok,
                        history>>
  BY DEF EnqueueTask
<1>2. PICK g \in Tasks : g = got[th]
  BY <1>0, <1>1 DEF Needs, TypeInv, ThreadInv
<1>3. pc[th] = "consume" /\ BufferList[g][current_buffer[g]] = b
  BY <1>1, <1>2 DEF Needs
<1>4. Lacks(g)
  <2>1. Partial(g) /\ current_buffer[g] <= Len(BufferList[g])
    BY <1>0, <1>1, <1>2, <1>3 DEF Needs, TokenInv
  <2>2. Len(token_list[g]) \in Nat /\ Len(BufferList[g]) \in Nat
    BY <1>0, BufferListAssumption, Emptied DEF TypeInv
  <2> QED BY <2>1, <2>2 DEF Lacks, Partial
<1>5. UNCHANGED <<tokens, token_list, current_buffer, stop, runs, ready, own, left, tok, passed,
                  used, dropped>>
  BY <1>1 DEF history
<1>6. pc'[th] = IF g = own[th] THEN "retire" ELSE "body"
  BY <1>0, <1>1, <1>2 DEF TypeInv
<1>p. /\ pc' \in [Threads -> {"idle", "body", "give", "consume", "retire", "over"}]
      /\ got' \in [Threads -> Tasks \union {NULL}]
      /\ ThreadInv'
      /\ \A x \in Threads, s \in Tasks : Holds(x, s)' <=> Holds(x, s) /\ ~(x = th /\ s = g)
      /\ \A x \in Threads : x # th => pc'[x] = pc[x] /\ got'[x] = got[x]
      /\ pc'[th] = "body" => own[th] \in Tasks /\ own[th] # g /\ Full(own[th])
  <2>1. pc' = [pc EXCEPT ![th] = pc'[th]]
    BY <1>0, <1>1, <1>2, <1>6 DEF TypeInv
  <2>2. got' = [got EXCEPT ![th] = NULL] /\ own' = own
    BY <1>1
  <2>3. /\ pc'[th] \in {"idle", "body", "retire", "over"}
        /\ pc'[th] = "body" <=> own[th] # g
        /\ pc'[th] # "idle"
    BY <1>6
  <2> QED BY <1>0, <1>2, <1>3, <2>1, <2>2, <2>3, PutAway
<1>h. Holds(th, g) /\ g # NULL
  BY <1>2, <1>3, NullAssumption DEF Holds
<1>o. /\ g \notin ready
      /\ \A x \in Threads \ {th} : ~Holds(x, g)
      /\ \A x \in Threads \ {th} : pc[x] \in {"body", "give", "consume"} => own[x] # g /\ got[x] # g
      /\ \A c \in Buffers : \A i \in Queue(c) : wait_queue[c][i] # g
  BY <1>0, <1>h, OnlyHolder
<1>w. wait_queue[b] \in Seq(Tasks) /\ Len(wait_queue[b]) \in Nat
  BY <1>0, Emptied DEF TypeInv
<1>q. /\ wait_queue' \in [Buffers -> Seq(Tasks)]
      /\ \A c \in Buffers : c # b => Queue(c)' = Queue(c) /\ wait_queue'[c] = wait_queue[c]
      /\ Queue(b)' = 1..Len(wait_queue[b]) + 1
      /\ \A i \in Queue(b) : wait_queue'[b][i] = wait_queue[b][i]
      /\ wait_queue'[b][Len(wait_queue[b]) + 1] = g
  <2>1. wait_queue'[b] = Append(wait_queue[b], g)
    BY <1>0, <1>1, <1>2 DEF TypeInv
  <2>2. \A c \in Buffers : c # b => wait_queue'[c] = wait_queue[c]
    BY <1>0, <1>1 DEF TypeInv
  <2>3. /\ Append(wait_queue[b], g) \in Seq(Tasks)
        /\ Len(Append(wait_queue[b], g)) = Len(wait_queue[b]) + 1
        /\ \A i \in 1..Len(wait_queue[b]) : Append(wait_queue[b], g)[i] = wait_queue[b][i]
        /\ Append(wait_queue[b], g)[Len(wait_queue[b]) + 1] = g
    BY <1>w, Appended
  <2>4. wait_queue' \in [Buffers -> Seq(Tasks)]
    BY <1>0, <1>1, <1>2, <2>3 DEF TypeInv
  <2>5. \A c \in Buffers : c # b => Queue(c)' = Queue(c)
    BY <2>2 DEF Queue
  <2>6. Queue(b)' = 1..Len(wait_queue[b]) + 1
    BY <2>1, <2>3 DEF Queue
  <2>7. \A i \in Queue(b) : wait_queue'[b][i] = wait_queue[b][i]
    BY <2>1, <2>3 DEF Queue
  <2> QED BY <2>1, <2>2, <2>3, <2>4, <2>5, <2>6, <2>7
<1>n. \A c \in Buffers : \A i \in Queue(c)' :
         \/ i \in Queue(c) /\ wait_queue'[c][i] = wait_queue[c][i]
         \/ c = b /\ i = Len(wait_queue[b]) + 1 /\ wait_queue'[c][i] = g
  <2> SUFFICES ASSUME NEW c \in Buffers, NEW i \in Queue(c)'
               PROVE  \/ i \in Queue(c) /\ wait_queue'[c][i] = wait_queue[c][i]
                      \/ c = b /\ i = Len(wait_queue[b]) + 1 /\ wait_queue'[c][i] = g
    OBVIOUS
  <2>1. CASE c = b
    <3>1. i \in 1..Len(wait_queue[b]) + 1
      BY <1>q, <2>1
    <3>2. i \in 1..Len(wait_queue[b]) \/ i = Len(wait_queue[b]) + 1
      BY <1>w, <3>1
    <3> QED BY <1>q, <2>1, <3>2 DEF Queue
  <2>2. CASE c # b
    BY <1>q, <2>2
  <2> QED BY <2>1, <2>2
<1>m. \A c \in Buffers : \A i \in Queue(c) : wait_queue[c][i] \in Tasks
  BY <1>0, Emptied DEF TypeInv, Queue
<1>g. \A c \in Buffers : \A i \in Queue(c) : /\ i \in Queue(c)'
                                           /\ wait_queue'[c][i] = wait_queue[c][i]
  <2> SUFFICES ASSUME NEW c \in Buffers, NEW i \in Queue(c)
               PROVE  i \in Queue(c)' /\ wait_queue'[c][i] = wait_queue[c][i]
    OBVIOUS
  <2>1. CASE c = b
    <3>1. i \in 1..Len(wait_queue[b]) + 1
      BY <1>w, <2>1 DEF Queue
    <3> QED BY <1>q, <2>1, <3>1
  <2>2. CASE c # b
    BY <1>q, <2>2
  <2> QED BY <2>1, <2>2
<1>s. status'[g] = "waiting" /\ \A s \in Tasks : s # g => status'[s] = status[s]
  BY <1>0, <1>1, <1>2 DEF TypeInv
<1>8. TypeInv'
  <2>1. status' \in [Tasks -> {"waiting", "ready", "queued", "running", "stopped"}]
    BY <1>0, <1>1, <1>2 DEF TypeInv
  <2> QED BY <1>0, <1>5, <1>p, <1>q, <2>1 DEF TypeInv
<1>9. PlaceInv'
  <2>1. \A x, u \in Threads, s \in Tasks : Holds(x, s)' /\ Holds(u, s)' => x = u
    BY <1>0, <1>p DEF PlaceInv
  <2>r. ready' = ready
    BY <1>5
  <2>2. \A x \in Threads, s \in ready' : ~Holds(x, s)'
    BY <1>0, <1>p, <2>r DEF PlaceInv, TypeInv
  <2>3. \A c \in Buffers : \A i \in Queue(c)' : wait_queue'[c][i] \notin ready'
    <3> SUFFICES ASSUME NEW c \in Buffers, NEW i \in Queue(c)'
                 PROVE  wait_queue'[c][i] \notin ready
      BY <2>r
    <3>1. CASE i \in Queue(c) /\ wait_queue'[c][i] = wait_queue[c][i]
      BY <1>0, <3>1 DEF PlaceInv
    <3> QED BY <1>n, <1>o, <3>1
  <2>4. \A c, d \in Buffers : \A i \in Queue(c)', j \in Queue(d)' :
           wait_queue'[c][i] = wait_queue'[d][j] => c = d /\ i = j
    <3> SUFFICES ASSUME NEW c \in Buffers, NEW d \in Buffers, NEW i \in Queue(c)', NEW j \in Queue(d)',
                        wait_queue'[c][i] = wait_queue'[d][j]
                 PROVE  c = d /\ i = j
      OBVIOUS
    <3>1. CASE wait_queue'[c][i] = g
      <4>1. ~(i \in Queue(c) /\ wait_queue'[c][i] = wait_queue[c][i])
        BY <1>o, <3>1
      <4>2. ~(j \in Queue(d) /\ wait_queue'[d][j] = wait_queue[d][j])
        BY <1>o, <3>1
      <4>3. c = b /\ i = Len(wait_queue[b]) + 1
        BY <1>n, <4>1
      <4>4. d = b /\ j = Len(wait_queue[b]) + 1
        BY <1>n, <4>2
      <4> QED BY <4>3, <4>4
    <3>2. CASE wait_queue'[c][i] # g
      <4>1. i \in Queue(c) /\ wait_queue'[c][i] = wait_queue[c][i]
        BY <1>n, <3>2
      <4>2. j \in Queue(d) /\ wait_queue'[d][j] = wait_queue[d][j]
        BY <1>n, <3>2
      <4>3. wait_queue[c][i] = wait_queue[d][j]
        BY <4>1, <4>2
      <4> QED BY <1>0, <4>1, <4>2, <4>3 DEF PlaceInv
    <3> QED BY <3>1, <3>2
  <2>5. \A c \in Buffers, x \in Threads : \A i \in Queue(c)' : ~Holds(x, wait_queue[c][i])'
    <3> SUFFICES ASSUME NEW c \in Buffers, NEW x \in Threads, NEW i \in Queue(c)'
                 PROVE  ~Holds(x, wait_queue[c][i])'
      OBVIOUS
    <3>1. CASE wait_queue'[c][i] = g
      <4>1. ~Holds(x, g)'
        BY <1>p, <1>o
      <4> QED BY <3>1, <4>1 DEF Holds
    <3>2. CASE wait_queue'[c][i] # g
      <4>1. i \in Queue(c) /\ wait_queue'[c][i] = wait_queue[c][i]
        BY <1>n, <3>2
      <4>2. PICK s \in Tasks : s = wait_queue[c][i]
        BY <1>m, <4>1
      <4>3. ~Holds(x, s)
        BY <1>0, <4>1, <4>2 DEF PlaceInv
      <4>4. ~Holds(x, s)'
        BY <1>p, <4>3
      <4> QED BY <4>1, <4>2, <4>4 DEF Holds
    <3> QED BY <3>1, <3>2
  <2> QED BY <2>1, <2>2, <2>3, <2>4, <2>5 DEF PlaceInv
<1>10. LiveInv'
  <2>1. ASSUME NEW s \in Tasks PROVE Somewhere(s)' <=> Somewhere(s)
    <3>1. CASE s = g
      <4>1. Somewhere(g)
        BY <1>h DEF Somewhere
      <4>2. Len(wait_queue[b]) + 1 \in Queue(b)'
        BY <1>q, <1>w
      <4>3. Somewhere(g)'
        BY <1>q, <4>2 DEF Somewhere
      <4> QED BY <3>1, <4>1, <4>3
    <3>2. CASE s # g
      <4>1. (\E x \in Threads : Holds(x, s)') <=> \E x \in Threads : Holds(x, s)
        BY <1>p, <3>2
      <4>2. (\E c \in Buffers : \E i \in Queue(c)' : wait_queue'[c][i] = s)
              => \E c \in Buffers : \E i \in Queue(c) : wait_queue[c][i] = s
        BY <1>n, <3>2
      <4>3. (\E c \in Buffers : \E i \in Queue(c) : wait_queue[c][i] = s)
              => \E c \in Buffers : \E i \in Queue(c)' : wait_queue'[c][i] = s
        BY <1>g
      <4>4. ready' = ready
        BY <1>5
      <4> QED BY <4>1, <4>2, <4>3, <4>4 DEF Somewhere
    <3> QED BY <3>1, <3>2
  <2>2. Somewhere(g)
    BY <1>h DEF Somewhere
  <2>3. \A s \in Tasks : status'[s] = "stopped" <=> status[s] = "stopped"
    BY <1>0, <1>s, <2>2 DEF LiveInv
  <2> QED BY <1>0, <2>1, <2>3 DEF LiveInv
<1>11. TokenInv'
  <2>7. UNCHANGED <<token_list, current_buffer, ready, own>>
    BY <1>5
  <2>1. \A x \in Threads :
       /\ pc'[x] \in {"body", "give", "consume"} /\ own'[x] # got'[x] => Full(own[x])'
       /\ pc'[x] = "consume" => Partial(got[x])'
       /\ pc'[x] = "give" => Lacks(got[x])'
    <3> SUFFICES ASSUME NEW x \in Threads
                 PROVE  /\ pc'[x] \in {"body", "give", "consume"} /\ own'[x] # got'[x] => Full(own[x])'
                        /\ pc'[x] = "consume" => Partial(got[x])'
                        /\ pc'[x] = "give" => Lacks(got[x])'
      OBVIOUS
    <3>1. CASE x = th
      BY <1>6, <1>p, <2>7, <3>1 DEF Full
    <3>2. CASE x # th
      BY <1>0, <1>p, <2>7, <3>2 DEF TokenInv, Full, Partial, Lacks
    <3> QED BY <3>1, <3>2
  <2>2. \A c \in Buffers : \A i \in Queue(c)' :
       /\ Lacks(wait_queue[c][i])'
       /\ BufferList[wait_queue'[c][i]][current_buffer'[wait_queue'[c][i]]] = c
    <3> SUFFICES ASSUME NEW c \in Buffers, NEW i \in Queue(c)'
                 PROVE  /\ Lacks(wait_queue[c][i])'
                        /\ BufferList[wait_queue'[c][i]][current_buffer'[wait_queue'[c][i]]] = c
      OBVIOUS
    <3>1. CASE i \in Queue(c) /\ wait_queue'[c][i] = wait_queue[c][i]
      BY <1>0, <2>7, <3>1 DEF TokenInv, Lacks, Partial
    <3>2. CASE c = b /\ wait_queue'[c][i] = g
      BY <1>3, <1>4, <2>7, <3>2 DEF Lacks, Partial
    <3> QED BY <1>n, <3>1, <3>2
  <2>3. \A s \in Tasks : Len(token_list'[s]) <= Len(BufferList[s])
    BY <1>0, <2>7 DEF TokenInv
  <2>4. \A s \in Tasks : status'[s] = "stopped" => token_list'[s] = <<>>
    BY <1>0, <1>s, <2>7 DEF TokenInv
  <2>5. \A s \in ready' : Full(s)'
    BY <1>0, <2>7 DEF TokenInv, Full
  <2> QED BY <2>1, <2>2, <2>3, <2>4, <2>5 DEF TokenInv
<1>12. NoneWaitsBesideTokens'
  <2>1. tokens' = tokens
    BY <1>5
  <2> QED BY <1>0, <1>1, <1>q, <2>1 DEF NoneWaitsBesideTokens
<1>20. WaitInv'
  <2>1. \A c \in Buffers : \A i \in Queue(c)' : status'[wait_queue'[c][i]] = "waiting"
    <3> SUFFICES ASSUME NEW c \in Buffers, NEW i \in Queue(c)'
                 PROVE  status'[wait_queue'[c][i]] = "waiting"
      OBVIOUS
    <3>1. CASE i \in Queue(c) /\ wait_queue'[c][i] = wait_queue[c][i]
      BY <1>0, <1>m, <1>o, <1>s, <3>1 DEF WaitInv
    <3>2. CASE wait_queue'[c][i] = g
      BY <1>s, <3>2
    <3> QED BY <1>n, <3>1, <3>2
  <2> QED BY <2>1 DEF WaitInv
<1> QED BY <1>p, <1>8, <1>9, <1>10, <1>11, <1>12, <1>20 DEF IInv

LEMMA EnableKeeps ==
  ASSUME IInv, NEW th \in Threads, Enable(th)
  PROVE  IInv'
<1>0. /\ TypeInv /\ ThreadInv /\ PlaceInv /\ LiveInv
      /\ TokenInv /\ WaitInv /\ NoneWaitsBesideTokens
  BY DEF IInv
<1>1. pc[th] = "consume" /\ got[th] \in Tasks
  BY <1>0 DEF Enable, TypeInv, ThreadInv
<1>2. PICK g \in Tasks : g = got[th]
  BY <1>1
<1>u. /\ current_buffer[g] > Len(BufferList[g])
      /\ current_buffer' = [current_buffer EXCEPT ![g] = 1]
      /\ ready' = ready \union {g}
      /\ pc' = [pc EXCEPT ![th] = IF g = own[th] THEN "over" ELSE "body"]
      /\ got' = [got EXCEPT ![th] = NULL]
  BY <1>2 DEF Enable
<1>v. PICK mark \in {"ready", "queued"} : status' = [status EXCEPT ![g] = mark]
  BY <1>2 DEF Enable, ReadyMarks
<1>5. UNCHANGED <<tokens, wait_queue, token_list, stop, runs, own, left, tok, passed, used, dropped>>
  BY DEF Enable, bufferVars, history
<1>6. pc'[th] = IF g = own[th] THEN "over" ELSE "body"
  BY <1>0, <1>u DEF TypeInv
<1>p. /\ pc' \in [Threads -> {"idle", "body", "give", "consume", "retire", "over"}]
      /\ got' \in [Threads -> Tasks \union {NULL}]
      /\ ThreadInv'
      /\ \A x \in Threads, s \in Tasks : Holds(x, s)' <=> Holds(x, s) /\ ~(x = th /\ s = g)
      /\ \A x \in Threads : x # th => pc'[x] = pc[x] /\ got'[x] = got[x]
      /\ pc'[th] = "body" => own[th] \in Tasks /\ own[th] # g /\ Full(own[th])
  <2>1. pc' = [pc EXCEPT ![th] = pc'[th]]
    BY <1>0, <1>u, <1>6 DEF TypeInv
  <2>2. got' = [got EXCEPT ![th] = NULL] /\ own' = own
    BY <1>5, <1>u
  <2>3. /\ pc'[th] \in {"idle", "body", "retire", "over"}
        /\ pc'[th] = "body" <=> own[th] # g
        /\ pc'[th] # "idle"
    BY <1>6
  <2> QED BY <1>0, <1>1, <1>2, <2>1, <2>2, <2>3, PutAway
<1>h. Holds(th, g) /\ g # NULL
  BY <1>1, <1>2, NullAssumption DEF Holds
<1>o. /\ g \notin ready
      /\ \A x \in Threads \ {th} : ~Holds(x, g)
      /\ \A x \in Threads \ {th} : pc[x] \in {"body", "give", "consume"} => own[x] # g /\ got[x] # g
      /\ \A c \in Buffers : \A i \in Queue(c) : wait_queue[c][i] # g
  BY <1>0, <1>h, OnlyHolder
<1>q. \A c \in Buffers : Queue(c)' = Queue(c)
  BY <1>5 DEF Queue
<1>m. \A c \in Buffers : \A i \in Queue(c) : wait_queue[c][i] \in Tasks
  BY <1>0, Emptied DEF TypeInv, Queue
<1>s. /\ status'[g] = mark /\ mark # "stopped" /\ current_buffer'[g] = 1
      /\ \A s \in Tasks : s # g => status'[s] = status[s] /\ current_buffer'[s] = current_buffer[s]
  BY <1>0, <1>u, <1>v DEF TypeInv
<1>8. TypeInv'
  <2>1. /\ status' \in [Tasks -> {"waiting", "ready", "queued", "running", "stopped"}]
        /\ current_buffer' \in [Tasks -> Nat \ {0}]
        /\ ready' \subseteq Tasks
    BY <1>0, <1>u, <1>v DEF TypeInv
  <2> QED BY <1>0, <1>5, <1>p, <2>1 DEF TypeInv
<1>9. PlaceInv'
  <2>1. \A x, u \in Threads, s \in Tasks : Holds(x, s)' /\ Holds(u, s)' => x = u
    BY <1>0, <1>p DEF PlaceInv
  <2>2. \A x \in Threads, s \in ready' : ~Holds(x, s)'
    BY <1>0, <1>p, <1>o, <1>u DEF PlaceInv, TypeInv
  <2>3. \A c \in Buffers : \A i \in Queue(c) : wait_queue[c][i] \notin ready'
    BY <1>0, <1>o, <1>u DEF PlaceInv
  <2>4. \A c, d \in Buffers : \A i \in Queue(c), j \in Queue(d) :
           wait_queue[c][i] = wait_queue[d][j] => c = d /\ i = j
    BY <1>0 DEF PlaceInv
  <2>5. \A c \in Buffers, x \in Threads : \A i \in Queue(c) : ~Holds(x, wait_queue[c][i])'
    <3> SUFFICES ASSUME NEW c \in Buffers, NEW x \in Threads, NEW i \in Queue(c)
                 PROVE  ~Holds(x, wait_queue[c][i])'
      OBVIOUS
    <3>1. PICK s \in Tasks : s = wait_queue[c][i]
      BY <1>m
    <3>2. ~Holds(x, s)
      BY <1>0, <3>1 DEF PlaceInv
    <3>3. ~Holds(x, s)'
      BY <1>p, <3>2
    <3> QED BY <1>5, <3>1, <3>3 DEF Holds
  <2>6. wait_queue' = wait_queue
    BY <1>5
  <2> QED BY <1>q, <2>1, <2>2, <2>3, <2>4, <2>5, <2>6 DEF PlaceInv
<1>10. LiveInv'
  <2>1. ASSUME NEW s \in Tasks PROVE Somewhere(s)' <=> Somewhere(s)
    <3>1. CASE s = g
      BY <1>h, <1>u, <3>1 DEF Somewhere
    <3>2. CASE s # g
      <4>1. (\E x \in Threads : Holds(x, s)') <=> \E x \in Threads : Holds(x, s)
        BY <1>p, <3>2
      <4>2. wait_queue' = wait_queue
        BY <1>5
      <4> QED BY <1>q, <1>u, <3>2, <4>1, <4>2 DEF Somewhere
    <3> QED BY <3>1, <3>2
  <2>2. Somewhere(g)
    BY <1>h DEF Somewhere
  <2>3. \A s \in Tasks : status'[s] = "stopped" <=> status[s] = "stopped"
    BY <1>0, <1>s, <2>2 DEF LiveInv
  <2> QED BY <1>0, <2>1, <2>3 DEF LiveInv
<1>11. TokenInv'
  <2>7. UNCHANGED <<token_list, own, wait_queue>>
    BY <1>5
  <2>8. Full(g)'
    <3>1. Partial(g)
      BY <1>0, <1>1, <1>2 DEF TokenInv
    <3>2. Len(token_list[g]) \in Nat /\ Len(BufferList[g]) \in Nat
      BY <1>0, BufferListAssumption, Emptied DEF TypeInv
    <3>3. Len(token_list[g]) = Len(BufferList[g])
      BY <1>u, <3>1, <3>2 DEF Partial
    <3> QED BY <1>s, <2>7, <3>3 DEF Full
  <2>1. \A x \in Threads :
       /\ pc'[x] \in {"body", "give", "consume"} /\ own'[x] # got'[x] => Full(own[x])'
       /\ pc'[x] = "consume" => Partial(got[x])'
       /\ pc'[x] = "give" => Lacks(got[x])'
    <3> SUFFICES ASSUME NEW x \in Threads
                 PROVE  /\ pc'[x] \in {"body", "give", "consume"} /\ own'[x] # got'[x] => Full(own[x])'
                        /\ pc'[x] = "consume" => Partial(got[x])'
                        /\ pc'[x] = "give" => Lacks(got[x])'
      OBVIOUS
    <3>1. CASE x = th
      BY <1>6, <1>p, <1>s, <2>7, <3>1 DEF Full
    <3>2. CASE x # th
      <4>1. pc[x] \in {"body", "give", "consume"} => own[x] \in Tasks /\ own[x] # g
        BY <1>0, <1>o, <3>2 DEF TypeInv, ThreadInv
      <4>2. pc[x] \in {"give", "consume"} => got[x] \in Tasks /\ got[x] # g
        BY <1>0, <1>o, <3>2 DEF TypeInv, ThreadInv
      <4>3. pc[x] \in {"body", "give", "consume"} /\ own[x] # got[x] => Full(own[x])'
        BY <1>0, <1>s, <2>7, <4>1 DEF TokenInv, Full
      <4>4. pc'[x] = pc[x] /\ got'[x] = got[x]
        BY <1>p, <3>2
      <4>5. pc[x] = "consume" => Partial(got[x])'
        BY <1>0, <1>s, <2>7, <4>2, <4>4 DEF TokenInv, Partial
      <4>6. pc[x] = "give" => Lacks(got[x])'
        BY <1>0, <1>s, <2>7, <4>2, <4>4 DEF TokenInv, Lacks, Partial
      <4> QED BY <2>7, <4>3, <4>4, <4>5, <4>6
    <3> QED BY <3>1, <3>2
  <2>2. \A c \in Buffers : \A i \in Queue(c)' :
       /\ Lacks(wait_queue[c][i])'
       /\ BufferList[wait_queue'[c][i]][current_buffer'[wait_queue'[c][i]]] = c
    <3> SUFFICES ASSUME NEW c \in Buffers, NEW i \in Queue(c)
                 PROVE  /\ Lacks(wait_queue[c][i])'
                        /\ BufferList[wait_queue'[c][i]][current_buffer'[wait_queue'[c][i]]] = c
      BY <1>q
    <3>1. wait_queue[c][i] \in Tasks /\ wait_queue[c][i] # g
      BY <1>m, <1>o
    <3>2. Lacks(wait_queue[c][i]) /\ BufferList[wait_queue[c][i]][current_buffer[wait_queue[c][i]]] = c
      BY <1>0 DEF TokenInv
    <3> QED BY <1>s, <2>7, <3>1, <3>2 DEF Lacks, Partial
  <2>3. \A s \in Tasks : Len(token_list'[s]) <= Len(BufferList[s])
    BY <1>0, <2>7 DEF TokenInv
  <2>4. \A s \in Tasks : status'[s] = "stopped" => token_list'[s] = <<>>
    BY <1>0, <1>s, <2>7 DEF TokenInv
  <2>5. \A s \in ready' : Full(s)'
    <3> SUFFICES ASSUME NEW s \in ready' PROVE Full(s)'
      OBVIOUS
    <3>1. CASE s = g
      BY <2>8, <3>1 DEF Full
    <3>2. CASE s # g
      BY <1>0, <1>u, <1>s, <2>7, <3>2 DEF TypeInv, TokenInv, Full
    <3> QED BY <3>1, <3>2
  <2> QED BY <2>1, <2>2, <2>3, <2>4, <2>5 DEF TokenInv
<1>12. NoneWaitsBesideTokens'
  BY <1>0, <1>5 DEF NoneWaitsBesideTokens
<1>20. WaitInv'
  BY <1>0, <1>o, <1>v, <1>5, WaitKept
<1> QED BY <1>p, <1>8, <1>9, <1>10, <1>11, <1>12, <1>20 DEF IInv

LEMMA MarkKeeps ==
  ASSUME IInv, NEW t \in Tasks, Mark(t)
  PROVE  IInv'
<1>0. /\ TypeInv /\ ThreadInv /\ PlaceInv /\ LiveInv
      /\ TokenInv /\ WaitInv /\ NoneWaitsBesideTokens
  BY DEF IInv
<1>1. /\ t \in ready
      /\ UNCHANGED <<tokens, wait_queue, token_list, current_buffer, stop, ready, runs, pc, own,
                     left, got, tok, passed, used, dropped>>
  BY DEF Mark, bufferVars, threadVars, history
<1>2. PICK mark \in {"ready", "queued"} : status' = [status EXCEPT ![t] = mark]
  BY DEF Mark, ReadyMarks
<1>3. \A s \in Tasks : status'[s] = "stopped" <=> status[s] = "stopped"
  <2>1. status[t] # "stopped"
    BY <1>0, <1>1 DEF LiveInv, Somewhere
  <2> QED BY <1>0, <1>2, <2>1 DEF TypeInv
<1>4. TypeInv'
  <2>1. status' \in [Tasks -> {"waiting", "ready", "queued", "running", "stopped"}]
    BY <1>0, <1>2 DEF TypeInv
  <2> QED BY <1>0, <1>1, <2>1 DEF TypeInv
<1>5. ThreadInv'
  BY <1>0, <1>1 DEF ThreadInv
<1>6. PlaceInv' /\ LiveInv'
  <2>1. \A x \in Threads, s \in Tasks : Holds(x, s)' <=> Holds(x, s)
    BY <1>1 DEF Holds
  <2> QED BY <1>0, <1>1, <1>3, <2>1, PlaceKept DEF TypeInv
<1>7. TokenInv'
  BY <1>0, <1>1, <1>3 DEF TokenInv, Full, Partial, Lacks, Queue
<1>8. WaitInv' /\ NoneWaitsBesideTokens'
  <2>1. \A b \in Buffers : \A i \in Queue(b) : wait_queue[b][i] # t
    BY <1>0, <1>1 DEF PlaceInv
  <2> QED BY <1>0, <1>1, <1>2, <2>1, WaitKept DEF NoneWaitsBesideTokens
<1> QED BY <1>4, <1>5, <1>6, <1>7, <1>8 DEF IInv

\* A step in which the dataflow has no part.
LEMMA StutterKeeps == IInv /\ UNCHANGED vars => IInv'
<1> SUFFICES ASSUME IInv, UNCHANGED vars PROVE IInv'
  OBVIOUS
<1>0. /\ TypeInv /\ ThreadInv /\ PlaceInv /\ LiveInv
      /\ TokenInv /\ WaitInv /\ NoneWaitsBesideTokens
  BY DEF IInv
<1>1. UNCHANGED <<tokens, wait_queue, token_list, current_buffer, status, stop, ready, runs, pc, own,
                  left, got, tok, passed, used, dropped>>
  BY DEF vars, bufferVars, taskVars, threadVars, history
<1>2. TypeInv'
  BY <1>0, <1>1 DEF TypeInv
<1>3. ThreadInv'
  BY <1>0, <1>1 DEF ThreadInv
<1>4. \A x \in Threads, s \in Tasks : Holds(x, s)' <=> Holds(x, s)
  BY <1>1 DEF Holds
<1>5. PlaceInv' /\ LiveInv'
  BY <1>0, <1>1, <1>4, PlaceKept DEF TypeInv
<1>6. TokenInv'
  BY <1>0, <1>1 DEF TokenInv, Full, Partial, Lacks, Queue
<1>7. NoneWaitsBesideTokens'
  BY <1>0, <1>1 DEF NoneWaitsBesideTokens
<1>20. WaitInv'
  BY <1>0, <1>1 DEF WaitInv, Queue
<1> QED BY <1>2, <1>3, <1>5, <1>6, <1>7, <1>20 DEF IInv

LEMMA ProceedKeeps ==
  ASSUME IInv, NEW th \in Threads, Proceed(th)
  PROVE  IInv'
BY ReturnKeeps, DepositKeeps, DequeueKeeps, GiveKeeps, GetTokenKeeps, EnqueueTaskKeeps DEF Proceed

LEMMA NextKeeps == IInv /\ [Next]_vars => IInv'
<1> SUFFICES ASSUME IInv, [Next]_vars PROVE IInv'
  OBVIOUS
<1>1. ASSUME NEW th \in Threads, NEW t \in Tasks, Begin(th, t) PROVE IInv'
  BY <1>1, RunKeeps DEF Begin
<1>2. ASSUME NEW th \in Threads, Proceed(th) PROVE IInv'
  BY <1>2, ProceedKeeps
<1>3. ASSUME NEW th \in Threads, Enable(th) PROVE IInv'
  BY <1>3, EnableKeeps
<1>4. ASSUME NEW th \in Threads, End(th) PROVE IInv'
  BY <1>4, EndKeeps
<1>5. CASE UNCHANGED vars
  BY <1>5, StutterKeeps
<1>6. ASSUME NEW t \in Tasks, Mark(t) PROVE IInv'
  BY <1>6, MarkKeeps
<1> QED BY <1>1, <1>2, <1>3, <1>4, <1>5, <1>6 DEF Next

\* The invariant holds throughout (buffer.cpp, taskqueue.cpp).
THEOREM Invariant == Spec => []IInv
BY InitInv, NextKeeps, PTL DEF Spec

-----------------------------------------------------------------------------
(* The theorems.                                                           *)

LEMMA TypesHold == IInv => TypeOK
<1> SUFFICES ASSUME IInv PROVE TypeOK
  OBVIOUS
<1>1. TypeInv /\ \A t \in Tasks : Len(token_list[t]) <= Len(BufferList[t])
  BY DEF IInv, TokenInv
<1> QED BY <1>1 DEF TypeInv, TypeOK

\* Buffers stay within their capacity and no task has more tokens than it takes,
\* whatever the threads do (buffer.cpp, taskqueue.cpp).
THEOREM TypeCorrect == Spec => []TypeOK
BY Invariant, TypesHold, PTL

\* A buffer that has tokens has no tasks waiting: the two lookups under its lock
\* never miss each other (buffer.cpp, RequestToken and PassToken2Buffer).
THEOREM NoneSleepsBesideTokens == Spec => []NoneWaitsBesideTokens
<1>1. IInv => NoneWaitsBesideTokens
  BY DEF IInv
<1> QED BY <1>1, Invariant, PTL

\* A task is never run before it has a token of each of its buffers.
RunsWithAllTokens == \A t \in ready : Len(token_list[t]) = Len(BufferList[t])

\* No task is given to the scheduler, or run, with tokens missing, although several
\* threads collect tokens at the same time (buffer.cpp, ConsumeTokens).
THEOREM ReadyTasksHaveTokens == Spec => []RunsWithAllTokens
<1>1. IInv => RunsWithAllTokens
  BY DEF IInv, TokenInv, Full, RunsWithAllTokens
<1> QED BY <1>1, Invariant, PTL

LEMMA PlacesCount == IInv => TasksInOnePlace
<1> SUFFICES ASSUME IInv, NEW t \in Tasks
             PROVE  Cardinality(WaitsAt(t)) + Cardinality(HeldBy(t)) + Cardinality(ready \intersect {t})
                      = IF status[t] = "stopped" THEN 0 ELSE 1
  BY DEF TasksInOnePlace
<1>0. TypeInv /\ PlaceInv /\ LiveInv
  BY DEF IInv
<1>1. \A b \in Buffers : DOMAIN wait_queue[b] = Queue(b)
  BY <1>0, Emptied DEF TypeInv, Queue
<1>2. \A p : p \in WaitsAt(t) <=> \E b \in Buffers : \E i \in Queue(b) : p = <<b, i>> /\ wait_queue[b][i] = t
  BY <1>1 DEF WaitsAt
<1>3. HeldBy(t) = {th \in Threads : Holds(th, t)}
  BY DEF HeldBy, Holds
<1>4. \A x : Cardinality({x}) = 1
  BY FS_Singleton
<1>5. Cardinality({}) = 0
  BY FS_EmptySet
<1>6. CASE t \in ready
  <2>1. WaitsAt(t) = {}
    BY <1>0, <1>2, <1>6 DEF PlaceInv
  <2>2. HeldBy(t) = {}
    BY <1>0, <1>3, <1>6 DEF PlaceInv
  <2>3. ready \intersect {t} = {t}
    BY <1>6
  <2>4. status[t] # "stopped"
    BY <1>0, <1>6 DEF LiveInv, Somewhere
  <2> QED BY <1>4, <1>5, <2>1, <2>2, <2>3, <2>4
<1>7. CASE \E th \in Threads : Holds(th, t)
  <2>1. PICK th \in Threads : Holds(th, t)
    BY <1>7
  <2>2. WaitsAt(t) = {}
    BY <1>0, <1>2, <2>1 DEF PlaceInv
  <2>3. HeldBy(t) = {th}
    BY <1>0, <1>3, <2>1 DEF PlaceInv
  <2>4. ready \intersect {t} = {}
    BY <1>0, <2>1 DEF PlaceInv
  <2>5. status[t] # "stopped"
    BY <1>0, <2>1 DEF LiveInv, Somewhere
  <2>6. Cardinality(WaitsAt(t)) = 0 /\ Cardinality(HeldBy(t)) = 1 /\ Cardinality(ready \intersect {t}) = 0
    BY <1>4, <1>5, <2>2, <2>3, <2>4
  <2> QED BY <2>5, <2>6
<1>8. CASE \E b \in Buffers : \E i \in Queue(b) : wait_queue[b][i] = t
  <2>0. PICK b \in Buffers : \E i \in Queue(b) : wait_queue[b][i] = t
    BY <1>8
  <2>1. PICK i \in Queue(b) : wait_queue[b][i] = t
    BY <2>0
  <2>2. \A c \in Buffers : \A j \in Queue(c) : wait_queue[c][j] = t => c = b /\ j = i
    BY <1>0, <2>1 DEF PlaceInv
  <2>3. WaitsAt(t) = {<<b, i>>}
    BY <1>2, <2>1, <2>2
  <2>4. HeldBy(t) = {}
    BY <1>0, <1>3, <2>1 DEF PlaceInv
  <2>5. ready \intersect {t} = {}
    BY <1>0, <2>1 DEF PlaceInv
  <2>6. status[t] # "stopped"
    BY <1>0, <2>1 DEF LiveInv, Somewhere
  <2>7. Cardinality(WaitsAt(t)) = 1 /\ Cardinality(HeldBy(t)) = 0 /\ Cardinality(ready \intersect {t}) = 0
    BY <1>4, <1>5, <2>3, <2>4, <2>5
  <2> QED BY <2>6, <2>7
<1>9. CASE ~Somewhere(t)
  <2>1. WaitsAt(t) = {}
    BY <1>2, <1>9 DEF Somewhere
  <2>2. HeldBy(t) = {}
    BY <1>3, <1>9 DEF Somewhere
  <2>3. ready \intersect {t} = {}
    BY <1>9 DEF Somewhere
  <2>4. status[t] = "stopped"
    BY <1>0, <1>9 DEF LiveInv
  <2> QED BY <1>5, <2>1, <2>2, <2>3, <2>4
<1> QED BY <1>6, <1>7, <1>8, <1>9 DEF Somewhere

\* Until it is stopped a task is at one place: in the queue of one buffer, with one
\* thread or with the scheduler.  It is neither lost nor run twice.
THEOREM TasksStayInOnePlace == Spec => []TasksInOnePlace
BY Invariant, PlacesCount, PTL
-----------------------------------------------------------------------------
(* Where the tokens are.                                                   *)

Needed(t) == BufferList[t][current_buffer[t]]

\* Token n of buffer b is in the buffer, in the list of task t at j, in the hands of thread th.
Here(b, n)         == \E i \in 1..Len(tokens[b]) : tokens[b][i] = n
Listed(b, t, j, n) == j \in 1..Len(token_list[t]) /\ BufferList[t][j] = b /\ token_list[t][j] = n
Handed(b, th, n)   == pc[th] = "give" /\ tok[th] = n /\ Needed(got[th]) = b

\* It has left the buffer for a task.
Out(b, n) ==
  \/ n \in used[b]
  \/ \E t \in Tasks, j \in Nat : Listed(b, t, j, n)
  \/ \E th \in Threads : Handed(b, th, n)

\* A token that was passed is in the buffer, lost or out; the oldest go out first.
CoverInv ==
  \A b \in Buffers, n \in Nat : n \in 1..passed[b] <=> Here(b, n) \/ n \in dropped[b] \/ Out(b, n)
LostInv  == \A b \in Buffers : \A n \in dropped[b] : ~Here(b, n) /\ ~Out(b, n)
OrderInv ==
  \A b \in Buffers :
    /\ \A n, m \in Nat : Here(b, n) /\ Out(b, m) => m < n
    /\ \A i, j \in 1..Len(tokens[b]) : i < j => tokens[b][i] < tokens[b][j]

\* It has one holder.
HolderInv ==
  \A b \in Buffers, n \in Nat :
    /\ n \in used[b] => /\ \A t \in Tasks, j \in Nat : ~Listed(b, t, j, n)
                        /\ \A th \in Threads : ~Handed(b, th, n)
    /\ \A s, t \in Tasks, i, j \in Nat : Listed(b, s, i, n) /\ Listed(b, t, j, n) => s = t /\ i = j
    /\ \A t \in Tasks, j \in Nat, th \in Threads : ~(Listed(b, t, j, n) /\ Handed(b, th, n))
    /\ \A th, u \in Threads : Handed(b, th, n) /\ Handed(b, u, n) => th = u

ConserveInv == CoverInv /\ LostInv /\ OrderInv /\ HolderInv

LEMMA InitConserve == Init => ConserveInv
<1> SUFFICES ASSUME Init PROVE ConserveInv
  OBVIOUS
<1>1. \A b \in Buffers : tokens[b] = <<>> /\ passed[b] = 0 /\ used[b] = {} /\ dropped[b] = {}
  BY DEF Init
<1>2. \A b \in Buffers, n \in Nat : ~Here(b, n)
  BY <1>1 DEF Here
<1>3. \A b \in Buffers, t \in Tasks, j \in Nat, n \in Nat : ~Listed(b, t, j, n)
  BY DEF Init, Listed
<1>4. \A b \in Buffers, th \in Threads, n \in Nat : ~Handed(b, th, n)
  BY DEF Init, Handed
<1>5. \A b \in Buffers, n \in Nat : ~Out(b, n)
  BY <1>1, <1>3, <1>4 DEF Out
<1>6. CoverInv
  BY <1>1, <1>2, <1>5 DEF CoverInv
<1>7. LostInv /\ OrderInv
  BY <1>1, <1>2, <1>5 DEF LostInv, OrderInv
<1>8. HolderInv
  BY <1>1, <1>3, <1>4 DEF HolderInv
<1> QED BY <1>6, <1>7, <1>8 DEF ConserveInv

\* Nobody gets a token.
LEMMA HolderKept ==
  ASSUME HolderInv, used' = used,
         \A b \in Buffers, t \in Tasks, j \in Nat, n \in Nat : Listed(b, t, j, n)' <=> Listed(b, t, j, n),
         \A b \in Buffers, th \in Threads, n \in Nat : Handed(b, th, n)' <=> Handed(b, th, n)
  PROVE  HolderInv'
BY DEF HolderInv

\* No token comes or goes.
LEMMA ConserveKept ==
  ASSUME TypeInv, ConserveInv, UNCHANGED <<tokens, passed, dropped, used>>,
         \A b \in Buffers, t \in Tasks, j \in Nat, n \in Nat : Listed(b, t, j, n)' <=> Listed(b, t, j, n),
         \A b \in Buffers, th \in Threads, n \in Nat : Handed(b, th, n)' <=> Handed(b, th, n)
  PROVE  ConserveInv'
<1>1. \A b \in Buffers, n \in Nat : Out(b, n)' <=> Out(b, n)
  BY DEF Out
<1>2. \A b \in Buffers, n \in Nat : Here(b, n)' <=> Here(b, n)
  BY DEF Here
<1>d. \A b \in Buffers : \A n \in dropped[b] : n \in Nat
  BY DEF TypeInv
<1>3. CoverInv'
  BY <1>1, <1>2 DEF ConserveInv, CoverInv
<1>4. LostInv'
  BY <1>1, <1>2, <1>d DEF ConserveInv, LostInv
<1>5. OrderInv'
  BY <1>1, <1>2 DEF ConserveInv, OrderInv
<1>6. HolderInv'
  BY HolderKept DEF ConserveInv
<1> QED BY <1>3, <1>4, <1>5, <1>6 DEF ConserveInv

\* A token that is out goes on to another holder.
LEMMA OutKept ==
  ASSUME TypeInv, CoverInv, LostInv, OrderInv, UNCHANGED <<tokens, passed, dropped>>,
         \A b \in Buffers, n \in Nat : Out(b, n)' <=> Out(b, n)
  PROVE  CoverInv' /\ LostInv' /\ OrderInv'
<1>2. \A b \in Buffers, n \in Nat : Here(b, n)' <=> Here(b, n)
  BY DEF Here
<1>d. \A b \in Buffers : \A n \in dropped[b] : n \in Nat
  BY DEF TypeInv
<1>3. CoverInv'
  BY <1>2 DEF CoverInv
<1>4. LostInv'
  BY <1>2, <1>d DEF LostInv
<1>5. OrderInv'
  BY <1>2 DEF OrderInv
<1> QED BY <1>3, <1>4, <1>5

\* What threads have in their hands, when thread th has nothing to give before and after.
LEMMA HandsKept ==
  ASSUME TypeInv, ThreadInv, NEW th \in Threads, pc[th] # "give", pc'[th] # "give",
         \A x \in Threads : x # th => pc'[x] = pc[x] /\ got'[x] = got[x] /\ tok'[x] = tok[x],
         \A x \in Threads : x # th /\ pc[x] = "give" => current_buffer'[got[x]] = current_buffer[got[x]]
  PROVE  \A b \in Buffers, x \in Threads, n \in Nat : Handed(b, x, n)' <=> Handed(b, x, n)
<1> SUFFICES ASSUME NEW b \in Buffers, NEW x \in Threads, NEW n \in Nat
             PROVE  Handed(b, x, n)' <=> Handed(b, x, n)
  OBVIOUS
<1>1. CASE x = th
  BY <1>1 DEF Handed
<1>2. CASE x # th
  BY <1>2 DEF Handed, Needed
<1> QED BY <1>1, <1>2

LEMMA RunConserves ==
  ASSUME IInv, ConserveInv, NEW th \in Threads, NEW t \in ready, Run(th, t)
  PROVE  ConserveInv'
<1>0. TypeInv /\ ThreadInv
  BY DEF IInv
<1>1. /\ UNCHANGED <<tokens, passed, dropped, used, token_list, current_buffer, got, tok>>
      /\ pc[th] = "idle" /\ pc' = [pc EXCEPT ![th] = "body"]
  BY DEF Run, bufferVars, history
<1>2. \A b \in Buffers, x \in Threads, n \in Nat : Handed(b, x, n)' <=> Handed(b, x, n)
  <2>1. pc'[th] = "body" /\ \A x \in Threads : x # th => pc'[x] = pc[x]
    BY <1>0, <1>1 DEF TypeInv
  <2> QED BY <1>0, <1>1, <2>1, HandsKept
<1>3. \A b \in Buffers, s \in Tasks, j \in Nat, n \in Nat : Listed(b, s, j, n)' <=> Listed(b, s, j, n)
  BY <1>1 DEF Listed
<1> QED BY <1>0, <1>1, <1>2, <1>3, ConserveKept

LEMMA EndConserves ==
  ASSUME IInv, ConserveInv, NEW th \in Threads, End(th)
  PROVE  ConserveInv'
<1>0. TypeInv /\ ThreadInv
  BY DEF IInv
<1>1. /\ UNCHANGED <<tokens, passed, dropped, used, token_list, current_buffer, got, tok>>
      /\ pc[th] \in {"retire", "over"} /\ pc' = [pc EXCEPT ![th] = "idle"]
  BY DEF End, bufferVars, taskVars, history
<1>2. \A b \in Buffers, x \in Threads, n \in Nat : Handed(b, x, n)' <=> Handed(b, x, n)
  <2>1. pc'[th] = "idle" /\ \A x \in Threads : x # th => pc'[x] = pc[x]
    BY <1>0, <1>1 DEF TypeInv
  <2> QED BY <1>0, <1>1, <2>1, HandsKept
<1>3. \A b \in Buffers, s \in Tasks, j \in Nat, n \in Nat : Listed(b, s, j, n)' <=> Listed(b, s, j, n)
  BY <1>1 DEF Listed
<1> QED BY <1>0, <1>1, <1>2, <1>3, ConserveKept

LEMMA EnqueueTaskConserves ==
  ASSUME IInv, ConserveInv, NEW th \in Threads, EnqueueTask(th)
  PROVE  ConserveInv'
<1>0. TypeInv /\ ThreadInv
  BY DEF IInv
<1>1. /\ UNCHANGED <<tokens, passed, dropped, used, token_list, current_buffer, tok>>
      /\ pc[th] = "consume"
      /\ pc' = [pc EXCEPT ![th] = IF got[th] = own[th] THEN "retire" ELSE "body"]
      /\ got' = [got EXCEPT ![th] = NULL]
  BY DEF EnqueueTask, Needs, history
<1>2. \A b \in Buffers, x \in Threads, n \in Nat : Handed(b, x, n)' <=> Handed(b, x, n)
  <2>1. /\ pc'[th] # "give"
        /\ \A x \in Threads : x # th => pc'[x] = pc[x] /\ got'[x] = got[x]
    BY <1>0, <1>1 DEF TypeInv
  <2> QED BY <1>0, <1>1, <2>1, HandsKept
<1>3. \A b \in Buffers, s \in Tasks, j \in Nat, n \in Nat : Listed(b, s, j, n)' <=> Listed(b, s, j, n)
  BY <1>1 DEF Listed
<1> QED BY <1>0, <1>1, <1>2, <1>3, ConserveKept

LEMMA EnableConserves ==
  ASSUME IInv, ConserveInv, NEW th \in Threads, Enable(th)
  PROVE  ConserveInv'
<1>0. TypeInv /\ ThreadInv /\ PlaceInv
  BY DEF IInv
<1>1. /\ UNCHANGED <<tokens, passed, dropped, used, token_list, tok>>
      /\ pc[th] = "consume"
      /\ pc' = [pc EXCEPT ![th] = IF got[th] = own[th] THEN "over" ELSE "body"]
      /\ got' = [got EXCEPT ![th] = NULL]
      /\ current_buffer' = [current_buffer EXCEPT ![got[th]] = 1]
  BY DEF Enable, bufferVars, history
<1>2. \A b \in Buffers, x \in Threads, n \in Nat : Handed(b, x, n)' <=> Handed(b, x, n)
  <2>1. /\ pc'[th] # "give"
        /\ \A x \in Threads : x # th => pc'[x] = pc[x] /\ got'[x] = got[x]
    BY <1>0, <1>1 DEF TypeInv
  <2>2. PICK g \in Tasks : g = got[th]
    BY <1>0, <1>1 DEF TypeInv, ThreadInv
  <2>3. \A x \in Threads : x # th /\ pc[x] = "give" => got[x] # g /\ got[x] \in Tasks
    <3>1. Holds(th, g)
      BY <1>1, <2>2 DEF Holds
    <3> QED BY <1>0, <3>1, OnlyHolder DEF TypeInv, ThreadInv
  <2>4. \A s \in Tasks : s # g => current_buffer'[s] = current_buffer[s]
    BY <1>0, <1>1, <2>2 DEF TypeInv
  <2> QED BY <1>0, <1>1, <2>1, <2>3, <2>4, HandsKept
<1>3. \A b \in Buffers, s \in Tasks, j \in Nat, n \in Nat : Listed(b, s, j, n)' <=> Listed(b, s, j, n)
  BY <1>1 DEF Listed
<1> QED BY <1>0, <1>1, <1>2, <1>3, ConserveKept

LEMMA ReturnConserves ==
  ASSUME IInv, ConserveInv, NEW th \in Threads, Return(th)
  PROVE  ConserveInv'
<1>0. TypeInv /\ ThreadInv /\ CoverInv /\ LostInv /\ OrderInv /\ HolderInv
  BY DEF IInv, ConserveInv
<1>t. PICK t \in Tasks : t = own[th] /\ pc[th] = "body"
  BY <1>0 DEF TypeInv, ThreadInv, Return
<1>1. /\ UNCHANGED <<tokens, passed, dropped, current_buffer, tok>>
      /\ token_list' = [token_list EXCEPT ![t] = <<>>]
      /\ pc' = [pc EXCEPT ![th] = "retire"] \/ pc' = [pc EXCEPT ![th] = "consume"]
      /\ got' = got \/ got' = [got EXCEPT ![th] = t]
      /\ used' = [b \in Buffers |-> used[b] \union
           {token_list[t][j] : j \in {i \in DOMAIN token_list[t] : BufferList[t][i] = b}}]
  BY <1>t DEF Return, bufferVars
<1>2. \A b \in Buffers, x \in Threads, n \in Nat : Handed(b, x, n)' <=> Handed(b, x, n)
  <2>1. /\ pc'[th] # "give"
        /\ \A x \in Threads : x # th => pc'[x] = pc[x] /\ got'[x] = got[x]
    BY <1>0, <1>1 DEF TypeInv
  <2> QED BY <1>0, <1>1, <1>t, <2>1, HandsKept
<1>3. \A b \in Buffers, s \in Tasks, j \in Nat, n \in Nat :
        Listed(b, s, j, n)' <=> Listed(b, s, j, n) /\ s # t
  <2>1. \A s \in Tasks : token_list'[s] = IF s = t THEN <<>> ELSE token_list[s]
    BY <1>0, <1>1 DEF TypeInv
  <2>2. \A s \in Tasks : s # t => token_list'[s] = token_list[s]
    BY <2>1
  <2>3. Len(token_list'[t]) = 0
    BY <2>1
  <2>4. \A b \in Buffers, j \in Nat, n \in Nat : ~Listed(b, t, j, n)'
    BY <2>3 DEF Listed
  <2>5. \A b \in Buffers, s \in Tasks, j \in Nat, n \in Nat :
          s # t => (Listed(b, s, j, n)' <=> Listed(b, s, j, n))
    BY <2>2 DEF Listed
  <2> QED BY <2>4, <2>5
<1>4. \A b \in Buffers, n \in Nat : n \in used'[b] <=> n \in used[b] \/ \E j \in Nat : Listed(b, t, j, n)
  <2>1. DOMAIN token_list[t] = 1..Len(token_list[t]) /\ \A j \in 1..Len(token_list[t]) : j \in Nat
    BY <1>0, Emptied DEF TypeInv
  <2> SUFFICES ASSUME NEW b \in Buffers, NEW n \in Nat
               PROVE  n \in used'[b] <=> n \in used[b] \/ \E j \in Nat : Listed(b, t, j, n)
    OBVIOUS
  <2>2. used'[b] = used[b] \union
           {token_list[t][j] : j \in {i \in 1..Len(token_list[t]) : BufferList[t][i] = b}}
    BY <1>1, <2>1
  <2> QED BY <2>1, <2>2 DEF Listed
<1>5. \A b \in Buffers, n \in Nat : Out(b, n)' <=> Out(b, n)
  BY <1>2, <1>3, <1>4 DEF Out
<1>6. CoverInv' /\ LostInv' /\ OrderInv'
  BY <1>0, <1>1, <1>5, OutKept
<1>7. HolderInv'
  <2> SUFFICES ASSUME NEW b \in Buffers, NEW n \in Nat
               PROVE
    /\ n \in used'[b] => /\ \A s \in Tasks, j \in Nat : ~Listed(b, s, j, n)'
                         /\ \A x \in Threads : ~Handed(b, x, n)'
    /\ \A r, s \in Tasks, i, j \in Nat : Listed(b, r, i, n)' /\ Listed(b, s, j, n)' => r = s /\ i = j
    /\ \A s \in Tasks, j \in Nat, x \in Threads : ~(Listed(b, s, j, n)' /\ Handed(b, x, n)')
    /\ \A x, u \in Threads : Handed(b, x, n)' /\ Handed(b, u, n)' => x = u
    BY DEF HolderInv
  <2>1. n \in used'[b] => /\ \A s \in Tasks, j \in Nat : ~Listed(b, s, j, n)'
                          /\ \A x \in Threads : ~Handed(b, x, n)'
    <3>1. ASSUME n \in used[b]
          PROVE  /\ \A s \in Tasks, j \in Nat : ~Listed(b, s, j, n)
                 /\ \A x \in Threads : ~Handed(b, x, n)
      BY <1>0, <3>1 DEF HolderInv
    <3>2. ASSUME NEW i \in Nat, Listed(b, t, i, n)
          PROVE  /\ \A s \in Tasks, j \in Nat : Listed(b, s, j, n) => s = t
                 /\ \A x \in Threads : ~Handed(b, x, n)
      BY <1>0, <3>2 DEF HolderInv
    <3> QED BY <1>2, <1>3, <1>4, <3>1, <3>2
  <2>2. \A r, s \in Tasks, i, j \in Nat : Listed(b, r, i, n)' /\ Listed(b, s, j, n)' => r = s /\ i = j
    BY <1>0, <1>3 DEF HolderInv
  <2>3. \A s \in Tasks, j \in Nat, x \in Threads : ~(Listed(b, s, j, n)' /\ Handed(b, x, n)')
    BY <1>0, <1>2, <1>3 DEF HolderInv
  <2>4. \A x, u \in Threads : Handed(b, x, n)' /\ Handed(b, u, n)' => x = u
    BY <1>0, <1>2 DEF HolderInv
  <2> QED BY <2>1, <2>2, <2>3, <2>4
<1> QED BY <1>6, <1>7 DEF ConserveInv

LEMMA DepositConserves ==
  ASSUME IInv, ConserveInv, NEW th \in Threads, Deposit(th)
  PROVE  ConserveInv'
<1>0. TypeInv /\ ThreadInv /\ CoverInv /\ LostInv /\ OrderInv /\ HolderInv
  BY DEF IInv, ConserveInv
<1>b. PICK b \in Buffers : b = Head(left[th])
  BY <1>0, HeadTailProperties DEF Deposit, TypeInv
<1>n. PICK n \in Nat : n = passed[b] + 1
  BY <1>0, <1>b DEF TypeInv
<1>1. /\ PutToken(b, n)
      /\ passed' = [passed EXCEPT ![b] = @ + 1]
      /\ UNCHANGED <<token_list, current_buffer, pc, got, tok, used>>
  BY <1>b, <1>n DEF Deposit, taskVars
<1>2. \A c \in Buffers, x \in Threads, m \in Nat : Handed(c, x, m)' <=> Handed(c, x, m)
  BY <1>1 DEF Handed, Needed
<1>3. \A c \in Buffers, s \in Tasks, j \in Nat, m \in Nat : Listed(c, s, j, m)' <=> Listed(c, s, j, m)
  BY <1>1 DEF Listed
<1>4. \A c \in Buffers, m \in Nat : Out(c, m)' <=> Out(c, m)
  BY <1>1, <1>2, <1>3 DEF Out
<1>5. HolderInv'
  BY <1>0, <1>1, <1>2, <1>3, HolderKept
<1>6. /\ passed'[b] = n /\ passed[b] \in Nat
      /\ \A c \in Buffers : c # b => passed'[c] = passed[c]
  BY <1>0, <1>1, <1>n DEF TypeInv
<1>7. /\ \A m \in Nat : m \in 1..passed'[b] <=> m \in 1..passed[b] \/ m = n
      /\ n \notin 1..passed[b]
  BY <1>n, <1>6
<1>8. ~Here(b, n) /\ n \notin dropped[b] /\ ~Out(b, n) /\ \A m \in Nat : Out(b, m) => m < n
  <2>1. \A m \in Nat : m \in 1..passed[b] => m < n
    BY <1>n, <1>6
  <2>2. \A m \in Nat : m \in 1..passed[b] <=> Here(b, m) \/ m \in dropped[b] \/ Out(b, m)
    BY <1>0 DEF CoverInv
  <2>3. \A m \in Nat : Out(b, m) => m < n
    BY <2>1, <2>2
  <2> QED BY <1>7, <2>2, <2>3
<1>t. tokens[b] \in Seq(Nat) /\ Len(tokens[b]) \in Nat /\ \A i \in 1..Len(tokens[b]) : tokens[b][i] < n
  <2>1. tokens[b] \in Seq(Nat) /\ Len(tokens[b]) \in Nat /\ \A i \in 1..Len(tokens[b]) : tokens[b][i] \in Nat
    BY <1>0, Emptied DEF TypeInv
  <2>2. ASSUME NEW i \in 1..Len(tokens[b]) PROVE tokens[b][i] \in 1..passed[b]
    BY <1>0, <2>1 DEF CoverInv, Here
  <2> QED BY <1>n, <1>6, <2>1, <2>2
<1>9. CASE Len(tokens[b]) = Capacity
  <2>1. tokens' = tokens /\ dropped' = [dropped EXCEPT ![b] = @ \union {n}]
    BY <1>1, <1>9 DEF PutToken
  <2>2. /\ dropped'[b] = dropped[b] \union {n}
        /\ \A c \in Buffers : c # b => dropped'[c] = dropped[c]
    BY <1>0, <2>1 DEF TypeInv
  <2>3. \A c \in Buffers, m \in Nat : Here(c, m)' <=> Here(c, m)
    BY <2>1 DEF Here
  <2>4. CoverInv'
    <3> SUFFICES ASSUME NEW c \in Buffers, NEW m \in Nat
                 PROVE  m \in 1..passed'[c] <=> Here(c, m)' \/ m \in dropped'[c] \/ Out(c, m)'
      BY DEF CoverInv
    <3>1. CASE c = b
      BY <1>0, <1>4, <1>7, <2>2, <2>3, <3>1 DEF CoverInv
    <3>2. CASE c # b
      BY <1>0, <1>4, <1>6, <2>2, <2>3, <3>2 DEF CoverInv
    <3> QED BY <3>1, <3>2
  <2>5. LostInv'
    <3>1. \A c \in Buffers : \A m \in dropped[c] : m \in Nat
      BY <1>0 DEF TypeInv
    <3> SUFFICES ASSUME NEW c \in Buffers, NEW m \in dropped'[c]
                 PROVE  ~Here(c, m)' /\ ~Out(c, m)'
      BY DEF LostInv
    <3>2. m \in dropped[c] \/ (c = b /\ m = n)
      BY <2>2
    <3> QED BY <1>0, <1>4, <1>8, <2>3, <3>1, <3>2 DEF LostInv
  <2>6. OrderInv'
    BY <1>0, <1>4, <2>1, <2>3 DEF OrderInv
  <2> QED BY <1>5, <2>4, <2>5, <2>6 DEF ConserveInv
<1>10. CASE Len(tokens[b]) # Capacity
  <2>1. tokens' = [tokens EXCEPT ![b] = Append(@, n)] /\ dropped' = dropped
    BY <1>1, <1>10 DEF PutToken
  <2>2. /\ Len(tokens'[b]) = Len(tokens[b]) + 1
        /\ \A i \in 1..Len(tokens[b]) : tokens'[b][i] = tokens[b][i]
        /\ tokens'[b][Len(tokens[b]) + 1] = n
        /\ \A c \in Buffers : c # b => tokens'[c] = tokens[c]
    <3>1. /\ Len(Append(tokens[b], n)) = Len(tokens[b]) + 1
          /\ \A i \in 1..Len(tokens[b]) : Append(tokens[b], n)[i] = tokens[b][i]
          /\ Append(tokens[b], n)[Len(tokens[b]) + 1] = n
      BY <1>t, Appended
    <3> QED BY <1>0, <2>1, <3>1 DEF TypeInv
  <2>9. \A i \in 1..Len(tokens'[b]) : i \in 1..Len(tokens[b]) \/ i = Len(tokens[b]) + 1
    BY <1>t, <2>2
  <2>3. \A c \in Buffers, m \in Nat : Here(c, m)' <=> Here(c, m) \/ (c = b /\ m = n)
    <3> SUFFICES ASSUME NEW c \in Buffers, NEW m \in Nat
                 PROVE  Here(c, m)' <=> Here(c, m) \/ (c = b /\ m = n)
      OBVIOUS
    <3>1. CASE c = b
      <4>1. Len(tokens[b]) + 1 \in 1..Len(tokens'[b]) /\ \A i \in 1..Len(tokens[b]) : i \in 1..Len(tokens'[b])
        BY <1>t, <2>2
      <4> QED BY <2>2, <2>9, <3>1, <4>1 DEF Here
    <3>2. CASE c # b
      BY <2>2, <3>2 DEF Here
    <3> QED BY <3>1, <3>2
  <2>4. CoverInv'
    <3> SUFFICES ASSUME NEW c \in Buffers, NEW m \in Nat
                 PROVE  m \in 1..passed'[c] <=> Here(c, m)' \/ m \in dropped'[c] \/ Out(c, m)'
      BY DEF CoverInv
    <3>1. CASE c = b
      BY <1>0, <1>4, <1>7, <2>1, <2>3, <3>1 DEF CoverInv
    <3>2. CASE c # b
      BY <1>0, <1>4, <1>6, <2>1, <2>3, <3>2 DEF CoverInv
    <3> QED BY <3>1, <3>2
  <2>5. LostInv'
    <3>1. \A c \in Buffers : \A m \in dropped[c] : m \in Nat
      BY <1>0 DEF TypeInv
    <3> QED BY <1>0, <1>4, <1>8, <2>1, <2>3, <3>1 DEF LostInv
  <2>6. OrderInv'
    <3>1. \A c \in Buffers, m, k \in Nat : Here(c, m)' /\ Out(c, k)' => k < m
      BY <1>0, <1>4, <1>8, <2>3 DEF OrderInv
    <3>2. ASSUME NEW c \in Buffers, NEW i \in 1..Len(tokens'[c]), NEW j \in 1..Len(tokens'[c]), i < j
          PROVE  tokens'[c][i] < tokens'[c][j]
      <4>1. CASE c = b
        <5>1. i \in 1..Len(tokens[b])
          BY <1>t, <2>2, <3>2, <4>1
        <5>2. CASE j \in 1..Len(tokens[b])
          BY <1>0, <2>2, <3>2, <4>1, <5>1, <5>2 DEF OrderInv
        <5>3. CASE j = Len(tokens[b]) + 1
          BY <1>t, <2>2, <4>1, <5>1, <5>3
        <5> QED BY <2>9, <4>1, <5>2, <5>3
      <4>2. CASE c # b
        BY <1>0, <2>2, <3>2, <4>2 DEF OrderInv
      <4> QED BY <4>1, <4>2
    <3> QED BY <3>1, <3>2 DEF OrderInv
  <2> QED BY <1>5, <2>4, <2>5, <2>6 DEF ConserveInv
<1> QED BY <1>9, <1>10

LEMMA DequeueConserves ==
  ASSUME IInv, ConserveInv, NEW th \in Threads, Dequeue(th)
  PROVE  ConserveInv'
<1>0. /\ TypeInv /\ ThreadInv /\ TokenInv /\ NoneWaitsBesideTokens
      /\ CoverInv /\ LostInv /\ OrderInv /\ HolderInv
  BY DEF IInv, ConserveInv
<1>b. PICK b \in Buffers : b = Head(left[th])
  BY <1>0, HeadTailProperties DEF Dequeue, TypeInv
<1>n. PICK n \in Nat : n = passed[b] + 1
  BY <1>0, <1>b DEF TypeInv
<1>w. wait_queue[b] # <<>> /\ wait_queue[b] \in Seq(Tasks) /\ pc[th] = "body"
  BY <1>0, <1>b DEF Dequeue, TypeInv
<1>g. PICK g \in Tasks : g = Head(wait_queue[b]) /\ g = wait_queue[b][1] /\ 1 \in Queue(b)
  BY <1>w, HeadTailProperties, Emptied DEF Queue
<1>1. /\ got' = [got EXCEPT ![th] = g]
      /\ tok' = [tok EXCEPT ![th] = n]
      /\ pc' = [pc EXCEPT ![th] = "give"]
      /\ passed' = [passed EXCEPT ![b] = @ + 1]
      /\ UNCHANGED <<tokens, token_list, current_buffer, used, dropped>>
  BY <1>b, <1>n, <1>g DEF Dequeue, taskVars
<1>2. \A c \in Buffers, x \in Threads, m \in Nat :
        Handed(c, x, m)' <=> Handed(c, x, m) \/ (x = th /\ c = b /\ m = n)
  <2> SUFFICES ASSUME NEW c \in Buffers, NEW x \in Threads, NEW m \in Nat
               PROVE  Handed(c, x, m)' <=> Handed(c, x, m) \/ (x = th /\ c = b /\ m = n)
    OBVIOUS
  <2>1. Needed(g) = b
    BY <1>0, <1>g DEF TokenInv, Needed
  <2>2. CASE x = th
    <3>1. pc'[th] = "give" /\ got'[th] = g /\ tok'[th] = n
      BY <1>0, <1>1 DEF TypeInv
    <3>2. Needed(g)' = b
      BY <1>1, <2>1 DEF Needed
    <3> QED BY <1>w, <2>2, <3>1, <3>2 DEF Handed, Needed
  <2>3. CASE x # th
    <3>1. pc'[x] = pc[x] /\ got'[x] = got[x] /\ tok'[x] = tok[x] /\ current_buffer' = current_buffer
      BY <1>0, <1>1, <2>3 DEF TypeInv
    <3> QED BY <2>3, <3>1 DEF Handed, Needed
  <2> QED BY <2>2, <2>3
<1>3. \A c \in Buffers, s \in Tasks, j \in Nat, m \in Nat : Listed(c, s, j, m)' <=> Listed(c, s, j, m)
  BY <1>1 DEF Listed
<1>4. \A c \in Buffers, m \in Nat : Out(c, m)' <=> Out(c, m) \/ (c = b /\ m = n)
  BY <1>1, <1>2, <1>3 DEF Out
<1>5. \A c \in Buffers, m \in Nat : Here(c, m)' <=> Here(c, m)
  BY <1>1 DEF Here
<1>6. /\ passed'[b] = n /\ passed[b] \in Nat
      /\ \A c \in Buffers : c # b => passed'[c] = passed[c]
  BY <1>0, <1>1, <1>n DEF TypeInv
<1>7. /\ \A m \in Nat : m \in 1..passed'[b] <=> m \in 1..passed[b] \/ m = n
      /\ n \notin 1..passed[b]
  BY <1>n, <1>6
<1>8. ~Here(b, n) /\ n \notin dropped[b] /\ ~Out(b, n)
  BY <1>0, <1>7 DEF CoverInv
<1>9. \A m \in Nat : ~Here(b, m)
  <2>1. tokens[b] = <<>>
    BY <1>0, <1>w DEF NoneWaitsBesideTokens
  <2>2. Len(tokens[b]) = 0
    BY <2>1
  <2> QED BY <2>2 DEF Here
<1>10. CoverInv'
  <2> SUFFICES ASSUME NEW c \in Buffers, NEW m \in Nat
               PROVE  m \in 1..passed'[c] <=> Here(c, m)' \/ m \in dropped'[c] \/ Out(c, m)'
    BY DEF CoverInv
  <2>1. CASE c = b
    BY <1>0, <1>1, <1>4, <1>5, <1>7, <2>1 DEF CoverInv
  <2>2. CASE c # b
    BY <1>0, <1>1, <1>4, <1>5, <1>6, <2>2 DEF CoverInv
  <2> QED BY <2>1, <2>2
<1>11. LostInv'
  <2>1. \A c \in Buffers : \A m \in dropped[c] : m \in Nat
    BY <1>0 DEF TypeInv
  <2> QED BY <1>0, <1>1, <1>4, <1>5, <1>8, <2>1 DEF LostInv
<1>12. OrderInv'
  <2>1. \A c \in Buffers, m, k \in Nat : Here(c, m)' /\ Out(c, k)' => k < m
    BY <1>0, <1>4, <1>5, <1>9 DEF OrderInv
  <2> QED BY <1>0, <1>1, <2>1 DEF OrderInv
<1>13. HolderInv'
  <2> SUFFICES ASSUME NEW c \in Buffers, NEW m \in Nat
               PROVE
    /\ m \in used'[c] => /\ \A s \in Tasks, j \in Nat : ~Listed(c, s, j, m)'
                         /\ \A x \in Threads : ~Handed(c, x, m)'
    /\ \A r, s \in Tasks, i, j \in Nat : Listed(c, r, i, m)' /\ Listed(c, s, j, m)' => r = s /\ i = j
    /\ \A s \in Tasks, j \in Nat, x \in Threads : ~(Listed(c, s, j, m)' /\ Handed(c, x, m)')
    /\ \A x, u \in Threads : Handed(c, x, m)' /\ Handed(c, u, m)' => x = u
    BY DEF HolderInv
  <2>1. CASE c = b /\ m = n
    <3>1. m \notin used[c] /\ (\A s \in Tasks, j \in Nat : ~Listed(c, s, j, m))
            /\ \A x \in Threads : ~Handed(c, x, m)
      BY <1>8, <2>1 DEF Out
    <3> QED BY <1>1, <1>2, <1>3, <2>1, <3>1
  <2>2. CASE ~(c = b /\ m = n)
    <3>1. used' = used /\ \A x \in Threads : Handed(c, x, m)' <=> Handed(c, x, m)
      BY <1>1, <1>2, <2>2
    <3> QED BY <1>0, <1>3, <3>1 DEF HolderInv
  <2> QED BY <2>1, <2>2
<1> QED BY <1>10, <1>11, <1>12, <1>13 DEF ConserveInv

\* A token that thread th gives to task g, which lacks it, is listed last.
LEMMA LastListed ==
  ASSUME TypeInv, NEW g \in Tasks, NEW e \in Nat, Lacks(g),
         NEW l \in Nat, l = Len(token_list[g]) + 1,
         token_list'[g] = Append(token_list[g], e),
         \A s \in Tasks : s # g => token_list'[s] = token_list[s]
  PROVE  /\ BufferList[g][l] = Needed(g)
         /\ \A b \in Buffers, n \in Nat : ~Listed(b, g, l, n)
         /\ \A b \in Buffers, s \in Tasks, j \in Nat, n \in Nat :
              Listed(b, s, j, n)' <=> \/ Listed(b, s, j, n)
                                      \/ s = g /\ j = l /\ b = Needed(g) /\ n = e
<1>1. /\ token_list[g] \in Seq(Nat) /\ Len(token_list[g]) \in Nat
      /\ Len(token_list'[g]) = l
      /\ \A j \in 1..Len(token_list[g]) : token_list'[g][j] = token_list[g][j]
      /\ token_list'[g][l] = e
      /\ \A s \in Tasks : s # g => token_list'[s] = token_list[s]
  BY Appended, Emptied DEF TypeInv
<1>2. BufferList[g][l] = Needed(g)
  BY <1>1 DEF Lacks, Partial, Needed
<1>3. l \notin 1..Len(token_list[g]) /\ \A j \in Nat : j \in 1..l <=> j \in 1..Len(token_list[g]) \/ j = l
  BY <1>1
<1>4. \A b \in Buffers, n \in Nat : ~Listed(b, g, l, n)
  BY <1>3 DEF Listed
<1>5. ASSUME NEW b \in Buffers, NEW s \in Tasks, NEW j \in Nat, NEW n \in Nat
      PROVE  Listed(b, s, j, n)' <=> \/ Listed(b, s, j, n)
                                     \/ s = g /\ j = l /\ b = Needed(g) /\ n = e
  <2>1. CASE s # g
    BY <1>1, <2>1 DEF Listed
  <2>2. CASE s = g /\ j = l
    <3>1. Listed(b, g, l, n)' <=> b = Needed(g) /\ n = e
      BY <1>1, <1>2, <1>3 DEF Listed
    <3> QED BY <1>4, <2>2, <3>1
  <2>3. CASE s = g /\ j # l
    BY <1>1, <1>3, <2>3 DEF Listed
  <2> QED BY <2>1, <2>2, <2>3
<1> QED BY <1>2, <1>4, <1>5

LEMMA GiveConserves ==
  ASSUME IInv, ConserveInv, NEW th \in Threads, Give(th)
  PROVE  ConserveInv'
<1>0. /\ TypeInv /\ ThreadInv /\ PlaceInv /\ TokenInv
      /\ CoverInv /\ LostInv /\ OrderInv /\ HolderInv
  BY DEF IInv, ConserveInv
<1>g. PICK g \in Tasks : g = got[th] /\ Lacks(g) /\ pc[th] = "give"
  BY <1>0 DEF Give, TypeInv, ThreadInv, TokenInv
<1>n. PICK n \in Nat : n = tok[th]
  BY <1>0 DEF TypeInv
<1>1. /\ token_list' = [token_list EXCEPT ![g] = Append(@, n)]
      /\ current_buffer' = [current_buffer EXCEPT ![g] = @ + 1]
      /\ pc' = [pc EXCEPT ![th] = "consume"]
      /\ UNCHANGED <<tokens, got, tok, passed, used, dropped>>
  BY <1>g, <1>n DEF Give, bufferVars, history
<1>l. PICK l \in Nat : l = Len(token_list[g]) + 1
  BY <1>0, Emptied DEF TypeInv
<1> DEFINE b == Needed(g)
<1>2. \A c \in Buffers, s \in Tasks, j \in Nat, m \in Nat :
        Listed(c, s, j, m)' <=> \/ Listed(c, s, j, m)
                                \/ s = g /\ j = l /\ c = b /\ m = n
  <2>1. /\ token_list'[g] = Append(token_list[g], n)
        /\ \A s \in Tasks : s # g => token_list'[s] = token_list[s]
    BY <1>0, <1>1 DEF TypeInv
  <2>2. \A c \in Buffers, s \in Tasks, j \in Nat, m \in Nat :
          Listed(c, s, j, m)' <=> Listed(c, s, j, m) \/ (s = g /\ j = l /\ c = Needed(g) /\ m = n)
    <3>1. Lacks(g) /\ l = Len(token_list[g]) + 1
      BY <1>g, <1>l
    <3> HIDE DEF b
    <3>2. TypeInv
      BY <1>0
    <3>3. \A c \in Buffers, m \in Nat, s \in Tasks, j \in Nat :
            Listed(c, s, j, m)' <=> \/ Listed(c, s, j, m)
                                    \/ s = g /\ j = l /\ c = Needed(g) /\ m = n
      BY <2>1, <3>1, <3>2, LastListed
    <3> QED BY <3>3, Zenon
  <2> QED BY <2>2
<1>3. \A c \in Buffers, x \in Threads, m \in Nat : Handed(c, x, m)' <=> Handed(c, x, m) /\ x # th
  <2> SUFFICES ASSUME NEW c \in Buffers, NEW x \in Threads, NEW m \in Nat
               PROVE  Handed(c, x, m)' <=> Handed(c, x, m) /\ x # th
    OBVIOUS
  <2>1. CASE x = th
    BY <1>0, <1>1, <2>1 DEF TypeInv, Handed
  <2>2. CASE x # th /\ pc[x] = "give"
    <3>1. got[x] \in Tasks /\ got[x] # g
      <4>1. Holds(th, g)
        BY <1>g DEF Holds
      <4> QED BY <1>0, <2>2, <4>1, OnlyHolder DEF TypeInv, ThreadInv
    <3>2. current_buffer'[got[x]] = current_buffer[got[x]] /\ pc'[x] = pc[x]
      BY <1>0, <1>1, <2>2, <3>1 DEF TypeInv
    <3> QED BY <1>1, <2>2, <3>2 DEF Handed, Needed
  <2>3. CASE x # th /\ pc[x] # "give"
    BY <1>0, <1>1, <2>3 DEF TypeInv, Handed
  <2> QED BY <2>1, <2>2, <2>3
<1>4. \A c \in Buffers, m \in Nat : Handed(c, th, m) <=> c = b /\ m = n
  BY <1>g, <1>n DEF Handed
<1>5. \A c \in Buffers, m \in Nat : Out(c, m)' <=> Out(c, m)
  <2> SUFFICES ASSUME NEW c \in Buffers, NEW m \in Nat PROVE Out(c, m)' <=> Out(c, m)
    OBVIOUS
  <2>1. used' = used
    BY <1>1
  <2>2. CASE c = b /\ m = n
    <3>1. Out(c, m)
      BY <1>4, <2>2 DEF Out
    <3>2. Listed(c, g, l, m)'
      BY <1>2, <2>2
    <3> QED BY <1>2, <3>1, <3>2 DEF Out
  <2>3. CASE ~(c = b /\ m = n)
    <3>1. \A s \in Tasks, j \in Nat : Listed(c, s, j, m)' <=> Listed(c, s, j, m)
      BY <1>2, <2>3
    <3>2. \A x \in Threads : Handed(c, x, m)' <=> Handed(c, x, m)
      BY <1>3, <1>4, <2>3
    <3> QED BY <2>1, <3>1, <3>2 DEF Out
  <2> QED BY <2>2, <2>3
<1>6. CoverInv' /\ LostInv' /\ OrderInv'
  BY <1>0, <1>1, <1>5, OutKept
<1>7. HolderInv'
  <2> SUFFICES ASSUME NEW c \in Buffers, NEW m \in Nat
               PROVE
    /\ m \in used'[c] => /\ \A s \in Tasks, j \in Nat : ~Listed(c, s, j, m)'
                         /\ \A x \in Threads : ~Handed(c, x, m)'
    /\ \A r, s \in Tasks, i, j \in Nat : Listed(c, r, i, m)' /\ Listed(c, s, j, m)' => r = s /\ i = j
    /\ \A s \in Tasks, j \in Nat, x \in Threads : ~(Listed(c, s, j, m)' /\ Handed(c, x, m)')
    /\ \A x, u \in Threads : Handed(c, x, m)' /\ Handed(c, u, m)' => x = u
    BY DEF HolderInv
  <2>1. CASE c = b /\ m = n
    <3>1. Handed(c, th, m)
      BY <1>4, <2>1
    <3>2. m \notin used[c] /\ (\A s \in Tasks, j \in Nat : ~Listed(c, s, j, m))
            /\ \A x \in Threads : Handed(c, x, m) => x = th
      BY <1>0, <3>1 DEF HolderInv
    <3> QED BY <1>1, <1>2, <1>3, <2>1, <3>2
  <2>2. CASE ~(c = b /\ m = n)
    <3>1. used' = used /\ \A s \in Tasks, j \in Nat : Listed(c, s, j, m)' <=> Listed(c, s, j, m)
      BY <1>1, <1>2, <2>2
    <3>2. \A x \in Threads : Handed(c, x, m)' <=> Handed(c, x, m)
      BY <1>3, <1>4, <2>2
    <3> QED BY <1>0, <3>1, <3>2 DEF HolderInv
  <2> QED BY <2>1, <2>2
<1> QED BY <1>6, <1>7 DEF ConserveInv

LEMMA GetTokenConserves ==
  ASSUME IInv, ConserveInv, NEW th \in Threads, GetToken(th)
  PROVE  ConserveInv'
<1>0. /\ TypeInv /\ ThreadInv /\ PlaceInv /\ TokenInv
      /\ CoverInv /\ LostInv /\ OrderInv /\ HolderInv
  BY DEF IInv, ConserveInv
<1>b. PICK b \in Buffers :
         /\ Needs(th, b)
         /\ tokens[b] # <<>>
         /\ tokens' = [tokens EXCEPT ![b] = Tail(@)]
         /\ token_list' = [token_list EXCEPT ![got[th]] = Append(@, Head(tokens[b]))]
         /\ current_buffer' = [current_buffer EXCEPT ![got[th]] = @ + 1]
         /\ UNCHANGED <<wait_queue, status, stop, runs, ready, threadVars, history>>
  BY DEF GetToken
<1>g. PICK g \in Tasks : g = got[th] /\ pc[th] = "consume" /\ Needed(g) = b
  BY <1>0, <1>b DEF Needs, TypeInv, ThreadInv, Needed
<1>l. Lacks(g)
  <2>1. Partial(g) /\ current_buffer[g] <= Len(BufferList[g])
    BY <1>0, <1>b, <1>g DEF Needs, TokenInv
  <2>2. Len(token_list[g]) \in Nat /\ Len(BufferList[g]) \in Nat
    BY <1>0, BufferListAssumption, Emptied DEF TypeInv
  <2> QED BY <2>1, <2>2 DEF Lacks, Partial
<1>t. /\ tokens[b] \in Seq(Nat) /\ Len(tokens[b]) \in Nat \ {0}
      /\ Head(tokens[b]) = tokens[b][1] /\ tokens[b][1] \in Nat
      /\ Len(Tail(tokens[b])) = Len(tokens[b]) - 1
      /\ \A i \in 1..Len(tokens[b]) - 1 : Tail(tokens[b])[i] = tokens[b][i + 1]
  BY <1>0, <1>b, HeadTailProperties, Emptied DEF TypeInv
<1>n. PICK n \in Nat : n = tokens[b][1]
  BY <1>t
<1>1. /\ token_list' = [token_list EXCEPT ![g] = Append(@, n)]
      /\ UNCHANGED <<pc, got, tok, passed, used, dropped>>
  BY <1>b, <1>g, <1>t, <1>n DEF threadVars, history
<1>k. PICK l \in Nat : l = Len(token_list[g]) + 1
  BY <1>0, Emptied DEF TypeInv
<1>2. \A c \in Buffers, s \in Tasks, j \in Nat, m \in Nat :
        Listed(c, s, j, m)' <=> \/ Listed(c, s, j, m)
                                \/ s = g /\ j = l /\ c = b /\ m = n
  <2>1. /\ token_list'[g] = Append(token_list[g], n)
        /\ \A s \in Tasks : s # g => token_list'[s] = token_list[s]
    BY <1>0, <1>1 DEF TypeInv
  <2>2. \A c \in Buffers, s \in Tasks, j \in Nat, m \in Nat :
          Listed(c, s, j, m)' <=> Listed(c, s, j, m) \/ (s = g /\ j = l /\ c = Needed(g) /\ m = n)
    BY <1>0, <1>l, <1>k, <2>1, LastListed
  <2> QED BY <1>g, <2>2
<1>3. \A c \in Buffers, x \in Threads, m \in Nat : Handed(c, x, m)' <=> Handed(c, x, m)
  <2>1. \A x \in Threads : pc[x] = "give" => current_buffer'[got[x]] = current_buffer[got[x]]
    <3>1. Holds(th, g)
      BY <1>g DEF Holds
    <3>2. \A x \in Threads : pc[x] = "give" => got[x] \in Tasks /\ got[x] # g
      BY <1>0, <1>g, <3>1, OnlyHolder DEF TypeInv, ThreadInv
    <3>3. \A s \in Tasks : s # g => current_buffer'[s] = current_buffer[s]
      BY <1>0, <1>b, <1>g DEF TypeInv
    <3> QED BY <3>2, <3>3
  <2>2. pc[th] # "give" /\ pc'[th] # "give"
    BY <1>1, <1>g
  <2> QED BY <1>0, <1>1, <2>1, <2>2, HandsKept
<1>4. \A c \in Buffers, m \in Nat : Out(c, m)' <=> Out(c, m) \/ (c = b /\ m = n)
  <2> SUFFICES ASSUME NEW c \in Buffers, NEW m \in Nat
               PROVE  Out(c, m)' <=> Out(c, m) \/ (c = b /\ m = n)
    OBVIOUS
  <2>1. used' = used
    BY <1>1
  <2>2. CASE c = b /\ m = n
    <3>1. Listed(c, g, l, m)'
      BY <1>2, <2>2
    <3> QED BY <1>2, <2>2, <3>1 DEF Out
  <2>3. CASE ~(c = b /\ m = n)
    <3>1. \A s \in Tasks, j \in Nat : Listed(c, s, j, m)' <=> Listed(c, s, j, m)
      BY <1>2, <2>3
    <3> QED BY <1>3, <2>1, <2>3, <3>1 DEF Out
  <2> QED BY <2>2, <2>3
<1>q. /\ Len(tokens'[b]) = Len(tokens[b]) - 1
      /\ \A i \in 1..Len(tokens'[b]) : i + 1 \in 1..Len(tokens[b]) /\ tokens'[b][i] = tokens[b][i + 1]
      /\ \A i \in 1..Len(tokens[b]) : i = 1 \/ (i - 1 \in 1..Len(tokens'[b]) /\ tokens'[b][i - 1] = tokens[b][i])
      /\ \A c \in Buffers : c # b => tokens'[c] = tokens[c]
  <2>1. tokens'[b] = Tail(tokens[b]) /\ \A c \in Buffers : c # b => tokens'[c] = tokens[c]
    BY <1>0, <1>b DEF TypeInv
  <2>2. \A i \in 1..Len(tokens[b]) : i = 1 \/ (i - 1 \in 1..Len(tokens[b]) - 1 /\ (i - 1) + 1 = i)
    BY <1>t
  <2>3. \A i \in 1..Len(tokens[b]) - 1 : i + 1 \in 1..Len(tokens[b])
    BY <1>t
  <2> QED BY <1>t, <2>1, <2>2, <2>3
<1>r. \A i \in 1..Len(tokens[b]) : i # 1 => n < tokens[b][i]
  <2>1. 1 \in 1..Len(tokens[b]) /\ \A i \in 1..Len(tokens[b]) : i # 1 => 1 < i
    BY <1>t
  <2> QED BY <1>0, <1>n, <2>1 DEF OrderInv
<1>h. Here(b, n)
  BY <1>t, <1>n DEF Here
<1>5. \A c \in Buffers, m \in Nat : Here(c, m)' <=> Here(c, m) /\ ~(c = b /\ m = n)
  <2> SUFFICES ASSUME NEW c \in Buffers, NEW m \in Nat
               PROVE  Here(c, m)' <=> Here(c, m) /\ ~(c = b /\ m = n)
    OBVIOUS
  <2>1. CASE c # b
    BY <1>q, <2>1 DEF Here
  <2>2. CASE c = b
    <3>1. ASSUME Here(b, m)' PROVE Here(b, m) /\ m # n
      <4>1. PICK i \in 1..Len(tokens'[b]) : tokens'[b][i] = m
        BY <3>1 DEF Here
      <4>2. i + 1 \in 1..Len(tokens[b]) /\ tokens[b][i + 1] = m /\ i + 1 # 1
        BY <1>q, <1>t, <4>1, SMTT(30)
      <4>3. n < m
        BY <1>r, <4>2
      <4> QED BY <4>2, <4>3 DEF Here
    <3>2. ASSUME Here(b, m), m # n PROVE Here(b, m)'
      <4>1. PICK i \in 1..Len(tokens[b]) : tokens[b][i] = m
        BY <3>2 DEF Here
      <4>2. i # 1
        BY <1>n, <3>2, <4>1
      <4>3. i - 1 \in 1..Len(tokens'[b]) /\ tokens'[b][i - 1] = m
        BY <1>q, <4>1, <4>2
      <4> QED BY <4>3 DEF Here
    <3> QED BY <2>2, <3>1, <3>2
  <2> QED BY <2>1, <2>2
<1>6. CoverInv'
  <2> SUFFICES ASSUME NEW c \in Buffers, NEW m \in Nat
               PROVE  m \in 1..passed'[c] <=> Here(c, m)' \/ m \in dropped'[c] \/ Out(c, m)'
    BY DEF CoverInv
  <2>1. m \in 1..passed[c] <=> Here(c, m) \/ m \in dropped[c] \/ Out(c, m)
    BY <1>0 DEF CoverInv
  <2>2. passed' = passed /\ dropped' = dropped
    BY <1>1
  <2> QED BY <1>4, <1>5, <1>h, <2>1, <2>2
<1>7. LostInv'
  <2>1. \A c \in Buffers : \A m \in dropped[c] : m \in Nat
    BY <1>0 DEF TypeInv
  <2> QED BY <1>0, <1>1, <1>4, <1>5, <1>h, <2>1 DEF LostInv
<1>8. OrderInv'
  <2>1. ASSUME NEW c \in Buffers, NEW m \in Nat, NEW k \in Nat, Here(c, m)', Out(c, k)'
        PROVE  k < m
    <3>1. Here(c, m) /\ ~(c = b /\ m = n)
      BY <1>5, <2>1
    <3>2. CASE Out(c, k)
      BY <1>0, <3>1, <3>2 DEF OrderInv
    <3>3. CASE c = b /\ k = n
      <4>1. PICK i \in 1..Len(tokens[b]) : tokens[b][i] = m
        BY <3>1, <3>3 DEF Here
      <4> QED BY <1>n, <1>r, <3>1, <3>3, <4>1
    <3> QED BY <1>4, <2>1, <3>2, <3>3
  <2>2. ASSUME NEW c \in Buffers, NEW i \in 1..Len(tokens'[c]), NEW j \in 1..Len(tokens'[c]), i < j
        PROVE  tokens'[c][i] < tokens'[c][j]
    <3>1. CASE c = b
      <4>1. i + 1 < j + 1
        BY <1>t, <1>q, <2>2, <3>1
      <4>2. /\ i + 1 \in 1..Len(tokens[b]) /\ tokens'[b][i] = tokens[b][i + 1]
            /\ j + 1 \in 1..Len(tokens[b]) /\ tokens'[b][j] = tokens[b][j + 1]
        BY <1>q, <3>1
      <4> QED BY <1>0, <3>1, <4>1, <4>2 DEF OrderInv
    <3>2. CASE c # b
      BY <1>0, <1>q, <2>2, <3>2 DEF OrderInv
    <3> QED BY <3>1, <3>2
  <2> QED BY <2>1, <2>2 DEF OrderInv
<1>9. HolderInv'
  <2> SUFFICES ASSUME NEW c \in Buffers, NEW m \in Nat
               PROVE
    /\ m \in used'[c] => /\ \A s \in Tasks, j \in Nat : ~Listed(c, s, j, m)'
                         /\ \A x \in Threads : ~Handed(c, x, m)'
    /\ \A r, s \in Tasks, i, j \in Nat : Listed(c, r, i, m)' /\ Listed(c, s, j, m)' => r = s /\ i = j
    /\ \A s \in Tasks, j \in Nat, x \in Threads : ~(Listed(c, s, j, m)' /\ Handed(c, x, m)')
    /\ \A x, u \in Threads : Handed(c, x, m)' /\ Handed(c, u, m)' => x = u
    BY DEF HolderInv
  <2>1. CASE c = b /\ m = n
    <3>0. ~Out(b, n)
      BY <1>0, <1>h DEF OrderInv
    <3>1. m \notin used[c] /\ (\A s \in Tasks, j \in Nat : ~Listed(c, s, j, m))
            /\ \A x \in Threads : ~Handed(c, x, m)
      BY <2>1, <3>0 DEF Out
    <3>2. used' = used /\ m \notin used'[c]
      BY <1>1, <3>1
    <3>3. \A s \in Tasks, j \in Nat : Listed(c, s, j, m)' <=> s = g /\ j = l
      BY <1>2, <2>1, <3>1
    <3>4. \A x \in Threads : ~Handed(c, x, m)'
      BY <1>3, <3>1
    <3> QED BY <3>2, <3>3, <3>4
  <2>2. CASE ~(c = b /\ m = n)
    <3>1. used' = used /\ \A s \in Tasks, j \in Nat : Listed(c, s, j, m)' <=> Listed(c, s, j, m)
      BY <1>1, <1>2, <2>2
    <3> QED BY <1>0, <1>3, <3>1 DEF HolderInv
  <2> QED BY <2>1, <2>2
<1> QED BY <1>6, <1>7, <1>8, <1>9 DEF ConserveInv

\* A step that leaves alone all that the tokens have to do with.
LEMMA QuietConserves ==
  ASSUME IInv, ConserveInv,
         UNCHANGED <<tokens, passed, dropped, used, token_list, current_buffer, pc, got, tok>>
  PROVE  ConserveInv'
<1>1. TypeInv
  BY DEF IInv
<1>2. \A b \in Buffers, x \in Threads, n \in Nat : Handed(b, x, n)' <=> Handed(b, x, n)
  BY DEF Handed, Needed
<1>3. \A b \in Buffers, s \in Tasks, j \in Nat, n \in Nat : Listed(b, s, j, n)' <=> Listed(b, s, j, n)
  BY DEF Listed
<1> QED BY <1>1, <1>2, <1>3, ConserveKept

LEMMA NextConserves == IInv /\ ConserveInv /\ [Next]_vars => ConserveInv'
<1> SUFFICES ASSUME IInv, ConserveInv, [Next]_vars PROVE ConserveInv'
  OBVIOUS
<1>1. ASSUME NEW th \in Threads, NEW t \in Tasks, Begin(th, t) PROVE ConserveInv'
  BY <1>1, RunConserves DEF Begin
<1>2. ASSUME NEW th \in Threads, Proceed(th) PROVE ConserveInv'
  BY <1>2, ReturnConserves, DepositConserves, DequeueConserves, GiveConserves, GetTokenConserves,
     EnqueueTaskConserves DEF Proceed
<1>3. ASSUME NEW th \in Threads, Enable(th) PROVE ConserveInv'
  BY <1>3, EnableConserves
<1>4. ASSUME NEW th \in Threads, End(th) PROVE ConserveInv'
  BY <1>4, EndConserves
<1>5. ASSUME UNCHANGED vars \/ \E t \in Tasks : Mark(t) PROVE ConserveInv'
  <2>1. UNCHANGED <<tokens, passed, dropped, used, token_list, current_buffer, pc, got, tok>>
    BY <1>5 DEF Mark, vars, bufferVars, taskVars, threadVars, history
  <2> QED BY <2>1, QuietConserves
<1> QED BY <1>1, <1>2, <1>3, <1>4, <1>5 DEF Next

\* Every token is accounted for throughout (buffer.cpp).
THEOREM Conserved == Spec => []ConserveInv
BY Invariant, InitConserve, NextConserves, PTL DEF Spec

-----------------------------------------------------------------------------
(* How many there are.                                                     *)

\* The members of S are numbered by F, each with a member of T.
LEMMA Numbered ==
  ASSUME NEW S, NEW T, IsFiniteSet(T), NEW F \in [S -> T],
         \A x, y \in S : F[x] = F[y] => x = y,
         \A n \in T : \E x \in S : F[x] = n
  PROVE  IsFiniteSet(S) /\ Cardinality(S) = Cardinality(T)
<1>1. F \in Injection(S, T) /\ F \in Surjection(S, T)
  BY Fun_IsInj, Fun_IsSurj
<1> QED BY <1>1, FS_Injection

LEMMA UpTo ==
  ASSUME NEW n \in Nat
  PROVE  IsFiniteSet(1..n) /\ Cardinality(1..n) = n
<1>1. /\ IsFiniteSet(1..n)
      /\ Cardinality(1..n) = IF 1 > n THEN 0 ELSE n - 1 + 1
  BY FS_Interval
<1> QED BY <1>1

LEMMA Indexed ==
  ASSUME NEW n \in Nat, NEW T, IsFiniteSet(T), NEW F \in [1..n -> T],
         \A i, j \in 1..n : F[i] = F[j] => i = j,
         \A x \in T : \E i \in 1..n : F[i] = x
  PROVE  Cardinality(T) = n
<1> DEFINE S == 1..n
<1>1. Cardinality(S) = n
  BY UpTo
<1>2. /\ F \in [S -> T]
      /\ \A i, j \in S : F[i] = F[j] => i = j
      /\ \A x \in T : \E i \in S : F[i] = x
  OBVIOUS
<1> HIDE DEF S
<1>3. Cardinality(S) = Cardinality(T)
  <2>1. F \in Injection(S, T) /\ F \in Surjection(S, T)
    BY <1>2, Fun_IsInj, Fun_IsSurj
  <2> QED BY <2>1, FS_Injection
<1> QED BY <1>1, <1>3

LEMMA TwoParts ==
  ASSUME NEW S, NEW T, IsFiniteSet(S), IsFiniteSet(T), S \intersect T = {}
  PROVE  /\ IsFiniteSet(S \union T)
         /\ Cardinality(S) \in Nat /\ Cardinality(T) \in Nat
         /\ Cardinality(S \union T) = Cardinality(S) + Cardinality(T)
BY FS_Union, FS_EmptySet, FS_CardinalityType, SMTT(30)

LEMMA FiveParts ==
  ASSUME NEW A, NEW B, NEW C, NEW D, NEW E, IsFiniteSet(A \union B \union C \union D \union E),
         A \intersect B = {}, A \intersect C = {}, A \intersect D = {}, A \intersect E = {},
         B \intersect C = {}, B \intersect D = {}, B \intersect E = {},
         C \intersect D = {}, C \intersect E = {}, D \intersect E = {}
  PROVE  Cardinality(A \union B \union C \union D \union E)
           = Cardinality(A) + Cardinality(B) + Cardinality(C) + Cardinality(D) + Cardinality(E)
<1>1. IsFiniteSet(A) /\ IsFiniteSet(B) /\ IsFiniteSet(C) /\ IsFiniteSet(D) /\ IsFiniteSet(E)
  BY FS_Subset
<1> DEFINE DE == D \union E
           CDE == C \union DE
           BCDE == B \union CDE
<1>2. IsFiniteSet(DE) /\ Cardinality(DE) = Cardinality(D) + Cardinality(E)
      /\ Cardinality(D) \in Nat /\ Cardinality(E) \in Nat
  BY <1>1, TwoParts
<1>3. IsFiniteSet(CDE) /\ Cardinality(CDE) = Cardinality(C) + Cardinality(DE) /\ Cardinality(C) \in Nat
  BY <1>1, <1>2, TwoParts
<1>4. IsFiniteSet(BCDE) /\ Cardinality(BCDE) = Cardinality(B) + Cardinality(CDE) /\ Cardinality(B) \in Nat
  <2>1. B \intersect CDE = {}
    OBVIOUS
  <2> QED BY <1>1, <1>3, <2>1, TwoParts
<1>5. Cardinality(A \union BCDE) = Cardinality(A) + Cardinality(BCDE) /\ Cardinality(A) \in Nat
  <2>1. A \intersect BCDE = {}
    OBVIOUS
  <2> QED BY <1>1, <1>4, <2>1, TwoParts
<1>6. A \union B \union C \union D \union E = A \union BCDE
  OBVIOUS
<1> HIDE DEF DE, CDE, BCDE
<1>7. Cardinality(A \union B \union C \union D \union E) = Cardinality(A \union BCDE)
  BY <1>6, Zenon
<1> QED BY <1>2, <1>3, <1>4, <1>5, <1>7

LEMMA TokensCount == IInv /\ ConserveInv => TokensConserved
<1> SUFFICES ASSUME IInv, ConserveInv, NEW b \in Buffers
             PROVE  LET here == {tokens[b][i] : i \in DOMAIN tokens[b]} IN
                    /\ 1..passed[b] = here \union TakenFrom(b) \union dropped[b]
                    /\ \A i, j \in DOMAIN tokens[b] : i < j => tokens[b][i] < tokens[b][j]
                    /\ \A n \in here, m \in TakenFrom(b) : m < n
                    /\ passed[b] = Len(tokens[b]) + Cardinality(used[b]) + Cardinality(InLists(b))
                                     + Cardinality(InHands(b)) + Cardinality(dropped[b])
  BY DEF TokensConserved
<1>0. TypeInv /\ ThreadInv /\ CoverInv /\ LostInv /\ OrderInv /\ HolderInv
  BY DEF IInv, ConserveInv
<1> DEFINE here  == {tokens[b][i] : i \in DOMAIN tokens[b]}
           lists == {token_list[p[1]][p[2]] : p \in InLists(b)}
           hands == {tok[th] : th \in InHands(b)}
<1>1. /\ DOMAIN tokens[b] = 1..Len(tokens[b]) /\ Len(tokens[b]) \in Nat
      /\ \A i \in 1..Len(tokens[b]) : tokens[b][i] \in Nat
      /\ passed[b] \in Nat /\ used[b] \subseteq Nat /\ dropped[b] \subseteq Nat
  BY <1>0, Emptied DEF TypeInv
<1>2. \A t \in Tasks : /\ DOMAIN token_list[t] = 1..Len(token_list[t])
                     /\ \A j \in 1..Len(token_list[t]) : j \in Nat /\ token_list[t][j] \in Nat
  BY <1>0, Emptied DEF TypeInv
<1>3. \A p : p \in InLists(b) <=> \E t \in Tasks : \E j \in 1..Len(token_list[t]) :
                                    p = <<t, j>> /\ BufferList[t][j] = b
  BY <1>2 DEF InLists
<1>4. \A th : th \in InHands(b) <=> th \in Threads /\ tok[th] \in Nat /\ Handed(b, th, tok[th])
  BY <1>0 DEF InHands, Handed, Needed, TypeInv
<1>5. \A n \in Nat : n \in here <=> Here(b, n)
  BY <1>1 DEF Here
<1>6. \A n \in Nat : n \in lists <=> \E t \in Tasks, j \in Nat : Listed(b, t, j, n)
  <2> SUFFICES ASSUME NEW n \in Nat
               PROVE  n \in lists <=> \E t \in Tasks, j \in Nat : Listed(b, t, j, n)
    OBVIOUS
  <2>1. ASSUME n \in lists
        PROVE  \E t \in Tasks, j \in Nat : Listed(b, t, j, n)
    <3>1. PICK p \in InLists(b) : n = token_list[p[1]][p[2]]
      BY <2>1
    <3>2. PICK t \in Tasks : \E j \in 1..Len(token_list[t]) : p = <<t, j>> /\ BufferList[t][j] = b
      BY <1>3, <3>1
    <3>3. PICK j \in 1..Len(token_list[t]) : p = <<t, j>> /\ BufferList[t][j] = b
      BY <3>2
    <3>4. Listed(b, t, j, n)
      BY <3>1, <3>3 DEF Listed
    <3> QED BY <1>2, <3>4
  <2>2. ASSUME NEW t \in Tasks, NEW j \in Nat, Listed(b, t, j, n) PROVE n \in lists
    <3>1. <<t, j>> \in InLists(b)
      BY <1>3, <2>2 DEF Listed
    <3>2. n = token_list[<<t, j>>[1]][<<t, j>>[2]]
      BY <2>2 DEF Listed
    <3> QED BY <3>1, <3>2
  <2> QED BY <2>1, <2>2
<1>7. \A n \in Nat : n \in hands <=> \E th \in Threads : Handed(b, th, n)
  <2>1. \A th \in Threads, n \in Nat : Handed(b, th, n) => tok[th] = n
    BY DEF Handed
  <2> QED BY <1>4, <2>1
<1>8. here \subseteq Nat /\ lists \subseteq Nat /\ hands \subseteq Nat
  <2>1. lists \subseteq Nat
    BY <1>2, <1>3
  <2> QED BY <1>1, <1>4, <2>1
<1>9. TakenFrom(b) = used[b] \union lists \union hands
  BY DEF TakenFrom
<1>10. \A n \in Nat : n \in TakenFrom(b) <=> Out(b, n)
  BY <1>6, <1>7, <1>9 DEF Out
<1>11. 1..passed[b] = here \union TakenFrom(b) \union dropped[b]
  <2>1. TakenFrom(b) \subseteq Nat /\ 1..passed[b] \subseteq Nat
    BY <1>1, <1>8, <1>9
  <2>2. \A n \in Nat : n \in 1..passed[b] <=> n \in here \/ n \in dropped[b] \/ n \in TakenFrom(b)
    BY <1>0, <1>5, <1>10 DEF CoverInv
  <2> QED BY <1>1, <1>8, <2>1, <2>2
<1>12. \A n \in here, m \in TakenFrom(b) : m < n
  <2>1. TakenFrom(b) \subseteq Nat
    BY <1>1, <1>8, <1>9
  <2> QED BY <1>0, <1>5, <1>8, <1>10, <2>1 DEF OrderInv
<1>13. \A i, j \in DOMAIN tokens[b] : i < j => tokens[b][i] < tokens[b][j]
  BY <1>0, <1>1 DEF OrderInv
<1>14. passed[b] = Len(tokens[b]) + Cardinality(used[b]) + Cardinality(InLists(b))
                     + Cardinality(InHands(b)) + Cardinality(dropped[b])
  <2>1. IsFiniteSet(1..passed[b]) /\ Cardinality(1..passed[b]) = passed[b]
    BY <1>1, UpTo
  <2>2. 1..passed[b] = here \union used[b] \union lists \union hands \union dropped[b]
    BY <1>9, <1>11
  <2>3. IsFiniteSet(here) /\ IsFiniteSet(lists) /\ IsFiniteSet(hands)
    BY <2>1, <2>2, FS_Subset
  <2>4. Cardinality(here) = Len(tokens[b])
    <3> DEFINE F == [i \in 1..Len(tokens[b]) |-> tokens[b][i]]
    <3>1. F \in [1..Len(tokens[b]) -> here] /\ \A n \in here : \E i \in 1..Len(tokens[b]) : F[i] = n
      BY <1>1
    <3>2. ASSUME NEW i \in 1..Len(tokens[b]), NEW j \in 1..Len(tokens[b]), F[i] = F[j]
          PROVE  i = j
      <4>1. tokens[b][i] \in Nat /\ tokens[b][j] \in Nat /\ tokens[b][i] = tokens[b][j]
        BY <1>1, <3>2
      <4>2. /\ i < j => tokens[b][i] < tokens[b][j]
            /\ j < i => tokens[b][j] < tokens[b][i]
        BY <1>0 DEF OrderInv
      <4> QED BY <1>1, <4>1, <4>2
    <3>3. Len(tokens[b]) \in Nat /\ IsFiniteSet(here)
      BY <1>1, <2>3
    <3> HIDE DEF F, here
    <3> QED BY <3>1, <3>2, <3>3, Indexed
  <2>5. Cardinality(InLists(b)) = Cardinality(lists)
    <3> DEFINE F == [p \in InLists(b) |-> token_list[p[1]][p[2]]]
    <3>1. F \in [InLists(b) -> lists] /\ \A n \in lists : \E p \in InLists(b) : F[p] = n
      OBVIOUS
    <3>2. ASSUME NEW p \in InLists(b), NEW q \in InLists(b), F[p] = F[q]
          PROVE  p = q
      <4>a. PICK s \in Tasks : \E i \in 1..Len(token_list[s]) : p = <<s, i>> /\ BufferList[s][i] = b
        BY <1>3
      <4>1. PICK i \in 1..Len(token_list[s]) : p = <<s, i>> /\ BufferList[s][i] = b
        BY <4>a
      <4>b. PICK t \in Tasks : \E j \in 1..Len(token_list[t]) : q = <<t, j>> /\ BufferList[t][j] = b
        BY <1>3
      <4>2. PICK j \in 1..Len(token_list[t]) : q = <<t, j>> /\ BufferList[t][j] = b
        BY <4>b
      <4>3. F[p] = token_list[s][i] /\ F[q] = token_list[t][j]
        BY <4>1, <4>2
      <4>4. Listed(b, s, i, token_list[s][i]) /\ Listed(b, t, j, token_list[s][i])
        BY <3>2, <4>1, <4>2, <4>3 DEF Listed
      <4>5. i \in Nat /\ j \in Nat /\ token_list[s][i] \in Nat
        BY <1>2
      <4>6. s = t /\ i = j
        BY <1>0, <4>4, <4>5 DEF HolderInv
      <4> QED BY <4>1, <4>2, <4>6
    <3> HIDE DEF F, lists
    <3> QED BY <2>3, <3>1, <3>2, Numbered
  <2>6. Cardinality(InHands(b)) = Cardinality(hands)
    <3> DEFINE F == [th \in InHands(b) |-> tok[th]]
    <3>1. F \in [InHands(b) -> hands] /\ \A n \in hands : \E th \in InHands(b) : F[th] = n
      OBVIOUS
    <3>2. ASSUME NEW th \in InHands(b), NEW u \in InHands(b), F[th] = F[u]
          PROVE  th = u
      BY <1>0, <1>4, <3>2 DEF HolderInv
    <3> HIDE DEF F, hands
    <3> QED BY <2>3, <3>1, <3>2, Numbered
  <2>7. /\ \A n \in Nat : n \in here => ~Out(b, n)
        /\ \A n \in Nat : n \in dropped[b] => ~Out(b, n) /\ n \notin here
    <3>1. \A n \in Nat : Here(b, n) => ~Out(b, n)
      BY <1>0 DEF OrderInv
    <3> QED BY <1>0, <1>5, <3>1 DEF LostInv
  <2>8. \A n \in Nat : n \in used[b] => n \notin lists /\ n \notin hands
    BY <1>0, <1>6, <1>7 DEF HolderInv
  <2>9. \A n \in Nat : n \in lists => n \notin hands
    <3>1. \A n \in Nat, t \in Tasks, j \in Nat, th \in Threads : ~(Listed(b, t, j, n) /\ Handed(b, th, n))
      BY <1>0 DEF HolderInv
    <3> QED BY <1>6, <1>7, <3>1
  <2>10. \A n \in Nat : n \in used[b] \/ n \in lists \/ n \in hands => Out(b, n)
    BY <1>9, <1>10
  <2>11. Cardinality(1..passed[b]) = Cardinality(here) + Cardinality(used[b]) + Cardinality(lists)
                                       + Cardinality(hands) + Cardinality(dropped[b])
    <3>1. /\ here \intersect used[b] = {} /\ here \intersect lists = {}
          /\ here \intersect hands = {} /\ here \intersect dropped[b] = {}
      <4> HIDE DEF here, lists, hands
      <4> QED BY <1>8, <2>7, <2>10
    <3>2. used[b] \intersect lists = {} /\ used[b] \intersect hands = {} /\ lists \intersect hands = {}
      <4> HIDE DEF here, lists, hands
      <4> QED BY <1>8, <2>8, <2>9
    <3>3. /\ used[b] \intersect dropped[b] = {} /\ lists \intersect dropped[b] = {}
          /\ hands \intersect dropped[b] = {}
      <4> HIDE DEF here, lists, hands
      <4> QED BY <1>1, <1>8, <2>7, <2>10
    <3> DEFINE all == 1..passed[b]
    <3>4. all = here \union used[b] \union lists \union hands \union dropped[b] /\ IsFiniteSet(all)
      BY <2>1, <2>2
    <3> HIDE DEF here, lists, hands, all
    <3>5. IsFiniteSet(here \union used[b] \union lists \union hands \union dropped[b])
      BY <3>4, Zenon
    <3>6. Cardinality(here \union used[b] \union lists \union hands \union dropped[b])
            = Cardinality(here) + Cardinality(used[b]) + Cardinality(lists)
                + Cardinality(hands) + Cardinality(dropped[b])
      BY <3>1, <3>2, <3>3, <3>5, FiveParts
    <3>7. Cardinality(all) = Cardinality(here) + Cardinality(used[b]) + Cardinality(lists)
                               + Cardinality(hands) + Cardinality(dropped[b])
      BY <3>4, <3>6, Zenon
    <3> QED BY <3>7 DEF all
  <2> QED BY <2>1, <2>4, <2>5, <2>6, <2>11
<1> QED BY <1>11, <1>12, <1>13, <1>14

\* Whatever the threads do at the same time, a token that was passed is in its buffer,
\* lost to its overflow, in the list of one task, in the hands of one thread or freed, and
\* the tokens of one buffer go out in the order in which they came (buffer.cpp).
THEOREM TokensStayConserved == Spec => []TokensConserved
BY Invariant, Conserved, TokensCount, PTL

-----------------------------------------------------------------------------
(* The tokens of a run belong together, when one task runs at a time and   *)
(* no buffer overflows: tasks leave the queue of a buffer in the order in  *)
(* which they took the tokens of the one before.                           *)

Single == \A th, u \in Threads : own[th] # NULL /\ own[u] # NULL => th = u
NoneDropped == \A b \in Buffers : dropped[b] = {}

\* How many tokens tasks got from buffer b, and how many the task has that th collects for.
Taken(b) == passed[b] - Len(tokens[b])
Has(th)  == Len(token_list[got[th]]) + IF pc[th] = "give" THEN 1 ELSE 0

\* A task like t is on its way from its j-th buffer to the next.
Between(t, j) ==
  \E th \in Threads : /\ pc[th] \in {"give", "consume"}
                      /\ BufferList[got[th]] = BufferList[t] /\ Has(th) = j

\* A buffer has the tokens that were not taken, in order.
InOrder == \A b \in Buffers : \A i \in 1..Len(tokens[b]) : tokens[b][i] = Taken(b) + i

\* The tokens of a task have one number, which is the one of the token that it waits for
\* or is on its way from.
Alike == \A t \in Tasks : \A j \in 1..Len(token_list[t]) : token_list[t][j] = token_list[t][1]
Awaited ==
  \A b \in Buffers : \A i \in Queue(b) :
    token_list[wait_queue[b][i]] # <<>> => token_list[wait_queue[b][i]][1] = Taken(b) + i
Fetched ==
  \A th \in Threads :
    /\ pc[th] = "give" => /\ tok[th] = Taken(Needed(got[th]))
                          /\ token_list[got[th]] # <<>> => token_list[got[th]][1] = tok[th]
    /\ pc[th] = "consume" /\ token_list[got[th]] # <<>> =>
         token_list[got[th]][1] = Taken(BufferList[got[th]][Len(token_list[got[th]])])

\* A task that got the token of one buffer got that of the next, waits for it or is on its way.
Passing ==
  \A t \in Tasks : \A j \in 1..Len(BufferList[t]) - 1 :
    Taken(BufferList[t][j]) = Taken(BufferList[t][j + 1]) + Len(wait_queue[BufferList[t][j + 1]])
                                + IF Between(t, j) THEN 1 ELSE 0

Matching == InOrder /\ Alike /\ Awaited /\ Fetched /\ Passing

SingleInv == Scheduler = "taskPerThread" => Single
MatchInv  == Scheduler = "taskPerThread" /\ NoneDropped => Matching

LEMMA OthersIdle ==
  ASSUME ThreadInv, Single, NEW th \in Threads, pc[th] # "idle"
  PROVE  \A x \in Threads : x # th => pc[x] = "idle"
BY DEF ThreadInv, Single

\* A buffer has one place in the lists of the tasks that take tokens from it.
LEMMA SameSpot ==
  ASSUME NEW t \in Tasks, NEW u \in Tasks, NEW i \in 1..Len(BufferList[t]),
         NEW k \in 1..Len(BufferList[u]), BufferList[t][i] = BufferList[u][k]
  PROVE  BufferList[t] = BufferList[u] /\ i = k
<1>1. DOMAIN BufferList[t] = 1..Len(BufferList[t]) /\ DOMAIN BufferList[u] = 1..Len(BufferList[u])
  BY BufferListAssumption, Emptied
<1>2. BufferList[t] = BufferList[u]
  BY <1>1, BufferListAssumption
<1>3. \A a, c \in DOMAIN BufferList[t] : BufferList[t][a] = BufferList[t][c] => a = c
  BY BufferListAssumption
<1> QED BY <1>1, <1>2, <1>3

LEMMA BuffersOf ==
  \A t \in Tasks : Len(BufferList[t]) \in Nat /\ \A i \in 1..Len(BufferList[t]) : BufferList[t][i] \in Buffers
BY BufferListAssumption, Emptied

LEMMA Numbers ==
  ASSUME TypeInv
  PROVE  /\ \A b \in Buffers : Taken(b) \in Int /\ Len(wait_queue[b]) \in Nat /\ Len(tokens[b]) \in Nat
         /\ \A t \in Tasks : token_list[t] = <<>> <=> Len(token_list[t]) = 0
         /\ \A t \in Tasks : Len(token_list[t]) \in Nat
         /\ \A t \in Tasks : \A j \in 1..Len(token_list[t]) : token_list[t][j] \in Nat
         /\ \A b \in Buffers : \A i \in Queue(b) : wait_queue[b][i] \in Tasks
<1>1. \A b \in Buffers : tokens[b] \in Seq(Nat) /\ wait_queue[b] \in Seq(Tasks) /\ passed[b] \in Nat
  BY DEF TypeInv
<1>2. \A t \in Tasks : token_list[t] \in Seq(Nat)
  BY DEF TypeInv
<1>3. \A b \in Buffers : Taken(b) \in Int /\ Len(wait_queue[b]) \in Nat /\ Len(tokens[b]) \in Nat
  BY <1>1, Emptied DEF Taken
<1>4. \A t \in Tasks : (token_list[t] = <<>> <=> Len(token_list[t]) = 0) /\ Len(token_list[t]) \in Nat
  BY <1>2, Emptied
<1>5. \A t \in Tasks : \A j \in 1..Len(token_list[t]) : token_list[t][j] \in Nat
  BY <1>2, Emptied
<1>6. \A b \in Buffers : \A i \in Queue(b) : wait_queue[b][i] \in Tasks
  BY <1>1, Emptied DEF Queue
<1> QED BY <1>3, <1>4, <1>5, <1>6

LEMMA TailOf ==
  ASSUME NEW S, NEW s \in Seq(S), s # <<>>
  PROVE  /\ Tail(s) \in Seq(S) /\ Len(s) \in Nat /\ Len(Tail(s)) = Len(s) - 1
         /\ Head(s) = s[1] /\ Head(s) \in S /\ 1 \in 1..Len(s)
         /\ \A i \in 1..Len(s) - 1 : Tail(s)[i] = s[i + 1] /\ i + 1 \in 1..Len(s)
<1>1. Len(s) \in Nat /\ Len(s) # 0
  BY Emptied
<1> QED BY <1>1, HeadTailProperties

LEMMA Counts ==
  ASSUME TypeInv
  PROVE  \A b \in Buffers : Taken(b) \in Int /\ Len(wait_queue[b]) \in Nat
BY Numbers

LEMMA CountsAfter ==
  ASSUME TypeInv'
  PROVE  \A b \in Buffers : Taken(b)' \in Int /\ Len(wait_queue'[b]) \in Nat
<1>1. \A b \in Buffers : tokens'[b] \in Seq(Nat) /\ wait_queue'[b] \in Seq(Tasks) /\ passed'[b] \in Nat
  BY DEF TypeInv
<1> QED BY <1>1, Emptied DEF Taken

\* Task g moves on: p = 1 if it comes from its m-th buffer, q = 1 if it takes the token of
\* the next, x; it joins or leaves the queue there otherwise.
LEMMA PassingMoves ==
  ASSUME TypeInv, TypeInv', Passing, NEW g \in Tasks, NEW m \in Nat, m + 1 \in 1..Len(BufferList[g]),
         NEW x \in Buffers, x = BufferList[g][m + 1], NEW p \in {0, 1}, NEW q \in {0, 1},
         \A c \in Buffers : c = x => Taken(c)' = Taken(c) + q /\ Len(wait_queue'[c]) = Len(wait_queue[c]) + p - q,
         \A c \in Buffers : c # x => Taken(c)' = Taken(c) /\ Len(wait_queue'[c]) = Len(wait_queue[c]),
         \A t \in Tasks, j \in Nat \ {0} : Between(t, j) <=> p = 1 /\ BufferList[t] = BufferList[g] /\ j = m,
         \A t \in Tasks, j \in Nat \ {0} : Between(t, j)' <=> q = 1 /\ BufferList[t] = BufferList[g] /\ j = m + 1
  PROVE  Passing'
<1> SUFFICES ASSUME NEW t \in Tasks, NEW j \in 1..Len(BufferList[t]) - 1
             PROVE  Taken(BufferList[t][j])'
                      = Taken(BufferList[t][j + 1])' + Len(wait_queue'[BufferList[t][j + 1]])
                          + IF Between(t, j)' THEN 1 ELSE 0
  BY DEF Passing
<1>1. /\ Len(BufferList[t]) \in Nat /\ j \in Nat \ {0}
      /\ j \in 1..Len(BufferList[t]) /\ j + 1 \in 1..Len(BufferList[t])
  BY BuffersOf
<1>2. PICK a \in Buffers : a = BufferList[t][j]
  BY <1>1, BuffersOf
<1>3. PICK b \in Buffers : b = BufferList[t][j + 1]
  BY <1>1, BuffersOf
<1>4. Taken(a) = Taken(b) + Len(wait_queue[b]) + IF Between(t, j) THEN 1 ELSE 0
  BY <1>2, <1>3 DEF Passing
<1>5. a = x <=> BufferList[t] = BufferList[g] /\ j = m + 1
  BY <1>1, <1>2, SameSpot
<1>6. b = x <=> BufferList[t] = BufferList[g] /\ j = m
  <2>1. ASSUME b = x PROVE BufferList[t] = BufferList[g] /\ j + 1 = m + 1
    <3>1. PICK i \in 1..Len(BufferList[t]) : i = j + 1
      BY <1>1
    <3>2. PICK k \in 1..Len(BufferList[g]) : k = m + 1
      OBVIOUS
    <3>3. BufferList[t][i] = BufferList[g][k]
      BY <1>3, <2>1, <3>1, <3>2, Zenon
    <3>4. BufferList[t] = BufferList[g] /\ i = k
      BY <3>3, SameSpot
    <3> QED BY <3>1, <3>2, <3>4, Zenon
  <2>2. BufferList[t] = BufferList[g] /\ j = m => b = x
    BY <1>3, Zenon
  <2> QED BY <1>1, <2>1, <2>2
<1>7. /\ Taken(a) \in Int /\ Taken(b) \in Int /\ Len(wait_queue[b]) \in Nat
      /\ Taken(a)' \in Int /\ Taken(b)' \in Int /\ Len(wait_queue'[b]) \in Nat
  BY Counts, CountsAfter
<1>8. Taken(a)' = Taken(b)' + Len(wait_queue'[b]) + IF Between(t, j)' THEN 1 ELSE 0
  <2>1. CASE a = x
    <3>1. b # x /\ ~Between(t, j) /\ (Between(t, j)' <=> q = 1)
      BY <1>1, <1>5, <1>6, <2>1
    <3>2. Taken(a)' = Taken(a) + q /\ Taken(b)' = Taken(b) /\ Len(wait_queue'[b]) = Len(wait_queue[b])
      BY <2>1, <3>1, Zenon
    <3> QED BY <1>4, <1>7, <3>1, <3>2
  <2>2. CASE b = x
    <3>1. a # x /\ ~Between(t, j)' /\ (Between(t, j) <=> p = 1)
      BY <1>1, <1>5, <1>6, <2>2
    <3>2. Taken(a)' = Taken(a) /\ Taken(b)' = Taken(b) + q
          /\ Len(wait_queue'[b]) = Len(wait_queue[b]) + p - q
      BY <2>2, <3>1, Zenon
    <3>3. Taken(a) = Taken(b) + Len(wait_queue[b]) + p
      BY <1>4, <1>7, <3>1
    <3>4. Taken(a)' = Taken(b)' + Len(wait_queue'[b])
      BY <1>7, <3>2, <3>3
    <3> QED BY <1>7, <3>1, <3>4
  <2>3. CASE a # x /\ b # x
    <3>1. ~Between(t, j)' /\ ~Between(t, j)
      BY <1>1, <1>5, <1>6, <2>3
    <3> QED BY <1>4, <1>7, <2>3, <3>1
  <2> QED BY <2>1, <2>2, <2>3
<1> QED BY <1>2, <1>3, <1>8

-----------------------------------------------------------------------------
(* The steps keep the tokens matched.                                      *)

\* While one thread is busy, it alone is between buffers.
LEMMA BetweenNow ==
  ASSUME NEW th \in Threads, \A x \in Threads : x # th => pc[x] = "idle"
  PROVE  \A t \in Tasks, j \in Nat \ {0} :
           Between(t, j) <=> /\ pc[th] \in {"give", "consume"} /\ BufferList[got[th]] = BufferList[t]
                             /\ Has(th) = j
BY DEF Between

LEMMA BetweenNext ==
  ASSUME NEW th \in Threads, \A x \in Threads : x # th => pc'[x] = "idle"
  PROVE  \A t \in Tasks, j \in Nat \ {0} :
           Between(t, j)' <=> /\ pc'[th] \in {"give", "consume"} /\ BufferList[got'[th]] = BufferList[t]
                              /\ Has(th)' = j
BY DEF Between

\* A step that takes no token and leaves the queues alone.
LEMMA QuietMatches ==
  ASSUME TypeInv, Matching, wait_queue' = wait_queue, InOrder',
         \A b \in Buffers : Taken(b)' = Taken(b),
         \A t \in Tasks : token_list'[t] = token_list[t] \/ token_list'[t] = <<>>,
         \A t \in Tasks : \A j \in 1..Len(BufferList[t]) - 1 : ~Between(t, j) /\ ~Between(t, j)',
         \A x \in Threads : pc'[x] # "give" /\ (pc'[x] = "consume" => token_list'[got'[x]] = <<>>)
  PROVE  Matching'
<1>0. Alike /\ Awaited /\ Passing
  BY DEF Matching
<1>1. Alike'
  <2> SUFFICES ASSUME NEW t \in Tasks PROVE \A j \in 1..Len(token_list'[t]) : token_list'[t][j] = token_list'[t][1]
    BY DEF Alike
  <2>1. CASE token_list'[t] = token_list[t]
    BY <1>0, <2>1 DEF Alike
  <2>2. CASE token_list'[t] = <<>>
    BY <2>2
  <2> QED BY <2>1, <2>2
<1>2. Awaited'
  <2> SUFFICES ASSUME NEW b \in Buffers, NEW i \in Queue(b)', token_list'[wait_queue'[b][i]] # <<>>
               PROVE  token_list'[wait_queue'[b][i]][1] = Taken(b)' + i
    BY DEF Awaited
  <2>1. i \in Queue(b) /\ wait_queue'[b][i] = wait_queue[b][i]
    BY DEF Queue
  <2>2. PICK t \in Tasks : t = wait_queue[b][i]
    BY <2>1, Numbers
  <2>3. token_list'[t] = token_list[t] /\ token_list[t] # <<>>
    BY <2>1, <2>2
  <2>4. token_list[t][1] = Taken(b) + i
    BY <1>0, <2>1, <2>2, <2>3 DEF Awaited
  <2> QED BY <2>1, <2>2, <2>3, <2>4
<1>3. Fetched'
  BY DEF Fetched
<1>4. Passing'
  <2> SUFFICES ASSUME NEW t \in Tasks, NEW j \in 1..Len(BufferList[t]) - 1
               PROVE  Taken(BufferList[t][j])'
                        = Taken(BufferList[t][j + 1])' + Len(wait_queue'[BufferList[t][j + 1]])
                            + IF Between(t, j)' THEN 1 ELSE 0
    BY DEF Passing
  <2>1. j \in 1..Len(BufferList[t]) /\ j + 1 \in 1..Len(BufferList[t])
    BY BuffersOf
  <2>2. PICK a \in Buffers : a = BufferList[t][j]
    BY <2>1, BuffersOf
  <2>3. PICK b \in Buffers : b = BufferList[t][j + 1]
    BY <2>1, BuffersOf
  <2>4. Taken(a) = Taken(b) + Len(wait_queue[b]) + IF Between(t, j) THEN 1 ELSE 0
    BY <1>0, <2>2, <2>3 DEF Passing
  <2>5. Taken(a)' = Taken(b)' + Len(wait_queue'[b]) + IF Between(t, j)' THEN 1 ELSE 0
    BY <2>4
  <2> QED BY <2>2, <2>3, <2>5
<1> QED BY <1>1, <1>2, <1>3, <1>4 DEF Matching

\* No token is taken when those of a buffer and their number stay.
LEMMA TakenKept ==
  ASSUME InOrder, UNCHANGED <<tokens, passed>>
  PROVE  InOrder' /\ \A b \in Buffers : Taken(b)' = Taken(b)
BY DEF InOrder, Taken

LEMMA RunMatches ==
  ASSUME IInv, Matching, NEW th \in Threads, NEW t \in Tasks, Run(th, t),
         \A x \in Threads : own[x] = NULL
  PROVE  Matching'
<1>0. TypeInv /\ ThreadInv /\ InOrder
  BY DEF IInv, Matching
<1>1. \A x \in Threads : pc[x] = "idle" /\ pc'[x] \in {"idle", "body"}
  BY <1>0 DEF TypeInv, ThreadInv, Run
<1>2. UNCHANGED <<tokens, passed, wait_queue, token_list>>
  BY DEF Run, bufferVars, history
<1>3. InOrder' /\ \A b \in Buffers : Taken(b)' = Taken(b)
  BY <1>0, <1>2, TakenKept
<1>4. \A s \in Tasks, j \in Nat : ~Between(s, j) /\ ~Between(s, j)'
  BY <1>1 DEF Between
<1>5. \A s \in Tasks : 1..Len(BufferList[s]) - 1 \subseteq Nat
  OBVIOUS
<1> QED BY <1>0, <1>1, <1>2, <1>3, <1>4, <1>5, QuietMatches

LEMMA EndMatches ==
  ASSUME IInv, Single, Matching, NEW th \in Threads, End(th)
  PROVE  Matching'
<1>0. TypeInv /\ ThreadInv /\ InOrder
  BY DEF IInv, Matching
<1>1. \A x \in Threads : pc[x] \notin {"give", "consume"} /\ pc'[x] \notin {"give", "consume"}
  <2>1. \A x \in Threads : x # th => pc[x] = "idle"
    BY <1>0, OthersIdle DEF End
  <2> QED BY <1>0, <2>1 DEF TypeInv, End
<1>2. UNCHANGED <<tokens, passed, wait_queue, token_list>>
  BY DEF End, bufferVars, taskVars, history
<1>3. InOrder' /\ \A b \in Buffers : Taken(b)' = Taken(b)
  BY <1>0, <1>2, TakenKept
<1>4. \A s \in Tasks, j \in Nat : ~Between(s, j) /\ ~Between(s, j)'
  BY <1>1 DEF Between
<1>5. \A s \in Tasks : 1..Len(BufferList[s]) - 1 \subseteq Nat
  OBVIOUS
<1> QED BY <1>0, <1>1, <1>2, <1>3, <1>4, <1>5, QuietMatches

LEMMA ReturnMatches ==
  ASSUME IInv, Single, Matching, NEW th \in Threads, Return(th)
  PROVE  Matching'
<1>0. TypeInv /\ ThreadInv /\ InOrder
  BY DEF IInv, Matching
<1>o. pc[th] = "body" /\ \A x \in Threads : x # th => pc[x] = "idle"
  BY <1>0, OthersIdle DEF Return
<1>t. PICK t \in Tasks : t = own[th]
  BY <1>0, <1>o, NullAssumption DEF TypeInv, ThreadInv
<1>u. /\ token_list' = [token_list EXCEPT ![t] = <<>>]
      /\ \/ pc' = [pc EXCEPT ![th] = "retire"]
         \/ pc' = [pc EXCEPT ![th] = "consume"] /\ got' = [got EXCEPT ![th] = t]
      /\ UNCHANGED <<tokens, passed, wait_queue>>
  BY <1>t DEF Return, bufferVars
<1>1. \A s \in Tasks : token_list'[s] = IF s = t THEN <<>> ELSE token_list[s]
  BY <1>0, <1>u DEF TypeInv
<1>2. InOrder' /\ \A b \in Buffers : Taken(b)' = Taken(b)
  BY <1>0, <1>u, TakenKept
<1>3. \A x \in Threads : x # th => pc'[x] = "idle"
  BY <1>0, <1>o, <1>u DEF TypeInv
<1>4. pc'[th] # "give" /\ (pc'[th] = "consume" => got'[th] = t)
  BY <1>0, <1>u DEF TypeInv
<1>5. \A s \in Tasks, j \in Nat \ {0} : ~Between(s, j)
  BY <1>o, BetweenNow
<1>6. \A s \in Tasks, j \in Nat \ {0} : ~Between(s, j)'
  <2>1. pc'[th] \in {"give", "consume"} => Has(th)' = 0
    <3>1. Len(token_list'[t]) = 0
      BY <1>1
    <3> QED BY <1>4, <3>1 DEF Has
  <2> QED BY <1>3, <2>1, BetweenNext
<1>7. \A s \in Tasks : 1..Len(BufferList[s]) - 1 \subseteq Nat \ {0}
  OBVIOUS
<1>8. \A x \in Threads : pc'[x] # "give" /\ (pc'[x] = "consume" => token_list'[got'[x]] = <<>>)
  BY <1>1, <1>3, <1>4
<1>9. \A s \in Tasks : token_list'[s] = token_list[s] \/ token_list'[s] = <<>>
  BY <1>1
<1>10. \A s \in Tasks : \A j \in 1..Len(BufferList[s]) - 1 : ~Between(s, j) /\ ~Between(s, j)'
  BY <1>5, <1>6, <1>7
<1> QED BY <1>0, <1>u, <1>2, <1>8, <1>9, <1>10, QuietMatches

LEMMA EnableMatches ==
  ASSUME IInv, Single, Matching, NEW th \in Threads, Enable(th)
  PROVE  Matching'
<1>0. TypeInv /\ ThreadInv /\ TokenInv /\ InOrder
  BY DEF IInv, Matching
<1>o. pc[th] = "consume" /\ \A x \in Threads : x # th => pc[x] = "idle"
  BY <1>0, OthersIdle DEF Enable
<1>t. PICK g \in Tasks : g = got[th]
  BY <1>0, <1>o, NullAssumption DEF TypeInv, ThreadInv
<1>u. /\ \/ pc' = [pc EXCEPT ![th] = "over"]
         \/ pc' = [pc EXCEPT ![th] = "body"]
      /\ UNCHANGED <<tokens, passed, wait_queue, token_list>>
  BY DEF Enable, bufferVars, history
<1>1. InOrder' /\ \A b \in Buffers : Taken(b)' = Taken(b)
  BY <1>0, <1>u, TakenKept
<1>2. \A x \in Threads : pc'[x] \notin {"give", "consume"}
  BY <1>0, <1>o, <1>u DEF TypeInv
<1>3. Has(th) = Len(BufferList[g])
  <2>1. current_buffer[g] > Len(BufferList[g]) /\ Partial(g)
    BY <1>0, <1>o, <1>t DEF Enable, TokenInv
  <2>2. Len(token_list[g]) \in Nat /\ Len(BufferList[g]) \in Nat
    BY <1>0, Numbers, BuffersOf
  <2> QED BY <1>o, <1>t, <2>1, <2>2 DEF Partial, Has
<1>4. \A s \in Tasks : \A j \in 1..Len(BufferList[s]) - 1 : ~Between(s, j)
  <2> SUFFICES ASSUME NEW s \in Tasks, NEW j \in 1..Len(BufferList[s]) - 1, Between(s, j)
               PROVE  FALSE
    OBVIOUS
  <2>1. BufferList[got[th]] = BufferList[s] /\ Has(th) = j
    BY <1>o, BetweenNow
  <2>2. BufferList[g] = BufferList[s] /\ Len(BufferList[s]) \in Nat
    BY <1>t, <2>1, BuffersOf
  <2>3. Len(BufferList[g]) = Len(BufferList[s])
    BY <2>2, Zenon
  <2>4. Has(th) = j /\ Len(BufferList[s]) \in Nat
    BY <2>1, <2>2
  <2> HIDE DEF Has
  <2> QED BY <1>3, <2>3, <2>4
<1>5. \A s \in Tasks : \A j \in 1..Len(BufferList[s]) - 1 : ~Between(s, j)'
  BY <1>2 DEF Between
<1> QED BY <1>0, <1>u, <1>1, <1>2, <1>4, <1>5, QuietMatches

LEMMA DepositMatches ==
  ASSUME IInv, Single, NoneDropped', Matching, NEW th \in Threads, Deposit(th)
  PROVE  Matching'
<1>0. TypeInv /\ ThreadInv /\ InOrder
  BY DEF IInv, Matching
<1>o. pc[th] = "body" /\ \A x \in Threads : x # th => pc[x] = "idle"
  BY <1>0, OthersIdle DEF Deposit
<1>d. left[th] # <<>> /\ left[th] \in Seq(Buffers) /\ Head(left[th]) \in Buffers
  BY <1>0, HeadTailProperties DEF Deposit, TypeInv
<1>e. PICK b \in Buffers : b = Head(left[th])
  BY <1>d
<1>u. /\ PutToken(b, passed[b] + 1)
      /\ passed' = [passed EXCEPT ![b] = @ + 1]
      /\ UNCHANGED <<wait_queue, token_list, pc, got>>
  BY <1>e DEF Deposit, taskVars
<1>1. tokens' = [tokens EXCEPT ![b] = Append(@, passed[b] + 1)]
  <2> SUFFICES ASSUME dropped' = [dropped EXCEPT ![b] = @ \union {passed[b] + 1}]
               PROVE  FALSE
    BY <1>u DEF PutToken
  <2>1. dropped'[b] # {}
    BY <1>0 DEF TypeInv
  <2> QED BY <2>1 DEF NoneDropped
<1>2. tokens[b] \in Seq(Nat) /\ Len(tokens[b]) \in Nat /\ passed[b] \in Nat
  BY <1>0, Emptied DEF TypeInv
<1>3. /\ tokens'[b] = Append(tokens[b], passed[b] + 1) /\ passed'[b] = passed[b] + 1
      /\ \A c \in Buffers : c # b => tokens'[c] = tokens[c] /\ passed'[c] = passed[c]
  BY <1>0, <1>1, <1>u DEF TypeInv
<1>4. /\ Len(tokens'[b]) = Len(tokens[b]) + 1
      /\ \A i \in 1..Len(tokens[b]) : tokens'[b][i] = tokens[b][i]
      /\ tokens'[b][Len(tokens[b]) + 1] = passed[b] + 1
  BY <1>2, <1>3, Appended
<1>5. \A c \in Buffers : Taken(c)' = Taken(c)
  <2>1. passed'[b] - Len(tokens'[b]) = passed[b] - Len(tokens[b])
    BY <1>2, <1>3, <1>4
  <2> QED BY <1>3, <2>1 DEF Taken
<1>6. InOrder'
  <2> SUFFICES ASSUME NEW c \in Buffers, NEW i \in 1..Len(tokens'[c])
               PROVE  tokens'[c][i] = Taken(c)' + i
    BY DEF InOrder
  <2>1. CASE c # b
    <3>1. tokens'[c] = tokens[c] /\ i \in 1..Len(tokens[c])
      BY <1>3, <2>1
    <3> QED BY <1>0, <1>5, <3>1 DEF InOrder
  <2>2. CASE c = b /\ i = Len(tokens[b]) + 1
    <3>1. tokens'[c][i] = passed[b] + 1 /\ Taken(c)' = passed[b] - Len(tokens[b])
      BY <1>4, <1>5, <2>2 DEF Taken
    <3>2. passed[b] - Len(tokens[b]) + i = passed[b] + 1
      BY <1>2, <2>2
    <3> QED BY <3>1, <3>2, Zenon
  <2>3. CASE c = b /\ i # Len(tokens[b]) + 1
    <3>1. i \in 1..Len(tokens[c])
      BY <1>2, <1>4, <2>3
    <3>2. tokens'[c][i] = tokens[c][i]
      BY <1>4, <2>3, <3>1
    <3> QED BY <1>0, <1>5, <3>1, <3>2 DEF InOrder
  <2> QED BY <2>1, <2>2, <2>3
<1>7. \A s \in Tasks, j \in Nat : ~Between(s, j) /\ ~Between(s, j)'
  BY <1>o, <1>u DEF Between
<1>8. \A s \in Tasks : 1..Len(BufferList[s]) - 1 \subseteq Nat
  OBVIOUS
<1> QED BY <1>0, <1>o, <1>u, <1>5, <1>6, <1>7, <1>8, QuietMatches

\* A task leaves the queue of buffer x with the token that was passed.
LEMMA DequeueMatches ==
  ASSUME IInv, IInv', Single, Matching, NEW th \in Threads, Dequeue(th)
  PROVE  Matching'
<1>0. /\ TypeInv /\ TypeInv' /\ ThreadInv /\ TokenInv /\ NoneWaitsBesideTokens
      /\ InOrder /\ Alike /\ Awaited /\ Passing
  BY DEF IInv, Matching
<1>o. pc[th] = "body" /\ \A y \in Threads : y # th => pc[y] = "idle"
  BY <1>0, OthersIdle DEF Dequeue
<1>d. left[th] # <<>> /\ left[th] \in Seq(Buffers) /\ Head(left[th]) \in Buffers
  BY <1>0, HeadTailProperties DEF Dequeue, TypeInv
<1>e. PICK x \in Buffers : x = Head(left[th])
  BY <1>d
<1>f. wait_queue[x] # <<>> /\ wait_queue[x] \in Seq(Tasks)
  BY <1>0, <1>e DEF Dequeue, TypeInv
<1>k. PICK g \in Tasks : g = Head(wait_queue[x])
  BY <1>f, HeadTailProperties
<1>u. /\ wait_queue' = [wait_queue EXCEPT ![x] = Tail(@)]
      /\ got' = [got EXCEPT ![th] = g]
      /\ tok' = [tok EXCEPT ![th] = passed[x] + 1]
      /\ passed' = [passed EXCEPT ![x] = @ + 1]
      /\ pc' = [pc EXCEPT ![th] = "give"]
      /\ UNCHANGED <<tokens, token_list, current_buffer>>
  BY <1>e, <1>k DEF Dequeue, taskVars
<1>q. /\ g = wait_queue[x][1] /\ 1 \in Queue(x) /\ Len(wait_queue[x]) \in Nat
      /\ Len(Tail(wait_queue[x])) = Len(wait_queue[x]) - 1
      /\ \A i \in 1..Len(wait_queue[x]) - 1 : Tail(wait_queue[x])[i] = wait_queue[x][i + 1] /\ i + 1 \in Queue(x)
  BY <1>f, <1>k, TailOf DEF Queue
<1>w. /\ wait_queue'[x] = Tail(wait_queue[x]) /\ passed'[x] = passed[x] + 1
      /\ \A c \in Buffers : c # x => wait_queue'[c] = wait_queue[c] /\ passed'[c] = passed[c]
  BY <1>0, <1>u DEF TypeInv
<1>x. tokens[x] = <<>> /\ Len(tokens[x]) = 0 /\ passed[x] \in Nat
  BY <1>0, <1>f DEF NoneWaitsBesideTokens, TypeInv
<1>1. PICK m \in Nat : m = Len(token_list[g])
  BY <1>0, Numbers
<1>2. current_buffer[g] = m + 1 /\ m + 1 \in 1..Len(BufferList[g]) /\ x = BufferList[g][m + 1]
  <2>1. Lacks(g) /\ BufferList[g][current_buffer[g]] = x
    BY <1>0, <1>q DEF TokenInv
  <2>2. Len(BufferList[g]) \in Nat
    BY BuffersOf
  <2> QED BY <1>1, <2>1, <2>2 DEF Lacks, Partial
<1>3. \A c \in Buffers : /\ c = x => Taken(c)' = Taken(c) + 1
                         /\ c # x => Taken(c)' = Taken(c)
  <2>1. passed'[x] - Len(tokens'[x]) = passed[x] - Len(tokens[x]) + 1
    BY <1>u, <1>w, <1>x
  <2> QED BY <1>u, <1>w, <2>1 DEF Taken
<1>4. /\ \A y \in Threads : y # th => pc'[y] = "idle"
      /\ pc'[th] = "give" /\ got'[th] = g /\ tok'[th] = passed[x] + 1
  BY <1>0, <1>o, <1>u DEF TypeInv
<1>5. InOrder'
  <2> SUFFICES ASSUME NEW c \in Buffers, NEW i \in 1..Len(tokens[c])
               PROVE  tokens[c][i] = Taken(c)' + i
    BY <1>u DEF InOrder
  <2>1. c # x
    BY <1>x
  <2> QED BY <1>0, <1>3, <2>1 DEF InOrder
<1>6. Alike'
  BY <1>0, <1>u DEF Alike
<1>7. Awaited'
  <2> SUFFICES ASSUME NEW c \in Buffers, NEW i \in Queue(c)', token_list[wait_queue'[c][i]] # <<>>
               PROVE  token_list[wait_queue'[c][i]][1] = Taken(c)' + i
    BY <1>u DEF Awaited
  <2>1. CASE c # x
    <3>1. wait_queue'[c] = wait_queue[c] /\ i \in Queue(c)
      BY <1>w, <2>1 DEF Queue
    <3> QED BY <1>0, <1>3, <2>1, <3>1 DEF Awaited
  <2>2. CASE c = x
    <3>1. i \in 1..Len(wait_queue[x]) - 1
      BY <1>q, <1>w, <2>2 DEF Queue
    <3>2. PICK k \in Queue(x) : k = i + 1 /\ wait_queue'[c][i] = wait_queue[x][k]
      BY <1>q, <1>w, <2>2, <3>1
    <3>3. token_list[wait_queue[x][k]][1] = Taken(x) + k
      BY <1>0, <3>2 DEF Awaited
    <3>4. Taken(c)' = Taken(x) + 1 /\ Taken(x) \in Int
      BY <1>0, <1>3, <2>2, Counts
    <3>5. Taken(x) + 1 + i = Taken(x) + k
      BY <3>1, <3>2, <3>4
    <3> QED BY <3>2, <3>3, <3>4, <3>5, Zenon
  <2> QED BY <2>1, <2>2
<1>8. Fetched'
  <2>1. Needed(got[th])' = x /\ Taken(Needed(got[th]))' = passed[x] + 1
    <3>1. Needed(got[th])' = x
      BY <1>u, <1>2, <1>4 DEF Needed
    <3>2. passed'[x] - Len(tokens'[x]) = passed[x] + 1
      BY <1>u, <1>w, <1>x
    <3> QED BY <3>1, <3>2 DEF Taken
  <2>2. ASSUME token_list'[got'[th]] # <<>> PROVE token_list'[got'[th]][1] = tok'[th]
    <3>1. token_list[g] # <<>>
      BY <1>u, <1>4, <2>2
    <3>2. token_list[g][1] = Taken(x) + 1
      BY <1>0, <1>q, <3>1 DEF Awaited
    <3>3. Taken(x) = passed[x]
      BY <1>x DEF Taken
    <3> QED BY <1>u, <1>4, <3>2, <3>3
  <2>3. \A y \in Threads : pc'[y] = "give" => y = th
    BY <1>4
  <2>4. \A y \in Threads : pc'[y] # "consume"
    BY <1>4
  <2>5. tok'[th] = Taken(Needed(got[th]))'
    BY <1>4, <2>1
  <2> QED BY <2>2, <2>3, <2>4, <2>5 DEF Fetched
<1>9. Passing'
  <2>1. \A t \in Tasks, j \in Nat \ {0} : ~Between(t, j)
    BY <1>o, BetweenNow
  <2>2. Has(th)' = m + 1
    BY <1>u, <1>1, <1>4 DEF Has
  <2>3. \A t \in Tasks, j \in Nat \ {0} : Between(t, j)' <=> BufferList[g] = BufferList[t] /\ m + 1 = j
    BY <1>4, <2>2, BetweenNext
  <2>4. \A c \in Buffers : /\ c = x => Len(wait_queue'[c]) = Len(wait_queue[c]) + 0 - 1
                           /\ c # x => Len(wait_queue'[c]) = Len(wait_queue[c])
    <3>1. Len(wait_queue'[x]) = Len(wait_queue[x]) - 1
      BY <1>q, <1>w, Zenon
    <3>2. Len(wait_queue'[x]) = Len(wait_queue[x]) + 0 - 1
      BY <1>q, <3>1
    <3>3. \A c \in Buffers : c # x => Len(wait_queue'[c]) = Len(wait_queue[c])
      BY <1>w, Zenon
    <3> QED BY <3>2, <3>3, Zenon
  <2> HIDE DEF Has
  <2>5. /\ 0 \in {0, 1} /\ 1 \in {0, 1}
        /\ \A t \in Tasks, j \in Nat \ {0} : Between(t, j) <=> 0 = 1 /\ BufferList[t] = BufferList[g] /\ j = m
        /\ \A t \in Tasks, j \in Nat \ {0} : Between(t, j)' <=> 1 = 1 /\ BufferList[t] = BufferList[g] /\ j = m + 1
    BY <2>1, <2>3
  <2>6. \A c \in Buffers : c = x => Taken(c)' = Taken(c) + 1 /\ Len(wait_queue'[c]) = Len(wait_queue[c]) + 0 - 1
    BY <1>3, <2>4
  <2>7. \A c \in Buffers : c # x => Taken(c)' = Taken(c) /\ Len(wait_queue'[c]) = Len(wait_queue[c])
    BY <1>3, <2>4
  <2> QED BY <1>0, <1>2, <2>5, <2>6, <2>7, PassingMoves
<1> QED BY <1>5, <1>6, <1>7, <1>8, <1>9 DEF Matching

LEMMA GiveMatches ==
  ASSUME IInv, Single, Matching, NEW th \in Threads, Give(th)
  PROVE  Matching'
<1>0. /\ TypeInv /\ ThreadInv /\ TokenInv /\ PlaceInv
      /\ InOrder /\ Alike /\ Awaited /\ Fetched /\ Passing
  BY DEF IInv, Matching
<1>o. pc[th] = "give" /\ \A y \in Threads : y # th => pc[y] = "idle"
  BY <1>0, OthersIdle DEF Give
<1>g. PICK g \in Tasks : g = got[th]
  BY <1>0, <1>o, NullAssumption DEF TypeInv, ThreadInv
<1>u. /\ token_list' = [token_list EXCEPT ![g] = Append(@, tok[th])]
      /\ pc' = [pc EXCEPT ![th] = "consume"]
      /\ UNCHANGED <<tokens, wait_queue, passed, got, tok>>
  BY <1>g DEF Give, bufferVars, history
<1>1. PICK m \in Nat : m = Len(token_list[g])
  BY <1>0, Numbers
<1>2. current_buffer[g] = m + 1 /\ m + 1 \in 1..Len(BufferList[g])
  <2>1. Lacks(g)
    BY <1>0, <1>o, <1>g DEF TokenInv
  <2>2. Len(BufferList[g]) \in Nat
    BY BuffersOf
  <2> QED BY <1>1, <2>1, <2>2 DEF Lacks, Partial
<1>3. PICK x \in Buffers : x = BufferList[g][m + 1]
  BY <1>2, BuffersOf
<1>4. /\ tok[th] = Taken(x) /\ tok[th] \in Nat
      /\ token_list[g] # <<>> => token_list[g][1] = tok[th]
  <2>1. Needed(got[th]) = x
    BY <1>g, <1>2, <1>3 DEF Needed
  <2>2. tok[th] = Taken(Needed(got[th])) /\ (token_list[g] # <<>> => token_list[g][1] = tok[th])
    BY <1>0, <1>o, <1>g DEF Fetched
  <2>3. tok[th] \in Nat
    BY <1>0 DEF TypeInv
  <2> QED BY <2>1, <2>2, <2>3, Zenon
<1>5. /\ token_list'[g] = Append(token_list[g], tok[th]) /\ token_list[g] \in Seq(Nat)
      /\ \A s \in Tasks : s # g => token_list'[s] = token_list[s]
  BY <1>0, <1>u DEF TypeInv
<1>6. /\ Len(token_list'[g]) = m + 1 /\ token_list'[g][m + 1] = tok[th]
      /\ \A j \in 1..m : token_list'[g][j] = token_list[g][j]
  BY <1>1, <1>4, <1>5, Appended
<1>7. \A j \in 1..m + 1 : token_list'[g][j] = tok[th]
  <2> SUFFICES ASSUME NEW j \in 1..m + 1 PROVE token_list'[g][j] = tok[th]
    OBVIOUS
  <2>1. CASE j = m + 1
    BY <1>6, <2>1
  <2>2. CASE j # m + 1
    <3>1. j \in 1..m /\ m # 0
      BY <2>2
    <3>2. token_list[g] # <<>>
      BY <1>0, <1>1, <3>1, Numbers
    <3>3. token_list[g][j] = token_list[g][1]
      BY <1>0, <1>1, <3>1 DEF Alike
    <3> QED BY <1>4, <1>6, <3>1, <3>2, <3>3
  <2> QED BY <2>1, <2>2
<1>8. \A y \in Threads : y # th => pc'[y] = "idle"
  BY <1>0, <1>o, <1>u DEF TypeInv
<1>9. pc'[th] = "consume" /\ got'[th] = g
  BY <1>0, <1>g, <1>u DEF TypeInv
<1>10. InOrder' /\ \A b \in Buffers : Taken(b)' = Taken(b)
  BY <1>0, <1>u, TakenKept
<1>11. Alike'
  <2> SUFFICES ASSUME NEW t \in Tasks, NEW j \in 1..Len(token_list'[t])
               PROVE  token_list'[t][j] = token_list'[t][1]
    BY DEF Alike
  <2>1. CASE t = g
    <3>1. j \in 1..m + 1 /\ 1 \in 1..m + 1
      BY <1>6, <2>1
    <3> QED BY <1>7, <2>1, <3>1
  <2>2. CASE t # g
    BY <1>0, <1>5, <2>2 DEF Alike
  <2> QED BY <2>1, <2>2
<1>12. Awaited'
  <2> SUFFICES ASSUME NEW c \in Buffers, NEW i \in Queue(c), token_list'[wait_queue[c][i]] # <<>>
               PROVE  token_list'[wait_queue[c][i]][1] = Taken(c)' + i
    BY <1>u DEF Awaited, Queue
  <2>1. PICK t \in Tasks : t = wait_queue[c][i]
    BY <1>0, Numbers
  <2>2. t # g
    BY <1>0, <1>o, <1>g, <2>1 DEF PlaceInv, Holds
  <2>3. token_list'[t] = token_list[t]
    BY <1>5, <2>2
  <2> QED BY <1>0, <1>10, <2>1, <2>3 DEF Awaited
<1>13. Fetched'
  <2>1. token_list'[g][1] = tok[th]
    BY <1>7
  <2>2. Taken(BufferList[got[th]][Len(token_list[got[th]])])' = Taken(x)
    <3>1. BufferList[got'[th]][Len(token_list'[got'[th]])] = x
      BY <1>3, <1>6, <1>9
    <3> QED BY <1>u, <3>1 DEF Taken
  <2>3. token_list'[got'[th]][1] = Taken(BufferList[got[th]][Len(token_list[got[th]])])'
    BY <1>4, <1>9, <2>1, <2>2
  <2>4. \A y \in Threads : pc'[y] # "give" /\ (pc'[y] = "consume" => y = th)
    BY <1>8, <1>9
  <2> QED BY <2>3, <2>4 DEF Fetched
<1>14. Passing'
  <2>1. Has(th)' = m + 1 /\ Has(th) = m + 1
    BY <1>o, <1>g, <1>1, <1>6, <1>9 DEF Has
  <2>2. \A t \in Tasks, j \in Nat \ {0} : Between(t, j)' <=> Between(t, j)
    BY <1>o, <1>g, <1>8, <1>9, <2>1, BetweenNow, BetweenNext
  <2>3. \A t \in Tasks : 1..Len(BufferList[t]) - 1 \subseteq Nat \ {0}
    OBVIOUS
  <2> SUFFICES ASSUME NEW t \in Tasks, NEW j \in 1..Len(BufferList[t]) - 1
               PROVE  Taken(BufferList[t][j])'
                        = Taken(BufferList[t][j + 1])' + Len(wait_queue'[BufferList[t][j + 1]])
                            + IF Between(t, j)' THEN 1 ELSE 0
    BY DEF Passing
  <2>4. j \in 1..Len(BufferList[t]) /\ j + 1 \in 1..Len(BufferList[t])
    BY BuffersOf
  <2>5. PICK a \in Buffers : a = BufferList[t][j]
    BY <2>4, BuffersOf
  <2>6. PICK b \in Buffers : b = BufferList[t][j + 1]
    BY <2>4, BuffersOf
  <2>7. Taken(a) = Taken(b) + Len(wait_queue[b]) + IF Between(t, j) THEN 1 ELSE 0
    BY <1>0, <2>5, <2>6 DEF Passing
  <2>8. Taken(a)' = Taken(b)' + Len(wait_queue'[b]) + IF Between(t, j)' THEN 1 ELSE 0
    BY <1>u, <1>10, <2>2, <2>3, <2>7
  <2> QED BY <2>5, <2>6, <2>8
<1> QED BY <1>10, <1>11, <1>12, <1>13, <1>14 DEF Matching

\* What a thread knows that collects tokens for task g: the buffer it looks at next, and the
\* number of the tokens that g has.
LEMMA Collecting ==
  ASSUME IInv, Single, Matching, NEW th \in Threads, pc[th] = "consume", NEW g \in Tasks, g = got[th],
         NEW x \in Buffers, Needs(th, x), wait_queue[x] \in Seq(Tasks), NEW m \in Nat, m = Len(token_list[g])
  PROVE  /\ current_buffer[g] = m + 1 /\ m + 1 \in 1..Len(BufferList[g]) /\ x = BufferList[g][m + 1]
         /\ \A t \in Tasks, j \in Nat \ {0} : Between(t, j) <=> BufferList[t] = BufferList[g] /\ j = m
         /\ token_list[g] # <<>> => token_list[g][1] = Taken(x) + Len(wait_queue[x]) + 1
<1>0. TypeInv /\ ThreadInv /\ TokenInv /\ Fetched /\ Passing
  BY DEF IInv, Matching
<1>1. current_buffer[g] = m + 1 /\ m + 1 \in 1..Len(BufferList[g]) /\ x = BufferList[g][m + 1]
  <2>1. Partial(g) /\ current_buffer[g] <= Len(BufferList[g]) /\ x = BufferList[g][current_buffer[g]]
    BY <1>0 DEF TokenInv, Needs
  <2>2. Len(BufferList[g]) \in Nat
    BY BuffersOf
  <2> QED BY <2>1, <2>2 DEF Partial
<1>2. \A t \in Tasks, j \in Nat \ {0} : Between(t, j) <=> BufferList[t] = BufferList[g] /\ j = m
  <2>1. \A y \in Threads : y # th => pc[y] = "idle"
    BY <1>0, OthersIdle
  <2>2. Has(th) = m
    <3>1. Has(th) = m + 0
      BY DEF Has
    <3> QED BY <3>1
  <2>3. \A t \in Tasks, j \in Nat \ {0} : Between(t, j) <=> BufferList[g] = BufferList[t] /\ m = j
    BY <2>1, <2>2, BetweenNow
  <2> QED BY <2>3, Zenon
<1>3. ASSUME token_list[g] # <<>> PROVE token_list[g][1] = Taken(x) + Len(wait_queue[x]) + 1
  <2>1. m # 0
    BY <1>0, <1>3, Numbers
  <2>2. m \in 1..Len(BufferList[g]) - 1 /\ m \in 1..Len(BufferList[g]) /\ m \in Nat \ {0}
    BY <1>1, <2>1, BuffersOf
  <2>3. token_list[g][1] = Taken(BufferList[g][m])
    BY <1>0, <1>3 DEF Fetched
  <2>4. Taken(BufferList[g][m]) = Taken(BufferList[g][m + 1]) + Len(wait_queue[BufferList[g][m + 1]])
                                    + IF Between(g, m) THEN 1 ELSE 0
    BY <1>0, <2>2 DEF Passing
  <2>5. Between(g, m)
    BY <1>2, <2>2
  <2>6. Taken(BufferList[g][m + 1]) = Taken(x) /\ Len(wait_queue[BufferList[g][m + 1]]) = Len(wait_queue[x])
    BY <1>1, Zenon
  <2>7. Taken(x) \in Int /\ Len(wait_queue[x]) \in Nat
    BY <1>0, Counts
  <2> QED BY <2>3, <2>4, <2>5, <2>6, <2>7
<1> QED BY <1>1, <1>2, <1>3

LEMMA GetTokenMatches ==
  ASSUME IInv, IInv', Single, Matching, NEW th \in Threads, GetToken(th)
  PROVE  Matching'
<1>0. /\ TypeInv /\ TypeInv' /\ ThreadInv /\ PlaceInv /\ NoneWaitsBesideTokens
      /\ InOrder /\ Alike /\ Awaited /\ Passing
  BY DEF IInv, Matching
<1>o. pc[th] = "consume" /\ \A y \in Threads : y # th => pc[y] = "idle"
  BY <1>0, OthersIdle DEF GetToken, Needs
<1>g. PICK g \in Tasks : g = got[th]
  BY <1>0, <1>o, NullAssumption DEF TypeInv, ThreadInv
<1>u. PICK x \in Buffers :
        /\ Needs(th, x)
        /\ tokens[x] # <<>>
        /\ tokens' = [tokens EXCEPT ![x] = Tail(@)]
        /\ token_list' = [token_list EXCEPT ![g] = Append(@, Head(tokens[x]))]
        /\ UNCHANGED <<wait_queue, pc, got, tok, passed>>
  BY <1>g DEF GetToken, threadVars, history
<1>q. wait_queue[x] = <<>> /\ Len(wait_queue[x]) = 0 /\ wait_queue[x] \in Seq(Tasks) /\ passed[x] \in Nat
  BY <1>0, <1>u DEF NoneWaitsBesideTokens, TypeInv
<1>1. PICK m \in Nat : m = Len(token_list[g])
  BY <1>0, Numbers
<1>2. /\ m + 1 \in 1..Len(BufferList[g]) /\ x = BufferList[g][m + 1]
      /\ \A t \in Tasks, j \in Nat \ {0} : Between(t, j) <=> BufferList[t] = BufferList[g] /\ j = m
      /\ token_list[g] # <<>> => token_list[g][1] = Taken(x) + Len(wait_queue[x]) + 1
  <2>1. pc[th] = "consume" /\ g = got[th] /\ Needs(th, x) /\ wait_queue[x] \in Seq(Tasks) /\ m = Len(token_list[g])
    BY <1>o, <1>g, <1>u, <1>q, <1>1
  <2> QED BY <2>1, Collecting
<1>k. PICK n \in Nat : n = Head(tokens[x])
  BY <1>0, <1>u, TailOf DEF TypeInv
<1>3. /\ tokens[x] \in Seq(Nat) /\ Len(tokens[x]) \in Nat /\ Len(tokens[x]) # 0
      /\ Len(Tail(tokens[x])) = Len(tokens[x]) - 1 /\ n = tokens[x][1]
      /\ \A i \in 1..Len(tokens[x]) - 1 : Tail(tokens[x])[i] = tokens[x][i + 1] /\ i + 1 \in 1..Len(tokens[x])
  <2>1. tokens[x] \in Seq(Nat)
    BY <1>0 DEF TypeInv
  <2> QED BY <2>1, <1>k, <1>u, TailOf, Emptied
<1>4. /\ tokens'[x] = Tail(tokens[x])
      /\ \A c \in Buffers : c # x => tokens'[c] = tokens[c]
  BY <1>0, <1>u DEF TypeInv
<1>5. /\ token_list'[g] = Append(token_list[g], n) /\ token_list[g] \in Seq(Nat)
      /\ \A s \in Tasks : s # g => token_list'[s] = token_list[s]
  BY <1>0, <1>u, <1>k DEF TypeInv
<1>6. \A c \in Buffers : /\ c = x => Taken(c)' = Taken(c) + 1
                         /\ c # x => Taken(c)' = Taken(c)
  <2>1. Len(tokens'[x]) = Len(tokens[x]) - 1
    BY <1>3, <1>4, Zenon
  <2>2. passed'[x] - Len(tokens'[x]) = passed[x] - Len(tokens[x]) + 1
    BY <1>u, <1>q, <1>3, <2>1, SMTT(30)
  <2> QED BY <1>u, <1>4, <2>2 DEF Taken
<1>7. n = Taken(x) + 1 /\ Taken(x) \in Int
  <2>1. 1 \in 1..Len(tokens[x])
    BY <1>3
  <2> QED BY <1>0, <1>3, <2>1, Counts DEF InOrder
<1>8. token_list[g] # <<>> => token_list[g][1] = n
  BY <1>2, <1>q, <1>7
<1>9. /\ Len(token_list'[g]) = m + 1 /\ token_list'[g][m + 1] = n
      /\ \A j \in 1..m : token_list'[g][j] = token_list[g][j]
  BY <1>1, <1>5, Appended
<1>10. \A j \in 1..m + 1 : token_list'[g][j] = n
  <2> SUFFICES ASSUME NEW j \in 1..m + 1 PROVE token_list'[g][j] = n
    OBVIOUS
  <2>1. CASE j = m + 1
    BY <1>9, <2>1
  <2>2. CASE j # m + 1
    <3>1. j \in 1..m /\ m # 0
      BY <2>2
    <3>2. token_list[g] # <<>>
      BY <1>0, <1>1, <3>1, Numbers
    <3>3. token_list[g][j] = token_list[g][1]
      BY <1>0, <1>1, <3>1 DEF Alike
    <3> QED BY <1>8, <1>9, <3>1, <3>2, <3>3
  <2> QED BY <2>1, <2>2
<1>11. /\ \A y \in Threads : y # th => pc'[y] = "idle"
       /\ pc'[th] = "consume" /\ got'[th] = g
  BY <1>o, <1>g, <1>u
<1>12. InOrder'
  <2> SUFFICES ASSUME NEW c \in Buffers, NEW i \in 1..Len(tokens'[c])
               PROVE  tokens'[c][i] = Taken(c)' + i
    BY DEF InOrder
  <2>1. CASE c # x
    <3>1. tokens'[c] = tokens[c] /\ i \in 1..Len(tokens[c])
      BY <1>4, <2>1
    <3> QED BY <1>0, <1>6, <2>1, <3>1 DEF InOrder
  <2>2. CASE c = x
    <3>1. i \in 1..Len(tokens[x]) - 1
      BY <1>3, <1>4, <2>2
    <3>2. PICK k \in 1..Len(tokens[x]) : k = i + 1 /\ tokens'[c][i] = tokens[x][k]
      BY <1>3, <1>4, <2>2, <3>1
    <3>3. tokens[x][k] = Taken(x) + k
      BY <1>0 DEF InOrder
    <3>4. Taken(c)' = Taken(x) + 1
      BY <1>6, <2>2
    <3>5. Taken(x) + 1 + i = Taken(x) + k
      BY <1>7, <3>1, <3>2
    <3> QED BY <3>2, <3>3, <3>4, <3>5, Zenon
  <2> QED BY <2>1, <2>2
<1>13. Alike'
  <2> SUFFICES ASSUME NEW t \in Tasks, NEW j \in 1..Len(token_list'[t])
               PROVE  token_list'[t][j] = token_list'[t][1]
    BY DEF Alike
  <2>1. CASE t = g
    <3>1. j \in 1..m + 1 /\ 1 \in 1..m + 1
      BY <1>9, <2>1
    <3> QED BY <1>10, <2>1, <3>1
  <2>2. CASE t # g
    BY <1>0, <1>5, <2>2 DEF Alike
  <2> QED BY <2>1, <2>2
<1>14. Awaited'
  <2> SUFFICES ASSUME NEW c \in Buffers, NEW i \in Queue(c), token_list'[wait_queue[c][i]] # <<>>
               PROVE  token_list'[wait_queue[c][i]][1] = Taken(c)' + i
    BY <1>u DEF Awaited, Queue
  <2>1. PICK t \in Tasks : t = wait_queue[c][i]
    BY <1>0, Numbers
  <2>2. t # g
    BY <1>0, <1>o, <1>g, <2>1 DEF PlaceInv, Holds
  <2>3. token_list'[t] = token_list[t]
    BY <1>5, <2>2
  <2>4. c # x
    BY <1>q DEF Queue
  <2> QED BY <1>0, <1>6, <2>1, <2>3, <2>4 DEF Awaited
<1>15. Fetched'
  <2>1. token_list'[g][1] = n
    BY <1>10
  <2>2. Taken(BufferList[got[th]][Len(token_list[got[th]])])' = n
    <3>1. BufferList[got'[th]][Len(token_list'[got'[th]])] = x
      BY <1>2, <1>9, <1>11
    <3>2. passed'[x] - Len(tokens'[x]) = n
      <4>1. Taken(x)' = n
        BY <1>6, <1>7
      <4> QED BY <4>1 DEF Taken
    <3> QED BY <3>1, <3>2 DEF Taken
  <2>3. token_list'[got'[th]][1] = Taken(BufferList[got[th]][Len(token_list[got[th]])])'
    BY <1>11, <2>1, <2>2
  <2>4. \A y \in Threads : pc'[y] # "give" /\ (pc'[y] = "consume" => y = th)
    BY <1>11
  <2> QED BY <2>3, <2>4 DEF Fetched
<1>16. Passing'
  <2>1. Has(th)' = m + 1
    <3>1. Has(th)' = m + 1 + 0
      BY <1>9, <1>11 DEF Has
    <3> QED BY <3>1
  <2>2. \A t \in Tasks, j \in Nat \ {0} : Between(t, j)' <=> BufferList[g] = BufferList[t] /\ m + 1 = j
    BY <1>11, <2>1, BetweenNext
  <2>3. \A c \in Buffers : c = x => Taken(c)' = Taken(c) + 1 /\ Len(wait_queue'[c]) = Len(wait_queue[c]) + 1 - 1
    <3>1. Len(wait_queue'[x]) = Len(wait_queue[x]) + 1 - 1
      BY <1>q, <1>u
    <3> QED BY <1>6, <3>1, Zenon
  <2>4. \A c \in Buffers : c # x => Taken(c)' = Taken(c) /\ Len(wait_queue'[c]) = Len(wait_queue[c])
    BY <1>6, <1>u, Zenon
  <2>5. /\ 1 \in {0, 1}
        /\ \A t \in Tasks, j \in Nat \ {0} : Between(t, j) <=> 1 = 1 /\ BufferList[t] = BufferList[g] /\ j = m
        /\ \A t \in Tasks, j \in Nat \ {0} : Between(t, j)' <=> 1 = 1 /\ BufferList[t] = BufferList[g] /\ j = m + 1
    BY <1>2, <2>2
  <2> QED BY <1>0, <1>2, <2>3, <2>4, <2>5, PassingMoves
<1> QED BY <1>12, <1>13, <1>14, <1>15, <1>16 DEF Matching

LEMMA EnqueueTaskMatches ==
  ASSUME IInv, IInv', Single, Matching, NEW th \in Threads, EnqueueTask(th)
  PROVE  Matching'
<1>0. /\ TypeInv /\ TypeInv' /\ ThreadInv /\ InOrder /\ Alike /\ Awaited /\ Passing
  BY DEF IInv, Matching
<1>o. pc[th] = "consume" /\ \A y \in Threads : y # th => pc[y] = "idle"
  BY <1>0, OthersIdle DEF EnqueueTask, Needs
<1>g. PICK g \in Tasks : g = got[th]
  BY <1>0, <1>o, NullAssumption DEF TypeInv, ThreadInv
<1>u. PICK x \in Buffers :
        /\ Needs(th, x)
        /\ wait_queue' = [wait_queue EXCEPT ![x] = Append(@, g)]
        /\ \/ pc' = [pc EXCEPT ![th] = "retire"]
           \/ pc' = [pc EXCEPT ![th] = "body"]
        /\ UNCHANGED <<tokens, token_list, passed>>
  BY <1>g DEF EnqueueTask, history
<1>1. PICK m \in Nat : m = Len(token_list[g])
  BY <1>0, Numbers
<1>q. wait_queue[x] \in Seq(Tasks) /\ Len(wait_queue[x]) \in Nat
  BY <1>0, Emptied DEF TypeInv
<1>2. /\ m + 1 \in 1..Len(BufferList[g]) /\ x = BufferList[g][m + 1]
      /\ \A t \in Tasks, j \in Nat \ {0} : Between(t, j) <=> BufferList[t] = BufferList[g] /\ j = m
      /\ token_list[g] # <<>> => token_list[g][1] = Taken(x) + Len(wait_queue[x]) + 1
  BY <1>o, <1>g, <1>u, <1>q, <1>1, Collecting
<1>3. /\ wait_queue'[x] = Append(wait_queue[x], g)
      /\ \A c \in Buffers : c # x => wait_queue'[c] = wait_queue[c]
  BY <1>0, <1>u DEF TypeInv
<1>4. /\ Len(wait_queue'[x]) = Len(wait_queue[x]) + 1 /\ wait_queue'[x][Len(wait_queue[x]) + 1] = g
      /\ \A i \in Queue(x) : wait_queue'[x][i] = wait_queue[x][i]
  BY <1>q, <1>3, Appended DEF Queue
<1>5. InOrder' /\ \A b \in Buffers : Taken(b)' = Taken(b)
  BY <1>0, <1>u, TakenKept
<1>6. \A y \in Threads : pc'[y] \notin {"give", "consume"}
  <2>1. pc \in [Threads -> {"idle", "body", "give", "consume", "retire", "over"}]
    BY <1>0 DEF TypeInv
  <2>2. pc'[th] \in {"retire", "body"} /\ \A y \in Threads : y # th => pc'[y] = pc[y]
    BY <1>u, <2>1
  <2> QED BY <1>o, <2>2
<1>7. Alike'
  BY <1>0, <1>u DEF Alike
<1>8. Awaited'
  <2> SUFFICES ASSUME NEW c \in Buffers, NEW i \in Queue(c)', token_list[wait_queue'[c][i]] # <<>>
               PROVE  token_list[wait_queue'[c][i]][1] = Taken(c)' + i
    BY <1>u DEF Awaited
  <2>1. CASE c # x
    <3>1. wait_queue'[c] = wait_queue[c] /\ i \in Queue(c)
      BY <1>3, <2>1 DEF Queue
    <3> QED BY <1>0, <1>5, <3>1 DEF Awaited
  <2>2. CASE c = x /\ i = Len(wait_queue[x]) + 1
    <3>1. wait_queue'[c][i] = g /\ token_list[g] # <<>>
      BY <1>4, <2>2
    <3>2. token_list[g][1] = Taken(x) + Len(wait_queue[x]) + 1
      BY <1>2, <3>1
    <3>3. Taken(c)' = Taken(x) /\ Taken(x) \in Int
      BY <1>0, <1>5, <2>2, Counts
    <3>4. Taken(x) + i = Taken(x) + Len(wait_queue[x]) + 1
      BY <1>q, <2>2, <3>3
    <3> QED BY <3>1, <3>2, <3>3, <3>4, Zenon
  <2>3. CASE c = x /\ i # Len(wait_queue[x]) + 1
    <3>1. i \in Queue(c)
      BY <1>q, <1>4, <2>3 DEF Queue
    <3>2. wait_queue'[c][i] = wait_queue[c][i]
      BY <1>4, <2>3, <3>1
    <3> QED BY <1>0, <1>5, <3>1, <3>2 DEF Awaited
  <2> QED BY <2>1, <2>2, <2>3
<1>9. Fetched'
  BY <1>6 DEF Fetched
<1>10. Passing'
  <2>1. \A t \in Tasks, j \in Nat \ {0} : ~Between(t, j)'
    BY <1>6 DEF Between
  <2>2. \A c \in Buffers : c = x => Taken(c)' = Taken(c) + 0 /\ Len(wait_queue'[c]) = Len(wait_queue[c]) + 1 - 0
    <3>1. Len(wait_queue'[x]) = Len(wait_queue[x]) + 1 - 0
      BY <1>q, <1>4
    <3>2. Taken(x)' = Taken(x) + 0
      BY <1>0, <1>5, Counts
    <3>3. \A c \in Buffers : Taken(c)' = Taken(c) + 0
      BY <1>0, <1>5, Counts
    <3> QED BY <3>1, <3>3, Zenon
  <2>3. \A c \in Buffers : c # x => Taken(c)' = Taken(c) /\ Len(wait_queue'[c]) = Len(wait_queue[c])
    BY <1>3, <1>5, Zenon
  <2>4. /\ 0 \in {0, 1} /\ 1 \in {0, 1}
        /\ \A t \in Tasks, j \in Nat \ {0} : Between(t, j) <=> 1 = 1 /\ BufferList[t] = BufferList[g] /\ j = m
        /\ \A t \in Tasks, j \in Nat \ {0} : Between(t, j)' <=> 0 = 1 /\ BufferList[t] = BufferList[g] /\ j = m + 1
    BY <1>2, <2>1
  <2> QED BY <1>0, <1>2, <2>2, <2>3, <2>4, PassingMoves
<1> QED BY <1>5, <1>7, <1>8, <1>9, <1>10 DEF Matching

LEMMA InitMatches == Init => Single /\ Matching
<1> SUFFICES ASSUME Init PROVE Single /\ Matching
  OBVIOUS
<1>1. Single
  BY DEF Init, Single
<1>2. /\ \A b \in Buffers : tokens[b] = <<>> /\ passed[b] = 0 /\ wait_queue[b] = Created[b] /\ Taken(b) = 0
      /\ \A t \in Tasks : token_list[t] = <<>>
      /\ \A th \in Threads : pc[th] = "idle"
  BY DEF Init, Taken
<1>3. InOrder /\ Alike /\ Fetched
  BY <1>2 DEF InOrder, Alike, Fetched
<1>4. Awaited
  <2>1. TypeInv
    BY InitInv DEF IInv
  <2> QED BY <1>2, <2>1, Numbers DEF Awaited
<1>5. Passing
  <2> SUFFICES ASSUME NEW t \in Tasks, NEW j \in 1..Len(BufferList[t]) - 1
               PROVE  Taken(BufferList[t][j])
                        = Taken(BufferList[t][j + 1]) + Len(wait_queue[BufferList[t][j + 1]])
                            + IF Between(t, j) THEN 1 ELSE 0
    BY DEF Passing
  <2>1. j \in 1..Len(BufferList[t]) /\ j + 1 \in 1..Len(BufferList[t]) /\ j + 1 # 1
    BY BuffersOf
  <2>2. PICK a \in Buffers : a = BufferList[t][j]
    BY <2>1, BuffersOf
  <2>3. PICK b \in Buffers : b = BufferList[t][j + 1]
    BY <2>1, BuffersOf
  <2>4. Created[b] = <<>>
    <3> SUFFICES ASSUME Created[b] # <<>> PROVE FALSE
      OBVIOUS
    <3>1. Created[b] \in Seq(Tasks)
      BY CreatedAssumption
    <3>2. 1 \in DOMAIN Created[b] /\ Created[b][1] \in Tasks
      BY <3>1, Emptied
    <3>3. PICK u \in Tasks : u = Created[b][1]
      BY <3>2
    <3>4. BufferList[u] # <<>> /\ BufferList[u][1] = b
      BY <3>2, <3>3, CreatedAssumption
    <3>5. BufferList[u] \in Seq(Buffers)
      BY BufferListAssumption
    <3>6. 1 \in 1..Len(BufferList[u])
      BY <3>4, <3>5, Emptied
    <3>7. PICK k \in 1..Len(BufferList[t]) : k = j + 1
      BY <2>1
    <3>8. BufferList[u][1] = BufferList[t][k]
      BY <2>3, <3>4, <3>7
    <3>9. 1 = k
      BY <3>6, <3>8, SameSpot
    <3> QED BY <2>1, <3>7, <3>9
  <2>5. Len(wait_queue[b]) = 0 /\ Taken(a) = 0 /\ Taken(b) = 0 /\ ~Between(t, j)
    BY <1>2, <2>4 DEF Between
  <2> QED BY <2>2, <2>3, <2>5
<1> QED BY <1>1, <1>3, <1>4, <1>5 DEF Matching

\* No two tasks run at a time when the scheduler is the test scheduler.
LEMMA SingleKept == IInv /\ SingleInv /\ [Next]_vars => SingleInv'
<1> SUFFICES ASSUME IInv, SingleInv, [Next]_vars, Scheduler = "taskPerThread"
             PROVE  Single'
  BY DEF SingleInv
<1>0. Single /\ own \in [Threads -> Tasks \union {NULL}]
  BY DEF SingleInv, IInv, TypeInv
<1>1. ASSUME NEW th \in Threads, NEW t \in Tasks, Begin(th, t) PROVE Single'
  <2>1. own' = [own EXCEPT ![th] = t] /\ \A o \in Threads : own[o] = NULL
    BY <1>1 DEF Begin, Run
  <2> QED BY <1>0, <2>1 DEF Single
<1>2. ASSUME NEW th \in Threads, Proceed(th) \/ Enable(th) PROVE Single'
  <2>1. own' = own
    BY <1>2 DEF Proceed, Return, Deposit, Dequeue, Give, GetToken, EnqueueTask, Enable, threadVars
  <2> QED BY <1>0, <2>1 DEF Single
<1>3. ASSUME NEW th \in Threads, End(th) PROVE Single'
  <2>1. own' = [own EXCEPT ![th] = NULL]
    BY <1>3 DEF End
  <2> QED BY <1>0, <2>1 DEF Single
<1>4. CASE UNCHANGED vars
  BY <1>0, <1>4 DEF vars, threadVars, Single
<1>5. ASSUME NEW t \in Tasks, Mark(t) PROVE Single'
  BY <1>0, <1>5 DEF Mark, threadVars, Single
<1> QED BY <1>1, <1>2, <1>3, <1>4, <1>5 DEF Next

\* What a full buffer lost stays lost.
LEMMA DroppedKept == IInv /\ [Next]_vars /\ NoneDropped' => NoneDropped
<1> SUFFICES ASSUME IInv, [Next]_vars, NoneDropped', NEW b \in Buffers
             PROVE  dropped[b] = {}
  BY DEF NoneDropped
<1>0. dropped \in [Buffers -> SUBSET Nat] /\ dropped'[b] = {}
  BY DEF IInv, TypeInv, NoneDropped
<1>1. ASSUME NEW th \in Threads, Deposit(th) PROVE dropped[b] = {}
  <2> DEFINE c == Head(left[th])
  <2>1. dropped' = dropped \/ dropped' = [dropped EXCEPT ![c] = @ \union {passed[c] + 1}]
    BY <1>1 DEF Deposit, PutToken
  <2> QED BY <1>0, <2>1
<1>2. ASSUME dropped' = dropped PROVE dropped[b] = {}
  BY <1>0, <1>2
<1>3. ASSUME NEW th \in Threads, NEW t \in Tasks, Begin(th, t) PROVE dropped' = dropped
  BY <1>3 DEF Begin, Run, history
<1>4. ASSUME NEW th \in Threads, Proceed(th) \/ Enable(th) \/ End(th), ~Deposit(th) PROVE dropped' = dropped
  BY <1>4 DEF Proceed, Return, Dequeue, Give, GetToken, EnqueueTask, Enable, End, history
<1>5. CASE UNCHANGED vars
  BY <1>2, <1>5 DEF vars, history
<1>6. ASSUME NEW t \in Tasks, Mark(t) PROVE dropped' = dropped
  BY <1>6 DEF Mark, history
<1> QED BY <1>1, <1>2, <1>3, <1>4, <1>5, <1>6 DEF Next, Proceed

LEMMA StutterMatches ==
  ASSUME Matching, UNCHANGED vars \/ \E t \in Tasks : Mark(t)
  PROVE  Matching'
<1>1. UNCHANGED <<tokens, wait_queue, passed, token_list, current_buffer, pc, got, tok>>
  BY DEF Mark, vars, bufferVars, taskVars, threadVars, history
<1>2. InOrder' /\ Alike' /\ Awaited'
  BY <1>1 DEF Matching, InOrder, Alike, Awaited, Taken, Queue
<1>3. Fetched'
  BY <1>1 DEF Matching, Fetched, Taken, Needed
<1>4. Passing'
  <2>1. \A t \in Tasks, j \in Int : Between(t, j)' <=> Between(t, j)
    BY <1>1 DEF Between, Has
  <2>2. \A t \in Tasks : 1..Len(BufferList[t]) - 1 \subseteq Int
    OBVIOUS
  <2> QED BY <1>1, <2>1, <2>2 DEF Matching, Passing, Taken
<1> QED BY <1>2, <1>3, <1>4 DEF Matching

LEMMA NextMatches == IInv /\ SingleInv /\ MatchInv /\ [Next]_vars => MatchInv'
<1> SUFFICES ASSUME IInv, SingleInv, MatchInv, [Next]_vars, Scheduler = "taskPerThread", NoneDropped'
             PROVE  Matching'
  BY DEF MatchInv
<1>1. IInv' /\ Single /\ Matching
  BY NextKeeps, DroppedKept DEF SingleInv, MatchInv
<1>2. ASSUME NEW th \in Threads, NEW t \in Tasks, Begin(th, t) PROVE Matching'
  BY <1>1, <1>2, RunMatches DEF Begin
<1>3. ASSUME NEW th \in Threads, Proceed(th) PROVE Matching'
  BY <1>1, <1>3, ReturnMatches, DepositMatches, DequeueMatches, GiveMatches, GetTokenMatches,
     EnqueueTaskMatches DEF Proceed
<1>4. ASSUME NEW th \in Threads, Enable(th) \/ End(th) PROVE Matching'
  BY <1>1, <1>4, EnableMatches, EndMatches
<1>5. ASSUME UNCHANGED vars \/ \E t \in Tasks : Mark(t) PROVE Matching'
  BY <1>1, <1>5, StutterMatches
<1> QED BY <1>2, <1>3, <1>4, <1>5 DEF Next

LEMMA MatchedTokens == IInv /\ MatchInv => TokensMatched
<1> SUFFICES ASSUME IInv, MatchInv, Scheduler = "taskPerThread", \A b \in Buffers : dropped[b] = {}
             PROVE  \A t \in Tasks : \A i, j \in DOMAIN token_list[t] : token_list[t][i] = token_list[t][j]
  BY DEF TokensMatched
<1>1. Alike
  BY DEF MatchInv, NoneDropped, Matching
<1>2. \A t \in Tasks : DOMAIN token_list[t] = 1..Len(token_list[t])
  BY Emptied DEF IInv, TypeInv
<1>3. ASSUME NEW t \in Tasks, NEW i \in DOMAIN token_list[t], NEW j \in DOMAIN token_list[t]
      PROVE  token_list[t][i] = token_list[t][j]
  <2>1. i \in 1..Len(token_list[t]) /\ j \in 1..Len(token_list[t])
    BY <1>2
  <2>2. token_list[t][i] = token_list[t][1] /\ token_list[t][j] = token_list[t][1]
    BY <1>1, <2>1 DEF Alike
  <2> QED BY <2>2
<1> QED BY <1>3

\* While tasks run one at a time and no buffer overflows, each of any number of instances of
\* a task takes the n-th tokens of all of its buffers, for one n: instances leave the queue
\* of a buffer in the order in which they took the tokens of the one before
\* (buffer.cpp:180).
THEOREM TokensStayMatched == Spec => []TokensMatched
<1>1. Init => SingleInv /\ MatchInv
  BY InitMatches DEF SingleInv, MatchInv
<1> QED BY <1>1, Invariant, SingleKept, NextMatches, MatchedTokens, PTL DEF Spec
=============================================================================

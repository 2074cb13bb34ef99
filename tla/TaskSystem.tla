----------------------------- MODULE TaskSystem -----------------------------
(***************************************************************************)
(* A dataflow program as the ADF runtime has it when CreateTask has been   *)
(* called for all of its tasks.  A task (task_t) is an instance of a       *)
(* CreateTask call.  Each call has one buffer per input token, which its   *)
(* instances share.                                                        *)
(***************************************************************************)
EXTENDS Integers, Sequences, FiniteSets

CONSTANTS
  Tasks,
  Buffers,
  BufferList,  (* The buffers of each task, in order.                      *)
  Created,     (* The tasks of each buffer that begin in its wait queue,   *)
               (* in the order in which they are created.                  *)
  Code,        (* What each run of a task may do: the buffers it passes    *)
               (* tokens to and whether it stops the task.  Runs after the *)
               (* last do as the last.                                     *)
  Capacity,    (* DEFAULT_BUFFER_CAPACITY                                  *)
  NULL

Behaviour == [passes : Seq(Buffers), stop : BOOLEAN]

ASSUME NullAssumption == NULL \notin Tasks
ASSUME CapacityAssumption == Capacity \in Nat \ {0}
ASSUME BufferListAssumption ==
  /\ BufferList \in [Tasks -> Seq(Buffers)]
  /\ \A t \in Tasks : \A i, j \in DOMAIN BufferList[t] :
       BufferList[t][i] = BufferList[t][j] => i = j
  /\ \A t, u \in Tasks :
       \/ BufferList[t] = BufferList[u]
       \/ \A i \in DOMAIN BufferList[t], j \in DOMAIN BufferList[u] :
            BufferList[t][i] # BufferList[u][j]
ASSUME CreatedAssumption ==
  /\ Created \in [Buffers -> Seq(Tasks)]
  /\ \A b \in Buffers :
       /\ \A i, j \in DOMAIN Created[b] : Created[b][i] = Created[b][j] => i = j
       /\ \A t \in Tasks : (\E i \in DOMAIN Created[b] : Created[b][i] = t)
                             <=> BufferList[t] # <<>> /\ BufferList[t][1] = b
ASSUME CodeAssumption ==
  /\ Code \in [Tasks -> Seq(SUBSET Behaviour)]
  /\ \A t \in Tasks : Code[t] # <<>>
=============================================================================

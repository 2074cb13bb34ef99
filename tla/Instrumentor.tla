---------------------------- MODULE Instrumentor ----------------------------
(***************************************************************************)
(* The two passes of DFinspec over LLVM code: AdfInstrumentor.cpp for the  *)
(* functions of the application, TokenDetector.cpp for those of the ADF    *)
(* runtime.                                                                *)
(*                                                                         *)
(* One function is compiled: the pass goes over its code (runOnFunction),  *)
(* chooses the loads and stores that are worth a callback, and inserts the *)
(* callbacks.  Then the instrumented code runs, as the body of a task or   *)
(* called by a task or outside of all tasks, along any path through its    *)
(* blocks, and what the tracer remembers of it is compared with what it    *)
(* really did.                                                             *)
(*                                                                         *)
(* Code is a sequence of basic blocks of instructions.  Of an operand only *)
(* the pointer matters: the SSA value that holds the address.  Two         *)
(* pointers may hold one address.  A name is the set of the signatures     *)
(* that occur in it.  Accesses of 2 or 16 bytes and unaligned ones are     *)
(* left out: their callbacks do not exist and the program does not link.   *)
(***************************************************************************)
EXTENDS Integers, Sequences, FiniteSetsExt, MemoryActions

CONSTANTS
  Pointers,      (* SSA values that are addresses.                         *)
  OnStack,       (* Those that point into a variable of the function.      *)
  Captured,      (* Those that are stored or passed on themselves.         *)
  ConstantData,  (* Those that point to constant globals.                  *)
  Addrs,         (* What pointers may hold.                                *)
  Envs,          (* What each pointer may hold in a run.                   *)
  Functions,     (* The functions to compile.                              *)
  MaxBlocks      (* Bound: basic blocks in one run.                        *)

Signatures == {"::operator()(token_s*) const", "TerminateRuntime", "InitRuntime",
               "PassToken", "genmat"}
Ops == {"load", "store", "atomic", "call", "indirect", "memcpy", "memmove", "memset",
        "return"}
\* Accesses use ptr; copies read ptr and write dst.
Instruction == [op : Ops, ptr : Pointers \union {NULL}, dst : Pointers \union {NULL},
                size : Nat]

\* What the compiler makes: a return ends its block, an access has a pointer and the size of
\* what that points to, and constant data is not stored to.
WellFormed(body) ==
  \A b \in DOMAIN body : \A i \in DOMAIN body[b] :
    LET c == body[b][i] IN
    /\ c.op = "return" => i = Len(body[b])
    /\ c.op \in {"load", "store", "atomic", "memcpy", "memmove"} => c.ptr \in Pointers
    /\ c.op \in {"memcpy", "memmove", "memset"} => c.dst \in Pointers
    /\ c.op = "store" => c.ptr \notin ConstantData
    /\ c.op \in {"load", "store"} =>
         \A d \in DOMAIN body : \A j \in DOMAIN body[d] :
           body[d][j].op \in {"load", "store"} /\ body[d][j].ptr = c.ptr => body[d][j].size = c.size

ASSUME FunctionsAssumption ==
  \A f \in Functions : /\ f.runtime \in BOOLEAN
                       /\ f.name \subseteq Signatures
                       /\ f.body \in Seq(Seq(Instruction)) /\ f.body # <<>>
                       /\ \A b \in DOMAIN f.body : f.body[b] # <<>>
                       /\ WellFormed(f.body)
\* PassToken of the runtime copies a token with memcpy (adf.cpp:178).
ASSUME PassTokenAssumption ==
  \A f \in Functions : f.runtime /\ "PassToken" \in f.name =>
    \A b \in DOMAIN f.body : \A i \in DOMAIN f.body[b] : f.body[b][i].op # "memmove"
ASSUME EnvsAssumption ==
  Envs \subseteq [Pointers -> Addrs]
ASSUME BlocksAssumption == MaxBlocks \in Nat \ {0}
ASSUME NullAssumption ==
  /\ NULL \notin {"return", "throw", "indirect throw"}
  /\ NULL \notin [line : Nat \X Nat, isWrite : BOOLEAN]

VARIABLES
  func,                  (* the function that is compiled                    *)
  phase,                 (* "scan", "insert", "run", "left" or "over"        *)
  at,                    (* the instruction: block and index                 *)
  LocalLoadsAndStores,   (* accesses since the last call or block boundary   *)
  AllLoadsAndStores,     (* accesses that get a callback                     *)
  inserted,              (* the callbacks before each instruction            *)
  env,                   (* the address each pointer holds                   *)
  todo,                  (* callbacks still to run before the instruction    *)
  blocks,                (* how many basic blocks were entered               *)
  left,                  (* how the function was left                        *)
  active,                (* the tracer: a task runs on the thread            *)
  memoryLocations,       (* the tracer: what it remembers of each address    *)
  flushed,               (* the tracer: blocks written to the trace          *)
  reported,              (* the tracer: tokens it was told of                *)
  performed,             (* history: accesses made, in order                 *)
  copied,                (* history: copies made, in order                   *)
  inTask                 (* history: the run was part of a task              *)

passVars   == <<LocalLoadsAndStores, AllLoadsAndStores, inserted>>
tracerVars == <<active, memoryLocations, flushed, reported>>
runVars    == <<todo, blocks, left, performed, copied>>
fixedVars  == <<func, env, inTask>>
vars       == <<fixedVars, phase, at, passVars, tracerVars, runVars>>

Code(p)   == func.body[p[1]][p[2]]
Positions == UNION {{b} \X DOMAIN func.body[b] : b \in DOMAIN func.body}
Entry     == <<1, 1>>
EndOfBlock(p) == p[2] = Len(func.body[p[1]])

-----------------------------------------------------------------------------
(* Which function it is: the signatures are searched for in the name.      *)

DontInstrument       == "genmat" \in func.name
isTaskBodyFunction   == "::operator()(token_s*) const" \in func.name
isPassTokenFunc      == "PassToken" \in func.name
isRuntimeInitializer == "InitRuntime" \in func.name
isRuntimeTerminator  == "TerminateRuntime" \in func.name

\* The body of a task, as instrumented.
TaskBody == ~func.runtime /\ isTaskBodyFunction /\ ~DontInstrument

-----------------------------------------------------------------------------
(* Choosing the loads and stores.                                          *)

\* The sizes in bytes that there are callbacks for.
AccessSizes == {1, 2, 4, 8, 16}

\* Mistake: atomic accesses are taken for plain ones.
LoadStoreOrAtomic(i) == i.op \in {"load", "store", "atomic"}

IsLoadOrStore(i)  == i.op \in {"load", "store"}
IsTransfer(i)     == i.op \in {"memcpy", "memmove"}
IsMemIntrinsic(i) == IsTransfer(i) \/ i.op = "memset"
addrPointsToConstantData(p) == p \in ConstantData

\* The pointer of the access itself is looked at, not the variable it points into: a
\* pointer into an array may be kept to the function and the array be known elsewhere.
NotCaptured(p) == p \in OnStack \ Captured

\* The walk from the end of the local accesses: a load is dropped when a store
\* through the same pointer comes later, or when it reads constant data; what
\* goes over a pointer of the function that is not captured is dropped in any case.
chooseInstructionsToInstrument(local) ==
  {k \in DOMAIN local :
     LET i == Code(local[k]) IN
     /\ i.op = "load" =>
          /\ \A j \in DOMAIN local :
               j > k /\ Code(local[j]).op = "store" => Code(local[j]).ptr # i.ptr
          /\ ~addrPointsToConstantData(i.ptr)
     /\ ~NotCaptured(i.ptr)}

\* Mistake: only intrinsics end the local accesses.
FlushIntrinsics(i) == IsMemIntrinsic(i)

\* The calls that end the local accesses.  An indirect call is passed over.
Flushes(i) == i.op = "call" \/ IsMemIntrinsic(i)

\* Where the pass goes on after an instruction.
NextInCode(p) == IF EndOfBlock(p) THEN <<p[1] + 1, 1>> ELSE <<p[1], p[2] + 1>>

\* runOnFunction looks at one instruction.
Visit ==
  /\ phase = "scan"
  /\ LET i     == Code(at)
         local == IF IsLoadOrStore(i) THEN Append(LocalLoadsAndStores, at)
                                                ELSE LocalLoadsAndStores
     IN IF Flushes(i) \/ EndOfBlock(at)
        THEN /\ AllLoadsAndStores' = AllLoadsAndStores \union
                  {local[k] : k \in chooseInstructionsToInstrument(local)}
             /\ LocalLoadsAndStores' = <<>>
        ELSE /\ LocalLoadsAndStores' = local
             /\ UNCHANGED AllLoadsAndStores
  /\ IF NextInCode(at) \in Positions
     THEN at' = NextInCode(at) /\ UNCHANGED phase
     ELSE at' = Entry /\ phase' = "insert"
  /\ UNCHANGED <<fixedVars, inserted, tracerVars, runVars>>

-----------------------------------------------------------------------------
(* Inserting the callbacks.                                                *)

Call(name, p) == [call |-> name, ptr |-> Code(p).ptr, dst |-> Code(p).dst, line |-> p]

\* Other sizes, such as the ten bytes of a long double, are passed over.
getMemoryAccessFuncIndex(i) == IF i.size \in AccessSizes THEN i.size ELSE -1

instrumentLoadOrStore(p) ==
  IF p \notin AllLoadsAndStores \/ getMemoryAccessFuncIndex(Code(p)) < 0 THEN <<>>
  ELSE IF Code(p).op = "store" THEN <<Call("INS_AdfMemWrite", p)>>
       ELSE <<Call("INS_AdfMemRead", p)>>

\* Mistake: copies are told of, moves are not.
TransferByCopy(p) == TaskBody /\ Code(p).op = "memcpy"

Finishes(p) == TaskBody /\ Code(p).op = "return"
Receives(p) == TaskBody /\ IsTransfer(Code(p))

\* What the pass inserts before instruction p of the application.  The atomic
\* accesses get nothing; intrinsics are replaced by the functions of the library.
runOnFunction(p) ==
  (IF TaskBody /\ p = Entry THEN <<Call("INS_TaskBeginFunc", p)>> ELSE <<>>)
  \o instrumentLoadOrStore(p)
  \o (IF Receives(p) THEN <<Call("INS_RegReceiveToken", p)>> ELSE <<>>)
  \o (IF Finishes(p) THEN <<Call("INS_TaskFinishFunc", p)>> ELSE <<>>)

\* What TokenDetector inserts before instruction p of the runtime.
instrumentTokens(p) ==
  IF isPassTokenFunc
  THEN IF Code(p).op = "memcpy" THEN <<Call("INS_RegSendToken", p)>> ELSE <<>>
  ELSE IF p # Entry THEN <<>>
  ELSE IF isRuntimeInitializer THEN <<Call("INS_Init", p)>>
  ELSE IF isRuntimeTerminator THEN <<Call("INS_Fini", p)>> ELSE <<>>

Insert ==
  /\ phase = "insert"
  /\ inserted' = [p \in Positions |-> IF func.runtime THEN instrumentTokens(p)
                                      ELSE IF DontInstrument THEN <<>>
                                      ELSE runOnFunction(p)]
  /\ phase' = "run"
  /\ todo' = inserted'[Entry]
  /\ UNCHANGED <<fixedVars, at, LocalLoadsAndStores, AllLoadsAndStores, tracerVars,
                 blocks, left, performed, copied>>

-----------------------------------------------------------------------------
(* The instrumented code runs.                                             *)

\* The callbacks of the tracer.
AdfMem(isWrite) ==
  LET c == Head(todo) IN
  /\ c.call = IF isWrite THEN "INS_AdfMemWrite" ELSE "INS_AdfMemRead"
  /\ memoryLocations' =
       IF active
       THEN [memoryLocations EXCEPT ![env[c.ptr]] =
               StoreAction(@, [line |-> c.line, isWrite |-> isWrite])]
       ELSE memoryLocations
  /\ UNCHANGED <<active, flushed, reported>>

TaskBeginFunc ==
  /\ Head(todo).call = "INS_TaskBeginFunc"
  /\ active' = TRUE
  /\ UNCHANGED <<memoryLocations, flushed, reported>>

TaskFinishFunc ==
  /\ Head(todo).call = "INS_TaskFinishFunc"
  /\ active' = FALSE
  /\ flushed' = Append(flushed, memoryLocations)
  /\ UNCHANGED <<memoryLocations, reported>>

\* A receive tells where the copy comes from, a send where it goes to as well.
RegToken ==
  LET c == Head(todo) IN
  /\ \/ c.call = "INS_RegReceiveToken" /\ reported' = Append(reported, <<env[c.ptr]>>)
     \/ c.call = "INS_RegSendToken"
          /\ reported' = Append(reported, <<env[c.dst], env[c.ptr]>>)
  /\ UNCHANGED <<active, memoryLocations, flushed>>

\* INS_Init and INS_Fini open and close the logs, see modules Tracer and Pipeline.
Session ==
  /\ Head(todo).call \in {"INS_Init", "INS_Fini"}
  /\ UNCHANGED tracerVars

Callback ==
  /\ phase = "run" /\ todo # <<>>
  /\ \/ \E isWrite \in BOOLEAN : AdfMem(isWrite)
     \/ TaskBeginFunc \/ TaskFinishFunc \/ RegToken \/ Session
  /\ todo' = Tail(todo)
  /\ UNCHANGED <<fixedVars, phase, at, passVars, blocks, left, performed, copied>>

\* The next instruction of the block; at its end, the first of any block.
Proceed ==
  /\ IF EndOfBlock(at)
     THEN /\ blocks < MaxBlocks /\ blocks' = blocks + 1
          /\ at' \in {<<b, 1>> : b \in DOMAIN func.body}
     ELSE at' = NextInCode(at) /\ UNCHANGED blocks
  /\ todo' = inserted[at']
  /\ UNCHANGED <<phase, left>>

Leave(how) ==
  /\ phase' = "left" /\ left' = how
  /\ UNCHANGED <<at, todo, blocks>>

\* How an access came about: by an instruction that the pass has a callback for,
\* by a copy, by something it leaves out, or in a called function, which is
\* instrumented in turn.
HowMade(i, p) ==
  IF NotCaptured(p) \/ p \in ConstantData \/ DontInstrument \/ func.runtime THEN "left out"
  ELSE IF IsMemIntrinsic(i) THEN "copy"
  ELSE IF IsLoadOrStore(i) /\ i.size \in AccessSizes THEN "plain"
  ELSE "left out"

Made(p, isWrite, how) ==
  [addr |-> env[p], line |-> at, isWrite |-> isWrite, how |-> how]

\* A load, a store, or an atomic access, which may read and write.
MakeAccess ==
  LET i == Code(at) IN
  /\ IsLoadOrStore(i) \/ i.op = "atomic"
  /\ performed' = Append(performed, Made(i.ptr, i.op # "load", HowMade(i, i.ptr)))
  /\ Proceed
  /\ UNCHANGED <<copied, memoryLocations>>

MakeCopy ==
  LET i      == Code(at)
      reads  == IF IsTransfer(i) THEN <<Made(i.ptr, FALSE, HowMade(i, i.ptr))>> ELSE <<>>
      writes == <<Made(i.dst, TRUE, HowMade(i, i.dst))>>
  IN /\ IsMemIntrinsic(i)
     /\ performed' = performed \o reads \o writes
     /\ copied' = IF IsTransfer(i) THEN Append(copied, <<env[i.dst], env[i.ptr]>>) ELSE copied
     /\ Proceed
     /\ UNCHANGED memoryLocations

\* What a called function may use: the pointers that left this one.
OutsidePointers == {p \in Pointers \ ConstantData : ~NotCaptured(p)}

\* A called function makes an access of its own or none, and returns or throws.
MakeCall ==
  /\ Code(at).op \in {"call", "indirect"}
  /\ \/ UNCHANGED <<performed, memoryLocations>>
     \/ \E p \in OutsidePointers, isWrite \in BOOLEAN :
          /\ performed' = Append(performed, Made(p, isWrite, "called"))
          /\ memoryLocations' =
               IF active THEN [memoryLocations EXCEPT ![env[p]] =
                                 StoreAction(@, [line |-> at, isWrite |-> isWrite])]
                         ELSE memoryLocations
  /\ \/ Proceed
     \/ Leave(IF Code(at).op = "call" THEN "throw" ELSE "indirect throw")
  /\ UNCHANGED copied

Return ==
  /\ Code(at).op = "return"
  /\ Leave("return")
  /\ UNCHANGED <<performed, copied, memoryLocations>>

Execute ==
  /\ phase = "run" /\ todo = <<>>
  /\ MakeAccess \/ MakeCopy \/ MakeCall \/ Return
  /\ UNCHANGED <<fixedVars, passVars, active, flushed, reported>>

\* The rest of the run: a task that called the function comes to its end.  An
\* exception that leaves the body of a task ends the program.
RunEnds ==
  /\ phase = "left"
  /\ phase' = "over"
  /\ IF inTask /\ ~TaskBody
     THEN active' = FALSE /\ flushed' = Append(flushed, memoryLocations)
     ELSE UNCHANGED <<active, flushed>>
  /\ UNCHANGED <<fixedVars, at, passVars, memoryLocations, reported, runVars>>

-----------------------------------------------------------------------------
\* A function that is no body of a task may be called by one; a function of the
\* runtime and one that is not instrumented are not gone over.
Init ==
  /\ func \in Functions
  /\ phase = IF func.runtime \/ DontInstrument THEN "insert" ELSE "scan"
  /\ at = Entry
  /\ LocalLoadsAndStores = <<>> /\ AllLoadsAndStores = {}
  /\ inserted = [p \in Positions |-> <<>>]
  /\ env \in Envs
  /\ todo = <<>> /\ blocks = 1 /\ left = NULL
  /\ inTask \in (IF TaskBody THEN {TRUE}
                 ELSE IF isRuntimeInitializer \/ isRuntimeTerminator THEN {FALSE}
                 ELSE BOOLEAN)
  /\ active = (inTask /\ ~TaskBody)
  /\ memoryLocations = [x \in Addrs |-> NULL]
  /\ flushed = <<>> /\ reported = <<>> /\ performed = <<>> /\ copied = <<>>

Next == Visit \/ Insert \/ Callback \/ Execute \/ RunEnds

Spec == Init /\ [][Next]_vars

-----------------------------------------------------------------------------
(* Properties.                                                             *)

\* Every variable has its type.
TypeOK ==
  /\ func \in Functions /\ env \in Envs
  /\ phase \in {"scan", "insert", "run", "left", "over"}
  /\ at \in Positions
  /\ LocalLoadsAndStores \in Seq(Positions)
  /\ AllLoadsAndStores \subseteq {p \in Positions : Code(p).op \in {"load", "store"}}
  /\ DOMAIN inserted = Positions
  /\ blocks \in 1..MaxBlocks
  /\ left \in {NULL, "return", "throw", "indirect throw"}
  /\ active \in BOOLEAN /\ inTask \in BOOLEAN
  /\ memoryLocations \in
       [Addrs -> [line : Positions, isWrite : BOOLEAN] \union {NULL}]
  /\ Len(flushed) <= 1
  /\ Len(reported) <= Len(copied) + 1

\* What is to be remembered of address x when the accesses made in these ways
\* count: its last write, or its first read.
Outcome(x, ways) ==
  LET made   == {k \in DOMAIN performed : performed[k].addr = x /\ performed[k].how \in ways}
      writes == {k \in made : performed[k].isWrite}
      line(k) == [line |-> performed[k].line, isWrite |-> performed[k].isWrite]
  IN IF made = {} THEN NULL
     ELSE IF writes = {} THEN line(Min(made)) ELSE line(Max(writes))

\* The task came to its end, and not over an indirect call of the function that
\* threw: the reads before such a call may be dropped for a write after it.
TaskOver ==
  /\ phase = "over" /\ inTask
  /\ left # "indirect throw"
  /\ TaskBody => left = "return"

\* Whatever path the code takes, whichever pointers hold one address and however
\* the function is left, the block of the task says of each address what the code
\* and what it called did there, though some accesses have no callback
\* (AdfInstrumentor.cpp:306); and nothing is remembered of code that runs outside
\* of a task.  What goes over a pointer that is not captured counts among the accesses
\* left out, though another pointer, which is captured, may hold its address: the pass
\* is wrong then that nobody else gets there (AdfInstrumentor.cpp:348).
AccessesLogged ==
  /\ TaskOver => flushed = <<[x \in Addrs |-> Outcome(x, {"plain", "called"})]>>
  /\ ~inTask => flushed = <<>> /\ \A x \in Addrs : memoryLocations[x] = NULL

\* A task tells of every copy it makes and PassToken of every token it copies, with
\* the right addresses and before the copy is made: whoever gets the token later
\* finds it filed.
TokensReported ==
  /\ TaskBody =>
       /\ Len(reported) \in {Len(copied), Len(copied) + 1}
       /\ \A k \in DOMAIN copied : reported[k] = <<copied[k][2]>>
  /\ func.runtime /\ isPassTokenFunc =>
       /\ Len(reported) \in {Len(copied), Len(copied) + 1}
       /\ \A k \in DOMAIN copied : reported[k] = copied[k]
=============================================================================

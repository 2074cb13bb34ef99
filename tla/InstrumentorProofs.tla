------------------------- MODULE InstrumentorProofs -------------------------
(***************************************************************************)
(* Theorems about module Instrumentor, for every function that a compiler  *)
(* may make, every path through it and all pointers that may be aliases:   *)
(* what the pass leaves out makes no difference to what the tracer is told *)
(* of a task.                                                              *)
(***************************************************************************)
EXTENDS Instrumentor, SequenceTheorems, FiniteSetTheorems, TLAPS

-----------------------------------------------------------------------------
(* The inductive invariant.                                                *)

Action  == [line : Positions, isWrite : BOOLEAN]
History == [addr : Addrs, line : Positions, isWrite : BOOLEAN,
            how : {"left out", "copy", "plain", "called"}]

TypeInv ==
  /\ func \in Functions /\ env \in Envs
  /\ phase \in {"scan", "insert", "run", "left", "over"}
  /\ at \in Positions
  /\ LocalLoadsAndStores \in Seq(Positions)
  /\ AllLoadsAndStores \subseteq Positions
  /\ DOMAIN inserted = Positions
  /\ blocks \in 1..MaxBlocks
  /\ left \in {NULL, "return", "throw", "indirect throw"}
  /\ active \in BOOLEAN /\ inTask \in BOOLEAN
  /\ memoryLocations \in [Addrs -> Action \union {NULL}]
  /\ reported \in Seq(Seq(Addrs))
  /\ performed \in Seq(History)
  /\ copied \in Seq(Addrs \X Addrs)

\* The pass goes over the code of the function.
Treated == ~func.runtime /\ ~DontInstrument

\* q is p or comes later in its block, with no call before it.
SameStretch(p, q) ==
  /\ p[1] = q[1] /\ p[2] <= q[2]
  /\ \A i \in p[2]..q[2] - 1 : ~Flushes(Code(<<p[1], i>>))

\* A load that a store through the same pointer follows is not chosen.
Overwritten(p) ==
  \E q \in Positions : /\ p[2] < q[2] /\ SameStretch(p, q)
                       /\ Code(q).op = "store" /\ Code(q).ptr = Code(p).ptr
Chosen(p) ==
  /\ IsLoadOrStore(Code(p)) /\ ~NotCaptured(Code(p).ptr)
  /\ Code(p).op = "load" => Code(p).ptr \notin ConstantData /\ ~Overwritten(p)

Before(p, q) == p[1] < q[1] \/ (p[1] = q[1] /\ p[2] < q[2])

\* The accesses that the walk has collected are those since the last call, in order.
LocalInv ==
  /\ \A k \in DOMAIN LocalLoadsAndStores :
       /\ IsLoadOrStore(Code(LocalLoadsAndStores[k])) /\ LocalLoadsAndStores[k][2] < at[2]
       /\ SameStretch(LocalLoadsAndStores[k], at)
  /\ \A j, k \in DOMAIN LocalLoadsAndStores :
       j < k => LocalLoadsAndStores[j][2] < LocalLoadsAndStores[k][2]
  /\ \A p \in Positions :
       IsLoadOrStore(Code(p)) /\ p[2] < at[2] /\ SameStretch(p, at) =>
         \E k \in DOMAIN LocalLoadsAndStores : LocalLoadsAndStores[k] = p

\* Which accesses get a callback, so far and in the end.
ChosenInv ==
  \A p \in Positions :
    p \in AllLoadsAndStores <=>
      /\ Treated /\ Chosen(p)
      /\ phase = "scan" => Before(p, at) /\ ~SameStretch(p, at)

ScanInv ==
  /\ phase = "scan" => Treated /\ LocalInv
  /\ phase # "scan" => LocalLoadsAndStores = <<>>
  /\ ChosenInv

\* What is inserted before p: the start of a task, and one callback more or none.
Tracked(p) == Treated /\ p \in AllLoadsAndStores /\ getMemoryAccessFuncIndex(Code(p)) >= 0
Sends(p)   == func.runtime /\ isPassTokenFunc /\ Code(p).op = "memcpy"
Tells(p)   == Receives(p) \/ Sends(p)
Begins(p)  == TaskBody /\ p = Entry
Session0(p) == func.runtime /\ ~isPassTokenFunc /\ p = Entry
Rest(p) ==
  IF Tracked(p)
  THEN <<Call(IF Code(p).op = "store" THEN "INS_AdfMemWrite" ELSE "INS_AdfMemRead", p)>>
  ELSE IF Receives(p) THEN <<Call("INS_RegReceiveToken", p)>>
  ELSE IF Finishes(p) THEN <<Call("INS_TaskFinishFunc", p)>>
  ELSE IF Sends(p) THEN <<Call("INS_RegSendToken", p)>>
  ELSE IF Session0(p) /\ isRuntimeInitializer THEN <<Call("INS_Init", p)>>
  ELSE IF Session0(p) /\ isRuntimeTerminator THEN <<Call("INS_Fini", p)>>
  ELSE <<>>
Callbacks(p) ==
  IF Begins(p) THEN <<Call("INS_TaskBeginFunc", p)>> \o Rest(p) ELSE Rest(p)

\* How far the callbacks before an instruction have come.
Starting == phase = "run" /\ Begins(at) /\ todo = Callbacks(at)
Told     == phase = "run" /\ ~Starting /\ todo = <<>>
TodoInv ==
  /\ phase = "insert" => at = Entry
  /\ phase \notin {"scan", "insert"} => \A p \in Positions : inserted[p] = Callbacks(p)
  /\ phase = "run" => Starting \/ todo = Rest(at) \/ todo = <<>>

\* The tracer knows whether it is in a task.
Finished == (TaskBody /\ left = "return") \/ (Told /\ Finishes(at))
TaskInv ==
  /\ TaskBody => inTask
  /\ phase \in {"scan", "insert"} => (active <=> inTask /\ ~TaskBody)
  /\ phase \in {"run", "left"} /\ ~Starting => (active <=> inTask /\ ~Finished)
  /\ active => inTask
  /\ flushed = IF Finished \/ (phase = "over" /\ inTask /\ ~TaskBody)
               THEN <<memoryLocations>> ELSE <<>>
  /\ phase \notin {"left", "over"} <=> left = NULL

\* A token is told of before it is copied, and then copied.
Tale(dst, src) == IF TaskBody THEN <<src>> ELSE <<dst, src>>
Teller == TaskBody \/ (func.runtime /\ isPassTokenFunc)
ReportInv ==
  IF Teller
  THEN /\ Len(reported) = Len(copied) + IF Told /\ Tells(at) THEN 1 ELSE 0
       /\ \A k \in DOMAIN copied : reported[k] = Tale(copied[k][1], copied[k][2])
       /\ Told /\ Tells(at) =>
            reported[Len(copied) + 1] = Tale(env[Code(at).dst], env[Code(at).ptr])
  ELSE reported = <<>>

\* What accesses the tracer was told of, and what it is to remember of them.
Line(e)      == [line |-> e.line, isWrite |-> e.isWrite]
Kept(e, all) == e.how = "called" \/ (e.how = "plain" /\ e.line \in all)
KeptAt(h, all, x) == {k \in DOMAIN h : h[k].addr = x /\ Kept(h[k], all)}
IsOutcome(h, m, S) ==
  \/ S = {} /\ m = NULL
  \/ \E k \in S : /\ m = Line(h[k])
                  /\ IF h[k].isWrite THEN \A j \in S : h[j].isWrite => j <= k
                     ELSE \A j \in S : ~h[j].isWrite /\ k <= j
MemoryInv ==
  /\ phase \in {"scan", "insert"} => performed = <<>>
  /\ \A x \in Addrs :
       IF ~inTask THEN memoryLocations[x] = NULL
       ELSE \E m \in Action \union {NULL} :
              /\ IsOutcome(performed, m, KeptAt(performed, AllLoadsAndStores, x))
              /\ memoryLocations[x] =
                   IF Told /\ Tracked(at) /\ env[Code(at).ptr] = x
                   THEN StoreAction(m, [line |-> at, isWrite |-> Code(at).op = "store"]) ELSE m

\* A read that has no callback is followed by a write that has one, in any run.
Killed(h, all, k) ==
  \E j \in DOMAIN h : k < j /\ Kept(h[j], all) /\ h[j].isWrite /\ h[j].addr = h[k].addr
Ahead(p, x) ==
  \E q \in Positions : /\ SameStretch(p, q) /\ Code(q).op = "store" /\ Tracked(q)
                       /\ env[Code(q).ptr] = x
Dropped(e, all) == e.how = "plain" /\ e.line \notin all
DroppedInv ==
  \A k \in DOMAIN performed :
    Dropped(performed[k], AllLoadsAndStores) =>
      /\ ~performed[k].isWrite
      /\ phase \in {"left", "over"} /\ left # "indirect throw" => Killed(performed, AllLoadsAndStores, k)
      /\ phase \notin {"left", "over"} =>
           Killed(performed, AllLoadsAndStores, k) \/ Ahead(at, performed[k].addr)

IInv == TypeInv /\ ScanInv /\ TodoInv /\ TaskInv /\ ReportInv /\ MemoryInv /\ DroppedInv

-----------------------------------------------------------------------------
(* The code of the function.                                               *)

LEMMA Bodies ==
  ASSUME func \in Functions
  PROVE  /\ func.body \in Seq(Seq(Instruction)) /\ Len(func.body) \in Nat \ {0}
         /\ DOMAIN func.body = 1..Len(func.body)
         /\ \A b \in 1..Len(func.body) :
              /\ func.body[b] \in Seq(Instruction) /\ Len(func.body[b]) \in Nat \ {0}
              /\ DOMAIN func.body[b] = 1..Len(func.body[b])
<1>1. func.body \in Seq(Seq(Instruction)) /\ func.body # <<>>
      /\ \A b \in DOMAIN func.body : func.body[b] # <<>>
  BY FunctionsAssumption
<1>2. Len(func.body) \in Nat /\ DOMAIN func.body = 1..Len(func.body)
      /\ \A b \in 1..Len(func.body) : func.body[b] \in Seq(Instruction)
  BY <1>1
<1>3. Len(func.body) # 0
  BY <1>1, EmptySeq
<1>4. ASSUME NEW b \in 1..Len(func.body)
      PROVE  Len(func.body[b]) \in Nat \ {0} /\ DOMAIN func.body[b] = 1..Len(func.body[b])
  <2>1. func.body[b] # <<>> /\ func.body[b] \in Seq(Instruction)
    BY <1>1, <1>2
  <2> QED BY <2>1, EmptySeq
<1> QED BY <1>1, <1>2, <1>3, <1>4

LEMMA PositionOf ==
  ASSUME func \in Functions
  PROVE  /\ \A p \in Positions :
              /\ p = <<p[1], p[2]>> /\ p[1] \in Nat /\ p[2] \in Nat
              /\ p[1] \in 1..Len(func.body) /\ p[2] \in 1..Len(func.body[p[1]])
              /\ Len(func.body[p[1]]) \in Nat
         /\ \A b \in 1..Len(func.body), i \in Nat :
              <<b, i>> \in Positions <=> i \in 1..Len(func.body[b])
         /\ \A b, i : <<b, i>> \in Positions => b \in 1..Len(func.body) /\ i \in 1..Len(func.body[b])
<1>1. /\ Len(func.body) \in Nat /\ DOMAIN func.body = 1..Len(func.body)
      /\ \A b \in 1..Len(func.body) :
           Len(func.body[b]) \in Nat /\ DOMAIN func.body[b] = 1..Len(func.body[b])
  BY Bodies
<1>2. \A p : p \in Positions <=> \E b \in 1..Len(func.body) : \E i \in 1..Len(func.body[b]) : p = <<b, i>>
  BY <1>1 DEF Positions
<1> QED BY <1>1, <1>2

LEMMA EntryThere ==
  ASSUME func \in Functions
  PROVE  Entry \in Positions
<1>1. 1 \in 1..Len(func.body) /\ 1 \in 1..Len(func.body[1])
  BY Bodies
<1> QED BY <1>1, PositionOf DEF Entry

LEMMA CodeAt ==
  ASSUME func \in Functions, NEW p \in Positions
  PROVE  /\ Code(p) \in Instruction /\ Code(p).op \in Ops
         /\ Code(p).op = "return" => p[2] = Len(func.body[p[1]])
         /\ Code(p).op \in {"load", "store", "atomic", "memcpy", "memmove"} => Code(p).ptr \in Pointers
         /\ Code(p).op \in {"memcpy", "memmove", "memset"} => Code(p).dst \in Pointers
         /\ Code(p).op = "store" => Code(p).ptr \notin ConstantData
         /\ \A q \in Positions :
              Code(p).op \in {"load", "store"} /\ Code(q).op \in {"load", "store"}
                /\ Code(q).ptr = Code(p).ptr => Code(q).size = Code(p).size
<1>1. /\ p[1] \in DOMAIN func.body /\ p[2] \in DOMAIN func.body[p[1]]
      /\ \A q \in Positions : q[1] \in DOMAIN func.body /\ q[2] \in DOMAIN func.body[q[1]]
  BY PositionOf, Bodies
<1>2. Code(p) \in Instruction
  BY <1>1, Bodies DEF Code
<1>3. WellFormed(func.body)
  BY FunctionsAssumption
<1>4. /\ Code(p).op = "return" => p[2] = Len(func.body[p[1]])
      /\ Code(p).op \in {"load", "store", "atomic", "memcpy", "memmove"} => Code(p).ptr \in Pointers
      /\ Code(p).op \in {"memcpy", "memmove", "memset"} => Code(p).dst \in Pointers
      /\ Code(p).op = "store" => Code(p).ptr \notin ConstantData
  BY <1>1, <1>3 DEF WellFormed, Code
<1>5. \A q \in Positions :
        Code(p).op \in {"load", "store"} /\ Code(q).op \in {"load", "store"}
          /\ Code(q).ptr = Code(p).ptr => Code(q).size = Code(p).size
  BY <1>1, <1>3 DEF WellFormed, Code
<1>6. Code(p).op \in Ops
  BY <1>2 DEF Instruction
<1> QED BY <1>2, <1>4, <1>5, <1>6

LEMMA AddrsOf ==
  ASSUME env \in Envs
  PROVE  \A p \in Pointers : env[p] \in Addrs
BY EnvsAssumption

LEMMA SameCode ==
  ASSUME func' = func
  PROVE  /\ Positions' = Positions /\ Action' = Action /\ History' = History
         /\ Treated' = Treated /\ TaskBody' = TaskBody /\ isPassTokenFunc' = isPassTokenFunc
         /\ \A p : Code(p)' = Code(p)
         /\ \A p : /\ Receives(p)' = Receives(p) /\ Finishes(p)' = Finishes(p) /\ Sends(p)' = Sends(p)
                   /\ Begins(p)' = Begins(p) /\ Tells(p)' = Tells(p)
         /\ \A p, q : SameStretch(p, q)' = SameStretch(p, q)
         /\ \A p : Chosen(p)' = Chosen(p)
<1>1. Positions' = Positions
  BY DEF Positions
<1>2. \A p : Code(p)' = Code(p)
  BY DEF Code
<1>3. Treated' = Treated /\ TaskBody' = TaskBody /\ isPassTokenFunc' = isPassTokenFunc
  BY DEF Treated, TaskBody, isTaskBodyFunction, DontInstrument, isPassTokenFunc
<1>4. \A p : /\ Receives(p)' = Receives(p) /\ Finishes(p)' = Finishes(p) /\ Sends(p)' = Sends(p)
             /\ Begins(p)' = Begins(p) /\ Tells(p)' = Tells(p)
  BY <1>2, <1>3 DEF Receives, Finishes, Sends, Begins, Tells
<1>5. \A p, q : SameStretch(p, q)' = SameStretch(p, q)
  BY <1>2 DEF SameStretch
<1>6. \A p : Chosen(p)' = Chosen(p)
  BY <1>1, <1>2, <1>5 DEF Chosen, Overwritten
<1>7. Action' = Action /\ History' = History
  BY <1>1 DEF Action, History
<1> QED BY <1>1, <1>2, <1>3, <1>4, <1>5, <1>6, <1>7

-----------------------------------------------------------------------------
(* The callbacks before an instruction.                                    *)

\* One is what the instruction asks for.
LEMMA RestForms ==
  ASSUME TypeInv, ChosenInv, NEW p \in Positions
  PROVE  /\ Tracked(p) =>
              /\ Code(p).op \in {"load", "store"}
              /\ Rest(p) = <<Call(IF Code(p).op = "store" THEN "INS_AdfMemWrite" ELSE "INS_AdfMemRead", p)>>
         /\ Receives(p) => /\ ~Tracked(p) /\ Code(p).op \in {"memcpy", "memmove"}
                           /\ Rest(p) = <<Call("INS_RegReceiveToken", p)>>
         /\ Finishes(p) => /\ ~Tracked(p) /\ ~Receives(p) /\ Code(p).op = "return"
                           /\ Rest(p) = <<Call("INS_TaskFinishFunc", p)>>
         /\ Sends(p) => /\ ~Tracked(p) /\ ~Receives(p) /\ ~Finishes(p) /\ Code(p).op = "memcpy"
                        /\ Rest(p) = <<Call("INS_RegSendToken", p)>>
         /\ ~Tracked(p) /\ ~Tells(p) /\ ~Finishes(p) =>
              \/ Rest(p) = <<>>
              \/ \E n \in {"INS_Init", "INS_Fini"} : Rest(p) = <<Call(n, p)>>
<1>1. p \in AllLoadsAndStores => Code(p).op \in {"load", "store"}
  BY DEF ChosenInv, Chosen, IsLoadOrStore
<1>2. /\ Tracked(p) => Code(p).op \in {"load", "store"}
      /\ Receives(p) => Code(p).op \in {"memcpy", "memmove"} /\ ~func.runtime
      /\ Finishes(p) => Code(p).op = "return" /\ ~func.runtime
      /\ Sends(p) => Code(p).op = "memcpy" /\ func.runtime
  BY <1>1 DEF Tracked, Receives, IsTransfer, Finishes, TaskBody, Sends
<1>3. /\ Receives(p) => ~Tracked(p)
      /\ Finishes(p) => ~Tracked(p) /\ ~Receives(p)
      /\ Sends(p) => ~Tracked(p) /\ ~Receives(p) /\ ~Finishes(p)
  BY <1>2
<1> HIDE DEF Tracked, Receives, Finishes, Sends
<1> QED BY <1>2, <1>3 DEF Rest, Tells

LEMMA RestShort ==
  ASSUME NEW p
  PROVE  Rest(p) = <<>> \/ \E e : Rest(p) = <<e>>
BY Zenon DEF Rest

\* An element put before a sequence.
LEMMA Prefixed ==
  ASSUME NEW e, NEW S, NEW s \in Seq(S)
  PROVE  /\ <<e>> \o s # <<>> /\ <<e>> \o s # s
         /\ Head(<<e>> \o s) = e /\ Tail(<<e>> \o s) = s
<1> DEFINE t == <<e>> \o s
<1>1. <<e>> \in Seq(S \union {e}) /\ s \in Seq(S \union {e})
  OBVIOUS
<1>2. /\ t \in Seq(S \union {e}) /\ Len(t) = 1 + Len(s) /\ Len(s) \in Nat /\ t[1] = e
      /\ \A i \in 1..Len(s) : t[i + 1] = s[i]
  BY <1>1
<1> HIDE DEF t
<1>3. /\ Head(t) = t[1] /\ Tail(t) \in Seq(S \union {e}) /\ Len(Tail(t)) = Len(s)
      /\ \A i \in 1..Len(s) : Tail(t)[i] = t[i + 1]
  BY <1>2
<1>4. Tail(t) = s
  <2>1. \A i \in 1..Len(s) : Tail(t)[i] = s[i]
    BY <1>2, <1>3
  <2> QED BY <1>1, <1>3, <2>1, SeqEqual
<1>5. t # <<>> /\ t # s
  BY <1>2
<1> QED BY <1>2, <1>3, <1>4, <1>5 DEF t

\* The start of a task comes before it.
LEMMA StartFirst ==
  ASSUME NEW p, Begins(p)
  PROVE  /\ Callbacks(p) # <<>> /\ Callbacks(p) # Rest(p)
         /\ Head(Callbacks(p)) = Call("INS_TaskBeginFunc", p) /\ Tail(Callbacks(p)) = Rest(p)
<1>1. Callbacks(p) = <<Call("INS_TaskBeginFunc", p)>> \o Rest(p)
  BY DEF Callbacks
<1>2. \E S : Rest(p) \in Seq(S)
  <2> HIDE DEF Rest
  <2>1. CASE Rest(p) = <<>>
    <3>1. Rest(p) \in Seq({})
      BY <2>1
    <3> QED BY <3>1
  <2>2. ASSUME NEW e, Rest(p) = <<e>> PROVE \E S : Rest(p) \in Seq(S)
    <3>1. Rest(p) \in Seq({e})
      BY <2>2
    <3> QED BY <3>1
  <2> QED BY <2>1, <2>2, RestShort
<1>3. PICK S : Rest(p) \in Seq(S)
  BY <1>2
<1> QED BY <1>1, <1>3, Prefixed, Zenon

\* Nothing is added by an empty part.
LEMMA PartsLeftOut ==
  ASSUME NEW S, NEW s \in Seq(S), NEW e
  PROVE  /\ ((s \o <<e>>) \o <<>>) \o <<>> = s \o <<e>>
         /\ ((s \o <<>>) \o <<e>>) \o <<>> = s \o <<e>>
         /\ ((s \o <<>>) \o <<>>) \o <<e>> = s \o <<e>>
         /\ ((s \o <<>>) \o <<>>) \o <<>> = s \o <<>>
<1> DEFINE t == s \o <<e>>
<1>1. t \in Seq(S \union {e})
  OBVIOUS
<1> HIDE DEF t
<1>2. s \o <<>> = s /\ t \o <<>> = t
  BY <1>1
<1> QED BY <1>2, Zenon DEF t

LEMMA InsertedBefore ==
  ASSUME TypeInv, ChosenInv, NEW p \in Positions
  PROVE  Callbacks(p) = IF func.runtime THEN instrumentTokens(p)
                        ELSE IF DontInstrument THEN <<>> ELSE runOnFunction(p)
<1>1. CASE func.runtime
  <2>1. ~Tracked(p) /\ ~Receives(p) /\ ~Finishes(p) /\ ~Begins(p)
    BY <1>1 DEF Tracked, Treated, Receives, Finishes, Begins, TaskBody
  <2> QED BY <1>1, <2>1 DEF Callbacks, Rest, Sends, Session0, instrumentTokens
<1>2. CASE ~func.runtime /\ DontInstrument
  <2>1. ~Tracked(p) /\ ~Receives(p) /\ ~Finishes(p) /\ ~Begins(p)
    BY <1>2 DEF Tracked, Treated, Receives, Finishes, Begins, TaskBody
  <2> QED BY <1>2, <2>1 DEF Callbacks, Rest, Sends, Session0
<1>3. CASE Treated
  <2>1. /\ ~Sends(p) /\ ~Session0(p)
    BY <1>3 DEF Treated, Sends, Session0
  <2>2. instrumentLoadOrStore(p) =
          IF Tracked(p)
          THEN <<Call(IF Code(p).op = "store" THEN "INS_AdfMemWrite" ELSE "INS_AdfMemRead", p)>> ELSE <<>>
    <3>1. getMemoryAccessFuncIndex(Code(p)) \in Int
      <4>1. Code(p).size \in Nat
        BY CodeAt DEF TypeInv, Instruction
      <4> QED BY <4>1 DEF getMemoryAccessFuncIndex
    <3>2. getMemoryAccessFuncIndex(Code(p)) < 0 <=> ~(getMemoryAccessFuncIndex(Code(p)) >= 0)
      BY <3>1
    <3> QED BY <1>3, <3>2 DEF instrumentLoadOrStore, Tracked
  <2>3. /\ Tracked(p) => ~Receives(p) /\ ~Finishes(p)
        /\ Receives(p) => ~Tracked(p) /\ ~Finishes(p)
        /\ Finishes(p) => ~Receives(p) /\ ~Tracked(p)
    BY RestForms
  <2>4. runOnFunction(p) =
          (IF Begins(p) THEN <<Call("INS_TaskBeginFunc", p)>> ELSE <<>>)
          \o (IF Tracked(p)
              THEN <<Call(IF Code(p).op = "store" THEN "INS_AdfMemWrite" ELSE "INS_AdfMemRead", p)>> ELSE <<>>)
          \o (IF Receives(p) THEN <<Call("INS_RegReceiveToken", p)>> ELSE <<>>)
          \o (IF Finishes(p) THEN <<Call("INS_TaskFinishFunc", p)>> ELSE <<>>)
    BY <2>2, Zenon DEF runOnFunction, Begins
  <2>5. runOnFunction(p) = (IF Begins(p) THEN <<Call("INS_TaskBeginFunc", p)>> ELSE <<>>) \o Rest(p)
    <3> DEFINE A == IF Begins(p) THEN <<Call("INS_TaskBeginFunc", p)>> ELSE <<>>
               b == Call("INS_TaskBeginFunc", p)
               m == Call(IF Code(p).op = "store" THEN "INS_AdfMemWrite" ELSE "INS_AdfMemRead", p)
               r == Call("INS_RegReceiveToken", p)
               f == Call("INS_TaskFinishFunc", p)
    <3>1. A \in Seq({b})
      <4> HIDE DEF b
      <4>1. <<b>> \in Seq({b}) /\ <<>> \in Seq({b})
        OBVIOUS
      <4>2. A = IF Begins(p) THEN <<b>> ELSE <<>>
        BY Zenon DEF b
      <4> HIDE DEF A
      <4> QED BY <4>1, <4>2, Zenon
    <3>2. Rest(p) = IF Tracked(p) THEN <<m>> ELSE IF Receives(p) THEN <<r>>
                    ELSE IF Finishes(p) THEN <<f>> ELSE <<>>
      BY <2>1, Zenon DEF Rest
    <3>3. runOnFunction(p) = ((A \o (IF Tracked(p) THEN <<m>> ELSE <<>>)) \o (IF Receives(p) THEN <<r>> ELSE <<>>))
                               \o (IF Finishes(p) THEN <<f>> ELSE <<>>)
      BY <2>4, Zenon
    <3>4. runOnFunction(p) = A \o Rest(p)
      <4> HIDE DEF A, b, m, r, f
      <4>1. /\ ((A \o <<m>>) \o <<>>) \o <<>> = A \o <<m>>
            /\ ((A \o <<>>) \o <<r>>) \o <<>> = A \o <<r>>
            /\ ((A \o <<>>) \o <<>>) \o <<f>> = A \o <<f>>
            /\ ((A \o <<>>) \o <<>>) \o <<>> = A \o <<>>
        BY <3>1, PartsLeftOut
      <4>2. ASSUME Tracked(p) PROVE runOnFunction(p) = A \o Rest(p)
        BY <2>3, <3>2, <3>3, <4>1, <4>2, Zenon
      <4>3. ASSUME Receives(p) PROVE runOnFunction(p) = A \o Rest(p)
        BY <2>3, <3>2, <3>3, <4>1, <4>3, Zenon
      <4>4. ASSUME Finishes(p) PROVE runOnFunction(p) = A \o Rest(p)
        BY <2>3, <3>2, <3>3, <4>1, <4>4, Zenon
      <4>5. ASSUME ~Tracked(p), ~Receives(p), ~Finishes(p) PROVE runOnFunction(p) = A \o Rest(p)
        BY <3>2, <3>3, <4>1, <4>5, Zenon
      <4> QED BY <4>2, <4>3, <4>4, <4>5, Zenon
    <3> QED BY <3>4, Zenon DEF A
  <2>6. Rest(p) = <<>> \o Rest(p)
    BY RestShort
  <2> QED BY <1>3, <2>5, <2>6 DEF Callbacks, Treated
<1> QED BY <1>1, <1>2, <1>3 DEF Treated

LEMMA Alone ==
  ASSUME NEW e
  PROVE  Head(<<e>>) = e /\ Tail(<<e>>) = <<>> /\ <<e>> # <<>>
OBVIOUS

LEMMA Calls ==
  ASSUME NEW n, NEW p
  PROVE  /\ Call(n, p).call = n /\ Call(n, p).line = p
         /\ Call(n, p).ptr = Code(p).ptr /\ Call(n, p).dst = Code(p).dst
BY DEF Call

\* What a callback that runs does: it starts the task, or does what the instruction asks for.
StartRuns ==
  /\ Starting /\ todo' = Rest(at) /\ active' = TRUE
  /\ UNCHANGED <<memoryLocations, flushed, reported>>
AccessTold ==
  /\ Tracked(at)
  /\ memoryLocations' =
       IF active
       THEN [memoryLocations EXCEPT ![env[Code(at).ptr]] =
               StoreAction(@, [line |-> at, isWrite |-> Code(at).op = "store"])]
       ELSE memoryLocations
  /\ UNCHANGED <<active, flushed, reported>>
TokenTold ==
  /\ \/ Receives(at) /\ reported' = Append(reported, <<env[Code(at).ptr]>>)
     \/ Sends(at) /\ reported' = Append(reported, <<env[Code(at).dst], env[Code(at).ptr]>>)
  /\ UNCHANGED <<active, memoryLocations, flushed>>
EndTold ==
  /\ Finishes(at) /\ active' = FALSE /\ flushed' = Append(flushed, memoryLocations)
  /\ UNCHANGED <<memoryLocations, reported>>
SessionTold ==
  /\ ~Tracked(at) /\ ~Tells(at) /\ ~Finishes(at)
  /\ UNCHANGED tracerVars

LEMMA CallbackMade ==
  ASSUME TypeInv, ChosenInv, TodoInv, Callback
  PROVE  /\ phase = "run" /\ UNCHANGED <<fixedVars, phase, at, passVars, blocks, left, performed, copied>>
         /\ \/ StartRuns
            \/ /\ ~Starting /\ todo = Rest(at) /\ todo # <<>> /\ todo' = <<>>
               /\ AccessTold \/ TokenTold \/ EndTold \/ SessionTold
<1>1. /\ phase = "run" /\ todo # <<>> /\ todo' = Tail(todo) /\ at \in Positions
      /\ UNCHANGED <<fixedVars, phase, at, passVars, blocks, left, performed, copied>>
  BY DEF Callback, TypeInv
<1> DEFINE c == Head(todo)
<1>2. /\ c.call = "INS_AdfMemWrite" =>
           /\ memoryLocations' = IF active THEN [memoryLocations EXCEPT ![env[c.ptr]] =
                                   StoreAction(@, [line |-> c.line, isWrite |-> TRUE])] ELSE memoryLocations
           /\ UNCHANGED <<active, flushed, reported>>
      /\ c.call = "INS_AdfMemRead" =>
           /\ memoryLocations' = IF active THEN [memoryLocations EXCEPT ![env[c.ptr]] =
                                   StoreAction(@, [line |-> c.line, isWrite |-> FALSE])] ELSE memoryLocations
           /\ UNCHANGED <<active, flushed, reported>>
      /\ c.call = "INS_TaskBeginFunc" => active' = TRUE /\ UNCHANGED <<memoryLocations, flushed, reported>>
      /\ c.call = "INS_TaskFinishFunc" =>
           active' = FALSE /\ flushed' = Append(flushed, memoryLocations) /\ UNCHANGED <<memoryLocations, reported>>
      /\ c.call = "INS_RegReceiveToken" =>
           reported' = Append(reported, <<env[c.ptr]>>) /\ UNCHANGED <<active, memoryLocations, flushed>>
      /\ c.call = "INS_RegSendToken" =>
           reported' = Append(reported, <<env[c.dst], env[c.ptr]>>) /\ UNCHANGED <<active, memoryLocations, flushed>>
      /\ c.call \in {"INS_Init", "INS_Fini"} => UNCHANGED tracerVars
  BY DEF Callback, AdfMem, TaskBeginFunc, TaskFinishFunc, RegToken, Session
<1>3. CASE Starting
  <2>1. todo = Callbacks(at) /\ Begins(at)
    BY <1>3 DEF Starting
  <2>2. c = Call("INS_TaskBeginFunc", at) /\ Tail(todo) = Rest(at)
    BY <2>1, StartFirst, Zenon
  <2>3. c.call = "INS_TaskBeginFunc"
    BY <2>2, Calls
  <2> QED BY <1>1, <1>2, <1>3, <2>2, <2>3 DEF StartRuns
<1>4. CASE ~Starting
  <2>1. todo = Rest(at) /\ Rest(at) # <<>>
    BY <1>1, <1>4 DEF TodoInv
  <2>2. PICK e : todo = <<e>>
    BY <2>1, RestShort
  <2>3. todo' = <<>> /\ c = e
    BY <1>1, <2>2, Alone, Zenon
  <2>4. ASSUME Tracked(at) PROVE AccessTold
    <3>1. Rest(at) = <<Call(IF Code(at).op = "store" THEN "INS_AdfMemWrite" ELSE "INS_AdfMemRead", at)>>
      BY <1>1, <2>4, RestForms
    <3>2. c = Call(IF Code(at).op = "store" THEN "INS_AdfMemWrite" ELSE "INS_AdfMemRead", at)
      BY <2>1, <3>1, Alone, Zenon
    <3>3. /\ c.call = IF Code(at).op = "store" THEN "INS_AdfMemWrite" ELSE "INS_AdfMemRead"
          /\ c.line = at /\ c.ptr = Code(at).ptr
      BY <3>2, Calls
    <3> HIDE DEF c
    <3>4. CASE Code(at).op = "store"
      BY <1>2, <2>4, <3>3, <3>4 DEF AccessTold
    <3>5. CASE Code(at).op # "store"
      BY <1>2, <2>4, <3>3, <3>5 DEF AccessTold
    <3> QED BY <3>4, <3>5
  <2>5. ASSUME Receives(at) PROVE TokenTold
    <3>1. c = Call("INS_RegReceiveToken", at)
      BY <1>1, <2>1, <2>5, RestForms, Alone, Zenon
    <3>2. c.call = "INS_RegReceiveToken" /\ c.ptr = Code(at).ptr
      BY <3>1, Calls
    <3> QED BY <1>2, <2>5, <3>2 DEF TokenTold
  <2>6. ASSUME Sends(at) PROVE TokenTold
    <3>1. c = Call("INS_RegSendToken", at)
      BY <1>1, <2>1, <2>6, RestForms, Alone, Zenon
    <3>2. c.call = "INS_RegSendToken" /\ c.ptr = Code(at).ptr /\ c.dst = Code(at).dst
      BY <3>1, Calls
    <3> QED BY <1>2, <2>6, <3>2 DEF TokenTold
  <2>7. ASSUME Finishes(at) PROVE EndTold
    <3>1. c = Call("INS_TaskFinishFunc", at)
      BY <1>1, <2>1, <2>7, RestForms, Alone, Zenon
    <3>2. c.call = "INS_TaskFinishFunc"
      BY <3>1, Calls
    <3> QED BY <1>2, <2>7, <3>2 DEF EndTold
  <2>8. ASSUME ~Tracked(at), ~Tells(at), ~Finishes(at) PROVE SessionTold
    <3>1. PICK n \in {"INS_Init", "INS_Fini"} : Rest(at) = <<Call(n, at)>>
      BY <1>1, <2>1, <2>8, RestForms, Zenon
    <3>2. c = Call(n, at)
      BY <2>1, <3>1, Alone, Zenon
    <3>3. c.call = n
      BY <3>2, Calls
    <3> QED BY <1>2, <2>8, <3>1, <3>3 DEF SessionTold
  <2> QED BY <1>1, <1>4, <2>1, <2>3, <2>4, <2>5, <2>6, <2>7, <2>8, Zenon DEF Tells
<1> QED BY <1>1, <1>3, <1>4

-----------------------------------------------------------------------------
(* What an instruction that runs does.                                     *)

\* The entry of the history for an access at the instruction.
Entered(x, isWrite, how) == [addr |-> x, line |-> at, isWrite |-> isWrite, how |-> how]

AccessMade ==
  /\ Code(at).op \in {"load", "store", "atomic"}
  /\ \E how \in {"plain", "left out"} :
       /\ performed' = Append(performed, Entered(env[Code(at).ptr], Code(at).op # "load", how))
       /\ how = "plain" <=> /\ Treated /\ IsLoadOrStore(Code(at)) /\ Code(at).size \in AccessSizes
                            /\ ~NotCaptured(Code(at).ptr) /\ Code(at).ptr \notin ConstantData
  /\ UNCHANGED <<copied, memoryLocations>>
CopyMade ==
  /\ Code(at).op \in {"memcpy", "memmove", "memset"}
  /\ \E how \in {"copy", "left out"}, other \in {"copy", "left out"} :
       performed' =
         IF IsTransfer(Code(at))
         THEN Append(Append(performed, Entered(env[Code(at).ptr], FALSE, how)),
                     Entered(env[Code(at).dst], TRUE, other))
         ELSE Append(performed, Entered(env[Code(at).dst], TRUE, other))
  /\ copied' = IF IsTransfer(Code(at))
               THEN Append(copied, <<env[Code(at).dst], env[Code(at).ptr]>>) ELSE copied
  /\ UNCHANGED memoryLocations
CallMade ==
  /\ Code(at).op \in {"call", "indirect"}
  /\ \/ UNCHANGED <<performed, memoryLocations>>
     \/ \E x \in Addrs, isWrite \in BOOLEAN :
          /\ performed' = Append(performed, Entered(x, isWrite, "called"))
          /\ memoryLocations' =
               IF active THEN [memoryLocations EXCEPT ![x] =
                                 StoreAction(@, [line |-> at, isWrite |-> isWrite])]
                         ELSE memoryLocations
  /\ UNCHANGED copied
ReturnMade ==
  Code(at).op = "return" /\ UNCHANGED <<performed, copied, memoryLocations>>

\* Where it goes on.
GoesOn ==
  /\ at' \in Positions /\ blocks' \in 1..MaxBlocks /\ todo' = Callbacks(at')
  /\ phase' = "run" /\ left' = left
  /\ \/ at[2] # Len(func.body[at[1]]) /\ at' = <<at[1], at[2] + 1>>
     \/ at[2] = Len(func.body[at[1]]) /\ at'[2] = 1
LeavesBy(how) ==
  phase' = "left" /\ left' = how /\ UNCHANGED <<at, todo, blocks>>

LEMMA Proceeds ==
  ASSUME TypeInv, TodoInv, phase = "run", func' = func, Proceed
  PROVE  GoesOn
<1>1. /\ at \in Positions /\ blocks \in 1..MaxBlocks /\ MaxBlocks \in Nat \ {0}
      /\ \A p \in Positions : inserted[p] = Callbacks(p)
      /\ Positions' = Positions /\ func \in Functions
  BY BlocksAssumption, SameCode DEF TypeInv, TodoInv
<1>2. /\ at = <<at[1], at[2]>> /\ at[1] \in 1..Len(func.body) /\ at[2] \in 1..Len(func.body[at[1]])
      /\ Len(func.body[at[1]]) \in Nat /\ at[2] \in Nat
  BY <1>1, PositionOf
<1>3. inserted[at'] = todo' /\ phase' = phase /\ left' = left
  BY DEF Proceed
<1>4. CASE EndOfBlock(at)
  <2>1. PICK b \in DOMAIN func.body : at' = <<b, 1>>
    BY <1>4 DEF Proceed
  <2>2. b \in 1..Len(func.body) /\ 1 \in 1..Len(func.body[b])
    BY <1>1, <2>1, Bodies
  <2>3. at' \in Positions
    BY <1>1, <2>1, <2>2, PositionOf
  <2>4. blocks' \in 1..MaxBlocks
    BY <1>1, <1>4 DEF Proceed
  <2> QED BY <1>1, <1>2, <1>3, <1>4, <2>1, <2>3, <2>4 DEF GoesOn, EndOfBlock
<1>5. CASE ~EndOfBlock(at)
  <2>1. at' = <<at[1], at[2] + 1>> /\ blocks' = blocks
    BY <1>5 DEF Proceed, NextInCode
  <2>2. at[2] # Len(func.body[at[1]])
    BY <1>5 DEF EndOfBlock
  <2>3. at[2] + 1 \in 1..Len(func.body[at[1]])
    BY <1>2, <2>2
  <2>4. at' \in Positions
    BY <1>1, <1>2, <2>1, <2>3, PositionOf
  <2> QED BY <1>1, <1>2, <1>3, <2>1, <2>2, <2>4 DEF GoesOn
<1> QED BY <1>4, <1>5

LEMMA ExecuteMade ==
  ASSUME TypeInv, TodoInv, Execute
  PROVE  /\ phase = "run" /\ Told /\ UNCHANGED <<fixedVars, passVars, active, flushed, reported>>
         /\ \/ (AccessMade \/ CopyMade \/ CallMade) /\ GoesOn
            \/ CallMade /\ Code(at).op = "call" /\ LeavesBy("throw")
            \/ CallMade /\ Code(at).op = "indirect" /\ LeavesBy("indirect throw")
            \/ ReturnMade /\ LeavesBy("return")
<1>1. /\ phase = "run" /\ todo = <<>> /\ func' = func /\ at \in Positions /\ func \in Functions
      /\ performed \in Seq(History) /\ env \in Envs
      /\ UNCHANGED <<fixedVars, passVars, active, flushed, reported>>
  BY DEF Execute, TypeInv, fixedVars
<1>2. Told
  <2>1. Begins(at) => Callbacks(at) # <<>>
    BY StartFirst
  <2> QED BY <1>1, <2>1 DEF Told, Starting
<1>3. /\ ~DontInstrument /\ ~func.runtime <=> Treated
      /\ Code(at).op \in {"load", "store", "atomic", "memcpy", "memmove"} => Code(at).ptr \in Pointers
      /\ Code(at).op \in {"memcpy", "memmove", "memset"} => Code(at).dst \in Pointers
      /\ \A p \in Pointers : env[p] \in Addrs
  BY <1>1, CodeAt, AddrsOf DEF Treated
<1>4. ASSUME MakeAccess PROVE AccessMade /\ GoesOn
  <2>1. Code(at).op \in {"load", "store", "atomic"} /\ Proceed /\ UNCHANGED <<copied, memoryLocations>>
    BY <1>4 DEF MakeAccess, IsLoadOrStore
  <2>2. performed' = Append(performed, Made(Code(at).ptr, Code(at).op # "load", HowMade(Code(at), Code(at).ptr)))
    BY <1>4 DEF MakeAccess
  <2>3. ~IsMemIntrinsic(Code(at))
    BY <2>1 DEF IsMemIntrinsic, IsTransfer
  <2>4. /\ HowMade(Code(at), Code(at).ptr) \in {"plain", "left out"}
        /\ HowMade(Code(at), Code(at).ptr) = "plain" <=>
             /\ Treated /\ IsLoadOrStore(Code(at)) /\ Code(at).size \in AccessSizes
             /\ ~NotCaptured(Code(at).ptr) /\ Code(at).ptr \notin ConstantData
    BY <2>3 DEF HowMade, Treated
  <2>5. Made(Code(at).ptr, Code(at).op # "load", HowMade(Code(at), Code(at).ptr)) =
          Entered(env[Code(at).ptr], Code(at).op # "load", HowMade(Code(at), Code(at).ptr))
    BY DEF Made, Entered
  <2>6. AccessMade
    BY <2>1, <2>2, <2>4, <2>5, Zenon DEF AccessMade
  <2> QED BY <1>1, <2>1, <2>6, Proceeds
<1>5. ASSUME MakeCopy PROVE CopyMade /\ GoesOn
  <2> DEFINE r == Entered(env[Code(at).ptr], FALSE, HowMade(Code(at), Code(at).ptr))
             w == Entered(env[Code(at).dst], TRUE, HowMade(Code(at), Code(at).dst))
  <2>1. IsMemIntrinsic(Code(at)) /\ Proceed /\ UNCHANGED memoryLocations
    BY <1>5 DEF MakeCopy
  <2>2. Code(at).op \in {"memcpy", "memmove", "memset"}
    BY <2>1 DEF IsMemIntrinsic, IsTransfer
  <2>3. /\ HowMade(Code(at), Code(at).ptr) \in {"copy", "left out"}
        /\ HowMade(Code(at), Code(at).dst) \in {"copy", "left out"}
    BY <2>1 DEF HowMade
  <2>4. /\ performed' = performed \o (IF IsTransfer(Code(at)) THEN <<r>> ELSE <<>>) \o <<w>>
        /\ copied' = IF IsTransfer(Code(at))
                     THEN Append(copied, <<env[Code(at).dst], env[Code(at).ptr]>>) ELSE copied
    BY <1>5 DEF MakeCopy, Made, Entered
  <2>5. performed' = IF IsTransfer(Code(at)) THEN Append(Append(performed, r), w) ELSE Append(performed, w)
    <3> HIDE DEF r, w
    <3> DEFINE H == History \union {r, w}
    <3>1. performed \in Seq(H) /\ <<r>> \in Seq(H) /\ <<w>> \in Seq(H) /\ r \in H /\ w \in H
      BY <1>1
    <3> HIDE DEF H
    <3>2. performed \o <<>> = performed /\ performed \o <<r>> = Append(performed, r)
          /\ performed \o <<w>> = Append(performed, w)
      BY <3>1, AppendIsConcat
    <3>3. Append(performed, r) \o <<w>> = Append(Append(performed, r), w)
      BY <3>1, AppendIsConcat
    <3> QED BY <2>4, <3>2, <3>3, Zenon
  <2>6. CopyMade
    <3>1. /\ r = Entered(env[Code(at).ptr], FALSE, HowMade(Code(at), Code(at).ptr))
          /\ w = Entered(env[Code(at).dst], TRUE, HowMade(Code(at), Code(at).dst))
      OBVIOUS
    <3> HIDE DEF r, w
    <3> QED BY <2>1, <2>2, <2>3, <2>4, <2>5, <3>1, Zenon DEF CopyMade
  <2> QED BY <1>1, <2>1, <2>6, Proceeds
<1>6. ASSUME MakeCall
      PROVE  CallMade /\ \/ GoesOn
                         \/ Code(at).op = "call" /\ LeavesBy("throw")
                         \/ Code(at).op = "indirect" /\ LeavesBy("indirect throw")
  <2>1. CallMade
    <3>1. Code(at).op \in {"call", "indirect"} /\ UNCHANGED copied
      BY <1>6 DEF MakeCall
    <3>2. CASE UNCHANGED <<performed, memoryLocations>>
      BY <3>1, <3>2 DEF CallMade
    <3>3. CASE ~UNCHANGED <<performed, memoryLocations>>
      <4>1. PICK p \in OutsidePointers, isWrite \in BOOLEAN :
              /\ performed' = Append(performed, Made(p, isWrite, "called"))
              /\ memoryLocations' =
                   IF active THEN [memoryLocations EXCEPT ![env[p]] =
                                     StoreAction(@, [line |-> at, isWrite |-> isWrite])]
                             ELSE memoryLocations
        BY <1>6, <3>3 DEF MakeCall
      <4>2. env[p] \in Addrs /\ Made(p, isWrite, "called") = Entered(env[p], isWrite, "called")
        BY <1>3 DEF Made, Entered, OutsidePointers
      <4> QED BY <3>1, <4>1, <4>2 DEF CallMade
    <3> QED BY <3>2, <3>3
  <2>2. CASE Proceed
    BY <1>1, <2>1, <2>2, Proceeds
  <2>3. CASE ~Proceed
    BY <1>6, <2>1, <2>3 DEF MakeCall, Leave, LeavesBy
  <2> QED BY <2>2, <2>3
<1>7. ASSUME Return PROVE ReturnMade /\ LeavesBy("return")
  BY <1>7 DEF Return, Leave, ReturnMade, LeavesBy
<1>8. MakeAccess \/ MakeCopy \/ MakeCall \/ Return
  BY DEF Execute
<1> QED BY <1>1, <1>2, <1>4, <1>5, <1>6, <1>7, <1>8

-----------------------------------------------------------------------------
(* The types.                                                              *)

LEMMA TypesBy ==
  ASSUME TypeInv, UNCHANGED fixedVars,
         phase' \in {"scan", "insert", "run", "left", "over"}, at' \in Positions,
         LocalLoadsAndStores' \in Seq(Positions), AllLoadsAndStores' \subseteq Positions,
         DOMAIN inserted' = Positions, blocks' \in 1..MaxBlocks,
         left' \in {NULL, "return", "throw", "indirect throw"}, active' \in BOOLEAN,
         memoryLocations' \in [Addrs -> Action \union {NULL}], reported' \in Seq(Seq(Addrs)),
         performed' \in Seq(History), copied' \in Seq(Addrs \X Addrs)
  PROVE  TypeInv'
<1>1. Positions' = Positions /\ Action' = Action /\ History' = History
  BY SameCode DEF fixedVars
<1> QED BY <1>1 DEF TypeInv, fixedVars

\* Remembering an action keeps the type.
LEMMA RememberedType ==
  ASSUME NEW x \in Addrs, NEW p \in Positions, NEW isWrite \in BOOLEAN,
         NEW m \in [Addrs -> Action \union {NULL}]
  PROVE  [m EXCEPT ![x] = StoreAction(@, [line |-> p, isWrite |-> isWrite])]
           \in [Addrs -> Action \union {NULL}]
<1>1. [line |-> p, isWrite |-> isWrite] \in Action
  BY DEF Action
<1>2. StoreAction(m[x], [line |-> p, isWrite |-> isWrite]) \in Action \union {NULL}
  BY <1>1 DEF StoreAction
<1> QED BY <1>2

LEMMA WalkGoesOn ==
  ASSUME TypeInv, Visit
  PROVE  /\ phase = "scan" /\ at \in Positions
         /\ UNCHANGED <<fixedVars, inserted, tracerVars, runVars>>
         /\ \/ at[2] # Len(func.body[at[1]]) /\ at' = <<at[1], at[2] + 1>> /\ phase' = "scan"
            \/ at[2] = Len(func.body[at[1]]) /\ at[1] # Len(func.body) /\ at' = <<at[1] + 1, 1>> /\ phase' = "scan"
            \/ at[2] = Len(func.body[at[1]]) /\ at[1] = Len(func.body) /\ at' = Entry /\ phase' = "insert"
         /\ at' \in Positions
<1>1. /\ at \in Positions /\ func \in Functions /\ phase = "scan"
      /\ UNCHANGED <<fixedVars, inserted, tracerVars, runVars>>
  BY DEF TypeInv, Visit
<1>2. /\ at[1] \in 1..Len(func.body) /\ at[2] \in 1..Len(func.body[at[1]])
      /\ Len(func.body[at[1]]) \in Nat /\ Len(func.body) \in Nat
  BY <1>1, PositionOf, Bodies
<1>3. /\ NextInCode(at) \in Positions => at' = NextInCode(at) /\ phase' = phase
      /\ NextInCode(at) \notin Positions => at' = Entry /\ phase' = "insert"
  BY DEF Visit
<1>4. CASE at[2] # Len(func.body[at[1]])
  <2>1. NextInCode(at) = <<at[1], at[2] + 1>>
    BY <1>4 DEF NextInCode, EndOfBlock
  <2>2. at[2] + 1 \in 1..Len(func.body[at[1]])
    BY <1>2, <1>4
  <2>3. NextInCode(at) \in Positions
    BY <1>1, <1>2, <2>1, <2>2, PositionOf
  <2> QED BY <1>1, <1>3, <1>4, <2>1, <2>3
<1>5. CASE at[2] = Len(func.body[at[1]])
  <2>1. NextInCode(at) = <<at[1] + 1, 1>>
    BY <1>5 DEF NextInCode, EndOfBlock
  <2>2. CASE at[1] # Len(func.body)
    <3>1. at[1] + 1 \in 1..Len(func.body)
      BY <1>2, <2>2
    <3>2. 1 \in 1..Len(func.body[at[1] + 1])
      BY <1>1, <3>1, Bodies
    <3>3. NextInCode(at) \in Positions
      BY <1>1, <2>1, <3>1, <3>2, PositionOf
    <3> QED BY <1>1, <1>3, <1>5, <2>1, <2>2, <3>3
  <2>3. CASE at[1] = Len(func.body)
    <3>1. NextInCode(at) \notin Positions
      <4>1. at[1] + 1 \notin 1..Len(func.body)
        BY <1>2, <2>3
      <4> QED BY <1>1, <2>1, <4>1, PositionOf
    <3> QED BY <1>1, <1>3, <1>5, <2>3, <3>1, EntryThere
  <2> QED BY <2>2, <2>3
<1> QED BY <1>4, <1>5

\* What the walk chooses at an instruction, of what it has collected.
Collected ==
  IF IsLoadOrStore(Code(at)) THEN Append(LocalLoadsAndStores, at) ELSE LocalLoadsAndStores
ChoosesNow ==
  /\ Flushes(Code(at)) \/ EndOfBlock(at)
  /\ LocalLoadsAndStores' = <<>>
  /\ \A p : p \in AllLoadsAndStores' <=>
       \/ p \in AllLoadsAndStores
       \/ \E k \in DOMAIN Collected : p = Collected[k] /\ k \in chooseInstructionsToInstrument(Collected)
ChoosesLater ==
  /\ ~Flushes(Code(at)) /\ ~EndOfBlock(at)
  /\ LocalLoadsAndStores' = Collected /\ AllLoadsAndStores' = AllLoadsAndStores

LEMMA WalkChooses ==
  ASSUME TypeInv, Visit
  PROVE  Collected \in Seq(Positions) /\ (ChoosesNow \/ ChoosesLater)
<1>1. Collected \in Seq(Positions)
  <2>1. Append(LocalLoadsAndStores, at) \in Seq(Positions) /\ LocalLoadsAndStores \in Seq(Positions)
    BY AppendProperties DEF TypeInv
  <2> QED BY <2>1, Zenon DEF Collected
<1>2. IF Flushes(Code(at)) \/ EndOfBlock(at)
      THEN /\ AllLoadsAndStores' = AllLoadsAndStores \union
                {Collected[k] : k \in chooseInstructionsToInstrument(Collected)}
           /\ LocalLoadsAndStores' = <<>>
      ELSE LocalLoadsAndStores' = Collected /\ UNCHANGED AllLoadsAndStores
  BY Zenon DEF Visit, Collected
<1>3. \A p : p \in {Collected[k] : k \in chooseInstructionsToInstrument(Collected)} <=>
        \E k \in DOMAIN Collected : p = Collected[k] /\ k \in chooseInstructionsToInstrument(Collected)
  BY DEF chooseInstructionsToInstrument
<1> QED BY <1>1, <1>2, <1>3 DEF ChoosesNow, ChoosesLater

LEMMA VisitTypes ==
  ASSUME TypeInv, Visit
  PROVE  TypeInv'
<1>1. Collected \in Seq(Positions) /\ AllLoadsAndStores \subseteq Positions
  BY WalkChooses DEF TypeInv
<1>2. LocalLoadsAndStores' \in Seq(Positions) /\ AllLoadsAndStores' \subseteq Positions
  <2>1. \A k \in DOMAIN Collected : Collected[k] \in Positions
    BY <1>1
  <2>2. CASE ChoosesNow
    BY <1>1, <2>1, <2>2 DEF ChoosesNow
  <2>3. CASE ChoosesLater
    BY <1>1, <2>3 DEF ChoosesLater
  <2> QED BY <2>2, <2>3, WalkChooses
<1>3. /\ phase' \in {"scan", "insert"} /\ at' \in Positions
      /\ UNCHANGED <<fixedVars, inserted, tracerVars, runVars>>
  BY WalkGoesOn
<1> QED BY <1>2, <1>3, TypesBy DEF TypeInv, tracerVars, runVars

LEMMA InsertTypes ==
  ASSUME TypeInv, Insert
  PROVE  TypeInv'
<1>1. /\ phase' = "run" /\ DOMAIN inserted' = Positions
      /\ UNCHANGED <<fixedVars, at, LocalLoadsAndStores, AllLoadsAndStores, tracerVars,
                     blocks, left, performed, copied>>
  BY DEF Insert
<1> QED BY <1>1, TypesBy DEF TypeInv, tracerVars

LEMMA CallbackTypes ==
  ASSUME TypeInv, ScanInv, TodoInv, Callback
  PROVE  TypeInv'
<1>1. /\ at \in Positions /\ env \in Envs /\ func \in Functions
      /\ memoryLocations \in [Addrs -> Action \union {NULL}] /\ reported \in Seq(Seq(Addrs))
  BY DEF TypeInv
<1>2. /\ UNCHANGED <<fixedVars, phase, at, passVars, blocks, left, performed, copied>>
      /\ StartRuns \/ AccessTold \/ TokenTold \/ EndTold \/ SessionTold
  BY CallbackMade DEF ScanInv
<1>3. memoryLocations' \in [Addrs -> Action \union {NULL}]
  <2>1. CASE AccessTold
    <3>1. env[Code(at).ptr] \in Addrs /\ (Code(at).op = "store") \in BOOLEAN
      BY <1>1, <2>1, RestForms, CodeAt, AddrsOf DEF ScanInv, AccessTold
    <3>2. [memoryLocations EXCEPT ![env[Code(at).ptr]] =
             StoreAction(@, [line |-> at, isWrite |-> Code(at).op = "store"])] \in [Addrs -> Action \union {NULL}]
      BY <1>1, <3>1, RememberedType
    <3> QED BY <1>1, <2>1, <3>2, Zenon DEF AccessTold
  <2>2. CASE memoryLocations' = memoryLocations
    BY <1>1, <2>2
  <2> QED BY <1>2, <2>1, <2>2 DEF StartRuns, TokenTold, EndTold, SessionTold, tracerVars
<1>4. active' \in BOOLEAN
  BY <1>2 DEF StartRuns, AccessTold, TokenTold, EndTold, SessionTold, tracerVars, TypeInv
<1>5. reported' \in Seq(Seq(Addrs))
  <2>1. CASE TokenTold
    <3>1. Code(at).op \in {"memcpy", "memmove"}
      BY <1>1, <2>1, RestForms DEF ScanInv, TokenTold
    <3>2. env[Code(at).ptr] \in Addrs /\ env[Code(at).dst] \in Addrs
      BY <1>1, <3>1, CodeAt, AddrsOf
    <3>3. <<env[Code(at).ptr]>> \in Seq(Addrs) /\ <<env[Code(at).dst], env[Code(at).ptr]>> \in Seq(Addrs)
      BY <3>2
    <3>4. /\ Append(reported, <<env[Code(at).ptr]>>) \in Seq(Seq(Addrs))
          /\ Append(reported, <<env[Code(at).dst], env[Code(at).ptr]>>) \in Seq(Seq(Addrs))
      BY <1>1, <3>3, AppendProperties
    <3> QED BY <2>1, <3>4, Zenon DEF TokenTold
  <2>2. CASE reported' = reported
    BY <1>1, <2>2
  <2> QED BY <1>2, <2>1, <2>2 DEF StartRuns, AccessTold, EndTold, SessionTold, tracerVars
<1> QED BY <1>2, <1>3, <1>4, <1>5, TypesBy DEF TypeInv, passVars

LEMMA EnteredType ==
  ASSUME TypeInv, NEW x \in Addrs, NEW isWrite \in BOOLEAN,
         NEW how \in {"left out", "copy", "plain", "called"}
  PROVE  Entered(x, isWrite, how) \in History
BY DEF TypeInv, Entered, History

LEMMA ExecuteTypes ==
  ASSUME TypeInv, TodoInv, Execute
  PROVE  TypeInv'
<1>1. /\ at \in Positions /\ env \in Envs /\ func \in Functions
      /\ memoryLocations \in [Addrs -> Action \union {NULL}]
      /\ performed \in Seq(History) /\ copied \in Seq(Addrs \X Addrs)
  BY DEF TypeInv
<1>2. /\ UNCHANGED <<fixedVars, passVars, active, flushed, reported>>
      /\ AccessMade \/ CopyMade \/ CallMade \/ ReturnMade
      /\ GoesOn \/ LeavesBy("throw") \/ LeavesBy("indirect throw") \/ LeavesBy("return")
  BY ExecuteMade
<1>3. /\ phase' \in {"run", "left"} /\ at' \in Positions /\ blocks' \in 1..MaxBlocks
      /\ left' \in {NULL, "return", "throw", "indirect throw"}
  BY <1>2 DEF GoesOn, LeavesBy, TypeInv
<1>4. /\ Code(at).op \in {"load", "store", "atomic", "memcpy", "memmove"} => env[Code(at).ptr] \in Addrs
      /\ Code(at).op \in {"memcpy", "memmove", "memset"} => env[Code(at).dst] \in Addrs
  BY <1>1, CodeAt, AddrsOf
<1>5. performed' \in Seq(History)
  <2>1. CASE AccessMade
    <3>1. PICK how \in {"plain", "left out"} :
            performed' = Append(performed, Entered(env[Code(at).ptr], Code(at).op # "load", how))
      BY <2>1 DEF AccessMade
    <3>2. Entered(env[Code(at).ptr], Code(at).op # "load", how) \in History
      BY <1>4, <2>1, EnteredType DEF AccessMade
    <3> QED BY <1>1, <3>1, <3>2, AppendProperties
  <2>2. CASE CopyMade
    <3>1. PICK how \in {"copy", "left out"}, other \in {"copy", "left out"} :
            performed' =
              IF IsTransfer(Code(at))
              THEN Append(Append(performed, Entered(env[Code(at).ptr], FALSE, how)),
                          Entered(env[Code(at).dst], TRUE, other))
              ELSE Append(performed, Entered(env[Code(at).dst], TRUE, other))
      BY <2>2 DEF CopyMade
    <3>2. IsTransfer(Code(at)) => Entered(env[Code(at).ptr], FALSE, how) \in History
      BY <1>4, EnteredType DEF IsTransfer
    <3>3. Entered(env[Code(at).dst], TRUE, other) \in History
      BY <1>4, <2>2, EnteredType DEF CopyMade
    <3>4. Append(performed, Entered(env[Code(at).dst], TRUE, other)) \in Seq(History)
      BY <1>1, <3>3, AppendProperties
    <3>5. ASSUME IsTransfer(Code(at))
          PROVE  Append(Append(performed, Entered(env[Code(at).ptr], FALSE, how)),
                        Entered(env[Code(at).dst], TRUE, other)) \in Seq(History)
      <4>1. Append(performed, Entered(env[Code(at).ptr], FALSE, how)) \in Seq(History)
        BY <1>1, <3>2, <3>5, AppendProperties
      <4> QED BY <3>3, <4>1, AppendProperties
    <3> QED BY <3>1, <3>4, <3>5, Zenon
  <2>3. CASE CallMade
    <3>1. CASE performed' = performed
      BY <1>1, <3>1
    <3>2. CASE performed' # performed
      <4>1. PICK x \in Addrs, isWrite \in BOOLEAN :
              performed' = Append(performed, Entered(x, isWrite, "called"))
        BY <2>3, <3>2 DEF CallMade
      <4>2. Entered(x, isWrite, "called") \in History
        BY EnteredType
      <4> QED BY <1>1, <4>1, <4>2, AppendProperties
    <3> QED BY <3>1, <3>2
  <2>4. CASE ReturnMade
    BY <1>1, <2>4 DEF ReturnMade
  <2> QED BY <1>2, <2>1, <2>2, <2>3, <2>4
<1>6. copied' \in Seq(Addrs \X Addrs)
  <2>1. CASE CopyMade
    <3>1. IsTransfer(Code(at)) => <<env[Code(at).dst], env[Code(at).ptr]>> \in Addrs \X Addrs
      BY <1>4 DEF IsTransfer
    <3>2. IsTransfer(Code(at)) =>
            Append(copied, <<env[Code(at).dst], env[Code(at).ptr]>>) \in Seq(Addrs \X Addrs)
      BY <1>1, <3>1, AppendProperties
    <3> QED BY <1>1, <2>1, <3>2, Zenon DEF CopyMade
  <2> QED BY <1>1, <1>2, <2>1 DEF AccessMade, CallMade, ReturnMade
<1>7. memoryLocations' \in [Addrs -> Action \union {NULL}]
  <2>1. CASE memoryLocations' = memoryLocations
    BY <1>1, <2>1
  <2>2. CASE memoryLocations' # memoryLocations
    <3>1. PICK x \in Addrs, isWrite \in BOOLEAN :
            memoryLocations' = [memoryLocations EXCEPT ![x] =
                                  StoreAction(@, [line |-> at, isWrite |-> isWrite])]
      BY <1>2, <2>2 DEF AccessMade, CopyMade, CallMade, ReturnMade
    <3> QED BY <1>1, <3>1, RememberedType
  <2> QED BY <2>1, <2>2
<1> QED BY <1>2, <1>3, <1>5, <1>6, <1>7, TypesBy DEF TypeInv, passVars

LEMMA EndTypes ==
  ASSUME TypeInv, RunEnds
  PROVE  TypeInv'
<1>1. /\ phase' = "over" /\ active' \in BOOLEAN
      /\ UNCHANGED <<fixedVars, at, passVars, memoryLocations, reported, runVars>>
  BY DEF RunEnds, TypeInv
<1> QED BY <1>1, TypesBy DEF TypeInv, passVars, runVars

LEMMA TypesKept ==
  ASSUME TypeInv, ScanInv, TodoInv, [Next]_vars
  PROVE  TypeInv'
<1>1. CASE UNCHANGED vars
  BY <1>1, TypesBy DEF vars, TypeInv, passVars, tracerVars, runVars
<1> QED BY <1>1, VisitTypes, InsertTypes, CallbackTypes, ExecuteTypes, EndTypes DEF Next

-----------------------------------------------------------------------------
(* The walk over the code.                                                 *)

LEMMA Stretches ==
  ASSUME func \in Functions, NEW p \in Positions, NEW q \in Positions, NEW r \in Positions
  PROVE  /\ SameStretch(p, p)
         /\ SameStretch(p, r) /\ p[2] <= q[2] /\ q[2] <= r[2] /\ q[1] = p[1] =>
              SameStretch(p, q) /\ SameStretch(q, r)
         /\ SameStretch(p, q) /\ SameStretch(q, r) => SameStretch(p, r)
         /\ SameStretch(p, q) /\ p[2] < q[2] => ~Flushes(Code(p))
         /\ q = <<p[1], p[2] + 1>> => (SameStretch(p, q) <=> ~Flushes(Code(p)))
         /\ p[1] = q[1] /\ p[2] = q[2] => p = q
<1>1. /\ p[2] \in Nat /\ q[2] \in Nat /\ r[2] \in Nat
      /\ p = <<p[1], p[2]>> /\ q = <<q[1], q[2]>>
  BY PositionOf
<1>2. SameStretch(p, p)
  BY <1>1 DEF SameStretch
<1>3. ASSUME SameStretch(p, r), p[2] <= q[2], q[2] <= r[2], q[1] = p[1]
      PROVE  SameStretch(p, q) /\ SameStretch(q, r)
  BY <1>1, <1>3 DEF SameStretch
<1>4. ASSUME SameStretch(p, q), SameStretch(q, r) PROVE SameStretch(p, r)
  <2>1. ASSUME NEW i \in p[2]..r[2] - 1 PROVE ~Flushes(Code(<<p[1], i>>))
    <3>1. i \in p[2]..q[2] - 1 \/ i \in q[2]..r[2] - 1
      BY <1>1
    <3> QED BY <1>4, <3>1 DEF SameStretch
  <2> QED BY <1>1, <1>4, <2>1 DEF SameStretch
<1>5. ASSUME SameStretch(p, q), p[2] < q[2] PROVE ~Flushes(Code(p))
  <2>1. p[2] \in p[2]..q[2] - 1
    BY <1>1, <1>5
  <2>2. ~Flushes(Code(<<p[1], p[2]>>))
    BY <1>5, <2>1 DEF SameStretch
  <2> QED BY <1>1, <2>2, Zenon
<1>6. ASSUME q = <<p[1], p[2] + 1>>, ~Flushes(Code(p)) PROVE SameStretch(p, q)
  <2>1. q[1] = p[1] /\ q[2] = p[2] + 1
    BY <1>6
  <2>2. \A i \in p[2]..q[2] - 1 : i = p[2]
    BY <1>1, <2>1
  <2>3. ~Flushes(Code(<<p[1], p[2]>>))
    BY <1>1, <1>6, Zenon
  <2>4. \A i \in p[2]..q[2] - 1 : ~Flushes(Code(<<p[1], i>>))
    BY <2>2, <2>3, Zenon
  <2> QED BY <1>1, <2>1, <2>4 DEF SameStretch
<1>7. q = <<p[1], p[2] + 1>> => p[2] < q[2]
  BY <1>1
<1>8. p[1] = q[1] /\ p[2] = q[2] => p = q
  BY <1>1
<1> QED BY <1>2, <1>3, <1>4, <1>5, <1>6, <1>7, <1>8

\* The accesses collected are those since the last call, the one at hand included.
LEMMA CollectedHolds ==
  ASSUME TypeInv, ScanInv, Visit
  PROVE  /\ Collected \in Seq(Positions)
         /\ \A k \in DOMAIN Collected :
              /\ IsLoadOrStore(Code(Collected[k])) /\ Collected[k][2] <= at[2]
              /\ SameStretch(Collected[k], at)
         /\ \A j, k \in DOMAIN Collected : j < k => Collected[j][2] < Collected[k][2]
         /\ \A p \in Positions :
              IsLoadOrStore(Code(p)) /\ SameStretch(p, at) => \E k \in DOMAIN Collected : Collected[k] = p
<1>1. /\ func \in Functions /\ at \in Positions /\ LocalLoadsAndStores \in Seq(Positions) /\ LocalInv
      /\ Collected \in Seq(Positions)
  BY WalkChooses DEF TypeInv, ScanInv, Visit
<1>2. /\ at[2] \in Nat /\ SameStretch(at, at)
      /\ \A p \in Positions : p[2] \in Nat /\ (SameStretch(p, at) => p[2] <= at[2] /\ p[1] = at[1])
      /\ \A p \in Positions : p[1] = at[1] /\ p[2] = at[2] => p = at
  BY <1>1, PositionOf, Stretches DEF SameStretch
<1>3. CASE ~IsLoadOrStore(Code(at))
  <2>1. Collected = LocalLoadsAndStores
    BY <1>3 DEF Collected
  <2>2. ASSUME NEW p \in Positions, IsLoadOrStore(Code(p)), SameStretch(p, at)
        PROVE  \E k \in DOMAIN Collected : Collected[k] = p
    <3>1. p[2] < at[2]
      BY <1>2, <1>3, <2>2
    <3> QED BY <1>1, <2>1, <2>2, <3>1 DEF LocalInv
  <2>3. /\ \A k \in DOMAIN LocalLoadsAndStores :
              /\ LocalLoadsAndStores[k] \in Positions
              /\ IsLoadOrStore(Code(LocalLoadsAndStores[k])) /\ LocalLoadsAndStores[k][2] < at[2]
              /\ SameStretch(LocalLoadsAndStores[k], at)
        /\ \A j, k \in DOMAIN LocalLoadsAndStores :
             j < k => LocalLoadsAndStores[j][2] < LocalLoadsAndStores[k][2]
    BY <1>1 DEF LocalInv
  <2>4. \A k \in DOMAIN LocalLoadsAndStores : LocalLoadsAndStores[k][2] <= at[2]
    BY <1>2, <2>3
  <2> QED BY <1>1, <2>1, <2>2, <2>3, <2>4
<1>4. CASE IsLoadOrStore(Code(at))
  <2>1. Collected = Append(LocalLoadsAndStores, at)
    BY <1>4 DEF Collected
  <2> DEFINE n == Len(LocalLoadsAndStores)
  <2>2. /\ n \in Nat /\ DOMAIN LocalLoadsAndStores = 1..n /\ DOMAIN Collected = 1..n + 1
        /\ \A k \in 1..n : Collected[k] = LocalLoadsAndStores[k] /\ LocalLoadsAndStores[k] \in Positions
        /\ Collected[n + 1] = at
    <3>1. /\ n \in Nat /\ DOMAIN LocalLoadsAndStores = 1..n
          /\ \A k \in 1..n : LocalLoadsAndStores[k] \in Positions
      BY <1>1
    <3>2. /\ Len(Append(LocalLoadsAndStores, at)) = n + 1
          /\ \A k \in 1..n : Append(LocalLoadsAndStores, at)[k] = LocalLoadsAndStores[k]
          /\ Append(LocalLoadsAndStores, at)[n + 1] = at
      BY <1>1, AppendProperties
    <3>3. DOMAIN Collected = 1..Len(Collected)
      BY <1>1
    <3> QED BY <2>1, <3>1, <3>2, <3>3, Zenon
  <2> HIDE DEF n
  <2>3. \A k \in 1..n + 1 : k \in 1..n \/ k = n + 1
    BY <2>2
  <2>4. /\ \A k \in 1..n :
              /\ IsLoadOrStore(Code(Collected[k])) /\ Collected[k][2] < at[2]
              /\ SameStretch(Collected[k], at)
        /\ \A j, k \in 1..n : j < k => Collected[j][2] < Collected[k][2]
    BY <1>1, <2>2 DEF LocalInv
  <2>5. \A k \in 1..n + 1 : /\ IsLoadOrStore(Code(Collected[k])) /\ Collected[k][2] <= at[2]
                            /\ SameStretch(Collected[k], at)
    <3>1. \A k \in 1..n : Collected[k][2] <= at[2]
      BY <1>2, <2>2, <2>4
    <3>2. at[2] <= at[2]
      BY <1>2
    <3> QED BY <1>2, <1>4, <2>2, <2>3, <2>4, <3>1, <3>2, Zenon
  <2>6. ASSUME NEW j \in 1..n + 1, NEW k \in 1..n + 1, j < k PROVE Collected[j][2] < Collected[k][2]
    <3>1. j \in 1..n
      BY <2>2, <2>6
    <3> QED BY <2>2, <2>3, <2>4, <2>6, <3>1
  <2>7. ASSUME NEW p \in Positions, IsLoadOrStore(Code(p)), SameStretch(p, at)
        PROVE  \E k \in 1..n + 1 : Collected[k] = p
    <3>1. CASE p = at
      <4>1. n + 1 \in 1..n + 1
        BY <2>2
      <4> QED BY <2>2, <3>1, <4>1
    <3>2. CASE p # at
      <4>1. p[2] < at[2]
        BY <1>2, <2>7, <3>2
      <4>2. PICK k \in 1..n : LocalLoadsAndStores[k] = p
        BY <1>1, <2>2, <2>7, <4>1 DEF LocalInv
      <4>3. k \in 1..n + 1
        BY <2>2
      <4> QED BY <2>2, <4>2, <4>3
    <3> QED BY <3>1, <3>2
  <2> QED BY <1>1, <2>2, <2>5, <2>6, <2>7
<1> QED BY <1>3, <1>4

\* When it chooses, it chooses by what follows up to the next call.
LEMMA ChosenHere ==
  ASSUME TypeInv, ScanInv, Visit, ChoosesNow, NEW p \in Positions
  PROVE  (\E k \in DOMAIN Collected : p = Collected[k] /\ k \in chooseInstructionsToInstrument(Collected))
         <=> Chosen(p) /\ SameStretch(p, at)
<1>1. /\ func \in Functions /\ at \in Positions /\ Collected \in Seq(Positions)
      /\ at[2] \in Nat /\ p[2] \in Nat
  BY CollectedHolds, PositionOf DEF TypeInv
<1>2. \A k : k \in chooseInstructionsToInstrument(Collected) <=>
        /\ k \in DOMAIN Collected
        /\ Code(Collected[k]).op = "load" =>
             /\ \A j \in DOMAIN Collected :
                  j > k /\ Code(Collected[j]).op = "store" => Code(Collected[j]).ptr # Code(Collected[k]).ptr
             /\ Code(Collected[k]).ptr \notin ConstantData
        /\ ~NotCaptured(Code(Collected[k]).ptr)
  BY DEF chooseInstructionsToInstrument, addrPointsToConstantData
<1>3. ASSUME NEW k \in DOMAIN Collected, p = Collected[k]
      PROVE  /\ IsLoadOrStore(Code(p)) /\ SameStretch(p, at)
             /\ Overwritten(p) <=> \E j \in DOMAIN Collected :
                  j > k /\ Code(Collected[j]).op = "store" /\ Code(Collected[j]).ptr = Code(p).ptr
  <2>1. IsLoadOrStore(Code(p)) /\ SameStretch(p, at) /\ p[1] = at[1] /\ p[2] <= at[2]
    BY <1>3, CollectedHolds DEF SameStretch
  <2>2. ASSUME NEW q \in Positions, p[2] < q[2], SameStretch(p, q), Code(q).op = "store",
               Code(q).ptr = Code(p).ptr
        PROVE  \E j \in DOMAIN Collected :
                 j > k /\ Code(Collected[j]).op = "store" /\ Code(Collected[j]).ptr = Code(p).ptr
    <3>1. q[2] \in Nat /\ q[1] = p[1] /\ q[2] <= Len(func.body[q[1]]) /\ Len(func.body[q[1]]) \in Nat
      BY <1>1, <2>2, PositionOf, SMTT(30) DEF SameStretch
    <3>2. q[2] <= at[2]
      <4>1. CASE EndOfBlock(at)
        BY <1>1, <2>1, <3>1, <4>1 DEF EndOfBlock
      <4>2. CASE Flushes(Code(at)) /\ at[2] < q[2]
        <5>1. SameStretch(at, q)
          BY <1>1, <2>1, <2>2, <3>1, <4>2, Stretches
        <5> QED BY <1>1, <4>2, <5>1, Stretches
      <4> QED BY <1>1, <3>1, <4>1, <4>2 DEF ChoosesNow
    <3>3. SameStretch(q, at)
      BY <1>1, <2>1, <2>2, <3>1, <3>2, Stretches
    <3>4. PICK j \in DOMAIN Collected : Collected[j] = q
      BY <2>2, <3>3, CollectedHolds DEF IsLoadOrStore
    <3>5. j > k
      <4>1. DOMAIN Collected \subseteq Nat
        BY <1>1
      <4>2. CASE j < k
        <5>1. q[2] < p[2]
          BY <1>3, <3>4, <4>2, CollectedHolds
        <5> QED BY <1>1, <2>2, <3>1, <5>1
      <4>3. CASE j = k
        BY <1>1, <1>3, <2>2, <3>4, <4>3
      <4> QED BY <4>1, <4>2, <4>3
    <3> QED BY <2>2, <3>4, <3>5
  <2>3. ASSUME NEW j \in DOMAIN Collected, j > k, Code(Collected[j]).op = "store",
               Code(Collected[j]).ptr = Code(p).ptr
        PROVE  Overwritten(p)
    <3>1. Collected[j] \in Positions /\ Collected[j][2] <= at[2] /\ SameStretch(Collected[j], at)
      BY <1>1, CollectedHolds
    <3>2. p[2] < Collected[j][2]
      <4>1. DOMAIN Collected \subseteq Nat
        BY <1>1
      <4> QED BY <1>3, <2>3, <4>1, CollectedHolds
    <3>3. Collected[j][2] \in Nat /\ Collected[j][1] = p[1]
      BY <1>1, <2>1, <3>1, PositionOf DEF SameStretch
    <3>4. SameStretch(p, Collected[j])
      BY <1>1, <2>1, <3>1, <3>2, <3>3, Stretches
    <3> QED BY <2>3, <3>1, <3>2, <3>4 DEF Overwritten
  <2> QED BY <2>1, <2>2, <2>3 DEF Overwritten
<1>4. Chosen(p) /\ SameStretch(p, at) => \E k \in DOMAIN Collected : p = Collected[k]
  BY CollectedHolds DEF Chosen
<1>5. \A k \in DOMAIN Collected : p = Collected[k] =>
        (k \in chooseInstructionsToInstrument(Collected) <=> Chosen(p))
  <2> SUFFICES ASSUME NEW k \in DOMAIN Collected, p = Collected[k]
               PROVE  k \in chooseInstructionsToInstrument(Collected) <=> Chosen(p)
    OBVIOUS
  <2>1. k \in chooseInstructionsToInstrument(Collected) <=>
          /\ Code(p).op = "load" =>
               /\ \A j \in DOMAIN Collected :
                    j > k /\ Code(Collected[j]).op = "store" => Code(Collected[j]).ptr # Code(p).ptr
               /\ Code(p).ptr \notin ConstantData
          /\ ~NotCaptured(Code(p).ptr)
    BY <1>2, Zenon
  <2>2. /\ IsLoadOrStore(Code(p))
        /\ Overwritten(p) <=> \E j \in DOMAIN Collected :
             j > k /\ Code(Collected[j]).op = "store" /\ Code(Collected[j]).ptr = Code(p).ptr
    BY <1>3
  <2> QED BY <2>1, <2>2, Zenon DEF Chosen
<1>6. \A k \in DOMAIN Collected : p = Collected[k] => SameStretch(p, at)
  BY <1>3
<1> QED BY <1>4, <1>5, <1>6

LEMMA LocalBy ==
  ASSUME func' = func, NEW a, NEW c, at' = a, LocalLoadsAndStores' = c,
         \A k \in DOMAIN c : IsLoadOrStore(Code(c[k])) /\ c[k][2] < a[2] /\ SameStretch(c[k], a),
         \A j, k \in DOMAIN c : j < k => c[j][2] < c[k][2],
         \A p \in Positions : IsLoadOrStore(Code(p)) /\ p[2] < a[2] /\ SameStretch(p, a) =>
           \E k \in DOMAIN c : c[k] = p
  PROVE  LocalInv'
<1>1. Positions' = Positions
  BY SameCode
<1> QED BY <1>1 DEF LocalInv, SameStretch, Code

LEMMA ChosenBy ==
  ASSUME func' = func, NEW a, at' = a,
         \A p \in Positions :
           p \in AllLoadsAndStores' <=>
             Treated /\ Chosen(p) /\ (phase' = "scan" => Before(p, a) /\ ~SameStretch(p, a))
  PROVE  ChosenInv'
<1>1. Positions' = Positions /\ Treated' = Treated /\ \A p : Chosen(p)' = Chosen(p)
  BY SameCode
<1>2. \A p : SameStretch(p, at)' = SameStretch(p, a) /\ Before(p, at)' = Before(p, a)
  BY DEF SameStretch, Code, Before
<1> QED BY <1>1, <1>2 DEF ChosenInv

LEMMA VisitScan ==
  ASSUME TypeInv, ScanInv, Visit
  PROVE  ScanInv'
<1>1. /\ func \in Functions /\ at \in Positions /\ phase = "scan" /\ func' = func
      /\ at' \in Positions /\ Treated /\ Treated' = Treated /\ ChosenInv
  BY WalkGoesOn, SameCode DEF TypeInv, ScanInv, fixedVars
<1>2. PICK a \in Positions : a = at'
  BY <1>1
<1>3. /\ at[1] \in Nat /\ at[2] \in Nat /\ a[1] \in Nat /\ a[2] \in Nat
      /\ at[2] <= Len(func.body[at[1]]) /\ Len(func.body[at[1]]) \in Nat
      /\ \A p \in Positions : /\ p[1] \in Nat /\ p[2] \in Nat /\ p[2] >= 1 /\ p[1] <= Len(func.body)
                              /\ p[2] <= Len(func.body[p[1]])
      /\ Len(func.body) \in Nat
  BY <1>1, PositionOf, Bodies, SMTT(30)
<1>4. \/ at[2] # Len(func.body[at[1]]) /\ a = <<at[1], at[2] + 1>> /\ phase' = "scan"
      \/ at[2] = Len(func.body[at[1]]) /\ at[1] # Len(func.body) /\ a = <<at[1] + 1, 1>> /\ phase' = "scan"
      \/ at[2] = Len(func.body[at[1]]) /\ at[1] = Len(func.body) /\ a = Entry /\ phase' = "insert"
  BY <1>2, WalkGoesOn
<1>5. \A p \in Positions : p[1] = at[1] /\ p[2] = at[2] => p = at
  BY <1>1, Stretches
<1>6. \A p \in Positions : p \in AllLoadsAndStores <=>
        Chosen(p) /\ Before(p, at) /\ ~SameStretch(p, at)
  BY <1>1 DEF ChosenInv
<1>7. CASE ChoosesLater
  <2>1. /\ at[2] # Len(func.body[at[1]]) /\ a = <<at[1], at[2] + 1>> /\ phase' = "scan"
        /\ ~Flushes(Code(at)) /\ a[1] = at[1] /\ a[2] = at[2] + 1
    BY <1>4, <1>7 DEF ChoosesLater, EndOfBlock
  <2>2. SameStretch(at, a)
    BY <1>1, <1>2, <2>1, Stretches
  <2>3. \A p \in Positions : p[2] < a[2] => (SameStretch(p, a) <=> SameStretch(p, at))
    <3> SUFFICES ASSUME NEW p \in Positions, p[2] < a[2]
                 PROVE  SameStretch(p, a) <=> SameStretch(p, at)
      OBVIOUS
    <3>1. p[2] <= at[2]
      BY <1>3, <2>1
    <3>2. SameStretch(p, a) => SameStretch(p, at)
      <4>1. SameStretch(p, a) => p[1] = at[1]
        BY <2>1 DEF SameStretch
      <4>2. at[2] <= a[2]
        BY <1>3, <2>1
      <4> QED BY <1>1, <1>2, <3>1, <4>1, <4>2, Stretches
    <3>3. SameStretch(p, at) => SameStretch(p, a)
      BY <1>1, <1>2, <2>2, Stretches
    <3> QED BY <3>2, <3>3
  <2>4. LocalInv'
    <3>1. PICK c : c = Collected
      OBVIOUS
    <3>2. /\ c \in Seq(Positions)
          /\ \A k \in DOMAIN c : IsLoadOrStore(Code(c[k])) /\ c[k][2] <= at[2] /\ SameStretch(c[k], at)
          /\ \A j, k \in DOMAIN c : j < k => c[j][2] < c[k][2]
          /\ \A p \in Positions : IsLoadOrStore(Code(p)) /\ SameStretch(p, at) => \E k \in DOMAIN c : c[k] = p
      BY <3>1, CollectedHolds
    <3>3. \A k \in DOMAIN c : c[k] \in Positions
      BY <3>2
    <3>4. \A k \in DOMAIN c : c[k][2] < a[2]
      BY <1>3, <2>1, <3>2, <3>3
    <3>5. \A k \in DOMAIN c : SameStretch(c[k], a)
      BY <2>3, <3>2, <3>3, <3>4
    <3>6. \A p \in Positions : IsLoadOrStore(Code(p)) /\ p[2] < a[2] /\ SameStretch(p, a) =>
            \E k \in DOMAIN c : c[k] = p
      BY <2>3, <3>2
    <3>7. LocalLoadsAndStores' = c
      BY <1>7, <3>1 DEF ChoosesLater
    <3> QED BY <1>1, <1>2, <3>2, <3>4, <3>5, <3>6, <3>7, LocalBy
  <2>5. \A p \in Positions : Before(p, a) /\ ~SameStretch(p, a) <=> Before(p, at) /\ ~SameStretch(p, at)
    <3> SUFFICES ASSUME NEW p \in Positions
                 PROVE  Before(p, a) /\ ~SameStretch(p, a) <=> Before(p, at) /\ ~SameStretch(p, at)
      OBVIOUS
    <3>1. CASE p[1] # at[1]
      BY <2>1, <3>1 DEF Before, SameStretch
    <3>2. CASE p[1] = at[1] /\ p[2] < at[2]
      <4>1. Before(p, a) /\ Before(p, at) /\ p[2] < a[2]
        BY <1>3, <2>1, <3>2 DEF Before
      <4> QED BY <2>3, <4>1
    <3>3. CASE p[1] = at[1] /\ p[2] = at[2]
      <4>1. SameStretch(p, a) /\ ~Before(p, at)
        BY <1>3, <1>5, <2>2, <3>3 DEF Before
      <4> QED BY <4>1
    <3>4. CASE p[1] = at[1] /\ p[2] > at[2]
      <4>1. ~Before(p, a) /\ ~Before(p, at)
        BY <1>3, <2>1, <3>4 DEF Before
      <4> QED BY <4>1
    <3> QED BY <1>3, <3>1, <3>2, <3>3, <3>4
  <2>6. AllLoadsAndStores' = AllLoadsAndStores
    BY <1>7 DEF ChoosesLater
  <2>7. ChosenInv'
    BY <1>1, <1>2, <1>6, <2>1, <2>5, <2>6, ChosenBy
  <2> QED BY <1>1, <2>1, <2>4, <2>7 DEF ScanInv
<1>8. CASE ChoosesNow
  <2>1. LocalLoadsAndStores' = <<>>
    BY <1>8 DEF ChoosesNow
  <2>2. \A p \in Positions : p \in AllLoadsAndStores' <=> p \in AllLoadsAndStores \/ (Chosen(p) /\ SameStretch(p, at))
    BY <1>8, ChosenHere DEF ChoosesNow
  <2>3. \A p \in Positions : phase' = "scan" => (SameStretch(p, a) => ~Before(p, a))
    <3> SUFFICES ASSUME NEW p \in Positions, phase' = "scan", SameStretch(p, a), Before(p, a)
                 PROVE  FALSE
      OBVIOUS
    <3>1. p[1] = a[1] /\ p[2] < a[2]
      BY <1>3, <3>1 DEF SameStretch, Before
    <3>2. CASE at[2] # Len(func.body[at[1]]) /\ a = <<at[1], at[2] + 1>>
      <4>1. Flushes(Code(at)) /\ a[1] = at[1] /\ a[2] = at[2] + 1
        BY <1>8, <3>2 DEF ChoosesNow, EndOfBlock
      <4>2. p[2] <= at[2] /\ at[2] <= a[2] /\ p[1] = at[1]
        BY <1>3, <3>1, <4>1
      <4>3. SameStretch(at, a)
        BY <1>1, <4>2, Stretches
      <4>4. at[2] < a[2]
        BY <1>3, <4>1
      <4> QED BY <1>1, <4>1, <4>3, <4>4, Stretches
    <3>3. CASE a = <<at[1] + 1, 1>>
      BY <1>3, <3>1, <3>3
    <3> QED BY <1>4, <3>2, <3>3
  <2>4. \A p \in Positions : phase' = "scan" => (Before(p, a) <=> Before(p, at) \/ p = at)
    <3> SUFFICES ASSUME NEW p \in Positions, phase' = "scan"
                 PROVE  Before(p, a) <=> Before(p, at) \/ p = at
      OBVIOUS
    <3>1. CASE at[2] # Len(func.body[at[1]]) /\ a = <<at[1], at[2] + 1>>
      <4>1. a[1] = at[1] /\ a[2] = at[2] + 1
        BY <3>1
      <4> QED BY <1>3, <1>5, <4>1 DEF Before
    <3>2. CASE at[2] = Len(func.body[at[1]]) /\ a = <<at[1] + 1, 1>>
      <4>1. a[1] = at[1] + 1 /\ a[2] = 1
        BY <3>2
      <4>2. p[1] = at[1] => p[2] <= at[2]
        BY <1>3, <3>2
      <4>3. p[2] >= 1 /\ p[2] \in Nat /\ p[1] \in Nat
        BY <1>3
      <4> QED BY <1>3, <1>5, <4>1, <4>2, <4>3 DEF Before
    <3> QED BY <1>4, <3>1, <3>2
  <2>5. \A p \in Positions : phase' # "scan" => Before(p, at) \/ p = at
    <3> SUFFICES ASSUME NEW p \in Positions, phase' # "scan" PROVE Before(p, at) \/ p = at
      OBVIOUS
    <3>1. at[2] = Len(func.body[at[1]]) /\ at[1] = Len(func.body)
      BY <1>4
    <3>2. p[1] <= at[1] /\ (p[1] = at[1] => p[2] <= at[2])
      BY <1>3, <3>1
    <3> QED BY <1>3, <1>5, <3>2 DEF Before
  <2>6. SameStretch(at, at)
    BY <1>1, Stretches
  <2>7. \A p \in Positions : SameStretch(p, at) => Before(p, at) \/ p = at
    BY <1>3, <1>5 DEF SameStretch, Before
  <2>8. \A p \in Positions :
          p \in AllLoadsAndStores' <=>
            Treated /\ Chosen(p) /\ (phase' = "scan" => Before(p, a) /\ ~SameStretch(p, a))
    <3> SUFFICES ASSUME NEW p \in Positions
                 PROVE  p \in AllLoadsAndStores' <=>
                          Treated /\ Chosen(p) /\ (phase' = "scan" => Before(p, a) /\ ~SameStretch(p, a))
      OBVIOUS
    <3>1. p \in AllLoadsAndStores' <=> Chosen(p) /\ (Before(p, at) \/ p = at)
      BY <1>6, <2>2, <2>6, <2>7
    <3>2. phase' = "scan" => (Before(p, a) /\ ~SameStretch(p, a) <=> Before(p, at) \/ p = at)
      BY <2>3, <2>4
    <3> QED BY <1>1, <2>5, <3>1, <3>2
  <2>9. ChosenInv'
    BY <1>1, <1>2, <2>8, ChosenBy
  <2>10. phase' = "scan" => LocalInv'
    <3> SUFFICES ASSUME phase' = "scan" PROVE LocalInv'
      OBVIOUS
    <3>1. \A p \in Positions : ~(p[2] < a[2] /\ SameStretch(p, a))
      <4> SUFFICES ASSUME NEW p \in Positions, p[2] < a[2], SameStretch(p, a) PROVE FALSE
        OBVIOUS
      <4>1. Before(p, a)
        BY DEF SameStretch, Before
      <4> QED BY <2>3, <4>1
    <3>2. PICK c : c = <<>>
      OBVIOUS
    <3>3. DOMAIN c = {} /\ LocalLoadsAndStores' = c
      BY <2>1, <3>2
    <3> QED BY <1>1, <1>2, <3>1, <3>3, LocalBy
  <2> QED BY <1>1, <1>4, <2>1, <2>9, <2>10 DEF ScanInv
<1> QED BY <1>7, <1>8, WalkChooses

LEMMA ScanKept ==
  ASSUME TypeInv, ScanInv, TodoInv, [Next]_vars
  PROVE  ScanInv'
<1>1. ASSUME UNCHANGED <<func, LocalLoadsAndStores, AllLoadsAndStores>>, phase # "scan", phase' # "scan"
      PROVE  ScanInv'
  <2>1. PICK a : a = at'
    OBVIOUS
  <2>2. ChosenInv'
    BY <1>1, <2>1, ChosenBy DEF ScanInv, ChosenInv
  <2> QED BY <1>1, <2>2 DEF ScanInv
<1>2. CASE UNCHANGED vars
  <2>1. /\ func' = func /\ at' = at /\ phase' = phase
        /\ LocalLoadsAndStores' = LocalLoadsAndStores /\ AllLoadsAndStores' = AllLoadsAndStores
    BY <1>2 DEF vars, fixedVars, passVars
  <2>2. PICK a, c : a = at /\ c = LocalLoadsAndStores
    OBVIOUS
  <2>3. ChosenInv'
    BY <2>1, <2>2, ChosenBy DEF ScanInv, ChosenInv
  <2>4. LocalInv => LocalInv'
    BY <2>1, <2>2, LocalBy DEF LocalInv
  <2>5. Treated' = Treated
    BY <2>1, SameCode
  <2> QED BY <2>1, <2>3, <2>4, <2>5 DEF ScanInv
<1>3. CASE Insert
  BY <1>1, <1>3 DEF Insert, fixedVars
<1>4. CASE Callback
  BY <1>1, <1>4 DEF Callback, fixedVars, passVars
<1>5. CASE Execute
  <2>1. phase = "run" /\ phase' \in {"run", "left"} /\ UNCHANGED <<fixedVars, passVars>>
    BY <1>5, ExecuteMade DEF GoesOn, LeavesBy
  <2> QED BY <1>1, <2>1 DEF fixedVars, passVars
<1>6. CASE RunEnds
  BY <1>1, <1>6 DEF RunEnds, fixedVars, passVars
<1> QED BY <1>2, <1>3, <1>4, <1>5, <1>6, VisitScan DEF Next

-----------------------------------------------------------------------------
(* How far the callbacks have come.                                        *)

LEMMA SameCalls ==
  ASSUME func' = func, AllLoadsAndStores' = AllLoadsAndStores
  PROVE  /\ \A p : Callbacks(p)' = Callbacks(p) /\ Rest(p)' = Rest(p)
         /\ \A a : at' = a =>
              /\ Callbacks(at)' = Callbacks(a) /\ Rest(at)' = Rest(a) /\ Begins(at)' = Begins(a)
              /\ Tracked(at)' = Tracked(a) /\ Tells(at)' = Tells(a) /\ Finishes(at)' = Finishes(a)
              /\ Code(at)' = Code(a)
<1>1. \A p : Code(p)' = Code(p) /\ Begins(p)' = Begins(p) /\ Receives(p)' = Receives(p)
             /\ Sends(p)' = Sends(p) /\ Finishes(p)' = Finishes(p)
  BY SameCode
<1>2. \A p : Tracked(p)' = Tracked(p)
  BY <1>1, SameCode DEF Tracked
<1>3. \A p : Session0(p)' = Session0(p)
  BY DEF Session0, isPassTokenFunc
<1>4. isRuntimeInitializer' = isRuntimeInitializer /\ isRuntimeTerminator' = isRuntimeTerminator
  BY DEF isRuntimeInitializer, isRuntimeTerminator
<1>5. \A n, p : Call(n, p)' = Call(n, p)
  BY <1>1 DEF Call
<1>6. \A p : Rest(p)' = Rest(p)
  BY <1>1, <1>2, <1>3, <1>4, <1>5 DEF Rest
<1>7. \A p : Callbacks(p)' = Callbacks(p)
  BY <1>1, <1>5, <1>6 DEF Callbacks
<1>8. ASSUME NEW a, at' = a
      PROVE  /\ Callbacks(at)' = Callbacks(a) /\ Rest(at)' = Rest(a) /\ Begins(at)' = Begins(a)
             /\ Tracked(at)' = Tracked(a) /\ Tells(at)' = Tells(a) /\ Finishes(at)' = Finishes(a)
             /\ Code(at)' = Code(a)
  <2>1. Code(at)' = Code(a)
    BY <1>8 DEF Code
  <2>2. /\ Begins(at)' = Begins(a) /\ Receives(at)' = Receives(a)
        /\ Sends(at)' = Sends(a) /\ Finishes(at)' = Finishes(a)
    BY <1>8, <2>1, SameCode DEF Begins, Receives, Sends, Finishes
  <2>3. Tracked(at)' = Tracked(a) /\ Tells(at)' = Tells(a)
    BY <1>8, <2>1, <2>2, SameCode DEF Tracked, Tells
  <2>4. Session0(at)' = Session0(a)
    BY <1>8 DEF Session0, isPassTokenFunc
  <2>5. \A n : Call(n, at)' = Call(n, a)
    BY <1>8, <2>1 DEF Call
  <2>6. Rest(at)' = Rest(a)
    BY <1>4, <2>1, <2>2, <2>3, <2>4, <2>5 DEF Rest
  <2>7. Callbacks(at)' = Callbacks(a)
    BY <2>2, <2>5, <2>6 DEF Callbacks
  <2> QED BY <2>1, <2>2, <2>3, <2>6, <2>7
<1> QED BY <1>6, <1>7, <1>8

\* Nothing is told before an instruction but by its callback.
Quiet == Told => ~Tracked(at) /\ ~Tells(at) /\ ~Finishes(at)

LEMMA NothingToTell ==
  ASSUME TypeInv, ChosenInv, NEW p \in Positions, Rest(p) = <<>>
  PROVE  ~Tracked(p) /\ ~Tells(p) /\ ~Finishes(p)
BY RestForms, Alone DEF Tells

LEMMA Arrives ==
  ASSUME TypeInv, ChosenInv, func' = func, AllLoadsAndStores' = AllLoadsAndStores,
         NEW a \in Positions, at' = a, phase' = "run",
         todo' = Callbacks(a) \/ (Begins(a) /\ todo' = Rest(a))
  PROVE  /\ Starting' \/ todo' = Rest(at)'
         /\ Starting' <=> Begins(a) /\ todo' = Callbacks(a)
         /\ Quiet'
<1>1. /\ Callbacks(at)' = Callbacks(a) /\ Rest(at)' = Rest(a) /\ Begins(at)' = Begins(a)
      /\ Tracked(at)' = Tracked(a) /\ Tells(at)' = Tells(a) /\ Finishes(at)' = Finishes(a)
  BY SameCalls
<1>2. Starting' <=> Begins(a) /\ todo' = Callbacks(a)
  BY <1>1 DEF Starting
<1>3. ~Begins(a) => Callbacks(a) = Rest(a)
  BY DEF Callbacks
<1>4. Starting' \/ todo' = Rest(a)
  BY <1>2, <1>3
<1>5. Told' => Rest(a) = <<>>
  BY <1>4 DEF Told
<1>6. Quiet'
  BY <1>1, <1>5, NothingToTell DEF Quiet
<1> QED BY <1>1, <1>2, <1>4, <1>6

\* The callback of the instruction has run.
LEMMA Done ==
  ASSUME func' = func, AllLoadsAndStores' = AllLoadsAndStores, UNCHANGED at, phase' = "run", todo' = <<>>
  PROVE  Told' /\ ~Starting'
<1>1. PICK a : a = at
  OBVIOUS
<1>2. Callbacks(at)' = Callbacks(a) /\ Begins(at)' = Begins(a)
  BY <1>1, SameCalls
<1>3. Begins(a) => Callbacks(a) # <<>>
  BY StartFirst
<1> QED BY <1>2, <1>3 DEF Told, Starting

LEMMA TodoKept ==
  ASSUME TypeInv, ScanInv, TodoInv, [Next]_vars
  PROVE  TodoInv'
<1>1. at \in Positions /\ func \in Functions /\ ChosenInv
  BY DEF TypeInv, ScanInv
<1>2. CASE UNCHANGED vars
  <2>1. /\ func' = func /\ at' = at /\ phase' = phase /\ todo' = todo /\ inserted' = inserted
        /\ AllLoadsAndStores' = AllLoadsAndStores
    BY <1>2 DEF vars, fixedVars, passVars, runVars
  <2>2. PICK a : a = at
    OBVIOUS
  <2>3. /\ \A p : Callbacks(p)' = Callbacks(p)
        /\ Callbacks(at)' = Callbacks(a) /\ Rest(at)' = Rest(a) /\ Begins(at)' = Begins(a)
    BY <2>1, <2>2, SameCalls
  <2>4. Positions' = Positions
    BY <2>1, SameCode
  <2> QED BY <2>1, <2>2, <2>3, <2>4 DEF TodoInv, Starting, Entry
<1>3. CASE Visit
  <2>1. phase' \in {"scan", "insert"} /\ (phase' = "insert" => at' = Entry)
    BY <1>3, WalkGoesOn
  <2> QED BY <2>1 DEF TodoInv, Entry
<1>4. CASE Insert
  <2>1. /\ func' = func /\ AllLoadsAndStores' = AllLoadsAndStores /\ at' = at /\ at = Entry
        /\ phase' = "run" /\ todo' = inserted'[Entry]
        /\ inserted' = [p \in Positions |-> IF func.runtime THEN instrumentTokens(p)
                                            ELSE IF DontInstrument THEN <<>> ELSE runOnFunction(p)]
    BY <1>4 DEF Insert, fixedVars, TodoInv
  <2>2. \A p \in Positions : inserted'[p] = Callbacks(p)
    BY <1>1, <2>1, InsertedBefore
  <2>3. Entry \in Positions /\ Positions' = Positions
    BY <1>1, <2>1, EntryThere, SameCode
  <2>4. \A p : Callbacks(p)' = Callbacks(p)
    BY <2>1, SameCalls
  <2>5. todo' = Callbacks(Entry) /\ at' = Entry
    BY <2>1, <2>2, <2>3
  <2>6. Starting' \/ todo' = Rest(at)'
    BY <1>1, <2>1, <2>3, <2>5, Arrives DEF Entry
  <2> QED BY <2>1, <2>2, <2>3, <2>4, <2>6 DEF TodoInv
<1>5. CASE Callback
  <2>1. /\ phase = "run" /\ phase' = "run" /\ func' = func /\ inserted' = inserted /\ at' = at
        /\ AllLoadsAndStores' = AllLoadsAndStores
        /\ StartRuns \/ todo' = <<>>
    BY <1>1, <1>5, CallbackMade DEF fixedVars, passVars
  <2>2. Positions' = Positions /\ \A p : Callbacks(p)' = Callbacks(p)
    BY <2>1, SameCode, SameCalls
  <2>3. PICK a \in Positions : a = at
    BY <1>1
  <2>4. StartRuns => Starting' \/ todo' = Rest(at)'
    <3>1. StartRuns => Begins(a) /\ todo' = Rest(a)
      BY <2>3 DEF StartRuns, Starting
    <3> QED BY <1>1, <2>1, <2>3, <3>1, Arrives
  <2> QED BY <2>1, <2>2, <2>4 DEF TodoInv
<1>6. CASE Execute
  <2>1. /\ phase = "run" /\ func' = func /\ inserted' = inserted
        /\ AllLoadsAndStores' = AllLoadsAndStores
        /\ GoesOn \/ phase' = "left"
    BY <1>6, ExecuteMade DEF fixedVars, passVars, LeavesBy
  <2>2. Positions' = Positions /\ \A p : Callbacks(p)' = Callbacks(p)
    BY <2>1, SameCode, SameCalls
  <2>3. CASE GoesOn
    <3>1. PICK a \in Positions : a = at' /\ todo' = Callbacks(a) /\ phase' = "run"
      BY <2>3 DEF GoesOn
    <3>2. Starting' \/ todo' = Rest(at)'
      BY <1>1, <2>1, <3>1, Arrives
    <3> QED BY <2>1, <2>2, <3>1, <3>2 DEF TodoInv
  <2>4. CASE phase' = "left"
    BY <2>1, <2>2, <2>4 DEF TodoInv
  <2> QED BY <2>1, <2>3, <2>4
<1>7. CASE RunEnds
  <2>1. /\ phase = "left" /\ phase' = "over" /\ func' = func /\ inserted' = inserted
        /\ AllLoadsAndStores' = AllLoadsAndStores
    BY <1>7 DEF RunEnds, fixedVars, passVars
  <2>2. Positions' = Positions /\ \A p : Callbacks(p)' = Callbacks(p)
    BY <2>1, SameCode, SameCalls
  <2> QED BY <2>1, <2>2 DEF TodoInv
<1> QED BY <1>2, <1>3, <1>4, <1>5, <1>6, <1>7 DEF Next

-----------------------------------------------------------------------------
(* The task the tracer believes to be in.                                  *)

LEMMA TaskStays ==
  ASSUME TypeInv, TaskInv, UNCHANGED vars
  PROVE  TaskInv'
<1>1. /\ func' = func /\ inTask' = inTask /\ phase' = phase /\ at' = at /\ todo' = todo /\ left' = left
      /\ active' = active /\ flushed' = flushed /\ memoryLocations' = memoryLocations
      /\ AllLoadsAndStores' = AllLoadsAndStores
  BY DEF vars, fixedVars, passVars, tracerVars, runVars
<1>2. PICK a : a = at
  OBVIOUS
<1>3. /\ Callbacks(at)' = Callbacks(a) /\ Begins(at)' = Begins(a) /\ Finishes(at)' = Finishes(a)
      /\ TaskBody' = TaskBody
  BY <1>1, <1>2, SameCalls, SameCode
<1>4. Starting' = Starting /\ Told' = Told
  BY <1>1, <1>2, <1>3 DEF Starting, Told
<1>5. Finished' = Finished
  BY <1>1, <1>2, <1>3, <1>4 DEF Finished
<1> QED BY <1>1, <1>3, <1>4, <1>5 DEF TaskInv

LEMMA LeftOnce ==
  ASSUME TaskInv, phase \notin {"left", "over"}
  PROVE  left = NULL /\ left # "return" /\ (Finished <=> Told /\ Finishes(at))
BY NullAssumption DEF TaskInv, Finished

LEMMA VisitTask ==
  ASSUME TypeInv, TaskInv, Visit
  PROVE  TaskInv'
<1>1. /\ phase = "scan" /\ phase' \in {"scan", "insert"} /\ func' = func /\ inTask' = inTask /\ left' = left
      /\ active' = active /\ flushed' = flushed /\ memoryLocations' = memoryLocations
  BY WalkGoesOn DEF fixedVars, tracerVars, runVars
<1>2. left = NULL /\ left # "return" /\ ~Told /\ ~Told'
  BY <1>1, LeftOnce DEF Told
<1>3. TaskBody' = TaskBody /\ ~Finished /\ ~Finished'
  BY <1>1, <1>2, SameCode DEF Finished
<1> QED BY <1>1, <1>2, <1>3 DEF TaskInv

LEMMA InsertTask ==
  ASSUME TypeInv, ScanInv, TodoInv, TaskInv, Insert
  PROVE  TaskInv'
<1>1. /\ phase = "insert" /\ phase' = "run" /\ func' = func /\ inTask' = inTask /\ left' = left
      /\ active' = active /\ flushed' = flushed /\ memoryLocations' = memoryLocations
      /\ at' = at /\ at = Entry /\ AllLoadsAndStores' = AllLoadsAndStores
      /\ func \in Functions /\ ChosenInv /\ todo' = inserted'[Entry]
      /\ inserted' = [p \in Positions |-> IF func.runtime THEN instrumentTokens(p)
                                          ELSE IF DontInstrument THEN <<>> ELSE runOnFunction(p)]
  BY DEF Insert, fixedVars, tracerVars, TodoInv, TypeInv, ScanInv
<1>2. PICK a \in Positions : a = Entry
  BY <1>1, EntryThere
<1>3. todo' = Callbacks(a)
  BY <1>1, <1>2, InsertedBefore
<1>4. (Starting' <=> Begins(a)) /\ Quiet'
  BY <1>1, <1>2, <1>3, Arrives
<1>5. left # "return" /\ left = NULL /\ ~Finished
  BY <1>1, LeftOnce DEF Told
<1>6. ~Finished' /\ TaskBody' = TaskBody
  BY <1>1, <1>4, <1>5, SameCode DEF Finished, Quiet
<1>7. Starting' <=> TaskBody
  BY <1>2, <1>4 DEF Begins
<1> QED BY <1>1, <1>5, <1>6, <1>7 DEF TaskInv

LEMMA CallbackTask ==
  ASSUME TypeInv, ScanInv, TodoInv, TaskInv, Callback
  PROVE  TaskInv'
<1>1. /\ phase = "run" /\ phase' = "run" /\ func' = func /\ inTask' = inTask /\ left' = left /\ at' = at
      /\ AllLoadsAndStores' = AllLoadsAndStores /\ ChosenInv /\ at \in Positions
      /\ \/ StartRuns
         \/ /\ ~Starting /\ todo # <<>> /\ todo' = <<>>
            /\ AccessTold \/ TokenTold \/ EndTold \/ SessionTold
  BY CallbackMade DEF fixedVars, passVars, ScanInv, TypeInv
<1>2. PICK a \in Positions : a = at
  BY <1>1
<1>3. /\ Finishes(at)' = Finishes(a) /\ Tracked(at)' = Tracked(a) /\ Tells(at)' = Tells(a)
      /\ TaskBody' = TaskBody
  BY <1>1, <1>2, SameCalls, SameCode
<1>4. left = NULL /\ left # "return" /\ (Finished <=> Told /\ Finishes(a))
  BY <1>1, <1>2, LeftOnce
<1>5. Finished' <=> Told' /\ Finishes(a)
  BY <1>1, <1>3, <1>4 DEF Finished
<1>6. CASE StartRuns
  <2>1. Starting /\ Begins(a) /\ todo' = Rest(a) /\ active' = TRUE
        /\ UNCHANGED <<memoryLocations, flushed>>
    BY <1>2, <1>6 DEF StartRuns, Starting
  <2>2. Quiet'
    BY <1>1, <1>2, <2>1, Arrives
  <2>3. ~Finished /\ ~Finished' /\ TaskBody
    BY <1>3, <1>4, <1>5, <2>1, <2>2 DEF Quiet, Told, Begins
  <2> QED BY <1>1, <1>3, <1>4, <2>1, <2>3 DEF TaskInv
<1>7. CASE ~StartRuns
  <2>1. ~Starting /\ ~Told /\ Told' /\ ~Starting'
    BY <1>1, <1>7, Done DEF Told
  <2>2. ~Finished /\ (Finished' <=> Finishes(a)) /\ flushed = <<>> /\ (active <=> inTask)
    BY <1>1, <1>4, <1>5, <2>1 DEF TaskInv
  <2>3. CASE EndTold
    <3>1. Finishes(a) /\ active' = FALSE /\ flushed' = Append(flushed, memoryLocations)
          /\ memoryLocations' = memoryLocations
      BY <1>2, <2>3 DEF EndTold
    <3>2. flushed' = <<memoryLocations>>
      <4>1. Append(<<>>, memoryLocations) = <<memoryLocations>>
        OBVIOUS
      <4> QED BY <2>2, <3>1, <4>1, Zenon
    <3> QED BY <1>1, <1>3, <1>4, <2>1, <2>2, <3>1, <3>2 DEF TaskInv
  <2>4. CASE ~EndTold
    <3>1. UNCHANGED <<active, flushed>>
      BY <1>1, <1>7, <2>4 DEF AccessTold, TokenTold, SessionTold, tracerVars
    <3>2. ~Finishes(a)
      <4>1. Tracked(a) \/ Receives(a) \/ Sends(a) => ~Finishes(a)
        BY <1>1, RestForms
      <4> QED BY <1>1, <1>2, <1>7, <2>4, <4>1 DEF AccessTold, TokenTold, SessionTold
    <3> QED BY <1>1, <1>3, <1>4, <2>1, <2>2, <3>1, <3>2 DEF TaskInv
  <2> QED BY <2>3, <2>4
<1> QED BY <1>6, <1>7

LEMMA ExecuteTask ==
  ASSUME TypeInv, ScanInv, TodoInv, TaskInv, Execute
  PROVE  TaskInv'
<1>1. /\ phase = "run" /\ Told /\ func' = func /\ inTask' = inTask /\ active' = active /\ flushed' = flushed
      /\ AllLoadsAndStores' = AllLoadsAndStores /\ ChosenInv
      /\ \/ (AccessMade \/ CopyMade \/ CallMade) /\ GoesOn
         \/ CallMade /\ Code(at).op = "call" /\ LeavesBy("throw")
         \/ CallMade /\ Code(at).op = "indirect" /\ LeavesBy("indirect throw")
         \/ ReturnMade /\ LeavesBy("return")
  BY ExecuteMade DEF fixedVars, passVars, ScanInv
<1>2. left = NULL /\ left # "return" /\ (Finished <=> Finishes(at)) /\ TaskBody' = TaskBody
  BY <1>1, LeftOnce, SameCode
<1>3. (active <=> inTask /\ ~Finished) /\ flushed = IF Finished THEN <<memoryLocations>> ELSE <<>>
  BY <1>1 DEF TaskInv, Told
<1>4. Finishes(at) <=> TaskBody /\ Code(at).op = "return"
  BY DEF Finishes
<1>5. CASE GoesOn
  <2>1. PICK a \in Positions : a = at' /\ todo' = Callbacks(a) /\ phase' = "run" /\ left' = left
    BY <1>5 DEF GoesOn
  <2>2. Quiet'
    BY <1>1, <2>1, Arrives
  <2>3. ~Finished'
    BY <1>2, <2>1, <2>2 DEF Finished, Quiet
  <2>4. ~Finished
    <3>1. Code(at).op # "return"
      BY <1>1, <1>5, <2>1 DEF AccessMade, CopyMade, CallMade, LeavesBy
    <3> QED BY <1>2, <1>4, <3>1
  <2> QED BY <1>1, <1>2, <1>3, <2>1, <2>3, <2>4 DEF TaskInv
<1>6. CASE phase' = "left"
  <2>1. ~Told' /\ ~Starting'
    BY <1>6 DEF Told, Starting
  <2>2. Finished' <=> TaskBody /\ left' = "return"
    BY <1>2, <2>1 DEF Finished
  <2>3. CASE ReturnMade /\ LeavesBy("return")
    <3>1. Finished' <=> Finished
      BY <1>2, <1>4, <2>2, <2>3 DEF ReturnMade, LeavesBy
    <3>2. left' # NULL /\ memoryLocations' = memoryLocations
      BY <2>3, NullAssumption DEF ReturnMade, LeavesBy
    <3> QED BY <1>1, <1>2, <1>3, <1>6, <3>1, <3>2 DEF TaskInv
  <2>4. CASE CallMade
    <3>1. ~Finished /\ left' \in {"throw", "indirect throw"}
      BY <1>1, <1>2, <1>4, <1>6, <2>4 DEF CallMade, LeavesBy, GoesOn, ReturnMade
    <3>2. ~Finished' /\ left' # NULL
      BY <2>2, <3>1, NullAssumption
    <3> QED BY <1>1, <1>2, <1>3, <1>6, <3>1, <3>2 DEF TaskInv
  <2> QED BY <1>1, <1>6, <2>3, <2>4 DEF GoesOn
<1> QED BY <1>1, <1>5, <1>6 DEF LeavesBy

LEMMA EndTask ==
  ASSUME TypeInv, TaskInv, RunEnds
  PROVE  TaskInv'
<1>1. /\ phase = "left" /\ phase' = "over" /\ func' = func /\ inTask' = inTask /\ left' = left
      /\ memoryLocations' = memoryLocations
      /\ IF inTask /\ ~TaskBody
         THEN active' = FALSE /\ flushed' = Append(flushed, memoryLocations)
         ELSE UNCHANGED <<active, flushed>>
  BY DEF RunEnds, fixedVars, runVars
<1>2. TaskBody' = TaskBody /\ ~Told /\ ~Told' /\ ~Starting /\ ~Starting'
  BY <1>1, SameCode DEF Told, Starting
<1>3. (Finished <=> TaskBody /\ left = "return") /\ (Finished' <=> Finished)
  BY <1>1, <1>2 DEF Finished
<1>4. CASE inTask /\ ~TaskBody
  <2>1. Append(<<>>, memoryLocations) = <<memoryLocations>>
    OBVIOUS
  <2>2. flushed = <<>> /\ left # NULL /\ active' = FALSE /\ flushed' = Append(flushed, memoryLocations)
    BY <1>1, <1>3, <1>4 DEF TaskInv
  <2>3. flushed' = <<memoryLocations>>
    BY <2>1, <2>2, Zenon
  <2> QED BY <1>1, <1>2, <1>3, <1>4, <2>2, <2>3 DEF TaskInv
<1>5. CASE ~(inTask /\ ~TaskBody)
  BY <1>1, <1>2, <1>3, <1>5 DEF TaskInv
<1> QED BY <1>4, <1>5

LEMMA TaskKept ==
  ASSUME TypeInv, ScanInv, TodoInv, TaskInv, [Next]_vars
  PROVE  TaskInv'
BY TaskStays, VisitTask, InsertTask, CallbackTask, ExecuteTask, EndTask DEF Next

-----------------------------------------------------------------------------
(* The tokens that the tracer is told of.                                  *)

\* Which copies are told of: all of them.
LEMMA Telling ==
  ASSUME TypeInv
  PROVE  /\ Teller => (Tells(at) <=> IsTransfer(Code(at)))
         /\ Tells(at) => Teller /\ Code(at).op \in {"memcpy", "memmove"}
<1>1. at \in Positions /\ func \in Functions
  BY DEF TypeInv
<1>2. at[1] \in DOMAIN func.body /\ at[2] \in DOMAIN func.body[at[1]]
  BY <1>1, PositionOf, Bodies
<1>3. func.runtime /\ isPassTokenFunc => Code(at).op # "memmove"
  BY <1>1, <1>2, PassTokenAssumption DEF isPassTokenFunc, Code
<1>4. TaskBody => ~func.runtime
  BY DEF TaskBody
<1> QED BY <1>3, <1>4 DEF Teller, Tells, Receives, Sends, IsTransfer

LEMMA ReportSame ==
  ASSUME TypeInv, ReportInv, func' = func, UNCHANGED <<reported, copied>>,
         ~(Told /\ Tells(at)), ~(Told /\ Tells(at))'
  PROVE  ReportInv'
<1>1. TaskBody' = TaskBody /\ Teller' = Teller
  BY SameCode DEF Teller
<1>2. CASE ~Teller
  BY <1>1, <1>2 DEF ReportInv
<1>3. CASE Teller
  <2>1. /\ Len(reported) = Len(copied) + 0
        /\ \A k \in DOMAIN copied : reported[k] = Tale(copied[k][1], copied[k][2])
    BY <1>3 DEF ReportInv
  <2> QED BY <1>1, <1>3, <2>1 DEF ReportInv, Tale
<1> QED BY <1>2, <1>3

LEMMA CallbackReport ==
  ASSUME TypeInv, ScanInv, TodoInv, ReportInv, Callback
  PROVE  ReportInv'
<1>1. /\ phase = "run" /\ phase' = "run" /\ func' = func /\ env' = env /\ at' = at /\ copied' = copied
      /\ AllLoadsAndStores' = AllLoadsAndStores /\ ChosenInv /\ at \in Positions
      /\ \/ StartRuns
         \/ /\ ~Starting /\ todo # <<>> /\ todo' = <<>>
            /\ AccessTold \/ TokenTold \/ EndTold \/ SessionTold
  BY CallbackMade DEF fixedVars, passVars, ScanInv, TypeInv
<1>2. PICK a \in Positions : a = at
  BY <1>1
<1>3. Tells(at)' = Tells(a) /\ Code(at)' = Code(a) /\ TaskBody' = TaskBody /\ Teller' = Teller
  BY <1>1, <1>2, SameCalls, SameCode DEF Teller
<1>4. CASE StartRuns
  <2>1. Starting /\ Begins(a) /\ todo' = Rest(a) /\ UNCHANGED reported
    BY <1>2, <1>4 DEF StartRuns, Starting
  <2>2. Quiet'
    BY <1>1, <1>2, <2>1, Arrives
  <2> QED BY <1>1, <2>1, <2>2, ReportSame DEF Quiet, Told
<1>5. CASE ~StartRuns
  <2>1. ~Starting /\ ~Told /\ Told'
    BY <1>1, <1>5, Done DEF Told
  <2>2. CASE ~TokenTold
    <3>1. UNCHANGED reported
      BY <1>1, <1>5, <2>2 DEF AccessTold, EndTold, SessionTold, tracerVars
    <3>2. ~Tells(a)
      <4>1. Tracked(a) \/ Finishes(a) => ~Tells(a)
        BY <1>1, RestForms DEF Tells
      <4> QED BY <1>1, <1>2, <1>5, <2>2, <4>1 DEF AccessTold, EndTold, SessionTold
    <3> QED BY <1>1, <1>3, <2>1, <3>1, <3>2, ReportSame
  <2>3. CASE TokenTold
    <3>1. /\ Tells(a) /\ Teller
          /\ reported' = Append(reported, Tale(env[Code(a).dst], env[Code(a).ptr]))
      <4>1. CASE Receives(a)
        <5>1. TaskBody /\ ~Sends(a)
          BY <4>1 DEF Receives, Sends, TaskBody
        <5> QED BY <1>2, <2>3, <4>1, <5>1 DEF TokenTold, Tells, Teller, Tale
      <4>2. CASE Sends(a) /\ ~Receives(a)
        <5>1. ~TaskBody
          BY <4>2 DEF Sends, TaskBody
        <5> QED BY <1>2, <2>3, <4>2, <5>1 DEF TokenTold, Tells, Teller, Tale, Sends
      <4> QED BY <1>2, <2>3, <4>1, <4>2 DEF TokenTold
    <3>2. PICK t : t = Tale(env[Code(a).dst], env[Code(a).ptr])
      OBVIOUS
    <3>3. /\ Len(reported) = Len(copied) /\ Len(copied) \in Nat /\ DOMAIN copied = 1..Len(copied)
          /\ \A k \in DOMAIN copied : reported[k] = Tale(copied[k][1], copied[k][2])
          /\ reported \in Seq(Seq(Addrs) \union {t})
      <4>1. Len(copied) \in Nat /\ DOMAIN copied = 1..Len(copied) /\ reported \in Seq(Seq(Addrs))
        <5>1. copied \in Seq(Addrs \X Addrs) /\ reported \in Seq(Seq(Addrs))
          BY DEF TypeInv
        <5> QED BY <5>1, LenProperties
      <4>2. Len(reported) = Len(copied) + 0
            /\ \A k \in DOMAIN copied : reported[k] = Tale(copied[k][1], copied[k][2])
        BY <2>1, <3>1 DEF ReportInv
      <4> QED BY <4>1, <4>2
    <3>4. /\ Len(reported') = Len(copied) + 1
          /\ \A k \in 1..Len(copied) : reported'[k] = reported[k]
          /\ reported'[Len(copied) + 1] = t
      BY <3>1, <3>2, <3>3
    <3>5. \A d, s : Tale(d, s)' = Tale(d, s)
      BY <1>3 DEF Tale
    <3>6. \A k \in DOMAIN copied : reported'[k] = Tale(copied[k][1], copied[k][2])
      BY <3>3, <3>4
    <3>7. Tale(env[Code(at).dst], env[Code(at).ptr])' = t
      BY <1>1, <1>3, <3>2 DEF Tale
    <3>8. Tale(copied[1], copied[2])' = Tale(copied[1], copied[2])
      BY <1>1, <1>3 DEF Tale
    <3>9. \A k \in DOMAIN copied : reported'[k] = Tale(copied[k][1], copied[k][2])'
      BY <1>1, <1>3, <3>6 DEF Tale
    <3> QED BY <1>1, <1>3, <2>1, <3>1, <3>4, <3>7, <3>9, Zenon DEF ReportInv
  <2> QED BY <2>2, <2>3
<1> QED BY <1>4, <1>5

LEMMA CopyReport ==
  ASSUME TypeInv, ReportInv, Told, Tells(at), func' = func, reported' = reported,
         copied' = Append(copied, <<env[Code(at).dst], env[Code(at).ptr]>>), ~(Told /\ Tells(at))'
  PROVE  ReportInv'
<1>1. Teller /\ TaskBody' = TaskBody /\ Teller' = Teller /\ copied \in Seq(Addrs \X Addrs)
  BY Telling, SameCode DEF Teller, TypeInv
<1>2. PICK d, s : d = env[Code(at).dst] /\ s = env[Code(at).ptr]
  OBVIOUS
<1>3. PICK n \in Nat : n = Len(copied) /\ DOMAIN copied = 1..n
  BY <1>1
<1>4. /\ Len(reported) = n + 1
      /\ \A k \in 1..n : reported[k] = Tale(copied[k][1], copied[k][2])
      /\ reported[n + 1] = Tale(d, s)
  BY <1>1, <1>2, <1>3 DEF ReportInv
<1>5. /\ Len(copied') = n + 1 /\ DOMAIN copied' = 1..n + 1
      /\ \A k \in 1..n : copied'[k] = copied[k]
      /\ copied'[n + 1] = <<d, s>>
  <2>1. copied \in Seq((Addrs \X Addrs) \union {<<d, s>>})
    BY <1>1
  <2>2. copied' = Append(copied, <<d, s>>)
    BY <1>2
  <2> QED BY <1>3, <2>1, <2>2
<1>6. \A k \in 1..n + 1 : reported[k] = Tale(copied'[k][1], copied'[k][2])
  <2> SUFFICES ASSUME NEW k \in 1..n + 1 PROVE reported[k] = Tale(copied'[k][1], copied'[k][2])
    OBVIOUS
  <2>1. CASE k \in 1..n
    BY <1>4, <1>5, <2>1
  <2>2. CASE k = n + 1
    BY <1>4, <1>5, <2>2
  <2> QED BY <1>3, <2>1, <2>2
<1>7. Len(reported') = Len(copied') + 0
  BY <1>3, <1>4, <1>5
<1>8. \A k \in DOMAIN copied' : reported'[k] = Tale(copied[k][1], copied[k][2])'
  BY <1>1, <1>5, <1>6 DEF Tale
<1> QED BY <1>1, <1>7, <1>8, Zenon DEF ReportInv

LEMMA ExecuteReport ==
  ASSUME TypeInv, ScanInv, TodoInv, ReportInv, Execute
  PROVE  ReportInv'
<1>1. /\ phase = "run" /\ Told /\ func' = func /\ reported' = reported
      /\ AllLoadsAndStores' = AllLoadsAndStores /\ ChosenInv
      /\ AccessMade \/ CopyMade \/ CallMade \/ ReturnMade
      /\ GoesOn \/ phase' = "left"
  BY ExecuteMade DEF fixedVars, passVars, ScanInv, LeavesBy
<1>2. ~(Told /\ Tells(at))'
  <2>1. CASE GoesOn
    <3>1. PICK a \in Positions : a = at' /\ todo' = Callbacks(a) /\ phase' = "run"
      BY <2>1 DEF GoesOn
    <3>2. Quiet'
      BY <1>1, <3>1, Arrives
    <3> QED BY <3>2 DEF Quiet
  <2>2. CASE phase' = "left"
    BY <2>2 DEF Told
  <2> QED BY <1>1, <2>1, <2>2
<1>3. CASE Tells(at)
  <2>1. CopyMade /\ IsTransfer(Code(at))
    BY <1>1, <1>3, Telling DEF AccessMade, CallMade, ReturnMade, IsTransfer
  <2>2. copied' = Append(copied, <<env[Code(at).dst], env[Code(at).ptr]>>)
    BY <2>1 DEF CopyMade
  <2> QED BY <1>1, <1>2, <1>3, <2>2, CopyReport
<1>4. CASE ~Tells(at) /\ Teller
  <2>1. ~IsTransfer(Code(at))
    BY <1>4, Telling
  <2>2. copied' = copied
    BY <1>1, <2>1 DEF AccessMade, CopyMade, CallMade, ReturnMade
  <2> QED BY <1>1, <1>2, <1>4, <2>2, ReportSame
<1>5. CASE ~Teller
  <2>1. Teller' = Teller
    BY <1>1, SameCode DEF Teller
  <2> QED BY <1>1, <1>5, <2>1 DEF ReportInv
<1> QED BY <1>3, <1>4, <1>5

LEMMA ReportKept ==
  ASSUME TypeInv, ScanInv, TodoInv, ReportInv, [Next]_vars
  PROVE  ReportInv'
<1>1. CASE UNCHANGED vars
  <2>1. /\ func' = func /\ env' = env /\ phase' = phase /\ at' = at /\ todo' = todo
        /\ reported' = reported /\ copied' = copied /\ AllLoadsAndStores' = AllLoadsAndStores
    BY <1>1 DEF vars, fixedVars, passVars, tracerVars, runVars
  <2>2. PICK a : a = at
    OBVIOUS
  <2>3. /\ Callbacks(at)' = Callbacks(a) /\ Begins(at)' = Begins(a) /\ Tells(at)' = Tells(a)
        /\ Code(at)' = Code(a) /\ TaskBody' = TaskBody /\ Teller' = Teller
    BY <2>1, <2>2, SameCalls, SameCode DEF Teller
  <2>4. Told' = Told
    BY <2>1, <2>2, <2>3 DEF Starting, Told
  <2> QED BY <2>1, <2>2, <2>3, <2>4 DEF ReportInv, Tale
<1>2. CASE Visit
  <2>1. /\ phase = "scan" /\ phase' \in {"scan", "insert"} /\ func' = func
        /\ reported' = reported /\ copied' = copied
    BY <1>2, WalkGoesOn DEF fixedVars, tracerVars, runVars
  <2> QED BY <2>1, ReportSame DEF Told
<1>3. CASE Insert
  <2>1. /\ phase = "insert" /\ phase' = "run" /\ func' = func /\ reported' = reported /\ copied' = copied
        /\ at' = at /\ at = Entry /\ AllLoadsAndStores' = AllLoadsAndStores
        /\ func \in Functions /\ ChosenInv /\ todo' = inserted'[Entry]
        /\ inserted' = [p \in Positions |-> IF func.runtime THEN instrumentTokens(p)
                                            ELSE IF DontInstrument THEN <<>> ELSE runOnFunction(p)]
    BY <1>3 DEF Insert, fixedVars, tracerVars, TodoInv, TypeInv, ScanInv
  <2>2. PICK a \in Positions : a = Entry
    BY <2>1, EntryThere
  <2>3. todo' = Callbacks(a)
    BY <2>1, <2>2, InsertedBefore
  <2>4. Quiet'
    BY <2>1, <2>2, <2>3, Arrives
  <2> QED BY <2>1, <2>4, ReportSame DEF Quiet, Told
<1>4. CASE RunEnds
  <2>1. /\ phase = "left" /\ phase' = "over" /\ func' = func /\ reported' = reported /\ copied' = copied
    BY <1>4 DEF RunEnds, fixedVars, runVars
  <2> QED BY <2>1, ReportSame DEF Told
<1> QED BY <1>1, <1>2, <1>3, <1>4, CallbackReport, ExecuteReport DEF Next

-----------------------------------------------------------------------------
(* What the tracer remembers of an address.                                *)

LEMMA NotNull ==
  ASSUME TypeInv
  PROVE  NULL \notin Action /\ \A k \in DOMAIN performed : Line(performed[k]) \in Action
<1>1. Action \subseteq [line : Nat \X Nat, isWrite : BOOLEAN]
  <2>1. \A p \in Positions : p \in Nat \X Nat
    <3> SUFFICES ASSUME NEW p \in Positions PROVE p \in Nat \X Nat
      OBVIOUS
    <3>1. p = <<p[1], p[2]>> /\ p[1] \in Nat /\ p[2] \in Nat
      BY PositionOf DEF TypeInv
    <3>2. <<p[1], p[2]>> \in Nat \X Nat
      BY <3>1
    <3> QED BY <3>1, <3>2, Zenon
  <2> QED BY <2>1 DEF Action
<1>2. \A k \in DOMAIN performed : performed[k] \in History
  <2>1. performed \in Seq(History)
    BY DEF TypeInv
  <2> QED BY <2>1
<1>3. \A e \in History : Line(e) \in Action
  BY DEF History, Action, Line
<1> QED BY <1>1, <1>2, <1>3, NullAssumption

\* One more access, which the tracer was told of or not.
LEMMA Longer ==
  ASSUME NEW H, NEW h \in Seq(H), NEW e
  PROVE  /\ Len(h) \in Nat /\ DOMAIN h = 1..Len(h) /\ DOMAIN Append(h, e) = 1..Len(h) + 1
         /\ \A k \in DOMAIN h : Append(h, e)[k] = h[k]
         /\ Append(h, e)[Len(h) + 1] = e
<1>1. h \in Seq(H \union {e}) /\ e \in H \union {e}
  OBVIOUS
<1> QED BY <1>1

LEMMA KeptStays ==
  ASSUME NEW H, NEW h \in Seq(H), NEW e, NEW all, NEW x, NEW m,
         ~(e.addr = x /\ Kept(e, all)), IsOutcome(h, m, KeptAt(h, all, x))
  PROVE  IsOutcome(Append(h, e), m, KeptAt(Append(h, e), all, x))
<1> DEFINE g == Append(h, e)
           n == Len(h)
<1>1. /\ n \in Nat /\ DOMAIN h = 1..n /\ DOMAIN g = 1..n + 1
      /\ \A k \in 1..n : g[k] = h[k]
      /\ g[n + 1] = e
  BY Longer
<1> HIDE DEF g, n
<1>2. \A k : k \in KeptAt(g, all, x) <=> k \in KeptAt(h, all, x)
  <2>1. \A k : k \in 1..n + 1 <=> k \in 1..n \/ k = n + 1
    BY <1>1
  <2> QED BY <1>1, <2>1 DEF KeptAt
<1>3. \A k \in KeptAt(h, all, x) : g[k] = h[k]
  BY <1>1 DEF KeptAt
<1>4. IsOutcome(g, m, KeptAt(g, all, x))
  BY <1>2, <1>3 DEF IsOutcome
<1> QED BY <1>4 DEF g

LEMMA KeptGrows ==
  ASSUME NEW H, NEW h \in Seq(H), NEW e, NEW all, NEW x, NEW m,
         e.addr = x, Kept(e, all), e.isWrite \in BOOLEAN, IsOutcome(h, m, KeptAt(h, all, x)),
         \A k \in DOMAIN h : Line(h[k]) # NULL
  PROVE  IsOutcome(Append(h, e), StoreAction(m, Line(e)), KeptAt(Append(h, e), all, x))
<1> DEFINE g == Append(h, e)
           n == Len(h)
           S == KeptAt(h, all, x)
           T == KeptAt(g, all, x)
<1>1. /\ n \in Nat /\ DOMAIN h = 1..n /\ DOMAIN g = 1..n + 1
      /\ \A k \in 1..n : g[k] = h[k]
      /\ g[n + 1] = e
  BY Longer
<1> HIDE DEF g, n
<1>2. /\ \A k : k \in T <=> k \in S \/ k = n + 1
      /\ S \subseteq 1..n
  <2>1. \A k : k \in 1..n + 1 <=> k \in 1..n \/ k = n + 1
    BY <1>1
  <2> QED BY <1>1, <2>1 DEF KeptAt
<1>3. \A k \in S : g[k] = h[k] /\ Line(h[k]) # NULL /\ k < n + 1 /\ k \in Nat
  BY <1>1, <1>2
<1> HIDE DEF S, T
<1>4. IsOutcome(g, StoreAction(m, Line(e)), T)
  <2>1. Line(e).isWrite = e.isWrite
    BY DEF Line
  <2>2. CASE e.isWrite
    <3>1. StoreAction(m, Line(e)) = Line(g[n + 1])
      BY <1>1, <2>1, <2>2 DEF StoreAction
    <3>2. \A j \in T : j <= n + 1
      <4>1. \A j \in T : j = n + 1 \/ (j < n + 1 /\ j \in Nat)
        BY <1>2, <1>3
      <4> QED BY <1>1, <4>1
    <3> QED BY <1>1, <1>2, <2>2, <3>1, <3>2 DEF IsOutcome
  <2>3. CASE ~e.isWrite /\ S = {}
    <3>1. m = NULL
      BY <2>3 DEF IsOutcome, S
    <3>2. StoreAction(m, Line(e)) = Line(g[n + 1])
      BY <1>1, <3>1 DEF StoreAction
    <3>3. \A j \in T : j = n + 1
      BY <1>2, <2>3
    <3>4. \A j \in T : ~g[j].isWrite /\ n + 1 <= j
      BY <1>1, <2>3, <3>3
    <3> QED BY <1>1, <1>2, <2>3, <3>2, <3>4 DEF IsOutcome
  <2>4. CASE ~e.isWrite /\ S # {}
    <3>1. PICK k \in S : /\ m = Line(h[k])
                         /\ IF h[k].isWrite THEN \A j \in S : h[j].isWrite => j <= k
                            ELSE \A j \in S : ~h[j].isWrite /\ k <= j
      BY <2>4 DEF IsOutcome, S
    <3>2. StoreAction(m, Line(e)) = Line(g[k]) /\ k \in T /\ g[k] = h[k]
      BY <1>2, <1>3, <2>1, <2>4, <3>1 DEF StoreAction
    <3>3. g[k].isWrite => \A j \in T : g[j].isWrite => j <= k
      BY <1>1, <1>2, <1>3, <2>4, <3>1
    <3>4. ~g[k].isWrite => \A j \in T : ~g[j].isWrite /\ k <= j
      <4> SUFFICES ASSUME ~g[k].isWrite, NEW j \in T PROVE ~g[j].isWrite /\ k <= j
        OBVIOUS
      <4>1. CASE j \in S
        BY <1>3, <3>1, <3>2, <4>1
      <4>2. CASE j = n + 1
        <5>1. k < n + 1 /\ k \in Nat
          BY <1>3
        <5>2. k <= n + 1
          BY <1>1, <5>1
        <5> QED BY <1>1, <2>4, <4>2, <5>2
      <4> QED BY <1>2, <4>1, <4>2
    <3> QED BY <3>2, <3>3, <3>4 DEF IsOutcome
  <2> QED BY <2>2, <2>3, <2>4
<1> QED BY <1>4 DEF g, T

\* The outcome after a step.
LEMMA NowKept ==
  ASSUME NEW h, NEW all, performed' = h, AllLoadsAndStores' = all
  PROVE  \A x, m : IsOutcome(performed, m, KeptAt(performed, AllLoadsAndStores, x))'
                   <=> IsOutcome(h, m, KeptAt(h, all, x))
BY DEF IsOutcome, KeptAt, Kept, Line

LEMMA MemoryBy ==
  ASSUME TypeInv', func' = func, inTask' = inTask, NEW h, NEW all, performed' = h, AllLoadsAndStores' = all,
         phase' \in {"scan", "insert"} => h = <<>>, ~(Told /\ Tracked(at))',
         \A x \in Addrs : IF ~inTask THEN memoryLocations'[x] = NULL
                          ELSE IsOutcome(h, memoryLocations'[x], KeptAt(h, all, x))
  PROVE  MemoryInv'
<1>1. \A x \in Addrs : memoryLocations'[x] \in Action' \union {NULL}
  BY DEF TypeInv
<1>2. ASSUME NEW x \in Addrs, inTask
      PROVE  (\E m \in Action \union {NULL} :
                /\ IsOutcome(performed, m, KeptAt(performed, AllLoadsAndStores, x))
                /\ memoryLocations[x] =
                     IF Told /\ Tracked(at) /\ env[Code(at).ptr] = x
                     THEN StoreAction(m, [line |-> at, isWrite |-> Code(at).op = "store"]) ELSE m)'
  <2>1. PICK m \in Action' \union {NULL} : m = memoryLocations'[x]
    BY <1>1
  <2>2. IsOutcome(h, m, KeptAt(h, all, x))
    BY <1>2, <2>1
  <2>3. IsOutcome(performed, m, KeptAt(performed, AllLoadsAndStores, x))'
    BY <2>2, NowKept
  <2> QED BY <2>1, <2>3
<1> QED BY <1>2 DEF MemoryInv

\* Nothing is made of what was told, so far.
LEMMA MemoryNow ==
  ASSUME MemoryInv, ~(Told /\ Tracked(at)), NEW x \in Addrs
  PROVE  IF ~inTask THEN memoryLocations[x] = NULL
         ELSE IsOutcome(performed, memoryLocations[x], KeptAt(performed, AllLoadsAndStores, x))
BY DEF MemoryInv

LEMMA VisitMemory ==
  ASSUME TypeInv, TypeInv', MemoryInv, Visit
  PROVE  MemoryInv'
<1>1. /\ phase = "scan" /\ phase' \in {"scan", "insert"} /\ func' = func /\ inTask' = inTask
      /\ memoryLocations' = memoryLocations /\ performed' = performed /\ performed = <<>>
  BY WalkGoesOn DEF fixedVars, tracerVars, runVars, MemoryInv
<1>2. ~Told /\ ~Told'
  BY <1>1 DEF Told
<1>3. PICK all : all = AllLoadsAndStores'
  OBVIOUS
<1>4. ASSUME NEW x \in Addrs
      PROVE  IF ~inTask THEN memoryLocations'[x] = NULL
             ELSE IsOutcome(<<>>, memoryLocations'[x], KeptAt(<<>>, all, x))
  <2>1. KeptAt(<<>>, AllLoadsAndStores, x) = {} /\ KeptAt(<<>>, all, x) = {}
    BY DEF KeptAt
  <2>2. IF ~inTask THEN memoryLocations[x] = NULL
        ELSE IsOutcome(<<>>, memoryLocations[x], KeptAt(<<>>, AllLoadsAndStores, x))
    BY <1>1, <1>2, MemoryNow
  <2> QED BY <1>1, <2>1, <2>2
<1> QED BY <1>1, <1>2, <1>3, <1>4, MemoryBy

\* Nothing is performed, and nothing told of an access.
LEMMA MemorySame ==
  ASSUME TypeInv, TypeInv', MemoryInv, func' = func, inTask' = inTask, AllLoadsAndStores' = AllLoadsAndStores,
         UNCHANGED <<performed, memoryLocations>>, phase' \notin {"scan", "insert"},
         ~(Told /\ Tracked(at)), ~(Told /\ Tracked(at))'
  PROVE  MemoryInv'
<1>1. PICK h, all : h = performed /\ all = AllLoadsAndStores
  OBVIOUS
<1>2. \A x \in Addrs : IF ~inTask THEN memoryLocations'[x] = NULL
                       ELSE IsOutcome(h, memoryLocations'[x], KeptAt(h, all, x))
  BY <1>1, MemoryNow
<1> QED BY <1>1, <1>2, MemoryBy

LEMMA InsertMemory ==
  ASSUME TypeInv, TypeInv', ScanInv, TodoInv, MemoryInv, Insert
  PROVE  MemoryInv'
<1>1. /\ phase = "insert" /\ phase' = "run" /\ func' = func /\ inTask' = inTask
      /\ memoryLocations' = memoryLocations /\ performed' = performed
      /\ at' = at /\ at = Entry /\ AllLoadsAndStores' = AllLoadsAndStores
      /\ func \in Functions /\ ChosenInv /\ todo' = inserted'[Entry]
      /\ inserted' = [p \in Positions |-> IF func.runtime THEN instrumentTokens(p)
                                          ELSE IF DontInstrument THEN <<>> ELSE runOnFunction(p)]
  BY DEF Insert, fixedVars, tracerVars, TodoInv, TypeInv, ScanInv
<1>2. PICK a \in Positions : a = Entry
  BY <1>1, EntryThere
<1>3. todo' = Callbacks(a)
  BY <1>1, <1>2, InsertedBefore
<1>4. Quiet'
  BY <1>1, <1>2, <1>3, Arrives
<1> QED BY <1>1, <1>4, MemorySame DEF Quiet, Told

LEMMA CallbackMemory ==
  ASSUME TypeInv, TypeInv', ScanInv, TodoInv, TaskInv, MemoryInv, Callback
  PROVE  MemoryInv'
<1>1. /\ phase = "run" /\ phase' = "run" /\ func' = func /\ env' = env /\ inTask' = inTask /\ at' = at
      /\ performed' = performed /\ AllLoadsAndStores' = AllLoadsAndStores /\ ChosenInv
      /\ at \in Positions /\ env \in Envs /\ func \in Functions
      /\ memoryLocations \in [Addrs -> Action \union {NULL}]
      /\ \/ StartRuns
         \/ /\ ~Starting /\ todo # <<>> /\ todo' = <<>>
            /\ AccessTold \/ TokenTold \/ EndTold \/ SessionTold
  BY CallbackMade DEF fixedVars, passVars, ScanInv, TypeInv
<1>2. PICK a \in Positions : a = at
  BY <1>1
<1>3. Tracked(at)' = Tracked(a) /\ Code(at)' = Code(a)
  BY <1>1, <1>2, SameCalls
<1>4. CASE StartRuns
  <2>1. Starting /\ Begins(a) /\ todo' = Rest(a) /\ UNCHANGED memoryLocations
    BY <1>2, <1>4 DEF StartRuns, Starting
  <2>2. Quiet'
    BY <1>1, <1>2, <2>1, Arrives
  <2> QED BY <1>1, <2>1, <2>2, MemorySame DEF Quiet, Told
<1>5. CASE ~StartRuns
  <2>1. ~Starting /\ ~Told /\ Told'
    BY <1>1, <1>5, Done DEF Told
  <2>2. CASE ~AccessTold
    <3>1. UNCHANGED memoryLocations
      BY <1>1, <1>5, <2>2 DEF TokenTold, EndTold, SessionTold, tracerVars
    <3>2. ~Tracked(a)
      <4>1. Receives(a) \/ Sends(a) \/ Finishes(a) => ~Tracked(a)
        BY <1>1, RestForms
      <4> QED BY <1>1, <1>2, <1>5, <2>2, <4>1 DEF TokenTold, EndTold, SessionTold
    <3> QED BY <1>1, <1>3, <2>1, <3>1, <3>2, MemorySame
  <2>3. CASE AccessTold
    <3>1. active <=> inTask
      BY <1>1, <2>1, LeftOnce DEF TaskInv
    <3>2. PICK act : act = [line |-> a, isWrite |-> Code(a).op = "store"]
      OBVIOUS
    <3>3. /\ Tracked(a) /\ env[Code(a).ptr] \in Addrs
          /\ memoryLocations' = IF active THEN [memoryLocations EXCEPT ![env[Code(a).ptr]] = StoreAction(@, act)]
                                ELSE memoryLocations
      <4>1. Tracked(a)
        BY <1>2, <2>3 DEF AccessTold
      <4>2. env[Code(a).ptr] \in Addrs
        BY <1>1, <4>1, RestForms, CodeAt, AddrsOf
      <4> QED BY <1>2, <2>3, <3>2, <4>1, <4>2, Zenon DEF AccessTold
    <3>4. PICK h, all : h = performed /\ all = AllLoadsAndStores
      OBVIOUS
    <3>5. ASSUME NEW x \in Addrs
          PROVE  (IF ~inTask THEN memoryLocations[x] = NULL
                  ELSE \E m \in Action \union {NULL} :
                         /\ IsOutcome(performed, m, KeptAt(performed, AllLoadsAndStores, x))
                         /\ memoryLocations[x] =
                              IF Told /\ Tracked(at) /\ env[Code(at).ptr] = x
                              THEN StoreAction(m, [line |-> at, isWrite |-> Code(at).op = "store"]) ELSE m)'
      <4>1. IF ~inTask THEN memoryLocations[x] = NULL
            ELSE IsOutcome(h, memoryLocations[x], KeptAt(h, all, x))
        BY <2>1, <3>4, MemoryNow
      <4>2. CASE ~inTask
        BY <1>1, <3>1, <3>3, <4>1, <4>2
      <4>3. CASE inTask
        <5>1. PICK m \in Action \union {NULL} : m = memoryLocations[x]
          BY <1>1
        <5>2. IsOutcome(performed, m, KeptAt(performed, AllLoadsAndStores, x))'
          BY <1>1, <3>4, <4>1, <4>3, <5>1, NowKept
        <5>3. memoryLocations'[x] = IF env[Code(a).ptr] = x THEN StoreAction(m, act) ELSE m
          BY <1>1, <3>1, <3>3, <4>3, <5>1
        <5>4. (memoryLocations[x] =
                 IF Told /\ Tracked(at) /\ env[Code(at).ptr] = x
                 THEN StoreAction(m, [line |-> at, isWrite |-> Code(at).op = "store"]) ELSE m)'
          BY <1>1, <1>2, <1>3, <2>1, <3>2, <3>3, <5>3 DEF StoreAction
        <5>5. m \in Action' \union {NULL}
          BY <1>1, SameCode
        <5> QED BY <1>1, <4>3, <5>2, <5>4, <5>5
      <4> QED BY <4>2, <4>3
    <3> QED BY <1>1, <3>5 DEF MemoryInv
  <2> QED BY <2>2, <2>3
<1> QED BY <1>4, <1>5

\* An access that the tracer was told of is made, by the instruction or by what it called.
LEMMA MemoryGrows ==
  ASSUME TypeInv, MemoryInv, NEW x \in Addrs, NEW e, NEW m, inTask, e.addr \in Addrs, e.isWrite \in BOOLEAN,
         Kept(e, AllLoadsAndStores), IsOutcome(performed, m, KeptAt(performed, AllLoadsAndStores, x))
  PROVE  IsOutcome(Append(performed, e), IF e.addr = x THEN StoreAction(m, Line(e)) ELSE m,
                   KeptAt(Append(performed, e), AllLoadsAndStores, x))
<1>1. performed \in Seq(History) /\ \A k \in DOMAIN performed : Line(performed[k]) # NULL
  BY NotNull DEF TypeInv
<1>2. CASE e.addr = x
  BY <1>1, <1>2, KeptGrows
<1>3. CASE e.addr # x
  BY <1>1, <1>3, KeptStays
<1> QED BY <1>2, <1>3

\* There is a callback for the sizes that are listed.
LEMMA SizesThere ==
  ASSUME NEW i
  PROVE  getMemoryAccessFuncIndex(i) >= 0 <=> i.size \in AccessSizes
<1>1. CASE i.size \in AccessSizes
  <2>1. i.size >= 0
    BY <1>1 DEF AccessSizes
  <2> QED BY <1>1, <2>1 DEF getMemoryAccessFuncIndex
<1>2. CASE i.size \notin AccessSizes
  <2>1. getMemoryAccessFuncIndex(i) = -1
    BY <1>2, Zenon DEF getMemoryAccessFuncIndex
  <2>2. ~(-1 >= 0)
    OBVIOUS
  <2> QED BY <1>2, <2>1, <2>2, Zenon
<1> QED BY <1>1, <1>2

LEMMA AccessMemory ==
  ASSUME TypeInv, TypeInv', ScanInv, MemoryInv, Told, AccessMade, func' = func, inTask' = inTask, env \in Envs,
         AllLoadsAndStores' = AllLoadsAndStores, phase' \notin {"scan", "insert"}, ~(Told /\ Tracked(at))'
  PROVE  MemoryInv'
<1>1. /\ at \in Positions /\ func \in Functions /\ ChosenInv /\ performed \in Seq(History)
      /\ phase = "run"
  BY DEF TypeInv, ScanInv, Told
<1>2. PICK how \in {"plain", "left out"} :
        /\ performed' = Append(performed, Entered(env[Code(at).ptr], Code(at).op # "load", how))
        /\ how = "plain" <=> /\ Treated /\ IsLoadOrStore(Code(at)) /\ Code(at).size \in AccessSizes
                             /\ ~NotCaptured(Code(at).ptr) /\ Code(at).ptr \notin ConstantData
  BY DEF AccessMade
<1>3. PICK e : e = Entered(env[Code(at).ptr], Code(at).op # "load", how)
  OBVIOUS
<1>4. /\ e.addr = env[Code(at).ptr] /\ e.isWrite = (Code(at).op # "load") /\ e.line = at /\ e.how = how
      /\ Line(e) = [line |-> at, isWrite |-> Code(at).op # "load"]
  BY <1>3 DEF Entered, Line
<1>5. env[Code(at).ptr] \in Addrs /\ Code(at).op \in {"load", "store", "atomic"}
  BY <1>1, CodeAt, AddrsOf DEF AccessMade
<1>6. PICK h, all : h = Append(performed, e) /\ all = AllLoadsAndStores
  OBVIOUS
<1>7. performed' = h /\ memoryLocations' = memoryLocations
  BY <1>2, <1>3, <1>6 DEF AccessMade
<1>8. getMemoryAccessFuncIndex(Code(at)) >= 0 <=> Code(at).size \in AccessSizes
  BY SizesThere
<1>9. CASE Tracked(at)
  <2>1. at \in AllLoadsAndStores /\ Code(at).op \in {"load", "store"} /\ Treated /\ Chosen(at)
    BY <1>1, <1>9, RestForms DEF Tracked, ChosenInv
  <2>2. how = "plain"
    <3>1. ~NotCaptured(Code(at).ptr)
      BY <2>1 DEF Chosen
    <3>2. Code(at).ptr \notin ConstantData
      BY <1>1, <2>1, CodeAt DEF Chosen
    <3> QED BY <1>2, <1>8, <1>9, <2>1, <3>1, <3>2 DEF Tracked, IsLoadOrStore
  <2>3. Kept(e, AllLoadsAndStores) /\ e.isWrite \in BOOLEAN /\ e.addr \in Addrs
    BY <1>4, <1>5, <2>1, <2>2 DEF Kept
  <2>4. Line(e) = [line |-> at, isWrite |-> Code(at).op = "store"]
    BY <1>4, <2>1
  <2>5. ASSUME NEW x \in Addrs
        PROVE  IF ~inTask THEN memoryLocations'[x] = NULL
               ELSE IsOutcome(h, memoryLocations'[x], KeptAt(h, all, x))
    <3>1. CASE ~inTask
      BY <1>7, <3>1 DEF MemoryInv
    <3>2. CASE inTask
      <4>1. PICK m \in Action \union {NULL} :
              /\ IsOutcome(performed, m, KeptAt(performed, AllLoadsAndStores, x))
              /\ memoryLocations[x] =
                   IF Told /\ Tracked(at) /\ env[Code(at).ptr] = x
                   THEN StoreAction(m, [line |-> at, isWrite |-> Code(at).op = "store"]) ELSE m
        BY <3>2 DEF MemoryInv
      <4>2. memoryLocations[x] = IF e.addr = x THEN StoreAction(m, Line(e)) ELSE m
        BY <1>4, <1>9, <2>4, <4>1
      <4>3. IsOutcome(h, IF e.addr = x THEN StoreAction(m, Line(e)) ELSE m, KeptAt(h, all, x))
        BY <1>6, <2>3, <3>2, <4>1, MemoryGrows
      <4> QED BY <1>7, <3>2, <4>2, <4>3
    <3> QED BY <3>1, <3>2
  <2> QED BY <1>6, <1>7, <2>5, MemoryBy
<1>10. CASE ~Tracked(at)
  <2>1. ~Kept(e, AllLoadsAndStores)
    BY <1>2, <1>4, <1>8, <1>10 DEF Kept, Tracked
  <2>2. ASSUME NEW x \in Addrs
        PROVE  IF ~inTask THEN memoryLocations'[x] = NULL
               ELSE IsOutcome(h, memoryLocations'[x], KeptAt(h, all, x))
    BY <1>1, <1>6, <1>7, <1>10, <2>1, MemoryNow, KeptStays
  <2> QED BY <1>6, <1>7, <2>2, MemoryBy
<1> QED BY <1>9, <1>10

LEMMA CopyMemory ==
  ASSUME TypeInv, TypeInv', MemoryInv, ~Tracked(at), CopyMade, func' = func, inTask' = inTask,
         AllLoadsAndStores' = AllLoadsAndStores, phase' \notin {"scan", "insert"}, ~(Told /\ Tracked(at))'
  PROVE  MemoryInv'
<1>1. performed \in Seq(History) /\ memoryLocations' = memoryLocations
  BY DEF TypeInv, CopyMade
<1>2. PICK how \in {"copy", "left out"}, other \in {"copy", "left out"} :
        performed' =
          IF IsTransfer(Code(at))
          THEN Append(Append(performed, Entered(env[Code(at).ptr], FALSE, how)),
                      Entered(env[Code(at).dst], TRUE, other))
          ELSE Append(performed, Entered(env[Code(at).dst], TRUE, other))
  BY DEF CopyMade
<1>3. PICK r, w : r = Entered(env[Code(at).ptr], FALSE, how) /\ w = Entered(env[Code(at).dst], TRUE, other)
  OBVIOUS
<1>4. ~Kept(r, AllLoadsAndStores) /\ ~Kept(w, AllLoadsAndStores)
  BY <1>3 DEF Entered, Kept
<1>5. PICK h, all : h = performed' /\ all = AllLoadsAndStores
  OBVIOUS
<1>6. h = IF IsTransfer(Code(at)) THEN Append(Append(performed, r), w) ELSE Append(performed, w)
  BY <1>2, <1>3, <1>5
<1>7. ASSUME NEW x \in Addrs
      PROVE  IF ~inTask THEN memoryLocations'[x] = NULL
             ELSE IsOutcome(h, memoryLocations'[x], KeptAt(h, all, x))
  <2>1. CASE ~inTask
    BY <1>1, <2>1, MemoryNow
  <2>2. CASE inTask
    <3>1. PICK m : m = memoryLocations[x] /\ IsOutcome(performed, m, KeptAt(performed, all, x))
      BY <1>5, <2>2, MemoryNow
    <3>2. /\ IsOutcome(Append(performed, w), m, KeptAt(Append(performed, w), all, x))
          /\ IsOutcome(Append(performed, r), m, KeptAt(Append(performed, r), all, x))
      BY <1>1, <1>4, <1>5, <3>1, KeptStays
    <3>3. Append(performed, r) \in Seq(History \union {r})
      <4>1. performed \in Seq(History \union {r}) /\ r \in History \union {r}
        <5>1. History \subseteq History \union {r}
          OBVIOUS
        <5> QED BY <1>1, <5>1, SeqMonotonic, Zenon
      <4> QED BY <4>1, AppendProperties
    <3>4. IsOutcome(Append(Append(performed, r), w), m, KeptAt(Append(Append(performed, r), w), all, x))
      BY <1>4, <1>5, <3>2, <3>3, KeptStays
    <3>5. IsOutcome(h, m, KeptAt(h, all, x))
      BY <1>6, <3>2, <3>4, Zenon
    <3> QED BY <1>1, <2>2, <3>1, <3>5
  <2> QED BY <2>1, <2>2
<1> QED BY <1>5, <1>7, MemoryBy DEF MemoryInv

LEMMA CallMemory ==
  ASSUME TypeInv, TypeInv', MemoryInv, ~Tracked(at), CallMade, func' = func, inTask' = inTask, active <=> inTask,
         AllLoadsAndStores' = AllLoadsAndStores, phase' \notin {"scan", "insert"}, ~(Told /\ Tracked(at))'
  PROVE  MemoryInv'
<1>1. CASE UNCHANGED <<performed, memoryLocations>>
  BY <1>1, MemorySame
<1>2. CASE ~UNCHANGED <<performed, memoryLocations>>
  <2>1. PICK y \in Addrs, isWrite \in BOOLEAN :
          /\ performed' = Append(performed, Entered(y, isWrite, "called"))
          /\ memoryLocations' =
               IF active THEN [memoryLocations EXCEPT ![y] =
                                 StoreAction(@, [line |-> at, isWrite |-> isWrite])]
                         ELSE memoryLocations
    BY <1>2 DEF CallMade
  <2>2. PICK e : e = Entered(y, isWrite, "called")
    OBVIOUS
  <2>3. /\ e.addr = y /\ e.isWrite \in BOOLEAN /\ Kept(e, AllLoadsAndStores)
        /\ Line(e) = [line |-> at, isWrite |-> isWrite]
    BY <2>2 DEF Entered, Kept, Line
  <2>4. PICK h, all : h = Append(performed, e) /\ all = AllLoadsAndStores
    OBVIOUS
  <2>5. memoryLocations \in [Addrs -> Action \union {NULL}]
    BY DEF TypeInv
  <2>6. ASSUME NEW x \in Addrs
        PROVE  IF ~inTask THEN memoryLocations'[x] = NULL
               ELSE IsOutcome(h, memoryLocations'[x], KeptAt(h, all, x))
    <3>1. CASE ~inTask
      BY <2>1, <3>1, MemoryNow
    <3>2. CASE inTask
      <4>1. PICK m : m = memoryLocations[x] /\ IsOutcome(performed, m, KeptAt(performed, all, x))
        BY <2>4, <3>2, MemoryNow
      <4>2. memoryLocations'[x] = IF e.addr = x THEN StoreAction(m, Line(e)) ELSE m
        BY <2>1, <2>3, <2>5, <3>2, <4>1
      <4>3. IsOutcome(h, IF e.addr = x THEN StoreAction(m, Line(e)) ELSE m, KeptAt(h, all, x))
        BY <2>3, <2>4, <3>2, <4>1, MemoryGrows
      <4> QED BY <3>2, <4>2, <4>3
    <3> QED BY <3>1, <3>2
  <2> QED BY <2>1, <2>2, <2>4, <2>6, MemoryBy
<1> QED BY <1>1, <1>2

\* Nothing is told before the next instruction, and nothing after the last.
LEMMA QuietAfter ==
  ASSUME TypeInv, ScanInv, TodoInv, Execute
  PROVE  Quiet'
<1>1. /\ func' = func /\ AllLoadsAndStores' = AllLoadsAndStores /\ ChosenInv
      /\ GoesOn \/ phase' = "left"
  BY ExecuteMade DEF fixedVars, passVars, ScanInv, LeavesBy
<1>2. CASE GoesOn
  <2>1. PICK a \in Positions : a = at' /\ todo' = Callbacks(a) /\ phase' = "run"
    BY <1>2 DEF GoesOn
  <2> QED BY <1>1, <2>1, Arrives
<1>3. CASE phase' = "left"
  BY <1>3 DEF Quiet, Told
<1> QED BY <1>1, <1>2, <1>3

LEMMA ExecuteMemory ==
  ASSUME TypeInv, TypeInv', ScanInv, TodoInv, TaskInv, MemoryInv, Execute
  PROVE  MemoryInv'
<1>1. /\ phase = "run" /\ Told /\ func' = func /\ inTask' = inTask /\ env \in Envs
      /\ AllLoadsAndStores' = AllLoadsAndStores /\ ChosenInv /\ at \in Positions
      /\ AccessMade \/ CopyMade \/ CallMade \/ ReturnMade
      /\ phase' \in {"run", "left"}
  BY ExecuteMade DEF fixedVars, passVars, ScanInv, LeavesBy, GoesOn, TypeInv
<1>2. ~(Told /\ Tracked(at))'
  BY QuietAfter DEF Quiet
<1>3. Tracked(at) => Code(at).op \in {"load", "store"}
  BY <1>1, RestForms
<1>4. CASE AccessMade
  BY <1>1, <1>2, <1>4, AccessMemory
<1>5. CASE CopyMade
  BY <1>1, <1>2, <1>3, <1>5, CopyMemory DEF CopyMade
<1>6. CASE CallMade
  <2>1. ~Finishes(at) /\ ~Tracked(at)
    BY <1>3, <1>6 DEF CallMade, Finishes
  <2>2. active <=> inTask
    BY <1>1, <2>1, LeftOnce DEF TaskInv, Told
  <2> QED BY <1>1, <1>2, <1>6, <2>1, <2>2, CallMemory
<1>7. CASE ReturnMade
  BY <1>1, <1>2, <1>3, <1>7, MemorySame DEF ReturnMade
<1> QED BY <1>1, <1>4, <1>5, <1>6, <1>7

LEMMA MemoryKept ==
  ASSUME TypeInv, TypeInv', ScanInv, TodoInv, TaskInv, MemoryInv, [Next]_vars
  PROVE  MemoryInv'
<1>1. CASE UNCHANGED vars
  <2>1. /\ func' = func /\ env' = env /\ phase' = phase /\ at' = at /\ todo' = todo /\ inTask' = inTask
        /\ performed' = performed /\ memoryLocations' = memoryLocations
        /\ AllLoadsAndStores' = AllLoadsAndStores
    BY <1>1 DEF vars, fixedVars, passVars, tracerVars, runVars
  <2>2. PICK a : a = at
    OBVIOUS
  <2>3. /\ Callbacks(at)' = Callbacks(a) /\ Begins(at)' = Begins(a) /\ Tracked(at)' = Tracked(a)
        /\ Code(at)' = Code(a) /\ Action' = Action
    BY <2>1, <2>2, SameCalls, SameCode
  <2>4. Told' = Told
    BY <2>1, <2>2, <2>3 DEF Starting, Told
  <2> QED BY <2>1, <2>2, <2>3, <2>4 DEF MemoryInv, IsOutcome, KeptAt, Kept, Line, StoreAction
<1>2. CASE RunEnds
  <2>1. /\ phase = "left" /\ phase' = "over" /\ func' = func /\ inTask' = inTask
        /\ performed' = performed /\ memoryLocations' = memoryLocations
        /\ AllLoadsAndStores' = AllLoadsAndStores
    BY <1>2 DEF RunEnds, fixedVars, passVars, runVars
  <2> QED BY <2>1, MemorySame DEF Told
<1> QED BY <1>1, <1>2, VisitMemory, InsertMemory, CallbackMemory, ExecuteMemory DEF Next

-----------------------------------------------------------------------------
(* The reads that have no callback.                                        *)

LEMMA PerformedLonger ==
  ASSUME performed \in Seq(History), NEW e
  PROVE  /\ DOMAIN performed = 1..Len(performed)
         /\ DOMAIN Append(performed, e) = 1..Len(performed) + 1
         /\ \A k \in DOMAIN performed : Append(performed, e)[k] = performed[k]
         /\ Append(performed, e)[Len(performed) + 1] = e
BY Longer

LEMMA KilledLonger ==
  ASSUME NEW H, NEW h \in Seq(H), NEW e, NEW all, NEW k \in DOMAIN h
  PROVE  /\ Killed(h, all, k) => Killed(Append(h, e), all, k)
         /\ Kept(e, all) /\ e.isWrite /\ e.addr = h[k].addr => Killed(Append(h, e), all, k)
<1> DEFINE g == Append(h, e)
           n == Len(h)
<1>1. /\ n \in Nat /\ DOMAIN h = 1..n /\ DOMAIN g = 1..n + 1
      /\ \A j \in 1..n : g[j] = h[j]
      /\ g[n + 1] = e
  BY Longer
<1> HIDE DEF g, n
<1>2. \A j \in 1..n : j \in 1..n + 1 /\ j < n + 1
  BY <1>1
<1>3. Killed(h, all, k) => Killed(g, all, k)
  BY <1>1, <1>2 DEF Killed
<1>4. Kept(e, all) /\ e.isWrite /\ e.addr = h[k].addr => Killed(g, all, k)
  <2>1. n + 1 \in 1..n + 1
    BY <1>1
  <2> QED BY <1>1, <1>2, <2>1 DEF Killed
<1> QED BY <1>3, <1>4 DEF g

LEMMA AheadNow ==
  ASSUME func' = func, AllLoadsAndStores' = AllLoadsAndStores, env' = env, NEW a, at' = a
  PROVE  /\ Positions' = Positions
         /\ \A q : Code(q)' = Code(q) /\ Tracked(q)' = Tracked(q) /\ SameStretch(at, q)' = SameStretch(a, q)
<1>1. /\ Positions' = Positions /\ Treated' = Treated
      /\ \A q : Code(q)' = Code(q)
  BY SameCode
<1>2. \A q : SameStretch(at, q)' = SameStretch(a, q)
  BY <1>1 DEF SameStretch
<1>3. \A q : Tracked(q)' = Tracked(q)
  BY <1>1 DEF Tracked
<1> QED BY <1>1, <1>2, <1>3

LEMMA DroppedBy ==
  ASSUME func' = func, AllLoadsAndStores' = AllLoadsAndStores, env' = env, NEW a, at' = a,
         NEW h, performed' = h,
         \A k \in DOMAIN h :
           Dropped(h[k], AllLoadsAndStores) =>
             /\ ~h[k].isWrite
             /\ phase' \in {"left", "over"} /\ left' # "indirect throw" => Killed(h, AllLoadsAndStores, k)
             /\ phase' \notin {"left", "over"} => Killed(h, AllLoadsAndStores, k) \/ Ahead(a, h[k].addr)
  PROVE  DroppedInv'
<1>1. /\ Positions' = Positions
      /\ \A q : Code(q)' = Code(q) /\ Tracked(q)' = Tracked(q) /\ SameStretch(at, q)' = SameStretch(a, q)
  BY AheadNow
<1>2. \A k : Killed(performed, AllLoadsAndStores, k)' <=> Killed(h, AllLoadsAndStores, k)
  BY DEF Killed, Kept
<1>3. \A k : Dropped(performed[k], AllLoadsAndStores)' <=> Dropped(h[k], AllLoadsAndStores)
  BY DEF Dropped
<1>4. \A k : Ahead(at, performed[k].addr)' <=> Ahead(a, h[k].addr)
  BY <1>1 DEF Ahead
<1> QED BY <1>2, <1>3, <1>4 DEF DroppedInv

\* The write that is ahead comes nearer, or is made now; no call and no end of the
\* block is before it.
LEMMA ComesNearer ==
  ASSUME TypeInv, NEW x, Ahead(at, x)
  PROVE  /\ ~Flushes(Code(at)) /\ Code(at).op # "return"
         /\ (Code(at).op = "store" => ~(Tracked(at) /\ env[Code(at).ptr] = x)) =>
              /\ at[2] # Len(func.body[at[1]])
              /\ \A a \in Positions : a = <<at[1], at[2] + 1>> => Ahead(a, x)
<1>1. PICK q \in Positions : /\ SameStretch(at, q) /\ Code(q).op = "store" /\ Tracked(q)
                             /\ env[Code(q).ptr] = x
  BY DEF Ahead
<1>2. at \in Positions /\ func \in Functions
  BY DEF TypeInv
<1>3. /\ at[2] \in Nat /\ q[2] \in Nat /\ at[1] = q[1] /\ at[2] <= q[2]
      /\ q[2] <= Len(func.body[at[1]]) /\ Len(func.body[at[1]]) \in Nat
  BY <1>1, <1>2, PositionOf DEF SameStretch
<1>4. CASE at[2] = q[2]
  <2>1. at = q
    BY <1>2, <1>3, <1>4, Stretches
  <2>2. Code(at).op = "store"
    BY <1>1, <2>1
  <2>3. ~Flushes(Code(at)) /\ Code(at).op # "return"
    BY <2>2 DEF Flushes, IsMemIntrinsic, IsTransfer
  <2> QED BY <1>1, <2>1, <2>3
<1>5. CASE at[2] < q[2]
  <2>1. ~Flushes(Code(at)) /\ at[2] # Len(func.body[at[1]])
    BY <1>1, <1>2, <1>3, <1>5, Stretches
  <2>2. Code(at).op # "return"
    BY <1>2, <2>1, CodeAt
  <2>3. ASSUME NEW a \in Positions, a = <<at[1], at[2] + 1>> PROVE Ahead(a, x)
    <3>1. a[1] = at[1] /\ a[2] = at[2] + 1
      BY <2>3
    <3>2. at[2] <= a[2] /\ a[2] <= q[2]
      BY <1>3, <1>5, <3>1
    <3>3. SameStretch(a, q)
      BY <1>1, <1>2, <3>1, <3>2, Stretches
    <3> QED BY <1>1, <3>3 DEF Ahead
  <2> QED BY <2>1, <2>2, <2>3
<1> QED BY <1>3, <1>4, <1>5

LEMMA LastOrBefore ==
  ASSUME NEW n \in Nat, NEW k \in 1..n + 1
  PROVE  k \in 1..n \/ k = n + 1
OBVIOUS

LEMMA AccessDropped ==
  ASSUME TypeInv, ScanInv, DroppedInv, phase = "run", AccessMade, GoesOn, func' = func, env' = env,
         AllLoadsAndStores' = AllLoadsAndStores
  PROVE  DroppedInv'
<1>1. /\ at \in Positions /\ func \in Functions /\ ChosenInv /\ performed \in Seq(History) /\ env \in Envs
  BY DEF TypeInv, ScanInv
<1>2. PICK how \in {"plain", "left out"} :
        /\ performed' = Append(performed, Entered(env[Code(at).ptr], Code(at).op # "load", how))
        /\ how = "plain" <=> /\ Treated /\ IsLoadOrStore(Code(at)) /\ Code(at).size \in AccessSizes
                             /\ ~NotCaptured(Code(at).ptr) /\ Code(at).ptr \notin ConstantData
  BY DEF AccessMade
<1>3. PICK e : e = Entered(env[Code(at).ptr], Code(at).op # "load", how)
  OBVIOUS
<1>4. /\ e.addr = env[Code(at).ptr] /\ e.isWrite = (Code(at).op # "load") /\ e.line = at /\ e.how = how
  BY <1>3 DEF Entered
<1>5. PICK h : h = Append(performed, e)
  OBVIOUS
<1>6. PICK n : n = Len(performed) /\ n \in Nat
  BY <1>1, LenProperties
<1>7. /\ DOMAIN performed = 1..n /\ DOMAIN h = 1..n + 1
      /\ \A k \in 1..n : h[k] = performed[k]
      /\ h[n + 1] = e /\ performed' = h
  <2>1. performed \in Seq(History)
    BY <1>1
  <2>2. /\ DOMAIN performed = 1..Len(performed)
        /\ DOMAIN Append(performed, e) = 1..Len(performed) + 1
        /\ \A k \in DOMAIN performed : Append(performed, e)[k] = performed[k]
        /\ Append(performed, e)[Len(performed) + 1] = e
    BY <2>1, PerformedLonger, Zenon
  <2> QED BY <1>2, <1>3, <1>5, <1>6, <2>2, Zenon
<1>8. PICK a \in Positions :
        /\ a = at' /\ phase' = "run"
        /\ at[2] # Len(func.body[at[1]]) => a = <<at[1], at[2] + 1>>
  BY DEF GoesOn
<1>9. ASSUME NEW k \in 1..n, Dropped(h[k], AllLoadsAndStores)
      PROVE  ~h[k].isWrite /\ (Killed(h, AllLoadsAndStores, k) \/ Ahead(a, h[k].addr))
  <2>1. /\ ~h[k].isWrite
        /\ Killed(performed, AllLoadsAndStores, k) \/ Ahead(at, h[k].addr)
    BY <1>7, <1>9 DEF DroppedInv
  <2>2. CASE Killed(performed, AllLoadsAndStores, k)
    BY <1>1, <1>5, <1>7, <2>1, <2>2, KilledLonger
  <2>3. CASE Ahead(at, h[k].addr) /\ Code(at).op = "store" /\ Tracked(at) /\ env[Code(at).ptr] = h[k].addr
    <3>1. Chosen(at) /\ Treated /\ at \in AllLoadsAndStores
      BY <1>1, <2>3 DEF Tracked, ChosenInv
    <3>2. Code(at).ptr \notin ConstantData /\ Code(at).size \in AccessSizes
      BY <1>1, <2>3, CodeAt, SizesThere DEF Tracked
    <3>3. Kept(e, AllLoadsAndStores) /\ e.isWrite
      BY <1>2, <1>4, <2>3, <3>1, <3>2 DEF Chosen, Kept
    <3> QED BY <1>1, <1>4, <1>5, <1>7, <2>1, <2>3, <3>3, KilledLonger
  <2>4. CASE Ahead(at, h[k].addr) /\ ~(Code(at).op = "store" /\ Tracked(at) /\ env[Code(at).ptr] = h[k].addr)
    BY <1>8, <2>1, <2>4, ComesNearer
  <2> QED BY <2>1, <2>2, <2>3, <2>4
<1>10. ASSUME Dropped(e, AllLoadsAndStores)
       PROVE  ~e.isWrite /\ Ahead(a, e.addr)
  <2>1. /\ how = "plain" /\ at \notin AllLoadsAndStores /\ Treated /\ IsLoadOrStore(Code(at))
        /\ Code(at).size \in AccessSizes /\ ~NotCaptured(Code(at).ptr) /\ Code(at).ptr \notin ConstantData
    BY <1>2, <1>4, <1>10 DEF Dropped
  <2>2. ~Chosen(at)
    BY <1>1, <2>1 DEF ChosenInv
  <2>3. Code(at).op = "load" /\ Overwritten(at)
    BY <2>1, <2>2 DEF Chosen
  <2>4. PICK q \in Positions : /\ at[2] < q[2] /\ SameStretch(at, q)
                               /\ Code(q).op = "store" /\ Code(q).ptr = Code(at).ptr
    BY <2>3 DEF Overwritten
  <2>5. Code(q).size = Code(at).size /\ Code(q).op # "load"
    BY <1>1, <2>3, <2>4, CodeAt
  <2>6. Chosen(q)
    BY <2>1, <2>4 DEF Chosen, IsLoadOrStore
  <2>7. Tracked(q)
    <3>1. q \in AllLoadsAndStores
      BY <1>1, <2>1, <2>6 DEF ChosenInv
    <3> QED BY <2>1, <2>5, <3>1, SizesThere DEF Tracked
  <2>8. Ahead(at, e.addr)
    BY <1>4, <2>4, <2>7 DEF Ahead
  <2>9. Ahead(a, e.addr)
    BY <1>8, <2>3, <2>8, ComesNearer
  <2> QED BY <1>4, <2>3, <2>9
<1>11. \A k \in 1..n + 1 :
         Dropped(h[k], AllLoadsAndStores) =>
           ~h[k].isWrite /\ (Killed(h, AllLoadsAndStores, k) \/ Ahead(a, h[k].addr))
  <2> SUFFICES ASSUME NEW k \in 1..n + 1, Dropped(h[k], AllLoadsAndStores)
               PROVE  ~h[k].isWrite /\ (Killed(h, AllLoadsAndStores, k) \/ Ahead(a, h[k].addr))
    OBVIOUS
  <2>1. k \in 1..n \/ k = n + 1
    BY <1>6, LastOrBefore
  <2>2. CASE k \in 1..n
    BY <1>9, <2>2
  <2>3. CASE k = n + 1
    BY <1>7, <1>10, <2>3
  <2> QED BY <2>1, <2>2, <2>3
<1> QED BY <1>7, <1>8, <1>11, DroppedBy

\* Entries that are not of accesses which the pass has a callback for; D are addresses
\* that a write is ahead to.
LEMMA OthersDropped ==
  ASSUME NEW H, NEW g \in Seq(H), NEW e, e.how # "plain", NEW all, NEW D,
         \A k \in DOMAIN g : Dropped(g[k], all) => ~g[k].isWrite /\ (Killed(g, all, k) \/ g[k].addr \in D)
  PROVE  \A k \in DOMAIN Append(g, e) :
           Dropped(Append(g, e)[k], all) =>
             ~Append(g, e)[k].isWrite /\ (Killed(Append(g, e), all, k) \/ Append(g, e)[k].addr \in D)
<1> DEFINE h == Append(g, e)
           n == Len(g)
<1>1. /\ n \in Nat /\ DOMAIN g = 1..n /\ DOMAIN h = 1..n + 1
      /\ \A k \in DOMAIN g : h[k] = g[k]
      /\ h[n + 1] = e
  BY Longer
<1>2. \A k \in DOMAIN g : Killed(g, all, k) => Killed(h, all, k)
  BY KilledLonger
<1> HIDE DEF h, n
<1>3. \A k \in 1..n + 1 : k \in 1..n \/ k = n + 1
  BY <1>1
<1>4. ~Dropped(e, all)
  BY DEF Dropped
<1>5. \A k \in DOMAIN h : Dropped(h[k], all) => ~h[k].isWrite /\ (Killed(h, all, k) \/ h[k].addr \in D)
  BY <1>1, <1>2, <1>3, <1>4
<1> QED BY <1>5 DEF h

LEMMA OthersMade ==
  ASSUME TypeInv, DroppedInv, phase = "run", CopyMade \/ CallMade \/ ReturnMade,
         NEW D, \A x : Ahead(at, x) => x \in D
  PROVE  \E h : /\ performed' = h
                /\ \A k \in DOMAIN h :
                     Dropped(h[k], AllLoadsAndStores) =>
                       ~h[k].isWrite /\ (Killed(h, AllLoadsAndStores, k) \/ h[k].addr \in D)
<1>1. performed \in Seq(History)
  BY DEF TypeInv
<1>2. PICK all : all = AllLoadsAndStores
  OBVIOUS
<1> DEFINE Good(h) == \A k \in DOMAIN h : Dropped(h[k], all) =>
                        ~h[k].isWrite /\ (Killed(h, all, k) \/ h[k].addr \in D)
<1>3. Good(performed)
  BY <1>2 DEF DroppedInv
<1>4. CASE CopyMade
  <2>1. PICK how \in {"copy", "left out"}, other \in {"copy", "left out"} :
          performed' =
            IF IsTransfer(Code(at))
            THEN Append(Append(performed, Entered(env[Code(at).ptr], FALSE, how)),
                        Entered(env[Code(at).dst], TRUE, other))
            ELSE Append(performed, Entered(env[Code(at).dst], TRUE, other))
    BY <1>4 DEF CopyMade
  <2>2. PICK r, w : r = Entered(env[Code(at).ptr], FALSE, how) /\ w = Entered(env[Code(at).dst], TRUE, other)
    OBVIOUS
  <2>3. r.how # "plain" /\ w.how # "plain"
    BY <2>2 DEF Entered
  <2>4. PICK g : g = Append(performed, r)
    OBVIOUS
  <2>5. Good(Append(performed, w)) /\ Good(g)
    <3>1. Good(Append(performed, w))
      BY <1>1, <1>3, <2>3, OthersDropped
    <3>2. Good(Append(performed, r))
      BY <1>1, <1>3, <2>3, OthersDropped
    <3> QED BY <2>4, <3>1, <3>2
  <2>6. g \in Seq(History \union {r})
    <3>1. History \subseteq History \union {r}
      OBVIOUS
    <3>2. performed \in Seq(History \union {r}) /\ r \in History \union {r}
      BY <1>1, <3>1, SeqMonotonic, Zenon
    <3> QED BY <2>4, <3>2, AppendProperties
  <2>7. Good(Append(g, w))
    BY <2>3, <2>5, <2>6, OthersDropped
  <2>8. performed' = Append(g, w) \/ performed' = Append(performed, w)
    BY <2>1, <2>2, <2>4
  <2> HIDE DEF Good
  <2>9. PICK h : h = performed'
    OBVIOUS
  <2>10. Good(h)
    BY <2>5, <2>7, <2>8, <2>9, Zenon
  <2> QED BY <1>2, <2>9, <2>10 DEF Good
<1>5. CASE performed' = performed
  BY <1>2, <1>3, <1>5
<1>6. CASE CallMade /\ performed' # performed
  <2>1. PICK x \in Addrs, isWrite \in BOOLEAN :
          performed' = Append(performed, Entered(x, isWrite, "called"))
    BY <1>6 DEF CallMade
  <2>2. PICK e : e = Entered(x, isWrite, "called")
    OBVIOUS
  <2>3. e.how # "plain"
    BY <2>2 DEF Entered
  <2>4. Good(Append(performed, e))
    BY <1>1, <1>3, <2>3, OthersDropped
  <2> QED BY <1>2, <2>1, <2>2, <2>4
<1> QED BY <1>4, <1>5, <1>6 DEF ReturnMade

LEMMA OthersGoOn ==
  ASSUME TypeInv, DroppedInv, phase = "run", CopyMade \/ CallMade, GoesOn, func' = func, env' = env,
         AllLoadsAndStores' = AllLoadsAndStores
  PROVE  DroppedInv'
<1>1. PICK a \in Positions :
        /\ a = at' /\ phase' = "run"
        /\ at[2] # Len(func.body[at[1]]) => a = <<at[1], at[2] + 1>>
  BY DEF GoesOn
<1>2. Code(at).op # "store"
  BY DEF CopyMade, CallMade
<1>3. \A x : Ahead(at, x) => Ahead(a, x)
  BY <1>1, <1>2, ComesNearer
<1>4. PICK D : D = {env[Code(q).ptr] : q \in {p \in Positions :
                      SameStretch(a, p) /\ Code(p).op = "store" /\ Tracked(p)}}
  OBVIOUS
<1>5. \A x : x \in D <=> Ahead(a, x)
  BY <1>4 DEF Ahead
<1>6. PICK h : /\ performed' = h
               /\ \A k \in DOMAIN h :
                    Dropped(h[k], AllLoadsAndStores) =>
                      ~h[k].isWrite /\ (Killed(h, AllLoadsAndStores, k) \/ h[k].addr \in D)
  BY <1>3, <1>5, OthersMade
<1> QED BY <1>1, <1>5, <1>6, DroppedBy

LEMMA LeavesDropped ==
  ASSUME TypeInv, DroppedInv, phase = "run", CallMade \/ ReturnMade, func' = func, env' = env, at' = at,
         AllLoadsAndStores' = AllLoadsAndStores, phase' = "left",
         left' = "indirect throw" \/ Flushes(Code(at)) \/ Code(at).op = "return"
  PROVE  DroppedInv'
<1>1. PICK D : D = {x \in {env[Code(q).ptr] : q \in Positions} : left' = "indirect throw"}
  OBVIOUS
<1>2. \A x : Ahead(at, x) => x \in D
  <2> SUFFICES ASSUME NEW x, Ahead(at, x) PROVE x \in D
    OBVIOUS
  <2>1. left' = "indirect throw"
    BY ComesNearer
  <2>2. x \in {env[Code(q).ptr] : q \in Positions}
    BY DEF Ahead
  <2> QED BY <1>1, <2>1, <2>2
<1>3. PICK h : /\ performed' = h
               /\ \A k \in DOMAIN h :
                    Dropped(h[k], AllLoadsAndStores) =>
                      ~h[k].isWrite /\ (Killed(h, AllLoadsAndStores, k) \/ h[k].addr \in D)
  BY <1>2, OthersMade
<1>4. PICK a : a = at
  OBVIOUS
<1>5. left' # "indirect throw" => D = {}
  BY <1>1
<1> QED BY <1>3, <1>4, <1>5, DroppedBy

\* The history, the place and the choice are as before.
LEMMA DroppedSame ==
  ASSUME DroppedInv, func' = func, env' = env, at' = at, AllLoadsAndStores' = AllLoadsAndStores,
         performed' = performed, left' = left,
         phase' \in {"left", "over"} <=> phase \in {"left", "over"}
  PROVE  DroppedInv'
<1>1. PICK a, h : a = at /\ h = performed
  OBVIOUS
<1> QED BY <1>1, DroppedBy DEF DroppedInv

LEMMA DroppedKept ==
  ASSUME TypeInv, ScanInv, TodoInv, MemoryInv, DroppedInv, [Next]_vars
  PROVE  DroppedInv'
<1>1. CASE UNCHANGED vars
  BY <1>1, DroppedSame DEF vars, fixedVars, passVars, runVars
<1>2. CASE Visit
  <2>1. performed' = <<>>
    BY <1>2, WalkGoesOn DEF runVars, MemoryInv
  <2>2. DOMAIN performed' = {}
    BY <2>1
  <2> QED BY <2>2 DEF DroppedInv
<1>3. CASE Insert
  <2>1. performed' = <<>>
    BY <1>3 DEF Insert, MemoryInv
  <2>2. DOMAIN performed' = {}
    BY <2>1
  <2> QED BY <2>2 DEF DroppedInv
<1>4. CASE Callback
  BY <1>4, DroppedSame DEF Callback, fixedVars, passVars
<1>5. CASE Execute
  <2>1. /\ phase = "run" /\ func' = func /\ env' = env /\ AllLoadsAndStores' = AllLoadsAndStores
        /\ \/ (AccessMade \/ CopyMade \/ CallMade) /\ GoesOn
           \/ CallMade /\ Code(at).op = "call" /\ LeavesBy("throw")
           \/ CallMade /\ Code(at).op = "indirect" /\ LeavesBy("indirect throw")
           \/ ReturnMade /\ LeavesBy("return")
    BY <1>5, ExecuteMade DEF fixedVars, passVars
  <2>2. CASE AccessMade /\ GoesOn
    BY <2>1, <2>2, AccessDropped
  <2>3. CASE (CopyMade \/ CallMade) /\ GoesOn
    BY <2>1, <2>3, OthersGoOn
  <2>4. CASE CallMade /\ Code(at).op = "call" /\ LeavesBy("throw")
    BY <2>1, <2>4, LeavesDropped DEF LeavesBy, Flushes
  <2>5. CASE CallMade /\ LeavesBy("indirect throw")
    BY <2>1, <2>5, LeavesDropped DEF LeavesBy
  <2>6. CASE ReturnMade /\ LeavesBy("return")
    BY <2>1, <2>6, LeavesDropped DEF LeavesBy, ReturnMade
  <2> QED BY <2>1, <2>2, <2>3, <2>4, <2>5, <2>6
<1>6. CASE RunEnds
  BY <1>6, DroppedSame DEF RunEnds, fixedVars, passVars, runVars
<1> QED BY <1>1, <1>2, <1>3, <1>4, <1>5, <1>6 DEF Next

-----------------------------------------------------------------------------
(* The theorems.                                                           *)

LEMMA InitTypes ==
  ASSUME Init
  PROVE  TypeInv
<1>1. func \in Functions /\ env \in Envs /\ func.runtime \in BOOLEAN
  BY FunctionsAssumption DEF Init
<1>2. phase \in {"scan", "insert"} /\ at \in Positions /\ blocks \in 1..MaxBlocks
  BY <1>1, EntryThere, BlocksAssumption DEF Init
<1>3. /\ LocalLoadsAndStores \in Seq(Positions) /\ AllLoadsAndStores \subseteq Positions
      /\ DOMAIN inserted = Positions /\ left = NULL
      /\ memoryLocations \in [Addrs -> Action \union {NULL}]
  BY DEF Init
<1>4. reported \in Seq(Seq(Addrs)) /\ performed \in Seq(History) /\ copied \in Seq(Addrs \X Addrs)
  BY DEF Init
<1>5. active \in BOOLEAN /\ inTask \in BOOLEAN
  BY DEF Init
<1> QED BY <1>1, <1>2, <1>3, <1>4, <1>5 DEF TypeInv

LEMMA InitScan ==
  ASSUME Init, TypeInv
  PROVE  ScanInv
<1>1. /\ LocalLoadsAndStores = <<>> /\ AllLoadsAndStores = {} /\ at = Entry /\ func \in Functions
      /\ phase = "scan" <=> Treated
  BY FunctionsAssumption DEF Init, Treated
<1>2. at[1] = 1 /\ at[2] = 1
  BY <1>1 DEF Entry
<1>3. \A p \in Positions : p[1] \in Nat /\ p[2] \in Nat /\ p[1] >= 1 /\ p[2] >= 1
  BY <1>1, PositionOf
<1>4. \A p \in Positions : ~(p[2] < at[2]) /\ ~Before(p, at)
  BY <1>2, <1>3 DEF Before
<1>5. DOMAIN LocalLoadsAndStores = {}
  BY <1>1
<1>6. LocalInv
  BY <1>4, <1>5 DEF LocalInv
<1>7. ChosenInv
  BY <1>1, <1>4 DEF ChosenInv
<1> QED BY <1>1, <1>6, <1>7 DEF ScanInv

LEMMA InitRest ==
  ASSUME Init, TypeInv
  PROVE  TodoInv /\ TaskInv /\ ReportInv /\ MemoryInv /\ DroppedInv
<1>1. /\ phase \in {"scan", "insert"} /\ at = Entry /\ left = NULL /\ flushed = <<>> /\ reported = <<>>
      /\ performed = <<>> /\ copied = <<>> /\ memoryLocations = [x \in Addrs |-> NULL]
      /\ inTask \in BOOLEAN /\ (TaskBody => inTask) /\ active = (inTask /\ ~TaskBody)
  BY DEF Init
<1>2. ~Told /\ ~Finished
  BY <1>1, NullAssumption DEF Told, Finished
<1>3. TodoInv
  BY <1>1 DEF TodoInv
<1>4. TaskInv
  BY <1>1, <1>2 DEF TaskInv
<1>5. DOMAIN copied = {} /\ Len(reported) = Len(copied) + 0
  BY <1>1
<1>6. ReportInv
  BY <1>1, <1>2, <1>5 DEF ReportInv
<1>7. DOMAIN performed = {}
  BY <1>1
<1>8. MemoryInv
  BY <1>1, <1>2, <1>7 DEF MemoryInv, IsOutcome, KeptAt
<1>9. DroppedInv
  BY <1>7 DEF DroppedInv
<1> QED BY <1>3, <1>4, <1>6, <1>8, <1>9

\* The invariant is inductive.
THEOREM Inductive == Spec => []IInv
<1>1. Init => IInv
  BY InitTypes, InitScan, InitRest DEF IInv
<1>2. IInv /\ [Next]_vars => IInv'
  <2> SUFFICES ASSUME IInv, [Next]_vars PROVE IInv'
    OBVIOUS
  <2>1. TypeInv /\ ScanInv /\ TodoInv /\ TaskInv /\ ReportInv /\ MemoryInv /\ DroppedInv
    BY DEF IInv
  <2>2. TypeInv'
    BY <2>1, TypesKept
  <2>3. ScanInv' /\ TodoInv' /\ TaskInv' /\ ReportInv'
    BY <2>1, ScanKept, TodoKept, TaskKept, ReportKept
  <2>4. MemoryInv'
    BY <2>1, <2>2, MemoryKept
  <2>5. DroppedInv'
    BY <2>1, DroppedKept
  <2> QED BY <2>2, <2>3, <2>4, <2>5 DEF IInv
<1> QED BY <1>1, <1>2, PTL DEF Spec

LEMMA CountedTold ==
  ASSUME IInv
  PROVE  Len(copied) \in Nat /\ DOMAIN copied = 1..Len(copied) /\ \A k \in DOMAIN copied : copied[k] \in Addrs \X Addrs
<1>1. copied \in Seq(Addrs \X Addrs)
  BY DEF IInv, TypeInv
<1> QED BY <1>1, LenProperties, ElementOfSeq

\* Every variable has its type: the accesses chosen are loads and stores of the function,
\* what an address remembers is an access of it, and at most one block is written.
THEOREM TypeCorrect == Spec => []TypeOK
<1>1. IInv => TypeOK
  <2> SUFFICES ASSUME IInv PROVE TypeOK
    OBVIOUS
  <2>1. TypeInv /\ ChosenInv /\ TaskInv /\ ReportInv
    BY DEF IInv, ScanInv
  <2>2. AllLoadsAndStores \subseteq {p \in Positions : Code(p).op \in {"load", "store"}}
    BY <2>1 DEF TypeInv, ChosenInv, Chosen, IsLoadOrStore
  <2>3. Len(flushed) <= 1
    <3>1. flushed = <<memoryLocations>> \/ flushed = <<>>
      BY <2>1 DEF TaskInv
    <3>2. Len(<<>>) = 0 /\ Len(<<memoryLocations>>) = 1
      OBVIOUS
    <3>3. CASE flushed = <<memoryLocations>>
      BY <3>2, <3>3
    <3>4. CASE flushed = <<>>
      BY <3>2, <3>4
    <3> QED BY <3>1, <3>3, <3>4
  <2>4. Len(reported) <= Len(copied) + 1
    <3>1. Len(copied) \in Nat
      BY CountedTold
    <3>2. CASE Teller
      BY <2>1, <3>1, <3>2 DEF ReportInv
    <3>3. CASE ~Teller
      <4>1. Len(reported) = 0
        BY <2>1, <3>3 DEF ReportInv
      <4> QED BY <3>1, <4>1
    <3> QED BY <3>2, <3>3
  <2> QED BY <2>1, <2>2, <2>3, <2>4 DEF TypeInv, TypeOK, Action
<1> QED BY <1>1, Inductive, PTL

\* Whatever the code of a task, and of PassToken, the tracer is told of every token that is
\* copied before it is, with the right addresses.
THEOREM TokensToldFirst == Spec => []TokensReported
<1>1. IInv => TokensReported
  <2> SUFFICES ASSUME IInv, Teller
               PROVE  /\ Len(reported) \in {Len(copied), Len(copied) + 1}
                      /\ TaskBody => \A k \in DOMAIN copied : reported[k] = <<copied[k][2]>>
                      /\ ~TaskBody => \A k \in DOMAIN copied : reported[k] = copied[k]
    BY DEF TokensReported, Teller, TaskBody
  <2>1. /\ Len(reported) = Len(copied) + IF Told /\ Tells(at) THEN 1 ELSE 0
        /\ \A k \in DOMAIN copied : reported[k] = Tale(copied[k][1], copied[k][2])
    BY DEF IInv, ReportInv
  <2>2. Len(copied) \in Nat /\ \A k \in DOMAIN copied : copied[k] = <<copied[k][1], copied[k][2]>>
    BY CountedTold
  <2>3. Len(reported) \in {Len(copied), Len(copied) + 1}
    BY <2>1, <2>2
  <2> QED BY <2>1, <2>2, <2>3, Zenon DEF Tale
<1> QED BY <1>1, Inductive, PTL

\* The reads that have no callback make no difference once each is followed by a write
\* that has one.
LEMMA SameOutcome ==
  ASSUME IInv, NEW x \in Addrs, NEW m,
         IsOutcome(performed, m, KeptAt(performed, AllLoadsAndStores, x)),
         \A k \in DOMAIN performed :
           Dropped(performed[k], AllLoadsAndStores) =>
             ~performed[k].isWrite /\ Killed(performed, AllLoadsAndStores, k)
  PROVE  m = Outcome(x, {"plain", "called"})
<1> DEFINE made   == {k \in DOMAIN performed : performed[k].addr = x /\ performed[k].how \in {"plain", "called"}}
           writes == {k \in made : performed[k].isWrite}
           K      == KeptAt(performed, AllLoadsAndStores, x)
           line(k) == [line |-> performed[k].line, isWrite |-> performed[k].isWrite]
<1>1. Outcome(x, {"plain", "called"}) =
        IF made = {} THEN NULL ELSE IF writes = {} THEN line(Min(made)) ELSE line(Max(writes))
  BY DEF Outcome
<1>2. DOMAIN performed \subseteq Nat
  <2>1. performed \in Seq(History)
    BY DEF IInv, TypeInv
  <2> QED BY <2>1
<1>3. K \subseteq made /\ made \subseteq DOMAIN performed
  BY DEF KeptAt, Kept
<1>4. \A k \in made : k \in K \/ (~performed[k].isWrite /\ \E j \in K : performed[j].isWrite)
  BY DEF KeptAt, Kept, Dropped, Killed
<1>5. \A k : line(k) = Line(performed[k])
  BY DEF Line
<1>6. \/ K = {} /\ m = NULL
      \/ \E k \in K : /\ m = Line(performed[k])
                      /\ IF performed[k].isWrite THEN \A j \in K : performed[j].isWrite => j <= k
                         ELSE \A j \in K : ~performed[j].isWrite /\ k <= j
  BY DEF IsOutcome
<1>7. \A k \in writes : k \in made /\ performed[k].isWrite
  OBVIOUS
<1>8. \A k \in made : performed[k].isWrite => k \in writes
  OBVIOUS
<1> HIDE DEF made, writes, K, line
<1>9. CASE K = {}
  <2>1. made = {}
    BY <1>4, <1>9
  <2> QED BY <1>1, <1>6, <1>9, <2>1
<1>10. ASSUME NEW k \in K, m = Line(performed[k]), performed[k].isWrite,
              \A j \in K : performed[j].isWrite => j <= k
       PROVE  m = Outcome(x, {"plain", "called"})
  <2>1. k \in writes /\ \A j \in writes : j <= k
    BY <1>3, <1>4, <1>7, <1>8, <1>10
  <2>2. Max(writes) \in writes /\ \A j \in writes : j <= Max(writes)
    BY <2>1 DEF Max
  <2>3. \A j \in writes : j \in Nat
    BY <1>2, <1>3, <1>7
  <2>4. Max(writes) = k
    BY <2>1, <2>2, <2>3
  <2>5. made # {} /\ writes # {}
    BY <1>3, <2>1
  <2> QED BY <1>1, <1>5, <1>10, <2>4, <2>5
<1>11. ASSUME NEW k \in K, m = Line(performed[k]), \A j \in K : ~performed[j].isWrite /\ k <= j
       PROVE  m = Outcome(x, {"plain", "called"})
  <2>1. \A j \in made : j \in K
    BY <1>4, <1>11
  <2>2. writes = {}
    BY <1>7, <1>11, <2>1
  <2>3. k \in made /\ \A j \in made : k <= j
    BY <1>3, <1>11, <2>1
  <2>4. Min(made) \in made /\ \A j \in made : Min(made) <= j
    BY <2>3 DEF Min
  <2>5. \A j \in made : j \in Nat
    BY <1>2, <1>3
  <2>6. Min(made) = k
    BY <2>3, <2>4, <2>5
  <2> QED BY <1>1, <1>5, <1>11, <2>2, <2>3, <2>6
<1> QED BY <1>6, <1>9, <1>10, <1>11

\* The accesses that are left without a callback are never missed: whatever path the code
\* takes and whichever pointers hold one address, the block of the task says of each address
\* what the code and what it called did there last; and no block is written outside of a task.
THEOREM TaskLogged == Spec => []AccessesLogged
<1>1. IInv => AccessesLogged
  <2> SUFFICES ASSUME IInv PROVE AccessesLogged
    OBVIOUS
  <2>1. TypeInv /\ TaskInv /\ MemoryInv /\ DroppedInv
    BY DEF IInv
  <2>2. ASSUME TaskOver PROVE flushed = <<[x \in Addrs |-> Outcome(x, {"plain", "called"})]>>
    <3>1. phase = "over" /\ inTask /\ left # "indirect throw" /\ (TaskBody => left = "return") /\ ~Told
      BY <2>2 DEF TaskOver, Told
    <3>2. flushed = <<memoryLocations>>
      BY <2>1, <3>1 DEF TaskInv, Finished
    <3>3. \A k \in DOMAIN performed :
            Dropped(performed[k], AllLoadsAndStores) =>
              ~performed[k].isWrite /\ Killed(performed, AllLoadsAndStores, k)
      BY <2>1, <3>1 DEF DroppedInv
    <3>4. ASSUME NEW x \in Addrs PROVE memoryLocations[x] = Outcome(x, {"plain", "called"})
      <4>1. IsOutcome(performed, memoryLocations[x], KeptAt(performed, AllLoadsAndStores, x))
        BY <2>1, <3>1, MemoryNow
      <4> QED BY <3>3, <4>1, SameOutcome
    <3>5. memoryLocations = [x \in Addrs |-> Outcome(x, {"plain", "called"})]
      <4>1. memoryLocations \in [Addrs -> Action \union {NULL}]
        BY <2>1 DEF TypeInv
      <4> QED BY <3>4, <4>1
    <3> QED BY <3>2, <3>5, Zenon
  <2>3. ASSUME ~inTask PROVE flushed = <<>> /\ \A x \in Addrs : memoryLocations[x] = NULL
    <3>1. ~Finished
      <4>1. ~TaskBody
        BY <2>1, <2>3 DEF TaskInv
      <4> QED BY <4>1 DEF Finished, Finishes
    <3> QED BY <2>1, <2>3, <3>1 DEF TaskInv, MemoryInv
  <2> QED BY <2>2, <2>3 DEF AccessesLogged
<1> QED BY <1>1, Inductive, PTL
=============================================================================

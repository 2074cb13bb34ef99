--------------------------- MODULE ValidatorProofs ---------------------------
(***************************************************************************)
(* Theorems about module Validator, for any code, any number of sections,  *)
(* pairs of tasks and conflicts: the walk back over a body decides by the  *)
(* data flow that module TaskCode defines, and so do the verdicts, in      *)
(* whatever order the reports are visited.                                 *)
(*                                                                         *)
(* The recursive functions of both modules reach the provers as choices of *)
(* a function that satisfies an equation.  So it is first proved that such *)
(* functions exist and have the values of the equation, by the least       *)
(* number that a statement fails for; the same argument then goes along    *)
(* the instructions of a body.                                             *)
(***************************************************************************)
EXTENDS Validator, FiniteSetTheorems, SequenceTheorems, TLAPS

-----------------------------------------------------------------------------
(* Induction over a range of numbers, and recursion.                       *)

\* A set of numbers has a least one: there is no endless descent.
LEMMA LeastNat ==
  ASSUME NEW S \in SUBSET Nat, S # {}
  PROVE  \E m \in S : \A n \in S : ~(n < m)
<1>1. \E m \in S : \A n \in S : <<n, m>> \notin OpToRel(<, Nat)
  BY WFMin, NatLessThanWellFounded
<1> QED BY <1>1 DEF OpToRel

\* A set that has 0, and with each number the next one, has all up to N.
LEMMA UpInduction ==
  ASSUME NEW N \in Nat, NEW S, 0 \in S, \A n \in 0..(N - 1) : n \in S => n + 1 \in S
  PROVE  \A n \in 0..N : n \in S
<1> DEFINE T == {n \in 0..N : n \notin S}
<1>1. SUFFICES ASSUME T # {} PROVE FALSE
  OBVIOUS
<1>2. T \in SUBSET Nat
  OBVIOUS
<1>3. PICK m \in T : \A n \in T : ~(n < m)
  <2> HIDE DEF T
  <2> QED BY <1>1, <1>2, LeastNat
<1>4. m # 0 /\ m \in 0..N
  OBVIOUS
<1>5. m - 1 \in 0..(N - 1) /\ m - 1 \notin T
  BY <1>3, <1>4
<1>6. m - 1 \in S
  BY <1>5
<1>7. m \in S
  BY <1>4, <1>5, <1>6
<1> QED BY <1>7

\* A function with the first value base that goes on by step.
Follows(f, N, base, step) ==
  f[0] = base /\ \A n \in 1..N : f[n] = step[<<n, f[n - 1]>>]

\* There is such a function, for any base and step.
LEMMA Recursion ==
  ASSUME NEW N \in Nat, NEW V, NEW base \in V, NEW step \in [(1..N) \X V -> V]
  PROVE  \E f \in [0..N -> V] : Follows(f, N, base, step)
<1> DEFINE Fits(m, f) == f[0] = base /\ \A n \in 1..m : f[n] = step[<<n, f[n - 1]>>]
           S == {m \in 0..N : \E f \in [0..m -> V] : Fits(m, f)}
<1>1. 0 \in S
  <2> DEFINE g == [k \in 0..0 |-> base]
  <2>1. g \in [0..0 -> V] /\ Fits(0, g)
    OBVIOUS
  <2> HIDE DEF g, Fits
  <2> QED BY <2>1
<1>2. ASSUME NEW m \in 0..(N - 1), m \in S
      PROVE  m + 1 \in S
  <2>1. PICK f \in [0..m -> V] : Fits(m, f)
    BY <1>2
  <2> DEFINE next == step[<<m + 1, f[m]>>]
             g    == [k \in 0..(m + 1) |-> IF k <= m THEN f[k] ELSE next]
  <2>2. next \in V
    OBVIOUS
  <2> HIDE DEF next
  <2>3. /\ \A k \in 0..m : g[k] = f[k]
        /\ g[m + 1] = next
        /\ g \in [0..(m + 1) -> V]
    BY <2>2
  <2> HIDE DEF g
  <2>4. g[0] = base
    BY <2>1, <2>3
  <2>5. ASSUME NEW n \in 1..(m + 1)
        PROVE  g[n] = step[<<n, g[n - 1]>>]
    <3>1. CASE n \in 1..m
      <4>1. n \in 0..m /\ n - 1 \in 0..m
        BY <3>1
      <4> QED BY <2>1, <2>3, <3>1, <4>1
    <3>2. CASE n = m + 1
      <4>1. g[n - 1] = f[m]
        BY <2>3, <3>2
      <4> QED BY <2>3, <3>2, <4>1 DEF next
    <3> QED BY <3>1, <3>2
  <2>6. Fits(m + 1, g)
    BY <2>4, <2>5
  <2>7. m + 1 \in 0..N
    OBVIOUS
  <2> HIDE DEF Fits
  <2> QED BY <2>3, <2>6, <2>7
<1>3. N \in S
  <2> HIDE DEF S
  <2> QED BY <1>1, <1>2, UpInduction
<1> QED BY <1>3 DEF Follows

-----------------------------------------------------------------------------
(* What is wanted on the way to a value.                                   *)

\* The names wanted before instruction i, of those wanted after it.
Before(i, wanted) ==
  IF i.destination \notin wanted THEN wanted
  ELSE CASE i.oper = "ALLOCA" -> wanted \ {i.destination}
         [] i.oper \in {"BITCAST", "STORE", "LOAD"} ->
              (wanted \ {i.destination}) \union {i.operand1}
         [] i.oper \in Arith ->
              (wanted \ {i.destination}) \union {i.operand1, i.operand2}
         [] OTHER -> wanted

\* The recursion that Wanted stands for.
Backwards(code, index, operand, w) ==
  w = [k \in 0..index |-> IF k = index THEN {operand} ELSE Before(code[k + 1], w[k + 1])]

\* The values that w has.
IsWanted(code, index, operand, w) ==
  /\ w \in [0..index -> SUBSET Operands]
  /\ w[index] = {operand}
  /\ \A k \in 0..(index - 1) : w[k] = Before(code[k + 1], w[k + 1])

LEMMA WantedChosen ==
  ASSUME NEW code, NEW index, NEW operand
  PROVE  Wanted(code, index, operand) = CHOOSE w : Backwards(code, index, operand, w)
BY DEF Wanted, Backwards, Before

LEMMA BeforeType ==
  ASSUME NEW i \in Instruction, NEW wanted \in SUBSET Operands
  PROVE  Before(i, wanted) \in SUBSET Operands
BY DEF Before, Instruction

\* Each name wanted before is wanted for the sake of one that is wanted after.
LEMMA BeforeEach ==
  ASSUME NEW i \in Instruction, NEW wanted, NEW n
  PROVE  n \in Before(i, wanted) <=> \E m \in wanted : n \in Before(i, {m})
<1>1. CASE i.destination \notin wanted
  BY <1>1 DEF Before
<1>2. CASE i.destination \in wanted /\ i.oper = "ALLOCA"
  BY <1>2 DEF Before
<1>3. CASE i.destination \in wanted /\ i.oper \in {"BITCAST", "STORE", "LOAD"}
  BY <1>3 DEF Before
<1>4. CASE i.destination \in wanted /\ i.oper \in Arith
  BY <1>4 DEF Before, Arith, Sums, Products
<1>5. CASE /\ i.destination \in wanted
           /\ i.oper \notin {"ALLOCA", "BITCAST", "STORE", "LOAD"} \union Arith
  BY <1>5 DEF Before
<1> QED BY <1>1, <1>2, <1>3, <1>4, <1>5

\* Wanted has the values of its definition, position by position.
LEMMA WantedSteps ==
  ASSUME NEW code \in Seq(Instruction), NEW index \in 0..Len(code), NEW operand \in Operands
  PROVE  IsWanted(code, index, operand, Wanted(code, index, operand))
<1> DEFINE V == SUBSET Operands
           step == [p \in (1..index) \X V |-> Before(code[index - p[1] + 1], p[2])]
<1>1. step \in [(1..index) \X V -> V]
  <2>1. ASSUME NEW p \in (1..index) \X V
        PROVE  Before(code[index - p[1] + 1], p[2]) \in V
    <3>1. p[1] \in 1..index /\ p[2] \in SUBSET Operands
      OBVIOUS
    <3>2. index - p[1] + 1 \in 1..Len(code)
      BY <3>1
    <3>3. code[index - p[1] + 1] \in Instruction
      BY <3>2
    <3> QED BY <3>1, <3>3, BeforeType
  <2> QED BY <2>1
<1>2. \A n \in 1..index, x \in V : step[<<n, x>>] = Before(code[index - n + 1], x)
  OBVIOUS
<1> HIDE DEF step
<1>3. PICK f \in [0..index -> V] : Follows(f, index, {operand}, step)
  <2>1. {operand} \in V /\ index \in Nat
    OBVIOUS
  <2> HIDE DEF V
  <2> QED BY <1>1, <2>1, Recursion
<1> DEFINE w == [k \in 0..index |-> f[index - k]]
<1>4. /\ w \in [0..index -> SUBSET Operands]
      /\ w[index] = {operand}
  BY <1>3 DEF Follows
<1>5. ASSUME NEW k \in 0..(index - 1)
      PROVE  w[k] = Before(code[k + 1], w[k + 1])
  <2>1. /\ index - k \in 1..index /\ index - k - 1 = index - (k + 1)
        /\ index - (index - k) + 1 = k + 1 /\ k + 1 \in 0..index
    OBVIOUS
  <2>2. f[index - (k + 1)] \in V
    BY <2>1
  <2>3. f[index - k] = Before(code[k + 1], f[index - (k + 1)])
    BY <1>2, <1>3, <2>1, <2>2 DEF Follows
  <2> QED BY <2>1, <2>3
<1> HIDE DEF w
<1>6. Backwards(code, index, operand, w)
  <2>1. w = [k \in 0..index |-> w[k]]
    BY <1>4
  <2>2. \A k \in 0..index :
          w[k] = IF k = index THEN {operand} ELSE Before(code[k + 1], w[k + 1])
    BY <1>4, <1>5
  <2> QED BY <2>1, <2>2 DEF Backwards
<1> DEFINE u == Wanted(code, index, operand)
<1>7. Backwards(code, index, operand, u)
  BY <1>6, WantedChosen
<1> HIDE DEF u
<1>8. /\ DOMAIN u = 0..index /\ u[index] = {operand}
      /\ \A k \in 0..(index - 1) : u[k] = Before(code[k + 1], u[k + 1])
  <2>1. DOMAIN u = 0..index /\ \A k \in 0..index :
          u[k] = IF k = index THEN {operand} ELSE Before(code[k + 1], u[k + 1])
    BY <1>7 DEF Backwards
  <2>2. index \in 0..index
    OBVIOUS
  <2> QED BY <2>1, <2>2
<1>9. \A k \in 0..index : u[k] = w[k]
  <2> DEFINE S == {j \in 0..index : u[index - j] = w[index - j]}
  <2>1. 0 \in S
    <3>1. u[index] = w[index]
      BY <1>4, <1>8
    <3>2. index - 0 = index /\ 0 \in 0..index
      OBVIOUS
    <3> QED BY <3>1, <3>2
  <2>2. ASSUME NEW j \in 0..(index - 1), j \in S
        PROVE  j + 1 \in S
    <3>1. /\ index - (j + 1) \in 0..(index - 1) /\ index - (j + 1) + 1 = index - j
          /\ j + 1 \in 0..index
      OBVIOUS
    <3>2. u[index - j] = w[index - j]
      BY <2>2
    <3>3. u[index - (j + 1)] = w[index - (j + 1)]
      BY <1>5, <1>8, <3>1, <3>2
    <3> QED BY <3>1, <3>3
  <2>3. \A j \in 0..index : j \in S
    <3> HIDE DEF S
    <3> QED BY <2>1, <2>2, UpInduction
  <2>4. ASSUME NEW k \in 0..index
        PROVE  u[k] = w[k]
    <3>1. index - k \in 0..index /\ index - (index - k) = k
      OBVIOUS
    <3> QED BY <2>3, <3>1
  <2> QED BY <2>4
<1>10. u \in [0..index -> SUBSET Operands]
  <2>1. u = [k \in 0..index |-> u[k]]
    BY <1>7 DEF Backwards
  <2> QED BY <1>4, <1>9, <2>1
<1> QED BY <1>8, <1>10 DEF u, IsWanted

\* What is wanted at k is wanted for one of the values that the last instruction
\* takes.
SplitAt(code, index, operand, k) ==
  \A n : n \in Wanted(code, index, operand)[k] <=>
    \E m \in Before(code[index], {operand}) : n \in Wanted(code, index - 1, m)[k]

\* It is so at every position before that instruction.
LEMMA WantedSplit ==
  ASSUME NEW code \in Seq(Instruction), NEW index \in 1..Len(code), NEW operand \in Operands,
         NEW k \in 0..(index - 1)
  PROVE  SplitAt(code, index, operand, k)
<1> DEFINE M == Before(code[index], {operand})
           w == Wanted(code, index, operand)
           u(m) == Wanted(code, index - 1, m)
           Agree(j) == \A n : n \in w[j] <=> \E m \in M : n \in u(m)[j]
<1>1. code[index] \in Instruction
  OBVIOUS
<1>2. M \subseteq Operands
  BY <1>1, BeforeType
<1>3. /\ w[index] = {operand}
      /\ \A j \in 0..(index - 1) : w[j] = Before(code[j + 1], w[j + 1])
  <2>1. index \in 0..Len(code)
    OBVIOUS
  <2>2. IsWanted(code, index, operand, w)
    BY <2>1, WantedSteps
  <2> QED BY <2>2 DEF IsWanted
<1>4. ASSUME NEW m \in M
      PROVE  /\ u(m)[index - 1] = {m}
             /\ \A j \in 0..(index - 2) : u(m)[j] = Before(code[j + 1], u(m)[j + 1])
  <2>1. index - 1 \in 0..Len(code) /\ index - 1 - 1 = index - 2
    OBVIOUS
  <2> HIDE DEF M
  <2>2. m \in Operands
    BY <1>2
  <2>3. IsWanted(code, index - 1, m, u(m))
    BY <2>1, <2>2, WantedSteps
  <2> HIDE DEF u
  <2> QED BY <2>1, <2>3 DEF IsWanted
<1>5. Agree(index - 1)
  <2>1. index - 1 \in 0..(index - 1) /\ index - 1 + 1 = index
    OBVIOUS
  <2>2. w[index - 1] = M
    BY <1>3, <2>1
  <2> HIDE DEF w, M, u
  <2> QED BY <1>4, <2>2
<1>6. ASSUME NEW j \in 0..(index - 2), Agree(j + 1)
      PROVE  Agree(j)
  <2>1. code[j + 1] \in Instruction
    OBVIOUS
  <2> DEFINE i == code[j + 1]
  <2>2. w[j] = Before(i, w[j + 1])
    BY <1>3
  <2>3. \A m \in M : u(m)[j] = Before(i, u(m)[j + 1])
    BY <1>4
  <2> HIDE DEF w, M, u, i
  <2>4. ASSUME NEW n
        PROVE  n \in w[j] <=> \E m \in M : n \in u(m)[j]
    <3>1. i \in Instruction
      BY <2>1 DEF i
    <3>2. \A wanted : n \in Before(i, wanted) <=> \E x \in wanted : n \in Before(i, {x})
      BY <3>1, BeforeEach
    <3>3. n \in w[j] <=> \E x \in w[j + 1] : n \in Before(i, {x})
      BY <2>2, <3>2
    <3>4. \A m \in M : n \in u(m)[j] <=> \E x \in u(m)[j + 1] : n \in Before(i, {x})
      BY <2>3, <3>2
    <3> QED BY <1>6, <3>3, <3>4
  <2> QED BY <2>4
<1> DEFINE S == {j \in 0..(index - 1) : Agree(index - 1 - j)}
<1>7. 0 \in S
  <2>1. index - 1 - 0 = index - 1 /\ 0 \in 0..(index - 1)
    OBVIOUS
  <2> HIDE DEF Agree
  <2> QED BY <1>5, <2>1
<1>8. ASSUME NEW j \in 0..(index - 1 - 1), j \in S
      PROVE  j + 1 \in S
  <2>1. /\ index - 1 - (j + 1) \in 0..(index - 2) /\ j + 1 \in 0..(index - 1)
        /\ index - 1 - (j + 1) + 1 = index - 1 - j
    OBVIOUS
  <2> HIDE DEF Agree
  <2>2. Agree(index - 1 - j)
    BY <1>8
  <2>3. Agree(index - 1 - (j + 1))
    BY <1>6, <2>1, <2>2
  <2> QED BY <2>1, <2>3
<1>9. \A j \in 0..(index - 1) : j \in S
  <2>1. index - 1 \in Nat
    OBVIOUS
  <2> HIDE DEF S
  <2> QED BY <1>7, <1>8, <2>1, UpInduction
<1>10. Agree(k)
  <2>1. index - 1 - k \in 0..(index - 1) /\ index - 1 - (index - 1 - k) = k
    OBVIOUS
  <2> HIDE DEF Agree
  <2> QED BY <1>9, <2>1
<1> QED BY <1>10 DEF SplitAt

\* The operations on the way to a value are that of the last instruction, if it
\* sets the value, and those on the way to the values it takes.
LEMMA OperationsSplit ==
  ASSUME NEW code \in Seq(Instruction), NEW index \in 1..Len(code), NEW operand \in Operands
  PROVE  \A op : op \in OperationsFor(code, index, operand) <=>
           \/ /\ op = code[index].oper /\ op \in Arith
              /\ code[index].destination = operand
           \/ \E m \in Before(code[index], {operand}) : op \in OperationsFor(code, index - 1, m)
<1> DEFINE w == Wanted(code, index, operand)
           M == Before(code[index], {operand})
           u(m) == Wanted(code, index - 1, m)
           sets(k, x) == code[k].oper \in Arith /\ code[k].destination \in x
<1>1. w[index] = {operand}
  <2>1. index \in 0..Len(code)
    OBVIOUS
  <2>2. IsWanted(code, index, operand, w)
    BY <2>1, WantedSteps
  <2> QED BY <2>2 DEF IsWanted
<1>2. ASSUME NEW k \in 1..(index - 1)
      PROVE  \A n : n \in w[k] <=> \E m \in M : n \in u(m)[k]
  <2>1. k \in 0..(index - 1)
    OBVIOUS
  <2>2. SplitAt(code, index, operand, k)
    BY <2>1, WantedSplit
  <2> QED BY <2>2 DEF SplitAt
<1>3. ASSUME NEW op
      PROVE  op \in OperationsFor(code, index, operand)
             <=> \E k \in 1..index : sets(k, w[k]) /\ op = code[k].oper
  BY DEF OperationsFor
<1>4. ASSUME NEW op, NEW m
      PROVE  op \in OperationsFor(code, index - 1, m)
             <=> \E k \in 1..(index - 1) : sets(k, u(m)[k]) /\ op = code[k].oper
  BY DEF OperationsFor
<1>5. index \in 1..index /\ \A k \in 1..index : k = index \/ k \in 1..(index - 1)
  OBVIOUS
<1>6. \A k \in 1..(index - 1) : k \in 1..index
  OBVIOUS
<1> HIDE DEF w, u, M
<1>7. ASSUME NEW op
      PROVE  op \in OperationsFor(code, index, operand) <=>
               \/ sets(index, {operand}) /\ op = code[index].oper
               \/ \E m \in M : op \in OperationsFor(code, index - 1, m)
  <2>1. op \in OperationsFor(code, index, operand) <=>
          \/ sets(index, {operand}) /\ op = code[index].oper
          \/ \E k \in 1..(index - 1) : sets(k, w[k]) /\ op = code[k].oper
    BY <1>1, <1>3, <1>5, <1>6
  <2>2. \A k \in 1..(index - 1) : sets(k, w[k]) <=> \E m \in M : sets(k, u(m)[k])
    BY <1>2
  <2> HIDE DEF sets
  <2> QED BY <1>4, <2>1, <2>2
<1> QED BY <1>7 DEF M

\* A value is passed on by the last instruction, or one it takes was before.
LEMMA PassedSplit ==
  ASSUME NEW code \in Seq(Instruction), NEW index \in 1..Len(code), NEW operand \in Operands
  PROVE  PassedOn(code, index, operand) <=>
           \/ code[index].oper = "CALL" /\ Mentions(code[index], operand)
           \/ \E m \in Before(code[index], {operand}) : PassedOn(code, index - 1, m)
<1> DEFINE w == Wanted(code, index, operand)
           M == Before(code[index], {operand})
           u(m) == Wanted(code, index - 1, m)
           told(k, x) == code[k].oper = "CALL" /\ \E n \in x : Mentions(code[k], n)
<1>1. w[index] = {operand}
  <2>1. index \in 0..Len(code)
    OBVIOUS
  <2>2. IsWanted(code, index, operand, w)
    BY <2>1, WantedSteps
  <2> QED BY <2>2 DEF IsWanted
<1>2. ASSUME NEW k \in 1..(index - 1)
      PROVE  \A n : n \in w[k] <=> \E m \in M : n \in u(m)[k]
  <2>1. k \in 0..(index - 1)
    OBVIOUS
  <2>2. SplitAt(code, index, operand, k)
    BY <2>1, WantedSplit
  <2> QED BY <2>2 DEF SplitAt
<1>3. PassedOn(code, index, operand) <=> \E k \in 1..index : told(k, w[k])
  BY DEF PassedOn
<1>4. \A m : PassedOn(code, index - 1, m) <=> \E k \in 1..(index - 1) : told(k, u(m)[k])
  BY DEF PassedOn
<1>5. /\ index \in 1..index
      /\ \A k \in 1..index : k = index \/ k \in 1..(index - 1)
      /\ \A k \in 1..(index - 1) : k \in 1..index
  OBVIOUS
<1> HIDE DEF w, u, M
<1>6. \A k \in 1..(index - 1) : told(k, w[k]) <=> \E m \in M : told(k, u(m)[k])
  BY <1>2
<1>7. told(index, w[index]) <=> code[index].oper = "CALL" /\ Mentions(code[index], operand)
  BY <1>1
<1> HIDE DEF told
<1> QED BY <1>3, <1>4, <1>5, <1>6, <1>7 DEF M

-----------------------------------------------------------------------------
(* The walk.                                                               *)

Outcome == [ok : BOOLEAN, ops : SUBSET Arith]

\* What the walk answers at an instruction, if it answers as f says at the one
\* before.
Back(i, f, name, ops) ==
  LET hit  == i.destination = name
      stop == [ok |-> FALSE, ops |-> ops]
  IN CASE i.oper = "ALLOCA" /\ hit -> [ok |-> TRUE, ops |-> ops]
       [] i.oper = "CALL" /\ Mentions(i, name) -> stop
       [] i.oper \in {"BITCAST", "STORE", "LOAD"} /\ hit -> f[i.operand1][ops]
       [] i.oper \in Arith /\ hit /\ ~IsCommutative(ops, i.oper) -> stop
       [] i.oper \in Arith /\ hit /\ IsCommutative(ops, i.oper) ->
            LET t1 == f[i.operand1][AppendOperation(ops, i.oper)]
                t2 == f[i.operand2][t1.ops]
            IN [ok |-> t1.ok /\ t2.ok, ops |-> t2.ops]
       [] OTHER -> f[name][ops]

\* The answers for every name and all operations seen before.
Rows == [Operands -> [SUBSET Arith -> Outcome]]
Start == [name \in Operands |-> [ops \in SUBSET Arith |-> [ok |-> TRUE, ops |-> ops]]]
Row(i, f) == [name \in Operands |-> [ops \in SUBSET Arith |-> Back(i, f, name, ops)]]

\* The recursion that IsSafe stands for.
Walks(body, f) ==
  f = [loc \in 0..Len(body) |-> [name \in Operands |-> [ops \in SUBSET Arith |->
         IF loc = 0 THEN [ok |-> TRUE, ops |-> ops]
         ELSE Back(body[loc], f[loc - 1], name, ops)]]]

Walk(body) == CHOOSE f : Walks(body, f)

\* IsSafe looks its answer up in one function of the body.
LEMMA IsSafeWalk ==
  ASSUME NEW body, NEW index, NEW operand, NEW seen
  PROVE  IsSafe(body, index, operand, seen) = Walk(body)[index][operand][seen]
BY DEF IsSafe, Walk, Walks, Back

LEMMA BackType ==
  ASSUME NEW i \in Instruction, NEW f \in Rows, NEW name \in Operands, NEW ops \in SUBSET Arith
  PROVE  Back(i, f, name, ops) \in Outcome
<1>1. i.operand1 \in Operands /\ i.operand2 \in Operands
  BY DEF Instruction
<1>2. \A n \in Operands, s \in SUBSET Arith :
        f[n][s] \in Outcome /\ f[n][s].ok \in BOOLEAN /\ f[n][s].ops \in SUBSET Arith
  BY DEF Rows, Outcome
<1>3. /\ [ok |-> TRUE, ops |-> ops] \in Outcome
      /\ [ok |-> FALSE, ops |-> ops] \in Outcome
  BY DEF Outcome
<1>4. f[name][ops] \in Outcome /\ f[i.operand1][ops] \in Outcome
  BY <1>1, <1>2
<1> DEFINE t1 == f[i.operand1][AppendOperation(ops, i.oper)]
           t2 == f[i.operand2][t1.ops]
<1>5. ASSUME i.oper \in Arith
      PROVE  [ok |-> t1.ok /\ t2.ok, ops |-> t2.ops] \in Outcome
  <2>1. AppendOperation(ops, i.oper) \in SUBSET Arith
    BY <1>5 DEF AppendOperation
  <2>2. t1.ok \in BOOLEAN /\ t1.ops \in SUBSET Arith
    BY <1>1, <1>2, <2>1
  <2>3. t2.ok \in BOOLEAN /\ t2.ops \in SUBSET Arith
    BY <1>1, <1>2, <2>2
  <2> QED BY <2>2, <2>3 DEF Outcome
<1> QED BY <1>3, <1>4, <1>5, Zenon DEF Back

LEMMA RowType ==
  ASSUME NEW i \in Instruction, NEW f \in Rows
  PROVE  Row(i, f) \in Rows
BY BackType DEF Row, Rows

\* A row as the recursion has it, which is Row but for the first.
Later(loc, i, f) ==
  [name \in Operands |-> [ops \in SUBSET Arith |->
     IF loc = 0 THEN [ok |-> TRUE, ops |-> ops] ELSE Back(i, f, name, ops)]]

LEMMA RowLater ==
  ASSUME NEW loc, loc # 0, NEW i, NEW f
  PROVE  Later(loc, i, f) = Row(i, f)
<1>1. ASSUME NEW name
      PROVE  [ops \in SUBSET Arith |->
                IF loc = 0 THEN [ok |-> TRUE, ops |-> ops] ELSE Back(i, f, name, ops)]
             = [ops \in SUBSET Arith |-> Back(i, f, name, ops)]
  OBVIOUS
<1> QED BY <1>1 DEF Row, Later

\* That function has the answers of its definition, instruction by instruction.
LEMMA WalkSteps ==
  ASSUME NEW body \in Seq(Instruction)
  PROVE  /\ Walk(body) \in [0..Len(body) -> Rows]
         /\ Walk(body)[0] = Start
         /\ \A loc \in 1..Len(body) : Walk(body)[loc] = Row(body[loc], Walk(body)[loc - 1])
<1> DEFINE N == Len(body)
           step == [p \in (1..N) \X Rows |-> Row(body[p[1]], p[2])]
<1>1. step \in [(1..N) \X Rows -> Rows]
  <2>1. ASSUME NEW p \in (1..N) \X Rows
        PROVE  Row(body[p[1]], p[2]) \in Rows
    <3>1. body[p[1]] \in Instruction /\ p[2] \in Rows
      OBVIOUS
    <3> QED BY <3>1, RowType
  <2> QED BY <2>1
<1>2. \A n \in 1..N, x \in Rows : step[<<n, x>>] = Row(body[n], x)
  OBVIOUS
<1>3. Start \in Rows
  BY DEF Start, Rows, Outcome
<1>4. N \in Nat
  OBVIOUS
<1> HIDE DEF step
<1>5. PICK f \in [0..N -> Rows] : Follows(f, N, Start, step)
  <2> HIDE DEF N
  <2> QED BY <1>1, <1>3, <1>4, Recursion
<1>6. f[0] = Start /\ \A loc \in 1..N : f[loc] = Row(body[loc], f[loc - 1])
  BY <1>2, <1>5 DEF Follows
<1>7. ASSUME NEW loc \in 0..N
      PROVE  f[loc] = [name \in Operands |-> [ops \in SUBSET Arith |->
                         IF loc = 0 THEN [ok |-> TRUE, ops |-> ops]
                         ELSE Back(body[loc], f[loc - 1], name, ops)]]
  <2>1. CASE loc = 0
    BY <1>6, <2>1 DEF Start
  <2>2. CASE loc \in 1..N
    <3>1. loc # 0
      BY <2>2
    <3>2. f[loc] = Row(body[loc], f[loc - 1])
      BY <1>6, <2>2
    <3>3. Later(loc, body[loc], f[loc - 1]) = Row(body[loc], f[loc - 1])
      BY <3>1, RowLater
    <3> QED BY <3>2, <3>3 DEF Later
  <2>3. loc = 0 \/ loc \in 1..N
    BY <1>4
  <2> HIDE DEF N
  <2> QED BY <2>1, <2>2, <2>3
<1>8. Walks(body, f)
  <2>1. f = [loc \in 0..N |-> f[loc]]
    BY <1>5
  <2> QED BY <1>7, <2>1 DEF Walks
<1> DEFINE g == Walk(body)
<1>9. Walks(body, g)
  BY <1>8 DEF Walk
<1> HIDE DEF g
<1>10. g[0] = Start
  BY <1>4, <1>9 DEF Walks, Start
<1>11. ASSUME NEW loc \in 1..N
       PROVE  g[loc] = Row(body[loc], g[loc - 1])
  <2>1. loc # 0 /\ loc \in 0..N
    OBVIOUS
  <2>2. g[loc] = Later(loc, body[loc], g[loc - 1])
    BY <1>9, <2>1 DEF Walks, Later
  <2>3. Later(loc, body[loc], g[loc - 1]) = Row(body[loc], g[loc - 1])
    BY <2>1, RowLater
  <2> QED BY <2>2, <2>3
<1>12. \A loc \in 0..N : g[loc] = f[loc]
  <2> DEFINE S == {loc \in 0..N : g[loc] = f[loc]}
  <2>1. 0 \in S
    <3>1. 0 \in 0..N
      BY <1>4
    <3> QED BY <1>6, <1>10, <3>1
  <2>2. ASSUME NEW loc \in 0..(N - 1), loc \in S
        PROVE  loc + 1 \in S
    <3>1. loc + 1 \in 1..N /\ loc + 1 \in 0..N /\ loc + 1 - 1 = loc
      OBVIOUS
    <3>2. g[loc] = f[loc]
      BY <2>2
    <3>3. g[loc + 1] = f[loc + 1]
      BY <1>6, <1>11, <3>1, <3>2
    <3> QED BY <3>1, <3>3
  <2>3. \A loc \in 0..N : loc \in S
    <3> HIDE DEF S, N
    <3> QED BY <1>4, <2>1, <2>2, UpInduction
  <2> QED BY <2>3
<1>13. g \in [0..N -> Rows]
  <2>1. DOMAIN g = 0..N /\ g = [loc \in 0..N |-> g[loc]]
    BY <1>9 DEF Walks
  <2> QED BY <1>5, <1>12, <2>1
<1> QED BY <1>10, <1>11, <1>13 DEF g

-----------------------------------------------------------------------------
(* The walk decides by the data flow.                                      *)

OneKind(ops) == ops \subseteq Sums \/ ops \subseteq Products

\* The answer r to the walk for name from position index, after operations ops:
\* safe if no call has part in the value and all operations are of one kind, and
\* then with all of them.
Right(r, body, index, name, ops) ==
  LET all == ops \union OperationsFor(body, index, name)
  IN /\ r.ok <=> (~PassedOn(body, index, name) /\ OneKind(all))
     /\ r.ok => r.ops = all

RightAll(body, index, row) ==
  \A name \in Operands, ops \in SUBSET Arith :
    OneKind(ops) => Right(row[name][ops], body, index, name, ops)

LEMMA CommutativeKind ==
  ASSUME NEW ops \in SUBSET Arith, OneKind(ops), NEW op \in Arith
  PROVE  IsCommutative(ops, op) <=> OneKind(AppendOperation(ops, op))
BY DEF IsCommutative, OneKind, AppendOperation, Arith, Sums, Products

\* The answers are right where the body begins.
LEMMA RightStart ==
  ASSUME NEW body
  PROVE  RightAll(body, 0, Start)
<1>1. ASSUME NEW name, NEW ops
      PROVE  OperationsFor(body, 0, name) = {} /\ ~PassedOn(body, 0, name)
  BY DEF OperationsFor, PassedOn
<1>2. ASSUME NEW name \in Operands, NEW ops \in SUBSET Arith
      PROVE  Start[name][ops].ok = TRUE /\ Start[name][ops].ops = ops
  BY DEF Start
<1> QED BY <1>1, <1>2 DEF RightAll, Right

\* Answers that are right at an instruction are right at the next one: the second
\* operand is checked with the operations of the first.
LEMMA RightBack ==
  ASSUME NEW body \in Seq(Instruction), NEW index \in 1..Len(body), NEW row \in Rows,
         RightAll(body, index - 1, row),
         NEW name \in Operands, NEW ops \in SUBSET Arith, OneKind(ops)
  PROVE  Right(Back(body[index], row, name, ops), body, index, name, ops)
<1> DEFINE i == body[index]
           r == Back(i, row, name, ops)
           F(m) == OperationsFor(body, index - 1, m)
           P(m) == PassedOn(body, index - 1, m)
           B == Before(i, {name})
           Fn == OperationsFor(body, index, name)
           Pn == PassedOn(body, index, name)
           hit == i.destination = name
<1>1. i \in Instruction /\ i.operand1 \in Operands /\ i.operand2 \in Operands
  <2>1. i \in Instruction
    OBVIOUS
  <2> HIDE DEF i
  <2> QED BY <2>1 DEF Instruction
<1>2. \A op : op \in Fn <=> \/ op = i.oper /\ op \in Arith /\ hit
                            \/ \E m \in B : op \in F(m)
  BY OperationsSplit
<1>3. Pn <=> \/ i.oper = "CALL" /\ Mentions(i, name)
             \/ \E m \in B : P(m)
  BY PassedSplit
<1>4. \A m \in Operands, s \in SUBSET Arith : OneKind(s) =>
        /\ row[m][s].ok <=> (~P(m) /\ OneKind(s \union F(m)))
        /\ row[m][s].ok => row[m][s].ops = s \union F(m)
  BY DEF RightAll, Right
<1>5. Right(r, body, index, name, ops) <=>
        /\ r.ok <=> (~Pn /\ OneKind(ops \union Fn))
        /\ r.ok => r.ops = ops \union Fn
  BY DEF Right
<1> HIDE DEF F, P, Fn, Pn
<1>6. CASE i.oper = "ALLOCA" /\ hit
  <2>1. r = [ok |-> TRUE, ops |-> ops]
    BY <1>6 DEF Back, Arith, Sums, Products
  <2>2. B = {} /\ i.oper \notin Arith /\ i.oper # "CALL"
    BY <1>6 DEF Before, Arith, Sums, Products
  <2>3. Fn = {} /\ ~Pn
    BY <1>2, <1>3, <2>2
  <2> QED BY <1>5, <2>1, <2>3
<1>7. CASE i.oper = "CALL" /\ Mentions(i, name)
  <2>1. r.ok = FALSE
    BY <1>7 DEF Back, Arith, Sums, Products
  <2> QED BY <1>3, <1>5, <1>7, <2>1
<1>8. CASE i.oper \in {"BITCAST", "STORE", "LOAD"} /\ hit
  <2>1. r = row[i.operand1][ops]
    BY <1>8 DEF Back, Arith, Sums, Products
  <2>2. B = {i.operand1} /\ i.oper \notin Arith /\ i.oper # "CALL"
    BY <1>8 DEF Before, Arith, Sums, Products
  <2>3. Fn = F(i.operand1) /\ (Pn <=> P(i.operand1))
    BY <1>2, <1>3, <2>2
  <2> HIDE DEF r, i
  <2>4. /\ row[i.operand1][ops].ok <=> (~P(i.operand1) /\ OneKind(ops \union F(i.operand1)))
        /\ row[i.operand1][ops].ok => row[i.operand1][ops].ops = ops \union F(i.operand1)
    BY <1>1, <1>4
  <2>5. r.ok <=> (~Pn /\ OneKind(ops \union Fn))
    BY <2>1, <2>3, <2>4, Zenon
  <2>6. r.ok => r.ops = ops \union Fn
    BY <2>1, <2>3, <2>4, Zenon
  <2> QED BY <1>5, <2>5, <2>6 DEF r, i
<1>9. CASE i.oper \in Arith /\ hit
  <2>1. /\ i.oper \notin {"ALLOCA", "CALL", "BITCAST", "STORE", "LOAD"}
        /\ B = {i.operand1, i.operand2}
    BY <1>9 DEF Before, Arith, Sums, Products
  <2> DEFINE F1 == F(i.operand1)
             F2 == F(i.operand2)
             s  == AppendOperation(ops, i.oper)
  <2>2. Fn = {i.oper} \union F1 \union F2 /\ (Pn <=> P(i.operand1) \/ P(i.operand2))
    BY <1>2, <1>3, <1>9, <2>1
  <2>3. s = ops \union {i.oper} /\ s \in SUBSET Arith
    BY <1>9 DEF AppendOperation
  <2>4. IsCommutative(ops, i.oper) <=> OneKind(s)
    BY <1>9, CommutativeKind
  <2>5. CASE ~IsCommutative(ops, i.oper)
    <3>1. r.ok = FALSE
      BY <1>9, <2>1, <2>5 DEF Back
    <3>2. ~OneKind(ops \union Fn)
      BY <2>2, <2>3, <2>4, <2>5 DEF OneKind
    <3> QED BY <1>5, <3>1, <3>2
  <2>6. CASE IsCommutative(ops, i.oper)
    <3> DEFINE t1 == row[i.operand1][s]
               t2 == row[i.operand2][t1.ops]
    <3>1. r = [ok |-> t1.ok /\ t2.ok, ops |-> t2.ops]
      BY <1>9, <2>1, <2>6 DEF Back
    <3>2. /\ t1.ok <=> (~P(i.operand1) /\ OneKind(s \union F1))
          /\ t1.ok => t1.ops = s \union F1
      BY <1>1, <1>4, <2>3, <2>4, <2>6
    <3>3. t1.ops \in SUBSET Arith
      BY <1>1, <2>3 DEF Rows, Outcome
    <3> HIDE DEF t1, F1, F2
    <3>4. ASSUME t1.ok
          PROVE  /\ t2.ok <=> (~P(i.operand2) /\ OneKind(s \union F1 \union F2))
                 /\ t2.ok => t2.ops = s \union F1 \union F2
      <4>1. OneKind(t1.ops) /\ t1.ops = s \union F1
        BY <3>2, <3>4
      <4> QED BY <1>1, <1>4, <3>3, <4>1 DEF F2
    <3>5. ops \union Fn = s \union F1 \union F2
      BY <2>2, <2>3
    <3>6. OneKind(s \union F1 \union F2) => OneKind(s \union F1)
      BY DEF OneKind
    <3> HIDE DEF t2, s
    <3>7. /\ r.ok <=> (t1.ok /\ t2.ok)
          /\ r.ops = t2.ops
      <4> HIDE DEF r
      <4> DEFINE yes == t1.ok /\ t2.ok
      <4>1. r = [ok |-> yes, ops |-> t2.ops]
        BY <3>1
      <4> HIDE DEF yes
      <4>2. r.ok = yes /\ r.ops = t2.ops
        BY <4>1
      <4> QED BY <4>2, Zenon DEF yes
    <3>8. r.ok <=> (~Pn /\ OneKind(ops \union Fn))
      BY <2>2, <3>2, <3>4, <3>5, <3>6, <3>7
    <3>9. r.ok => r.ops = ops \union Fn
      BY <3>4, <3>5, <3>7
    <3> QED BY <1>5, <3>8, <3>9
  <2> QED BY <2>5, <2>6
<1>10. CASE /\ ~(i.oper \in {"ALLOCA", "BITCAST", "STORE", "LOAD"} \union Arith /\ hit)
            /\ ~(i.oper = "CALL" /\ Mentions(i, name))
  <2>1. r = row[name][ops]
    BY <1>10 DEF Back
  <2>2. B = {name}
    BY <1>10 DEF Before
  <2>3. ~(i.oper \in Arith /\ hit)
    BY <1>10
  <2>4. Fn = F(name) /\ (Pn <=> P(name))
    BY <1>2, <1>3, <1>10, <2>2, <2>3
  <2> HIDE DEF r, i
  <2>5. /\ row[name][ops].ok <=> (~P(name) /\ OneKind(ops \union F(name)))
        /\ row[name][ops].ok => row[name][ops].ops = ops \union F(name)
    BY <1>4
  <2>6. r.ok <=> (~Pn /\ OneKind(ops \union Fn))
    BY <2>1, <2>4, <2>5, Zenon
  <2>7. r.ok => r.ops = ops \union Fn
    BY <2>1, <2>4, <2>5, Zenon
  <2> QED BY <1>5, <2>6, <2>7 DEF r, i
<1> QED BY <1>6, <1>7, <1>8, <1>9, <1>10

\* So they are right everywhere.
LEMMA WalkRight ==
  ASSUME NEW body \in Seq(Instruction), NEW index \in 0..Len(body)
  PROVE  RightAll(body, index, Walk(body)[index])
<1> DEFINE N == Len(body)
           g == Walk(body)
           S == {n \in 0..N : RightAll(body, n, g[n])}
<1>1. /\ g \in [0..N -> Rows] /\ g[0] = Start
      /\ \A n \in 1..N : g[n] = Row(body[n], g[n - 1])
  BY WalkSteps
<1>2. N \in Nat
  OBVIOUS
<1> HIDE DEF g
<1>3. 0 \in S
  BY <1>1, <1>2, RightStart
<1>4. ASSUME NEW m \in 0..(N - 1), m \in S
      PROVE  m + 1 \in S
  <2>1. m \in 0..N /\ m + 1 \in 1..N /\ m + 1 \in 0..N /\ m + 1 - 1 = m
    OBVIOUS
  <2>2. g[m] \in Rows /\ RightAll(body, m + 1 - 1, g[m])
    BY <1>1, <1>4, <2>1
  <2>3. g[m + 1] = Row(body[m + 1], g[m])
    BY <1>1, <2>1
  <2>4. ASSUME NEW name \in Operands, NEW ops \in SUBSET Arith, OneKind(ops)
        PROVE  Right(g[m + 1][name][ops], body, m + 1, name, ops)
    <3>1. g[m + 1][name][ops] = Back(body[m + 1], g[m], name, ops)
      BY <2>3 DEF Row
    <3>2. Right(Back(body[m + 1], g[m], name, ops), body, m + 1, name, ops)
      BY <2>1, <2>2, <2>4, RightBack
    <3> QED BY <3>1, <3>2
  <2> QED BY <2>1, <2>4 DEF RightAll
<1>5. \A n \in 0..N : n \in S
  <2> HIDE DEF S, N
  <2> QED BY <1>2, <1>3, <1>4, UpInduction
<1> QED BY <1>5 DEF g

\* The walk back for a value (isSafe, validator.cpp:136) is safe exactly if no call
\* has part in the value and the operations that lead to it, with those seen before,
\* only add and subtract or only multiply and divide; it has then collected all of
\* them.  That it stops at the first mismatch, and shares the operations between the
\* two operands and between the two lines of a conflict, makes no difference.
THEOREM WalkFollowsDataFlow ==
  ASSUME NEW body \in Seq(Instruction), NEW index \in 0..Len(body),
         NEW operand \in Operands, NEW seen \in SUBSET Arith,
         seen \subseteq Sums \/ seen \subseteq Products
  PROVE  LET r   == IsSafe(body, index, operand, seen)
             all == seen \union OperationsFor(body, index, operand)
         IN /\ r.ok <=> /\ ~PassedOn(body, index, operand)
                        /\ all \subseteq Sums \/ all \subseteq Products
            /\ r.ok => r.ops = all
<1>1. RightAll(body, index, Walk(body)[index])
  BY WalkRight
<1>2. Right(Walk(body)[index][operand][seen], body, index, operand, seen)
  BY <1>1 DEF RightAll, OneKind
<1> QED BY <1>2, IsSafeWalk DEF Right, OneKind

-----------------------------------------------------------------------------
(* The verdict on a pair of lines.                                         *)

LEMMA GreatestNat ==
  ASSUME NEW N \in Nat, NEW S \in SUBSET (0..N), S # {}
  PROVE  \E m \in S : \A n \in S : n <= m
<1> DEFINE T == {N - n : n \in S}
<1>1. T \in SUBSET Nat /\ T # {}
  <2>1. \A n \in S : N - n \in Nat
    OBVIOUS
  <2> QED BY <2>1
<1> HIDE DEF T
<1>2. PICK m \in T : \A n \in T : ~(n < m)
  BY <1>1, LeastNat
<1>3. PICK k \in S : m = N - k
  BY DEF T
<1>4. ASSUME NEW n \in S
      PROVE  n <= k
  <2>1. N - n \in T /\ n \in 0..N /\ k \in 0..N
    BY DEF T
  <2> QED BY <1>2, <1>3, <2>1
<1> QED BY <1>4

\* There is a first instruction of a later line, or none.
LEMMA UpToIndex ==
  ASSUME NEW body \in Seq(Instruction), NEW line \in Int
  PROVE  /\ UpTo(body, line) \in 0..Len(body)
         /\ \/ UpTo(body, line) = Len(body)
            \/ body[UpTo(body, line) + 1].lineNo > line
<1> DEFINE N == Len(body)
           T == {n \in 0..N : n = N \/ body[n + 1].lineNo > line}
<1>1. N \in Nat /\ T \in SUBSET Nat /\ T # {}
  OBVIOUS
<1>2. PICK m \in T : \A n \in T : ~(n < m)
  <2> HIDE DEF T
  <2> QED BY <1>1, LeastNat
<1>3. ASSUME NEW k \in 1..m
      PROVE  body[k].lineNo <= line
  <2>1. k - 1 \in 0..N /\ k - 1 < m /\ k - 1 + 1 = k /\ k \in 1..N /\ k - 1 # N
    OBVIOUS
  <2>2. k - 1 \notin T
    BY <1>2, <2>1
  <2>3. ~(body[k].lineNo > line)
    BY <2>1, <2>2
  <2>4. body[k] \in Instruction
    BY <2>1
  <2>5. body[k].lineNo \in Int
    BY <2>4 DEF Instruction
  <2> QED BY <2>3, <2>5
<1>4. \E n \in 0..N : /\ \A k \in 1..n : body[k].lineNo <= line
                      /\ n = N \/ body[n + 1].lineNo > line
  BY <1>2, <1>3
<1> QED BY <1>4 DEF UpTo

LEMMA ChosenInstruction ==
  ASSUME NEW body \in Seq(Instruction), NEW line \in Int, Found(body, line) # {}
  PROVE  Chosen(body, line) \in Instruction
<1>1. UpTo(body, line) \in 0..Len(body) /\ Len(body) \in Nat
  BY UpToIndex
<1>2. Found(body, line) \subseteq 1..Len(body)
  BY <1>1 DEF Found
<1>3. Found(body, line) \in SUBSET (0..Len(body)) /\ Found(body, line) # {}
  BY <1>2
<1>4. \E k \in Found(body, line) : \A j \in Found(body, line) : j <= k
  BY <1>1, <1>3, GreatestNat
<1>5. PICK k \in Found(body, line) : Chosen(body, line) = body[k]
  BY <1>4 DEF Chosen
<1> QED BY <1>2, <1>5

\* The line is a store of a value that no call has part in.
StoresSafely(body, line) ==
  /\ Chosen(body, line).oper = "STORE"
  /\ ~PassedOn(body, UpTo(body, line), Chosen(body, line).operand1)

OperationsOf(body, line) ==
  OperationsFor(body, UpTo(body, line), Chosen(body, line).operand1)

\* A line that is found has one outcome, which the data flow gives.
LEMMA FoundOutcome ==
  ASSUME NEW body \in Seq(Instruction), NEW line \in Int, Found(body, line) # {},
         NEW ops \in SUBSET Arith, OneKind(ops)
  PROVE  \E r \in Outcome :
           /\ InvolveSimpleOperations(body, line, ops) = {r}
           /\ r.ok <=> (/\ StoresSafely(body, line)
                        /\ OneKind(ops \union OperationsOf(body, line)))
           /\ r.ok => r.ops = ops \union OperationsOf(body, line)
<1> DEFINE i == Chosen(body, line)
           n == UpTo(body, line)
           r == IF i.oper = "STORE" THEN IsSafe(body, n, i.operand1, ops)
                ELSE [ok |-> FALSE, ops |-> ops]
<1>1. InvolveSimpleOperations(body, line, ops) = {r}
  BY DEF InvolveSimpleOperations
<1>2. n \in 0..Len(body)
  BY UpToIndex
<1>3. i.operand1 \in Operands
  BY ChosenInstruction DEF Instruction
<1> HIDE DEF i, n
<1>4. CASE i.oper = "STORE"
  <2>1. r = Walk(body)[n][i.operand1][ops]
    BY <1>4, IsSafeWalk
  <2>2. r \in Outcome
    BY <1>2, <1>3, <2>1, WalkSteps DEF Rows
  <2>3. RightAll(body, n, Walk(body)[n])
    BY <1>2, WalkRight
  <2> HIDE DEF r
  <2>4. Right(r, body, n, i.operand1, ops)
    BY <1>3, <2>1, <2>3 DEF RightAll
  <2>5. /\ r.ok <=> (/\ StoresSafely(body, line)
                     /\ OneKind(ops \union OperationsOf(body, line)))
        /\ r.ok => r.ops = ops \union OperationsOf(body, line)
    BY <1>4, <2>4, Zenon DEF Right, StoresSafely, OperationsOf, i, n
  <2> QED BY <1>1, <2>2, <2>5
<1>5. CASE i.oper # "STORE"
  <2>1. r = [ok |-> FALSE, ops |-> ops]
    BY <1>5
  <2> HIDE DEF r
  <2>2. r \in Outcome /\ r.ok = FALSE
    BY <2>1 DEF Outcome
  <2>3. ~StoresSafely(body, line)
    BY <1>5 DEF StoresSafely, i
  <2> QED BY <1>1, <2>2, <2>3
<1> QED BY <1>4, <1>5

-----------------------------------------------------------------------------
(* The code that is kept.                                                  *)

LEMMA Logs ==
  ASSUME IRlog \in IRlogs
  PROVE  /\ Len(IRlog) \in Nat /\ DOMAIN IRlog = 1..Len(IRlog)
         /\ \A s \in DOMAIN IRlog : IRlog[s].code \in Seq(Instruction)
         /\ \A p \in Pairs : CodeOf[p[1]] \in DOMAIN IRlog /\ CodeOf[p[2]] \in DOMAIN IRlog
<1> DEFINE Section == [name : STRING, code : Seq(Instruction)]
<1>1. IRlog \in Seq(Section)
  BY TypeAssumption
<1>2. \A p \in Pairs : CodeOf[p[1]] \in DOMAIN IRlog /\ CodeOf[p[2]] \in DOMAIN IRlog
  BY CodeAssumption
<1>3. \A x \in Section : x.code \in Seq(Instruction)
  OBVIOUS
<1> HIDE DEF Section
<1>4. /\ Len(IRlog) \in Nat /\ DOMAIN IRlog = 1..Len(IRlog)
      /\ \A s \in 1..Len(IRlog) : IRlog[s] \in Section
  BY <1>1
<1> QED BY <1>2, <1>3, <1>4

LEMMA UnsetType ==
  ASSUME NEW i \in Instruction, NEW g \in GarbageOpers
  PROVE  Unset(i, g) \in Instruction
<1>1. g \in STRING /\ "" \in Operands
  BY TypeAssumption DEF Operands
<1> QED BY <1>1 DEF Unset, Instruction

LEMMA InstructionsType ==
  ASSUME IRlog \in IRlogs, NEW s \in DOMAIN IRlog, NEW garbage \in [Unknown -> GarbageOpers]
  PROVE  Instructions(s, garbage) \in Seq(Instruction)
<1> DEFINE code == IRlog[s].code
           all == Instructions(s, garbage)
<1>1. code \in Seq(Instruction)
  BY Logs
<1>2. /\ all = [k \in DOMAIN code |-> all[k]] /\ \A k \in DOMAIN code :
          all[k] = IF <<s, k>> \in DOMAIN garbage
                   THEN Unset(code[k], garbage[<<s, k>>]) ELSE code[k]
  BY DEF Instructions
<1> HIDE DEF code, all
<1>3. ASSUME NEW k \in DOMAIN code
      PROVE  all[k] \in Instruction
  <2>1. code[k] \in Instruction
    BY <1>1
  <2>2. CASE <<s, k>> \in DOMAIN garbage
    <3>1. garbage[<<s, k>>] \in GarbageOpers
      BY <2>2
    <3> QED BY <1>2, <2>1, <2>2, <3>1, UnsetType
  <2> QED BY <1>2, <2>1, <2>2
<1>4. Len(code) \in Nat /\ DOMAIN code = 1..Len(code)
  BY <1>1
<1>5. all \in [1..Len(code) -> Instruction]
  BY <1>2, <1>3, <1>4
<1> QED BY <1>4, <1>5, SeqDef DEF all

\* The recursion that BodyOf stands for: the instructions with a line are added.
BodySteps(f, all) ==
  /\ f[0] = <<>>
  /\ \A n \in 1..Len(all) :
       f[n] = IF all[n].lineNo > 0 THEN Append(f[n - 1], all[n]) ELSE f[n - 1]

LEMMA BodyStepsOf ==
  ASSUME NEW s, NEW garbage, Instructions(s, garbage) \in Seq(Instruction)
  PROVE  \E f : /\ BodySteps(f, Instructions(s, garbage))
                /\ BodyOf(s, garbage) = f[Len(Instructions(s, garbage))]
<1> DEFINE all == Instructions(s, garbage)
           N == Len(all)
           Reads(f) == f = [n \in 0..N |-> IF n = 0 THEN <<>>
                                           ELSE IF all[n].lineNo > 0
                                                THEN Append(f[n - 1], all[n]) ELSE f[n - 1]]
           g == CHOOSE f : Reads(f)
           step == [p \in (1..N) \X Seq(Instruction) |->
                      IF all[p[1]].lineNo > 0 THEN Append(p[2], all[p[1]]) ELSE p[2]]
<1>1. BodyOf(s, garbage) = g[N]
  BY DEF BodyOf
<1>2. all \in Seq(Instruction)
  OBVIOUS
<1> HIDE DEF all
<1>3. N \in Nat
  BY <1>2
<1> HIDE DEF N
<1>4. \A n \in 1..N : all[n] \in Instruction
  BY <1>2 DEF N
<1>5. step \in [(1..N) \X Seq(Instruction) -> Seq(Instruction)]
  BY <1>4
<1>6. \A n \in 1..N, b \in Seq(Instruction) :
        step[<<n, b>>] = IF all[n].lineNo > 0 THEN Append(b, all[n]) ELSE b
  OBVIOUS
<1> HIDE DEF step
<1>7. <<>> \in Seq(Instruction)
  OBVIOUS
<1>8. PICK f \in [0..N -> Seq(Instruction)] : Follows(f, N, <<>>, step)
  BY <1>3, <1>5, <1>7, Recursion
<1>9. /\ f[0] = <<>>
      /\ \A n \in 1..N : f[n] = IF all[n].lineNo > 0
                                THEN Append(f[n - 1], all[n]) ELSE f[n - 1]
  <2>1. \A n \in 1..N : n - 1 \in 0..N
    BY <1>3
  <2> QED BY <1>6, <1>8, <2>1 DEF Follows
<1>10. Reads(f)
  <2>1. f = [n \in 0..N |-> f[n]]
    BY <1>8
  <2>2. \A n \in 0..N : n = 0 \/ n \in 1..N
    BY <1>3
  <2>3. \A n \in 0..N : f[n] = IF n = 0 THEN <<>>
                               ELSE IF all[n].lineNo > 0
                                    THEN Append(f[n - 1], all[n]) ELSE f[n - 1]
    BY <1>9, <2>2
  <2> QED BY <2>1, <2>3
<1> HIDE DEF Reads
<1>11. Reads(g)
  BY <1>10
<1>12. BodySteps(g, all)
  <2>1. \A k \in 0..N : g[k] = IF k = 0 THEN <<>>
                               ELSE IF all[k].lineNo > 0
                                    THEN Append(g[k - 1], all[k]) ELSE g[k - 1]
    <3> HIDE DEF g
    <3> QED BY <1>11 DEF Reads
  <2> HIDE DEF g
  <2>2. \A k \in 1..N : k \in 0..N /\ k # 0
    BY <1>3
  <2>3. 0 \in 0..N
    BY <1>3
  <2>4. g[0] = <<>>
    BY <2>1, <2>3
  <2>5. \A k \in 1..N : g[k] = IF all[k].lineNo > 0
                              THEN Append(g[k - 1], all[k]) ELSE g[k - 1]
    BY <2>1, <2>2
  <2> QED BY <2>4, <2>5 DEF BodySteps, N
<1> HIDE DEF g
<1> QED BY <1>1, <1>12 DEF all, N

LEMMA BodyType ==
  ASSUME IRlog \in IRlogs, NEW s \in DOMAIN IRlog, NEW garbage \in [Unknown -> GarbageOpers]
  PROVE  BodyOf(s, garbage) \in Seq(Instruction)
<1> DEFINE all == Instructions(s, garbage)
           N == Len(all)
<1>1. all \in Seq(Instruction)
  BY InstructionsType
<1>2. PICK f : BodySteps(f, all) /\ BodyOf(s, garbage) = f[N]
  BY <1>1, BodyStepsOf
<1> HIDE DEF all
<1>3. N \in Nat /\ \A n \in 1..N : all[n] \in Instruction
  BY <1>1
<1> DEFINE S == {n \in 0..N : f[n] \in Seq(Instruction)}
<1>4. 0 \in S
  <2>1. f[0] = <<>> /\ <<>> \in Seq(Instruction)
    BY <1>2 DEF BodySteps
  <2>2. f[0] \in Seq(Instruction)
    BY <2>1, Zenon
  <2>3. 0 \in 0..N
    BY <1>3
  <2> QED BY <2>2, <2>3
<1>5. ASSUME NEW n \in 0..(N - 1), n \in S
      PROVE  n + 1 \in S
  <2>1. n + 1 \in 1..N /\ n + 1 \in 0..N /\ n + 1 - 1 = n
    BY <1>3
  <2>2. f[n + 1] = IF all[n + 1].lineNo > 0 THEN Append(f[n], all[n + 1]) ELSE f[n]
    BY <1>2, <2>1 DEF BodySteps
  <2>3. f[n] \in Seq(Instruction) /\ all[n + 1] \in Instruction
    BY <1>3, <1>5, <2>1
  <2>4. Append(f[n], all[n + 1]) \in Seq(Instruction)
    BY <2>3
  <2>5. f[n + 1] \in Seq(Instruction)
    BY <2>2, <2>3, <2>4
  <2> QED BY <2>1, <2>5
<1>6. \A n \in 0..N : n \in S
  <2> HIDE DEF S
  <2> QED BY <1>3, <1>4, <1>5, UpInduction
<1> QED BY <1>2, <1>3, <1>6

\* Body is part of the code, with the same end if that has a line.
Keeps(body, code) ==
  /\ \A k \in DOMAIN body : \E j \in DOMAIN code : body[k] = code[j]
  /\ Len(code) > 0 /\ code[Len(code)].lineNo > 0
       => Len(body) > 0 /\ body[Len(body)] = code[Len(code)]

Known(code) == \A k \in DOMAIN code : code[k].oper # "OTHER"

\* Code without instructions of unknown kinds is kept, but for what has no line.
LEMMA BodyKeeps ==
  ASSUME IRlog \in IRlogs, NEW s \in DOMAIN IRlog, NEW garbage \in [Unknown -> GarbageOpers],
         Known(IRlog[s].code)
  PROVE  Keeps(BodyOf(s, garbage), IRlog[s].code)
<1> DEFINE code == IRlog[s].code
           N == Len(code)
<1>1. code \in Seq(Instruction)
  BY Logs
<1>2. Instructions(s, garbage) = code
  <2>1. \A k \in DOMAIN code : <<s, k>> \notin Unknown
    BY DEF Unknown, Known
  <2>2. Instructions(s, garbage) = [k \in DOMAIN code |-> code[k]]
    BY <2>1 DEF Instructions
  <2> HIDE DEF code
  <2> QED BY <1>1, <2>2
<1>3. PICK f : BodySteps(f, code) /\ BodyOf(s, garbage) = f[N]
  <2> HIDE DEF code
  <2> QED BY <1>1, <1>2, BodyStepsOf
<1> HIDE DEF code
<1>4. /\ N \in Nat /\ DOMAIN code = 1..N
      /\ \A n \in 1..N : code[n] \in Instruction
  BY <1>1
<1> DEFINE Part(b) == \A k \in DOMAIN b : \E j \in 1..N : b[k] = code[j]
           S == {n \in 0..N : f[n] \in Seq(Instruction) /\ Part(f[n])}
<1>5. 0 \in S
  <2>1. f[0] = <<>> /\ <<>> \in Seq(Instruction)
    BY <1>3 DEF BodySteps
  <2>2. Part(<<>>)
    OBVIOUS
  <2>3. 0 \in 0..N
    BY <1>4
  <2> HIDE DEF N, Part
  <2> QED BY <2>1, <2>2, <2>3, Zenon
<1>6. ASSUME NEW n \in 0..(N - 1), n \in S
      PROVE  n + 1 \in S
  <2>1. n + 1 \in 1..N /\ n + 1 \in 0..N /\ n + 1 - 1 = n
    BY <1>4
  <2>2. f[n + 1] = IF code[n + 1].lineNo > 0 THEN Append(f[n], code[n + 1]) ELSE f[n]
    BY <1>3, <2>1 DEF BodySteps
  <2>3. f[n] \in Seq(Instruction) /\ code[n + 1] \in Instruction /\ Part(f[n])
    BY <1>4, <1>6, <2>1
  <2>4. Append(f[n], code[n + 1]) \in Seq(Instruction)
    BY <2>3
  <2>5. Part(Append(f[n], code[n + 1]))
    <3>1. \A k \in DOMAIN Append(f[n], code[n + 1]) :
            \/ k \in DOMAIN f[n] /\ Append(f[n], code[n + 1])[k] = f[n][k]
            \/ Append(f[n], code[n + 1])[k] = code[n + 1]
      BY <2>3
    <3> QED BY <2>1, <2>3, <3>1
  <2>6. f[n + 1] \in Seq(Instruction) /\ Part(f[n + 1])
    <3> HIDE DEF Part
    <3> QED BY <2>2, <2>3, <2>4, <2>5
  <2> QED BY <2>1, <2>6
<1>7. \A n \in 0..N : n \in S
  <2> HIDE DEF S
  <2> QED BY <1>4, <1>5, <1>6, UpInduction
<1>8. ASSUME N > 0, code[N].lineNo > 0
      PROVE  Len(f[N]) > 0 /\ f[N][Len(f[N])] = code[N]
  <2>1. N \in 1..N /\ N - 1 \in 0..N
    BY <1>4, <1>8
  <2>2. f[N] = Append(f[N - 1], code[N])
    BY <1>3, <1>8, <2>1 DEF BodySteps
  <2>3. f[N - 1] \in Seq(Instruction) /\ code[N] \in Instruction
    BY <1>4, <1>7, <2>1
  <2> HIDE DEF N
  <2> QED BY <2>2, <2>3
<1>9. Part(f[N])
  BY <1>4, <1>7
<1>10. Keeps(f[N], code)
  BY <1>4, <1>8, <1>9 DEF Keeps
<1> QED BY <1>3, <1>10 DEF code

\* The names in the log.
SectionNames == {IRlog[s].name : s \in DOMAIN IRlog}

\* Every name in the log has a body.
LEMMA ParsedType ==
  ASSUME IRlog \in IRlogs, ParseTasksIR
  PROVE  Tasks' \in [SectionNames -> Seq(Instruction)]
<1> DEFINE last(name) ==
             CHOOSE s \in DOMAIN IRlog :
               /\ IRlog[s].name = name
               /\ \A r \in DOMAIN IRlog : IRlog[r].name = name => r <= s
<1>1. PICK garbage \in [Unknown -> GarbageOpers] :
        Tasks' = [name \in SectionNames |-> BodyOf(last(name), garbage)]
  BY DEF ParseTasksIR, SectionNames
<1>2. ASSUME NEW name \in SectionNames
      PROVE  last(name) \in DOMAIN IRlog
  <2> DEFINE S == {s \in DOMAIN IRlog : IRlog[s].name = name}
  <2>1. Len(IRlog) \in Nat /\ S \in SUBSET (0..Len(IRlog)) /\ S # {}
    BY Logs DEF SectionNames
  <2> HIDE DEF S
  <2>2. PICK m \in S : \A n \in S : n <= m
    BY <2>1, GreatestNat
  <2>3. \E s \in DOMAIN IRlog :
          /\ IRlog[s].name = name
          /\ \A r \in DOMAIN IRlog : IRlog[r].name = name => r <= s
    BY <2>2 DEF S
  <2> QED BY <2>3
<1> HIDE DEF last
<1>3. \A name \in SectionNames : BodyOf(last(name), garbage) \in Seq(Instruction)
  BY <1>2, BodyType
<1> QED BY <1>1, <1>3

\* Section s is the only one of its name.
Alone(s) == \A r \in DOMAIN IRlog : IRlog[r].name = IRlog[s].name => r = s

\* The code of a section that is alone is kept, if all of its instructions are of
\* known kinds.
KeptCode ==
  \A s \in DOMAIN IRlog :
    Alone(s) /\ Known(IRlog[s].code) => Keeps(Tasks[IRlog[s].name], IRlog[s].code)

LEMMA ParsedKeeps ==
  ASSUME IRlog \in IRlogs, ParseTasksIR
  PROVE  KeptCode'
<1> DEFINE last(name) ==
             CHOOSE s \in DOMAIN IRlog :
               /\ IRlog[s].name = name
               /\ \A r \in DOMAIN IRlog : IRlog[r].name = name => r <= s
<1>1. PICK garbage \in [Unknown -> GarbageOpers] :
        Tasks' = [name \in SectionNames |-> BodyOf(last(name), garbage)]
  BY DEF ParseTasksIR, SectionNames
<1>2. IRlog' = IRlog
  BY DEF ParseTasksIR
<1>3. ASSUME NEW s \in DOMAIN IRlog, Alone(s), Known(IRlog[s].code)
      PROVE  Keeps(Tasks'[IRlog[s].name], IRlog[s].code)
  <2>1. s <= s
    BY Logs
  <2>2. \A r \in DOMAIN IRlog :
          IRlog[r].name = IRlog[s].name /\ (\A q \in DOMAIN IRlog :
            IRlog[q].name = IRlog[s].name => q <= r) <=> r = s
    BY <1>3, <2>1 DEF Alone
  <2>3. last(IRlog[s].name) = s
    BY <2>2
  <2> HIDE DEF last
  <2>4. Tasks'[IRlog[s].name] = BodyOf(s, garbage)
    BY <1>1, <2>3 DEF SectionNames
  <2> QED BY <1>3, <2>4, BodyKeeps
<1> QED BY <1>2, <1>3 DEF KeptCode, Alone

-----------------------------------------------------------------------------
(* Verdicts on conflicts.  They are told from the names and lines alone.   *)

SafeOf(tasks, names, lines) ==
  UNION {IF r1.ok
         THEN {r2.ok : r2 \in InvolveSimpleOperations(tasks[names[2]], lines[2], r1.ops)}
         ELSE {FALSE} :
    r1 \in InvolveSimpleOperations(tasks[names[1]], lines[1], {})}

FoundOf(tasks, names, lines) == \A k \in {1, 2} : Found(tasks[names[k]], lines[k]) # {}

CompatibleOf(tasks, names, lines) ==
  LET body(k)  == tasks[names[k]]
      index(k) == UpTo(body(k), lines[k])
      store(k) == Chosen(body(k), lines[k])
      ops == UNION {OperationsFor(body(k), index(k), store(k).operand1) : k \in {1, 2}}
  IN /\ \A k \in {1, 2} : /\ store(k).oper = "STORE"
                          /\ ~PassedOn(body(k), index(k), store(k).operand1)
     /\ ops \subseteq Sums \/ ops \subseteq Products

LEMMA OfLooks ==
  ASSUME NEW p, NEW c
  PROVE  /\ Safe(p, c) = SafeOf(Tasks, NamesPair(p), Lines(c))
         /\ LinesFound(p, c) <=> FoundOf(Tasks, NamesPair(p), Lines(c))
         /\ Compatible(p, c) <=> CompatibleOf(Tasks, NamesPair(p), Lines(c))
<1>1. Lines(c)[1] = c.action1.lineNo /\ Lines(c)[2] = c.action2.lineNo
  BY DEF Lines
<1>2. Safe(p, c) = SafeOf(Tasks, NamesPair(p), Lines(c))
  BY <1>1 DEF Safe, SafeOf
<1>3. LinesFound(p, c) <=> FoundOf(Tasks, NamesPair(p), Lines(c))
  BY DEF LinesFound, FoundOf, BodyAt
<1>4. Compatible(p, c) <=> CompatibleOf(Tasks, NamesPair(p), Lines(c))
  BY DEF Compatible, CompatibleOf, BodyAt
<1> QED BY <1>2, <1>3, <1>4

\* The validator decides by the data flow.
LEMMA SafeByDataFlow ==
  ASSUME NEW tasks, NEW names, NEW lines,
         \A k \in {1, 2} : tasks[names[k]] \in Seq(Instruction) /\ lines[k] \in Int,
         FoundOf(tasks, names, lines)
  PROVE  SafeOf(tasks, names, lines) = {CompatibleOf(tasks, names, lines)}
<1> DEFINE b(k) == tasks[names[k]]
           l(k) == lines[k]
           F(k) == OperationsOf(b(k), l(k))
           Y(k) == StoresSafely(b(k), l(k))
           c == CompatibleOf(tasks, names, lines)
<1>1. \A k \in {1, 2} : b(k) \in Seq(Instruction) /\ l(k) \in Int /\ Found(b(k), l(k)) # {}
  BY DEF FoundOf
<1>2. c \in BOOLEAN
  BY DEF CompatibleOf
<1>3. c <=> Y(1) /\ Y(2) /\ OneKind(F(1) \union F(2))
  <2>1. UNION {F(k) : k \in {1, 2}} = F(1) \union F(2)
    OBVIOUS
  <2>2. c <=> /\ \A k \in {1, 2} : Y(k)
              /\ OneKind(UNION {F(k) : k \in {1, 2}})
    BY DEF CompatibleOf, StoresSafely, OperationsOf, OneKind
  <2> HIDE DEF c, F, Y
  <2> QED BY <2>1, <2>2
<1> HIDE DEF c
<1>4. {} \in SUBSET Arith /\ OneKind({})
  BY DEF OneKind
<1>5. PICK r1 \in Outcome :
        /\ InvolveSimpleOperations(b(1), l(1), {}) = {r1}
        /\ r1.ok <=> (Y(1) /\ OneKind({} \union F(1)))
        /\ r1.ok => r1.ops = {} \union F(1)
  BY <1>1, <1>4, FoundOutcome
<1>6. SafeOf(tasks, names, lines)
      = IF r1.ok THEN {r2.ok : r2 \in InvolveSimpleOperations(b(2), l(2), r1.ops)} ELSE {FALSE}
  BY <1>5 DEF SafeOf
<1> HIDE DEF F, Y, b, l
<1>7. {} \union F(1) = F(1) /\ (OneKind(F(1) \union F(2)) => OneKind(F(1)))
  BY DEF OneKind
<1>8. CASE ~r1.ok
  <2>1. c = FALSE
    BY <1>2, <1>3, <1>5, <1>7, <1>8
  <2> QED BY <1>6, <1>8, <2>1 DEF c
<1>9. CASE r1.ok
  <2>1. r1.ops = F(1) /\ OneKind(F(1)) /\ r1.ops \in SUBSET Arith /\ Y(1)
    BY <1>5, <1>7, <1>9 DEF Outcome
  <2>2. PICK r2 \in Outcome :
          /\ InvolveSimpleOperations(b(2), l(2), r1.ops) = {r2}
          /\ r2.ok <=> (Y(2) /\ OneKind(r1.ops \union F(2)))
    BY <1>1, <2>1, FoundOutcome DEF F, Y
  <2>3. r2.ok = c
    <3>1. r2.ok \in BOOLEAN
      BY DEF Outcome
    <3>2. r2.ok <=> c
      BY <1>3, <2>1, <2>2
    <3> QED BY <1>2, <3>1, <3>2
  <2>4. {r.ok : r \in InvolveSimpleOperations(b(2), l(2), r1.ops)} = {r2.ok}
    BY <2>2
  <2> QED BY <1>6, <1>9, <2>3, <2>4 DEF c
<1> QED BY <1>8, <1>9

-----------------------------------------------------------------------------
(* The inductive invariant.                                                *)

\* Conflict c of pair p is in its report.
InTable(p, c) == p \in DOMAIN conflictTable /\ c \in conflictTable[p]

ValidatorTypes ==
  /\ IRlog \in IRlogs
  /\ phase \in {"trace", "duplicates", "validate"}
  /\ \A r \in recorded : /\ r[1] \in Pairs /\ r = <<r[1], r[2]>>
                         /\ r[2].action1.lineNo \in Int /\ r[2].action2.lineNo \in Int
  /\ phase # "trace" => Tasks \in [SectionNames -> Seq(Instruction)]

\* What is in a report was recorded; at first everything is in one.
ReportsInv ==
  /\ \A p \in DOMAIN conflictTable : \A c \in conflictTable[p] : <<p, c>> \in recorded
  /\ phase # "validate" => \A r \in recorded : r[1] \in DOMAIN conflictTable
  /\ phase = "trace" => /\ conflictTasksAndLines = {}
                        /\ \A r \in recorded : InTable(r[1], r[2])

\* What was seen is still in a report that was visited; what was not is where it
\* was.
DuplicatesInv ==
  phase = "duplicates" =>
    /\ left \subseteq DOMAIN conflictTable
    /\ \A r \in recorded : IF r[1] \in left THEN InTable(r[1], r[2])
                           ELSE Shown(r[1], r[2]) \in conflictTasksAndLines
    /\ \A x \in conflictTasksAndLines :
         \E p \in DOMAIN conflictTable \ left : \E c \in conflictTable[p] : Shown(p, c) = x

\* Every pair of names and lines is reported until it is found safe; reports
\* that were visited have no conflict that is safe.
Dropped(x) ==
  \E r \in recorded : /\ Shown(r[1], r[2]) = x
                      /\ Checked(r[2]) /\ TRUE \in Safe(r[1], r[2])

VerdictInv ==
  phase = "validate" =>
    /\ \A p \in DOMAIN conflictTable \ left : \A c \in conflictTable[p] :
         ~Checked(c) \/ FALSE \in Safe(p, c)
    /\ \A r \in recorded :
         Shown(r[1], r[2]) \in Reported \/ Dropped(Shown(r[1], r[2]))

VInv == ValidatorTypes /\ ReportsInv /\ DuplicatesInv /\ VerdictInv

LEMMA InReported ==
  ASSUME NEW x
  PROVE  x \in Reported
         <=> \E p \in DOMAIN conflictTable : \E c \in conflictTable[p] : Shown(p, c) = x
BY DEF Reported

LEMMA InitVInv == Init => VInv
<1> SUFFICES ASSUME Init PROVE VInv
  OBVIOUS
<1>1. DOMAIN conflictTable = {}
  BY DEF Init
<1> QED BY <1>1 DEF Init, VInv, ValidatorTypes, ReportsInv, DuplicatesInv, VerdictInv

\* The lines of a conflict are numbers.
LEMMA ConflictLines ==
  ASSUME IRlog \in IRlogs, NEW p \in Pairs, NEW c \in Conflicts(p)
  PROVE  c.action1.lineNo \in Int /\ c.action2.lineNo \in Int
<1>1. ASSUME NEW t, CodeOf[t] \in DOMAIN IRlog, NEW a, NEW m \in Accesses(t, a)
      PROVE  m.lineNo \in Int
  <2>1. Code(t) \in Seq(Instruction)
    BY <1>1, Logs DEF Code
  <2>2. \A k \in DOMAIN Code(t) : Code(t)[k] \in Instruction
    BY <2>1
  <2>3. \A k \in DOMAIN Code(t) : Code(t)[k].lineNo \in Int
    BY <2>2 DEF Instruction
  <2>4. Stores(t, a) \subseteq DOMAIN Code(t) /\ Loads(t, a) \subseteq DOMAIN Code(t)
    BY DEF Stores, Loads
  <2>5. CalleeLines \subseteq Int
    BY TypeAssumption
  <2> QED BY <2>3, <2>4, <2>5 DEF Accesses
<1>2. \E a \in Shared : c \in [addr : {a}, action1 : Accesses(p[1], a), action2 : Accesses(p[2], a)]
  BY DEF Conflicts
<1>3. PICK a : c.action1 \in Accesses(p[1], a) /\ c.action2 \in Accesses(p[2], a)
  BY <1>2
<1>4. CodeOf[p[1]] \in DOMAIN IRlog /\ CodeOf[p[2]] \in DOMAIN IRlog
  BY Logs
<1> QED BY <1>1, <1>3, <1>4

LEMMA SaveVInv ==
  ASSUME VInv, NEW p \in Pairs, NEW c \in Conflicts(p), SaveNondeterminismReport(p, c)
  PROVE  VInv'
<1>1. /\ phase = "trace" /\ phase' = "trace" /\ IRlog' = IRlog
      /\ conflictTasksAndLines' = conflictTasksAndLines
      /\ recorded' = recorded \union {<<p, c>>}
  BY DEF SaveNondeterminismReport
<1>2. \A q, d : InTable(q, d)' <=> InTable(q, d) \/ (q = p /\ d = c)
  BY DEF SaveNondeterminismReport, InTable
<1>3. DOMAIN conflictTable' = DOMAIN conflictTable \union {p}
  BY DEF SaveNondeterminismReport
<1>4. ValidatorTypes'
  <2>1. c.action1.lineNo \in Int /\ c.action2.lineNo \in Int
    BY ConflictLines DEF VInv, ValidatorTypes
  <2> QED BY <1>1, <2>1 DEF VInv, ValidatorTypes
<1>5. ReportsInv'
  <2>1. \A q, d : InTable(q, d) => <<q, d>> \in recorded
    BY DEF VInv, ReportsInv, InTable
  <2>2. ASSUME NEW q \in DOMAIN conflictTable', NEW d \in conflictTable'[q]
        PROVE  <<q, d>> \in recorded'
    <3>1. InTable(q, d)'
      BY DEF InTable
    <3>2. InTable(q, d) \/ (q = p /\ d = c)
      BY <1>2, <3>1
    <3> QED BY <1>1, <2>1, <3>2
  <2>3. \A r \in recorded : r[1] \in DOMAIN conflictTable /\ InTable(r[1], r[2])
    BY <1>1 DEF VInv, ReportsInv
  <2>4. \A r \in recorded' : r[1] \in DOMAIN conflictTable' /\ InTable(r[1], r[2])'
    BY <1>1, <1>2, <1>3, <2>3
  <2>5. conflictTasksAndLines' = {}
    BY <1>1 DEF VInv, ReportsInv
  <2> QED BY <2>2, <2>4, <2>5 DEF ReportsInv
<1> QED BY <1>1, <1>4, <1>5 DEF VInv, DuplicatesInv, VerdictInv

LEMMA ParseVInv ==
  ASSUME VInv, ParseTasksIR
  PROVE  VInv'
<1>1. /\ phase = "trace" /\ phase' = "duplicates" /\ IRlog' = IRlog
      /\ conflictTasksAndLines' = conflictTasksAndLines /\ recorded' = recorded
      /\ conflictTable' = conflictTable /\ left' = DOMAIN conflictTable
  BY DEF ParseTasksIR
<1>2. Tasks' \in [SectionNames -> Seq(Instruction)]
  BY ParsedType DEF VInv, ValidatorTypes
<1>3. ValidatorTypes'
  BY <1>1, <1>2 DEF VInv, ValidatorTypes, SectionNames
<1>4. ReportsInv'
  BY <1>1 DEF VInv, ReportsInv
<1>5. DuplicatesInv'
  BY <1>1 DEF VInv, ReportsInv, DuplicatesInv, InTable
<1> QED BY <1>1, <1>3, <1>4, <1>5 DEF VInv, VerdictInv

LEMMA EraseVInv ==
  ASSUME VInv, NEW p \in Pairs, EraseDuplicates(p)
  PROVE  VInv'
<1> DEFINE fresh == {c \in conflictTable[p] :
                       <<NamesPair(p), Lines(c)>> \notin conflictTasksAndLines}
<1>1. /\ phase = "duplicates" /\ phase' = "duplicates" /\ IRlog' = IRlog
      /\ Tasks' = Tasks /\ recorded' = recorded /\ p \in left /\ left' = left \ {p}
      /\ conflictTasksAndLines' = conflictTasksAndLines
           \union {<<NamesPair(p), Lines(c)>> : c \in fresh}
  BY DEF EraseDuplicates
<1>2. PICK kept \in SUBSET fresh :
        /\ \A c \in fresh : \E d \in kept : Lines(d) = Lines(c)
        /\ conflictTable' = [conflictTable EXCEPT ![p] = kept]
  BY DEF EraseDuplicates
<1>3. /\ left \subseteq DOMAIN conflictTable
      /\ \A r \in recorded : IF r[1] \in left THEN InTable(r[1], r[2])
                             ELSE Shown(r[1], r[2]) \in conflictTasksAndLines
      /\ \A x \in conflictTasksAndLines :
           \E q \in DOMAIN conflictTable \ left : \E c \in conflictTable[q] : Shown(q, c) = x
  BY <1>1 DEF VInv, DuplicatesInv
<1>4. /\ DOMAIN conflictTable' = DOMAIN conflictTable
      /\ conflictTable'[p] = kept
      /\ \A q \in DOMAIN conflictTable : q # p => conflictTable'[q] = conflictTable[q]
  BY <1>1, <1>2, <1>3
<1>5. \A q, c : Shown(q, c)' = Shown(q, c)
  BY <1>1 DEF Shown, NamesPair
<1>6. \A c \in kept : c \in conflictTable[p]
  BY <1>2
<1>7. ValidatorTypes'
  BY <1>1 DEF VInv, ValidatorTypes, SectionNames
<1>8. ReportsInv'
  <2>1. \A q \in DOMAIN conflictTable : \A c \in conflictTable[q] : <<q, c>> \in recorded
    BY DEF VInv, ReportsInv
  <2>2. \A q \in DOMAIN conflictTable' : \A c \in conflictTable'[q] : <<q, c>> \in recorded'
    BY <1>1, <1>4, <1>6, <2>1
  <2>3. \A r \in recorded : r[1] \in DOMAIN conflictTable
    BY <1>1 DEF VInv, ReportsInv
  <2> QED BY <1>1, <1>4, <2>2, <2>3 DEF ReportsInv
<1>9. DuplicatesInv'
  <2>1. left' \subseteq DOMAIN conflictTable'
    BY <1>1, <1>3, <1>4
  <2>2. ASSUME NEW r \in recorded
        PROVE  IF r[1] \in left' THEN InTable(r[1], r[2])'
               ELSE Shown(r[1], r[2]) \in conflictTasksAndLines'
    <3>1. CASE r[1] \in left'
      BY <1>1, <1>3, <1>4, <3>1 DEF InTable
    <3>2. CASE r[1] \notin left
      BY <1>1, <1>3, <3>2
    <3>3. CASE r[1] = p
      <4>1. r[2] \in conflictTable[p]
        BY <1>1, <1>3, <3>3 DEF InTable
      <4>2. Shown(r[1], r[2]) = <<NamesPair(p), Lines(r[2])>>
        BY <3>3 DEF Shown
      <4>3. Shown(r[1], r[2]) \in conflictTasksAndLines'
        BY <1>1, <4>1, <4>2
      <4> QED BY <1>1, <3>3, <4>3
    <3> QED BY <1>1, <3>1, <3>2, <3>3
  <2>3. ASSUME NEW x \in conflictTasksAndLines'
        PROVE  \E q \in DOMAIN conflictTable' \ left' :
                 \E c \in conflictTable'[q] : Shown(q, c) = x
    <3>1. CASE x \in conflictTasksAndLines
      <4>1. PICK q \in DOMAIN conflictTable \ left : \E c \in conflictTable[q] : Shown(q, c) = x
        BY <1>3, <3>1
      <4> QED BY <1>1, <1>4, <4>1
    <3>2. CASE x \notin conflictTasksAndLines
      <4>1. PICK c \in fresh : x = <<NamesPair(p), Lines(c)>>
        BY <1>1, <3>2
      <4>2. PICK d \in kept : Lines(d) = Lines(c)
        BY <1>2
      <4>3. Shown(p, d) = x
        BY <4>1, <4>2 DEF Shown
      <4>4. p \in DOMAIN conflictTable' \ left'
        BY <1>1, <1>3, <1>4
      <4> QED BY <1>4, <4>3, <4>4
    <3> QED BY <3>1, <3>2
  <2> QED BY <1>1, <1>5, <2>1, <2>2, <2>3 DEF DuplicatesInv
<1> QED BY <1>1, <1>7, <1>8, <1>9 DEF VInv, VerdictInv

LEMMA ErasedVInv ==
  ASSUME VInv, DuplicatesErased
  PROVE  VInv'
<1>1. /\ phase = "duplicates" /\ left = {} /\ phase' = "validate"
      /\ left' = DOMAIN conflictTable /\ IRlog' = IRlog /\ Tasks' = Tasks
      /\ conflictTable' = conflictTable /\ recorded' = recorded
  BY DEF DuplicatesErased
<1>2. ValidatorTypes'
  BY <1>1 DEF VInv, ValidatorTypes, SectionNames
<1>3. ReportsInv'
  BY <1>1 DEF VInv, ReportsInv
<1>4. /\ \A q, c : Shown(q, c)' = Shown(q, c)
      /\ Reported' = Reported
  BY <1>1 DEF Reported, Shown, NamesPair
<1>5. ASSUME NEW r \in recorded
      PROVE  Shown(r[1], r[2]) \in Reported
  <2>1. Shown(r[1], r[2]) \in conflictTasksAndLines
    BY <1>1 DEF VInv, DuplicatesInv
  <2>2. \E p \in DOMAIN conflictTable \ left :
          \E c \in conflictTable[p] : Shown(p, c) = Shown(r[1], r[2])
    BY <1>1, <2>1 DEF VInv, DuplicatesInv
  <2> QED BY <2>2, InReported
<1>6. VerdictInv'
  BY <1>1, <1>4, <1>5 DEF VerdictInv
<1> QED BY <1>1, <1>2, <1>3, <1>6 DEF VInv, DuplicatesInv

LEMMA ValidateVInv ==
  ASSUME VInv, NEW p \in Pairs, Validate(p)
  PROVE  VInv'
<1>1. /\ phase = "validate" /\ phase' = "validate" /\ IRlog' = IRlog
      /\ Tasks' = Tasks /\ recorded' = recorded /\ p \in left /\ left' = left \ {p}
  BY DEF Validate
<1>2. PICK kept \in SUBSET conflictTable[p] :
        /\ \A c \in conflictTable[p] \ kept : Checked(c) /\ TRUE \in Safe(p, c)
        /\ \A c \in kept : ~Checked(c) \/ FALSE \in Safe(p, c)
        /\ conflictTable' =
             [q \in DOMAIN conflictTable \ (IF kept = {} THEN {p} ELSE {}) |->
                IF q = p THEN kept ELSE conflictTable[q]]
  BY DEF Validate
<1>3. /\ \A q, c : Shown(q, c)' = Shown(q, c)
      /\ \A q, c : Safe(q, c)' = Safe(q, c)
  <2>1. \A q : NamesPair(q)' = NamesPair(q)
    BY <1>1 DEF NamesPair
  <2>2. ASSUME NEW q, NEW c
        PROVE  Safe(q, c)' = Safe(q, c)
    BY <1>1, <2>1 DEF Safe
  <2> QED BY <2>1, <2>2 DEF Shown
<1>4. ASSUME NEW q \in DOMAIN conflictTable', NEW c \in conflictTable'[q]
      PROVE  /\ q \in DOMAIN conflictTable /\ c \in conflictTable[q]
             /\ q = p => c \in kept
  BY <1>2
<1>5. ASSUME NEW q \in DOMAIN conflictTable, NEW c \in conflictTable[q], q # p \/ c \in kept
      PROVE  q \in DOMAIN conflictTable' /\ c \in conflictTable'[q]
  BY <1>2, <1>5
<1>6. ValidatorTypes'
  BY <1>1 DEF VInv, ValidatorTypes, SectionNames
<1>7. \A q \in DOMAIN conflictTable : \A c \in conflictTable[q] : <<q, c>> \in recorded
  BY DEF VInv, ReportsInv
<1>8. ReportsInv'
  BY <1>1, <1>4, <1>7 DEF ReportsInv
<1>9. ASSUME NEW q \in DOMAIN conflictTable' \ left', NEW c \in conflictTable'[q]
      PROVE  ~Checked(c) \/ FALSE \in Safe(q, c)
  <2>1. CASE q = p
    BY <1>2, <1>4, <2>1
  <2>2. CASE q # p
    <3>1. q \in DOMAIN conflictTable \ left /\ c \in conflictTable[q]
      BY <1>1, <1>4, <2>2
    <3> QED BY <1>1, <3>1 DEF VInv, VerdictInv
  <2> QED BY <2>1, <2>2
<1>10. ASSUME NEW r \in recorded
       PROVE  Shown(r[1], r[2]) \in Reported' \/ Dropped(Shown(r[1], r[2]))
  <2> DEFINE x == Shown(r[1], r[2])
  <2>1. x \in Reported \/ Dropped(x)
    BY <1>1 DEF VInv, VerdictInv
  <2> HIDE DEF x
  <2>2. CASE x \in Reported
    <3>1. PICK q \in DOMAIN conflictTable : \E c \in conflictTable[q] : Shown(q, c) = x
      BY <2>2, InReported
    <3>2. PICK c \in conflictTable[q] : Shown(q, c) = x
      BY <3>1
    <3>3. CASE q # p \/ c \in kept
      <4>1. q \in DOMAIN conflictTable' /\ c \in conflictTable'[q] /\ Shown(q, c)' = x
        BY <1>3, <1>5, <3>2, <3>3
      <4>2. x \in Reported'
        BY <4>1 DEF Reported
      <4> QED BY <4>2 DEF x
    <3>4. CASE q = p /\ c \notin kept
      <4>1. Checked(c) /\ TRUE \in Safe(q, c)
        BY <1>2, <3>2, <3>4
      <4>2. <<q, c>> \in recorded
        BY <1>7, <3>2
      <4>3. Dropped(x)
        BY <3>2, <4>1, <4>2 DEF Dropped
      <4> QED BY <4>3 DEF x
    <3> QED BY <3>3, <3>4
  <2> QED BY <2>1, <2>2 DEF x
<1>11. ASSUME NEW r \in recorded
       PROVE  Dropped(Shown(r[1], r[2]))' <=> Dropped(Shown(r[1], r[2]))
  BY <1>1, <1>3 DEF Dropped
<1>12. VerdictInv'
  <2>1. \A q \in DOMAIN conflictTable' \ left' : \A c \in conflictTable'[q] :
          ~Checked(c) \/ FALSE \in Safe(q, c)'
    BY <1>3, <1>9
  <2>2. \A r \in recorded' :
          Shown(r[1], r[2])' \in Reported' \/ Dropped(Shown(r[1], r[2]))'
    BY <1>1, <1>3, <1>10, <1>11
  <2> QED BY <2>1, <2>2 DEF VerdictInv
<1> QED BY <1>1, <1>6, <1>8, <1>12 DEF VInv, DuplicatesInv

LEMMA NextVInv ==
  ASSUME VInv, [Next]_vars
  PROVE  VInv'
<1>1. CASE UNCHANGED vars
  <2>1. /\ IRlog' = IRlog /\ Tasks' = Tasks /\ conflictTable' = conflictTable
        /\ conflictTasksAndLines' = conflictTasksAndLines /\ phase' = phase
        /\ left' = left /\ recorded' = recorded
    BY <1>1 DEF vars
  <2>2. \A q : NamesPair(q)' = NamesPair(q)
    BY <2>1 DEF NamesPair
  <2>3. /\ \A q, c : Shown(q, c)' = Shown(q, c)
        /\ \A q, c : Safe(q, c)' = Safe(q, c)
        /\ \A q, c : InTable(q, c)' <=> InTable(q, c)
    BY <2>1, <2>2 DEF Shown, Safe, InTable
  <2>4. Reported' = Reported
    BY <2>1, <2>2 DEF Reported, Shown
  <2>5. ASSUME NEW r \in recorded
        PROVE  Dropped(Shown(r[1], r[2]))' <=> Dropped(Shown(r[1], r[2]))
    BY <2>1, <2>3 DEF Dropped
  <2>6. ValidatorTypes'
    BY <2>1 DEF VInv, ValidatorTypes, SectionNames
  <2>7. ReportsInv'
    BY <2>1, <2>3 DEF VInv, ReportsInv
  <2>8. DuplicatesInv'
    BY <2>1, <2>3 DEF VInv, DuplicatesInv
  <2>9. VerdictInv'
    BY <2>1, <2>3, <2>4, <2>5 DEF VInv, VerdictInv
  <2> QED BY <2>6, <2>7, <2>8, <2>9 DEF VInv
<1>2. CASE ParseTasksIR
  BY <1>2, ParseVInv
<1>3. CASE DuplicatesErased
  BY <1>3, ErasedVInv
<1>4. ASSUME NEW p \in Pairs, NEW c \in Conflicts(p), SaveNondeterminismReport(p, c)
      PROVE  VInv'
  BY <1>4, SaveVInv
<1>5. ASSUME NEW p \in Pairs, EraseDuplicates(p)
      PROVE  VInv'
  BY <1>5, EraseVInv
<1>6. ASSUME NEW p \in Pairs, Validate(p)
      PROVE  VInv'
  BY <1>6, ValidateVInv
<1> QED BY <1>1, <1>2, <1>3, <1>4, <1>5, <1>6 DEF Next

LEMMA Invariance == Spec => []VInv
BY InitVInv, NextVInv, PTL DEF Spec

\* The check of a conflict whose lines are found has one outcome.
LEMMA VerdictOf ==
  ASSUME VInv, phase # "trace", NEW r \in recorded, LinesFound(r[1], r[2])
  PROVE  Safe(r[1], r[2]) = {Compatible(r[1], r[2])}
<1> DEFINE names == NamesPair(r[1])
           lines == Lines(r[2])
<1>1. r[1] \in Pairs /\ r[2].action1.lineNo \in Int /\ r[2].action2.lineNo \in Int
  BY DEF VInv, ValidatorTypes
<1>2. \A k \in {1, 2} : lines[k] \in Int
  BY <1>1 DEF Lines
<1>3. \A k \in {1, 2} : names[k] \in SectionNames
  BY <1>1, Logs DEF VInv, ValidatorTypes, NamesPair, SectionNames
<1>4. Tasks \in [SectionNames -> Seq(Instruction)]
  BY DEF VInv, ValidatorTypes
<1> HIDE DEF names, lines
<1>5. \A k \in {1, 2} : Tasks[names[k]] \in Seq(Instruction) /\ lines[k] \in Int
  BY <1>2, <1>3, <1>4
<1>6. FoundOf(Tasks, names, lines)
  BY OfLooks DEF names, lines
<1>7. SafeOf(Tasks, names, lines) = {CompatibleOf(Tasks, names, lines)}
  BY <1>5, <1>6, SafeByDataFlow
<1>8. Compatible(r[1], r[2]) = CompatibleOf(Tasks, names, lines)
  <2>1. Compatible(r[1], r[2]) \in BOOLEAN
    BY DEF Compatible
  <2>2. CompatibleOf(Tasks, names, lines) \in BOOLEAN
    BY DEF CompatibleOf
  <2>3. Compatible(r[1], r[2]) <=> CompatibleOf(Tasks, names, lines)
    BY OfLooks DEF names, lines
  <2> QED BY <2>1, <2>2, <2>3
<1> QED BY <1>7, <1>8, OfLooks DEF names, lines

\* Conflicts that look alike have the same outcomes.
LEMMA AlikeSame ==
  ASSUME NEW p, NEW c, NEW q, NEW d, Shown(p, c) = Shown(q, d)
  PROVE  /\ Safe(p, c) = Safe(q, d)
         /\ LinesFound(p, c) <=> LinesFound(q, d)
         /\ Compatible(p, c) <=> Compatible(q, d)
<1>1. NamesPair(p) = NamesPair(q) /\ Lines(c) = Lines(d)
  BY DEF Shown
<1> QED BY <1>1, OfLooks

\* When all reports were visited, nothing is left to chance.
LEMMA VerdictsFollow ==
  ASSUME VInv
  PROVE  VerdictsByDataFlow
<1> SUFFICES ASSUME Done, NEW r \in recorded, LinesFound(r[1], r[2]),
                    \A q \in LookAlikes(r[1], r[2]) : ~Mixed(q[2])
             PROVE  Shown(r[1], r[2]) \in Reported <=> ~Compatible(r[1], r[2])
  BY DEF VerdictsByDataFlow
<1>1. phase = "validate" /\ left = {}
  BY DEF Done
<1>2. Safe(r[1], r[2]) = {Compatible(r[1], r[2])}
  BY <1>1, VerdictOf
<1>3. ASSUME NEW q \in recorded, Shown(q[1], q[2]) = Shown(r[1], r[2])
      PROVE  Checked(q[2]) /\ Safe(q[1], q[2]) = Safe(r[1], r[2])
  <2>1. ~Mixed(q[2])
    BY <1>3 DEF LookAlikes
  <2> QED BY <1>3, <2>1, AlikeSame DEF Mixed, Checked
<1>4. ASSUME Shown(r[1], r[2]) \in Reported
      PROVE  ~Compatible(r[1], r[2])
  <2>1. PICK p \in DOMAIN conflictTable :
          \E c \in conflictTable[p] : Shown(p, c) = Shown(r[1], r[2])
    BY <1>4, InReported
  <2>2. PICK c \in conflictTable[p] : Shown(p, c) = Shown(r[1], r[2])
    BY <2>1
  <2>3. <<p, c>> \in recorded
    BY DEF VInv, ReportsInv
  <2>4. Checked(c) /\ Safe(p, c) = Safe(r[1], r[2])
    BY <1>3, <2>2, <2>3
  <2>5. FALSE \in Safe(p, c)
    BY <1>1, <2>4 DEF VInv, VerdictInv
  <2> QED BY <1>2, <2>4, <2>5
<1>5. ASSUME Shown(r[1], r[2]) \notin Reported
      PROVE  Compatible(r[1], r[2])
  <2>1. Dropped(Shown(r[1], r[2]))
    BY <1>1, <1>5 DEF VInv, VerdictInv
  <2>2. PICK q \in recorded : /\ Shown(q[1], q[2]) = Shown(r[1], r[2])
                              /\ TRUE \in Safe(q[1], q[2])
    BY <2>1 DEF Dropped
  <2>3. TRUE \in Safe(r[1], r[2])
    BY <1>3, <2>2
  <2> QED BY <1>2, <2>3
<1> QED BY <1>4, <1>5

LEMMA MixedKept ==
  ASSUME VInv
  PROVE  ReadWriteKept
<1> SUFFICES ASSUME Done, NEW r \in recorded, Mixed(r[2]),
                    \A q \in LookAlikes(r[1], r[2]) :
                      Mixed(q[2]) \/ (LinesFound(q[1], q[2]) /\ ~Compatible(q[1], q[2])),
                    Shown(r[1], r[2]) \notin Reported
             PROVE  FALSE
  BY DEF ReadWriteKept
<1>1. phase = "validate" /\ left = {}
  BY DEF Done
<1>2. Dropped(Shown(r[1], r[2]))
  BY <1>1 DEF VInv, VerdictInv
<1>3. PICK q \in recorded : /\ Shown(q[1], q[2]) = Shown(r[1], r[2])
                            /\ Checked(q[2]) /\ TRUE \in Safe(q[1], q[2])
  BY <1>2 DEF Dropped
<1>4. LinesFound(q[1], q[2]) /\ ~Compatible(q[1], q[2])
  BY <1>3 DEF LookAlikes, Mixed, Checked
<1>5. Safe(q[1], q[2]) = {Compatible(q[1], q[2])}
  BY <1>1, <1>4, VerdictOf
<1> QED BY <1>3, <1>4, <1>5

-----------------------------------------------------------------------------
(* Plain updates.                                                          *)

\* What is known of the code and of the lines of the conflicts: another inductive
\* invariant.
CodeInv ==
  /\ IRlog \in IRlogs
  /\ phase \in {"trace", "duplicates", "validate"}
  /\ \A r \in recorded : r[2] \in Conflicts(r[1])
  /\ phase # "trace" => KeptCode

\* What is told from the log alone.
LEMMA LogKept ==
  ASSUME IRlog' = IRlog
  PROVE  /\ \A p : Conflicts(p)' = Conflicts(p)
         /\ Tasks' = Tasks => KeptCode' = KeptCode
<1>1. \A t : Code(t)' = Code(t)
  BY DEF Code
<1>2. \A t, a : Accesses(t, a)' = Accesses(t, a)
  BY <1>1 DEF Accesses, Stores, Loads
<1>3. \A p : Conflicts(p)' = Conflicts(p)
  BY <1>2 DEF Conflicts
<1>4. Tasks' = Tasks => KeptCode' = KeptCode
  BY DEF KeptCode, Alone
<1> QED BY <1>3, <1>4

LEMMA CodeInvariance == Spec => []CodeInv
<1>1. Init => CodeInv
  BY DEF Init, CodeInv
<1>2. ASSUME CodeInv, [Next]_vars
      PROVE  CodeInv'
  <2>1. IRlog' = IRlog
    BY <1>2 DEF Next, vars, ParseTasksIR, DuplicatesErased, SaveNondeterminismReport,
                EraseDuplicates, Validate
  <2>2. phase' \in {"trace", "duplicates", "validate"}
    BY <1>2 DEF CodeInv, Next, vars, ParseTasksIR, DuplicatesErased,
                SaveNondeterminismReport, EraseDuplicates, Validate
  <2>3. \A r \in recorded' : r[2] \in Conflicts(r[1])
    <3>1. ASSUME NEW p \in Pairs, NEW c \in Conflicts(p), SaveNondeterminismReport(p, c)
          PROVE  \A r \in recorded' : r[2] \in Conflicts(r[1])
      BY <1>2, <3>1 DEF CodeInv, SaveNondeterminismReport
    <3>2. CASE recorded' = recorded
      BY <1>2, <3>2 DEF CodeInv
    <3> QED BY <1>2, <3>1, <3>2 DEF Next, vars, ParseTasksIR, DuplicatesErased,
                                    EraseDuplicates, Validate
  <2>4. phase' # "trace" => KeptCode'
    <3>1. CASE ParseTasksIR
      BY <1>2, <3>1, ParsedKeeps DEF CodeInv
    <3>2. CASE Tasks' = Tasks /\ (phase = "trace" => phase' = "trace")
      BY <1>2, <2>1, <3>2, LogKept DEF CodeInv
    <3> QED BY <1>2, <3>1, <3>2 DEF Next, vars, DuplicatesErased,
                                    SaveNondeterminismReport, EraseDuplicates, Validate
  <2>5. \A r \in recorded' : r[2] \in Conflicts(r[1])'
    BY <2>1, <2>3, LogKept
  <2> QED BY <1>2, <2>1, <2>2, <2>4, <2>5 DEF CodeInv
<1> QED BY <1>1, <1>2, PTL DEF Spec

\* The line of a task's own write is that of its last instruction, a store, if its
\* code is a plain update.
LEMMA PlainLine ==
  ASSUME NEW t, NEW a, Code(t) \in Seq(Instruction), PlainUpdate(Code(t), a),
         NEW m \in Accesses(t, a), m.own, m.isWrite
  PROVE  LET c == Code(t)
         IN /\ Len(c) \in 1..Len(c) /\ m.lineNo = c[Len(c)].lineNo
            /\ c[Len(c)].oper = "STORE" /\ c[Len(c)].lineNo > 0
            /\ \A j \in DOMAIN c : c[j].lineNo <= c[Len(c)].lineNo
<1> DEFINE c == Code(t)
<1>1. PICK k \in Stores(t, a) : m.lineNo = c[k].lineNo
  BY DEF Accesses
<1>2. k \in DOMAIN c /\ c[k].oper = "STORE" /\ c[k].destination = a
  BY <1>1 DEF Stores
<1>3. /\ c[k].lineNo > 0 \/ c[k].oper = "ALLOCA"
      /\ \A j \in 1..k : c[j].lineNo <= c[k].lineNo
      /\ c[k].oper = "STORE" /\ c[k].destination = a <=> k = Len(c)
  BY <1>2, Zenon DEF PlainUpdate
<1>4. k = Len(c) /\ c[k].lineNo > 0
  BY <1>2, <1>3
<1>5. DOMAIN c = 1..Len(c)
  OBVIOUS
<1> HIDE DEF c
<1>6. /\ Len(c) \in 1..Len(c) /\ m.lineNo = c[Len(c)].lineNo
      /\ c[Len(c)].oper = "STORE" /\ c[Len(c)].lineNo > 0
      /\ \A j \in DOMAIN c : c[j].lineNo <= c[Len(c)].lineNo
  BY <1>1, <1>2, <1>3, <1>4, <1>5
<1> QED BY <1>6 DEF c

\* The line is found, is a store of a value that no call has part in, and only
\* operations of the kind lead to it.
PlainAt(body, line, kind) ==
  /\ Found(body, line) # {} /\ StoresSafely(body, line)
  /\ OperationsOf(body, line) \subseteq kind

LEMMA PlainBody ==
  ASSUME NEW c \in Seq(Instruction), NEW body \in Seq(Instruction), Keeps(body, c),
         NEW kind, NEW line \in Int,
         Len(c) \in 1..Len(c), line = c[Len(c)].lineNo, line > 0,
         c[Len(c)].oper = "STORE", \A j \in DOMAIN c : c[j].lineNo <= line,
         \A j \in DOMAIN c : c[j].oper # "CALL", Only(c, kind)
  PROVE  PlainAt(body, line, kind)
<1> DEFINE N == Len(body)
<1>1. /\ N \in Nat /\ DOMAIN body = 1..N /\ N > 0
      /\ body[N].lineNo = line /\ body[N].oper = "STORE"
  BY DEF Keeps
<1>2. \A k \in 1..N : /\ body[k].lineNo <= line /\ body[k].oper # "CALL"
                      /\ body[k].oper \in Arith => body[k].oper \in kind
  <2>1. \A k \in 1..N : \E j \in DOMAIN c : body[k] = c[j]
    BY <1>1 DEF Keeps
  <2> HIDE DEF N
  <2> QED BY <2>1 DEF Only
<1>3. UpTo(body, line) = N
  <2>1. /\ UpTo(body, line) \in 0..N
        /\ UpTo(body, line) = N \/ body[UpTo(body, line) + 1].lineNo > line
    BY UpToIndex
  <2> HIDE DEF N
  <2>2. ASSUME UpTo(body, line) # N
        PROVE  FALSE
    <3>1. UpTo(body, line) + 1 \in 1..N
      BY <1>1, <2>1, <2>2
    <3>2. body[UpTo(body, line) + 1] \in Instruction
      BY <1>1, <3>1
    <3>3. body[UpTo(body, line) + 1].lineNo \in Int
      BY <3>2 DEF Instruction
    <3> QED BY <1>2, <2>1, <2>2, <3>1, <3>3
  <2> QED BY <2>2
<1> HIDE DEF N
<1>4. N \in Found(body, line) /\ \A j \in Found(body, line) : j \in 1..N /\ j <= N
  BY <1>1, <1>3 DEF Found
<1>5. Chosen(body, line) = body[N]
  <2>1. \A k \in Found(body, line) : (\A j \in Found(body, line) : j <= k) <=> k = N
    BY <1>1, <1>4
  <2>2. (CHOOSE k \in Found(body, line) : \A j \in Found(body, line) : j <= k) = N
    BY <1>4, <2>1
  <2> QED BY <2>2 DEF Chosen
<1>6. ~PassedOn(body, N, Chosen(body, line).operand1)
  BY <1>2 DEF PassedOn
<1>7. OperationsOf(body, line) \subseteq kind
  BY <1>2, <1>3 DEF OperationsOf, OperationsFor
<1> QED BY <1>1, <1>3, <1>4, <1>5, <1>6, <1>7 DEF PlainAt, StoresSafely

LEMMA PlainFollows ==
  ASSUME VInv, CodeInv
  PROVE  PlainUpdatesDropped
<1> SUFFICES ASSUME Done, NEW r \in recorded, PlainUpdates(r[1], r[2]),
                    NEW kind \in {Sums, Products},
                    \A k \in {1, 2} : Only(Code(r[1][k]), kind),
                    \A k \in {1, 2} : \A j \in DOMAIN Code(r[1][k]) :
                      Code(r[1][k])[j].oper # "CALL",
                    \A q \in LookAlikes(r[1], r[2]) : ~Mixed(q[2])
             PROVE  Shown(r[1], r[2]) \notin Reported
  BY DEF PlainUpdatesDropped
<1>1. phase # "trace" /\ KeptCode /\ IRlog \in IRlogs
  BY DEF Done, CodeInv
<1> DEFINE act(k) == IF k = 1 THEN r[2].action1 ELSE r[2].action2
           a == r[2].addr
<1>2. \A k \in {1, 2} : act(k) \in Accesses(r[1][k], a) /\ act(k).own /\ act(k).isWrite
  <2>1. r[2] \in Conflicts(r[1])
    BY DEF CodeInv
  <2>2. PICK x \in Shared :
          r[2] \in [addr : {x}, action1 : Accesses(r[1][1], x), action2 : Accesses(r[1][2], x)]
    BY <2>1 DEF Conflicts
  <2>3. /\ r[2].addr = x /\ r[2].action1 \in Accesses(r[1][1], x)
        /\ r[2].action2 \in Accesses(r[1][2], x)
    BY <2>2
  <2> QED BY <2>3 DEF PlainUpdates, OwnWrites
<1>3. \A k \in {1, 2} : /\ Lines(r[2])[k] = act(k).lineNo /\ act(k).lineNo \in Int
                        /\ NamesPair(r[1])[k] = IRlog[CodeOf[r[1][k]]].name
                        /\ CodeOf[r[1][k]] \in DOMAIN IRlog
  BY Logs DEF VInv, ValidatorTypes, Lines, NamesPair
<1> HIDE DEF act, a
<1>4. ASSUME NEW k \in {1, 2}
      PROVE  PlainAt(BodyAt(r[1], k), Lines(r[2])[k], kind)
  <2> DEFINE t == r[1][k]
             c == Code(t)
             body == BodyAt(r[1], k)
  <2>1. c \in Seq(Instruction) /\ c = IRlog[CodeOf[t]].code
    BY <1>1, <1>3, Logs DEF Code
  <2>2. PlainUpdate(c, a) /\ Alone(CodeOf[t])
    BY DEF PlainUpdates, OwnName, Alone, a
  <2>3. Known(c)
    <3>1. \A j \in DOMAIN c : c[j].oper \in {"ADD", "SUB", "MUL", "LOAD", "STORE", "ALLOCA", "CALL"}
      BY <2>2, Zenon DEF PlainUpdate
    <3> HIDE DEF c
    <3> QED BY <3>1 DEF Known
  <2>4. Keeps(body, c)
    BY <1>1, <1>3, <2>1, <2>2, <2>3 DEF KeptCode, BodyAt
  <2>5. body \in Seq(Instruction)
    <3>1. Tasks \in [SectionNames -> Seq(Instruction)]
      BY <1>1 DEF VInv, ValidatorTypes
    <3>2. NamesPair(r[1])[k] \in SectionNames
      BY <1>3 DEF SectionNames
    <3> QED BY <3>1, <3>2 DEF BodyAt
  <2>6. /\ Len(c) \in 1..Len(c) /\ act(k).lineNo = c[Len(c)].lineNo
        /\ c[Len(c)].oper = "STORE" /\ c[Len(c)].lineNo > 0
        /\ \A j \in DOMAIN c : c[j].lineNo <= c[Len(c)].lineNo
    BY <1>2, <2>1, <2>2, PlainLine
  <2>7. Only(c, kind) /\ \A j \in DOMAIN c : c[j].oper # "CALL"
    OBVIOUS
  <2> HIDE DEF c, body
  <2>8. PlainAt(body, act(k).lineNo, kind)
    BY <1>3, <2>1, <2>4, <2>5, <2>6, <2>7, PlainBody
  <2> QED BY <1>3, <2>8 DEF body
<1>5. LinesFound(r[1], r[2])
  BY <1>4 DEF LinesFound, PlainAt
<1>6. Compatible(r[1], r[2])
  <2>1. \A k \in {1, 2} : StoresSafely(BodyAt(r[1], k), Lines(r[2])[k])
    BY <1>4 DEF PlainAt
  <2>2. \A k \in {1, 2} : OperationsOf(BodyAt(r[1], k), Lines(r[2])[k]) \subseteq kind
    BY <1>4 DEF PlainAt
  <2>3. UNION {OperationsOf(BodyAt(r[1], k), Lines(r[2])[k]) : k \in {1, 2}} \subseteq kind
    BY <2>2
  <2> QED BY <2>1, <2>3 DEF Compatible, StoresSafely, OperationsOf
<1>7. VerdictsByDataFlow
  BY VerdictsFollow
<1> QED BY <1>5, <1>6, <1>7 DEF VerdictsByDataFlow

-----------------------------------------------------------------------------
(* Theorems.                                                               *)

\* When main's loops over the conflict table have ended, a pair of lines that only
\* write is in a report exactly if the operations that lead to the two stores are of
\* different kinds, a line is no store, or a call has part in a value
\* (Checker::checkCommutativeOperations, validator.cpp:66).  Which of several alike
\* conflicts was kept, and in which order reports were visited, has no influence.
THEOREM VerdictsTrue == Spec => []VerdictsByDataFlow
BY Invariance, VerdictsFollow, PTL

\* A conflict of a read and a write is in a report at the end, itself or one that
\* looks the same, unless a conflict of two writes with the same lines may be dropped
\* (validator.cpp:80).
THEOREM ReadWritesKept == Spec => []ReadWriteKept
BY Invariance, MixedKept, PTL

\* Two plain updates that both add and subtract, or that both multiply, are in no
\* report at the end: no call is in the way, no read looks like one of them, and no
\* other section took the name of theirs (validator.cpp:49).  The walk meets only
\* operations of the one kind, for whatever lines and names the code has.
THEOREM PlainUpdatesGo == Spec => []PlainUpdatesDropped
BY Invariance, CodeInvariance, PlainFollows, PTL
=============================================================================

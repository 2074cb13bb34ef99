------------------------------- MODULE TaskCode -------------------------------
(***************************************************************************)
(* What the code of a task means, to compare the validator with: which     *)
(* operations lead to a value (data flow), and what a location holds after *)
(* the code has run.  Code is a sequence of instructions without branches. *)
(***************************************************************************)
EXTENDS Integers, SequencesExt

CONSTANTS
  Shared,        (* locations that tasks share                             *)
  Literal,       (* the numbers in the code, by their text                 *)
  Names          (* the other names in the code                            *)

Sums     == {"ADD", "SUB"}
Products == {"MUL", "DIV"}
Arith    == Sums \union Products
Operands == Shared \union DOMAIN Literal \union Names \union {""}

\* The names in an instruction are "" as long as nothing sets them.
Instruction == [lineNo : Int, oper : STRING, destination : Operands,
                operand1 : Operands, operand2 : Operands, raw : SUBSET Operands]

\* Is the name in the text of the instruction?
Mentions(instr, name) == name = "" \/ name \in instr.raw

-----------------------------------------------------------------------------
\* The names whose values are wanted just after position k, for the value that
\* operand has after position index.
Wanted(code, index, operand) ==
  LET w[k \in 0..index] ==
    IF k = index THEN {operand}
    ELSE LET i == code[k + 1]  rest == w[k + 1] \ {i.destination}
         IN IF i.destination \notin w[k + 1] THEN w[k + 1]
            ELSE CASE i.oper = "ALLOCA" -> rest
                   [] i.oper \in {"BITCAST", "STORE", "LOAD"} -> rest \union {i.operand1}
                   [] i.oper \in Arith -> rest \union {i.operand1, i.operand2}
                   [] OTHER -> w[k + 1]
  IN w

\* The operations on the way to the value.
OperationsFor(code, index, operand) ==
  LET w == Wanted(code, index, operand)
  IN {code[k].oper : k \in {j \in 1..index : code[j].oper \in Arith
                                             /\ code[j].destination \in w[j]}}

\* A call mentions a name on the way.
PassedOn(code, index, operand) ==
  LET w == Wanted(code, index, operand)
  IN \E k \in 1..index : code[k].oper = "CALL" /\ \E n \in w[k] : Mentions(code[k], n)

-----------------------------------------------------------------------------
Step(env, i) ==
  LET a == env[i.operand1]  b == env[i.operand2]
  IN [env EXCEPT ![i.destination] =
        CASE i.oper \in {"LOAD", "STORE"} -> a
          [] i.oper = "ADD" -> a + b
          [] i.oper = "SUB" -> a - b
          [] i.oper = "MUL" -> a * b
          [] i.oper = "SHL" -> 2 * a
          [] OTHER -> 0]

\* The value of loc after the code, if it was v before.
Effect(code, loc, v) ==
  FoldLeft(Step, [o \in Operands |-> IF o \in DOMAIN Literal THEN Literal[o]
                                     ELSE IF o = loc THEN v ELSE 0], code)[loc]

Samples == 1..3

Commute(c, d, loc) ==
  \A v \in Samples : Effect(c, loc, Effect(d, loc, v)) = Effect(d, loc, Effect(c, loc, v))

Adds(c, loc)   == \A v \in Samples : Effect(c, loc, v) - v = Effect(c, loc, 1) - 1
Scales(c, loc) == \A v \in Samples : Effect(c, loc, v) = v * Effect(c, loc, 1)

UsedOnce(c, n) ==
  \E k \in DOMAIN c, f \in {"operand1", "operand2"} :
    /\ c[k][f] = n
    /\ \A j \in DOMAIN c, g \in {"operand1", "operand2"} :
         c[j][g] = n => j = k /\ g = f
Unused(c, n) == \A k \in DOMAIN c : n \notin {c[k].operand1, c[k].operand2}

\* The operations of the code are all of one kind.
Only(c, kind) == \A k \in DOMAIN c : c[k].oper \in Arith => c[k].oper \in kind

\* An update of loc in the plain form: one load, one store, every value used
\* once, by operations that the validator knows, one line after the other; it
\* adds to the old value or multiplies it, and subtracts nothing but numbers.
PlainUpdate(c, loc) ==
  /\ UsedOnce(c, loc)
  /\ \A n \in Names : UsedOnce(c, n) \/ Unused(c, n)
  /\ \A k \in DOMAIN c :
       /\ c[k].oper \in {"ADD", "SUB", "MUL", "LOAD", "STORE", "ALLOCA", "CALL"}
       /\ c[k].oper = "SUB" => c[k].operand2 \in DOMAIN Literal
       /\ c[k].lineNo > 0 \/ c[k].oper = "ALLOCA"
       /\ \A j \in 1..k : c[j].lineNo <= c[k].lineNo
       /\ c[k].oper = "STORE" /\ c[k].destination = loc <=> k = Len(c)
  /\ Adds(c, loc) \/ Scales(c, loc)
===============================================================================

----------------------------- MODULE MCValidator -----------------------------
(***************************************************************************)
(* Constants of the runs of Validator: bodies as LLVM writes them without  *)
(* optimisation, one source line per number.                               *)
(***************************************************************************)
EXTENDS Validator

Instr(l, o, d, a, b, raw) ==
  [lineNo |-> l, oper |-> o, destination |-> d, operand1 |-> a, operand2 |-> b, raw |-> raw]
Ld(l, t, x)       == Instr(l, "LOAD", t, x, "", {t, x})
St(l, v, x)       == Instr(l, "STORE", x, v, "", {v, x})
Op(l, o, t, a, b) == Instr(l, o, t, a, b, {t, a, b})
Call(l, raw)      == Instr(l, "CALL", "", "", "", raw)
Cmp(l, t, a)      == Instr(l, "OTHER", t, a, "", {t, a})
Alloca(l, x)      == Instr(l, "ALLOCA", x, "", "", {x})

\* x = 2;  x = x + 2;  x = x - 2;  x = x * 2;  x = 3 - x;  x = 0 - x;  x = x << 1
Store      == <<St(1, "2", "x")>>
Update(o)  == <<Ld(1, "t1", "x"), Op(1, o, "t2", "t1", "2"), St(1, "t2", "x")>>
From(n)    == <<Ld(1, "t1", "x"), Op(1, "SUB", "t2", n, "t1"), St(1, "t2", "x")>>
\* x = (x + 2) * 3
AddMul     == <<Ld(1, "t1", "x"), Op(1, "ADD", "t2", "t1", "2"),
                Op(1, "MUL", "t3", "t2", "3"), St(1, "t3", "x")>>
\* l = x;  x = l - 2
ByLocal    == <<Alloca(0, "l"), Ld(1, "t1", "x"), St(1, "t1", "l"), Ld(2, "t2", "l"),
                Op(2, "SUB", "t3", "t2", "2"), St(2, "t3", "x")>>
\* x = x - x * 3, the commission of motivating_bank_example_adf.cpp
Commission == <<Ld(1, "t1", "x"), Op(1, "MUL", "t2", "t1", "3"), Ld(1, "t3", "x"),
                Op(1, "SUB", "t4", "t3", "t2"), St(1, "t4", "x")>>
\* f(x + 2) before it is stored, or f(l), or f(2)
CallOn(n)  == <<Alloca(1, "l"), Ld(1, "t1", "x"), Op(1, "ADD", "t2", "t1", "2"),
                Call(1, {n}), St(1, "t2", "x")>>
\* y = 2, x = 2;  y = x
Both       == <<St(1, "2", "y"), St(1, "2", "x")>>
Copy       == <<Ld(1, "t1", "x"), St(1, "t1", "y")>>
\* for (; x < 2; x = x + 2) y = 3
Loop       == <<Ld(1, "t1", "x"), Cmp(1, "t2", "t1"), St(2, "3", "y"),
                Ld(1, "t3", "x"), Op(1, "ADD", "t4", "t3", "2"), St(1, "t4", "x")>>
\* the value compared is passed on to x
Flagged    == <<Ld(1, "t1", "x"), Cmp(1, "t2", "t1"), Op(1, "ADD", "t3", "t1", "2"),
                St(1, "t3", "x")>>

MCCodes == {Store, AddMul, ByLocal, Commission, Both, Copy, Loop, Flagged}
           \union {Update(o) : o \in {"ADD", "SUB", "MUL", "SHL"}}
           \union {From("3"), From("0")} \union {CallOn(n) : n \in {"t2", "l", "2"}}
MCIRlogs == {<<[name |-> "A", code |-> c], [name |-> "B", code |-> d]>> :
               c \in MCCodes, d \in MCCodes}
MCCodeOf  == <<1, 2, 2>>
MCPairs   == {<<1, 2>>, <<1, 3>>}
MCShared  == {"x", "y"}
MCLiteral == "0" :> 0 @@ "2" :> 2 @@ "3" :> 3
MCNames   == {"l", "t1", "t2", "t3", "t4"}
MCCallee  == {1}
MCGarbage == {"CALL", "STORE", "OTHER"}
==============================================================================

--------------------------- MODULE MemoryActions ---------------------------
(***************************************************************************)
(* What one address remembers of the accesses of a task (common/           *)
(* MemoryActions.hpp), used by the tracer and by the model of the code     *)
(* that the instrumentation pass makes.                                    *)
(***************************************************************************)
CONSTANT NULL

\* Mistakes in what an address remembers: a read replaces whatever is there; a
\* write is kept only when it is the first action; a write changes the value only.
StoreAlways(old, new) == new
StoreValue(old, new)  == IF old = NULL THEN new
                         ELSE IF new.isWrite THEN [old EXCEPT !.value = new.value] ELSE old
StoreFirst(old, new)  == IF old = NULL THEN new ELSE old

\* storeAction, after the early return of saveReadAction: the first action is
\* kept until a write, and each write replaces what is there.
StoreAction(old, new) == IF old = NULL \/ new.isWrite THEN new ELSE old
=============================================================================

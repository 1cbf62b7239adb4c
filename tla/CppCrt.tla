------------------------------- MODULE CppCrt -------------------------------
(***************************************************************************)
(* Start-up and exit of a C++ program: book/CppPkg/Library/crt0data.cpp,   *)
(* built with USE_SIMPLE_STD.                                              *)
(*                                                                         *)
(* The constructors of global objects run first, then main; both register  *)
(* destructors and handlers with atexit, and at exit these run last first. *)
(* A handler may register others while they run.  Memory may run out at    *)
(* any call of new, which then returns NULL.                               *)
(***************************************************************************)
EXTENDS Integers, SequencesExt

CONSTANTS
  Growth,       \* 32 in the code
  MaxHandlers   \* bound: how many handlers are registered

\* The first table has Growth - 1 entries.
ASSUME CrtAssumption == Growth \in Nat /\ Growth > 1 /\ MaxHandlers \in Nat

VARIABLES
  atexits,      \* the table: what its entries hold, 0 for garbage
  num_atexit, max_atexit,
  pc,           \* "ctors", "main", "exit", "over"; "crashed" after a write or a
                \* call outside the table
  i,            \* _g_finit's loop variable
  \* history, for the properties
  calls,        \* how often atexit was called: a handler is its number
  promised,     \* the handlers for which atexit returned 0
  due,          \* those handlers when exit began, last first
  ran,          \* the handlers that ran
  starved       \* memory ran out

vars == <<atexits, num_atexit, max_atexit, pc, i, calls, promised, due, ran, starved>>

Init ==
  /\ atexits = <<>> /\ num_atexit = 0 /\ max_atexit = -1
  /\ pc = "ctors" /\ i = 0
  /\ calls = 0 /\ promised = <<>> /\ due = <<>> /\ ran = <<>> /\ starved = FALSE

\* num_atexit == max_atexit is a full table.
Full_OffByOne == num_atexit > max_atexit
Full == num_atexit >= max_atexit

\* The new table holds the first max_atexit - Growth entries of the old one,
\* max_atexit counted after it was raised.
Copied_OneLess(new) ==
  [k \in 1..new |-> IF k <= new - Growth - 1 THEN atexits[k] ELSE 0]
Copied(new) == [k \in 1..new |-> IF k <= new - Growth THEN atexits[k] ELSE 0]

\* atexits[num_atexit++] = handler
Store(table, h) ==
  IF num_atexit < Len(table)
  THEN /\ atexits' = [table EXCEPT ![num_atexit + 1] = h]
       /\ num_atexit' = num_atexit + 1
       /\ promised' = Append(promised, h)
       /\ pc' = pc
  ELSE /\ pc' = "crashed"
       /\ UNCHANGED <<atexits, num_atexit, promised>>

\* max_atexit is raised before the allocation, and stays so if that fails.
Grow ==
  /\ max_atexit' = max_atexit + Growth
  /\ \/ Store(Copied(max_atexit'), calls') /\ UNCHANGED starved
     \/ starved' = TRUE /\ UNCHANGED <<atexits, num_atexit, promised, pc>>

atexit ==
  /\ pc \in {"ctors", "main", "exit"} /\ calls < MaxHandlers
  /\ calls' = calls + 1
  /\ IF Full THEN Grow
     ELSE Store(atexits, calls') /\ UNCHANGED <<max_atexit, starved>>
  /\ UNCHANGED <<i, due, ran>>

\* __do_global_ctors_aux is over.
Main ==
  /\ pc = "ctors" /\ pc' = "main"
  /\ UNCHANGED <<atexits, num_atexit, max_atexit, i, calls, promised, due, ran, starved>>

\* The program's main is over, and _g_finit begins.
Exit ==
  /\ pc = "main" /\ pc' = "exit"
  /\ i' = num_atexit - 1
  /\ due' = Reverse(promised)
  /\ UNCHANGED <<atexits, num_atexit, max_atexit, calls, promised, ran, starved>>

NextIndex_Stay == num_atexit - 1
NextIndex == i - 1

\* The handler runs: its calls of atexit come after this step.
CallHandler ==
  /\ pc = "exit" /\ i >= 0
  /\ IF i < Len(atexits) /\ atexits[i + 1] # 0
     THEN ran' = Append(ran, atexits[i + 1]) /\ pc' = pc
     ELSE pc' = "crashed" /\ UNCHANGED ran
  /\ i' = NextIndex
  /\ UNCHANGED <<atexits, num_atexit, max_atexit, calls, promised, due, starved>>

Over ==
  /\ pc = "exit" /\ i < 0 /\ pc' = "over"
  /\ UNCHANGED <<atexits, num_atexit, max_atexit, i, calls, promised, due, ran, starved>>

Next == atexit \/ Main \/ Exit \/ CallHandler \/ Over

Spec == Init /\ [][Next]_vars

-----------------------------------------------------------------------------
(* Properties *)

TypeOK ==
  /\ atexits \in Seq(0..MaxHandlers)
  /\ num_atexit \in 0..MaxHandlers
  /\ max_atexit \in Int
  /\ pc \in {"ctors", "main", "exit", "over", "crashed"}
  /\ i \in -1..MaxHandlers
  /\ calls \in 0..MaxHandlers
  /\ promised \in Seq(1..MaxHandlers)
  /\ due \in Seq(1..MaxHandlers) /\ ran \in Seq(1..MaxHandlers)
  /\ starved \in BOOLEAN

\* The table keeps what was promised, also when a handler makes it move while
\* _g_finit goes through it; and as long as memory lasts it grows in time
\* (crt0data.cpp:80-92 and 99-102).
TableHolds ==
  /\ ~starved => pc # "crashed"
  /\ num_atexit = Len(promised)
  /\ \A k \in 1..num_atexit : k <= Len(atexits) /\ atexits[k] = promised[k]

\* The handlers that were registered when exit began run once each, last first,
\* whatever is registered meanwhile, and all have run when exit is over
\* (crt0data.cpp:97-103).
LastFirst ==
  /\ Len(ran) <= Len(due)
  /\ \A k \in 1..Len(ran) : ran[k] = due[k]
  /\ pc = "over" => Len(ran) = Len(due)
=============================================================================

----------------------------- MODULE RoundRobin -----------------------------
(***************************************************************************)
(* What the thread library promises: the threads take turns in a fixed     *)
(* cyclic order.  Head(ring) is the thread whose turn it is; a new thread  *)
(* goes last in the cycle that starts at Main, and a thread leaves the     *)
(* cycle in its own turn.  thread_join returns when Main is alone.         *)
(***************************************************************************)
EXTENDS Naturals, Sequences

CONSTANTS Worker, Main

VARIABLES
  ring,      \* the cycle, from the thread whose turn it is
  joining    \* is Main inside thread_join?

vars == <<ring, joining>>

Members == {ring[i] : i \in DOMAIN ring}

Init == ring = <<Main>> /\ joining = FALSE

Create ==
  /\ ~joining
  /\ Head(ring) = Main
  /\ \E w \in Worker \ Members : ring' = Append(ring, w)
  /\ UNCHANGED joining

Turn ==
  /\ Len(ring) > 1
  /\ ring' = Append(Tail(ring), Head(ring))
  /\ UNCHANGED joining

Finish ==
  /\ Head(ring) \in Worker
  /\ ring' = Tail(ring)
  /\ UNCHANGED joining

Join ==
  /\ ~joining
  /\ Head(ring) = Main
  /\ joining' = TRUE
  /\ UNCHANGED ring

Return ==
  /\ joining
  /\ ring = <<Main>>
  /\ joining' = FALSE
  /\ UNCHANGED ring

Next == Create \/ Turn \/ Finish \/ Join \/ Return

Spec == Init /\ [][Next]_vars
=============================================================================

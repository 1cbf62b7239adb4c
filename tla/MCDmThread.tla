----------------------------- MODULE MCDmThread -----------------------------
(***************************************************************************)
(* DmThread for TLC: the walk over the ring, and the refinement mapping to *)
(* RoundRobin.                                                             *)
(***************************************************************************)
EXTENDS DmThread, FiniteSets, SequencesExt

\* The k nodes met from n by following link, as a sequence.
Walk(link, n, k) ==
  LET at[i \in 1..k] == IF i = 1 THEN n ELSE link[at[i - 1]]
  IN  [i \in 1..k |-> at[i]]

\* Following next from sys.threads meets every linked node once and comes back
\* to sys.threads, and prev is the inverse of next (_insert_thread,
\* _remove_thread).
RingIsCircle ==
  threads # NULL /\ pc[Main] \notin {"ins2", "ins3"} =>
    LET k    == Cardinality(Linked)
        ring == Walk(next, threads, k)
    IN  /\ ToSet(ring) = Linked
        /\ next[ring[k]] = threads
        /\ \A n \in Linked : prev[next[n]] = n

\* The new thread takes its place, the last one, in the cycle when
\* create_thread ends; until then the turn is the creator's.
Entering == pc[Main] \in {"setcur", "start", "reset"}
Cycle == Linked \ (IF Entering THEN {newt} ELSE {})

Ring ==
  IF threads = NULL THEN <<Main>>
  ELSE Walk(next, IF Entering THEN Main ELSE current, Cardinality(Cycle))

\* Is Main inside thread_join, be it parked there?
Joining ==
  (IF pc[Main] \in SwitchPc THEN ret[Main] ELSE pc[Main])
    \in {"join", "joinsked", "close"}

RR == INSTANCE RoundRobin WITH ring <- Ring, joining <- Joining

\* The pointers and contexts of dmthread.c implement turns in cyclic order.
TakesTurns == RR!Spec
=============================================================================

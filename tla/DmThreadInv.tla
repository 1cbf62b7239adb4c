---------------------------- MODULE DmThreadInv ----------------------------
(***************************************************************************)
(* The inductive invariants of DmThread: IndInv when no tick lands in      *)
(* create_thread (TickInCreate = FALSE), and AnyInv, which says less, with *)
(* ticks anywhere.  The ring is described node by node: links are mutually *)
(* inverse, and a rank that grows along next until it comes back to Main   *)
(* rules out a second cycle.                                               *)
(***************************************************************************)
EXTENDS DmThread

Inserting == {"ins1", "ins2", "ins3"}

\* Where each flow can be.  Only the running flow is in the middle of
\* something, and only Main is preempted outside a kernel.
PcInv ==
  /\ pc[Main] \in MainPc \union {"jump", "parked", "resume"}
  /\ \A w \in Worker : pc[w] \in WorkerPc \union SwitchPc
  /\ pc[running] \notin {"none", "parked", "gone"}
  /\ \A f \in Thread \ {running} : pc[f] \in {"none", "entry", "parked", "gone"}
  /\ ret[Main] \in {"idle", "join", "joinsked", "close"}
  /\ \A w \in Worker : pc[w] \in {"jump", "parked", "resume"} => ret[w] = "run"

\* The thread under construction.
NewInv ==
  /\ pc[Main] \in Inserting \union {"setcur", "start", "reset"} =>
       newt \in Worker
  /\ pc[Main] \in Inserting \union {"setcur", "start"} => pc[newt] = "none"
  /\ pc[Main] = "reset" => pc[newt] = "entry"

\* What is allocated, and the thread whose status is STATUS_DEAD.
HeapInv ==
  /\ ~dead[Main]
  /\ node[Main] = (IF threads = Main THEN "live" ELSE "none")
  /\ \A w \in Worker :
       /\ dead[w] <=> pc[w] \in {"dec", "sked", "exitjump", "gone"}
       /\ node[w] = IF pc[w] \in {"exitjump", "gone"} THEN "freed"
                    ELSE IF pc[w] # "none" \/ (w = newt /\ pc[Main] \in
                              Inserting \union {"setcur", "start"})
                         THEN "live"
                         ELSE "none"
       /\ pc[w] \notin {"none", "gone"} => stack[w] = "live"
       /\ pc[w] = "gone" => stack[w] = "freed" \/ unfreed = w
       /\ pc[w] = "exitjump" => unfreed = w
       /\ unfreed = w => pc[w] \in {"exitjump", "gone"}

\* A context is live exactly while its own thread waits to be jumped to.
ContextInv ==
  \A n \in Thread :
    sig_context[n] = IF \/ pc[n] \in {"parked", "entry"} /\ n # running
                        \/ pc[n] = "jump"
                     THEN n ELSE NULL

LockInv ==
  /\ Switching => insched = 1
  /\ running # Main /\ ~Switching => insched = 0

CurrentInv ==
  /\ threads = NULL =>
       /\ current = NULL /\ running = Main /\ insched = 0
       /\ pc[Main] \in {"idle", "alloc"}
       /\ pc[Main] = "idle" => ~timer
       /\ \A w \in Worker : pc[w] = "none"
  /\ threads = Main =>
       /\ current \in Thread
       /\ pc[Main] \in {"start", "reset"} => current = newt
       /\ pc[running] \notin {"jump", "exitjump", "start", "reset"} =>
            current = running
       /\ pc[running] \in {"jump", "exitjump"} =>
            current \in Linked /\ current # running

\* The predecessor of n: while the new thread is half linked, prev of the
\* head already names it.
Back(n) == IF pc[Main] = "ins3" /\ n = Main THEN prev[newt] ELSE prev[n]

RingInv ==
  /\ \A n \in Linked :
       /\ next[n] \in Linked /\ Back(n) \in Linked
       /\ next[Back(n)] = n /\ Back(next[n]) = n
  /\ pc[Main] \in {"ins2", "ins3"} => next[newt] = Main
  /\ pc[Main] = "ins2" => prev[newt] = prev[Main]
  /\ pc[Main] = "ins3" => prev[Main] = newt

Ranks(r) == \A n \in Linked : next[n] # Main => r[n] < r[next[n]]

RankInv == \E r \in [Thread -> Nat] : Ranks(r)

IndInv ==
  /\ TypeOK /\ NoFault
  /\ PcInv /\ NewInv /\ HeapInv /\ ContextInv /\ LockInv /\ CurrentInv
  /\ RingInv /\ RankInv

-----------------------------------------------------------------------------
(* Ticks anywhere: threads run and end while create_thread is preempted. *)

\* Where Main is in its own code, if it is not inside a Skedule.
Place == IF pc[Main] \in SwitchPc THEN ret[Main] ELSE pc[Main]

\* The nodes that belong to the ring wherever Main is preempted.
InRing ==
  {n \in Thread : node[n] = "live"} \ (IF Place \in Inserting THEN {newt} ELSE {})

\* A tick while sys.current is the new thread has put Main's context into the
\* new thread's node: the jump that follows finds Main's own node without one.
Lost == pc[Main] = "jump" /\ ret[Main] \in {"start", "reset"}

AnyPc ==
  /\ pc[Main] \in MainPc \union {"jump", "parked", "resume"}
  /\ \A w \in Worker : pc[w] \in WorkerPc \union SwitchPc
  /\ pc[running] \notin {"none", "parked", "gone"}
  /\ \A f \in Thread \ {running} : pc[f] \in {"none", "entry", "parked", "gone"}
  /\ ret[Main] \in MainPc
  /\ \A w \in Worker : pc[w] \in {"jump", "parked", "resume"} => ret[w] = "run"

AnyNew ==
  /\ Place \in Inserting \union {"setcur", "start", "reset"} => newt \in Worker
  /\ Place \in Inserting \union {"setcur", "start"} => pc[newt] = "none"
  /\ Place = "reset" => pc[newt] = "entry"
  /\ Place \in {"start", "reset"} => running = Main /\ pc[Main] \in {"jump", Place}

AnyNode ==
  /\ ~dead[Main]
  /\ node[Main] = (IF threads = Main THEN "live" ELSE "none")
  /\ \A w \in Worker :
       /\ dead[w] <=> pc[w] \in {"dec", "sked", "exitjump", "gone"}
       /\ node[w] = IF pc[w] \in {"exitjump", "gone"} THEN "freed"
                    ELSE IF pc[w] # "none" \/ (w = newt /\ Place \in
                              Inserting \union {"setcur", "start"})
                         THEN "live"
                         ELSE "none"

AnyCurrent ==
  /\ threads = NULL =>
       /\ current = NULL /\ running = Main /\ insched = 0
       /\ pc[Main] \in {"idle", "alloc"}
       /\ \A w \in Worker : pc[w] = "none"
  /\ threads = Main =>
       /\ current \in Thread
       /\ pc[Main] \in {"start", "reset"} => current = newt
       /\ pc[running] \notin {"jump", "exitjump", "start", "reset"} =>
            current = running
       /\ pc[running] \in {"jump", "exitjump"} /\ ~Lost =>
            current \in InRing /\ current # running

\* Every context is its own flow's, or the next jump is a fault.
AnyContext == IF Lost THEN current = Main /\ sig_context[Main] = NULL ELSE ContextInv

\* The predecessor that the new node was given has ended since: the store to
\* its next is a fault.
Doomed == Place \in {"ins2", "ins3"} /\ node[prev[newt]] = "freed"

\* next leads round the ring and prev back.  Only prev of the head is wrong
\* between the stores of _insert_thread.
AnyRing ==
  /\ \A n \in InRing : next[n] \in InRing
  /\ \A n \in InRing \ {Main} : prev[n] \in InRing /\ next[prev[n]] = n
  /\ \A n \in InRing : next[n] # Main => prev[next[n]] = n
  /\ \A m, n \in InRing : next[m] = Main /\ next[n] = Main => m = n
  /\ threads = Main /\ Place # "ins3" =>
       prev[Main] \in InRing /\ next[prev[Main]] = Main
  /\ Place \in {"ins2", "ins3"} =>
       /\ next[newt] = Main /\ prev[newt] \in Thread
       /\ ~Doomed => prev[newt] \in InRing /\ next[prev[newt]] = Main
  /\ Place = "ins3" /\ ~Doomed => prev[Main] = newt
  /\ Place \in {"setcur", "start", "reset"} => next[newt] = Main

AnyRanks(r) == \A n \in InRing : next[n] # Main => r[n] < r[next[n]]

AnyRank == \E r \in [Thread -> Nat] : AnyRanks(r)

\* Stacks, in every state; a thread's own stack outlives its last jump.
StackInv ==
  \A w \in Worker :
    /\ pc[w] \notin {"none", "gone"} => stack[w] = "live"
    /\ pc[w] = "gone" => stack[w] = "freed" \/ unfreed = w
    /\ pc[w] = "exitjump" => unfreed = w
    /\ unfreed = w => pc[w] \in {"exitjump", "gone"}

Sound == /\ AnyPc /\ AnyNew /\ AnyNode /\ AnyCurrent /\ AnyContext
         /\ AnyRing /\ AnyRank

\* What is said of stacks and of the lock holds at a fault too.
AnyInv == TypeOK /\ StackInv /\ LockInv /\ (NoFault => Sound)
=============================================================================

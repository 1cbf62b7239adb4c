--------------------------- MODULE DmThreadProofs ---------------------------
(***************************************************************************)
(* IndInv is an invariant of DmThread when no tick lands in create_thread, *)
(* whatever the set of workers, and what follows from it; and AnyInv is    *)
(* one wherever ticks land.  For each, one lemma per action shows that the *)
(* action preserves it, one step per part.                                 *)
(***************************************************************************)
EXTENDS DmThreadInv, MCDmThread, Circles, SequenceTheorems

\* A step that links, unlinks, allocates and frees nothing, and neither begins
\* nor ends an insertion, keeps the ring.
LEMMA RingFrame ==
  ASSUME TypeOK, RingInv, RankInv,
         next' = next, prev' = prev, node' = node, newt' = newt,
         pc'[Main] = pc[Main] \/ (pc[Main] \notin Inserting /\ pc'[Main] \notin Inserting)
  PROVE  Linked' = Linked /\ RingInv' /\ RankInv'
<1>1. Linked' = Linked
  BY DEF Linked, Inserting
<1>2. RingInv'
  BY <1>1 DEF RingInv, Back, Inserting
<1>3. RankInv'
  BY <1>1 DEF RankInv, Ranks
<1> QED BY <1>1, <1>2, <1>3

\* The calls that move Main's program counter and little else: create_thread
\* starts the timer, sets sys.current and sets it back; thread_join.
LEMMA InitTimerInv ==
  ASSUME TickInCreate = FALSE, IndInv, InitTimer
  PROVE  IndInv'
<1> USE ConstantAssumption DEF InitTimer, IndInv, At, Goto, Thread
<1> USE DEF heapVars, sysVars, saveVars, cpuVars, miscVars
<1>1. TypeOK'
  BY DEF TypeOK, MainPc, CreatePc
<1>2. NoFault'
  BY DEF NoFault
<1>3. PcInv'
  BY DEF PcInv, MainPc, CreatePc
<1>4. NewInv'
  BY DEF NewInv, Inserting
<1>5. HeapInv'
  BY DEF HeapInv, Inserting
<1>6. ContextInv'
  BY DEF ContextInv
<1>7. LockInv'
  BY DEF LockInv, Switching
<1>8. Linked' = Linked /\ RingInv' /\ RankInv'
  BY RingFrame DEF Inserting
<1>9. CurrentInv'
  BY <1>8 DEF TypeOK, CurrentInv
<1> QED BY <1>1, <1>2, <1>3, <1>4, <1>5, <1>6, <1>7, <1>8, <1>9

LEMMA SetCurrentInv ==
  ASSUME TickInCreate = FALSE, IndInv, SetCurrent
  PROVE  IndInv'
<1> USE ConstantAssumption DEF SetCurrent, IndInv, At, Goto, Thread
<1> USE DEF heapVars, sysVars, saveVars, cpuVars, miscVars
<1>1. TypeOK'
  BY DEF TypeOK, MainPc, CreatePc, Ptr
<1>2. NoFault'
  BY DEF NoFault
<1>3. PcInv'
  BY DEF PcInv, MainPc, CreatePc
<1>4. NewInv'
  BY DEF NewInv
<1>5. HeapInv'
  BY DEF HeapInv
<1>6. ContextInv'
  BY DEF ContextInv
<1>7. LockInv'
  BY DEF LockInv, Switching
<1>8. Linked' = Linked /\ RingInv' /\ RankInv'
  BY RingFrame DEF Inserting
<1>9. CurrentInv'
  BY <1>8 DEF TypeOK, CurrentInv, NewInv
<1> QED BY <1>1, <1>2, <1>3, <1>4, <1>5, <1>6, <1>7, <1>8, <1>9

LEMMA ResetCurrentInv ==
  ASSUME TickInCreate = FALSE, IndInv, ResetCurrent
  PROVE  IndInv'
<1> USE ConstantAssumption DEF ResetCurrent, CreatorNode, IndInv, At, Goto, Thread
<1> USE DEF heapVars, sysVars, saveVars, cpuVars, miscVars
<1>1. TypeOK'
  BY DEF TypeOK, MainPc, Ptr
<1>2. NoFault'
  BY DEF NoFault
<1>3. PcInv'
  BY DEF PcInv, MainPc
<1>4. NewInv'
  BY DEF NewInv, Inserting
<1>5. HeapInv'
  BY DEF HeapInv, Inserting
<1>6. ContextInv'
  BY DEF ContextInv
<1>7. LockInv'
  BY DEF LockInv, Switching
<1>8. Linked' = Linked /\ RingInv' /\ RankInv'
  BY RingFrame DEF Inserting
<1>9. CurrentInv'
  BY <1>8 DEF TypeOK, CurrentInv
<1> QED BY <1>1, <1>2, <1>3, <1>4, <1>5, <1>6, <1>7, <1>8, <1>9

LEMMA JoinCallInv ==
  ASSUME TickInCreate = FALSE, IndInv, JoinCall
  PROVE  IndInv'
<1> USE ConstantAssumption DEF JoinCall, IndInv, At, Goto, Thread
<1> USE DEF heapVars, sysVars, saveVars, cpuVars, miscVars
<1>1. TypeOK'
  BY DEF TypeOK, MainPc
<1>2. NoFault'
  BY DEF NoFault
<1>3. PcInv'
  BY DEF PcInv, MainPc
<1>4. NewInv'
  BY DEF NewInv, Inserting
<1>5. HeapInv'
  BY DEF HeapInv, Inserting
<1>6. ContextInv'
  BY DEF ContextInv
<1>7. LockInv'
  BY DEF LockInv, Switching
<1>8. Linked' = Linked /\ RingInv' /\ RankInv'
  BY RingFrame DEF Inserting
<1>9. CurrentInv'
  BY <1>8 DEF CurrentInv
<1> QED BY <1>1, <1>2, <1>3, <1>4, <1>5, <1>6, <1>7, <1>8, <1>9

LEMMA CloseTimerInv ==
  ASSUME TickInCreate = FALSE, IndInv, CloseTimer
  PROVE  IndInv'
<1> USE ConstantAssumption DEF CloseTimer, IndInv, At, Goto, Thread
<1> USE DEF heapVars, sysVars, saveVars, cpuVars, miscVars
<1>1. TypeOK'
  BY DEF TypeOK, MainPc
<1>2. NoFault'
  BY DEF NoFault
<1>3. PcInv'
  BY DEF PcInv, MainPc
<1>4. NewInv'
  BY DEF NewInv, Inserting
<1>5. HeapInv'
  BY DEF HeapInv, Inserting
<1>6. ContextInv'
  BY DEF ContextInv
<1>7. LockInv'
  BY DEF LockInv, Switching
<1>8. Linked' = Linked /\ RingInv' /\ RankInv'
  BY RingFrame DEF Inserting
<1>9. CurrentInv'
  BY <1>8 DEF CurrentInv
<1> QED BY <1>1, <1>2, <1>3, <1>4, <1>5, <1>6, <1>7, <1>8, <1>9

\* start_thread's first half: the new thread gets a stack and a context.
LEMMA StartThreadInv ==
  ASSUME TickInCreate = FALSE, IndInv, StartThread
  PROVE  IndInv'
<1> USE ConstantAssumption DEF StartThread, IndInv, At, Goto, Thread
<1> USE DEF heapVars, sysVars, saveVars, cpuVars, miscVars
<1>1. TypeOK'
  BY DEF TypeOK, MainPc, CreatePc, WorkerPc, HeapState, CurrentInv
<1>2. NoFault'
  BY DEF NoFault
<1>3. PcInv'
  BY DEF TypeOK, PcInv, MainPc, CreatePc, WorkerPc
<1>4. NewInv'
  BY DEF TypeOK, NewInv, Inserting
<1>5. HeapInv'
  BY DEF TypeOK, HeapInv, NewInv
<1>6. ContextInv'
  BY DEF TypeOK, ContextInv
<1>7. LockInv'
  BY DEF TypeOK, LockInv, Switching
<1>8. Linked' = Linked /\ RingInv' /\ RankInv'
  BY RingFrame DEF TypeOK, Inserting
<1>9. CurrentInv'
  BY <1>8 DEF TypeOK, CurrentInv
<1> QED BY <1>1, <1>2, <1>3, <1>4, <1>5, <1>6, <1>7, <1>8, <1>9

LEMMA JoinTestInv ==
  ASSUME TickInCreate = FALSE, IndInv, JoinTest
  PROVE  IndInv'
<1> USE ConstantAssumption DEF JoinTest, OthersLeft, IndInv, At, Goto, Thread
<1> USE DEF heapVars, sysVars, saveVars, cpuVars, miscVars
<1>1. TypeOK'
  BY DEF TypeOK, MainPc
<1>2. NoFault'
  BY DEF NoFault
<1>3. PcInv'
  BY DEF PcInv, MainPc
<1>4. NewInv'
  BY DEF NewInv, Inserting
<1>5. HeapInv'
  BY DEF HeapInv, Inserting
<1>6. ContextInv'
  BY DEF ContextInv
<1>7. LockInv'
  BY DEF LockInv, Switching
<1>8. Linked' = Linked /\ RingInv' /\ RankInv'
  BY RingFrame DEF Inserting
<1>9. CurrentInv'
  BY <1>8 DEF CurrentInv
<1> QED BY <1>1, <1>2, <1>3, <1>4, <1>5, <1>6, <1>7, <1>8, <1>9

\* A worker's own steps, up to its last Skedule.
LEMMA EnterInv ==
  ASSUME TickInCreate = FALSE, IndInv, NEW w \in Worker, Enter(w)
  PROVE  IndInv'
<1> USE ConstantAssumption DEF Enter, Unlock, IndInv, At, Goto, Thread
<1> USE DEF heapVars, sysVars, saveVars, cpuVars, miscVars
<1>1. TypeOK'
  BY DEF TypeOK, WorkerPc
<1>2. NoFault'
  BY DEF NoFault
<1>3. PcInv'
  BY DEF PcInv, WorkerPc
<1>4. NewInv'
  BY DEF NewInv, PcInv
<1>5. HeapInv'
  BY DEF HeapInv
<1>6. ContextInv'
  BY DEF ContextInv
<1>7. LockInv'
  BY DEF TypeOK, LockInv, Switching
<1>8. Linked' = Linked /\ RingInv' /\ RankInv'
  BY RingFrame
<1>9. CurrentInv'
  BY <1>8 DEF CurrentInv
<1> QED BY <1>1, <1>2, <1>3, <1>4, <1>5, <1>6, <1>7, <1>8, <1>9

LEMMA KernelReturnInv ==
  ASSUME TickInCreate = FALSE, IndInv, NEW w \in Worker, KernelReturn(w)
  PROVE  IndInv'
<1> USE ConstantAssumption DEF KernelReturn, Unlock, IndInv, At, Goto, Thread
<1> USE DEF heapVars, sysVars, saveVars, cpuVars, miscVars
<1>0. current = w /\ threads = Main /\ next[threads] # NULL
  BY DEF CurrentInv, RingInv, Linked, HeapInv, TypeOK
<1>1. TypeOK'
  BY <1>0 DEF TypeOK, WorkerPc
<1>2. NoFault'
  BY <1>0 DEF NoFault
<1>3. PcInv'
  BY DEF PcInv, WorkerPc
<1>4. NewInv'
  BY DEF NewInv
<1>5. HeapInv'
  BY <1>0 DEF TypeOK, HeapInv
<1>6. ContextInv'
  BY DEF ContextInv
<1>7. LockInv'
  BY DEF LockInv, Switching
<1>8. Linked' = Linked /\ RingInv' /\ RankInv'
  BY RingFrame
<1>9. CurrentInv'
  BY <1>8 DEF CurrentInv
<1> QED BY <1>1, <1>2, <1>3, <1>4, <1>5, <1>6, <1>7, <1>8, <1>9

LEMMA CountDownInv ==
  ASSUME TickInCreate = FALSE, IndInv, NEW w \in Worker, CountDown(w)
  PROVE  IndInv'
<1> USE ConstantAssumption DEF CountDown, Unlock, IndInv, At, Goto, Thread
<1> USE DEF heapVars, sysVars, saveVars, cpuVars, miscVars
<1>1. TypeOK'
  BY DEF TypeOK, WorkerPc
<1>2. NoFault'
  BY DEF NoFault
<1>3. PcInv'
  BY DEF PcInv, WorkerPc
<1>4. NewInv'
  BY DEF NewInv
<1>5. HeapInv'
  BY DEF HeapInv
<1>6. ContextInv'
  BY DEF ContextInv
<1>7. LockInv'
  BY DEF LockInv, Switching
<1>8. Linked' = Linked /\ RingInv' /\ RankInv'
  BY RingFrame
<1>9. CurrentInv'
  BY <1>8 DEF CurrentInv
<1> QED BY <1>1, <1>2, <1>3, <1>4, <1>5, <1>6, <1>7, <1>8, <1>9

\* A flow that was jumped to leaves Skedule.
LEMMA ResumeInv ==
  ASSUME TickInCreate = FALSE, IndInv, NEW f \in Thread, Resume(f)
  PROVE  IndInv'
<1> USE ConstantAssumption DEF Resume, Unlock, IndInv, At, Goto, Thread
<1> USE DEF heapVars, sysVars, saveVars, cpuVars, miscVars
<1>1. TypeOK'
  BY DEF TypeOK
<1>2. NoFault'
  BY DEF NoFault
<1>3. PcInv'
  BY DEF PcInv, MainPc, WorkerPc
<1>4. NewInv'
  BY DEF NewInv, PcInv, Inserting
<1>5. HeapInv'
  BY DEF HeapInv, PcInv, Inserting
<1>6. ContextInv'
  BY DEF ContextInv, PcInv
<1>7. LockInv'
  BY DEF TypeOK, LockInv, Switching, PcInv
<1>8. Linked' = Linked /\ RingInv' /\ RankInv'
  BY RingFrame DEF Inserting, PcInv
<1>9. CurrentInv'
  BY <1>8 DEF CurrentInv, PcInv
<1> QED BY <1>1, <1>2, <1>3, <1>4, <1>5, <1>6, <1>7, <1>8, <1>9

\* LongJump: the node that was picked holds its own thread's context, so the
\* jump is to a parked or new flow.
LEMMA JumpInv ==
  ASSUME TickInCreate = FALSE, IndInv, Jump
  PROVE  IndInv'
<1> USE ConstantAssumption DEF Jump, IndInv, At, Goto, Thread
<1> USE DEF heapVars, sysVars, saveVars, cpuVars, miscVars
<1>a. /\ threads = Main
      /\ current \in Linked \ {running}
      /\ pc[running] = "exitjump" => running \in Worker
  BY DEF CurrentInv, PcInv, TypeOK, MainPc, CreatePc
<1>b. pc[current] \in {"entry", "parked"}
  BY <1>a DEF PcInv, HeapInv, Linked, Inserting, MainPc, CreatePc
<1>c. sig_context[current] = current /\ current # NULL
  BY <1>a, <1>b DEF ContextInv, Linked
<1>0. /\ fault' = fault /\ running' = current
      /\ sig_context' = [sig_context EXCEPT ![current] = NULL]
      /\ pc' = [pc EXCEPT
                  ![running] = IF pc[running] = "jump" THEN "parked" ELSE "gone",
                  ![current] = IF pc[current] = "entry" THEN "entry" ELSE "resume"]
  BY <1>c
<1>1. TypeOK'
  BY <1>0, <1>a, <1>b, <1>c DEF TypeOK, WorkerPc, SwitchPc, Ptr
<1>2. NoFault'
  BY <1>0, <1>a, <1>b, <1>c DEF NoFault
<1>3. PcInv'
  BY <1>0, <1>a, <1>b, <1>c DEF TypeOK, PcInv, WorkerPc, SwitchPc, CurrentInv
<1>4. NewInv'
  BY <1>0, <1>a, <1>b, <1>c DEF TypeOK, NewInv, Inserting
<1>5. HeapInv'
  BY <1>0, <1>a, <1>b, <1>c DEF TypeOK, HeapInv, Inserting
<1>6. ContextInv'
  BY <1>0, <1>a, <1>b, <1>c DEF TypeOK, ContextInv
<1>7. LockInv'
  BY <1>0, <1>a, <1>b, <1>c DEF TypeOK, LockInv, Switching, CurrentInv
<1>8. Linked' = Linked /\ RingInv' /\ RankInv'
  BY <1>0, <1>a, RingFrame DEF TypeOK, Inserting, PcInv
<1>9. CurrentInv'
  BY <1>0, <1>a, <1>b, <1>8 DEF TypeOK, CurrentInv
<1> QED BY <1>1, <1>2, <1>3, <1>4, <1>5, <1>6, <1>7, <1>8, <1>9

\* _new_thread and the stores of _insert_thread. Until the last one the new
\* node is not linked, and prev of the head already names it (Back).
LEMMA NewThreadInv ==
  ASSUME TickInCreate = FALSE, IndInv, NewThread
  PROVE  IndInv'
<1> USE ConstantAssumption DEF NewThread, InsertAfter, IndInv, At, Goto, Thread
<1> USE DEF heapVars, sysVars, saveVars, cpuVars, miscVars
<1>1. TypeOK'
  BY DEF TypeOK, MainPc, CreatePc, Ptr, HeapState
<1>2. NoFault'
  BY DEF NoFault
<1>3. PcInv'
  BY DEF PcInv, MainPc, CreatePc
<1>4. NewInv'
  BY DEF NewInv, HeapInv
<1>5. HeapInv'
  BY DEF TypeOK, HeapInv, Inserting
<1>6. ContextInv'
  BY DEF ContextInv
<1>7. LockInv'
  BY DEF LockInv, Switching
<1>8. RingInv'
  BY DEF RingInv, Back, Linked, HeapInv
<1>9. RankInv'
  BY DEF TypeOK, Linked, RankInv, Ranks
<1>10. CurrentInv'
  BY DEF CurrentInv
<1> QED BY <1>1, <1>2, <1>3, <1>4, <1>5, <1>6, <1>7, <1>8, <1>9, <1>10

LEMMA InsertLinkNewInv ==
  ASSUME TickInCreate = FALSE, IndInv, InsertLinkNew
  PROVE  IndInv'
<1> USE ConstantAssumption DEF InsertLinkNew, InsertAfter, IndInv, At, Goto, Thread
<1> USE DEF heapVars, sysVars, saveVars, cpuVars, miscVars
<1>1. TypeOK'
  <2>1. threads = Main /\ InsertAfter \in Thread /\ newt \in Worker
    BY DEF CurrentInv, RingInv, Back, Linked, HeapInv, NewInv, Inserting, TypeOK
  <2> QED BY <2>1 DEF TypeOK, MainPc, CreatePc
<1>2. NoFault'
  BY DEF NoFault
<1>3. PcInv'
  BY DEF PcInv, MainPc, CreatePc
<1>4. NewInv'
  BY DEF NewInv, Inserting
<1>5. HeapInv'
  BY DEF HeapInv, Inserting
<1>6. ContextInv'
  BY DEF ContextInv
<1>7. LockInv'
  BY DEF LockInv, Switching
<1>8. RingInv'
  BY DEF TypeOK, RingInv, Back, Linked, CurrentInv, NewInv, HeapInv, Inserting
<1>9. RankInv'
  BY DEF Linked, RankInv, Ranks
<1>10. CurrentInv'
  BY DEF CurrentInv
<1> QED BY <1>1, <1>2, <1>3, <1>4, <1>5, <1>6, <1>7, <1>8, <1>9, <1>10

LEMMA InsertLinkNextInv ==
  ASSUME TickInCreate = FALSE, IndInv, InsertLinkNext
  PROVE  IndInv'
<1> USE ConstantAssumption DEF InsertLinkNext, InsertAfter, IndInv, At, Goto, Thread
<1> USE DEF heapVars, sysVars, saveVars, cpuVars, miscVars
<1>1. TypeOK'
  BY DEF TypeOK, MainPc, CreatePc, Ptr
<1>2. NoFault'
  BY DEF NoFault
<1>3. PcInv'
  BY DEF PcInv, MainPc, CreatePc
<1>4. NewInv'
  BY DEF NewInv, Inserting
<1>5. HeapInv'
  BY DEF HeapInv, Inserting
<1>6. ContextInv'
  BY DEF ContextInv
<1>7. LockInv'
  BY DEF LockInv, Switching
<1>8. RingInv'
  BY DEF TypeOK, RingInv, Back, Linked
<1>9. RankInv'
  BY DEF Linked, RankInv, Ranks
<1>10. CurrentInv'
  BY DEF CurrentInv
<1> QED BY <1>1, <1>2, <1>3, <1>4, <1>5, <1>6, <1>7, <1>8, <1>9, <1>10

LEMMA InsertLinkPrevInv ==
  ASSUME TickInCreate = FALSE, IndInv, InsertLinkPrev
  PROVE  IndInv'
<1> USE ConstantAssumption DEF InsertLinkPrev, InsertAfter, IndInv, At, Goto, Thread
<1> USE DEF heapVars, sysVars, saveVars, cpuVars, miscVars
<1>1. TypeOK'
  BY DEF TypeOK, MainPc, CreatePc, Ptr
<1>2. NoFault'
  BY DEF TypeOK, NoFault, HeapInv, CurrentInv, RingInv, Linked, Back
<1>3. PcInv'
  BY DEF PcInv, MainPc, CreatePc
<1>4. NewInv'
  BY DEF NewInv, Inserting
<1>5. HeapInv'
  BY DEF HeapInv, Inserting
<1>6. ContextInv'
  BY DEF ContextInv
<1>7. LockInv'
  BY DEF LockInv, Switching
<1>8. RingInv'
  BY DEF TypeOK, RingInv, Back, Linked, CurrentInv, NewInv, HeapInv, Inserting
<1>9. RankInv'
  <2>1. PICK r \in [Thread -> Nat] : Ranks(r)
    BY DEF RankInv
  <2>2. newt \in Worker /\ newt \notin Linked /\ Main \in Linked
    BY DEF NewInv, Linked, Inserting, CurrentInv, HeapInv, TypeOK
  <2>3. /\ prev[newt] \in Linked /\ next[prev[newt]] = Main /\ next[newt] = Main
    BY <2>2 DEF RingInv, Back
  <2>4. Linked' = Linked \union {newt}
    <3>1. node[newt] = "live" /\ pc[Main] = "ins3" /\ pc'[Main] = "setcur"
      BY <2>2 DEF HeapInv, NewInv, Inserting, TypeOK
    <3> QED BY <2>2, <3>1 DEF Linked
  <2> DEFINE q == [r EXCEPT ![newt] = r[prev[newt]] + 1]
  <2>5. q \in [Thread -> Nat]
    BY <2>2, <2>3 DEF Linked
  <2>6. Ranks(q)'
    BY <2>1, <2>2, <2>3, <2>4 DEF Ranks, RingInv, Linked
  <2> QED BY <2>5, <2>6 DEF RankInv
<1>10. CurrentInv'
  BY DEF CurrentInv
<1> QED BY <1>1, <1>2, <1>3, <1>4, <1>5, <1>6, <1>7, <1>8, <1>9, <1>10

\* What a caller of Skedule is, and where Skedule returns to it.
Caller(f, label) ==
  /\ f = running /\ threads = Main
  /\ \/ f = Main /\ pc[f] \in {"idle", "join", "joinsked", "close"}
                 /\ label \in {"idle", "join", "joinsked", "close"}
     \/ f \in Worker /\ pc[f] \in {"run", "dec", "sked"}
                     /\ label = pc[f]

\* The three outcomes of Skedule, for a caller that holds the CPU outside
\* create_thread. A dead thread is never the head, so the head stays.
LEMMA SkeduleDeadInv ==
  ASSUME TickInCreate = FALSE, IndInv, NEW f \in Thread, NEW label,
         NEW tick \in BOOLEAN, Caller(f, label),
         insched = 0, SkeduleDead(f, tick),
         UNCHANGED <<running, miscVars, fault>>
  PROVE  IndInv'
<1> USE ConstantAssumption DEF Caller, SkeduleDead, IndInv, Goto, Thread,
       RemoveThread, FreeDeadStack, StackOf, GetNext, NewHead, UnlinkNext,
       UnlinkPrev
<1> USE DEF heapVars, sysVars, saveVars, cpuVars, miscVars
<1>a. /\ current = f /\ f \in Worker /\ f \in Linked /\ f # Main
      /\ pc[f] \in {"dec", "sked"}
      /\ pc[Main] \in {"idle", "join", "joinsked", "close", "parked"}
  BY DEF CurrentInv, HeapInv, PcInv, Linked, MainPc, CreatePc
<1>b. /\ next[f] \in Linked /\ prev[f] \in Linked /\ next[f] # f /\ prev[f] # f
      /\ next[prev[f]] = f /\ prev[next[f]] = f
  BY <1>a DEF RingInv, RankInv, Ranks, Back
<1>c. Linked' = Linked \ {f} /\ Linked = {n \in Thread : node[n] = "live"}
      /\ Main \in Linked
  BY <1>a DEF Linked, TypeOK, HeapInv
<1>1. TypeOK'
  BY <1>a, <1>b DEF TypeOK, SwitchPc, HeapState
<1>2. NoFault'
  BY DEF NoFault
<1>3. PcInv'
  BY <1>a DEF PcInv, SwitchPc
<1>4. NewInv'
  BY <1>a DEF NewInv
<1>5. HeapInv'
  BY <1>a DEF TypeOK, HeapInv, PcInv
<1>6. ContextInv'
  BY <1>a DEF ContextInv
<1>7. LockInv'
  BY <1>a DEF TypeOK, LockInv, Switching
<1>8. RingInv'
  BY <1>a, <1>b, <1>c DEF TypeOK, RingInv, Back
<1>9. RankInv'
  <2>1. PICK r \in [Thread -> Nat] : Ranks(r)
    BY DEF RankInv
  <2>2. Ranks(r)'
    BY <1>a, <1>b, <1>c, <2>1 DEF Ranks
  <2> QED BY <2>2 DEF RankInv
<1>10. CurrentInv'
  BY <1>a, <1>b, <1>c DEF TypeOK, CurrentInv
<1> QED BY <1>1, <1>2, <1>3, <1>4, <1>5, <1>6, <1>7, <1>8, <1>9, <1>10

\* Skedule finds nobody else only when Main calls it.
LEMMA SkeduleAloneInv ==
  ASSUME TickInCreate = FALSE, IndInv, NEW f \in Thread, NEW label,
         NEW tick \in BOOLEAN, Caller(f, label),
         insched = 0, SkeduleAlone(f, label),
         UNCHANGED <<running, miscVars, fault>>
  PROVE  IndInv'
<1> USE ConstantAssumption DEF Caller, SkeduleAlone, IndInv, Goto, Thread,
       FreeDeadStack, GetNext
<1> USE DEF heapVars, sysVars, saveVars, cpuVars, miscVars
<1>a. current = f /\ f = Main
  BY DEF CurrentInv, RankInv, Ranks, HeapInv, Linked, Inserting, NewInv
<1>1. TypeOK'
  BY <1>a DEF TypeOK, HeapState, MainPc
<1>2. NoFault'
  BY DEF NoFault
<1>3. PcInv'
  BY <1>a DEF PcInv, MainPc
<1>4. NewInv'
  BY <1>a DEF NewInv, Inserting
<1>5. HeapInv'
  BY <1>a DEF HeapInv, Inserting, PcInv
<1>6. ContextInv'
  BY <1>a DEF ContextInv
<1>7. LockInv'
  BY <1>a DEF LockInv
<1>8. Linked' = Linked /\ RingInv' /\ RankInv'
  BY <1>a, RingFrame DEF Inserting
<1>9. CurrentInv'
  BY <1>a, <1>8 DEF CurrentInv
<1> QED BY <1>1, <1>2, <1>3, <1>4, <1>5, <1>6, <1>7, <1>8, <1>9

\* Skedule picks the next node and saves the caller's context in its own.
LEMMA SkeduleSwitchInv ==
  ASSUME TickInCreate = FALSE, IndInv, NEW f \in Thread, NEW label,
         NEW tick \in BOOLEAN, Caller(f, label),
         insched = 0, SkeduleSwitch(f, label, tick),
         UNCHANGED <<running, miscVars, fault>>
  PROVE  IndInv'
<1> USE ConstantAssumption DEF Caller, SkeduleSwitch, IndInv, Goto, Thread,
       FreeDeadStack, GetNext, SaveContext
<1> USE DEF heapVars, sysVars, saveVars, cpuVars, miscVars
<1>a. /\ current = f /\ f \in Linked
      /\ f \in Worker => pc[f] = "run" /\ label = "run"
      /\ pc[Main] \in {"idle", "join", "joinsked", "close", "parked"}
  BY DEF CurrentInv, HeapInv, PcInv, Linked, MainPc, CreatePc
<1>b. next[f] \in Linked \ {f}
  BY <1>a DEF RingInv
<1>1. TypeOK'
  BY <1>a, <1>b DEF TypeOK, HeapState, MainPc, SwitchPc
<1>2. NoFault'
  BY DEF NoFault
<1>3. PcInv'
  BY <1>a DEF TypeOK, PcInv, SwitchPc
<1>4. NewInv'
  BY <1>a DEF NewInv, Inserting
<1>5. HeapInv'
  BY <1>a DEF HeapInv, Inserting, PcInv
<1>6. ContextInv'
  BY <1>a DEF TypeOK, ContextInv
<1>7. LockInv'
  BY <1>a DEF TypeOK, LockInv, Switching
<1>8. Linked' = Linked /\ RingInv' /\ RankInv'
  BY <1>a, RingFrame DEF Inserting
<1>9. CurrentInv'
  BY <1>a, <1>b, <1>8 DEF TypeOK, CurrentInv, Linked
<1> QED BY <1>1, <1>2, <1>3, <1>4, <1>5, <1>6, <1>7, <1>8, <1>9

LEMMA SkeduleInv ==
  ASSUME TickInCreate = FALSE, IndInv, NEW f \in Thread, NEW label,
         NEW tick \in BOOLEAN, Caller(f, label), Skedule(f, label, tick)
  PROVE  IndInv'
BY SkeduleDeadInv, SkeduleAloneInv, SkeduleSwitchInv DEF Skedule

\* A tick calls Skedule for the running flow: the timer runs only once the
\* ring exists, and the lock is free only outside a switch.
LEMMA TickInv == ASSUME TickInCreate = FALSE, IndInv, Tick PROVE IndInv'
<1> USE ConstantAssumption DEF IndInv
<1>1. threads = Main
  <2>1. SUFFICES ASSUME threads = NULL PROVE FALSE
    BY DEF TypeOK
  <2>2. running = Main /\ pc[Main] = "idle" /\ ~timer
    BY <2>1 DEF CurrentInv, Tick, CreatePc
  <2> QED BY <2>2 DEF Tick
<1>2. Skedule(running, pc[running], TRUE) /\ insched = 0
  BY <1>1 DEF Tick, Skedule, CurrentInv, Thread
<1>3. Caller(running, pc[running])
  <2>1. ~Switching /\ pc[running] \notin CreatePc
    BY <1>2 DEF LockInv, Tick
  <2> QED BY <1>1, <2>1
       DEF Caller, PcInv, TypeOK, Thread, MainPc, WorkerPc, SwitchPc, Switching
<1> QED BY <1>2, <1>3, SkeduleInv DEF TypeOK

\* The last Skedule of a worker finds the lock free.
LEMMA ExitSkeduleInv ==
  ASSUME TickInCreate = FALSE, IndInv, NEW w \in Worker, ExitSkedule(w)
  PROVE  IndInv'
<1>1. insched = 0 /\ Caller(w, "sked") /\ w \in Thread
  BY ConstantAssumption DEF ExitSkedule, At, IndInv, LockInv, Switching,
         Caller, CurrentInv, TypeOK
<1>2. insched # 1
  BY <1>1
<1>3. Skedule(w, "sked", FALSE)
  BY <1>2, Zenon DEF ExitSkedule
<1> QED BY <1>1, <1>3, SkeduleInv

\* thread_join's Skedule returns at once when the lock is taken.
LEMMA JoinSkeduleInv ==
  ASSUME TickInCreate = FALSE, IndInv, JoinSkedule PROVE IndInv'
<1> USE ConstantAssumption DEF IndInv, At, Goto, Thread
<1>1. CASE insched = 1
  <2> USE <1>1 DEF JoinSkedule, heapVars, sysVars, saveVars, cpuVars, miscVars
  <2>1. TypeOK' /\ NoFault'
    BY DEF TypeOK, NoFault, MainPc
  <2>2. PcInv' /\ NewInv' /\ ContextInv' /\ LockInv'
    BY DEF TypeOK, PcInv, NewInv, ContextInv, LockInv, Inserting, MainPc
  <2>3. HeapInv'
    BY DEF TypeOK, HeapInv, Inserting
  <2>4. Linked' = Linked /\ RingInv' /\ RankInv'
    BY RingFrame DEF TypeOK, Inserting
  <2>5. CurrentInv'
    BY <2>4 DEF TypeOK, CurrentInv
  <2> QED BY <2>1, <2>2, <2>3, <2>4, <2>5
<1>2. CASE insched = 0
  <2>0. insched # 1
    BY <1>2
  <2>1. Skedule(Main, "join", FALSE)
    BY <2>0, Zenon DEF JoinSkedule
  <2>2. Caller(Main, "join")
    BY DEF JoinSkedule, Caller, CurrentInv, TypeOK
  <2> QED BY <2>1, <2>2, SkeduleInv
<1> QED BY <1>1, <1>2 DEF TypeOK

\* Nothing changes.
LEMMA StutterInv == ASSUME IndInv, UNCHANGED vars PROVE IndInv'
<1> USE DEF vars, heapVars, sysVars, saveVars, cpuVars, miscVars, IndInv
<1>1. Linked' = Linked /\ RingInv' /\ RankInv'
  BY RingFrame
<1>2. TypeOK' /\ NoFault' /\ PcInv' /\ NewInv'
  BY DEF TypeOK, NoFault, PcInv, NewInv
<1>3. HeapInv' /\ ContextInv' /\ LockInv' /\ CurrentInv'
  BY <1>1 DEF HeapInv, ContextInv, LockInv, Switching, CurrentInv
<1> QED BY <1>1, <1>2, <1>3

\* The inductive invariant holds: through every order of creations, ticks,
\* switches, deaths and joins, dmthread.c's ring stays one circle, whose nodes
\* hold their threads' contexts.
THEOREM Invariance == TickInCreate = FALSE => (Spec => []IndInv)
<1> SUFFICES ASSUME TickInCreate = FALSE PROVE Spec => []IndInv
  OBVIOUS
<1> USE ConstantAssumption
<1>1. Init => IndInv
  <2> SUFFICES ASSUME Init PROVE IndInv
    OBVIOUS
  <2> USE DEF Init, Thread
  <2>1. TypeOK /\ NoFault
    <3>1. /\ pc \in [Thread -> MainPc \union WorkerPc \union SwitchPc]
          /\ ret \in [Thread -> MainPc \union WorkerPc]
      BY DEF MainPc, WorkerPc
    <3>2. /\ node \in [Thread -> HeapState] /\ stack \in [Thread -> HeapState]
          /\ next \in [Thread -> Ptr] /\ prev \in [Thread -> Ptr]
          /\ sig_context \in [Thread -> Ptr]
      BY DEF HeapState, Ptr
    <3>3. dead \in [Thread -> BOOLEAN] /\ byTick \in [Thread -> BOOLEAN]
      OBVIOUS
    <3>4. /\ threads \in {NULL, Main} /\ current \in Ptr /\ running \in Thread
          /\ unfreed \in Worker \union {NULL} /\ newt \in Worker \union {NULL}
      BY DEF Ptr
    <3>5. /\ insched \in {0, 1} /\ gThreads \in Int
          /\ tpl \in {"application", "callback"} /\ fault = "none"
      OBVIOUS
    <3>6. timer \in BOOLEAN
      BY Zenon
    <3> HIDE DEF Thread
    <3> QED BY <3>1, <3>2, <3>3, <3>4, <3>5, <3>6 DEF TypeOK, NoFault
  <2>2. PcInv /\ NewInv /\ HeapInv
    BY DEF PcInv, NewInv, HeapInv, Inserting, MainPc, WorkerPc
  <2>3. ContextInv /\ LockInv /\ CurrentInv
    BY DEF ContextInv, LockInv, Switching, CurrentInv
  <2>4. Linked = {}
    BY DEF Linked
  <2>5. RingInv
    BY <2>4 DEF RingInv
  <2>6. RankInv
    <3>1. [n \in Thread |-> 0] \in [Thread -> Nat]
      OBVIOUS
    <3> QED BY <2>4, <3>1 DEF RankInv, Ranks
  <2> QED BY <2>1, <2>2, <2>3, <2>5, <2>6 DEF IndInv
<1>2. IndInv /\ [Next]_vars => IndInv'
  <2> SUFFICES ASSUME IndInv, [Next]_vars PROVE IndInv'
    OBVIOUS
  <2>1. CASE InitTimer BY <2>1, InitTimerInv
  <2>2. CASE JoinCall BY <2>2, JoinCallInv
  <2>3. CASE CreateStep
    BY <2>3, NewThreadInv, InsertLinkNewInv, InsertLinkNextInv,
       InsertLinkPrevInv, SetCurrentInv, StartThreadInv, ResetCurrentInv
       DEF CreateStep
  <2>4. CASE JoinStep
    BY <2>4, JoinTestInv, JoinSkeduleInv, CloseTimerInv DEF JoinStep
  <2>5. CASE Jump BY <2>5, JumpInv
  <2>6. ASSUME NEW w \in Worker, WorkerStep(w) PROVE IndInv'
    BY <2>6, EnterInv, KernelReturnInv, CountDownInv, ExitSkeduleInv
       DEF WorkerStep
  <2>7. ASSUME NEW f \in Thread, Resume(f) PROVE IndInv'
    BY <2>7, ResumeInv
  <2>8. CASE Tick BY <2>8, TickInv
  <2>9. CASE UNCHANGED vars BY <2>9, StutterInv
  <2> QED
    BY <2>1, <2>2, <2>3, <2>4, <2>5, <2>6, <2>7, <2>8, <2>9 DEF Next, CpuStep
<1> QED BY <1>1, <1>2, PTL DEF Spec

-----------------------------------------------------------------------------
\* When the head is its own successor it is the whole ring: of any other
\* nodes the one of least rank would have a predecessor of lower rank.
LEMMA AloneMeansAll ==
  ASSUME IndInv, threads = Main, pc[Main] \notin Inserting, next[Main] = Main
  PROVE  Linked = {Main}
<1> USE ConstantAssumption DEF Thread
<1>1. Main \in Linked /\ Linked \subseteq Thread
  BY DEF IndInv, HeapInv, Linked, Inserting
<1>2. PICK r \in [Thread -> Nat] : Ranks(r)
  BY DEF IndInv, RankInv
<1> DEFINE ranks == {r[n] : n \in Linked \ {Main}}
<1>3. SUFFICES ASSUME ranks # {} PROVE FALSE
  BY <1>1
<1>4. ranks \in SUBSET Nat
  BY <1>1
<1>5. PICK k \in ranks : \A j \in ranks : ~(<<j, k>> \in OpToRel(<, Nat))
  BY <1>3, <1>4, NatLessThanWellFounded, WFMin
<1>6. PICK n \in Linked \ {Main} : r[n] = k
  BY <1>5
<1>7. prev[n] \in Linked /\ next[prev[n]] = n
  BY <1>1, <1>6 DEF IndInv, RingInv, Back
<1>8. prev[n] # Main
  BY <1>6, <1>7
<1>9. r[prev[n]] < r[n] /\ r[prev[n]] \in ranks
  BY <1>1, <1>2, <1>6, <1>7, <1>8 DEF Ranks
<1> QED BY <1>4, <1>5, <1>6, <1>9 DEF OpToRel

\* Skedule, start_thread and thread_join never follow a null pointer, write to
\* a freed node, jump to a stale context or return from a dead thread.
THEOREM NeverFaults == TickInCreate = FALSE => (Spec => []NoFault)
<1>1. IndInv => NoFault BY DEF IndInv
<1> QED BY <1>1, Invariance, PTL

\* Whenever Skedule may be entered, sys.current is the node of the flow that
\* runs and every other node of the ring can be jumped to.
THEOREM AlwaysReady == TickInCreate = FALSE => (Spec => []SchedulerReady)
<1>1. IndInv => SchedulerReady
  <2> SUFFICES ASSUME IndInv, insched = 0, pc[Main] \notin CreatePc, current # NULL
               PROVE  /\ current = running
                      /\ \A n \in Linked \ {running} : sig_context[n] = n
    BY DEF SchedulerReady
  <2> USE ConstantAssumption DEF IndInv, Thread
  <2>1. threads = Main /\ ~Switching
    BY DEF CurrentInv, LockInv, TypeOK
  <2>2. current = running
    BY <2>1 DEF CurrentInv, Switching, CreatePc, PcInv, TypeOK, WorkerPc, SwitchPc
  <2>3. ASSUME NEW n \in Linked \ {running} PROVE pc[n] \in {"entry", "parked"}
    BY <2>3 DEF Linked, HeapInv, PcInv, MainPc, Inserting
  <2> QED BY <2>2, <2>3 DEF ContextInv, Linked
<1> QED BY <1>1, Invariance, PTL

-----------------------------------------------------------------------------
(* The ring as a sequence: what IndInv says node by node gives the cycle that *)
(* RoundRobin speaks of.                                                    *)

\* The nodes are finitely many, for each is allocated by a step; while
\* create_thread ends, the new thread is the last one; and the thread that
\* closes the timer is alone.
TurnInv ==
  /\ IsFiniteSet(Linked)
  /\ Entering => next[newt] = Main
  /\ pc[Main] = "close" => next[Main] = Main
  /\ ret[Main] # "close"

\* The recursive function of Walk exists, so Walk satisfies its equation.
LEMMA WalkFollows ==
  ASSUME NEW link, NEW b, NEW k \in Nat
  PROVE  Follows(link, b, k, Walk(link, b, k))
<1> DEFINE Is(g, n) == g = [i \in 1..n |-> IF i = 1 THEN b ELSE link[g[i - 1]]]
           T == {n \in 0..k : \E g : Is(g, n)}
<1>1. 0 \in T
  <2> DEFINE g == [i \in 1..0 |-> b]
  <2>1. Is(g, 0)
    OBVIOUS
  <2>2. 0 \in 0..k
    OBVIOUS
  <2> HIDE DEF g
  <2> QED
    BY <2>1, <2>2
<1>2. ASSUME NEW n \in 0..(k - 1), n \in T PROVE n + 1 \in T
  <2>1. PICK g : Is(g, n)
    BY <1>2
  <2> DEFINE h == [i \in 1..(n + 1) |->
               IF i # n + 1 THEN g[i] ELSE IF i = 1 THEN b ELSE link[g[n]]]
  <2>2. ASSUME NEW i \in 1..(n + 1)
        PROVE  h[i] = IF i = 1 THEN b ELSE link[h[i - 1]]
    <3>1. CASE i = 1
      <4>1. n + 1 # 1 => g[i] = b
        BY <2>1, <3>1
      <4> QED
        BY <3>1, <4>1
    <3>2. CASE i # 1
      <4>1. i - 1 \in 1..(n + 1) /\ i - 1 # n + 1
        BY <3>2
      <4>2. h[i - 1] = g[i - 1]
        BY <4>1
      <4>3. CASE i = n + 1
        <5>1. h[i] = link[g[n]] /\ i - 1 = n
          BY <3>2, <4>3
        <5> HIDE DEF h
        <5> QED
          BY <3>2, <4>2, <5>1
      <4>4. CASE i # n + 1
        <5>1. h[i] = g[i] /\ i \in 1..n
          BY <4>4
        <5>2. g[i] = IF i = 1 THEN b ELSE link[g[i - 1]]
          <6> HIDE DEF h
          <6> QED
            BY <2>1, <5>1
        <5> HIDE DEF h
        <5> QED
          BY <3>2, <4>2, <5>1, <5>2
      <4> QED
        BY <4>3, <4>4
    <3> QED
      BY <3>1, <3>2
  <2>3. Is(h, n + 1)
    BY <2>2
  <2>4. n + 1 \in 0..k
    OBVIOUS
  <2> HIDE DEF h
  <2> QED
    BY <2>3, <2>4
<1>3. k \in T
  <2>1. 0..k \subseteq T
    <3> HIDE DEF T
    <3> QED
      BY <1>1, <1>2, UpTo
  <2> QED
    BY <2>1
<1>4. PICK g : Is(g, k)
  BY <1>3
<1> DEFINE at == CHOOSE f : Is(f, k)
<1>5. Is(at, k)
  BY <1>4
<1>6. Walk(link, b, k) = [i \in 1..k |-> at[i]]
  BY DEF Walk
<1> HIDE DEF at
<1>7. \A i \in 1..k : Walk(link, b, k)[i] = IF i = 1 THEN b ELSE link[at[i - 1]]
  BY <1>5, <1>6
<1>8. ASSUME NEW i \in 1..(k - 1)
      PROVE  Walk(link, b, k)[i + 1] = link[Walk(link, b, k)[i]]
  <2>1. i + 1 \in 1..k /\ i + 1 # 1 /\ i + 1 - 1 = i /\ i \in 1..k
    OBVIOUS
  <2>2. Walk(link, b, k)[i + 1] = link[at[i]]
    BY <1>7, <2>1
  <2> QED
    BY <1>6, <2>1, <2>2
<1>9. k > 0 => Walk(link, b, k)[1] = b
  BY <1>7
<1>10. Walk(link, b, k) = [i \in 1..k |-> Walk(link, b, k)[i]]
  BY <1>6
<1> QED
  BY <1>8, <1>9, <1>10 DEF Follows

\* Of the nodes in a part of the ring, one has the least rank.
LEMMA LeastRank ==
  ASSUME NEW r \in [Thread -> Nat], NEW U \in SUBSET Thread, U # {}
  PROVE  \E n \in U : \A m \in U : ~(r[m] < r[n])
<1> DEFINE ranks == {r[n] : n \in U}
<1>1. ranks \in SUBSET Nat /\ ranks # {}
  OBVIOUS
<1>2. PICK k \in ranks : \A j \in ranks : ~(<<j, k>> \in OpToRel(<, Nat))
  BY <1>1, NatLessThanWellFounded, WFMin
<1>3. PICK n \in U : r[n] = k
  BY <1>2
<1>4. ASSUME NEW m \in U PROVE ~(r[m] < r[n])
  BY <1>1, <1>2, <1>3 DEF OpToRel
<1> QED
  BY <1>3, <1>4

\* The ring is one circle: a part that next stays in has predecessors too, so
\* the rank makes it hold Main, and then nothing can be outside it.
LEMMA NextIsCircle ==
  ASSUME IndInv, IsFiniteSet(Linked)
  PROVE  Circle(next, Linked)
<1>1. /\ \A n \in Linked : /\ next[n] \in Linked /\ Back(n) \in Linked
                           /\ next[Back(n)] = n /\ Back(next[n]) = n
      /\ Linked \subseteq Thread
  BY DEF IndInv, RingInv, Linked
<1>2. PICK r \in [Thread -> Nat] : \A n \in Linked : next[n] # Main => r[n] < r[next[n]]
  BY DEF IndInv, RankInv, Ranks
<1>3. ASSUME NEW T \in SUBSET Linked, T # {}, Closed(next, T)
      PROVE  T = Linked
  <2>1. \A n \in T : next[n] \in T
    BY <1>3 DEF Closed
  <2>2. ASSUME NEW n \in T PROVE \E m \in T : next[m] = n
    <3> DEFINE f == [m \in T |-> next[m]]
    <3>1. f \in Injection(T, T)
      <4>1. f \in [T -> T]
        BY <2>1
      <4>2. \A a, b \in T : f[a] = f[b] => a = b
        BY <1>1
      <4> QED
        BY <4>1, <4>2 DEF Injection, IsInjective
    <3>2. IsFiniteSet(T)
      BY FS_Subset
    <3>3. f \in Surjection(T, T)
      <4> HIDE DEF f
      <4> QED
        BY <3>1, <3>2, FS_Injection
    <3> QED
      BY <3>3 DEF Surjection
  <2>3. Main \in T
    <3>1. SUFFICES ASSUME Main \notin T PROVE FALSE
      OBVIOUS
    <3>2. PICK n \in T : \A m \in T : ~(r[m] < r[n])
      BY <1>1, <1>3, LeastRank
    <3>3. PICK m \in T : next[m] = n
      BY <2>2
    <3> QED
      BY <1>2, <3>1, <3>2, <3>3
  <2>4. SUFFICES ASSUME Linked \ T # {} PROVE FALSE
    OBVIOUS
  <2>5. PICK n \in Linked \ T : \A m \in Linked \ T : ~(r[m] < r[n])
    BY <1>1, <2>4, LeastRank
  <2>6. Back(n) \in Linked \ T /\ next[Back(n)] = n
    BY <1>1, <2>1
  <2> QED
    BY <1>2, <2>3, <2>5, <2>6
<1> QED
  BY <1>1, <1>3 DEF Circle, Closed

\* The walk around the ring from any of its nodes.
LEMMA Round ==
  ASSUME IndInv, TurnInv, NEW b \in Linked
  PROVE  LET k == Cardinality(Linked)
             s == Walk(next, b, k)
         IN  /\ k \in Nat /\ k > 0 /\ Follows(next, b, k, s)
             /\ next[s[k]] = b
             /\ \A n \in 1..k : s[n] \in Linked
             /\ \A x \in Linked : \E n \in 1..k : s[n] = x
             /\ \A m, n \in 1..k : s[m] = s[n] => m = n
<1> DEFINE k == Cardinality(Linked)
           s == Walk(next, b, k)
<1>1. IsFiniteSet(Linked) /\ Circle(next, Linked)
  BY NextIsCircle DEF TurnInv
<1>2. k \in Nat
  BY <1>1, FS_CardinalityType
<1>3. Follows(next, b, k, s)
  BY <1>2, WalkFollows
<1> HIDE DEF s
<1>4. /\ k > 0 /\ next[s[k]] = b
      /\ \A n \in 1..k : s[n] \in Linked
      /\ \A x \in Linked : \E n \in 1..k : s[n] = x
      /\ \A m, n \in 1..k : s[m] = s[n] => m = n
  <2> HIDE DEF k
  <2> QED
    BY <1>1, <1>2, <1>3, CircleRound DEF k
<1> QED
  BY <1>2, <1>3, <1>4 DEF s

\* Following next from sys.threads meets every linked node once and comes back,
\* and prev is the inverse of next (_insert_thread, _remove_thread); stated of
\* the states in which the nodes are finitely many, which are all, by
\* TurnInvariance below.
LEMMA RoundIsCircle == ASSUME IndInv, TurnInv PROVE RingIsCircle
<1> SUFFICES ASSUME threads # NULL, pc[Main] \notin {"ins2", "ins3"}
             PROVE  LET k    == Cardinality(Linked)
                        ring == Walk(next, threads, k)
                    IN  /\ ToSet(ring) = Linked
                        /\ next[ring[k]] = threads
                        /\ \A n \in Linked : prev[next[n]] = n
  BY DEF RingIsCircle
<1> DEFINE k == Cardinality(Linked)
           s == Walk(next, threads, k)
<1>1. threads = Main /\ Main \in Linked
  BY ConstantAssumption DEF IndInv, TypeOK, HeapInv, NewInv, Linked, Thread, Inserting
<1>2. /\ next[s[k]] = threads /\ Follows(next, threads, k, s)
      /\ \A n \in 1..k : s[n] \in Linked
      /\ \A x \in Linked : \E n \in 1..k : s[n] = x
  BY <1>1, Round
<1> HIDE DEF s, k
<1>3. DOMAIN s = 1..k
  BY <1>2 DEF Follows
<1>4. ToSet(s) = Linked
  BY <1>2, <1>3 DEF ToSet
<1>5. \A n \in Linked : prev[next[n]] = n
  BY DEF IndInv, RingInv, Back
<1> QED
  BY <1>2, <1>4, <1>5 DEF s, k

-----------------------------------------------------------------------------
(* Sequences that follow a circle *)

\* What follows the links is a sequence.
LEMMA FollowsIsSeq ==
  ASSUME NEW link, NEW S, NEW b, NEW k \in Nat, NEW s, Follows(link, b, k, s),
         \A i \in 1..k : s[i] \in S
  PROVE  s \in Seq(S) /\ Len(s) = k
<1>1. s \in [1..k -> S]
  BY DEF Follows
<1>2. s \in Seq(S)
  BY <1>1, SeqDef
<1>3. DOMAIN s = 1..k /\ DOMAIN s = 1..Len(s) /\ Len(s) \in Nat
  BY <1>1, <1>2, LenProperties
<1> QED
  BY <1>2, <1>3

\* The first element goes to the end of the round.
LEMMA FollowsTurn ==
  ASSUME NEW link, NEW S, NEW b, NEW k \in Nat, NEW s \in Seq(S), Len(s) = k, k > 0,
         Follows(link, b, k, s), link[s[k]] = b
  PROVE  Follows(link, link[b], k, Append(Tail(s), Head(s)))
<1> DEFINE t == Append(Tail(s), Head(s))
<1>1. /\ Tail(s) \in Seq(S) /\ Len(Tail(s)) = k - 1 /\ Head(s) \in S
      /\ \A i \in 1..(k - 1) : Tail(s)[i] = s[i + 1]
  BY HeadTailProperties, EmptySeq
<1>2. Head(s) = s[1] /\ s[1] = b
  BY DEF Follows
<1>3. t \in Seq(S) /\ Len(t) = k
  BY <1>1
<1>4. /\ \A i \in 1..(k - 1) : t[i] = s[i + 1]
      /\ t[k] = b
  BY <1>1, <1>2
<1>5. t = [i \in 1..k |-> t[i]]
  BY <1>3, LenProperties
<1> HIDE DEF t
<1>6. t[1] = link[b]
  <2>1. CASE k = 1
    BY <1>2, <1>4, <2>1
  <2>2. CASE k # 1
    BY <1>2, <1>4, <2>2 DEF Follows
  <2> QED
    BY <2>1, <2>2
<1>7. ASSUME NEW i \in 1..(k - 1) PROVE t[i + 1] = link[t[i]]
  <2>1. CASE i = k - 1
    BY <1>4, <2>1
  <2>2. CASE i # k - 1
    <3>1. i + 1 \in 1..(k - 1)
      BY <2>2
    <3>2. s[i + 1 + 1] = link[s[i + 1]]
      BY <3>1 DEF Follows
    <3> QED
      BY <1>4, <3>1, <3>2
  <2> QED
    BY <2>1, <2>2
<1> QED
  BY <1>5, <1>6, <1>7 DEF Follows, t

\* The first element is left out, and perhaps what the last one links to changes.
LEMMA FollowsTail ==
  ASSUME NEW link, NEW link2, NEW S, NEW b, NEW k \in Nat, NEW s \in Seq(S),
         Len(s) = k, k > 1, Follows(link, b, k, s),
         \A i \in 2..(k - 1) : link2[s[i]] = link[s[i]]
  PROVE  Follows(link2, link[b], k - 1, Tail(s))
<1> DEFINE t == Tail(s)
<1>1. t \in Seq(S) /\ Len(t) = k - 1 /\ \A i \in 1..(k - 1) : t[i] = s[i + 1]
  BY HeadTailProperties, EmptySeq
<1>2. t = [i \in 1..(k - 1) |-> t[i]]
  BY <1>1, LenProperties
<1> HIDE DEF t
<1>3. t[1] = link[b]
  <2>1. 1 \in 1..(k - 1) /\ 1 + 1 = 2
    OBVIOUS
  <2>2. t[1] = s[1 + 1]
    BY <1>1, <2>1
  <2>3. s[1] = b
    BY DEF Follows
  <2>4. s[1 + 1] = link[s[1]]
    BY <2>1 DEF Follows
  <2> QED
    BY <2>2, <2>3, <2>4
<1>4. ASSUME NEW i \in 1..(k - 1 - 1) PROVE t[i + 1] = link2[t[i]]
  <2>1. i + 1 \in 1..(k - 1) /\ i \in 1..(k - 1) /\ i + 1 \in 2..(k - 1)
    OBVIOUS
  <2>2. s[i + 1 + 1] = link[s[i + 1]]
    BY <2>1 DEF Follows
  <2> QED
    BY <1>1, <2>1, <2>2
<1> QED
  BY <1>2, <1>3, <1>4 DEF Follows, t

\* The last element is left out.
LEMMA FollowsFront ==
  ASSUME NEW link, NEW S, NEW b, NEW k \in Nat, k > 0, NEW s \in Seq(S), Len(s) = k,
         Follows(link, b, k, s), NEW u, u = [i \in 1..(k - 1) |-> s[i]]
  PROVE  Follows(link, b, k - 1, u) /\ s = Append(u, s[k])
<1>1. \A i \in 1..k : s[i] \in S
  OBVIOUS
<1>2. u \in Seq(S) /\ Len(u) = k - 1
  <2>1. u \in [1..(k - 1) -> S] /\ k - 1 \in Nat
    BY <1>1
  <2>2. u \in Seq(S)
    BY <2>1, SeqDef
  <2>3. DOMAIN u = 1..(k - 1) /\ DOMAIN u = 1..Len(u) /\ Len(u) \in Nat
    BY <2>1, <2>2, LenProperties
  <2> QED
    BY <2>1, <2>2, <2>3
<1>3. \A i \in 1..(k - 1) : u[i] = s[i]
  OBVIOUS
<1>4. u = [i \in 1..(k - 1) |-> u[i]]
  OBVIOUS
<1>5. s = Append(u, s[k])
  <2> DEFINE t == Append(u, s[k])
  <2>1. /\ t \in Seq(S) /\ Len(t) = k
        /\ \A i \in 1..(k - 1) : t[i] = s[i]
        /\ t[k] = s[k]
    BY <1>1, <1>2, <1>3
  <2> HIDE DEF t
  <2>2. t = s
    BY <2>1, SeqEqual
  <2> QED
    BY <2>2 DEF t
<1>6. Follows(link, b, k - 1, u)
  <2>1. ASSUME k - 1 > 0 PROVE u[1] = b
    <3>1. 1 \in 1..(k - 1)
      BY <2>1
    <3>2. u[1] = s[1]
      BY <1>3, <3>1
    <3>3. s[1] = b
      BY DEF Follows
    <3> QED
      BY <3>2, <3>3
  <2>2. ASSUME NEW i \in 1..(k - 1 - 1) PROVE u[i + 1] = link[u[i]]
    <3>1. i \in 1..(k - 1) /\ i + 1 \in 1..(k - 1)
      OBVIOUS
    <3>2. s[i + 1] = link[s[i]]
      BY <3>1 DEF Follows
    <3> QED
      BY <1>3, <3>1, <3>2
  <2> QED
    BY <1>4, <2>1, <2>2 DEF Follows
<1> QED
  BY <1>5, <1>6

\* A walk that the change of the links does not concern, but perhaps in its last.
LEMMA WalkKept ==
  ASSUME NEW link, NEW link2, NEW b, NEW k \in Nat,
         \A i \in 1..(k - 1) : link2[Walk(link, b, k)[i]] = link[Walk(link, b, k)[i]]
  PROVE  Walk(link2, b, k) = Walk(link, b, k)
<1> DEFINE s == Walk(link, b, k)
<1>1. Follows(link, b, k, s) /\ Follows(link2, b, k, Walk(link2, b, k))
  BY WalkFollows
<1>2. \A i \in 1..(k - 1) : link2[s[i]] = link[s[i]]
  OBVIOUS
<1> HIDE DEF s
<1>3. Follows(link2, b, k, s)
  BY <1>1, <1>2 DEF Follows
<1> QED
  BY <1>1, <1>3, FollowsSame DEF s

-----------------------------------------------------------------------------
(* Each step of dmthread.c is a step of RoundRobin, or leaves the cycle alone *)

TurnStep == RR!Next \/ UNCHANGED RR!vars

\* The walk is the ring, as a sequence.
LEMMA RingIs ==
  ASSUME IndInv, TurnInv, threads = Main
  PROVE  /\ Linked \subseteq Thread /\ Main \in Linked
         /\ Entering => /\ current # NULL /\ newt \in Linked
                        /\ Ring = Walk(next, Main, Cardinality(Linked) - 1)
         /\ ~Entering => Ring = Walk(next, current, Cardinality(Linked))
<1> USE ConstantAssumption
<1>1. Linked \subseteq Thread /\ Main \in Linked
  BY DEF IndInv, HeapInv, NewInv, Linked, Thread, Inserting
<1>2. ASSUME Entering
      PROVE  /\ current # NULL /\ newt \in Linked
             /\ Ring = Walk(next, Main, Cardinality(Linked) - 1)
  <2>1. newt \in Linked /\ current # NULL
    BY <1>2 DEF IndInv, TypeOK, HeapInv, NewInv, CurrentInv, Linked, Thread, Inserting, Entering
  <2>2. Cardinality(Cycle) = Cardinality(Linked) - 1
    BY <1>2, <2>1, FS_RemoveElement DEF Cycle, TurnInv
  <2> QED
    BY <1>2, <2>1, <2>2 DEF Ring
<1>3. ASSUME ~Entering PROVE Ring = Walk(next, current, Cardinality(Linked))
  <2>1. Cycle = Linked
    BY <1>3 DEF Cycle
  <2> QED
    BY <1>3, <2>1 DEF Ring
<1> QED
  BY <1>1, <1>2, <1>3

\* Steps that change neither the ring nor whose turn it is.
LEMMA TurnFrame ==
  ASSUME TurnInv, Linked' = Linked, next' = next, newt' = newt, threads' = threads,
         Entering' = Entering, current' = current \/ Entering, Joining' = Joining,
         pc'[Main] = "close" => pc[Main] = "close" \/ next[Main] = Main,
         ret'[Main] # "close"
  PROVE  TurnInv' /\ TurnStep
<1>1. Ring' = Ring
  BY DEF Ring, Cycle
<1>2. TurnInv'
  BY DEF TurnInv
<1> QED
  BY <1>1, <1>2 DEF TurnStep, RR!vars

\* Main's steps that move its program counter, and the head's prev.
LEMMA StartTurn ==
  ASSUME IndInv, TurnInv, InitTimer \/ InsertLinkNext \/ SetCurrent \/ StartThread
  PROVE  TurnInv' /\ TurnStep
<1> USE ConstantAssumption DEF At, Goto, Thread, heapVars, sysVars, saveVars, cpuVars,
        miscVars, IndInv, TypeOK
<1>1. pc'[Main] = pc[Main] \/ pc'[Main] \in {"alloc", "ins3", "start", "reset"}
  BY DEF InitTimer, InsertLinkNext, SetCurrent, StartThread
<1>2. Linked' = Linked /\ next' = next /\ newt' = newt /\ threads' = threads /\ ret' = ret
  BY DEF InitTimer, InsertLinkNext, SetCurrent, StartThread, Linked
<1>3. Entering' = Entering /\ (current' = current \/ Entering) /\ Joining' = Joining
  BY DEF InitTimer, InsertLinkNext, SetCurrent, StartThread, Entering, Joining, SwitchPc
<1> QED
  BY <1>1, <1>2, <1>3, TurnFrame DEF TurnInv

\* A worker begins its kernel, returns from it, counts down.
LEMMA WorkerTurn ==
  ASSUME IndInv, TurnInv, NEW w \in Worker, Enter(w) \/ KernelReturn(w) \/ CountDown(w)
  PROVE  TurnInv' /\ TurnStep
<1> USE ConstantAssumption DEF At, Goto, Thread, heapVars, sysVars, saveVars, cpuVars,
        miscVars, IndInv, TypeOK
<1>1. pc'[Main] = pc[Main]
  BY DEF Enter, KernelReturn, CountDown
<1>2. Linked' = Linked /\ next' = next /\ newt' = newt /\ threads' = threads
      /\ current' = current /\ ret' = ret
  BY <1>1 DEF Enter, KernelReturn, CountDown, Linked
<1>3. Entering' = Entering /\ Joining' = Joining
  BY <1>1, <1>2 DEF Entering, Joining
<1> QED
  BY <1>1, <1>2, <1>3, TurnFrame DEF TurnInv

\* The loop of thread_join ends only where the ring is Main alone.
LEMMA JoinTestTurn == ASSUME IndInv, TurnInv, JoinTest PROVE TurnInv' /\ TurnStep
<1> USE ConstantAssumption DEF At, Goto, Thread, heapVars, sysVars, saveVars, cpuVars,
        miscVars, IndInv, TypeOK, JoinTest
<1>1. Linked' = Linked /\ next' = next /\ newt' = newt /\ threads' = threads
      /\ current' = current /\ ret' = ret
  BY DEF Linked
<1>2. Entering' = Entering /\ Joining' = Joining
  BY DEF Entering, Joining, SwitchPc
<1>3. current = Main
  BY DEF CurrentInv
<1>4. next[Main] # NULL
  <2>1. Main \in Linked
    BY DEF CurrentInv, HeapInv, Linked, NewInv, Inserting
  <2> QED
    BY <2>1 DEF RingInv, Linked
<1>5. pc'[Main] = "close" => next[Main] = Main
  BY <1>3, <1>4 DEF OthersLeft
<1> QED
  BY <1>1, <1>2, <1>5, TurnFrame DEF TurnInv

\* Returning from Skedule changes nobody's turn.
LEMMA ResumeTurn ==
  ASSUME IndInv, TurnInv, NEW f \in Thread, Resume(f) PROVE TurnInv' /\ TurnStep
<1> USE ConstantAssumption DEF At, Goto, Thread, heapVars, sysVars, saveVars, cpuVars,
        miscVars, IndInv, TypeOK, Resume
<1>1. Linked' = Linked /\ next' = next /\ newt' = newt /\ threads' = threads
      /\ current' = current /\ ret' = ret
  BY DEF Linked, PcInv
<1>2. IF f = Main THEN pc[Main] = "resume" /\ pc'[Main] = ret[Main]
                  ELSE pc'[Main] = pc[Main]
  OBVIOUS
<1>3. ret[Main] \in {"idle", "join", "joinsked", "close"}
  BY DEF PcInv
<1>4. Entering' = Entering /\ Joining' = Joining
  BY <1>1, <1>2, <1>3 DEF Entering, Joining, SwitchPc
<1> QED
  BY <1>1, <1>2, <1>4, TurnFrame DEF TurnInv

\* The turn passed when Skedule set sys.current; the jump only takes the CPU there.
LEMMA JumpTurn == ASSUME IndInv, IndInv', TurnInv, Jump PROVE TurnInv' /\ TurnStep
<1> USE ConstantAssumption DEF Thread, heapVars, sysVars, saveVars, cpuVars, miscVars
<1>1. next' = next /\ newt' = newt /\ threads' = threads /\ current' = current
      /\ ret' = ret /\ node' = node
  BY DEF Jump
<1>2. sig_context[current] # NULL
  BY DEF Jump, IndInv, NoFault
<1>3. /\ pc[running] \in {"jump", "exitjump"} /\ running \in Thread
      /\ sig_context[current] \in Thread /\ current \in Linked /\ current # running
      /\ Linked \subseteq Thread
  BY <1>2 DEF Jump, IndInv, TypeOK, CurrentInv, Ptr, Linked
<1> DEFINE g == sig_context[current]
<1>4. g = current /\ pc[g] \in {"parked", "entry"}
  BY <1>2, <1>3 DEF IndInv, ContextInv, PcInv
<1>5. /\ pc'[running] \in {"parked", "gone"}
      /\ pc'[g] \in {"entry", "resume"}
      /\ pc[g] = "entry" <=> pc'[g] = "entry"
      /\ \A n \in Thread \ {running, g} : pc'[n] = pc[n]
      /\ pc[running] = "jump" <=> pc'[running] = "parked"
  BY <1>2, <1>3, <1>4 DEF Jump, IndInv, TypeOK
<1>6. pc[Main] \notin {"entry", "exitjump", "gone"} /\ pc'[Main] \notin {"entry", "gone"}
  BY DEF IndInv, PcInv, MainPc, CreatePc
<1>7. IF Main \in {running, g}
      THEN pc[Main] \in {"jump", "parked"} /\ pc'[Main] \in {"parked", "resume"}
      ELSE pc'[Main] = pc[Main]
  BY <1>3, <1>4, <1>5, <1>6
<1>8. Linked' = Linked /\ Entering' = Entering /\ Joining' = Joining
  BY <1>1, <1>7 DEF Linked, Entering, Joining, SwitchPc
<1> QED
  BY <1>1, <1>7, <1>8, TurnFrame DEF TurnInv

\* In the turns of the flow that runs, its own node comes first.
LEMMA MainFirst ==
  ASSUME IndInv, TurnInv, threads = Main, ~Entering, NEW b \in Linked, current = b
  PROVE  LET k == Cardinality(Linked)
         IN  /\ k \in Nat /\ k > 0 /\ Ring \in Seq(Thread) /\ Len(Ring) = k
             /\ Head(Ring) = b /\ Follows(next, b, k, Ring)
             /\ next[Ring[k]] = b
             /\ \A n \in 1..k : Ring[n] \in Linked
             /\ \A x \in Linked : \E n \in 1..k : Ring[n] = x
             /\ \A m, n \in 1..k : Ring[m] = Ring[n] => m = n
<1> DEFINE k == Cardinality(Linked)
<1>1. Ring = Walk(next, b, k) /\ Linked \subseteq Thread
  BY RingIs
<1>2. /\ k \in Nat /\ k > 0 /\ Follows(next, b, k, Ring) /\ next[Ring[k]] = b
      /\ \A n \in 1..k : Ring[n] \in Linked
      /\ \A x \in Linked : \E n \in 1..k : Ring[n] = x
      /\ \A m, n \in 1..k : Ring[m] = Ring[n] => m = n
  <2> DEFINE s == Walk(next, b, k)
  <2>1. /\ k \in Nat /\ k > 0 /\ Follows(next, b, k, s) /\ next[s[k]] = b
        /\ \A n \in 1..k : s[n] \in Linked
        /\ \A x \in Linked : \E n \in 1..k : s[n] = x
        /\ \A m, n \in 1..k : s[m] = s[n] => m = n
    BY Round
  <2>2. Ring = s
    BY <1>1
  <2> HIDE DEF s, k
  <2> QED
    BY <2>1, <2>2
<1> HIDE DEF k
<1>3. Ring \in Seq(Thread) /\ Len(Ring) = k
  BY <1>1, <1>2, FollowsIsSeq
<1>4. Head(Ring) = b
  BY <1>2, <1>3 DEF Follows
<1> QED
  BY <1>2, <1>3, <1>4 DEF k

\* thread_join begins in Main's turn: Join.
LEMMA JoinCallTurn == ASSUME IndInv, TurnInv, JoinCall PROVE TurnInv' /\ TurnStep
<1> USE ConstantAssumption DEF At, Goto, Thread, heapVars, sysVars, saveVars, cpuVars,
        miscVars, JoinCall
<1>1. Linked' = Linked /\ next' = next /\ newt' = newt /\ threads' = threads
      /\ current' = current /\ ret' = ret /\ pc'[Main] = "join" /\ pc[Main] = "idle"
  BY DEF Linked, IndInv, TypeOK
<1>2. ~Entering /\ ~Entering' /\ ~Joining /\ Joining'
  BY <1>1 DEF Entering, Joining, SwitchPc
<1>3. Ring' = Ring
  BY <1>1, <1>2 DEF Ring, Cycle
<1>4. threads = Main /\ current = Main
  BY DEF IndInv, TypeOK, CurrentInv
<1>5. Head(Ring) = Main
  BY <1>2, <1>4, MainFirst, RingIs
<1>6. RR!Join
  BY <1>2, <1>3, <1>5 DEF RR!Join
<1>7. TurnInv'
  BY <1>1, <1>2 DEF TurnInv
<1> QED
  BY <1>6, <1>7 DEF TurnStep, RR!Next

\* thread_join ends when Main is alone: Return.
LEMMA CloseTimerTurn == ASSUME IndInv, TurnInv, CloseTimer PROVE TurnInv' /\ TurnStep
<1> USE ConstantAssumption DEF At, Goto, Thread, heapVars, sysVars, saveVars, cpuVars,
        miscVars, CloseTimer
<1>1. Linked' = Linked /\ next' = next /\ newt' = newt /\ threads' = threads
      /\ current' = current /\ ret' = ret /\ pc'[Main] = "idle" /\ pc[Main] = "close"
  BY DEF Linked, IndInv, TypeOK
<1>2. ~Entering /\ ~Entering' /\ Joining /\ ~Joining'
  BY <1>1 DEF Entering, Joining, SwitchPc
<1>3. Ring' = Ring
  BY <1>1, <1>2 DEF Ring, Cycle
<1>4. threads = Main /\ current = Main /\ next[Main] = Main
  BY <1>1 DEF IndInv, TypeOK, CurrentInv, TurnInv
<1>5. Linked = {Main} /\ Cardinality(Linked) = 1
  BY <1>1, <1>4, AloneMeansAll, FS_Singleton DEF Inserting
<1>6. Ring = <<Main>>
  <2>1. Ring \in Seq(Thread) /\ Len(Ring) = 1 /\ Head(Ring) = Main
    BY <1>2, <1>4, <1>5, MainFirst
  <2> HIDE DEF CloseTimer, Thread
  <2> QED
    BY <2>1
<1>7. RR!Return
  BY <1>2, <1>3, <1>6 DEF RR!Return
<1>8. TurnInv'
  BY <1>1, <1>2 DEF TurnInv
<1> QED
  BY <1>7, <1>8 DEF TurnStep, RR!Next

-----------------------------------------------------------------------------
(* Skedule: a turn, the end of a thread, or nothing *)

\* What Skedule returns to is where it was called, or the loop of thread_join.
Returns(f, label) ==
  f = Main => label = pc[Main] \/ (pc[Main] = "joinsked" /\ label = "join")

\* Nobody else is there: no turn passes.
LEMMA SkeduleAloneTurn ==
  ASSUME IndInv, TurnInv, NEW f \in Thread, NEW label, Caller(f, label), Returns(f, label),
         SkeduleAlone(f, label), UNCHANGED <<running, miscVars, fault>>
  PROVE  TurnInv' /\ TurnStep
<1> USE ConstantAssumption DEF Goto, Thread, saveVars, miscVars, IndInv, TypeOK, SkeduleAlone
<1>1. IF f = Main THEN pc[Main] \in {"idle", "join", "joinsked", "close"} /\ pc'[Main] = label
                  ELSE pc'[Main] = pc[Main]
  BY DEF Caller
<1>2. Linked' = Linked /\ next' = next /\ newt' = newt /\ threads' = threads
      /\ current' = current /\ ret' = ret
  BY <1>1 DEF Linked, Caller
<1>3. Entering' = Entering /\ Joining' = Joining
  BY <1>1, <1>2 DEF Entering, Joining, SwitchPc, Caller, Returns
<1>4. pc'[Main] = "close" => pc[Main] = "close"
  BY <1>1 DEF Returns
<1> QED
  BY <1>2, <1>3, <1>4, TurnFrame DEF TurnInv

\* The next node is picked: Turn.
LEMMA SkeduleSwitchTurn ==
  ASSUME IndInv, TurnInv, NEW f \in Thread, NEW label, NEW tick,
         Caller(f, label), Returns(f, label),
         SkeduleSwitch(f, label, tick), UNCHANGED <<running, miscVars, fault>>
  PROVE  TurnInv' /\ TurnStep
<1> DEFINE k == Cardinality(Linked)
<1>1. /\ current = f /\ f \in Linked /\ threads = Main /\ next[f] \in Linked /\ next[f] # f
      /\ f = Main => pc[Main] \in {"idle", "join", "joinsked", "close"}
      /\ f # Main => pc[Main] = "parked"
  <2>1. current = f /\ f \in Linked /\ threads = Main
        /\ (f = Main => pc[Main] \in {"idle", "join", "joinsked", "close"})
        /\ (f # Main => pc[Main] = "parked")
    BY ConstantAssumption
       DEF IndInv, Caller, CurrentInv, HeapInv, PcInv, Linked, MainPc, CreatePc, Thread
  <2> QED
    BY <2>1 DEF IndInv, RingInv, SkeduleSwitch, GetNext
<1>2. /\ next' = next /\ newt' = newt /\ threads' = threads /\ node' = node
      /\ current' = next[f]
      /\ pc'[Main] = IF f = Main THEN "jump" ELSE "parked"
      /\ ret'[Main] = IF f = Main THEN label ELSE ret[Main]
  BY <1>1, ConstantAssumption
     DEF SkeduleSwitch, GetNext, Goto, miscVars, IndInv, TypeOK, Thread
<1>3. Linked' = Linked /\ ~Entering /\ ~Entering' /\ Joining' = Joining
  BY <1>1, <1>2 DEF Linked, Entering, Joining, SwitchPc, Returns
<1>4. TurnInv'
  <2>1. ret'[Main] # "close"
    BY <1>1, <1>2 DEF TurnInv, Returns
  <2>2. pc'[Main] # "close"
    BY <1>2
  <2> QED
    BY <1>3, <2>1, <2>2 DEF TurnInv
<1>5. /\ k \in Nat /\ k > 0 /\ Ring \in Seq(Thread) /\ Len(Ring) = k
      /\ Follows(next, f, k, Ring) /\ next[Ring[k]] = f
      /\ \A x \in Linked : \E n \in 1..k : Ring[n] = x
  BY <1>1, <1>3, MainFirst
<1>6. Ring' = Walk(next, next[f], k)
  BY <1>1, <1>2, <1>3, ConstantAssumption DEF Ring, Cycle
<1> HIDE DEF k
<1>7. Follows(next, next[f], k, Append(Tail(Ring), Head(Ring)))
  BY <1>5, FollowsTurn
<1>8. Ring' = Append(Tail(Ring), Head(Ring))
  <2> DEFINE w == Walk(next, next[f], k)
             t == Append(Tail(Ring), Head(Ring))
  <2>1. Follows(next, next[f], k, w)
    BY <1>5, WalkFollows
  <2>2. Follows(next, next[f], k, t)
    BY <1>7
  <2> HIDE DEF w, t
  <2>3. w = t
    BY <1>5, <2>1, <2>2, FollowsSame
  <2> QED
    BY <1>6, <2>3 DEF w, t
<1>9. Len(Ring) > 1
  <2>1. PICK n \in 1..k : Ring[n] = next[f]
    BY <1>1, <1>5
  <2>2. Ring[1] = f
    BY <1>5 DEF Follows
  <2> QED
    BY <1>1, <1>5, <2>1, <2>2
<1> QED
  BY <1>3, <1>4, <1>8, <1>9 DEF TurnStep, RR!Next, RR!Turn

\* The dead thread leaves the ring in its own turn: Finish.
LEMMA SkeduleDeadTurn ==
  ASSUME IndInv, TurnInv, NEW f \in Thread, NEW label, NEW tick, Caller(f, label),
         SkeduleDead(f, tick), UNCHANGED <<running, miscVars, fault>>
  PROVE  TurnInv' /\ TurnStep
<1> DEFINE k == Cardinality(Linked)
<1>1. /\ current = f /\ f \in Worker /\ f \in Linked /\ f # Main /\ threads = Main
      /\ pc[Main] = "parked" /\ Main \in Linked
  BY ConstantAssumption
     DEF IndInv, Caller, SkeduleDead, CurrentInv, HeapInv, PcInv, Linked, MainPc, CreatePc, Thread
<1>2. /\ next[f] \in Linked /\ prev[f] \in Linked /\ next[prev[f]] = f
      /\ Linked \subseteq Thread
  BY <1>1 DEF IndInv, RingInv, Back, Linked
<1>3. /\ next' = [next EXCEPT ![prev[f]] = next[f]]
      /\ newt' = newt /\ threads' = Main /\ node' = [node EXCEPT ![f] = "freed"]
      /\ current' = next[f] /\ ret' = ret /\ pc'[Main] = "parked"
  BY <1>1, ConstantAssumption
     DEF SkeduleDead, RemoveThread, UnlinkNext, NewHead, GetNext, Goto, miscVars, saveVars,
         IndInv, TypeOK, Thread
<1>4. Linked' = Linked \ {f} /\ ~Entering /\ ~Entering' /\ Joining' = Joining
  <2>1. Linked' = Linked \ {f}
    BY <1>1, <1>3 DEF Linked, IndInv, TypeOK
  <2> QED
    BY <1>1, <1>3, <2>1 DEF Entering, Joining, SwitchPc
<1>5. IsFiniteSet(Linked') /\ Cardinality(Linked') = k - 1
  BY <1>1, <1>4, FS_RemoveElement DEF TurnInv
<1>6. TurnInv'
  BY <1>3, <1>4, <1>5 DEF TurnInv
<1>7. /\ k \in Nat /\ k > 0 /\ Ring \in Seq(Thread) /\ Len(Ring) = k
      /\ Head(Ring) = f /\ Follows(next, f, k, Ring) /\ next[Ring[k]] = f
      /\ \A n \in 1..k : Ring[n] \in Linked
      /\ \A x \in Linked : \E n \in 1..k : Ring[n] = x
      /\ \A m, n \in 1..k : Ring[m] = Ring[n] => m = n
  BY <1>1, <1>4, MainFirst
<1>8. Ring' = Walk(next', next[f], k - 1)
  BY <1>1, <1>3, <1>4, <1>5, ConstantAssumption DEF Ring, Cycle
<1> HIDE DEF k
<1>9. k > 1
  <2>1. PICK n \in 1..k : Ring[n] = Main
    BY <1>1, <1>7
  <2>2. Ring[1] = f
    BY <1>7 DEF Follows
  <2> QED
    BY <1>1, <1>7, <2>1, <2>2
<1>10. ASSUME NEW i \in 2..(k - 1) PROVE next'[Ring[i]] = next[Ring[i]]
  <2>1. i \in 1..(k - 1) /\ i \in 1..k /\ i + 1 \in 1..k /\ i + 1 # 1 /\ 1 \in 1..k
    BY <1>7
  <2>2. Ring[i + 1] = next[Ring[i]] /\ Ring[1] = f
    BY <1>7, <2>1 DEF Follows
  <2>3. Ring[i + 1] # Ring[1]
    BY <1>7, <2>1
  <2>4. Ring[i] # prev[f]
    BY <1>2, <2>2, <2>3
  <2>5. Ring[i] \in Thread
    BY <1>2, <1>7, <2>1
  <2> QED
    BY <1>3, <2>4, <2>5 DEF IndInv, TypeOK
<1>11. Follows(next', next[f], k - 1, Tail(Ring))
  BY <1>7, <1>9, <1>10, FollowsTail
<1>12. Ring' = Tail(Ring)
  <2>1. k - 1 \in Nat
    BY <1>7
  <2> QED
    <3> DEFINE w == Walk(next', next[f], k - 1)
               t == Tail(Ring)
               j == k - 1
    <3>1. Follows(next', next[f], j, w)
      BY <2>1, WalkFollows
    <3>2. Follows(next', next[f], j, t) /\ j \in Nat
      BY <1>11, <2>1
    <3> HIDE DEF w, t, j
    <3>3. w = t
      BY <3>1, <3>2, FollowsSame
    <3> QED
      BY <1>8, <3>3 DEF w, t
<1> QED
  BY <1>1, <1>4, <1>6, <1>7, <1>12 DEF TurnStep, RR!Next, RR!Finish

\* Whatever Skedule does, for a caller that holds the CPU outside create_thread.
LEMMA SkeduleTurn ==
  ASSUME IndInv, TurnInv, NEW f \in Thread, NEW label, NEW tick,
         Caller(f, label), Returns(f, label), Skedule(f, label, tick)
  PROVE  TurnInv' /\ TurnStep
<1>1. UNCHANGED <<running, miscVars, fault>>
  BY DEF Skedule
<1>2. CASE SkeduleDead(f, tick)
  BY <1>1, <1>2, SkeduleDeadTurn
<1>3. CASE SkeduleAlone(f, label)
  BY <1>1, <1>3, SkeduleAloneTurn
<1>4. CASE SkeduleSwitch(f, label, tick)
  BY <1>1, <1>4, SkeduleSwitchTurn
<1> QED
  BY <1>2, <1>3, <1>4 DEF Skedule

\* The timer's call, the last call of a worker and that of thread_join.
LEMMA TickTurn ==
  ASSUME TickInCreate = FALSE, IndInv, IndInv', TurnInv, Tick
  PROVE  TurnInv' /\ TurnStep
<1>1. Skedule(running, pc[running], TRUE)
  <2>1. ~(insched = 0 /\ current = NULL)
    BY DEF Tick, IndInv, NoFault
  <2> QED
    BY <2>1 DEF Tick
<1>2. Caller(running, pc[running]) /\ running \in Thread
  <2>1. threads = Main
    <3>1. SUFFICES ASSUME threads = NULL PROVE FALSE
      BY DEF IndInv, TypeOK
    <3>2. running = Main /\ pc[Main] = "idle" /\ ~timer
      BY <3>1 DEF IndInv, CurrentInv, Tick, CreatePc
    <3> QED
      BY <3>2 DEF Tick
  <2>2. ~Switching /\ pc[running] \notin CreatePc
    BY <1>1 DEF IndInv, LockInv, Tick, Skedule
  <2> QED
    BY <2>1, <2>2, ConstantAssumption
       DEF Caller, IndInv, PcInv, TypeOK, Thread, MainPc, WorkerPc, SwitchPc, Switching
<1>3. Returns(running, pc[running])
  BY DEF Returns
<1> QED
  BY <1>1, <1>2, <1>3, SkeduleTurn

LEMMA ExitSkeduleTurn ==
  ASSUME IndInv, TurnInv, NEW w \in Worker, ExitSkedule(w)
  PROVE  TurnInv' /\ TurnStep
<1>1. insched = 0 /\ Caller(w, "sked") /\ w \in Thread /\ Returns(w, "sked")
  BY ConstantAssumption DEF ExitSkedule, At, IndInv, LockInv, Switching,
         Caller, CurrentInv, TypeOK, Thread, Returns
<1>2. insched # 1
  BY <1>1
<1>3. Skedule(w, "sked", FALSE)
  BY <1>2, Zenon DEF ExitSkedule
<1> QED
  BY <1>1, <1>3, SkeduleTurn

LEMMA JoinSkeduleTurn ==
  ASSUME IndInv, TurnInv, JoinSkedule
  PROVE  TurnInv' /\ TurnStep
<1> USE ConstantAssumption
<1>1. CASE insched = 1
  <2> USE <1>1 DEF At, Goto, Thread, heapVars, sysVars, saveVars, cpuVars,
        miscVars, IndInv, TypeOK, JoinSkedule
  <2>1. pc[Main] = "joinsked" /\ pc'[Main] = "join"
    OBVIOUS
  <2>2. Linked' = Linked /\ next' = next /\ newt' = newt /\ threads' = threads
        /\ current' = current /\ ret' = ret
    BY DEF Linked
  <2>3. Entering' = Entering /\ Joining' = Joining
    BY <2>1, <2>2 DEF Entering, Joining, SwitchPc
  <2> QED
    BY <2>1, <2>2, <2>3, TurnFrame DEF TurnInv
<1>2. CASE insched = 0
  <2>1. insched # 1
    BY <1>2
  <2>2. Skedule(Main, "join", FALSE)
    BY <2>1, Zenon DEF JoinSkedule
  <2>3. Caller(Main, "join") /\ Returns(Main, "join") /\ Main \in Thread
    BY DEF JoinSkedule, Caller, IndInv, CurrentInv, TypeOK, At, Thread, Returns
  <2> QED
    BY <2>2, <2>3, SkeduleTurn
<1> QED
  BY <1>1, <1>2 DEF IndInv, TypeOK

-----------------------------------------------------------------------------
(* create_thread: the new thread is last, and in the cycle when it ends *)

\* Allocating the node, and Main's own the first time, adds nobody to the cycle.
LEMMA NewThreadTurn ==
  ASSUME IndInv, TurnInv, NewThread
  PROVE  TurnInv' /\ TurnStep
<1> USE ConstantAssumption
<1>1. PICK w \in Worker :
        LET new == {w} \union (IF threads = NULL THEN {Main} ELSE {}) IN
        /\ node[w] = "none" /\ newt' = w
        /\ node' = [n \in Thread |-> IF n \in new THEN "live" ELSE node[n]]
        /\ next' = [n \in Thread |-> IF n \in new THEN n ELSE next[n]]
  BY DEF NewThread
<1>2. /\ pc[Main] = "alloc" /\ pc'[Main] = "ins1" /\ ret' = ret /\ running = Main
      /\ threads' = Main
      /\ current' = IF threads = NULL THEN Main ELSE current
  BY DEF NewThread, At, Goto, saveVars, IndInv, TypeOK, Thread
<1>3. ~Entering /\ ~Entering' /\ ~Joining /\ Joining' = Joining
  BY <1>2 DEF Entering, Joining, SwitchPc
<1>4. CASE threads = NULL
  <2>1. Linked' = {Main} /\ next'[Main] = Main /\ current' = Main
    <3>1. /\ \A v \in Worker : node[v] = "none"
          /\ node' = [n \in Thread |-> IF n \in {w, Main} THEN "live" ELSE node[n]]
          /\ next' = [n \in Thread |-> IF n \in {w, Main} THEN n ELSE next[n]]
      BY <1>1, <1>2, <1>4 DEF IndInv, HeapInv, CurrentInv, Inserting
    <3>2. \A n \in Thread : node'[n] = "live" <=> n \in {w, Main}
      BY <3>1 DEF Thread
    <3>3. Linked' = {w, Main} \ {w}
      <4>1. Linked' = {n \in Thread : node'[n] = "live"} \ {w}
        BY <1>1, <1>2 DEF Linked
      <4> QED
        BY <3>2, <4>1 DEF Thread
    <3> QED
      BY <1>2, <1>4, <3>1, <3>3 DEF Thread
  <2>2. IsFiniteSet(Linked') /\ Cardinality(Linked') = 1
    BY <2>1, FS_Singleton
  <2>3. TurnInv'
    BY <1>2, <1>3, <2>2 DEF TurnInv
  <2>4. Ring' = Walk(next', Main, 1)
    BY <1>2, <1>3, <2>1, <2>2 DEF Ring, Cycle, Thread
  <2>5. Walk(next', Main, 1) = <<Main>>
    <3> DEFINE s == Walk(next', Main, 1)
    <3>1. Follows(next', Main, 1, s)
      BY WalkFollows
    <3> HIDE DEF s
    <3>2. s[1] = Main
      BY <3>1 DEF Follows
    <3>3. s = [n \in 1..1 |-> s[n]]
      BY <3>1 DEF Follows
    <3>4. \A n \in 1..1 : s[n] \in {Main}
      BY <3>2
    <3> DEFINE j == 1
    <3>5. s \in Seq({Main}) /\ Len(s) = 1
      <4>1. j \in Nat /\ Follows(next', Main, j, s) /\ \A n \in 1..j : s[n] \in {Main}
        BY <3>1, <3>4
      <4> HIDE DEF j
      <4>2. s \in Seq({Main}) /\ Len(s) = j
        BY <4>1, FollowsIsSeq
      <4> QED
        BY <4>2 DEF j
    <3>6. s = <<Main>>
      BY <3>2, <3>5
    <3> QED
      BY <3>6 DEF s
  <2>6. Ring = <<Main>>
    BY <1>4 DEF Ring
  <2> QED
    BY <1>3, <2>3, <2>4, <2>5, <2>6 DEF TurnStep, RR!vars
<1>5. CASE threads # NULL
  <2>1. threads = Main /\ current = Main /\ current' = Main
    BY <1>2, <1>5 DEF IndInv, TypeOK, CurrentInv
  <2>2. Linked' = Linked /\ w \notin Linked /\ Main \in Linked
    BY <1>1, <1>2, <2>1 DEF Linked, IndInv, HeapInv, Thread
  <2>3. \A n \in Linked : next'[n] = next[n]
    BY <1>1, <1>5, <2>2 DEF Linked
  <2>4. TurnInv'
    BY <1>2, <1>3, <2>2 DEF TurnInv
  <2> DEFINE k == Cardinality(Linked)
  <2>5. k \in Nat /\ \A n \in 1..k : Walk(next, Main, k)[n] \in Linked
    BY <2>2, Round
  <2>6. Walk(next', Main, k) = Walk(next, Main, k)
    <3> HIDE DEF k
    <3> QED
      BY <2>3, <2>5, WalkKept
  <2>7. Ring = Walk(next, Main, k) /\ Ring' = Walk(next', Main, k)
    BY <1>2, <1>3, <2>1, <2>2 DEF Ring, Cycle, Thread
  <2> QED
    BY <1>3, <2>4, <2>6, <2>7 DEF TurnStep, RR!vars
<1> QED
  BY <1>4, <1>5

\* The new node's links are its own affair.
LEMMA InsertLinkNewTurn ==
  ASSUME IndInv, TurnInv, InsertLinkNew
  PROVE  TurnInv' /\ TurnStep
<1> USE ConstantAssumption
<1>1. /\ pc[Main] = "ins1" /\ pc'[Main] = "ins2" /\ ret' = ret /\ node' = node
      /\ newt' = newt /\ threads' = Main /\ threads = Main
      /\ current = Main /\ current' = Main
      /\ next' = [next EXCEPT ![newt] = next[InsertAfter]]
  BY DEF InsertLinkNew, At, Goto, sysVars, saveVars, miscVars, IndInv, TypeOK, Thread,
         CurrentInv
<1>2. ~Entering /\ ~Entering' /\ ~Joining /\ Joining' = Joining
  BY <1>1 DEF Entering, Joining, SwitchPc
<1>3. Linked' = Linked /\ newt \notin Linked /\ Main \in Linked
  BY <1>1 DEF Linked, IndInv, HeapInv, NewInv, Inserting, Thread
<1>4. \A n \in Linked : next'[n] = next[n]
  BY <1>1, <1>3 DEF IndInv, TypeOK, Linked
<1>5. TurnInv'
  BY <1>1, <1>2, <1>3 DEF TurnInv
<1> DEFINE k == Cardinality(Linked)
<1>6. k \in Nat /\ \A n \in 1..k : Walk(next, Main, k)[n] \in Linked
  BY <1>3, Round
<1>7. Walk(next', Main, k) = Walk(next, Main, k)
  <2> HIDE DEF k
  <2> QED
    BY <1>4, <1>6, WalkKept
<1>8. Ring = Walk(next, Main, k) /\ Ring' = Walk(next', Main, k)
  BY <1>1, <1>2, <1>3 DEF Ring, Cycle, Thread
<1> QED
  BY <1>2, <1>5, <1>7, <1>8 DEF TurnStep, RR!vars

\* The store that links the new thread changes where the last one leads, which
\* the walk over the others does not ask.
LEMMA InsertLinkPrevTurn ==
  ASSUME IndInv, TurnInv, InsertLinkPrev
  PROVE  TurnInv' /\ TurnStep
<1> USE ConstantAssumption
<1>1. /\ pc[Main] = "ins3" /\ pc'[Main] = "setcur" /\ ret' = ret /\ node' = node
      /\ newt' = newt /\ threads' = Main /\ threads = Main
      /\ current = Main /\ current' = Main
      /\ next' = [next EXCEPT ![prev[newt]] = newt]
  BY DEF InsertLinkPrev, At, Goto, sysVars, saveVars, miscVars, IndInv, TypeOK, Thread,
         CurrentInv
<1>2. ~Entering /\ Entering' /\ ~Joining /\ Joining' = Joining
  BY <1>1 DEF Entering, Joining, SwitchPc
<1>3. /\ Linked' = Linked \union {newt} /\ newt \notin Linked /\ Main \in Linked
      /\ newt \in Worker /\ newt # Main /\ Linked \subseteq Thread
  BY <1>1 DEF Linked, IndInv, HeapInv, NewInv, Inserting, Thread
<1>4. prev[newt] \in Linked /\ next[prev[newt]] = Main /\ next[newt] = Main
  BY <1>1, <1>3 DEF IndInv, RingInv, Back
<1>5. next'[newt] = Main
  BY <1>1, <1>3, <1>4 DEF IndInv, TypeOK, Thread
<1>6. IsFiniteSet(Linked') /\ Cardinality(Linked' \ {newt}) = Cardinality(Linked)
  <2>1. Linked' \ {newt} = Linked
    BY <1>3
  <2> QED
    BY <1>3, <2>1, FS_AddElement DEF TurnInv
<1>7. TurnInv'
  BY <1>1, <1>5, <1>6 DEF TurnInv
<1> DEFINE k == Cardinality(Linked)
           s == Walk(next, Main, k)
<1>8. /\ k \in Nat /\ k > 0 /\ Follows(next, Main, k, s)
      /\ \A n \in 1..k : s[n] \in Linked
      /\ \A m, n \in 1..k : s[m] = s[n] => m = n
  BY <1>3, Round
<1>9. ASSUME NEW i \in 1..(k - 1) PROVE next'[s[i]] = next[s[i]]
  <2> HIDE DEF s, k
  <2>1. i \in 1..k /\ i + 1 \in 1..k /\ i + 1 # 1 /\ 1 \in 1..k
    BY <1>8
  <2>2. s[i + 1] = next[s[i]] /\ s[1] = Main
    BY <1>8 DEF Follows
  <2>3. s[i + 1] # s[1]
    BY <1>8, <2>1
  <2>4. s[i] # prev[newt] /\ s[i] \in Thread
    BY <1>3, <1>4, <1>8, <2>1, <2>2, <2>3
  <2> QED
    BY <1>1, <2>4 DEF IndInv, TypeOK
<1>10. Walk(next', Main, k) = s
  <2> HIDE DEF k
  <2> QED
    BY <1>8, <1>9, WalkKept
<1>11. Ring = s /\ Ring' = Walk(next', Main, k)
  BY <1>1, <1>2, <1>6 DEF Ring, Cycle, Thread
<1> QED
  BY <1>2, <1>7, <1>10, <1>11 DEF TurnStep, RR!vars

\* Giving sys.current back to the caller ends create_thread: Create.
LEMMA ResetCurrentTurn ==
  ASSUME IndInv, TurnInv, ResetCurrent
  PROVE  TurnInv' /\ TurnStep
<1> USE ConstantAssumption
<1>1. /\ pc[Main] = "reset" /\ pc'[Main] = "idle" /\ ret' = ret /\ node' = node
      /\ newt' = newt /\ threads' = Main /\ threads = Main
      /\ current' = Main /\ next' = next
  BY DEF ResetCurrent, CreatorNode, At, Goto, heapVars, saveVars, miscVars, IndInv, TypeOK,
         Thread, CurrentInv
<1>2. Entering /\ ~Entering' /\ ~Joining /\ Joining' = Joining
  BY <1>1 DEF Entering, Joining, SwitchPc
<1>3. /\ Linked' = Linked /\ newt \in Linked /\ Main \in Linked
      /\ newt \in Worker /\ newt # Main /\ Linked \subseteq Thread
  BY <1>1 DEF Linked, IndInv, HeapInv, NewInv, Inserting, Thread
<1>4. TurnInv'
  BY <1>1, <1>2, <1>3 DEF TurnInv
<1> DEFINE k == Cardinality(Linked)
           s == Walk(next, Main, k)
           u == [i \in 1..(k - 1) |-> s[i]]
<1>5. /\ k \in Nat /\ k > 0 /\ Follows(next, Main, k, s) /\ next[s[k]] = Main
      /\ \A n \in 1..k : s[n] \in Linked
      /\ \A x \in Linked : \E n \in 1..k : s[n] = x
      /\ \A m, n \in 1..k : s[m] = s[n] => m = n
  BY <1>3, Round
<1>6. Ring = Walk(next, Main, k - 1)
  BY <1>1, <1>2, RingIs
<1>7. Ring' = s
  BY <1>1, <1>2, <1>3 DEF Ring, Cycle, Thread
<1> HIDE DEF s, k, u
<1>8. s[k] = newt
  <2>1. next[newt] = Main
    BY <1>2 DEF TurnInv
  <2>2. \A n \in Linked : prev[next[n]] = n
    BY <1>1 DEF IndInv, RingInv, Back
  <2>3. s[k] \in Linked
    BY <1>5
  <2> QED
    BY <1>3, <1>5, <2>1, <2>2, <2>3
<1>9. s \in Seq(Linked) /\ Len(s) = k
  <2>1. Follows(next, Main, k, s) /\ k \in Nat /\ \A n \in 1..k : s[n] \in Linked
    BY <1>5
  <2> QED
    BY <2>1, FollowsIsSeq
<1>10. Follows(next, Main, k - 1, u) /\ s = Append(u, s[k])
  <2>1. Follows(next, Main, k, s) /\ k \in Nat /\ k > 0
    BY <1>5
  <2> QED
    <3>1. u = [i \in 1..(k - 1) |-> s[i]]
      BY DEF u
    <3> QED
      BY <1>9, <2>1, <3>1, FollowsFront
<1>11. Ring = u
  <2> DEFINE w == Walk(next, Main, k - 1)
             j == k - 1
  <2>1. j \in Nat /\ Follows(next, Main, j, w) /\ Follows(next, Main, j, u)
    BY <1>5, <1>10, WalkFollows
  <2> HIDE DEF w, u, j
  <2>2. w = u
    BY <2>1, FollowsSame
  <2> QED
    BY <1>6, <2>2 DEF w
<1>12. k > 1 /\ s[1] = Main
  <2>1. PICK n \in 1..k : s[n] = newt
    BY <1>3, <1>5
  <2>2. s[1] = Main
    BY <1>5 DEF Follows
  <2> QED
    BY <1>3, <1>5, <2>1, <2>2
<1>13. Head(Ring) = Main
  <2>1. 1 \in 1..(k - 1)
    BY <1>5, <1>12
  <2>2. u[1] = Main
    BY <1>12, <2>1 DEF u
  <2> QED
    BY <1>11, <2>2
<1>14. newt \notin {Ring[i] : i \in DOMAIN Ring}
  <2>1. SUFFICES ASSUME NEW i \in 1..(k - 1), s[i] = newt PROVE FALSE
    BY <1>11 DEF u
  <2>2. i \in 1..k /\ k \in 1..k /\ i # k
    BY <1>5
  <2> QED
    BY <1>5, <1>8, <2>1, <2>2
<1>15. RR!Create
  <2>1. Ring' = Append(Ring, newt)
    BY <1>7, <1>8, <1>10, <1>11
  <2> QED
    BY <1>2, <1>3, <1>13, <1>14, <2>1 DEF RR!Create, RR!Members
<1> QED
  BY <1>4, <1>15 DEF TurnStep, RR!Next

-----------------------------------------------------------------------------
\* One case per action.
LEMMA StepTurn ==
  ASSUME TickInCreate = FALSE, IndInv, IndInv', TurnInv, [Next]_vars
  PROVE  TurnInv' /\ TurnStep
<1>1. CASE InitTimer \/ SetCurrent \/ StartThread \/ InsertLinkNext
  BY <1>1, StartTurn
<1>2. CASE NewThread
  BY <1>2, NewThreadTurn
<1>3. CASE InsertLinkNew
  BY <1>3, InsertLinkNewTurn
<1>4. CASE InsertLinkPrev
  BY <1>4, InsertLinkPrevTurn
<1>5. CASE ResetCurrent
  BY <1>5, ResetCurrentTurn
<1>6. CASE JoinCall
  BY <1>6, JoinCallTurn
<1>7. CASE JoinTest
  BY <1>7, JoinTestTurn
<1>8. CASE JoinSkedule
  BY <1>8, JoinSkeduleTurn
<1>9. CASE CloseTimer
  BY <1>9, CloseTimerTurn
<1>10. CASE Jump
  BY <1>10, JumpTurn
<1>11. CASE Tick
  BY <1>11, TickTurn
<1>12. CASE \E w \in Worker : WorkerStep(w)
  BY <1>12, WorkerTurn, ExitSkeduleTurn DEF WorkerStep
<1>13. CASE \E f \in Thread : Resume(f)
  BY <1>13, ResumeTurn
<1>14. CASE UNCHANGED vars
  <2>1. Linked' = Linked /\ next' = next /\ newt' = newt /\ threads' = threads
        /\ current' = current /\ ret' = ret /\ pc' = pc
    BY <1>14 DEF vars, heapVars, sysVars, saveVars, miscVars, Linked
  <2>2. Entering' = Entering /\ Joining' = Joining
    BY <2>1 DEF Entering, Joining
  <2> QED
    BY <2>1, <2>2, TurnFrame DEF TurnInv
<1> QED
  BY <1>1, <1>2, <1>3, <1>4, <1>5, <1>6, <1>7, <1>8, <1>9, <1>10, <1>11, <1>12,
     <1>13, <1>14 DEF Next, CpuStep, CreateStep, JoinStep

\* The nodes are always finitely many, the thread that create_thread is about
\* to add is the last of the ring, and thread_join closes the timer alone.
THEOREM TurnInvariance == TickInCreate = FALSE => (Spec => []TurnInv)
<1> SUFFICES ASSUME TickInCreate = FALSE PROVE Spec => []TurnInv
  OBVIOUS
<1>1. Init => TurnInv
  <2> SUFFICES ASSUME Init PROVE TurnInv
    OBVIOUS
  <2>1. Linked = {} /\ pc[Main] = "idle" /\ ret[Main] = "idle"
    BY ConstantAssumption DEF Init, Linked, Thread
  <2> QED
    BY <2>1, FS_EmptySet DEF TurnInv, Entering
<1>2. IndInv /\ IndInv' /\ TurnInv /\ [Next]_vars => TurnInv'
  BY StepTurn
<1>3. Spec => []IndInv
  BY Invariance
<1> QED
  BY <1>1, <1>2, <1>3, PTL DEF Spec

\* The ring that _insert_thread and _remove_thread keep is one circle through
\* the head, linked both ways, whenever no insertion is half done.
THEOREM RingStaysCircle == TickInCreate = FALSE => (Spec => []RingIsCircle)
<1> SUFFICES ASSUME TickInCreate = FALSE PROVE Spec => []RingIsCircle
  OBVIOUS
<1>1. IndInv /\ TurnInv => RingIsCircle
  BY RoundIsCircle
<1> QED
  BY <1>1, Invariance, TurnInvariance, PTL

\* Skedule, create_thread, thread_join and the end of start_thread give the
\* threads turns in a fixed cyclic order, and thread_join returns when its
\* caller is alone: dmthread.c implements RoundRobin.
THEOREM TurnsAreTaken == TickInCreate = FALSE => (Spec => TakesTurns)
<1> SUFFICES ASSUME TickInCreate = FALSE PROVE Spec => TakesTurns
  OBVIOUS
<1>1. Init => RR!Init
  <2> SUFFICES ASSUME Init PROVE RR!Init
    OBVIOUS
  <2>1. threads = NULL /\ pc[Main] = "idle"
    BY DEF Init, Thread
  <2> QED
    BY <2>1 DEF RR!Init, Ring, Joining, SwitchPc
<1>2. IndInv /\ IndInv' /\ TurnInv /\ [Next]_vars => [RR!Next]_(RR!vars)
  BY StepTurn DEF TurnStep
<1> QED
  BY <1>1, <1>2, Invariance, TurnInvariance, PTL DEF Spec, TakesTurns, RR!Spec

-----------------------------------------------------------------------------
(* Ticks inside create_thread: the states that a step can start from are the *)
(* ones without a fault.                                                    *)

Fit == AnyInv /\ NoFault

\* A step that links, unlinks, allocates and frees nothing, and neither begins
\* nor ends an insertion, keeps the ring.
LEMMA AnyRingFrame ==
  ASSUME AnyRing, AnyRank,
         next' = next, prev' = prev, node' = node, newt' = newt, threads' = threads,
         \/ Place' = Place
         \/ /\ Place \notin Inserting /\ Place' \notin Inserting
            /\ Place' \in {"setcur", "start", "reset"} =>
                 Place \in {"setcur", "start", "reset"}
  PROVE  InRing' = InRing /\ AnyRing' /\ AnyRank'
<1>1. InRing' = InRing /\ Doomed' = Doomed
  BY DEF InRing, Inserting, Doomed
<1>2. AnyRing'
  BY <1>1 DEF AnyRing, Inserting
<1>3. AnyRank'
  BY <1>1 DEF AnyRank, AnyRanks
<1> QED
  BY <1>1, <1>2, <1>3

\* The calls that move Main's program counter and little else.
LEMMA MainGoesAny ==
  ASSUME Fit, NEW l, NEW m, At(Main, l), Goto(Main, m),
         {l, m} \subseteq {"idle", "alloc", "join", "joinsked", "close"},
         threads = NULL => m \in {"idle", "alloc"}, timer' \in BOOLEAN,
         UNCHANGED <<heapVars, sysVars, saveVars, cpuVars, gThreads, newt, fault>>
  PROVE  AnyInv'
<1> USE ConstantAssumption
    DEF Fit, AnyInv, Sound, At, Goto, Thread, heapVars, sysVars, saveVars, cpuVars
<1>0. /\ Place = l /\ Place' = m /\ pc' = [pc EXCEPT ![Main] = m]
      /\ l \notin Inserting \union {"setcur", "start", "reset"}
      /\ m \notin Inserting \union {"setcur", "start", "reset"}
      /\ ~Lost /\ ~Lost' /\ running = Main
  BY DEF Place, Lost, SwitchPc, Inserting, TypeOK
<1>1. TypeOK'
  BY DEF TypeOK, MainPc, CreatePc
<1>2. StackInv' /\ LockInv'
  BY <1>0 DEF StackInv, LockInv, Switching, TypeOK
<1>3. AnyPc'
  BY <1>0 DEF AnyPc, MainPc, CreatePc, TypeOK
<1>4. AnyNew' /\ AnyNode'
  BY <1>0 DEF AnyNew, AnyNode, TypeOK
<1>5. AnyContext'
  BY <1>0 DEF AnyContext, ContextInv, TypeOK
<1>6. InRing' = InRing /\ AnyRing' /\ AnyRank'
  BY <1>0, AnyRingFrame
<1>7. AnyCurrent'
  BY <1>0, <1>6 DEF AnyCurrent, TypeOK
<1> QED
  BY <1>1, <1>2, <1>3, <1>4, <1>5, <1>6, <1>7

LEMMA InitTimerAny == ASSUME Fit, InitTimer PROVE AnyInv'
BY MainGoesAny DEF InitTimer, miscVars

LEMMA JoinCallAny == ASSUME Fit, JoinCall PROVE AnyInv'
<1>1. timer' \in BOOLEAN
  BY DEF JoinCall, miscVars, Fit, AnyInv, TypeOK
<1> QED
  BY <1>1, MainGoesAny DEF JoinCall, miscVars

\* In thread_join the ring exists.
LEMMA JoinsRing ==
  ASSUME Fit, pc[Main] \in {"join", "joinsked", "close"}
  PROVE  threads = Main
BY DEF Fit, AnyInv, Sound, AnyCurrent, TypeOK

LEMMA JoinTestAny == ASSUME Fit, JoinTest PROVE AnyInv'
<1>1. timer' \in BOOLEAN /\ threads # NULL
  BY JoinsRing, ConstantAssumption DEF JoinTest, At, miscVars, Fit, AnyInv, TypeOK
<1> QED
  BY <1>1, MainGoesAny DEF JoinTest, miscVars

LEMMA CloseTimerAny == ASSUME Fit, CloseTimer PROVE AnyInv'
BY MainGoesAny DEF CloseTimer

\* create_thread sets sys.current to the new thread, starts it, and sets
\* sys.current back.
LEMMA SetCurrentAny == ASSUME Fit, SetCurrent PROVE AnyInv'
<1> USE ConstantAssumption
    DEF Fit, AnyInv, Sound, SetCurrent, At, Goto, Thread, heapVars, saveVars, cpuVars,
        miscVars
<1>0. /\ Place = "setcur" /\ Place' = "start" /\ pc' = [pc EXCEPT ![Main] = "start"]
      /\ ~Lost /\ ~Lost' /\ running = Main
      /\ newt \in Worker /\ pc[newt] = "none" /\ threads = Main
  <2>1. Place = "setcur" /\ Place' = "start" /\ ~Lost /\ ~Lost'
    BY DEF Place, Lost, SwitchPc, TypeOK
  <2> QED
    BY <2>1 DEF AnyNew, TypeOK, AnyCurrent
<1>1. TypeOK'
  BY <1>0 DEF TypeOK, MainPc, CreatePc, Ptr
<1>2. StackInv' /\ LockInv'
  BY <1>0 DEF StackInv, LockInv, Switching, TypeOK
<1>3. AnyPc'
  BY <1>0 DEF AnyPc, MainPc, CreatePc, TypeOK
<1>4. AnyNew' /\ AnyNode'
  BY <1>0 DEF AnyNew, AnyNode, TypeOK
<1>5. AnyContext'
  BY <1>0 DEF AnyContext, ContextInv, TypeOK
<1>6. InRing' = InRing /\ AnyRing' /\ AnyRank'
  BY <1>0, AnyRingFrame DEF Inserting
<1>7. AnyCurrent'
  BY <1>0, <1>6 DEF AnyCurrent, TypeOK
<1> QED
  BY <1>1, <1>2, <1>3, <1>4, <1>5, <1>6, <1>7

LEMMA StartThreadAny == ASSUME Fit, StartThread PROVE AnyInv'
<1> USE ConstantAssumption
    DEF Fit, AnyInv, Sound, StartThread, At, Goto, Thread, sysVars, cpuVars
<1>0. /\ Place = "start" /\ Place' = "reset"
      /\ pc' = [pc EXCEPT ![Main] = "reset", ![newt] = "entry"]
      /\ ~Lost /\ ~Lost' /\ running = Main
      /\ newt \in Worker /\ pc[newt] = "none" /\ threads = Main
  <2>1. Place = "start" /\ ~Lost
    BY DEF Place, Lost, SwitchPc, TypeOK
  <2>2. newt \in Worker /\ pc[newt] = "none" /\ threads = Main
    BY <2>1 DEF AnyNew, TypeOK, AnyCurrent
  <2>3. Place' = "reset" /\ ~Lost'
    BY <2>2 DEF Place, Lost, SwitchPc, TypeOK
  <2> QED
    BY <2>1, <2>2, <2>3
<1>1. TypeOK'
  BY <1>0 DEF TypeOK, MainPc, CreatePc, WorkerPc, HeapState, Ptr
<1>2. StackInv' /\ LockInv'
  BY <1>0 DEF StackInv, LockInv, Switching, TypeOK
<1>3. AnyPc'
  BY <1>0 DEF AnyPc, MainPc, CreatePc, WorkerPc, TypeOK
<1>4. AnyNew' /\ AnyNode'
  BY <1>0 DEF AnyNew, AnyNode, TypeOK, Inserting
<1>5. AnyContext'
  BY <1>0 DEF AnyContext, ContextInv, TypeOK
<1>6. InRing' = InRing /\ AnyRing' /\ AnyRank'
  BY <1>0, AnyRingFrame DEF Inserting
<1>7. AnyCurrent'
  BY <1>0, <1>6 DEF AnyCurrent, TypeOK
<1> QED
  BY <1>1, <1>2, <1>3, <1>4, <1>5, <1>6, <1>7

LEMMA ResetCurrentAny == ASSUME Fit, ResetCurrent PROVE AnyInv'
<1> USE ConstantAssumption
    DEF Fit, AnyInv, Sound, ResetCurrent, CreatorNode, At, Goto, Thread, heapVars,
        saveVars, cpuVars, miscVars
<1>0. /\ Place = "reset" /\ Place' = "idle" /\ pc' = [pc EXCEPT ![Main] = "idle"]
      /\ ~Lost /\ ~Lost' /\ running = Main /\ threads = Main
      /\ newt \in Worker /\ pc[newt] = "entry"
  <2>1. Place = "reset" /\ Place' = "idle" /\ ~Lost /\ ~Lost'
    BY DEF Place, Lost, SwitchPc, TypeOK
  <2> QED
    BY <2>1 DEF TypeOK, AnyCurrent, AnyNew
<1>1. TypeOK'
  BY <1>0 DEF TypeOK, MainPc, CreatePc, Ptr
<1>2. StackInv' /\ LockInv'
  BY <1>0 DEF StackInv, LockInv, Switching, TypeOK
<1>3. AnyPc'
  BY <1>0 DEF AnyPc, MainPc, CreatePc, TypeOK
<1>4. AnyNew' /\ AnyNode'
  BY <1>0 DEF AnyNew, AnyNode, TypeOK, Inserting
<1>5. AnyContext'
  BY <1>0 DEF AnyContext, ContextInv, TypeOK
<1>6. InRing' = InRing /\ AnyRing' /\ AnyRank'
  BY <1>0, AnyRingFrame DEF Inserting
<1>7. AnyCurrent'
  BY <1>0, <1>6 DEF AnyCurrent, TypeOK
<1> QED
  BY <1>1, <1>2, <1>3, <1>4, <1>5, <1>6, <1>7

-----------------------------------------------------------------------------
\* A worker's own steps, up to its last Skedule: it goes from one label to
\* another, with the lock free.
LEMMA WorkerGoesAny ==
  ASSUME Fit, NEW w \in Worker, NEW l, NEW m, At(w, l), Goto(w, m), insched' = 0,
         <<l, m>> \in {<<"entry", "run">>, <<"run", "dec">>, <<"dec", "sked">>},
         dead' = (IF m = "dec" THEN [dead EXCEPT ![w] = TRUE] ELSE dead),
         gThreads' \in Int,
         UNCHANGED <<next, prev, node, stack, sysVars, saveVars, running, tpl, timer,
                     newt, fault>>
  PROVE  AnyInv'
<1> USE ConstantAssumption
    DEF Fit, AnyInv, Sound, At, Goto, Thread, sysVars, saveVars
<1>0. /\ Place' = Place /\ (Lost <=> Lost')
      /\ running = w /\ pc' = [pc EXCEPT ![w] = m] /\ pc[w] = l
      /\ Place \notin {"start", "reset"} /\ ~Lost
  <2>1. pc'[Main] = pc[Main] /\ running # Main
    BY DEF TypeOK
  <2>2. Place \notin {"start", "reset"}
    BY <2>1 DEF AnyNew
  <2> QED
    BY <2>1, <2>2 DEF Place, Lost, SwitchPc
<1>1. TypeOK'
  BY <1>0 DEF TypeOK, WorkerPc
<1>2. StackInv'
  BY <1>0 DEF StackInv, TypeOK
<1>3. LockInv'
  BY <1>0 DEF LockInv, Switching, TypeOK
<1>4. AnyPc'
  BY <1>0 DEF AnyPc, WorkerPc, TypeOK
<1>5. AnyNew'
  BY <1>0 DEF AnyNew, TypeOK
<1>6. AnyNode'
  BY <1>0 DEF AnyNode, TypeOK
<1>7. AnyContext'
  BY <1>0 DEF AnyContext, ContextInv, TypeOK
<1>8. InRing' = InRing /\ AnyRing' /\ AnyRank'
  BY <1>0, AnyRingFrame
<1>9. AnyCurrent'
  BY <1>0, <1>8 DEF AnyCurrent, TypeOK
<1> QED
  BY <1>1, <1>2, <1>3, <1>4, <1>5, <1>6, <1>7, <1>8, <1>9

LEMMA EnterAny == ASSUME Fit, NEW w \in Worker, Enter(w) PROVE AnyInv'
<1>1. gThreads' \in Int
  BY DEF Enter, miscVars, Fit, AnyInv, TypeOK
<1> QED
  BY <1>1, WorkerGoesAny DEF Enter, Unlock, heapVars, miscVars

\* The node of the thread that runs is sys.current, so its own status is set.
LEMMA KernelReturnAny == ASSUME Fit, NEW w \in Worker, KernelReturn(w) PROVE AnyInv'
<1> USE ConstantAssumption DEF Fit, AnyInv, Sound, At
<1>1. running = w /\ pc[w] = "run" /\ insched = 0 /\ w # Main
  BY DEF KernelReturn, LockInv, Switching
<1>2. threads = Main /\ current = w
  BY <1>1 DEF AnyCurrent, TypeOK
<1>3. next[Main] \in Thread
  BY <1>2 DEF AnyRing, AnyNode, InRing, AnyNew, Inserting, Thread
<1>4. next[threads] # NULL
  BY <1>2, <1>3 DEF Thread
<1>5. gThreads' \in Int /\ insched' = 0
  BY <1>1 DEF KernelReturn, miscVars, cpuVars, TypeOK
<1> QED
  BY <1>1, <1>2, <1>4, <1>5, WorkerGoesAny DEF KernelReturn, miscVars, cpuVars

LEMMA CountDownAny == ASSUME Fit, NEW w \in Worker, CountDown(w) PROVE AnyInv'
<1> USE DEF Fit, AnyInv
<1>1. running = w /\ pc[w] = "dec" /\ insched = 0
  BY ConstantAssumption DEF CountDown, At, LockInv, Switching
<1>2. gThreads' \in Int /\ insched' = 0
  BY <1>1 DEF CountDown, cpuVars, TypeOK
<1> QED
  BY <1>2, WorkerGoesAny DEF CountDown, heapVars, cpuVars

\* A flow that was jumped to leaves Skedule.
LEMMA ResumeAny == ASSUME Fit, NEW f \in Thread, Resume(f) PROVE AnyInv'
<1> USE ConstantAssumption
    DEF Fit, AnyInv, Sound, Resume, Unlock, At, Goto, heapVars, sysVars, saveVars, miscVars
<1>0. /\ Place' = Place /\ ~Lost /\ ~Lost' /\ running = f /\ pc[f] = "resume"
      /\ pc' = [pc EXCEPT ![f] = ret[f]] /\ pc'[f] = ret[f]
      /\ f # Main => ret[f] = "run"
      /\ f = Main => Place = ret[f] /\ ret[f] \in MainPc
      /\ Place \notin {"start", "reset"}
  <2>1. pc' = [pc EXCEPT ![f] = ret[f]] /\ pc'[f] = ret[f] /\ running = f /\ pc[f] = "resume"
        /\ pc \in [Thread -> MainPc \union WorkerPc \union SwitchPc]
    BY DEF TypeOK
  <2>2. /\ f # Main => ret[f] = "run"
        /\ ret[Main] \in MainPc
    BY <2>1 DEF AnyPc, Thread
  <2>3. Place' = Place /\ ~Lost /\ ~Lost'
    <3>1. CASE f = Main
      <4>1. pc'[Main] = ret[Main] /\ ret' = ret /\ pc[Main] = "resume"
        BY <2>1, <3>1
      <4> QED
        BY <2>2, <4>1 DEF Place, Lost, SwitchPc, MainPc, CreatePc
    <3>2. CASE f # Main
      <4>1. pc'[Main] = pc[Main] /\ ret' = ret /\ pc[Main] # "jump"
        BY <2>1, <3>2 DEF AnyPc, Thread
      <4> QED
        BY <4>1 DEF Place, Lost, SwitchPc
    <3> QED
      BY <3>1, <3>2
  <2>4. f = Main => Place = ret[f]
    BY <2>1 DEF Place, SwitchPc
  <2>5. Place \notin {"start", "reset"}
    BY <2>1 DEF AnyNew
  <2> QED
    BY <2>1, <2>2, <2>3, <2>4, <2>5
<1>1. TypeOK'
  BY <1>0 DEF TypeOK
<1>2. StackInv'
  BY <1>0 DEF StackInv, TypeOK, Thread
<1>3. LockInv'
  BY <1>0 DEF LockInv, Switching, TypeOK, MainPc, CreatePc
<1>4. AnyPc'
  BY <1>0 DEF AnyPc, WorkerPc, SwitchPc, MainPc, TypeOK, CreatePc, Thread
<1>5. AnyNew'
  BY <1>0 DEF AnyNew, TypeOK, MainPc, CreatePc, Thread
<1>6. AnyNode'
  BY <1>0 DEF AnyNode, TypeOK, MainPc, CreatePc, Thread
<1>7. AnyContext'
  BY <1>0 DEF AnyContext, ContextInv, TypeOK, MainPc, CreatePc, Thread
<1>8. InRing' = InRing /\ AnyRing' /\ AnyRank'
  BY <1>0, AnyRingFrame
<1>9. AnyCurrent'
  BY <1>0, <1>8 DEF AnyCurrent, TypeOK, MainPc, CreatePc, Thread
<1> QED
  BY <1>1, <1>2, <1>3, <1>4, <1>5, <1>6, <1>7, <1>8, <1>9

\* LongJump: to the flow of the node that was picked, or a fault.
LEMMA JumpAny == ASSUME Fit, Jump PROVE AnyInv'
<1> USE ConstantAssumption
    DEF Fit, AnyInv, Sound, Jump, heapVars, sysVars, miscVars
<1>1. threads = Main /\ current \in Thread /\ pc[running] \in {"jump", "exitjump"}
  BY DEF AnyCurrent, TypeOK
<1>2. CASE sig_context[current] = NULL
  <2> USE <1>2
  <2>2. /\ UNCHANGED <<running, sig_context, pc, insched, stack, unfreed>>
        /\ fault' = "bad_context"
    OBVIOUS
  <2>3. TypeOK'
    BY <2>2 DEF TypeOK
  <2>4. StackInv' /\ LockInv' /\ ~NoFault'
    BY <2>2 DEF StackInv, LockInv, Switching, NoFault
  <2> QED
    BY <2>3, <2>4
<1>3. CASE sig_context[current] # NULL
  <2>0. ~Lost /\ ContextInv
    BY <1>3 DEF AnyContext
  <2>1. current \in InRing /\ current # running /\ sig_context[current] = current
    BY <1>1, <1>3, <2>0 DEF AnyCurrent, ContextInv
  <2>2. pc[current] \in {"entry", "parked"}
    BY <1>1, <1>3, <2>0, <2>1 DEF ContextInv, AnyPc, Thread
  <2>3. /\ fault' = fault /\ running' = current
        /\ sig_context' = [sig_context EXCEPT ![current] = NULL]
        /\ pc' = [pc EXCEPT
                    ![running] = IF pc[running] = "jump" THEN "parked" ELSE "gone",
                    ![current] = IF pc[current] = "entry" THEN "entry" ELSE "resume"]
    BY <1>3, <2>1, Zenon
  <2>4. /\ pc' \in [Thread -> MainPc \union WorkerPc \union SwitchPc]
        /\ pc'[running] = IF pc[running] = "jump" THEN "parked" ELSE "gone"
        /\ pc'[current] = IF pc[current] = "entry" THEN "entry" ELSE "resume"
        /\ \A f \in Thread \ {running, current} : pc'[f] = pc[f]
        /\ running \in Thread
    BY <1>1, <2>1, <2>3 DEF TypeOK, WorkerPc, SwitchPc
  <2>5. /\ pc[running] = "exitjump" => running \in Worker
        /\ pc[Main] # "entry"
    BY <2>4 DEF AnyPc, MainPc, CreatePc, Thread
  <2>6. Place' = Place /\ ~Lost'
    <3>1. Main \in {running, current} => pc[Main] \in SwitchPc /\ pc'[Main] \in {"parked", "resume"}
      BY <1>1, <2>2, <2>4, <2>5 DEF SwitchPc
    <3>2. Main \notin {running, current} => pc'[Main] = pc[Main]
      BY <2>4 DEF Thread
    <3>3. ret' = ret
      OBVIOUS
    <3> QED
      BY <2>0, <3>1, <3>2, <3>3 DEF Place, Lost, SwitchPc
  <2>7. Place \notin {"start", "reset"}
    BY <1>1, <2>0 DEF AnyNew, Lost, Place, SwitchPc
  <2> HIDE DEF Jump
  <2>8. UNCHANGED <<heapVars, sysVars, ret, byTick, insched, tpl, miscVars>>
    BY DEF Jump
  <2> USE <2>8
  <2>9. TypeOK'
    BY <1>1, <2>3, <2>4 DEF TypeOK, Ptr
  <2>10. StackInv'
    <3>1. ASSUME NEW w \in Worker
          PROVE  /\ pc'[w] \notin {"none", "gone"} => pc[w] \notin {"none", "gone"}
                 /\ pc'[w] = "gone" => pc[w] \in {"exitjump", "gone"}
                 /\ pc'[w] = "exitjump" => pc[w] = "exitjump"
                 /\ pc[w] \in {"exitjump", "gone"} => pc'[w] \in {"exitjump", "gone"}
      BY <1>1, <2>2, <2>4 DEF Thread
    <3>2. stack' = stack /\ unfreed' = unfreed
      OBVIOUS
    <3> QED
      BY <3>1, <3>2 DEF StackInv
  <2>11. LockInv'
    BY <1>1, <2>2, <2>3, <2>4 DEF LockInv, Switching
  <2>12. AnyPc'
    BY <1>1, <2>2, <2>3, <2>4, <2>5 DEF AnyPc, WorkerPc, SwitchPc, MainPc, CreatePc, Thread
  <2>13. AnyNew'
    BY <1>1, <2>2, <2>4, <2>6, <2>7 DEF AnyNew, Thread
  <2>14. AnyNode'
    BY <1>1, <2>2, <2>4, <2>5, <2>6 DEF AnyNode, Thread
  <2>15. AnyContext'
    <3>1. ContextInv'
      BY <1>1, <2>0, <2>1, <2>2, <2>3, <2>4 DEF ContextInv, TypeOK
    <3> QED
      BY <2>6, <3>1 DEF AnyContext
  <2>16. InRing' = InRing /\ AnyRing' /\ AnyRank'
    BY <2>6, AnyRingFrame
  <2>17. AnyCurrent'
    <3>1. pc'[Main] \notin {"start", "reset"}
      BY <2>6, <2>7 DEF Place, SwitchPc
    <3>2. pc'[running'] \in {"entry", "resume"} /\ current' = running'
      BY <2>3, <2>4
    <3>3. threads' = Main /\ current' \in Thread /\ Main # NULL
      BY <1>1
    <3> QED
      BY <3>1, <3>2, <3>3 DEF AnyCurrent
  <2> QED
    BY <2>9, <2>10, <2>11, <2>12, <2>13, <2>14, <2>15, <2>16, <2>17
<1> QED
  BY <1>2, <1>3

-----------------------------------------------------------------------------
\* _new_thread and the stores of _insert_thread, however long ago the one
\* before it was.
LEMMA NewThreadAny == ASSUME Fit, NewThread PROVE AnyInv'
<1> USE ConstantAssumption DEF Fit, AnyInv, Sound, At, Goto, saveVars, cpuVars, Thread
<1>1. /\ running = Main /\ pc[Main] = "alloc" /\ pc' = [pc EXCEPT ![Main] = "ins1"]
      /\ Place = "alloc" /\ Place' = "ins1" /\ ~Lost /\ ~Lost'
      /\ UNCHANGED <<unfreed, stack, dead, saveVars, cpuVars, timer, gThreads, fault>>
  BY DEF NewThread, Place, Lost, SwitchPc, TypeOK
<1>2. PICK w \in Worker :
        LET new == {w} \union (IF threads = NULL THEN {Main} ELSE {}) IN
        /\ node[w] = "none" /\ newt' = w
        /\ node' = [n \in Thread |-> IF n \in new THEN "live" ELSE node[n]]
        /\ next' = [n \in Thread |-> IF n \in new THEN n ELSE next[n]]
        /\ prev' = [n \in Thread |-> IF n \in new THEN n ELSE prev[n]]
  BY DEF NewThread
<1>3. /\ threads' = Main
      /\ current' = IF threads = NULL THEN Main ELSE current
  BY DEF NewThread, TypeOK
<1> USE <1>1
<1>4. /\ pc[w] = "none" /\ w # Main
      /\ threads = NULL => \A n \in Thread : node[n] = "none"
  BY <1>2 DEF AnyNode, AnyCurrent, Inserting
<1>5. TypeOK'
  BY <1>2, <1>3 DEF TypeOK, MainPc, CreatePc, Ptr, HeapState
<1>6. StackInv' /\ LockInv'
  BY DEF StackInv, LockInv, Switching, TypeOK
<1>7. AnyPc'
  BY DEF AnyPc, MainPc, CreatePc, TypeOK
<1>8. AnyNew'
  BY <1>2, <1>4 DEF AnyNew, TypeOK
<1>9. AnyNode'
  BY <1>2, <1>3, <1>4 DEF AnyNode, TypeOK, Inserting
<1>10. AnyContext'
  BY DEF AnyContext, ContextInv, TypeOK
<1>11. InRing = {n \in Thread : node[n] = "live"}
       /\ InRing' = IF threads = NULL THEN {Main} ELSE InRing
  BY <1>2, <1>4 DEF InRing, Inserting
<1>12. AnyRing'
  BY <1>2, <1>3, <1>4, <1>11 DEF AnyRing, Doomed, Inserting, TypeOK
<1>13. AnyRank'
  BY <1>2, <1>4, <1>11 DEF AnyRank, AnyRanks
<1>14. AnyCurrent'
  BY <1>3, <1>11 DEF AnyCurrent, TypeOK
<1> QED
  BY <1>5, <1>6, <1>7, <1>8, <1>9, <1>10, <1>12, <1>13, <1>14

\* What the three stores have in common: they change links, and Main goes on.
LEMMA StoreAny ==
  ASSUME Fit, NEW l, NEW m, At(Main, l), Goto(Main, m),
         <<l, m>> \in {<<"ins1", "ins2">>, <<"ins2", "ins3">>, <<"ins3", "setcur">>},
         next' \in [Thread -> Ptr], prev' \in [Thread -> Ptr], fault' = fault,
         UNCHANGED <<node, stack, dead, sysVars, saveVars, cpuVars, miscVars>>,
         (AnyRing /\ AnyRank)'
  PROVE  AnyInv'
<1> USE ConstantAssumption
    DEF Fit, AnyInv, Sound, At, Goto, Thread, sysVars, saveVars, cpuVars, miscVars
<1>1. /\ Place = l /\ Place' = m /\ pc' = [pc EXCEPT ![Main] = m]
      /\ ~Lost /\ ~Lost' /\ running = Main
      /\ newt \in Worker /\ pc[newt] = "none" /\ threads = Main
  <2>1. Place = l /\ Place' = m /\ ~Lost /\ ~Lost'
    BY DEF Place, Lost, SwitchPc, TypeOK
  <2> QED
    BY <2>1 DEF AnyNew, Inserting, AnyCurrent, TypeOK
<1>2. TypeOK'
  BY DEF TypeOK, MainPc, CreatePc
<1>3. StackInv' /\ LockInv'
  BY <1>1 DEF StackInv, LockInv, Switching, TypeOK
<1>4. AnyPc'
  BY <1>1 DEF AnyPc, MainPc, CreatePc, TypeOK
<1>5. AnyNew' /\ AnyNode'
  BY <1>1 DEF AnyNew, AnyNode, Inserting, TypeOK
<1>6. AnyContext'
  BY <1>1 DEF AnyContext, ContextInv, TypeOK
<1>7. AnyCurrent'
  BY <1>1 DEF AnyCurrent, TypeOK
<1> QED
  BY <1>2, <1>3, <1>4, <1>5, <1>6, <1>7

LEMMA InsertLinkNewAny == ASSUME Fit, InsertLinkNew PROVE AnyInv'
<1> USE ConstantAssumption DEF Fit, AnyInv, Sound
<1>1. /\ Place = "ins1" /\ Place' = "ins2" /\ threads = Main
      /\ newt \in Worker /\ newt' = newt /\ node' = node /\ threads' = threads
      /\ node[newt] = "live"
  <2>1. /\ pc[Main] = "ins1" /\ pc'[Main] = "ins2" /\ newt' = newt /\ node' = node
        /\ threads' = threads
    BY DEF InsertLinkNew, At, Goto, miscVars, sysVars, TypeOK, Thread
  <2>2. Place = "ins1" /\ Place' = "ins2"
    BY <2>1 DEF Place, SwitchPc
  <2> QED
    BY <2>1, <2>2 DEF AnyNew, AnyNode, AnyCurrent, Inserting, TypeOK
<1>2. /\ InRing' = InRing /\ newt \notin InRing /\ InRing \subseteq Thread
      /\ prev[Main] \in InRing /\ next[prev[Main]] = Main /\ newt \in Thread
  BY <1>1 DEF InRing, Inserting, AnyRing, Thread
<1>3. /\ prev' = [prev EXCEPT ![newt] = prev[Main]]
      /\ next' = [next EXCEPT ![newt] = Main]
  BY <1>1, <1>2 DEF InsertLinkNew, InsertAfter
<1>4. next' \in [Thread -> Ptr] /\ prev' \in [Thread -> Ptr]
  BY <1>2, <1>3 DEF TypeOK, Ptr, Thread
<1>5. AnyRing'
  BY <1>1, <1>2, <1>3 DEF AnyRing, Doomed, TypeOK
<1>6. AnyRank'
  BY <1>2, <1>3 DEF AnyRank, AnyRanks, TypeOK
<1> QED
  BY <1>4, <1>5, <1>6, StoreAny DEF InsertLinkNew

LEMMA InsertLinkNextAny == ASSUME Fit, InsertLinkNext PROVE AnyInv'
<1> USE ConstantAssumption DEF Fit, AnyInv, Sound
<1>1. /\ Place = "ins2" /\ Place' = "ins3" /\ threads = Main
      /\ newt \in Worker /\ newt' = newt /\ node' = node /\ threads' = threads
      /\ next' = next
  <2>1. /\ pc[Main] = "ins2" /\ pc'[Main] = "ins3" /\ newt' = newt /\ node' = node
        /\ threads' = threads /\ next' = next
    BY DEF InsertLinkNext, At, Goto, miscVars, sysVars, TypeOK, Thread
  <2>2. Place = "ins2" /\ Place' = "ins3"
    BY <2>1 DEF Place, SwitchPc
  <2> QED
    BY <2>1, <2>2 DEF AnyNew, AnyCurrent, Inserting, TypeOK
<1>2. /\ InRing' = InRing /\ InRing \subseteq Thread
      /\ next[newt] = Main /\ newt \in Thread
  BY <1>1 DEF InRing, Inserting, AnyRing, Thread
<1>3. prev' = [prev EXCEPT ![Main] = newt] /\ newt # Main
  BY <1>1, <1>2 DEF InsertLinkNext
<1>4. next' \in [Thread -> Ptr] /\ prev' \in [Thread -> Ptr]
  BY <1>1, <1>2, <1>3 DEF TypeOK, Ptr, Thread
<1>5. AnyRing'
  BY <1>1, <1>2, <1>3 DEF AnyRing, Doomed, TypeOK, Thread
<1>6. AnyRank'
  BY <1>1, <1>2 DEF AnyRank, AnyRanks
<1> QED
  BY <1>4, <1>5, <1>6, StoreAny DEF InsertLinkNext

\* The store into a node that was freed meanwhile is a fault; else the new
\* node is in the ring.
LEMMA InsertLinkPrevAny == ASSUME Fit, InsertLinkPrev PROVE AnyInv'
<1> USE ConstantAssumption DEF Fit, AnyInv, Sound
<1>1. /\ Place = "ins3" /\ Place' = "setcur" /\ threads = Main
      /\ newt \in Worker /\ newt' = newt /\ node' = node /\ threads' = threads
      /\ prev' = prev /\ node[newt] = "live" /\ pc[Main] = "ins3"
      /\ next' = [next EXCEPT ![prev[newt]] = newt]
  <2>1. /\ pc[Main] = "ins3" /\ pc'[Main] = "setcur" /\ newt' = newt /\ node' = node
        /\ threads' = threads /\ prev' = prev
        /\ next' = [next EXCEPT ![prev[newt]] = newt]
    BY DEF InsertLinkPrev, At, Goto, miscVars, sysVars, TypeOK, Thread
  <2>2. Place = "ins3" /\ Place' = "setcur"
    BY <2>1 DEF Place, SwitchPc
  <2> QED
    BY <2>1, <2>2 DEF AnyNew, AnyNode, AnyCurrent, Inserting, TypeOK
<1>2. /\ newt \notin InRing /\ InRing \subseteq Thread /\ newt \in Thread
      /\ InRing' = InRing \union {newt} /\ Main \in InRing /\ newt # Main
  BY <1>1 DEF InRing, Inserting, Thread, AnyNode
<1>3. next' \in [Thread -> Ptr] /\ prev' \in [Thread -> Ptr]
  BY <1>1, <1>2 DEF TypeOK, Ptr, Thread
<1>4. CASE Doomed
  <2>1. fault' = "freed_node"
    BY <1>4 DEF InsertLinkPrev, Doomed
  <2>2. pc' = [pc EXCEPT ![Main] = "setcur"] /\ running = Main
        /\ UNCHANGED <<node, stack, dead, sysVars, saveVars, cpuVars, miscVars>>
    BY DEF InsertLinkPrev, At, Goto
  <2>3. TypeOK'
    BY <1>3, <2>1, <2>2 DEF TypeOK, MainPc, CreatePc, sysVars, saveVars, cpuVars,
                            miscVars, Thread
  <2>4. StackInv' /\ LockInv' /\ ~NoFault'
    BY <1>1, <2>1, <2>2 DEF StackInv, LockInv, Switching, NoFault, TypeOK, Thread,
                            sysVars, cpuVars
  <2> QED
    BY <2>3, <2>4
<1>5. CASE ~Doomed
  <2>1. /\ prev[newt] \in InRing /\ next[prev[newt]] = Main
        /\ next[newt] = Main /\ prev[Main] = newt
    BY <1>1, <1>5 DEF AnyRing
  <2>2. fault' = fault
    BY <1>1, <1>5 DEF InsertLinkPrev, Doomed
  <2>3. /\ next'[prev[newt]] = newt
        /\ \A n \in Thread : n # prev[newt] => next'[n] = next[n]
    BY <1>1, <1>2, <2>1 DEF TypeOK
  <2>4. AnyRing'
    BY <1>1, <1>2, <2>1, <2>3 DEF AnyRing
  <2>5. AnyRank'
    <3>1. PICK r \in [Thread -> Nat] : AnyRanks(r)
      BY DEF AnyRank
    <3> DEFINE q == [r EXCEPT ![newt] = r[prev[newt]] + 1]
    <3>2. q \in [Thread -> Nat]
      BY <1>2, <2>1
    <3>3. \A n \in InRing : next[n] # newt
      BY <1>2 DEF AnyRing
    <3>4. ASSUME NEW n \in InRing', next'[n] # Main
          PROVE  q[n] < q[next'[n]]
      BY <1>2, <2>1, <2>3, <3>1, <3>3, <3>4 DEF AnyRanks, AnyRing
    <3> HIDE DEF q
    <3> QED
      BY <3>2, <3>4 DEF AnyRank, AnyRanks
  <2> QED
    BY <1>3, <2>2, <2>4, <2>5, StoreAny DEF InsertLinkPrev
<1> QED
  BY <1>4, <1>5

-----------------------------------------------------------------------------
\* What a caller of Skedule is, and where Skedule returns to it, with ticks
\* anywhere.
CallerAny(f, label) ==
  /\ f = running /\ threads = Main /\ insched = 0
  /\ \/ /\ f = Main /\ pc[f] \in MainPc
        /\ label = pc[f] \/ (pc[f] = "joinsked" /\ label = "join")
     \/ f \in Worker /\ pc[f] \in {"run", "dec", "sked"} /\ label = pc[f]

\* sys.current is the caller's node, unless create_thread has set it to the
\* new thread's.
LEMMA CallersNode ==
  ASSUME Fit, NEW f \in Thread, NEW label, CallerAny(f, label)
  PROVE  /\ ~Lost /\ ContextInv /\ pc[Main] # "jump"
         /\ IF pc[Main] \in {"start", "reset"}
            THEN f = Main /\ current = newt /\ ~dead[current] /\ newt \in Worker
                 /\ next[current] = Main /\ Place = pc[Main]
            ELSE current = f /\ f \in InRing /\ Place \notin {"start", "reset"}
         /\ f \in Worker => next[f] \in InRing \ {f} /\ prev[f] \in InRing \ {f}
         /\ next[current] \in InRing /\ InRing \subseteq Thread /\ Main \in InRing
<1> USE ConstantAssumption DEF Fit, AnyInv, Sound, CallerAny, Thread
<1>1. ~Lost /\ ContextInv /\ pc[Main] # "jump"
  <2>1. pc[Main] # "jump"
    BY DEF AnyPc, MainPc, CreatePc
  <2> QED
    BY <2>1 DEF Lost, AnyContext
<1>2. InRing \subseteq Thread /\ Main \in InRing
  BY DEF InRing, AnyNode, AnyNew, Inserting
<1>3. CASE pc[Main] \in {"start", "reset"}
  <2>1. Place = pc[Main]
    BY <1>3 DEF Place, SwitchPc
  <2>2. f = Main /\ current = newt /\ newt \in Worker /\ pc[newt] \in {"none", "entry"}
        /\ next[newt] = Main
    BY <1>3, <2>1 DEF AnyNew, AnyCurrent, AnyRing
  <2>3. ~dead[newt]
    BY <2>2 DEF AnyNode
  <2> QED
    BY <1>1, <1>2, <1>3, <2>1, <2>2, <2>3
<1>4. CASE pc[Main] \notin {"start", "reset"}
  <2>1. pc[f] \notin {"jump", "exitjump", "start", "reset"}
    BY <1>4 DEF MainPc, CreatePc
  <2>2. current = f
    BY <2>1 DEF AnyCurrent
  <2>3. Place \notin {"start", "reset"}
    BY <1>1, <1>4 DEF AnyNew
  <2>4. f \in InRing
    <3>1. f \in Worker => node[f] = "live" /\ pc[f] # "none"
      BY DEF AnyNode
    <3>2. Place \in Inserting => pc[newt] = "none"
      BY DEF AnyNew
    <3> QED
      BY <1>2, <3>1, <3>2 DEF InRing
  <2>5. next[f] \in InRing
    BY <2>4 DEF AnyRing
  <2>6. ASSUME f \in Worker PROVE next[f] # f /\ prev[f] \in InRing \ {f}
    <3>1. PICK r \in [Thread -> Nat] : AnyRanks(r)
      BY DEF AnyRank
    <3>2. next[f] # f
      BY <2>4, <2>6, <3>1 DEF AnyRanks
    <3> QED
      BY <2>4, <2>6, <3>2 DEF AnyRing
  <2> QED
    BY <1>1, <1>2, <1>4, <2>2, <2>3, <2>4, <2>5, <2>6
<1> QED
  BY <1>3, <1>4

\* The stack that a call of Skedule frees is that of a thread that is gone.
LEMMA FreesGone ==
  ASSUME Fit, NEW f \in Thread, NEW label, CallerAny(f, label), FreeDeadStack
  PROVE  \A w \in Worker :
           /\ unfreed = w => pc[w] = "gone" /\ stack'[w] = "freed"
           /\ unfreed # w => stack'[w] = stack[w]
           /\ pc[w] # "exitjump"
<1> SUFFICES ASSUME NEW w \in Worker
             PROVE  /\ unfreed = w => pc[w] = "gone" /\ stack'[w] = "freed"
                    /\ unfreed # w => stack'[w] = stack[w]
                    /\ pc[w] # "exitjump"
  OBVIOUS
<1>1. w \in Thread
  BY DEF Thread
<1>2. pc[w] # "exitjump"
  BY <1>1 DEF Fit, AnyInv, Sound, AnyPc, CallerAny, MainPc, CreatePc
<1>3. unfreed = w => pc[w] = "gone"
  BY <1>2 DEF Fit, AnyInv, StackInv
<1> QED
  BY <1>1, <1>2, <1>3 DEF FreeDeadStack

\* A dead thread is a worker that runs; Main's place stays as it is, though a
\* predecessor that create_thread has read may be freed.
LEMMA SkeduleDeadAny ==
  ASSUME Fit, NEW f \in Thread, NEW label, NEW tick \in BOOLEAN, CallerAny(f, label),
         SkeduleDead(f, tick), UNCHANGED <<running, miscVars, fault>>
  PROVE  AnyInv'
<1> USE ConstantAssumption
    DEF Fit, AnyInv, Sound, SkeduleDead, CallerAny, Goto, RemoveThread, FreeDeadStack,
        StackOf, GetNext, NewHead, UnlinkNext, UnlinkPrev, saveVars, miscVars
<1>a. /\ current = f /\ f \in Worker /\ f # Main /\ f \in InRing /\ running = f
      /\ pc[f] \in {"dec", "sked"} /\ Place \notin {"start", "reset"}
      /\ ~Lost /\ ContextInv /\ pc[Main] # "jump"
      /\ next[f] \in InRing \ {f} /\ prev[f] \in InRing \ {f}
      /\ InRing \subseteq Thread /\ Main \in InRing
  <2>1. dead[current]
    OBVIOUS
  <2>2. current = f /\ f \in InRing /\ Place \notin {"start", "reset"}
    BY <2>1, CallersNode
  <2>3. f # Main /\ (f \in Worker => pc[f] \in {"dec", "sked"})
    BY <2>1, <2>2 DEF AnyNode
  <2>4. f \in Worker
    BY <2>3 DEF Thread
  <2> QED
    BY <2>2, <2>3, <2>4, CallersNode
<1>b. /\ pc' = [pc EXCEPT ![f] = "exitjump"] /\ pc'[f] = "exitjump"
      /\ \A g \in Thread \ {f} : pc'[g] = pc[g]
      /\ ret' = ret /\ newt' = newt /\ threads' = threads /\ running' = running
      /\ node' = [node EXCEPT ![f] = "freed"]
      /\ next' = [next EXCEPT ![prev[f]] = next[f]]
      /\ prev' = [prev EXCEPT ![next[f]] = prev[f]]
      /\ current' = next[f] /\ unfreed' = f /\ dead' = dead
      /\ sig_context' = sig_context /\ insched' = 1
  BY <1>a DEF TypeOK
<1>c. Place' = Place /\ ~Lost'
  <2>1. pc'[Main] = pc[Main] /\ pc[Main] # "jump"
    BY <1>a, <1>b DEF Thread
  <2> QED
    BY <1>b, <2>1 DEF Place, Lost
<1>d. InRing' = InRing \ {f}
  BY <1>a, <1>b, <1>c DEF InRing, TypeOK
<1>1. TypeOK'
  <2>1. next[f] \in Ptr /\ prev[f] \in Ptr
    BY <1>a DEF Ptr
  <2> QED
    BY <1>a, <1>b, <2>1 DEF TypeOK, SwitchPc, HeapState
<1>2. StackInv'
  <2>1. \A w \in Worker :
          /\ unfreed = w => pc[w] = "gone" /\ stack'[w] = "freed"
          /\ unfreed # w => stack'[w] = stack[w]
          /\ pc[w] # "exitjump"
    BY FreesGone
  <2>2. \A w \in Worker : w # f => pc'[w] = pc[w]
    BY <1>b DEF Thread
  <2>3. pc'[f] = "exitjump" /\ unfreed' = f /\ pc[f] \in {"dec", "sked"}
    BY <1>a, <1>b
  <2> HIDE DEF SkeduleDead
  <2> QED
    BY <2>1, <2>2, <2>3 DEF StackInv
<1> HIDE DEF SkeduleDead
<1>3. LockInv'
  BY <1>a, <1>b DEF LockInv, Switching
<1>4. AnyPc'
  BY <1>a, <1>b DEF AnyPc, SwitchPc, Thread
<1>5. AnyNew'
  BY <1>a, <1>b, <1>c DEF AnyNew, Thread
<1>6. AnyNode'
  BY <1>a, <1>b, <1>c DEF AnyNode, TypeOK, Thread
<1>7. AnyContext'
  <2>1. ContextInv'
    BY <1>a, <1>b DEF ContextInv
  <2> QED
    BY <1>c, <2>1 DEF AnyContext
<1>8. AnyRing'
  <2>1. next[prev[f]] = f /\ (next[f] # Main => prev[next[f]] = f)
    BY <1>a DEF AnyRing
  <2>2. \A n \in InRing : next[n] = f => n = prev[f]
    BY <1>a DEF AnyRing
  <2>3. /\ \A n \in Thread : next'[n] = IF n = prev[f] THEN next[f] ELSE next[n]
        /\ \A n \in Thread : prev'[n] = IF n = next[f] THEN prev[f] ELSE prev[n]
    BY <1>a, <1>b DEF TypeOK
  <2>4. \A n \in InRing' : next'[n] \in InRing'
    BY <1>a, <1>d, <2>2, <2>3 DEF AnyRing
  <2>5. \A n \in InRing' \ {Main} : prev'[n] \in InRing' /\ next'[prev'[n]] = n
    BY <1>a, <1>d, <2>1, <2>2, <2>3 DEF AnyRing
  <2>6. \A n \in InRing' : next'[n] # Main => prev'[next'[n]] = n
    BY <1>a, <1>d, <2>1, <2>2, <2>3 DEF AnyRing
  <2>7. \A m, n \in InRing' : next'[m] = Main /\ next'[n] = Main => m = n
    BY <1>a, <1>d, <2>1, <2>2, <2>3 DEF AnyRing
  <2>8. Place # "ins3" => prev'[Main] \in InRing' /\ next'[prev'[Main]] = Main
    BY <1>a, <1>d, <2>1, <2>2, <2>3 DEF AnyRing
  <2>9. ASSUME Place \in Inserting
        PROVE  newt \notin InRing /\ newt \in Thread /\ newt # f
    <3>1. newt \notin InRing
      BY <2>9 DEF InRing
    <3> QED
      BY <1>a, <2>9, <3>1 DEF AnyNew, Thread
  <2>10. ASSUME Place \in {"ins2", "ins3"}
         PROVE  /\ next'[newt] = Main /\ prev'[newt] = prev[newt] /\ prev[newt] \in Thread
                /\ prev[newt] = f => Doomed'
                /\ Doomed => Doomed'
                /\ ~Doomed' => /\ prev[newt] \in InRing' /\ next'[prev[newt]] = Main
                               /\ ~Doomed
    <3>1. /\ newt \notin InRing /\ newt \in Thread /\ newt # f
          /\ next[newt] = Main /\ prev[newt] \in Thread
          /\ ~Doomed => prev[newt] \in InRing /\ next[prev[newt]] = Main
      BY <2>9, <2>10 DEF AnyRing, Inserting
    <3>2. next'[newt] = Main /\ prev'[newt] = prev[newt]
      BY <1>a, <2>3, <3>1
    <3>3. (prev[newt] = f => Doomed') /\ (Doomed => Doomed')
      BY <1>a, <1>b, <1>c, <2>10, <3>1, <3>2 DEF Doomed, TypeOK
    <3>4. ASSUME ~Doomed' PROVE prev[newt] \in InRing' /\ next'[prev[newt]] = Main
      <4>1. prev[newt] \in InRing /\ prev[newt] # f /\ next[prev[newt]] = Main
        BY <3>1, <3>3, <3>4
      <4>2. prev[newt] # prev[f]
        BY <1>a, <2>1, <4>1
      <4> QED
        BY <1>d, <2>3, <3>1, <4>1, <4>2
    <3> QED
      BY <3>1, <3>2, <3>3, <3>4
  <2>11. Place = "ins3" /\ ~Doomed' => prev'[Main] = newt
    <3>1. SUFFICES ASSUME Place = "ins3", ~Doomed' PROVE prev'[Main] = newt
      OBVIOUS
    <3>2. ~Doomed /\ prev[newt] # f /\ prev[newt] \in InRing /\ next[prev[newt]] = Main
          /\ prev[Main] = newt
      BY <2>10, <3>1 DEF AnyRing
    <3>3. next[f] # Main
      BY <1>a, <3>2 DEF AnyRing
    <3> QED
      BY <1>a, <2>3, <3>2, <3>3
  <2>12. Place \in {"setcur", "start", "reset"} => next'[newt] = Main
    <3>1. SUFFICES ASSUME Place = "setcur" PROVE next'[newt] = Main
      BY <1>a
    <3>2. next[newt] = Main /\ newt \in Worker
      BY <3>1 DEF AnyRing, AnyNew
    <3>3. newt # prev[f]
      BY <1>a, <2>1, <3>2
    <3> QED
      BY <2>3, <3>2, <3>3 DEF Thread
  <2> QED
    BY <1>b, <1>c, <2>4, <2>5, <2>6, <2>7, <2>8, <2>10, <2>11, <2>12 DEF AnyRing
<1>9. AnyRank'
  <2>1. PICK r \in [Thread -> Nat] : AnyRanks(r)
    BY DEF AnyRank
  <2>2. next[prev[f]] = f /\ prev[f] \in InRing
    BY <1>a DEF AnyRing
  <2>3. ASSUME NEW n \in InRing', next'[n] # Main
        PROVE  r[n] < r[next'[n]]
    BY <1>a, <1>b, <1>d, <2>1, <2>2, <2>3 DEF AnyRanks, TypeOK
  <2> QED
    BY <2>1, <2>3 DEF AnyRank, AnyRanks
<1>10. AnyCurrent'
  <2>1. pc'[Main] \notin {"start", "reset"}
    BY <1>a, <1>b, CallersNode DEF Thread
  <2>2. threads' = Main /\ Main # NULL /\ current' \in Thread /\ pc'[running'] = "exitjump"
        /\ current' \in InRing' /\ current' # running'
    BY <1>a, <1>b, <1>d
  <2> QED
    BY <2>1, <2>2 DEF AnyCurrent
<1> QED
  BY <1>1, <1>2, <1>3, <1>4, <1>5, <1>6, <1>7, <1>8, <1>9, <1>10

\* Only Main can be alone; it keeps the lock, also in create_thread.
LEMMA SkeduleAloneAny ==
  ASSUME Fit, NEW f \in Thread, NEW label, CallerAny(f, label),
         SkeduleAlone(f, label), UNCHANGED <<running, miscVars, fault>>
  PROVE  AnyInv'
<1> USE ConstantAssumption
    DEF Fit, AnyInv, Sound, SkeduleAlone, CallerAny, Goto, FreeDeadStack, GetNext,
        saveVars, miscVars
<1>a. /\ f = Main /\ current = Main /\ ~Lost /\ ContextInv /\ pc[Main] # "jump"
      /\ Place \notin {"start", "reset"}
  BY CallersNode DEF Thread
<1>b. /\ label \in MainPc /\ pc' = [pc EXCEPT ![Main] = label] /\ pc'[Main] = label
      /\ pc[Main] \in MainPc /\ Place = pc[Main] /\ Place' = label /\ ~Lost'
      /\ label = pc[Main] \/ (pc[Main] = "joinsked" /\ label = "join")
  <2>1. pc[Main] \in MainPc /\ (label = pc[Main] \/ (pc[Main] = "joinsked" /\ label = "join"))
    BY <1>a
  <2>2. label \in MainPc
    BY <2>1 DEF MainPc
  <2>3. pc' = [pc EXCEPT ![Main] = label] /\ pc'[Main] = label
    BY <1>a DEF TypeOK, Thread
  <2> QED
    BY <2>1, <2>2, <2>3 DEF Place, Lost, MainPc, CreatePc, SwitchPc
<1>1. TypeOK'
  BY <1>a, <1>b DEF TypeOK, HeapState
<1>2. StackInv'
  <2>1. \A w \in Worker :
          /\ unfreed = w => pc[w] = "gone" /\ stack'[w] = "freed"
          /\ unfreed # w => stack'[w] = stack[w]
          /\ pc[w] # "exitjump"
    BY FreesGone
  <2>2. \A w \in Worker : pc'[w] = pc[w]
    BY <1>b DEF TypeOK, Thread
  <2>3. unfreed' = NULL
    OBVIOUS
  <2> HIDE DEF SkeduleAlone
  <2> QED
    BY <2>1, <2>2, <2>3 DEF StackInv
<1>3. LockInv'
  BY <1>a, <1>b DEF LockInv
<1>4. AnyPc'
  BY <1>a, <1>b DEF AnyPc, TypeOK, MainPc, CreatePc, Thread
<1>5. AnyNew' /\ AnyNode'
  BY <1>a, <1>b DEF AnyNew, AnyNode, TypeOK, Inserting, Thread
<1>6. AnyContext'
  BY <1>a, <1>b DEF AnyContext, ContextInv, TypeOK, MainPc, CreatePc
<1>7. InRing' = InRing /\ AnyRing' /\ AnyRank'
  BY <1>b, AnyRingFrame DEF Inserting
<1>8. AnyCurrent'
  BY <1>a, <1>b, <1>7 DEF AnyCurrent, TypeOK, Thread
<1> QED
  BY <1>1, <1>2, <1>3, <1>4, <1>5, <1>6, <1>7, <1>8

\* A switch saves the caller's context in its own node; in the new thread's
\* only if the jump will fault.
LEMMA SkeduleSwitchAny ==
  ASSUME Fit, NEW f \in Thread, NEW label, NEW tick \in BOOLEAN, CallerAny(f, label),
         SkeduleSwitch(f, label, tick), UNCHANGED <<running, miscVars, fault>>
  PROVE  AnyInv'
<1> USE ConstantAssumption
    DEF Fit, AnyInv, Sound, SkeduleSwitch, CallerAny, Goto, FreeDeadStack, GetNext,
        SaveContext, miscVars
<1>a. /\ ~Lost /\ ContextInv /\ pc[Main] # "jump" /\ running = f
      /\ next[current] \in InRing /\ InRing \subseteq Thread /\ current \in Thread
  BY CallersNode DEF AnyCurrent
<1>b. /\ pc' = [pc EXCEPT ![f] = "jump"] /\ pc'[f] = "jump"
      /\ ret' = [ret EXCEPT ![f] = label] /\ ret'[f] = label
      /\ \A g \in Thread \ {f} : pc'[g] = pc[g] /\ ret'[g] = ret[g]
      /\ current' = next[current] /\ next[current] # current
  BY DEF TypeOK
<1>c. /\ f = Main => /\ Place = pc[Main] /\ Place' = label /\ label \in MainPc
                     /\ label = pc[Main] \/ (pc[Main] = "joinsked" /\ label = "join")
      /\ f # Main => Place' = Place /\ ~Lost' /\ f \in Worker /\ label = "run" /\ pc[f] = "run"
  <2>1. CASE f = Main
    <3>1. pc[Main] \in MainPc /\ (label = pc[Main] \/ (pc[Main] = "joinsked" /\ label = "join"))
      BY <2>1
    <3>2. label \in MainPc /\ pc[Main] \notin SwitchPc
      BY <3>1 DEF MainPc, CreatePc, SwitchPc
    <3> QED
      BY <1>b, <2>1, <3>1, <3>2 DEF Place, SwitchPc
  <2>2. CASE f # Main
    <3>1. f \in Worker /\ pc[f] \in {"run", "dec", "sked"} /\ label = pc[f] /\ Main \in Thread
      BY <2>2 DEF Thread
    <3>2. current = f
      BY <2>2, CallersNode
    <3>3. pc[f] = "run"
      BY <3>1, <3>2 DEF AnyNode
    <3>4. pc'[Main] = pc[Main] /\ ret'[Main] = ret[Main]
      BY <1>b, <2>2, <3>1
    <3> QED
      BY <1>a, <2>2, <3>1, <3>3, <3>4 DEF Place, Lost
  <2> QED
    BY <2>1, <2>2
<1>d. Place \in {"start", "reset"} => f = Main /\ current = newt /\ next[current] = Main
  BY CallersNode, <1>c
<1>e. Place \notin {"start", "reset"} => current = f /\ ~Lost'
  <2>1. SUFFICES ASSUME Place \notin {"start", "reset"} PROVE current = f /\ ~Lost'
    OBVIOUS
  <2>2. current = f
    BY <2>1, CallersNode
  <2> QED
    BY <1>b, <1>c, <2>1, <2>2 DEF Lost
<1>1. TypeOK'
  <2>1. next[current] \in Ptr /\ label \in MainPc \union WorkerPc
    BY <1>a, <1>c DEF Ptr, WorkerPc
  <2>2. sig_context' \in [Thread -> Ptr] /\ stack' \in [Thread -> HeapState]
    BY <1>a DEF TypeOK, Ptr, HeapState
  <2> QED
    BY <1>a, <1>b, <2>1, <2>2 DEF TypeOK, SwitchPc
<1>2. StackInv'
  <2>1. \A w \in Worker :
          /\ unfreed = w => pc[w] = "gone" /\ stack'[w] = "freed"
          /\ unfreed # w => stack'[w] = stack[w]
          /\ pc[w] # "exitjump"
    BY FreesGone
  <2>2. \A w \in Worker : pc'[w] = pc[w] \/ (pc[w] = "run" /\ pc'[w] = "jump")
    BY <1>b, <1>c DEF Thread
  <2>3. unfreed' = NULL
    OBVIOUS
  <2> HIDE DEF SkeduleSwitch
  <2> QED
    BY <2>1, <2>2, <2>3 DEF StackInv
<1>x. /\ sig_context' = [sig_context EXCEPT ![current] = f] /\ insched' = 1
      /\ UNCHANGED <<threads, next, prev, node, dead, newt, running>>
  OBVIOUS
<1> HIDE DEF SkeduleSwitch
<1>3. LockInv'
  BY <1>a, <1>b, <1>x DEF LockInv, Switching
<1>4. AnyPc'
  BY <1>a, <1>b, <1>c, <1>x DEF AnyPc, SwitchPc, Thread
<1>5. AnyNew'
  <2>1. CASE f = Main
    <3>1. pc'[Main] = "jump" /\ \A w \in Worker : pc'[w] = pc[w]
      BY <1>b, <2>1 DEF Thread
    <3>2. Place' = Place \/ Place' = "join"
      BY <1>c, <2>1
    <3> QED
      BY <1>a, <1>x, <2>1, <3>1, <3>2 DEF AnyNew, Inserting
  <2>2. CASE f # Main
    BY <1>a, <1>b, <1>c, <1>x, <2>2 DEF AnyNew, Thread
  <2> QED
    BY <2>1, <2>2
<1>6. AnyNode'
  <2>1. Place' = Place \/ (Place \notin Inserting \union {"setcur", "start"} /\ Place' = "join")
    BY <1>c DEF Inserting
  <2> QED
    BY <1>a, <1>b, <1>c, <1>x, <2>1 DEF AnyNode, Inserting, Thread, MainPc, CreatePc
<1>7. AnyContext'
  <2>1. CASE Place \in {"start", "reset"}
    <3>1. f = Main /\ current' = Main /\ Lost' /\ current # Main
      BY <1>b, <1>c, <1>d, <2>1 DEF Lost
    <3>2. sig_context[Main] = NULL /\ Main \in Thread
      BY <1>a, <3>1 DEF ContextInv, Thread
    <3>3. sig_context'[Main] = NULL
      BY <1>x, <3>1, <3>2 DEF TypeOK
    <3> QED
      BY <3>1, <3>3 DEF AnyContext
  <2>2. CASE Place \notin {"start", "reset"}
    <3>1. current = f /\ ~Lost'
      BY <1>e, <2>2
    <3>2. ContextInv'
      BY <1>a, <1>b, <1>x, <3>1 DEF ContextInv, TypeOK
    <3> QED
      BY <3>1, <3>2 DEF AnyContext
  <2> QED
    BY <2>1, <2>2
<1>8. InRing' = InRing /\ AnyRing' /\ AnyRank'
  <2>1. Place' = Place \/ (Place = "joinsked" /\ Place' = "join")
    BY <1>c
  <2> QED
    BY <1>x, <2>1, AnyRingFrame DEF Inserting
<1>9. AnyCurrent'
  <2>1. pc'[Main] \notin {"start", "reset"}
    <3>1. CASE f = Main
      BY <1>b, <3>1
    <3>2. CASE f # Main
      BY <1>b, <1>c, <1>e, <3>2, CallersNode DEF Thread
    <3> QED
      BY <3>1, <3>2
  <2>2. ~Lost' => current' \in InRing' /\ current' # running'
    <3>1. SUFFICES ASSUME ~Lost' PROVE current' \in InRing' /\ current' # running'
      OBVIOUS
    <3>2. Place \notin {"start", "reset"}
      BY <1>b, <1>c, <1>d, <3>1 DEF Lost
    <3> QED
      BY <1>a, <1>b, <1>e, <1>x, <1>8, <3>2
  <2>3. threads' = Main /\ Main # NULL /\ current' \in Thread /\ pc'[running'] = "jump"
    BY <1>a, <1>b, <1>x
  <2> QED
    BY <2>1, <2>2, <2>3 DEF AnyCurrent
<1> QED
  BY <1>1, <1>2, <1>3, <1>4, <1>5, <1>6, <1>7, <1>8, <1>9

LEMMA SkeduleAny ==
  ASSUME Fit, NEW f \in Thread, NEW label, NEW tick \in BOOLEAN, CallerAny(f, label),
         Skedule(f, label, tick)
  PROVE  AnyInv'
BY SkeduleDeadAny, SkeduleAloneAny, SkeduleSwitchAny DEF Skedule

\* A step to a fault that changes nothing else.
LEMMA FaultAny ==
  ASSUME Fit, UNCHANGED <<heapVars, sysVars, saveVars, cpuVars, miscVars, pc>>,
         fault' \in {"null_current", "fell_off"}
  PROVE  AnyInv'
<1> USE DEF heapVars, sysVars, saveVars, cpuVars, miscVars
<1>1. TypeOK'
  BY DEF Fit, AnyInv, TypeOK
<1>2. StackInv' /\ LockInv' /\ ~NoFault'
  BY DEF Fit, AnyInv, StackInv, LockInv, Switching, NoFault
<1> QED
  BY <1>1, <1>2 DEF AnyInv

\* A tick calls Skedule for the running flow, wherever it is.
LEMMA TickAny == ASSUME Fit, Tick PROVE AnyInv'
<1> USE ConstantAssumption
<1>1. CASE insched = 0 /\ current = NULL
  BY <1>1, FaultAny DEF Tick
<1>2. CASE ~(insched = 0 /\ current = NULL)
  <2>1. Skedule(running, pc[running], TRUE) /\ insched = 0
    BY <1>2 DEF Tick, Skedule
  <2> USE DEF Fit, AnyInv, Sound
  <2>2. threads = Main /\ running \in Thread
    BY <1>2, <2>1 DEF AnyCurrent, TypeOK
  <2>3. pc[running] \notin {"jump", "exitjump", "resume", "entry", "none", "parked", "gone"}
    BY <2>1 DEF LockInv, Switching, AnyPc
  <2>4. CallerAny(running, pc[running])
    BY <2>1, <2>2, <2>3 DEF CallerAny, AnyPc, WorkerPc, SwitchPc, Thread
  <2> QED
    BY <2>1, <2>2, <2>4, SkeduleAny
<1> QED
  BY <1>1, <1>2

LEMMA ExitSkeduleAny == ASSUME Fit, NEW w \in Worker, ExitSkedule(w) PROVE AnyInv'
<1> USE ConstantAssumption
<1>1. CASE insched = 1
  BY <1>1, FaultAny DEF ExitSkedule
<1>2. CASE insched # 1
  <2>1. Skedule(w, "sked", FALSE) /\ insched = 0 /\ running = w /\ pc[w] = "sked"
    BY <1>2, Zenon DEF ExitSkedule, At, Skedule
  <2>2. threads = Main /\ w \in Thread
    BY <2>1 DEF Fit, AnyInv, Sound, AnyCurrent, TypeOK, Thread
  <2>3. CallerAny(w, "sked")
    BY <2>1, <2>2 DEF CallerAny
  <2> QED
    BY <2>1, <2>2, <2>3, SkeduleAny
<1> QED
  BY <1>1, <1>2

LEMMA JoinSkeduleAny == ASSUME Fit, JoinSkedule PROVE AnyInv'
<1> USE ConstantAssumption
<1>0. pc[Main] = "joinsked" /\ running = Main /\ threads = Main /\ timer \in BOOLEAN
      /\ Main # NULL
  BY JoinsRing DEF JoinSkedule, At, Fit, AnyInv, TypeOK
<1>1. CASE insched = 1
  <2>1. /\ At(Main, "joinsked") /\ Goto(Main, "join")
        /\ UNCHANGED <<heapVars, sysVars, saveVars, cpuVars, timer, gThreads, newt, fault>>
    BY <1>1 DEF JoinSkedule, miscVars
  <2>2. timer' \in BOOLEAN /\ threads # NULL
    BY <1>0, <2>1
  <2> QED
    BY <2>1, <2>2, MainGoesAny
<1>2. CASE insched # 1
  <2>1. Skedule(Main, "join", FALSE) /\ insched = 0
    BY <1>2, Zenon DEF JoinSkedule, Skedule
  <2>2. CallerAny(Main, "join") /\ Main \in Thread
    BY <1>0, <2>1 DEF CallerAny, MainPc, Thread
  <2> QED
    BY <2>1, <2>2, SkeduleAny
<1> QED
  BY <1>1, <1>2

LEMMA StutterAny == ASSUME AnyInv, UNCHANGED vars PROVE AnyInv'
<1> USE DEF vars, heapVars, sysVars, saveVars, cpuVars, miscVars, AnyInv
<1>1. TypeOK' /\ StackInv' /\ LockInv' /\ (NoFault' <=> NoFault)
  BY DEF TypeOK, StackInv, LockInv, Switching, NoFault
<1>2. ASSUME Sound PROVE Sound'
  <2> USE <1>2 DEF Sound
  <2>0. Place' = Place /\ Lost' = Lost
    BY DEF Place, Lost
  <2>1. AnyPc' /\ AnyNew' /\ AnyNode'
    BY <2>0 DEF AnyPc, AnyNew, AnyNode
  <2>2. InRing' = InRing /\ AnyRing' /\ AnyRank'
    BY <2>0, AnyRingFrame
  <2>3. AnyCurrent' /\ AnyContext'
    BY <2>0, <2>2 DEF AnyCurrent, AnyContext, ContextInv
  <2> QED
    BY <2>1, <2>2, <2>3
<1> QED
  BY <1>1, <1>2

LEMMA StepAny == ASSUME AnyInv, [Next]_vars PROVE AnyInv'
<1>1. CASE UNCHANGED vars
  BY <1>1, StutterAny
<1>2. CASE Next
  <2>1. NoFault
    BY <1>2 DEF Next, CpuStep, CreateStep, JoinStep, WorkerStep, InitTimer, JoinCall,
                NewThread, InsertLinkNew, InsertLinkNext, InsertLinkPrev, SetCurrent,
                StartThread, ResetCurrent, JoinTest, JoinSkedule, CloseTimer, Jump,
                Enter, KernelReturn, CountDown, ExitSkedule, Resume, Tick, At, NoFault
  <2>2. Fit
    BY <2>1 DEF Fit
  <2>3. CASE CreateStep
    BY <2>2, <2>3, NewThreadAny, InsertLinkNewAny, InsertLinkNextAny, InsertLinkPrevAny,
       SetCurrentAny, StartThreadAny, ResetCurrentAny DEF CreateStep
  <2>4. CASE JoinStep
    BY <2>2, <2>4, JoinTestAny, JoinSkeduleAny, CloseTimerAny DEF JoinStep
  <2>5. ASSUME NEW w \in Worker, WorkerStep(w) PROVE AnyInv'
    BY <2>2, <2>5, EnterAny, KernelReturnAny, CountDownAny, ExitSkeduleAny DEF WorkerStep
  <2>6. CASE CpuStep
    BY <2>2, <2>3, <2>4, <2>5, <2>6, JumpAny, ResumeAny DEF CpuStep
  <2> QED
    BY <1>2, <2>2, <2>6, InitTimerAny, JoinCallAny, TickAny DEF Next
<1> QED
  BY <1>1, <1>2

LEMMA InitAny == ASSUME Init PROVE AnyInv
<1> USE ConstantAssumption DEF Init, Thread
<1>1. TypeOK /\ NoFault
  <2>1. /\ pc \in [Thread -> MainPc \union WorkerPc \union SwitchPc]
        /\ ret \in [Thread -> MainPc \union WorkerPc]
    BY DEF MainPc, WorkerPc
  <2>2. /\ node \in [Thread -> HeapState] /\ stack \in [Thread -> HeapState]
        /\ next \in [Thread -> Ptr] /\ prev \in [Thread -> Ptr]
        /\ sig_context \in [Thread -> Ptr]
    BY DEF HeapState, Ptr
  <2>3. dead \in [Thread -> BOOLEAN] /\ byTick \in [Thread -> BOOLEAN]
    OBVIOUS
  <2>4. /\ threads \in {NULL, Main} /\ current \in Ptr /\ running \in Thread
        /\ unfreed \in Worker \union {NULL} /\ newt \in Worker \union {NULL}
    BY DEF Ptr
  <2>5. /\ insched \in {0, 1} /\ gThreads \in Int
        /\ tpl \in {"application", "callback"} /\ fault = "none"
    OBVIOUS
  <2>6. timer \in BOOLEAN
    BY Zenon
  <2> HIDE DEF Thread
  <2> QED
    BY <2>1, <2>2, <2>3, <2>4, <2>5, <2>6 DEF TypeOK, NoFault
<1>2. Place = "idle" /\ ~Lost /\ InRing = {} /\ threads = NULL
  BY DEF Place, Lost, SwitchPc, InRing
<1>3. StackInv /\ LockInv /\ AnyPc
  BY DEF StackInv, LockInv, Switching, AnyPc, MainPc, WorkerPc
<1>4. AnyNew /\ AnyNode /\ AnyCurrent /\ AnyContext
  BY <1>2 DEF AnyNew, AnyNode, AnyCurrent, AnyContext, ContextInv, Inserting
<1>5. AnyRing
  BY <1>2 DEF AnyRing, Doomed
<1>6. AnyRank
  <2>1. [n \in Thread |-> 0] \in [Thread -> Nat]
    OBVIOUS
  <2> QED
    BY <1>2, <2>1 DEF AnyRank, AnyRanks
<1> QED
  BY <1>1, <1>3, <1>4, <1>5, <1>6 DEF AnyInv, Sound

\* Wherever a tick lands, also between any two stores of create_thread, the
\* ring stays one circle until the program leaves defined behaviour.
THEOREM InvarianceAnywhere == Spec => []AnyInv
<1>1. Init => AnyInv
  BY InitAny
<1>2. AnyInv /\ [Next]_vars => AnyInv'
  BY StepAny
<1> QED
  BY <1>1, <1>2, PTL DEF Spec

\* Every variable of the scheduler keeps its type, after a fault too; in
\* particular the head sys.threads, once set, is always the application's node,
\* so remove_thread never has to move it.
THEOREM TypeCorrect == Spec => []TypeOK
<1>1. AnyInv => TypeOK
  BY DEF AnyInv
<1> QED
  BY <1>1, InvarianceAnywhere, PTL

\* No stack that is run on or can be jumped to is ever freed, wherever ticks
\* land (remove_thread, free_dead_stack).
THEOREM StacksAreSafe == Spec => []StackSafe
<1>1. AnyInv => StackSafe
  BY DEF AnyInv, StackInv, StackSafe
<1> QED
  BY <1>1, InvarianceAnywhere, PTL

\* The stack of every removed thread has been freed, but for the last one's,
\* which sys.unfreed_stack still remembers.
THEOREM DeadStacksAreFreed == Spec => []NoStackLeak
<1>1. AnyInv => NoStackLeak
  BY DEF AnyInv, StackInv, NoStackLeak
<1> QED
  BY <1>1, InvarianceAnywhere, PTL

\* A kernel never runs with Inschedule taken, so that it can be preempted and
\* its last Skedule is not turned away.
THEOREM WorkersAreUnlocked == Spec => []WorkerUnlocked
<1>1. AnyInv => WorkerUnlocked
  BY DEF AnyInv, LockInv, WorkerUnlocked
<1> QED
  BY <1>1, InvarianceAnywhere, PTL

\* When the head is its own successor it is the whole ring, wherever ticks have
\* landed: of any other nodes the one of least rank would have a predecessor of
\* lower rank.
LEMMA AloneAnywhere ==
  ASSUME Fit, Main \in InRing, next[Main] = Main
  PROVE  InRing = {Main}
<1>1. PICK r \in [Thread -> Nat] : AnyRanks(r)
  BY DEF Fit, AnyInv, Sound, AnyRank
<1> DEFINE ranks == {r[n] : n \in InRing \ {Main}}
<1>2. SUFFICES ASSUME ranks # {} PROVE FALSE
  OBVIOUS
<1>3. ranks \in SUBSET Nat
  BY DEF InRing
<1>4. PICK k \in ranks : \A j \in ranks : ~(<<j, k>> \in OpToRel(<, Nat))
  BY <1>2, <1>3, NatLessThanWellFounded, WFMin
<1>5. PICK n \in InRing \ {Main} : r[n] = k
  BY <1>4
<1>6. prev[n] \in InRing /\ next[prev[n]] = n
  BY <1>5 DEF Fit, AnyInv, Sound, AnyRing
<1>7. prev[n] # Main
  BY <1>5, <1>6
<1>8. r[prev[n]] < r[n] /\ r[prev[n]] \in ranks
  BY <1>1, <1>5, <1>6, <1>7 DEF AnyRanks
<1> QED
  BY <1>3, <1>4, <1>5, <1>8 DEF OpToRel

\* Only the test of thread_join's loop leaves the loop.
LEMMA JoinTestLeaves ==
  ASSUME TypeOK, [Next]_vars, pc[Main] = "join", pc'[Main] = "close"
  PROVE  JoinTest
<1> USE DEF At, Goto, TypeOK, Thread
<1>1. ~InitTimer /\ ~JoinCall /\ ~CreateStep
  BY DEF InitTimer, JoinCall, CreateStep, NewThread, InsertLinkNew,
         InsertLinkNext, InsertLinkPrev, SetCurrent, StartThread,
         ResetCurrent
<1>2. ~JoinSkedule /\ ~CloseTimer /\ ~UNCHANGED vars
  BY DEF JoinSkedule, CloseTimer, vars
<1>3. ASSUME NEW v \in Worker, WorkerStep(v) PROVE FALSE
  <2>1. ASSUME NEW f \in Worker, NEW label, NEW tick, Skedule(f, label, tick)
        PROVE  pc'[Main] = pc[Main]
    BY <2>1, ConstantAssumption
       DEF Skedule, SkeduleDead, SkeduleAlone, SkeduleSwitch
  <2> QED
    BY <1>3, <2>1, ConstantAssumption
       DEF WorkerStep, Enter, KernelReturn, CountDown, ExitSkedule
<1>4. ASSUME NEW f \in Thread, Resume(f) PROVE FALSE
  BY <1>4 DEF Resume
<1>5. ~Jump
  BY DEF Jump
<1>6. ~Tick
  BY DEF Tick, Skedule, SkeduleDead, SkeduleAlone, SkeduleSwitch
<1> QED
  BY <1>1, <1>2, <1>3, <1>4, <1>5, <1>6 DEF Next, CpuStep, JoinStep

\* thread_join leaves its loop only when every created thread has returned
\* from its kernel and left the ring.
THEOREM JoinIsSound == Spec => JoinWaits
<1> DEFINE Leaves == pc[Main] = "join" /\ pc'[Main] = "close" =>
                       \A w \in Worker : pc[w] \in {"none", "gone"}
<1>1. ASSUME AnyInv, [Next]_vars PROVE Leaves
  <2> SUFFICES ASSUME pc[Main] = "join", pc'[Main] = "close", NEW w \in Worker
               PROVE  pc[w] \in {"none", "gone"}
    OBVIOUS
  <2>1. JoinTest
    BY <1>1, JoinTestLeaves DEF AnyInv
  <2>2. Fit /\ TypeOK /\ AnyPc /\ AnyNode /\ AnyCurrent /\ AnyRing /\ Place = "join"
    BY <1>1, <2>1 DEF JoinTest, At, Fit, AnyInv, Sound, NoFault, Place, SwitchPc
  <2>3. threads = Main /\ current = Main /\ running = Main
    BY <2>1, <2>2, ConstantAssumption DEF JoinTest, At, AnyCurrent, TypeOK
  <2>4. Main \in InRing /\ InRing = {n \in Thread : node[n] = "live"}
    BY <2>2, <2>3, ConstantAssumption DEF AnyNode, InRing, Inserting, Thread
  <2>5. next[Main] # NULL
    BY <2>2, <2>4, ConstantAssumption DEF AnyRing, Thread
  <2>6. next[Main] = Main
    BY <2>1, <2>2, <2>3, <2>5, ConstantAssumption
       DEF JoinTest, OthersLeft, Goto, TypeOK, Thread
  <2>7. InRing = {Main}
    BY <2>2, <2>4, <2>6, AloneAnywhere
  <2>8. node[w] # "live"
    BY <2>4, <2>7, ConstantAssumption DEF Thread
  <2>9. pc[w] \notin {"exitjump"}
    BY <2>2, <2>3, ConstantAssumption DEF AnyPc, Thread
  <2> QED
    BY <2>2, <2>8, <2>9, ConstantAssumption DEF AnyNode, Thread
<1>2. AnyInv /\ [Next]_vars => [Leaves]_vars
  BY <1>1
<1> QED
  BY <1>2, InvarianceAnywhere, PTL DEF JoinWaits, Spec
=============================================================================

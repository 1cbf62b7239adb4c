------------------------------ MODULE DmThread ------------------------------
(***************************************************************************)
(* The coroutine scheduler of book/thread/SimpleThread/dmthread.c.         *)
(*                                                                         *)
(* One CPU runs one flow of control at a time: the application (Main) or   *)
(* the kernel function of a created thread (a Worker), each on its own     *)
(* stack.  Every flow has a thread_list node with the same name, and the   *)
(* nodes form the doubly linked ring that Skedule walks.  Skedule is       *)
(* called by a flow (thread_join, the end of start_thread) or by the       *)
(* periodic timer event, whose notification interrupts whatever flow runs  *)
(* at TPL_APPLICATION.  The lock Inschedule makes a tick that arrives      *)
(* inside Skedule return at once, so such a tick changes nothing and is    *)
(* not a step here.                                                        *)
(*                                                                         *)
(* The processor's jump buffers are abstracted to sig_context[n]: the flow *)
(* whose live continuation node n holds, NULL when SetJump never filled n  *)
(* or its flow has run on since.  A LongJump to NULL, a dereference of a   *)
(* null pointer and a write to a freed node leave the language: they set   *)
(* fault, and nothing is said of what follows.                             *)
(***************************************************************************)
EXTENDS Integers

CONSTANTS
  Worker,        \* the threads that create_thread may create
  Main,          \* the flow that calls create_thread and thread_join
  NULL,          \* the null pointer
  TickInCreate   \* may a timer tick land inside create_thread?

ASSUME ConstantAssumption ==
  /\ Main \notin Worker
  /\ NULL \notin Worker \union {Main}
  /\ TickInCreate \in BOOLEAN

Thread == Worker \union {Main}
Ptr    == Thread \union {NULL}

VARIABLES
  threads,       \* sys.threads, the head of the ring
  current,       \* sys.current
  unfreed,       \* sys.unfreed_stack, named by the thread whose stack it is
  next, prev,    \* the links of the thread_list nodes
  node,          \* heap state of each thread_list node
  stack,         \* heap state of each worker's stack
  dead,          \* status == STATUS_DEAD
  sig_context,   \* the continuation saved in each node
  insched,       \* Inschedule
  timer,         \* myEvent != 0
  gThreads,
  newt,          \* create_thread's local new_thread
  running,       \* the flow that has the CPU
  pc,            \* where each flow is
  ret,           \* where a parked flow goes on when Skedule returns to it
  byTick,        \* was a parked flow's Skedule a timer notification?
  tpl,           \* the current task priority level
  fault          \* "none", or how the program left defined behaviour

heapVars == <<next, prev, node, stack, dead>>
sysVars  == <<threads, current, unfreed>>
saveVars == <<sig_context, ret, byTick>>
cpuVars  == <<running, insched, tpl>>
miscVars == <<timer, gThreads, newt>>
vars == <<heapVars, sysVars, saveVars, cpuVars, miscVars, pc, fault>>

HeapState == {"none", "live", "freed"}

CreatePc == {"alloc", "ins1", "ins2", "ins3", "setcur", "start", "reset"}
MainPc   == {"idle", "join", "joinsked", "close"} \union CreatePc
WorkerPc == {"none", "entry", "run", "dec", "sked", "gone"}
SwitchPc == {"jump", "exitjump", "parked", "resume"}

Init ==
  /\ threads = NULL /\ current = NULL /\ unfreed = NULL
  /\ next = [n \in Thread |-> NULL]
  /\ prev = [n \in Thread |-> NULL]
  /\ node = [n \in Thread |-> "none"]
  /\ stack = [n \in Thread |-> "none"]
  /\ dead = [n \in Thread |-> FALSE]
  /\ sig_context = [n \in Thread |-> NULL]
  /\ insched = 0 /\ timer = FALSE /\ gThreads = 0 /\ newt = NULL
  /\ running = Main
  /\ pc = [n \in Thread |-> IF n = Main THEN "idle" ELSE "none"]
  /\ ret = [n \in Thread |-> "idle"]
  /\ byTick = [n \in Thread |-> FALSE]
  /\ tpl = "application" /\ fault = "none"

At(f, label) == fault = "none" /\ running = f /\ pc[f] = label
Goto(f, label) == pc' = [pc EXCEPT ![f] = label]

-----------------------------------------------------------------------------
(* create_thread and start_thread, called by Main *)

\* The timer is started before the first thread exists.
InitTimer ==
  /\ At(Main, "idle")
  /\ \E w \in Worker : node[w] = "none"
  /\ timer' = TRUE
  /\ Goto(Main, "alloc")
  /\ UNCHANGED <<heapVars, sysVars, saveVars, cpuVars, gThreads, newt, fault>>

\* _new_thread for the new thread and, the first time, for Main itself.
NewThread ==
  /\ At(Main, "alloc")
  /\ \E w \in Worker :
       LET new == {w} \union (IF threads = NULL THEN {Main} ELSE {}) IN
       /\ node[w] = "none"
       /\ newt' = w
       /\ node' = [n \in Thread |-> IF n \in new THEN "live" ELSE node[n]]
       /\ next' = [n \in Thread |-> IF n \in new THEN n ELSE next[n]]
       /\ prev' = [n \in Thread |-> IF n \in new THEN n ELSE prev[n]]
  /\ threads' = IF threads = NULL THEN Main ELSE threads
  /\ current' = IF threads = NULL THEN Main ELSE current
  /\ Goto(Main, "ins1")
  /\ UNCHANGED <<unfreed, stack, dead, saveVars, cpuVars, timer, gThreads, fault>>

\* Variant: a new thread goes right after the head.
InsertAfter_Head == threads

\* The new thread goes last, before the head of the ring.
InsertAfter == prev[threads]

\* _insert_thread(new_thread, sys.threads->prev), store by store.
InsertLinkNew ==
  /\ At(Main, "ins1")
  /\ prev' = [prev EXCEPT ![newt] = InsertAfter]
  /\ next' = [next EXCEPT ![newt] = next[InsertAfter]]
  /\ Goto(Main, "ins2")
  /\ UNCHANGED <<node, stack, dead, sysVars, saveVars, cpuVars, miscVars, fault>>

InsertLinkNext ==
  /\ At(Main, "ins2")
  /\ prev' = [prev EXCEPT ![next[newt]] = newt]
  /\ Goto(Main, "ins3")
  /\ UNCHANGED <<next, node, stack, dead, sysVars, saveVars, cpuVars, miscVars,
                 fault>>

\* newt->prev still is the argument prev, whose node a thread that ended
\* since then has freed.
InsertLinkPrev ==
  /\ At(Main, "ins3")
  /\ next' = [next EXCEPT ![prev[newt]] = newt]
  /\ fault' = IF node[prev[newt]] = "freed" THEN "freed_node" ELSE fault
  /\ Goto(Main, "setcur")
  /\ UNCHANGED <<prev, node, stack, dead, sysVars, saveVars, cpuVars, miscVars>>

SetCurrent ==
  /\ At(Main, "setcur")
  /\ current' = newt
  /\ Goto(Main, "start")
  /\ UNCHANGED <<heapVars, threads, unfreed, saveVars, cpuVars, miscVars, fault>>

\* The new stack, and a context that returns 1 from SetJump on it.
StartThread ==
  /\ At(Main, "start")
  /\ gThreads' = gThreads + 1
  /\ stack' = [stack EXCEPT ![newt] = "live"]
  /\ sig_context' = [sig_context EXCEPT ![newt] = newt]
  /\ pc' = [pc EXCEPT ![Main] = "reset", ![newt] = "entry"]
  /\ UNCHANGED <<next, prev, node, dead, sysVars, ret, byTick, cpuVars, timer,
                 newt, fault>>

\* Variant: sys.current stays the new thread.
CreatorNode_New == newt

\* The node create_thread takes for its caller's.
CreatorNode == threads

ResetCurrent ==
  /\ At(Main, "reset")
  /\ current' = CreatorNode
  /\ Goto(Main, "idle")
  /\ UNCHANGED <<heapVars, threads, unfreed, saveVars, cpuVars, miscVars, fault>>

-----------------------------------------------------------------------------
(* Skedule *)

\* Variant: the priorities are compared with <=.
GetNext_OrEqual(n) == next[next[n]]

\* getNext: every priority is 0, so it is always the next node.
GetNext(n) == next[n]

StackOf(n) == IF n = Main THEN NULL ELSE n

\* Variant: a dead thread's stack is freed together with its node.
FreeDeadStack_AtOnce ==
  stack' = [n \in Thread |-> IF dead[current] /\ n = current THEN "freed"
                             ELSE stack[n]]

\* Variant: remove_thread does not free the stack it is about to forget.
FreeDeadStack_NotOnRemove ==
  stack' = [n \in Thread |-> IF ~dead[current] /\ n = unfreed THEN "freed"
                             ELSE stack[n]]

\* free_dead_stack.
FreeDeadStack ==
  stack' = [n \in Thread |-> IF n = unfreed THEN "freed" ELSE stack[n]]

\* Variant: prev is left alone.
UnlinkPrev_Missing == prev

NewHead == IF current = threads THEN GetNext(current) ELSE threads
UnlinkNext == [next EXCEPT ![prev[current]] = next[current]]
UnlinkPrev == [prev EXCEPT ![next[current]] = prev[current]]

\* remove_thread and _remove_thread: the stack the dead thread still runs on
\* outlives it until the next Skedule.
RemoveThread ==
  /\ FreeDeadStack
  /\ unfreed' = StackOf(current)
  /\ next' = UnlinkNext
  /\ prev' = UnlinkPrev
  /\ node' = [node EXCEPT ![current] = "freed"]
  /\ threads' = NewHead
  /\ current' = GetNext(current)
  /\ UNCHANGED dead

\* A dead thread is removed and its flow abandoned; the TPL is left alone.
SkeduleDead(f, tick) ==
  /\ dead[current]
  /\ RemoveThread
  /\ Goto(f, "exitjump")
  /\ tpl' = IF tick THEN "callback" ELSE tpl
  /\ insched' = 1
  /\ UNCHANGED saveVars

\* The next node is the same one: return, and Inschedule stays 1.
SkeduleAlone(f, label) ==
  /\ ~dead[current]
  /\ GetNext(current) = current
  /\ FreeDeadStack
  /\ unfreed' = NULL
  /\ Goto(f, label)
  /\ insched' = 1
  /\ UNCHANGED <<saveVars, tpl, threads, current, next, prev, node, dead>>

\* Variant: SetJump fills the node that was picked.
SaveContext_InNext(f) == [sig_context EXCEPT ![GetNext(current)] = f]

SaveContext(f) == [sig_context EXCEPT ![current] = f]

\* SetJump into the old node, then RestoreTPL(TPL_APPLICATION).
SkeduleSwitch(f, label, tick) ==
  /\ ~dead[current]
  /\ GetNext(current) # current
  /\ FreeDeadStack
  /\ unfreed' = NULL
  /\ current' = GetNext(current)
  /\ sig_context' = SaveContext(f)
  /\ ret' = [ret EXCEPT ![f] = label]
  /\ byTick' = [byTick EXCEPT ![f] = tick]
  /\ tpl' = "application"
  /\ Goto(f, "jump")
  /\ insched' = 1
  /\ UNCHANGED <<threads, next, prev, node, dead>>

Skedule(f, label, tick) ==
  /\ insched = 0
  /\ \/ SkeduleDead(f, tick)
     \/ SkeduleAlone(f, label)
     \/ SkeduleSwitch(f, label, tick)
  /\ UNCHANGED <<running, miscVars, fault>>

\* LongJump(&sys.current->thread.sig_context, 1).
Jump ==
  LET f == running
      g == sig_context[current]
  IN
  /\ fault = "none"
  /\ pc[f] \in {"jump", "exitjump"}
  /\ IF g = NULL
     THEN /\ fault' = "bad_context"
          /\ UNCHANGED <<running, sig_context, pc>>
     ELSE /\ running' = g
          /\ sig_context' = [sig_context EXCEPT ![current] = NULL]
          /\ pc' = [pc EXCEPT
                      ![f] = IF pc[f] = "jump" THEN "parked" ELSE "gone",
                      ![g] = IF pc[g] = "entry" THEN "entry" ELSE "resume"]
          /\ UNCHANGED fault
  /\ UNCHANGED <<heapVars, sysVars, ret, byTick, insched, tpl, miscVars>>

\* Variant: the lock is not released.
Unlock_Missing == UNCHANGED insched

\* __sync_bool_compare_and_swap(&Inschedule, 1, 0).
Unlock == insched' = 0

\* SetJump returns 1 inside Skedule: unlock and return, from a notification
\* through the dispatcher, which restores the TPL of the flow it interrupted.
Resume(f) ==
  /\ At(f, "resume")
  /\ Unlock
  /\ tpl' = IF byTick[f] THEN "application" ELSE tpl
  /\ Goto(f, ret[f])
  /\ UNCHANGED <<heapVars, sysVars, saveVars, running, miscVars, fault>>

\* SetJump returns 1 inside start_thread: unlock and call the kernel.
Enter(w) ==
  /\ At(w, "entry")
  /\ Unlock
  /\ Goto(w, "run")
  /\ UNCHANGED <<heapVars, sysVars, saveVars, running, tpl, miscVars, fault>>

\* The periodic timer event calls Skedule at TPL_CALLBACK.
Tick ==
  /\ fault = "none"
  /\ timer
  /\ tpl = "application"
  /\ pc[running] \in CreatePc => TickInCreate
  /\ IF insched = 0 /\ current = NULL
     THEN /\ fault' = "null_current"
          /\ UNCHANGED <<heapVars, sysVars, saveVars, cpuVars, miscVars, pc>>
     ELSE Skedule(running, pc[running], TRUE)

-----------------------------------------------------------------------------
(* The end of a kernel, and thread_join *)

\* start_thread marks sys.current, which is meant to be the caller.
KernelReturn(w) ==
  /\ At(w, "run")
  /\ IF next[threads] # NULL
     THEN dead' = [dead EXCEPT ![current] = TRUE] /\ UNCHANGED fault
     ELSE fault' = "null_next" /\ UNCHANGED dead
  /\ Goto(w, "dec")
  /\ UNCHANGED <<next, prev, node, stack, sysVars, saveVars, cpuVars, miscVars>>

CountDown(w) ==
  /\ At(w, "dec")
  /\ gThreads' = gThreads - 1
  /\ Goto(w, "sked")
  /\ UNCHANGED <<heapVars, sysVars, saveVars, cpuVars, timer, newt, fault>>

\* Were Inschedule taken, Skedule would return and start_thread with it.
ExitSkedule(w) ==
  /\ At(w, "sked")
  /\ IF insched = 1
     THEN /\ fault' = "fell_off"
          /\ UNCHANGED <<heapVars, sysVars, saveVars, cpuVars, miscVars, pc>>
     ELSE Skedule(w, "sked", FALSE)

JoinCall ==
  /\ At(Main, "idle")
  /\ threads # NULL
  /\ Goto(Main, "join")
  /\ UNCHANGED <<heapVars, sysVars, saveVars, cpuVars, miscVars, fault>>

\* Variant: the loop ends when one other thread is left.
OthersLeft_ButOne == next[next[current]] # current

\* sys.current->next && sys.current->next != sys.current.
OthersLeft == next[current] # NULL /\ next[current] # current

JoinTest ==
  /\ At(Main, "join")
  /\ Goto(Main, IF OthersLeft THEN "joinsked" ELSE "close")
  /\ UNCHANGED <<heapVars, sysVars, saveVars, cpuVars, miscVars, fault>>

JoinSkedule ==
  /\ At(Main, "joinsked")
  /\ IF insched = 1
     THEN /\ Goto(Main, "join")
          /\ UNCHANGED <<heapVars, sysVars, saveVars, cpuVars, miscVars, fault>>
     ELSE Skedule(Main, "join", FALSE)

CloseTimer ==
  /\ At(Main, "close")
  /\ timer' = FALSE
  /\ Goto(Main, "idle")
  /\ UNCHANGED <<heapVars, sysVars, saveVars, cpuVars, gThreads, newt, fault>>

-----------------------------------------------------------------------------
CreateStep == \/ NewThread \/ InsertLinkNew \/ InsertLinkNext \/ InsertLinkPrev
              \/ SetCurrent \/ StartThread \/ ResetCurrent
JoinStep == JoinTest \/ JoinSkedule \/ CloseTimer
WorkerStep(w) == Enter(w) \/ KernelReturn(w) \/ CountDown(w) \/ ExitSkedule(w)

\* What the CPU executes next, once a call has been made.
CpuStep == CreateStep \/ JoinStep \/ Jump \/ (\E w \in Worker : WorkerStep(w))
           \/ (\E f \in Thread : Resume(f))

Next == InitTimer \/ JoinCall \/ CpuStep \/ Tick

Spec == Init /\ [][Next]_vars

\* The CPU executes instructions; the timer is periodic; and a flow that is
\* given the CPU again and again gets on with its code (ticks are 0.1s apart),
\* which for a worker includes that its kernel returns.
Fairness ==
  /\ WF_vars(CpuStep)
  /\ WF_vars(Tick)
  /\ SF_vars(JoinStep)
  /\ \A w \in Worker : SF_vars(WorkerStep(w))

FairSpec == Spec /\ Fairness

-----------------------------------------------------------------------------
(* Properties *)

TypeOK ==
  /\ threads \in {NULL, Main}
  /\ current \in Ptr
  /\ unfreed \in Worker \union {NULL}
  /\ next \in [Thread -> Ptr]
  /\ prev \in [Thread -> Ptr]
  /\ node \in [Thread -> HeapState]
  /\ stack \in [Thread -> HeapState]
  /\ dead \in [Thread -> BOOLEAN]
  /\ sig_context \in [Thread -> Ptr]
  /\ insched \in {0, 1}
  /\ timer \in BOOLEAN
  /\ gThreads \in Int
  /\ newt \in Worker \union {NULL}
  /\ running \in Thread
  /\ pc \in [Thread -> MainPc \union WorkerPc \union SwitchPc]
  /\ ret \in [Thread -> MainPc \union WorkerPc]
  /\ byTick \in [Thread -> BOOLEAN]
  /\ tpl \in {"application", "callback"}
  /\ fault \in {"none", "null_current", "null_next", "freed_node",
                "bad_context", "fell_off"}

\* The nodes that belong to the ring: all that are allocated, but the new one
\* until create_thread has linked it.
Linked ==
  {n \in Thread : node[n] = "live"}
    \ (IF pc[Main] \in {"ins1", "ins2", "ins3"} THEN {newt} ELSE {})

\* A flow is inside Skedule, or has just been jumped to, and holds Inschedule.
Switching == pc[running] \in {"jump", "exitjump", "resume", "entry"}

\* Inschedule was taken and nobody is left to release it.
Leaked == insched = 1 /\ ~Switching

\* The stack of a flow that runs, or can be jumped to, is never freed: a dead
\* thread leaves its own stack to the Skedule after its last one
\* (remove_thread, free_dead_stack).
StackSafe ==
  \A w \in Worker : pc[w] \notin {"none", "gone"} => stack[w] = "live"

\* The stack of a removed thread is freed, or still is the one
\* sys.unfreed_stack remembers: at most one dead stack is ever kept.
NoStackLeak ==
  \A w \in Worker : pc[w] = "gone" => stack[w] = "freed" \/ unfreed = w

\* A worker never executes its kernel with Inschedule taken: the lock is
\* released on every way into a worker, so a tick can preempt it and its own
\* last Skedule gets in.
WorkerUnlocked == running # Main /\ ~Switching => insched = 0

\* Whenever a tick or a call may enter Skedule, sys.current is the node of the
\* flow that runs and every other node of the ring holds its own thread's
\* context, so that whatever getNext picks can be jumped to.
SchedulerReady ==
  insched = 0 /\ pc[Main] \notin CreatePc /\ current # NULL =>
    /\ current = running
    /\ \A n \in Linked \ {running} : sig_context[n] = n

\* No null pointer, freed node or stale context is ever used.
NoFault == fault = "none"

\* thread_join leaves its loop only when every thread created so far has
\* returned from its kernel and left the ring.
JoinWaits ==
  [][pc[Main] = "join" /\ pc'[Main] = "close" =>
       \A w \in Worker : pc[w] \in {"none", "gone"}]_vars

\* thread_join returns, unless Inschedule was lost before it was called.
JoinReturns == (pc[Main] = "join" /\ ~Leaked) ~> pc[Main] = "idle"

\* A thread that waits for the CPU gets it, unless Inschedule was lost before
\* or the flow that runs masks the timer's notification.
NoStarvation ==
  \A w \in Worker :
    (pc[w] \in {"entry", "parked"} /\ ~Leaked /\ tpl = "application")
      ~> running = w

\* README.md:66: what raised the TPL restores it.  The dispatcher raises it for
\* a notification, so neither the application nor a kernel runs above
\* TPL_APPLICATION.
TplPaired ==
  fault = "none" /\ pc[running] \in {"run", "idle"} => tpl = "application"
=============================================================================

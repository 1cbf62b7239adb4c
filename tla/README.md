# UEFI programming: a verification project

TLA+ models, TLC runs and TLAPS proofs for the C programs of the book
*UEFI Principles and Programming* (`src/book`). The repository is a collection of
UEFI drivers, protocols, libraries and examples; each part below is an
independent image or library, built with EDK2, that runs on the boot processor
under UEFI boot services. Concurrency comes from timer and completion events,
from the coroutine library's preemption, from hardware, and from the protocols'
asynchronous tokens.

## The system's parts

| Part | State it keeps | Operations | What is hard | What makes it correct |
|---|---|---|---|---|
| **SimpleThread** `thread/SimpleThread` | `sys` (ring head, current, unfreed stack), the doubly linked `thread_list` ring, a jump buffer per node, `Inschedule`, the timer `myEvent`, `gThreads` | `create_thread`, `thread_join`, `Skedule` (called, or as the timer's notification) | a tick may come between any two statements; a thread frees itself in two stages; flows suspended inside `Skedule` | the ring is a circle, the current node is the running flow, contexts are live, stacks outlive their users, join waits for all and returns, nobody starves |
| **AC'97 codec access** `audio/ac97.c` | none of its own; the codec's registers | reset and power-up, volume | hardware that is slow or dead, a shared semaphore, sticky error bits | what a call reports agrees with the codec; every call returns |
| **AC'97 playback** `audio/accdriver.c`, `testac97.c` | the 32 buffer descriptors, the bus master's registers | `Play`, `playafile`, `playSample` | DMA reads what the driver writes | each frame once and in order, never freed memory |
| **AC'97 driver binding** `audio/accdriver.c` | the private page, event and protocol per controller | `Supported`, `Start`, `Stop` | each service may fail half-way | all or nothing; what was started can be stopped |
| **TCP sockets** `Network/socket.c` | `Socketfd[32]`, per socket a TCP4 child, four tokens and events | `Socket`, `Connect`, `Send`, `Recv`, `Close` | tokens complete later than the call that started them | a call reports its own operation; no completion into freed memory; slots are not lost |
| **Video decoder** `ffmpeg/ffdecoder` | a private context per instance and static packet state | open, query, size, next frame, close | partial failures; state shared between instances | each resource freed once; a frame is reported when there is one |
| **Video player** `ffmpeg/ffplayer`, `fplayer` | frame timer, window | the play loop | timer against decoding time | |
| **GUI library** `GUIPkg` | static brick and tab lists, active brick, windows, hot keys | construction, `Show`, destruction, event dispatch | circular lists shared by windows; handlers that change them | lists stay circles of live bricks; focus is on a live brick |
| **C++ start-up** `CppPkg`, `GcppPkg/Library` | the `atexit` table | constructors, `atexit`, exit | growth of the table, order | every handler runs once, last first |
| **Asynchronous I/O examples** `FileIo`, `disk` | tokens and buffers | read and write with tokens | completion after the buffer is gone | a token's memory outlives it |
| **Event, timer, mouse, multiprocessor, system table examples** | a few locals | one function each | the order of events; a processor still running | |
| Fonts, build files, libstdc++ headers, ffmpeg's own code | data, build descriptions, vendored code | | | not modelled |

How they interact: all call the boot services (events, timers, memory, protocol
handles), which are external here and modelled where they are used. The audio
test program drives the driver's protocol; the player drives the decoder and
draws through the GUI library; `TestSimpleThread.c` and any program that locates
the thread protocol drive `SimpleThread`. Nothing else is shared.

## Modules

| Module | Models | Built on |
|---|---|---|
| `DmThread` | `dmthread.c`: the scheduler | |
| `RoundRobin` | the promise of the thread library: a cycle of turns | |
| `MCDmThread` | the walk over the ring, and the refinement mapping to `RoundRobin` | `DmThread`, `RoundRobin` |
| `DmThreadInv`, `DmThreadProofs` | the two inductive invariants, part by part, their proofs, and the proof of the refinement | `MCDmThread`, `Circles` |
| `AC97Codec` | `ac97.c` under `AC97Reset` and `AC97Volume` | |
| `AC97Driver` | the driver binding of `accdriver.c`, composed with the codec calls it makes and allows | `AC97Codec` |
| `MCAC97Codec`, `AC97Proofs` | bounds for TLC; proofs about both | `AC97Driver` |
| `AC97Play` | `AC97Play` with `playafile` and `playSample` | |
| `MCAC97Play`, `PlayProofs` | bounds for TLC; proofs | `AC97Play` |
| `Socket` | `socket.c` with the TCP4 child under it | |
| `MCSocket`, `SocketProofs` | bounds for TLC; proofs | `Socket` |
| `FFDecoder` | `ffdecoder.c`: instances, libav objects, `GetNextFrame` | |
| `FFPlayer` | `fplayer.cpp` and other programs, composed with the decoder | `FFDecoder` |
| `MCFFPlayer`, `FFProofs` | videos and bounds for TLC; proofs | `FFPlayer` |
| `Desktop` | the promise of the window library: windows that are sets of bricks | |
| `UGui` | `UGui.h` and `UGui.cpp`, and that they implement `Desktop` | `Desktop` |
| `MCUGui`, `UGuiProofs` | bounds for TLC; proofs | `UGui`, `Circles` |
| `Circles` | lemmas about circular linked lists, for the scheduler's ring and the windows' lists | |
| `CppCrt`, `CppCrtProofs` | `crt0data.cpp`: the table of `atexit`, and its proofs | |

An operator `X_Something` in front of `X` is a variant of `X`: the mistake a
property is meant to catch. `PROJECT.json` names, for every property, the
variant that must break it. No specification uses a variant.

### DmThread

The variables are the C program's: `threads`, `current` and `unfreed` are the
fields of `sys`; `next`, `prev`, `dead`, `sig_context` and `stack` are the fields
of a `thread_list` node; `insched` is `Inschedule`; `timer` says whether `myEvent`
is set. Nodes are named by the thread they are for, and no name is used twice,
so a write to a freed node is visible (`node`, `stack`: none, live, freed).
`pc` says where each flow of control is, `running` which one has the CPU.

* `create_thread` is seven steps: `InitTimer`, `NewThread`, the three stores of
  `_insert_thread` that matter, `SetCurrent`, `StartThread`, `ResetCurrent`.
  Every gap between two of them is a place where a tick may land, if the
  constant `TickInCreate` allows it.
* `Skedule` from its entry to `RestoreTPL` is one action with three outcomes
  (`SkeduleDead`, `SkeduleAlone`, `SkeduleSwitch`), `Jump` is its `LongJump`, and
  `Resume` or `Enter` the code after the `SetJump` it returns from. That a tick
  cannot interfere between them is not assumed: `Inschedule` is taken, and a
  tick that finds it so returns at line 119 having changed nothing, which is a
  stuttering step.
* `Tick` is the timer's notification: `Skedule` at `TPL_CALLBACK` on the stack of
  whatever flow runs at `TPL_APPLICATION`.
* The end of a kernel is three steps (`KernelReturn`, `CountDown`, `ExitSkedule`)
  and so is each turn of `thread_join`'s loop (`JoinTest`, `JoinSkedule`,
  `CloseTimer`).
* A jump buffer is the name of the flow whose live continuation it holds.
  Filling it from a second flow, or running on after it was taken, makes it
  useless (`NULL`), and a jump to that is a fault.

Undefined behaviour ends the run: `fault` names what was done. What is assumed:
allocations succeed; only the application (`Main`) calls `create_thread` and
`thread_join`; `SimpleThread.c`'s wrappers add nothing. All priorities are 0
(`_new_thread`), so `getNext` is the next node. The contents of stacks are not
modelled; `start_thread` copies its frame to the new one with care that only a
model of the processor could check.

`TickInCreate = FALSE` is the assumption that `create_thread` is over before the
first tick after its start: the timer's period is 0.1 s. It is needed: the timer
is started (lines 223-225) before `sys.current` is set (227-230), and a tick in
between dereferences a null pointer. What holds without the assumption is
checked without it (`dm_ticks_anywhere`) and proved without it.

`RoundRobin` knows nothing of pointers: a cycle, whose head has the turn. `Create`
puts a new thread last when Main has the turn, `Turn` rotates, `Finish` removes
the head, `Return` needs Main to be alone. `TakesTurns` checks that `DmThread`
under the mapping `Ring` (what following `next` from `sys.current` finds)
implements it.

### AC97Codec

One step is one access to a register. `holder` is the truth behind the CAS bit;
the link frees it some time after the access (`AccessDone`), another master may
take it (`OtherAcquires`), the codec becomes ready and powered when it likes or
never (`CodecComesUp`). The driver's locals `ulCount` and `wait` are its two
loops' counters. An access that does not hold the semaphore, or that reaches a
codec that is not ready, may be lost, and a read may return anything; any read
may fail to complete, which sets the sticky RCS bit. `EFI_STATUS` is unsigned, so
`NT_SUCCESS` is true of everything, and the model has it so: the driver goes on
after each timeout. `PciIo` reads and writes do not fail themselves. The last
four variables are history: what the call under way has met, for the properties
only.

### AC97Driver

`Start` is one step per boot service, each of which may fail, then the call of
`AC97Reset`, whose steps are those of `AC97Codec`; `Stop` is one step. Programs
call the codec only while the Audio protocol is installed and nobody else is in
the driver. `Supported` leaves everything as it was and is a stutter.
`AllOrNothing` relates the two modules: whatever failed, the controller is bound
or free, and no codec access happens while it is free. The model keeps what the
code does wrong where `AllOrNothing` is silent: a failed `AllocatePages` ends in a
crash, an event is left behind when the installation fails (`staleEvents`), and
`Stop` never succeeds.

### AC97Play

The driver clears the run bit, fills the descriptors one by one, marks the last,
sets base and last index and the run bit, each a step. Between any two steps of
driver and player the controller fetches the descriptor at `civ`
(`FetchDescriptor`) or is done with its block (`PlayBlock`); it stops at once when
the run bit is cleared, and halts after the last valid index. A frame is its
position in the buffer, so `heard`, the frames played since the last start, shows
order, gaps and repetitions.

`StartDma` sets the run bit (`CR_RPBM`, `accdriver.c:471`, `ichreg.h:97`) and
leaves the controller's index alone, because only `CR_RR` (`ichreg.h:98`) would
reset it and nothing writes that. So `Resume` goes on where the controller was
paused, in the middle of the block that it had fetched before, or with the
descriptor after the one it halted at; if it halted at what is the last valid
index again, it may stay halted. `fromFirst` is history: this start began by fetching
descriptor 0, as the first one does. What the player gets to hear when a start does
not is left open by the properties, and is wrong: see "Seen on the way".

The player is `playafile` (a chunk, then a wait for the 16 second timer or a key,
then the next chunk, then the file is freed) or a program that plays one buffer it
keeps, at any time after the last call returned. Nothing is said of how long
playing takes, so a tick may cut a chunk short.

### Socket

A call is the steps `pc` names, with the network stack's own steps between any
two of them: it takes a token's data, completes the token, or loses the
connection. `SocketWait` does not wait (it passes an event of type
`EVT_NOTIFY_SIGNAL` to `WaitForEvent`, which refuses it), so a call returns while
its token is still in the stack (`queue`). A Send is known by its number;
`txData` is what the one `m_TransData` of the socket describes, and `peer` what the
other side got. `earned` and `overlapped` are history.

Like `TestNetwork`, the program goes on with whatever `Socket` returned (`fds`). A
`Socket` that fails returns an `EFI_STATUS` cut to an `int` (`socket.c:110,115,124`),
one of `ErrorFds`: negative in a 32-bit build, and in a 64-bit build, where the
cut loses the error bit, a small number that looks like a descriptor and may be
another socket's. The runs have one of each. If the struct cannot be allocated,
the number of a slot that stays free is returned. `opened` are the descriptors that
stand for a whole socket; a use of a null pointer, or of a slot outside the
table, is a `fault`.

### FFDecoder and FFPlayer

An instance is a `FFDECODER_PRIVATE_DATA`; `res` says which of its pointers are not
`NULL`, and `alive` counts the libav objects there are, so that a lost or
doubly released one shows. All calls are one step but `QueryFrame`, which takes
one step per packet read (`ReadPacket`), per packet decoded (`DecodePacket`) and
for the end of the file (`FlushCodec`), because `GetNextFrame`'s static packet
is shared and survives each of them. A decode may fail, use part of its packet,
or hold frames back up to the codec's delay. Allocations that the code does not
check can be made to fail by `NullAlloc`; the runs let only the checked one
fail.

Callers may call anything on any instance at any time. Three calls then use a
pointer that is `NULL` or freed; they are in the model as `Fault`, which ends
everything and remembers the call (`op`, `cur`), and `FaultsOnly` says that there
is no fourth. An open over what a failed resize left does not release that;
`forgotten` counts how often, up to the bound `MaxForgotten`.

`FFPlayer` is the player's event loop: timer events that query and draw a
frame, and the keys that pause, fill the screen and quit. `Wait` is given the key,
the mouse and the timer in this order (`UEvent.h:49,57`) and takes the first that
is ready, so `Timer` has a turn only when no `input` waits. The player ignores the
status of `OpenVideo2` and crashes if the video did not open (`ui = "crashed"`). It
never closes its video, so the next player opens another instance; other
programs use the protocol between two players.

### UGui and Desktop

The static variables `BrickList`, `TabList`, `CurWindow` and `ActiveBrick` are kept
beside the heads in each `Window`, and the lists are `next` functions that the
actions change as the constructors, `Show` and the destructor do. `Run` is a
loop of steps with a call of the program's handler between any two of them, in
which the program may do all it may do outside, except call `Run`. The program
keeps to two rules, which the header of the module states; without them windows
take each other's bricks.

It may delete any window at any time, the current one included, as both programs
of the repository do when their main function returns (`testgui.cpp:146,173`,
`fplayer.cpp:218,236`). `~Window` (`UGui.h:178-188`) clears no static variable, so
`DeleteWindow` leaves them as they are: they dangle until the next `Show` or `new`
sets them. Blocks of memory are used again after a delete, so a dangling pointer
can come to point at another object, and that is what it then means; a walk, a
key or a focus that meets a deleted object is a crash (`pc = "crashed"`).
`InUseDeleted` says that the program deleted the window in front, the one whose
lists are in use, or that of the brick with the focus (`orphaned`), and has put
nothing in its place. `NoDangling` allows dangling pointers and crashes then, and
at no other time.

`Desktop` has no pointers: windows hold sets of bricks, one is in front, one
brick at most has the focus; `Close` deletes any window and what it holds, and
leaves the front and the focus as they are. `KeepsWindows` checks that `UGui`
implements it under a mapping that follows the lists.

### CppCrt

`atexit` (with its growth by `Growth` entries, which may fail), the constructors
and `main` that call it, and `_g_finit`, which calls the handlers last first while
they register others. A handler is the number of its registration.

## Runs

Eight runs pass and four show a finding. The types of `DmThread`, `AC97Codec`,
`Socket` and `CppCrt` are proved and no run checks them again; those of
`AC97Play`, `FFDecoder` and `UGui` are both checked and proved.

| Run | Question | Bounds |
|---|---|---|
| `dm_turns` | Do ticks between any two statements outside `create_thread` ever break the ring, the current pointer, a context, or join; are turns taken in order; does join return and every thread get the CPU? | 3 workers |
| `dm_ticks_anywhere` | What of stack lifetime and locking survives ticks inside `create_thread`? | 3 workers |
| `dm_tpl` | finding 1 | 2 workers |
| `ac97_codec` | Is the driver bound or free after each failure of `Start`; do results agree with the hardware; does every call return? | 2 semaphore polls, 2 power polls, 2-bit registers |
| `ac97_play` | If the controller began with descriptor 0, is each frame that was programmed played once, in order; is the list left alone while it plays? | 3 descriptors of 2 frames, files of 1 to 12 frames, buffers of 1 to 9 |
| `ac97_play_freed` | finding 2 | one file of 7 frames |
| `sock_calls` | Does a completion ever reach freed memory; is a slot lost; does another call take a descriptor away; is a success reported that did not happen; does data arrive twice? | 2 descriptors, 3 structs, 2 Sends, a failed `Socket` that returns -2 or 1 |
| `sock_sent_twice` | finding 3 | the same |
| `ff_player` | Is anything lost; which calls fault; is anything written out of bounds; are frames complete; does a video play to its end? | the driver's instance and one more, 2 videos, screen of 4 by 3, `MaxForgotten` 1 |
| `ff_unfinished` | finding 4 | the same |
| `gui` | Do static pointers dangle, or does a walk crash, before the window in use is deleted; are the lists those of the window shown; is there one focus; does `UGui` implement `Desktop`? | 3 windows, 3 bricks, 2 hot keys |
| `crt` | Does the table keep what was promised; do the handlers run once, last first? | growth of 2, 8 handlers |

Why the bounds are enough to be interesting.

* `dm_`: with three workers and Main the ring has a head, a tail and two middle
  nodes, so every removal (head excluded: the head is Main, which never ends)
  meets distinct neighbours, two threads can have died with a stack still unfreed
  while a third is being inserted, and one can be parked by a tick while another
  is parked by its own call.
* `ac97_codec`: a first poll that fails and a second that succeeds, or fails too,
  are the cases of the loops. In a register of two bits the volume wraps in one
  step, and one volume asked for does not fit it. About 1.4 million states.
* `ac97_play`: three descriptors give a first, a middle and a last block, each full
  or short, and a list that is too short; chunks of five frames use all three.
* `sock_`: a slot can be used again with another struct, and the table can be full;
  two Sends can overlap or not. The structs are symmetric, and no liveness is
  checked. A failed `Socket` returns a number outside the table or that of its
  second slot. About 3.6 million states.
* `ff_`: a video with a packet of another stream between two of its own and a
  codec that holds one frame back, and one of a single packet, so that packets of
  one instance can be met by the other; the screen is larger than both and of
  another aspect ratio. An open over what a failed resize left happens once. About
  670 000 states.
* `gui`: a window with none, one and several bricks, beside two others, all of
  whose memory is used again. Windows and bricks are symmetric, and no liveness is
  checked. About 740 000 states.
* `crt`: the table grows four times, and memory may run out at each.

A run that never deadlocks is checked for deadlock. `CHECK_DEADLOCK FALSE` is
said where the program really ends: in the `dm_` runs when all threads have been
created and joined, or at a fault; in the `sock_` runs when memory is used up and
all sockets are closed, or at a fault; in the `ff_` runs when the player has crashed on a video
that did not open, or a call has faulted; in `gui` when the program has crashed on a
window it deleted; in `crt` when the program is over.

### Fairness

* `dm_turns`: `WF(CpuStep)`, the CPU executes; `WF(Tick)`, the timer is periodic;
  `SF(JoinStep)` and `SF(WorkerStep(w))`, a flow that gets the CPU again and again
  gets on with its own code. The last needs strong fairness because ticks take
  the CPU away; it is justified by the period, 0.1 s, against a few
  instructions, and it includes that kernels return. Application calls
  (`InitTimer`, `JoinCall`) have none.
* `ac97_codec`: `WF(Driver)`, the driver's code runs. None for the hardware: that
  is the point of `CallReturns`.
* `ac97_play`: `WF(Dma)` and `WF(AC97PlayStep)`. None for the player.
* `ff_player`: `WF(Decoder)` and `WF(ShowFrame)`, the code of a query and of the
  drawing runs; `WF(Turn)`, the event loop turns when a key, a movement of the mouse
  or, while a video plays, the periodic timer lets it. None for `Timer` itself: keys
  and mouse are taken first and may starve it, which is why `PlaysToEnd` excludes
  input that never ceases. None for what is pressed and for other programs.

## Findings

1. `dm_tpl`: the tick that buries a dead thread never restores the TPL; the
   kernel or application it jumps to runs unpreempted until its next own switch.
2. `ac97_play_freed`: a key frees the file while the DMA plays it.
3. `sock_sent_twice`: a Send that starts while the stack has the last one's token
   changes what that one sends.
4. `ff_unfinished`: `QueryFrame` returns a frame after a decode that finished none,
   because the braces under `if(frameFinished)` are lost.

## Seen on the way, without a run

* `dmthread.c`: the timer runs before `sys.current` exists (223-230). A tick that
  finds nobody else returns at 130-131 and keeps `Inschedule`, so the next
  session hangs in `thread_join`; `JoinReturns` and `NoStarvation` exclude the state
  this leaves (`Leaked`), and `NoStarvation` the masking of finding 1: they say what
  the scheduler does until one of these happens. Failed allocations are not
  noticed (165).
* `ac97.c`: the `NT_SUCCESS` of line 51 is true of every `EFI_STATUS`, so a codec that
  never answered is reset (467) and a register is written after the semaphore
  timed out (322). `AC97Volume` ignores a failed read, so "change by Increase"
  becomes "set to Increase" (`accdriver.c:504`). A change that leaves the range of the
  register is cut to its bits (505), so a decrease at the lowest volume makes it
  the highest, contrary to `accdriver.c:479-483` and `audio.h:91-95`; `VolumeExact`
  speaks of volumes that fit. The polls of `PrimaryCodecReady`
  take about 60 ms where the comment promises a second (382).
* `accdriver.c`: a start leaves the controller's index where it was (471). A chunk of
  16 seconds at 44.1 kHz takes 22 of the 32 descriptors, so when `playafile`'s
  second chunk starts, the controller stands at 21 or goes on with 22: it plays
  descriptors that are not the new chunk's, or none, before it comes round to the first of the new ones.
  `HeardInOrder` and `PlaysProgrammed` speak of starts that begin with descriptor 0.
  A buffer of less than one frame damages `Private->PciIo` (464).
  `AC97Play` cuts a buffer above 32 * 32767 frames and returns success; `playSample`
  passes a number of frames where bytes are expected, so a quarter of the sample
  is played. `Start` crashes when `AllocatePages` fails (293); the status of
  `CreateEvent` is overwritten; `Stop` takes the driver binding for the protocol,
  so the driver can never be stopped (372-391). `PlayEndEventNoify` waits for a
  status bit that the descriptors never ask for.
* `socket.c`: in a 64-bit build a failed `Socket` returns a number from 0 to 35
  (110, 115, 124), which may be the descriptor of another socket; calls with it use
  that socket or a null pointer. `Connect` always returns what `WaitForEvent` refuses with; the close
  token's event is never closed; a `Socket` that fails keeps its slot; the
  receive buffer can be overwritten as the send data can. `TestNetwork` sends
  right after `Connect`, which the stack refuses while it is connecting.
* `ffdecoder.c`: the three calls that `FaultsOnly` names. `SetFrameSize` without a
  video dereferences `NULL` (506) where the header says `EFI_NO_MEDIA`
  (`ffdecoder.h:273`); `OpenVideo` on an open instance of `OpenVideo2` frees the
  context and goes on using it (246-247); `QueryFrame` after a `SetFrameSize` that
  failed has no frame to scale into. After such a `SetFrameSize` the next open
  leaks what is left of the video (245); `NothingLost` counts exactly that as
  forgotten. A failed `OpenVideo2` frees a pointer into the middle of its context; a
  packet that is used in part is decoded from its start again.
* `fplayer.cpp`: the status of `OpenVideo2` is ignored (213-214); a video larger than
  the screen underflows its position (125-127); videos are never closed.
* `UGui.h`: `~Window` leaves `BrickList`, `TabList`, `CurWindow` and `ActiveBrick`
  pointing at what it deleted (178-188). Both programs delete the current window
  last and make no other, so nothing happens; a program that goes on draws or
  walks deleted bricks.
* `UGui.cpp`: `GetMouse` may return `NULL`, which is dereferenced (334); nothing sets
  `IsChanged`, so after the first full drawing bricks are drawn only by
  `ReDrawScreen`; a key that shows another window also goes to the new window's
  handler; `Running` is never set again, so `Run` works once; keys and a moving
  mouse starve the timer.
* `crt0data.cpp`: a failed `new` leaves `max_atexit` raised, and the next registration
  writes past the table (81): `TableHolds` speaks of the time until then.
  Handlers registered during the exit get 0 but never run, contrary to the
  comment at 69-74.
* `TestFileIo.c:379` frees a buffer whose token is not complete, and
  `disk/test.cpp:189` leaves a token on a stack frame that is gone; neither function
  has a caller. `process.c:63` lets a second processor call the firmware, which is
  not reentrant.

## What is proved

For every value of the constants, with the assumptions that are named. The rows
with a property state one that a run checks on its small instance. Every
invariant, every safety action property and both refinements that the passing
runs check are theorems.

### DmThreadProofs

For every set of workers, however many, with `ConstantAssumption`: the names are
distinct. The first six need nothing else: they hold wherever ticks land, also
between two stores of `create_thread`. The others are about runs without such
ticks (`TickInCreate = FALSE`); with them TLC finds `NoFault`, `SchedulerReady`,
`RingIsCircle` and `TakesTurns` violated.

| Theorem | States | Ticks in `create_thread` |
|---|---|---|
| `TypeCorrect` | `Spec => []TypeOK` | yes |
| `StacksAreSafe` | `Spec => []StackSafe` | yes |
| `DeadStacksAreFreed` | `Spec => []NoStackLeak` | yes |
| `WorkersAreUnlocked` | `Spec => []WorkerUnlocked` | yes |
| `JoinIsSound` | `Spec => JoinWaits` | yes |
| `InvarianceAnywhere` | `Spec => []AnyInv` | yes |
| `NeverFaults` | `Spec => []NoFault` | no |
| `AlwaysReady` | `Spec => []SchedulerReady` | no |
| `RingStaysCircle` | `Spec => []RingIsCircle` | no |
| `TurnsAreTaken` | `Spec => TakesTurns`: `DmThread` implements `RoundRobin` | no |
| `Invariance`, `TurnInvariance` | `Spec => []IndInv`, `Spec => []TurnInv` | no |

None of the properties is inductive. `IndInv` (in `DmThreadInv`) adds:

* `PcInv`: who can be where. Only the running flow is outside a parked, entry or
  ended state; Main alone is in `create_thread`, and there it runs.
* `NewInv`, `HeapInv`: a node is live exactly while its thread can still run, a
  stack from `start_thread` until the Skedule after the thread's last, and the
  unfreed stack is that of a thread that is gone.
* `ContextInv`: the context of each node that can be picked is its own flow's,
  which is parked or not yet entered; a flow between picking and jumping has
  saved its own.
* `LockInv`: `Inschedule` is taken while a flow is switching, and free whenever a
  worker runs.
* `CurrentInv`: `sys.current` is the running flow's node, except inside
  `create_thread` and between picking and jumping.
* `RingInv`: `next` and `prev` are inverse to each other on the linked nodes,
  which contain Main, the head.
* `RankInv`: there are ranks that grow along `next`, except into the head.
  This is what makes the ring ONE circle: two disjoint circles satisfy
  everything else. `AloneMeansAll` uses it, with the
  library's well-foundedness of the naturals, to show that when the head is
  its own successor it is the only node.

The proof has one lemma per action (`...Inv`), and below it one step per part
of `IndInv`; `RingFrame` and the like carry the parts an action cannot disturb.
`IndInv` was checked with TLC on two workers, ranks bounded by the number of
nodes, before it was proved.

`RingIsCircle` and the mapping `Ring` speak of sequences, `IndInv` of single nodes.
Between them stands `TurnInv`: the nodes are finitely many (however many workers
there may be, each node was allocated by a step), the thread that `create_thread`
is about to release is last, and whoever stops the timer is alone. From both
invariants the ranks make the ring a `Circle` (`NextIsCircle`), and so the walk of
as many steps as there are nodes is a sequence of all of them (`Round`). Each
action then has a second lemma (`...Turn`) that says which step of `RoundRobin` it
is: `SkeduleSwitch` is `Turn` (`FollowsTurn`: starting one node later rotates the
sequence), `SkeduleDead` is `Finish` (`FollowsTail`), `ResetCurrent`, where the new
thread takes its place, is `Create` (`FollowsFront`), and `CloseTimer` is
`Return`. All others leave the sequence as it is.

With ticks anywhere `IndInv` is false: while Main is preempted in the middle of
`_insert_thread`, threads run, and end, on a ring that is being changed. `AnyInv`
says what is left. At a fault it says only `TypeOK`, `StackInv` and `LockInv`;
before one, also:

* `Place` stands for `pc[Main]`: where Main is in its own code, though a tick may
  have parked it there. `InRing` is the set of nodes that are linked, without
  the one being inserted.
* `AnyRing` keeps of `RingInv` what half an insertion leaves true: all links are
  inverse but `prev` of the head. The predecessor that the new node was given may
  end before `_insert_thread` stores to it (`Doomed`); that store is then a fault.
* `AnyCurrent` and `AnyContext` know one more bad state. A tick after
  `sys.current` was set to the new thread puts Main's context into the wrong
  node (`Lost`), and the jump that follows is a fault.
* `AnyPc`, `AnyNew`, `AnyNode` and `AnyRank` are their counterparts in `IndInv`.

The lemmas end in `Any`, one per action again; `CallersNode` and `FreesGone` say
that `Skedule` works for the node of its caller and frees only a stack that
nobody will run on. `JoinIsSound` follows: at the test Main is not inserting, so
the ring is whole and ranks make it one (`AloneAnywhere`). `AnyInv` was checked
with TLC on three workers (169 659 states) before it was proved.

### AC97Proofs

For any number of polls, any width of the registers, any volumes, over the
specification `DSpec` of codec and binding:

| Theorem | States |
|---|---|
| `CodecTypeCorrect` | `DSpec => []TypeOK` |
| `CodecNoStaleTimeout` | `DSpec => []NoStaleTimeout` |
| `CodecResetSound` | `DSpec => []ResetSound` |
| `CodecVolumeExact` | `DSpec => []VolumeExact` |
| `BindingAllOrNothing` | `DSpec => []AllOrNothing` |

`CodecInv` adds to these what makes them inductive: whose access is under way
(`AccessInv`); that the driver holds the semaphore when it accesses the codec
unless it gave up, and that the sticky bit is set for one step only
(`HardwareInv`); and, while the call met no timeout, that what was read is still
true (`PowerInv`) and what is about to be written is the volume asked for
(`VolumeInv`). `BindingInv` says what `Start` has got by each of its steps; the two
invariants are proved apart, since the codec's steps change nothing of the
binding.

### PlayProofs

For any number of descriptors up to 255 (the index registers are bytes), any
block and chunk sizes, any files and buffers of at least one frame (`Assumed`; with
an empty buffer `MarkLast` writes in front of the list, `accdriver.c:464`):

| Theorem | States |
|---|---|
| `PlayTypeCorrect` | `Spec => []TypeOK` |
| `PlayHeardInOrder` | `Spec => []HeardInOrder` |
| `PlayWithinFile` | `Spec => []WithinFile` |
| `PlayDescriptorsStable` | `Spec => DescriptorsStable` |

`Inv` adds that the controller stands still while the list is written (`StopInv`),
which is all that `DescriptorsStable` needs; that the first `i` descriptors, and
while it plays all up to `lvi`, are those of the last call (`ListInv`); that, if it
began with descriptor 0, exactly the blocks before `civ`, or up to it once halted,
have been heard, and the block being played is that descriptor's (`HeardInv`);
and that what a call asks for lies within the file (`FileInv`). The step that
matters is `PlayBlock` (`PlayBlockInv`): a whole block is appended where the last
one ended, and only the last may be short. `StartDma` is the other: of a start
that finds the controller anywhere else but about to fetch descriptor 0, nothing
is concluded.

### SocketProofs

For any descriptors, structs and number of Sends, and whatever integers a failed
`Socket` returns, descriptors of other sockets included:

| Theorem | States |
|---|---|
| `SocketTypeCorrect` | `Spec => []TypeOK` |
| `SocketTokensLive` | `Spec => []TokensLive` |
| `SocketTableOwns` | `Spec => []TableOwns` |
| `SocketDescriptorsWork` | `Spec => []DescriptorsWork` |
| `SocketSuccessIsEarned` | `Spec => []SuccessIsEarned` |
| `SocketSentOnce` | `Spec => []SentOnceUnlessOverlapped` |

`Inv` adds the order in which a struct, its child, its events and the tokens in
the stack come and go (`HeapInv`), that `Socketfd` and the live structs correspond
one to one (`TableInv`), that what `Socket` opened stays a
whole socket's and a fault needs a descriptor that it did not open (`FdsInv`), and
for the last theorem that `m_TransData` is never older than anything sent
(`OrderInv`): a Send that is fresh is later than all that the peer has.

### FFProofs

For any number of instances, any videos, sizes and screens, and callers that call
anything, under `Assumed`: only the allocation that the code checks may fail. Over
the specification `PSpec` of player, decoder and other programs:

| Theorem | States |
|---|---|
| `DecoderTypeCorrect` | `PSpec => []TypeOK` |
| `DecoderNothingLost` | `PSpec => []NothingLost` |
| `DecoderFaultsOnly` | `PSpec => []FaultsOnly` |
| `DecoderScalerFits` | `PSpec => []ScalerFits` |
| `DecoderOwnPacket` | `PSpec => []OwnPacket` |
| `DecoderEndMeansAll` | `PSpec => []EndMeansAll` |
| `PlayerCopyFits` | `PSpec => []CopyFits`, also under `OnScreen` |

`Inv` adds that an instance has all of a video, nothing of it, or what a failed
resize left (`WholeInv`), and what the static variables hold within and between
queries (`PacketInv`). `NothingLost` compares counts with cardinalities; the lemma
`CountOne` says how a count follows when the fields of one instance change, and
`CountKept` that a step which accounts for its change loses nothing.

`FrameInv` keeps the books of the frames: as long as nothing went wrong with an
instance, the video packets read so far are the frames shown, plus those the
codec holds back, plus the packet that is about to be decoded (`StreamInv`). A
query ends with `EFI_END_OF_MEDIA` when no packet is left and the codec holds
nothing, and then all were shown. The sum is kept by `Flush` and by decoding,
whichever instance the static packet belongs to, because of `OwnPacket`; a packet
with bytes left (`BytesInv`) and a flush (`FlushInv`) are the cases that need more.

`ScreenInv` says that the player's `Width` and `Height` are those of its decoder's
buffer whenever a frame may be drawn, and are between 1 and the screen's. It
needs `OnScreen`: no video is larger than the screen or empty. The code assumes so
too and underflows otherwise (`fplayer.cpp:125-127`). `FullSizeFits` is the
arithmetic of the F key: enlarging by whole-number quotients never goes past the
screen nor makes a side 0, by which the next press would divide.

### UGuiProofs and Circles

For any number of windows, bricks and hot keys (`UGuiAssumption`: the bricks are
finitely many, and `NULL` is none of them):

| Theorem | States |
|---|---|
| `GuiInvariance` | `Spec => []Inv` |
| `GuiTypeCorrect` | `Spec => []TypeOK` |
| `GuiNoDangling` | `Spec => []NoDangling` |
| `GuiListsShown` | `Spec => []ListsShown` |
| `GuiOneFocus` | `Spec => []OneFocus` |
| `GuiKeepsWindows` | `Spec => KeepsWindows`: `UGui` implements `Desktop` |

The properties speak of what walks along the lists meet; `Inv` does not. It says
that each window's list is one circle through its bricks, and its tab list one
circle through its stops (`ListInv`), that the static heads lead to those of
the window listed last until that is deleted, and then to nothing that lives
(`HeadInv`), who belongs to whom (`WindowInv`), and that `Run` crashes only in a
window that was deleted (`LoopInv`). The program may delete any window. Its freed
bricks, whose memory the next brick may get, do no harm to the lists, since no
brick is made before `Show` or a new `Window` has set the heads anew. A set is
one `Circle` of `next` if `next` stays in it and in no proper part of it: a
property of sets, which an insertion keeps (`CircleInsert`) and a deletion of the
whole list cannot disturb elsewhere (`CircleKept`). That a walk of as many steps
as there are bricks meets exactly the circle is shown once (`CircleWalk`,
`LeadsVisits`), by an induction over the numbers up to a bound that uses a set
(`UpTo`), since induction over a predicate is out of the prover's reach. The
walks of the model are recursive functions; that they exist is shown the same
way (`PathSteps`, and `WalkFollows` for the ring).

For the refinement, `ContentOfLists` replaces the walks of the mapping by the
sets of bricks that a window owns, and one lemma per action says which step of
`Desktop` it is (`NewBrickIsAdd`, `DeleteWindowIsClose`, `OnTabIsTab` and so on; a crash is a
stutter, `CrashIsStutter`).

### CppCrtProofs

For every `Growth` above 1 and any number of handlers:

| Theorem | States |
|---|---|
| `CrtTypeCorrect` | `Spec => []TypeOK` |
| `CrtTableHolds` | `Spec => []TableHolds` |
| `CrtLastFirst` | `Spec => []LastFirst` |

`Inv` adds that `max_atexit` is the length of the table until memory runs out, and
that the table is full from then on (`TableSize`), that the promised handlers are
its first entries (`Entries`), and how far the exit has come (`Progress`).

### Only model-checked

Liveness (`JoinReturns`, `NoStarvation`, `CallReturns`, `PlaysProgrammed`,
`PlaysToEnd`) is out of the prover's reach, and so stays with TLC; the properties
of the four runs that show a finding do not hold.

## What is left

* `PlayEndEventNoify` with a program that waits for it, as part of `AC97Play`.
* `DmThread` with workers that create threads, which goes wrong at
  `dmthread.c:234`.
* Nested calls of `Run` and disabled windows in `UGui`.

## Not modelled

* The copies of GNU libstdc++'s headers in `GcppPkg/Include` and the sound data of
  `audio/sample.h`: with other vendored and generated code and data they are some
  150 000 of the repository's 162 000 lines of source, so a share of all lines
  says little; the book's own code is about 9 500 lines, most of it short
  sequential examples.
* The examples of events, timers, system tables, file systems and devices: each
  function makes a few calls one after the other, prints the results and keeps
  nothing. The asynchronous ones have no caller or wait for their one request.
* The multiprocessor example: it starts one processor and waits for it; what goes
  wrong does so inside the firmware.
* Fonts, glyph data and drawing: data and pixels. The text fields of `UGuiExt.h`
  are not in the library's build.
* The walks over the linker's lists of constructors (`_minitterm`, `GcppCrt.cpp`).
* `wav.h`, the C players, `Play2` and `AC97SetRate`: parsing, the player again
  without a window, and functions that nothing calls.
* libav, the TCP4 driver and the boot services, whose sources are not here, are
  external: modelled by what the code relies on.
* The build files hold no behaviour.

-------------------------------- MODULE UGui --------------------------------
(***************************************************************************)
(* The window library of book/GUIPkg (Include/UGui.h, Library/UGui.cpp):   *)
(* the lists of bricks and of tab stops, the focus, the hot keys and the   *)
(* event loop.                                                             *)
(*                                                                         *)
(* A brick is put into the list of whatever window the static variables    *)
(* BrickList, TabList and CurWindow describe when it is made.  The program *)
(* has control before Run and in the handlers that Run calls.  Drawing is  *)
(* modelled by the walk along the list that it makes.                      *)
(*                                                                         *)
(* The program keeps to two rules, which the library leaves to it:         *)
(*   - after Activate it makes no brick and no tab stop before the next    *)
(*     Show or the next new Window, for the lists are still another        *)
(*     window's;                                                           *)
(*   - it gives the focus to bricks of the current window only, and makes  *)
(*     a brick a tab stop once.                                            *)
(* It may delete any window at any time, as ~Window leaves it to: the      *)
(* static variables then point at what was deleted, whose memory may be    *)
(* given to the next brick, and whoever uses it as it is crashes.          *)
(***************************************************************************)
EXTENDS Integers, FiniteSets

CONSTANTS
  Windows, Bricks,   \* the memory for windows and for bricks
  NULL,
  MAX_HOT_KEYS       \* 16 in the code

ASSUME UGuiAssumption ==
  /\ IsFiniteSet(Bricks) /\ NULL \notin Windows \union Bricks
  /\ MAX_HOT_KEYS \in Nat \ {0}

VARIABLES
  windows, bricks,                \* the blocks of memory in use
  NextinBrickList, NextinTabList,
  focused,                        \* IsFocused() of a brick
  mBrickList, mTabList,           \* the list heads of a window
  BrickList, TabList, ActiveBrick, CurWindow,
  IsRedrawFullScreen, Running,
  HotKeyNum,
  pc,        \* "program" outside Run, "callback" in a handler of the program,
             \* "crashed", or the place in Run
  back,      \* where Run goes on after the handler
  i,         \* ExeHotKey's loop variable
  \* what the program knows
  owner,     \* the window it made a brick for
  listed,    \* the last window that it made or showed
  orphaned   \* it deleted the window of the brick with the focus, and no other brick has got
             \* the focus since

lists == <<NextinBrickList, NextinTabList, mBrickList, mTabList>>
heads == <<BrickList, TabList, CurWindow>>
focusVars == <<focused, ActiveBrick, orphaned>>
loopVars == <<Running, HotKeyNum, pc, back, i>>
programVars == <<owner, listed>>
vars == <<windows, bricks, lists, heads, focusVars, IsRedrawFullScreen, loopVars,
          programVars>>

Init ==
  /\ windows = {} /\ bricks = {}
  /\ NextinBrickList = [b \in Bricks |-> NULL]
  /\ NextinTabList = [b \in Bricks |-> NULL]
  /\ focused = [b \in Bricks |-> FALSE]
  /\ mBrickList = [w \in Windows |-> NULL] /\ mTabList = [w \in Windows |-> NULL]
  /\ BrickList = NULL /\ TabList = NULL /\ ActiveBrick = NULL /\ CurWindow = NULL
  /\ IsRedrawFullScreen = FALSE /\ Running = TRUE /\ HotKeyNum = 0
  /\ pc = "program" /\ back = "draw" /\ i = 0
  /\ owner = [b \in Bricks |-> NULL] /\ listed = NULL /\ orphaned = FALSE

-----------------------------------------------------------------------------
(* Walks along a list *)

\* The brick that a walk from b meets after n steps.
Path(next, b) ==
  LET at[n \in 0..Cardinality(Bricks)] ==
        IF n = 0 THEN b ELSE IF at[n-1] = NULL THEN NULL ELSE next[at[n-1]]
  IN  at

Visited(next, b) ==
  {Path(next, b)[n] : n \in 0..Cardinality(Bricks)} \ {NULL}

\* do ... while(O != ListHeader) from b ends, and meets live bricks only.
WalkEnds(next, b) ==
  \E n \in 1..Cardinality(Bricks) :
    Path(next, b)[n] = b /\ \A k \in 0..(n-1) : Path(next, b)[k] \in bricks

-----------------------------------------------------------------------------
(* The operations that a program calls *)

InProgram == pc \in {"program", "callback"}

ActiveLive == ActiveBrick \in bricks \union {NULL}

Crash ==
  /\ pc' = "crashed"
  /\ UNCHANGED <<windows, bricks, lists, heads, focusVars, IsRedrawFullScreen,
                 Running, HotKeyNum, back, i, programVars>>

\* new Window: Brick(bool) empties the static lists; ActiveBrick stays.
NewWindow(w) ==
  /\ InProgram /\ w \notin windows
  /\ windows' = windows \union {w}
  /\ mBrickList' = [mBrickList EXCEPT ![w] = NULL]
  /\ mTabList' = [mTabList EXCEPT ![w] = NULL]
  /\ BrickList' = NULL /\ TabList' = NULL /\ CurWindow' = w
  /\ listed' = w
  /\ UNCHANGED <<bricks, NextinBrickList, NextinTabList, focusVars,
                 IsRedrawFullScreen, loopVars, owner>>

\* x behind the brick that the static variable list points at.
Inserted(next, list, x) ==
  IF list = NULL THEN [next EXCEPT ![x] = x]
  ELSE [next EXCEPT ![x] = next[list], ![list] = x]

\* Only the first brick becomes the window's list head.
HeadSet(head, list, x) ==
  IF list = NULL /\ CurWindow # NULL THEN [head EXCEPT ![CurWindow] = x] ELSE head

MayAdd == InProgram /\ CurWindow # NULL /\ listed = CurWindow

\* What AddtoBrickList writes to.
ListLive == IF BrickList = NULL THEN CurWindow \in windows ELSE BrickList \in bricks

\* new Brick: AddtoBrickList.
NewBrick(b) ==
  /\ MayAdd /\ b \notin bricks
  /\ IF ListLive
     THEN /\ bricks' = bricks \union {b}
          /\ NextinBrickList' = Inserted(NextinBrickList, BrickList, b)
          /\ mBrickList' = HeadSet(mBrickList, BrickList, b)
          /\ BrickList' = b
          /\ NextinTabList' = [NextinTabList EXCEPT ![b] = NULL]
          /\ focused' = [focused EXCEPT ![b] = FALSE]
          /\ owner' = [owner EXCEPT ![b] = CurWindow]
          /\ UNCHANGED <<windows, mTabList, TabList, CurWindow, ActiveBrick, orphaned,
                         IsRedrawFullScreen, loopVars, listed>>
     ELSE Crash

AddtoTabList(b) ==
  /\ MayAdd /\ b \in bricks /\ owner[b] = CurWindow
  /\ NextinTabList[b] = NULL
  /\ NextinTabList' = Inserted(NextinTabList, TabList, b)
  /\ mTabList' = HeadSet(mTabList, TabList, b)
  /\ TabList' = b
  /\ UNCHANGED <<windows, bricks, NextinBrickList, mBrickList, BrickList,
                 CurWindow, focusVars, IsRedrawFullScreen, loopVars, programVars>>

SetFocus_SelfLoses(b) ==
  /\ focused' = [c \in Bricks |-> (c = b \/ focused[c]) /\ c # ActiveBrick]
  /\ ActiveBrick' = b

\* b->SetFocus(): the old active brick loses the focus, unless it is b.
SetFocus(b) ==
  /\ focused' = [c \in Bricks |-> c = b \/ (focused[c] /\ c # ActiveBrick)]
  /\ ActiveBrick' = b

Focus(b) ==
  /\ InProgram /\ b \in bricks /\ owner[b] = CurWindow
  /\ IF ActiveLive
     THEN /\ SetFocus(b) /\ orphaned' = FALSE
          /\ UNCHANGED <<windows, bricks, lists, heads, IsRedrawFullScreen, loopVars,
                         programVars>>
     ELSE Crash

Activate(w) ==
  /\ InProgram /\ w \in windows
  /\ CurWindow' = w
  /\ UNCHANGED <<windows, bricks, lists, BrickList, TabList, focusVars,
                 IsRedrawFullScreen, loopVars, owner, listed>>

\* Variants: the tab stops are forgotten; a window without bricks changes
\* nothing.
ShowLists_NoTabs(w) == BrickList' = mBrickList[w] /\ TabList' = TabList
ShowLists_OnlyFull(w) ==
  IF mBrickList[w] = NULL THEN UNCHANGED <<BrickList, TabList>>
  ELSE BrickList' = mBrickList[w] /\ TabList' = mTabList[w]

\* The static variables become those of w.
ShowLists(w) == BrickList' = mBrickList[w] /\ TabList' = mTabList[w]

ShowFocus(w) ==
  /\ ActiveBrick' = mTabList[w]
  /\ focused' = [c \in Bricks |->
       c = mTabList[w] \/ (focused[c] /\ c # ActiveBrick)]

\* Showing a disabled window changes nothing.
Show(w) ==
  /\ InProgram /\ w \in windows
  /\ IF ActiveLive
     THEN /\ ShowFocus(w) /\ orphaned' = FALSE
          /\ CurWindow' = w /\ ShowLists(w)
          /\ IsRedrawFullScreen' = TRUE
          /\ listed' = w
          /\ UNCHANGED <<windows, bricks, lists, loopVars, owner>>
     ELSE Crash

Deleted_Stops(w) == Visited(NextinTabList, mTabList[w])

\* The bricks that ~Window deletes.
Deleted(w) == Visited(NextinBrickList, mBrickList[w])

\* The static variables stay as they are.
DeleteWindow(w) ==
  /\ InProgram /\ w \in windows
  /\ windows' = windows \ {w}
  /\ IF mBrickList[w] = NULL \/ WalkEnds(NextinBrickList, mBrickList[w])
     THEN /\ bricks' = bricks \ Deleted(w)
          /\ mBrickList' = [mBrickList EXCEPT ![w] = NULL]
          /\ mTabList' = [mTabList EXCEPT ![w] = NULL]
          /\ NextinBrickList' = [b \in Bricks |->
               IF b \in Deleted(w) THEN NULL ELSE NextinBrickList[b]]
          /\ NextinTabList' = [b \in Bricks |->
               IF b \in Deleted(w) THEN NULL ELSE NextinTabList[b]]
          /\ owner' = [b \in Bricks |-> IF b \in Deleted(w) THEN NULL ELSE owner[b]]
          /\ focused' = [b \in Bricks |-> b \notin Deleted(w) /\ focused[b]]
          /\ pc' = pc
     ELSE /\ pc' = "crashed"
          /\ UNCHANGED <<bricks, lists, owner, focused>>
  /\ orphaned' = (orphaned \/ (ActiveBrick # NULL /\ owner[ActiveBrick] = w))
  /\ UNCHANGED <<heads, ActiveBrick, IsRedrawFullScreen, Running, HotKeyNum, back,
                 i, listed>>

QuitGui ==
  /\ InProgram
  /\ Running' = FALSE
  /\ UNCHANGED <<windows, bricks, lists, heads, focusVars, IsRedrawFullScreen,
                 HotKeyNum, pc, back, i, programVars>>

TableHasRoom_OffByOne == HotKeyNum <= MAX_HOT_KEYS

TableHasRoom == HotKeyNum < MAX_HOT_KEYS

RegisterHotKey ==
  /\ InProgram /\ TableHasRoom
  /\ HotKeyNum' = HotKeyNum + 1
  /\ UNCHANGED <<windows, bricks, lists, heads, focusVars, IsRedrawFullScreen,
                 Running, pc, back, i, programVars>>

-----------------------------------------------------------------------------
(* The event loop *)

Goto(p) ==
  /\ pc' = p
  /\ UNCHANGED <<windows, bricks, lists, heads, Running, HotKeyNum, programVars>>

\* A handler of the program is called, and Run goes on at p after it.
Call(p) == Goto("callback") /\ back' = p

Return ==
  /\ pc = "callback" /\ Goto(back)
  /\ UNCHANGED <<back, i, focusVars, IsRedrawFullScreen>>

\* A program that runs the loop has a window.
Run ==
  /\ pc = "program" /\ CurWindow # NULL
  /\ IsRedrawFullScreen' = TRUE /\ Goto("draw")
  /\ UNCHANGED <<back, i, focusVars>>

LoopEnds == ~Running

Leave ==
  /\ pc = "draw" /\ LoopEnds
  /\ Goto("program")
  /\ UNCHANGED <<back, i, focusVars, IsRedrawFullScreen>>

\* Window::DrawTo walks one list or the other.
DrawTo ==
  /\ pc = "draw" /\ ~LoopEnds
  /\ IF /\ CurWindow \in windows
        /\ IF IsRedrawFullScreen
           THEN BrickList # NULL => WalkEnds(NextinBrickList, BrickList)
           ELSE TabList # NULL => WalkEnds(NextinTabList, TabList)
     THEN Goto("wait") /\ IsRedrawFullScreen' = FALSE
     ELSE Goto("crashed") /\ UNCHANGED IsRedrawFullScreen
  /\ UNCHANGED <<back, i, focusVars>>

\* HandleTimer has no handler to call: nothing sets one.
Timer ==
  /\ pc = "wait" /\ Goto("handler")
  /\ UNCHANGED <<back, i, focusVars, IsRedrawFullScreen>>

\* The first tab stop under the mouse is clicked; there may be none.
DispatchMouseMessage ==
  /\ pc = "wait"
  /\ IF TabList # NULL /\ ~WalkEnds(NextinTabList, TabList)
     THEN Goto("crashed") /\ UNCHANGED back
     ELSE \/ TabList # NULL /\ Call("handler")
          \/ Goto("handler") /\ UNCHANGED back
  /\ UNCHANGED <<i, focusVars, IsRedrawFullScreen>>

\* OnExtKey, OnEnter or OnKey of the active brick.
KeyToBrick ==
  /\ pc = "wait"
  /\ IF ActiveBrick = NULL THEN Goto("handler") /\ UNCHANGED back
     ELSE IF ActiveBrick \in bricks THEN Call("handler")
     ELSE Goto("crashed") /\ UNCHANGED back
  /\ UNCHANGED <<i, focusVars, IsRedrawFullScreen>>

\* The brick that OnTab gives the focus to.
TabTarget ==
  IF NextinTabList[ActiveBrick] # NULL THEN NextinTabList[ActiveBrick] ELSE TabList

OnTab ==
  /\ pc = "wait" /\ ActiveBrick # NULL
  /\ IF ActiveLive /\ TabTarget \in bricks \union {NULL}
     THEN /\ IF TabTarget = NULL THEN UNCHANGED focusVars
             ELSE SetFocus(TabTarget) /\ orphaned' = FALSE
          /\ Goto("handler")
     ELSE Goto("crashed") /\ UNCHANGED focusVars
  /\ UNCHANGED <<back, i, IsRedrawFullScreen>>

\* A hot key: its handlers are called one after the other, those included
\* that the handlers register.
ExeHotKey ==
  /\ \/ pc = "wait" /\ HotKeyNum > 0 /\ i' = 1 /\ Call("hotkey")
     \/ pc = "hotkey" /\ i < HotKeyNum /\ i' = i + 1 /\ Call("hotkey")
     \/ pc = "hotkey" /\ i >= HotKeyNum /\ i' = 0 /\ Goto("handler") /\ back' = back
  /\ UNCHANGED <<focusVars, IsRedrawFullScreen>>

\* The event also goes to the window that is the current one by now.
EventHandler ==
  /\ pc = "handler"
  /\ IF CurWindow \in windows THEN Call("draw")
     ELSE Goto("crashed") /\ UNCHANGED back
  /\ UNCHANGED <<i, focusVars, IsRedrawFullScreen>>

-----------------------------------------------------------------------------
Program ==
  \/ \E w \in Windows : NewWindow(w) \/ Activate(w) \/ Show(w) \/ DeleteWindow(w)
  \/ \E b \in Bricks : NewBrick(b) \/ AddtoTabList(b) \/ Focus(b)
  \/ QuitGui \/ RegisterHotKey \/ Run

Event == Timer \/ DispatchMouseMessage \/ KeyToBrick \/ OnTab
Loop == Leave \/ DrawTo \/ EventHandler

Next == Program \/ Return \/ Event \/ ExeHotKey \/ Loop

Spec == Init /\ [][Next]_vars

-----------------------------------------------------------------------------
(* Properties *)

\* Every variable has its type, and the hot keys fit their table.
TypeOK ==
  /\ windows \subseteq Windows /\ bricks \subseteq Bricks
  /\ NextinBrickList \in [Bricks -> Bricks \union {NULL}]
  /\ NextinTabList \in [Bricks -> Bricks \union {NULL}]
  /\ focused \in [Bricks -> BOOLEAN]
  /\ mBrickList \in [Windows -> Bricks \union {NULL}]
  /\ mTabList \in [Windows -> Bricks \union {NULL}]
  /\ {BrickList, TabList, ActiveBrick} \subseteq Bricks \union {NULL}
  /\ {CurWindow, listed} \subseteq Windows \union {NULL}
  /\ {IsRedrawFullScreen, Running, orphaned} \subseteq BOOLEAN
  /\ HotKeyNum \in 0..MAX_HOT_KEYS /\ i \in 0..MAX_HOT_KEYS
  /\ pc \in {"program", "callback", "draw", "wait", "hotkey", "handler", "crashed"}
  /\ back \in {"hotkey", "handler", "draw"}
  /\ owner \in [Bricks -> Windows \union {NULL}]

\* The program has deleted the window in front, the one whose lists are in use,
\* or that of the brick with the focus, and put no other in its place.
InUseDeleted ==
  CurWindow \notin windows \union {NULL} \/ listed \notin windows \union {NULL} \/ orphaned

\* The static variables outlive every window, and ~Window clears none of them.
\* Whatever windows are made, activated, shown and deleted in whatever handlers,
\* each points at a live object unless the program deleted the very window that
\* it was set for, and until it did, nothing crashes: no walk of Run or ~Window
\* (UGui.cpp:241-249 and 301-308, UGui.h:182-186) meets a deleted brick or fails
\* to come round.
NoDangling ==
  /\ pc = "crashed" => InUseDeleted
  /\ listed \in windows => {BrickList, TabList} \subseteq bricks \union {NULL}
  /\ ~orphaned => ActiveLive

BricksOf(w) == {b \in bricks : owner[b] = w}

\* What a full redraw draws, and what the mouse and the Tab key find, are all
\* the bricks and all the tab stops of the window made or shown last, though
\* windows may be built in turns (UGui.cpp:195-226, UGui.h:171-172), as long as
\* it is not deleted.
ListsShown ==
  listed \in windows =>
    /\ Visited(NextinBrickList, BrickList) = BricksOf(listed)
    /\ Visited(NextinTabList, TabList) =
         {b \in BricksOf(listed) : NextinTabList[b] # NULL}

\* No brick but the active one looks focused, across all windows, also those
\* that are not shown (UGui.h:59-63 and 168-175), and the active one does, unless
\* it only has the memory of one that was deleted with the focus.
OneFocus ==
  \A b \in bricks : /\ focused[b] => ActiveBrick = b
                    /\ ActiveBrick = b /\ ~orphaned => focused[b]

\* The list heads of a window lead to its bricks and its stops; a deleted one
\* holds what it has left behind.
Content == [w \in Windows |->
  IF w \in windows THEN Visited(NextinBrickList, mBrickList[w]) ELSE BricksOf(w)]
Stops == [w \in Windows |->
  IF w \in windows THEN Visited(NextinTabList, mTabList[w]) ELSE {}]

D == INSTANCE Desktop WITH open <- windows, content <- Content, stops <- Stops,
       front <- CurWindow, focus <- ActiveBrick

\* The lists implement windows that hold sets of bricks: no operation loses a
\* brick or moves it to another window, closing a window deletes its bricks and
\* no others, and Tab moves the focus among the stops of one window.
KeepsWindows == D!Spec
=============================================================================

----------------------------- MODULE UGuiProofs -----------------------------
(***************************************************************************)
(* Proofs about UGui: for any number of windows and bricks, every list is  *)
(* one circle through all the bricks, or all the stops, of its window, the *)
(* static list heads are those of the window listed last until that is     *)
(* deleted, and so the lists implement the sets of Desktop.                *)
(***************************************************************************)
EXTENDS UGui, Circles

StopsOf(w) == {b \in BricksOf(w) : NextinTabList[b] # NULL}

\* The list with this head is one circle through S.
Leads(next, head, S) ==
  /\ Circle(next, S)
  /\ IF S = {} THEN head = NULL ELSE head \in S

ListInv ==
  \A w \in windows :
    /\ Leads(NextinBrickList, mBrickList[w], BricksOf(w))
    /\ Leads(NextinTabList, mTabList[w], StopsOf(w))

\* What the static variables point at is all of its window or, when that is
\* deleted, nothing that lives: no brick can be made before they are set anew.
HeadInv ==
  /\ listed = NULL => BrickList = NULL /\ TabList = NULL
  /\ listed # NULL => CurWindow # NULL
  /\ IF listed \in windows
     THEN /\ Leads(NextinBrickList, BrickList, BricksOf(listed))
          /\ Leads(NextinTabList, TabList, StopsOf(listed))
     ELSE BrickList \notin bricks /\ TabList \notin bricks

WindowInv ==
  /\ \A b \in bricks : owner[b] \in windows
  /\ ~orphaned => ActiveLive

LoopInv ==
  /\ pc = "crashed" => InUseDeleted
  /\ pc \notin {"program", "crashed"} => CurWindow # NULL

Inv == TypeOK /\ ListInv /\ HeadInv /\ WindowInv /\ LoopInv /\ OneFocus

-----------------------------------------------------------------------------
(* Walks *)

\* The recursive function of Path exists, so Path satisfies its equation.
LEMMA PathSteps ==
  ASSUME NEW next, NEW b
  PROVE  /\ Path(next, b)[0] = b
         /\ \A n \in 0..(Cardinality(Bricks) - 1) :
              Path(next, b)[n + 1] =
                IF Path(next, b)[n] = NULL THEN NULL ELSE next[Path(next, b)[n]]
<1> DEFINE N == Cardinality(Bricks)
           Is(g, n) ==
             g = [k \in 0..n |-> IF k = 0 THEN b
                                 ELSE IF g[k-1] = NULL THEN NULL ELSE next[g[k-1]]]
           T == {n \in 0..N : \E g : Is(g, n)}
<1>1. N \in Nat
  BY UGuiAssumption, FS_CardinalityType
<1>2. 0 \in T
  <2> DEFINE g == [k \in 0..0 |-> b]
  <2>1. Is(g, 0)
    OBVIOUS
  <2>2. 0 \in 0..N
    BY <1>1
  <2> HIDE DEF g
  <2> QED
    BY <2>1, <2>2
<1>3. ASSUME NEW n \in 0..(N - 1), n \in T PROVE n + 1 \in T
  <2>1. PICK g : Is(g, n)
    BY <1>3
  <2> DEFINE h == [k \in 0..(n + 1) |->
               IF k = n + 1 THEN IF g[n] = NULL THEN NULL ELSE next[g[n]] ELSE g[k]]
  <2>2. ASSUME NEW k \in 0..(n + 1)
        PROVE  h[k] = IF k = 0 THEN b
                      ELSE IF h[k-1] = NULL THEN NULL ELSE next[h[k-1]]
    <3>1. n \in Nat
      BY <1>1
    <3>2. CASE k = 0
      BY <2>1, <3>1, <3>2
    <3>3. CASE k = n + 1
      BY <3>1, <3>3
    <3>4. CASE k # 0 /\ k # n + 1
      <4>1. k \in 0..n /\ k - 1 \in 0..(n + 1) /\ k - 1 # n + 1
        BY <3>1, <3>4
      <4>2. h[k] = g[k] /\ h[k - 1] = g[k - 1]
        BY <3>4, <4>1
      <4>3. g[k] = IF g[k-1] = NULL THEN NULL ELSE next[g[k-1]]
        <5> HIDE DEF h
        <5> QED
          BY <2>1, <3>4, <4>1
      <4> HIDE DEF h
      <4> QED
        BY <3>4, <4>2, <4>3
    <3> QED
      BY <3>2, <3>3, <3>4
  <2>3. Is(h, n + 1)
    BY <2>2
  <2>4. n + 1 \in 0..N
    BY <1>1
  <2> HIDE DEF h
  <2> QED
    BY <2>3, <2>4
<1>4. N \in T
  <2> HIDE DEF T, N
  <2>1. 0..N \subseteq T
    BY <1>1, <1>2, <1>3, UpTo
  <2> QED
    BY <1>1, <2>1
<1>5. PICK g : Is(g, N)
  BY <1>4
<1> DEFINE p == Path(next, b)
<1>6. Is(p, N)
  BY <1>5 DEF Path
<1> HIDE DEF p
<1>7. p[0] = b
  BY <1>1, <1>6
<1>8. ASSUME NEW n \in 0..(N - 1)
      PROVE  p[n + 1] = IF p[n] = NULL THEN NULL ELSE next[p[n]]
  <2>1. n + 1 \in 0..N /\ n + 1 # 0 /\ n + 1 - 1 = n
    BY <1>1
  <2>2. \A k \in 0..N :
          p[k] = IF k = 0 THEN b ELSE IF p[k-1] = NULL THEN NULL ELSE next[p[k-1]]
    BY <1>6
  <2> HIDE DEF N
  <2> QED
    BY <2>1, <2>2
<1> QED
  BY <1>7, <1>8 DEF p

\* A walk from nothing meets nothing.
LEMMA VisitedOfNone == ASSUME NEW next PROVE Visited(next, NULL) = {}
<1> DEFINE N == Cardinality(Bricks)
           p == Path(next, NULL)
           T == {n \in 0..N : p[n] = NULL}
<1>1. N \in Nat
  BY UGuiAssumption, FS_CardinalityType
<1>2. p[0] = NULL /\ \A n \in 0..(N - 1) : p[n] = NULL => p[n + 1] = NULL
  BY PathSteps
<1> HIDE DEF p, N
<1>3. 0 \in T
  BY <1>1, <1>2
<1>4. \A n \in 0..(N - 1) : n \in T => n + 1 \in T
  BY <1>1, <1>2
<1>5. 0..N \subseteq T
  <2> HIDE DEF T
  <2> QED
    BY <1>1, <1>3, <1>4, UpTo
<1> QED
  BY <1>5 DEF Visited, p, N

\* The walk from the head of a list meets the whole list and comes round.
LEMMA LeadsVisits ==
  ASSUME NEW next, NEW head, NEW S \in SUBSET Bricks, Leads(next, head, S)
  PROVE  /\ Visited(next, head) = S
         /\ head # NULL /\ S \subseteq bricks => WalkEnds(next, head)
<1>1. CASE S = {}
  BY <1>1, VisitedOfNone DEF Leads
<1>2. CASE S # {}
  <2> DEFINE N == Cardinality(Bricks)
             at == Path(next, head)
  <2>1. N \in Nat /\ IsFiniteSet(S) /\ Cardinality(S) <= N
    BY UGuiAssumption, FS_CardinalityType, FS_Subset
  <2>2. head \in S /\ Circle(next, S) /\ NULL \notin S
    BY <1>2, UGuiAssumption DEF Leads
  <2>3. at[0] \in S /\ at[0] = head
    BY <2>2, PathSteps
  <2>4. \A n \in 0..(N - 1) : at[n] \in S => at[n + 1] = next[at[n]]
    BY <2>2, PathSteps
  <2> HIDE DEF at, N
  <2>5. (\A n \in 0..N : at[n] \in S) /\ \A x \in S : \E n \in 1..N : at[n] = x
    BY <2>1, <2>2, <2>3, <2>4, CircleWalk
  <2>6. Visited(next, head) = S
    <3>1. {at[n] : n \in 0..N} \ {NULL} = S
      BY <2>1, <2>2, <2>5
    <3> QED
      BY <3>1 DEF Visited, at, N
  <2>7. ASSUME S \subseteq bricks PROVE WalkEnds(next, head)
    <3>1. PICK n \in 1..N : at[n] = head
      BY <2>2, <2>5
    <3>2. \A k \in 0..(n - 1) : at[k] \in bricks
      BY <2>1, <2>5, <2>7
    <3> QED
      BY <3>1, <3>2 DEF WalkEnds, at, N
  <2> QED
    BY <2>6, <2>7
<1> QED
  BY <1>1, <1>2

-----------------------------------------------------------------------------
(* Lists *)

\* A step that changes no link of a list keeps it.
LEMMA LeadsKept ==
  ASSUME NEW next, NEW next2, NEW head, NEW S, Leads(next, head, S),
         \A x \in S : next2[x] = next[x]
  PROVE  Leads(next2, head, S)
BY CircleKept DEF Leads

\* A new head in the list will do.
LEMMA LeadsFrom ==
  ASSUME NEW next, NEW head, NEW S, Leads(next, head, S), NEW x \in S
  PROVE  Leads(next, x, S)
BY DEF Leads

\* Inserted puts x into the list.
LEMMA LeadsInserted ==
  ASSUME NEW next \in [Bricks -> Bricks \union {NULL}], NEW S \in SUBSET Bricks,
         NEW list, Leads(next, list, S), NEW x \in Bricks, x \notin S
  PROVE  /\ Inserted(next, list, x) \in [Bricks -> Bricks \union {NULL}]
         /\ Leads(Inserted(next, list, x), x, S \union {x})
<1> DEFINE next2 == Inserted(next, list, x)
<1>1. NULL \notin Bricks
  BY UGuiAssumption
<1>2. CASE S = {}
  <2>1. next2 = [next EXCEPT ![x] = x]
    BY <1>2 DEF Inserted, Leads
  <2>2. next2 \in [Bricks -> Bricks \union {NULL}] /\ next2[x] = x
        /\ \A y \in Bricks \ {x} : next2[y] = next[y]
    BY <2>1
  <2> HIDE DEF next2
  <2>3. Circle(next2, {x})
    BY <2>2, CircleOfOne
  <2>4. S \union {x} = {x}
    BY <1>2
  <2> QED
    BY <1>1, <2>2, <2>3, <2>4 DEF Leads, next2
<1>3. CASE S # {}
  <2>1. list \in S /\ Circle(next, S)
    BY <1>3 DEF Leads
  <2>2. next2 = [next EXCEPT ![x] = next[list], ![list] = x]
    BY <1>1, <2>1 DEF Inserted
  <2>3. /\ next2 \in [Bricks -> Bricks \union {NULL}]
        /\ next2[x] = next[list] /\ next2[list] = x
        /\ \A y \in Bricks \ {x, list} : next2[y] = next[y]
    BY <2>1, <2>2
  <2> HIDE DEF next2
  <2>4. Circle(next2, S \union {x})
    BY <2>1, <2>3, CircleInsert
  <2>5. \A y \in S \union {x} : next2[y] \in Bricks
    BY <2>4 DEF Circle, Closed
  <2> QED
    BY <1>1, <2>1, <2>3, <2>4, <2>5 DEF Leads, next2
<1> QED
  BY <1>2, <1>3

-----------------------------------------------------------------------------
(* Steps *)

\* What the lists say, and the focus, do not depend on the place in Run.
LEMMA StepKeepsLists ==
  ASSUME Inv, UNCHANGED <<windows, bricks, lists, heads, programVars, focusVars>>
  PROVE  ListInv' /\ HeadInv' /\ WindowInv' /\ OneFocus'
<1>1. /\ ListInv /\ HeadInv /\ WindowInv /\ OneFocus
      /\ windows' = windows /\ bricks' = bricks /\ owner' = owner
      /\ NextinBrickList' = NextinBrickList /\ NextinTabList' = NextinTabList
      /\ mBrickList' = mBrickList /\ mTabList' = mTabList
      /\ BrickList' = BrickList /\ TabList' = TabList /\ CurWindow' = CurWindow
      /\ listed' = listed /\ orphaned' = orphaned
      /\ ActiveBrick' = ActiveBrick /\ focused' = focused
  BY DEF Inv, lists, heads, programVars, focusVars
<1>2. ListInv'
  BY <1>1 DEF ListInv, BricksOf, StopsOf
<1>3. HeadInv'
  BY <1>1 DEF HeadInv, BricksOf, StopsOf
<1>4. WindowInv'
  BY <1>1 DEF WindowInv, ActiveLive
<1>5. OneFocus'
  BY <1>1 DEF OneFocus
<1> QED
  BY <1>2, <1>3, <1>4, <1>5

\* What crashes has been given something deleted.
LEMMA CrashInv == ASSUME Inv, Crash, InUseDeleted PROVE Inv'
<1>1. /\ UNCHANGED <<windows, bricks, lists, heads, programVars, focusVars>>
      /\ UNCHANGED <<IsRedrawFullScreen, Running, HotKeyNum, back, i>>
      /\ pc' = "crashed"
  BY DEF Crash
<1>2. ListInv' /\ HeadInv' /\ WindowInv' /\ OneFocus'
  BY <1>1, StepKeepsLists
<1>3. TypeOK'
  BY <1>1 DEF Inv, TypeOK, lists, heads, programVars, focusVars
<1>4. LoopInv'
  BY <1>1 DEF LoopInv, InUseDeleted, heads, programVars, focusVars
<1> QED
  BY <1>2, <1>3, <1>4 DEF Inv

\* A window is added to the windows.
LEMMA NewWindowInv == ASSUME Inv, NEW w \in Windows, NewWindow(w) PROVE Inv'
<1> USE DEF NewWindow
<1>1. /\ TypeOK /\ ListInv /\ WindowInv /\ LoopInv /\ OneFocus
      /\ w # NULL /\ w \notin windows
  BY UGuiAssumption DEF Inv
<1>2. /\ bricks' = bricks /\ owner' = owner /\ focused' = focused
      /\ NextinBrickList' = NextinBrickList /\ NextinTabList' = NextinTabList
      /\ ActiveBrick' = ActiveBrick /\ pc' = pc /\ orphaned' = orphaned
      /\ \A v \in windows : mBrickList'[v] = mBrickList[v] /\ mTabList'[v] = mTabList[v]
      /\ mBrickList'[w] = NULL /\ mTabList'[w] = NULL
  BY <1>1 DEF focusVars, loopVars, TypeOK
<1>3. TypeOK'
  BY <1>1 DEF TypeOK, focusVars, loopVars
<1>4. BricksOf(w)' = {} /\ StopsOf(w)' = {}
  BY <1>1, <1>2 DEF WindowInv, BricksOf, StopsOf
<1>5. /\ Leads(NextinBrickList', NULL, BricksOf(w)')
      /\ Leads(NextinTabList', NULL, StopsOf(w)')
  BY <1>4, CircleOfNone DEF Leads
<1>6. ListInv'
  <2>1. ASSUME NEW v \in windows
        PROVE  /\ Leads(NextinBrickList', mBrickList'[v], BricksOf(v)')
               /\ Leads(NextinTabList', mTabList'[v], StopsOf(v)')
    BY <1>1, <1>2 DEF ListInv, BricksOf, StopsOf
  <2> QED
    BY <1>2, <1>5, <2>1 DEF ListInv
<1>7. HeadInv'
  BY <1>1, <1>5 DEF HeadInv
<1>8. WindowInv'
  BY <1>1, <1>2 DEF WindowInv, ActiveLive
<1>9. LoopInv' /\ OneFocus'
  BY <1>1, <1>2 DEF LoopInv, OneFocus, InProgram
<1> QED
  BY <1>3, <1>6, <1>7, <1>8, <1>9 DEF Inv

\* Where a new brick goes, if it does not crash, and a new stop.
LEMMA MayAddTo ==
  ASSUME Inv, MayAdd,
         ListLive \/ \E b \in bricks : owner[b] = CurWindow
  PROVE  /\ CurWindow \in windows /\ listed = CurWindow
         /\ Leads(NextinBrickList, BrickList, BricksOf(CurWindow))
         /\ Leads(NextinTabList, TabList, StopsOf(CurWindow))
<1>1. HeadInv /\ WindowInv /\ listed = CurWindow
  BY DEF Inv, MayAdd
<1>2. CurWindow \in windows
  <2>1. CASE ListLive
    BY <1>1, <2>1 DEF ListLive, HeadInv
  <2>2. CASE \E b \in bricks : owner[b] = CurWindow
    BY <1>1, <2>2 DEF WindowInv
  <2> QED
    BY <2>1, <2>2
<1> QED
  BY <1>1, <1>2 DEF HeadInv

\* The window's own head stays in its list, or is set to the new element.
LEMMA HeadSetIn ==
  ASSUME NEW head \in [Windows -> Bricks \union {NULL}], CurWindow \in Windows,
         NEW list, NEW x \in Bricks, NEW S, list # NULL => head[CurWindow] \in S
  PROVE  /\ HeadSet(head, list, x) \in [Windows -> Bricks \union {NULL}]
         /\ HeadSet(head, list, x)[CurWindow] \in S \union {x}
         /\ \A v \in Windows : v # CurWindow => HeadSet(head, list, x)[v] = head[v]
BY UGuiAssumption DEF HeadSet

\* A new brick is one more of the current window, and no stop.
LEMMA NewBrickSets ==
  ASSUME TypeOK, NEW b \in Bricks, NewBrick(b), ListLive, CurWindow \in Windows
  PROVE  /\ \A c \in bricks : owner'[c] = owner[c] /\ c # b
                              /\ NextinTabList'[c] = NextinTabList[c]
         /\ owner'[b] = CurWindow
         /\ BricksOf(CurWindow)' = BricksOf(CurWindow) \union {b}
         /\ \A v \in Windows \ {CurWindow} : BricksOf(v)' = BricksOf(v)
         /\ \A v \in Windows : StopsOf(v)' = StopsOf(v)
<1> USE DEF NewBrick
<1>1. /\ \A c \in bricks : owner'[c] = owner[c] /\ c # b
                           /\ NextinTabList'[c] = NextinTabList[c]
      /\ owner'[b] = CurWindow /\ NextinTabList'[b] = NULL
  BY DEF TypeOK
<1>2. \A v : BricksOf(v)' = {c \in bricks \union {b} : owner'[c] = v}
  BY DEF BricksOf
<1>3. BricksOf(CurWindow)' = BricksOf(CurWindow) \union {b}
  BY <1>1, <1>2 DEF BricksOf
<1>4. \A v \in Windows \ {CurWindow} : BricksOf(v)' = BricksOf(v)
  BY <1>1, <1>2 DEF BricksOf
<1>5. ASSUME NEW v \in Windows PROVE StopsOf(v)' = StopsOf(v)
  <2>1. StopsOf(v)' = {c \in bricks \union {b} : owner'[c] = v /\ NextinTabList'[c] # NULL}
    BY <1>2 DEF StopsOf
  <2> QED
    BY <1>1, <2>1 DEF StopsOf, BricksOf
<1> QED
  BY <1>1, <1>3, <1>4, <1>5

\* A brick is added to its window's list.
LEMMA NewBrickLiveInv ==
  ASSUME Inv, NEW b \in Bricks, NewBrick(b), ListLive
  PROVE  Inv'
<1> USE DEF NewBrick
<1> DEFINE cur == CurWindow
           S == BricksOf(cur)
<1>1. TypeOK /\ ListInv /\ HeadInv /\ WindowInv /\ LoopInv /\ OneFocus
  BY DEF Inv
<1>2. /\ cur \in windows /\ listed = cur /\ cur \in Windows
      /\ Leads(NextinBrickList, BrickList, S) /\ Leads(NextinTabList, TabList, StopsOf(cur))
      /\ Leads(NextinBrickList, mBrickList[cur], S)
  BY <1>1, MayAddTo DEF ListInv, TypeOK
<1>3. S \in SUBSET Bricks /\ b \notin S /\ NULL \notin S /\ NULL \notin Bricks
  BY <1>1, UGuiAssumption DEF TypeOK, BricksOf
<1>4. /\ NextinBrickList' \in [Bricks -> Bricks \union {NULL}]
      /\ Leads(NextinBrickList', b, S \union {b})
      /\ \A y \in Bricks : y \notin S /\ y # b => NextinBrickList'[y] = NextinBrickList[y]
  <2>1. /\ NextinBrickList \in [Bricks -> Bricks \union {NULL}]
        /\ NextinBrickList' = Inserted(NextinBrickList, BrickList, b)
    BY <1>1 DEF TypeOK
  <2> HIDE DEF S, NewBrick
  <2> DEFINE next2 == Inserted(NextinBrickList, BrickList, b)
  <2>2. S \in SUBSET Bricks /\ b \notin S /\ Leads(NextinBrickList, BrickList, S)
    BY <1>2, <1>3
  <2>3. next2 \in [Bricks -> Bricks \union {NULL}] /\ Leads(next2, b, S \union {b})
    BY <2>1, <2>2, LeadsInserted
  <2>4. \A y \in Bricks : y \notin S /\ y # b => next2[y] = NextinBrickList[y]
    BY <2>1, <2>2 DEF Inserted, Leads
  <2> QED
    BY <2>1, <2>3, <2>4
<1>5. /\ Leads(NextinBrickList', mBrickList'[cur], S \union {b})
      /\ \A v \in Windows : v # cur => mBrickList'[v] = mBrickList[v]
  <2>1. /\ mBrickList \in [Windows -> Bricks \union {NULL}]
        /\ mBrickList' = HeadSet(mBrickList, BrickList, b)
        /\ BrickList # NULL => mBrickList[CurWindow] \in S
    BY <1>1, <1>2 DEF TypeOK, Leads
  <2> HIDE DEF S, NewBrick
  <2>2. /\ mBrickList'[cur] \in S \union {b}
        /\ \A v \in Windows : v # cur => mBrickList'[v] = mBrickList[v]
    BY <1>2, <2>1, HeadSetIn
  <2> QED
    BY <1>4, <2>2, LeadsFrom
<1>6. /\ \A c \in bricks : owner'[c] = owner[c] /\ c # b
                           /\ NextinTabList'[c] = NextinTabList[c]
      /\ owner'[b] = cur
  BY <1>1, <1>2, NewBrickSets
<1>7. /\ BricksOf(cur)' = S \union {b}
      /\ \A v \in windows \ {cur} : BricksOf(v)' = BricksOf(v)
      /\ \A v \in windows : StopsOf(v)' = StopsOf(v)
  BY <1>1, <1>2, NewBrickSets DEF TypeOK
<1>8. TypeOK'
  <2>1. mBrickList' \in [Windows -> Bricks \union {NULL}]
    BY <1>1 DEF TypeOK, HeadSet
  <2>2. /\ windows' \subseteq Windows /\ bricks' \subseteq Bricks
        /\ NextinTabList' \in [Bricks -> Bricks \union {NULL}]
        /\ mTabList' \in [Windows -> Bricks \union {NULL}]
        /\ owner' \in [Bricks -> Windows \union {NULL}]
    BY <1>1, <1>2 DEF TypeOK
  <2>3. focused' \in [Bricks -> BOOLEAN]
    BY <1>1 DEF TypeOK
  <2>4. /\ {BrickList', TabList', ActiveBrick'} \subseteq Bricks \union {NULL}
        /\ {CurWindow', listed'} \subseteq Windows \union {NULL}
        /\ {IsRedrawFullScreen', Running', orphaned'} \subseteq BOOLEAN
        /\ HotKeyNum' \in 0..MAX_HOT_KEYS /\ i' \in 0..MAX_HOT_KEYS
        /\ pc' = pc /\ back' = back
    BY <1>1 DEF TypeOK, loopVars
  <2> QED
    BY <1>1, <1>4, <2>1, <2>2, <2>3, <2>4 DEF TypeOK
<1>9. ASSUME NEW v \in windows, NEW head, Leads(NextinTabList, head, StopsOf(v))
      PROVE  Leads(NextinTabList', head, StopsOf(v)')
  <2>1. \A c \in StopsOf(v) : NextinTabList'[c] = NextinTabList[c]
    BY <1>6 DEF StopsOf, BricksOf
  <2>2. Leads(NextinTabList', head, StopsOf(v))
    BY <1>9, <2>1, LeadsKept
  <2> QED
    BY <1>7, <2>2
<1>10. ListInv'
  <2>1. ASSUME NEW v \in windows
        PROVE  Leads(NextinBrickList', mBrickList'[v], BricksOf(v)')
    <3>1. CASE v = cur
      BY <1>5, <1>7, <3>1
    <3>2. CASE v # cur
      <4>1. /\ Leads(NextinBrickList, mBrickList'[v], BricksOf(v))
            /\ BricksOf(v) \subseteq Bricks \ (S \union {b})
        BY <1>1, <1>5, <3>2 DEF ListInv, BricksOf, TypeOK
      <4>2. Leads(NextinBrickList', mBrickList'[v], BricksOf(v))
        BY <1>4, <4>1, LeadsKept
      <4> QED
        BY <1>7, <3>2, <4>2
    <3> QED
      BY <3>1, <3>2
  <2>2. \A v \in windows : Leads(NextinTabList', mTabList'[v], StopsOf(v)')
    BY <1>1, <1>9 DEF ListInv
  <2> QED
    BY <2>1, <2>2 DEF ListInv
<1>11. HeadInv'
  <2>1. /\ Leads(NextinBrickList', BrickList', BricksOf(cur)')
        /\ Leads(NextinTabList', TabList', StopsOf(cur)')
    BY <1>2, <1>4, <1>7, <1>9
  <2>2. listed' = cur /\ CurWindow' = cur /\ windows' = windows /\ cur # NULL
    BY <1>1, <1>2, UGuiAssumption DEF TypeOK
  <2> QED
    BY <1>2, <2>1, <2>2 DEF HeadInv
<1>12. WindowInv'
  BY <1>1, <1>2, <1>6 DEF WindowInv, ActiveLive
<1>13. LoopInv'
  BY <1>1 DEF LoopInv, loopVars, MayAdd, InProgram
<1>14. OneFocus'
  BY <1>1, <1>3 DEF OneFocus, WindowInv, ActiveLive, TypeOK
<1> QED
  BY <1>8, <1>10, <1>11, <1>12, <1>13, <1>14 DEF Inv

LEMMA NewBrickInv == ASSUME Inv, NEW b \in Bricks, NewBrick(b) PROVE Inv'
<1>1. CASE ListLive
  BY <1>1, NewBrickLiveInv
<1>2. CASE ~ListLive
  <2>1. Crash /\ listed = CurWindow /\ CurWindow # NULL
    BY <1>2 DEF NewBrick, MayAdd
  <2>2. listed \notin windows
    <3>1. ASSUME listed \in windows PROVE ListLive
      <4>1. Leads(NextinBrickList, BrickList, BricksOf(listed))
        BY <3>1 DEF Inv, HeadInv
      <4> QED
        BY <2>1, <3>1, <4>1 DEF ListLive, Leads, BricksOf
    <3> QED
      BY <1>2, <3>1
  <2>3. InUseDeleted
    BY <2>1, <2>2 DEF InUseDeleted
  <2> QED
    BY <2>1, <2>3, CrashInv
<1> QED
  BY <1>1, <1>2

\* A new stop is one more of the current window.
LEMMA AddtoTabListSets ==
  ASSUME Inv, NEW b \in Bricks, AddtoTabList(b)
  PROVE  /\ NextinTabList' \in [Bricks -> Bricks \union {NULL}]
         /\ Leads(NextinTabList', b, StopsOf(CurWindow) \union {b})
         /\ \A y \in Bricks : y \notin StopsOf(CurWindow) /\ y # b =>
              NextinTabList'[y] = NextinTabList[y]
         /\ \A v : BricksOf(v)' = BricksOf(v)
         /\ StopsOf(CurWindow)' = StopsOf(CurWindow) \union {b}
         /\ \A v \in Windows \ {CurWindow} : StopsOf(v)' = StopsOf(v)
<1> USE DEF AddtoTabList
<1> DEFINE cur == CurWindow
           S == StopsOf(cur)
<1>1. TypeOK /\ ListInv /\ HeadInv /\ WindowInv /\ LoopInv /\ OneFocus
  BY DEF Inv
<1>2. /\ cur \in windows /\ listed = cur /\ cur \in Windows
      /\ Leads(NextinBrickList, BrickList, BricksOf(cur)) /\ Leads(NextinTabList, TabList, S)
      /\ Leads(NextinTabList, mTabList[cur], S)
  BY <1>1, MayAddTo DEF ListInv, TypeOK
<1>3. S \in SUBSET Bricks /\ b \notin S /\ NULL \notin S /\ NULL \notin Bricks
  BY <1>1, UGuiAssumption DEF TypeOK, BricksOf, StopsOf
<1>4. /\ NextinTabList' \in [Bricks -> Bricks \union {NULL}]
      /\ Leads(NextinTabList', b, S \union {b})
      /\ \A y \in Bricks : y \in S \/ y = b => NextinTabList'[y] # NULL
      /\ \A y \in Bricks : y \notin S /\ y # b => NextinTabList'[y] = NextinTabList[y]
  <2>1. /\ NextinTabList \in [Bricks -> Bricks \union {NULL}]
        /\ NextinTabList' = Inserted(NextinTabList, TabList, b)
    BY <1>1 DEF TypeOK
  <2> HIDE DEF S, AddtoTabList
  <2> DEFINE next2 == Inserted(NextinTabList, TabList, b)
  <2>2. S \in SUBSET Bricks /\ b \notin S /\ Leads(NextinTabList, TabList, S)
    BY <1>2, <1>3
  <2>3. next2 \in [Bricks -> Bricks \union {NULL}] /\ Leads(next2, b, S \union {b})
    BY <2>1, <2>2, LeadsInserted
  <2>4. \A y \in Bricks : y \notin S /\ y # b => next2[y] = NextinTabList[y]
    BY <2>1, <2>2 DEF Inserted, Leads
  <2>5. \A y \in S \union {b} : next2[y] \in S \union {b}
    BY <2>3 DEF Leads, Circle, Closed
  <2> HIDE DEF next2
  <2> QED
    BY <1>3, <2>1, <2>3, <2>4, <2>5 DEF next2
<1>5. /\ \A v : BricksOf(v)' = BricksOf(v)
      /\ StopsOf(cur)' = S \union {b}
      /\ \A v \in Windows \ {cur} : StopsOf(v)' = StopsOf(v)
  <2>1. \A v : BricksOf(v)' = BricksOf(v)
    BY DEF BricksOf, programVars
  <2>2. \A v : StopsOf(v)' = {c \in BricksOf(v) : NextinTabList'[c] # NULL}
    BY <2>1 DEF StopsOf
  <2>3. b \in BricksOf(cur) /\ BricksOf(cur) \subseteq Bricks
    BY <1>1 DEF BricksOf, TypeOK
  <2>4. StopsOf(cur)' = S \union {b}
    <3>1. \A c \in BricksOf(cur) : NextinTabList'[c] # NULL <=> c \in S \/ c = b
      BY <1>4, <2>3 DEF StopsOf
    <3> QED
      BY <2>2, <2>3, <3>1 DEF StopsOf
  <2>5. ASSUME NEW v \in Windows \ {cur} PROVE StopsOf(v)' = StopsOf(v)
    <3>1. \A c \in BricksOf(v) : c \in Bricks /\ c \notin S /\ c # b
      BY <1>1, <2>3 DEF StopsOf, BricksOf, TypeOK
    <3>2. \A c \in BricksOf(v) : NextinTabList'[c] = NextinTabList[c]
      BY <1>4, <3>1
    <3> QED
      BY <2>2, <3>2 DEF StopsOf
  <2> QED
    BY <2>1, <2>4, <2>5
<1> QED
  BY <1>4, <1>5

\* A brick enters its window's tab list.
LEMMA AddtoTabListInv == ASSUME Inv, NEW b \in Bricks, AddtoTabList(b) PROVE Inv'
<1> USE DEF AddtoTabList
<1> DEFINE cur == CurWindow
           S == StopsOf(cur)
<1>1. TypeOK /\ ListInv /\ HeadInv /\ WindowInv /\ LoopInv /\ OneFocus
  BY DEF Inv
<1>2. /\ cur \in windows /\ listed = cur /\ cur \in Windows
      /\ Leads(NextinBrickList, BrickList, BricksOf(cur)) /\ Leads(NextinTabList, TabList, S)
      /\ Leads(NextinTabList, mTabList[cur], S)
  BY <1>1, MayAddTo DEF ListInv, TypeOK
<1>3. S \in SUBSET Bricks /\ b \notin S /\ NULL \notin S /\ NULL \notin Bricks
  BY <1>1, UGuiAssumption DEF TypeOK, BricksOf, StopsOf
<1>4. /\ NextinTabList' \in [Bricks -> Bricks \union {NULL}]
      /\ Leads(NextinTabList', b, S \union {b})
      /\ \A y \in Bricks : y \notin S /\ y # b => NextinTabList'[y] = NextinTabList[y]
  BY AddtoTabListSets
<1>5. /\ Leads(NextinTabList', mTabList'[cur], S \union {b})
      /\ \A v \in Windows : v # cur => mTabList'[v] = mTabList[v]
      /\ mTabList' \in [Windows -> Bricks \union {NULL}]
  <2>1. /\ mTabList \in [Windows -> Bricks \union {NULL}]
        /\ mTabList' = HeadSet(mTabList, TabList, b)
        /\ TabList # NULL => mTabList[CurWindow] \in S
    BY <1>1, <1>2 DEF TypeOK, Leads
  <2> HIDE DEF S, AddtoTabList
  <2>2. /\ mTabList'[cur] \in S \union {b}
        /\ \A v \in Windows : v # cur => mTabList'[v] = mTabList[v]
        /\ mTabList' \in [Windows -> Bricks \union {NULL}]
    BY <1>2, <2>1, HeadSetIn
  <2> QED
    BY <1>4, <2>2, LeadsFrom
<1>6. /\ \A v : BricksOf(v)' = BricksOf(v)
      /\ StopsOf(cur)' = S \union {b}
      /\ \A v \in windows \ {cur} : StopsOf(v)' = StopsOf(v)
  BY <1>1, AddtoTabListSets DEF TypeOK
<1>7. TypeOK'
  BY <1>1, <1>4, <1>5 DEF TypeOK, focusVars, loopVars, programVars
<1>8. ListInv'
  <2>1. ASSUME NEW v \in windows
        PROVE  Leads(NextinTabList', mTabList'[v], StopsOf(v)')
    <3>1. CASE v = cur
      BY <1>5, <1>6, <3>1
    <3>2. CASE v # cur
      <4>1. /\ Leads(NextinTabList, mTabList'[v], StopsOf(v))
            /\ \A c \in StopsOf(v) : c \in Bricks /\ c \notin S /\ c # b
        BY <1>1, <1>5, <3>2 DEF ListInv, BricksOf, StopsOf, TypeOK
      <4>2. Leads(NextinTabList', mTabList'[v], StopsOf(v))
        BY <1>4, <4>1, LeadsKept
      <4> QED
        BY <1>6, <3>2, <4>2
    <3> QED
      BY <3>1, <3>2
  <2>2. \A v \in windows : Leads(NextinBrickList', mBrickList'[v], BricksOf(v)')
    BY <1>1, <1>6 DEF ListInv
  <2> QED
    BY <2>1, <2>2 DEF ListInv
<1>9. HeadInv'
  <2>1. /\ Leads(NextinBrickList', BrickList', BricksOf(cur)')
        /\ Leads(NextinTabList', TabList', StopsOf(cur)')
    BY <1>2, <1>4, <1>6
  <2>2. listed' = cur /\ CurWindow' = cur /\ windows' = windows /\ cur # NULL
    BY <1>1, <1>2, UGuiAssumption DEF TypeOK, programVars
  <2> QED
    BY <1>2, <2>1, <2>2 DEF HeadInv
<1>10. WindowInv' /\ LoopInv' /\ OneFocus'
  BY <1>1 DEF WindowInv, LoopInv, OneFocus, ActiveLive, MayAdd, InProgram, focusVars,
              loopVars, programVars
<1> QED
  BY <1>7, <1>8, <1>9, <1>10 DEF Inv

\* What SetFocus to a live brick keeps.
LEMMA SetFocusInv ==
  ASSUME Inv, UNCHANGED <<windows, bricks, lists, heads, programVars>>,
         NEW b \in bricks, SetFocus(b)
  PROVE  /\ focused' \in [Bricks -> BOOLEAN] /\ ActiveBrick' \in Bricks
         /\ ListInv' /\ HeadInv' /\ WindowInv' /\ OneFocus'
<1>1. /\ TypeOK /\ ListInv /\ HeadInv /\ WindowInv /\ OneFocus
      /\ windows' = windows /\ bricks' = bricks /\ owner' = owner
      /\ NextinBrickList' = NextinBrickList /\ NextinTabList' = NextinTabList
      /\ mBrickList' = mBrickList /\ mTabList' = mTabList
      /\ BrickList' = BrickList /\ TabList' = TabList /\ CurWindow' = CurWindow
      /\ listed' = listed /\ ActiveBrick' = b
  BY DEF Inv, lists, heads, programVars, SetFocus
<1>2. focused' \in [Bricks -> BOOLEAN] /\ ActiveBrick' \in Bricks
  BY <1>1 DEF SetFocus, TypeOK
<1>3. ListInv'
  BY <1>1 DEF ListInv, BricksOf, StopsOf
<1>4. HeadInv'
  BY <1>1 DEF HeadInv, BricksOf, StopsOf
<1>5. WindowInv'
  BY <1>1 DEF WindowInv, ActiveLive
<1>6. ASSUME NEW c \in bricks PROVE focused'[c] <=> b = c
  BY <1>1 DEF SetFocus, OneFocus, TypeOK
<1>7. OneFocus'
  BY <1>1, <1>6 DEF OneFocus
<1> QED
  BY <1>2, <1>3, <1>4, <1>5, <1>7

\* A brick of the active window is given the focus.
LEMMA FocusInv == ASSUME Inv, NEW b \in Bricks, Focus(b) PROVE Inv'
<1>1. CASE ActiveLive
  <2>1. /\ b \in bricks /\ SetFocus(b) /\ orphaned' = FALSE
        /\ UNCHANGED <<windows, bricks, lists, heads, IsRedrawFullScreen, loopVars,
                       programVars>>
        /\ InProgram
    BY <1>1 DEF Focus
  <2>2. ListInv' /\ HeadInv' /\ WindowInv' /\ OneFocus'
        /\ focused' \in [Bricks -> BOOLEAN] /\ ActiveBrick' \in Bricks
    BY <2>1, SetFocusInv
  <2>3. TypeOK' /\ LoopInv'
    BY <2>1, <2>2 DEF Inv, InProgram, TypeOK, LoopInv, lists, heads, loopVars, programVars
  <2> QED
    BY <2>2, <2>3 DEF Inv
<1>2. CASE ~ActiveLive
  <2>1. Crash /\ InUseDeleted
    BY <1>2 DEF Focus, Inv, WindowInv, InUseDeleted
  <2> QED
    BY <2>1, CrashInv
<1> QED
  BY <1>1, <1>2

\* Another window becomes the active one.
LEMMA ActivateInv == ASSUME Inv, NEW w \in Windows, Activate(w) PROVE Inv'
<1> USE DEF Activate
<1>1. /\ TypeOK /\ ListInv /\ HeadInv /\ WindowInv /\ LoopInv /\ OneFocus /\ w # NULL
      /\ NextinBrickList' = NextinBrickList /\ NextinTabList' = NextinTabList
      /\ mBrickList' = mBrickList /\ mTabList' = mTabList
      /\ focused' = focused /\ ActiveBrick' = ActiveBrick /\ orphaned' = orphaned
      /\ pc' = pc
  BY UGuiAssumption DEF Inv, TypeOK, lists, focusVars, loopVars
<1>2. TypeOK'
  BY <1>1 DEF TypeOK, loopVars
<1>3. ListInv'
  BY <1>1 DEF ListInv, BricksOf, StopsOf
<1>4. HeadInv'
  BY <1>1 DEF HeadInv, BricksOf, StopsOf
<1>5. WindowInv' /\ LoopInv' /\ OneFocus'
  BY <1>1 DEF WindowInv, LoopInv, OneFocus, ActiveLive, InProgram
<1> QED
  BY <1>2, <1>3, <1>4, <1>5 DEF Inv

\* A window is shown.
LEMMA ShowLiveInv == ASSUME Inv, NEW w \in Windows, Show(w), ActiveLive PROVE Inv'
<1> USE DEF Show, ShowLists
<1>1. /\ TypeOK /\ ListInv /\ WindowInv /\ LoopInv /\ OneFocus /\ w # NULL
      /\ NextinBrickList' = NextinBrickList /\ NextinTabList' = NextinTabList
      /\ mBrickList' = mBrickList /\ mTabList' = mTabList /\ pc' = pc
  BY UGuiAssumption DEF Inv, lists, loopVars
<1>2. /\ Leads(NextinBrickList, mBrickList[w], BricksOf(w))
      /\ Leads(NextinTabList, mTabList[w], StopsOf(w))
  BY <1>1 DEF ListInv
<1>3. mTabList[w] # NULL => mTabList[w] \in bricks /\ owner[mTabList[w]] = w
  <2>1. mTabList[w] = NULL \/ mTabList[w] \in StopsOf(w)
    BY <1>2 DEF Leads
  <2> HIDE DEF Show, ShowLists
  <2>2. \A c \in StopsOf(w) : c \in bricks /\ owner[c] = w
    BY DEF StopsOf, BricksOf
  <2> QED
    BY <2>1, <2>2
<1>4. ActiveBrick' = mTabList[w] /\ focused' \in [Bricks -> BOOLEAN]
      /\ ActiveBrick' \in Bricks \union {NULL}
  BY <1>1 DEF ShowFocus, TypeOK
<1>5. TypeOK'
  BY <1>1, <1>4 DEF TypeOK, loopVars
<1>6. ListInv'
  BY <1>1 DEF ListInv, BricksOf, StopsOf
<1>7. HeadInv'
  BY <1>1, <1>2 DEF HeadInv, BricksOf, StopsOf
<1>8. WindowInv' /\ LoopInv'
  BY <1>1, <1>3, <1>4 DEF WindowInv, LoopInv, ActiveLive, InProgram
<1>9. ASSUME NEW c \in bricks PROVE focused'[c] <=> ActiveBrick' = c
  BY <1>1, <1>4 DEF ShowFocus, OneFocus, TypeOK
<1>10. OneFocus'
  BY <1>9 DEF OneFocus
<1> QED
  BY <1>5, <1>6, <1>7, <1>8, <1>10 DEF Inv

LEMMA ShowInv == ASSUME Inv, NEW w \in Windows, Show(w) PROVE Inv'
<1>1. CASE ActiveLive
  BY <1>1, ShowLiveInv
<1>2. CASE ~ActiveLive
  <2>1. Crash /\ InUseDeleted
    BY <1>2 DEF Show, Inv, WindowInv, InUseDeleted
  <2> QED
    BY <2>1, CrashInv
<1> QED
  BY <1>1, <1>2

\* ~Window deletes the bricks of its window, and its walk comes round.
LEMMA DeletesItsBricks ==
  ASSUME Inv, NEW w \in windows
  PROVE  /\ Deleted(w) = BricksOf(w)
         /\ mBrickList[w] = NULL \/ WalkEnds(NextinBrickList, mBrickList[w])
<1>1. Leads(NextinBrickList, mBrickList[w], BricksOf(w))
  BY DEF Inv, ListInv
<1>2. BricksOf(w) \in SUBSET Bricks /\ BricksOf(w) \subseteq bricks
  BY DEF Inv, TypeOK, BricksOf
<1> QED
  BY <1>1, <1>2, LeadsVisits DEF Deleted

\* What a delete does, once it is known what is deleted.
LEMMA DeleteWindowDoes ==
  ASSUME Inv, NEW w \in Windows, DeleteWindow(w)
  PROVE  /\ w \in windows /\ InProgram
         /\ windows' = windows \ {w} /\ bricks' = bricks \ BricksOf(w)
         /\ mBrickList' = [mBrickList EXCEPT ![w] = NULL]
         /\ mTabList' = [mTabList EXCEPT ![w] = NULL]
         /\ NextinBrickList' = [b \in Bricks |->
              IF b \in BricksOf(w) THEN NULL ELSE NextinBrickList[b]]
         /\ NextinTabList' = [b \in Bricks |->
              IF b \in BricksOf(w) THEN NULL ELSE NextinTabList[b]]
         /\ owner' = [b \in Bricks |-> IF b \in BricksOf(w) THEN NULL ELSE owner[b]]
         /\ focused' = [b \in Bricks |-> b \notin BricksOf(w) /\ focused[b]]
         /\ BrickList' = BrickList /\ TabList' = TabList /\ CurWindow' = CurWindow
         /\ listed' = listed /\ ActiveBrick' = ActiveBrick /\ pc' = pc
         /\ ~orphaned' => ~orphaned /\ (ActiveBrick = NULL \/ owner[ActiveBrick] # w)
         /\ orphaned' \in BOOLEAN
         /\ UNCHANGED <<IsRedrawFullScreen, Running, HotKeyNum, back, i>>
<1>1. w \in windows /\ InProgram
  BY DEF DeleteWindow
<1>2. /\ Deleted(w) = BricksOf(w)
      /\ mBrickList[w] = NULL \/ WalkEnds(NextinBrickList, mBrickList[w])
  BY <1>1, DeletesItsBricks
<1>3. orphaned' = (orphaned \/ (ActiveBrick # NULL /\ owner[ActiveBrick] = w))
  BY DEF DeleteWindow
<1>4. orphaned' \in BOOLEAN
  <2>1. (orphaned \/ (ActiveBrick # NULL /\ owner[ActiveBrick] = w)) \in BOOLEAN
    OBVIOUS
  <2> QED
    BY <1>3, <2>1, Zenon
<1>5. ~orphaned' => ~orphaned /\ (ActiveBrick = NULL \/ owner[ActiveBrick] # w)
  BY <1>3
<1>6. /\ bricks' = bricks \ BricksOf(w)
      /\ mBrickList' = [mBrickList EXCEPT ![w] = NULL]
      /\ mTabList' = [mTabList EXCEPT ![w] = NULL]
      /\ NextinBrickList' = [b \in Bricks |->
           IF b \in BricksOf(w) THEN NULL ELSE NextinBrickList[b]]
      /\ NextinTabList' = [b \in Bricks |->
           IF b \in BricksOf(w) THEN NULL ELSE NextinTabList[b]]
      /\ owner' = [b \in Bricks |-> IF b \in BricksOf(w) THEN NULL ELSE owner[b]]
      /\ focused' = [b \in Bricks |-> b \notin BricksOf(w) /\ focused[b]]
      /\ pc' = pc
  BY <1>2 DEF DeleteWindow
<1>7. /\ windows' = windows \ {w}
      /\ BrickList' = BrickList /\ TabList' = TabList /\ CurWindow' = CurWindow
      /\ listed' = listed /\ ActiveBrick' = ActiveBrick
      /\ UNCHANGED <<IsRedrawFullScreen, Running, HotKeyNum, back, i>>
  BY DEF DeleteWindow, heads
<1> QED
  BY <1>1, <1>4, <1>5, <1>6, <1>7

\* The bricks and stops of the other windows stay, and so do their lists.
LEMMA DeleteWindowSets ==
  ASSUME Inv, NEW w \in Windows, DeleteWindow(w)
  PROVE  /\ BricksOf(w)' = {}
         /\ \A v \in Windows \ {w} :
              /\ BricksOf(v)' = BricksOf(v) /\ StopsOf(v)' = StopsOf(v)
              /\ \A head : Leads(NextinBrickList, head, BricksOf(v)) =>
                             Leads(NextinBrickList', head, BricksOf(v)')
              /\ \A head : Leads(NextinTabList, head, StopsOf(v)) =>
                             Leads(NextinTabList', head, StopsOf(v)')
<1> DEFINE S == BricksOf(w)
<1>1. TypeOK
  BY DEF Inv
<1>3. /\ bricks' = bricks \ S
      /\ NextinBrickList' = [b \in Bricks |-> IF b \in S THEN NULL ELSE NextinBrickList[b]]
      /\ NextinTabList' = [b \in Bricks |-> IF b \in S THEN NULL ELSE NextinTabList[b]]
      /\ owner' = [b \in Bricks |-> IF b \in S THEN NULL ELSE owner[b]]
  BY DeleteWindowDoes
<1>5. \A b \in bricks : b \in S <=> owner[b] = w
  BY DEF BricksOf
<1>6. BricksOf(w)' = {}
  <2>1. \A c \in bricks' : c \in Bricks /\ c \notin S /\ owner[c] # w
    BY <1>1, <1>3, <1>5 DEF TypeOK
  <2>2. \A c \in bricks' : owner'[c] # w
    <3> HIDE DEF S
    <3> QED
      BY <1>3, <2>1
  <2> QED
    BY <2>2 DEF BricksOf
<1>7. ASSUME NEW v \in Windows \ {w}
      PROVE  /\ \A c \in BricksOf(v) : c \in Bricks /\ c \notin S
             /\ BricksOf(v)' = BricksOf(v) /\ StopsOf(v)' = StopsOf(v)
             /\ \A head : Leads(NextinBrickList, head, BricksOf(v)) =>
                            Leads(NextinBrickList', head, BricksOf(v)')
             /\ \A head : Leads(NextinTabList, head, StopsOf(v)) =>
                            Leads(NextinTabList', head, StopsOf(v)')
  <2>1. \A c \in BricksOf(v) : c \in bricks /\ c \in Bricks /\ c \notin S
    BY <1>1 DEF BricksOf, TypeOK
  <2>2. BricksOf(v)' = BricksOf(v)
    <3>1. BricksOf(v)' = {c \in bricks' : owner'[c] = v}
      BY DEF BricksOf
    <3>2. \A c \in bricks : c \notin S => owner'[c] = owner[c] /\ c \in bricks'
      BY <1>1, <1>3 DEF TypeOK
    <3>3. \A c \in bricks' : c \in bricks /\ c \notin S
      BY <1>3
    <3> HIDE DEF S
    <3> QED
      BY <2>1, <3>1, <3>2, <3>3 DEF BricksOf
  <2>3. \A c \in BricksOf(v) : /\ NextinTabList'[c] = NextinTabList[c]
                               /\ NextinBrickList'[c] = NextinBrickList[c]
    <3> HIDE DEF S
    <3> QED
      BY <1>3, <2>1
  <2>4. StopsOf(v)' = StopsOf(v)
    BY <2>2, <2>3 DEF StopsOf
  <2>5. \A c \in StopsOf(v) : NextinTabList'[c] = NextinTabList[c]
    BY <2>3 DEF StopsOf
  <2>6. ASSUME NEW head, Leads(NextinBrickList, head, BricksOf(v))
        PROVE  Leads(NextinBrickList', head, BricksOf(v)')
    BY <2>2, <2>3, <2>6, LeadsKept
  <2>7. ASSUME NEW head, Leads(NextinTabList, head, StopsOf(v))
        PROVE  Leads(NextinTabList', head, StopsOf(v)')
    BY <2>4, <2>5, <2>7, LeadsKept
  <2> QED
    BY <2>1, <2>2, <2>4, <2>6, <2>7
<1> QED
  BY <1>6, <1>7

\* A window is deleted with what it holds.
LEMMA DeleteWindowInv == ASSUME Inv, NEW w \in Windows, DeleteWindow(w) PROVE Inv'
<1> DEFINE S == BricksOf(w)
<1>1. /\ TypeOK /\ ListInv /\ HeadInv /\ WindowInv /\ LoopInv /\ OneFocus
      /\ w \in windows /\ pc # "crashed"
  BY DeleteWindowDoes DEF Inv, InProgram
<1>3. /\ windows' = windows \ {w} /\ bricks' = bricks \ S
      /\ mBrickList' = [mBrickList EXCEPT ![w] = NULL]
      /\ mTabList' = [mTabList EXCEPT ![w] = NULL]
      /\ NextinBrickList' = [b \in Bricks |-> IF b \in S THEN NULL ELSE NextinBrickList[b]]
      /\ NextinTabList' = [b \in Bricks |-> IF b \in S THEN NULL ELSE NextinTabList[b]]
      /\ owner' = [b \in Bricks |-> IF b \in S THEN NULL ELSE owner[b]]
      /\ focused' = [b \in Bricks |-> b \notin S /\ focused[b]]
      /\ BrickList' = BrickList /\ TabList' = TabList /\ CurWindow' = CurWindow
      /\ listed' = listed /\ ActiveBrick' = ActiveBrick /\ pc' = pc
      /\ UNCHANGED <<IsRedrawFullScreen, Running, HotKeyNum, back, i>>
  BY DeleteWindowDoes
<1>4. /\ ~orphaned' => ~orphaned /\ (ActiveBrick = NULL \/ owner[ActiveBrick] # w)
      /\ orphaned' \in BOOLEAN
  BY DeleteWindowDoes
<1>5. \A b \in bricks : b \in S <=> owner[b] = w
  BY DEF BricksOf
<1>6. TypeOK'
  <2>1. /\ windows' \subseteq Windows /\ bricks' \subseteq Bricks
        /\ mBrickList' \in [Windows -> Bricks \union {NULL}]
        /\ mTabList' \in [Windows -> Bricks \union {NULL}]
    BY <1>1, <1>3 DEF TypeOK
  <2>2. /\ NextinBrickList' \in [Bricks -> Bricks \union {NULL}]
        /\ NextinTabList' \in [Bricks -> Bricks \union {NULL}]
        /\ owner' \in [Bricks -> Windows \union {NULL}]
    <3> HIDE DEF S
    <3> QED
      BY <1>1, <1>3 DEF TypeOK
  <2>3. focused' \in [Bricks -> BOOLEAN]
    <3> HIDE DEF S
    <3> QED
      BY <1>1, <1>3 DEF TypeOK
  <2> QED
    BY <1>1, <1>3, <1>4, <2>1, <2>2, <2>3 DEF TypeOK
<1>7. ASSUME NEW v \in windows \ {w}
      PROVE  /\ \A head : Leads(NextinBrickList, head, BricksOf(v)) =>
                            Leads(NextinBrickList', head, BricksOf(v)')
             /\ \A head : Leads(NextinTabList, head, StopsOf(v)) =>
                            Leads(NextinTabList', head, StopsOf(v)')
  BY <1>1, DeleteWindowSets DEF TypeOK
<1>8. ListInv'
  <2>1. \A v \in windows \ {w} : mBrickList'[v] = mBrickList[v] /\ mTabList'[v] = mTabList[v]
    BY <1>1, <1>3 DEF TypeOK
  <2> QED
    BY <1>1, <1>3, <1>7, <2>1 DEF ListInv
<1>9. HeadInv'
  <2>1. CASE listed \in windows \ {w}
    BY <1>1, <1>3, <1>7, <2>1 DEF HeadInv
  <2>2. CASE listed = w
    <3>1. /\ Leads(NextinBrickList, BrickList, S)
          /\ Leads(NextinTabList, TabList, StopsOf(w))
      BY <1>1, <2>2 DEF HeadInv
    <3>2. StopsOf(w) \subseteq S /\ NULL \notin bricks
      BY <1>1, UGuiAssumption DEF StopsOf, TypeOK
    <3>3. BrickList \in S \union {NULL} /\ TabList \in S \union {NULL}
      BY <3>1, <3>2 DEF Leads
    <3>4. BrickList \notin bricks' /\ TabList \notin bricks'
      <4> HIDE DEF S
      <4> QED
        BY <1>3, <3>2, <3>3
    <3> QED
      BY <1>1, <1>3, <2>2, <3>4 DEF HeadInv
  <2>3. CASE listed \notin windows
    <3>1. BrickList \notin bricks' /\ TabList \notin bricks'
      BY <1>1, <1>3, <2>3 DEF HeadInv
    <3> QED
      BY <1>1, <1>3, <2>3, <3>1 DEF HeadInv
  <2> QED
    BY <2>1, <2>2, <2>3
<1>10. \A b \in bricks' : b \in bricks /\ b \notin S /\ b \in Bricks
  BY <1>1, <1>3 DEF TypeOK
<1>11. WindowInv'
  <2>1. ~orphaned' => ActiveBrick = NULL \/ ActiveBrick \in bricks'
    BY <1>1, <1>3, <1>4, <1>5 DEF WindowInv, ActiveLive
  <2>2. \A b \in bricks' : owner'[b] = owner[b] /\ owner[b] \in windows /\ owner[b] # w
    <3> HIDE DEF S
    <3> QED
      BY <1>1, <1>3, <1>5, <1>10 DEF WindowInv
  <2> HIDE DEF S
  <2> QED
    BY <1>3, <2>1, <2>2 DEF WindowInv, ActiveLive
<1>12. LoopInv' /\ OneFocus'
  <2>1. LoopInv'
    BY <1>1, <1>3 DEF LoopInv
  <2>2. \A b \in bricks' : focused'[b] <=> focused[b]
    <3> HIDE DEF S
    <3> QED
      BY <1>3, <1>10
  <2> HIDE DEF S
  <2> QED
    BY <1>1, <1>3, <1>4, <1>10, <2>1, <2>2 DEF OneFocus
<1> QED
  BY <1>6, <1>8, <1>9, <1>11, <1>12 DEF Inv

\* From a live brick that is in a tab list, the next stop is one of its window.
LEMMA NextIsStop ==
  ASSUME Inv, ActiveBrick \in bricks, NextinTabList[ActiveBrick] # NULL
  PROVE  \E w \in windows : /\ ActiveBrick \in StopsOf(w)
                            /\ NextinTabList[ActiveBrick] \in StopsOf(w)
<1> DEFINE w == owner[ActiveBrick]
<1>1. w \in windows /\ ActiveBrick \in StopsOf(w)
  BY DEF Inv, WindowInv, StopsOf, BricksOf
<1>2. NextinTabList[ActiveBrick] \in StopsOf(w)
  BY <1>1 DEF Inv, ListInv, Leads, Circle, Closed
<1> QED
  BY <1>1, <1>2

\* The Tab key finds a stop of the active brick's window, or of the window
\* that is drawn, unless it meets something deleted.
LEMMA TabFindsStop ==
  ASSUME Inv, ActiveBrick \in bricks, TabTarget \in bricks
  PROVE  \E w \in windows :
           /\ TabTarget \in StopsOf(w)
           /\ \/ ActiveBrick \in StopsOf(w)
              \/ w = listed /\ NextinTabList[ActiveBrick] = NULL
<1>1. HeadInv
  BY DEF Inv
<1>2. CASE NextinTabList[ActiveBrick] # NULL
  BY <1>2, NextIsStop DEF TabTarget
<1>3. CASE NextinTabList[ActiveBrick] = NULL
  <2>1. TabTarget = TabList /\ TabList # NULL
    BY <1>3, UGuiAssumption DEF TabTarget, Inv, TypeOK
  <2>2. listed \in windows /\ TabList \in StopsOf(listed)
    BY <1>1, <2>1 DEF HeadInv, Leads
  <2> QED
    BY <1>3, <2>1, <2>2
<1> QED
  BY <1>2, <1>3

\* Tab meets nothing deleted as long as what is in use is not.
LEMMA TabMeetsLive ==
  ASSUME Inv, ActiveBrick # NULL, ~InUseDeleted
  PROVE  ActiveBrick \in bricks /\ TabTarget \in bricks \union {NULL}
<1>1. HeadInv /\ WindowInv
  BY DEF Inv
<1>2. ActiveBrick \in bricks /\ listed \in windows \union {NULL}
  BY <1>1 DEF InUseDeleted, WindowInv, ActiveLive
<1>3. CASE NextinTabList[ActiveBrick] # NULL
  BY <1>2, <1>3, NextIsStop DEF TabTarget, StopsOf, BricksOf
<1>4. CASE NextinTabList[ActiveBrick] = NULL
  <2>1. TabTarget = TabList
    BY <1>4 DEF TabTarget
  <2>2. CASE listed = NULL
    BY <1>1, <1>2, <2>1, <2>2 DEF HeadInv
  <2>3. CASE listed \in windows
    <3>1. Leads(NextinTabList, TabList, StopsOf(listed))
      BY <1>1, <2>3 DEF HeadInv
    <3> QED
      BY <1>2, <2>1, <3>1 DEF Leads, StopsOf, BricksOf
  <2> QED
    BY <1>2, <2>2, <2>3
<1> QED
  BY <1>3, <1>4

\* The tab key moves the focus along the tab list.
LEMMA OnTabInv == ASSUME Inv, OnTab PROVE Inv'
<1>1. TypeOK /\ ListInv /\ HeadInv /\ WindowInv /\ LoopInv /\ OneFocus
  BY DEF Inv
<1>2. UNCHANGED <<windows, bricks, lists, heads, programVars>>
      /\ pc = "wait" /\ ActiveBrick # NULL
      /\ UNCHANGED <<Running, HotKeyNum, back, i, IsRedrawFullScreen>>
  BY DEF OnTab, Goto
<1>3. CASE ActiveLive /\ TabTarget \in bricks \union {NULL}
  <2>1. /\ focused' \in [Bricks -> BOOLEAN] /\ ActiveBrick' \in Bricks \union {NULL}
        /\ orphaned' \in BOOLEAN
        /\ ListInv' /\ HeadInv' /\ WindowInv' /\ OneFocus'
    <3>1. CASE TabTarget = NULL
      <4>1. UNCHANGED focusVars
        BY <1>3, <3>1 DEF OnTab
      <4>2. ListInv' /\ HeadInv' /\ WindowInv' /\ OneFocus'
        BY <1>2, <4>1, StepKeepsLists
      <4> QED
        BY <1>1, <4>1, <4>2 DEF focusVars, TypeOK
    <3>2. CASE TabTarget # NULL
      <4>1. SetFocus(TabTarget) /\ orphaned' = FALSE /\ TabTarget \in bricks
        BY <1>3, <3>2 DEF OnTab
      <4> QED
        BY <1>2, <4>1, SetFocusInv
    <3> QED
      BY <3>1, <3>2
  <2>2. pc' = "handler"
    BY <1>3 DEF OnTab, Goto
  <2>3. TypeOK'
    BY <1>1, <1>2, <2>1, <2>2 DEF TypeOK, lists, heads, programVars
  <2>4. LoopInv'
    BY <1>1, <1>2, <2>2 DEF LoopInv, heads
  <2> QED
    BY <2>1, <2>3, <2>4 DEF Inv
<1>4. CASE ~(ActiveLive /\ TabTarget \in bricks \union {NULL})
  <2>1. Crash
    BY <1>4 DEF OnTab, Goto, Crash
  <2>2. InUseDeleted
    BY <1>2, <1>4, TabMeetsLive DEF ActiveLive
  <2> QED
    BY <2>1, <2>2, CrashInv
<1> QED
  BY <1>3, <1>4

\* Every walk of the event loop comes round, unless the program deleted the
\* window whose lists these are.
LEMMA WalksComeRound ==
  ASSUME Inv, listed \in windows \union {NULL}
  PROVE  /\ BrickList # NULL => WalkEnds(NextinBrickList, BrickList)
         /\ TabList # NULL => WalkEnds(NextinTabList, TabList)
<1>1. CASE listed = NULL
  BY <1>1 DEF Inv, HeadInv
<1>2. CASE listed \in windows
  <2>1. /\ Leads(NextinBrickList, BrickList, BricksOf(listed))
        /\ Leads(NextinTabList, TabList, StopsOf(listed))
    BY <1>2 DEF Inv, HeadInv
  <2>2. /\ BricksOf(listed) \in SUBSET Bricks /\ BricksOf(listed) \subseteq bricks
        /\ StopsOf(listed) \in SUBSET Bricks /\ StopsOf(listed) \subseteq bricks
    BY DEF Inv, TypeOK, BricksOf, StopsOf
  <2> QED
    BY <2>1, <2>2, LeadsVisits
<1> QED
  BY <1>1, <1>2

\* The steps that change neither the lists nor the focus.
Quiet == QuitGui \/ RegisterHotKey \/ Run \/ Return \/ Timer \/ DispatchMouseMessage
           \/ KeyToBrick \/ ExeHotKey \/ Leave \/ DrawTo \/ EventHandler

\* Steps that touch no list.
LEMMA QuietKeeps ==
  ASSUME Quiet
  PROVE  UNCHANGED <<windows, bricks, lists, heads, programVars, focusVars>>
BY DEF Quiet, QuitGui, RegisterHotKey, Run, Return, Timer, DispatchMouseMessage,
       KeyToBrick, ExeHotKey, Leave, DrawTo, EventHandler, Goto, Call

\* Steps that touch no list keep the invariant.
LEMMA QuietInv == ASSUME Inv, Quiet PROVE Inv'
<1>1. UNCHANGED <<windows, bricks, lists, heads, programVars, focusVars>>
  BY QuietKeeps
<1>2. ListInv' /\ HeadInv' /\ WindowInv' /\ OneFocus'
  BY <1>1, StepKeepsLists
<1>3. TypeOK /\ HeadInv /\ WindowInv /\ LoopInv /\ MAX_HOT_KEYS \in Nat \ {0}
  BY UGuiAssumption DEF Inv
<1>4. /\ {IsRedrawFullScreen', Running'} \subseteq BOOLEAN
      /\ HotKeyNum' \in 0..MAX_HOT_KEYS /\ i' \in 0..MAX_HOT_KEYS
      /\ back' \in {"hotkey", "handler", "draw"}
      /\ \/ /\ pc' \in {"program", "callback", "draw", "wait", "hotkey", "handler"}
            /\ pc' # "program" => CurWindow # NULL
         \/ pc' = "crashed" /\ InUseDeleted
  <2> USE DEF TypeOK, LoopInv
  <2>1. CASE QuitGui
    BY <1>3, <2>1 DEF QuitGui, InProgram
  <2>2. CASE RegisterHotKey
    BY <1>3, <2>2 DEF RegisterHotKey, InProgram, TableHasRoom
  <2>3. CASE Run
    BY <1>3, <2>3 DEF Run, Goto
  <2>4. CASE Return
    BY <1>3, <2>4 DEF Return, Goto
  <2>5. CASE Timer
    BY <1>3, <2>5 DEF Timer, Goto
  <2>6. CASE DispatchMouseMessage
    BY <1>3, <2>6, WalksComeRound DEF DispatchMouseMessage, Goto, Call, InUseDeleted
  <2>7. CASE KeyToBrick
    BY <1>3, <2>7 DEF KeyToBrick, Goto, Call, WindowInv, ActiveLive, InUseDeleted
  <2>8. CASE ExeHotKey
    BY <1>3, <2>8 DEF ExeHotKey, Goto, Call
  <2>9. CASE Leave
    BY <1>3, <2>9 DEF Leave, Goto
  <2>10. CASE DrawTo
    <3>1. CASE InUseDeleted
      BY <1>3, <2>10, <3>1 DEF DrawTo, Goto
    <3>2. CASE ~InUseDeleted
      <4>1. CurWindow \in windows /\ listed \in windows \union {NULL}
        BY <1>3, <2>10, <3>2 DEF DrawTo, InUseDeleted
      <4> QED
        BY <1>3, <2>10, <4>1, WalksComeRound DEF DrawTo, Goto
    <3> QED
      BY <3>1, <3>2
  <2>11. CASE EventHandler
    BY <1>3, <2>11 DEF EventHandler, Goto, Call, InUseDeleted
  <2> QED
    BY <2>1, <2>2, <2>3, <2>4, <2>5, <2>6, <2>7, <2>8, <2>9, <2>10, <2>11 DEF Quiet
<1>5. TypeOK'
  BY <1>1, <1>3, <1>4 DEF TypeOK, lists, heads, programVars, focusVars
<1>6. LoopInv'
  BY <1>1, <1>4 DEF LoopInv, InUseDeleted, heads, programVars, focusVars
<1> QED
  BY <1>2, <1>5, <1>6 DEF Inv

\* Inv holds of all reachable states.
THEOREM GuiInvariance == Spec => []Inv
<1>1. Init => Inv
  <2> SUFFICES ASSUME Init PROVE Inv
    OBVIOUS
  <2>1. TypeOK
    <3>1. MAX_HOT_KEYS \in Nat \ {0}
      BY UGuiAssumption
    <3>2. HotKeyNum \in 0..MAX_HOT_KEYS /\ i \in 0..MAX_HOT_KEYS
      BY <3>1 DEF Init
    <3>3. /\ windows \subseteq Windows /\ bricks \subseteq Bricks
          /\ {BrickList, TabList, ActiveBrick} \subseteq Bricks \union {NULL}
          /\ {CurWindow, listed} \subseteq Windows \union {NULL}
          /\ {IsRedrawFullScreen, Running, orphaned} \subseteq BOOLEAN
      BY DEF Init
    <3>4. /\ NextinBrickList \in [Bricks -> Bricks \union {NULL}]
          /\ NextinTabList \in [Bricks -> Bricks \union {NULL}]
          /\ focused \in [Bricks -> BOOLEAN]
          /\ mBrickList \in [Windows -> Bricks \union {NULL}]
          /\ mTabList \in [Windows -> Bricks \union {NULL}]
          /\ owner \in [Bricks -> Windows \union {NULL}]
      BY DEF Init
    <3>5. pc = "program" /\ back = "draw"
      BY DEF Init
    <3> QED
      BY <3>2, <3>3, <3>4, <3>5 DEF TypeOK
  <2>2. ListInv /\ HeadInv /\ WindowInv /\ LoopInv /\ OneFocus
    BY DEF Init, ListInv, HeadInv, WindowInv, LoopInv, OneFocus, ActiveLive
  <2> QED
    BY <2>1, <2>2 DEF Inv
<1>2. Inv /\ [Next]_vars => Inv'
  <2> SUFFICES ASSUME Inv, [Next]_vars PROVE Inv'
    OBVIOUS
  <2>1. CASE Quiet
    BY <2>1, QuietInv
  <2>2. CASE UNCHANGED vars
    <3>1. UNCHANGED <<windows, bricks, lists, heads, programVars, focusVars>>
      BY <2>2 DEF vars
    <3>2. ListInv' /\ HeadInv' /\ WindowInv' /\ OneFocus'
      BY <3>1, StepKeepsLists
    <3>3. TypeOK' /\ LoopInv'
      BY <2>2 DEF Inv, TypeOK, LoopInv, InUseDeleted, vars, lists, heads, programVars,
                  focusVars, loopVars
    <3> QED
      BY <3>2, <3>3 DEF Inv
  <2>3. ASSUME NEW w \in Windows, NewWindow(w) \/ Activate(w) \/ Show(w) \/ DeleteWindow(w)
        PROVE  Inv'
    BY <2>3, NewWindowInv, ActivateInv, ShowInv, DeleteWindowInv
  <2>4. ASSUME NEW b \in Bricks, NewBrick(b) \/ AddtoTabList(b) \/ Focus(b)
        PROVE  Inv'
    BY <2>4, NewBrickInv, AddtoTabListInv, FocusInv
  <2>5. CASE OnTab
    BY <2>5, OnTabInv
  <2> QED
    BY <2>1, <2>2, <2>3, <2>4, <2>5 DEF Next, Program, Event, Loop, Quiet
<1> QED
  BY <1>1, <1>2, PTL DEF Spec

-----------------------------------------------------------------------------
(* Theorems *)

\* Every variable keeps its type, and the hot keys their table, for any number
\* of windows, bricks and keys (UGui.cpp, UGui.h).
THEOREM GuiTypeCorrect == Spec => []TypeOK
BY GuiInvariance, PTL DEF Inv

\* Until the program deletes the window that a static variable was set for, it
\* points at a live object, and no walk of Run or ~Window meets a deleted one or
\* fails to come round; only what uses such a variable after that can crash
\* (UGui.cpp:241-249 and 301-308, UGui.h:178-188).
THEOREM GuiNoDangling == Spec => []NoDangling
<1>1. Inv => NoDangling
  <2> SUFFICES ASSUME Inv PROVE NoDangling
    OBVIOUS
  <2>1. CASE listed \notin windows
    BY <2>1 DEF Inv, WindowInv, LoopInv, NoDangling
  <2>2. CASE listed \in windows
    <3>1. /\ Leads(NextinBrickList, BrickList, BricksOf(listed))
          /\ Leads(NextinTabList, TabList, StopsOf(listed))
      BY <2>2 DEF Inv, HeadInv
    <3>2. BricksOf(listed) \subseteq bricks /\ StopsOf(listed) \subseteq bricks
      BY DEF BricksOf, StopsOf
    <3>3. {BrickList, TabList} \subseteq bricks \union {NULL}
      BY <3>1, <3>2 DEF Leads
    <3> QED
      BY <3>3 DEF Inv, WindowInv, LoopInv, NoDangling
  <2> QED
    BY <2>1, <2>2
<1> QED
  BY <1>1, GuiInvariance, PTL

\* The lists that are drawn and clicked are all the bricks and all the stops of
\* the window listed last, until it is deleted (UGui.cpp:195-226, UGui.h:171-172).
THEOREM GuiListsShown == Spec => []ListsShown
<1>1. Inv => ListsShown
  <2> SUFFICES ASSUME Inv, listed \in windows
               PROVE  /\ Visited(NextinBrickList, BrickList) = BricksOf(listed)
                      /\ Visited(NextinTabList, TabList) = StopsOf(listed)
    BY DEF ListsShown, StopsOf
  <2>1. /\ Leads(NextinBrickList, BrickList, BricksOf(listed))
        /\ Leads(NextinTabList, TabList, StopsOf(listed))
    BY DEF Inv, HeadInv
  <2>2. BricksOf(listed) \in SUBSET Bricks /\ StopsOf(listed) \in SUBSET Bricks
    BY DEF Inv, TypeOK, BricksOf, StopsOf
  <2> QED
    BY <2>1, <2>2, LeadsVisits
<1> QED
  BY <1>1, GuiInvariance, PTL

\* Exactly the active brick looks focused, whatever windows were shown, unless
\* its memory is that of a brick that was deleted with the focus
\* (UGui.h:59-63 and 168-175).
THEOREM GuiOneFocus == Spec => []OneFocus
BY GuiInvariance, PTL DEF Inv

-----------------------------------------------------------------------------
(* The lists implement sets *)

ContentIs ==
  /\ Content = [w \in Windows |-> BricksOf(w)]
  /\ Stops = [w \in Windows |-> StopsOf(w)]

LEMMA ContentOfLists == ASSUME Inv PROVE ContentIs
<1>1. ASSUME NEW w \in Windows
      PROVE  Content[w] = BricksOf(w) /\ Stops[w] = StopsOf(w)
  <2>1. BricksOf(w) \in SUBSET Bricks /\ StopsOf(w) \in SUBSET Bricks
    BY DEF Inv, TypeOK, BricksOf, StopsOf
  <2>2. CASE w \in windows
    <3>1. /\ Leads(NextinBrickList, mBrickList[w], BricksOf(w))
          /\ Leads(NextinTabList, mTabList[w], StopsOf(w))
      BY <2>2 DEF Inv, ListInv
    <3>2. /\ Visited(NextinBrickList, mBrickList[w]) = BricksOf(w)
          /\ Visited(NextinTabList, mTabList[w]) = StopsOf(w)
      BY <2>1, <3>1, LeadsVisits
    <3> QED
      BY <2>2, <3>2 DEF Content, Stops
  <2>3. CASE w \notin windows
    <3>1. StopsOf(w) = {}
      BY <2>3 DEF Inv, WindowInv, StopsOf, BricksOf
    <3> QED
      BY <2>3, <3>1 DEF Content, Stops
  <2> QED
    BY <2>2, <2>3
<1> QED
  BY <1>1 DEF ContentIs, Content, Stops

\* Steps that give no brick or stop to any window, and take none.
LEMMA SetsKept ==
  ASSUME ContentIs, ContentIs', UNCHANGED <<bricks, owner, NextinTabList>>
  PROVE  UNCHANGED <<Content, Stops>>
<1>1. \A w : BricksOf(w)' = BricksOf(w)
  BY DEF BricksOf
<1>2. \A w : StopsOf(w)' = StopsOf(w)
  BY <1>1 DEF StopsOf
<1> QED
  BY <1>1, <1>2 DEF ContentIs

LEMMA NewWindowIsOpen ==
  ASSUME ContentIs, ContentIs', NEW w \in Windows, NewWindow(w)
  PROVE  D!Open(w)
BY SetsKept DEF NewWindow, D!Open, focusVars

LEMMA ActivateIsActivate ==
  ASSUME ContentIs, ContentIs', NEW w \in Windows, Activate(w)
  PROVE  D!Activate(w)
BY SetsKept DEF Activate, D!Activate, focusVars, lists

\* What crashes changes no window.
LEMMA CrashIsStutter ==
  ASSUME ContentIs, ContentIs', Crash
  PROVE  UNCHANGED D!vars
BY SetsKept DEF Crash, D!vars, lists, heads, focusVars, programVars

LEMMA FocusIsFocus ==
  ASSUME Inv, ContentIs, ContentIs', NEW b \in Bricks, Focus(b)
  PROVE  D!Focus(b) \/ UNCHANGED D!vars
<1>1. CASE ~ActiveLive
  BY <1>1, CrashIsStutter DEF Focus
<1>2. CASE ActiveLive
  <2>1. UNCHANGED <<Content, Stops>>
    BY <1>2, SetsKept DEF Focus, programVars, lists
  <2>2. CurWindow \in windows /\ CurWindow \in Windows /\ b \in BricksOf(CurWindow)
    BY DEF Focus, Inv, WindowInv, TypeOK, BricksOf
  <2>3. b \in Content[CurWindow]
    BY <2>2 DEF ContentIs
  <2> QED
    BY <1>2, <2>1, <2>2, <2>3 DEF Focus, D!Focus, SetFocus, heads, programVars
<1> QED
  BY <1>1, <1>2

LEMMA ShowIsShow ==
  ASSUME Inv, ContentIs, ContentIs', NEW w \in Windows, Show(w)
  PROVE  D!Show(w) \/ UNCHANGED D!vars
<1>1. CASE ~ActiveLive
  BY <1>1, CrashIsStutter DEF Show
<1>2. CASE ActiveLive
  <2>1. UNCHANGED <<Content, Stops>>
    BY <1>2, SetsKept DEF Show, lists
  <2>2. Leads(NextinTabList, mTabList[w], StopsOf(w)) /\ Stops[w] = StopsOf(w)
    BY DEF Show, Inv, ListInv, ContentIs
  <2>3. IF Stops[w] = {} THEN ActiveBrick' = NULL ELSE ActiveBrick' \in Stops[w]
    BY <1>2, <2>2 DEF Show, ShowFocus, Leads
  <2> QED
    BY <1>2, <2>1, <2>3 DEF Show, D!Show
<1> QED
  BY <1>1, <1>2

LEMMA NewBrickIsAdd ==
  ASSUME Inv, ContentIs, ContentIs', NEW b \in Bricks, NewBrick(b), ListLive
  PROVE  D!Add(b)
<1>1. CurWindow \in windows /\ CurWindow \in Windows /\ listed = CurWindow
  BY MayAddTo DEF NewBrick, Inv, TypeOK
<1>2. /\ BricksOf(CurWindow)' = BricksOf(CurWindow) \union {b}
      /\ \A v \in Windows \ {CurWindow} : BricksOf(v)' = BricksOf(v)
      /\ \A v \in Windows : StopsOf(v)' = StopsOf(v)
  BY <1>1, NewBrickSets DEF Inv
<1>3. \A v \in Windows : b \notin Content[v]
  BY DEF NewBrick, ContentIs, BricksOf
<1>4. Stops' = Stops
  BY <1>2 DEF ContentIs
<1>5. Content' = [Content EXCEPT ![CurWindow] = @ \union {b}]
  <2>1. Content' = [v \in Windows |-> BricksOf(v)']
    BY DEF ContentIs
  <2>2. ASSUME NEW v \in Windows
        PROVE  BricksOf(v)' = IF v = CurWindow THEN BricksOf(v) \union {b} ELSE BricksOf(v)
    <3>1. CASE v = CurWindow
      BY <1>2, <3>1 DEF NewBrick
    <3>2. CASE v # CurWindow
      BY <1>2, <3>2
    <3> QED
      BY <3>1, <3>2
  <2> QED
    BY <1>1, <2>1, <2>2 DEF ContentIs
<1> QED
  BY <1>1, <1>3, <1>4, <1>5 DEF NewBrick, D!Add

LEMMA AddtoTabListIsAddStop ==
  ASSUME Inv, ContentIs, ContentIs', NEW b \in Bricks, AddtoTabList(b)
  PROVE  D!AddStop(b)
<1>1. CurWindow \in windows /\ CurWindow \in Windows /\ listed = CurWindow
  BY MayAddTo DEF AddtoTabList, Inv, TypeOK
<1>2. /\ \A v : BricksOf(v)' = BricksOf(v)
      /\ StopsOf(CurWindow)' = StopsOf(CurWindow) \union {b}
      /\ \A v \in Windows \ {CurWindow} : StopsOf(v)' = StopsOf(v)
  BY AddtoTabListSets
<1>3. b \in Content[CurWindow]
  BY <1>1 DEF AddtoTabList, ContentIs, BricksOf
<1>4. Content' = Content
  BY <1>2 DEF ContentIs
<1>5. Stops' = [Stops EXCEPT ![CurWindow] = @ \union {b}]
  <2>1. Stops' = [v \in Windows |-> StopsOf(v)']
    BY DEF ContentIs
  <2>2. ASSUME NEW v \in Windows
        PROVE  StopsOf(v)' = IF v = CurWindow THEN StopsOf(v) \union {b} ELSE StopsOf(v)
    <3>1. CASE v = CurWindow
      BY <1>2, <3>1 DEF AddtoTabList
    <3>2. CASE v # CurWindow
      BY <1>2, <3>2
    <3> QED
      BY <3>1, <3>2
  <2> QED
    BY <1>1, <2>1, <2>2 DEF ContentIs
<1> QED
  BY <1>1, <1>3, <1>4, <1>5, UGuiAssumption
     DEF AddtoTabList, D!AddStop, focusVars, programVars

LEMMA DeleteWindowIsClose ==
  ASSUME Inv, ContentIs, ContentIs', NEW w \in Windows, DeleteWindow(w)
  PROVE  D!Close(w)
<1>1. /\ w \in windows /\ windows' = windows \ {w}
      /\ CurWindow' = CurWindow /\ listed' = listed /\ ActiveBrick' = ActiveBrick
  BY DeleteWindowDoes
<1>3. /\ BricksOf(w)' = {}
      /\ \A v \in Windows \ {w} : BricksOf(v)' = BricksOf(v) /\ StopsOf(v)' = StopsOf(v)
  BY DeleteWindowSets
<1>5. Content' = [Content EXCEPT ![w] = {}]
  <2>1. Content' = [v \in Windows |-> BricksOf(v)']
    BY DEF ContentIs
  <2>2. \A v \in Windows : BricksOf(v)' = IF v = w THEN {} ELSE BricksOf(v)
    BY <1>3
  <2> QED
    BY <2>1, <2>2 DEF ContentIs
<1>6. Stops' = [Stops EXCEPT ![w] = {}]
  <2>1. Stops' = [v \in Windows |-> StopsOf(v)']
    BY DEF ContentIs
  <2>2. StopsOf(w)' = {}
    BY <1>3 DEF StopsOf
  <2>3. \A v \in Windows : StopsOf(v)' = IF v = w THEN {} ELSE StopsOf(v)
    BY <1>3, <2>2
  <2> QED
    BY <2>1, <2>3 DEF ContentIs
<1> QED
  BY <1>1, <1>5, <1>6 DEF D!Close

LEMMA OnTabIsTab ==
  ASSUME Inv, ContentIs, ContentIs', OnTab
  PROVE  D!Tab \/ UNCHANGED D!vars
<1>1. /\ UNCHANGED <<Content, Stops>> /\ ActiveBrick # NULL
      /\ UNCHANGED <<windows, CurWindow, listed>>
  BY SetsKept DEF OnTab, Goto, lists, heads, programVars
<1>2. CASE ActiveBrick' = ActiveBrick
  BY <1>1, <1>2 DEF D!vars
<1>3. CASE ActiveBrick' # ActiveBrick
  <2>1. TabTarget \in bricks /\ ActiveBrick \in bricks /\ ActiveBrick' = TabTarget
    BY <1>1, <1>3 DEF OnTab, SetFocus, focusVars, ActiveLive
  <2>2. PICK w \in windows :
          /\ TabTarget \in StopsOf(w)
          /\ \/ ActiveBrick \in StopsOf(w)
             \/ w = listed /\ NextinTabList[ActiveBrick] = NULL
    BY <1>1, <2>1, TabFindsStop
  <2>3. w \in Windows /\ \A v \in Windows : Stops[v] = StopsOf(v)
    BY DEF Inv, TypeOK, ContentIs
  <2>4. NextinTabList[ActiveBrick] = NULL => \A v \in Windows : ActiveBrick \notin Stops[v]
    BY <2>3 DEF StopsOf
  <2> QED
    BY <1>1, <1>3, <2>1, <2>2, <2>3, <2>4 DEF D!Tab
<1> QED
  BY <1>2, <1>3

\* The lists implement windows that hold sets of bricks, for any number of
\* windows and bricks (UGui.cpp:195-249, UGui.h:59-63 and 168-186).
THEOREM GuiKeepsWindows == Spec => KeepsWindows
<1>1. Init => D!Init
  <2> SUFFICES ASSUME Init PROVE D!Init
    OBVIOUS
  <2>1. \A w : BricksOf(w) = {}
    BY DEF Init, BricksOf
  <2>2. Content = [w \in Windows |-> {}] /\ Stops = [w \in Windows |-> {}]
    BY <2>1 DEF Init, Content, Stops
  <2> QED
    BY <2>2 DEF Init, D!Init
<1>2. Inv /\ ContentIs /\ ContentIs' /\ [Next]_vars => [D!Next]_(D!vars)
  <2> SUFFICES ASSUME Inv, ContentIs, ContentIs', [Next]_vars
               PROVE  D!Next \/ UNCHANGED D!vars
    OBVIOUS
  <2>1. CASE Quiet \/ UNCHANGED vars
    <3>1. UNCHANGED <<windows, bricks, lists, heads, programVars, focusVars>>
      BY <2>1, QuietKeeps DEF vars
    <3>2. UNCHANGED <<Content, Stops>>
      BY <3>1, SetsKept DEF lists, programVars
    <3> QED
      BY <3>1, <3>2 DEF D!vars, heads, programVars, focusVars
  <2>2. ASSUME NEW w \in Windows, NewWindow(w) \/ Activate(w) \/ Show(w) \/ DeleteWindow(w)
        PROVE  D!Next \/ UNCHANGED D!vars
    <3>1. D!Open(w) \/ D!Activate(w) \/ D!Show(w) \/ D!Close(w) \/ UNCHANGED D!vars
      BY <2>2, NewWindowIsOpen, ActivateIsActivate, ShowIsShow, DeleteWindowIsClose
    <3> QED
      BY <3>1 DEF D!Next
  <2>3. ASSUME NEW b \in Bricks, NewBrick(b) \/ AddtoTabList(b) \/ Focus(b)
        PROVE  D!Next \/ UNCHANGED D!vars
    <3>1. NewBrick(b) /\ ~ListLive => UNCHANGED D!vars
      BY CrashIsStutter DEF NewBrick
    <3>2. D!Add(b) \/ D!AddStop(b) \/ D!Focus(b) \/ UNCHANGED D!vars
      BY <2>3, <3>1, NewBrickIsAdd, AddtoTabListIsAddStop, FocusIsFocus
    <3> QED
      BY <3>2 DEF D!Next
  <2>4. CASE OnTab
    BY <2>4, OnTabIsTab DEF D!Next
  <2> QED
    BY <2>1, <2>2, <2>3, <2>4 DEF Next, Program, Event, Loop, Quiet
<1>3. Inv => ContentIs
  BY ContentOfLists
<1> QED
  BY <1>1, <1>2, <1>3, GuiInvariance, PTL DEF Spec, KeepsWindows, D!Spec

=============================================================================

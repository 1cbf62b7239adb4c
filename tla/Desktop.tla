------------------------------ MODULE Desktop -------------------------------
(***************************************************************************)
(* What the window library promises a program: windows that hold bricks,   *)
(* some of them tab stops, one window in front, at most one brick with the *)
(* focus.  There are no pointers here; UGui implements these actions with  *)
(* circular lists and static list heads.                                   *)
(***************************************************************************)
CONSTANTS Windows, Bricks, NULL

VARIABLES
  open,      \* the windows that exist
  content,   \* the bricks of each window
  stops,     \* those of them that Tab visits
  \* NULL if there was none yet; a closed one until another takes its place
  front,     \* the window that gets the events
  listed,    \* the window that is drawn and that new bricks go to
  focus      \* the brick that gets the keys

vars == <<open, content, stops, front, listed, focus>>

Init ==
  /\ open = {} /\ front = NULL /\ listed = NULL /\ focus = NULL
  /\ content = [w \in Windows |-> {}]
  /\ stops = [w \in Windows |-> {}]

Open(w) ==
  /\ w \notin open
  /\ open' = open \union {w} /\ front' = w /\ listed' = w
  /\ UNCHANGED <<content, stops, focus>>

Add(b) ==
  /\ front \in open /\ listed = front
  /\ \A w \in Windows : b \notin content[w]
  /\ content' = [content EXCEPT ![front] = @ \union {b}]
  /\ UNCHANGED <<open, stops, front, listed, focus>>

AddStop(b) ==
  /\ front \in open /\ listed = front /\ b \in content[front]
  /\ stops' = [stops EXCEPT ![front] = @ \union {b}]
  /\ UNCHANGED <<open, content, front, listed, focus>>

Focus(b) ==
  /\ front \in open /\ b \in content[front]
  /\ focus' = b
  /\ UNCHANGED <<open, content, stops, front, listed>>

Activate(w) ==
  /\ w \in open
  /\ front' = w
  /\ UNCHANGED <<open, content, stops, listed, focus>>

\* The window comes to the front, and one of its stops gets the focus.
Show(w) ==
  /\ w \in open
  /\ front' = w /\ listed' = w
  /\ IF stops[w] = {} THEN focus' = NULL ELSE focus' \in stops[w]
  /\ UNCHANGED <<open, content, stops>>

\* The window and its bricks, and no others, go; what names them still does.
Close(w) ==
  /\ w \in open
  /\ open' = open \ {w}
  /\ content' = [content EXCEPT ![w] = {}]
  /\ stops' = [stops EXCEPT ![w] = {}]
  /\ UNCHANGED <<front, listed, focus>>

\* The focus goes to another stop of the brick's window; from a brick that is
\* no stop it goes to a stop of the window that is drawn.
Tab ==
  /\ focus # NULL
  /\ \E w \in open :
       /\ \/ focus \in stops[w]
          \/ w = listed /\ \A v \in Windows : focus \notin stops[v]
       /\ focus' \in stops[w] /\ focus' # focus
  /\ UNCHANGED <<open, content, stops, front, listed>>

Next ==
  \/ \E w \in Windows : Open(w) \/ Activate(w) \/ Show(w) \/ Close(w)
  \/ \E b \in Bricks : Add(b) \/ AddStop(b) \/ Focus(b)
  \/ Tab

Spec == Init /\ [][Next]_vars
=============================================================================

------------------------------ MODULE FFPlayer ------------------------------
(***************************************************************************)
(* The video player of book/ffmpeg/ffplayer/fplayer.cpp over the decoder   *)
(* protocol of FFDecoder, one run of the program after the other; between  *)
(* the runs other programs use the protocol.  Its event loop waits for a   *)
(* key, the mouse or the timer, and takes the first of them that is ready. *)
(***************************************************************************)
EXTENDS FFDecoder

CONSTANTS
  FULL_WIDTH, FULL_HEIGHT,   \* of the screen
  FAXTOR_NUM                 \* the fixed point's 1000

ASSUME FFPlayerAssumption == FAXTOR_NUM \in Nat \ {0}

VARIABLES
  ui,          \* "off", "size", "loop", "frame", or "crashed"
  pFFDecoder,
  Width, Height,
  PlayPause,
  input,       \* a key stroke or a movement of the mouse waits to be read
  opened       \* the instances that players have opened, none of them closed

uiVars == <<ui, pFFDecoder, Width, Height, PlayPause, input>>
pvars == <<vars, uiVars, opened>>

PInit ==
  /\ Init
  /\ ui = "off" /\ pFFDecoder = NULL /\ Width = 0 /\ Height = 0
  /\ PlayPause = "playing" /\ input = FALSE /\ opened = {}

\* ffMainGui opens the video; the status is not looked at.
Start(h, v) ==
  /\ ui = "off"
  /\ OpenVideo2(h, v)
  /\ pFFDecoder' = IF status' = "success" THEN h ELSE NULL
  /\ PlayPause' = "playing"
  /\ ui' = "size"
  /\ opened' = opened \union {h}
  /\ UNCHANGED <<Width, Height, input>>

\* The rest of ffMainGui up to the event loop.
QueryFrameSize ==
  /\ ui = "size"
  /\ IF pFFDecoder = NULL
     THEN ui' = "crashed" /\ UNCHANGED <<Width, Height>>
     ELSE /\ Width' = size[pFFDecoder][1] /\ Height' = size[pFFDecoder][2]
          /\ ui' = "loop"
  /\ UNCHANGED <<vars, pFFDecoder, PlayPause, input, opened>>

Input ==
  /\ ui \in {"loop", "frame"} /\ ~input
  /\ input' = TRUE
  /\ UNCHANGED <<vars, ui, pFFDecoder, Width, Height, PlayPause, opened>>

\* WndProc, UI_TIMER: DecShowFrame asks for a frame.  Wait returns the timer
\* only if no key and no mouse movement waits.
Timer ==
  /\ ui = "loop" /\ ~input /\ PlayPause = "playing"
  /\ QueryFrame(pFFDecoder)
  /\ ui' = "frame"
  /\ UNCHANGED <<pFFDecoder, Width, Height, PlayPause, input, opened>>

\* DecShowFrame copies it, if there is one, and the loop goes on.
ShowFrame ==
  /\ ui = "frame" /\ pc = "idle" /\ status # "fault"
  /\ ui' = "loop"
  /\ UNCHANGED <<vars, pFFDecoder, Width, Height, PlayPause, input, opened>>

\* Wait returns the key or the mouse, and Run reads it.
ReadInput == ui = "loop" /\ input /\ input' = FALSE

\* A key or movement that means nothing to the player.
OtherInput ==
  /\ ReadInput
  /\ UNCHANGED <<vars, ui, pFFDecoder, Width, Height, PlayPause, opened>>

\* The P key, or Enter or a click on the button.
KeyPause ==
  /\ ReadInput
  /\ PlayPause' = IF PlayPause = "playing" THEN "pause" ELSE "playing"
  /\ UNCHANGED <<vars, ui, pFFDecoder, Width, Height, opened>>

\* Variant: the larger factor is taken.
Factor_Larger(fw, fh) == IF fw > fh THEN fw ELSE fh
Factor(fw, fh) == IF fw > fh THEN fh ELSE fw

\* Fill the screen, as far as the aspect ratio lets it.
FullSize ==
  LET f == Factor((FULL_WIDTH * FAXTOR_NUM) \div Width,
                  (FULL_HEIGHT * FAXTOR_NUM) \div Height)
  IN  <<(Width * f) \div FAXTOR_NUM, (Height * f) \div FAXTOR_NUM>>

\* The event loop is left; the video is not closed.
Finish ==
  /\ ui' = "off" /\ pFFDecoder' = NULL /\ Width' = 0 /\ Height' = 0
  /\ PlayPause' = "playing"

KeyFull ==
  /\ ReadInput
  /\ SetFrameSize(pFFDecoder, FullSize)
  /\ IF status' = "success"
     THEN /\ Width' = FullSize[1] /\ Height' = FullSize[2]
          /\ UNCHANGED <<ui, pFFDecoder, PlayPause>>
     ELSE Finish
  /\ UNCHANGED opened

KeyQuit == ReadInput /\ Finish /\ UNCHANGED <<vars, opened>>

-----------------------------------------------------------------------------
\* One turn of the loop of Run.
Turn == Timer \/ OtherInput \/ KeyPause \/ KeyFull \/ KeyQuit

Player ==
  \/ \E h \in Handles, v \in Videos : Start(h, v)
  \/ QueryFrameSize \/ ShowFrame \/ Turn

Others ==
  LET Theirs == Instance \ opened IN
  /\ ui = "off"
  /\ \/ \E h \in Theirs : CloseVideo(h) \/ QueryFrame(h)
     \/ \E h \in Theirs, v \in Videos : OpenVideo(h, v)
     \/ \E h \in Theirs \ {Global}, v \in Videos : OpenVideo2(h, v)
     \/ \E h \in Theirs, s \in Sizes : SetFrameSize(h, s)
  /\ UNCHANGED <<uiVars, opened>>

Decoder == GetNextFrame /\ UNCHANGED <<uiVars, opened>>

PNext == Player \/ Input \/ Others \/ Decoder

PSpec == PInit /\ [][PNext]_pvars

\* The decoder's and the player's code runs, and the loop turns when there is
\* something for it to do: the timer is periodic, so there is while a video
\* plays.  Nothing says that the timer gets a turn.
PFairSpec ==
  PSpec /\ WF_pvars(Decoder) /\ WF_pvars(ShowFrame) /\ WF_pvars(Turn)

-----------------------------------------------------------------------------
(* Properties *)

\* What DecShowFrame copies is the frame the decoder made, whole, and it fits
\* the screen, whatever was resized before (Width and Height follow size).
CopyFits ==
  ui = "frame" /\ pc = "idle" /\ status = "frame" =>
    /\ <<Width, Height>> = bufSize[pFFDecoder]
    /\ Width <= FULL_WIDTH /\ Height <= FULL_HEIGHT

Smooth == ui \in {"loop", "frame"} /\ PlayPause = "playing" /\ pFFDecoder \notin trouble

\* A video that plays, is not paused or quit and decodes without trouble is
\* shown to its last frame, unless keys and mouse movements never cease: those
\* are taken before the timer, so they may keep it from its turn for ever.
PlaysToEnd ==
  \/ []<><<Input>>_pvars
  \/ Smooth ~> \/ ~Smooth
               \/ stream[pFFDecoder].shown = Frames(stream[pFFDecoder].file)
=============================================================================

------------------------------ MODULE FFDecoder ------------------------------
(***************************************************************************)
(* The video decoder protocol of book/ffmpeg/ffdecoder/ffdecoder.c: the    *)
(* instances (the driver's own, and one per OpenVideo2), the libav objects *)
(* each holds, and GetNextFrame, whose packet is static and so shared by   *)
(* all of them.                                                            *)
(*                                                                         *)
(* A call runs to its end before the next.  All but QueryFrame are one     *)
(* step; QueryFrame is one step per packet read and per packet decoded.    *)
(* libav is external: a decode may fail, use part of its packet or none of *)
(* it, and holds back as many frames as the codec's delay.                 *)
(***************************************************************************)
EXTENDS Integers, Sequences, FiniteSets

CONSTANTS
  Global,     \* gFFDecoderPrivate
  Handles,    \* the contexts OpenVideo2 may allocate
  NULL,
  Videos,     \* files: [packets, delay, size], a packet [video, bytes]
  Sizes,      \* frame sizes that callers ask for
  NullAlloc,  \* the allocations that may return NULL
  MaxForgotten \* bound: how often a video is opened over one half released

Instance == {Global} \union Handles

\* What SAFE_FREE and SAFE_CLOSE2 release, by field of FFDECODER_PRIVATE_DATA.
Field == {"pFormatCtx", "pCodecCtx", "pFrame", "pFrameBGRA", "buffer",
          "img_convert_ctx"}

ASSUME FFDecoderAssumption ==
  /\ IsFiniteSet(Handles)
  /\ Global \notin Handles /\ NULL \notin Instance \union Videos
  /\ NULL \notin [of : Instance, file : Videos, bytes : Nat]
  /\ NullAlloc \subseteq {"pFrame", "pFrameBGRA", "buffer", "img_convert_ctx"}
  /\ MaxForgotten \in Nat
  /\ \A v \in Videos :
       /\ v.packets \in Seq([video : BOOLEAN, bytes : Nat \ {0}])
       /\ v.delay \in Nat

VARIABLES
  mem,        \* the context of an instance: "none", "live", "freed", "lost"
  res,        \* the fields of the context that are not NULL
  stream,     \* of an open instance: [file, pos, held, shown]
  size,       \* img_convert_ctx's dstW and dstH
  bufSize,    \* the size that buffer was allocated for
  alive,      \* how many objects of each kind are allocated
  packet,     \* GetNextFrame's static packet, NULL if its data is NULL
  bytesRemaining,
  packets,    \* how many packets are allocated
  pc,         \* where QueryFrame is
  cur,        \* the instance of the last QueryFrame, or of the call that faulted
  status,     \* what the last call returned; "none" in a query, "fault" if it used a pointer that
              \* is NULL or freed, and everything stopped
  op,         \* the call that faulted
  got,        \* the last call was a QueryFrame that finished decoding a frame
  \* history, for the properties
  forgotten,  \* how many videos were opened over one half released
  trouble,    \* instances whose video was not read or decoded smoothly
  leftover    \* the last decode failed or did not use up its packet

heapVars == <<mem, res, size, bufSize, alive, forgotten>>
packetVars == <<packet, bytesRemaining, packets, leftover>>
vars == <<heapVars, stream, packetVars, pc, op, cur, status, got, trouble>>

NoStream == [file |-> NULL, pos |-> 0, held |-> 0, shown |-> 0]
NoSize == <<0, 0>>

Init ==
  /\ mem = [h \in Instance |-> IF h = Global THEN "live" ELSE "none"]
  /\ res = [h \in Instance |-> {}]
  /\ stream = [h \in Instance |-> NoStream]
  /\ size = [h \in Instance |-> NoSize] /\ bufSize = size
  /\ alive = [k \in Field |-> 0]
  /\ packet = NULL /\ bytesRemaining = 0 /\ packets = 0
  /\ pc = "idle" /\ op = "none" /\ cur = Global /\ status = "success"
  /\ got = FALSE /\ forgotten = 0 /\ trouble = {} /\ leftover = FALSE

-----------------------------------------------------------------------------
(* What a caller may do *)

\* A caller has the driver's own instance and those OpenVideo2 gave it, and may
\* call anything at any time.
Ready == pc = "idle" /\ status # "fault"

Fault(o, h) == status' = "fault" /\ op' = o /\ cur' = h

-----------------------------------------------------------------------------
(* Opening and closing *)

In(k, S) == IF k \in S THEN 1 ELSE 0
Allocate(new, old) == alive' = [k \in Field |-> alive[k] + In(k, new) - In(k, old)]

\* What SetFrameSize leaves of a video when it fails.
Halved == Field \ {"buffer", "pFrameBGRA"}

\* Where OpenVideoInternal gives up, and what it has by then.
OpenStep == {"file", "stream", "frame", "done"}
Acquired(at) ==
  CASE at = "file" -> {}
    [] at = "stream" -> {"pFormatCtx"}
    [] at = "frame" -> {"pFormatCtx", "pCodecCtx", "pFrame"}
    [] at = "done" -> Field

\* Variant: the frame allocated first is forgotten.
FailedToOpen_Frame(S) == S \ {"pFrame"}
FailedToOpen(S) == S

\* What CloseVideo frees first; an instance without a buffer counts as closed.
LastVideo(h) == IF "buffer" \in res[h] THEN res[h] ELSE {}

OpenVideoInternal(h, v, at, nulls) ==
  LET new    == Acquired(at) \ nulls
      closed == LastVideo(h)
  IN IF at = "done"
     THEN /\ Allocate(new, closed)
          /\ res' = [res EXCEPT ![h] = new]
          /\ stream' = [stream EXCEPT ![h] = [NoStream EXCEPT !.file = v]]
          /\ size' = [size EXCEPT ![h] = v.size]
          /\ bufSize' = [bufSize EXCEPT ![h] = v.size]
          /\ forgotten' = forgotten + (IF res[h] = closed THEN 0 ELSE 1)
          /\ forgotten' <= MaxForgotten
          /\ trouble' = trouble \ {h}
     ELSE /\ alive' = [k \in Field |-> alive[k] + In(k, new)
                         - In(k, FailedToOpen(new)) - In(k, closed)]
          /\ res' = [res EXCEPT ![h] = @ \ closed]
          /\ stream' = [stream EXCEPT ![h] = IF closed = {} THEN @ ELSE NoStream]
          /\ size' = [size EXCEPT ![h] = IF closed = {} THEN @ ELSE NoSize]
          /\ bufSize' = [bufSize EXCEPT ![h] = IF closed = {} THEN @ ELSE NoSize]
          /\ UNCHANGED <<forgotten, trouble>>

\* The ways an open can go; all but avcodec_alloc_frame's second are unchecked.
OpenOutcome ==
  {[at |-> a, nulls |-> {}] : a \in {"file", "stream"}}
  \union {[at |-> "frame", nulls |-> n \ {"pFrameBGRA"}] :
             n \in {s \in SUBSET NullAlloc : "pFrameBGRA" \in s}}
  \union {[at |-> "done", nulls |-> n] : n \in SUBSET (NullAlloc \ {"pFrameBGRA"})}

OpenVideo(h, v) ==
  /\ Ready /\ mem[h] = "live"
  /\ IF h # Global /\ LastVideo(h) # {}
     THEN /\ Fault("open", h)   \* CloseVideo has freed the context
          /\ UNCHANGED <<heapVars, stream, trouble>>
     ELSE \E o \in OpenOutcome :
            /\ OpenVideoInternal(h, v, o.at, o.nulls)
            /\ status' = IF o.at = "done" THEN "success" ELSE "error"
            /\ UNCHANGED <<mem, op, cur>>
  /\ got' = FALSE
  /\ UNCHANGED <<packetVars, pc>>

\* If the open fails, FreePool is given a pointer into the context and refuses
\* it, and the caller's handle is NULL.
OpenVideo2(h, v) ==
  /\ Ready /\ mem[h] = "none"
  /\ \E o \in OpenOutcome :
       /\ OpenVideoInternal(h, v, o.at, o.nulls)
       /\ status' = IF o.at = "done" THEN "success" ELSE "error"
       /\ mem' = [mem EXCEPT ![h] = IF o.at = "done" THEN "live" ELSE "lost"]
  /\ got' = FALSE
  /\ UNCHANGED <<packetVars, pc, op, cur>>

\* Variant: the scaler is forgotten.
Closed_Scaler(h) == res[h] \ {"img_convert_ctx"}
Closed(h) == res[h]

CloseVideo(h) ==
  /\ Ready /\ mem[h] = "live"
  /\ alive' = [k \in Field |-> alive[k] - In(k, Closed(h))]
  /\ res' = [res EXCEPT ![h] = {}]
  /\ stream' = [stream EXCEPT ![h] = NoStream]
  /\ mem' = [mem EXCEPT ![h] = IF h = Global THEN @ ELSE "freed"]
  /\ size' = [size EXCEPT ![h] = NoSize]
  /\ bufSize' = [bufSize EXCEPT ![h] = NoSize]
  /\ trouble' = trouble \ {h}
  /\ status' = "success" /\ got' = FALSE
  /\ UNCHANGED <<packetVars, pc, op, cur, forgotten>>

-----------------------------------------------------------------------------
(* SetFrameSize *)

\* Variant: the scaler keeps the size it had.
ScaledTo_Old(h, s) == size[h]
ScaledTo(h, s) == s

\* Variant: the buffer is not allocated again.
Resized_NoBuffer(h) == (res[h] \ {"buffer"}) \union {"pFrameBGRA", "img_convert_ctx"}
Resized(h) == res[h] \union {"buffer", "pFrameBGRA", "img_convert_ctx"}

\* The size is looked at first: an instance without a video has none, and one
\* of the right size stays as it is, even if it lacks a frame.
SetFrameSize(h, s) ==
  /\ Ready /\ mem[h] = "live"
  /\ IF "img_convert_ctx" \notin res[h]
     THEN Fault("resize", h) /\ UNCHANGED <<res, size, bufSize, alive>>
     ELSE /\ UNCHANGED <<op, cur>>
          /\ \/ /\ size[h] = s
                /\ status' = "success"
                /\ UNCHANGED <<res, size, bufSize, alive>>
             \/ /\ size[h] # s /\ "pFrameBGRA" \in NullAlloc
                /\ res' = [res EXCEPT ![h] = @ \ {"buffer", "pFrameBGRA"}]
                /\ Allocate({}, res[h] \ res'[h])
                /\ status' = "no_media"
                /\ UNCHANGED <<size, bufSize>>
             \/ /\ size[h] # s
                /\ \E nulls \in SUBSET (NullAlloc \ {"pFrame", "pFrameBGRA"}) :
                     res' = [res EXCEPT ![h] = Resized(h) \ nulls]
                /\ Allocate(res'[h] \ res[h], res[h] \ res'[h])
                /\ size' = [size EXCEPT ![h] = ScaledTo(h, s)]
                /\ bufSize' = [bufSize EXCEPT ![h] = s]
                /\ status' = "success"
  /\ got' = FALSE
  /\ UNCHANGED <<mem, forgotten, stream, packetVars, pc, trouble>>

-----------------------------------------------------------------------------
(* QueryFrame and GetNextFrame *)

QueryFrame(h) ==
  /\ Ready /\ mem[h] = "live"
  /\ IF "pCodecCtx" \notin res[h]
     THEN status' = "no_media" /\ UNCHANGED <<pc, cur>>
     ELSE /\ cur' = h
          /\ pc' = IF bytesRemaining > 0 THEN "decode" ELSE "read"
          /\ status' = "none"
  /\ got' = FALSE
  /\ UNCHANGED <<heapVars, stream, packetVars, op, trouble>>

\* GetNextFrame returns r; QueryFrame scales the frame if it is told of one.
Return(r) ==
  /\ pc' = "idle"
  /\ IF r /\ ~ {"pFrame", "pFrameBGRA", "buffer", "img_convert_ctx"} \subseteq res[cur]
     THEN Fault("query", cur)
     ELSE status' = (IF r THEN "frame" ELSE "end") /\ UNCHANGED <<op, cur>>

\* The frames in the first n packets of a file, and in all of them.
FramesTo(v, n) == Cardinality({i \in 1..n : v.packets[i].video})
Frames(v) == FramesTo(v, Len(v.packets))

\* The codec gives a frame of the stream s; no more are counted than one too many.
Shown(s) == [s EXCEPT !.shown = IF @ > Frames(s.file) THEN @ ELSE @ + 1]

\* Variant: what was used is not subtracted.
Used_Never(n) == bytesRemaining
Used(n) == bytesRemaining - n

\* avcodec_decode_video2 on the whole packet, however much of it is left; the
\* return under "if(frameFinished)" has lost its braces.
DecodePacket ==
  LET s == stream[cur] IN
  /\ pc = "decode"
  /\ \/ /\ Return(FALSE)
        /\ leftover' = TRUE
        /\ trouble' = trouble \union {cur}
        /\ UNCHANGED <<stream, bytesRemaining, got>>
     \/ \E n \in 0..packet.bytes :
          /\ bytesRemaining' = Used(n)
          /\ got' = (n > 0 /\ s.held = s.file.delay)
          /\ stream' = [stream EXCEPT ![cur] =
               IF n = 0 THEN s
               ELSE IF got' THEN Shown(s) ELSE [s EXCEPT !.held = @ + 1]]
          /\ leftover' = (n < bytesRemaining)
          /\ trouble' = IF n = packet.bytes /\ ~leftover
                        THEN trouble ELSE trouble \union {cur}
          /\ Return(TRUE)
  /\ UNCHANGED <<heapVars, packet, packets>>

FreedPackets == IF packet # NULL THEN 1 ELSE 0

\* Variant: the end of the file is taken for a packet of another stream.
AfterEnd_Again == "read"
AfterEnd == "flush"

\* Free the old packet and read the next; those of other streams are skipped.
ReadPacket ==
  LET s == stream[cur]
      p == s.file.packets[s.pos + 1]
  IN
  /\ pc = "read"
  /\ \/ /\ s.pos < Len(s.file.packets)
        /\ packets' = packets - FreedPackets + 1
        /\ packet' = [of |-> cur, file |-> s.file, bytes |-> p.bytes]
        /\ stream' = [stream EXCEPT ![cur].pos = @ + 1]
        /\ IF p.video
           THEN pc' = "decode" /\ bytesRemaining' = p.bytes
           ELSE UNCHANGED <<pc, bytesRemaining>>
        /\ UNCHANGED trouble
     \/ /\ packets' = packets - FreedPackets /\ packet' = NULL
        /\ pc' = AfterEnd
        /\ trouble' = IF s.pos < Len(s.file.packets)
                      THEN trouble \union {cur} ELSE trouble
        /\ UNCHANGED <<stream, bytesRemaining>>
  /\ leftover' = FALSE
  /\ UNCHANGED <<heapVars, op, cur, status, got>>

\* Variants: what the codec holds back is not asked for; there is always more.
Flushed_None(s) == FALSE
Flushed_Always(s) == TRUE
Flushed(s) == s.held > 0

\* Decode the rest of the last frame, from an empty packet.
FlushCodec ==
  LET s == stream[cur] IN
  /\ pc = "flush"
  /\ got' = Flushed(s)
  /\ stream' = [stream EXCEPT ![cur] =
                  IF got' THEN [Shown(s) EXCEPT !.held = @ - 1] ELSE s]
  /\ Return(got')
  /\ UNCHANGED <<heapVars, packetVars, trouble>>

-----------------------------------------------------------------------------
GetNextFrame == DecodePacket \/ ReadPacket \/ FlushCodec

Client ==
  \/ \E h \in Instance : CloseVideo(h) \/ QueryFrame(h)
  \/ \E h \in Instance, v \in Videos : OpenVideo(h, v)
  \/ \E h \in Handles, v \in Videos : OpenVideo2(h, v)
  \/ \E h \in Instance, s \in Sizes : SetFrameSize(h, s)

Next == Client \/ GetNextFrame

Spec == Init /\ [][Next]_vars

-----------------------------------------------------------------------------
(* Properties *)

TypeOK ==
  /\ mem \in [Instance -> {"none", "live", "freed", "lost"}]
  /\ res \in [Instance -> SUBSET Field]
  /\ \A h \in Instance :
       /\ stream[h].file \in Videos \union {NULL}
       /\ stream[h].file # NULL =>
            /\ stream[h].pos \in 0..Len(stream[h].file.packets)
            /\ stream[h].held \in 0..stream[h].file.delay
  /\ alive \in [Field -> 0..(Cardinality(Instance) + MaxForgotten)]
  /\ forgotten \in 0..MaxForgotten
  /\ pc \in {"idle", "read", "decode", "flush"}
  /\ pc # "idle" => stream[cur].file # NULL
  /\ pc = "decode" => packet # NULL
  /\ packets \in Nat
  /\ op \in {"none", "open", "resize", "query"}
  /\ cur \in Instance /\ trouble \subseteq Instance
  /\ status \in {"success", "error", "no_media", "frame", "end", "none", "fault"}
  /\ got \in BOOLEAN /\ leftover \in BOOLEAN

\* Every object that libav allocated is in a field of an instance, and is in
\* one only, whatever step an open or a resize fails at (OpenVideoInternal,
\* CloseVideo, SetFrameSize).  One exception: OpenVideo takes an instance
\* without a buffer for one without a video, so after a SetFrameSize that failed
\* it forgets what is left of the video, and exactly that.  The only packet is
\* GetNextFrame's static one, whichever instances were queried, closed or
\* reopened in between.
NothingLost ==
  /\ \A k \in Field :
       alive[k] = Cardinality({h \in Instance : k \in res[h]})
                    + (IF k \in Halved THEN forgotten ELSE 0)
  /\ packets = IF packet = NULL THEN 0 ELSE 1

\* If the allocations that the code does not check succeed, the decoder uses a
\* NULL or freed pointer in three calls and in no other: SetFrameSize of an
\* instance without a video (ffdecoder.h:273 promises EFI_NO_MEDIA), OpenVideo
\* of an OpenVideo2 instance whose video is open, and QueryFrame of an instance
\* that a failed SetFrameSize left without a frame.
FaultsOnly ==
  status = "fault" =>
    \/ op = "resize" /\ res[cur] = {}
    \/ op = "open" /\ cur \in Handles /\ res[cur] = Field
    \/ op = "query" /\ res[cur] = Halved

\* The scaler writes frames of the size that the buffer was allocated for
\* (SetFrameSize changes both).
ScalerFits ==
  \A h \in Instance :
    {"buffer", "img_convert_ctx"} \subseteq res[h] => size[h] = bufSize[h]

\* An instance decodes a packet of another one, or of a file since closed, only
\* if the last decode left bytes of it (the static bytesRemaining).
OwnPacket ==
  pc = "decode" /\ ~leftover =>
    packet.of = cur /\ packet.file = stream[cur].file

\* EFI_END_OF_MEDIA means that each frame of the video has been returned once,
\* those the codec held back included, if reading and decoding went smoothly.
EndMeansAll ==
  pc = "idle" /\ status = "end" /\ cur \notin trouble /\ stream[cur].file # NULL
    => stream[cur].shown = Frames(stream[cur].file)

\* ffdecoder.c:136: "Did we finish the current frame? Then we can return".
ReturnsFinishedFrame == pc = "idle" /\ status = "frame" => got
=============================================================================

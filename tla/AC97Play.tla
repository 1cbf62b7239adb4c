------------------------------ MODULE AC97Play ------------------------------
(***************************************************************************)
(* Playback: AC97Play of book/audio/accdriver.c, which programs the bus    *)
(* master's descriptor list, under playafile of book/audio/testac97.c,     *)
(* which plays a wav file chunk by chunk and then frees it, or under a     *)
(* client that plays a buffer it keeps.                                    *)
(*                                                                         *)
(* The controller reads the descriptors and the samples by DMA while the   *)
(* driver and the player go on; Dma is its step.  The run bit (CR_RPBM,    *)
(* "Run/Pause") does not touch its index: only CR_RR would reset that, and *)
(* nothing writes it.  So a later AC97Play goes on where the controller    *)
(* stopped.  A sample frame is its position in the buffer that is played;  *)
(* a block counts as heard when it is over.                                *)
(***************************************************************************)
EXTENDS Integers, Sequences, FiniteSetsExt

CONSTANTS
  Bdes,            \* the number of descriptors, 32
  FRAMES_PER_BLOCK,\* (65534) / 2
  BLOCK_SIZE,      \* the frames of a chunk: 16 seconds at the file's rate
  Totals,          \* TotalSamples of the files played
  Buffers          \* Size/4 of the buffers a client plays

ASSUME SizeAssumption ==
  /\ Bdes \in Nat \ {0}
  /\ FRAMES_PER_BLOCK \in Nat \ {0}
  /\ BLOCK_SIZE \in Nat \ {0}
  /\ Totals \subseteq Nat \ {0}
  /\ Buffers \subseteq Nat

VARIABLES
  \* the controller
  run,        \* bit 0 of PO_CR
  lvi,        \* PO_LVI, a byte
  civ,        \* the index of the descriptor it is at
  stage,      \* about to "fetch" that, playing its "block", or "halted" after it
  block,      \* the descriptor as it was when the controller fetched it
  heard,      \* the frames played since it was last started
  fromFirst,  \* history: that start began by fetching descriptor 0
  \* the driver
  bdes,       \* Private->Bdes, the part that AC97Play writes
  pciIo,      \* does Private->PciIo, the word before Bdes, hold its pointer?
  n, base,    \* Size/4, and the frame PcmData points at
  i,          \* AC97Play's local, a UINT8
  pc, back,
  \* the player
  TotalSamples,
  index,      \* playafile's local i
  wavData     \* heap state of the buffer that is played

dmaVars    == <<run, lvi, civ, stage, block, heard, fromFirst>>
driverVars == <<bdes, pciIo, n, base, i>>
playerVars == <<TotalSamples, index, wavData>>
vars == <<dmaVars, driverVars, playerVars, pc, back>>

Empty == [first |-> 0, frames |-> 0, BUP |-> 0]

Init ==
  /\ run = 0 /\ lvi = 0 /\ civ = 0 /\ stage = "fetch" /\ block = Empty
  /\ heard = <<>> /\ fromFirst = FALSE
  /\ bdes = [k \in 0..(Bdes - 1) |-> Empty]
  /\ pciIo = TRUE /\ n = 0 /\ base = 0 /\ i = 0
  /\ pc = "idle" /\ back = "idle"
  /\ TotalSamples = 0 /\ index = 0 /\ wavData = "none"

Goto(from, to) == pc = from /\ pc' = to

-----------------------------------------------------------------------------
(* The controller *)

FramesOf(d) == [k \in 1..d.frames |-> d.first + k - 1]

FetchDescriptor ==
  /\ run = 1 /\ stage = "fetch"
  /\ stage' = "block" /\ block' = bdes[civ]
  /\ UNCHANGED <<run, lvi, civ, heard, fromFirst, driverVars, playerVars, pc, back>>

NextIndex == (civ + 1) % Bdes

\* Of the byte in PO_LVI only the bits of an index count.
LastValid == lvi % Bdes

\* Play the block; halt after the last valid one.
PlayBlock ==
  /\ run = 1 /\ stage = "block"
  /\ heard' = heard \o FramesOf(block)
  /\ IF civ = LastValid
     THEN stage' = "halted" /\ UNCHANGED civ
     ELSE stage' = "fetch" /\ civ' = NextIndex
  /\ UNCHANGED <<run, lvi, block, fromFirst, driverVars, playerVars, pc, back>>

Dma == FetchDescriptor \/ PlayBlock

\* What setting the run bit does: the controller goes on where it was paused,
\* or with the next descriptor if it had halted; one that is at the last valid
\* index still, or again, may stay halted.
Resume ==
  \/ stage # "halted" /\ UNCHANGED <<stage, civ>>
  \/ stage = "halted" /\ stage' = "fetch" /\ civ' = NextIndex
  \/ stage = "halted" /\ civ = LastValid /\ UNCHANGED <<stage, civ>>

-----------------------------------------------------------------------------
(* AC97Play *)

Play(first, frames, from) ==
  /\ n' = frames /\ base' = first /\ back' = from
  /\ pc' = "stop"
  /\ UNCHANGED <<bdes, pciIo, i>>

\* Variant: the controller runs on.
Stopped_Missing == run
Stopped == 0

StopDma ==
  /\ Goto("stop", "fill")
  /\ run' = Stopped
  /\ i' = 0
  /\ UNCHANGED <<lvi, civ, stage, block, heard, fromFirst, bdes, pciIo, n, base,
                 back, playerVars>>

\* Variants: the last block is as long as the others; the first has it all;
\* the blocks overlap.
Descriptor_Full(k) ==
  [first |-> base + FRAMES_PER_BLOCK * k, frames |-> FRAMES_PER_BLOCK, BUP |-> 0]
Descriptor_Rest(k) ==
  [first |-> base + FRAMES_PER_BLOCK * k, frames |-> n - FRAMES_PER_BLOCK * k,
   BUP |-> 0]
Descriptor_Overlap(k) ==
  [first  |-> base + (FRAMES_PER_BLOCK - 1) * k,
   frames |-> Min({n - FRAMES_PER_BLOCK * k, FRAMES_PER_BLOCK}), BUP |-> 0]

\* The len field holds twice the number of frames: two channels.
Descriptor(k) ==
  [first  |-> base + FRAMES_PER_BLOCK * k,
   frames |-> Min({n - FRAMES_PER_BLOCK * k, FRAMES_PER_BLOCK}),
   BUP    |-> 0]

BlocksEnd == i * FRAMES_PER_BLOCK >= n

FillDescriptor ==
  /\ pc = "fill"
  /\ i < Bdes /\ ~BlocksEnd
  /\ bdes' = [bdes EXCEPT ![i] = Descriptor(i)]
  /\ i' = i + 1
  /\ UNCHANGED <<dmaVars, pciIo, n, base, pc, back, playerVars>>

\* Bdes[i-1].BUP = 1: with no descriptor filled, that is a bit of PciIo.
MarkLast ==
  /\ ~(i < Bdes /\ ~BlocksEnd)
  /\ Goto("fill", "bdbar")
  /\ IF i = 0
     THEN pciIo' = FALSE /\ UNCHANGED bdes
     ELSE bdes' = [bdes EXCEPT ![i - 1].BUP = 1] /\ UNCHANGED pciIo
  /\ UNCHANGED <<dmaVars, n, base, i, back, playerVars>>

\* Variant: the last descriptor is left out.
LastIndex_Prev == (i - 2) % 256

\* PO_BDBAR, which is Private->Bdes for good, and PO_LVI.
LastIndex == (i - 1) % 256

SetLastIndex ==
  /\ Goto("bdbar", "run")
  /\ lvi' = LastIndex
  /\ UNCHANGED <<run, civ, stage, block, heard, fromFirst, driverVars, back,
                 playerVars>>

StartDma ==
  /\ Goto("run", back)
  /\ run' = 1
  /\ Resume
  /\ heard' = <<>>
  /\ fromFirst' = (stage' = "fetch" /\ civ' = 0)
  /\ UNCHANGED <<lvi, block, driverVars, back, playerVars>>

-----------------------------------------------------------------------------
(* The player *)

PlayBuffer(frames) ==
  /\ pc = "idle"
  /\ wavData' = "live"
  /\ TotalSamples' = frames
  /\ Play(0, frames, "idle")
  /\ UNCHANGED <<dmaVars, index>>

ReadWaveFile(total) ==
  /\ Goto("idle", "chunk")
  /\ wavData' = "live"
  /\ TotalSamples' = total
  /\ index' = 0
  /\ UNCHANGED <<dmaVars, driverVars, back>>

\* Variant: the last chunk is as long as the others.
ChunkSize_Full == BLOCK_SIZE
ChunkSize == Min({TotalSamples - index, BLOCK_SIZE})

PlayChunk ==
  /\ pc = "chunk"
  /\ index < TotalSamples
  /\ Play(index, ChunkSize, "wait")
  /\ index' = index + BLOCK_SIZE
  /\ UNCHANGED <<dmaVars, TotalSamples, wavData>>

\* WaitForEvent returns: the 16 second timer ticked, or a key was pressed.
Tick ==
  /\ Goto("wait", "chunk")
  /\ UNCHANGED <<dmaVars, driverVars, back, playerVars>>

Key ==
  /\ Goto("wait", "close")
  /\ UNCHANGED <<dmaVars, driverVars, back, playerVars>>

\* freeWavHeader; nothing stops the controller.
CloseFile ==
  /\ \/ pc = "chunk" /\ index >= TotalSamples
     \/ pc = "close"
  /\ pc' = "idle"
  /\ wavData' = "freed"
  /\ UNCHANGED <<dmaVars, driverVars, back, TotalSamples, index>>

-----------------------------------------------------------------------------
AC97PlayStep == \/ StopDma \/ FillDescriptor \/ MarkLast \/ SetLastIndex
                \/ StartDma
Player == \/ \E frames \in Buffers : PlayBuffer(frames)
          \/ \E total \in Totals : ReadWaveFile(total)
          \/ PlayChunk \/ Tick \/ Key \/ CloseFile

Next == Dma \/ AC97PlayStep \/ Player

Spec == Init /\ [][Next]_vars

\* The controller plays what it is told to, and AC97Play does not block.
FairSpec == Spec /\ WF_vars(Dma) /\ WF_vars(AC97PlayStep)

-----------------------------------------------------------------------------
(* Properties *)

Programmed == Min({n, Bdes * FRAMES_PER_BLOCK})

Block == [first : Nat, frames : 0..FRAMES_PER_BLOCK, BUP : {0, 1}]

TypeOK ==
  /\ run \in {0, 1} /\ lvi \in 0..255 /\ civ \in 0..(Bdes - 1)
  /\ stage \in {"fetch", "block", "halted"} /\ block \in Block
  /\ heard \in Seq(Nat) /\ fromFirst \in BOOLEAN
  /\ bdes \in [0..(Bdes - 1) -> Block]
  /\ pciIo \in BOOLEAN
  /\ n \in Nat /\ base \in Nat /\ i \in 0..Bdes
  /\ pc \in {"idle", "stop", "fill", "bdbar", "run", "chunk", "wait", "close"}
  /\ back \in {"idle", "wait"}
  /\ TotalSamples \in Nat /\ index \in Nat
  /\ wavData \in {"none", "live", "freed"}

\* If the controller began with descriptor 0, what it has played since is a
\* prefix of the frames of the last AC97Play, in order, none left out and none
\* twice.  The first call begins so; a later one only if the index, which
\* nobody resets, has come round to 0 by then.
HeardInOrder ==
  run = 1 /\ pc # "stop" /\ fromFirst =>
    /\ Len(heard) <= Programmed
    /\ \A k \in 1..Len(heard) : heard[k] = base + k - 1

\* The descriptors AC97Play declares valid, 0 to PO_LVI, lie within the file or
\* buffer; in particular playafile hands AC97Play no more than the file has.
WithinFile ==
  run = 1 /\ pc \in {"wait", "close", "idle"} =>
    \A k \in 0..lvi : k < Bdes =>
      bdes[k].first + bdes[k].frames <= TotalSamples

\* A descriptor the controller may read is never written: AC97Play clears the
\* run bit before it fills the list.
DescriptorsStable == [][bdes' # bdes \/ lvi' # lvi => run = 0]_vars

\* If the controller began with descriptor 0, all that AC97Play programmed is
\* played, unless it is called again.
PlaysProgrammed ==
  run = 1 /\ fromFirst ~> (Len(heard) = Programmed \/ pc = "stop")

\* testac97.c:67-75: a key may end the loop, and then the file is freed; the
\* controller does not go on reading its samples.
PlaysLiveData == [][PlayBlock => wavData = "live"]_vars
=============================================================================

----------------------------- MODULE PlayProofs -----------------------------
(***************************************************************************)
(* Proofs about AC97Play, for any number of descriptors that a byte can    *)
(* count, any block and chunk sizes, and any files and buffers.            *)
(*                                                                         *)
(* What is assumed of the callers: no buffer of less than one frame is     *)
(* played (with one, MarkLast writes outside the list).                    *)
(***************************************************************************)
EXTENDS AC97Play, SequenceTheorems, TLAPS

Assumed == Bdes <= 255 /\ 0 \notin Buffers

\* The list up to descriptor m is that of the call which set n and base.
Filled(m) == \A k \in 0..(m - 1) :
  /\ FRAMES_PER_BLOCK * k < n
  /\ bdes[k].first = base + FRAMES_PER_BLOCK * k
  /\ bdes[k].frames = Min({n - FRAMES_PER_BLOCK * k, FRAMES_PER_BLOCK})

\* The controller plays the list of the last call, and no call is under way.
Playing == run = 1 /\ pc # "stop"

\* The controller stands still while the list is written.
StopInv == run = 1 => pc \notin {"fill", "bdbar", "run"}

ListInv ==
  /\ pc \in {"stop", "fill", "bdbar", "run", "wait"} \/ run = 1 => n > 0
  /\ pc = "fill" \/ pc \in {"bdbar", "run"} \/ Playing => Filled(i)
  /\ pc \in {"bdbar", "run"} \/ Playing => i > 0
  /\ pc = "run" \/ Playing => lvi = i - 1

\* The blocks that are over, if the controller began with descriptor 0.
Played == IF stage = "halted" THEN civ + 1 ELSE civ

HeardInv == Playing /\ fromFirst =>
  /\ civ <= lvi
  /\ stage = "block" => block = bdes[civ]
  /\ Len(heard) = Min({n, FRAMES_PER_BLOCK * Played})
  /\ \A k \in 1..Len(heard) : heard[k] = base + k - 1

\* What a call asks for lies within the file or buffer it plays.
FileInv ==
  /\ pc \in {"stop", "fill", "bdbar", "run", "wait", "close"} => base + n <= TotalSamples
  /\ pc = "idle" /\ run = 1 => base + n <= TotalSamples
  /\ pc = "chunk" /\ index > 0 => base + n <= TotalSamples
  /\ pc = "chunk" => TotalSamples > 0

Inv == TypeOK /\ StopInv /\ ListInv /\ HeardInv /\ FileInv

-----------------------------------------------------------------------------
(* Numbers *)

LEMMA MinOfTwo ==
  ASSUME NEW a \in Int, NEW b \in Int
  PROVE  Min({a, b}) = IF a <= b THEN a ELSE b
<1> DEFINE m == IF a <= b THEN a ELSE b
<1>1. m \in {a, b} /\ \A y \in {a, b} : m <= y
  OBVIOUS
<1>2. \A x \in {a, b} : (\A y \in {a, b} : x <= y) => x = m
  OBVIOUS
<1> QED
  BY <1>1, <1>2 DEF Min

\* The frames before descriptor k.
LEMMA Blocks ==
  ASSUME NEW k \in Nat
  PROVE  /\ FRAMES_PER_BLOCK * k \in Nat
         /\ k * FRAMES_PER_BLOCK = FRAMES_PER_BLOCK * k
         /\ FRAMES_PER_BLOCK * (k + 1) = FRAMES_PER_BLOCK * k + FRAMES_PER_BLOCK
BY SizeAssumption

LEMMA BlocksGrow ==
  ASSUME NEW j \in Nat, NEW k \in Nat, j <= k
  PROVE  FRAMES_PER_BLOCK * j <= FRAMES_PER_BLOCK * k
<1>1. FRAMES_PER_BLOCK * (k - j) >= 0
  BY SizeAssumption
<1>2. FRAMES_PER_BLOCK * k = FRAMES_PER_BLOCK * j + FRAMES_PER_BLOCK * (k - j)
  BY SizeAssumption
<1>3. FRAMES_PER_BLOCK * j \in Int /\ FRAMES_PER_BLOCK * k \in Int
      /\ FRAMES_PER_BLOCK * (k - j) \in Int
  BY SizeAssumption
<1> QED
  BY <1>1, <1>2, <1>3

LEMMA DescriptorOf ==
  ASSUME TypeOK, NEW k \in Nat, FRAMES_PER_BLOCK * k < n
  PROVE  Descriptor(k) \in Block
<1> USE DEF Block
<1>1. FRAMES_PER_BLOCK * k \in Nat
  BY Blocks
<1>2. n \in Nat /\ base \in Nat /\ FRAMES_PER_BLOCK \in Nat
  BY SizeAssumption DEF TypeOK
<1>3. Min({n - FRAMES_PER_BLOCK * k, FRAMES_PER_BLOCK}) \in 0..FRAMES_PER_BLOCK
  BY <1>1, <1>2, MinOfTwo
<1> QED
  BY <1>1, <1>2, <1>3 DEF Descriptor

-----------------------------------------------------------------------------
(* The controller *)

LEMMA FramesAre ==
  ASSUME NEW s \in Seq(Nat), NEW d, d.first \in Nat, d.frames \in Nat
  PROVE  /\ s \o FramesOf(d) \in Seq(Nat)
         /\ Len(s \o FramesOf(d)) = Len(s) + d.frames
         /\ \A k \in 1..Len(s) : (s \o FramesOf(d))[k] = s[k]
         /\ \A k \in (Len(s) + 1)..(Len(s) + d.frames) :
              (s \o FramesOf(d))[k] = d.first + (k - Len(s)) - 1
<1> DEFINE t == [k \in 1..d.frames |-> d.first + k - 1]
<1>1. FramesOf(d) = t
  BY DEF FramesOf
<1>2. \A k \in 1..d.frames : d.first + k - 1 \in Nat
  OBVIOUS
<1>3. t \in Seq(Nat) /\ Len(t) = d.frames
  <2>1. t \in [1..d.frames -> Nat]
    BY <1>2
  <2> QED
    BY <2>1
<1>4. \A k \in 1..d.frames : t[k] = d.first + k - 1
  OBVIOUS
<1> HIDE DEF t
<1>5. /\ s \o t \in Seq(Nat) /\ Len(s \o t) = Len(s) + d.frames
      /\ \A k \in 1..(Len(s) + d.frames) : (s \o t)[k] = IF k <= Len(s) THEN s[k] ELSE t[k - Len(s)]
  BY <1>3, ConcatProperties
<1>6. ASSUME NEW k \in (Len(s) + 1)..(Len(s) + d.frames)
      PROVE  (s \o t)[k] = d.first + (k - Len(s)) - 1
  <2>1. Len(s) \in Nat
    OBVIOUS
  <2>2. k - Len(s) \in 1..d.frames /\ k \in 1..(Len(s) + d.frames) /\ ~(k <= Len(s))
    BY <2>1
  <2> QED
    BY <1>4, <1>5, <2>2
<1> QED
  BY <1>1, <1>5, <1>6

LEMMA IndexIn ==
  ASSUME TypeOK
  PROVE  /\ civ \in 0..(Bdes - 1) /\ civ \in Nat /\ NextIndex \in 0..(Bdes - 1)
         /\ civ + 1 < Bdes => NextIndex = civ + 1
         /\ lvi < Bdes => LastValid = lvi
<1>1. civ \in 0..(Bdes - 1) /\ civ \in Nat /\ lvi \in Nat /\ Bdes \in Nat \ {0}
  BY SizeAssumption DEF TypeOK
<1>2. (civ + 1) % Bdes \in 0..(Bdes - 1)
  BY <1>1
<1>3. \A k \in Nat : k < Bdes => k % Bdes = k
  BY <1>1
<1> QED
  BY <1>1, <1>2, <1>3 DEF NextIndex, LastValid

LEMMA FetchInv ==
  ASSUME Inv, FetchDescriptor
  PROVE  Inv'
<1> USE SizeAssumption DEF FetchDescriptor, driverVars, playerVars
<1>1. TypeOK'
  BY DEF Inv, TypeOK
<1>2. StopInv' /\ ListInv' /\ FileInv'
  BY DEF Inv, StopInv, ListInv, FileInv, Filled, Playing
<1>3. HeardInv'
  BY DEF Inv, HeardInv, Playing, Played
<1> QED
  BY <1>1, <1>2, <1>3 DEF Inv

LEMMA PlayBlockInv ==
  ASSUME Assumed, Inv, PlayBlock
  PROVE  Inv'
<1> USE SizeAssumption DEF PlayBlock, driverVars, playerVars
<1>1. /\ civ \in 0..(Bdes - 1) /\ civ \in Nat /\ run = 1 /\ stage = "block"
      /\ block.first \in Nat /\ block.frames \in Nat
      /\ heard \in Seq(Nat)
      /\ IF civ = LastValid
         THEN stage' = "halted" /\ civ' = civ
         ELSE stage' = "fetch" /\ civ' = NextIndex
  BY DEF Inv, TypeOK, Block
<1>2. /\ heard' \in Seq(Nat)
      /\ Len(heard') = Len(heard) + block.frames
      /\ \A k \in 1..Len(heard) : heard'[k] = heard[k]
      /\ \A k \in (Len(heard) + 1)..(Len(heard) + block.frames) :
           heard'[k] = block.first + (k - Len(heard)) - 1
  BY <1>1, FramesAre
<1>3. TypeOK'
  <2>1. civ' \in 0..(Bdes - 1) /\ stage' \in {"fetch", "block", "halted"}
    BY <1>1, IndexIn DEF Inv
  <2> QED
    BY <1>2, <2>1 DEF Inv, TypeOK
<1>4. StopInv' /\ ListInv' /\ FileInv'
  BY DEF Inv, StopInv, ListInv, FileInv, Filled, Playing
<1>5. HeardInv'
  <2> SUFFICES ASSUME Playing, fromFirst
               PROVE  /\ civ' <= lvi' /\ stage' # "block"
                      /\ Len(heard') = Min({n, FRAMES_PER_BLOCK * Played'})
                      /\ \A k \in 1..Len(heard') : heard'[k] = base + k - 1
    BY DEF HeardInv, Playing
  <2> DEFINE f == FRAMES_PER_BLOCK * civ
  <2>1. /\ f \in Nat /\ FRAMES_PER_BLOCK * (civ + 1) = f + FRAMES_PER_BLOCK
        /\ n \in Nat /\ base \in Nat /\ FRAMES_PER_BLOCK \in Nat
        /\ i \in 0..Bdes /\ Bdes \in Nat
    BY <1>1, Blocks DEF Inv, TypeOK
  <2>2. civ <= lvi /\ lvi = i - 1 /\ lvi < Bdes /\ lvi' = lvi
    BY <1>1, <2>1 DEF Inv, HeardInv, ListInv
  <2>3. civ' <= lvi /\ stage' # "block" /\ Played' = civ + 1
    <3>1. LastValid = lvi
      BY <2>2, IndexIn DEF Inv
    <3>2. CASE civ = lvi
      BY <1>1, <3>1, <3>2 DEF Played
    <3>3. CASE civ # lvi
      <4>1. civ + 1 < Bdes /\ civ + 1 <= lvi
        BY <1>1, <2>1, <2>2, <3>3
      <4> QED
        BY <1>1, <3>1, <3>3, <4>1, IndexIn DEF Inv, Played
    <3> QED
      BY <3>2, <3>3
  <2>4. /\ f < n
        /\ block.first = base + f
        /\ block.frames = Min({n - f, FRAMES_PER_BLOCK})
    <3>1. civ \in 0..(i - 1)
      BY <1>1, <2>1, <2>2
    <3>2. Filled(i) /\ block = bdes[civ]
      BY <1>1 DEF Inv, ListInv, HeardInv
    <3> QED
      BY <3>1, <3>2 DEF Filled
  <2> HIDE DEF f
  <2>5. Len(heard) = f
    <3>1. Len(heard) = Min({n, f})
      BY <1>1 DEF Inv, HeardInv, Played, f
    <3>2. Min({n, f}) = IF n <= f THEN n ELSE f
      BY <2>1, MinOfTwo
    <3> QED
      BY <2>1, <2>4, <3>1, <3>2
  <2>6. Len(heard') = Min({n, f + FRAMES_PER_BLOCK})
    <3>1. Min({n, f + FRAMES_PER_BLOCK}) =
            IF n <= f + FRAMES_PER_BLOCK THEN n ELSE f + FRAMES_PER_BLOCK
      BY <2>1, MinOfTwo
    <3>2. n - f \in Int
      BY <2>1
    <3>3. Min({n - f, FRAMES_PER_BLOCK}) =
            IF n - f <= FRAMES_PER_BLOCK THEN n - f ELSE FRAMES_PER_BLOCK
      BY <2>1, <3>2, MinOfTwo
    <3>4. Len(heard') = f + Min({n - f, FRAMES_PER_BLOCK})
      BY <1>2, <2>4, <2>5
    <3> QED
      BY <2>1, <2>4, <3>1, <3>3, <3>4
  <2>7. ASSUME NEW k \in 1..Len(heard')
        PROVE  heard'[k] = base + k - 1
    <3>1. CASE k <= f
      <4>1. k \in 1..Len(heard)
        BY <2>1, <2>5, <3>1
      <4> QED
        BY <1>2, <4>1 DEF Inv, HeardInv
    <3>2. CASE ~(k <= f)
      <4>1. k \in (Len(heard) + 1)..(Len(heard) + block.frames)
        BY <1>1, <1>2, <2>1, <2>5, <3>2
      <4>2. heard'[k] = block.first + (k - Len(heard)) - 1
        BY <1>2, <4>1
      <4>3. k \in Int /\ f \in Nat /\ base \in Nat
        BY <2>1, <2>5, <4>1
      <4> HIDE DEF PlayBlock
      <4>4. heard'[k] = (base + f) + (k - f) - 1
        BY <2>4, <2>5, <4>2
      <4> QED
        BY <4>3, <4>4
    <3> QED
      BY <3>1, <3>2
  <2> QED
    BY <2>1, <2>2, <2>3, <2>6, <2>7
<1> QED
  BY <1>3, <1>4, <1>5 DEF Inv

-----------------------------------------------------------------------------
(* AC97Play *)

LEMMA StopDmaInv == ASSUME Inv, StopDma PROVE Inv'
<1> USE SizeAssumption DEF StopDma, Stopped, Goto, playerVars
<1>1. TypeOK'
  BY DEF Inv, TypeOK
<1>2. StopInv' /\ ListInv' /\ HeardInv' /\ FileInv'
  BY DEF Inv, StopInv, ListInv, HeardInv, FileInv, Filled, Playing
<1> QED
  BY <1>1, <1>2 DEF Inv

LEMMA FillDescriptorInv == ASSUME Inv, FillDescriptor PROVE Inv'
<1> USE SizeAssumption DEF FillDescriptor, dmaVars, playerVars
<1>1. /\ i \in Nat /\ i \in 0..(Bdes - 1) /\ FRAMES_PER_BLOCK * i < n
      /\ bdes \in [0..(Bdes - 1) -> Block]
  <2>1. i \in Nat /\ i \in 0..(Bdes - 1) /\ n \in Nat
    BY DEF Inv, TypeOK
  <2>2. i * FRAMES_PER_BLOCK = FRAMES_PER_BLOCK * i /\ FRAMES_PER_BLOCK * i \in Nat
    BY <2>1, Blocks
  <2> QED
    BY <2>1, <2>2 DEF BlocksEnd, Inv, TypeOK
<1>2. /\ Descriptor(i) \in Block
      /\ Descriptor(i).first = base + FRAMES_PER_BLOCK * i
      /\ Descriptor(i).frames = Min({n - FRAMES_PER_BLOCK * i, FRAMES_PER_BLOCK})
  BY <1>1, DescriptorOf DEF Inv, Descriptor
<1>3. TypeOK'
  BY <1>1, <1>2 DEF Inv, TypeOK
<1>4. Filled(i)'
  <2> SUFFICES ASSUME NEW k \in 0..(i' - 1)
               PROVE  /\ FRAMES_PER_BLOCK * k < n
                      /\ bdes'[k].first = base + FRAMES_PER_BLOCK * k
                      /\ bdes'[k].frames = Min({n - FRAMES_PER_BLOCK * k, FRAMES_PER_BLOCK})
    BY DEF Filled
  <2>1. CASE k = i
    BY <1>1, <1>2, <2>1
  <2>2. CASE k # i
    <3>1. k \in 0..(i - 1) /\ k \in 0..(Bdes - 1)
      BY <1>1, <2>2
    <3>2. bdes'[k] = bdes[k]
      BY <1>1, <2>2, <3>1
    <3> QED
      BY <3>1, <3>2 DEF Inv, ListInv, Filled
  <2> QED
    BY <2>1, <2>2
<1>5. StopInv' /\ ListInv' /\ HeardInv' /\ FileInv'
  BY <1>4 DEF Inv, StopInv, ListInv, HeardInv, FileInv, Playing
<1> QED
  BY <1>3, <1>5 DEF Inv

\* The call has at least one frame, so at least one descriptor is filled.
LEMMA MarkLastInv == ASSUME Inv, MarkLast PROVE Inv'
<1> USE SizeAssumption DEF MarkLast, Goto, dmaVars, playerVars
<1>1. i \in Nat /\ i \in 0..Bdes /\ n \in Nat /\ n > 0
  BY DEF Inv, TypeOK, ListInv
<1>2. i > 0
  BY <1>1 DEF BlocksEnd
<1>3. /\ bdes' = [bdes EXCEPT ![i - 1].BUP = 1] /\ UNCHANGED pciIo
      /\ i - 1 \in 0..(Bdes - 1)
      /\ bdes \in [0..(Bdes - 1) -> Block]
  BY <1>1, <1>2 DEF Inv, TypeOK
<1>4. /\ bdes' \in [0..(Bdes - 1) -> Block]
      /\ \A k \in 0..(Bdes - 1) :
           bdes'[k].first = bdes[k].first /\ bdes'[k].frames = bdes[k].frames
  BY <1>3 DEF Block
<1>5. TypeOK'
  BY <1>3, <1>4 DEF Inv, TypeOK
<1>6. Filled(i)'
  <2>1. Filled(i) /\ UNCHANGED <<i, n, base>>
    BY DEF Inv, ListInv
  <2>2. \A k \in 0..(i - 1) : k \in 0..(Bdes - 1)
    BY <1>1
  <2> QED
    BY <1>4, <2>1, <2>2 DEF Filled
<1>7. StopInv' /\ ListInv' /\ HeardInv' /\ FileInv'
  BY <1>2, <1>6 DEF Inv, StopInv, ListInv, HeardInv, FileInv, Playing
<1> QED
  BY <1>5, <1>7 DEF Inv

LEMMA SetLastIndexInv == ASSUME Assumed, Inv, SetLastIndex PROVE Inv'
<1> USE SizeAssumption DEF SetLastIndex, Goto, driverVars, playerVars
<1>1. lvi' = i - 1 /\ lvi' \in 0..255
  <2>1. i \in 1..255
    BY DEF Assumed, Inv, TypeOK, ListInv
  <2> QED
    BY <2>1 DEF LastIndex
<1>2. TypeOK'
  BY <1>1 DEF Inv, TypeOK
<1>3. StopInv' /\ ListInv' /\ HeardInv' /\ FileInv'
  BY <1>1 DEF Inv, StopInv, ListInv, HeardInv, FileInv, Filled, Playing
<1> QED
  BY <1>2, <1>3 DEF Inv

LEMMA StartDmaInv == ASSUME Inv, StartDma PROVE Inv'
<1> USE SizeAssumption DEF StartDma, Goto, driverVars, playerVars
<1>1. <<>> \in Seq(Nat) /\ Len(<<>>) = 0
  OBVIOUS
<1>2. TypeOK'
  <2>1. civ' \in 0..(Bdes - 1) /\ stage' \in {"fetch", "block", "halted"}
    BY IndexIn DEF Resume, Inv, TypeOK
  <2>2. (stage' = "fetch" /\ civ' = 0) \in BOOLEAN
    OBVIOUS
  <2>3. fromFirst' \in BOOLEAN
    BY <2>2, Zenon DEF StartDma
  <2>4. heard' \in Seq(Nat)
    BY <1>1
  <2>5. UNCHANGED <<lvi, block, bdes, pciIo, n, base, i, TotalSamples, index, wavData>>
        /\ run' = 1 /\ pc' \in {"idle", "wait"} /\ back' = back
    BY DEF Inv, TypeOK
  <2> HIDE DEF StartDma
  <2> QED
    BY <2>1, <2>3, <2>4, <2>5 DEF Inv, TypeOK
<1>3. StopInv' /\ ListInv' /\ FileInv'
  BY DEF Inv, TypeOK, StopInv, ListInv, FileInv, Filled, Playing
<1>4. HeardInv'
  <2> SUFFICES ASSUME fromFirst'
               PROVE  /\ civ' <= lvi' /\ stage' # "block"
                      /\ Len(heard') = Min({n, FRAMES_PER_BLOCK * Played'})
                      /\ \A k \in 1..Len(heard') : heard'[k] = base + k - 1
    BY DEF HeardInv
  <2>1. stage' = "fetch" /\ civ' = 0 /\ Played' = 0 /\ heard' = <<>> /\ lvi' = lvi
    BY DEF Played
  <2>2. n \in Nat /\ lvi \in Nat /\ FRAMES_PER_BLOCK * 0 = 0
    BY DEF Inv, TypeOK
  <2>3. Min({n, FRAMES_PER_BLOCK * 0}) = 0
    BY <2>2, MinOfTwo
  <2> QED
    BY <1>1, <2>1, <2>2, <2>3
<1> QED
  BY <1>2, <1>3, <1>4 DEF Inv

-----------------------------------------------------------------------------
(* The player *)

LEMMA PlayBufferInv ==
  ASSUME Assumed, Inv, NEW frames \in Buffers, PlayBuffer(frames)
  PROVE  Inv'
<1> USE SizeAssumption DEF PlayBuffer, Play, dmaVars
<1>1. frames \in Nat /\ frames > 0
  BY DEF Assumed
<1>2. TypeOK'
  BY <1>1 DEF Inv, TypeOK
<1>3. StopInv' /\ ListInv' /\ HeardInv' /\ FileInv'
  BY <1>1 DEF Inv, StopInv, ListInv, HeardInv, FileInv, Playing
<1> QED
  BY <1>2, <1>3 DEF Inv

LEMMA ReadWaveFileInv ==
  ASSUME Inv, NEW total \in Totals, ReadWaveFile(total)
  PROVE  Inv'
<1> USE SizeAssumption DEF ReadWaveFile, Goto, dmaVars, driverVars
<1>1. total \in Nat /\ total > 0
  OBVIOUS
<1>2. TypeOK'
  BY <1>1 DEF Inv, TypeOK
<1>3. StopInv' /\ ListInv' /\ FileInv'
  BY <1>1 DEF Inv, StopInv, ListInv, FileInv, Filled, Playing
<1>4. HeardInv'
  BY DEF Inv, HeardInv, Playing, Played
<1> QED
  BY <1>2, <1>3, <1>4 DEF Inv

LEMMA PlayChunkInv == ASSUME Inv, PlayChunk PROVE Inv'
<1> USE SizeAssumption DEF PlayChunk, Play, dmaVars
<1>1. /\ index \in Nat /\ TotalSamples \in Nat /\ BLOCK_SIZE \in Nat /\ BLOCK_SIZE > 0
      /\ index < TotalSamples
  BY DEF Inv, TypeOK
<1>2. /\ ChunkSize \in Nat /\ ChunkSize > 0
      /\ index + ChunkSize <= TotalSamples
  BY <1>1, MinOfTwo DEF ChunkSize
<1>3. TypeOK'
  BY <1>1, <1>2 DEF Inv, TypeOK
<1>4. StopInv' /\ ListInv' /\ HeardInv' /\ FileInv'
  BY <1>1, <1>2 DEF Inv, StopInv, ListInv, HeardInv, FileInv, Playing
<1> QED
  BY <1>3, <1>4 DEF Inv

LEMMA PlayerInv == ASSUME Inv, Tick \/ Key \/ CloseFile PROVE Inv'
<1> USE DEF Tick, Key, CloseFile, Goto, dmaVars, driverVars, playerVars
<1>1. /\ UNCHANGED <<run, lvi, civ, stage, block, heard, fromFirst, bdes, pciIo, n,
                     base, i, back, TotalSamples, index>>
      /\ pc \in {"wait", "chunk", "close"} /\ pc' \in {"idle", "chunk", "close"}
      /\ wavData' \in {wavData, "freed"}
      /\ pc = "chunk" => index >= TotalSamples
  OBVIOUS
<1>2. TypeOK'
  BY <1>1 DEF Inv, TypeOK
<1>3. StopInv' /\ ListInv' /\ HeardInv'
  BY <1>1 DEF Inv, StopInv, ListInv, HeardInv, Filled, Playing, Played
<1>4. FileInv'
  <2>1. base + n <= TotalSamples
    <3>1. index \in Nat /\ TotalSamples \in Nat
      BY DEF Inv, TypeOK
    <3> QED
      BY <1>1, <3>1 DEF Inv, FileInv
  <2>2. pc' = "chunk" => TotalSamples > 0
    <3>1. n \in Nat /\ base \in Nat /\ TotalSamples \in Nat
      BY DEF Inv, TypeOK
    <3>2. pc' = "chunk" => n > 0
      BY <1>1 DEF Inv, ListInv, Tick, Goto
    <3> QED
      BY <2>1, <3>1, <3>2
  <2> QED
    BY <1>1, <2>1, <2>2 DEF FileInv
<1> QED
  BY <1>2, <1>3, <1>4 DEF Inv

-----------------------------------------------------------------------------
LEMMA InitInv == ASSUME Init PROVE Inv
<1> USE SizeAssumption DEF Init
<1>1. <<>> \in Seq(Nat) /\ Empty \in Block /\ 0 \in 0..(Bdes - 1)
  BY DEF Empty, Block
<1>2. TypeOK
  BY <1>1 DEF TypeOK
<1>3. StopInv /\ ListInv /\ HeardInv /\ FileInv
  BY DEF StopInv, ListInv, HeardInv, FileInv, Playing
<1> QED
  BY <1>2, <1>3 DEF Inv

LEMMA StepInv == ASSUME Assumed, Inv, [Next]_vars PROVE Inv'
<1>1. CASE AC97PlayStep
  BY <1>1, StopDmaInv, FillDescriptorInv, MarkLastInv, SetLastIndexInv, StartDmaInv
  DEF AC97PlayStep
<1>2. CASE Player
  BY <1>2, PlayBufferInv, ReadWaveFileInv, PlayChunkInv, PlayerInv DEF Player
<1>3. CASE UNCHANGED vars
  BY <1>3 DEF vars, dmaVars, driverVars, playerVars, Inv, TypeOK, StopInv, ListInv,
              HeardInv, FileInv, Filled, Playing, Played
<1> QED
  BY <1>1, <1>2, <1>3, FetchInv, PlayBlockInv DEF Next, Dma

LEMMA AlwaysInv ==
  ASSUME Assumed
  PROVE  Spec => []Inv
<1>1. Init => Inv
  BY InitInv
<1>2. Inv /\ [Next]_vars => Inv'
  BY StepInv
<1> QED
  BY <1>1, <1>2, PTL DEF Spec

-----------------------------------------------------------------------------
(* The properties of the runs *)

\* Every variable has its type; in particular no descriptor is longer than its
\* length field can say, and i never leaves the list (AC97Play).
THEOREM PlayTypeCorrect == Assumed => (Spec => []TypeOK)
<1> SUFFICES ASSUME Assumed PROVE Spec => []TypeOK
  OBVIOUS
<1>1. Inv => TypeOK
  BY DEF Inv
<1> QED
  BY <1>1, AlwaysInv, PTL

\* If the controller began with descriptor 0, what is heard is a prefix of what
\* the last call asked for, whatever was playing when it was called.
THEOREM PlayHeardInOrder == Assumed => (Spec => []HeardInOrder)
<1> SUFFICES ASSUME Assumed PROVE Spec => []HeardInOrder
  OBVIOUS
<1>1. ASSUME Inv, Playing, fromFirst
      PROVE  /\ Len(heard) <= Programmed
             /\ \A k \in 1..Len(heard) : heard[k] = base + k - 1
  <2>1. n \in Nat /\ Played \in Nat /\ Bdes \in Nat /\ Played <= Bdes
    BY <1>1, IndexIn, SizeAssumption DEF Inv, TypeOK, Played
  <2>2. /\ FRAMES_PER_BLOCK * Played <= FRAMES_PER_BLOCK * Bdes
        /\ FRAMES_PER_BLOCK * Played \in Nat /\ FRAMES_PER_BLOCK * Bdes \in Nat
        /\ Bdes * FRAMES_PER_BLOCK = FRAMES_PER_BLOCK * Bdes
    BY <2>1, Blocks, BlocksGrow
  <2>3. Min({n, FRAMES_PER_BLOCK * Played}) <= Min({n, FRAMES_PER_BLOCK * Bdes})
    BY <2>1, <2>2, MinOfTwo
  <2> QED
    BY <1>1, <2>2, <2>3 DEF Inv, HeardInv, Programmed
<1>2. Inv => HeardInOrder
  BY <1>1 DEF HeardInOrder, Playing
<1> QED
  BY <1>2, AlwaysInv, PTL

\* No descriptor that AC97Play declares valid reaches past the end of the file
\* or buffer.
THEOREM PlayWithinFile == Assumed => (Spec => []WithinFile)
<1> SUFFICES ASSUME Assumed PROVE Spec => []WithinFile
  OBVIOUS
<1>1. ASSUME Inv, run = 1, pc \in {"wait", "close", "idle"}, NEW k \in 0..lvi
      PROVE  bdes[k].first + bdes[k].frames <= TotalSamples
  <2>1. k \in Nat /\ k \in 0..(i - 1)
    BY <1>1 DEF Inv, TypeOK, ListInv, Playing
  <2>2. /\ bdes[k].first = base + FRAMES_PER_BLOCK * k
        /\ bdes[k].frames = Min({n - FRAMES_PER_BLOCK * k, FRAMES_PER_BLOCK})
    BY <1>1, <2>1 DEF Inv, ListInv, Playing, Filled
  <2>3. /\ FRAMES_PER_BLOCK * k \in Nat /\ FRAMES_PER_BLOCK \in Nat
        /\ n \in Nat /\ base \in Nat /\ TotalSamples \in Nat
    BY <1>1, <2>1, Blocks, SizeAssumption DEF Inv, TypeOK
  <2>4. base + n <= TotalSamples
    BY <1>1 DEF Inv, FileInv
  <2>5. Min({n - FRAMES_PER_BLOCK * k, FRAMES_PER_BLOCK}) \in Int
        /\ Min({n - FRAMES_PER_BLOCK * k, FRAMES_PER_BLOCK}) <= n - FRAMES_PER_BLOCK * k
    BY <2>3, MinOfTwo
  <2> QED
    BY <2>2, <2>3, <2>4, <2>5
<1>2. Inv => WithinFile
  BY <1>1 DEF WithinFile
<1> QED
  BY <1>2, AlwaysInv, PTL

\* The list and its length change only while the controller stands still.
THEOREM PlayDescriptorsStable == Assumed => (Spec => DescriptorsStable)
<1> SUFFICES ASSUME Assumed PROVE Spec => DescriptorsStable
  OBVIOUS
<1>1. ASSUME Inv, [Next]_vars
      PROVE  [bdes' # bdes \/ lvi' # lvi => run = 0]_vars
  <2>1. SUFFICES ASSUME Next, bdes' # bdes \/ lvi' # lvi
                 PROVE  pc \in {"fill", "bdbar", "run"}
    BY <1>1 DEF Inv, TypeOK, StopInv
  <2> USE <2>1 DEF dmaVars, driverVars, playerVars, Goto
  <2>2. CASE Dma
    BY <2>2 DEF Dma, FetchDescriptor, PlayBlock
  <2>3. CASE AC97PlayStep
    BY <2>3 DEF AC97PlayStep, StopDma, FillDescriptor, MarkLast, SetLastIndex, StartDma
  <2>4. CASE Player
    BY <2>4 DEF Player, PlayBuffer, ReadWaveFile, PlayChunk, Play, Tick, Key, CloseFile
  <2> QED
    BY <2>2, <2>3, <2>4 DEF Next
<1> QED
  BY <1>1, AlwaysInv, PTL DEF Spec, DescriptorsStable
=============================================================================

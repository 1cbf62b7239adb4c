------------------------------ MODULE FFProofs ------------------------------
(***************************************************************************)
(* Proofs about FFDecoder under the player and the other programs of       *)
(* FFPlayer, for any number of instances, any videos and sizes, and        *)
(* whatever the callers call.  What is assumed: only the allocation that   *)
(* the code checks can fail.                                               *)
(***************************************************************************)
EXTENDS FFPlayer, FiniteSetTheorems, SequenceTheorems, TLAPS

Assumed == NullAlloc \subseteq {"pFrameBGRA"}

Packet == [of : Instance, file : Videos, bytes : Nat]

Types ==
  /\ mem \in [Instance -> {"none", "live", "freed", "lost"}]
  /\ res \in [Instance -> SUBSET Field]
  /\ stream \in [Instance -> [file : Videos \union {NULL}, pos : Nat, held : Nat,
                              shown : Nat]]
  /\ pc \in {"idle", "read", "decode", "flush"} /\ cur \in Instance
  /\ packet \in Packet \union {NULL} /\ bytesRemaining \in Int
  /\ leftover \in BOOLEAN

\* An instance has all of a video, what a failed resize leaves, or nothing.
WholeInv == \A h \in Instance :
  /\ mem[h] # "live" => res[h] = {}
  /\ res[h] \in {{}, Field, Halved}
  /\ res[h] # {} => stream[h].file \in Videos

\* The scaler and the buffer change together.
SizeInv == size = bufSize

CountInv == /\ alive \in [Field -> Int] /\ forgotten \in 0..MaxForgotten
            /\ NothingLost

QueryInv == pc # "idle" => res[cur] \in {Field, Halved}

\* GetNextFrame's static variables between and within the queries.
PacketInv ==
  /\ pc = "decode" \/ bytesRemaining > 0 => packet # NULL
  /\ pc \in {"read", "flush"} => bytesRemaining <= 0
  /\ pc = "idle" /\ ~leftover => bytesRemaining <= 0
  /\ OwnPacket

Inv == /\ Types /\ WholeInv /\ SizeInv /\ CountInv /\ QueryInv /\ PacketInv
       /\ FaultsOnly

-----------------------------------------------------------------------------
(* Counting *)

Owners(r, k) == {h \in Instance : k \in r[h]}

LEMMA InstanceFinite == IsFiniteSet(Instance)
BY FFDecoderAssumption, FS_AddElement, FS_Union, FS_Singleton DEF Instance

\* When one instance's fields change, each kind's count follows.
LEMMA CountOne ==
  ASSUME NEW r \in [Instance -> SUBSET Field], NEW h \in Instance,
         NEW new \in SUBSET Field, NEW k \in Field
  PROVE  /\ Cardinality(Owners(r, k)) \in Nat
         /\ Cardinality(Owners([r EXCEPT ![h] = new], k)) =
              Cardinality(Owners(r, k)) + In(k, new) - In(k, r[h])
<1> DEFINE A == Owners(r, k)
           B == Owners([r EXCEPT ![h] = new], k)
<1>1. IsFiniteSet(A) /\ IsFiniteSet(B)
  BY InstanceFinite, FS_Subset DEF Owners
<1>2. Cardinality(A) \in Nat /\ Cardinality(B) \in Nat
  BY <1>1, FS_CardinalityType
<1>3. \A g \in Instance : /\ g \in A <=> k \in r[g]
                          /\ g \in B <=> IF g = h THEN k \in new ELSE k \in r[g]
  BY DEF Owners
<1>4. A \subseteq Instance /\ B \subseteq Instance
  BY DEF Owners
<1>5. CASE k \in new /\ k \in r[h]
  <2>1. A = B
    BY <1>3, <1>4, <1>5
  <2> QED
    BY <1>2, <1>5, <2>1 DEF In
<1>6. CASE k \notin new /\ k \notin r[h]
  <2>1. A = B
    BY <1>3, <1>4, <1>6
  <2> QED
    BY <1>2, <1>6, <2>1 DEF In
<1>7. CASE k \in new /\ k \notin r[h]
  <2>1. B = A \union {h} /\ h \notin A
    BY <1>3, <1>4, <1>7
  <2>2. Cardinality(B) = Cardinality(A) + 1
    BY <1>1, <2>1, FS_AddElement
  <2> QED
    BY <1>2, <1>7, <2>2 DEF In
<1>8. CASE k \notin new /\ k \in r[h]
  <2>1. A = B \union {h} /\ h \notin B
    BY <1>3, <1>4, <1>8
  <2>2. Cardinality(A) = Cardinality(B) + 1
    BY <1>1, <2>1, FS_AddElement
  <2> QED
    BY <1>2, <1>8, <2>2 DEF In
<1> QED
  BY <1>2, <1>5, <1>6, <1>7, <1>8

\* A step that accounts for what it changes of one instance, and for what it
\* forgets, loses nothing else.
LEMMA CountKept ==
  ASSUME Types, CountInv, NEW h \in Instance, NEW new \in SUBSET Field,
         res' = [res EXCEPT ![h] = new],
         alive' \in [Field -> Int], forgotten' \in 0..MaxForgotten,
         \A k \in Field : alive'[k] = alive[k] + In(k, new) - In(k, res[h])
                            + (IF k \in Halved THEN forgotten' - forgotten ELSE 0),
         UNCHANGED <<packet, packets>>
  PROVE  CountInv'
<1> DEFINE Old(k) == IF k \in Halved THEN forgotten ELSE 0
           Now(k) == IF k \in Halved THEN forgotten' ELSE 0
<1>1. \A k \in Field : alive[k] = Cardinality(Owners(res, k)) + Old(k)
  BY DEF CountInv, NothingLost, Owners
<1>2. ASSUME NEW k \in Field
      PROVE  alive'[k] = Cardinality(Owners(res', k)) + Now(k)
  <2>1. res \in [Instance -> SUBSET Field]
    BY DEF Types
  <2>2. /\ Cardinality(Owners(res, k)) \in Nat
        /\ Cardinality(Owners(res', k)) =
             Cardinality(Owners(res, k)) + In(k, new) - In(k, res[h])
    BY <2>1, CountOne
  <2>3. forgotten \in Nat /\ forgotten' \in Nat
    BY FFDecoderAssumption DEF CountInv
  <2>4. In(k, new) \in {0, 1} /\ In(k, res[h]) \in {0, 1}
    BY DEF In
  <2>5. alive'[k] = Cardinality(Owners(res, k)) + Old(k) + In(k, new) - In(k, res[h])
                      + (IF k \in Halved THEN forgotten' - forgotten ELSE 0)
    BY <1>1
  <2>6. CASE k \in Halved
    BY <2>2, <2>3, <2>4, <2>5, <2>6
  <2>7. CASE k \notin Halved
    BY <2>2, <2>3, <2>4, <2>5, <2>7
  <2> QED
    BY <2>6, <2>7
<1>3. packets' = IF packet' = NULL THEN 0 ELSE 1
  BY DEF CountInv, NothingLost
<1> QED
  BY <1>2, <1>3 DEF CountInv, NothingLost, Owners, Halved

-----------------------------------------------------------------------------
(* The calls *)

\* While no query is under way the packet is nobody's.
LEMMA IdleKept ==
  ASSUME Inv, pc = "idle", UNCHANGED <<packetVars, pc>>
  PROVE  PacketInv' /\ QueryInv'
BY DEF Inv, PacketInv, QueryInv, OwnPacket, packetVars

LEMMA NoFaultNow == ASSUME status' # "fault" PROVE FaultsOnly'
BY DEF FaultsOnly

LEMMA Halves == Halved \subseteq Field /\ Halved # Field /\ Halved # {} /\ Field # {}
BY DEF Halved, Field

LEMMA InStep ==
  ASSUME NEW k, NEW S
  PROVE  In(k, S) \in {0, 1} /\ (k \in S <=> In(k, S) = 1)
BY DEF In

LEMMA OutcomesOf ==
  ASSUME Assumed, NEW o \in OpenOutcome
  PROVE  o.nulls = {} /\ o.at \in {"file", "stream", "frame", "done"}
<1>1. \A n \in SUBSET NullAlloc : n \ {"pFrameBGRA"} = {}
  BY DEF Assumed
<1>2. \A n \in SUBSET (NullAlloc \ {"pFrameBGRA"}) : n = {}
  BY DEF Assumed
<1> QED
  BY <1>1, <1>2 DEF OpenOutcome

\* An open, of the driver's own instance or of a new one.
LEMMA OpenKept ==
  ASSUME Assumed, Inv, pc = "idle", NEW h \in Instance, NEW v \in Videos,
         NEW o \in OpenOutcome, OpenVideoInternal(h, v, o.at, o.nulls),
         mem' \in [Instance -> {"none", "live", "freed", "lost"}],
         \A g \in Instance : mem'[g] = mem[g] \/ g = h,
         mem'[h] = "live" \/ (o.at # "done" /\ res[h] = {}),
         UNCHANGED <<packetVars, pc, cur>>, status' # "fault"
  PROVE  Inv'
<1> DEFINE closed == LastVideo(h)
           new == IF o.at = "done" THEN Field ELSE res[h] \ closed
<1>1. o.nulls = {} /\ o.at \in {"file", "stream", "frame", "done"}
  BY OutcomesOf
<1>2. \/ closed = res[h] /\ res[h] \in {{}, Field}
      \/ closed = {} /\ res[h] = Halved
  BY DEF Inv, WholeInv, LastVideo, Field, Halved
<1>3. res' = [res EXCEPT ![h] = new]
  BY <1>1 DEF OpenVideoInternal, Acquired
<1>4. new \in {{}, Field, Halved} /\ new \in SUBSET Field
  BY <1>2, Halves
<1>5. /\ forgotten' \in 0..MaxForgotten
      /\ o.at # "done" \/ res[h] = closed => forgotten' = forgotten
      /\ o.at = "done" /\ res[h] # closed => forgotten' = forgotten + 1
  <2>1. forgotten \in Nat /\ forgotten <= MaxForgotten /\ MaxForgotten \in Nat
    BY FFDecoderAssumption DEF Inv, CountInv
  <2> QED
    BY <2>1 DEF OpenVideoInternal
<1>6. /\ alive' \in [Field -> Int]
      /\ \A k \in Field : alive'[k] = alive[k] + In(k, new) - In(k, res[h])
                            + (IF k \in Halved THEN forgotten' - forgotten ELSE 0)
  <2>0. alive \in [Field -> Int] /\ forgotten \in Nat
    BY FFDecoderAssumption DEF Inv, CountInv
  <2>1. CASE o.at = "done"
    <3>1. alive' = [k \in Field |-> alive[k] + In(k, Field) - In(k, closed)]
      BY <1>1, <2>1 DEF OpenVideoInternal, Acquired, Allocate
    <3>2. CASE closed = res[h]
      BY <1>5, <2>0, <2>1, <3>1, <3>2, InStep
    <3>3. CASE closed = {} /\ res[h] = Halved
      <4>1. forgotten' = forgotten + 1
        BY <1>5, <2>1, <3>3, Halves
      <4>2. alive' = [k \in Field |-> alive[k] + 1]
        BY <2>0, <3>1, <3>3 DEF In
      <4>3. \A k \in Field : In(k, new) = 1
        BY <2>1 DEF In
      <4>4. \A k \in Field : In(k, res[h]) = IF k \in Halved THEN 1 ELSE 0
        BY <3>3 DEF In
      <4> HIDE DEF new
      <4>5. ASSUME NEW k \in Field
            PROVE  alive'[k] = alive[k] + In(k, new) - In(k, res[h])
                                 + (IF k \in Halved THEN forgotten' - forgotten ELSE 0)
        BY <2>0, <4>1, <4>2, <4>3, <4>4
      <4> QED
        BY <2>0, <4>2, <4>5
    <3> QED
      BY <1>2, <3>2, <3>3
  <2>2. CASE o.at # "done"
    <3>1. alive' = [k \in Field |-> alive[k] + In(k, Acquired(o.at))
                      - In(k, Acquired(o.at)) - In(k, closed)]
      BY <1>1, <2>2 DEF OpenVideoInternal, FailedToOpen
    <3>2. ASSUME NEW k \in Field
          PROVE  /\ In(k, new) - In(k, res[h]) = - In(k, closed)
                 /\ In(k, closed) \in {0, 1} /\ In(k, new) \in {0, 1}
                 /\ In(k, res[h]) \in {0, 1} /\ In(k, Acquired(o.at)) \in {0, 1}
      <4>1. closed \subseteq res[h]
        BY <1>2
      <4> QED
        BY <2>2, <4>1 DEF In
    <3>3. forgotten' = forgotten
      BY <1>5, <2>2
    <3> HIDE DEF new, closed
    <3> QED
      BY <2>0, <3>1, <3>2, <3>3
  <2> QED
    BY <2>1, <2>2
<1>7. CountInv'
  <2> HIDE DEF new, closed
  <2> QED
    BY <1>3, <1>4, <1>5, <1>6, CountKept DEF Inv, packetVars
<1>8. /\ stream' \in [Instance -> [file : Videos \union {NULL}, pos : Nat, held : Nat,
                                   shown : Nat]]
      /\ \A g \in Instance : g # h => stream'[g] = stream[g]
      /\ o.at = "done" => stream'[h].file = v
      /\ o.at # "done" /\ closed = {} => stream' = stream
  <2>1. /\ NoStream \in [file : Videos \union {NULL}, pos : Nat, held : Nat, shown : Nat]
        /\ [NoStream EXCEPT !.file = v]
             \in [file : Videos \union {NULL}, pos : Nat, held : Nat, shown : Nat]
        /\ [NoStream EXCEPT !.file = v].file = v
    BY DEF NoStream
  <2>2. stream \in [Instance -> [file : Videos \union {NULL}, pos : Nat, held : Nat,
                                 shown : Nat]]
    BY DEF Inv, Types
  <2>3. \/ stream' = stream /\ o.at # "done"
        \/ stream' = [stream EXCEPT ![h] = NoStream] /\ o.at # "done" /\ closed # {}
        \/ stream' = [stream EXCEPT ![h] = [NoStream EXCEPT !.file = v]] /\ o.at = "done"
    BY <2>2 DEF OpenVideoInternal
  <2> HIDE DEF closed
  <2>4. CASE stream' = stream /\ o.at # "done"
    BY <2>2, <2>4
  <2>5. CASE stream' = [stream EXCEPT ![h] = NoStream] /\ o.at # "done" /\ closed # {}
    BY <2>1, <2>2, <2>5
  <2>6. CASE stream' = [stream EXCEPT ![h] = [NoStream EXCEPT !.file = v]] /\ o.at = "done"
    <3> DEFINE x == [NoStream EXCEPT !.file = v]
    <3>1. /\ x \in [file : Videos \union {NULL}, pos : Nat, held : Nat, shown : Nat]
          /\ x.file = v /\ stream' = [stream EXCEPT ![h] = x]
      BY <2>1, <2>6
    <3> HIDE DEF x
    <3> QED
      BY <2>2, <2>6, <3>1
  <2> QED
    BY <2>3, <2>4, <2>5, <2>6
<1>9. Types'
  <2> HIDE DEF new
  <2> QED
    BY <1>3, <1>4, <1>8 DEF Inv, Types, packetVars
<1>10. WholeInv'
  <2>1. \A g \in Instance : res'[g] = IF g = h THEN new ELSE res[g]
    BY <1>3 DEF Inv, Types
  <2>2. /\ mem[h] # "live" => res[h] = {}
        /\ res[h] # {} => stream[h].file \in Videos
    BY DEF Inv, WholeInv
  <2>3. /\ mem'[h] # "live" => new = {}
        /\ new # {} => stream'[h].file \in Videos
    <3>1. CASE o.at = "done"
      BY <1>8, <3>1
    <3>2. CASE o.at # "done"
      <4>1. new = {} \/ (closed = {} /\ res[h] # {})
        BY <1>2, <3>2, Halves
      <4>2. res[h] = {} => new = {}
        BY <3>2
      <4> HIDE DEF new, closed
      <4> QED
        BY <1>8, <2>2, <3>2, <4>1, <4>2
    <3> QED
      BY <3>1, <3>2
  <2> HIDE DEF new
  <2>4. ASSUME NEW g \in Instance
        PROVE  /\ mem'[g] # "live" => res'[g] = {}
               /\ res'[g] \in {{}, Field, Halved}
               /\ res'[g] # {} => stream'[g].file \in Videos
    <3>1. CASE g = h
      BY <1>4, <2>1, <2>3, <3>1
    <3>2. CASE g # h
      BY <1>8, <2>1, <3>2 DEF Inv, WholeInv
    <3> QED
      BY <3>1, <3>2
  <2> QED
    BY <2>4 DEF WholeInv, Halved
<1>11. SizeInv'
  BY DEF OpenVideoInternal, Inv, SizeInv
<1> QED
  BY <1>7, <1>9, <1>10, <1>11, IdleKept, NoFaultNow DEF Inv

\* A call that goes wrong at once changes nothing but what it reports.
LEMMA FaultKept ==
  ASSUME Inv, pc = "idle", cur' \in Instance, FaultsOnly',
         UNCHANGED <<mem, res, size, bufSize, alive, forgotten, stream, packetVars, pc>>
  PROVE  Inv'
<1>1. Types' /\ WholeInv' /\ SizeInv'
  BY DEF Inv, Types, WholeInv, SizeInv, packetVars
<1>2. CountInv'
  BY DEF Inv, CountInv, NothingLost, packetVars
<1> QED
  BY <1>1, <1>2, IdleKept DEF Inv

LEMMA OpenVideoInv ==
  ASSUME Assumed, Inv, NEW h \in Instance, NEW v \in Videos, OpenVideo(h, v)
  PROVE  Inv'
<1>1. pc = "idle" /\ mem[h] = "live" /\ UNCHANGED <<packetVars, pc>>
  BY DEF OpenVideo, Ready
<1>2. CASE h # Global /\ LastVideo(h) # {}
  <2>1. status' = "fault" /\ op' = "open" /\ cur' = h /\ UNCHANGED <<heapVars, stream>>
    BY <1>2 DEF OpenVideo, Fault
  <2>2. h \in Handles /\ res[h] = Field
    BY <1>2 DEF Instance, LastVideo, Inv, WholeInv, Halved
  <2>3. FaultsOnly'
    BY <2>1, <2>2 DEF FaultsOnly, heapVars
  <2> QED
    BY <1>1, <2>1, <2>3, FaultKept DEF heapVars
<1>3. CASE ~(h # Global /\ LastVideo(h) # {})
  <2>1. PICK o \in OpenOutcome :
          /\ OpenVideoInternal(h, v, o.at, o.nulls) /\ UNCHANGED <<mem, cur>>
          /\ status' = IF o.at = "done" THEN "success" ELSE "error"
    BY <1>3 DEF OpenVideo
  <2>2. status' # "fault"
    BY <2>1
  <2> QED
    BY <1>1, <2>1, <2>2, OpenKept DEF Inv, Types
<1> QED
  BY <1>2, <1>3

LEMMA OpenVideo2Inv ==
  ASSUME Assumed, Inv, NEW h \in Handles, NEW v \in Videos, OpenVideo2(h, v)
  PROVE  Inv'
<1>1. /\ h \in Instance /\ pc = "idle" /\ mem[h] = "none" /\ res[h] = {}
      /\ UNCHANGED <<packetVars, pc, cur>>
  BY DEF OpenVideo2, Ready, Instance, Inv, WholeInv
<1>2. PICK o \in OpenOutcome :
        /\ OpenVideoInternal(h, v, o.at, o.nulls)
        /\ status' = IF o.at = "done" THEN "success" ELSE "error"
        /\ mem' = [mem EXCEPT ![h] = IF o.at = "done" THEN "live" ELSE "lost"]
  BY DEF OpenVideo2
<1>3. /\ mem' \in [Instance -> {"none", "live", "freed", "lost"}]
      /\ \A g \in Instance : mem'[g] = mem[g] \/ g = h
      /\ mem'[h] = "live" \/ (o.at # "done" /\ res[h] = {})
  BY <1>1, <1>2 DEF Inv, Types
<1>4. status' # "fault"
  BY <1>2
<1> QED
  BY <1>1, <1>2, <1>3, <1>4, OpenKept

LEMMA CloseVideoInv ==
  ASSUME Assumed, Inv, NEW h \in Instance, CloseVideo(h)
  PROVE  Inv'
<1>1. /\ pc = "idle" /\ UNCHANGED <<packetVars, pc, cur, forgotten>>
      /\ res' = [res EXCEPT ![h] = {}] /\ status' # "fault"
  BY DEF CloseVideo, Ready
<1>2. CountInv'
  <2>0. forgotten' \in 0..MaxForgotten /\ forgotten \in Nat
    BY <1>1, FFDecoderAssumption DEF Inv, CountInv
  <2>1. alive' = [k \in Field |-> alive[k] - In(k, res[h])]
    BY DEF CloseVideo, Closed
  <2>2. /\ alive' \in [Field -> Int]
        /\ \A k \in Field : alive'[k] = alive[k] + In(k, {}) - In(k, res[h])
                              + (IF k \in Halved THEN forgotten' - forgotten ELSE 0)
    BY <1>1, <2>0, <2>1, InStep DEF Inv, CountInv
  <2> QED
    BY <1>1, <2>0, <2>2, CountKept DEF Inv, packetVars
<1>3. NoStream \in [file : Videos \union {NULL}, pos : Nat, held : Nat, shown : Nat]
  BY DEF NoStream
<1>4. Types'
  BY <1>1, <1>3 DEF CloseVideo, Inv, Types, packetVars
<1>5. WholeInv'
  BY <1>1 DEF CloseVideo, Inv, Types, WholeInv, Halved
<1>6. SizeInv'
  BY DEF CloseVideo, Inv, SizeInv
<1> QED
  BY <1>1, <1>2, <1>4, <1>5, <1>6, IdleKept, NoFaultNow DEF Inv

\* A resize that gets to the buffer keeps all of a video or half of it.
LEMMA ResizeKept ==
  ASSUME Inv, pc = "idle", NEW h \in Instance, mem[h] = "live", res[h] # {},
         NEW new \in {Field, Halved}, res' = [res EXCEPT ![h] = new],
         Allocate(new \ res[h], res[h] \ new), size' = bufSize',
         UNCHANGED <<mem, forgotten, stream, packetVars, pc, cur>>, status' # "fault"
  PROVE  Inv'
<1>1. new \in SUBSET Field /\ res[h] \in SUBSET Field
  BY Halves DEF Inv, Types
<1>2. forgotten' \in 0..MaxForgotten /\ forgotten \in Nat /\ alive \in [Field -> Int]
  BY FFDecoderAssumption DEF Inv, CountInv
<1>3. /\ alive' \in [Field -> Int]
      /\ \A k \in Field : alive'[k] = alive[k] + In(k, new) - In(k, res[h])
                            + (IF k \in Halved THEN forgotten' - forgotten ELSE 0)
  <2>1. alive' = [k \in Field |-> alive[k] + In(k, new \ res[h]) - In(k, res[h] \ new)]
    BY DEF Allocate
  <2>2. ASSUME NEW k \in Field
        PROVE  In(k, new \ res[h]) - In(k, res[h] \ new) = In(k, new) - In(k, res[h])
    BY DEF In
  <2>3. ASSUME NEW k \in Field, NEW S PROVE In(k, S) \in {0, 1}
    BY DEF In
  <2>4. ASSUME NEW k \in Field
        PROVE  /\ alive'[k] = alive[k] + In(k, new) - In(k, res[h])
               /\ alive'[k] \in Int
    <3>1. alive'[k] = alive[k] + In(k, new \ res[h]) - In(k, res[h] \ new)
      BY <2>1
    <3>2. /\ In(k, new \ res[h]) \in {0, 1} /\ In(k, res[h] \ new) \in {0, 1}
          /\ In(k, new) \in {0, 1} /\ In(k, res[h]) \in {0, 1} /\ alive[k] \in Int
      BY <1>2, <2>3
    <3>3. In(k, new \ res[h]) - In(k, res[h] \ new) = In(k, new) - In(k, res[h])
      BY <2>2
    <3> DEFINE a == In(k, new \ res[h])
               b == In(k, res[h] \ new)
               c == In(k, new)
               d == In(k, res[h])
    <3>4. /\ alive'[k] = alive[k] + a - b /\ a - b = c - d
          /\ a \in {0, 1} /\ b \in {0, 1} /\ c \in {0, 1} /\ d \in {0, 1}
          /\ alive[k] \in Int
      BY <3>1, <3>2, <3>3
    <3> HIDE DEF a, b, c, d
    <3>5. alive'[k] = alive[k] + c - d /\ alive'[k] \in Int
      BY <3>4
    <3> QED
      BY <3>5 DEF c, d
  <2>5. \A k \in Field : (IF k \in Halved THEN forgotten' - forgotten ELSE 0) = 0
    BY <1>2
  <2>6. DOMAIN alive' = Field /\ alive' = [k \in Field |-> alive'[k]]
    BY <2>1
  <2>7. alive' \in [Field -> Int]
    BY <2>4, <2>6
  <2>8. ASSUME NEW k \in Field
        PROVE  alive'[k] = alive[k] + In(k, new) - In(k, res[h])
                             + (IF k \in Halved THEN forgotten' - forgotten ELSE 0)
    <3>1. In(k, new) \in {0, 1} /\ In(k, res[h]) \in {0, 1} /\ alive[k] \in Int
      BY <1>2, <2>3
    <3> QED
      BY <2>4, <2>5, <3>1
  <2> QED
    BY <2>7, <2>8
<1>4. CountInv'
  BY <1>1, <1>2, <1>3, CountKept DEF Inv, packetVars
<1>5. Types' /\ SizeInv'
  BY <1>1 DEF Inv, Types, SizeInv, packetVars
<1>6. WholeInv'
  BY DEF Inv, Types, WholeInv, Halved
<1> QED
  BY <1>4, <1>5, <1>6, IdleKept, NoFaultNow DEF Inv

LEMMA SetFrameSizeInv ==
  ASSUME Assumed, Inv, NEW h \in Instance, NEW s, SetFrameSize(h, s)
  PROVE  Inv'
<1>1. /\ pc = "idle" /\ mem[h] = "live" /\ res[h] \in {{}, Field, Halved}
      /\ UNCHANGED <<mem, forgotten, stream, packetVars, pc>>
  BY DEF SetFrameSize, Ready, Inv, WholeInv
<1>2. CASE "img_convert_ctx" \notin res[h]
  <2>1. /\ status' = "fault" /\ op' = "resize" /\ cur' = h
        /\ UNCHANGED <<res, size, bufSize, alive>>
    BY <1>2 DEF SetFrameSize, Fault
  <2>2. res[h] = {}
    BY <1>1, <1>2 DEF Field, Halved
  <2>3. FaultsOnly'
    BY <2>1, <2>2 DEF FaultsOnly
  <2> QED
    BY <1>1, <2>1, <2>3, FaultKept
<1>3. CASE "img_convert_ctx" \in res[h]
  <2>0. res[h] # {} /\ res[h] \in {Field, Halved} /\ cur' = cur
    BY <1>1, <1>3 DEF SetFrameSize
  <2>1. CASE status' = "success" /\ UNCHANGED <<res, size, bufSize, alive>>
    BY <1>1, <2>0, <2>1, FaultKept, NoFaultNow DEF Inv, Types
  <2>2. CASE /\ res' = [res EXCEPT ![h] = @ \ {"buffer", "pFrameBGRA"}]
             /\ Allocate({}, res[h] \ res'[h])
             /\ status' = "no_media" /\ UNCHANGED <<size, bufSize>>
    <3>1. res[h] \ {"buffer", "pFrameBGRA"} = Halved
      BY <2>0 DEF Halved
    <3>2. res' = [res EXCEPT ![h] = Halved] /\ res'[h] = Halved
      BY <2>2, <3>1 DEF Inv, Types
    <3>3. Halved \ res[h] = {}
      BY <2>0, Halves
    <3>4. Allocate(Halved \ res[h], res[h] \ Halved)
      BY <2>2, <3>2, <3>3
    <3>5. size' = bufSize'
      BY <2>2 DEF Inv, SizeInv
    <3> QED
      BY <1>1, <2>0, <2>2, <3>2, <3>4, <3>5, ResizeKept
  <2>3. CASE /\ \E nulls \in SUBSET (NullAlloc \ {"pFrame", "pFrameBGRA"}) :
                  res' = [res EXCEPT ![h] = Resized(h) \ nulls]
             /\ Allocate(res'[h] \ res[h], res[h] \ res'[h])
             /\ size' = [size EXCEPT ![h] = ScaledTo(h, s)]
             /\ bufSize' = [bufSize EXCEPT ![h] = s]
             /\ status' = "success"
    <3>1. Resized(h) = Field
      BY <2>0 DEF Resized, Field, Halved
    <3>2. PICK nulls \in SUBSET (NullAlloc \ {"pFrame", "pFrameBGRA"}) :
            res' = [res EXCEPT ![h] = Resized(h) \ nulls]
      BY <2>3
    <3>3. nulls = {}
      BY <3>2 DEF Assumed
    <3>4. res' = [res EXCEPT ![h] = Field] /\ res'[h] = Field
      BY <3>1, <3>2, <3>3 DEF Inv, Types
    <3>5. Allocate(Field \ res[h], res[h] \ Field)
      BY <2>3, <3>4
    <3>6. size' = bufSize'
      BY <2>3 DEF Inv, SizeInv, ScaledTo
    <3> QED
      BY <1>1, <2>0, <2>3, <3>4, <3>5, <3>6, ResizeKept
  <2> QED
    BY <1>3, <2>1, <2>2, <2>3 DEF SetFrameSize
<1> QED
  BY <1>2, <1>3

-----------------------------------------------------------------------------
(* QueryFrame and GetNextFrame *)

\* A step of a query keeps what the instances have.
LEMMA QueryKept ==
  ASSUME Inv, UNCHANGED heapVars,
         stream' \in [Instance -> [file : Videos \union {NULL}, pos : Nat, held : Nat,
                                   shown : Nat]],
         \A h \in Instance : stream'[h].file = stream[h].file
  PROVE  WholeInv' /\ SizeInv' /\ alive' = alive /\ res' = res /\ mem' = mem
         /\ forgotten' = forgotten
BY DEF heapVars, Inv, WholeInv, SizeInv

LEMMA QueryFrameInv ==
  ASSUME Assumed, Inv, NEW h \in Instance, QueryFrame(h)
  PROVE  Inv'
<1>1. /\ pc = "idle" /\ UNCHANGED <<heapVars, stream, packetVars>>
      /\ status' \in {"no_media", "none"}
  BY DEF QueryFrame, Ready
<1>2. WholeInv' /\ SizeInv' /\ CountInv' /\ FaultsOnly'
  <2>1. WholeInv' /\ SizeInv' /\ alive' = alive /\ res' = res /\ forgotten' = forgotten
    BY <1>1, QueryKept DEF Inv, Types
  <2>2. CountInv'
    BY <1>1, <2>1 DEF Inv, CountInv, NothingLost, packetVars
  <2> QED
    BY <1>1, <2>1, <2>2, NoFaultNow
<1>3. CASE "pCodecCtx" \notin res[h]
  <2>1. UNCHANGED <<pc, cur>>
    BY <1>3 DEF QueryFrame
  <2>2. Types'
    BY <1>1, <2>1 DEF Inv, Types, heapVars, packetVars
  <2> QED
    BY <1>1, <1>2, <2>1, <2>2, IdleKept DEF Inv, heapVars
<1>4. CASE "pCodecCtx" \in res[h]
  <2>1. cur' = h /\ pc' = IF bytesRemaining > 0 THEN "decode" ELSE "read"
    BY <1>4 DEF QueryFrame
  <2>2. res[h] \in {Field, Halved}
    BY <1>1, <1>4 DEF Inv, WholeInv
  <2>3. Types'
    BY <1>1, <2>1 DEF Inv, Types, heapVars, packetVars
  <2>4. QueryInv'
    BY <1>1, <2>1, <2>2 DEF QueryInv, heapVars, Halved
  <2>5. PacketInv'
    BY <1>1, <2>1 DEF Inv, Types, PacketInv, OwnPacket, packetVars
  <2> QED
    BY <1>2, <2>3, <2>4, <2>5 DEF Inv
<1> QED
  BY <1>3, <1>4

\* GetNextFrame returns: a frame cannot be made of half a video.
LEMMA ReturnKept ==
  ASSUME cur \in Instance, res[cur] \in {Field, Halved}, res' = res, NEW r, Return(r)
  PROVE  /\ pc' = "idle" /\ cur' = cur /\ FaultsOnly'
         /\ \/ status' \in {"frame", "end"} /\ op' = op
            \/ status' = "fault" /\ op' = "query"
<1>1. ~ {"pFrame", "pFrameBGRA", "buffer", "img_convert_ctx"} \subseteq res[cur]
        => res[cur] = Halved
  BY DEF Field
<1>2. CASE r /\ ~ {"pFrame", "pFrameBGRA", "buffer", "img_convert_ctx"} \subseteq res[cur]
  <2>1. pc' = "idle" /\ status' = "fault" /\ op' = "query" /\ cur' = cur
    BY <1>2 DEF Return, Fault
  <2> QED
    BY <1>1, <1>2, <2>1 DEF FaultsOnly, Halved
<1>3. CASE ~(r /\ ~ {"pFrame", "pFrameBGRA", "buffer", "img_convert_ctx"} \subseteq res[cur])
  <2>1. pc' = "idle" /\ status' \in {"frame", "end"} /\ op' = op /\ cur' = cur
    BY <1>3 DEF Return
  <2> QED
    BY <2>1, NoFaultNow
<1> QED
  BY <1>2, <1>3

LEMMA DecodePacketInv ==
  ASSUME Inv, DecodePacket
  PROVE  Inv'
<1>0. /\ pc = "decode" /\ res[cur] \in {Field, Halved} /\ cur \in Instance
      /\ packet \in Packet /\ packet.bytes \in Nat
      /\ UNCHANGED <<heapVars, packet, packets>>
  BY DEF DecodePacket, Inv, QueryInv, PacketInv, Types, Packet
<1>2. pc' = "idle" /\ cur' = cur /\ FaultsOnly'
  <2>1. Return(FALSE) \/ Return(TRUE)
    BY DEF DecodePacket
  <2> QED
    BY <1>0, <2>1, ReturnKept DEF heapVars
<1>1. /\ pc = "decode" /\ pc' = "idle" /\ res[cur] \in {Field, Halved} /\ cur \in Instance
      /\ packet \in Packet /\ packet.bytes \in Nat
      /\ UNCHANGED <<heapVars, packet, packets, cur>>
  BY <1>0, <1>2
<1>3. /\ bytesRemaining' \in Int /\ leftover' \in BOOLEAN
      /\ ~leftover' => bytesRemaining' <= 0
      /\ stream' \in [Instance -> [file : Videos \union {NULL}, pos : Nat, held : Nat,
                                   shown : Nat]]
      /\ \A h \in Instance : stream'[h].file = stream[h].file
  <2>1. CASE leftover' = TRUE /\ UNCHANGED <<stream, bytesRemaining>>
    BY <2>1 DEF Inv, Types
  <2>2. CASE ~(leftover' = TRUE /\ UNCHANGED <<stream, bytesRemaining>>)
    <3>1. PICK n \in 0..packet.bytes :
            /\ bytesRemaining' = bytesRemaining - n
            /\ stream' = [stream EXCEPT ![cur] =
                 IF n = 0 THEN stream[cur]
                 ELSE IF got' THEN Shown(stream[cur])
                 ELSE [stream[cur] EXCEPT !.held = @ + 1]]
            /\ leftover' = (n < bytesRemaining)
      BY <2>2 DEF DecodePacket, Used
    <3>2. n \in Nat /\ bytesRemaining \in Int
      BY <1>1 DEF Inv, Types
    <3>3. /\ stream[cur] \in [file : Videos \union {NULL}, pos : Nat, held : Nat, shown : Nat]
          /\ stream \in [Instance -> [file : Videos \union {NULL}, pos : Nat, held : Nat,
                                      shown : Nat]]
      BY <1>1 DEF Inv, Types
    <3>4. /\ Shown(stream[cur]) \in [file : Videos \union {NULL}, pos : Nat, held : Nat,
                                     shown : Nat]
          /\ Shown(stream[cur]).file = stream[cur].file
      BY <3>3 DEF Shown
    <3>5. /\ [stream[cur] EXCEPT !.held = @ + 1]
               \in [file : Videos \union {NULL}, pos : Nat, held : Nat, shown : Nat]
          /\ [stream[cur] EXCEPT !.held = @ + 1].file = stream[cur].file
      BY <3>3
    <3>6. PICK x : /\ stream' = [stream EXCEPT ![cur] = x]
                   /\ x \in [file : Videos \union {NULL}, pos : Nat, held : Nat, shown : Nat]
                   /\ x.file = stream[cur].file
      BY <3>1, <3>3, <3>4, <3>5
    <3>7. bytesRemaining' \in Int /\ (~(n < bytesRemaining) => bytesRemaining' <= 0)
      <4>1. /\ bytesRemaining - n \in Int
            /\ ~(n < bytesRemaining) => bytesRemaining - n <= 0
        BY <3>2
      <4>2. bytesRemaining' = bytesRemaining - n
        BY <3>1
      <4> QED
        BY <4>1, <4>2
    <3>8. leftover' = (n < bytesRemaining)
      BY <3>1
    <3>9. leftover' \in BOOLEAN /\ (~leftover' => ~(n < bytesRemaining))
      <4>1. CASE n < bytesRemaining
        <5>1. leftover' = TRUE
          BY <3>8, <4>1
        <5> QED
          BY <5>1, Zenon
      <4>2. CASE ~(n < bytesRemaining)
        <5>1. leftover' = FALSE
          <6>1. (n < bytesRemaining) = FALSE
            BY <3>2, <4>2
          <6> QED
            BY <3>8, <6>1, Zenon
        <5> QED
          BY <4>2, <5>1, Zenon
      <4> QED
        BY <4>1, <4>2
    <3> QED
      BY <1>1, <3>3, <3>6, <3>7, <3>9
  <2> QED
    BY <2>1, <2>2
<1>4. Types'
  BY <1>1, <1>3 DEF Inv, Types, heapVars
<1>5. WholeInv' /\ SizeInv' /\ CountInv'
  <2>1. WholeInv' /\ SizeInv' /\ alive' = alive /\ res' = res /\ forgotten' = forgotten
    BY <1>1, <1>3, QueryKept
  <2> QED
    BY <1>1, <2>1 DEF Inv, CountInv, NothingLost
<1>6. QueryInv' /\ PacketInv'
  <2>1. packet # NULL
    BY <1>1 DEF Inv, PacketInv
  <2> QED
    BY <1>1, <1>3, <2>1 DEF QueryInv, PacketInv, OwnPacket
<1> QED
  BY <1>2, <1>4, <1>5, <1>6 DEF Inv

LEMMA ReadPacketInv ==
  ASSUME Inv, ReadPacket
  PROVE  Inv'
<1>0. FaultsOnly' /\ UNCHANGED <<heapVars, cur>>
  BY DEF ReadPacket, heapVars, Inv, FaultsOnly
<1>1. /\ pc = "read" /\ res[cur] \in {Field, Halved} /\ cur \in Instance
      /\ leftover' = FALSE
      /\ bytesRemaining <= 0
      /\ stream[cur].file \in Videos /\ stream[cur].pos \in Nat
      /\ stream[cur] \in [file : Videos \union {NULL}, pos : Nat, held : Nat, shown : Nat]
      /\ UNCHANGED <<heapVars, cur>>
  BY Halves DEF ReadPacket, Inv, QueryInv, PacketInv, Types, WholeInv
<1>2. packets = FreedPackets
  BY DEF Inv, CountInv, NothingLost, FreedPackets
<1>3. CASE /\ packets' = packets - FreedPackets /\ packet' = NULL /\ pc' = AfterEnd
           /\ UNCHANGED <<stream, bytesRemaining>>
  <2>1. Types'
    BY <1>1, <1>3 DEF Inv, Types, heapVars, AfterEnd
  <2>2. WholeInv' /\ SizeInv' /\ alive' = alive /\ res' = res /\ forgotten' = forgotten
    BY <1>1, <1>3, QueryKept DEF Inv, Types
  <2>3. CountInv'
    <3>1. packets' = 0
      BY <1>2, <1>3 DEF FreedPackets
    <3> QED
      BY <1>3, <2>2, <3>1 DEF Inv, CountInv, NothingLost
  <2>4. QueryInv' /\ PacketInv'
    BY <1>1, <1>3, <2>2 DEF QueryInv, PacketInv, OwnPacket, AfterEnd, Inv, Types
  <2> QED
    BY <1>0, <2>1, <2>2, <2>3, <2>4 DEF Inv
<1>4. CASE ~(/\ packets' = packets - FreedPackets /\ packet' = NULL /\ pc' = AfterEnd
             /\ UNCHANGED <<stream, bytesRemaining>>)
  <2> DEFINE f == stream[cur].file
             p == f.packets[stream[cur].pos + 1]
  <2>1. /\ stream[cur].pos < Len(f.packets)
        /\ packets' = packets - FreedPackets + 1
        /\ packet' = [of |-> cur, file |-> f, bytes |-> p.bytes]
        /\ stream' = [stream EXCEPT ![cur].pos = @ + 1]
        /\ IF p.video
           THEN pc' = "decode" /\ bytesRemaining' = p.bytes
           ELSE UNCHANGED <<pc, bytesRemaining>>
    BY <1>4 DEF ReadPacket
  <2>2. p.bytes \in Nat
    <3>1. f.packets \in Seq([video : BOOLEAN, bytes : Nat \ {0}])
      BY <1>1, FFDecoderAssumption
    <3>2. stream[cur].pos + 1 \in 1..Len(f.packets)
      BY <1>1, <2>1, <3>1
    <3>3. p \in [video : BOOLEAN, bytes : Nat \ {0}]
      BY <3>1, <3>2, ElementOfSeq
    <3> QED
      BY <3>3
  <2>3. packet' \in Packet /\ packet' # NULL /\ packet'.of = cur /\ packet'.file = f
    BY <1>1, <2>1, <2>2, FFDecoderAssumption DEF Packet
  <2>4. /\ stream' \in [Instance -> [file : Videos \union {NULL}, pos : Nat, held : Nat,
                                     shown : Nat]]
        /\ \A h \in Instance : stream'[h].file = stream[h].file
    <3>1. /\ [stream[cur] EXCEPT !.pos = @ + 1]
               \in [file : Videos \union {NULL}, pos : Nat, held : Nat, shown : Nat]
          /\ [stream[cur] EXCEPT !.pos = @ + 1].file = f
      BY <1>1
    <3>2. stream' = [stream EXCEPT ![cur] = [stream[cur] EXCEPT !.pos = @ + 1]]
      BY <1>1, <2>1 DEF Inv, Types
    <3> QED
      BY <1>1, <3>1, <3>2 DEF Inv, Types
  <2>5. Types'
    <3>1. pc' \in {"read", "decode"} /\ bytesRemaining' \in Int
      BY <1>1, <2>1, <2>2 DEF Inv, Types
    <3> QED
      BY <1>1, <2>3, <2>4, <3>1 DEF Inv, Types, heapVars
  <2>6. WholeInv' /\ SizeInv' /\ alive' = alive /\ res' = res /\ forgotten' = forgotten
    BY <1>1, <2>4, QueryKept
  <2>7. CountInv'
    <3>1. packets' = 1
      BY <1>2, <2>1 DEF FreedPackets
    <3> QED
      BY <2>3, <2>6, <3>1 DEF Inv, CountInv, NothingLost
  <2>8. QueryInv'
    BY <1>1, <2>6 DEF QueryInv
  <2>9. PacketInv'
    BY <1>1, <2>1, <2>2, <2>3, <2>4 DEF PacketInv, OwnPacket
  <2> QED
    BY <1>0, <2>5, <2>6, <2>7, <2>8, <2>9 DEF Inv
<1> QED
  BY <1>3, <1>4

LEMMA FlushCodecInv ==
  ASSUME Inv, FlushCodec
  PROVE  Inv'
<1>0. /\ pc = "flush" /\ res[cur] \in {Field, Halved} /\ cur \in Instance
      /\ bytesRemaining <= 0
      /\ stream[cur] \in [file : Videos \union {NULL}, pos : Nat, held : Nat, shown : Nat]
      /\ UNCHANGED <<heapVars, packetVars>>
  BY DEF FlushCodec, Inv, QueryInv, PacketInv, Types
<1>2. pc' = "idle" /\ cur' = cur /\ FaultsOnly'
  <2> DEFINE r == got'
  <2>1. Return(r)
    BY DEF FlushCodec
  <2> HIDE DEF r
  <2> QED
    BY <1>0, <2>1, ReturnKept DEF heapVars
<1>1. /\ pc = "flush" /\ pc' = "idle" /\ res[cur] \in {Field, Halved} /\ cur \in Instance
      /\ bytesRemaining <= 0
      /\ stream[cur] \in [file : Videos \union {NULL}, pos : Nat, held : Nat, shown : Nat]
      /\ UNCHANGED <<heapVars, packetVars, cur>>
  BY <1>0, <1>2
<1>3. /\ stream' \in [Instance -> [file : Videos \union {NULL}, pos : Nat, held : Nat,
                                   shown : Nat]]
      /\ \A h \in Instance : stream'[h].file = stream[h].file
  <2>1. stream' = [stream EXCEPT ![cur] =
          IF stream[cur].held > 0 THEN [Shown(stream[cur]) EXCEPT !.held = @ - 1]
          ELSE stream[cur]]
    BY DEF FlushCodec, Flushed
  <2>2. /\ Shown(stream[cur]) \in [file : Videos \union {NULL}, pos : Nat, held : Nat,
                                   shown : Nat]
        /\ Shown(stream[cur]).file = stream[cur].file
        /\ Shown(stream[cur]).held = stream[cur].held
    BY <1>1 DEF Shown
  <2>3. stream[cur].held > 0 =>
          /\ [Shown(stream[cur]) EXCEPT !.held = @ - 1]
               \in [file : Videos \union {NULL}, pos : Nat, held : Nat, shown : Nat]
          /\ [Shown(stream[cur]) EXCEPT !.held = @ - 1].file = stream[cur].file
    BY <1>1, <2>2
  <2>4. PICK x : /\ stream' = [stream EXCEPT ![cur] = x]
                 /\ x \in [file : Videos \union {NULL}, pos : Nat, held : Nat, shown : Nat]
                 /\ x.file = stream[cur].file
    BY <1>1, <2>1, <2>3
  <2> QED
    BY <1>1, <2>4 DEF Inv, Types
<1>4. Types'
  BY <1>1, <1>3 DEF Inv, Types, heapVars, packetVars
<1>5. WholeInv' /\ SizeInv' /\ CountInv'
  <2>1. WholeInv' /\ SizeInv' /\ alive' = alive /\ res' = res /\ forgotten' = forgotten
    BY <1>1, <1>3, QueryKept
  <2> QED
    BY <1>1, <2>1 DEF Inv, CountInv, NothingLost, packetVars
<1>6. QueryInv' /\ PacketInv'
  BY <1>1 DEF QueryInv, PacketInv, OwnPacket, packetVars, Inv, Types
<1> QED
  BY <1>2, <1>4, <1>5, <1>6 DEF Inv

-----------------------------------------------------------------------------
(* The player and the other programs *)

\* The player has a decoder whenever it uses one.
PlayerInv ==
  /\ pFFDecoder \in Handles \union {NULL}
  /\ ui \in {"loop", "frame"} => pFFDecoder # NULL

LEMMA InitInv == ASSUME PInit PROVE Inv /\ PlayerInv
<1> USE DEF PInit, Init
<1>1. Types
  <2>1. Global \in Instance
    BY DEF Instance
  <2>2. /\ mem \in [Instance -> {"none", "live", "freed", "lost"}]
        /\ res \in [Instance -> SUBSET Field]
    OBVIOUS
  <2>3. NoStream \in [file : Videos \union {NULL}, pos : Nat, held : Nat, shown : Nat]
    BY DEF NoStream
  <2>4. stream = [h \in Instance |-> NoStream]
    OBVIOUS
  <2>5. stream \in [Instance -> [file : Videos \union {NULL}, pos : Nat, held : Nat,
                               shown : Nat]]
    BY <2>3, <2>4
  <2>6. /\ pc = "idle" /\ cur = Global /\ packet = NULL
        /\ bytesRemaining = 0 /\ leftover = FALSE
    OBVIOUS
  <2>7. /\ pc \in {"idle", "read", "decode", "flush"} /\ cur \in Instance
        /\ packet \in Packet \union {NULL} /\ bytesRemaining \in Int
    BY <2>1, <2>6
  <2>8. leftover \in BOOLEAN
    BY <2>6, Zenon
  <2> QED
    BY ONLY <2>2, <2>5, <2>7, <2>8 DEF Types
<1>2. WholeInv /\ SizeInv /\ QueryInv /\ PacketInv /\ FaultsOnly
  BY DEF WholeInv, SizeInv, QueryInv, PacketInv, OwnPacket, FaultsOnly, Instance
<1>3. CountInv
  <2>1. \A k \in Field : {h \in Instance : k \in res[h]} = {}
    OBVIOUS
  <2>2. forgotten \in 0..MaxForgotten /\ forgotten = 0
    BY FFDecoderAssumption
  <2> QED
    BY <2>1, <2>2, FS_EmptySet DEF CountInv, NothingLost
<1>4. PlayerInv
  BY DEF PlayerInv
<1> QED
  BY <1>1, <1>2, <1>3, <1>4 DEF Inv

LEMMA StutterInv ==
  ASSUME Inv, UNCHANGED vars
  PROVE  Inv'
BY DEF vars, heapVars, packetVars, Inv, Types, WholeInv, SizeInv, CountInv,
       NothingLost, QueryInv, PacketInv, OwnPacket, FaultsOnly

LEMMA StepInv ==
  ASSUME Assumed, Inv, PlayerInv, [PNext]_pvars
  PROVE  Inv' /\ PlayerInv'
<1> USE DEF PlayerInv, uiVars
<1>1. ASSUME NEW h \in Handles, NEW v \in Videos, Start(h, v)
      PROVE  Inv' /\ PlayerInv'
  BY <1>1, OpenVideo2Inv DEF Start
<1>2. CASE QueryFrameSize
  BY <1>2, StutterInv DEF QueryFrameSize
<1>3. CASE Timer
  <2>1. pFFDecoder \in Instance
    BY <1>3 DEF Timer, Instance
  <2> QED
    BY <1>3, <2>1, QueryFrameInv DEF Timer
<1>4. CASE ShowFrame
  BY <1>4, StutterInv DEF ShowFrame
<1>5. CASE Input \/ OtherInput \/ KeyPause
  BY <1>5, StutterInv DEF Input, OtherInput, KeyPause, ReadInput
<1>6. CASE KeyFull
  <2>1. pFFDecoder \in Instance
    BY <1>6 DEF KeyFull, ReadInput, Instance
  <2> QED
    BY <1>6, <2>1, SetFrameSizeInv DEF KeyFull, Finish, ReadInput
<1>7. CASE KeyQuit
  BY <1>7, StutterInv DEF KeyQuit, Finish
<1>8. CASE Others
  <2>1. UNCHANGED <<ui, pFFDecoder>>
    BY <1>8 DEF Others
  <2>2. ASSUME NEW h \in Instance, CloseVideo(h) \/ QueryFrame(h)
        PROVE  Inv'
    BY <2>2, CloseVideoInv, QueryFrameInv
  <2>3. ASSUME NEW h \in Instance, NEW v \in Videos, OpenVideo(h, v)
        PROVE  Inv'
    BY <2>3, OpenVideoInv
  <2>4. ASSUME NEW h \in Instance \ {Global}, NEW v \in Videos, OpenVideo2(h, v)
        PROVE  Inv'
    <3>1. h \in Handles
      BY DEF Instance
    <3> QED
      BY <2>4, <3>1, OpenVideo2Inv
  <2>5. ASSUME NEW h \in Instance, NEW s \in Sizes, SetFrameSize(h, s)
        PROVE  Inv'
    BY <2>5, SetFrameSizeInv
  <2>6. Inv'
    BY <1>8, <2>2, <2>3, <2>4, <2>5 DEF Others
  <2> QED
    BY <2>1, <2>6
<1>9. CASE Decoder
  BY <1>9, DecodePacketInv, ReadPacketInv, FlushCodecInv DEF Decoder, GetNextFrame
<1>10. CASE UNCHANGED pvars
  BY <1>10, StutterInv DEF pvars
<1> QED
  BY <1>1, <1>2, <1>3, <1>4, <1>5, <1>6, <1>7, <1>8, <1>9, <1>10 DEF PNext, Player, Turn

LEMMA AlwaysInv ==
  ASSUME Assumed
  PROVE  PSpec => []Inv
<1>1. PInit => Inv /\ PlayerInv
  BY InitInv
<1>2. (Inv /\ PlayerInv) /\ [PNext]_pvars => (Inv /\ PlayerInv)'
  BY StepInv
<1>3. PSpec => [](Inv /\ PlayerInv)
  BY <1>1, <1>2, PTL DEF PSpec
<1> QED
  BY <1>3, PTL

-----------------------------------------------------------------------------
(* The frames of a video: read, decoded and shown *)

\* The packet that was just read for h is yet to be decoded.
Owed(h) == IF pc = "decode" /\ cur = h /\ ~leftover THEN 1 ELSE 0

\* Every video packet read so far has given a frame that was shown, or that the
\* codec holds, unless it is the one that is about to be decoded.
StreamInv ==
  \A h \in Instance : LET s == stream[h] IN s.file # NULL =>
    /\ s.pos \in 0..Len(s.file.packets) /\ s.held \in 0..s.file.delay
    /\ h \notin trouble => s.held + s.shown + Owed(h) = FramesTo(s.file, s.pos)

BytesInv == packet # NULL => packet.bytes > 0

FlushInv == pc = "flush" /\ cur \notin trouble =>
              stream[cur].pos = Len(stream[cur].file.packets)

RestTypes ==
  /\ trouble \subseteq Instance /\ got \in BOOLEAN
  /\ status \in {"success", "error", "no_media", "frame", "end", "none", "fault"}
  /\ op \in {"none", "open", "resize", "query"}

FrameInv == StreamInv /\ BytesInv /\ FlushInv /\ RestTypes /\ EndMeansAll

\* One packet more is one frame more, if it is a video packet.
LEMMA FramesGrow ==
  ASSUME NEW v \in Videos
  PROVE  /\ \A n \in Nat : FramesTo(v, n) \in Nat
         /\ FramesTo(v, 0) = 0
         /\ \A n \in Nat : FramesTo(v, n + 1) =
              FramesTo(v, n) + (IF v.packets[n + 1].video THEN 1 ELSE 0)
         /\ \A n \in 0..Len(v.packets) : FramesTo(v, n) <= Frames(v)
<1> DEFINE P(n) == {i \in 1..n : v.packets[i].video}
<1>1. Len(v.packets) \in Nat
  BY FFDecoderAssumption
<1>2. ASSUME NEW n \in Nat PROVE IsFiniteSet(P(n)) /\ Cardinality(P(n)) \in Nat
  <2>1. IsFiniteSet(1..n) /\ P(n) \subseteq 1..n
    BY FS_Interval
  <2>2. IsFiniteSet(P(n))
    BY <2>1, FS_Subset
  <2> QED
    BY <2>2, FS_CardinalityType
<1>3. Cardinality(P(0)) = 0
  <2>1. P(0) = {}
    OBVIOUS
  <2> QED
    BY <2>1, FS_EmptySet
<1>4. ASSUME NEW n \in Nat
      PROVE  Cardinality(P(n + 1)) = Cardinality(P(n))
               + (IF v.packets[n + 1].video THEN 1 ELSE 0)
  <2>1. CASE v.packets[n + 1].video
    <3>1. P(n + 1) = P(n) \union {n + 1} /\ n + 1 \notin P(n)
      BY <2>1
    <3>2. Cardinality(P(n) \union {n + 1}) = Cardinality(P(n)) + 1
      <4> HIDE DEF P
      <4> QED
        BY <1>2, <3>1, FS_AddElement
    <3> QED
      BY <2>1, <3>1, <3>2
  <2>2. CASE ~v.packets[n + 1].video
    <3>1. P(n + 1) = P(n)
      BY <2>2
    <3> HIDE DEF P
    <3> QED
      BY <1>2, <2>2, <3>1
  <2> QED
    BY <2>1, <2>2
<1>5. ASSUME NEW n \in 0..Len(v.packets)
      PROVE  Cardinality(P(n)) <= Cardinality(P(Len(v.packets)))
  <2>1. P(n) \subseteq P(Len(v.packets))
    BY <1>1
  <2> HIDE DEF P
  <2> QED
    BY <1>1, <1>2, <2>1, FS_Subset
<1> QED
  BY <1>2, <1>3, <1>4, <1>5 DEF FramesTo, Frames

\* Outside a query, an instance goes on as it was, begins a video or has none.
LEMMA CallKept ==
  ASSUME Inv, FrameInv, pc = "idle", UNCHANGED <<packetVars, pc>>,
         NEW h \in Instance, NEW v \in Videos,
         \A g \in Instance : g # h => stream'[g] = stream[g],
         \/ stream'[h] = stream[h] /\ (h \in trouble => h \in trouble')
         \/ stream'[h] = NoStream
         \/ stream'[h] = [NoStream EXCEPT !.file = v],
         trouble \ {h} \subseteq trouble', trouble' \subseteq trouble,
         got' = FALSE, op' = op, status' \in {"success", "error", "no_media"}
  PROVE  FrameInv'
<1> USE DEF packetVars
<1>1. StreamInv'
  <2> SUFFICES ASSUME NEW g \in Instance, stream'[g].file # NULL
      PROVE  /\ stream'[g].pos \in 0..Len(stream'[g].file.packets)
             /\ stream'[g].held \in 0..stream'[g].file.delay
             /\ g \notin trouble' =>
                  stream'[g].held + stream'[g].shown + Owed(g)'
                    = FramesTo(stream'[g].file, stream'[g].pos)
    BY DEF StreamInv, FramesTo
  <2>1. Owed(g) = 0 /\ Owed(g)' = 0
    BY DEF Owed
  <2>2. CASE stream'[g] = stream[g] /\ (g \in trouble => g \in trouble')
    BY <2>1, <2>2 DEF FrameInv, StreamInv
  <2>3. CASE stream'[g] = [NoStream EXCEPT !.file = v]
    <3>1. stream'[g].file = v /\ stream'[g].pos = 0 /\ stream'[g].held = 0
          /\ stream'[g].shown = 0
      BY <2>3 DEF NoStream
    <3>2. FramesTo(v, 0) = 0 /\ Len(v.packets) \in Nat /\ v.delay \in Nat
      BY FramesGrow, FFDecoderAssumption
    <3> QED
      BY <2>1, <3>1, <3>2
  <2>4. stream'[g] # NoStream
    BY DEF NoStream
  <2> QED
    BY <2>2, <2>3, <2>4
<1>2. BytesInv' /\ FlushInv' /\ RestTypes'
  BY DEF FrameInv, BytesInv, FlushInv, RestTypes
<1>3. EndMeansAll'
  BY DEF EndMeansAll
<1> QED
  BY <1>1, <1>2, <1>3 DEF FrameInv

\* A call that goes wrong at once leaves the streams alone.
LEMMA FaultFrames ==
  ASSUME Inv, FrameInv, pc = "idle", UNCHANGED <<stream, packetVars, pc, trouble>>,
         got' = FALSE, op' \in {"none", "open", "resize", "query"},
         status' \in {"success", "no_media", "fault"}
  PROVE  FrameInv'
<1>1. StreamInv'
  BY DEF packetVars, FrameInv, StreamInv, Owed, FramesTo
<1> QED
  BY <1>1 DEF packetVars, FrameInv, BytesInv, FlushInv, RestTypes, EndMeansAll

\* An open that succeeds begins a video, one that fails ends the last one.
LEMMA OpenFrames ==
  ASSUME Inv, FrameInv, pc = "idle", NEW h \in Instance, NEW v \in Videos,
         NEW at, NEW nulls, OpenVideoInternal(h, v, at, nulls),
         status' \in {"success", "error"},
         got' = FALSE, UNCHANGED <<packetVars, pc, op>>
  PROVE  FrameInv'
<1>1. /\ \A g \in Instance : g # h => stream'[g] = stream[g]
      /\ \/ stream'[h] = stream[h] /\ (h \in trouble => h \in trouble')
         \/ stream'[h] = NoStream
         \/ stream'[h] = [NoStream EXCEPT !.file = v]
      /\ trouble \ {h} \subseteq trouble' /\ trouble' \subseteq trouble
  BY DEF OpenVideoInternal, Inv, Types
<1> QED
  BY <1>1, CallKept

LEMMA OpenVideoFrames ==
  ASSUME Assumed, Inv, FrameInv, NEW h \in Instance, NEW v \in Videos, OpenVideo(h, v)
  PROVE  FrameInv'
<1>1. pc = "idle" /\ got' = FALSE /\ UNCHANGED <<packetVars, pc>>
  BY DEF OpenVideo, Ready
<1>2. CASE h # Global /\ LastVideo(h) # {}
  <2>1. status' = "fault" /\ op' = "open" /\ UNCHANGED <<stream, trouble>>
    BY <1>2 DEF OpenVideo, Fault
  <2> QED
    BY <1>1, <2>1, FaultFrames
<1>3. CASE ~(h # Global /\ LastVideo(h) # {})
  <2>1. PICK o \in OpenOutcome :
          /\ OpenVideoInternal(h, v, o.at, o.nulls)
          /\ status' = IF o.at = "done" THEN "success" ELSE "error"
          /\ UNCHANGED op
    BY <1>3 DEF OpenVideo
  <2> QED
    BY <1>1, <2>1, OpenFrames
<1> QED
  BY <1>2, <1>3

LEMMA OpenVideo2Frames ==
  ASSUME Inv, FrameInv, NEW h \in Handles, NEW v \in Videos, OpenVideo2(h, v)
  PROVE  FrameInv'
<1>1. h \in Instance /\ pc = "idle" /\ got' = FALSE /\ UNCHANGED <<packetVars, pc, op>>
  BY DEF OpenVideo2, Ready, Instance
<1>2. PICK o \in OpenOutcome :
        /\ OpenVideoInternal(h, v, o.at, o.nulls)
        /\ status' = IF o.at = "done" THEN "success" ELSE "error"
  BY DEF OpenVideo2
<1> QED
  BY <1>1, <1>2, OpenFrames

\* Closing ends the video; resizing leaves the stream alone.
LEMMA CloseVideoFrames ==
  ASSUME Inv, FrameInv, NEW h \in Instance, CloseVideo(h)
  PROVE  FrameInv'
<1>1. /\ pc = "idle" /\ UNCHANGED <<packetVars, pc, cur, op>> /\ got' = FALSE
      /\ stream' = [stream EXCEPT ![h] = NoStream]
      /\ trouble' = trouble \ {h} /\ status' = "success"
  BY DEF CloseVideo, Ready
<1>2. StreamInv'
  <2> SUFFICES ASSUME NEW g \in Instance, stream'[g].file # NULL
      PROVE  /\ stream'[g].pos \in 0..Len(stream'[g].file.packets)
             /\ stream'[g].held \in 0..stream'[g].file.delay
             /\ g \notin trouble' =>
                  stream'[g].held + stream'[g].shown + Owed(g)'
                    = FramesTo(stream'[g].file, stream'[g].pos)
    BY DEF StreamInv, FramesTo
  <2>1. g # h /\ stream'[g] = stream[g]
    BY <1>1 DEF NoStream, Inv, Types
  <2>2. Owed(g) = 0 /\ Owed(g)' = 0
    BY <1>1 DEF Owed
  <2> QED
    BY <1>1, <2>1, <2>2 DEF FrameInv, StreamInv
<1> QED
  BY <1>1, <1>2 DEF packetVars, FrameInv, BytesInv, FlushInv, RestTypes, EndMeansAll

LEMMA SetFrameSizeFrames ==
  ASSUME Assumed, Inv, FrameInv, NEW h \in Instance, NEW s, SetFrameSize(h, s)
  PROVE  FrameInv'
<1>1. /\ pc = "idle" /\ UNCHANGED <<stream, packetVars, pc, trouble>> /\ got' = FALSE
      /\ status' \in {"success", "no_media", "fault"}
      /\ op' = op \/ op' = "resize"
  BY DEF SetFrameSize, Ready, Fault
<1>2. op' \in {"none", "open", "resize", "query"}
  BY <1>1 DEF FrameInv, RestTypes
<1> QED
  BY <1>1, <1>2, FaultFrames

\* A query begins to decode only what the last one has left.
LEMMA QueryFrameFrames ==
  ASSUME Inv, FrameInv, NEW h \in Instance, QueryFrame(h)
  PROVE  FrameInv'
<1>1. /\ pc = "idle" /\ UNCHANGED <<stream, packetVars, trouble, op>>
      /\ status' \in {"none", "no_media"} /\ got' = FALSE
      /\ pc' \in {"idle", "read", "decode"}
      /\ pc' = "decode" => bytesRemaining > 0
  BY DEF QueryFrame, Ready
<1>2. ASSUME NEW g \in Instance PROVE Owed(g) = 0 /\ Owed(g)' = 0
  BY <1>1 DEF Owed, Inv, PacketInv, packetVars, Types
<1>3. StreamInv'
  BY <1>1, <1>2 DEF FrameInv, StreamInv, FramesTo
<1>4. BytesInv' /\ FlushInv' /\ RestTypes' /\ EndMeansAll'
  BY <1>1 DEF packetVars, FrameInv, BytesInv, FlushInv, RestTypes, EndMeansAll
<1> QED
  BY <1>3, <1>4 DEF FrameInv

-----------------------------------------------------------------------------
(* A step of GetNextFrame changes the stream of the queried instance only *)

Stream == [file : Videos \union {NULL}, pos : Nat, held : Nat, shown : Nat]

\* The instance that is queried, after a step that moves its stream to t.
Moved(t) ==
  /\ t.pos \in 0..Len(t.file.packets) /\ t.held \in 0..t.file.delay
  /\ cur \notin trouble' =>
       /\ t.held + t.shown + Owed(cur)' = FramesTo(t.file, t.pos)
       /\ pc' = "flush" => t.pos = Len(t.file.packets)
       /\ pc' = "idle" /\ status' = "end" => t.shown = Frames(t.file)

LEMMA StreamKept ==
  ASSUME Inv, FrameInv, cur' = cur, NEW t \in Stream,
         stream' = [stream EXCEPT ![cur] = t], t.file \in Videos, Moved(t),
         trouble' \in {trouble, trouble \union {cur}}, BytesInv', RestTypes'
  PROVE  FrameInv'
<1>1. cur \in Instance /\ stream'[cur] = t
      /\ \A g \in Instance : g # cur => stream'[g] = stream[g]
  BY DEF Inv, Types
<1>2. StreamInv'
  <2> SUFFICES ASSUME NEW g \in Instance, stream'[g].file # NULL
      PROVE  /\ stream'[g].pos \in 0..Len(stream'[g].file.packets)
             /\ stream'[g].held \in 0..stream'[g].file.delay
             /\ g \notin trouble' =>
                  stream'[g].held + stream'[g].shown + Owed(g)'
                    = FramesTo(stream'[g].file, stream'[g].pos)
    BY DEF StreamInv, FramesTo
  <2>1. CASE g = cur
    BY <1>1, <2>1 DEF Moved
  <2>2. CASE g # cur
    <3>1. stream'[g] = stream[g] /\ Owed(g) = 0 /\ Owed(g)' = 0
      BY <1>1, <2>2 DEF Owed
    <3> QED
      BY <2>2, <3>1 DEF FrameInv, StreamInv
  <2> QED
    BY <2>1, <2>2
<1>3. FlushInv' /\ EndMeansAll'
  BY <1>1 DEF FlushInv, EndMeansAll, Moved, Frames, FramesTo
<1> QED
  BY <1>2, <1>3 DEF FrameInv

\* What is known of the queried instance.
LEMMA Queried ==
  ASSUME Inv, FrameInv, pc # "idle"
  PROVE  LET s == stream[cur] IN
         /\ cur \in Instance /\ res[cur] \in {Field, Halved}
         /\ s \in Stream /\ s.file \in Videos /\ s.file # NULL
         /\ s.pos \in 0..Len(s.file.packets) /\ s.held \in 0..s.file.delay
         /\ s.file.delay \in Nat /\ Len(s.file.packets) \in Nat
         /\ cur \notin trouble =>
              s.held + s.shown + Owed(cur) = FramesTo(s.file, s.pos)
<1>1. cur \in Instance /\ res[cur] \in {Field, Halved}
  BY DEF Inv, Types, QueryInv
<1>2. stream[cur] \in Stream
  BY <1>1 DEF Inv, Types, Stream
<1>3. stream[cur].file \in Videos /\ stream[cur].file # NULL
  BY <1>1, FFDecoderAssumption, Halves DEF Inv, WholeInv
<1>4. stream[cur].file.delay \in Nat /\ Len(stream[cur].file.packets) \in Nat
  BY <1>3, FFDecoderAssumption
<1> QED
  BY <1>1, <1>2, <1>3, <1>4 DEF FrameInv, StreamInv

\* A frame is shown.
LEMMA ShownIs ==
  ASSUME NEW s \in Stream
  PROVE  /\ Shown(s) \in Stream
         /\ Shown(s).file = s.file /\ Shown(s).pos = s.pos /\ Shown(s).held = s.held
         /\ ~(s.shown > Frames(s.file)) => Shown(s).shown = s.shown + 1
BY DEF Shown, Stream

\* What a return reports.
LEMMA Returned ==
  ASSUME Inv, FrameInv, pc # "idle", res' = res, NEW r, Return(r)
  PROVE  /\ pc' = "idle" /\ cur' = cur
         /\ status' \in {"frame", "end", "fault"} /\ (r => status' # "end")
         /\ op' \in {"none", "open", "resize", "query"}
<1>1. /\ pc' = "idle" /\ cur' = cur
      /\ \/ status' \in {"frame", "end"} /\ op' = op
         \/ status' = "fault" /\ op' = "query"
  BY Queried, ReturnKept
<1>2. r => status' # "end"
  BY DEF Return, Fault
<1> QED
  BY <1>1, <1>2 DEF FrameInv, RestTypes

\* The packet that was owed gives a frame: shown, or held by the codec.
LEMMA DecodePacketFrames ==
  ASSUME Inv, Inv', FrameInv, DecodePacket
  PROVE  FrameInv'
<1> DEFINE s == stream[cur]
<1>0. /\ pc = "decode" /\ packet' = packet /\ UNCHANGED heapVars
      /\ packet # NULL /\ packet \in Packet /\ packet.bytes \in Nat /\ packet.bytes > 0
  BY DEF DecodePacket, Inv, PacketInv, Types, Packet, FrameInv, BytesInv
<1>4. /\ pc' = "idle" /\ cur' = cur /\ status' \in {"frame", "end", "fault"}
      /\ op' \in {"none", "open", "resize", "query"}
  <2>1. Return(FALSE) \/ Return(TRUE)
    BY DEF DecodePacket
  <2> QED
    BY <1>0, <2>1, Returned DEF heapVars
<1>1. /\ pc = "decode" /\ pc' = "idle" /\ cur' = cur /\ packet' = packet
      /\ packet # NULL /\ packet \in Packet /\ packet.bytes \in Nat /\ packet.bytes > 0
  BY <1>0, <1>4
<1>2. /\ cur \in Instance
      /\ s \in Stream /\ s.file \in Videos
      /\ s.pos \in 0..Len(s.file.packets) /\ s.held \in 0..s.file.delay
      /\ s.file.delay \in Nat /\ Len(s.file.packets) \in Nat
      /\ cur \notin trouble => s.held + s.shown + Owed(cur) = FramesTo(s.file, s.pos)
  BY <1>1, Queried
<1>3. BytesInv' /\ Owed(cur)' = 0 /\ (~leftover => Owed(cur) = 1)
  BY <1>1 DEF FrameInv, BytesInv, Owed
<1>5. FramesTo(s.file, s.pos) \in Nat /\ FramesTo(s.file, s.pos) <= Frames(s.file)
      /\ Frames(s.file) \in Nat
  <2>1. \A n \in Nat : FramesTo(s.file, n) \in Nat
    BY <1>2, FramesGrow
  <2>2. \A n \in 0..Len(s.file.packets) : FramesTo(s.file, n) <= Frames(s.file)
    BY <1>2, FramesGrow
  <2> HIDE DEF s
  <2>3. s.pos \in Nat
    BY <1>2
  <2> QED
    BY <1>2, <2>1, <2>2, <2>3 DEF Frames
<1>6. s.held \in Nat /\ s.shown \in Nat
  BY <1>2 DEF Stream
<1>7. CASE Return(FALSE) /\ trouble' = trouble \union {cur} /\ UNCHANGED <<stream, got>>
  <2>1. stream' = [stream EXCEPT ![cur] = s]
    BY <1>2, <1>7 DEF Inv, Types
  <2>2. RestTypes'
    <3>1. trouble' \subseteq Instance /\ got' \in BOOLEAN
      BY <1>2, <1>7 DEF FrameInv, RestTypes
    <3> QED
      BY <1>4, <3>1 DEF RestTypes
  <2>3. Moved(s)
    BY <1>2, <1>7 DEF Moved
  <2> HIDE DEF s
  <2> QED
    BY <1>1, <1>2, <1>3, <1>7, <2>1, <2>2, <2>3, StreamKept
<1>8. CASE ~(Return(FALSE) /\ trouble' = trouble \union {cur} /\ UNCHANGED <<stream, got>>)
  <2>1. PICK n \in 0..packet.bytes :
          /\ got' = (n > 0 /\ s.held = s.file.delay)
          /\ stream' = [stream EXCEPT ![cur] =
               IF n = 0 THEN s
               ELSE IF got' THEN Shown(s) ELSE [s EXCEPT !.held = @ + 1]]
          /\ trouble' = IF n = packet.bytes /\ ~leftover
                        THEN trouble ELSE trouble \union {cur}
          /\ Return(TRUE)
    BY <1>8 DEF DecodePacket
  <2>2. status' # "end" /\ n \in Nat /\ got' \in BOOLEAN
    <3>1. (n > 0 /\ s.held = s.file.delay) \in BOOLEAN
      OBVIOUS
    <3>2. got' \in BOOLEAN
      BY <2>1, <3>1, Zenon
    <3>3. status' # "end"
      BY <1>0, <2>1, Returned DEF heapVars
    <3> QED
      BY <1>1, <2>1, <3>2, <3>3
  <2> DEFINE t == IF n = 0 THEN s
                  ELSE IF got' THEN Shown(s) ELSE [s EXCEPT !.held = @ + 1]
  <2>3. trouble' \in {trouble, trouble \union {cur}}
    BY <2>1
  <2>4. RestTypes'
    BY <1>1, <1>2, <1>4, <2>2, <2>3 DEF FrameInv, RestTypes
  <2>5. /\ Shown(s) \in Stream
        /\ Shown(s).file = s.file /\ Shown(s).pos = s.pos /\ Shown(s).held = s.held
        /\ ~(s.shown > Frames(s.file)) => Shown(s).shown = s.shown + 1
    BY <1>2, ShownIs
  <2>6. [s EXCEPT !.held = @ + 1] \in Stream
    BY <1>2 DEF Stream
  <2>7. t \in Stream /\ t.file = s.file /\ t.pos = s.pos /\ t.held \in 0..s.file.delay
    <3>1. CASE n = 0
      BY <1>2, <3>1
    <3>2. CASE n # 0 /\ got'
      BY <1>2, <2>5, <3>2
    <3>3. CASE n # 0 /\ ~got'
      <4>0. s.held # s.file.delay
        <5>1. SUFFICES ASSUME s.held = s.file.delay PROVE FALSE
          OBVIOUS
        <5>2. (n > 0 /\ s.held = s.file.delay) = TRUE
          BY <2>2, <3>3, <5>1
        <5>3. got' = TRUE
          BY <2>1, <5>2, Zenon
        <5> QED
          BY <3>3, <5>3, Zenon
      <4>1. t = [s EXCEPT !.held = @ + 1] /\ s.held # s.file.delay
        BY <3>3, <4>0
      <4>2. t.held = s.held + 1 /\ t.file = s.file /\ t.pos = s.pos
        BY <1>2, <4>1 DEF Stream
      <4>3. t.held \in 0..s.file.delay
        BY <1>2, <4>1, <4>2
      <4> QED
        BY <2>6, <4>1, <4>2, <4>3
    <3> QED
      BY <3>1, <3>2, <3>3
  <2>8. ASSUME cur \notin trouble'
        PROVE  t.held + t.shown = FramesTo(s.file, s.pos)
    <3>1. n = packet.bytes /\ ~leftover /\ cur \notin trouble /\ n # 0
      BY <1>1, <2>1, <2>8
    <3>2. s.held + s.shown + 1 = FramesTo(s.file, s.pos)
      BY <1>2, <1>3, <3>1
    <3>3. CASE got'
      <4>1. t = Shown(s)
        BY <3>1, <3>3
      <4>2. ~(s.shown > Frames(s.file))
        BY <1>5, <1>6, <3>2
      <4>3. t.held = s.held /\ t.shown = s.shown + 1
        BY <2>5, <4>1, <4>2
      <4> QED
        BY <1>6, <3>2, <4>3
    <3>4. CASE ~got'
      <4>1. t = [s EXCEPT !.held = @ + 1]
        BY <3>1, <3>4
      <4>2. t.held = s.held + 1 /\ t.shown = s.shown
        BY <1>2, <4>1 DEF Stream
      <4> QED
        BY <1>6, <3>2, <4>2
    <3> QED
      BY <3>3, <3>4
  <2>9. stream' = [stream EXCEPT ![cur] = t]
    BY <2>1
  <2> HIDE DEF t, s
  <2>10. Moved(t)
    <3>1. t.held + t.shown + 0 = t.held + t.shown
      BY <2>7 DEF Stream
    <3> QED
      BY <1>1, <1>2, <1>3, <2>2, <2>7, <2>8, <3>1 DEF Moved
  <2> QED
    BY <1>1, <1>2, <1>3, <2>3, <2>4, <2>7, <2>9, <2>10, StreamKept
<1> QED
  BY <1>7, <1>8

\* A packet of the video is owed; at the end, all of them have been read.
LEMMA ReadPacketFrames ==
  ASSUME Inv, Inv', FrameInv, ReadPacket
  PROVE  FrameInv'
<1> DEFINE s == stream[cur]
           p == s.file.packets[s.pos + 1]
<1>1. /\ pc = "read" /\ cur' = cur /\ UNCHANGED <<heapVars, op, status, got>>
      /\ leftover' = FALSE
  BY DEF ReadPacket
<1>2. /\ cur \in Instance
      /\ s \in Stream /\ s.file \in Videos
      /\ s.pos \in 0..Len(s.file.packets) /\ s.held \in 0..s.file.delay
      /\ s.file.delay \in Nat /\ Len(s.file.packets) \in Nat
      /\ cur \notin trouble => s.held + s.shown + Owed(cur) = FramesTo(s.file, s.pos)
  BY <1>1, Queried
<1>3. s.held \in Nat /\ s.shown \in Nat /\ s.pos \in Nat
  BY <1>2 DEF Stream
<1>4. Owed(cur) = 0
  BY <1>1 DEF Owed
<1>5. CASE /\ s.pos < Len(s.file.packets)
           /\ packet' = [of |-> cur, file |-> s.file, bytes |-> p.bytes]
           /\ stream' = [stream EXCEPT ![cur].pos = @ + 1]
           /\ IF p.video THEN pc' = "decode" ELSE pc' = "read"
           /\ trouble' = trouble
  <2> DEFINE t == [s EXCEPT !.pos = @ + 1]
  <2>1. /\ t \in Stream /\ t.file = s.file /\ t.pos = s.pos + 1 /\ t.held = s.held
        /\ t.shown = s.shown
    BY <1>2 DEF Stream
  <2>2. stream' = [stream EXCEPT ![cur] = t]
    BY <1>2, <1>5 DEF Inv, Types
  <2>3. BytesInv'
    <3>1. s.file.packets \in Seq([video : BOOLEAN, bytes : Nat \ {0}])
      BY <1>2, FFDecoderAssumption
    <3>2. s.pos + 1 \in 1..Len(s.file.packets)
      BY <1>2, <1>5
    <3>3. p \in [video : BOOLEAN, bytes : Nat \ {0}]
      BY <3>1, <3>2, ElementOfSeq
    <3>4. packet'.bytes \in Nat /\ packet'.bytes # 0
      BY <1>5, <3>3
    <3> QED
      BY <3>4 DEF BytesInv
  <2>4. RestTypes'
    BY <1>1, <1>5 DEF FrameInv, RestTypes, heapVars
  <2>5. /\ FramesTo(s.file, s.pos + 1) = FramesTo(s.file, s.pos) + Owed(cur)'
        /\ Owed(cur)' \in Nat
    <3>1. FramesTo(s.file, s.pos + 1) = FramesTo(s.file, s.pos) + (IF p.video THEN 1 ELSE 0)
      BY <1>2, <1>3, FramesGrow
    <3>2. Owed(cur)' = IF p.video THEN 1 ELSE 0
      BY <1>1, <1>5 DEF Owed
    <3> QED
      BY <3>1, <3>2
  <2>6. FramesTo(s.file, s.pos) \in Nat
    BY <1>2, <1>3, FramesGrow
  <2>7. s.pos + 1 \in 0..Len(s.file.packets)
    BY <1>2, <1>5
  <2> HIDE DEF t, s
  <2>8. Moved(t)
    <3>1. cur \notin trouble' => t.held + t.shown + Owed(cur)' = FramesTo(t.file, t.pos)
      <4>1. SUFFICES ASSUME cur \notin trouble
                     PROVE  t.held + t.shown + Owed(cur)' = FramesTo(t.file, t.pos)
        BY <1>5
      <4>2. s.held + s.shown + 0 = FramesTo(s.file, s.pos)
        BY <1>2, <1>4, <4>1
      <4> QED
        BY <1>3, <2>1, <2>5, <2>6, <4>2
    <3>2. pc' \notin {"flush", "idle"}
      BY <1>5
    <3> QED
      BY <1>2, <2>1, <2>7, <3>1, <3>2 DEF Moved
  <2> QED
    BY <1>1, <1>2, <1>5, <2>1, <2>2, <2>3, <2>4, <2>8, StreamKept
<1>6. CASE /\ packet' = NULL /\ pc' = "flush" /\ UNCHANGED stream
           /\ trouble' = IF s.pos < Len(s.file.packets)
                         THEN trouble \union {cur} ELSE trouble
  <2>1. stream' = [stream EXCEPT ![cur] = s]
    BY <1>2, <1>6 DEF Inv, Types
  <2>2. BytesInv'
    BY <1>6 DEF BytesInv
  <2>3. RestTypes' /\ trouble' \in {trouble, trouble \union {cur}}
    BY <1>1, <1>2, <1>6 DEF FrameInv, RestTypes, heapVars
  <2>4. Owed(cur)' = 0
    BY <1>6 DEF Owed
  <2>5. cur \notin trouble' => cur \notin trouble /\ s.pos = Len(s.file.packets)
    BY <1>2, <1>6
  <2> HIDE DEF s
  <2>6. Moved(s)
    BY <1>2, <1>4, <1>6, <2>4, <2>5 DEF Moved
  <2> QED
    BY <1>1, <1>2, <2>1, <2>2, <2>3, <2>6, StreamKept
<1> QED
  <2>1. \/ /\ s.pos < Len(s.file.packets)
           /\ packet' = [of |-> cur, file |-> s.file, bytes |-> p.bytes]
           /\ stream' = [stream EXCEPT ![cur].pos = @ + 1]
           /\ IF p.video THEN pc' = "decode" ELSE pc' = "read"
           /\ trouble' = trouble
        \/ /\ packet' = NULL /\ pc' = "flush" /\ UNCHANGED stream
           /\ trouble' = IF s.pos < Len(s.file.packets)
                         THEN trouble \union {cur} ELSE trouble
    BY <1>1 DEF ReadPacket, AfterEnd
  <2> QED
    BY <1>5, <1>6, <2>1

\* The last frames come from the codec; then there is nothing left.
LEMMA FlushCodecFrames ==
  ASSUME Inv, Inv', FrameInv, FlushCodec
  PROVE  FrameInv'
<1> DEFINE s == stream[cur]
           t == IF s.held > 0 THEN [Shown(s) EXCEPT !.held = @ - 1] ELSE s
<1>0. /\ pc' = "idle" /\ cur' = cur /\ status' \in {"frame", "end", "fault"}
      /\ op' \in {"none", "open", "resize", "query"}
      /\ got' => status' # "end"
  <2> DEFINE r == got'
  <2>1. pc = "flush" /\ Return(r) /\ res' = res
    BY DEF FlushCodec, heapVars
  <2> HIDE DEF r
  <2>2. /\ pc' = "idle" /\ cur' = cur /\ status' \in {"frame", "end", "fault"}
        /\ op' \in {"none", "open", "resize", "query"}
        /\ r => status' # "end"
    BY <2>1, Returned
  <2> QED
    BY <2>2 DEF r
<1>1. /\ pc = "flush" /\ pc' = "idle" /\ cur' = cur
      /\ UNCHANGED <<heapVars, packetVars, trouble>>
      /\ got' = (s.held > 0)
      /\ stream' = [stream EXCEPT ![cur] = t]
  BY <1>0 DEF FlushCodec, Flushed
<1>2. /\ cur \in Instance
      /\ s \in Stream /\ s.file \in Videos
      /\ s.pos \in 0..Len(s.file.packets) /\ s.held \in 0..s.file.delay
      /\ s.file.delay \in Nat /\ Len(s.file.packets) \in Nat
      /\ cur \notin trouble => s.held + s.shown + Owed(cur) = FramesTo(s.file, s.pos)
  BY <1>1, Queried
<1>3. s.held \in Nat /\ s.shown \in Nat /\ s.pos \in Nat
  BY <1>2 DEF Stream
<1>4. Owed(cur) = 0 /\ Owed(cur)' = 0
  BY <1>1 DEF Owed
<1>5. cur \notin trouble => s.pos = Len(s.file.packets)
                            /\ s.held + s.shown = Frames(s.file)
  <2>1. ASSUME cur \notin trouble
        PROVE  s.pos = Len(s.file.packets) /\ s.held + s.shown = Frames(s.file)
    <3>1. s.pos = Len(s.file.packets)
      BY <1>1, <2>1 DEF FrameInv, FlushInv
    <3>2. s.held + s.shown + 0 = FramesTo(s.file, s.pos)
      BY <1>2, <1>4, <2>1
    <3> QED
      BY <1>3, <3>1, <3>2 DEF Frames
  <2> QED
    BY <2>1
<1>6. /\ Shown(s) \in Stream
      /\ Shown(s).file = s.file /\ Shown(s).pos = s.pos /\ Shown(s).held = s.held
      /\ ~(s.shown > Frames(s.file)) => Shown(s).shown = s.shown + 1
  BY <1>2, ShownIs
<1>7. Frames(s.file) \in Nat
  BY <1>2, FramesGrow DEF Frames
<1>8. CASE s.held > 0
  <2>1. t = [Shown(s) EXCEPT !.held = @ - 1]
    BY <1>8
  <2>2. t \in Stream /\ t.file = s.file /\ t.pos = s.pos /\ t.held = s.held - 1
        /\ t.shown = Shown(s).shown
    BY <1>3, <1>6, <1>8, <2>1 DEF Stream
  <2>3. got' = TRUE /\ status' # "end"
    <3>1. (s.held > 0) = TRUE
      BY <1>8
    <3>2. got' = TRUE
      BY <1>1, <3>1, Zenon
    <3> QED
      BY <1>0, <3>2
  <2>4. t.held \in 0..s.file.delay
    BY <1>2, <1>8, <2>2
  <2> HIDE DEF t, s
  <2>5. cur \notin trouble => t.held + t.shown + 0 = Frames(t.file)
    <3>1. SUFFICES ASSUME cur \notin trouble PROVE t.held + t.shown + 0 = Frames(t.file)
      OBVIOUS
    <3>2. s.held + s.shown = Frames(s.file)
      BY <1>5, <3>1
    <3>3. ~(s.shown > Frames(s.file))
      BY <1>3, <1>7, <3>2
    <3>4. t.shown = s.shown + 1
      BY <1>6, <2>2, <3>3
    <3>5. s.held - 1 + (s.shown + 1) + 0 = s.held + s.shown
      BY <1>3
    <3> QED
      BY <2>2, <3>2, <3>4, <3>5
  <2>6. Moved(t)
    <3>1. cur \notin trouble' => cur \notin trouble
      BY <1>1
    <3>2. cur \notin trouble => t.pos = Len(t.file.packets)
      BY <1>5, <2>2
    <3> QED
      BY <1>1, <1>2, <1>4, <2>2, <2>3, <2>4, <2>5, <3>1, <3>2 DEF Moved, Frames
  <2>7. BytesInv' /\ RestTypes'
    <3>1. got' \in BOOLEAN
      BY <2>3
    <3> QED
      BY <1>0, <1>1, <2>3, <3>1 DEF FrameInv, BytesInv, RestTypes, packetVars, heapVars
  <2> QED
    BY <1>1, <1>2, <2>2, <2>6, <2>7, StreamKept
<1>9. CASE ~(s.held > 0)
  <2>1. t = s /\ s.held = 0
    BY <1>3, <1>9
  <2>2. got' = FALSE
    <3>1. (s.held > 0) = FALSE
      BY <1>9
    <3> QED
      BY <1>1, <3>1, Zenon
  <2> HIDE DEF t, s
  <2>3. cur \notin trouble => s.shown = Frames(s.file) /\ s.held + s.shown + 0 = Frames(s.file)
    BY <1>3, <1>5, <1>7, <2>1
  <2>4. Moved(s)
    <3>1. cur \notin trouble' => cur \notin trouble
      BY <1>1
    <3> QED
      BY <1>1, <1>2, <1>4, <1>5, <2>3, <3>1 DEF Moved, Frames
  <2>5. BytesInv' /\ RestTypes'
    <3>1. got' \in BOOLEAN
      BY <2>2
    <3> QED
      BY <1>0, <1>1, <2>2, <3>1 DEF FrameInv, BytesInv, RestTypes, packetVars, heapVars
  <2> QED
    BY <1>1, <1>2, <2>1, <2>4, <2>5, StreamKept
<1> QED
  BY <1>8, <1>9

\* Steps that leave the decoder alone.
LEMMA StutterFrames == ASSUME FrameInv, UNCHANGED vars PROVE FrameInv'
BY DEF vars, heapVars, packetVars, FrameInv, StreamInv, BytesInv, FlushInv, RestTypes,
       EndMeansAll, Owed, Frames, FramesTo

LEMMA InitFrames == ASSUME PInit PROVE FrameInv
<1> USE DEF PInit, Init
<1>1. StreamInv
  BY DEF StreamInv, NoStream
<1>2. BytesInv /\ FlushInv /\ EndMeansAll
  BY DEF BytesInv, FlushInv, EndMeansAll
<1>3. RestTypes
  BY DEF RestTypes
<1> QED
  BY <1>1, <1>2, <1>3 DEF FrameInv

\* One case per action.
LEMMA StepFrames ==
  ASSUME Assumed, Inv, Inv', PlayerInv, FrameInv, [PNext]_pvars
  PROVE  FrameInv'
<1>1. ASSUME NEW h \in Handles, NEW v \in Videos, Start(h, v)
      PROVE  FrameInv'
  BY <1>1, OpenVideo2Frames DEF Start
<1>2. CASE QueryFrameSize
  BY <1>2, StutterFrames DEF QueryFrameSize
<1>3. CASE Timer
  <2>1. pFFDecoder \in Instance
    BY <1>3 DEF Timer, Instance, PlayerInv
  <2> QED
    BY <1>3, <2>1, QueryFrameFrames DEF Timer
<1>4. CASE ShowFrame
  BY <1>4, StutterFrames DEF ShowFrame
<1>5. CASE Input \/ OtherInput \/ KeyPause
  BY <1>5, StutterFrames DEF Input, OtherInput, KeyPause
<1>6. CASE KeyFull
  <2>1. pFFDecoder \in Instance
    BY <1>6 DEF KeyFull, ReadInput, Instance, PlayerInv
  <2> QED
    BY <1>6, <2>1, SetFrameSizeFrames DEF KeyFull
<1>7. CASE KeyQuit
  BY <1>7, StutterFrames DEF KeyQuit
<1>8. CASE Others
  <2>1. ASSUME NEW h \in Instance, CloseVideo(h) \/ QueryFrame(h)
        PROVE  FrameInv'
    BY <2>1, CloseVideoFrames, QueryFrameFrames
  <2>2. ASSUME NEW h \in Instance, NEW v \in Videos, OpenVideo(h, v)
        PROVE  FrameInv'
    BY <2>2, OpenVideoFrames
  <2>3. ASSUME NEW h \in Instance \ {Global}, NEW v \in Videos, OpenVideo2(h, v)
        PROVE  FrameInv'
    <3>1. h \in Handles
      BY DEF Instance
    <3> QED
      BY <2>3, <3>1, OpenVideo2Frames
  <2>4. ASSUME NEW h \in Instance, NEW s \in Sizes, SetFrameSize(h, s)
        PROVE  FrameInv'
    BY <2>4, SetFrameSizeFrames
  <2> QED
    BY <1>8, <2>1, <2>2, <2>3, <2>4 DEF Others
<1>9. CASE Decoder
  BY <1>9, DecodePacketFrames, ReadPacketFrames, FlushCodecFrames DEF Decoder, GetNextFrame
<1>10. CASE UNCHANGED pvars
  BY <1>10, StutterFrames DEF pvars
<1> QED
  BY <1>1, <1>2, <1>3, <1>4, <1>5, <1>6, <1>7, <1>8, <1>9, <1>10 DEF PNext, Player, Turn

LEMMA AlwaysFrames ==
  ASSUME Assumed
  PROVE  PSpec => [](Inv /\ FrameInv)
<1>1. PInit => Inv /\ PlayerInv /\ FrameInv
  BY InitInv, InitFrames
<1>2. (Inv /\ PlayerInv /\ FrameInv) /\ [PNext]_pvars => (Inv /\ PlayerInv /\ FrameInv)'
  BY StepInv, StepFrames
<1>3. PSpec => [](Inv /\ PlayerInv /\ FrameInv)
  BY <1>1, <1>2, PTL DEF PSpec
<1> QED
  BY <1>3, PTL

-----------------------------------------------------------------------------
(* The player's frame *)

Fits == (1..FULL_WIDTH) \X (1..FULL_HEIGHT)

\* The videos fit the screen: only the F key makes the player look at its size.
OnScreen ==
  /\ FULL_WIDTH \in Nat /\ FULL_HEIGHT \in Nat
  /\ \A v \in Videos : v.size \in Fits

\* The player's Width and Height are what the scaler was made for, and a frame
\* of that size fits the screen.
ScreenInv ==
  /\ size = [h \in Instance |-> size[h]]
  /\ ui = "size" /\ pFFDecoder # NULL => size[pFFDecoder] \in Fits
  /\ ui \in {"loop", "frame"} =>
       /\ size[pFFDecoder] = <<Width, Height>>
       /\ <<Width, Height>> \in Fits

\* Whole quotients.
LEMMA Quotient ==
  ASSUME NEW a \in Nat, NEW b \in Nat \ {0}
  PROVE  /\ a \div b \in Nat /\ b * (a \div b) <= a
         /\ \A q \in Nat : b * q <= a => q <= a \div b
         /\ \A c \in Nat : a <= c * b => a \div b <= c
OBVIOUS

\* What the larger picture is enlarged by is at least 1, and keeps both sides in
\* the screen.
LEMMA FullSizeFits ==
  ASSUME OnScreen, <<Width, Height>> \in Fits
  PROVE  FullSize \in Fits
<1> DEFINE N == FAXTOR_NUM
           fw == (FULL_WIDTH * N) \div Width
           fh == (FULL_HEIGHT * N) \div Height
           f == Factor(fw, fh)
<1>1. /\ N \in Nat \ {0} /\ FULL_WIDTH \in Nat /\ FULL_HEIGHT \in Nat
      /\ Width \in Nat \ {0} /\ Width <= FULL_WIDTH
      /\ Height \in Nat \ {0} /\ Height <= FULL_HEIGHT
  BY FFPlayerAssumption DEF OnScreen, Fits
<1>2. ASSUME NEW side \in Nat \ {0}, NEW full \in Nat, side <= full,
             NEW g, g = (full * N) \div side
      PROVE  g \in Nat /\ N <= g /\ side * g <= full * N
  <2>1. full * N \in Nat /\ side * N <= full * N
    <3> HIDE DEF N
    <3> QED
      BY <1>1, <1>2
  <2> HIDE DEF N
  <2> QED
    BY <1>1, <1>2, <2>1, Quotient
<1>3. fw \in Nat /\ N <= fw /\ Width * fw <= FULL_WIDTH * N
  BY <1>1, <1>2
<1>4. fh \in Nat /\ N <= fh /\ Height * fh <= FULL_HEIGHT * N
  BY <1>1, <1>2
<1> HIDE DEF fw, fh
<1>5. f \in Nat /\ N <= f /\ f <= fw /\ f <= fh
  BY <1>3, <1>4 DEF Factor
<1> HIDE DEF f, N
<1>6. ASSUME NEW side \in Nat \ {0}, NEW full \in Nat, NEW g \in Nat, f <= g,
             side * g <= full * N
      PROVE  (side * f) \div N \in 1..full
  <2>1. side * f \in Nat /\ side * f <= side * g
    BY <1>5, <1>6
  <2>2. side * f <= full * N
    BY <1>1, <1>5, <1>6, <2>1
  <2>3. N * side <= side * f
    BY <1>1, <1>5, <1>6
  <2>4. (side * f) \div N \in Nat
    BY <1>1, <2>1, Quotient
  <2>5. (side * f) \div N <= full
    BY <1>1, <2>1, <2>2, Quotient
  <2>6. side <= (side * f) \div N
    BY <1>1, <2>1, <2>3, Quotient
  <2> QED
    BY <2>4, <2>5, <2>6
<1>7. (Width * f) \div N \in 1..FULL_WIDTH
  BY <1>1, <1>3, <1>5, <1>6
<1>8. (Height * f) \div N \in 1..FULL_HEIGHT
  BY <1>1, <1>4, <1>5, <1>6
<1>9. FullSize = <<(Width * f) \div N, (Height * f) \div N>>
  BY DEF FullSize, f, fw, fh, N
<1> QED
  BY <1>7, <1>8, <1>9 DEF Fits

\* Every call sets the size of one instance at most.
LEMMA SizeKept ==
  ASSUME size = [h \in Instance |-> size[h]], [PNext]_pvars
  PROVE  size' = [h \in Instance |-> size'[h]]
<1>1. ASSUME NEW h, NEW x, size' = [size EXCEPT ![h] = x]
      PROVE  size' = [g \in Instance |-> size'[g]]
  BY <1>1
<1>2. ASSUME size' = size PROVE size' = [g \in Instance |-> size'[g]]
  BY <1>2
<1>3. ASSUME NEW h, NEW v, OpenVideo(h, v) \/ OpenVideo2(h, v)
      PROVE  size' = [g \in Instance |-> size'[g]]
  <2>1. size' = size \/ \E x : size' = [size EXCEPT ![h] = x]
    BY <1>3 DEF OpenVideo, OpenVideo2, OpenVideoInternal, heapVars
  <2> QED
    BY <1>1, <1>2, <2>1
<1>4. ASSUME NEW h, CloseVideo(h) PROVE size' = [g \in Instance |-> size'[g]]
  BY <1>1, <1>4 DEF CloseVideo
<1>5. ASSUME NEW h, QueryFrame(h) PROVE size' = [g \in Instance |-> size'[g]]
  BY <1>2, <1>5 DEF QueryFrame, heapVars
<1>6. ASSUME NEW h, NEW s, SetFrameSize(h, s)
      PROVE  size' = [g \in Instance |-> size'[g]]
  <2>1. size' = size \/ \E x : size' = [size EXCEPT ![h] = x]
    BY <1>6 DEF SetFrameSize, heapVars
  <2> QED
    BY <1>1, <1>2, <2>1
<1>7. CASE Decoder
  BY <1>2, <1>7 DEF Decoder, GetNextFrame, DecodePacket, ReadPacket, FlushCodec, heapVars
<1>8. CASE Player
  BY <1>2, <1>3, <1>5, <1>6, <1>8
     DEF Player, Start, QueryFrameSize, ShowFrame, Turn, Timer, OtherInput, KeyPause,
         KeyFull, KeyQuit, vars, heapVars
<1>9. CASE Others
  BY <1>3, <1>4, <1>5, <1>6, <1>9 DEF Others
<1>10. CASE Input \/ UNCHANGED pvars
  BY <1>2, <1>10 DEF Input, pvars, vars, heapVars
<1> QED
  BY <1>7, <1>8, <1>9, <1>10 DEF PNext

\* One case per action.
LEMMA StepScreen ==
  ASSUME Assumed, OnScreen, Inv, Inv', PlayerInv, ScreenInv, [PNext]_pvars
  PROVE  ScreenInv'
<1> USE DEF uiVars
<1>0. size = [g \in Instance |-> size[g]] /\ size' = [g \in Instance |-> size'[g]]
  BY SizeKept DEF ScreenInv
<1>1. ASSUME NEW h \in Handles, NEW v \in Videos, Start(h, v)
      PROVE  ScreenInv'
  <2>1. PICK o \in OpenOutcome :
          /\ OpenVideoInternal(h, v, o.at, o.nulls)
          /\ status' = IF o.at = "done" THEN "success" ELSE "error"
    BY <1>1 DEF Start, OpenVideo2
  <2>2. ui' = "size" /\ pFFDecoder' = IF status' = "success" THEN h ELSE NULL
    BY <1>1 DEF Start
  <2>3. ASSUME pFFDecoder' # NULL PROVE size'[pFFDecoder'] \in Fits
    <3>1. pFFDecoder' = h /\ o.at = "done" /\ h \in Instance
      BY <2>1, <2>2, <2>3 DEF Instance
    <3>2. size' = [size EXCEPT ![h] = v.size]
      BY <2>1, <3>1 DEF OpenVideoInternal
    <3>3. size'[h] = v.size
      BY <1>0, <3>1, <3>2
    <3> QED
      BY <3>1, <3>3 DEF OnScreen
  <2>4. Fits' = Fits
    BY DEF Fits
  <2> QED
    BY <1>0, <2>2, <2>3, <2>4 DEF ScreenInv
<1>2. CASE QueryFrameSize
  <2>1. CASE pFFDecoder = NULL
    BY <1>0, <1>2, <2>1 DEF QueryFrameSize, ScreenInv
  <2>2. CASE pFFDecoder # NULL
    <3>1. size[pFFDecoder] \in Fits
      BY <1>2, <2>2 DEF QueryFrameSize, ScreenInv
    <3>2. size[pFFDecoder] = <<size[pFFDecoder][1], size[pFFDecoder][2]>>
      BY <3>1 DEF Fits
    <3>3. Width' = size[pFFDecoder][1] /\ Height' = size[pFFDecoder][2] /\ ui' = "loop"
          /\ size' = size /\ pFFDecoder' = pFFDecoder
      BY <1>2, <2>2 DEF QueryFrameSize, vars, heapVars
    <3> QED
      BY <1>0, <3>1, <3>2, <3>3 DEF ScreenInv, Fits
  <2> QED
    BY <2>1, <2>2
<1>3. CASE Timer
  BY <1>0, <1>3 DEF Timer, QueryFrame, heapVars, ScreenInv, Fits
<1>4. CASE ShowFrame
  BY <1>0, <1>4 DEF ShowFrame, vars, heapVars, ScreenInv, Fits
<1>5. CASE Input \/ OtherInput \/ KeyPause
  BY <1>0, <1>5 DEF Input, OtherInput, KeyPause, ReadInput, vars, heapVars, ScreenInv, Fits
<1>6. CASE KeyFull
  <2>1. ui = "loop" /\ SetFrameSize(pFFDecoder, FullSize) /\ FullSize \in Fits
    BY <1>6, FullSizeFits DEF KeyFull, ReadInput, ScreenInv
  <2>2. CASE status' # "success"
    BY <1>0, <1>6, <2>2 DEF KeyFull, Finish, ScreenInv
  <2>3. CASE status' = "success"
    <3>1. /\ Width' = FullSize[1] /\ Height' = FullSize[2] /\ ui' = "loop"
          /\ pFFDecoder' = pFFDecoder
      BY <1>6, <2>1, <2>3 DEF KeyFull
    <3>2. pFFDecoder \in Instance
      BY <2>1 DEF PlayerInv, Instance
    <3>4. \/ size[pFFDecoder] = FullSize /\ size' = size
          \/ size' = [size EXCEPT ![pFFDecoder] = FullSize]
      <4> DEFINE s == FullSize
      <4>1. SetFrameSize(pFFDecoder, s)
        BY <2>1
      <4> HIDE DEF s
      <4>2. \/ size[pFFDecoder] = s /\ size' = size
            \/ size' = [size EXCEPT ![pFFDecoder] = s]
        BY <2>3, <4>1 DEF SetFrameSize, Fault, ScaledTo
      <4> QED
        BY <4>2 DEF s
    <3>5. size'[pFFDecoder] = FullSize
      BY <1>0, <3>2, <3>4
    <3>6. FullSize = <<FullSize[1], FullSize[2]>>
      BY <2>1 DEF Fits
    <3> QED
      BY <1>0, <2>1, <3>1, <3>5, <3>6 DEF ScreenInv, Fits
  <2> QED
    BY <2>2, <2>3
<1>7. CASE KeyQuit
  BY <1>0, <1>7 DEF KeyQuit, Finish, ScreenInv
<1>8. CASE Others
  BY <1>0, <1>8 DEF Others, ScreenInv
<1>9. CASE Decoder
  <2>1. size' = size
    BY <1>9 DEF Decoder, GetNextFrame, DecodePacket, ReadPacket, FlushCodec, heapVars
  <2> QED
    BY <1>0, <1>9, <2>1 DEF Decoder, ScreenInv, Fits
<1>10. CASE UNCHANGED pvars
  BY <1>0, <1>10 DEF pvars, vars, heapVars, ScreenInv, Fits
<1> QED
  BY <1>1, <1>2, <1>3, <1>4, <1>5, <1>6, <1>7, <1>8, <1>9, <1>10 DEF PNext, Player, Turn

-----------------------------------------------------------------------------
(* The properties of the runs *)

\* Every libav object is in a field of one instance, or is one of the half
\* released videos that OpenVideo forgot, and the only packet is the static one,
\* whatever step an open or a resize fails at (OpenVideoInternal, CloseVideo,
\* SetFrameSize, GetNextFrame).
THEOREM DecoderNothingLost == Assumed => (PSpec => []NothingLost)
<1> SUFFICES ASSUME Assumed PROVE PSpec => []NothingLost
  OBVIOUS
<1>1. Inv => NothingLost
  BY DEF Inv, CountInv
<1> QED
  BY <1>1, AlwaysInv, PTL

\* Whatever its callers call, the decoder uses a NULL or freed pointer in three
\* calls only: SetFrameSize without a video (ffdecoder.c:506), OpenVideo of an
\* OpenVideo2 instance whose video is open (246), and QueryFrame after a
\* SetFrameSize that failed.
THEOREM DecoderFaultsOnly == Assumed => (PSpec => []FaultsOnly)
<1> SUFFICES ASSUME Assumed PROVE PSpec => []FaultsOnly
  OBVIOUS
<1>1. Inv => FaultsOnly
  BY DEF Inv
<1> QED
  BY <1>1, AlwaysInv, PTL

\* The scaler never writes past the buffer, whatever sizes were asked for.
THEOREM DecoderScalerFits == Assumed => (PSpec => []ScalerFits)
<1> SUFFICES ASSUME Assumed PROVE PSpec => []ScalerFits
  OBVIOUS
<1>1. Inv => ScalerFits
  BY DEF Inv, SizeInv, ScalerFits
<1> QED
  BY <1>1, AlwaysInv, PTL

\* GetNextFrame's static packet is that of the queried instance, unless the last
\* decode left bytes of another.
THEOREM DecoderOwnPacket == Assumed => (PSpec => []OwnPacket)
<1> SUFFICES ASSUME Assumed PROVE PSpec => []OwnPacket
  OBVIOUS
<1>1. Inv => OwnPacket
  BY DEF Inv, PacketInv
<1> QED
  BY <1>1, AlwaysInv, PTL

\* The fields of each context, the place in each stream and every count stay
\* what the code takes them for.
THEOREM DecoderTypeCorrect == Assumed => (PSpec => []TypeOK)
<1> SUFFICES ASSUME Assumed PROVE PSpec => []TypeOK
  OBVIOUS
<1>1. Inv /\ FrameInv => TypeOK
  <2> SUFFICES ASSUME Inv, FrameInv PROVE TypeOK
    OBVIOUS
  <2>1. alive \in [Field -> 0..(Cardinality(Instance) + MaxForgotten)]
    <3>1. ASSUME NEW k \in Field PROVE alive[k] \in 0..(Cardinality(Instance) + MaxForgotten)
      <4> DEFINE O == {h \in Instance : k \in res[h]}
                 n == IF k \in Halved THEN forgotten ELSE 0
      <4>1. alive[k] = Cardinality(O) + n /\ O \subseteq Instance
        BY DEF Inv, CountInv, NothingLost
      <4>2. n \in 0..MaxForgotten /\ MaxForgotten \in Nat
        BY FFDecoderAssumption DEF Inv, CountInv
      <4> HIDE DEF O, n
      <4>3. /\ IsFiniteSet(O) /\ Cardinality(O) <= Cardinality(Instance)
            /\ Cardinality(O) \in Nat /\ Cardinality(Instance) \in Nat
        BY <4>1, InstanceFinite, FS_Subset, FS_CardinalityType
      <4> QED
        BY <4>1, <4>2, <4>3
    <3> QED
      BY <3>1 DEF Inv, CountInv
  <2>2. ASSUME NEW h \in Instance
        PROVE  /\ stream[h].file \in Videos \union {NULL}
               /\ stream[h].file # NULL =>
                    /\ stream[h].pos \in 0..Len(stream[h].file.packets)
                    /\ stream[h].held \in 0..stream[h].file.delay
    BY DEF Inv, Types, FrameInv, StreamInv
  <2>3. pc # "idle" => stream[cur].file # NULL
    BY Queried
  <2>4. packets \in Nat /\ forgotten \in 0..MaxForgotten /\ (pc = "decode" => packet # NULL)
    BY DEF Inv, CountInv, NothingLost, PacketInv
  <2> QED
    BY <2>1, <2>2, <2>3, <2>4 DEF TypeOK, Inv, Types, FrameInv, RestTypes
<1> QED
  BY <1>1, AlwaysFrames, PTL

\* EFI_END_OF_MEDIA comes when every frame of the video has been shown, those
\* the codec held back too, if reading and decoding went smoothly, whatever
\* the other instances did meanwhile (GetNextFrame, QueryFrame).
THEOREM DecoderEndMeansAll == Assumed => (PSpec => []EndMeansAll)
<1> SUFFICES ASSUME Assumed PROVE PSpec => []EndMeansAll
  OBVIOUS
<1>1. Inv /\ FrameInv => EndMeansAll
  BY DEF FrameInv
<1> QED
  BY <1>1, AlwaysFrames, PTL

\* The frame that DecShowFrame copies has the size of the decoder's buffer and
\* fits the screen, if the videos do: enlarging never goes past the screen, and
\* never makes a side 0, by which the next one would divide.
THEOREM PlayerCopyFits == Assumed /\ OnScreen => (PSpec => []CopyFits)
<1> SUFFICES ASSUME Assumed, OnScreen PROVE PSpec => []CopyFits
  OBVIOUS
<1>1. PInit => Inv /\ PlayerInv /\ ScreenInv
  BY InitInv DEF PInit, Init, ScreenInv
<1>2. (Inv /\ PlayerInv /\ ScreenInv) /\ [PNext]_pvars => (Inv /\ PlayerInv /\ ScreenInv)'
  BY StepInv, StepScreen
<1>3. Inv /\ ScreenInv => CopyFits
  BY DEF Inv, SizeInv, ScreenInv, CopyFits, OnScreen, Fits
<1>4. PSpec => [](Inv /\ PlayerInv /\ ScreenInv)
  BY <1>1, <1>2, PTL DEF PSpec
<1> QED
  BY <1>3, <1>4, PTL
=============================================================================

------------------------------ MODULE AC97Codec ------------------------------
(***************************************************************************)
(* The codec side of the AC'97 driver: the register protocol of            *)
(* book/audio/ac97.c under AC97Reset and AC97Volume of accdriver.c.        *)
(*                                                                         *)
(* The driver reaches the codec's registers through a controller that does *)
(* one access at a time.  The controller's semaphore bit CAS is taken by   *)
(* the read that finds it 0 and falls when the access is over.  A step of  *)
(* the driver is one access to a register of the controller or the codec;  *)
(* the codec, and the other master that shares the controller, take steps  *)
(* of their own between any two of them.  The driver never learns what an  *)
(* access made without the semaphore did: it may be lost, and a read may   *)
(* give anything.                                                          *)
(***************************************************************************)
EXTENDS Integers

CONSTANTS
  SemTries,    \* the 100 of AcquireCodecSemiphore
  WaitCycles,  \* the 200 of PrimaryCodecReady and PowerUpCodec
  WordSize,    \* 2^16: a codec register is a WORD
  NewVolumes,  \* the values >= 0 of *NewVolume that callers pass
  Increases    \* the values of Increase that callers pass

ASSUME ParameterAssumption ==
  /\ SemTries \in Nat
  /\ WaitCycles \in Nat
  /\ WordSize \in Nat \ {0}
  /\ NewVolumes \subseteq Nat
  /\ Increases \subseteq Int

VARIABLES
  \* the controller and the codec
  linkOn,      \* GLOB_CNT_COLD: the AC link is out of reset
  holder,      \* whose access holds the semaphore; CAS is 0 iff it is "none"
  ready,       \* GLOB_STA_PCR
  rcs,         \* GLOB_STA_RCS: the last read did not complete; sticky
  powered,     \* the codec reports all four sections powered
  volume,      \* the codec's PCM out volume register
  \* the driver
  pc,
  call,        \* the protocol call under way and its argument
  rw, reg,     \* the codec access under way
  data,        \* TempData, wCodecReg, data: the word read or to be written
  ulCount,
  wait,        \* the local WaitCycles
  status,      \* what the call returns
  newVolume,   \* what the call leaves in *NewVolume
  \* history of the call, for the properties
  sawReady,    \* the codec was up at the call; in a reset, at the last poll
  gaveUp,      \* AcquireCodecSemiphore timed out
  readFailed,  \* a read of a codec register timed out
  oldVolume    \* the codec's volume when the call was made

linkVars   == <<linkOn, ready, powered, volume>>
accessVars == <<rw, reg, data, ulCount, wait>>
callVars   == <<call, status, newVolume>>
history    == <<sawReady, gaveUp, readFailed, oldVolume>>
vars == <<linkVars, holder, rcs, pc, accessVars, callVars, history>>

Word == 0..(WordSize - 1)

\* What the power register reads: the four status bits, all set or not.
PowerUp == 15
PowerReg == IF powered THEN PowerUp ELSE 0

NoCall == [op |-> "none", arg |-> 0]

Init ==
  /\ linkOn \in BOOLEAN /\ ready \in BOOLEAN /\ powered \in BOOLEAN
  /\ ready => linkOn
  /\ holder = "none" /\ rcs = FALSE /\ volume = 0
  /\ pc = "idle" /\ call = NoCall
  /\ rw = "read" /\ reg = "volume" /\ data = 0 /\ ulCount = 0 /\ wait = 0
  /\ status = "success" /\ newVolume = 0
  /\ sawReady = FALSE /\ gaveUp = FALSE /\ readFailed = FALSE
  /\ oldVolume = 0

\* EFI_STATUS is unsigned, so NT_SUCCESS(x), which is x >= 0, is never false.
NT_SUCCESS(s) == TRUE

-----------------------------------------------------------------------------
(* The hardware *)

\* The link is done with an access, which the driver has begun: CAS falls.
AccessDone ==
  /\ holder # "none"
  /\ holder = "driver" /\ pc = "access" => gaveUp
  /\ holder' = "none"
  /\ UNCHANGED <<linkVars, rcs, pc, accessVars, callVars, history>>

\* The other master reads CAS as 0 and takes it.
OtherAcquires ==
  /\ holder = "none"
  /\ holder' = "other"
  /\ UNCHANGED <<linkVars, rcs, pc, accessVars, callVars, history>>

CodecComesUp ==
  /\ linkOn
  /\ \/ ~ready /\ ready' = TRUE /\ UNCHANGED powered
     \/ ready /\ ~powered /\ powered' = TRUE /\ UNCHANGED ready
  /\ UNCHANGED <<linkOn, volume, holder, rcs, pc, accessVars, callVars, history>>

\* The codec is there and no other access is in its way.
Reachable == holder = "driver" /\ ready

-----------------------------------------------------------------------------
(* Reading and writing a codec register *)

\* Begin ReadCodecRegister(r) or WriteCodecRegister(r, d, 0xFFFF).
Access(op, r, d) ==
  /\ rw' = op /\ reg' = r /\ data' = d
  /\ ulCount' = 0
  /\ pc' = "acquire"

Return(s) ==
  /\ pc' = "idle"
  /\ status' = s
  /\ UNCHANGED <<rw, reg, data, ulCount, wait, call>>

\* Variant: the count is never advanced.
CountTry_Missing == ulCount' = ulCount
CountTry == ulCount' = ulCount + 1

\* Variant: whoever holds the semaphore, it counts as taken.
SemFree_Always == TRUE
SemFree == holder = "none"

\* AcquireCodecSemiphore; both callers go on whatever it returns, one because
\* it does not look and one because NT_SUCCESS lets everything pass.
AcquireCodecSemiphore ==
  /\ pc = "acquire"
  /\ IF SemFree
     THEN /\ holder' = IF holder = "none" THEN "driver" ELSE holder
          /\ pc' = "access"
          /\ UNCHANGED <<ulCount, gaveUp>>
     ELSE /\ UNCHANGED holder
          /\ IF ulCount > SemTries
             THEN pc' = "access" /\ gaveUp' = TRUE /\ UNCHANGED ulCount
             ELSE CountTry /\ UNCHANGED <<pc, gaveUp>>
  /\ UNCHANGED <<linkVars, rcs, rw, reg, data, wait, callVars, sawReady,
                 readFailed, oldVolume>>

\* The codec does what it was told.
Effect(r, d) ==
  /\ volume' = CASE r = "volume" -> d [] r = "reset" -> 0 [] OTHER -> volume
  /\ powered' = IF r = "reset" THEN FALSE ELSE powered
  /\ UNCHANGED <<linkOn, ready>>

\* Where the caller of WriteCodecRegister goes on: InitAC97 powers the codec
\* up after its reset, PowerUpCodec polls, AC97Volume returns.
AfterWrite ==
  CASE reg = "reset" ->
         Access("write", "power", 0) /\ UNCHANGED <<wait, callVars>>
    [] reg = "power" ->
         Access("read", "power", data) /\ wait' = WaitCycles
           /\ UNCHANGED callVars
    [] OTHER ->
         /\ Return("success")
         /\ newVolume' = IF call.op = "change" THEN data ELSE newVolume

WriteCodec ==
  /\ pc = "access" /\ rw = "write"
  /\ \/ Effect(reg, data)
     \/ ~Reachable /\ UNCHANGED linkVars
  /\ AfterWrite
  /\ UNCHANGED <<holder, rcs, history>>

\* A read that completes gives the register, if nothing was in its way.
ReadCodec ==
  /\ pc = "access" /\ rw = "read"
  /\ \/ /\ data' \in IF Reachable
                     THEN {IF reg = "power" THEN PowerReg ELSE volume}
                     ELSE IF reg = "power" THEN {0, PowerUp} ELSE Word
        /\ UNCHANGED rcs
     \/ rcs' = TRUE /\ UNCHANGED data
  /\ pc' = "check"
  /\ UNCHANGED <<linkVars, holder, rw, reg, ulCount, wait, callVars, history>>

\* Variant: the timeout bit is not written back.
ClearRcs_Missing == UNCHANGED rcs
ClearRcs == rcs' = FALSE

\* The read of GLOB_STA at the end of ReadCodecRegister.
CheckRcs ==
  /\ pc = "check"
  /\ IF rcs
     THEN ClearRcs /\ data' = 0 /\ readFailed' = TRUE
     ELSE UNCHANGED <<rcs, data, readFailed>>
  /\ pc' = IF reg = "power" THEN "powercheck" ELSE "change"
  /\ status' = IF rcs THEN "timeout" ELSE "success"
  /\ UNCHANGED <<linkVars, holder, rw, reg, ulCount, wait, call, newVolume,
                 sawReady, gaveUp, oldVolume>>

-----------------------------------------------------------------------------
(* AC97Reset: InitAC97, PrimaryCodecReady, PowerUpCodec *)

NewCall(op, a) ==
  /\ pc = "idle"
  /\ call' = [op |-> op, arg |-> a]
  /\ sawReady' = (op # "reset" /\ ready)
  /\ gaveUp' = FALSE /\ readFailed' = FALSE
  /\ oldVolume' = volume

AC97Reset ==
  /\ NewCall("reset", 0)
  /\ pc' = "cold"
  /\ UNCHANGED <<linkVars, holder, rcs, accessVars, status, newVolume>>

\* Raise the reset line.
RaiseReset ==
  /\ pc = "cold"
  /\ linkOn' = TRUE
  /\ pc' = "poll"
  /\ wait' = WaitCycles
  /\ UNCHANGED <<ready, powered, volume, holder, rcs, rw, reg, data, ulCount,
                 callVars, history>>

\* Variant: the loop's count is never decremented.
CountWait_Missing == wait' = wait
CountWait == wait' = wait - 1

\* What InitAC97 makes of PrimaryCodecReady's result: it resets the codec.
InitAC97(s) ==
  IF NT_SUCCESS(s)
  THEN Access("write", "reset", 0) /\ UNCHANGED <<wait, callVars>>
  ELSE Return(s) /\ UNCHANGED newVolume

PrimaryCodecReady ==
  /\ pc = "poll"
  /\ IF ~ready /\ wait > 0
     THEN CountWait /\ UNCHANGED <<pc, rw, reg, data, ulCount, callVars>>
     ELSE InitAC97(IF ready THEN "success" ELSE "timeout")
  /\ sawReady' = ready
  /\ UNCHANGED <<linkVars, holder, rcs, gaveUp, readFailed, oldVolume>>

\* Variant: the status of the read alone decides.
PowerStatus_Read == status
PowerStatus == IF data # PowerUp THEN "not_ready" ELSE status

\* PowerUpCodec looks at what it has read; a failed read polls again.
PowerUpCodec ==
  /\ pc = "powercheck"
  /\ IF NT_SUCCESS(status) /\ data # PowerUp /\ wait > 0
     THEN Access("read", "power", data) /\ CountWait /\ UNCHANGED callVars
     ELSE Return(PowerStatus) /\ UNCHANGED newVolume
  /\ UNCHANGED <<linkVars, holder, rcs, history>>

-----------------------------------------------------------------------------
(* AC97Volume *)

SetVolume(v) ==
  /\ NewCall("set", v)
  /\ Access("write", "volume", v % WordSize)
  /\ newVolume' = v
  /\ UNCHANGED <<linkVars, holder, rcs, wait, status>>

ChangeVolume(i) ==
  /\ NewCall("change", i)
  /\ Access("read", "volume", 0)
  /\ newVolume' = -1
  /\ UNCHANGED <<linkVars, holder, rcs, wait, status>>

Changed(d) == (d + call.arg) % WordSize

\* The result of the read is not looked at.
AddIncrease ==
  /\ pc = "change"
  /\ Access("write", "volume", Changed(data))
  /\ UNCHANGED <<linkVars, holder, rcs, wait, callVars, history>>

-----------------------------------------------------------------------------
Call == \/ AC97Reset
        \/ \E v \in NewVolumes : SetVolume(v)
        \/ \E i \in Increases : ChangeVolume(i)
Driver == \/ AcquireCodecSemiphore \/ WriteCodec \/ ReadCodec \/ CheckRcs
          \/ RaiseReset \/ PrimaryCodecReady \/ PowerUpCodec \/ AddIncrease
Hardware == AccessDone \/ OtherAcquires \/ CodecComesUp

Next == Call \/ Driver \/ Hardware

Spec == Init /\ [][Next]_vars

\* The driver's code runs; nothing is assumed of the hardware.
FairSpec == Spec /\ WF_vars(Driver)

-----------------------------------------------------------------------------
(* Properties *)

TypeOK ==
  /\ linkOn \in BOOLEAN /\ ready \in BOOLEAN /\ powered \in BOOLEAN
  /\ holder \in {"none", "driver", "other"}
  /\ rcs \in BOOLEAN
  /\ volume \in Word
  /\ pc \in {"idle", "cold", "poll", "acquire", "access", "check",
             "powercheck", "change"}
  /\ call \in [op : {"none", "reset", "set", "change"},
               arg : {0} \union NewVolumes \union Increases]
  /\ rw \in {"read", "write"}
  /\ reg \in {"reset", "power", "volume"}
  /\ data \in Word \union {0, PowerUp}
  /\ ulCount \in 0..(SemTries + 1)
  /\ wait \in 0..WaitCycles
  /\ status \in {"success", "timeout", "not_ready"}
  /\ newVolume \in NewVolumes \union Word \union {-1, 0}
  /\ sawReady \in BOOLEAN /\ gaveUp \in BOOLEAN /\ readFailed \in BOOLEAN
  /\ oldVolume \in Word

Returned(op) == pc = "idle" /\ call.op = op

\* A read that timed out never fails a later one: whenever the driver is about
\* to read the codec, the sticky RCS of earlier reads has been cleared
\* (ReadCodecRegister writes GLOB_STA back).
NoStaleTimeout == pc = "access" => ~rcs

\* If AC97Reset returns EFI_SUCCESS and always got the semaphore, the codec it
\* leaves is powered up: no failed or early read is taken for the power state,
\* and the state of before the reset is not either.
ResetSound ==
  Returned("reset") /\ status = "success" /\ ~gaveUp /\ sawReady => powered

\* If every access got the semaphore, the codec was up and no read failed, then
\* AC97Volume leaves the codec at the given volume, or at the old one plus
\* Increase, and returns what it left there (accdriver.c:479-483).  That is so
\* of values that fit the register only: the code keeps the low bits of others,
\* so that a decrease below 0 makes the volume the highest.
VolumeExact ==
  ~gaveUp /\ ~readFailed /\ sawReady =>
    /\ Returned("set") /\ call.arg \in Word => volume = call.arg
    /\ Returned("change") =>
         /\ newVolume = volume
         /\ oldVolume + call.arg \in Word => volume = oldVolume + call.arg

\* Every call returns, even if the semaphore never falls and the codec never
\* comes up.
CallReturns == pc # "idle" ~> pc = "idle"
=============================================================================

----------------------------- MODULE AC97Proofs -----------------------------
(***************************************************************************)
(* Proofs about AC97Codec under the driver binding of AC97Driver, for any  *)
(* number of polls, any register width and any volumes.                    *)
(***************************************************************************)
EXTENDS AC97Driver, TLAPS

\* A read of the codec is for the call under way, and so is a write.
AccessInv ==
  /\ pc \in {"cold", "poll", "powercheck"} => call.op = "reset"
  /\ pc = "change" => call.op = "change"
  /\ pc = "check" => rw = "read"
  /\ pc \in {"acquire", "access", "check"} /\ rw = "read" =>
       \/ reg = "power" /\ call.op = "reset"
       \/ reg = "volume" /\ call.op = "change"
  /\ pc \in {"acquire", "access"} /\ rw = "write" =>
       /\ data \in Word
       /\ IF reg = "volume" THEN call.op \in {"set", "change"} ELSE call.op = "reset"

\* The codec, once up, stays so, and the driver holds the semaphore unless it
\* has given up; the sticky bit waits for one step only.
HardwareInv ==
  /\ sawReady => ready
  /\ pc = "access" /\ ~gaveUp => holder = "driver"
  /\ rcs => pc = "check"

\* What the reset has read of the power register is still true.
PowerInv ==
  ~gaveUp /\ sawReady =>
    /\ pc = "check" /\ reg = "power" /\ ~rcs /\ data = PowerUp => powered
    /\ pc = "powercheck" /\ data = PowerUp => powered

\* What the volume calls have read, and are about to write.
VolumeInv ==
  ~gaveUp /\ ~readFailed /\ sawReady =>
    /\ pc \in {"acquire", "access"} /\ call.op = "set" =>
         rw = "write" /\ reg = "volume" /\ data = call.arg % WordSize
    /\ pc \in {"acquire", "access", "check"} /\ call.op = "change" /\ rw = "read" =>
         volume = oldVolume
    /\ pc = "check" /\ call.op = "change" /\ ~rcs => data = oldVolume
    /\ pc = "change" => data = oldVolume
    /\ pc \in {"acquire", "access"} /\ call.op = "change" /\ rw = "write" =>
         data = (oldVolume + call.arg) % WordSize

\* What the volume calls leave, the low bits of the sum if it does not fit.
VolumeModulo ==
  ~gaveUp /\ ~readFailed /\ sawReady =>
    /\ Returned("set") => volume = call.arg % WordSize
    /\ Returned("change") =>
         volume = (oldVolume + call.arg) % WordSize /\ newVolume = volume

CodecInv == /\ TypeOK /\ AccessInv /\ HardwareInv /\ PowerInv /\ VolumeInv
            /\ ResetSound /\ VolumeModulo

-----------------------------------------------------------------------------
(* The codec *)

\* The registers' arithmetic stays within a word.
LEMMA WordArithmetic ==
  /\ 0 \in Word
  /\ \A x \in Int : x % WordSize \in Word
BY ParameterAssumption DEF Word

LEMMA CodecInit == Init => CodecInv
<1> SUFFICES ASSUME Init PROVE CodecInv
  OBVIOUS
<1>1. TypeOK
  <2>1. 0 \in Word
    BY WordArithmetic
  <2>2. 0 \in 0..(SemTries + 1) /\ 0 \in 0..WaitCycles
    BY ParameterAssumption
  <2> QED
    BY <2>1, <2>2 DEF Init, TypeOK, NoCall
<1>2. AccessInv /\ HardwareInv /\ PowerInv /\ VolumeInv /\ ResetSound /\ VolumeModulo
  BY DEF Init, AccessInv, HardwareInv, PowerInv, VolumeInv, ResetSound,
         VolumeModulo, Returned, NoCall
<1> QED
  BY <1>1, <1>2 DEF CodecInv

LEMMA HardwareStep ==
  ASSUME CodecInv, Hardware
  PROVE  CodecInv'
<1> USE DEF CodecInv, linkVars, accessVars, callVars, history
<1>0. /\ UNCHANGED <<linkOn, volume, rcs, pc, accessVars, callVars, history>>
      /\ powered => powered'
      /\ ready => ready'
  BY DEF Hardware, AccessDone, OtherAcquires, CodecComesUp, TypeOK
<1>1. TypeOK'
  <2>1. /\ holder' \in {"none", "driver", "other"}
        /\ ready' \in BOOLEAN /\ powered' \in BOOLEAN
    BY DEF Hardware, AccessDone, OtherAcquires, CodecComesUp, TypeOK
  <2>2. UNCHANGED <<linkOn, volume, rcs, pc, call, rw, reg, data, ulCount, wait,
                    status, newVolume, history>>
    BY <1>0
  <2> QED
    BY <2>1, <2>2 DEF TypeOK
<1>2. AccessInv' /\ PowerInv' /\ VolumeInv' /\ ResetSound' /\ VolumeModulo'
  BY <1>0 DEF AccessInv, PowerInv, VolumeInv, ResetSound, VolumeModulo, Returned
<1>3. HardwareInv'
  <2>1. pc = "access" /\ ~gaveUp => holder' = "driver"
    BY DEF Hardware, AccessDone, OtherAcquires, CodecComesUp, HardwareInv
  <2> QED
    BY <1>0, <2>1 DEF HardwareInv
<1> QED
  BY <1>1, <1>2, <1>3

LEMMA AcquireStep ==
  ASSUME CodecInv, AcquireCodecSemiphore
  PROVE  CodecInv'
<1> USE DEF CodecInv, AcquireCodecSemiphore, linkVars, accessVars, callVars, history
<1>1. TypeOK'
  <2>0. ulCount' \in 0..(SemTries + 1)
    <3>1. ulCount \in 0..(SemTries + 1) /\ SemTries \in Nat
      BY ParameterAssumption DEF TypeOK
    <3>2. ulCount' = ulCount \/ (~ (ulCount > SemTries) /\ ulCount' = ulCount + 1)
      BY DEF SemFree, CountTry
    <3> QED
      BY <3>1, <3>2
  <2>1. /\ holder' \in {"none", "driver", "other"} /\ gaveUp' \in BOOLEAN
        /\ ulCount' \in 0..(SemTries + 1) /\ pc' \in {"acquire", "access"}
    BY <2>0 DEF TypeOK, SemFree
  <2>2. UNCHANGED <<linkOn, ready, powered, volume, rcs, call, rw, reg, data, wait,
                    status, newVolume, sawReady, readFailed, oldVolume>>
    OBVIOUS
  <2> QED
    BY <2>1, <2>2 DEF TypeOK
<1>2. HardwareInv'
  BY DEF HardwareInv, SemFree
<1>3. AccessInv' /\ PowerInv' /\ VolumeInv' /\ ResetSound' /\ VolumeModulo'
  <2>1. /\ pc = "acquire" /\ pc' \in {"acquire", "access"} /\ (gaveUp => gaveUp')
        /\ UNCHANGED <<linkVars, rcs, rw, reg, data, wait, callVars, sawReady,
                       readFailed, oldVolume>>
    BY DEF TypeOK, SemFree
  <2> QED
    BY <2>1 DEF AccessInv, PowerInv, VolumeInv, ResetSound, VolumeModulo, Returned
<1> QED
  BY <1>1, <1>2, <1>3

LEMMA WriteStep ==
  ASSUME CodecInv, WriteCodec
  PROVE  CodecInv'
<1> USE DEF CodecInv, linkVars, accessVars, callVars, history
<1>1. /\ pc = "access" /\ rw = "write" /\ ~rcs /\ data \in Word /\ volume \in Word
      /\ reg \in {"reset", "power", "volume"}
      /\ IF reg = "volume" THEN call.op \in {"set", "change"} ELSE call.op = "reset"
      /\ UNCHANGED <<linkOn, ready, holder, rcs, history, call>>
      /\ ~gaveUp /\ sawReady => Effect(reg, data)
  BY DEF WriteCodec, AfterWrite, Access, Return, Effect, TypeOK, AccessInv,
         HardwareInv, Reachable
<1>2. volume' \in Word /\ powered' \in BOOLEAN
  BY <1>1, WordArithmetic DEF WriteCodec, Effect, TypeOK
<1>3. CASE reg = "reset"
  <2>1. /\ pc' = "acquire" /\ rw' = "write" /\ reg' = "power" /\ data' = 0
        /\ ulCount' = 0 /\ UNCHANGED <<wait, status, newVolume>>
    BY <1>3 DEF WriteCodec, AfterWrite, Access
  <2>2. TypeOK'
    BY <1>1, <1>2, <2>1, WordArithmetic, ParameterAssumption DEF TypeOK
  <2> QED
    BY <1>1, <1>3, <2>1, <2>2, WordArithmetic
       DEF AccessInv, HardwareInv, PowerInv, VolumeInv, ResetSound, VolumeModulo, Returned
<1>4. CASE reg = "power"
  <2>1. /\ pc' = "acquire" /\ rw' = "read" /\ reg' = "power" /\ data' = data
        /\ ulCount' = 0 /\ wait' = WaitCycles /\ UNCHANGED <<status, newVolume>>
    BY <1>4 DEF WriteCodec, AfterWrite, Access
  <2>2. TypeOK'
    BY <1>1, <1>2, <2>1, ParameterAssumption DEF TypeOK
  <2> QED
    BY <1>1, <1>4, <2>1, <2>2
       DEF AccessInv, HardwareInv, PowerInv, VolumeInv, ResetSound, VolumeModulo, Returned
<1>5. CASE reg = "volume"
  <2>1. /\ pc' = "idle" /\ status' = "success" /\ UNCHANGED <<rw, reg, data, ulCount, wait>>
        /\ newVolume' = IF call.op = "change" THEN data ELSE newVolume
    BY <1>5 DEF WriteCodec, AfterWrite, Return
  <2>2. TypeOK'
    BY <1>1, <1>2, <2>1 DEF TypeOK
  <2>3. ~gaveUp /\ sawReady => volume' = data
    BY <1>1, <1>5 DEF Effect
  <2>4. AccessInv' /\ HardwareInv' /\ PowerInv' /\ VolumeInv' /\ ResetSound'
    BY <1>1, <1>5, <2>1 DEF AccessInv, HardwareInv, PowerInv, VolumeInv,
       ResetSound, Returned
  <2>5. VolumeModulo'
    BY <1>1, <1>5, <2>1, <2>3 DEF VolumeModulo, VolumeInv, Returned
  <2> QED
    BY <2>2, <2>4, <2>5
<1> QED
  BY <1>1, <1>3, <1>4, <1>5

LEMMA ReadStep ==
  ASSUME CodecInv, ReadCodec
  PROVE  CodecInv'
<1> USE DEF CodecInv, ReadCodec, linkVars, accessVars, callVars, history
<1>0. /\ pc = "access" /\ rw = "read" /\ pc' = "check" /\ ~rcs
      /\ UNCHANGED <<linkVars, holder, rw, reg, ulCount, wait, callVars, history>>
      /\ \/ reg = "power" /\ call.op = "reset"
         \/ reg = "volume" /\ call.op = "change"
  BY DEF AccessInv, HardwareInv
<1>1. /\ data' \in Word \union {0, PowerUp} /\ rcs' \in BOOLEAN
      /\ ~gaveUp /\ sawReady /\ ~rcs' =>
           data' = IF reg = "power" THEN PowerReg ELSE volume
  BY <1>0 DEF TypeOK, HardwareInv, Reachable, PowerReg
<1>2. TypeOK'
  BY <1>0, <1>1 DEF TypeOK
<1>3. AccessInv' /\ HardwareInv' /\ ResetSound' /\ VolumeModulo'
  BY <1>0 DEF AccessInv, HardwareInv, ResetSound, VolumeModulo, Returned
<1>4. PowerInv'
  BY <1>0, <1>1 DEF PowerInv, PowerReg, PowerUp, TypeOK
<1>5. VolumeInv'
  BY <1>0, <1>1 DEF VolumeInv
<1> QED
  BY <1>2, <1>3, <1>4, <1>5

LEMMA CheckStep ==
  ASSUME CodecInv, CheckRcs
  PROVE  CodecInv'
<1> USE DEF CodecInv, linkVars, accessVars, callVars, history
<1>1. /\ pc = "check" /\ rw = "read" /\ rcs' = FALSE
      /\ data' = IF rcs THEN 0 ELSE data
      /\ readFailed' = (rcs \/ readFailed)
      /\ pc' = IF reg = "power" THEN "powercheck" ELSE "change"
      /\ status' = IF rcs THEN "timeout" ELSE "success"
      /\ UNCHANGED <<linkVars, holder, rw, reg, ulCount, wait, call, newVolume,
                     sawReady, gaveUp, oldVolume>>
      /\ \/ reg = "power" /\ call.op = "reset"
         \/ reg = "volume" /\ call.op = "change"
  BY DEF CheckRcs, ClearRcs, TypeOK, AccessInv
<1>2. TypeOK'
  <2>1. /\ data' \in Word \union {0, PowerUp} /\ readFailed' \in BOOLEAN
        /\ pc' \in {"powercheck", "change"} /\ status' \in {"timeout", "success"}
    BY <1>1 DEF TypeOK
  <2>2. UNCHANGED <<linkOn, ready, powered, volume, holder, rw, reg, ulCount, wait,
                    call, newVolume, sawReady, gaveUp, oldVolume>>
    BY <1>1
  <2> QED
    BY <1>1, <2>1, <2>2 DEF TypeOK
<1>3. AccessInv' /\ HardwareInv' /\ ResetSound' /\ VolumeModulo'
  BY <1>1 DEF AccessInv, HardwareInv, ResetSound, VolumeModulo, Returned
<1>4. PowerInv'
  BY <1>1 DEF PowerInv, PowerUp
<1>5. VolumeInv'
  BY <1>1 DEF VolumeInv
<1> QED
  BY <1>2, <1>3, <1>4, <1>5

LEMMA ResetSteps ==
  ASSUME CodecInv, RaiseReset \/ PrimaryCodecReady \/ PowerUpCodec
  PROVE  CodecInv'
<1> USE DEF CodecInv, linkVars, accessVars, callVars, history
<1>1. CASE RaiseReset
  <2> USE <1>1 DEF RaiseReset
  <2>1. TypeOK'
    BY ParameterAssumption DEF TypeOK
  <2> QED
    BY <2>1 DEF AccessInv, HardwareInv, PowerInv, VolumeInv, ResetSound,
       VolumeModulo, Returned
<1>2. CASE PrimaryCodecReady
  <2>1. /\ pc = "poll" /\ call.op = "reset" /\ ~rcs /\ sawReady' = ready
        /\ UNCHANGED <<linkVars, holder, rcs, gaveUp, readFailed, oldVolume, callVars>>
    BY <1>2 DEF PrimaryCodecReady, InitAC97, NT_SUCCESS, AccessInv, HardwareInv
  <2>2. CASE ~ready /\ wait > 0
    <3>1. wait' = wait - 1 /\ UNCHANGED <<pc, rw, reg, data, ulCount>>
      BY <1>2, <2>2 DEF PrimaryCodecReady, CountWait
    <3>2. TypeOK'
      BY <2>1, <2>2, <3>1, ParameterAssumption DEF TypeOK
    <3> QED
      BY <2>1, <3>1, <3>2 DEF AccessInv, HardwareInv, PowerInv, VolumeInv,
         ResetSound, VolumeModulo, Returned
  <2>3. CASE ~(~ready /\ wait > 0)
    <3>1. /\ pc' = "acquire" /\ rw' = "write" /\ reg' = "reset" /\ data' = 0
          /\ ulCount' = 0 /\ UNCHANGED wait
      BY <1>2, <2>3 DEF PrimaryCodecReady, InitAC97, NT_SUCCESS, Access
    <3>2. TypeOK'
      BY <2>1, <3>1, ParameterAssumption DEF TypeOK
    <3> QED
      BY <2>1, <3>1, <3>2, WordArithmetic DEF AccessInv, HardwareInv, PowerInv,
         VolumeInv, ResetSound, VolumeModulo, Returned
  <2> QED
    BY <2>2, <2>3
<1>3. CASE PowerUpCodec
  <2>1. /\ pc = "powercheck" /\ call.op = "reset" /\ ~rcs
        /\ UNCHANGED <<linkVars, holder, rcs, history, call, newVolume>>
    BY <1>3 DEF PowerUpCodec, Access, Return, AccessInv, HardwareInv
  <2>2. CASE data # PowerUp /\ wait > 0
    <3>1. /\ pc' = "acquire" /\ rw' = "read" /\ reg' = "power" /\ data' = data
          /\ ulCount' = 0 /\ wait' = wait - 1 /\ UNCHANGED status
      BY <1>3, <2>2 DEF PowerUpCodec, NT_SUCCESS, Access, CountWait
    <3>2. TypeOK'
      BY <2>1, <2>2, <3>1, ParameterAssumption DEF TypeOK
    <3> QED
      BY <2>1, <3>1, <3>2 DEF AccessInv, HardwareInv, PowerInv, VolumeInv,
         ResetSound, VolumeModulo, Returned
  <2>3. CASE ~(data # PowerUp /\ wait > 0)
    <3>1. /\ pc' = "idle" /\ UNCHANGED <<rw, reg, data, ulCount, wait>>
          /\ status' = IF data # PowerUp THEN "not_ready" ELSE status
      BY <1>3, <2>3 DEF PowerUpCodec, NT_SUCCESS, Return, PowerStatus
    <3>2. TypeOK'
      BY <2>1, <3>1 DEF TypeOK
    <3> QED
      BY <2>1, <3>1, <3>2 DEF AccessInv, HardwareInv, PowerInv, VolumeInv,
         ResetSound, VolumeModulo, Returned
  <2> QED
    BY <2>2, <2>3
<1> QED
  BY <1>1, <1>2, <1>3

LEMMA CallStep ==
  ASSUME CodecInv, Call
  PROVE  CodecInv'
<1> USE DEF CodecInv, linkVars, accessVars, callVars, history
<1>1. CASE AC97Reset
  <2>0. /\ pc = "idle" /\ pc' = "cold" /\ call' = [op |-> "reset", arg |-> 0]
        /\ sawReady' = FALSE /\ gaveUp' = FALSE /\ readFailed' = FALSE
        /\ oldVolume' = volume
        /\ UNCHANGED <<linkVars, holder, rcs, accessVars, status, newVolume>>
    BY <1>1 DEF AC97Reset, NewCall
  <2>1. TypeOK'
    <3>1. call' \in [op : {"none", "reset", "set", "change"},
                     arg : {0} \union NewVolumes \union Increases]
      BY <2>0
    <3>2. /\ sawReady' \in BOOLEAN /\ gaveUp' \in BOOLEAN /\ readFailed' \in BOOLEAN
          /\ oldVolume' \in Word
      BY <2>0 DEF TypeOK
    <3>3. UNCHANGED <<linkOn, ready, powered, volume, holder, rcs, rw, reg, data,
                      ulCount, wait, status, newVolume>>
      BY <2>0
    <3> QED
      BY <2>0, <3>1, <3>2, <3>3 DEF TypeOK
  <2> QED
    BY <2>0, <2>1 DEF AccessInv, HardwareInv, PowerInv, VolumeInv, ResetSound,
       VolumeModulo, Returned
<1>2. ASSUME NEW v \in NewVolumes, SetVolume(v)
      PROVE  CodecInv'
  <2>1. /\ pc = "idle" /\ pc' = "acquire" /\ rw' = "write" /\ reg' = "volume"
        /\ data' = v % WordSize /\ ulCount' = 0 /\ newVolume' = v
        /\ call' = [op |-> "set", arg |-> v] /\ sawReady' = ready
        /\ gaveUp' = FALSE /\ readFailed' = FALSE /\ oldVolume' = volume
        /\ UNCHANGED <<linkVars, holder, rcs, wait, status>>
    BY <1>2 DEF SetVolume, NewCall, Access, TypeOK
  <2>2. v % WordSize \in Word
    BY WordArithmetic, ParameterAssumption
  <2>3. TypeOK'
    <3>1. /\ call' \in [op : {"none", "reset", "set", "change"},
                        arg : {0} \union NewVolumes \union Increases]
          /\ newVolume' \in NewVolumes /\ data' \in Word
      BY <2>1, <2>2
    <3>2. ulCount' \in 0..(SemTries + 1)
      BY <2>1, ParameterAssumption
    <3> QED
      BY <2>1, <3>1, <3>2 DEF TypeOK
  <2> QED
    BY <2>1, <2>2, <2>3 DEF AccessInv, HardwareInv, PowerInv, VolumeInv,
       ResetSound, VolumeModulo, Returned
<1>3. ASSUME NEW k \in Increases, ChangeVolume(k)
      PROVE  CodecInv'
  <2>1. /\ pc = "idle" /\ pc' = "acquire" /\ rw' = "read" /\ reg' = "volume"
        /\ data' = 0 /\ ulCount' = 0 /\ newVolume' = -1
        /\ call' = [op |-> "change", arg |-> k] /\ sawReady' = ready
        /\ gaveUp' = FALSE /\ readFailed' = FALSE /\ oldVolume' = volume
        /\ UNCHANGED <<linkVars, holder, rcs, wait, status>>
    BY <1>3 DEF ChangeVolume, NewCall, Access, TypeOK
  <2>2. TypeOK'
    <3>1. call' \in [op : {"none", "reset", "set", "change"},
                     arg : {0} \union NewVolumes \union Increases]
      BY <2>1
    <3>2. ulCount' \in 0..(SemTries + 1)
      BY <2>1, ParameterAssumption
    <3> QED
      BY <2>1, <3>1, <3>2 DEF TypeOK
  <2> QED
    BY <2>1, <2>2 DEF AccessInv, HardwareInv, PowerInv, VolumeInv, ResetSound,
       VolumeModulo, Returned
<1> QED
  BY <1>1, <1>2, <1>3 DEF Call

LEMMA AddStep ==
  ASSUME CodecInv, AddIncrease
  PROVE  CodecInv'
<1> USE DEF CodecInv, linkVars, accessVars, callVars, history
<1>1. /\ pc = "change" /\ call.op = "change" /\ ~rcs
      /\ pc' = "acquire" /\ rw' = "write" /\ reg' = "volume" /\ ulCount' = 0
      /\ data' = (data + call.arg) % WordSize
      /\ UNCHANGED <<linkVars, holder, rcs, wait, callVars, history>>
  BY DEF AddIncrease, Access, Changed, AccessInv, HardwareInv
<1>2. data' \in Word
  <2>1. data \in Int
    BY ParameterAssumption DEF TypeOK, Word, PowerUp
  <2>2. call.arg \in Int
    <3>1. call \in [op : {"none", "reset", "set", "change"},
                    arg : {0} \union NewVolumes \union Increases]
      BY DEF TypeOK
    <3>2. call.arg \in {0} \union NewVolumes \union Increases
      BY <3>1
    <3>3. \A x \in NewVolumes : x \in Int
      BY ParameterAssumption
    <3>4. \A x \in Increases : x \in Int
      BY ParameterAssumption
    <3> QED
      BY <3>2, <3>3, <3>4
  <2> QED
    BY <1>1, <2>1, <2>2, WordArithmetic
<1>3. TypeOK'
  BY <1>1, <1>2, ParameterAssumption DEF TypeOK
<1> QED
  BY <1>1, <1>2, <1>3 DEF AccessInv, HardwareInv, PowerInv, VolumeInv, ResetSound,
     VolumeModulo, Returned

LEMMA CodecStep ==
  ASSUME CodecInv, Next \/ UNCHANGED vars
  PROVE  CodecInv'
<1>1. CASE UNCHANGED vars
  BY <1>1 DEF vars, linkVars, accessVars, callVars, history, CodecInv, TypeOK,
     AccessInv, HardwareInv, PowerInv, VolumeInv, ResetSound, VolumeModulo, Returned
<1> QED
  BY <1>1, HardwareStep, AcquireStep, WriteStep, ReadStep, CheckStep, ResetSteps,
     CallStep, AddStep DEF Next, Driver

-----------------------------------------------------------------------------
(* The driver binding *)

\* What Start has got by each of its steps; only then is the codec touched.
BindingInv ==
  /\ dpc \in {"none", "allocate", "event", "install", "reset", "resetting", "crashed"}
  /\ dpc = "none" => (installed <=> pciIo) /\ (installed <=> Private = "live")
  /\ dpc = "allocate" => pciIo /\ ~installed /\ Private # "live"
  /\ dpc \in {"event", "install"} => pciIo /\ ~installed /\ Private = "live"
  /\ dpc \in {"reset", "resetting"} => pciIo /\ installed /\ Private = "live"
  /\ pc # "idle" => installed /\ dpc \in {"none", "resetting"}
  /\ installed \in BOOLEAN /\ pciIo \in BOOLEAN

LEMMA BindingStep ==
  ASSUME BindingInv, [DNext]_DVars
  PROVE  BindingInv'
<1> USE DEF BindingInv, bindingVars
<1>0. (UNCHANGED vars) => pc' = pc
  BY DEF vars
<1>1. CASE Start
  <2>1. CASE OpenPciIo
    <3>1. /\ dpc = "none" /\ pc = "idle" /\ pc' = pc
          /\ UNCHANGED <<Private, installed>>
          /\ \/ ~pciIo /\ pciIo' = TRUE /\ dpc' = "allocate"
             \/ UNCHANGED <<pciIo, dpc>>
      BY <1>0, <2>1 DEF OpenPciIo, Idle, codecVars
    <3>2. CASE ~pciIo /\ pciIo' = TRUE /\ dpc' = "allocate"
      BY <3>1, <3>2
    <3>3. CASE UNCHANGED <<pciIo, dpc>>
      BY <3>1, <3>3
    <3> QED
      BY <3>1, <3>2, <3>3
  <2>2. CASE AllocatePrivate
    BY <1>0, <2>2 DEF AllocatePrivate, codecVars
  <2>3. CASE CreateWaitEvent
    BY <1>0, <2>3 DEF CreateWaitEvent, codecVars
  <2>4. CASE InstallAudio
    <3>1. /\ dpc = "install" /\ pc' = pc
          /\ \/ installed' = TRUE /\ dpc' = "reset" /\ UNCHANGED <<pciIo, Private>>
             \/ /\ Private' = "none" /\ pciIo' = FALSE /\ dpc' = "none"
                /\ UNCHANGED installed
      BY <1>0, <2>4 DEF InstallAudio, ClosedAtExit, codecVars
    <3>2. CASE installed' = TRUE /\ dpc' = "reset" /\ UNCHANGED <<pciIo, Private>>
      BY <3>1, <3>2
    <3>3. CASE Private' = "none" /\ pciIo' = FALSE /\ dpc' = "none" /\ UNCHANGED installed
      BY <3>1, <3>3
    <3> QED
      BY <3>1, <3>2, <3>3
  <2>5. CASE StartReset
    BY <2>5 DEF StartReset
  <2>6. CASE StartReturns
    BY <1>0, <2>6 DEF StartReturns, codecVars
  <2> QED
    BY <1>1, <2>1, <2>2, <2>3, <2>4, <2>5, <2>6 DEF Start
<1>2. CASE Stop
  BY <1>0, <1>2 DEF Stop, Idle, codecVars
<1>3. CASE ProgramCalls
  BY <1>3 DEF ProgramCalls
<1>4. CASE Driver /\ UNCHANGED bindingVars
  <2>1. pc # "idle"
    BY <1>4 DEF Driver, AcquireCodecSemiphore, WriteCodec, ReadCodec, CheckRcs,
       RaiseReset, PrimaryCodecReady, PowerUpCodec, AddIncrease
  <2> QED
    BY <1>4, <2>1
<1>5. CASE Hardware /\ UNCHANGED bindingVars
  <2>1. pc' = pc
    BY <1>5 DEF Hardware, AccessDone, OtherAcquires, CodecComesUp
  <2> QED
    BY <1>5, <2>1
<1>6. CASE UNCHANGED DVars
  BY <1>0, <1>6 DEF DVars, codecVars
<1> QED
  BY <1>1, <1>2, <1>3, <1>4, <1>5, <1>6 DEF DNext

LEMMA Always == DSpec => [](CodecInv /\ BindingInv)
<1>1. DInit => CodecInv /\ BindingInv
  BY CodecInit DEF DInit, Init, BindingInv
<1>2. CodecInv /\ BindingInv /\ [DNext]_DVars => (CodecInv /\ BindingInv)'
  <2>1. ASSUME CodecInv, BindingInv, [DNext]_DVars
        PROVE  Next \/ UNCHANGED vars
    BY <2>1 DEF DNext, DVars, Start, OpenPciIo, AllocatePrivate, CreateWaitEvent,
       InstallAudio, StartReset, StartReturns, Stop, ProgramCalls, codecVars, Next,
       Call
  <2> QED
    BY <2>1, CodecStep, BindingStep
<1> QED
  BY <1>1, <1>2, PTL DEF DSpec

-----------------------------------------------------------------------------
(* The properties of the runs *)

\* Registers, counters and results keep their ranges, for every width and
\* every number of polls (ac97.c, accdriver.c:496-511).
THEOREM CodecTypeCorrect == DSpec => []TypeOK
<1>1. CodecInv => TypeOK
  BY DEF CodecInv
<1> QED
  BY <1>1, Always, PTL

\* A read that timed out never fails a later one (ReadCodecRegister).
THEOREM CodecNoStaleTimeout == DSpec => []NoStaleTimeout
<1>1. CodecInv => NoStaleTimeout
  BY DEF CodecInv, HardwareInv, NoStaleTimeout
<1> QED
  BY <1>1, Always, PTL

\* A reset that returns EFI_SUCCESS and always got the semaphore leaves the
\* codec powered up (InitAC97, PowerUpCodec).
THEOREM CodecResetSound == DSpec => []ResetSound
<1>1. CodecInv => ResetSound
  BY DEF CodecInv
<1> QED
  BY <1>1, Always, PTL

\* A volume call that met no timeout leaves and returns exactly the volume it
\* was asked for, if that fits the register, whatever its width (AC97Volume).
THEOREM CodecVolumeExact == DSpec => []VolumeExact
<1>1. \A x \in Word : x % WordSize = x
  BY ParameterAssumption DEF Word
<1>2. CodecInv => VolumeExact
  BY <1>1 DEF CodecInv, VolumeModulo, VolumeExact
<1> QED
  BY <1>2, Always, PTL

\* Start leaves the controller bound or free, and the codec is touched only
\* while it is bound (AC97DriverBindingStart).
THEOREM BindingAllOrNothing == DSpec => []AllOrNothing
<1>1. BindingInv => AllOrNothing
  BY DEF BindingInv, AllOrNothing
<1> QED
  BY <1>1, Always, PTL
=============================================================================

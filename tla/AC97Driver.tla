----------------------------- MODULE AC97Driver -----------------------------
(***************************************************************************)
(* The driver binding of book/audio/accdriver.c for one controller, and    *)
(* the calls of AC97Codec, which programs make once Start has installed    *)
(* the Audio protocol and which Start itself makes first.                  *)
(*                                                                         *)
(* The firmware calls Start and Stop one at a time and between the calls   *)
(* of programs; each boot service that Start uses may fail.  Supported     *)
(* opens and closes the controller, or does nothing: it is a stutter.      *)
(***************************************************************************)
EXTENDS AC97Codec

VARIABLES
  dpc,         \* where Start is; "none" outside it, "crashed" at a NULL pointer
  startStatus, \* what the last Start or Stop returned
  pciIo,       \* PCI I/O of the controller is open by this driver
  Private,     \* the page: "none", "live"
  WaitForEndEvent,  \* the event in it exists
  staleEvents, \* an event exists whose context is a page that was freed
  installed    \* the Audio protocol is on the controller's handle

codecVars == vars
bindingVars == <<dpc, startStatus, pciIo, Private, WaitForEndEvent, staleEvents,
                 installed>>

DInit ==
  /\ Init
  /\ dpc = "none" /\ startStatus = "success"
  /\ pciIo = FALSE /\ Private = "none" /\ WaitForEndEvent = FALSE
  /\ staleEvents = FALSE /\ installed = FALSE

\* The binding and programs take turns.
Idle == dpc = "none" /\ pc = "idle"

-----------------------------------------------------------------------------
(* AC97DriverBindingStart *)

\* The driver's second open of the controller fails.
OpenPciIo ==
  /\ Idle
  /\ \/ ~pciIo /\ pciIo' = TRUE /\ dpc' = "allocate" /\ UNCHANGED startStatus
     \/ /\ startStatus' = IF pciIo THEN "already_started" ELSE "error"
        /\ UNCHANGED <<pciIo, dpc>>
  /\ UNCHANGED <<Private, WaitForEndEvent, staleEvents, installed, codecVars>>

\* Without a page Status is still that of OpenProtocol, and the exit resets
\* the codec through a null pointer.
AllocatePrivate ==
  /\ dpc = "allocate"
  /\ \/ Private' = "live" /\ dpc' = "event"
     \/ dpc' = "crashed" /\ UNCHANGED Private
  /\ UNCHANGED <<startStatus, pciIo, WaitForEndEvent, staleEvents, installed,
                 codecVars>>

\* The next status overwrites this one.
CreateWaitEvent ==
  /\ dpc = "event" /\ dpc' = "install"
  /\ WaitForEndEvent' \in BOOLEAN
  /\ UNCHANGED <<startStatus, pciIo, Private, staleEvents, installed, codecVars>>

\* ErrorExit frees the page and then closes the controller.
ClosedAtExit_Missing == pciIo
ClosedAtExit == FALSE

InstallAudio ==
  /\ dpc = "install"
  /\ \/ /\ installed' = TRUE /\ dpc' = "reset"
        /\ UNCHANGED <<startStatus, pciIo, Private, WaitForEndEvent, staleEvents>>
     \/ /\ Private' = "none" /\ pciIo' = ClosedAtExit
        /\ staleEvents' = (staleEvents \/ WaitForEndEvent)
        /\ WaitForEndEvent' = FALSE
        /\ startStatus' = "error" /\ dpc' = "none"
        /\ UNCHANGED installed
  /\ UNCHANGED codecVars

\* AC97Reset, whose status Start ignores.
StartReset ==
  /\ dpc = "reset" /\ dpc' = "resetting"
  /\ AC97Reset
  /\ UNCHANGED <<startStatus, pciIo, Private, WaitForEndEvent, staleEvents,
                 installed>>

StartReturns ==
  /\ dpc = "resetting" /\ pc = "idle"
  /\ dpc' = "none" /\ startStatus' = "success"
  /\ UNCHANGED <<pciIo, Private, WaitForEndEvent, staleEvents, installed,
                 codecVars>>

-----------------------------------------------------------------------------
\* Stop takes the driver binding for the Audio interface.  An interface at that
\* address is not on the handle, so UninstallProtocolInterface finds nothing.
Stop ==
  /\ Idle
  /\ startStatus' = IF installed THEN "not_found" ELSE "unsupported"
  /\ UNCHANGED <<dpc, pciIo, Private, WaitForEndEvent, staleEvents, installed,
                 codecVars>>

\* Programs find the protocol once it is installed.
ProgramCalls == dpc = "none" /\ installed /\ Call /\ UNCHANGED bindingVars

Start == \/ OpenPciIo \/ AllocatePrivate \/ CreateWaitEvent \/ InstallAudio
         \/ StartReset \/ StartReturns

DNext == \/ Start \/ Stop \/ ProgramCalls
         \/ (Driver \/ Hardware) /\ UNCHANGED bindingVars

DVars == <<codecVars, bindingVars>>

\* The driver's code runs; nothing is assumed of the hardware.
DSpec == DInit /\ [][DNext]_DVars /\ WF_DVars(Driver /\ UNCHANGED bindingVars)

-----------------------------------------------------------------------------
(* Properties *)

\* Outside Start the controller is either bound, with the page, PCI I/O and
\* the protocol all there, or free of the driver, whichever service failed
\* (accdriver.c:276-328); the codec is touched only through an open PCI I/O
\* and a live page.
AllOrNothing ==
  /\ dpc = "none" => /\ installed <=> pciIo
                     /\ installed <=> Private = "live"
  /\ pc # "idle" => pciIo /\ Private = "live"
=============================================================================

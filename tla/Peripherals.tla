---------------------------- MODULE Peripherals ----------------------------
(***************************************************************************)
(* The devices a program of the badge drives from Python: sound,           *)
(* Neopixels, the drivers of machine and the Wi-Fi station.  The           *)
(* interpreter's thread is in one call at a time; the PWM and timer        *)
(* interrupts come between any two of its steps.  A soft reset tears down  *)
(* the drivers of machine only: a sound and a frame go on into the next    *)
(* session, and so does the network.                                       *)
(***************************************************************************)
EXTENDS Sound, Neopix, Drivers, StationLan

VARIABLE
  uses  \* bound: a program uses the devices with interrupts, the drivers or the
        \* network; they share nothing but the thread

vars == <<uses, soundVars, neopixVars, driversVars, stationVars>>

Init ==
  /\ uses \in {"interrupts", "drivers", "network"}
  /\ SoundInit /\ NeopixInit /\ DriversInit /\ StationInit
  /\ uses # "network" => \* any would do
       role = "STA" /\ policy = "none" /\ profiles = {} /\ last = "none"

\* The thread is in no call, and has not crashed.
InNoCall == ~wait /\ display = "no" /\ ~crashed /\ call = "no"

PlayStep ==
  /\ uses = "interrupts" /\ display = "no"
  /\ SoundProgram
  /\ UNCHANGED <<uses, neopixVars, driversVars, stationVars>>

NeopixStep ==
  /\ uses = "interrupts" /\ ~wait
  /\ NeopixProgram \/ NeopixCall
  /\ UNCHANGED <<uses, soundVars, driversVars, stationVars>>

DriversStep ==
  /\ uses = "drivers" /\ InNoCall
  /\ DriversProgram
  /\ UNCHANGED <<uses, soundVars, neopixVars, stationVars>>

StationStep ==
  /\ uses = "network"
  /\ StationProgram \/ StationDevice
  /\ UNCHANGED <<uses, soundVars, neopixVars, driversVars>>

\* The soft reset: machine_teardown, and the heap with the buffer is swept.
SoftReset ==
  /\ InNoCall
  /\ Teardown
  /\ alive' = FALSE
  /\ UNCHANGED <<uses, ui32Flags, bytes, ui32Length, ui32Offset, i32Step, enabled, wait,
                 played, neopixVars, stationVars>>

PwmInterrupt == SoundInterrupt /\ UNCHANGED <<uses, neopixVars, driversVars, stationVars>>

TimerInterrupt == TransferDone /\ UNCHANGED <<uses, soundVars, driversVars, stationVars>>

Next ==
  \/ PlayStep \/ NeopixStep \/ DriversStep \/ StationStep \/ SoftReset
  \/ PwmInterrupt \/ TimerInterrupt

\* The hardware interrupts while it is enabled, and the thread goes on with the
\* call it is in.
Fairness ==
  /\ WF_vars(PwmInterrupt)
  /\ WF_vars(TimerInterrupt)
  /\ WF_vars(PlayReturns /\ UNCHANGED <<uses, neopixVars, driversVars, stationVars>>)
  /\ WF_vars(NeopixCall /\ UNCHANGED <<uses, soundVars, driversVars, stationVars>>)

Spec == Init /\ [][Next]_vars /\ Fairness

-----------------------------------------------------------------------------
(* Properties *)

\* The type of the state.
TypeOK == SoundTypeOK /\ NeopixTypeOK /\ DriversTypeOK /\ StationTypeOK

\* What an interrupt or a DMA channel reads behind the program's back is the
\* memory it was given: the samples of the buffer, the frame displayed.
MemoryIsOwned == SoundReadsItsBuffer /\ DmaReadsItsFrame

\* The calls that wait for an interrupt return.
CallsReturn == PlayReturnsAtLast /\ DisplayReturns

\* The inductive invariant
DevicesInv == TypeOK /\ SoundInv /\ NeopixInv /\ DriversInv /\ StationInv
=============================================================================

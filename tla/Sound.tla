------------------------------- MODULE Sound -------------------------------
(***************************************************************************)
(* audio.play() and audio.play_wav() (modaudio.c), and the sound driver    *)
(* (sound.c): the PWM interrupt ramps the output up, reads a sample of the *)
(* program's buffer every few periods, and ramps down when the buffer has  *)
(* been played once.                                                       *)
(*                                                                         *)
(* The buffer belongs to MicroPython's heap, which does not know that the  *)
(* driver reads it.  The values of the samples and the volume are left out.*)
(***************************************************************************)
EXTENDS Integers

CONSTANTS
  HalfPeriod, \* ui32Period / 2, the height of the ramps
  MaxBytes,   \* bound: the longest buffer
  MaxOffset   \* bound: how far an empty buffer is overrun

ASSUME SoundAssumption ==
  HalfPeriod \in Nat \ {0} /\ MaxBytes \in Nat \ {0} /\ MaxOffset \in Nat \ {0}

VARIABLES
  ui32Flags,
  bytes,      \* the size of the buffer
  ui32Length, \* its samples
  ui32Offset,
  i32Step,
  enabled,    \* the PWM generator and its interrupt
  wait,       \* the program waits in play()
  alive,      \* the buffer has not been collected
  played      \* history: samples read since the sound started

soundVars == <<ui32Flags, bytes, ui32Length, ui32Offset, i32Step, enabled, wait, alive, played>>

Rates == {"8KHZ", "16KHZ", "32KHZ"}
Depths == {"8BIT", "16BIT"}
Flags == {"STARTUP", "SHUTDOWN", "PLAY"} \cup Rates \cup Depths

Width == IF "16BIT" \in ui32Flags THEN 2 ELSE 1

SoundInit ==
  /\ ui32Flags = {}
  /\ bytes = 0 /\ ui32Length = 0 /\ ui32Offset = 0 /\ i32Step = 0
  /\ enabled = FALSE
  /\ wait = FALSE
  /\ alive = TRUE
  /\ played = 0

-----------------------------------------------------------------------------
(* The program *)

\* play() raises an exception: the driver is busy, or the rate is not one of
\* its rates,
PlayRefused ==
  /\ ~wait
  /\ UNCHANGED soundVars

\* or neither, but the depth is not 8 or 16; the flag of the rate stays set.
PlayBadDepth(rate) ==
  /\ ~wait
  /\ ui32Flags = {}
  /\ ui32Flags' = {rate}
  /\ UNCHANGED <<bytes, ui32Length, ui32Offset, i32Step, enabled, wait, alive, played>>

\* SoundStart succeeds; play() waits or returns.
Play(b, rate, depth, waits) ==
  /\ ~wait
  /\ ui32Flags = {}
  /\ ui32Flags' = {"STARTUP", "PLAY", rate, depth}
  /\ bytes' = b
  /\ ui32Length' = IF depth = "16BIT" THEN b \div 2 ELSE b
  /\ ui32Offset' = 0
  /\ i32Step' = 1
  /\ enabled' = TRUE
  /\ wait' = waits
  /\ alive' = TRUE
  /\ played' = 0

\* The wait of play() looks at SoundBusy.
PlayReturns ==
  /\ wait
  /\ ui32Flags = {}
  /\ wait' = FALSE
  /\ UNCHANGED <<ui32Flags, bytes, ui32Length, ui32Offset, i32Step, enabled, alive, played>>

\* The program drops the buffer, or a soft reset sweeps the heap.
Collect ==
  /\ ~wait
  /\ alive
  /\ alive' = FALSE
  /\ UNCHANGED <<ui32Flags, bytes, ui32Length, ui32Offset, i32Step, enabled, wait, played>>

-----------------------------------------------------------------------------
(* SoundIntHandler *)

Sampling == enabled /\ ui32Flags \cap {"STARTUP", "SHUTDOWN"} = {}

NextStep ==
  (i32Step + (IF "8KHZ" \in ui32Flags THEN 1 ELSE IF "16KHZ" \in ui32Flags THEN 2 ELSE 4)) % 8

RampUp ==
  /\ enabled /\ "STARTUP" \in ui32Flags
  /\ IF i32Step + 1 >= HalfPeriod
     THEN i32Step' = 0 /\ ui32Flags' = ui32Flags \ {"STARTUP"}
     ELSE i32Step' = i32Step + 1 /\ UNCHANGED ui32Flags
  /\ UNCHANGED <<bytes, ui32Length, ui32Offset, enabled, wait, alive, played>>

\* A period between two samples
Interpolate ==
  /\ Sampling
  /\ NextStep # 0
  /\ i32Step' = NextStep
  /\ UNCHANGED <<ui32Flags, bytes, ui32Length, ui32Offset, enabled, wait, alive, played>>

\* soundHandler calls SoundStop when the offset is back at the start.
SoundStop ==
  /\ ui32Flags' = {"SHUTDOWN"}
  /\ i32Step' = HalfPeriod

\* The next sample is read; then the offset is `next`.
ReadSample(next, stops) ==
  /\ Sampling
  /\ NextStep = 0
  /\ ui32Length = 0 => ui32Offset < MaxOffset
  /\ ui32Offset' = next
  /\ IF stops THEN SoundStop ELSE i32Step' = 0 /\ UNCHANGED ui32Flags
  /\ played' = played + 1
  /\ UNCHANGED <<bytes, ui32Length, enabled, wait, alive>>

NextOffset == IF ui32Offset + 1 = ui32Length THEN 0 ELSE ui32Offset + 1

\* Variant: the offset is compared before it is incremented.
FetchLate ==
  LET next == IF ui32Offset = ui32Length THEN 0 ELSE ui32Offset + 1
  IN  ReadSample(next, next = 0)

\* Variant: the callback stops the sound at either half of the buffer.
FetchHalf == ReadSample(NextOffset, NextOffset \in {0, ui32Length \div 2})

\* Variant: the callback does not stop it.
FetchForEver == ReadSample(NextOffset, FALSE)

\* The callback of the second half of the buffer stops the sound.
Fetch == ReadSample(NextOffset, NextOffset = 0)

\* Variant: the flags stay set at the end of the ramp.
RampDownBusy ==
  /\ enabled /\ "SHUTDOWN" \in ui32Flags
  /\ IF i32Step = 1
     THEN enabled' = FALSE /\ UNCHANGED i32Step
     ELSE i32Step' = i32Step - 1 /\ UNCHANGED enabled
  /\ UNCHANGED <<ui32Flags, bytes, ui32Length, ui32Offset, wait, alive, played>>

RampDown ==
  /\ enabled /\ "SHUTDOWN" \in ui32Flags
  /\ IF i32Step = 1
     THEN enabled' = FALSE /\ ui32Flags' = {} /\ UNCHANGED i32Step
     ELSE i32Step' = i32Step - 1 /\ UNCHANGED <<enabled, ui32Flags>>
  /\ UNCHANGED <<bytes, ui32Length, ui32Offset, wait, alive, played>>

SoundInterrupt == RampUp \/ Interpolate \/ Fetch \/ RampDown

SoundProgram ==
  \/ PlayRefused \/ PlayReturns \/ Collect
  \/ \E rate \in Rates :
       \/ PlayBadDepth(rate)
       \/ \E b \in 0..MaxBytes, depth \in Depths, waits \in BOOLEAN :
            Play(b, rate, depth, waits)

-----------------------------------------------------------------------------
(* Properties *)

SoundTypeOK ==
  /\ ui32Flags \in SUBSET Flags
  /\ bytes \in 0..MaxBytes /\ ui32Length \in 0..MaxBytes
  /\ ui32Offset \in 0..(MaxBytes + MaxOffset)
  /\ i32Step \in 0..(7 + HalfPeriod)
  /\ enabled \in BOOLEAN /\ wait \in BOOLEAN /\ alive \in BOOLEAN
  /\ played \in 0..(MaxBytes + MaxOffset)

\* The sample the interrupt reads next lies in the buffer, unless there is no
\* sample in it, and the buffer has not been collected if play() waits.
SoundReadsItsBuffer ==
  Sampling => /\ ui32Length = 0 \/ (ui32Offset + 1) * Width <= bytes
              /\ wait => alive

\* When the driver becomes ready for another sound, or a play() that waits
\* returns, every sample has been read once.
WholeSoundPlayed ==
  [][(ui32Flags # {} /\ ui32Flags' = {}) \/ (wait /\ ~wait') =>
       played = ui32Length]_soundVars

\* A play() that waits returns, unless its buffer has no sample in it.
PlayReturnsAtLast == wait ~> ~wait \/ ui32Length = 0

-----------------------------------------------------------------------------
(* Why they hold *)

\* The interrupt is enabled from SoundStart to the end of the ramp; between the
\* ramps every sample up to the offset has been read and the offset lies in the
\* buffer, and when the ramp down begins all of them have.
SoundInv ==
  /\ enabled <=> "PLAY" \in ui32Flags \/ "SHUTDOWN" \in ui32Flags
  /\ "PLAY" \in ui32Flags =>
       /\ "SHUTDOWN" \notin ui32Flags
       /\ ui32Length = IF "16BIT" \in ui32Flags THEN bytes \div 2 ELSE bytes
       /\ played = ui32Offset
       /\ IF ui32Length = 0 THEN ui32Offset <= MaxOffset ELSE ui32Offset < ui32Length
  /\ "SHUTDOWN" \in ui32Flags =>
       /\ ui32Flags = {"SHUTDOWN"}
       /\ i32Step > 0
       /\ played = ui32Length
  /\ wait => /\ alive
             /\ ui32Flags = {} => played = ui32Length
=============================================================================

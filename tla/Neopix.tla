------------------------------- MODULE Neopix -------------------------------
(***************************************************************************)
(* The Neopixels (neopix.c): display() fills a frame buffer from the C     *)
(* heap, which a timer and a DMA channel then send while the program goes  *)
(* on; the timer's interrupt ends the transfer.                            *)
(*                                                                         *)
(* A frame is its number of pixels and a colour; the sizes are in pixels.  *)
(***************************************************************************)
EXTENDS Integers

CONSTANTS
  MaxPixels, \* bound: the longest frame
  Colours

ASSUME NeopixAssumption == MaxPixels \in Nat \ {0}

VARIABLES
  frame_buffer,      \* NULL, or the room of the block and what it holds
  frame_buffer_size,
  inprogress,
  timer,             \* the timer that clocks the DMA channel is enabled
  sending,           \* the frame of the transfer that was started last
  spoilt,            \* history: what the program did to it: freed its block, stopped it
  display,           \* where the program is in display()
  rgb                \* and its argument

neopixVars == <<frame_buffer, frame_buffer_size, inprogress, timer, sending, spoilt,
                display, rgb>>
dmaVars == <<inprogress, timer, sending, spoilt>>

Frames == [len : 0..MaxPixels, colour : Colours]
NoFrame == [len |-> 0, colour |-> "none"]
NULL == [room |-> 0, holds |-> NoFrame, is |-> FALSE]
Block(n) == [room |-> n, holds |-> NoFrame, is |-> TRUE]

NeopixInit ==
  /\ frame_buffer = NULL
  /\ frame_buffer_size = 0
  /\ inprogress = FALSE
  /\ timer = FALSE
  /\ sending = NoFrame
  /\ spoilt = {}
  /\ display = "no"
  /\ rgb = NoFrame

-----------------------------------------------------------------------------
(* The program *)

\* The constructor: configuring the timer disables it.
NewNeopix ==
  /\ display = "no"
  /\ timer' = FALSE
  /\ spoilt' = IF timer THEN spoilt \cup {"stopped"} ELSE spoilt
  /\ UNCHANGED <<frame_buffer, frame_buffer_size, inprogress, sending, display, rgb>>

Display(frame) ==
  /\ display = "no"
  /\ display' = "wait"
  /\ rgb' = frame
  /\ UNCHANGED <<frame_buffer, frame_buffer_size, dmaVars>>

\* Variant: the transfer in progress is not waited for.
DisplayReadyAlways ==
  /\ display = "wait"
  /\ display' = "alloc"
  /\ UNCHANGED <<frame_buffer, frame_buffer_size, dmaVars, rgb>>

\* The transfer in progress is waited for.
DisplayReady ==
  /\ display = "wait"
  /\ ~inprogress
  /\ display' = "alloc"
  /\ UNCHANGED <<frame_buffer, frame_buffer_size, dmaVars, rgb>>

\* A larger block; without one, NULL is kept with the old size.
Allocate ==
  /\ display = "alloc"
  /\ IF frame_buffer_size < rgb.len + 1 \* a frame has a reset code of its own
     THEN \/ /\ frame_buffer' = Block(rgb.len + 1)
             /\ frame_buffer_size' = rgb.len + 1
             /\ display' = "fill"
          \/ /\ frame_buffer' = NULL
             /\ display' = "no"
             /\ UNCHANGED frame_buffer_size
     ELSE /\ display' = "fill"
          /\ UNCHANGED <<frame_buffer, frame_buffer_size>>
  /\ UNCHANGED <<dmaVars, rgb>>

\* The pixels and the reset code; a pixel that is not an int ends the call, and
\* NULL the program.
Fill ==
  /\ display = "fill"
  /\ IF frame_buffer.is
     THEN \/ frame_buffer' = [frame_buffer EXCEPT !.holds = rgb] /\ display' = "start"
          \/ frame_buffer' = [frame_buffer EXCEPT !.holds = NoFrame] /\ display' = "no"
     ELSE display' = "crashed" /\ UNCHANGED frame_buffer
  /\ UNCHANGED <<frame_buffer_size, dmaVars, rgb>>

\* ws_start_transfer
Start ==
  /\ display = "start"
  /\ display' = "no"
  /\ inprogress' = TRUE
  /\ timer' = TRUE
  /\ sending' = rgb
  /\ spoilt' = {}
  /\ UNCHANGED <<frame_buffer, frame_buffer_size, rgb>>

\* destroy(): the transfer in progress is not waited for.
Destroy ==
  /\ display = "no"
  /\ frame_buffer' = NULL
  /\ frame_buffer_size' = 0
  /\ spoilt' = IF inprogress THEN spoilt \cup {"freed"} ELSE spoilt
  /\ UNCHANGED <<inprogress, timer, sending, display, rgb>>

-----------------------------------------------------------------------------
(* TIMER3B_IRQHandler *)

\* Variant: the flag is not cleared.
TransferDoneStillBusy ==
  /\ timer
  /\ timer' = FALSE
  /\ UNCHANGED <<frame_buffer, frame_buffer_size, inprogress, sending, spoilt, display, rgb>>

TransferDone ==
  /\ timer
  /\ timer' = FALSE
  /\ inprogress' = FALSE
  /\ UNCHANGED <<frame_buffer, frame_buffer_size, sending, spoilt, display, rgb>>

NeopixCall == DisplayReady \/ Allocate \/ Fill \/ Start

NeopixProgram ==
  \/ NewNeopix \/ Destroy
  \/ \E frame \in Frames : Display(frame)

-----------------------------------------------------------------------------
(* Properties *)

NeopixTypeOK ==
  /\ frame_buffer \in [room : 0..(MaxPixels + 1), holds : Frames \cup {NoFrame}, is : BOOLEAN]
  /\ frame_buffer_size \in 0..(MaxPixels + 1)
  /\ inprogress \in BOOLEAN /\ timer \in BOOLEAN
  /\ spoilt \in SUBSET {"freed", "stopped"}
  /\ sending \in Frames \cup {NoFrame}
  /\ display \in {"no", "wait", "alloc", "fill", "start", "crashed"}
  /\ rgb \in Frames \cup {NoFrame}

\* The DMA channel sends the frame that was displayed: nobody frees the block
\* or fills it with the next one before the end of the transfer, but destroy(),
\* and the frame fits the block it is in.
DmaReadsItsFrame ==
  timer => /\ "freed" \in spoilt \/ (frame_buffer.is /\ frame_buffer.holds = sending)
           /\ frame_buffer.holds.len <= frame_buffer.room

\* A display() ends, unless a constructor stopped the transfer it waits for or
\* the program crashed.
DisplayReturns ==
  display \in {"wait", "alloc", "fill", "start"} ~>
    display \in {"no", "crashed"} \/ "stopped" \in spoilt

-----------------------------------------------------------------------------
(* Why they hold *)

\* The timer runs only during a transfer; display() touches the block only when
\* none is in progress, and by then the block is as large as its size says, and
\* large enough.
NeopixInv ==
  /\ timer => inprogress
  /\ display \in {"alloc", "fill", "start"} => ~inprogress
  /\ frame_buffer.is => frame_buffer.room = frame_buffer_size
  /\ frame_buffer.holds.len <= frame_buffer.room
  /\ display \in {"fill", "start"} => rgb.len < frame_buffer_size
  /\ display = "start" => frame_buffer.is /\ frame_buffer.holds = rgb
  /\ DmaReadsItsFrame
=============================================================================

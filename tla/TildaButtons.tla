---------------------------- MODULE TildaButtons ----------------------------
(***************************************************************************)
(* The buttons behind the TCA9555 port expander: pdb.c and the TCA part of *)
(* tilda_thread.c.                                                         *)
(*                                                                         *)
(* The expander pulls its interrupt line low while the buttons differ from *)
(* what was last read of them, and its falling edge starts the debouncer   *)
(* (PDB_start, in a hardware interrupt).  A clock function then looks at   *)
(* the line every CHECK_MSEC (debounce, in a software interrupt), and a    *)
(* level that stays wakes tildaThread, which reads the expander over I2C   *)
(* and calls back for the buttons that changed.                            *)
(*                                                                         *)
(* The hardware interrupt may come between any two steps of the clock      *)
(* function, which share the debouncer without protection; the thread runs *)
(* when no interrupt does.  A button is 0 when pressed, as in the code.    *)
(***************************************************************************)
EXTENDS Integers

CONSTANTS
  Buttons,        \* the buttons of the expander
  PRESS_TICKS,    \* PRESS_MSEC / CHECK_MSEC
  RELEASE_TICKS,  \* RELEASE_MSEC / CHECK_MSEC
  PERIOD,         \* looks at the line before the clock is stopped
  WRAP            \* numbers of the unsigned type: 2^32, fewer for TLC

\* As in pdb.c: a level has the time to become stable before the clock stops,
\* and a counter that wraps does not come to 0 again in that time.
ButtonsAssumption ==
  /\ PRESS_TICKS \in Nat \ {0}
  /\ RELEASE_TICKS \in Nat \ {0}
  /\ PRESS_TICKS <= PERIOD
  /\ RELEASE_TICKS <= PERIOD
  /\ PERIOD \in Nat
  /\ WRAP \in Nat
  /\ PERIOD + RELEASE_TICKS + PRESS_TICKS < WRAP

ASSUME ButtonsAssumption

VARIABLES
  port,             \* the buttons
  latch,            \* the buttons as the expander was last read
  pdb,              \* the debouncer (PDB_Object) and whether its clock runs
  swi,              \* where the clock function is, and what it holds
  event,            \* Event_TCA_INT is pending
  tilda,            \* where tildaThread is
  buttonState, lastButtonState,
  told,             \* history: what the callbacks have said of each button
  looks,            \* history: looks in a row that saw the line at one level
  raced,            \* history: the last edge interrupted the clock function
  failed            \* history: the last read of the expander failed

lineVars == <<port, latch>>
threadVars == <<tilda, buttonState, lastButtonState, told, failed>>
vars == <<lineVars, pdb, swi, event, threadVars, looks, raced>>

States == [Buttons -> {0, 1}]

Idle == [at |-> "idle", period |-> 0, count |-> 0, pressed |-> FALSE]

\* tildaThread has just created the debouncer and enabled the interrupt.
Init ==
  /\ port \in States
  /\ latch = port
  /\ pdb = [on |-> FALSE, pressed |-> FALSE, count |-> 0, period |-> 0]
  /\ swi = Idle
  /\ event = FALSE
  /\ tilda = "setup"
  /\ buttonState = [b \in Buttons |-> 0]
  /\ lastButtonState = [b \in Buttons |-> 0]
  /\ told = [b \in Buttons |-> 0]
  /\ looks = [high |-> FALSE, n |-> 0]
  /\ raced = FALSE
  /\ failed = FALSE

\* The level of the interrupt line
High == port = latch

\* One less in the unsigned type of the counters
Decremented(n) == (n - 1) % WRAP

-----------------------------------------------------------------------------
(* The hardware interrupt: PDB_start, at the falling edge *)

\* Variant: the count goes on from where it was.
StartedCounting == [pdb EXCEPT !.on = TRUE, !.pressed = TRUE, !.period = PERIOD]

Started == [on |-> TRUE, pressed |-> TRUE, count |-> RELEASE_TICKS, period |-> PERIOD]

\* A button is pressed or released.
Change(b) ==
  /\ port' = [port EXCEPT ![b] = 1 - @]
  /\ IF High
     THEN pdb' = Started /\ looks' = [high |-> FALSE, n |-> 0] /\ raced' = (swi.at # "idle")
     ELSE UNCHANGED <<pdb, looks, raced>>
  /\ UNCHANGED <<latch, swi, event, threadVars>>

-----------------------------------------------------------------------------
(* The software interrupt: updatePin *)

\* debounce loads the period,
TickLoad ==
  /\ swi.at = "idle"
  /\ pdb.on
  /\ swi' = [Idle EXCEPT !.at = "period", !.period = pdb.period]
  /\ UNCHANGED <<lineVars, pdb, event, threadVars, looks, raced>>

\* Variant: the clock stops one tick early.
TickPeriodEarly ==
  /\ swi.at = "period"
  /\ pdb' = [pdb EXCEPT !.period = Decremented(swi.period)]
  /\ swi' = [swi EXCEPT !.at = IF swi.period = PERIOD - RELEASE_TICKS + 1 THEN "stop" ELSE "look"]
  /\ UNCHANGED <<lineVars, event, threadVars, looks, raced>>

\* stores it,
TickPeriod ==
  /\ swi.at = "period"
  /\ pdb' = [pdb EXCEPT !.period = Decremented(swi.period)]
  /\ swi' = [swi EXCEPT !.at = IF swi.period = 0 THEN "stop" ELSE "look"]
  /\ UNCHANGED <<lineVars, event, threadVars, looks, raced>>

\* stops the clock when it was 0,
TickStop ==
  /\ swi.at = "stop"
  /\ pdb' = [pdb EXCEPT !.on = FALSE]
  /\ swi' = Idle
  /\ UNCHANGED <<lineVars, event, threadVars, looks, raced>>

\* looks at the line,
TickLook ==
  /\ swi.at = "look"
  /\ swi' = [swi EXCEPT !.at = "store", !.pressed = High,
               !.count = IF High = pdb.pressed
                         THEN IF pdb.pressed THEN RELEASE_TICKS ELSE PRESS_TICKS
                         ELSE Decremented(pdb.count)]
  /\ looks' = IF looks.high = High
              THEN [looks EXCEPT !.n = IF @ < RELEASE_TICKS THEN @ + 1 ELSE @]
              ELSE [high |-> High, n |-> 1]
  /\ UNCHANGED <<lineVars, pdb, event, threadVars, raced>>

\* and counts: a level that differed for long enough is the new one.
TickStore ==
  /\ swi.at = "store"
  /\ pdb' = [pdb EXCEPT !.count = swi.count,
                        !.pressed = IF swi.count = 0 THEN swi.pressed ELSE @]
  /\ swi' = IF swi.count = 0 THEN [swi EXCEPT !.at = "notify"] ELSE Idle
  /\ UNCHANGED <<lineVars, event, threadVars, looks, raced>>

\* notifyFxn is tcaInterruptHandler.
TickNotify ==
  /\ swi.at = "notify"
  /\ event' = TRUE
  /\ swi' = Idle
  /\ UNCHANGED <<lineVars, pdb, threadVars, looks, raced>>

Tick == TickLoad \/ TickPeriod \/ TickStop \/ TickLook \/ TickStore \/ TickNotify

-----------------------------------------------------------------------------
(* tildaThread *)

Thread(here, next) ==
  /\ swi.at = "idle"
  /\ tilda = here
  /\ tilda' = next
  /\ UNCHANGED <<port, pdb, swi, looks, raced>>

\* The first read, of which nobody is told; without it every button is held
\* to be pressed.
Setup ==
  /\ Thread("setup", "wait")
  /\ \E ok \in BOOLEAN :
       /\ latch' = IF ok THEN port ELSE latch
       /\ buttonState' = IF ok THEN port ELSE buttonState
       /\ failed' = ~ok
  /\ lastButtonState' = buttonState'
  /\ told' = buttonState'
  /\ UNCHANGED event

Pend ==
  /\ Thread("wait", "read")
  /\ event
  /\ event' = FALSE
  /\ UNCHANGED <<latch, buttonState, lastButtonState, told, failed>>

\* Variant: the last state is taken after the read.
ReadTCASwapped ==
  /\ Thread("read", "compare")
  /\ latch' = port
  /\ buttonState' = port
  /\ lastButtonState' = port
  /\ failed' = FALSE
  /\ UNCHANGED <<event, told>>

\* Variant: the last state is not kept.
ReadTCAForgets ==
  /\ Thread("read", "compare")
  /\ latch' = port
  /\ buttonState' = port
  /\ failed' = FALSE
  /\ UNCHANGED <<event, told, lastButtonState>>

\* readTCAButtons
ReadTCA ==
  /\ Thread("read", "compare")
  /\ latch' = port
  /\ lastButtonState' = buttonState
  /\ buttonState' = port
  /\ failed' = FALSE
  /\ UNCHANGED <<event, told>>

\* The transfer fails and the states stay as they were.
ReadTCAFails ==
  /\ Thread("read", "compare")
  /\ failed' = TRUE
  /\ UNCHANGED <<latch, event, told, buttonState, lastButtonState>>

\* The callbacks, for a program that asked for every press and release
Changed == {b \in Buttons : buttonState[b] # lastButtonState[b]}

Compare ==
  /\ Thread("compare", "wait")
  /\ told' = [b \in Buttons |-> IF b \in Changed THEN buttonState[b] ELSE told[b]]
  /\ UNCHANGED <<latch, event, buttonState, lastButtonState, failed>>

TildaStep == Setup \/ Pend \/ ReadTCA \/ ReadTCAFails \/ Compare

Next == Tick \/ TildaStep \/ \E b \in Buttons : Change(b)

Spec == Init /\ [][Next]_vars

\* The clock runs, and tildaThread, whose priority only the USB daemon's
\* exceeds, runs between two ticks.
FairSpec == Spec /\ WF_vars(Tick) /\ SF_vars(TildaStep)

-----------------------------------------------------------------------------
(* Properties *)

Debouncers ==
  [on : BOOLEAN, pressed : BOOLEAN, count : 0 .. WRAP - 1, period : 0 .. WRAP - 1]

ClockFunctions ==
  [at : {"idle", "period", "stop", "look", "store", "notify"},
   period : 0..PERIOD, count : 0 .. WRAP - 1, pressed : BOOLEAN]

Looks == [high : BOOLEAN, n : 0..RELEASE_TICKS]

\* The type of the state.
TypeOK ==
  /\ port \in States
  /\ latch \in States
  /\ pdb \in Debouncers
  /\ swi \in ClockFunctions
  /\ event \in BOOLEAN
  /\ tilda \in {"setup", "wait", "read", "compare"}
  /\ buttonState \in States
  /\ lastButtonState \in States
  /\ told \in States
  /\ looks \in Looks
  /\ raced \in BOOLEAN
  /\ failed \in BOOLEAN

\* No change is kept from the callbacks: between two rounds of the thread they
\* have been told of every button what is() answers.
EveryChangeTold == tilda = "wait" => told = buttonState

\* A change is told once: a callback for a press follows one for a release,
\* and vice versa, unless the expander could not be read.
ToldOnce ==
  [][tilda = "compare" /\ tilda' = "wait" =>
       failed \/ \A b \in Changed : told[b] # buttonState[b]]_vars

\* The thread is woken for a low line only when it has been low for the time
\* of a release, however often the line fell before.
Debounced ==
  [][~event /\ event' /\ ~pdb.pressed => looks = [high |-> FALSE, n |-> RELEASE_TICKS] \/ raced]_vars

\* A change of the buttons is read, or taken back, unless its edge came in the
\* middle of the clock function or the expander could not be read.
ChangeIsRead == ~High ~> High \/ raced \/ failed

-----------------------------------------------------------------------------
(* The inductive invariant, which TildaButtonsProofs shows *)

\* What the callbacks have said, wherever the thread is.
ToldInv ==
  /\ tilda \in {"wait", "read"} => told = buttonState
  /\ tilda = "compare" => told = IF failed THEN buttonState ELSE lastButtonState

\* The clock counts down to its stop.
PeriodInv == pdb.on /\ swi.at # "stop" => pdb.period <= PERIOD

\* While the line is low after an edge, the count and the looks that saw it low
\* add up to the time of a release, before and after the clock function stores
\* the count; a line that it saw high is high still, or an edge has interrupted.
CountInv ==
  ~raced =>
    /\ pdb.pressed /\ ~High /\ swi.at \notin {"store", "notify"} =>
         ~looks.high /\ looks.n < RELEASE_TICKS /\ pdb.count = RELEASE_TICKS - looks.n
    /\ swi.at = "store" /\ swi.pressed => High
    /\ swi.at = "store" /\ pdb.pressed /\ ~swi.pressed =>
         ~looks.high /\ swi.count = RELEASE_TICKS - looks.n
    /\ swi.at = "store" /\ swi.pressed = pdb.pressed => swi.count # 0
    /\ swi.at = "notify" /\ pdb.pressed => High
    /\ swi.at = "notify" /\ ~pdb.pressed => looks = [high |-> FALSE, n |-> RELEASE_TICKS]

\* Everything the thread, the clock and the edges keep between them.
ButtonsInv == TypeOK /\ ToldInv /\ PeriodInv /\ CountInv
=============================================================================

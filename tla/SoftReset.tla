----------------------------- MODULE SoftReset -----------------------------
(***************************************************************************)
(* A MicroPython session and its end: mp_main's soft reset loop            *)
(* (mpmain-emf.c), machine_setup and machine_teardown (modmachine.c), the  *)
(* sleeps (modmachine.c, modutime.c), and what wakes the interpreter or    *)
(* calls back into it: pin interrupts (machine_pin.c), the buttons         *)
(* (tilda_thread.c) and Ctrl-C (usb_ctrlc_handler).                        *)
(*                                                                         *)
(* The interpreter's thread has the lowest priority: the interrupts come   *)
(* between any two of its steps, and so does tildaThread.  They schedule   *)
(* callbacks, which the interpreter runs when it looks at its queue, and   *)
(* post machine_sleep_sem.  A soft reset sweeps the heap the callbacks     *)
(* live in, but neither stops tildaThread nor disables the interrupts of   *)
(* the buttons.                                                            *)
(*                                                                         *)
(* One button of the port expander, one button on a line of its own (a     *)
(* joystick direction or the menu button), whose line a program may also   *)
(* use as a machine.Pin; more would not meet each other.                   *)
(***************************************************************************)
EXTENDS Integers, Sequences

CONSTANTS
  tca, joy,   \* the buttons: behind the expander, and on a GPIO line
  DEPTH       \* MICROPY_SCHEDULER_DEPTH

ResetAssumption == tca # joy /\ DEPTH \in Nat \ {0}

ASSUME ResetAssumption

VARIABLES
  at,        \* where the interpreter's thread is
  arg,       \* the arguments of enable_interrupt while it runs
  made,      \* machine_sleep_sem is not NULL
  token,     \* and has been posted
  slot,      \* tilda_button_callback
  modes,     \* tildaButtonCallbackModes of the expander's button
  pinSlot,   \* pinirq_callback of the line
  gpio,      \* the line: its callback function, interrupt, edges, irq_in_use
  queue,     \* the callbacks scheduled
  exception, \* mp_pending_exception
  unseen     \* history: something was scheduled since the interpreter looked

lineVars == <<pinSlot, gpio>>
slotVars == <<slot, modes, lineVars>>
vmVars == <<queue, exception, unseen>>
semVars == <<made, token>>
vars == <<at, arg, semVars, slotVars, vmVars>>

Buttons == {tca, joy}
Directions == {"press", "release"}

\* A callback asks for some directions and lives until the heap is swept.
Callbacks == [set : BOOLEAN, asks : SUBSET Directions, alive : BOOLEAN]
None == [set |-> FALSE, asks |-> {}, alive |-> FALSE]
Callback(asks) == [set |-> TRUE, asks |-> asks, alive |-> TRUE]
Dead(cb) == [cb EXCEPT !.alive = FALSE]

NoArg == [button |-> tca, asks |-> {}, over |-> FALSE]

Init ==
  /\ at = "setup"
  /\ arg = NoArg
  /\ made = FALSE
  /\ token = FALSE
  /\ slot = [b \in Buttons |-> None]
  /\ modes = {}
  /\ pinSlot = None
  /\ gpio = [fn |-> "none", enabled |-> FALSE, edges |-> {}, inUse |-> FALSE]
  /\ queue = <<>>
  /\ exception = FALSE
  /\ unseen = FALSE

-----------------------------------------------------------------------------
(* The interrupts and tildaThread *)

\* mp_sched_schedule: a full queue refuses, and nobody looks at the result.
Schedule(cb) ==
  IF Len(queue) < DEPTH
  THEN /\ queue' = Append(queue, [alive |-> cb.alive, early |-> at = "init0"])
       /\ unseen' = TRUE
  ELSE UNCHANGED <<queue, unseen>>

\* Semaphore_post of a binary semaphore; of none, it is undefined what happens,
\* and no more than nothing is assumed.
Post == token' = made

NotPosted == UNCHANGED token

Interrupted == UNCHANGED <<at, arg, made, slotVars, exception>>

\* An edge of the line while its callback function is gpioCallback
PinEdge ==
  /\ gpio.enabled /\ gpio.fn = "pin"
  /\ IF pinSlot.set THEN Schedule(pinSlot) ELSE UNCHANGED <<queue, unseen>>
  /\ Post
  /\ Interrupted

\* Variant: the program is only woken when it asked for the button.
JoyEdgePostsNothing(d) ==
  /\ gpio.enabled /\ gpio.fn = "tilda" /\ d \in gpio.edges
  /\ IF slot[joy].set THEN Schedule(slot[joy]) ELSE UNCHANGED <<queue, unseen>>
  /\ NotPosted
  /\ Interrupted

\* or tildaGpioCallback
JoyEdge(d) ==
  /\ gpio.enabled /\ gpio.fn = "tilda" /\ d \in gpio.edges
  /\ IF slot[joy].set THEN Schedule(slot[joy]) ELSE UNCHANGED <<queue, unseen>>
  /\ Post
  /\ Interrupted

\* tildaThread has read a change of the expander's button.
TcaEvent(d) ==
  /\ slot[tca].set /\ d \in modes
  /\ Schedule(slot[tca])
  /\ Post
  /\ Interrupted

\* usb_ctrlc_handler has found mp_interrupt_char.
CtrlC ==
  /\ IF made THEN Post ELSE NotPosted
  /\ exception' = TRUE
  /\ UNCHANGED <<at, arg, made, slotVars, queue, unseen>>

Event ==
  \/ PinEdge \/ CtrlC
  \/ \E d \in Directions : JoyEdge(d) \/ TcaEvent(d)

-----------------------------------------------------------------------------
(* The program *)

Py(here, next) == at = here /\ at' = next

\* The virtual machine looks at what is pending: the exception is raised, and
\* it looks again where it is caught;
Raise ==
  /\ at \in {"run", "check"}
  /\ exception
  /\ at' = "check"
  /\ exception' = FALSE
  /\ UNCHANGED <<arg, semVars, slotVars, queue, unseen>>

\* or a callback is run,
RunCallback ==
  /\ at \in {"run", "check"}
  /\ ~exception /\ queue # <<>>
  /\ at' = "run"
  /\ queue' = Tail(queue)
  /\ unseen' = FALSE
  /\ UNCHANGED <<arg, semVars, slotVars, exception>>

\* or there is nothing.
NothingPending ==
  /\ Py("check", "run")
  /\ ~exception /\ queue = <<>>
  /\ UNCHANGED <<arg, semVars, slotVars, vmVars>>

\* machine.sleep(), or a sleep of utime, which a timeout also ends
Sleep(kind) ==
  /\ Py("run", kind)
  /\ UNCHANGED <<arg, semVars, slotVars, vmVars>>

Wake ==
  /\ at \in {"sleep", "timed"}
  /\ token
  /\ token' = FALSE
  /\ at' = "check"
  /\ UNCHANGED <<arg, made, slotVars, vmVars>>

Timeout ==
  /\ Py("timed", "check")
  /\ ~token
  /\ UNCHANGED <<arg, semVars, slotVars, vmVars>>

\* Pin.irq(): all of it with the interrupt of the line disabled
PinIrq ==
  /\ Py("run", "run")
  /\ pinSlot' \in {None, Callback({})}
  /\ gpio' = [gpio EXCEPT !.fn = "pin", !.enabled = TRUE, !.inUse = TRUE]
  /\ UNCHANGED <<arg, semVars, slot, modes, vmVars>>

\* Buttons.enable_interrupt(): registerButtonCallback stores the callback,
EnableInterrupt(b, asks) ==
  /\ Py("run", "press")
  /\ arg' = [button |-> b, asks |-> asks, over |-> slot[b].set]
  /\ slot' = [slot EXCEPT ![b] = Callback(asks)]
  /\ UNCHANGED <<semVars, modes, lineVars, vmVars>>

\* then one mode and the other (of a line's button nobody reads them),
SetMode(here, next, d) ==
  /\ Py(here, next)
  /\ modes' = IF arg.button # tca THEN modes
              ELSE IF d \in arg.asks THEN modes \cup {d} ELSE modes \ {d}
  /\ UNCHANGED <<arg, semVars, slot, lineVars, vmVars>>

StorePress == SetMode("press", "release", "press")

StoreRelease == SetMode("release", IF arg.button = joy THEN "config" ELSE "run", "release")

\* Variant: the edges of a line that has its callback function already stay.
ConfigureOnce ==
  /\ Py("config", "attach")
  /\ gpio' = IF gpio.fn = "tilda" THEN gpio ELSE [gpio EXCEPT !.edges = arg.asks]
  /\ UNCHANGED <<arg, semVars, slot, modes, pinSlot, vmVars>>

\* the edges of a line, and its callback function.
Configure ==
  /\ Py("config", "attach")
  /\ gpio' = [gpio EXCEPT !.edges = arg.asks]
  /\ UNCHANGED <<arg, semVars, slot, modes, pinSlot, vmVars>>

Attach ==
  /\ Py("attach", "run")
  /\ gpio' = [gpio EXCEPT !.fn = "tilda", !.enabled = TRUE]
  /\ UNCHANGED <<arg, semVars, slot, modes, pinSlot, vmVars>>

\* Variant: the modes stay.
DisableKeepsModes(b) ==
  /\ Py("run", "run")
  /\ slot' = [slot EXCEPT ![b] = None]
  /\ gpio' = IF b = joy THEN [gpio EXCEPT !.enabled = FALSE] ELSE gpio
  /\ UNCHANGED <<arg, semVars, modes, pinSlot, vmVars>>

\* Buttons.disable_interrupt(); the callback goes first, after which an event
\* finds nothing to call.
DisableInterrupt(b) ==
  /\ Py("run", "run")
  /\ slot' = [slot EXCEPT ![b] = None]
  /\ modes' = IF b = tca THEN {} ELSE modes
  /\ gpio' = IF b = joy THEN [gpio EXCEPT !.enabled = FALSE] ELSE gpio
  /\ UNCHANGED <<arg, semVars, pinSlot, vmVars>>

Program ==
  \/ Raise \/ RunCallback \/ NothingPending \/ Wake \/ Timeout \/ PinIrq
  \/ StorePress \/ StoreRelease \/ Configure \/ Attach
  \/ \E kind \in {"sleep", "timed"} : Sleep(kind)
  \/ \E b \in Buttons : DisableInterrupt(b)
  \/ \E b \in Buttons, asks \in SUBSET Directions : EnableInterrupt(b, asks)

-----------------------------------------------------------------------------
(* The soft reset *)

\* Variant: the semaphore goes before the pins.
ExitDeletesFirst ==
  /\ Py("run", "pins")
  /\ made' = FALSE
  /\ token' = FALSE
  /\ UNCHANGED <<arg, slotVars, vmVars>>

\* The program ends: mp_main goes to its soft_reset_exit.
Exit ==
  /\ Py("run", "pins")
  /\ UNCHANGED <<arg, semVars, slotVars, vmVars>>

\* machine_pin_teardown
TeardownPins ==
  /\ Py("pins", "delete")
  /\ gpio' = IF gpio.inUse
             THEN [gpio EXCEPT !.enabled = FALSE, !.fn = "none", !.inUse = FALSE]
             ELSE gpio
  /\ UNCHANGED <<arg, semVars, slot, modes, pinSlot, vmVars>>

\* The rest of machine_teardown: Semaphore_delete
DeleteSemaphore ==
  /\ Py("delete", "sweep")
  /\ made' = FALSE
  /\ token' = FALSE
  /\ UNCHANGED <<arg, slotVars, vmVars>>

\* mp_deinit and gc_sweep_all
Sweep ==
  /\ Py("sweep", "setup")
  /\ slot' = [b \in Buttons |-> Dead(slot[b])]
  /\ pinSlot' = Dead(pinSlot)
  /\ queue' = [i \in DOMAIN queue |-> [queue[i] EXCEPT !.alive = FALSE]]
  /\ UNCHANGED <<arg, semVars, modes, gpio, exception, unseen>>

\* machine_setup
Setup ==
  /\ Py("setup", "mpinit")
  /\ made' = TRUE
  /\ token' = (made /\ token)
  /\ UNCHANGED <<arg, slotVars, vmVars>>

\* gc_init and mp_init, which empties the queue
MpInit ==
  /\ Py("mpinit", "init0")
  /\ queue' = <<>>
  /\ exception' = FALSE
  /\ unseen' = FALSE
  /\ UNCHANGED <<arg, semVars, slotVars>>

\* Variant: only the modes are reset.
TildaInit0KeepsSlots ==
  /\ Py("init0", "run")
  /\ modes' = {}
  /\ UNCHANGED <<arg, semVars, slot, lineVars, vmVars>>

\* tilda_init0
TildaInit0 ==
  /\ Py("init0", "run")
  /\ slot' = [b \in Buttons |-> None]
  /\ modes' = {}
  /\ UNCHANGED <<arg, semVars, lineVars, vmVars>>

Reset == Exit \/ TeardownPins \/ DeleteSemaphore \/ Sweep \/ Setup \/ MpInit \/ TildaInit0

Next == Event \/ Program \/ Reset

Spec == Init /\ [][Next]_vars

-----------------------------------------------------------------------------
(* Properties *)

InReset == at \in {"pins", "delete", "sweep", "setup", "mpinit", "init0"}
Registering == at \in {"press", "release", "config", "attach"}

Registrations == [button : Buttons, asks : SUBSET Directions, over : BOOLEAN]
Lines == [fn : {"none", "pin", "tilda"}, enabled : BOOLEAN, edges : SUBSET Directions,
          inUse : BOOLEAN]
Scheduled == [alive : BOOLEAN, early : BOOLEAN]

\* The type of the state.
TypeOK ==
  /\ at \in {"run", "check", "sleep", "timed", "press", "release", "config", "attach",
             "pins", "delete", "sweep", "setup", "mpinit", "init0"}
  /\ arg \in Registrations
  /\ made \in BOOLEAN
  /\ token \in BOOLEAN /\ (token => made)
  /\ slot \in [Buttons -> Callbacks]
  /\ modes \in SUBSET Directions
  /\ pinSlot \in Callbacks
  /\ gpio \in Lines
  /\ queue \in Seq(Scheduled) /\ Len(queue) <= DEPTH
  /\ exception \in BOOLEAN
  /\ unseen \in BOOLEAN

\* While the interrupt of a machine.Pin is enabled, the semaphore it posts
\* exists, and so does the callback it schedules: gpioCallback needs no test.
ArmedPinIsSafe ==
  gpio.enabled /\ gpio.fn = "pin" =>
    made /\ (pinSlot.set => pinSlot.alive)

\* Nothing of a swept heap can be called in the next session: neither by a
\* button, nor from the queue, but for what a button scheduled after mp_init
\* and before tilda_init0.
SessionIsFresh ==
  ~InReset =>
    /\ \A b \in Buttons : slot[b].set => slot[b].alive
    /\ \A i \in DOMAIN queue : queue[i].alive \/ queue[i].early

\* A program does not sleep over an event: what came since it last looked at
\* its queue ends its sleep.
EventEndsSleep ==
  at \in {"sleep", "timed"} /\ (unseen \/ exception) => token

\* A button calls back for a direction the callback asked for, but while the
\* callback is being registered: over another one, or on a line, whose
\* interrupt may still be enabled by an earlier session.
CalledAsAsked ==
  [][\A d \in Directions :
       /\ TcaEvent(d) => \/ d \in slot[tca].asks
                         \/ Registering /\ arg.button = tca /\ arg.over
       /\ JoyEdge(d) /\ slot[joy].set => \/ d \in slot[joy].asks
                                         \/ Registering /\ arg.button = joy]_vars

-----------------------------------------------------------------------------
(* Why they hold *)

\* The semaphore exists but between the teardown and the set-up; a Pin's
\* interrupt only while irq_in_use tells the teardown to disable it.
PinInv ==
  /\ made <=> at \notin {"sweep", "setup"}
  /\ gpio.fn = "pin" => /\ gpio.inUse
                        /\ InReset => at = "pins"
                        /\ pinSlot.set => pinSlot.alive

\* From mp_init on the queue holds nothing old, and what is unseen is in it.
QueueInv ==
  /\ SessionIsFresh
  /\ at = "init0" => \A i \in DOMAIN queue : queue[i].alive \/ queue[i].early
  /\ unseen => queue # <<>>

\* From mp_init on, and until the thread looks, what is unseen has left a token.
WakeInv ==
  at = "init0" \/ (~InReset /\ at # "check") => (unseen \/ exception => token)

\* The modes follow the callback in the order of the stores, and the edges of
\* the line are those of its callback once tildaGpioCallback is attached.
ModesInv ==
  /\ Registering => slot[arg.button] = Callback(arg.asks)
  /\ at \in {"config", "attach"} => arg.button = joy
  /\ at = "attach" => gpio.edges = arg.asks
  /\ ~slot[tca].set => modes = {}
  /\ modes \subseteq slot[tca].asks \/ (at \in {"press", "release"} /\ arg.button = tca)
  /\ at = "press" => arg.over \/ modes \subseteq slot[tca].asks
  /\ at = "release" /\ arg.button = tca =>
       /\ arg.over \/ modes \subseteq arg.asks
       /\ "press" \in modes => "press" \in arg.asks
  /\ slot[joy].set /\ gpio.fn = "tilda" /\ ~(Registering /\ arg.button = joy) =>
       gpio.edges \subseteq slot[joy].asks

\* The inductive invariant
SessionInv == TypeOK /\ PinInv /\ QueueInv /\ WakeInv /\ ModesInv
=============================================================================

-------------------------- MODULE SoftResetProofs --------------------------
(***************************************************************************)
(* Proofs about sessions and soft resets, for a scheduler queue of any     *)
(* depth: SessionInv is inductive, and what follows from it.               *)
(***************************************************************************)
EXTENDS SoftReset, TLAPS

\* The invariant holds when the board starts (mp_main before machine_setup).
LEMMA InvInit == Init => SessionInv
<1> SUFFICES ASSUME Init PROVE SessionInv  OBVIOUS
<1> USE ResetAssumption DEF ResetAssumption, Init, Buttons, Directions, None, Callbacks, NoArg,
                            InReset, Registering
<1>1. TypeOK
  <2>1. slot \in [Buttons -> Callbacks] /\ pinSlot \in Callbacks  OBVIOUS
  <2>2. gpio \in Lines  BY DEF Lines
  <2>3. arg \in Registrations  BY DEF Registrations
  <2>4. queue \in Seq(Scheduled) /\ Len(queue) <= DEPTH  OBVIOUS
  <2> QED  BY <2>1, <2>2, <2>3, <2>4 DEF TypeOK
<1>2. PinInv  BY DEF PinInv
<1>3. QueueInv  BY DEF QueueInv, SessionIsFresh
<1>4. WakeInv  BY DEF WakeInv
<1>5. ModesInv  BY DEF ModesInv
<1> QED  BY <1>1, <1>2, <1>3, <1>4, <1>5 DEF SessionInv

\* mp_sched_schedule keeps the type of the queue.
LEMMA ScheduleType ==
  ASSUME TypeOK, NEW cb \in Callbacks, Schedule(cb)
  PROVE  queue' \in Seq(Scheduled) /\ Len(queue') <= DEPTH /\ unseen' \in BOOLEAN
<1> DEFINE new == [alive |-> cb.alive, early |-> at = "init0"]
<1>1. new \in Scheduled
  BY DEF Callbacks, Scheduled
<1>2. IF Len(queue) < DEPTH THEN queue' = Append(queue, new) /\ unseen' = TRUE
                            ELSE queue' = queue /\ unseen' = unseen
  BY DEF Schedule
<1> HIDE DEF new
<1>3. queue \in Seq(Scheduled) /\ Len(queue) <= DEPTH /\ unseen \in BOOLEAN
  BY DEF TypeOK
<1>4. Len(queue) < DEPTH => queue' \in Seq(Scheduled) /\ Len(queue') <= DEPTH
  BY <1>1, <1>2, <1>3, ResetAssumption DEF ResetAssumption
<1> QED
  BY <1>2, <1>3, <1>4

\* Every step keeps the types.
LEMMA TypeStep ==
  ASSUME TypeOK, [Next]_vars
  PROVE  TypeOK'
<1> USE DEF Py, vmVars, semVars, slotVars, lineVars
<1>1. CASE Event
  <2>1. CASE CtrlC
    BY <2>1 DEF CtrlC, Post, NotPosted, TypeOK
  <2>2. CASE \/ PinEdge
             \/ \E d \in Directions : JoyEdge(d) \/ TcaEvent(d)
    <3>1. Post /\ Interrupted
      BY <2>2 DEF PinEdge, JoyEdge, TcaEvent
    <3>2. (\E cb \in Callbacks : Schedule(cb)) \/ UNCHANGED <<queue, unseen>>
      BY <2>2 DEF PinEdge, JoyEdge, TcaEvent, TypeOK, Buttons
    <3>3. queue' \in Seq(Scheduled) /\ Len(queue') <= DEPTH /\ unseen' \in BOOLEAN
      BY <3>2, ScheduleType DEF TypeOK
    <3> QED  BY <3>1, <3>3 DEF Post, Interrupted, TypeOK
  <2> QED  BY <1>1, <2>1, <2>2 DEF Event
<1>2. CASE Program
  <2>1. CASE Raise  BY <2>1 DEF Raise, TypeOK
  <2>2. CASE RunCallback
    <3>1. queue' \in Seq(Scheduled) /\ Len(queue') <= DEPTH
      BY <2>2, ResetAssumption DEF RunCallback, TypeOK, ResetAssumption
    <3> QED  BY <2>2, <3>1 DEF RunCallback, TypeOK
  <2>3. CASE NothingPending  BY <2>3 DEF NothingPending, TypeOK
  <2>4. ASSUME NEW kind \in {"sleep", "timed"}, Sleep(kind) PROVE TypeOK'
    BY <2>4 DEF Sleep, TypeOK
  <2>5. CASE Wake  BY <2>5 DEF Wake, TypeOK
  <2>6. CASE Timeout  BY <2>6 DEF Timeout, TypeOK
  <2>7. CASE PinIrq
    <3>1. pinSlot' \in Callbacks
      <4>1. None \in Callbacks /\ Callback({}) \in Callbacks
        BY DEF None, Callback, Callbacks
      <4> QED  BY <2>7, <4>1 DEF PinIrq
    <3>2. gpio' \in Lines
      BY <2>7 DEF PinIrq, TypeOK, Lines
    <3> QED  BY <2>7, <3>1, <3>2 DEF PinIrq, TypeOK
  <2>8. ASSUME NEW b \in Buttons, NEW asks \in SUBSET Directions, EnableInterrupt(b, asks)
        PROVE  TypeOK'
    <3>1. arg' \in Registrations /\ slot' \in [Buttons -> Callbacks]
      BY <2>8 DEF EnableInterrupt, TypeOK, Registrations, Callback, Callbacks
    <3> QED  BY <2>8, <3>1 DEF EnableInterrupt, TypeOK
  <2>9. CASE StorePress  BY <2>9 DEF StorePress, SetMode, TypeOK, Directions
  <2>10. CASE StoreRelease  BY <2>10 DEF StoreRelease, SetMode, TypeOK, Directions
  <2>11. CASE Configure
    <3>1. gpio' \in Lines
      BY <2>11 DEF Configure, TypeOK, Lines, Registrations
    <3> QED  BY <2>11, <3>1 DEF Configure, TypeOK
  <2>12. CASE Attach
    <3>1. gpio' \in Lines
      BY <2>12 DEF Attach, TypeOK, Lines
    <3> QED  BY <2>12, <3>1 DEF Attach, TypeOK
  <2>13. ASSUME NEW b \in Buttons, DisableInterrupt(b) PROVE TypeOK'
    <3>1. gpio' \in Lines /\ slot' \in [Buttons -> Callbacks]
      BY <2>13 DEF DisableInterrupt, TypeOK, Lines, None, Callbacks
    <3> QED  BY <2>13, <3>1 DEF DisableInterrupt, TypeOK
  <2> QED
    BY <1>2, <2>1, <2>2, <2>3, <2>4, <2>5, <2>6, <2>7, <2>8, <2>9, <2>10, <2>11, <2>12, <2>13
       DEF Program
<1>3. CASE Reset
  <2>1. CASE Exit  BY <2>1 DEF Exit, TypeOK
  <2>2. CASE TeardownPins
    <3>1. gpio' \in Lines
      BY <2>2 DEF TeardownPins, TypeOK, Lines
    <3> QED  BY <2>2, <3>1 DEF TeardownPins, TypeOK
  <2>3. CASE DeleteSemaphore  BY <2>3 DEF DeleteSemaphore, TypeOK
  <2>4. CASE Sweep
    <3>1. slot' \in [Buttons -> Callbacks] /\ pinSlot' \in Callbacks
      BY <2>4 DEF Sweep, TypeOK, Dead, Callbacks
    <3>2. \A q \in Scheduled : [q EXCEPT !.alive = FALSE] \in Scheduled
      BY DEF Scheduled
    <3>3. queue' \in Seq(Scheduled) /\ Len(queue') <= DEPTH
      BY <2>4, <3>2 DEF Sweep, TypeOK
    <3> QED  BY <2>4, <3>1, <3>3 DEF Sweep, TypeOK
  <2>5. CASE Setup  BY <2>5 DEF Setup, TypeOK
  <2>6. CASE MpInit
    <3>1. queue' \in Seq(Scheduled) /\ Len(queue') <= DEPTH
      BY <2>6, ResetAssumption DEF MpInit, ResetAssumption
    <3> QED  BY <2>6, <3>1 DEF MpInit, TypeOK
  <2>7. CASE TildaInit0
    <3>1. None \in Callbacks  BY DEF None, Callbacks
    <3>2. slot' \in [Buttons -> Callbacks]  BY <2>7, <3>1 DEF TildaInit0
    <3> QED  BY <2>7, <3>2 DEF TildaInit0, TypeOK
  <2> QED  BY <1>3, <2>1, <2>2, <2>3, <2>4, <2>5, <2>6, <2>7 DEF Reset
<1>4. CASE UNCHANGED vars
  BY <1>4 DEF vars, TypeOK
<1> QED  BY <1>1, <1>2, <1>3, <1>4 DEF Next

\* mp_sched_schedule keeps what QueueInv says of the queue, when the callback
\* lives or the thread has not reached tilda_init0.
LEMMA ScheduleKeeps ==
  ASSUME SessionInv, NEW cb \in Callbacks, Schedule(cb), UNCHANGED <<at, slot>>,
         ~InReset => cb.alive
  PROVE  QueueInv'
<1> USE ResetAssumption
    DEF ResetAssumption, SessionInv, TypeOK, QueueInv, SessionIsFresh, InReset, Callbacks
<1>1. CASE Len(queue) < DEPTH
  <2> DEFINE new == [alive |-> cb.alive, early |-> at = "init0"]
  <2>1. queue' = Append(queue, new) /\ unseen' = TRUE
    BY <1>1 DEF Schedule
  <2>2. new \in Scheduled  BY DEF Scheduled
  <2>3. at = "init0" => new.early  OBVIOUS
  <2>4. ~InReset => new.alive  OBVIOUS
  <2> HIDE DEF new
  <2>5. /\ queue' # <<>>
        /\ \A i \in DOMAIN queue' : queue'[i] = new \/ (i \in DOMAIN queue /\ queue'[i] = queue[i])
    BY <2>1, <2>2
  <2> QED  BY <1>1, <2>1, <2>3, <2>4, <2>5
<1>2. CASE ~(Len(queue) < DEPTH)
  BY <1>2 DEF Schedule
<1> QED  BY <1>1, <1>2

\* An interrupt or tildaThread keeps it, wherever the interpreter's thread is.
LEMMA InvEvent ==
  ASSUME SessionInv, Event
  PROVE  SessionInv'
<1> USE ResetAssumption DEF ResetAssumption, SessionInv
<1>1. TypeOK'
  BY TypeStep DEF Next
<1>2. ASSUME NEW cb \in Callbacks, ~InReset => cb.alive,
             Schedule(cb) \/ UNCHANGED <<queue, unseen>>, Post, Interrupted
      PROVE  SessionInv'
  <2> USE <1>2 DEF Interrupted, slotVars, lineVars
  <2>1. QueueInv'
    <3>1. CASE Schedule(cb)
      BY <3>1, ScheduleKeeps
    <3>2. CASE UNCHANGED <<queue, unseen>>
      BY <3>2 DEF QueueInv, SessionIsFresh, InReset
    <3> QED  BY <3>1, <3>2
  <2>2. PinInv'  BY DEF PinInv, InReset
  <2>3. WakeInv'  BY DEF Post, WakeInv, PinInv, InReset
  <2>4. ModesInv'  BY DEF ModesInv, Registering
  <2> QED  BY <1>1, <2>1, <2>2, <2>3, <2>4
<1>3. ASSUME NEW cb \in Callbacks, cb.set => (~InReset => cb.alive),
             IF cb.set THEN Schedule(cb) ELSE UNCHANGED <<queue, unseen>>, Post, Interrupted
      PROVE  SessionInv'
  <2>1. CASE cb.set
    BY <1>3, <1>2, <2>1
  <2>2. CASE ~cb.set
    <3>1. Callback({}) \in Callbacks /\ Callback({}).alive
      BY DEF Callback, Callbacks, Directions
    <3> QED  BY <1>2, <1>3, <2>2, <3>1
  <2> QED  BY <2>1, <2>2
<1>4. CASE PinEdge
  <2>1. pinSlot \in Callbacks /\ (pinSlot.set => (~InReset => pinSlot.alive))
    BY <1>4 DEF PinEdge, PinInv, TypeOK
  <2> QED  BY <1>3, <1>4, <2>1 DEF PinEdge
<1>5. ASSUME NEW b \in Buttons
      PROVE  slot[b] \in Callbacks /\ (slot[b].set => (~InReset => slot[b].alive))
  BY DEF TypeOK, QueueInv, SessionIsFresh
<1>6. ASSUME NEW d \in Directions, JoyEdge(d)
      PROVE  SessionInv'
  BY <1>3, <1>5, <1>6 DEF JoyEdge, Buttons
<1>7. ASSUME NEW d \in Directions, TcaEvent(d)
      PROVE  SessionInv'
  BY <1>3, <1>5, <1>7 DEF TcaEvent, Buttons
<1>8. CASE CtrlC
  <2> USE <1>8 DEF CtrlC, Post, NotPosted, slotVars, lineVars
  <2>1. PinInv'  BY DEF PinInv, InReset
  <2>2. QueueInv'  BY DEF QueueInv, SessionIsFresh, InReset
  <2>3. WakeInv'  BY DEF WakeInv, PinInv, InReset, TypeOK
  <2>4. ModesInv'  BY DEF ModesInv, Registering
  <2> QED  BY <1>1, <2>1, <2>2, <2>3, <2>4
<1> QED  BY <1>4, <1>6, <1>7, <1>8 DEF Event

\* A step of the program keeps it.
LEMMA InvProgram ==
  ASSUME SessionInv, Program
  PROVE  SessionInv'
<1> USE ResetAssumption DEF ResetAssumption, SessionInv
<1>1. TypeOK'
  BY TypeStep DEF Next
<1>2. CASE \/ Raise \/ NothingPending \/ Wake \/ Timeout
           \/ \E kind \in {"sleep", "timed"} : Sleep(kind)
  <2> USE <1>2 DEF Raise, NothingPending, Wake, Timeout, Sleep, Py, vmVars, semVars, slotVars,
                   lineVars
  <2>1. PinInv'  BY DEF PinInv, InReset
  <2>2. QueueInv'  BY DEF QueueInv, SessionIsFresh, InReset
  <2>3. WakeInv'  BY DEF WakeInv, QueueInv, InReset, TypeOK
  <2>4. ModesInv'  BY DEF ModesInv, Registering
  <2> QED  BY <1>1, <2>1, <2>2, <2>3, <2>4
<1>3. CASE RunCallback
  <2> USE <1>3 DEF RunCallback, semVars, slotVars, lineVars
  <2>1. /\ queue' \in Seq(Scheduled)
        /\ Len(queue') <= DEPTH
        /\ \A i \in DOMAIN queue' : i + 1 \in DOMAIN queue /\ queue'[i] = queue[i + 1]
    BY DEF TypeOK
  <2>2. PinInv'  BY DEF PinInv, InReset
  <2>3. QueueInv'  BY <2>1 DEF QueueInv, SessionIsFresh, InReset
  <2>4. WakeInv'  BY DEF WakeInv, InReset
  <2>5. ModesInv'  BY DEF ModesInv, Registering
  <2> QED  BY <1>1, <2>2, <2>3, <2>4, <2>5
<1>4. CASE PinIrq
  <2> USE <1>4 DEF PinIrq, Py, vmVars, semVars
  <2>1. PinInv'  BY DEF PinInv, InReset, None, Callback, TypeOK
  <2>2. QueueInv'  BY DEF QueueInv, SessionIsFresh, InReset
  <2>3. WakeInv'  BY DEF WakeInv, InReset
  <2>4. ModesInv'  BY DEF ModesInv, Registering, TypeOK
  <2> QED  BY <1>1, <2>1, <2>2, <2>3, <2>4
<1>5. ASSUME NEW b \in Buttons, NEW asks \in SUBSET Directions, EnableInterrupt(b, asks)
      PROVE  SessionInv'
  <2> USE <1>5 DEF EnableInterrupt, Py, vmVars, semVars, lineVars
  <2>1. PinInv'  BY DEF PinInv, InReset
  <2>2. QueueInv'  BY DEF QueueInv, SessionIsFresh, InReset, Callback, TypeOK
  <2>3. WakeInv'  BY DEF WakeInv, InReset
  <2>4. ModesInv'  BY DEF ModesInv, Registering, TypeOK, Callback, Buttons, Callbacks
  <2> QED  BY <1>1, <2>1, <2>2, <2>3, <2>4
<1>6. CASE StorePress \/ StoreRelease
  <2> USE <1>6 DEF StorePress, StoreRelease, SetMode, Py, vmVars, semVars, lineVars
  <2>1. PinInv'  BY DEF PinInv, InReset
  <2>2. QueueInv'  BY DEF QueueInv, SessionIsFresh, InReset
  <2>3. WakeInv'  BY DEF WakeInv, InReset
  <2>4. ModesInv'
    <3>1. /\ slot[arg.button].set /\ slot[arg.button].asks = arg.asks
          /\ arg.button \in Buttons /\ modes \subseteq Directions
          /\ UNCHANGED <<arg, slot, gpio>>
      BY DEF ModesInv, Registering, Callback, TypeOK, Registrations
    <3>2. CASE StorePress
      BY <3>1, <3>2 DEF ModesInv, Registering, Buttons, Callback
    <3>3. CASE StoreRelease
      BY <3>1, <3>3 DEF ModesInv, Registering, Buttons, Directions, Callback
    <3> QED  BY <3>2, <3>3
  <2> QED  BY <1>1, <2>1, <2>2, <2>3, <2>4
<1>7. CASE Configure \/ Attach
  <2> USE <1>7 DEF Configure, Attach, Py, vmVars, semVars
  <2>1. PinInv'  BY DEF PinInv, InReset, TypeOK, Lines
  <2>2. QueueInv'  BY DEF QueueInv, SessionIsFresh, InReset
  <2>3. WakeInv'  BY DEF WakeInv, InReset
  <2>4. ModesInv'
    <3>1. CASE Configure
      <4>1. gpio'.fn = gpio.fn /\ gpio'.edges = arg.asks
        BY <3>1 DEF TypeOK, Lines
      <4> QED  BY <3>1, <4>1 DEF ModesInv, Registering
    <3>2. CASE Attach
      <4>1. gpio'.edges = gpio.edges
        BY <3>2 DEF TypeOK, Lines
      <4> QED  BY <3>2, <4>1 DEF ModesInv, Registering, Callback
    <3> QED  BY <3>1, <3>2
  <2> QED  BY <1>1, <2>1, <2>2, <2>3, <2>4
<1>8. ASSUME NEW b \in Buttons, DisableInterrupt(b)
      PROVE  SessionInv'
  <2> USE <1>8 DEF DisableInterrupt, Py, vmVars, semVars
  <2>1. PinInv'  BY DEF PinInv, InReset, TypeOK, Lines
  <2>2. QueueInv'  BY DEF QueueInv, SessionIsFresh, InReset, None, TypeOK
  <2>3. WakeInv'  BY DEF WakeInv, InReset
  <2>4. ModesInv'  BY DEF ModesInv, Registering, TypeOK, None, Buttons
  <2> QED  BY <1>1, <2>1, <2>2, <2>3, <2>4
<1> QED  BY <1>2, <1>3, <1>4, <1>5, <1>6, <1>7, <1>8 DEF Program

\* A step of the soft reset keeps it.
LEMMA InvReset ==
  ASSUME SessionInv, Reset
  PROVE  SessionInv'
<1> USE ResetAssumption DEF ResetAssumption, SessionInv
<1>1. TypeOK'
  BY TypeStep DEF Next
<1>2. CASE Exit \/ TeardownPins \/ DeleteSemaphore \/ Setup
  <2> USE <1>2 DEF Exit, TeardownPins, DeleteSemaphore, Setup, Py, vmVars, semVars, slotVars,
                   lineVars
  <2>1. PinInv'
    <3>1. CASE TeardownPins
      BY <3>1 DEF PinInv, InReset, TypeOK, Lines
    <3>2. CASE Exit \/ DeleteSemaphore \/ Setup
      BY <3>2 DEF PinInv, InReset
    <3> QED  BY <3>1, <3>2
  <2>2. QueueInv'  BY DEF QueueInv, SessionIsFresh, InReset
  <2>3. WakeInv'  BY DEF WakeInv, InReset
  <2>4. ModesInv'
    <3>1. gpio' = gpio \/ gpio'.fn = "none"
      BY DEF TypeOK, Lines
    <3> QED  BY <3>1 DEF ModesInv, Registering
  <2> QED  BY <1>1, <2>1, <2>2, <2>3, <2>4
<1>3. CASE Sweep
  <2> USE <1>3 DEF Sweep, Py, semVars
  <2>1. PinInv'  BY DEF PinInv, InReset, TypeOK, Lines
  <2>2. QueueInv'  BY DEF QueueInv, SessionIsFresh, InReset, TypeOK
  <2>3. WakeInv'  BY DEF WakeInv, InReset
  <2>4. ModesInv'  BY DEF ModesInv, Registering, TypeOK, Dead, Buttons, Callbacks
  <2> QED  BY <1>1, <2>1, <2>2, <2>3, <2>4
<1>4. CASE MpInit \/ TildaInit0
  <2> USE <1>4 DEF MpInit, TildaInit0, Py, vmVars, semVars, slotVars, lineVars
  <2>1. PinInv'  BY DEF PinInv, InReset, TypeOK, Lines
  <2>2. QueueInv'  BY DEF QueueInv, SessionIsFresh, InReset, None
  <2>3. WakeInv'  BY DEF WakeInv, InReset
  <2>4. ModesInv'  BY DEF ModesInv, Registering, TypeOK, None, Buttons
  <2> QED  BY <1>1, <2>1, <2>2, <2>3, <2>4
<1> QED  BY <1>2, <1>3, <1>4 DEF Reset

\* SessionInv holds at every moment of every session, whatever interrupts it.
THEOREM InvariantHolds == Spec => []SessionInv
<1>1. SessionInv /\ [Next]_vars => SessionInv'
  <2> SUFFICES ASSUME SessionInv, [Next]_vars PROVE SessionInv'  OBVIOUS
  <2>1. CASE Next  BY <2>1, InvEvent, InvProgram, InvReset DEF Next
  <2>2. CASE UNCHANGED vars
    BY <2>2 DEF vars, semVars, slotVars, lineVars, vmVars, SessionInv, TypeOK, PinInv, QueueInv,
                SessionIsFresh, WakeInv, ModesInv, InReset, Registering
  <2> QED  BY <2>1, <2>2
<1> QED  BY InvInit, <1>1, PTL DEF Spec

\* gpioCallback, which tests nothing, finds the semaphore it posts and the
\* callback it schedules (machine_pin.c, machine_teardown).
THEOREM PinIsSafe == Spec => []ArmedPinIsSafe
<1>1. SessionInv => ArmedPinIsSafe
  BY DEF SessionInv, PinInv, ArmedPinIsSafe, InReset
<1> QED  BY InvariantHolds, <1>1, PTL

\* No session calls what an earlier one registered (mp_main, tilda_init0).
THEOREM SessionsAreFresh == Spec => []SessionIsFresh
<1>1. SessionInv => SessionIsFresh
  BY DEF SessionInv, QueueInv
<1> QED  BY InvariantHolds, <1>1, PTL

\* No wake-up is lost between the program's look and its sleep (machine_sleep,
\* intr_sleep).
THEOREM NoLostWakeUp == Spec => []EventEndsSleep
<1>1. SessionInv => EventEndsSleep
  BY DEF SessionInv, WakeInv, EventEndsSleep, InReset
<1> QED  BY InvariantHolds, <1>1, PTL

\* A callback is called for what it asked for (registerButtonCallback).
THEOREM CallsAreAskedFor == Spec => CalledAsAsked
<1>1. SessionInv /\ [Next]_vars =>
        [\A d \in Directions :
           /\ TcaEvent(d) => \/ d \in slot[tca].asks
                             \/ Registering /\ arg.button = tca /\ arg.over
           /\ JoyEdge(d) /\ slot[joy].set => \/ d \in slot[joy].asks
                                             \/ Registering /\ arg.button = joy]_vars
  <2> SUFFICES ASSUME SessionInv, NEW d \in Directions
               PROVE  /\ TcaEvent(d) => \/ d \in slot[tca].asks
                                        \/ Registering /\ arg.button = tca /\ arg.over
                      /\ JoyEdge(d) /\ slot[joy].set => \/ d \in slot[joy].asks
                                                        \/ Registering /\ arg.button = joy
    OBVIOUS
  <2> USE DEF SessionInv, ModesInv, Registering
  <2>1. TcaEvent(d) => d \in slot[tca].asks \/ (Registering /\ arg.button = tca /\ arg.over)
    BY DEF TcaEvent, Callback
  <2>2. JoyEdge(d) /\ slot[joy].set => d \in slot[joy].asks \/ (Registering /\ arg.button = joy)
    BY DEF JoyEdge
  <2> QED  BY <2>1, <2>2
<1> QED  BY InvariantHolds, <1>1, PTL DEF Spec, CalledAsAsked
============================================================================

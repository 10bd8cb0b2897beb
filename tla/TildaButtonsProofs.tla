------------------------- MODULE TildaButtonsProofs -------------------------
(***************************************************************************)
(* Proofs about the buttons, for any number of them and any times that     *)
(* satisfy ButtonsAssumption: ButtonsInv is inductive, and what it says of *)
(* the callbacks and of the debouncer.                                     *)
(***************************************************************************)
EXTENDS TildaButtons, TLAPS

\* One less in the unsigned type: it stays in the type, and is what one
\* expects but for 0 (the type of pdb->count and pdb->period).
LEMMA DecrementedValue ==
  ASSUME NEW n \in 0 .. WRAP - 1
  PROVE  /\ Decremented(n) \in 0 .. WRAP - 1
         /\ n # 0 => Decremented(n) = n - 1
  BY ButtonsAssumption DEF ButtonsAssumption, Decremented

\* The invariant holds when tildaThread starts.
LEMMA InvInit == Init => ButtonsInv
<1> SUFFICES ASSUME Init PROVE ButtonsInv  OBVIOUS
<1> USE DEF Init, Idle
<1>1. TypeOK
  <2> USE ButtonsAssumption DEF ButtonsAssumption
  <2>1. pdb \in Debouncers  BY DEF Debouncers
  <2>2. swi \in ClockFunctions  BY DEF ClockFunctions
  <2>3. looks \in Looks  BY DEF Looks
  <2>4. buttonState \in States  BY DEF States
  <2> QED  BY <2>1, <2>2, <2>3, <2>4 DEF TypeOK
<1>2. ToldInv  BY DEF ToldInv
<1>3. PeriodInv  BY DEF PeriodInv
<1>4. CountInv  BY DEF CountInv
<1> QED  BY <1>1, <1>2, <1>3, <1>4 DEF ButtonsInv

\* A step of the clock function keeps the invariant.
LEMMA InvTick ==
  ASSUME ButtonsInv, Tick
  PROVE  ButtonsInv'
<1> USE ButtonsAssumption DEF ButtonsAssumption, ButtonsInv, lineVars, threadVars, High
<1>1. ToldInv'
  BY DEF Tick, TickLoad, TickPeriod, TickStop, TickLook, TickStore, TickNotify, ToldInv
<1>2. CASE TickLoad
  <2> USE <1>2 DEF TickLoad, Idle
  <2>1. TypeOK'
    <3>0. pdb.period \in 0..PERIOD  BY DEF TypeOK, PeriodInv, Debouncers
    <3>1. swi' = [at |-> "period", period |-> pdb.period, count |-> 0, pressed |-> FALSE]
      OBVIOUS
    <3>2. 0 \in 0 .. WRAP - 1  OBVIOUS
    <3>3. swi' \in ClockFunctions  BY ONLY <3>0, <3>1, <3>2 DEF ClockFunctions
    <3> QED  BY <3>3 DEF TypeOK
  <2>2. PeriodInv'  BY DEF PeriodInv
  <2>3. CountInv'  BY DEF CountInv
  <2> QED  BY <1>1, <2>1, <2>2, <2>3
<1>3. CASE TickPeriod
  <2> USE <1>3 DEF TickPeriod
  <2>0. /\ swi.period \in 0 .. WRAP - 1
        /\ swi.period \in 0 .. PERIOD
    BY DEF TypeOK, ClockFunctions
  <2>1. /\ Decremented(swi.period) \in 0 .. WRAP - 1
        /\ swi.period # 0 => Decremented(swi.period) = swi.period - 1
    BY <2>0, DecrementedValue
  <2>2. TypeOK'
    <3>1. pdb' \in Debouncers  BY <2>1 DEF TypeOK, Debouncers
    <3>2. swi' \in ClockFunctions  BY <2>1 DEF TypeOK, ClockFunctions
    <3> QED  BY <3>1, <3>2 DEF TypeOK
  <2>3. PeriodInv'  BY <2>0, <2>1 DEF PeriodInv, TypeOK, Debouncers
  <2>4. CountInv'  BY DEF CountInv, TypeOK, Debouncers, ClockFunctions, Looks
  <2> QED  BY <1>1, <2>2, <2>3, <2>4
<1>4. CASE TickStop
  <2> USE <1>4 DEF TickStop, Idle
  <2>1. TypeOK'
    <3>1. pdb' \in Debouncers  BY DEF TypeOK, Debouncers
    <3>2. swi' \in ClockFunctions  BY DEF TypeOK, ClockFunctions
    <3> QED  BY <3>1, <3>2 DEF TypeOK
  <2>2. PeriodInv'  BY DEF PeriodInv, TypeOK, Debouncers, ClockFunctions
  <2>3. CountInv'  BY DEF CountInv, TypeOK, Debouncers, ClockFunctions, Looks
  <2> QED  BY <1>1, <2>1, <2>2, <2>3
<1>5. CASE TickLook
  <2> USE <1>5 DEF TickLook
  <2>0. /\ Decremented(pdb.count) \in 0 .. WRAP - 1
        /\ pdb.count # 0 => Decremented(pdb.count) = pdb.count - 1
    BY DecrementedValue DEF TypeOK, Debouncers
  <2>1. TypeOK'
    <3>0. /\ High \in BOOLEAN
          /\ swi'.count \in 0 .. WRAP - 1
      BY <2>0 DEF TypeOK, Debouncers, ClockFunctions
    <3>1. swi' \in ClockFunctions
      <4>1. swi' = [swi EXCEPT !.at = "store", !.pressed = High, !.count = swi'.count]
        BY DEF TypeOK, ClockFunctions
      <4> QED  BY <3>0, <4>1 DEF TypeOK, ClockFunctions
    <3>2. looks' \in Looks  BY <2>0 DEF TypeOK, Looks
    <3> QED  BY <3>1, <3>2 DEF TypeOK
  <2>2. PeriodInv'  BY DEF PeriodInv, TypeOK, Debouncers, ClockFunctions
  <2>3. CountInv'  BY <2>0 DEF CountInv, TypeOK, Debouncers, ClockFunctions, Looks
  <2> QED  BY <1>1, <2>1, <2>2, <2>3
<1>6. CASE TickStore
  <2> USE <1>6 DEF TickStore, Idle
  <2>1. TypeOK'
    <3>1. pdb' \in Debouncers  BY DEF TypeOK, ClockFunctions, Debouncers
    <3>2. swi' \in ClockFunctions  BY DEF TypeOK, ClockFunctions
    <3> QED  BY <3>1, <3>2 DEF TypeOK
  <2>2. PeriodInv'  BY DEF PeriodInv, TypeOK, Debouncers, ClockFunctions
  <2>3. CountInv'  BY DEF CountInv, TypeOK, Debouncers, ClockFunctions, Looks
  <2> QED  BY <1>1, <2>1, <2>2, <2>3
<1>7. CASE TickNotify
  <2> USE <1>7 DEF TickNotify, Idle
  <2>1. TypeOK'
    <3>1. swi' \in ClockFunctions  BY DEF TypeOK, ClockFunctions
    <3> QED  BY <3>1 DEF TypeOK
  <2>2. PeriodInv'  BY DEF PeriodInv, TypeOK, Debouncers, ClockFunctions
  <2>3. CountInv'  BY DEF CountInv, TypeOK, Debouncers, ClockFunctions, Looks
  <2> QED  BY <1>1, <2>1, <2>2, <2>3
<1> QED  BY <1>2, <1>3, <1>4, <1>5, <1>6, <1>7 DEF Tick

\* A step of tildaThread keeps the invariant.
LEMMA InvTilda ==
  ASSUME ButtonsInv, TildaStep
  PROVE  ButtonsInv'
<1> USE ButtonsAssumption DEF ButtonsAssumption, ButtonsInv, Thread
<1>1. PeriodInv'
  BY DEF TildaStep, Setup, Pend, ReadTCA, ReadTCAFails, Compare, PeriodInv
<1>2. CountInv'
  <2>1. UNCHANGED <<port, pdb, swi, looks, raced>> /\ (latch' = latch \/ latch' = port)
    BY DEF TildaStep, Setup, Pend, ReadTCA, ReadTCAFails, Compare
  <2>2. High => High'  BY <2>1 DEF High
  <2> QED  BY <2>1, <2>2 DEF CountInv
<1>3. TypeOK'
  BY DEF TildaStep, Setup, Pend, ReadTCA, ReadTCAFails, Compare, TypeOK, States, Changed
<1>4. ToldInv'
  <2>1. CASE Setup  BY <2>1 DEF Setup, ToldInv
  <2>2. CASE Pend  BY <2>2 DEF Pend, ToldInv
  <2>3. CASE ReadTCA  BY <2>3 DEF ReadTCA, ToldInv
  <2>4. CASE ReadTCAFails  BY <2>4 DEF ReadTCAFails, ToldInv
  <2>5. CASE Compare
    <3>1. \A b \in Buttons : told'[b] = buttonState[b]
      BY <2>5 DEF Compare, ToldInv, Changed
    <3>2. told' = [b \in Buttons |-> told'[b]] /\ buttonState = [b \in Buttons |-> buttonState[b]]
      BY <1>3, <2>5 DEF Compare, TypeOK, States
    <3>3. told' = buttonState  BY <3>1, <3>2, Zenon
    <3> QED  BY <2>5, <3>3 DEF Compare, ToldInv
  <2> QED  BY <2>1, <2>2, <2>3, <2>4, <2>5 DEF TildaStep
<1> QED  BY <1>1, <1>2, <1>3, <1>4

\* A button that moves keeps the invariant.
LEMMA InvChange ==
  ASSUME ButtonsInv, NEW b \in Buttons, Change(b)
  PROVE  ButtonsInv'
<1> USE ButtonsAssumption DEF ButtonsAssumption, ButtonsInv, Change, threadVars, Started
<1>1. TypeOK'
  <2>1. port' \in States  BY DEF TypeOK, States
  <2>2. pdb' \in Debouncers /\ looks' \in Looks /\ raced' \in BOOLEAN
    <3>1. CASE High
      <4>0. RELEASE_TICKS \in 0 .. WRAP - 1 /\ PERIOD \in 0 .. WRAP - 1 /\ 0 \in 0..RELEASE_TICKS
        OBVIOUS
      <4>1. pdb' \in Debouncers
        <5>1. pdb' = Started  BY <3>1, Zenon
        <5> QED  BY <4>0, <5>1 DEF Debouncers
      <4>2. looks' \in Looks
        <5>1. looks' = [high |-> FALSE, n |-> 0]  BY <3>1, Zenon
        <5> QED  BY <4>0, <5>1 DEF Looks
      <4>3. raced' \in BOOLEAN  BY <3>1
      <4> QED  BY <4>1, <4>2, <4>3
    <3>2. CASE ~High  BY <3>2 DEF TypeOK
    <3> QED  BY <3>1, <3>2
  <2> QED  BY <2>1, <2>2 DEF TypeOK
<1>2. ToldInv'  BY DEF ToldInv
<1>3. PeriodInv'  BY DEF PeriodInv, TypeOK, Debouncers, ClockFunctions
<1>4. CountInv'
  <2>1. CASE High
    <3>1. /\ raced' = (swi.at # "idle") /\ swi' = swi
          /\ looks'.n = 0 /\ looks'.high = FALSE /\ pdb'.count = RELEASE_TICKS
      BY <2>1
    <3>2. CASE swi.at = "idle"  BY <3>1, <3>2 DEF CountInv
    <3>3. CASE swi.at # "idle"  BY <3>1, <3>3 DEF CountInv
    <3> QED  BY <3>2, <3>3
  <2>2. CASE ~High  BY <2>2 DEF CountInv, TypeOK
  <2> QED  BY <2>1, <2>2
<1> QED  BY <1>1, <1>2, <1>3, <1>4

\* ButtonsInv holds in every execution: the type of the state, what the thread
\* has told, the clock's period and the debouncer's count.
THEOREM ButtonsInvariant == Spec => []ButtonsInv
<1>1. ASSUME ButtonsInv, [Next]_vars PROVE ButtonsInv'
  <2>1. CASE Tick  BY <1>1, <2>1, InvTick
  <2>2. CASE TildaStep  BY <1>1, <2>2, InvTilda
  <2>3. CASE \E b \in Buttons : Change(b)  BY <1>1, <2>3, InvChange
  <2>4. CASE UNCHANGED vars
    BY <1>1, <2>4 DEF vars, lineVars, threadVars, ButtonsInv, TypeOK, ToldInv,
       PeriodInv, CountInv, High
  <2> QED  BY <1>1, <2>1, <2>2, <2>3, <2>4 DEF Next
<1> QED  BY <1>1, InvInit, PTL DEF Spec

\* Every variable keeps its type (the state of pdb.c and tilda_thread.c).
THEOREM ButtonsTypes == Spec => []TypeOK
<1>1. ButtonsInv => TypeOK  BY DEF ButtonsInv
<1> QED  BY <1>1, ButtonsInvariant, PTL

\* Between two rounds of tildaThread the callbacks have been told of every
\* button what is_pressed answers.
THEOREM AllTold == Spec => []EveryChangeTold
<1>1. ButtonsInv => EveryChangeTold  BY DEF ButtonsInv, ToldInv, EveryChangeTold
<1> QED  BY <1>1, ButtonsInvariant, PTL

\* The comparison of tildaThread tells a change once, unless the expander could
\* not be read.
THEOREM NotToldTwice == Spec => ToldOnce
<1> DEFINE Once == tilda = "compare" /\ tilda' = "wait" =>
                     failed \/ \A b \in Changed : told[b] # buttonState[b]
<1>1. ASSUME ButtonsInv PROVE Once
  <2>1. CASE tilda = "compare" /\ ~failed
    <3>1. told = lastButtonState  BY <1>1, <2>1 DEF ButtonsInv, ToldInv
    <3> QED  BY <3>1 DEF Changed
  <2>2. CASE tilda # "compare" \/ failed  BY <2>2
  <2> QED  BY <2>1, <2>2
<1> QED  BY <1>1, ButtonsInvariant, PTL DEF ToldOnce

\* tildaThread is woken for a low line only after RELEASE_TICKS looks in a row
\* that saw it low, unless an edge came in the middle of the clock function.
THEOREM LowIsDebounced == Spec => Debounced
<1> DEFINE Low == ~event /\ event' /\ ~pdb.pressed =>
                    looks = [high |-> FALSE, n |-> RELEASE_TICKS] \/ raced
<1>1. ASSUME ButtonsInv, [Next]_vars PROVE Low
  <2>1. CASE TickNotify  BY <1>1, <2>1 DEF ButtonsInv, CountInv, TickNotify
  <2>2. CASE UNCHANGED event  BY <2>2
  <2>3. CASE Pend  BY <2>3 DEF Pend
  <2> QED
    BY <1>1, <2>1, <2>2, <2>3
    DEF Next, vars, Tick, TickLoad, TickPeriod, TickStop, TickLook, TickStore,
        TildaStep, Setup, ReadTCA, ReadTCAFails, Compare, Change
<1> QED  BY <1>1, ButtonsInvariant, PTL DEF Spec, Debounced
=============================================================================

------------------------- MODULE PeripheralsProofs -------------------------
(***************************************************************************)
(* Proofs about the devices of a program, for buffers, frames and ramps of *)
(* any length, any number of UART objects and any networks: the invariant  *)
(* of each device, then of all of them with the soft reset.                *)
(***************************************************************************)
EXTENDS Peripherals, TLAPS

-----------------------------------------------------------------------------
(* Sound *)

\* The driver starts silent.
LEMMA SoundStart == SoundInit => SoundTypeOK /\ SoundInv
<1> SUFFICES ASSUME SoundInit PROVE SoundTypeOK /\ SoundInv
  OBVIOUS
<1>1. SoundTypeOK
  <2>1. 0 \in 0..MaxBytes /\ 0 \in 0..(MaxBytes + MaxOffset) /\ 0 \in 0..(7 + HalfPeriod)
    BY SoundAssumption DEF SoundAssumption
  <2> QED
    BY <2>1 DEF SoundInit, SoundTypeOK
<1>2. SoundInv
  BY DEF SoundInit, SoundInv
<1> QED
  BY <1>1, <1>2

\* play() and the collection of its buffer keep the invariant of the sound.
LEMMA SoundCall ==
  ASSUME SoundTypeOK, SoundInv, SoundProgram
  PROVE  SoundTypeOK' /\ SoundInv'
<1> USE SoundAssumption DEF SoundAssumption, SoundTypeOK, SoundInv
<1>1. CASE PlayRefused
  BY <1>1 DEF PlayRefused, soundVars
<1>2. CASE PlayReturns
  BY <1>2 DEF PlayReturns
<1>3. CASE Collect
  BY <1>3 DEF Collect
<1>4. ASSUME NEW rate \in Rates, PlayBadDepth(rate)
      PROVE  SoundTypeOK' /\ SoundInv'
  BY <1>4 DEF PlayBadDepth, Rates, Flags
<1>5. ASSUME NEW rate \in Rates, NEW b \in 0..MaxBytes, NEW depth \in Depths,
             NEW waits \in BOOLEAN, Play(b, rate, depth, waits)
      PROVE  SoundTypeOK' /\ SoundInv'
  <2>1. /\ ui32Flags' \in SUBSET Flags
        /\ "PLAY" \in ui32Flags' /\ "SHUTDOWN" \notin ui32Flags'
        /\ "16BIT" \in ui32Flags' <=> depth = "16BIT"
    BY <1>5 DEF Play, Rates, Depths, Flags
  <2>2. ui32Length' \in 0..MaxBytes
    BY <1>5 DEF Play
  <2> QED
    BY <1>5, <2>1, <2>2 DEF Play
<1> QED
  BY <1>1, <1>2, <1>3, <1>4, <1>5 DEF SoundProgram

\* So does the PWM interrupt.
LEMMA SoundHandler ==
  ASSUME SoundTypeOK, SoundInv, SoundInterrupt
  PROVE  SoundTypeOK' /\ SoundInv'
<1> USE SoundAssumption DEF SoundAssumption, SoundTypeOK, SoundInv
<1>1. NextStep \in 0..7
  BY DEF NextStep
<1>2. CASE RampUp
  <2>1. ui32Flags' = ui32Flags \/ ui32Flags' = ui32Flags \ {"STARTUP"}
    BY <1>2 DEF RampUp
  <2>2. /\ ui32Flags' \in SUBSET Flags
        /\ \A f \in {"PLAY", "SHUTDOWN", "16BIT"} : f \in ui32Flags' <=> f \in ui32Flags
    BY <2>1
  <2>3. "PLAY" \in ui32Flags
    BY <1>2 DEF RampUp
  <2>4. i32Step' \in 0..(7 + HalfPeriod)
    BY <1>2 DEF RampUp
  <2> QED
    BY <1>2, <2>2, <2>3, <2>4 DEF RampUp
<1>3. CASE Interpolate
  BY <1>1, <1>3 DEF Interpolate
<1>4. CASE Fetch
  <2>1. /\ enabled /\ "SHUTDOWN" \notin ui32Flags /\ "PLAY" \in ui32Flags
        /\ ui32Length = 0 => ui32Offset < MaxOffset
        /\ ui32Offset' = NextOffset /\ played' = played + 1
        /\ UNCHANGED <<bytes, ui32Length, enabled, wait, alive>>
    BY <1>4 DEF Fetch, ReadSample, Sampling
  <2>2. CASE NextOffset = 0
    <3>1. ui32Flags' = {"SHUTDOWN"} /\ i32Step' = HalfPeriod
      BY <1>4, <2>2 DEF Fetch, ReadSample, SoundStop
    <3>2. ui32Offset + 1 = ui32Length
      BY <2>2 DEF NextOffset
    <3> QED
      BY <2>1, <2>2, <3>1, <3>2 DEF Flags
  <2>3. CASE NextOffset # 0
    <3>1. ui32Flags' = ui32Flags /\ i32Step' = 0
      BY <1>4, <2>3 DEF Fetch, ReadSample
    <3>2. NextOffset = ui32Offset + 1 /\ ui32Offset + 1 # ui32Length
      BY <2>3 DEF NextOffset
    <3> QED
      BY <2>1, <3>1, <3>2
  <2> QED
    BY <2>2, <2>3
<1>5. CASE RampDown
  <2>1. CASE i32Step = 1
    BY <1>5, <2>1 DEF RampDown
  <2>2. CASE i32Step # 1
    BY <1>5, <2>2 DEF RampDown
  <2> QED
    BY <2>1, <2>2
<1> QED
  BY <1>2, <1>3, <1>4, <1>5 DEF SoundInterrupt

\* The sample read next lies in the buffer.
LEMMA SoundInBuffer == SoundTypeOK /\ SoundInv => SoundReadsItsBuffer
<1> SUFFICES ASSUME SoundTypeOK, SoundInv, Sampling
             PROVE  /\ ui32Length = 0 \/ (ui32Offset + 1) * Width <= bytes
                    /\ wait => alive
  BY DEF SoundReadsItsBuffer
<1>1. "PLAY" \in ui32Flags
  BY DEF Sampling, SoundInv
<1>2. CASE "16BIT" \in ui32Flags
  BY <1>1, <1>2, SoundAssumption DEF SoundAssumption, SoundTypeOK, SoundInv, Width
<1>3. CASE "16BIT" \notin ui32Flags
  BY <1>1, <1>3, SoundAssumption DEF SoundAssumption, SoundTypeOK, SoundInv, Width
<1> QED
  BY <1>2, <1>3

-----------------------------------------------------------------------------
(* Neopixels *)

\* There is no block at first.
LEMMA NeopixStart == NeopixInit => NeopixTypeOK /\ NeopixInv
<1> SUFFICES ASSUME NeopixInit PROVE NeopixTypeOK /\ NeopixInv
  OBVIOUS
<1>1. NeopixTypeOK
  <2>1. 0 \in 0..(MaxPixels + 1)
    BY NeopixAssumption DEF NeopixAssumption
  <2>2. NULL \in [room : 0..(MaxPixels + 1), holds : Frames \cup {NoFrame}, is : BOOLEAN]
    BY <2>1 DEF NULL
  <2> QED
    BY <2>1, <2>2 DEF NeopixInit, NeopixTypeOK
<1>2. NeopixInv
  BY DEF NeopixInit, NeopixInv, DmaReadsItsFrame, NULL, NoFrame
<1> QED
  BY <1>1, <1>2

\* The calls of the program and the interrupt keep the invariant of the frames.
LEMMA NeopixKept ==
  ASSUME NeopixTypeOK, NeopixInv, NeopixProgram \/ NeopixCall \/ TransferDone
  PROVE  NeopixTypeOK' /\ NeopixInv'
<1> USE NeopixAssumption
    DEF NeopixAssumption, NeopixTypeOK, NeopixInv, DmaReadsItsFrame, dmaVars
<1>1. CASE NewNeopix
  BY <1>1 DEF NewNeopix
<1>2. CASE Destroy
  BY <1>2 DEF Destroy, NULL, NoFrame, Frames
<1>3. ASSUME NEW frame \in Frames, Display(frame)
      PROVE  NeopixTypeOK' /\ NeopixInv'
  BY <1>3 DEF Display
<1>4. CASE DisplayReady
  BY <1>4 DEF DisplayReady
<1>5. CASE Allocate
  <2>1. rgb.len \in 0..MaxPixels
    BY DEF Frames, NoFrame
  <2>2. CASE /\ frame_buffer_size < rgb.len + 1
             /\ frame_buffer' = Block(rgb.len + 1)
             /\ frame_buffer_size' = rgb.len + 1
             /\ display' = "fill"
    <3>1. /\ frame_buffer' \in [room : 0..(MaxPixels + 1), holds : Frames \cup {NoFrame},
                                is : BOOLEAN]
          /\ frame_buffer'.room = rgb.len + 1 /\ frame_buffer'.holds.len = 0
      BY <2>1, <2>2 DEF Block, NoFrame
    <3> QED
      BY <1>5, <2>1, <2>2, <3>1 DEF Allocate
  <2>3. CASE frame_buffer' = NULL /\ display' = "no" /\ UNCHANGED frame_buffer_size
    <3>1. /\ NULL \in [room : 0..(MaxPixels + 1), holds : Frames \cup {NoFrame}, is : BOOLEAN]
          /\ NULL.is = FALSE /\ NULL.room = 0 /\ NULL.holds.len = 0
      BY DEF NULL, NoFrame
    <3> QED
      BY <1>5, <2>3, <3>1 DEF Allocate
  <2>4. CASE /\ ~(frame_buffer_size < rgb.len + 1)
             /\ display' = "fill" /\ UNCHANGED <<frame_buffer, frame_buffer_size>>
    BY <1>5, <2>1, <2>4 DEF Allocate
  <2> QED
    BY <1>5, <2>2, <2>3, <2>4 DEF Allocate
<1>6. CASE Fill
  BY <1>6 DEF Fill, NoFrame, Frames
<1>7. CASE Start
  BY <1>7 DEF Start
<1>8. CASE TransferDone
  BY <1>8 DEF TransferDone
<1> QED
  BY <1>1, <1>2, <1>3, <1>4, <1>5, <1>6, <1>7, <1>8 DEF NeopixProgram, NeopixCall

-----------------------------------------------------------------------------
(* The drivers of machine *)

\* Every port is closed at first.
LEMMA DriversStart == DriversInit => DriversTypeOK /\ DriversInv
BY DEF DriversInit, DriversTypeOK, DriversInv, PortsAreReleased

\* The calls of the program keep the invariant of the ports,
LEMMA DriversCall ==
  ASSUME DriversTypeOK, DriversInv, DriversProgram
  PROVE  DriversTypeOK' /\ DriversInv'
<1> USE DEF DriversTypeOK, DriversInv, PortsAreReleased, Drivers, Tabled
<1>1. ASSUME NEW o \in Uarts, UartInit(o)
      PROVE  DriversTypeOK' /\ DriversInv'
  BY <1>1 DEF UartInit
<1>2. ASSUME NEW o \in Uarts, UartDeinit(o)
      PROVE  DriversTypeOK' /\ DriversInv'
  BY <1>2 DEF UartDeinit
<1>3. ASSUME NEW o \in Uarts, UartUse(o)
      PROVE  DriversTypeOK' /\ DriversInv'
  BY <1>3 DEF UartUse
<1>4. ASSUME NEW d \in Tabled, Reinit(d)
      PROVE  DriversTypeOK' /\ DriversInv'
  BY <1>4 DEF Reinit, Opened, NotOpened
<1>5. ASSUME NEW d \in Tabled, Construct(d)
      PROVE  DriversTypeOK' /\ DriversInv'
  BY <1>5 DEF Construct, Opened, NotOpened
<1>6. ASSUME NEW d \in Tabled, Use(d)
      PROVE  DriversTypeOK' /\ DriversInv'
  BY <1>6 DEF Use
<1> QED
  BY <1>1, <1>2, <1>3, <1>4, <1>5, <1>6 DEF DriversProgram

\* and so does the teardown, after which every port is closed.
LEMMA DriversTeardown ==
  ASSUME DriversTypeOK, DriversInv, Teardown
  PROVE  DriversTypeOK' /\ DriversInv' /\ open' = {}
BY DEF DriversTypeOK, DriversInv, PortsAreReleased, Teardown

-----------------------------------------------------------------------------
(* The station *)

\* Whatever policy and profiles the device has kept, no program has asked yet.
LEMMA StationStart == StationInit => StationTypeOK /\ StationInv
<1> SUFFICES ASSUME StationInit PROVE StationTypeOK /\ StationInv
  OBVIOUS
<1>1. StationTypeOK
  BY DEF StationInit, StationTypeOK, Roles
<1>2. ~(NoArgs \in Args)
  BY NetworksAssumption DEF NoArgs, Args
<1>3. StationInv
  BY <1>2, NetworksAssumption DEF StationInit, StationInv
<1> QED
  BY <1>1, <1>3

\* In each policy the device chooses among networks that were named.
LEMMA ChoiceIsNamed ==
  ASSUME StationTypeOK, policy = "auto" => profiles \subseteq named,
         policy = "fast" /\ last \in Networks => last \in named
  PROVE  OwnChoice \subseteq named
<1>1. CASE policy = "auto"
  BY <1>1 DEF OwnChoice
<1>2. CASE policy = "fast"
  BY <1>2 DEF OwnChoice
<1>3. CASE policy = "none"
  BY <1>3 DEF OwnChoice
<1> QED
  BY <1>1, <1>2, <1>3 DEF StationTypeOK

\* The station's invariant says what the device may choose by itself.
LEMMA StationAsAsked == StationTypeOK /\ StationInv => ConnectsAsAsked
<1> SUFFICES ASSUME StationTypeOK, StationInv, touched PROVE OwnChoice \subseteq named
  BY DEF StationInv, ConnectsAsAsked
<1>1. policy = "auto" => profiles \subseteq named
  BY DEF StationInv
<1>2. last \in Networks => last \in named
  BY DEF StationInv
<1> QED
  BY <1>1, <1>2, ChoiceIsNamed

\* Every command, every failure, every network joined and every power cut keeps
\* the invariant of the station.
LEMMA StationKept ==
  ASSUME StationTypeOK, StationInv, StationProgram \/ StationDevice
  PROVE  StationTypeOK' /\ StationInv'
<1>1. ASSUME UNCHANGED <<policy, profiles, last, touched, asked, named, args>>,
             joining' \in {joining, "none"},
             nwp' \in {"stopped"} \cup Roles, role' \in Roles,
             call' \in {"no", "start", "set mode", "stop", "restart", "ifconfig stop",
                       "ifconfig start"} \/ call' = call
      PROVE  StationTypeOK' /\ StationInv'
  <2>1. StationTypeOK'
    BY <1>1 DEF StationTypeOK
  <2>2. joining' \in Networks => joining' \in named
    BY <1>1, NetworksAssumption DEF StationInv
  <2> QED
    BY <1>1, <2>1, <2>2 DEF StationTypeOK, StationInv
<1>2. CASE \/ ActiveOn \/ ActiveOff \/ StartDevice \/ SetMode \/ StopDevice \/ Restart
           \/ ActiveFails \/ LeaveByCall \/ Ifconfig \/ IfconfigStop \/ IfconfigStart
           \/ DeviceStops
  <2> USE DEF StationTypeOK, Roles, kept, joined, history, StopForgets
  <2>1. CASE ActiveOn
    BY <1>1, <2>1 DEF ActiveOn
  <2>2. CASE ActiveOff
    BY <1>1, <2>2 DEF ActiveOff
  <2>3. CASE StartDevice
    BY <1>1, <2>3 DEF StartDevice
  <2>4. CASE SetMode
    BY <1>1, <2>4 DEF SetMode
  <2>5. CASE StopDevice
    BY <1>1, <2>5 DEF StopDevice
  <2>6. CASE Restart
    BY <1>1, <2>6 DEF Restart
  <2>7. CASE ActiveFails
    BY <1>1, <2>7 DEF ActiveFails
  <2>8. CASE Ifconfig
    BY <1>1, <2>8 DEF Ifconfig
  <2>9. CASE IfconfigStop
    BY <1>1, <2>9 DEF IfconfigStop
  <2>10. CASE IfconfigStart
    BY <1>1, <2>10 DEF IfconfigStart
  <2>11. CASE DeviceStops
    BY <1>1, <2>11 DEF DeviceStops
  <2>12. CASE LeaveByCall
    BY <1>1, <2>12 DEF LeaveByCall
  <2> QED
    BY <1>2, <2>1, <2>2, <2>3, <2>4, <2>5, <2>6, <2>7, <2>8, <2>9, <2>10, <2>11, <2>12
<1> USE DEF StationTypeOK, StationInv, kept, joined, history
<1>3. CASE StationPowerCycle
  BY <1>3, NetworksAssumption DEF StationPowerCycle, StopForgets, NoArgs, Args
<1>4. ASSUME NEW a \in Args, Connect(a)
      PROVE  StationTypeOK' /\ StationInv'
  BY <1>4 DEF Connect, Args
<1>5. CASE LeaveNetwork
  BY <1>5, NetworksAssumption DEF LeaveNetwork, Command
<1>6. CASE FirstPolicy
  BY <1>6 DEF FirstPolicy, Command
<1>7. CASE SetDhcp
  BY <1>7 DEF SetDhcp, Command
<1>8. CASE DeleteProfiles \/ AddProfile
  BY <1>8 DEF DeleteProfiles, AddProfile, Command, Args
<1>9. CASE LastPolicy
  <2>1. /\ call = "policy" /\ call' \in {"server", "connect"} /\ args' = args
        /\ policy' = IF args.autoconnect THEN "auto" ELSE "none"
        /\ UNCHANGED <<nwp, role, profiles, last, joining, touched, asked, named>>
    BY <1>9 DEF LastPolicy, Command
  <2>2. args.autoconnect => profiles = {args.ssid} /\ args.ssid \in asked
    BY <2>1
  <2>3. StationTypeOK'
    BY <2>1
  <2> QED
    BY <2>1, <2>2, <2>3
<1>13. CASE SetServer
  BY <1>13 DEF SetServer, Command, Args
<1>10. CASE StartConnecting
  <2>1. args \in Args /\ args.ssid \in Networks /\ args.ssid \in named
    BY <1>10 DEF StartConnecting, Command, Args
  <2>2. /\ call' = "no" /\ args' = NoArgs /\ joining' = args.ssid
        /\ UNCHANGED <<nwp, role, policy, profiles, last, touched, named>>
        /\ asked' = IF args.autoconnect THEN {args.ssid} ELSE {}
    BY <1>10 DEF StartConnecting, Command
  <2>3. IF args.autoconnect THEN profiles = {args.ssid} ELSE policy = "none"
    BY <1>10 DEF StartConnecting, Command
  <2>4. ~(NoArgs \in Args)
    BY NetworksAssumption DEF NoArgs, Args
  <2> QED
    BY <2>1, <2>2, <2>3, <2>4
<1>11. CASE ConnectFails
  BY <1>11, NetworksAssumption DEF ConnectFails, NoArgs, Args
<1>12. ASSUME NEW n \in Networks, DeviceJoins(n)
       PROVE  StationTypeOK' /\ StationInv'
  <2>1. touched => n \in named
    BY <1>12, StationAsAsked DEF DeviceJoins, ConnectsAsAsked
  <2>2. UNCHANGED <<nwp, role, policy, profiles, joining, call, args, touched, asked, named>>
        /\ last' = n
    BY <1>12 DEF DeviceJoins
  <2> QED
    BY <2>1, <2>2
<1> QED
  BY <1>2, <1>3, <1>4, <1>5, <1>6, <1>7, <1>8, <1>9, <1>10, <1>11, <1>12,
     <1>13
  DEF StationProgram, ConnectStep, StationDevice

-----------------------------------------------------------------------------
(* All of them, and the soft reset *)

\* A step of one device leaves the others alone.
LEMMA DevicesStep == DevicesInv /\ [Next]_vars => DevicesInv'
<1> SUFFICES ASSUME DevicesInv, [Next]_vars PROVE DevicesInv'
  OBVIOUS
<1> USE DEF DevicesInv, TypeOK
<1>1. UNCHANGED soundVars => SoundTypeOK' /\ SoundInv'
  BY DEF soundVars, SoundTypeOK, SoundInv
<1>2. UNCHANGED neopixVars => NeopixTypeOK' /\ NeopixInv'
  BY DEF neopixVars, NeopixTypeOK, NeopixInv, DmaReadsItsFrame
<1>3. UNCHANGED driversVars => DriversTypeOK' /\ DriversInv'
  BY DEF driversVars, DriversTypeOK, DriversInv, PortsAreReleased
<1>4. UNCHANGED stationVars => StationTypeOK' /\ StationInv'
  <2>1. UNCHANGED stationVars => StationTypeOK'
    BY DEF stationVars, StationTypeOK
  <2>2. ASSUME UNCHANGED stationVars PROVE StationInv'
    <3>1. UNCHANGED <<policy, profiles, last, joining, call, args, touched, asked, named>>
      BY <2>2 DEF stationVars
    <3>2. (touched /\ policy = "auto" => \E n \in asked : profiles = {n})'
      BY <3>1 DEF StationInv
    <3> QED
      BY <3>1, <3>2 DEF StationInv
  <2> QED
    BY <2>1, <2>2
<1>5. CASE PlayStep \/ PwmInterrupt
  BY <1>2, <1>3, <1>4, <1>5, SoundCall, SoundHandler DEF PlayStep, PwmInterrupt
<1>6. CASE NeopixStep \/ TimerInterrupt
  BY <1>1, <1>3, <1>4, <1>6, NeopixKept DEF NeopixStep, TimerInterrupt
<1>7. CASE DriversStep
  BY <1>1, <1>2, <1>4, <1>7, DriversCall DEF DriversStep
<1>8. CASE StationStep
  BY <1>1, <1>2, <1>3, <1>8, StationKept DEF StationStep
<1>9. CASE SoftReset
  <2>1. SoundTypeOK' /\ SoundInv'
    BY <1>9 DEF SoftReset, InNoCall, SoundTypeOK, SoundInv
  <2> QED
    BY <1>2, <1>4, <1>9, <2>1, DriversTeardown DEF SoftReset
<1>10. CASE UNCHANGED vars
  BY <1>1, <1>2, <1>3, <1>4, <1>10 DEF vars
<1> QED
  BY <1>5, <1>6, <1>7, <1>8, <1>9, <1>10 DEF Next

\* DevicesInv holds at every moment of every program and across soft resets.
THEOREM DevicesInvariant == Spec => []DevicesInv
<1>1. Init => DevicesInv
  BY SoundStart, NeopixStart, DriversStart, StationStart DEF Init, DevicesInv, TypeOK
<1> QED
  BY <1>1, DevicesStep, PTL DEF Spec

\* The PWM interrupt reads samples of its buffer only, the DMA channel the frame
\* it was given (sound.c, neopix.c).
THEOREM HardwareReadsItsOwn == Spec => []MemoryIsOwned
<1>1. DevicesInv => MemoryIsOwned
  BY SoundInBuffer DEF DevicesInv, TypeOK, NeopixInv, MemoryIsOwned
<1> QED
  BY DevicesInvariant, <1>1, PTL

\* When the driver is ready again, or a play() that waits returns, every sample
\* has been read once.
THEOREM EverySamplePlayed == Spec => WholeSoundPlayed
<1>1. DevicesInv /\ [Next]_vars =>
        [(ui32Flags # {} /\ ui32Flags' = {}) \/ (wait /\ ~wait') => played = ui32Length]_soundVars
  <2> SUFFICES ASSUME DevicesInv, [Next]_vars,
                      (ui32Flags # {} /\ ui32Flags' = {}) \/ (wait /\ ~wait')
               PROVE  played = ui32Length
    OBVIOUS
  <2> USE DEF DevicesInv, TypeOK, SoundTypeOK, SoundInv
  <2>1. CASE UNCHANGED <<ui32Flags, wait>>
    BY <2>1
  <2>2. CASE SoundProgram
    BY <2>2 DEF SoundProgram, PlayRefused, PlayReturns, Collect, PlayBadDepth, Play, soundVars
  <2>3. CASE SoundInterrupt
    <3>1. RampDown
      BY <2>3 DEF SoundInterrupt, RampUp, Interpolate, Fetch, ReadSample, SoundStop
    <3> QED
      BY <3>1 DEF RampDown
  <2> QED
    BY <2>1, <2>2, <2>3
       DEF Next, PlayStep, NeopixStep, DriversStep, StationStep, SoftReset, PwmInterrupt,
           TimerInterrupt, vars, soundVars
<1> QED
  BY DevicesInvariant, <1>1, PTL DEF Spec, WholeSoundPlayed

\* A port is open exactly when its table says so, but for the UART after a
\* deinit(): the teardown leaves none open (machine_teardown).
THEOREM PortsReleased == Spec => []PortsAreReleased
<1>1. DevicesInv => PortsAreReleased
  BY DEF DevicesInv, DriversInv
<1> QED
  BY DevicesInvariant, <1>1, PTL

\* Whichever command of connect() failed and whenever power was lost
\* (network_stalan.c), a device that uses its profiles by itself has the one it
\* was asked for, and one in fast connect goes back to a network that was named
\* to a connect() or that it was on when the first of them set the policy.
THEOREM AsksAreKept == Spec => []ConnectsAsAsked
<1>1. DevicesInv => ConnectsAsAsked
  BY StationAsAsked DEF DevicesInv, TypeOK
<1> QED
  BY DevicesInvariant, <1>1, PTL
=============================================================================

------------------------------ MODULE CdcSerial ------------------------------
(***************************************************************************)
(* The USB serial port: CDCD.c, as the MicroPython console uses it         *)
(* (mp_hal_stdin_rx_chr and mp_hal_stdout_tx_strn of mpmain-emf.c).        *)
(*                                                                         *)
(* The handlers run in the USB interrupt, between any two steps of the     *)
(* console's thread.  Three binary semaphores go from them to the thread;  *)
(* the two buffers are usblib's USBBuffer, whose operations are taken to   *)
(* be atomic.  A byte stays in the transmit buffer until the host has      *)
(* taken its packet.  A timeout may end any wait that finds no token.      *)
(***************************************************************************)
EXTENDS Integers, Sequences

CONSTANTS
  Chars,      \* what the host types
  CAPACITY,   \* bytes a buffer holds: 127
  PACKET,     \* bytes of a packet at most: 64
  MAX_TEXT    \* the longest text, longer than a buffer

CdcAssumption ==
  /\ CAPACITY \in Nat \ {0}
  /\ PACKET \in Nat \ {0}
  /\ MAX_TEXT \in Nat
  /\ Chars \subseteq Nat \ {0}

ASSUME CdcAssumption

VARIABLES
  state,      \* CDCD_STATE_IDLE or CDCD_STATE_UNCONFIGURED
  txBuf, rxBuf,
  packet,     \* how many bytes of txBuf the controller is sending
  connected, rxAvail, txComplete,   \* the semaphores
  at,         \* where the console's thread is
  length, bufferedCount, sendCount, \* of txData
  result,     \* what the last call gave back: a count, or the byte read
  cleared     \* history: a connection emptied txBuf since the thread looked at it

hostVars == <<state, rxBuf, packet, connected, rxAvail, cleared>>
threadVars == <<at, length, bufferedCount, sendCount, result>>
vars == <<hostVars, txBuf, txComplete, threadVars>>

Init ==
  /\ state = "unconfigured"
  /\ txBuf = <<>>
  /\ rxBuf = <<>>
  /\ packet = 0
  /\ connected = 0
  /\ rxAvail = 0
  /\ txComplete = 0
  /\ at = "console"
  /\ length = 0
  /\ bufferedCount = 0
  /\ sendCount = 0
  /\ result = 0
  /\ cleared = FALSE

SpaceAvailable == CAPACITY - Len(txBuf)

\* The next packet of the bytes `buf`: usblib sends what lies together in the
\* ring, one packet at a time, when the port is connected.
Packets(buf) ==
  IF buf = <<>> THEN {0} ELSE {k \in 1..PACKET : k <= Len(buf)}

-----------------------------------------------------------------------------
(* The USB interrupt *)

\* handleCDC: the host has configured the port, for the first time or again.
Connect ==
  /\ state' = "idle"
  /\ rxBuf' = <<>>
  /\ txBuf' = <<>>
  /\ packet' = 0
  /\ cleared' = TRUE
  /\ connected' = 1
  /\ UNCHANGED <<rxAvail, txComplete, threadVars>>

\* Variant: the token of the connection stays.
DisconnectKeepsToken ==
  /\ state = "idle"
  /\ state' = "unconfigured"
  /\ UNCHANGED <<connected, txBuf, rxBuf, packet, rxAvail, txComplete, cleared, threadVars>>

\* It takes the token back that nobody waited for.
Disconnect ==
  /\ state = "idle"
  /\ state' = "unconfigured"
  /\ connected' = 0
  /\ UNCHANGED <<txBuf, rxBuf, packet, rxAvail, txComplete, cleared, threadVars>>

\* handleRx: bytes came; the host waits while the buffer is full.
Receive(c) ==
  /\ state = "idle"
  /\ Len(rxBuf) < CAPACITY
  /\ rxBuf' = Append(rxBuf, c)
  /\ rxAvail' = 1
  /\ UNCHANGED <<state, txBuf, packet, connected, txComplete, cleared, threadVars>>

\* Variant: nobody is told.
TakenSilent ==
  /\ state = "idle"
  /\ packet > 0
  /\ LET rest == SubSeq(txBuf, packet + 1, Len(txBuf))
     IN txBuf' = rest /\ packet' \in Packets(rest)
  /\ UNCHANGED <<state, rxBuf, connected, rxAvail, cleared, txComplete, threadVars>>

\* handleTx: the host took the packet, and the next one is under way.
Taken ==
  /\ state = "idle"
  /\ packet > 0
  /\ LET rest == SubSeq(txBuf, packet + 1, Len(txBuf))
     IN txBuf' = rest /\ packet' \in Packets(rest)
  /\ txComplete' = 1
  /\ UNCHANGED <<state, rxBuf, connected, rxAvail, cleared, threadVars>>

Interrupt == Connect \/ Disconnect \/ Taken \/ \E c \in Chars : Receive(c)

-----------------------------------------------------------------------------
(* CDCD_sendData, with a timeout of 1 *)

Thread(here, next) ==
  /\ at = here
  /\ at' = next

Send(n) ==
  /\ Thread("console", "send")
  /\ length' = n
  /\ bufferedCount' = 0
  /\ UNCHANGED <<hostVars, txBuf, txComplete, sendCount, result>>

\* The state is looked at,
SendState ==
  /\ Thread("send", IF state = "idle" THEN "loop" ELSE "connect")
  /\ UNCHANGED <<hostVars, txBuf, txComplete, length, bufferedCount, sendCount, result>>

\* and the connection waited for: CDCD_waitForConnect.
SendConnected ==
  /\ Thread("connect", "loop")
  /\ connected = 1
  /\ connected' = 0
  /\ UNCHANGED <<state, rxBuf, packet, rxAvail, cleared, txBuf, txComplete,
                 length, bufferedCount, sendCount, result>>

Returned(value) ==
  /\ result' = value
  /\ length' = 0
  /\ bufferedCount' = 0
  /\ sendCount' = 0
  /\ UNCHANGED <<hostVars, txBuf, txComplete>>

SendUnconnected ==
  /\ Thread("connect", "console")
  /\ connected = 0
  /\ Returned(0)

\* Variant: as much is sent as there is space for.
TxSpaceAll ==
  /\ Thread("loop", "write")
  /\ bufferedCount # length
  /\ sendCount' = SpaceAvailable
  /\ cleared' = FALSE
  /\ UNCHANGED <<state, rxBuf, packet, connected, rxAvail, txBuf, txComplete,
                 length, bufferedCount, result>>

\* txData looks for space until all is buffered;
TxSpace ==
  /\ Thread("loop", "write")
  /\ bufferedCount # length
  /\ sendCount' = IF length - bufferedCount > SpaceAvailable
                  THEN SpaceAvailable ELSE length - bufferedCount
  /\ cleared' = FALSE
  /\ UNCHANGED <<state, rxBuf, packet, connected, rxAvail, txBuf, txComplete,
                 length, bufferedCount, result>>

TxDone ==
  /\ Thread("loop", "console")
  /\ bufferedCount = length
  /\ Returned(bufferedCount)

Piece(first, k) == [i \in 1..k |-> first + i]

\* Variant: the pointer is not adjusted to what was sent.
TxWriteFromStart ==
  /\ Thread("write", "pend")
  /\ txBuf' = txBuf \o Piece(0, sendCount)
  /\ bufferedCount' = bufferedCount + sendCount
  /\ packet' \in IF packet = 0 /\ state = "idle" THEN Packets(txBuf') ELSE {packet}
  /\ UNCHANGED <<state, rxBuf, connected, rxAvail, cleared, txComplete,
                 length, sendCount, result>>

\* writes what fits (the interrupt only makes more room), of which usblib starts
\* to send a packet;
TxWrite ==
  /\ Thread("write", "pend")
  /\ txBuf' = txBuf \o Piece(bufferedCount, sendCount)
  /\ bufferedCount' = bufferedCount + sendCount
  /\ packet' \in IF packet = 0 /\ state = "idle" THEN Packets(txBuf') ELSE {packet}
  /\ UNCHANGED <<state, rxBuf, connected, rxAvail, cleared, txComplete,
                 length, sendCount, result>>

\* and waits for a packet to be taken,
TxPend ==
  /\ Thread("pend", "loop")
  /\ txComplete = 1
  /\ txComplete' = 0
  /\ UNCHANGED <<hostVars, txBuf, length, bufferedCount, sendCount, result>>

\* Variant: it tries again for ever.
TxTimeoutRetries ==
  /\ Thread("pend", "loop")
  /\ txComplete = 0
  /\ UNCHANGED <<hostVars, txBuf, txComplete, length, bufferedCount, sendCount, result>>

\* or gives up: the console drops the rest of the text.
TxTimeout ==
  /\ Thread("pend", "console")
  /\ txComplete = 0
  /\ Returned(bufferedCount)

-----------------------------------------------------------------------------
(* CDCD_receiveData of one byte, with a timeout of 0 *)

Poll ==
  /\ Thread("console", "receive")
  /\ UNCHANGED <<hostVars, txBuf, txComplete, length, bufferedCount, sendCount, result>>

RxState ==
  /\ Thread("receive", IF state = "idle" THEN "avail" ELSE "reconnect")
  /\ UNCHANGED <<hostVars, txBuf, txComplete, length, bufferedCount, sendCount, result>>

RxConnected ==
  /\ Thread("reconnect", "avail")
  /\ connected = 1
  /\ connected' = 0
  /\ UNCHANGED <<state, rxBuf, packet, rxAvail, cleared, txBuf, txComplete,
                 length, bufferedCount, sendCount, result>>

RxUnconnected ==
  /\ Thread("reconnect", "console")
  /\ connected = 0
  /\ Returned(0)

\* rxData: a byte is there, or a token says so that may be of an earlier one,
RxAvail ==
  /\ Thread("avail", "read")
  /\ rxBuf # <<>> \/ rxAvail = 1
  /\ rxAvail' = IF rxBuf = <<>> THEN 0 ELSE rxAvail
  /\ UNCHANGED <<state, rxBuf, packet, connected, cleared, txBuf, txComplete,
                 length, bufferedCount, sendCount, result>>

RxNothing ==
  /\ Thread("avail", "console")
  /\ rxBuf = <<>> /\ rxAvail = 0
  /\ Returned(0)

\* and is read, if it is still there.
RxRead ==
  /\ Thread("read", "console")
  /\ IF rxBuf = <<>>
     THEN result' = 0 /\ UNCHANGED rxBuf
     ELSE result' = Head(rxBuf) /\ rxBuf' = Tail(rxBuf)
  /\ UNCHANGED <<state, packet, connected, rxAvail, cleared, txBuf, txComplete,
                 length, bufferedCount, sendCount>>

-----------------------------------------------------------------------------
InCall ==
  \/ SendState \/ SendConnected \/ SendUnconnected
  \/ TxSpace \/ TxDone \/ TxWrite \/ TxPend \/ TxTimeout
  \/ RxState \/ RxConnected \/ RxUnconnected \/ RxAvail \/ RxNothing \/ RxRead

Next == Interrupt \/ InCall \/ Poll \/ \E n \in 0..MAX_TEXT : Send(n)

Spec == Init /\ [][Next]_vars

\* The thread runs while the USB interrupt does not: no step of a call waits
\* longer than its timeout.
FairSpec == Spec /\ WF_vars(InCall)

-----------------------------------------------------------------------------
(* Properties *)

Sending == at \in {"send", "connect", "loop", "write", "pend"}

\* The type of the state.
TypeOK ==
  /\ state \in {"idle", "unconfigured"}
  /\ txBuf \in Seq(1..MAX_TEXT) /\ Len(txBuf) <= CAPACITY
  /\ rxBuf \in Seq(Chars) /\ Len(rxBuf) <= CAPACITY
  /\ packet \in 0..PACKET /\ packet <= Len(txBuf)
  /\ connected \in {0, 1} /\ rxAvail \in {0, 1} /\ txComplete \in {0, 1}
  /\ at \in {"console", "send", "connect", "loop", "write", "pend",
             "receive", "reconnect", "avail", "read"}
  /\ length \in 0..MAX_TEXT
  /\ bufferedCount \in 0..length
  /\ sendCount \in 0..CAPACITY
  /\ result \in Chars \cup 0..MAX_TEXT
  /\ cleared \in BOOLEAN

\* The token of a connection is there only while the port is connected, so
\* that an unplugged port is never taken for a connected one; and a thread that
\* saw the port unconnected finds the token of the connection it missed.
ConnectedToken ==
  /\ connected = 1 => state = "idle"
  /\ at \in {"connect", "reconnect"} /\ state = "idle" => connected = 1

\* The rest of a text is dropped only when the buffer is full and the host
\* took nothing for the time of the wait, or a connection came in the middle.
GivesUpOnlyWhenFull ==
  [][at = "pend" /\ at' = "console" /\ bufferedCount < length =>
       SpaceAvailable = 0 \/ cleared]_vars

\* The port keeps what SerialLine promises: prefixes, in order, nothing of an
\* earlier connection, and calls that return.
Line == INSTANCE SerialLine WITH
  up <- state = "idle",
  line <- txBuf,
  input <- rxBuf,
  call <- [on |-> Sending, length |-> length, done |-> bufferedCount]

LineSpec == Line!Spec

\* What of it is safety
LineSteps == Line!Init /\ [][Line!Next]_(Line!vars)

-----------------------------------------------------------------------------
(* Why they hold *)

\* txData's variables mean something only in a call.
CallInv ==
  /\ ~Sending => length = 0 /\ bufferedCount = 0
  /\ at \in {"send", "connect"} => bufferedCount = 0

\* The space txData saw is still there when it writes; what is still to be sent
\* afterwards found the buffer full, or a packet has been taken or a connection
\* has come since it looked.
SpaceInv ==
  /\ at = "write" =>
       /\ bufferedCount + sendCount <= length
       /\ Len(txBuf) + sendCount <= CAPACITY
       /\ \/ txComplete = 1 \/ cleared
          \/ bufferedCount + sendCount = length
          \/ Len(txBuf) + sendCount = CAPACITY
  /\ at = "pend" =>
       txComplete = 1 \/ cleared \/ bufferedCount = length \/ Len(txBuf) = CAPACITY

\* The inductive invariant
SerialInv == TypeOK /\ ConnectedToken /\ CallInv /\ SpaceInv
=============================================================================

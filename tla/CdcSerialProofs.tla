-------------------------- MODULE CdcSerialProofs --------------------------
(***************************************************************************)
(* Proofs about the USB serial port, for buffers and packets of any size,  *)
(* texts of any length and any characters: SerialInv is inductive, the     *)
(* rest of a text is dropped only when it has to be, and the steps of the  *)
(* port are steps of SerialLine.                                           *)
(***************************************************************************)
EXTENDS CdcSerial, TLAPS

-----------------------------------------------------------------------------
(* Sequences *)

\* What is left after a packet (USBBuffer's handler) is a shorter buffer.
LEMMA RestType ==
  ASSUME NEW S, NEW buf \in Seq(S), NEW k \in Nat, k <= Len(buf)
  PROVE  /\ SubSeq(buf, k + 1, Len(buf)) \in Seq(S)
         /\ Len(SubSeq(buf, k + 1, Len(buf))) = Len(buf) - k
OBVIOUS

\* A buffer and what is appended to it (USBBufferWrite)
LEMMA ConcatType ==
  ASSUME NEW S, NEW a \in Seq(S), NEW b \in Seq(S)
  PROVE  a \o b \in Seq(S) /\ Len(a \o b) = Len(a) + Len(b)
OBVIOUS

\* A piece of a text of `total` bytes holds bytes of the text.
LEMMA PieceType ==
  ASSUME NEW first \in Nat, NEW k \in Nat, NEW total \in Nat, first + k <= total
  PROVE  Piece(first, k) \in Seq(1..total) /\ Len(Piece(first, k)) = k
BY DEF Piece

\* usblib's next packet is no longer than what is buffered.
LEMMA PacketType ==
  ASSUME NEW buf \in Seq(1..MAX_TEXT), NEW p \in Packets(buf)
  PROVE  p \in 0..PACKET /\ p <= Len(buf)
BY CdcAssumption DEF CdcAssumption, Packets

-----------------------------------------------------------------------------
(* The invariant *)

\* The port starts unconfigured, with empty buffers and no token.
LEMMA SerialInit == Init => SerialInv
<1> SUFFICES ASSUME Init PROVE SerialInv
  OBVIOUS
<1> USE CdcAssumption DEF CdcAssumption, Init
<1>1. txBuf \in Seq(1..MAX_TEXT) /\ rxBuf \in Seq(Chars) /\ Len(txBuf) = 0 /\ Len(rxBuf) = 0
  OBVIOUS
<1>2. packet \in 0..PACKET /\ packet <= Len(txBuf) /\ Len(txBuf) <= CAPACITY /\ Len(rxBuf) <= CAPACITY
  BY <1>1
<1>3. TypeOK
  <2>1. /\ state \in {"idle", "unconfigured"} /\ at = "console" /\ cleared \in BOOLEAN
        /\ connected \in {0, 1} /\ rxAvail \in {0, 1} /\ txComplete \in {0, 1}
    OBVIOUS
  <2>2. length \in 0..MAX_TEXT /\ bufferedCount \in 0..length /\ sendCount \in 0..CAPACITY
    OBVIOUS
  <2>3. result \in Chars \cup 0..MAX_TEXT
    OBVIOUS
  <2> HIDE DEF Init
  <2> QED
    BY <1>1, <1>2, <2>1, <2>2, <2>3 DEF TypeOK
<1> QED
  BY <1>3 DEF SerialInv, ConnectedToken, CallInv, SpaceInv, Sending

\* The USB interrupt keeps it, wherever the console's thread is.
LEMMA SerialInterrupt ==
  ASSUME SerialInv, Interrupt
  PROVE  SerialInv'
<1> USE CdcAssumption
    DEF CdcAssumption, SerialInv, TypeOK, ConnectedToken, CallInv, SpaceInv, Sending, threadVars
<1>1. CASE Connect
  BY <1>1 DEF Connect
<1>2. CASE Disconnect
  BY <1>2 DEF Disconnect
<1>3. CASE Taken
  <2> DEFINE rest == SubSeq(txBuf, packet + 1, Len(txBuf))
  <2>1. rest \in Seq(1..MAX_TEXT) /\ Len(rest) = Len(txBuf) - packet
    BY RestType
  <2>2. txBuf' = rest /\ packet' \in Packets(rest) /\ txComplete' = 1
    BY <1>3 DEF Taken
  <2>3. packet' \in 0..PACKET /\ packet' <= Len(rest)
    BY <2>1, <2>2, PacketType
  <2>4. Len(txBuf) \in Nat /\ packet \in Nat
    OBVIOUS
  <2>5. TypeOK'
    <3>1. UNCHANGED <<state, rxBuf, connected, rxAvail, cleared, threadVars>>
      BY <1>3 DEF Taken
    <3>2. packet' \in 0..PACKET /\ packet' <= Len(txBuf') /\ Len(txBuf') <= CAPACITY
      BY <2>1, <2>2, <2>3, <2>4
    <3> HIDE DEF rest
    <3> QED
      BY <2>1, <2>2, <3>1, <3>2
  <2> HIDE DEF rest, SerialInv
  <2> HIDE DEF TypeOK
  <2>6. ConnectedToken' /\ CallInv'
    BY <1>3 DEF Taken, SerialInv
  <2>7. SpaceInv'
    BY <1>3, <2>1, <2>2, <2>4 DEF Taken, SerialInv, TypeOK
  <2> QED
    BY <2>5, <2>6, <2>7 DEF SerialInv
<1>4. ASSUME NEW c \in Chars, Receive(c)
      PROVE  SerialInv'
  BY <1>4 DEF Receive
<1> QED
  BY <1>1, <1>2, <1>3, <1>4 DEF Interrupt

\* So does every step of a call.
LEMMA SerialCall ==
  ASSUME SerialInv, InCall
  PROVE  SerialInv'
<1> USE CdcAssumption
    DEF CdcAssumption, SerialInv, TypeOK, ConnectedToken, CallInv, SpaceInv, Sending, hostVars,
        Thread, SpaceAvailable
<1>1. CASE SendState \/ SendConnected
  BY <1>1 DEF SendState, SendConnected
<1>2. CASE SendUnconnected \/ TxDone \/ TxTimeout
  <2>1. at' = "console" /\ (Returned(0) \/ Returned(bufferedCount))
    BY <1>2 DEF SendUnconnected, TxDone, TxTimeout
  <2> QED
    BY <2>1 DEF Returned
<1>3. CASE TxSpace
  <2>1. Len(txBuf) \in 0..CAPACITY
    OBVIOUS
  <2>2. /\ sendCount' \in 0..CAPACITY /\ Len(txBuf) + sendCount' <= CAPACITY
        /\ bufferedCount + sendCount' <= length
        /\ bufferedCount + sendCount' = length \/ Len(txBuf) + sendCount' = CAPACITY
    BY <1>3, <2>1 DEF TxSpace
  <2> QED
    BY <1>3, <2>2 DEF TxSpace
<1>4. CASE TxWrite
  <2> DEFINE piece == Piece(bufferedCount, sendCount)
  <2>1. piece \in Seq(1..MAX_TEXT) /\ Len(piece) = sendCount
    <3>1. /\ bufferedCount \in Nat /\ sendCount \in Nat /\ length \in Nat
          /\ bufferedCount + sendCount <= MAX_TEXT
      BY <1>4 DEF TxWrite
    <3> QED
      BY <3>1, PieceType
  <2>2. /\ txBuf \in Seq(1..MAX_TEXT) /\ Len(txBuf) + sendCount <= CAPACITY
        /\ bufferedCount + sendCount <= length
        /\ \/ txComplete = 1 \/ cleared
           \/ bufferedCount + sendCount = length
           \/ Len(txBuf) + sendCount = CAPACITY
    BY <1>4 DEF TxWrite
  <2>3. txBuf' = txBuf \o piece
    BY <1>4 DEF TxWrite
  <2> HIDE DEF piece, SerialInv, TypeOK, SpaceInv
  <2>4. txBuf' \in Seq(1..MAX_TEXT) /\ Len(txBuf') = Len(txBuf) + sendCount
    BY <2>1, <2>2, <2>3, ConcatType
  <2>5. packet' \in 0..PACKET /\ packet' <= Len(txBuf')
    <3>1. packet' \in Packets(txBuf') \/ packet' = packet
      BY <1>4 DEF TxWrite
    <3> HIDE DEF CallInv, ConnectedToken
    <3>2. packet \in 0..PACKET /\ packet <= Len(txBuf) /\ sendCount \in Nat /\ Len(txBuf) \in Nat
      BY DEF SerialInv, TypeOK
    <3> QED
      BY <2>4, <3>1, <3>2, PacketType
  <2>6. TypeOK'
    BY <1>4, <2>2, <2>4, <2>5 DEF TxWrite, SerialInv, TypeOK
  <2>7. SpaceInv'
    BY <1>4, <2>2, <2>4 DEF TxWrite, SpaceInv
  <2> QED
    BY <1>4, <2>6, <2>7 DEF TxWrite, SerialInv
<1>5. CASE TxPend
  BY <1>5 DEF TxPend
<1>6. CASE RxState \/ RxConnected \/ RxAvail
  BY <1>6 DEF RxState, RxConnected, RxAvail
<1>7. CASE RxUnconnected \/ RxNothing
  BY <1>7 DEF RxUnconnected, RxNothing, Returned
<1>8. CASE RxRead
  <2>1. CASE rxBuf = <<>>
    BY <1>8, <2>1 DEF RxRead
  <2>2. CASE rxBuf # <<>>
    <3>1. /\ Head(rxBuf) \in Chars /\ Tail(rxBuf) \in Seq(Chars)
          /\ Len(Tail(rxBuf)) <= CAPACITY
      BY <2>2
    <3>2. result' \in Chars /\ rxBuf' \in Seq(Chars) /\ Len(rxBuf') <= CAPACITY
      BY <1>8, <2>2, <3>1 DEF RxRead
    <3> QED
      BY <1>8, <3>2 DEF RxRead
  <2> QED
    BY <2>1, <2>2
<1> QED
  BY <1>1, <1>2, <1>3, <1>4, <1>5, <1>6, <1>7, <1>8 DEF InCall

\* Every step keeps it.
LEMMA SerialStep == SerialInv /\ [Next]_vars => SerialInv'
<1> SUFFICES ASSUME SerialInv, [Next]_vars PROVE SerialInv'
  OBVIOUS
<1>1. CASE Poll \/ \E n \in 0..MAX_TEXT : Send(n)
  BY <1>1, CdcAssumption
     DEF CdcAssumption, Poll, Send, Thread, hostVars, SerialInv, TypeOK, ConnectedToken, CallInv,
         SpaceInv, Sending
<1>2. CASE UNCHANGED vars
  BY <1>2 DEF vars, hostVars, threadVars, SerialInv, TypeOK, ConnectedToken, CallInv, SpaceInv,
              Sending, SpaceAvailable
<1> QED
  BY <1>1, <1>2, SerialInterrupt, SerialCall DEF Next

\* Types, tokens, the variables of a call and the space a write finds: SerialInv
\* holds at every moment, whatever the host does.
THEOREM SerialInvariant == Spec => []SerialInv
BY SerialInit, SerialStep, PTL DEF Spec

\* An unplugged port is never taken for a connected one, and the token of a
\* connection that came between the look and the wait is there
\* (CDCD_waitForConnect).
THEOREM TokenIsRight == Spec => []ConnectedToken
<1>1. SerialInv => ConnectedToken
  BY DEF SerialInv
<1> QED
  BY SerialInvariant, <1>1, PTL

\* txData drops the rest of a text only when the buffer stayed full for the
\* time of the wait, or a connection emptied it in the middle.
THEOREM DropsOnlyWhenFull == Spec => GivesUpOnlyWhenFull
<1>1. SerialInv /\ [Next]_vars =>
        [at = "pend" /\ at' = "console" /\ bufferedCount < length =>
           SpaceAvailable = 0 \/ cleared]_vars
  <2> SUFFICES ASSUME SerialInv, Next, at = "pend", at' = "console", bufferedCount < length
               PROVE  SpaceAvailable = 0 \/ cleared
    BY DEF vars
  <2>1. TxTimeout
    BY DEF Next, Interrupt, InCall, Connect, Disconnect, Taken, Receive, Poll, Send, Thread,
           SendState, SendConnected, SendUnconnected, TxSpace, TxDone, TxWrite, TxPend,
           RxState, RxConnected, RxUnconnected, RxAvail, RxNothing, RxRead, threadVars
  <2> QED
    BY <2>1, CdcAssumption
       DEF CdcAssumption, TxTimeout, SerialInv, SpaceInv, TypeOK, SpaceAvailable
<1> QED
  BY SerialInvariant, <1>1, PTL DEF Spec, GivesUpOnlyWhenFull

-----------------------------------------------------------------------------
(* The steps of the port are steps of SerialLine. *)

\* The port starts as two empty queues and no call.
LEMMA LineInit == Init => Line!Init
<1> SUFFICES ASSUME Init PROVE Line!Init
  OBVIOUS
<1>1. (state = "idle") = FALSE
  BY DEF Init
<1>2. Sending = FALSE
  BY DEF Init, Sending
<1>3. [on |-> Sending, length |-> length, done |-> bufferedCount] = Line!NoCall
  BY <1>2 DEF Init, Line!NoCall
<1> QED
  BY <1>1, <1>3 DEF Init, Line!Init

\* What the interrupt does is the host's side of SerialLine: a connection, its
\* end, bytes that leave one queue and enter the other.
LEMMA LineInterrupt ==
  ASSUME SerialInv, Interrupt
  PROVE  Line!Next
<1> USE DEF threadVars, Sending
<1>1. CASE Connect
  BY <1>1 DEF Connect, Line!Connect, Line!Next
<1>2. CASE Disconnect
  BY <1>2 DEF Disconnect, Line!Disconnect, Line!Next
<1>3. CASE Taken
  <2>1. packet \in 1..Len(txBuf)
    BY <1>3, CdcAssumption DEF CdcAssumption, Taken, SerialInv, TypeOK
  <2>2. Line!Deliver(packet)
    BY <1>3 DEF Taken, Line!Deliver
  <2> QED
    BY <2>1, <2>2 DEF Line!Next
<1>4. ASSUME NEW c \in Chars, Receive(c)
      PROVE  Line!Next
  <2>1. Line!Type(c)
    BY <1>4 DEF Receive, Line!Type
  <2> QED
    BY <2>1 DEF Line!Next
<1> QED
  BY <1>1, <1>2, <1>3, <1>4 DEF Interrupt

\* A piece is put by TxWrite; nothing is put when there was no space.
LEMMA LineCall ==
  ASSUME SerialInv, InCall
  PROVE  Line!Next \/ UNCHANGED Line!vars
<1> USE DEF SerialInv, CallInv, hostVars, Thread, Sending
<1>1. CASE SendState \/ SendConnected \/ TxSpace \/ TxPend
  BY <1>1 DEF SendState, SendConnected, TxSpace, TxPend, Line!vars
<1>2. CASE SendUnconnected \/ TxDone \/ TxTimeout
  <2>1. /\ Sending /\ result' = bufferedCount
        /\ Sending' = FALSE /\ length' = 0 /\ bufferedCount' = 0
        /\ UNCHANGED <<state, txBuf, rxBuf>>
    BY <1>2 DEF SendUnconnected, TxDone, TxTimeout, Returned
  <2>2. Line!Return
    BY <2>1 DEF Line!Return, Line!NoCall
  <2> QED
    BY <2>2 DEF Line!Next
<1>3. CASE TxWrite
  <2>1. /\ sendCount \in Nat /\ bufferedCount \in Nat /\ length \in Nat
        /\ Len(txBuf) \in Nat /\ txBuf \in Seq(1..MAX_TEXT)
        /\ bufferedCount + sendCount <= length
        /\ Len(txBuf) + sendCount <= CAPACITY
    BY <1>3, CdcAssumption DEF CdcAssumption, TxWrite, TypeOK, SpaceInv
  <2>2. CASE sendCount = 0
    <3>1. Piece(bufferedCount, sendCount) = <<>>
      BY <2>2 DEF Piece
    <3>2. txBuf' = txBuf /\ bufferedCount' = bufferedCount
      BY <1>3, <2>1, <2>2, <3>1 DEF TxWrite
    <3> QED
      BY <1>3, <3>2 DEF TxWrite, Line!vars
  <2>3. CASE sendCount > 0
    <3>1. sendCount \in 1..CAPACITY
      BY <2>1, <2>3, CdcAssumption DEF CdcAssumption
    <3>2. /\ Sending = TRUE /\ Sending' = TRUE /\ length' = length
          /\ bufferedCount' = bufferedCount + sendCount
          /\ txBuf' = txBuf \o Line!Piece(bufferedCount, sendCount)
          /\ UNCHANGED <<state, rxBuf, result>>
      BY <1>3 DEF TxWrite, Piece, Line!Piece
    <3>3. [on |-> Sending, length |-> length, done |-> bufferedCount]'
            = [[on |-> Sending, length |-> length, done |-> bufferedCount]
                 EXCEPT !.done = @ + sendCount]
      BY <3>2
    <3>4. Line!Put(sendCount)
      BY <2>1, <3>2, <3>3 DEF Line!Put
    <3> QED
      BY <3>1, <3>4 DEF Line!Next
  <2> QED
    BY <2>1, <2>2, <2>3
<1>4. CASE RxState \/ RxConnected \/ RxAvail
  BY <1>4 DEF RxState, RxConnected, RxAvail, Line!vars
<1>5. CASE RxUnconnected \/ RxNothing \/ RxRead
  <2>1. Sending = FALSE /\ Sending' = FALSE /\ UNCHANGED <<state, txBuf, length, bufferedCount>>
    BY <1>5 DEF RxUnconnected, RxNothing, RxRead, Returned
  <2>2. \/ rxBuf # <<>> /\ result' = Head(rxBuf) /\ rxBuf' = Tail(rxBuf)
        \/ (rxBuf = <<>> \/ ~(state = "idle")) /\ result' = 0 /\ UNCHANGED rxBuf
    BY <1>5 DEF RxUnconnected, RxNothing, RxRead, Returned, ConnectedToken
  <2>3. Line!Receive
    BY <2>1, <2>2 DEF Line!Receive
  <2> QED
    BY <2>3 DEF Line!Next
<1> QED
  BY <1>1, <1>2, <1>3, <1>4, <1>5 DEF InCall

\* The port is two lossy queues: each step of CDCD.c and of the console's thread
\* is a step of SerialLine or none.  (That calls return is left to the runs.)
THEOREM ImplementsSerialLine == Spec => LineSteps
<1>1. SerialInv /\ [Next]_vars => [Line!Next]_(Line!vars)
  <2> SUFFICES ASSUME SerialInv, [Next]_vars
               PROVE  Line!Next \/ UNCHANGED Line!vars
    OBVIOUS
  <2>1. CASE Poll
    BY <2>1 DEF Poll, Thread, hostVars, Sending, Line!vars
  <2>2. ASSUME NEW n \in 0..MAX_TEXT, Send(n)
        PROVE  Line!Next
    <3>1. Line!Send(n)
      BY <2>2 DEF Send, Thread, hostVars, Sending, Line!Send
    <3> QED
      BY <3>1 DEF Line!Next
  <2>3. CASE UNCHANGED vars
    BY <2>3 DEF vars, hostVars, threadVars, Sending, Line!vars
  <2> QED
    BY <2>1, <2>2, <2>3, LineInterrupt, LineCall DEF Next
<1> QED
  BY LineInit, SerialInvariant, <1>1, PTL DEF Spec, LineSteps
=============================================================================

----------------------------- MODULE SerialLine -----------------------------
(***************************************************************************)
(* What the console may expect of the USB serial port: two queues.         *)
(*                                                                         *)
(* CDCD_sendData puts a prefix of its text on the line, in order and       *)
(* without a gap, and returns its length; what does not fit is dropped,    *)
(* and the call returns whatever the host does.  CDCD_receiveData takes    *)
(* the oldest byte the host sent.  A connection empties both queues, so    *)
(* that nothing of an earlier session is seen.  The bytes of a text are    *)
(* numbered from 1; those of the host are members of Chars.                *)
(***************************************************************************)
EXTENDS Integers, Sequences

CONSTANTS Chars, CAPACITY, MAX_TEXT

VARIABLES
  up,      \* the host has the port configured
  line,    \* bytes on their way to the host
  input,   \* bytes on their way to the console
  call,    \* the text being sent: whether there is one, its length, what was put
  result   \* what the last call returned

vars == <<up, line, input, call, result>>

NoCall == [on |-> FALSE, length |-> 0, done |-> 0]

Init ==
  /\ up = FALSE
  /\ line = <<>>
  /\ input = <<>>
  /\ call = NoCall
  /\ result = 0

\* The bytes of a text after the first `done`, k of them
Piece(done, k) == [i \in 1..k |-> done + i]

Send(n) ==
  /\ ~call.on
  /\ call' = [on |-> TRUE, length |-> n, done |-> 0]
  /\ UNCHANGED <<up, line, input, result>>

Put(k) ==
  /\ call.on
  /\ call.done + k <= call.length
  /\ Len(line) + k <= CAPACITY
  /\ line' = line \o Piece(call.done, k)
  /\ call' = [call EXCEPT !.done = @ + k]
  /\ UNCHANGED <<up, input, result>>

\* What was put is what is returned.
Return ==
  /\ call.on
  /\ result' = call.done
  /\ call' = NoCall
  /\ UNCHANGED <<up, line, input>>

\* The host takes the k oldest bytes.
Deliver(k) ==
  /\ line' = SubSeq(line, k + 1, Len(line))
  /\ UNCHANGED <<up, input, call, result>>

Type(c) ==
  /\ up
  /\ Len(input) < CAPACITY
  /\ input' = Append(input, c)
  /\ UNCHANGED <<up, line, call, result>>

\* The console takes the oldest byte, or is told that there is none, which is
\* so or the port is not connected.
Receive ==
  /\ ~call.on
  /\ \/ input # <<>> /\ result' = Head(input) /\ input' = Tail(input)
     \/ (input = <<>> \/ ~up) /\ result' = 0 /\ UNCHANGED input
  /\ UNCHANGED <<up, line, call>>

Disconnect ==
  /\ up' = FALSE
  /\ UNCHANGED <<line, input, call, result>>

Connect ==
  /\ up' = TRUE
  /\ line' = <<>>
  /\ input' = <<>>
  /\ UNCHANGED <<call, result>>

Next ==
  \/ \E n \in 0..MAX_TEXT : Send(n)
  \/ \E k \in 1..CAPACITY : Put(k)
  \/ Return
  \/ \E k \in 1..Len(line) : Deliver(k)
  \/ \E c \in Chars : Type(c)
  \/ Receive
  \/ Disconnect
  \/ Connect

\* A call returns, whatever the host does.
Spec == Init /\ [][Next]_vars /\ WF_vars(Return)
=============================================================================

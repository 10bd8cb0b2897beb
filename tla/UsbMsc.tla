------------------------------- MODULE UsbMsc -------------------------------
(***************************************************************************)
(* The USB mass storage device: usbdmsc.c and SCMSC.c over storage.c.      *)
(*                                                                         *)
(* The USB interrupt posts what happened to a mailbox of NUMMSGS entries   *)
(* and the mscDaemon task handles one entry after the other: bulk          *)
(* endpoint events drive a SCSI state machine (psInst), a disconnection    *)
(* closes the drive, a new configuration re-allocates the DMA channels.    *)
(* A handler blocks in the flash and in the loan of UsbStorage, which this *)
(* module extends, and events and Python go on meanwhile.                  *)
(*                                                                         *)
(* Outside of src/ are the USB library, the endpoint hardware (`pipe') and *)
(* the host: a bulk-only host that sends legal commands, may be unplugged  *)
(* at any moment, and resets the device when nothing happens any more.     *)
(***************************************************************************)
EXTENDS UsbStorage, Sequences

CONSTANTS
  NUMMSGS,    \* entries of the mailbox
  MaxLBA,     \* the last block of the disk
  MaxBlocks,  \* the longest transfer of the host
  MaxMoves,   \* bound: movements of the plug while the daemon gets no further
  Ops,        \* the commands of the host
  FollowLost  \* bound: whether to go on after a host was lost in a command

ASSUME MscAssumption ==
  /\ NUMMSGS \in Nat \ {0}
  /\ MaxLBA \in Nat
  /\ MaxBlocks \in Nat \ {0}
  /\ MaxMoves \in Nat
  /\ FollowLost \in BOOLEAN

VARIABLES
  mbox,     \* the mailbox
  aborted,  \* System_abort: the mailbox overflowed
  job,      \* the handler that called storage, "none" between handlers
  psInst,   \* the state of the SCSI machine
  csw,      \* g_sSCSICSW
  command,  \* g_pui8Command: the last command, until a response is built in it
  pipe,     \* the bulk endpoints and their DMA channels (external)
  host,     \* the host (external)
  moves,    \* movements of the plug since the mailbox was last empty
  lost,     \* history: a host left in the middle of a command
  badRead   \* history: a block could not be read

mscVars == <<psInst, csw, command, pipe>>
histVars == <<lost, badRead>>
vars == <<storageVars, mbox, aborted, job, mscVars, host, moves, histVars>>

LBA == 0..MaxLBA

\* INQUIRY stands for itself and REQUEST SENSE, START for the starting and the
\* stopping of the unit, CAPACITY for the two capacities and the mode page,
\* UNKNOWN and OTHER for commands the device does not know, with data for the
\* host and without, SELECT for one with data from the host.
DataIn == {"INQUIRY", "CAPACITY", "READ", "UNKNOWN"}
NoData == {"TUR", "PREVENT", "ALLOW", "START", "EJECT", "LOAD"}
DataOut == {"WRITE", "SELECT"}
AllOps == DataIn \cup NoData \cup DataOut \cup {"OTHER"}

ASSUME OpsAssumption == Ops \subseteq AllOps

None == [kind |-> "none"]
InBlock(l) == [kind |-> "in", lba |-> l]             \* the contents of block l of the disk
OutBlock(l, t) == [kind |-> "out", lba |-> l, tag |-> t]     \* what command t of the host writes to l
Response == [kind |-> "response"]
Csw(tag, bad) == [kind |-> "csw", tag |-> tag, bad |-> bad]
Blank == [kind |-> "blank"]           \* the buffer at first

Commands == [op : Ops, lba : LBA, n : 1..MaxBlocks, tag : BOOLEAN]

\* Commands a host may send: blocks that exist, one length for what is not a
\* transfer of blocks.
Legal(c) ==
  IF c.op \in {"READ", "WRITE"} THEN c.lba + c.n <= MaxLBA + 1
  ELSE c.lba = 0 /\ c.n = 1

\* psInst.ejected: iMediaStatus is eUSBDMSCMediaNotPresent, the one value that
\* is ever compared.
MscInit ==
  /\ StorageInit
  /\ mbox = <<>>
  /\ aborted = FALSE
  /\ job = "none"
  /\ psInst = [scsi |-> "IDLE", left |-> 0, lba |-> 0, buf |-> Blank,
               ejected |-> FALSE, removal |-> FALSE, dmaIn |-> FALSE]
  /\ csw = [tag |-> FALSE, bad |-> FALSE]
  /\ command = None
  /\ pipe = [in |-> None, out |-> None, dmaIn |-> None, dmaOut |-> FALSE,
             inStall |-> FALSE, outStall |-> FALSE]
  /\ host = [st |-> "off", cmd |-> None, done |-> 0, tag |-> FALSE]
  /\ moves = 0
  /\ lost = FALSE
  /\ badRead = FALSE

\* System_abort stops everything.
Goes == ~aborted /\ (lost => FollowLost)

-----------------------------------------------------------------------------
(* The interrupt's side of the mailbox *)

\* Variant: one entry fewer.
PostThree(m) ==
  IF Len(mbox) < NUMMSGS - 1
  THEN mbox' = Append(mbox, m) /\ UNCHANGED aborted
  ELSE aborted' = TRUE /\ UNCHANGED mbox

Post(m) ==
  IF Len(mbox) < NUMMSGS
  THEN mbox' = Append(mbox, m) /\ UNCHANGED aborted
  ELSE aborted' = TRUE /\ UNCHANGED mbox

-----------------------------------------------------------------------------
(* The daemon *)

DaemonIdle == daemon = "ready" /\ job = "none" /\ mbox = <<>>

\* Mailbox_pend has returned entry m.
Take(m) ==
  /\ Goes
  /\ daemon = "ready"
  /\ job = "none"
  /\ mbox # <<>>
  /\ Head(mbox) = m
  /\ mbox' = Tail(mbox)
  /\ moves' = IF Len(mbox) = 1 THEN 0 ELSE moves
  /\ UNCHANGED aborted

\* The handler goes on after a call of storage.
Resume(j) ==
  /\ Goes
  /\ job = j
  /\ job' = "none"
  /\ UNCHANGED <<mbox, aborted, moves>>

NoStorage == UNCHANGED storageVars /\ UNCHANGED job

\* SCMSC_read and SCMSC_write do not look at the drive they are given.
UseFlash(j) ==
  /\ daemon' = "io"
  /\ job' = j
  /\ UNCHANGED <<usbVars, pyVars, pvMedia>>

\* USBEndpointDataPut is refused while a packet waits to be fetched.
PutIn(p) == IF pipe.in = None THEN p ELSE pipe.in

Scsi(s) == [psInst EXCEPT !.scsi = s]

\* Variant: the last block is not told from the others.
SendNextAlways ==
  /\ Take("in")
  /\ psInst.scsi = "SEND_BLOCKS"
  /\ psInst' = [psInst EXCEPT !.left = @ - 1, !.lba = @ + 1]
  /\ UseFlash("sendNext")
  /\ UNCHANGED <<csw, command, pipe, host, histVars>>

\* Variant: the same block again.
SendNextSame ==
  /\ Take("in")
  /\ psInst.scsi = "SEND_BLOCKS"
  /\ psInst.left # 1
  /\ psInst' = [psInst EXCEPT !.left = @ - 1]
  /\ UseFlash("sendNext")
  /\ UNCHANGED <<csw, command, pipe, host, histVars>>

\* HandleEndpoints, IN: a block has been moved, and it was not the last.
SendNext ==
  /\ Take("in")
  /\ psInst.scsi = "SEND_BLOCKS"
  /\ psInst.left # 1
  /\ psInst' = [psInst EXCEPT !.left = @ - 1, !.lba = @ + 1]
  /\ UseFlash("sendNext")
  /\ UNCHANGED <<csw, command, pipe, host, histVars>>

\* A block has been read, or not, which nobody looks at, and is sent.
BlockRead(left) == \E ok \in BOOLEAN :
  LET b == IF ok THEN InBlock(psInst.lba) ELSE psInst.buf IN
  /\ BlockDone
  /\ psInst' = [psInst EXCEPT !.buf = b, !.dmaIn = TRUE, !.left = left,
                              !.scsi = "SEND_BLOCKS"]
  /\ pipe' = [pipe EXCEPT !.dmaIn = b]
  /\ badRead' = (badRead \/ ~ok)
  /\ UNCHANGED <<csw, command, host, lost>>

SendNextRead == Resume("sendNext") /\ BlockRead(psInst.left)

\* It was the last: the status follows at once, or when the packet has gone.
SendLast ==
  /\ Take("in")
  /\ psInst.scsi = "SEND_BLOCKS"
  /\ psInst.left = 1
  /\ csw' = [csw EXCEPT !.bad = FALSE]
  /\ IF pipe.in # None
     THEN /\ psInst' = [psInst EXCEPT !.left = 0, !.dmaIn = FALSE, !.scsi = "SEND_STATUS"]
          /\ UNCHANGED pipe
     ELSE /\ psInst' = [psInst EXCEPT !.left = 0, !.dmaIn = FALSE, !.scsi = "SENT_STATUS"]
          /\ pipe' = [pipe EXCEPT !.in = Csw(csw.tag, FALSE)]
  /\ NoStorage
  /\ UNCHANGED <<command, host, histVars>>

\* A response or a stall has gone: the status follows.
StatusPhase ==
  /\ Take("in")
  /\ psInst.scsi = "SEND_STATUS"
  /\ psInst' = Scsi("SENT_STATUS")
  /\ pipe' = [pipe EXCEPT !.in = PutIn(Csw(csw.tag, csw.bad))]
  /\ NoStorage
  /\ UNCHANGED <<csw, command, host, histVars>>

StatusGone ==
  /\ Take("in")
  /\ psInst.scsi = "SENT_STATUS"
  /\ psInst' = Scsi("IDLE")
  /\ NoStorage
  /\ UNCHANGED <<csw, command, pipe, host, histVars>>

\* Variant: the buffer is offered to the DMA before it has been written.
ReceiveBlockRearmed ==
  /\ Take("out")
  /\ psInst.scsi = "RECEIVE_BLOCKS"
  /\ psInst' = [psInst EXCEPT !.left = @ - 1]
  /\ UseFlash("receive")
  /\ pipe' = [pipe EXCEPT !.dmaOut = psInst.left > 1]
  /\ UNCHANGED <<csw, command, host, histVars>>

\* HandleEndpoints, OUT: a block has come and is written; the event is taken
\* for the end of a block whatever came.
ReceiveBlock ==
  /\ Take("out")
  /\ psInst.scsi = "RECEIVE_BLOCKS"
  /\ psInst' = [psInst EXCEPT !.left = @ - 1]
  /\ UseFlash("receive")
  /\ UNCHANGED <<csw, command, pipe, host, histVars>>

BlockWritten ==
  /\ Resume("receive")
  /\ BlockDone
  /\ IF psInst.left = 0
     THEN /\ psInst' = [psInst EXCEPT !.lba = @ + 1, !.scsi = "SENT_STATUS"]
          /\ csw' = [csw EXCEPT !.bad = FALSE]
          /\ pipe' = [pipe EXCEPT !.in = PutIn(Csw(csw.tag, FALSE))]
     ELSE /\ psInst' = [psInst EXCEPT !.lba = @ + 1]
          /\ pipe' = [pipe EXCEPT !.dmaOut = TRUE]
          /\ UNCHANGED csw
  /\ UNCHANGED <<command, host, histVars>>

\* Events in the states that do not expect them.
Ignore ==
  /\ \/ Take("in") /\ psInst.scsi \in {"IDLE", "RECEIVE_BLOCKS"}
     \/ Take("out") /\ psInst.scsi \in {"SEND_BLOCKS", "SEND_STATUS", "SENT_STATUS"}
  /\ NoStorage
  /\ UNCHANGED <<mscVars, host, histVars>>

-----------------------------------------------------------------------------
(* Commands: an OUT event in IDLE *)

\* What is in g_pui8Command after USBEndpointDataGet: an empty endpoint leaves
\* what was there.
Received == IF pipe.out = None THEN command ELSE pipe.out

Obey(op) ==
  /\ Take("out")
  /\ psInst.scsi = "IDLE"
  /\ Received # None
  /\ Received.op = op
  /\ UNCHANGED host

\* A command without data is over: its status is sent.
Answer(bad) ==
  /\ csw' = [tag |-> Received.tag, bad |-> bad]
  /\ command' = Received
  /\ pipe' = [pipe EXCEPT !.out = None, !.in = PutIn(Csw(Received.tag, bad))]

\* So is one that is refused, but its endpoint is stalled too.
AnswerStall ==
  /\ csw' = [tag |-> Received.tag, bad |-> TRUE]
  /\ command' = Received
  /\ pipe' = [pipe EXCEPT !.out = None, !.in = PutIn(Csw(Received.tag, TRUE)),
                          !.inStall = TRUE]

\* A short response, which is built over the command in g_pui8Command
Respond ==
  /\ Obey("INQUIRY") \/ (Obey("CAPACITY") /\ pvMedia)
  /\ psInst' = Scsi("SEND_STATUS")
  /\ csw' = [tag |-> Received.tag, bad |-> FALSE]
  /\ command' = None
  /\ pipe' = [pipe EXCEPT !.out = None, !.in = PutIn(Response)]
  /\ NoStorage
  /\ UNCHANGED histVars

\* Variant: the machine goes back to IDLE, as it does for an unknown command.
RefuseDataToIdle ==
  /\ Obey("CAPACITY") \/ Obey("READ") \/ Obey("WRITE")
  /\ ~pvMedia
  /\ csw' = [tag |-> Received.tag, bad |-> TRUE]
  /\ command' = Received
  /\ pipe' = IF Received.op = "WRITE"
             THEN [pipe EXCEPT !.out = None, !.outStall = TRUE]
             ELSE [pipe EXCEPT !.out = None, !.inStall = TRUE]
  /\ NoStorage
  /\ UNCHANGED <<psInst, histVars>>

\* Variant: the IN endpoint is not stalled.
RefuseDataSilently ==
  /\ Obey("CAPACITY") \/ Obey("READ") \/ Obey("WRITE")
  /\ ~pvMedia
  /\ psInst' = Scsi("SEND_STATUS")
  /\ csw' = [tag |-> Received.tag, bad |-> TRUE]
  /\ command' = Received
  /\ pipe' = [pipe EXCEPT !.out = None, !.outStall = Received.op = "WRITE"]
  /\ NoStorage
  /\ UNCHANGED histVars

RefuseData ==
  /\ Obey("CAPACITY") \/ Obey("READ") \/ Obey("WRITE")
  /\ ~pvMedia
  /\ psInst' = Scsi("SEND_STATUS")
  /\ csw' = [tag |-> Received.tag, bad |-> TRUE]
  /\ command' = Received
  /\ pipe' = IF Received.op = "WRITE"
             THEN [pipe EXCEPT !.out = None, !.outStall = TRUE]
             ELSE [pipe EXCEPT !.out = None, !.inStall = TRUE]
  /\ NoStorage
  /\ UNCHANGED histVars

\* The first block is read before anything is sent.
Read10 ==
  /\ Obey("READ")
  /\ pvMedia
  /\ psInst' = [psInst EXCEPT !.lba = Received.lba]
  /\ csw' = [tag |-> Received.tag, bad |-> FALSE]
  /\ command' = Received
  /\ pipe' = [pipe EXCEPT !.out = None]
  /\ UseFlash("read")
  /\ UNCHANGED histVars

Read10Read == Resume("read") /\ BlockRead(command.n)

\* Variant: the drive is not looked at.
Write10Anyway ==
  /\ Obey("WRITE")
  /\ psInst' = [psInst EXCEPT !.scsi = "RECEIVE_BLOCKS", !.lba = Received.lba,
                              !.left = Received.n]
  /\ csw' = [tag |-> Received.tag, bad |-> FALSE]
  /\ command' = Received
  /\ pipe' = [pipe EXCEPT !.out = None, !.dmaOut = TRUE]
  /\ NoStorage
  /\ UNCHANGED histVars

\* Variant: the status keeps the tag of an earlier command.
Write10OldTag ==
  /\ Obey("WRITE")
  /\ pvMedia
  /\ psInst' = [psInst EXCEPT !.scsi = "RECEIVE_BLOCKS", !.lba = Received.lba,
                              !.left = Received.n]
  /\ command' = Received
  /\ pipe' = [pipe EXCEPT !.out = None, !.dmaOut = TRUE]
  /\ NoStorage
  /\ UNCHANGED <<csw, histVars>>

Write10 ==
  /\ Obey("WRITE")
  /\ pvMedia
  /\ psInst' = [psInst EXCEPT !.scsi = "RECEIVE_BLOCKS", !.lba = Received.lba,
                              !.left = Received.n]
  /\ csw' = [tag |-> Received.tag, bad |-> FALSE]
  /\ command' = Received
  /\ pipe' = [pipe EXCEPT !.out = None, !.dmaOut = TRUE]
  /\ NoStorage
  /\ UNCHANGED histVars

\* TEST UNIT READY looks for the drive until it has been ejected.
TestUnitReady ==
  /\ Obey("TUR")
  /\ pvMedia \/ psInst.ejected
  /\ psInst' = Scsi("SENT_STATUS")
  /\ Answer(~pvMedia)
  /\ NoStorage
  /\ UNCHANGED histVars

\* START with LOEJ looks for it when it is there.
Open ==
  /\ \/ Obey("TUR") /\ ~pvMedia /\ ~psInst.ejected /\ job' = "test"
     \/ Obey("LOAD") /\ pvMedia /\ job' = "load"
  /\ csw' = [tag |-> Received.tag, bad |-> FALSE]
  /\ command' = Received
  /\ pipe' = [pipe EXCEPT !.out = None]
  /\ CallOpen
  /\ UNCHANGED <<psInst, histVars>>

Opened == \E granted \in BOOLEAN :
  /\ IF granted THEN OpenGranted ELSE OpenRefused
  /\ \/ Resume("test") /\ psInst' = Scsi("SENT_STATUS")
     \/ /\ Resume("load")
        /\ psInst' = [psInst EXCEPT !.scsi = "SENT_STATUS",
                        !.ejected = @ /\ ~granted]
  /\ csw' = [csw EXCEPT !.bad = ~granted]
  /\ pipe' = [pipe EXCEPT !.in = PutIn(Csw(csw.tag, ~granted))]
  /\ UNCHANGED <<command, host, histVars>>

Hangs ==
  /\ Goes
  /\ OpenHangs
  /\ UNCHANGED <<mbox, aborted, job, mscVars, host, moves, histVars>>

\* PREVENT/ALLOW MEDIUM REMOVAL and the rest of START/STOP UNIT
Removal ==
  /\ pvMedia
  /\ \/ Obey("ALLOW") /\ psInst' = [Scsi("SENT_STATUS") EXCEPT !.removal = TRUE]
     \/ Obey("PREVENT") /\ psInst' = [Scsi("SENT_STATUS") EXCEPT !.removal = FALSE]
     \/ Obey("START") /\ psInst' = [Scsi("SENT_STATUS") EXCEPT !.ejected = FALSE]
  /\ Answer(FALSE)
  /\ NoStorage
  /\ UNCHANGED histVars

Fail ==
  /\ \/ Obey("EJECT") /\ pvMedia /\ ~psInst.removal
     \/ Obey("OTHER")
  /\ psInst' = Scsi("SENT_STATUS")
  /\ Answer(TRUE)
  /\ NoStorage
  /\ UNCHANGED histVars

\* the eject, which closes the drive before its status is sent
Eject ==
  /\ Obey("EJECT")
  /\ psInst.removal
  /\ psInst' = [psInst EXCEPT !.ejected = TRUE]
  /\ csw' = [tag |-> Received.tag, bad |-> FALSE]
  /\ command' = Received
  /\ pipe' = [pipe EXCEPT !.out = None]
  /\ job' = "eject"
  /\ CallClose
  /\ UNCHANGED histVars

Ejected ==
  /\ Resume("eject")
  /\ CloseUsb
  /\ psInst' = Scsi("SENT_STATUS")
  /\ pipe' = [pipe EXCEPT !.in = PutIn(Csw(csw.tag, FALSE))]
  /\ UNCHANGED <<csw, command, host, histVars>>

RefuseNoData ==
  /\ \E op \in NoData \ {"TUR"} : Obey(op)
  /\ ~pvMedia
  /\ psInst' = Scsi("SENT_STATUS")
  /\ AnswerStall
  /\ NoStorage
  /\ UNCHANGED histVars

\* A command the device does not know, with data one way or the other, stalls
\* and leaves the machine in IDLE.
Unknown ==
  /\ Obey("UNKNOWN") \/ Obey("SELECT")
  /\ csw' = [tag |-> Received.tag, bad |-> TRUE]
  /\ command' = Received
  /\ pipe' = IF Received.op = "SELECT"
             THEN [pipe EXCEPT !.out = None, !.outStall = TRUE]
             ELSE [pipe EXCEPT !.out = None, !.inStall = TRUE]
  /\ NoStorage
  /\ UNCHANGED <<psInst, histVars>>

-----------------------------------------------------------------------------
(* The other handlers *)

\* HandleDisconnect closes the drive; nothing else is put back.
Disconnect ==
  /\ Take("disconnect")
  /\ lost' = (lost \/ psInst.scsi # "IDLE")
  /\ IF pvMedia
     THEN job' = "disconnect" /\ CallClose
     ELSE NoStorage
  /\ UNCHANGED <<mscVars, host, badRead>>

Disconnected ==
  /\ Resume("disconnect")
  /\ CloseUsb
  /\ UNCHANGED <<mscVars, host, histVars>>

\* The flush of a close goes on to the close.
Flushed ==
  /\ Goes
  /\ FlushDone
  /\ UNCHANGED <<mbox, aborted, job, mscVars, host, moves, histVars>>

\* ConfigChangeHandler releases the DMA channels, with what was queued.
ConfigChange ==
  /\ Take("config")
  /\ pipe' = [pipe EXCEPT !.dmaIn = None, !.dmaOut = FALSE]
  /\ NoStorage
  /\ UNCHANGED <<psInst, csw, command, host, histVars>>

\* HandleRequests answers; a reset is acknowledged and changes nothing.
Request ==
  /\ \/ Take("getMaxLun") /\ UNCHANGED lost
     \/ Take("reset") /\ lost' = (lost \/ psInst.scsi # "IDLE" \/ pipe.in # None)
  /\ host' = IF host.st = "wait" THEN [host EXCEPT !.st = "idle"] ELSE host
  /\ NoStorage
  /\ UNCHANGED <<mscVars, badRead>>

DaemonStep ==
  \/ SendNext \/ SendNextRead \/ SendLast \/ StatusPhase \/ StatusGone
  \/ ReceiveBlock \/ BlockWritten \/ Ignore
  \/ Respond \/ RefuseData \/ Read10 \/ Read10Read \/ Write10
  \/ TestUnitReady \/ Open \/ Opened \/ Hangs \/ Removal \/ Fail
  \/ Eject \/ Ejected \/ RefuseNoData \/ Unknown
  \/ Disconnect \/ Disconnected \/ Flushed \/ ConfigChange \/ Request

\* Python runs when the daemon waits.
PythonStep ==
  /\ Goes
  /\ DaemonIdle \/ daemon # "ready"
  /\ Python
  /\ UNCHANGED <<mbox, aborted, job, mscVars, host, moves, histVars>>

-----------------------------------------------------------------------------
(* The endpoints and the host (external) *)

Outside ==
  /\ Goes
  /\ UNCHANGED <<storageVars, job, csw, command, badRead, lost>>

\* A host needs more time for a request, a command or a block than a handler
\* that does not wait for the flash.
Settled == DaemonIdle \/ daemon \in {"io", "flush"}

\* The host has fetched a block queued for the IN endpoint up to its last
\* packet, which is in the endpoint's buffer.
DmaIn ==
  /\ Outside
  /\ Settled
  /\ host.st \in {"in", "status"}
  /\ pipe.dmaIn # None
  /\ pipe.in = None
  /\ Post("in")
  /\ pipe' = [pipe EXCEPT !.in = pipe.dmaIn, !.dmaIn = None]
  /\ UNCHANGED <<psInst, host, moves>>

\* A bus reset empties the endpoints, and the host sets the configuration.
Plug ==
  /\ Outside
  /\ host.st = "off"
  /\ Settled
  /\ moves < MaxMoves
  /\ Post("config")
  /\ moves' = moves + 1
  /\ host' = [host EXCEPT !.st = "configured"]
  /\ pipe' = [pipe EXCEPT !.in = None, !.out = None,
                          !.inStall = FALSE, !.outStall = FALSE]
  /\ UNCHANGED psInst

Ask ==
  /\ Outside
  /\ host.st = "configured"
  /\ Settled
  /\ Post("getMaxLun")
  /\ host' = [host EXCEPT !.st = "wait"]
  /\ UNCHANGED <<psInst, pipe, moves>>

\* A host that does not wait for the answer
DoNotWait ==
  /\ Outside
  /\ host.st = "wait"
  /\ host' = [host EXCEPT !.st = "idle"]
  /\ UNCHANGED <<psInst, pipe, moves, mbox, aborted>>

Unplug ==
  /\ Outside
  /\ host.st # "off"
  /\ moves < MaxMoves
  /\ Post("disconnect")
  /\ moves' = moves + 1
  /\ host' = [host EXCEPT !.st = "off"]
  /\ UNCHANGED <<psInst, pipe>>

\* What follows a command
FirstPhase(op) ==
  CASE op \in DataIn -> "in"
    [] op \in DataOut -> "out"
    [] OTHER -> "status"

SendCommand(c) ==
  /\ Outside
  /\ host.st = "idle"
  /\ Settled
  /\ c.tag = host.tag
  /\ pipe.out = None
  /\ Post("out")
  /\ pipe' = [pipe EXCEPT !.out = c]
  /\ host' = [st |-> FirstPhase(c.op), cmd |-> c, done |-> 0, tag |-> ~host.tag]
  /\ UNCHANGED <<psInst, moves>>

\* One more block of the data phase has passed.
Advance == [host EXCEPT !.done = @ + 1,
                        !.st = IF host.done + 1 = host.cmd.n THEN "status" ELSE @]

\* The host fetches a packet.  With DMA on, a fetch of data is no event.
Fetch ==
  /\ Outside
  /\ host.st \in {"in", "status"}
  /\ pipe.in # None
  /\ ~pipe.inStall
  /\ pipe' = [pipe EXCEPT !.in = None]
  /\ IF psInst.dmaIn THEN UNCHANGED <<mbox, aborted>> ELSE Post("in")
  /\ host' = CASE pipe.in.kind = "csw" -> [host EXCEPT !.st = "idle"]
               [] pipe.in.kind # "csw" /\ host.st = "in" -> Advance
               [] OTHER -> host
  /\ UNCHANGED <<psInst, moves>>

\* A stall handshake is an event; the host clears the stall and asks for the
\* status.
SeeInStall ==
  /\ Outside
  /\ host.st \in {"in", "status"}
  /\ pipe.inStall
  /\ Post("in")
  /\ pipe' = [pipe EXCEPT !.inStall = FALSE]
  /\ host' = [host EXCEPT !.st = "status"]
  /\ UNCHANGED <<psInst, moves>>

SeeOutStall ==
  /\ Outside
  /\ host.st = "out"
  /\ pipe.outStall
  /\ Post("out")
  /\ pipe' = [pipe EXCEPT !.outStall = FALSE]
  /\ host' = [host EXCEPT !.st = "status"]
  /\ UNCHANGED <<psInst, moves>>

SendBlock ==
  /\ Outside
  /\ host.st = "out"
  /\ pipe.dmaOut /\ pipe.out = None /\ ~pipe.outStall
  /\ Post("out")
  /\ psInst' = [psInst EXCEPT !.buf = OutBlock(host.cmd.lba + host.done, host.cmd.tag)]
  /\ pipe' = [pipe EXCEPT !.dmaOut = FALSE]
  /\ host' = Advance
  /\ UNCHANGED moves

\* Nothing more will come: after its timeout the host resets the device and
\* clears the stalls.
Stuck ==
  /\ DaemonIdle
  /\ \/ host.st \in {"in", "status"} /\ pipe.in = None /\ pipe.dmaIn = None
        /\ ~pipe.inStall
     \/ host.st = "out" /\ (pipe.dmaOut => pipe.out # None) /\ ~pipe.outStall
     \/ host.st = "idle" /\ pipe.out # None

GiveUp ==
  /\ Outside
  /\ Stuck
  /\ Post("reset")
  /\ pipe' = [pipe EXCEPT !.inStall = FALSE, !.outStall = FALSE]
  /\ host' = [host EXCEPT !.st = "wait"]
  /\ UNCHANGED <<psInst, moves>>

HostProgress == DmaIn \/ Ask \/ Fetch \/ SeeInStall \/ SeeOutStall \/ SendBlock

HostStep ==
  \/ HostProgress \/ Plug \/ DoNotWait \/ Unplug \/ GiveUp
  \/ \E c \in Commands : c.op \in Ops /\ Legal(c) /\ SendCommand(c)

MscNext == DaemonStep \/ PythonStep \/ HostStep

MscSpec == MscInit /\ [][MscNext]_vars

\* The daemon runs when it can, a host goes on with a command it has sent, and
\* Python leaves the mutex.
FairMscSpec ==
  /\ MscSpec
  /\ WF_vars(DaemonStep)
  /\ WF_vars(HostProgress)
  /\ SF_vars(PythonStep /\ py # "run")

-----------------------------------------------------------------------------
(* Properties *)

Mails == {"in", "out", "disconnect", "config", "getMaxLun", "reset"}
ScsiStates == {"IDLE", "SEND_BLOCKS", "RECEIVE_BLOCKS", "SEND_STATUS", "SENT_STATUS"}
HostStates == {"off", "configured", "wait", "idle", "in", "out", "status"}
LegalCommands == {c \in Commands : Legal(c)}
Blocks == {Blank} \cup {InBlock(l) : l \in LBA} \cup {OutBlock(l, t) : l \in LBA, t \in BOOLEAN}
Packets == Blocks \cup {None, Response} \cup {Csw(t, b) : t \in BOOLEAN, b \in BOOLEAN}

Machines == [scsi : ScsiStates, left : 0..MaxBlocks, lba : 0..(MaxLBA + 1), buf : Blocks,
             ejected : BOOLEAN, removal : BOOLEAN, dmaIn : BOOLEAN]
Pipes == [in : Packets, out : LegalCommands \cup {None}, dmaIn : Blocks \cup {None},
          dmaOut : BOOLEAN, inStall : BOOLEAN, outStall : BOOLEAN]
Hosts == [st : HostStates, cmd : LegalCommands \cup {None}, done : 0..MaxBlocks, tag : BOOLEAN]

\* The type of the state.
MscTypeOK ==
  /\ StorageTypeOK
  /\ mbox \in Seq(Mails)
  /\ Len(mbox) <= NUMMSGS
  /\ aborted \in BOOLEAN
  /\ job \in {"none", "read", "sendNext", "receive", "test", "load", "eject", "disconnect"}
  /\ psInst \in Machines
  /\ csw \in [tag : BOOLEAN, bad : BOOLEAN]
  /\ command \in LegalCommands \cup {None}
  /\ pipe \in Pipes
  /\ host \in Hosts
  /\ moves \in 0..MaxMoves
  /\ lost \in BOOLEAN
  /\ badRead \in BOOLEAN

\* System_abort("Mailbox overflow in USB MSC") is not reached: what a host can
\* do while a handler waits for the flash, an unplugging, an enumeration and
\* a first command included, fits in the mailbox.
NoOverflow == ~aborted

\* Blocks pass between the host and the disk only while the disk is lent, but
\* after a host was lost in the middle of a command.
TransferIsLent ==
  psInst.scsi \in {"SEND_BLOCKS", "RECEIVE_BLOCKS"} => usb_in_use \/ lost \/ crossed

\* What is written to a block is what the command in progress sent for it.
WritesInPlace ==
  [][job = "receive" /\ job' = "none" =>
       psInst.buf = OutBlock(psInst.lba, csw.tag) \/ lost]_vars

\* What the host takes for a block of the disk is that block, unless a block
\* could not be read.
ReadsInPlace ==
  [][host.st = "in" /\ host.cmd.op = "READ" /\ host'.done = host.done + 1 =>
       pipe.in = InBlock(host.cmd.lba + host.done) \/ badRead \/ lost]_vars

\* A status the host fetches is that of its command, and reports success only
\* when all the data has passed.
StatusIsTrue ==
  [][pipe.in.kind = "csw" /\ pipe'.in = None /\ host.st \in {"in", "status"} /\ host'.st = "idle" =>
       \/ lost
       \/ /\ pipe.in.tag = host.cmd.tag
          /\ pipe.in.bad \/ host.cmd.op \in NoData \/ host.done = host.cmd.n]_vars

\* An OUT event is taken in IDLE with nothing in the endpoint: the command still
\* in g_pui8Command is obeyed again.
ObeyedAgain == job = "none" /\ psInst.scsi = "IDLE" /\ mbox # <<>> /\ Head(mbox) = "out"
                 /\ mbox' = Tail(mbox) /\ pipe.out = None

\* No command is obeyed twice, but for the one that stalls the OUT endpoint and
\* goes back to IDLE; before and after a host is lost.
NotObeyedTwice == [][ObeyedAgain => command.op = "SELECT"]_vars

\* The commands whose status is never sent.
NeverAnswered ==
  \/ host.cmd.op \in {"UNKNOWN", "SELECT"}
  \/ host.cmd.op = "WRITE" /\ ~pvMedia

Waiting == host.st \in {"in", "out", "status"}

\* The host waits in vain only for a status of these, or after a host was
\* lost in a command.
OnlyKnownSilence == Stuck => lost \/ NeverAnswered

\* Every other command is answered, unless the host is unplugged or lost or
\* the heap is exhausted.
Answered ==
  Waiting ~> \/ ~Waiting \/ lost \/ daemon = "hung"
             \/ NeverAnswered

\* Claim (the comments of USBDSCSIWrite10 and of the events out of step): blocks
\* are transferred when there is media present, and a host that comes back
\* finds a device that can be synchronized.
WritesNeedMedia == [][job' = "receive" /\ job # "receive" => pvMedia]_vars

-----------------------------------------------------------------------------
(* Why they hold: the device alone, whatever its hosts did *)

\* The handler that waits and what it waits for
JobInv ==
  /\ daemon = "ready" <=> job = "none"
  /\ daemon = "io" <=> job \in {"read", "sendNext", "receive"}
  /\ daemon \in {"open", "hung"} <=> job \in {"test", "load"}
  /\ daemon \in {"flush", "close"} <=> job \in {"eject", "disconnect"}
  /\ job \in {"read", "test", "load", "eject"} => psInst.scsi = "IDLE"
  /\ job = "sendNext" => psInst.scsi = "SEND_BLOCKS"
  /\ job = "receive" => psInst.scsi = "RECEIVE_BLOCKS"

\* A transfer stays within the disk.
RangeInv ==
  /\ job = "read" => command # None /\ command.op = "READ" /\ psInst.lba = command.lba
  /\ psInst.scsi = "SEND_BLOCKS" => psInst.left > 0
  /\ psInst.scsi = "RECEIVE_BLOCKS" /\ job # "receive" => psInst.left > 0
  /\ psInst.scsi \in {"SEND_BLOCKS", "RECEIVE_BLOCKS"} =>
       psInst.lba + psInst.left + (IF job = "receive" THEN 1 ELSE 0) <= MaxLBA + 1

\* Only a command that closes the drive or opens it again, or a disconnection,
\* takes it from a transfer.
MediaInv ==
  /\ psInst.scsi \in {"SEND_BLOCKS", "RECEIVE_BLOCKS"} \/ job = "read" => pvMedia \/ lost
  /\ job = "disconnect" => psInst.scsi = "IDLE" \/ lost

\* The host is where its command has got to.
HostInv ==
  /\ host.st \in {"in", "out", "status"} => host.cmd # None /\ host.done <= host.cmd.n
  /\ host.st \in {"in", "out"} => host.done < host.cmd.n

DeviceInv == MscTypeOK /\ LoanInv /\ JobInv /\ RangeInv /\ MediaInv /\ HostInv

-----------------------------------------------------------------------------
(* Why they hold: the device and the host in step, until one is lost.  The *)
(* host is in s and the mailbox holds e.                                   *)

NoDma == pipe.dmaIn = None /\ ~pipe.dmaOut /\ ~psInst.dmaIn

NoPacket == pipe.in = None /\ pipe.out = None

NoStall == ~pipe.inStall /\ ~pipe.outStall

Holds(packet, lba) == packet = InBlock(lba) \/ badRead

\* Between two commands
Quiet(s, e) ==
  /\ psInst.scsi = "IDLE"
  /\ NoDma /\ NoPacket /\ NoStall
  /\ \/ s = "configured" /\ e \in {<<>>, <<"config">>}
     \/ s \in {"wait", "idle"} /\ e \in {<<>>, <<"getMaxLun">>, <<"config", "getMaxLun">>}
     \/ s \in {"wait", "idle"} /\ e \in {<<"in">>, <<"reset">>} /\ job = "none"
  /\ job \in {"none", "disconnect"}

\* A command has been sent.
Sent(s, e) ==
  /\ psInst.scsi = "IDLE"
  /\ NoDma /\ NoStall
  /\ pipe.in = None /\ pipe.out = host.cmd
  /\ s = FirstPhase(host.cmd.op) /\ host.done = 0
  /\ e \in {<<"out">>, <<"getMaxLun", "out">>, <<"config", "getMaxLun", "out">>}
  /\ job \in {"none", "disconnect"}

\* Its handler waits for storage.
Obeyed(s, e) ==
  /\ psInst.scsi = "IDLE"
  /\ NoDma /\ NoPacket /\ NoStall
  /\ s = FirstPhase(host.cmd.op) /\ host.done = 0
  /\ e = <<>>
  /\ csw.tag = host.cmd.tag /\ command = host.cmd
  /\ \/ job = "read" /\ host.cmd.op = "READ"
     \/ job \in {"test", "load", "eject"} /\ host.cmd.op \in NoData

\* Blocks go to the host: the one in psInst.buf is on its way, or the next is read.
Sending(s, e) ==
  /\ psInst.scsi = "SEND_BLOCKS"
  /\ psInst.dmaIn /\ ~pipe.dmaOut /\ pipe.out = None /\ NoStall
  /\ host.cmd.op = "READ" /\ csw.tag = host.cmd.tag
  /\ s = IF host.done = host.cmd.n THEN "status" ELSE "in"
  /\ \/ e = <<>> /\ job = "none" /\ pipe.dmaIn # None /\ Holds(pipe.dmaIn, psInst.lba)
     \/ e = <<>> /\ job = "sendNext" /\ pipe.dmaIn = None
     \/ e = <<"in">> /\ job = "none" /\ pipe.dmaIn = None
  /\ psInst.lba + psInst.left = host.cmd.lba + host.cmd.n
  /\ host.done + (IF pipe.in = None THEN 0 ELSE 1)
       = host.cmd.n - psInst.left + (IF e = <<>> THEN 0 ELSE 1)
  /\ pipe.in # None => pipe.in.kind # "csw" /\ Holds(pipe.in, host.cmd.lba + host.done)

\* Blocks come from the host: one is awaited, has come, or is written.
Receiving(s, e) ==
  /\ psInst.scsi = "RECEIVE_BLOCKS"
  /\ ~psInst.dmaIn /\ pipe.dmaIn = None /\ NoPacket /\ NoStall
  /\ host.cmd.op = "WRITE" /\ csw.tag = host.cmd.tag
  /\ s = IF host.done = host.cmd.n THEN "status" ELSE "out"
  /\ \/ /\ e = <<>> /\ job = "none" /\ pipe.dmaOut
        /\ psInst.lba = host.cmd.lba + host.done
     \/ /\ (e = <<"out">> /\ job = "none") \/ (e = <<>> /\ job = "receive")
        /\ ~pipe.dmaOut
        /\ psInst.lba + 1 = host.cmd.lba + host.done
        /\ psInst.buf = OutBlock(psInst.lba, host.cmd.tag)
  /\ host.done = host.cmd.n - psInst.left + (IF e = <<>> THEN 0 ELSE 1)

\* The last packet or a stall is on its way, and the status comes after it,
\* unless a command with data out was refused.
Ending(s, e) ==
  /\ psInst.scsi = "SEND_STATUS" /\ job = "none"
  /\ NoDma /\ pipe.out = None
  /\ csw.tag = host.cmd.tag
  /\ \/ /\ s = "in" /\ e = <<>>
        /\ pipe.in # None /\ pipe.in.kind # "csw" /\ NoStall
        /\ host.done + 1 = host.cmd.n
        /\ host.cmd.op = "READ" => Holds(pipe.in, host.cmd.lba + host.done)
     \/ /\ s = "in" /\ e = <<>>
        /\ pipe.in = None /\ pipe.inStall /\ ~pipe.outStall
        /\ csw.bad
     \/ /\ s = "status" /\ e = <<"in">>
        /\ pipe.in = None /\ NoStall
        /\ csw.bad \/ host.done = host.cmd.n
     \/ /\ host.cmd.op = "WRITE" /\ ~pvMedia
        /\ pipe.in = None /\ ~pipe.inStall
        /\ \/ s = "out" /\ e = <<>> /\ pipe.outStall
           \/ s = "status" /\ e \in {<<>>, <<"out">>} /\ ~pipe.outStall
     \/ s \in {"wait", "idle"} /\ e = <<"reset">> /\ pipe.in = None /\ NoStall

\* The status is on its way, and is true; or it has been fetched.
Reporting(s, e) ==
  /\ job = "none"
  /\ NoDma /\ pipe.out = None /\ ~pipe.outStall
  /\ \/ /\ s = "status"
        /\ \E bad \in BOOLEAN :
             /\ pipe.in = Csw(host.cmd.tag, bad)
             /\ bad \/ host.cmd.op \in NoData \/ host.done = host.cmd.n
        /\ \/ psInst.scsi = "SENT_STATUS" /\ e = <<>>
           \/ psInst.scsi = "SENT_STATUS" /\ e = <<"in">> /\ ~pipe.inStall
           \/ psInst.scsi = "IDLE" /\ e = <<>> /\ ~pipe.inStall
     \/ /\ s \in {"wait", "idle"} /\ e \in {<<"in">>, <<"in", "in">>}
        /\ psInst.scsi = "SENT_STATUS"
        /\ pipe.in = None /\ ~pipe.inStall

\* The command is not known: no status comes.
Stalled(s, e) ==
  /\ psInst.scsi = "IDLE" /\ job = "none"
  /\ NoDma /\ NoPacket
  /\ \/ /\ host.cmd.op = "UNKNOWN" /\ ~pipe.outStall
        /\ \/ s = "in" /\ e = <<>> /\ pipe.inStall
           \/ s = "status" /\ e \in {<<>>, <<"in">>} /\ ~pipe.inStall
     \/ /\ host.cmd.op = "SELECT" /\ ~pipe.inStall
        /\ command = host.cmd
        /\ \/ s \in {"out", "status"} /\ e = <<>> /\ pipe.outStall
           \/ s = "status" /\ e = <<"out">> /\ ~pipe.outStall

Phase(s, e) ==
  \/ Quiet(s, e)
  \/ /\ host.cmd # None
     /\ \/ Sent(s, e) \/ Obeyed(s, e) \/ Sending(s, e) \/ Receiving(s, e)
        \/ Ending(s, e) \/ Reporting(s, e) \/ Stalled(s, e)

\* A host that has been unplugged left its events in the mailbox.
Queued(s, e) ==
  \/ host.st = s /\ mbox = e
  \/ host.st = "off" /\ moves > 0 /\ mbox = Append(e, "disconnect")

Queues == {<<>>, <<"in">>, <<"out">>, <<"in", "in">>, <<"reset">>, <<"config">>, <<"getMaxLun">>,
           <<"config", "getMaxLun">>, <<"getMaxLun", "out">>, <<"config", "getMaxLun", "out">>}

Unplugged ==
  /\ host.st = "off" /\ mbox = <<>>
  /\ psInst.scsi = "IDLE" /\ NoDma
  /\ job \in {"none", "disconnect"}

Together ==
  \/ Unplugged
  \/ \E s \in HostStates \ {"off"}, e \in Queues : Queued(s, e) /\ Phase(s, e)

-----------------------------------------------------------------------------
(* After a host was lost: the machine is still in its command, and the     *)
(* next host's is not obeyed.  When that one has left too, the two may be  *)
(* together again.                                                         *)

\* The DMA works for a transfer only.
DmaOfTransfer ==
  /\ psInst.dmaIn <=> psInst.scsi = "SEND_BLOCKS"
  /\ pipe.dmaIn # None => psInst.scsi = "SEND_BLOCKS"
  /\ pipe.dmaOut => psInst.scsi = "RECEIVE_BLOCKS"

\* A configuration that has not been handled is the plug's last movement; one
\* that has been leaves no block awaited.
Configures(e) == e # <<>> /\ Head(e) = "config"

Configured(e) == IF Configures(e) THEN moves > 0 ELSE ~pipe.dmaOut

\* The next host enumerates, or is between two commands.
Enumerating(s, e) ==
  /\ psInst.scsi # "IDLE" /\ job \in {"none", "disconnect"}
  /\ NoPacket /\ Configured(e)
  /\ \/ s = "configured" /\ e \in {<<>>, <<"config">>}
     \/ s \in {"wait", "idle"} /\ e \in {<<>>, <<"getMaxLun">>, <<"config", "getMaxLun">>}

\* It has sent a command, and the last packet of a block of the lost one may
\* have reached the endpoint since.
Unheard(s, e) ==
  /\ psInst.scsi # "IDLE" /\ job \in {"none", "disconnect"}
  /\ s # "configured" /\ pipe.out # None /\ Configured(e)
  /\ \/ /\ e \in {<<"out">>, <<"getMaxLun", "out">>, <<"config", "getMaxLun", "out">>}
        /\ pipe.in = None
     \/ /\ e \in {<<"out", "in">>, <<"getMaxLun", "out", "in">>,
                  <<"config", "getMaxLun", "out", "in">>}
        /\ psInst.scsi = "SEND_BLOCKS" /\ pipe.dmaIn = None

\* The machine ignored the command, or took it for the block it waited for,
\* and goes on with the lost one; the command stays in the endpoint, which
\* takes no other.
Ignored(s, e) ==
  /\ job \in {"none", "sendNext", "receive"}
  /\ s # "configured" /\ pipe.out # None
  /\ psInst.scsi = "RECEIVE_BLOCKS" => e # <<"in">> /\ pipe.in = None
  /\ job = "sendNext" => pipe.dmaIn = None
  /\ job = "receive" => ~pipe.dmaOut
  /\ \/ e = <<>>
     \/ /\ e = <<"in">> /\ job = "none" /\ pipe.dmaIn = None
        /\ pipe.in = None \/ psInst.scsi = "SEND_BLOCKS"
     \/ e = <<"reset">> /\ s \in {"wait", "idle"}

Astray(s, e) ==
  /\ DmaOfTransfer /\ NoStall
  /\ Enumerating(s, e) \/ Unheard(s, e) \/ Ignored(s, e)

LongQueues == Queues \cup
  {<<"out", "in">>, <<"getMaxLun", "out", "in">>, <<"config", "getMaxLun", "out", "in">>}

Away ==
  /\ host.st = "off" /\ mbox = <<>>
  /\ psInst.scsi # "IDLE" /\ DmaOfTransfer
  /\ job \in {"none", "disconnect"}

OutOfStep ==
  \/ Away
  \/ \E s \in HostStates \ {"off"}, e \in LongQueues : Queued(s, e) /\ Astray(s, e)

InStep == aborted \/ Together \/ (lost /\ OutOfStep)

\* The inductive invariant.  A host that comes back while a handler still waits
\* for the flash may fetch an old status.
MscInv ==
  /\ DeviceInv
  /\ aborted => Len(mbox) = NUMMSGS
  /\ MaxMoves <= 1 => InStep
=============================================================================
